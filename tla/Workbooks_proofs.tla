-------------------------- MODULE Workbooks_proofs --------------------------
(***************************************************************************)
(* What an import or a copied week leaves, for any projects, accounts,     *)
(* roles and entries, any files and weeks, and whatever others delete or   *)
(* complete meanwhile.                                                     *)
(***************************************************************************)
EXTENDS Records_proofs

-----------------------------------------------------------------------------
(* What is worked out one step after the other.                            *)

\* The n-th value of a row of values, each made of the one before it.
Stepping(first, step, n, g) ==
  g = [k \in 0..n |-> IF k = 0 THEN first ELSE step[<<k, g[k - 1]>>]]
Steps(first, step, n) == CHOOSE g : Stepping(first, step, n, g)
StepsTo(first, step, n) == Steps(first, step, n)[n]
StepsIn(V, first, step) == first \in V /\ step \in [Nat \X V -> V]
Follows(V, first, step, n, f) ==
  f[0] = first /\ \A k \in 1..n : f[k - 1] \in V => f[k] = step[<<k, f[k - 1]>>]

\* There is always such a row,
LEMMA StepsExist ==
  ASSUME NEW first, NEW step, NEW n \in Nat
  PROVE  \E g : Stepping(first, step, n, g)
<1> DEFINE B == {k \in Nat : ~ \E g : Stepping(first, step, k, g)}
<1> SUFFICES ASSUME n \in B PROVE FALSE
  OBVIOUS
<1>1. PICK k \in B : \A j \in B : k <= j
  <2> HIDE DEF B
  <2>1. B \in SUBSET Nat
    BY DEF B
  <2> QED
    BY <2>1, Least
<1>2. k \in Nat /\ ~ \E g : Stepping(first, step, k, g)
  OBVIOUS
<1>3. CASE k = 0
  <2> DEFINE g == [j \in 0..k |-> first]
  <2>1. \A j \in 0..k : j = 0
    BY <1>3
  <2>2. g = [j \in 0..k |-> IF j = 0 THEN first ELSE step[<<j, g[j - 1]>>]]
    BY <2>1
  <2> HIDE DEF g
  <2> QED
    BY <1>2, <2>2 DEF Stepping
<1>4. CASE k # 0
  <2>1. k - 1 \in Nat /\ k - 1 \notin B
    BY <1>1, <1>2, <1>4
  <2>2. PICK h : Stepping(first, step, k - 1, h)
    BY <2>1
  <2> DEFINE g == [j \in 0..k |-> IF j = k THEN step[<<k, h[k - 1]>>] ELSE h[j]]
  <2>3. ASSUME NEW j \in 0..k
        PROVE  g[j] = IF j = 0 THEN first ELSE step[<<j, g[j - 1]>>]
    <3>1. CASE j = k
      <4>1. j # 0 /\ j - 1 \in 0..k /\ j - 1 # k
        BY <1>2, <1>4, <3>1
      <4>2. g[j - 1] = h[k - 1] /\ g[j] = step[<<k, h[k - 1]>>]
        BY <3>1, <4>1
      <4> HIDE DEF g
      <4> QED
        BY <3>1, <4>1, <4>2
    <3>2. CASE j # k
      <4>1. j \in 0..(k - 1) /\ (j # 0 => j - 1 \in 0..k /\ j - 1 # k)
        BY <1>2, <3>2
      <4>2. h[j] = IF j = 0 THEN first ELSE step[<<j, h[j - 1]>>]
        BY <2>2, <4>1 DEF Stepping
      <4>3. g[j] = h[j] /\ (j # 0 => g[j - 1] = h[j - 1])
        BY <3>2, <4>1
      <4> HIDE DEF g
      <4> QED
        BY <4>2, <4>3
    <3> QED
      BY <3>1, <3>2
  <2>4. g = [j \in 0..k |-> g[j]]
    OBVIOUS
  <2> HIDE DEF g
  <2>5. Stepping(first, step, k, g)
    BY <2>3, <2>4 DEF Stepping
  <2> QED
    BY <1>2, <2>5
<1> QED
  BY <1>3, <1>4

LEMMA StepsTaken ==
  ASSUME NEW first, NEW step, NEW n \in Nat
  PROVE  Stepping(first, step, n, Steps(first, step, n))
BY StepsExist DEF Steps

\* and whatever follows the same steps has the same values, for as long as they are
\* values the step is given for.
LEMMA StepsFollowed ==
  ASSUME NEW V, NEW first, NEW step, StepsIn(V, first, step), NEW n \in Nat, NEW f,
         Follows(V, first, step, n, f), NEW m \in Nat, n <= m
  PROVE  \A k \in 0..n : f[k] \in V /\ f[k] = Steps(first, step, m)[k]
<1> DEFINE g == Steps(first, step, m)
<1>1. Stepping(first, step, m, g)
  BY StepsTaken
<1> HIDE DEF g
<1> DEFINE B == {k \in 0..n : ~(f[k] \in V /\ f[k] = g[k])}
<1> SUFFICES ASSUME B # {} PROVE FALSE
  BY DEF g
<1>2. PICK k \in B : \A j \in B : k <= j
  <2> HIDE DEF B
  <2>1. B \in SUBSET Nat
    BY DEF B
  <2> QED
    BY <2>1, Least
<1>3. k \in 0..n /\ k \in 0..m /\ ~(f[k] \in V /\ f[k] = g[k])
  OBVIOUS
<1>4. g[k] = IF k = 0 THEN first ELSE step[<<k, g[k - 1]>>]
  BY <1>1, <1>3 DEF Stepping
<1>5. k # 0
  BY <1>3, <1>4 DEF StepsIn, Follows
<1>6. k - 1 \in 0..n /\ k - 1 \notin B /\ k \in 1..n /\ k \in Nat
  BY <1>2, <1>3, <1>5
<1>7. f[k - 1] \in V /\ f[k - 1] = g[k - 1]
  BY <1>6
<1>8. f[k] = step[<<k, f[k - 1]>>] /\ step[<<k, f[k - 1]>>] \in V
  BY <1>6, <1>7 DEF StepsIn, Follows
<1> QED
  BY <1>3, <1>4, <1>5, <1>7, <1>8

\* So a row of values is one to go by, and a longer row begins with it.
LEMMA OneStepMore ==
  ASSUME NEW V, NEW first, NEW step, StepsIn(V, first, step), NEW n \in Nat
  PROVE  /\ StepsTo(first, step, n) \in V
         /\ StepsTo(first, step, 0) = first
         /\ StepsTo(first, step, n + 1) = step[<<n + 1, StepsTo(first, step, n)>>]
<1> DEFINE f == Steps(first, step, n)
           z == Steps(first, step, 0)
           g == Steps(first, step, n + 1)
<1>0. n + 1 \in Nat /\ 0 \in Nat /\ n <= n + 1 /\ n <= n
  OBVIOUS
<1>1. Stepping(first, step, n, f) /\ Stepping(first, step, n + 1, g) /\ Stepping(first, step, 0, z)
  BY <1>0, StepsTaken
<1> HIDE DEF f, g, z
<1>2. f[0] = first /\ z[0] = first /\ \A k \in 1..n : f[k] = step[<<k, f[k - 1]>>]
  BY <1>1 DEF Stepping
<1>3. \A k \in 0..n : f[k] \in V /\ f[k] = Steps(first, step, n + 1)[k]
  <2>1. Follows(V, first, step, n, f)
    BY <1>2 DEF Follows
  <2> QED
    <3> DEFINE m == n + 1
    <3> HIDE DEF m
    <3>1. StepsIn(V, first, step) /\ n \in Nat
      OBVIOUS
    <3>2. m \in Nat /\ n <= m
      BY <1>0 DEF m
    <3>3. \A k \in 0..n : f[k] \in V /\ f[k] = Steps(first, step, m)[k]
      BY <2>1, <3>1, <3>2, StepsFollowed
    <3> QED
      BY <3>3 DEF m
<1>4. g[n + 1] = step[<<n + 1, g[n]>>]
  <2>1. n + 1 \in 0..(n + 1) /\ n + 1 # 0 /\ (n + 1) - 1 = n
    OBVIOUS
  <2> QED
    BY <1>1, <2>1 DEF Stepping
<1> QED
  BY <1>2, <1>3, <1>4 DEF StepsTo, f, g, z

\* A function that is given by such steps.
LEMMA FunctionOfSteps ==
  ASSUME NEW V, NEW first, NEW step, StepsIn(V, first, step), NEW n \in Nat
  PROVE  \E f : /\ f = [k \in 0..n |-> f[k]]
                /\ \A k \in 0..n : f[k] \in V
                /\ f[0] = first
                /\ \A k \in 1..n : f[k] = step[<<k, f[k - 1]>>]
<1> DEFINE f == [j \in 0..n |-> StepsTo(first, step, j)]
<1>1. \A k \in 0..n : k \in Nat /\ (k = 0 \/ (k - 1 \in 0..n /\ k - 1 \in Nat /\ (k - 1) + 1 = k))
  OBVIOUS
<1>2. \A k \in 0..n : f[k] \in V
  BY <1>1, OneStepMore
<1>3. f[0] = first
  <2>1. StepsTo(first, step, n) \in V /\ StepsTo(first, step, 0) = first
    BY OneStepMore
  <2>2. 0 \in 0..n
    OBVIOUS
  <2> QED
    BY <2>1, <2>2
<1>4. ASSUME NEW k \in 1..n PROVE f[k] = step[<<k, f[k - 1]>>]
  <2>1. k - 1 \in Nat /\ (k - 1) + 1 = k /\ k \in 0..n /\ k - 1 \in 0..n
    OBVIOUS
  <2> DEFINE j == k - 1
  <2>2. j \in Nat /\ j + 1 = k /\ j \in 0..n
    BY <2>1
  <2>3. StepsTo(first, step, j + 1) = step[<<j + 1, StepsTo(first, step, j)>>]
    BY <2>2, OneStepMore
  <2> QED
    BY <2>1, <2>2, <2>3
<1>5. f = [k \in 0..n |-> f[k]]
  OBVIOUS
<1> HIDE DEF f
<1> QED
  BY <1>2, <1>3, <1>4, <1>5

RowsOf(entries, u, d) == {i \in DOMAIN entries : entries[i].user = u /\ entries[i].day = d}
HoursOn(entries) == [i \in DOMAIN entries |-> entries[i].hours]

LEMMA HoursAreSum ==
  ASSUME NEW entries \in Seq(Entry), NEW u, NEW d
  PROVE  /\ Hours(entries, u, d) = SumOf(HoursOn(entries), RowsOf(entries, u, d))
         /\ IsFiniteSet(RowsOf(entries, u, d))
         /\ \A i \in RowsOf(entries, u, d) : HoursOn(entries)[i] \in Nat /\ i \in 1..Len(entries)
         /\ Hours(entries, u, d) \in Nat
<1> DEFINE I == RowsOf(entries, u, d)
           f == [i \in I |-> entries[i].hours]
<1>1. Hours(entries, u, d) = SumOf(f, I)
  BY DEF Hours, SumFunction, SumOf, RowsOf
<1>2. DOMAIN entries = 1..Len(entries) /\ Len(entries) \in Nat /\ \A i \in 1..Len(entries) : entries[i] \in Entry
  OBVIOUS
<1>3. I \in SUBSET (1..Len(entries)) /\ I \in SUBSET (DOMAIN entries)
  BY <1>2 DEF RowsOf
<1>4. IsFiniteSet(I)
  <2>1. IsFiniteSet(1..Len(entries))
    BY <1>2, FS_Interval
  <2> QED
    BY <1>3, <2>1, FS_Subset
<1>5. \A i \in I : f[i] = HoursOn(entries)[i] /\ HoursOn(entries)[i] \in Nat
  <2>1. \A e \in Entry : e.hours \in Nat
    BY DEF Entry
  <2> QED
    BY <1>2, <1>3, <2>1 DEF HoursOn
<1> HIDE DEF f, I
<1>6. SumOf(f, I) = SumOf(HoursOn(entries), I)
  BY <1>4, <1>5, SumSame
<1>7. SumOf(HoursOn(entries), I) \in Nat
  BY <1>4, <1>5, NoLessThanNone
<1> QED
  BY <1>1, <1>3, <1>4, <1>5, <1>6, <1>7 DEF I

LEMMA HoursWithRow ==
  ASSUME NEW entries \in Seq(Entry), NEW e \in Entry, NEW u, NEW d
  PROVE  Hours(Append(entries, e), u, d) =
           Hours(entries, u, d) + (IF e.user = u /\ e.day = d THEN e.hours ELSE 0)
<1> DEFINE more == Append(entries, e)
           n == Len(entries) + 1
           I == RowsOf(entries, u, d)
           J == RowsOf(more, u, d)
<1>1. more \in Seq(Entry) /\ n \in Nat /\ DOMAIN more = 1..n /\ DOMAIN entries = 1..(n - 1)
      /\ more[n] = e /\ \A i \in 1..(n - 1) : more[i] = entries[i]
  OBVIOUS
<1> HIDE DEF more, n
<1>2. \A i \in 1..n : i = n \/ i \in 1..(n - 1)
  BY <1>1
<1>3. I \in SUBSET J /\ n \notin I /\ \A i \in J : i = n \/ i \in I
  BY <1>1, <1>2 DEF RowsOf
<1>4. n \in J <=> e.user = u /\ e.day = d
  <2>1. n \in 1..n
    BY <1>1 DEF n
  <2>2. n \in DOMAIN more /\ more[n] = e
    BY <1>1, <2>1
  <2> QED
    BY <2>2 DEF RowsOf
<1>5. /\ Hours(more, u, d) = SumOf(HoursOn(more), J) /\ IsFiniteSet(J)
      /\ \A i \in J : HoursOn(more)[i] \in Nat
      /\ Hours(entries, u, d) = SumOf(HoursOn(entries), I) /\ Hours(entries, u, d) \in Nat /\ IsFiniteSet(I)
  BY <1>1, HoursAreSum
<1>6. \A i \in I : HoursOn(more)[i] = HoursOn(entries)[i]
  BY <1>1 DEF RowsOf, HoursOn
<1> HIDE DEF I, J
<1>7. SumOf(HoursOn(more), I) = SumOf(HoursOn(entries), I)
  BY <1>5, <1>6, SumSame
<1>8. CASE n \in J
  <2>1. J \ {n} = I
    BY <1>3
  <2>2. SumOf(HoursOn(more), J) = HoursOn(more)[n] + SumOf(HoursOn(more), J \ {n})
    BY <1>5, <1>8, SumWith DEF Numbers
  <2>3. n \in 1..n
    BY <1>1 DEF n
  <2>4. HoursOn(more)[n] = e.hours
    BY <1>1, <2>3 DEF HoursOn
  <2>5. e.hours \in Nat
    BY DEF Entry
  <2>6. e.user = u /\ e.day = d
    BY <1>4, <1>8
  <2>7. SumOf(HoursOn(more), J) = e.hours + SumOf(HoursOn(entries), I)
    BY <1>7, <2>1, <2>2, <2>4
  <2>8. Hours(more, u, d) = Hours(entries, u, d) + e.hours
    BY <1>5, <2>5, <2>7
  <2> QED
    BY <2>6, <2>8 DEF more
<1>9. CASE n \notin J
  <2>1. J = I
    BY <1>3, <1>9
  <2>2. Hours(more, u, d) = Hours(entries, u, d) + 0
    BY <1>5, <1>7, <2>1
  <2> QED
    BY <1>4, <1>9, <2>2 DEF more
<1> QED
  BY <1>8, <1>9

LEMMA SumOfNamed ==
  ASSUME NEW num1, NEW num2, NEW S, IsFiniteSet(S), NEW T, NEW name \in [S -> T], T = {name[x] : x \in S},
         Numbers(num1, S), \A x, y \in S : name[x] = name[y] => x = y,
         \A x \in S : num2[name[x]] = num1[x]
  PROVE  SumOf(num2, T) = SumOf(num1, S)
BY SumRenamed

LEMMA HoursTogether ==
  ASSUME NEW entries \in Seq(Entry), NEW rows \in Seq(Entry), NEW u, NEW d
  PROVE  Hours(entries \o rows, u, d) = Hours(entries, u, d) + Hours(rows, u, d)
<1> DEFINE all == entries \o rows
           n == Len(entries)
           I == RowsOf(entries, u, d)
           J == RowsOf(rows, u, d)
           later == [j \in J |-> n + j]
           L == {later[j] : j \in J}
<1>1. /\ all \in Seq(Entry) /\ n \in Nat /\ DOMAIN all = 1..(n + Len(rows)) /\ Len(rows) \in Nat
      /\ \A i \in 1..n : all[i] = entries[i] /\ \A j \in 1..Len(rows) : all[n + j] = rows[j]
      /\ DOMAIN entries = 1..n /\ DOMAIN rows = 1..Len(rows)
  OBVIOUS
<1> HIDE DEF all, n
<1>a. \A j \in 1..Len(rows) : all[n + j] = rows[j]
  BY DEF all, n
<1>2. RowsOf(all, u, d) = I \union L /\ I \intersect L = {}
  <2>1. \A i \in 1..(n + Len(rows)) : i \in 1..n \/ (i - n \in 1..Len(rows) /\ i = n + (i - n))
    BY <1>1
  <2>2. \A j \in 1..Len(rows) : n + j \in 1..(n + Len(rows)) /\ n + j \notin 1..n
    BY <1>1
  <2>3. \A i \in 1..n : i \in 1..(n + Len(rows))
    BY <1>1
  <2>4. ASSUME NEW i \in RowsOf(all, u, d) PROVE i \in I \union L
    <3>1. i \in 1..(n + Len(rows)) /\ all[i].user = u /\ all[i].day = d
      BY <1>1 DEF RowsOf
    <3>2. CASE i \in 1..n
      BY <1>1, <3>1, <3>2 DEF RowsOf
    <3>3. CASE i \notin 1..n
      <4> DEFINE j == i - n
      <4>1. j \in 1..Len(rows) /\ i = n + j
        BY <2>1, <3>1, <3>3
      <4> HIDE DEF j
      <4>2. j \in J
        BY <1>1, <1>a, <3>1, <4>1 DEF RowsOf
      <4> QED
        BY <4>1, <4>2
    <3> QED
      BY <3>2, <3>3
  <2>5. \A i \in I : i \in 1..n /\ i \in RowsOf(all, u, d)
    BY <1>1, <2>3 DEF RowsOf
  <2>6. \A j \in J : n + j \notin 1..n /\ n + j \in RowsOf(all, u, d)
    BY <1>1, <1>a, <2>2 DEF RowsOf
  <2> QED
    BY <2>4, <2>5, <2>6
<1>3. /\ Hours(all, u, d) = SumOf(HoursOn(all), RowsOf(all, u, d)) /\ IsFiniteSet(RowsOf(all, u, d))
      /\ \A i \in RowsOf(all, u, d) : HoursOn(all)[i] \in Nat
  BY <1>1, HoursAreSum
<1>4. /\ Hours(entries, u, d) = SumOf(HoursOn(entries), I) /\ IsFiniteSet(I)
      /\ Hours(rows, u, d) = SumOf(HoursOn(rows), J) /\ IsFiniteSet(J)
      /\ \A j \in J : HoursOn(rows)[j] \in Nat
  BY HoursAreSum
<1>5. \A i \in I : HoursOn(all)[i] = HoursOn(entries)[i]
  BY <1>1 DEF RowsOf, HoursOn
<1>6. \A j \in J : HoursOn(all)[later[j]] = HoursOn(rows)[j]
  <2>1. \A j \in 1..Len(rows) : n + j \in 1..(n + Len(rows))
    BY <1>1
  <2> QED
    BY <1>1, <1>a, <2>1 DEF RowsOf, HoursOn
<1>7. later \in [J -> Nat] /\ \A x, y \in J : later[x] = later[y] => x = y
  BY <1>1 DEF RowsOf
<1> HIDE DEF I, J, later
<1>8. SumOf(HoursOn(all), L) = SumOf(HoursOn(rows), J)
  <2>1. Numbers(HoursOn(rows), J)
    BY <1>4 DEF Numbers
  <2> DEFINE a == HoursOn(all)
             b == HoursOn(rows)
  <2>2. \A j \in J : a[later[j]] = b[j]
    BY <1>6
  <2>5. L = {later[j] : j \in J} /\ Numbers(b, J)
    BY <2>1
  <2> HIDE DEF a, b, L
  <2>3. IsFiniteSet(J) /\ later \in [J -> L] /\ (\A x, y \in J : later[x] = later[y] => x = y)
    BY <1>4, <1>7, <2>5
  <2>4. SumOf(a, L) = SumOf(b, J)
    BY <2>2, <2>3, <2>5, SumOfNamed
  <2> QED
    BY <2>4 DEF a, b
<1>9. SumOf(HoursOn(all), I) = SumOf(HoursOn(entries), I)
  BY <1>4, <1>5, SumSame
<1> HIDE DEF L
<1>10. IsFiniteSet(L)
  BY <1>2, <1>3, FS_Subset
<1>11. SumOf(HoursOn(all), I \union L) = SumOf(HoursOn(all), I) + SumOf(HoursOn(all), L)
  BY <1>2, <1>3, <1>4, <1>10, SumOfTwo DEF Numbers
<1> QED
  BY <1>2, <1>3, <1>4, <1>8, <1>9, <1>11 DEF all

\* A row that fits into its day leaves no day overfilled.
LEMMA FitsIn ==
  ASSUME NEW was \in Seq(Entry), NEW rows \in Seq(Entry), NEW e \in Entry, NotOverfilled(was \o rows),
         Hours(was, e.user, e.day) + Hours(rows, e.user, e.day) + e.hours <= Cap
  PROVE  NotOverfilled(was \o Append(rows, e))
<1> DEFINE all == was \o rows
           n == Len(all) + 1
           more == Append(all, e)
<1>1. was \o Append(rows, e) = more /\ all \in Seq(Entry)
  OBVIOUS
<1>2. /\ n \in Nat /\ DOMAIN more = 1..n /\ DOMAIN all = 1..(n - 1) /\ more[n] = e
      /\ \A i \in 1..n : i = n \/ i \in 1..(n - 1)
  BY <1>1
<1>3. \A i \in 1..(n - 1) : more[i] = all[i]
  BY <1>1
<1>4. \A u, d : Hours(all, u, d) = Hours(was, u, d) + Hours(rows, u, d)
  BY HoursTogether
<1>5. \A u, d : Hours(more, u, d) = Hours(all, u, d) + (IF e.user = u /\ e.day = d THEN e.hours ELSE 0)
  BY <1>1, HoursWithRow
<1>6. \A u, d : Hours(all, u, d) \in Nat
  BY <1>1, HoursAreSum
<1> HIDE DEF all, n, more
<1>7. Hours(more, e.user, e.day) <= Cap
  BY <1>4, <1>5
<1>8. ASSUME NEW i \in 1..(n - 1) PROVE Hours(more, more[i].user, more[i].day) <= Cap
  <2> DEFINE u == all[i].user
             d == all[i].day
  <2>1. Hours(all, u, d) <= Cap
    BY <1>2 DEF NotOverfilled, all
  <2>2. CASE e.user = u /\ e.day = d
    BY <1>3, <1>7, <2>2
  <2>3. CASE ~(e.user = u /\ e.day = d)
    <3>1. Hours(more, u, d) = Hours(all, u, d) + 0
      BY <1>5, <2>3
    <3> QED
      BY <1>3, <1>6, <2>1, <3>1
  <2> QED
    BY <2>2, <2>3
<1>9. \A i \in DOMAIN more : Hours(more, more[i].user, more[i].day) <= Cap
  BY <1>2, <1>7, <1>8
<1> QED
  BY <1>1, <1>9 DEF NotOverfilled

-----------------------------------------------------------------------------
(* What a file of entries plans.                                           *)

LEMMA FirstNamed ==
  ASSUME NEW s, Store(s), NEW name
  PROVE  findProject(s, name) \in Nat
<1> DEFINE named == {i \in DOMAIN s.projects : s.projects[i].there /\ s.projects[i].name = name}
<1>1. named \in SUBSET Nat
  BY DEF Store
<1>2. CASE named = {}
  BY <1>2 DEF findProject
<1>3. CASE named # {}
  <2>1. \E i \in named : \A j \in named : i <= j
    BY <1>1, <1>3, Least
  <2> QED
    BY <1>1, <1>3, <2>1 DEF findProject
<1> QED
  BY <1>2, <1>3

\* What is planned when a part of the rows is: rows that fit into their days.
PlansOf(s) == {p \in [rows : Seq(Entry), rejected : Nat] : NotOverfilled(s.entries \o p.rows)}
NothingPlanned == [rows |-> <<>>, rejected |-> 0]
PlansRow(s, rows) ==
  [x \in Nat \X PlansOf(s) |-> IF x[1] \in DOMAIN rows THEN planEntry(s, x[2], rows[x[1]]) ELSE x[2]]

LEMMA RowPlanned ==
  ASSUME NEW s, Store(s), NEW p \in PlansOf(s), NEW row \in RowOf("entries")
  PROVE  planEntry(s, p, row) \in PlansOf(s)
<1> DEFINE r == planRow(s, p.rows, row)
           e == r.entry
<1>1. row \in [user : Text, project : Text, day : Nat, hours : Nat]
  BY DEF RowOf
<1>2. p.rows \in Seq(Entry) /\ p.rejected \in Nat /\ NotOverfilled(s.entries \o p.rows)
      /\ p = [rows |-> p.rows, rejected |-> p.rejected]
  BY DEF PlansOf
<1>3. s.entries \in Seq(Entry)
  BY DEF Store
<1>4. e \in Entry
  <2>1. peopleByName(s, row.user) \in Text
    <3>1. "" \in Text /\ "me" \in Text
      BY WorkbooksAssumption
    <3> QED
      BY <1>1, <3>1 DEF peopleByName, Actor
  <2>2. findProject(s, row.project) \in Nat
    BY FirstNamed
  <2> QED
    BY <1>1, <2>1, <2>2 DEF planRow, Entry
<1>5. CASE r.problem
  <2>1. planEntry(s, p, row) = [rows |-> p.rows, rejected |-> p.rejected + 1]
    BY <1>2, <1>5 DEF planEntry
  <2> QED
    BY <1>2, <2>1 DEF PlansOf
<1>6. CASE ~r.problem
  <2>1. planEntry(s, p, row) = [rows |-> Append(p.rows, e), rejected |-> p.rejected]
    BY <1>2, <1>6 DEF planEntry
  <2>2. ~overTheDay(s, p.rows, e.user, e.day, e.hours)
    BY <1>6 DEF planRow
  <2>3. ~(Hours(s.entries, e.user, e.day) + Hours(p.rows, e.user, e.day) + e.hours > Cap)
    BY <2>2 DEF overTheDay
  <2>4. Hours(s.entries, e.user, e.day) \in Nat /\ Hours(p.rows, e.user, e.day) \in Nat
    BY <1>2, <1>3, HoursAreSum
  <2>5. e.hours \in Nat /\ Cap \in Nat
    BY <1>4, WorkbooksAssumption DEF Entry
  <2> HIDE DEF e
  <2>6. NotOverfilled(s.entries \o Append(p.rows, e))
    BY <1>2, <1>3, <1>4, <2>3, <2>4, <2>5, FitsIn
  <2>7. Append(p.rows, e) \in Seq(Entry)
    BY <1>2, <1>4
  <2> DEFINE q == [rows |-> Append(p.rows, e), rejected |-> p.rejected]
  <2>8. q \in [rows : Seq(Entry), rejected : Nat] /\ q.rows = Append(p.rows, e)
    BY <1>2, <2>7
  <2> QED
    BY <2>1, <2>6, <2>8 DEF PlansOf
<1> QED
  BY <1>5, <1>6

LEMMA EntriesPlanned ==
  ASSUME NEW s, Store(s), NotOverfilled(s.entries), NEW rows \in Seq(RowOf("entries"))
  PROVE  planEntries(s, rows) \in PlansOf(s)
<1> DEFINE V == PlansOf(s)
           first == NothingPlanned
           step == PlansRow(s, rows)
           n == Len(rows)
           Is(g) == g = [k \in 0..n |-> IF k = 0 THEN [rows |-> <<>>, rejected |-> 0] ELSE planEntry(s, g[k - 1], rows[k])]
           h == CHOOSE g : Is(g)
<1>1. n \in Nat /\ DOMAIN rows = 1..n /\ \A k \in 1..n : rows[k] \in RowOf("entries") /\ k \in Nat
  OBVIOUS
<1>2. StepsIn(V, first, step)
  <2>1. first \in V
    <3>1. s.entries \o <<>> = s.entries
      BY DEF Store
    <3>2. first \in [rows : Seq(Entry), rejected : Nat] /\ first.rows = <<>>
      BY DEF NothingPlanned
    <3> HIDE DEF first
    <3> QED
      BY <3>1, <3>2 DEF PlansOf
  <2>2. step \in [Nat \X V -> V]
    BY <1>1, RowPlanned DEF PlansRow
  <2> QED
    BY <2>1, <2>2 DEF StepsIn
<1>3. \A k \in 1..n : \A p \in V : step[<<k, p>>] = planEntry(s, p, rows[k])
  BY <1>1 DEF PlansRow
<1>4. planEntries(s, rows) = h[n]
  BY DEF planEntries
<1> HIDE DEF V, step, n
<1>5. PICK f : /\ f = [k \in 0..n |-> f[k]]
               /\ \A k \in 0..n : f[k] \in V
               /\ f[0] = first
               /\ \A k \in 1..n : f[k] = step[<<k, f[k - 1]>>]
  <2> HIDE DEF first
  <2> QED
    BY <1>1, <1>2, FunctionOfSteps
<1>6. Is(f)
  <2>2. \A k \in 0..n : k # 0 => k \in 1..n /\ k - 1 \in 0..n
    BY <1>1
  <2>3. \A k \in 0..n : f[k] = IF k = 0 THEN first ELSE planEntry(s, f[k - 1], rows[k])
    BY <1>3, <1>5, <2>2
  <2> QED
    BY <1>5, <2>3 DEF NothingPlanned
<1>7. Is(h)
  <2> HIDE DEF Is
  <2> QED
    BY <1>6
<1> HIDE DEF h
<1>8. h[0] = first /\ \A k \in 1..n : h[k] = planEntry(s, h[k - 1], rows[k])
  <2>1. 0 \in 0..n /\ \A k \in 1..n : k \in 0..n /\ k # 0
    BY <1>1
  <2> QED
    BY <1>7, <2>1 DEF NothingPlanned
<1>9. Follows(V, first, step, n, h)
  BY <1>3, <1>8 DEF Follows
<1>10. n <= n /\ n \in 0..n
  BY <1>1
<1>11. \A k \in 0..n : h[k] \in V /\ h[k] = Steps(first, step, n)[k]
  <2> HIDE DEF first, Is
  <2> QED
    BY <1>1, <1>2, <1>9, <1>10, StepsFollowed
<1> QED
  BY <1>4, <1>10, <1>11 DEF V

-----------------------------------------------------------------------------
(* The members of a sequence that are among some.                          *)

\* Among sequences that are not all of them there is one that is longer by one than one that is.
LEMMA ShortestOf ==
  ASSUME NEW S, NEW B \in SUBSET Seq(S), <<>> \notin B, B # {}
  PROVE  \E q \in Seq(S), e \in S : q \notin B /\ Append(q, e) \in B
<1> DEFINE N == {Len(q) : q \in B}
<1>1. N \in SUBSET Nat /\ N # {}
  <2>1. \A q \in B : q \in Seq(S) /\ Len(q) \in Nat
    OBVIOUS
  <2> QED
    BY <2>1
<1>2. PICK n \in N : \A m \in N : n <= m
  BY <1>1, Least
<1>3. PICK r \in B : Len(r) = n
  BY <1>2
<1>4. r \in Seq(S) /\ r # <<>> /\ Len(r) \in Nat
  BY <1>3
<1>5. PICK q, e : q \in Seq(S) /\ e \in S /\ r = Append(q, e) /\ Len(q) < Len(r) /\ Len(q) \in Nat
  <2> DEFINE k == Len(r) - 1
             q == [i \in 1..k |-> r[i]]
  <2>1. k \in Nat /\ Len(r) \in 1..Len(r) /\ \A i \in 1..k : i \in 1..Len(r)
    BY <1>4
  <2>2. q \in Seq(S) /\ Len(q) = k /\ r[Len(r)] \in S
    BY <1>4, <2>1
  <2>3. r = Append(q, r[Len(r)])
    BY <1>4, <2>1, <2>2
  <2>4. Len(q) < Len(r) /\ Len(q) \in Nat
    BY <1>4, <2>1, <2>2
  <2> HIDE DEF q, k
  <2> QED
    BY <2>2, <2>3, <2>4
<1>6. q \notin B
  BY <1>2, <1>3, <1>5
<1> QED
  BY <1>5, <1>6

ChoosesFrom(S, seq, those) ==
  [x \in Nat \X Seq(S \intersect those) |->
     IF x[1] \in DOMAIN seq /\ seq[x[1]] \in those THEN Append(x[2], seq[x[1]]) ELSE x[2]]

LEMMA ChoosesIn ==
  ASSUME NEW S, NEW seq \in Seq(S), NEW those
  PROVE  StepsIn(Seq(S \intersect those), <<>>, ChoosesFrom(S, seq, those))
<1> DEFINE V == Seq(S \intersect those)
<1>1. ASSUME NEW x \in Nat \X V
      PROVE  (IF x[1] \in DOMAIN seq /\ seq[x[1]] \in those THEN Append(x[2], seq[x[1]]) ELSE x[2]) \in V
  <2>1. x[1] \in DOMAIN seq => seq[x[1]] \in S
    OBVIOUS
  <2> QED
    BY <2>1
<1>2. <<>> \in V
  OBVIOUS
<1> HIDE DEF V
<1>3. [x \in Nat \X V |-> IF x[1] \in DOMAIN seq /\ seq[x[1]] \in those THEN Append(x[2], seq[x[1]]) ELSE x[2]]
        \in [Nat \X V -> V]
  BY <1>1
<1> QED
  BY <1>2, <1>3 DEF StepsIn, ChoosesFrom, V

LEMMA ChosenInSteps ==
  ASSUME NEW S, NEW seq \in Seq(S), NEW those
  PROVE  /\ Chosen(seq, those) = StepsTo(<<>>, ChoosesFrom(S, seq, those), Len(seq))
         /\ Chosen(seq, those) \in Seq(S \intersect those)
<1> DEFINE V == Seq(S \intersect those)
           first == <<>>
           step == ChoosesFrom(S, seq, those)
           n == Len(seq)
           Is(g) == g = [k \in 0..n |-> IF k = 0 THEN <<>>
                                        ELSE IF seq[k] \in those THEN Append(g[k - 1], seq[k]) ELSE g[k - 1]]
           h == CHOOSE g : Is(g)
<1>1. n \in Nat /\ DOMAIN seq = 1..n
  OBVIOUS
<1>2. StepsIn(V, first, step)
  BY ChoosesIn
<1>3. \A k \in 1..n : \A p \in V : step[<<k, p>>] = IF seq[k] \in those THEN Append(p, seq[k]) ELSE p
  BY <1>1 DEF ChoosesFrom
<1>4. Chosen(seq, those) = h[n]
  BY DEF Chosen
<1> HIDE DEF V, step, n
<1>5. PICK f : /\ f = [k \in 0..n |-> f[k]]
               /\ \A k \in 0..n : f[k] \in V
               /\ f[0] = first
               /\ \A k \in 1..n : f[k] = step[<<k, f[k - 1]>>]
  <2> HIDE DEF first
  <2> QED
    BY <1>1, <1>2, FunctionOfSteps
<1>6. Is(f)
  <2>2. \A k \in 0..n : k # 0 => k \in 1..n /\ k - 1 \in 0..n
    BY <1>1
  <2>3. \A k \in 0..n : f[k] = IF k = 0 THEN <<>>
                               ELSE IF seq[k] \in those THEN Append(f[k - 1], seq[k]) ELSE f[k - 1]
    BY <1>3, <1>5, <2>2
  <2> QED
    BY <1>5, <2>3
<1>7. Is(h)
  <2> HIDE DEF Is
  <2> QED
    BY <1>6
<1> HIDE DEF h
<1>8. h[0] = first /\ \A k \in 1..n : h[k] = IF seq[k] \in those THEN Append(h[k - 1], seq[k]) ELSE h[k - 1]
  <2>1. 0 \in 0..n /\ \A k \in 1..n : k \in 0..n /\ k # 0
    BY <1>1
  <2> QED
    BY <1>7, <2>1
<1>9. Follows(V, first, step, n, h)
  BY <1>3, <1>8 DEF Follows
<1>10. n <= n /\ n \in 0..n
  BY <1>1
<1>11. \A k \in 0..n : h[k] \in V /\ h[k] = Steps(first, step, n)[k]
  <2> HIDE DEF first, Is
  <2> QED
    BY <1>1, <1>2, <1>9, <1>10, StepsFollowed
<1> QED
  BY <1>4, <1>10, <1>11 DEF V, step, n, StepsTo

LEMMA ChosenOfNothing == ASSUME NEW those PROVE Chosen(<<>>, those) = <<>>
<1>1. <<>> \in Seq({}) /\ Len(<<>>) = 0
  OBVIOUS
<1> DEFINE step == ChoosesFrom({}, <<>>, those)
<1>2. Chosen(<<>>, those) = StepsTo(<<>>, step, 0)
  BY <1>1, ChosenInSteps
<1>3. StepsIn(Seq({} \intersect those), <<>>, step)
  BY <1>1, ChoosesIn
<1> HIDE DEF step
<1>4. StepsTo(<<>>, step, 0) = <<>>
  <2> DEFINE V == Seq({} \intersect those)
             n == 0
  <2>1. StepsIn(V, <<>>, step) /\ n \in Nat
    BY <1>3
  <2> HIDE DEF V, n
  <2>2. StepsTo(<<>>, step, n) \in V /\ StepsTo(<<>>, step, 0) = <<>>
    BY <2>1, OneStepMore
  <2> QED
    BY <2>2
<1> QED
  BY <1>2, <1>4

LEMMA ChosenWithOne ==
  ASSUME NEW S, NEW seq \in Seq(S), NEW e \in S, NEW those
  PROVE  Chosen(Append(seq, e), those) =
           IF e \in those THEN Append(Chosen(seq, those), e) ELSE Chosen(seq, those)
<1> DEFINE V == Seq(S \intersect those)
           more == Append(seq, e)
           n == Len(seq)
           m == n + 1
           step == ChoosesFrom(S, seq, those)
           next == ChoosesFrom(S, more, those)
           f == Steps(<<>>, next, m)
<1>1. more \in Seq(S) /\ n \in Nat /\ m \in Nat /\ n <= m /\ Len(more) = m /\ m \in 0..m /\ m # 0 /\ m - 1 = n
  OBVIOUS
<1>2. DOMAIN more = 1..m /\ DOMAIN seq = 1..n /\ more[m] = e /\ \A i \in 1..n : more[i] = seq[i]
  OBVIOUS
<1>3. /\ StepsIn(V, <<>>, step) /\ StepsIn(V, <<>>, next)
      /\ Chosen(seq, those) = StepsTo(<<>>, step, n) /\ Chosen(more, those) = StepsTo(<<>>, next, m)
  BY <1>1, ChoosesIn, ChosenInSteps
<1>4. \A k \in 1..n : \A p \in V : next[<<k, p>>] = step[<<k, p>>]
  <2>1. \A k \in 1..n : k \in 1..m /\ k \in Nat
    BY <1>1
  <2> HIDE DEF more, n, m
  <2> QED
    BY <1>2, <2>1 DEF ChoosesFrom
<1>5. \A p \in V : next[<<m, p>>] = IF e \in those THEN Append(p, e) ELSE p
  <2>1. m \in 1..m
    BY <1>1
  <2> HIDE DEF more, n, m
  <2> QED
    BY <1>1, <1>2, <2>1 DEF ChoosesFrom
<1> HIDE DEF V, more, n, m, step, next
<1>6. Stepping(<<>>, next, m, f)
  BY <1>1, StepsTaken
<1> HIDE DEF f
<1>7. f[0] = <<>> /\ \A k \in 1..m : f[k] = next[<<k, f[k - 1]>>]
  BY <1>1, <1>6 DEF Stepping
<1>8. Follows(V, <<>>, step, n, f)
  <2>1. \A k \in 1..n : k \in 1..m
    BY <1>1
  <2> QED
    BY <1>4, <1>7, <2>1 DEF Follows
<1>9. \A k \in 0..n : f[k] \in V /\ f[k] = Steps(<<>>, step, n)[k]
  <2> DEFINE first == <<>>
             o == n
  <2>1. StepsIn(V, first, step) /\ Follows(V, first, step, n, f) /\ o \in Nat /\ n <= o /\ n \in Nat
    BY <1>1, <1>3, <1>8
  <2> HIDE DEF first, o
  <2>2. \A k \in 0..n : f[k] \in V /\ f[k] = Steps(first, step, o)[k]
    BY <2>1, StepsFollowed
  <2> QED
    BY <2>2 DEF first, o
<1>10. f[n] \in V /\ f[n] = Chosen(seq, those)
  BY <1>1, <1>3, <1>9 DEF StepsTo
<1>11. f[m] = next[<<m, f[n]>>] /\ f[m] = Chosen(more, those)
  BY <1>1, <1>3, <1>7 DEF StepsTo, f
<1> QED
  BY <1>5, <1>10, <1>11 DEF more

LEMMA ChosenTyped ==
  ASSUME NEW S, NEW seq \in Seq(S), NEW those
  PROVE  Chosen(seq, those) \in Seq(S) /\ Chosen(seq, those) \in Seq(S \intersect those)
<1>1. Chosen(seq, those) \in Seq(S \intersect those)
  BY ChosenInSteps
<1>2. Seq(S \intersect those) \in SUBSET Seq(S)
  OBVIOUS
<1> QED
  BY <1>1, <1>2

\* What is chosen of two sequences, one after the other, is what is chosen of each.
LEMMA ChosenOfBoth ==
  ASSUME NEW S, NEW a \in Seq(S), NEW b \in Seq(S), NEW those
  PROVE  Chosen(a \o b, those) = Chosen(a, those) \o Chosen(b, those)
<1> DEFINE B == {q \in Seq(S) : Chosen(a \o q, those) # Chosen(a, those) \o Chosen(q, those)}
<1> SUFFICES ASSUME b \in B PROVE FALSE
  OBVIOUS
<1>1. <<>> \notin B
  <2>1. a \o <<>> = a /\ Chosen(a, those) \o <<>> = Chosen(a, those)
    BY ChosenTyped
  <2> QED
    BY <2>1, ChosenOfNothing
<1>2. PICK q \in Seq(S), e \in S : q \notin B /\ Append(q, e) \in B
  <2>1. B \in SUBSET Seq(S)
    OBVIOUS
  <2> HIDE DEF B
  <2> QED
    BY <1>1, <2>1, ShortestOf
<1>3. a \o Append(q, e) = Append(a \o q, e) /\ a \o q \in Seq(S)
  OBVIOUS
<1> DEFINE c == Chosen(a, those)
           d == Chosen(q, those)
<1>4. Chosen(a \o q, those) = c \o d
  BY <1>2
<1>5. Chosen(a \o Append(q, e), those) = IF e \in those THEN Append(c \o d, e) ELSE c \o d
  <2> DEFINE aq == a \o q
  <2>1. aq \in Seq(S) /\ e \in S /\ Chosen(aq, those) = c \o d /\ a \o Append(q, e) = Append(aq, e)
    BY <1>3, <1>4
  <2> HIDE DEF aq, c, d, B
  <2>2. Chosen(Append(aq, e), those) = IF e \in those THEN Append(Chosen(aq, those), e) ELSE Chosen(aq, those)
    BY <2>1, ChosenWithOne, Zenon
  <2> QED
    BY <2>1, <2>2
<1>6. Chosen(Append(q, e), those) = IF e \in those THEN Append(d, e) ELSE d
  BY ChosenWithOne
<1>7. c \in Seq(S) /\ d \in Seq(S)
  BY ChosenTyped
<1> HIDE DEF c, d
<1>8. c \o Append(d, e) = Append(c \o d, e)
  BY <1>7
<1> QED
  BY <1>2, <1>5, <1>6, <1>8 DEF c

\* The same is chosen where the same are among them.
LEMMA ChosenTheSame ==
  ASSUME NEW S, NEW seq \in Seq(S), NEW these, NEW those, \A e \in S : e \in these <=> e \in those
  PROVE  Chosen(seq, these) = Chosen(seq, those)
<1> DEFINE B == {q \in Seq(S) : Chosen(q, these) # Chosen(q, those)}
<1> SUFFICES ASSUME seq \in B PROVE FALSE
  OBVIOUS
<1>1. <<>> \notin B
  BY ChosenOfNothing
<1>2. PICK q \in Seq(S), e \in S : q \notin B /\ Append(q, e) \in B
  <2>1. B \in SUBSET Seq(S)
    OBVIOUS
  <2> HIDE DEF B
  <2> QED
    BY <1>1, <2>1, ShortestOf
<1>3. Chosen(q, these) = Chosen(q, those) /\ Chosen(Append(q, e), these) # Chosen(Append(q, e), those)
  BY <1>2
<1>4. Chosen(Append(q, e), these) = IF e \in these THEN Append(Chosen(q, these), e) ELSE Chosen(q, these)
  BY ChosenWithOne
<1>5. Chosen(Append(q, e), those) = IF e \in those THEN Append(Chosen(q, those), e) ELSE Chosen(q, those)
  BY ChosenWithOne
<1> QED
  BY <1>3, <1>4, <1>5

LEMMA NoneChosen ==
  ASSUME NEW S, NEW seq \in Seq(S), NEW those, \A e \in S : e \notin those
  PROVE  Chosen(seq, those) = <<>>
<1>1. Chosen(seq, those) \in Seq(S \intersect those) /\ S \intersect those = {}
  BY ChosenTyped
<1>2. Chosen(seq, those) \in Seq({})
  BY <1>1
<1> HIDE DEF Chosen
<1> QED
  BY <1>2

-----------------------------------------------------------------------------
(* What writing a row of a sheet leaves.                                   *)

WithProjects(s, them) == [projects |-> them, accounts |-> s.accounts, roles |-> s.roles, entries |-> s.entries]
WithAccounts(s, them) == [projects |-> s.projects, accounts |-> them, roles |-> s.roles, entries |-> s.entries]
WithRoles(s, them) == [projects |-> s.projects, accounts |-> s.accounts, roles |-> them, entries |-> s.entries]

NewProject(row) ==
  [there |-> TRUE, name |-> row.name, owner |-> Actor,
   status |-> IF row.status = "" THEN "active" ELSE row.status,
   start |-> IF row.start = 0 THEN CurrentDay ELSE row.start]
ChangedProject(s, p) ==
  [there |-> s.projects[p.id].there, name |-> s.projects[p.id].name, owner |-> s.projects[p.id].owner,
   status |-> IF changesStatus(p) THEN p.row.status ELSE s.projects[p.id].status, start |-> p.row.start]
ChangedAccount(s, p) ==
  [name |-> IF p.row.name = "" THEN s.accounts[p.id].name ELSE p.row.name,
   external |-> s.accounts[p.id].external, system |-> s.accounts[p.id].system,
   role |-> IF p.row.role = "" THEN s.accounts[p.id].role ELSE p.row.role]
ChangedRole(s, p) ==
  [system |-> s.roles[p.id].system, shipped |-> s.roles[p.id].shipped,
   rights |-> IF p.row.rights = {} THEN s.roles[p.id].rights ELSE p.row.rights]

\* A place that is written twice holds what was written last.
LEMMA WrittenLast ==
  ASSUME NEW D, NEW t, t = [i \in D |-> t[i]], NEW id \in D, NEW x, NEW v
  PROVE  [[t EXCEPT ![id] = x] EXCEPT ![id] = v] = [t EXCEPT ![id] = v] /\ [t EXCEPT ![id] = x][id] = x
OBVIOUS

\* A part of a store, and a field of an account, that is written.
LEMMA PartWritten ==
  ASSUME NEW s, s = [projects |-> s.projects, accounts |-> s.accounts, roles |-> s.roles, entries |-> s.entries], NEW x
  PROVE  /\ [s EXCEPT !.projects = x] = WithProjects(s, x)
         /\ [s EXCEPT !.accounts = x] = WithAccounts(s, x)
         /\ [s EXCEPT !.roles = x] = WithRoles(s, x)
BY DEF WithProjects, WithAccounts, WithRoles

LEMMA AccountFields ==
  ASSUME NEW o, o = [name |-> o.name, external |-> o.external, system |-> o.system, role |-> o.role], NEW r, NEW n
  PROVE  /\ [o EXCEPT !.role = r] = [name |-> o.name, external |-> o.external, system |-> o.system, role |-> r]
         /\ [[name |-> o.name, external |-> o.external, system |-> o.system, role |-> r] EXCEPT !.name = n]
              = [name |-> n, external |-> o.external, system |-> o.system, role |-> r]
OBVIOUS

LEMMA ProjectCreated ==
  ASSUME NEW s, Store(s), NEW row \in RowOf("projects")
  PROVE  /\ createProject(s, row) = Wrote(WithProjects(s, Append(s.projects, NewProject(row))))
         /\ NewProject(row) \in Project
<1>1. row \in [name : Text, status : Text, start : Nat]
  BY DEF RowOf
<1>2. "me" \in Text /\ "active" \in Text /\ CurrentDay \in Nat
  BY WorkbooksAssumption
<1>3. NewProject(row) \in Project
  BY <1>1, <1>2 DEF NewProject, Project, Actor
<1> DEFINE new == NewProject(row)
<1>4. createProject(s, row) = Wrote([s EXCEPT !.projects = Append(@, new)])
  BY DEF createProject, NewProject
<1> HIDE DEF new
<1>5. [s EXCEPT !.projects = Append(@, new)] = WithProjects(s, Append(s.projects, new))
  <2>1. s = [projects |-> s.projects, accounts |-> s.accounts, roles |-> s.roles, entries |-> s.entries]
    BY DEF Store
  <2> DEFINE x == Append(s.projects, new)
  <2> HIDE DEF x
  <2>2. [s EXCEPT !.projects = x] = WithProjects(s, x)
    BY <2>1 DEF WithProjects
  <2> QED
    BY <2>2 DEF x
<1> QED
  BY <1>3, <1>4, <1>5 DEF new

LEMMA ProjectUpdated ==
  ASSUME NEW s, Store(s), NEW p, p.row \in RowOf("projects"), p.id \in DOMAIN s.projects
  PROVE  /\ [s EXCEPT !.projects[p.id].start = p.row.start,
                      !.projects[p.id].status = IF changesStatus(p) THEN p.row.status ELSE @]
              = WithProjects(s, [s.projects EXCEPT ![p.id] = ChangedProject(s, p)])
         /\ ChangedProject(s, p) \in Project
<1>1. p.row \in [name : Text, status : Text, start : Nat]
  BY DEF RowOf
<1> DEFINE id == p.id
           a == p.row.start
           b == p.row.status
           ch == changesStatus(p)
           t == s.projects
           o == t[id]
<1>2. t \in Seq(Project) /\ o \in Project /\ id \in DOMAIN t
  BY DEF Store
<1>3. o = [there |-> o.there, name |-> o.name, owner |-> o.owner, status |-> o.status, start |-> o.start]
  BY <1>2 DEF Project
<1>4. a \in Nat /\ b \in Text
  BY <1>1
<1>5. ChangedProject(s, p) = [there |-> o.there, name |-> o.name, owner |-> o.owner,
                              status |-> IF ch THEN b ELSE o.status, start |-> a]
  BY DEF ChangedProject
<1>6. [there |-> o.there, name |-> o.name, owner |-> o.owner, status |-> IF ch THEN b ELSE o.status, start |-> a] \in Project
  BY <1>2, <1>4 DEF Project
<1>7. [s EXCEPT !.projects[p.id].start = p.row.start,
                !.projects[p.id].status = IF changesStatus(p) THEN p.row.status ELSE @]
        = [s EXCEPT !.projects[id].start = a, !.projects[id].status = IF ch THEN b ELSE @]
  OBVIOUS
<1>8. s = [projects |-> t, accounts |-> s.accounts, roles |-> s.roles, entries |-> s.entries]
  BY DEF Store
<1> HIDE DEF id, a, b, ch, o, t
<1> DEFINE u == [t EXCEPT ![id].start = a, ![id].status = IF ch THEN b ELSE @]
           v == [there |-> o.there, name |-> o.name, owner |-> o.owner, status |-> IF ch THEN b ELSE o.status, start |-> a]
<1>9. u = [t EXCEPT ![id] = v]
  <2>1. t[id] = o /\ t = [i \in DOMAIN t |-> t[i]]
    BY <1>2 DEF o
  <2> DEFINE o1 == [there |-> o.there, name |-> o.name, owner |-> o.owner, status |-> o.status, start |-> a]
             t1 == [t EXCEPT ![id] = o1]
  <2>2. [o EXCEPT !.start = a] = o1
    BY <1>3
  <2>3. [t EXCEPT ![id].start = a] = t1
    BY <2>1, <2>2
  <2>4. t1[id] = o1 /\ [t1 EXCEPT ![id] = v] = [t EXCEPT ![id] = v]
    <3> DEFINE D == DOMAIN t
    <3>1. t = [i \in D |-> t[i]] /\ id \in D
      BY <1>2, <2>1
    <3> HIDE DEF o1, v, D
    <3> QED
      BY <3>1, WrittenLast
  <2>5. [o1 EXCEPT !.status = IF ch THEN b ELSE @] = v
    OBVIOUS
  <2> HIDE DEF t1, o1, v
  <2>6. u = [t1 EXCEPT ![id].status = IF ch THEN b ELSE @]
    BY <2>3
  <2>7. [t1 EXCEPT ![id].status = IF ch THEN b ELSE @] = [t1 EXCEPT ![id] = v]
    BY <2>4, <2>5
  <2> QED
    BY <2>4, <2>6, <2>7
<1>10. [s EXCEPT !.projects[id].start = a, !.projects[id].status = IF ch THEN b ELSE @] = WithProjects(s, u)
  <2>1. [s EXCEPT !.projects = u] = WithProjects(s, u)
    <3>1. s = [projects |-> s.projects, accounts |-> s.accounts, roles |-> s.roles, entries |-> s.entries]
      BY DEF Store
    <3> HIDE DEF u
    <3> QED
      BY <3>1, PartWritten
  <2>2. s.projects = t
    BY DEF t
  <2> QED
    BY <2>1, <2>2
<1> HIDE DEF u, v
<1>11. t = s.projects /\ id = p.id
  BY DEF t, id
<1>12. v = ChangedProject(s, p) /\ v \in Project
  BY <1>5, <1>6 DEF v
<1> QED
  BY <1>7, <1>9, <1>10, <1>11, <1>12

LEMMA AccountUpdated ==
  ASSUME NEW s, Store(s), NEW p, p.row \in RowOf("accounts"), p.id \in DOMAIN s.accounts,
         NEW role, role = IF p.row.role = "" THEN s.accounts[p.id].role ELSE p.row.role
  PROVE  /\ [s EXCEPT !.accounts[p.id].role = role,
                      !.accounts[p.id].name = IF p.row.name = "" THEN @ ELSE p.row.name]
              = WithAccounts(s, [s.accounts EXCEPT ![p.id] = ChangedAccount(s, p)])
         /\ ChangedAccount(s, p) \in Account
<1>1. p.row \in [mail : Text, name : Text, role : Text]
  BY DEF RowOf
<1> DEFINE id == p.id
           a == p.row.name
           t == s.accounts
           o == t[id]
<1>2. t \in [DOMAIN t -> Account] /\ o \in Account /\ id \in DOMAIN t
  BY DEF Store
<1>3. o = [name |-> o.name, external |-> o.external, system |-> o.system, role |-> o.role]
  BY <1>2 DEF Account
<1>4. a \in Text /\ role \in Text
  BY <1>1, <1>2 DEF Account
<1>5. ChangedAccount(s, p) = [name |-> IF a = "" THEN o.name ELSE a, external |-> o.external,
                              system |-> o.system, role |-> role]
  BY DEF ChangedAccount
<1>6. [name |-> IF a = "" THEN o.name ELSE a, external |-> o.external, system |-> o.system, role |-> role] \in Account
  BY <1>2, <1>4 DEF Account
<1>7. [s EXCEPT !.accounts[p.id].role = role,
                !.accounts[p.id].name = IF p.row.name = "" THEN @ ELSE p.row.name]
        = [s EXCEPT !.accounts[id].role = role, !.accounts[id].name = IF a = "" THEN @ ELSE a]
  OBVIOUS
<1>8. s = [projects |-> s.projects, accounts |-> t, roles |-> s.roles, entries |-> s.entries]
  BY DEF Store
<1> HIDE DEF id, a, o, t
<1> DEFINE u == [t EXCEPT ![id].role = role, ![id].name = IF a = "" THEN @ ELSE a]
           v == [name |-> IF a = "" THEN o.name ELSE a, external |-> o.external, system |-> o.system, role |-> role]
<1>9. u = [t EXCEPT ![id] = v]
  <2>1. t[id] = o /\ t = [i \in DOMAIN t |-> t[i]]
    BY <1>2 DEF o
  <2> DEFINE o1 == [name |-> o.name, external |-> o.external, system |-> o.system, role |-> role]
             t1 == [t EXCEPT ![id] = o1]
  <2>2. [o EXCEPT !.role = role] = o1
    BY <1>3, AccountFields
  <2>3. [t EXCEPT ![id].role = role] = t1
    BY <2>1, <2>2
  <2>4. t1[id] = o1 /\ [t1 EXCEPT ![id] = v] = [t EXCEPT ![id] = v]
    <3> DEFINE D == DOMAIN t
    <3>1. t = [i \in D |-> t[i]] /\ id \in D
      BY <1>2, <2>1
    <3> HIDE DEF o1, v, D
    <3> QED
      BY <3>1, WrittenLast
  <2>5. [o1 EXCEPT !.name = IF a = "" THEN @ ELSE a] = v
    <3> DEFINE w == IF a = "" THEN o.name ELSE a
    <3>1. [o1 EXCEPT !.name = w] = [name |-> w, external |-> o.external, system |-> o.system, role |-> role]
      <4> HIDE DEF w
      <4> QED
        BY <1>3, AccountFields
    <3>2. o1.name = o.name
      OBVIOUS
    <3> QED
      BY <3>1, <3>2
  <2> HIDE DEF t1, o1, v
  <2>6. u = [t1 EXCEPT ![id].name = IF a = "" THEN @ ELSE a]
    BY <2>3
  <2>7. [t1 EXCEPT ![id].name = IF a = "" THEN @ ELSE a] = [t1 EXCEPT ![id] = v]
    BY <2>4, <2>5
  <2> QED
    BY <2>4, <2>6, <2>7
<1>10. [s EXCEPT !.accounts[id].role = role, !.accounts[id].name = IF a = "" THEN @ ELSE a] = WithAccounts(s, u)
  <2>1. [s EXCEPT !.accounts = u] = WithAccounts(s, u)
    <3>1. s = [projects |-> s.projects, accounts |-> s.accounts, roles |-> s.roles, entries |-> s.entries]
      BY DEF Store
    <3> HIDE DEF u
    <3> QED
      BY <3>1, PartWritten
  <2>2. s.accounts = t
    BY DEF t
  <2> QED
    BY <2>1, <2>2
<1> HIDE DEF u, v
<1>11. t = s.accounts /\ id = p.id
  BY DEF t, id
<1>12. v = ChangedAccount(s, p) /\ v \in Account
  BY <1>5, <1>6 DEF v
<1> QED
  BY <1>7, <1>9, <1>10, <1>11, <1>12

LEMMA RoleUpdated ==
  ASSUME NEW s, Store(s), NEW p, p.row \in RowOf("roles"), p.id \in DOMAIN s.roles
  PROVE  /\ [s EXCEPT !.roles[p.id].rights = IF p.row.rights = {} THEN @ ELSE p.row.rights]
              = WithRoles(s, [s.roles EXCEPT ![p.id] = ChangedRole(s, p)])
         /\ ChangedRole(s, p) \in Role
<1>1. p.row \in [name : Text, rights : SUBSET Text]
  BY DEF RowOf
<1> DEFINE id == p.id
           a == p.row.rights
           t == s.roles
           o == t[id]
<1>2. t \in [DOMAIN t -> Role] /\ o \in Role /\ id \in DOMAIN t
  BY DEF Store
<1>3. o = [system |-> o.system, shipped |-> o.shipped, rights |-> o.rights]
  BY <1>2 DEF Role
<1>4. a \in SUBSET Text
  BY <1>1
<1>5. ChangedRole(s, p) = [system |-> o.system, shipped |-> o.shipped, rights |-> IF a = {} THEN o.rights ELSE a]
  BY DEF ChangedRole
<1>6. [system |-> o.system, shipped |-> o.shipped, rights |-> IF a = {} THEN o.rights ELSE a] \in Role
  BY <1>2, <1>4 DEF Role
<1>7. [s EXCEPT !.roles[p.id].rights = IF p.row.rights = {} THEN @ ELSE p.row.rights]
        = [s EXCEPT !.roles[id].rights = IF a = {} THEN @ ELSE a]
  OBVIOUS
<1>8. s = [projects |-> s.projects, accounts |-> s.accounts, roles |-> t, entries |-> s.entries]
  BY DEF Store
<1> HIDE DEF id, a, o, t
<1> DEFINE u == [t EXCEPT ![id].rights = IF a = {} THEN @ ELSE a]
           v == [system |-> o.system, shipped |-> o.shipped, rights |-> IF a = {} THEN o.rights ELSE a]
<1>9. u = [t EXCEPT ![id] = v]
  <2>1. t[id] = o
    BY DEF o
  <2>2. [o EXCEPT !.rights = IF a = {} THEN @ ELSE a] = v
    BY <1>3
  <2> HIDE DEF v
  <2> QED
    BY <2>1, <2>2
<1>10. [s EXCEPT !.roles[id].rights = IF a = {} THEN @ ELSE a] = WithRoles(s, u)
  BY <1>8 DEF WithRoles
<1> HIDE DEF u, v
<1>11. t = s.roles /\ id = p.id
  BY DEF t, id
<1>12. v = ChangedRole(s, p) /\ v \in Role
  BY <1>5, <1>6 DEF v
<1> QED
  BY <1>7, <1>9, <1>10, <1>11, <1>12

AllStores == [projects : Seq(Project), accounts : UNION {[A -> Account] : A \in SUBSET Text},
              roles : UNION {[R -> Role] : R \in SUBSET Text}, entries : Seq(Entry)]

LEMMA StoreIsOne == ASSUME NEW s PROVE Store(s) <=> s \in AllStores
<1>1. ASSUME Store(s) PROVE s \in AllStores
  <2>1. /\ s = [projects |-> s.projects, accounts |-> s.accounts, roles |-> s.roles, entries |-> s.entries]
        /\ s.projects \in Seq(Project) /\ s.entries \in Seq(Entry)
        /\ s.accounts \in UNION {[A -> Account] : A \in SUBSET Text}
        /\ s.roles \in UNION {[R -> Role] : R \in SUBSET Text}
    BY <1>1 DEF Store
  <2> QED
    BY <2>1 DEF AllStores
<1>2. ASSUME s \in AllStores PROVE Store(s)
  <2>1. /\ s = [projects |-> s.projects, accounts |-> s.accounts, roles |-> s.roles, entries |-> s.entries]
        /\ s.projects \in Seq(Project) /\ s.entries \in Seq(Entry)
        /\ s.accounts \in UNION {[A -> Account] : A \in SUBSET Text}
        /\ s.roles \in UNION {[R -> Role] : R \in SUBSET Text}
    BY <1>2 DEF AllStores
  <2>2. PICK A \in SUBSET Text : s.accounts \in [A -> Account]
    BY <2>1
  <2>3. PICK R \in SUBSET Text : s.roles \in [R -> Role]
    BY <2>1
  <2>4. DOMAIN s.accounts = A /\ DOMAIN s.roles = R
    BY <2>2, <2>3
  <2> QED
    BY <2>1, <2>2, <2>3, <2>4 DEF Store
<1> QED
  BY <1>1, <1>2

LEMMA PartTyped ==
  ASSUME NEW s, Store(s), NEW x
  PROVE  /\ x \in Seq(Project) => Store(WithProjects(s, x))
         /\ x \in [DOMAIN x -> Account] /\ DOMAIN x \in SUBSET Text => Store(WithAccounts(s, x))
         /\ x \in [DOMAIN x -> Role] /\ DOMAIN x \in SUBSET Text => Store(WithRoles(s, x))
<1>1. x \in Seq(Project) => Store(WithProjects(s, x))
  BY DEF Store, WithProjects
<1>2. x \in [DOMAIN x -> Account] /\ DOMAIN x \in SUBSET Text => Store(WithAccounts(s, x))
  BY DEF Store, WithAccounts
<1>3. x \in [DOMAIN x -> Role] /\ DOMAIN x \in SUBSET Text => Store(WithRoles(s, x))
  BY DEF Store, WithRoles
<1> QED
  BY <1>1, <1>2, <1>3

\* What a write may come to.
Results(s) ==
  {r \in [ok : BOOLEAN, store : AllStores] :
     r.store.entries = s.entries /\ DOMAIN r.store.accounts = DOMAIN s.accounts}
Outcome(s, r) == r \in Results(s) /\ (r = Wrote(r.store) \/ r = RefusedWrite(s))

LEMMA OutcomeOfRefused == ASSUME NEW s, Store(s) PROVE Outcome(s, RefusedWrite(s)) /\ Wrote(s) \in Results(s)
<1>1. s \in AllStores
  BY StoreIsOne
<1> QED
  BY <1>1 DEF Outcome, Results, RefusedWrite, Wrote

LEMMA OutcomeOfWrite ==
  ASSUME NEW s, NEW t, Store(t), t.entries = s.entries, DOMAIN t.accounts = DOMAIN s.accounts
  PROVE  Outcome(s, Wrote(t))
<1>1. t \in AllStores
  BY StoreIsOne
<1> QED
  BY <1>1 DEF Outcome, Results, Wrote

LEMMA ProjectWritten ==
  ASSUME NEW s, Store(s), NEW p, p.row \in RowOf("projects")
  PROVE  Outcome(s, writeProject(s, p))
<1>1. CASE p.id = 0
  <2> DEFINE x == Append(s.projects, NewProject(p.row))
  <2>1. createProject(s, p.row) = Wrote(WithProjects(s, x)) /\ NewProject(p.row) \in Project
    BY ProjectCreated
  <2>2. x \in Seq(Project)
    BY <2>1 DEF Store
  <2> HIDE DEF x
  <2>3. Store(WithProjects(s, x))
    BY <2>2, PartTyped
  <2>4. Outcome(s, Wrote(WithProjects(s, x)))
    BY <2>3, OutcomeOfWrite DEF WithProjects
  <2> QED
    BY <1>1, <2>1, <2>4 DEF writeProject
<1>2. CASE p.id # 0
  <2>1. writeProject(s, p) = updateProject(s, p)
    BY <1>2 DEF writeProject
  <2>2. CASE p.id \in VisibleTo(s, Actor)
    <3> DEFINE x == [s.projects EXCEPT ![p.id] = ChangedProject(s, p)]
    <3>1. p.id \in DOMAIN s.projects
      BY <2>2 DEF VisibleTo
    <3>2. /\ [s EXCEPT !.projects[p.id].start = p.row.start,
                       !.projects[p.id].status = IF changesStatus(p) THEN p.row.status ELSE @] = WithProjects(s, x)
          /\ ChangedProject(s, p) \in Project
      BY <3>1, ProjectUpdated
    <3>3. x \in Seq(Project)
      BY <3>1, <3>2 DEF Store
    <3>4. updateProject(s, p) = RefusedWrite(s) \/ updateProject(s, p) = Wrote(WithProjects(s, x))
      BY <3>2 DEF updateProject
    <3> HIDE DEF x
    <3>5. Store(WithProjects(s, x))
      BY <3>3, PartTyped
    <3>6. Outcome(s, Wrote(WithProjects(s, x)))
      BY <3>5, OutcomeOfWrite DEF WithProjects
    <3> QED
      BY <2>1, <3>4, <3>6, OutcomeOfRefused
  <2>3. CASE p.id \notin VisibleTo(s, Actor)
    BY <2>1, <2>3, OutcomeOfRefused DEF updateProject
  <2> QED
    BY <2>2, <2>3
<1> QED
  BY <1>1, <1>2

LEMMA AccountWritten ==
  ASSUME NEW s, Store(s), NEW p, p.row \in RowOf("accounts")
  PROVE  Outcome(s, UpdateUser(s, p))
<1> DEFINE role == IF p.row.role = "" THEN s.accounts[p.id].role ELSE p.row.role
           new == [s EXCEPT !.accounts[p.id].role = role,
                            !.accounts[p.id].name = IF p.row.name = "" THEN @ ELSE p.row.name]
<1>1. UpdateUser(s, p) = RefusedWrite(s) \/ UpdateUser(s, p) = Wrote(new)
  BY DEF UpdateUser
<1>2. CASE p.id \in DOMAIN s.accounts
  <2> DEFINE x == [s.accounts EXCEPT ![p.id] = ChangedAccount(s, p)]
  <2>1. new = WithAccounts(s, x) /\ ChangedAccount(s, p) \in Account
    BY <1>2, AccountUpdated
  <2>2. x \in [DOMAIN x -> Account] /\ DOMAIN x \in SUBSET Text /\ DOMAIN x = DOMAIN s.accounts
    BY <1>2, <2>1 DEF Store
  <2> HIDE DEF x, new
  <2>3. Store(WithAccounts(s, x))
    BY <2>2, PartTyped
  <2>4. Outcome(s, Wrote(WithAccounts(s, x)))
    BY <2>2, <2>3, OutcomeOfWrite DEF WithAccounts
  <2> QED
    BY <1>1, <2>1, <2>4, OutcomeOfRefused
<1>3. CASE p.id \notin DOMAIN s.accounts
  <2>1. new = s
    <3> DEFINE t == s.accounts
               id == p.id
               a == role
               b == p.row.name
    <3>1. t = [i \in DOMAIN t |-> t[i]] /\ id \notin DOMAIN t
      BY <1>3 DEF Store
    <3>2. s = [projects |-> s.projects, accounts |-> s.accounts, roles |-> s.roles, entries |-> s.entries]
      BY DEF Store
    <3>3. s = WithAccounts(s, t)
      BY <3>2 DEF WithAccounts
    <3> DEFINE u == [t EXCEPT ![id].role = a, ![id].name = IF b = "" THEN @ ELSE b]
    <3>4. u = t
      <4> HIDE DEF t, id, a, b
      <4> QED
        BY <3>1
    <3>5. new = [s EXCEPT !.accounts = u]
      OBVIOUS
    <3> HIDE DEF u
    <3> QED
      BY <3>2, <3>3, <3>4, <3>5, PartWritten
  <2> HIDE DEF new
  <2>2. Outcome(s, Wrote(s))
    BY OutcomeOfWrite
  <2> QED
    BY <1>1, <2>1, <2>2, OutcomeOfRefused
<1> QED
  BY <1>2, <1>3

LEMMA RoleWritten ==
  ASSUME NEW s, Store(s), NEW p, p.row \in RowOf("roles")
  PROVE  Outcome(s, writeRole(s, p))
<1>0. p.row \in [name : Text, rights : SUBSET Text]
  BY DEF RowOf
<1>1. CASE p.id = "" /\ (p.row.name \in DOMAIN s.roles \/ p.row.rights = {})
  BY <1>1, OutcomeOfRefused DEF writeRole, createRole
<1>2. CASE p.id = "" /\ p.row.name \notin DOMAIN s.roles /\ p.row.rights # {}
  <2> DEFINE row == p.row
             t == s.roles
             x == [r \in DOMAIN t \union {row.name} |->
                     IF r = row.name THEN [system |-> FALSE, shipped |-> FALSE, rights |-> row.rights] ELSE t[r]]
  <2>1. writeRole(s, p) = Wrote([s EXCEPT !.roles = x])
    BY <1>2 DEF writeRole, createRole
  <2>2. t \in [DOMAIN t -> Role] /\ DOMAIN t \in SUBSET Text
    BY DEF Store
  <2>3. [system |-> FALSE, shipped |-> FALSE, rights |-> row.rights] \in Role
    BY <1>0 DEF Role
  <2>4. x \in [DOMAIN x -> Role] /\ DOMAIN x \in SUBSET Text
    <3> HIDE DEF t, row
    <3>1. row.name \in Text
      BY <1>0 DEF row
    <3> QED
      BY <2>2, <2>3, <3>1
  <2>5. s = [projects |-> s.projects, accounts |-> s.accounts, roles |-> s.roles, entries |-> s.entries]
    BY DEF Store
  <2> HIDE DEF x
  <2>6. [s EXCEPT !.roles = x] = WithRoles(s, x)
    BY <2>5, PartWritten
  <2>7. Store(WithRoles(s, x))
    BY <2>4, PartTyped
  <2>8. Outcome(s, Wrote(WithRoles(s, x)))
    BY <2>7, OutcomeOfWrite DEF WithRoles
  <2> QED
    BY <2>1, <2>6, <2>8
<1>3. CASE p.id # "" /\ p.id \in DOMAIN s.roles
  <2> DEFINE x == [s.roles EXCEPT ![p.id] = ChangedRole(s, p)]
  <2>1. [s EXCEPT !.roles[p.id].rights = IF p.row.rights = {} THEN @ ELSE p.row.rights] = WithRoles(s, x)
        /\ ChangedRole(s, p) \in Role
    BY <1>3, RoleUpdated
  <2>2. x \in [DOMAIN x -> Role] /\ DOMAIN x \in SUBSET Text
    BY <1>3, <2>1 DEF Store
  <2>3. writeRole(s, p) = RefusedWrite(s) \/ writeRole(s, p) = Wrote(WithRoles(s, x))
    BY <1>3, <2>1 DEF writeRole, updateRole
  <2> HIDE DEF x
  <2>4. Store(WithRoles(s, x))
    BY <2>2, PartTyped
  <2>5. Outcome(s, Wrote(WithRoles(s, x)))
    BY <2>4, OutcomeOfWrite DEF WithRoles
  <2> QED
    BY <2>3, <2>5, OutcomeOfRefused
<1>4. CASE p.id # "" /\ p.id \notin DOMAIN s.roles
  BY <1>4, OutcomeOfRefused DEF writeRole, updateRole
<1> QED
  BY <1>1, <1>2, <1>3, <1>4

LEMMA SheetRowWritten ==
  ASSUME NEW s, Store(s), NEW kind \in Sheets, NEW p, p.row \in RowOf(kind)
  PROVE  Outcome(s, writeSheetRow(s, kind, p))
BY ProjectWritten, AccountWritten, RoleWritten DEF writeSheetRow, Sheets

\* A plan of a sheet, and writing it one row after the other.
SheetPlan(kind, m, plan) == m \in Nat /\ DOMAIN plan = 1..m /\ \A i \in 1..m : plan[i].row \in RowOf(kind)
WritesRow(s, kind, plan) ==
  [x \in Nat \X Results(s) |-> IF x[1] \in DOMAIN plan THEN writeUnlessRefused(x[2], kind, plan[x[1]]) ELSE x[2]]

LEMMA ResultOfRow ==
  ASSUME NEW s, Store(s), NEW kind \in Sheets, NEW p, p.row \in RowOf(kind), NEW r \in Results(s)
  PROVE  writeUnlessRefused(r, kind, p) \in Results(s)
<1>1. CASE r.ok
  <2> DEFINE t == r.store
             w == writeSheetRow(t, kind, p)
  <2>1. t \in AllStores /\ t.entries = s.entries /\ DOMAIN t.accounts = DOMAIN s.accounts
    BY DEF Results
  <2>2. Store(t)
    BY <2>1, StoreIsOne
  <2>3. Outcome(t, w)
    <3> HIDE DEF t
    <3> QED
      BY <2>2, SheetRowWritten
  <2>4. w \in Results(t)
    BY <2>3 DEF Outcome
  <2> HIDE DEF w, t
  <2>5. w \in Results(s)
    BY <2>1, <2>4 DEF Results
  <2> QED
    BY <1>1, <2>5 DEF writeUnlessRefused, w, t
<1>2. CASE ~r.ok
  BY <1>2 DEF writeUnlessRefused
<1> QED
  BY <1>1, <1>2

LEMMA WritesIn ==
  ASSUME NEW s, Store(s), NEW kind \in Sheets, NEW m, NEW plan, SheetPlan(kind, m, plan)
  PROVE  /\ StepsIn(Results(s), Wrote(s), WritesRow(s, kind, plan))
         /\ \A k \in 1..m : \A r \in Results(s) :
              WritesRow(s, kind, plan)[<<k, r>>] = writeUnlessRefused(r, kind, plan[k])
<1>1. Wrote(s) \in Results(s)
  BY OutcomeOfRefused
<1>2. ASSUME NEW x \in Nat \X Results(s)
      PROVE  (IF x[1] \in DOMAIN plan THEN writeUnlessRefused(x[2], kind, plan[x[1]]) ELSE x[2]) \in Results(s)
  <2>1. x[2] \in Results(s)
    OBVIOUS
  <2>2. CASE x[1] \in DOMAIN plan
    <3>1. plan[x[1]].row \in RowOf(kind)
      BY <2>2 DEF SheetPlan
    <3> QED
      BY <2>1, <2>2, <3>1, ResultOfRow
  <2> QED
    BY <2>1, <2>2
<1>3. \A k \in 1..m : k \in Nat /\ k \in DOMAIN plan
  BY DEF SheetPlan
<1> QED
  BY <1>1, <1>2, <1>3 DEF StepsIn, WritesRow

LEMMA AfterInSteps ==
  ASSUME NEW s, Store(s), NEW kind \in Sheets, NEW m, NEW plan, SheetPlan(kind, m, plan), NEW n \in 0..m
  PROVE  After(s, kind, plan, n) = StepsTo(Wrote(s), WritesRow(s, kind, plan), n)
<1> DEFINE V == Results(s)
           first == Wrote(s)
           step == WritesRow(s, kind, plan)
           Is(g) == g = [k \in 0..n |-> IF k = 0 THEN Wrote(s) ELSE writeUnlessRefused(g[k - 1], kind, plan[k])]
           h == CHOOSE g : Is(g)
<1>1. n \in Nat /\ m \in Nat /\ \A k \in 1..n : k \in 1..m
  BY DEF SheetPlan
<1>2. StepsIn(V, first, step) /\ \A k \in 1..m : \A r \in V : step[<<k, r>>] = writeUnlessRefused(r, kind, plan[k])
  BY WritesIn
<1>3. \A k \in 1..n : \A p \in V : step[<<k, p>>] = writeUnlessRefused(p, kind, plan[k])
  BY <1>1, <1>2
<1>4. After(s, kind, plan, n) = h[n]
  BY DEF After
<1> HIDE DEF V, step
<1>5. PICK f : /\ f = [k \in 0..n |-> f[k]]
               /\ \A k \in 0..n : f[k] \in V
               /\ f[0] = first
               /\ \A k \in 1..n : f[k] = step[<<k, f[k - 1]>>]
  <2> HIDE DEF first
  <2> QED
    BY <1>1, <1>2, FunctionOfSteps
<1>6. Is(f)
  <2>2. \A k \in 0..n : k # 0 => k \in 1..n /\ k - 1 \in 0..n
    BY <1>1
  <2>3. \A k \in 0..n : f[k] = IF k = 0 THEN first ELSE writeUnlessRefused(f[k - 1], kind, plan[k])
    BY <1>3, <1>5, <2>2
  <2> QED
    BY <1>5, <2>3
<1>7. Is(h)
  <2> HIDE DEF Is
  <2> QED
    BY <1>6
<1> HIDE DEF h
<1>8. h[0] = first /\ \A k \in 1..n : h[k] = writeUnlessRefused(h[k - 1], kind, plan[k])
  <2>1. 0 \in 0..n /\ \A k \in 1..n : k \in 0..n /\ k # 0
    BY <1>1
  <2> QED
    BY <1>7, <2>1
<1>9. Follows(V, first, step, n, h)
  BY <1>3, <1>8 DEF Follows
<1>10. n <= n /\ n \in 0..n
  BY <1>1
<1>11. \A k \in 0..n : h[k] \in V /\ h[k] = Steps(first, step, n)[k]
  <2> HIDE DEF first, Is
  <2> QED
    BY <1>1, <1>2, <1>9, <1>10, StepsFollowed
<1> QED
  BY <1>4, <1>10, <1>11 DEF step, StepsTo

\* Writing one row more is writing that row on what the rows before it left.
LEMMA AfterOneMore ==
  ASSUME NEW s, Store(s), NEW kind \in Sheets, NEW m, NEW plan, SheetPlan(kind, m, plan)
  PROVE  /\ After(s, kind, plan, 0) = Wrote(s)
         /\ \A k \in 0..m : After(s, kind, plan, k) \in Results(s)
         /\ \A k \in 0..(m - 1) :
              After(s, kind, plan, k + 1) = writeUnlessRefused(After(s, kind, plan, k), kind, plan[k + 1])
<1> DEFINE V == Results(s)
           first == Wrote(s)
           step == WritesRow(s, kind, plan)
<1>1. m \in Nat /\ 0 \in 0..m /\ \A k \in 0..m : k \in Nat
  BY DEF SheetPlan
<1>2. StepsIn(V, first, step) /\ \A k \in 1..m : \A r \in V : step[<<k, r>>] = writeUnlessRefused(r, kind, plan[k])
  BY WritesIn
<1>3. \A k \in 0..m : After(s, kind, plan, k) = StepsTo(first, step, k)
  BY AfterInSteps
<1> HIDE DEF V, first, step
<1>4. ASSUME NEW k \in Nat
      PROVE  /\ StepsTo(first, step, k) \in V
             /\ StepsTo(first, step, 0) = first
             /\ StepsTo(first, step, k + 1) = step[<<k + 1, StepsTo(first, step, k)>>]
  BY <1>2, OneStepMore
<1>5. ASSUME NEW k \in 0..(m - 1)
      PROVE  After(s, kind, plan, k + 1) = writeUnlessRefused(After(s, kind, plan, k), kind, plan[k + 1])
  <2>1. k \in Nat /\ k \in 0..m /\ k + 1 \in 0..m /\ k + 1 \in 1..m
    BY <1>1
  <2> DEFINE l == k + 1
  <2>2. StepsTo(first, step, l) = step[<<l, StepsTo(first, step, k)>>] /\ StepsTo(first, step, k) \in V
    BY <1>4, <2>1
  <2>3. l \in 0..m /\ l \in 1..m
    BY <2>1
  <2> HIDE DEF l
  <2>4. After(s, kind, plan, l) = writeUnlessRefused(After(s, kind, plan, k), kind, plan[l])
    BY <1>2, <1>3, <2>1, <2>2, <2>3
  <2> QED
    BY <2>4 DEF l
<1>6. After(s, kind, plan, 0) = Wrote(s)
  BY <1>1, <1>3, <1>4 DEF first
<1>7. \A k \in 0..m : After(s, kind, plan, k) \in Results(s)
  BY <1>1, <1>3, <1>4 DEF V
<1> QED
  BY <1>5, <1>6, <1>7

-----------------------------------------------------------------------------
(* What copying a week plans.                                              *)

OnDay(day) == {e \in Entry : e.user = Actor /\ e.day = day}
OfWeek(from) == {e \in Entry : e.user = Actor /\ e.day \in from..(from + 6)}

LEMMA EntriesAreChosen ==
  ASSUME NEW entries \in Seq(Entry), NEW day
  PROVE  EntriesOn(entries, day) = Chosen(entries, OnDay(day)) /\ EntriesOn(entries, day) \in Seq(OnDay(day))
<1> DEFINE R == Range(entries)
           these == {e \in R : e.user = Actor /\ e.day = day}
<1>1. \A i \in DOMAIN entries : entries[i] \in R
  BY DEF Range
<1>2. R \in SUBSET Entry
  BY DEF Range
<1>3. entries \in Seq(R)
  <2>1. entries = [i \in 1..Len(entries) |-> entries[i]] /\ DOMAIN entries = 1..Len(entries) /\ Len(entries) \in Nat
    OBVIOUS
  <2> HIDE DEF R
  <2> QED
    BY <1>1, <2>1
<1>4. \A e \in R : e \in these <=> e \in OnDay(day)
  BY <1>2 DEF OnDay
<1>5. EntriesOn(entries, day) = Chosen(entries, these)
  BY DEF EntriesOn
<1> HIDE DEF R, these
<1>6. Chosen(entries, these) = Chosen(entries, OnDay(day))
  BY <1>3, <1>4, ChosenTheSame
<1>7. Chosen(entries, OnDay(day)) \in Seq(Entry \intersect OnDay(day)) /\ Entry \intersect OnDay(day) = OnDay(day)
  BY ChosenTyped DEF OnDay
<1> QED
  BY <1>5, <1>6, <1>7

AddsDay(entries, from) ==
  [x \in Nat \X Seq(OfWeek(from)) |->
     IF x[1] \in 1..7 THEN x[2] \o EntriesOn(entries, from + x[1] - 1) ELSE x[2]]

LEMMA DaysTaken ==
  ASSUME NEW entries \in Seq(Entry), NEW from \in Nat
  PROVE  StepsIn(Seq(OfWeek(from)), <<>>, AddsDay(entries, from))
<1> DEFINE V == Seq(OfWeek(from))
<1>1. ASSUME NEW k \in 1..7 PROVE EntriesOn(entries, from + k - 1) \in V
  <2> DEFINE day == from + k - 1
  <2>1. day \in from..(from + 6)
    OBVIOUS
  <2> HIDE DEF day
  <2>2. OnDay(day) \in SUBSET OfWeek(from)
    BY <2>1 DEF OnDay, OfWeek
  <2>3. EntriesOn(entries, day) \in Seq(OnDay(day))
    BY EntriesAreChosen
  <2>4. EntriesOn(entries, day) \in V
    BY <2>2, <2>3
  <2> QED
    BY <2>4 DEF day
<1>2. <<>> \in V /\ \A a, b \in V : a \o b \in V
  OBVIOUS
<1> HIDE DEF V
<1>3. ASSUME NEW x \in Nat \X V
      PROVE  (IF x[1] \in 1..7 THEN x[2] \o EntriesOn(entries, from + x[1] - 1) ELSE x[2]) \in V
  <2>1. x[2] \in V
    OBVIOUS
  <2>2. x[1] \in 1..7 => EntriesOn(entries, from + x[1] - 1) \in V
    BY <1>1
  <2> QED
    BY <1>2, <2>1, <2>2
<1> QED
  BY <1>2, <1>3 DEF StepsIn, AddsDay, V

LEMMA WeekInSteps ==
  ASSUME NEW s, Store(s), NEW from \in Nat
  PROVE  /\ weekOf(s, from) = StepsTo(<<>>, AddsDay(s.entries, from), 7)
         /\ weekOf(s, from) \in Seq(OfWeek(from))
<1> DEFINE V == Seq(OfWeek(from))
           first == <<>>
           step == AddsDay(s.entries, from)
           n == 7
           Is(g) == g = [k \in 0..7 |-> IF k = 0 THEN <<>> ELSE g[k - 1] \o EntriesOn(s.entries, from + k - 1)]
           h == CHOOSE g : Is(g)
<1>0. s.entries \in Seq(Entry)
  BY DEF Store
<1>1. n \in Nat /\ \A k \in 1..n : k \in Nat /\ k \in 1..7
  OBVIOUS
<1>2. StepsIn(V, first, step)
  BY <1>0, DaysTaken
<1>3. \A k \in 1..n : \A p \in V : step[<<k, p>>] = p \o EntriesOn(s.entries, from + k - 1)
  BY <1>1 DEF AddsDay
<1>4. weekOf(s, from) = h[n]
  BY DEF weekOf
<1> DEFINE Same(g) == g = [k \in 0..n |-> IF k = 0 THEN <<>> ELSE g[k - 1] \o EntriesOn(s.entries, from + k - 1)]
<1>a. \A g : Same(g) <=> Is(g)
  OBVIOUS
<1> HIDE DEF V, step, n
<1>5. PICK f : /\ f = [k \in 0..n |-> f[k]]
               /\ \A k \in 0..n : f[k] \in V
               /\ f[0] = first
               /\ \A k \in 1..n : f[k] = step[<<k, f[k - 1]>>]
  <2> HIDE DEF first
  <2> QED
    BY <1>1, <1>2, FunctionOfSteps
<1>6. Same(f)
  <2>2. \A k \in 0..n : k # 0 => k \in 1..n /\ k - 1 \in 0..n
    BY <1>1
  <2>3. \A k \in 0..n : f[k] = IF k = 0 THEN first ELSE f[k - 1] \o EntriesOn(s.entries, from + k - 1)
    BY <1>3, <1>5, <2>2
  <2> QED
    BY <1>5, <2>3
<1>7. Same(h)
  <2> HIDE DEF Is, Same
  <2> QED
    BY <1>a, <1>6
<1> HIDE DEF h, Is
<1>8. h[0] = first /\ \A k \in 1..n : h[k] = h[k - 1] \o EntriesOn(s.entries, from + k - 1)
  <2>1. 0 \in 0..n /\ \A k \in 1..n : k \in 0..n /\ k # 0
    BY <1>1
  <2> QED
    BY <1>7, <2>1
<1>9. Follows(V, first, step, n, h)
  BY <1>3, <1>8 DEF Follows
<1>10. n <= n /\ n \in 0..n
  BY <1>1
<1>11. \A k \in 0..n : h[k] \in V /\ h[k] = Steps(first, step, n)[k]
  <2> HIDE DEF first, Same
  <2> QED
    BY <1>1, <1>2, <1>9, <1>10, StepsFollowed
<1>12. h[n] \in V /\ h[n] = Steps(first, step, n)[n]
  BY <1>10, <1>11
<1> QED
  BY <1>4, <1>12 DEF V, step, n, StepsTo

\* What is planned when part of a week is copied.
CopiesOf(s) ==
  {p \in [rows : Seq(Entry), rejected : Nat, kept : SUBSET Int, closed : Nat] : NotOverfilled(s.entries \o p.rows)}
NothingCopied == [rows |-> <<>>, rejected |-> 0, kept |-> {}, closed |-> 0]
CopiesEntry(s, week, days) ==
  [x \in Nat \X CopiesOf(s) |-> IF x[1] \in DOMAIN week THEN copyEntry(s, x[2], week[x[1]], days) ELSE x[2]]
Moved(e, day) == [user |-> e.user, project |-> e.project, day |-> day, hours |-> e.hours]

LEMMA EntryCopied ==
  ASSUME NEW s, Store(s), NEW from \in Nat, NEW to \in Nat, NEW e \in OfWeek(from), NEW p \in CopiesOf(s)
  PROVE  LET day == e.day + (to - from) IN
         /\ copyEntry(s, p, e, to - from) \in CopiesOf(s)
         /\ copyEntry(s, p, e, to - from).rejected = 0 => p.rejected = 0
         /\ IF bookedOn(s, day) \/ ~stillOpen(s, e.project)
            THEN copyEntry(s, p, e, to - from).rows = p.rows
            ELSE copyEntry(s, p, e, to - from).rejected = 0 =>
                   copyEntry(s, p, e, to - from).rows = Append(p.rows, Moved(e, day))
         /\ Moved(e, day) \in OnDay(day)
<1> DEFINE day == e.day + (to - from)
           moved == Moved(e, day)
           new == copyEntry(s, p, e, to - from)
<1>1. e \in Entry /\ e.user = Actor /\ e.day \in from..(from + 6)
  BY DEF OfWeek
<1>2. day \in Nat /\ e = [user |-> e.user, project |-> e.project, day |-> e.day, hours |-> e.hours]
  <2>1. e.day \in Nat /\ e.day >= from
    BY <1>1
  <2>2. e.day + (to - from) \in Nat
    BY <2>1
  <2> QED
    BY <1>1, <2>2 DEF Entry
<1>3. moved \in Entry /\ moved \in OnDay(day) /\ moved = [e EXCEPT !.day = day]
  <2> HIDE DEF day
  <2>1. e.user \in Text /\ e.project \in Nat /\ e.hours \in Nat
    BY <1>1 DEF Entry
  <2>2. moved \in Entry
    BY <1>2, <2>1 DEF Moved, Entry
  <2>3. moved.user = Actor /\ moved.day = day
    BY <1>1 DEF Moved
  <2>4. moved = [e EXCEPT !.day = day]
    BY <1>2 DEF Moved
  <2> QED
    BY <2>2, <2>3, <2>4 DEF OnDay
<1>4. /\ p = [rows |-> p.rows, rejected |-> p.rejected, kept |-> p.kept, closed |-> p.closed]
      /\ p.rows \in Seq(Entry) /\ p.rejected \in Nat /\ p.kept \in SUBSET Int /\ p.closed \in Nat
      /\ NotOverfilled(s.entries \o p.rows)
  BY DEF CopiesOf
<1> HIDE DEF day, moved
<1>5. new = IF bookedOn(s, day) THEN [p EXCEPT !.kept = @ \union {day}]
            ELSE IF ~stillOpen(s, e.project) THEN [p EXCEPT !.closed = @ + 1]
            ELSE IF overTheDay(s, p.rows, Actor, day, e.hours) THEN [p EXCEPT !.rejected = @ + 1]
            ELSE [p EXCEPT !.rows = Append(@, moved)]
  BY <1>3 DEF copyEntry, day
<1>6. CASE bookedOn(s, day)
  <2>1. new = [rows |-> p.rows, rejected |-> p.rejected, kept |-> p.kept \union {day}, closed |-> p.closed]
    BY <1>4, <1>5, <1>6
  <2>2. p.kept \union {day} \in SUBSET Int
    BY <1>2, <1>4
  <2>3. new \in CopiesOf(s)
    BY <1>4, <2>1, <2>2 DEF CopiesOf
  <2> QED
    BY <1>3, <1>6, <2>1, <2>3 DEF day, moved
<1>7. CASE ~bookedOn(s, day) /\ ~stillOpen(s, e.project)
  <2>1. new = [rows |-> p.rows, rejected |-> p.rejected, kept |-> p.kept, closed |-> p.closed + 1]
    BY <1>4, <1>5, <1>7
  <2>2. p.closed + 1 \in Nat
    BY <1>4
  <2>3. new \in CopiesOf(s)
    BY <1>4, <2>1, <2>2 DEF CopiesOf
  <2> QED
    BY <1>3, <1>7, <2>1, <2>3 DEF day, moved
<1>8. CASE ~bookedOn(s, day) /\ stillOpen(s, e.project) /\ overTheDay(s, p.rows, Actor, day, e.hours)
  <2>1. new = [rows |-> p.rows, rejected |-> p.rejected + 1, kept |-> p.kept, closed |-> p.closed]
    BY <1>4, <1>5, <1>8
  <2>2. p.rejected + 1 \in Nat /\ p.rejected + 1 # 0
    BY <1>4
  <2>3. new \in CopiesOf(s) /\ new.rejected # 0
    BY <1>4, <2>1, <2>2 DEF CopiesOf
  <2> QED
    BY <1>3, <1>8, <2>3 DEF day, moved
<1>9. CASE ~bookedOn(s, day) /\ stillOpen(s, e.project) /\ ~overTheDay(s, p.rows, Actor, day, e.hours)
  <2>1. new = [rows |-> Append(p.rows, moved), rejected |-> p.rejected, kept |-> p.kept, closed |-> p.closed]
    BY <1>4, <1>5, <1>9
  <2>2. moved.user = Actor /\ moved.day = day /\ moved.hours = e.hours
    BY <1>1 DEF moved, Moved
  <2>3. s.entries \in Seq(Entry)
    BY DEF Store
  <2>4. ~(Hours(s.entries, moved.user, moved.day) + Hours(p.rows, moved.user, moved.day) + moved.hours > Cap)
    BY <1>9, <2>2 DEF overTheDay
  <2>5. Hours(s.entries, moved.user, moved.day) \in Nat /\ Hours(p.rows, moved.user, moved.day) \in Nat
    BY <1>4, <2>3, HoursAreSum
  <2>6. moved.hours \in Nat /\ Cap \in Nat
    BY <1>3, WorkbooksAssumption DEF Entry
  <2>7. Hours(s.entries, moved.user, moved.day) + Hours(p.rows, moved.user, moved.day) + moved.hours <= Cap
    BY <2>4, <2>5, <2>6
  <2>8. NotOverfilled(s.entries \o Append(p.rows, moved))
    BY <1>3, <1>4, <2>3, <2>7, FitsIn
  <2>9. Append(p.rows, moved) \in Seq(Entry)
    BY <1>3, <1>4
  <2> DEFINE q == [rows |-> Append(p.rows, moved), rejected |-> p.rejected, kept |-> p.kept, closed |-> p.closed]
  <2>a. q \in [rows : Seq(Entry), rejected : Nat, kept : SUBSET Int, closed : Nat] /\ q.rows = Append(p.rows, moved)
    BY <1>4, <2>9
  <2>10. new \in CopiesOf(s)
    BY <2>1, <2>8, <2>a DEF CopiesOf
  <2> QED
    BY <1>3, <1>9, <2>1, <2>10 DEF day, moved
<1> QED
  BY <1>6, <1>7, <1>8, <1>9

LEMMA CopiesTyped ==
  ASSUME NEW s, Store(s), NotOverfilled(s.entries), NEW from \in Nat, NEW to \in Nat, NEW week \in Seq(OfWeek(from))
  PROVE  /\ StepsIn(CopiesOf(s), NothingCopied, CopiesEntry(s, week, to - from))
         /\ \A k \in 1..Len(week) : \A p \in CopiesOf(s) :
              CopiesEntry(s, week, to - from)[<<k, p>>] = copyEntry(s, p, week[k], to - from)
<1>1. NothingCopied \in CopiesOf(s)
  <2>1. s.entries \o <<>> = s.entries
    BY DEF Store
  <2>2. NothingCopied \in [rows : Seq(Entry), rejected : Nat, kept : SUBSET Int, closed : Nat]
        /\ NothingCopied.rows = <<>>
    BY DEF NothingCopied
  <2> QED
    BY <2>1, <2>2 DEF CopiesOf
<1>2. ASSUME NEW x \in Nat \X CopiesOf(s)
      PROVE  (IF x[1] \in DOMAIN week THEN copyEntry(s, x[2], week[x[1]], to - from) ELSE x[2]) \in CopiesOf(s)
  <2>1. x[2] \in CopiesOf(s)
    OBVIOUS
  <2>2. CASE x[1] \in DOMAIN week
    <3>1. week[x[1]] \in OfWeek(from)
      BY <2>2
    <3> QED
      BY <2>1, <2>2, <3>1, EntryCopied
  <2> QED
    BY <2>1, <2>2
<1>3. \A k \in 1..Len(week) : k \in Nat /\ k \in DOMAIN week
  OBVIOUS
<1> QED
  BY <1>1, <1>2, <1>3 DEF StepsIn, CopiesEntry

LEMMA CopyInSteps ==
  ASSUME NEW s, Store(s), NotOverfilled(s.entries), NEW from \in Nat, NEW to \in Nat
  PROVE  LET week == weekOf(s, from) IN
         /\ planCopy(s, from, to) = StepsTo(NothingCopied, CopiesEntry(s, week, to - from), Len(week))
         /\ planCopy(s, from, to) \in CopiesOf(s)
<1> DEFINE week == weekOf(s, from)
           days == to - from
           V == CopiesOf(s)
           first == NothingCopied
           step == CopiesEntry(s, week, days)
           n == Len(week)
           Is(g) == g = [k \in 0..n |-> IF k = 0 THEN [rows |-> <<>>, rejected |-> 0, kept |-> {}, closed |-> 0]
                                        ELSE copyEntry(s, g[k - 1], week[k], days)]
           h == CHOOSE g : Is(g)
<1>0. week \in Seq(OfWeek(from))
  BY WeekInSteps
<1>4. planCopy(s, from, to) = h[n]
  BY DEF planCopy
<1> HIDE DEF week
<1>1. n \in Nat
  BY <1>0
<1>2. StepsIn(V, first, step) /\ \A k \in 1..n : \A p \in V : step[<<k, p>>] = copyEntry(s, p, week[k], days)
  BY <1>0, CopiesTyped
<1> HIDE DEF V, step, n, days
<1>5. PICK f : /\ f = [k \in 0..n |-> f[k]]
               /\ \A k \in 0..n : f[k] \in V
               /\ f[0] = first
               /\ \A k \in 1..n : f[k] = step[<<k, f[k - 1]>>]
  <2> HIDE DEF first
  <2> QED
    BY <1>1, <1>2, FunctionOfSteps
<1>6. Is(f)
  <2>2. \A k \in 0..n : k # 0 => k \in 1..n /\ k - 1 \in 0..n
    BY <1>1
  <2>3. \A k \in 0..n : f[k] = IF k = 0 THEN first ELSE copyEntry(s, f[k - 1], week[k], days)
    BY <1>2, <1>5, <2>2
  <2> QED
    BY <1>5, <2>3 DEF NothingCopied
<1>7. Is(h)
  <2> HIDE DEF Is
  <2> QED
    BY <1>6
<1> HIDE DEF h
<1>8. h[0] = first /\ \A k \in 1..n : h[k] = copyEntry(s, h[k - 1], week[k], days)
  <2>1. 0 \in 0..n /\ \A k \in 1..n : k \in 0..n /\ k # 0
    BY <1>1
  <2> QED
    BY <1>7, <2>1 DEF NothingCopied
<1>9. Follows(V, first, step, n, h)
  BY <1>2, <1>8 DEF Follows
<1>10. n <= n /\ n \in 0..n
  BY <1>1
<1>11. \A k \in 0..n : h[k] \in V /\ h[k] = Steps(first, step, n)[k]
  <2> HIDE DEF first, Is
  <2> QED
    BY <1>1, <1>2, <1>9, <1>10, StepsFollowed
<1> QED
  BY <1>4, <1>10, <1>11 DEF V, step, n, days, week, StepsTo

\* What a day of the week holds that is still taken.
Taken(s, day) == {e \in OnDay(day) : stillOpen(s, e.project)}
Open(s) == {e \in Entry : stillOpen(s, e.project)}
Undating(entries) == [i \in DOMAIN entries |-> [entries[i] EXCEPT !.day = 0]]

\* Each day of the week is in it as it was recorded.
LEMMA WeekDayByDay ==
  ASSUME NEW s, Store(s), NEW from \in Nat, NEW d \in 0..6
  PROVE  Chosen(weekOf(s, from), Taken(s, from + d)) = Chosen(EntriesOn(s.entries, from + d), Open(s))
<1> DEFINE V == Seq(OfWeek(from))
           step == AddsDay(s.entries, from)
           those == Taken(s, from + d)
           Of(k) == EntriesOn(s.entries, from + k)
           it == Chosen(Of(d), Open(s))
           B == {k \in 0..7 : Chosen(StepsTo(<<>>, step, k), those) # IF d < k THEN it ELSE <<>>}
<1>0. s.entries \in Seq(Entry) /\ OfWeek(from) \in SUBSET Entry
  BY DEF Store, OfWeek
<1>1. StepsIn(V, <<>>, step)
  BY <1>0, DaysTaken
<1>2. \A k \in 0..6 : \A p \in V : step[<<k + 1, p>>] = p \o Of(k)
  <2>1. \A k \in 0..6 : k + 1 \in Nat /\ k + 1 \in 1..7 /\ from + (k + 1) - 1 = from + k
    OBVIOUS
  <2> QED
    BY <2>1 DEF AddsDay
<1>3. \A k \in 0..6 : Of(k) \in Seq(OnDay(from + k)) /\ Of(k) \in Seq(Entry)
  <2> SUFFICES ASSUME NEW k \in 0..6 PROVE Of(k) \in Seq(OnDay(from + k)) /\ Of(k) \in Seq(Entry)
    OBVIOUS
  <2> DEFINE S == OnDay(from + k)
  <2>1. S \in SUBSET Entry
    BY DEF OnDay
  <2>2. Of(k) \in Seq(S)
    BY <1>0, EntriesAreChosen
  <2> HIDE DEF S, Of
  <2>3. Of(k) \in Seq(Entry)
    BY <2>1, <2>2
  <2> QED
    BY <2>2, <2>3 DEF S
<1>4. \A k \in 0..6 : Chosen(Of(k), those) = IF k = d THEN it ELSE <<>>
  <2> SUFFICES ASSUME NEW k \in 0..6 PROVE Chosen(Of(k), those) = IF k = d THEN it ELSE <<>>
    OBVIOUS
  <2> DEFINE S == OnDay(from + k)
  <2>1. Of(k) \in Seq(S)
    BY <1>3
  <2>2. CASE k = d
    <3>1. \A e \in S : e \in those <=> e \in Open(s)
      BY <2>2 DEF Taken, Open, OnDay
    <3> HIDE DEF S, those
    <3> QED
      BY <2>1, <2>2, <3>1, ChosenTheSame
  <2>3. CASE k # d
    <3>1. from + k # from + d
      BY <2>3
    <3>2. \A e \in S : e \notin those
      BY <3>1 DEF Taken, OnDay
    <3> HIDE DEF S, those
    <3> QED
      BY <2>1, <2>3, <3>2, NoneChosen
  <2> QED
    BY <2>2, <2>3
<1>5. weekOf(s, from) = StepsTo(<<>>, step, 7)
  BY WeekInSteps
<1>6. V \in SUBSET Seq(Entry)
  BY <1>0
<1> HIDE DEF V, step, Of, those, it
<1>7. ASSUME NEW k \in Nat
      PROVE  /\ StepsTo(<<>>, step, k) \in V
             /\ StepsTo(<<>>, step, 0) = <<>>
             /\ StepsTo(<<>>, step, k + 1) = step[<<k + 1, StepsTo(<<>>, step, k)>>]
  <2> DEFINE first == <<>>
  <2>1. StepsIn(V, first, step)
    BY <1>1
  <2> HIDE DEF first
  <2>2. /\ StepsTo(first, step, k) \in V
        /\ StepsTo(first, step, 0) = first
        /\ StepsTo(first, step, k + 1) = step[<<k + 1, StepsTo(first, step, k)>>]
    BY <2>1, OneStepMore
  <2> QED
    BY <2>2 DEF first
<1>8. B = {}
  <2> SUFFICES ASSUME B # {} PROVE FALSE
    OBVIOUS
  <2>1. PICK l \in B : \A j \in B : l <= j
    <3>1. B \in SUBSET Nat
      OBVIOUS
    <3> HIDE DEF B
    <3> QED
      BY <3>1, Least
  <2>2. l \in 0..7 /\ Chosen(StepsTo(<<>>, step, l), those) # IF d < l THEN it ELSE <<>>
    OBVIOUS
  <2>3. l # 0
    <3>1. ~(d < 0)
      OBVIOUS
    <3>2. 0 \in Nat
      OBVIOUS
    <3>3. StepsTo(<<>>, step, 0) = <<>>
      BY <1>7, <3>2
    <3> QED
      BY <2>2, <3>1, <3>3, ChosenOfNothing
  <2> DEFINE k == l - 1
  <2>4. k \in 0..6 /\ k \in Nat /\ k \in 0..7 /\ k + 1 = l /\ k \notin B
    BY <2>1, <2>2, <2>3
  <2>5. Chosen(StepsTo(<<>>, step, k), those) = IF d < k THEN it ELSE <<>>
    BY <2>4
  <2> HIDE DEF k, B
  <2> DEFINE p == StepsTo(<<>>, step, k)
  <2>6. p \in V /\ StepsTo(<<>>, step, k + 1) = step[<<k + 1, p>>]
    BY <1>7, <2>4
  <2> HIDE DEF p
  <2>7. StepsTo(<<>>, step, l) = p \o Of(k)
    BY <1>2, <2>4, <2>6
  <2>8. p \in Seq(Entry) /\ Of(k) \in Seq(Entry)
    BY <1>3, <1>6, <2>4, <2>6
  <2>9. Chosen(p \o Of(k), those) = Chosen(p, those) \o Chosen(Of(k), those)
    BY <2>8, ChosenOfBoth
  <2>10. Chosen(p, those) = IF d < k THEN it ELSE <<>>
    BY <2>5 DEF p
  <2>11. Chosen(Of(k), those) = IF k = d THEN it ELSE <<>>
    BY <1>4, <2>4
  <2>12. it \in Seq(Entry)
    BY <1>3, ChosenTyped DEF it
  <2>13. it \o <<>> = it /\ <<>> \o it = it /\ <<>> \o <<>> = <<>>
    BY <2>12
  <2>14. d < l <=> d < k \/ k = d
    BY <2>4
  <2>15. ~(d < k /\ k = d)
    BY <2>4
  <2> QED
    BY <2>2, <2>7, <2>9, <2>10, <2>11, <2>13, <2>14, <2>15
<1>9. 7 \notin B /\ 7 \in 0..7 /\ d < 7
  BY <1>8
<1> QED
  BY <1>5, <1>9 DEF it, Of, those

Undated0(e) == [e EXCEPT !.day = 0]

LEMMA UndatingOne ==
  ASSUME NEW q \in Seq(Entry), NEW e \in Entry
  PROVE  Undating(Append(q, e)) = Append(Undating(q), Undated0(e)) /\ Undating(<<>>) = <<>>
<1> DEFINE n == Len(q)
           a == Undating(Append(q, e))
           b == Append(Undating(q), Undated0(e))
<1>1. n \in Nat /\ DOMAIN q = 1..n /\ DOMAIN Append(q, e) = 1..(n + 1) /\ Append(q, e)[n + 1] = e
      /\ \A i \in 1..n : Append(q, e)[i] = q[i]
  OBVIOUS
<1>2. a = [i \in 1..(n + 1) |-> IF i = n + 1 THEN Undated0(e) ELSE Undated0(q[i])]
  <2>1. \A i \in 1..(n + 1) : i = n + 1 \/ i \in 1..n
    BY <1>1
  <2> QED
    BY <1>1, <2>1 DEF Undating, Undated0
<1>3. Undating(q) = [i \in 1..n |-> Undated0(q[i])]
  BY <1>1 DEF Undating, Undated0
<1>4. Append([i \in 1..n |-> Undated0(q[i])], Undated0(e))
        = [i \in 1..(n + 1) |-> IF i = n + 1 THEN Undated0(e) ELSE Undated0(q[i])]
  <2> HIDE DEF n
  <2> DEFINE r == [i \in 1..n |-> Undated0(q[i])]
             f == Undated0(e)
  <2>1. r \in Seq({r[i] : i \in 1..n}) /\ Len(r) = n
    BY <1>1
  <2>2. \A i \in 1..n : r[i] = Undated0(q[i])
    OBVIOUS
  <2> HIDE DEF r, f
  <2>4. \A i \in 1..(n + 1) : i = n + 1 \/ i \in 1..n
    BY <1>1
  <2>3. Append(r, f) = [i \in 1..(n + 1) |-> IF i = n + 1 THEN f ELSE r[i]]
    <3> DEFINE A == Append(r, f)
               T == {r[i] : i \in 1..n} \union {f}
    <3>1. r \in Seq(T) /\ f \in T
      BY <2>1
    <3> HIDE DEF T
    <3>2. A \in Seq(T) /\ Len(A) = n + 1 /\ A[n + 1] = f /\ \A i \in 1..n : A[i] = r[i]
      BY <1>1, <2>1, <3>1
    <3> HIDE DEF A
    <3>3. A = [i \in 1..(n + 1) |-> A[i]]
      BY <3>2
    <3>4. \A i \in 1..(n + 1) : A[i] = IF i = n + 1 THEN f ELSE r[i]
      BY <2>4, <3>2
    <3> QED
      BY <3>3, <3>4 DEF A
  <2> QED
    BY <2>2, <2>3, <2>4 DEF r, f
<1>5. Undating(<<>>) = <<>>
  BY DEF Undating
<1> QED
  BY <1>2, <1>3, <1>4, <1>5

LEMMA OneMoreOnDay ==
  ASSUME NEW q \in Seq(Entry), NEW e \in Entry, NEW day
  PROVE  EntriesOn(Append(q, e), day) = IF e \in OnDay(day) THEN Append(EntriesOn(q, day), e) ELSE EntriesOn(q, day)
<1> DEFINE more == Append(q, e)
           those == OnDay(day)
<1>1. more \in Seq(Entry)
  OBVIOUS
<1>2. Chosen(more, those) = IF e \in those THEN Append(Chosen(q, those), e) ELSE Chosen(q, those)
  BY ChosenWithOne
<1> HIDE DEF more, those
<1>3. EntriesOn(more, day) = Chosen(more, those) /\ EntriesOn(q, day) = Chosen(q, those)
  BY <1>1, EntriesAreChosen DEF those
<1> QED
  BY <1>2, <1>3 DEF more, those

\* Undated, a day is copied as the part of it that comes to be copied, unless it had anything.
CopiedOn(s, from, to, d, seen, p) ==
  p.rejected = 0 =>
    Undating(EntriesOn(p.rows, to + d)) =
      IF bookedOn(s, to + d) THEN <<>> ELSE Undating(Chosen(seen, Taken(s, from + d)))

LEMMA CopiedOneMore ==
  ASSUME NEW s, Store(s), NEW from \in Nat, NEW to \in Nat, NEW d \in 0..6,
         NEW seen \in Seq(Entry), NEW e \in OfWeek(from), NEW p \in CopiesOf(s), CopiedOn(s, from, to, d, seen, p)
  PROVE  CopiedOn(s, from, to, d, Append(seen, e), copyEntry(s, p, e, to - from))
<1> DEFINE day == e.day + (to - from)
           new == copyEntry(s, p, e, to - from)
           moved == Moved(e, day)
           those == Taken(s, from + d)
           more == Append(seen, e)
<1>1. /\ new \in CopiesOf(s) /\ (new.rejected = 0 => p.rejected = 0)
      /\ IF bookedOn(s, day) \/ ~stillOpen(s, e.project) THEN new.rows = p.rows
         ELSE new.rejected = 0 => new.rows = Append(p.rows, moved)
      /\ moved \in OnDay(day)
  BY EntryCopied
<1>2. e \in Entry /\ e.user = Actor /\ e.day \in from..(from + 6) /\ p.rows \in Seq(Entry) /\ moved \in Entry
  BY <1>1 DEF OfWeek, CopiesOf, OnDay
<1>3. Chosen(more, those) = IF e \in those THEN Append(Chosen(seen, those), e) ELSE Chosen(seen, those)
  BY <1>2, ChosenWithOne
<1>4. e \in those <=> e.day = from + d /\ stillOpen(s, e.project)
  BY <1>2 DEF Taken, OnDay
<1>5. day = to + d <=> e.day = from + d
  BY <1>2
<1>6. moved \in OnDay(to + d) <=> day = to + d
  BY <1>1 DEF OnDay
<1>7. Chosen(seen, those) \in Seq(Entry) /\ EntriesOn(p.rows, to + d) \in Seq(Entry)
  <2>1. EntriesOn(p.rows, to + d) = Chosen(p.rows, OnDay(to + d))
    BY <1>2, EntriesAreChosen
  <2> QED
    BY <1>2, <2>1, ChosenTyped
<1>8. Undated0(moved) = Undated0(e)
  <2>1. e = [user |-> e.user, project |-> e.project, day |-> e.day, hours |-> e.hours]
    BY <1>2 DEF Entry
  <2> QED
    BY <2>1 DEF Undated0, Moved
<1>9. EntriesOn(Append(p.rows, moved), to + d) =
        IF moved \in OnDay(to + d) THEN Append(EntriesOn(p.rows, to + d), moved) ELSE EntriesOn(p.rows, to + d)
  BY <1>2, OneMoreOnDay
<1> DEFINE a == Chosen(seen, those)
           b == EntriesOn(p.rows, to + d)
<1>10. p.rejected = 0 => Undating(b) = IF bookedOn(s, to + d) THEN <<>> ELSE Undating(a)
  BY DEF CopiedOn
<1> HIDE DEF a, b, moved, day, new, those, more
<1>11. Undating(Append(a, e)) = Append(Undating(a), Undated0(e))
  BY <1>2, <1>7, UndatingOne DEF a
<1>12. Undating(Append(b, moved)) = Append(Undating(b), Undated0(moved))
  BY <1>2, <1>7, UndatingOne DEF b
<1>13. SUFFICES ASSUME new.rejected = 0
       PROVE  Undating(EntriesOn(new.rows, to + d)) =
                IF bookedOn(s, to + d) THEN <<>> ELSE Undating(Chosen(more, those))
  BY DEF CopiedOn, new, more, those
<1>14. Undating(b) = IF bookedOn(s, to + d) THEN <<>> ELSE Undating(a)
  BY <1>1, <1>10, <1>13
<1>15. CASE bookedOn(s, day) \/ ~stillOpen(s, e.project)
  <2>1. new.rows = p.rows
    BY <1>1, <1>15
  <2>2. ~bookedOn(s, to + d) => e \notin those
    BY <1>4, <1>5, <1>15
  <2> QED
    BY <1>3, <1>14, <2>1, <2>2 DEF a, b
<1>16. CASE ~bookedOn(s, day) /\ stillOpen(s, e.project)
  <2>1. new.rows = Append(p.rows, moved)
    BY <1>1, <1>13, <1>16
  <2>2. CASE day = to + d
    <3>1. Undating(EntriesOn(new.rows, to + d)) = Append(Undating(b), Undated0(e))
      BY <1>6, <1>8, <1>9, <1>12, <2>1, <2>2 DEF b
    <3>2. Chosen(more, those) = Append(a, e)
      BY <1>3, <1>4, <1>5, <1>16, <2>2 DEF a
    <3> QED
      BY <1>11, <1>14, <1>16, <2>2, <3>1, <3>2
  <2>3. CASE day # to + d
    BY <1>3, <1>4, <1>5, <1>6, <1>9, <1>14, <2>1, <2>3 DEF a, b
  <2> QED
    BY <2>2, <2>3
<1> QED
  BY <1>15, <1>16

LEMMA CopiedInAll ==
  ASSUME NEW s, Store(s), NotOverfilled(s.entries), NEW from \in Nat, NEW to \in Nat, NEW d \in 0..6
  PROVE  CopiedOn(s, from, to, d, weekOf(s, from), planCopy(s, from, to))
<1> DEFINE week == weekOf(s, from)
           first == NothingCopied
           step == CopiesEntry(s, week, to - from)
           n == Len(week)
           Seen(k) == [i \in 1..k |-> week[i]]
           B == {k \in 0..n : ~CopiedOn(s, from, to, d, Seen(k), StepsTo(first, step, k))}
<1>0. week \in Seq(OfWeek(from)) /\ OfWeek(from) \in SUBSET Entry
  BY WeekInSteps DEF OfWeek
<1>1. planCopy(s, from, to) = StepsTo(first, step, n)
  BY CopyInSteps
<1> HIDE DEF week
<1>2. week \in Seq(Entry) /\ n \in Nat /\ week = Seen(n) /\ \A k \in 1..n : week[k] \in OfWeek(from)
  BY <1>0
<1>3. StepsIn(CopiesOf(s), first, step)
      /\ \A k \in 1..n : \A p \in CopiesOf(s) : step[<<k, p>>] = copyEntry(s, p, week[k], to - from)
  BY <1>0, CopiesTyped
<1> HIDE DEF step, n
<1>4. ASSUME NEW k \in Nat
      PROVE  /\ StepsTo(first, step, k) \in CopiesOf(s)
             /\ StepsTo(first, step, 0) = first
             /\ StepsTo(first, step, k + 1) = step[<<k + 1, StepsTo(first, step, k)>>]
  <2> HIDE DEF first
  <2> QED
    BY <1>3, OneStepMore
<1>5. CopiedOn(s, from, to, d, <<>>, first)
  <2>1. EntriesOn(<<>>, to + d) = <<>>
    <3>1. <<>> \in Seq(Entry)
      OBVIOUS
    <3> QED
      BY <3>1, EntriesAreChosen, ChosenOfNothing
  <2>2. Undating(<<>>) = <<>>
    BY DEF Undating
  <2> QED
    BY <2>1, <2>2, ChosenOfNothing DEF CopiedOn, NothingCopied
<1>6. B = {}
  <2> SUFFICES ASSUME B # {} PROVE FALSE
    OBVIOUS
  <2>1. PICK l \in B : \A j \in B : l <= j
    <3>1. B \in SUBSET Nat
      OBVIOUS
    <3> HIDE DEF B
    <3> QED
      BY <3>1, Least
  <2>2. l \in 0..n /\ ~CopiedOn(s, from, to, d, Seen(l), StepsTo(first, step, l))
    OBVIOUS
  <2>3. l # 0
    <3>1. Seen(0) = <<>>
      OBVIOUS
    <3>2. 0 \in Nat
      OBVIOUS
    <3>3. StepsTo(first, step, 0) = first
      BY <1>4, <3>2
    <3> HIDE DEF Seen, first
    <3> QED
      BY <1>5, <2>2, <3>1, <3>3
  <2> DEFINE k == l - 1
  <2>a. k \in Nat /\ k \in 0..n /\ k + 1 = l /\ l \in 1..n /\ ~(l <= k)
    BY <1>2, <2>2, <2>3
  <2>4. k \in Nat /\ k \in 0..n /\ k + 1 = l /\ l \in 1..n /\ k \notin B
    <3> HIDE DEF B, k
    <3> QED
      BY <2>1, <2>a
  <2> DEFINE p == StepsTo(first, step, k)
             e == week[l]
  <2>5. CopiedOn(s, from, to, d, Seen(k), p)
    BY <2>4
  <2>6. Seen(k) \in Seq(Entry) /\ Seen(l) = Append(Seen(k), e)
    <3>1. \A i \in 1..l : week[i] \in Entry
      BY <1>0, <1>2, <2>4
    <3>2. \A i \in 1..l : i = l \/ i \in 1..k
      BY <2>4
    <3>3. \A i \in 1..k : i \in 1..l
      BY <2>4
    <3> HIDE DEF k
    <3>4. Seen(k) \in Seq(Entry) /\ Len(Seen(k)) = k
      BY <2>4, <3>1, <3>3
    <3>5. \A i \in 1..k : Seen(k)[i] = week[i]
      OBVIOUS
    <3> DEFINE A == Append(Seen(k), e)
    <3>6. A \in Seq(Entry) /\ Len(A) = l /\ A[l] = e /\ \A i \in 1..k : A[i] = week[i]
      <4>1. e \in Entry /\ l \in 1..l
        BY <2>4, <3>1
      <4> HIDE DEF Seen, e
      <4> QED
        BY <2>4, <3>4, <3>5, <4>1
    <3> HIDE DEF A
    <3>7. A = [i \in 1..l |-> A[i]]
      BY <3>6
    <3>8. \A i \in 1..l : A[i] = week[i]
      BY <3>2, <3>6
    <3>9. A = Seen(l)
      BY <3>7, <3>8
    <3> QED
      BY <3>4, <3>9 DEF A
  <2>7. StepsTo(first, step, l) = step[<<l, p>>] /\ p \in CopiesOf(s)
    <3> HIDE DEF k, first
    <3>1. StepsTo(first, step, k + 1) = step[<<k + 1, p>>] /\ p \in CopiesOf(s)
      BY <1>4, <2>4
    <3> QED
      BY <2>4, <3>1
  <2> HIDE DEF p, k, B, Seen
  <2>8. StepsTo(first, step, l) = copyEntry(s, p, e, to - from) /\ e \in OfWeek(from)
    BY <1>2, <1>3, <2>4, <2>7
  <2> HIDE DEF e
  <2>9. CopiedOn(s, from, to, d, Append(Seen(k), e), copyEntry(s, p, e, to - from))
    BY <2>5, <2>6, <2>7, <2>8, CopiedOneMore
  <2> QED
    BY <2>2, <2>6, <2>8, <2>9
<1>7. n \in 0..n /\ n \notin B
  BY <1>2, <1>6
<1>8. CopiedOn(s, from, to, d, Seen(n), StepsTo(first, step, n))
  BY <1>7
<1> HIDE DEF Seen, first
<1> QED
  BY <1>1, <1>2, <1>8 DEF week

LEMMA SomeChosen ==
  ASSUME NEW S, NEW seq \in Seq(S), NEW those, NEW i \in DOMAIN seq, seq[i] \in those
  PROVE  Chosen(seq, those) # <<>>
<1> DEFINE B == {q \in Seq(S) : Chosen(q, those) = <<>> /\ \E j \in DOMAIN q : q[j] \in those}
<1> SUFFICES ASSUME seq \in B PROVE FALSE
  OBVIOUS
<1>1. <<>> \notin B
  OBVIOUS
<1>2. PICK q \in Seq(S), e \in S : q \notin B /\ Append(q, e) \in B
  <2>1. B \in SUBSET Seq(S)
    OBVIOUS
  <2> HIDE DEF B
  <2> QED
    BY <1>1, <2>1, ShortestOf
<1> DEFINE more == Append(q, e)
<1>3. Chosen(more, those) = <<>> /\ \E j \in DOMAIN more : more[j] \in those
  BY <1>2
<1>4. Chosen(more, those) = IF e \in those THEN Append(Chosen(q, those), e) ELSE Chosen(q, those)
  BY ChosenWithOne
<1>5. Chosen(q, those) \in Seq(S)
  BY ChosenTyped
<1>6. \A j \in DOMAIN more : more[j] = e \/ (j \in DOMAIN q /\ more[j] = q[j])
  OBVIOUS
<1> HIDE DEF more
<1>7. Append(Chosen(q, those), e) # <<>>
  BY <1>5
<1>8. e \notin those /\ Chosen(q, those) = <<>>
  BY <1>3, <1>4, <1>7
<1>9. \E j \in DOMAIN q : q[j] \in those
  BY <1>3, <1>6, <1>8
<1> QED
  BY <1>2, <1>8, <1>9

LEMMA BookedIsListed ==
  ASSUME NEW s, Store(s), NEW day
  PROVE  bookedOn(s, day) <=> EntriesOn(s.entries, day) # <<>>
<1> DEFINE t == s.entries
           those == OnDay(day)
<1>1. t \in Seq(Entry) /\ \A i \in DOMAIN t : t[i] \in Entry
  BY DEF Store
<1>2. EntriesOn(t, day) = Chosen(t, those)
  BY <1>1, EntriesAreChosen
<1>3. bookedOn(s, day) <=> \E i \in DOMAIN t : t[i] \in those
  BY <1>1 DEF bookedOn, OnDay
<1> HIDE DEF those, t
<1>4. CASE \E i \in DOMAIN t : t[i] \in those
  BY <1>1, <1>2, <1>3, <1>4, SomeChosen DEF t
<1>5. CASE ~ \E i \in DOMAIN t : t[i] \in those
  <2> DEFINE R == Entry \ those
  <2>1. t \in Seq(R)
    <3>1. \A i \in 1..Len(t) : t[i] \in R
      BY <1>1, <1>5
    <3>2. t = [i \in 1..Len(t) |-> t[i]] /\ Len(t) \in Nat
      BY <1>1
    <3> HIDE DEF R
    <3> QED
      BY <3>1, <3>2
  <2>2. \A e \in R : e \notin those
    OBVIOUS
  <2> HIDE DEF R
  <2>3. Chosen(t, those) = <<>>
    BY <2>1, <2>2, NoneChosen
  <2> QED
    BY <1>2, <1>3, <1>5, <2>3 DEF t
<1> QED
  BY <1>4, <1>5

\* A copied day is the one it was copied from.
AsItWas(s, from, to, d, after) ==
  Undating(EntriesOn(after, to + d)) =
    Undating(IF EntriesOn(s.entries, to + d) # <<>> THEN EntriesOn(s.entries, to + d)
             ELSE Chosen(EntriesOn(s.entries, from + d), {e \in Range(s.entries) : stillOpen(s, e.project)}))
LEMMA WeekAsItWas ==
  ASSUME NEW s, Store(s), NotOverfilled(s.entries), NEW from \in Nat, NEW to \in Nat, NEW d \in 0..6,
         planCopy(s, from, to).rejected = 0, NEW after, after = s.entries \o planCopy(s, from, to).rows
  PROVE  AsItWas(s, from, to, d, after)
<1> DEFINE day == to + d
           t == s.entries
           p == planCopy(s, from, to)
           rows == p.rows
           a == EntriesOn(t, day)
           b == EntriesOn(rows, day)
           those == OnDay(day)
           these == {e \in Range(t) : stillOpen(s, e.project)}
           c == EntriesOn(t, from + d)
<1>1. t \in Seq(Entry) /\ rows \in Seq(Entry) /\ after = t \o rows /\ after \in Seq(Entry)
  <2>1. p \in CopiesOf(s)
    BY CopyInSteps
  <2>2. rows \in Seq(Entry)
    BY <2>1 DEF CopiesOf
  <2>3. t \in Seq(Entry)
    BY DEF Store
  <2> HIDE DEF rows, t
  <2>4. after = t \o rows
    BY DEF rows, t
  <2> QED
    BY <2>2, <2>3, <2>4
<1>2. EntriesOn(after, day) = a \o b
  <2>1. EntriesOn(after, day) = Chosen(after, those) /\ a = Chosen(t, those) /\ b = Chosen(rows, those)
    BY <1>1, EntriesAreChosen
  <2> HIDE DEF t, rows, those, a, b
  <2>2. Chosen(t \o rows, those) = Chosen(t, those) \o Chosen(rows, those)
    BY <1>1, ChosenOfBoth
  <2> QED
    BY <1>1, <2>1, <2>2
<1>3. a \in Seq(Entry) /\ b \in Seq(Entry)
  <2>1. a = Chosen(t, those) /\ b = Chosen(rows, those)
    BY <1>1, EntriesAreChosen
  <2> HIDE DEF t, rows, those, a, b
  <2> QED
    BY <1>1, <2>1, ChosenTyped
<1>4. Undating(b) = IF bookedOn(s, day) THEN <<>> ELSE Undating(Chosen(weekOf(s, from), Taken(s, from + d)))
  BY CopiedInAll DEF CopiedOn
<1>5. Chosen(weekOf(s, from), Taken(s, from + d)) = Chosen(c, Open(s))
  BY WeekDayByDay
<1>6. Chosen(c, Open(s)) = Chosen(c, these)
  <2> DEFINE R == Range(t)
  <2>1. R \in SUBSET Entry /\ \A i \in DOMAIN t : t[i] \in R
    BY <1>1 DEF Range
  <2>2. \A e \in R : e \in Open(s) <=> e \in these
    BY <2>1 DEF Open
  <2> HIDE DEF R, these, t
  <2>3. t \in Seq(R)
    BY <1>1, <2>1
  <2>4. c = Chosen(t, OnDay(from + d))
    BY <1>1, EntriesAreChosen
  <2>5. c \in Seq(R)
    BY <2>3, <2>4, ChosenTyped
  <2> HIDE DEF c
  <2> QED
    BY <2>2, <2>5, ChosenTheSame
<1>7. bookedOn(s, day) <=> a # <<>>
  BY BookedIsListed
<1> HIDE DEF a, b, c, day, t, rows, these
<1>8. CASE a # <<>>
  <2>1. Undating(b) = <<>>
    BY <1>4, <1>7, <1>8
  <2>2. b = <<>>
    <3>1. DOMAIN Undating(b) = DOMAIN b
      BY DEF Undating
    <3> QED
      BY <1>3, <2>1, <3>1
  <2>3. a \o b = a
    BY <1>3, <2>2
  <2> QED
    BY <1>2, <1>8, <2>3 DEF AsItWas, a, b, c, day, t, rows, these
<1>9. CASE a = <<>>
  <2>1. a \o b = b
    BY <1>3, <1>9
  <2>2. Undating(b) = Undating(Chosen(c, these))
    BY <1>4, <1>5, <1>6, <1>7, <1>9
  <2> QED
    BY <1>2, <1>9, <2>1, <2>2 DEF AsItWas, a, b, c, day, t, rows, these
<1> QED
  BY <1>8, <1>9

-----------------------------------------------------------------------------
(* What holds whatever is uploaded, copied and changed meanwhile.          *)

PlanOf(s, kind, rows) == [i \in DOMAIN rows |-> planSheetRow(s, kind, rows[i]).planned]

LEMMA RowIsPlanned ==
  ASSUME NEW s, NEW kind \in Sheets, NEW rows \in Seq(RowOf(kind))
  PROVE  SheetPlan(kind, Len(rows), PlanOf(s, kind, rows))
<1>1. Len(rows) \in Nat /\ DOMAIN rows = 1..Len(rows) /\ \A i \in 1..Len(rows) : rows[i] \in RowOf(kind)
  OBVIOUS
<1>2. \A row : planSheetRow(s, kind, row).planned.row = row
  BY DEF planSheetRow, planProject, planAccount, planRole, matchProject, Sheets
<1> QED
  BY <1>1, <1>2 DEF SheetPlan, PlanOf

Request(state, kind, lines, plan, at, written, said, alone, before) ==
  [state |-> state, kind |-> kind, asked |-> lines, plan |-> plan, at |-> at, written |-> written,
   said |-> said, alone |-> alone, before |-> before]
UploadFields(u) == u = Request(u.state, u.kind, u.asked, u.plan, u.at, u.written, u.said, u.alone, u.before)

\* A sheet: planned as its rows say of what was there, and written as far as is counted.
SheetKept(u, s) ==
  /\ u.asked \in Seq(RowOf(u.kind)) /\ u.plan = PlanOf(u.before, u.kind, u.asked)
  /\ u.written \in Nat /\ (u.state = "writing" => u.at = u.written + 1)
  /\ u.alone /\ u.said # "refused" =>
       /\ u.written <= Len(u.asked) /\ After(u.before, u.kind, u.plan, u.written) = Wrote(s)
       /\ \A i \in DOMAIN u.asked : ~planSheetRow(u.before, u.kind, u.asked[i]).problem

\* Entries and weeks: rows that fit into their days, there when the answer says so.
RowsKept(u, s) ==
  /\ u.plan \in Seq(Entry) /\ NotOverfilled(u.before.entries \o u.plan)
  /\ s.entries = IF u.said = "done" THEN u.before.entries \o u.plan ELSE u.before.entries
  /\ u.kind = "week" =>
       LET copy == planCopy(u.before, u.asked[1], u.asked[2]) IN
       /\ u.asked[1] \in Nat /\ u.asked[2] \in Nat /\ u.plan = copy.rows
       /\ u.said # "refused" => copy.rejected = 0

UploadKept(u, s) ==
  /\ UploadFields(u) /\ u.state \in {"writing", "answered"} /\ (u.state = "writing" => u.said = "")
  /\ Store(u.before) /\ NotOverfilled(u.before.entries)
  /\ \/ u.kind \in Sheets /\ SheetKept(u, s)
     \/ u.kind \in {"entries", "week"} /\ RowsKept(u, s)
BooksKept == Store(store) /\ NotOverfilled(store.entries) /\ (upload = NoUpload \/ UploadKept(upload, store))

LEMMA FieldChanged ==
  ASSUME NEW u, UploadFields(u), NEW x
  PROVE  /\ [u EXCEPT !.state = x] = Request(x, u.kind, u.asked, u.plan, u.at, u.written, u.said, u.alone, u.before)
         /\ [u EXCEPT !.said = x] = Request(u.state, u.kind, u.asked, u.plan, u.at, u.written, x, u.alone, u.before)
         /\ [u EXCEPT !.at = x] = Request(u.state, u.kind, u.asked, u.plan, x, u.written, u.said, u.alone, u.before)
         /\ [u EXCEPT !.written = x] = Request(u.state, u.kind, u.asked, u.plan, u.at, x, u.said, u.alone, u.before)
         /\ [u EXCEPT !.alone = x] = Request(u.state, u.kind, u.asked, u.plan, u.at, u.written, u.said, x, u.before)
<1>1. [u EXCEPT !.state = x] = Request(x, u.kind, u.asked, u.plan, u.at, u.written, u.said, u.alone, u.before)
  BY DEF UploadFields, Request
<1>2. [u EXCEPT !.said = x] = Request(u.state, u.kind, u.asked, u.plan, u.at, u.written, x, u.alone, u.before)
  BY DEF UploadFields, Request
<1>3. [u EXCEPT !.at = x] = Request(u.state, u.kind, u.asked, u.plan, x, u.written, u.said, u.alone, u.before)
  BY DEF UploadFields, Request
<1>4. [u EXCEPT !.written = x] = Request(u.state, u.kind, u.asked, u.plan, u.at, x, u.said, u.alone, u.before)
  BY DEF UploadFields, Request
<1>5. [u EXCEPT !.alone = x] = Request(u.state, u.kind, u.asked, u.plan, u.at, u.written, u.said, x, u.before)
  BY DEF UploadFields, Request
<1> QED
  BY <1>1, <1>2, <1>3, <1>4, <1>5

LEMMA UploadChanged ==
  ASSUME NEW u, UploadFields(u), NEW x
  PROVE  /\ [u EXCEPT !.state = "answered", !.said = x] =
              Request("answered", u.kind, u.asked, u.plan, u.at, u.written, x, u.alone, u.before)
         /\ [u EXCEPT !.written = @ + 1, !.at = @ + 1] =
              Request(u.state, u.kind, u.asked, u.plan, u.at + 1, u.written + 1, u.said, u.alone, u.before)
<1>1. [u EXCEPT !.state = "answered", !.said = x] =
        Request("answered", u.kind, u.asked, u.plan, u.at, u.written, x, u.alone, u.before)
  <2> DEFINE v == [u EXCEPT !.state = "answered"]
  <2>1. v = Request("answered", u.kind, u.asked, u.plan, u.at, u.written, u.said, u.alone, u.before)
    BY FieldChanged
  <2>2. [u EXCEPT !.state = "answered", !.said = x] = [v EXCEPT !.said = x]
    OBVIOUS
  <2> HIDE DEF v
  <2>3. UploadFields(v) /\ v.state = "answered" /\ v.kind = u.kind /\ v.asked = u.asked /\ v.plan = u.plan
        /\ v.at = u.at /\ v.written = u.written /\ v.alone = u.alone /\ v.before = u.before
    BY <2>1 DEF Request, UploadFields
  <2>4. [v EXCEPT !.said = x] = Request(v.state, v.kind, v.asked, v.plan, v.at, v.written, x, v.alone, v.before)
    BY <2>3, FieldChanged
  <2> QED
    BY <2>2, <2>3, <2>4
<1>2. [u EXCEPT !.written = @ + 1, !.at = @ + 1] =
        Request(u.state, u.kind, u.asked, u.plan, u.at + 1, u.written + 1, u.said, u.alone, u.before)
  <2> DEFINE w == u.written + 1
             a == u.at + 1
             v == [u EXCEPT !.written = w]
  <2>1. v = Request(u.state, u.kind, u.asked, u.plan, u.at, w, u.said, u.alone, u.before)
    BY FieldChanged
  <2>2. [u EXCEPT !.written = @ + 1, !.at = @ + 1] = [v EXCEPT !.at = a]
    OBVIOUS
  <2> HIDE DEF v, w, a
  <2>3. UploadFields(v) /\ v.state = u.state /\ v.kind = u.kind /\ v.asked = u.asked /\ v.plan = u.plan
        /\ v.written = w /\ v.said = u.said /\ v.alone = u.alone /\ v.before = u.before
    BY <2>1 DEF Request, UploadFields
  <2>4. [v EXCEPT !.at = a] = Request(v.state, v.kind, v.asked, v.plan, a, v.written, v.said, v.alone, v.before)
    BY <2>3, FieldChanged
  <2> QED
    BY <2>2, <2>3, <2>4 DEF w, a
<1> QED
  BY <1>1, <1>2

\* A request that is taken up.
LEMMA AskedKept ==
  ASSUME BooksKept, NEW kind, NEW rows, NEW plan, NEW said, NEW state,
         (state = "writing" /\ said = "") \/ state = "answered",
         NEW u, u = Request(state, kind, rows, plan, 1, 0, said, TRUE, store),
         \/ kind \in Sheets /\ SheetKept(u, store)
         \/ kind \in {"entries", "week"} /\ RowsKept(u, store)
  PROVE  UploadKept(u, store)
<1>1. /\ UploadFields(u) /\ u.kind = kind /\ u.before = store /\ u.state = state /\ u.said = said
  BY DEF Request, UploadFields
<1> QED
  BY <1>1 DEF BooksKept, UploadKept

LEMMA OpenedIs ==
  ASSUME NEW kind, NEW rows, NEW plan, NEW x
  PROVE  /\ Asked(kind, rows, plan) = Request("writing", kind, rows, plan, 1, 0, "", TRUE, store)
         /\ [Asked(kind, rows, plan) EXCEPT !.state = "answered", !.said = x] =
              Request("answered", kind, rows, plan, 1, 0, x, TRUE, store)
<1> DEFINE u == Asked(kind, rows, plan)
<1>1. u = Request("writing", kind, rows, plan, 1, 0, "", TRUE, store)
  BY DEF Asked, Request
<1> HIDE DEF u
<1>2. /\ UploadFields(u) /\ u.kind = kind /\ u.asked = rows /\ u.plan = plan /\ u.at = 1 /\ u.written = 0
      /\ u.alone = TRUE /\ u.before = store
  BY <1>1 DEF Request, UploadFields
<1>3. [u EXCEPT !.state = "answered", !.said = x] =
        Request("answered", u.kind, u.asked, u.plan, u.at, u.written, x, u.alone, u.before)
  BY <1>2, UploadChanged
<1> QED
  BY <1>1, <1>2, <1>3 DEF u

LEMMA SheetAsked ==
  ASSUME BooksKept, NEW file, file.kind \in Sheets, file.rows \in Seq(RowOf(file.kind)), NEW plans,
         plans = [i \in DOMAIN file.rows |-> planSheetRow(store, file.kind, file.rows[i])],
         ImportSheet(file, plans)
  PROVE  BooksKept'
<1> DEFINE kind == file.kind
           rows == file.rows
           plan == [i \in DOMAIN plans |-> plans[i].planned]
           troubled == {i \in DOMAIN plans : plans[i].problem}
           rejected == Cardinality(troubled)
           opened == Asked(kind, rows, plan)
           shut == [opened EXCEPT !.state = "answered", !.said = "refused"]
<1>1. DOMAIN plans = DOMAIN rows /\ DOMAIN rows = 1..Len(rows) /\ Len(rows) \in Nat
      /\ \A i \in DOMAIN rows : plans[i] = planSheetRow(store, kind, rows[i])
  OBVIOUS
<1>2. plan = PlanOf(store, kind, rows)
  BY <1>1 DEF PlanOf
<1>3. upload' = (IF refuseRejected(rows, rejected) THEN shut ELSE opened) /\ store' = store
  BY DEF ImportSheet
<1>4. Store(store) /\ NotOverfilled(store.entries)
  BY DEF BooksKept
<1>5. IsFiniteSet(troubled)
  <2>1. IsFiniteSet(1..Len(rows)) /\ troubled \in SUBSET (1..Len(rows))
    BY <1>1, FS_Interval
  <2> QED
    BY <2>1, FS_Subset
<1> HIDE DEF plan, troubled
<1>6. After(store, kind, plan, 0) = Wrote(store)
  BY <1>1, <1>2, <1>4, RowIsPlanned, AfterOneMore
<1>7. CASE refuseRejected(rows, rejected)
  <2>1. shut = Request("answered", kind, rows, plan, 1, 0, "refused", TRUE, store)
    BY OpenedIs
  <2>2. upload' = shut
    BY <1>3, <1>7
  <2> HIDE DEF shut, opened
  <2>3. SheetKept(shut, store)
    <3>1. /\ shut.asked = rows /\ shut.kind = kind /\ shut.plan = plan /\ shut.before = store
          /\ shut.written = 0 /\ shut.state = "answered" /\ shut.said = "refused"
      BY <2>1 DEF Request
    <3> QED
      BY <1>2, <3>1 DEF SheetKept
  <2>4. UploadKept(shut, store)
    BY <2>1, <2>3, AskedKept
  <2> QED
    BY <1>3, <1>4, <2>2, <2>4 DEF BooksKept
<1>8. CASE ~refuseRejected(rows, rejected)
  <2>1. opened = Request("writing", kind, rows, plan, 1, 0, "", TRUE, store)
    BY OpenedIs
  <2>2. upload' = opened
    BY <1>3, <1>8
  <2>3. troubled = {}
    <3>1. rejected \in Nat /\ ~(rejected > 0)
      BY <1>5, <1>8, FS_CardinalityType DEF refuseRejected
    <3>2. rejected = 0
      BY <3>1
    <3> QED
      BY <1>5, <3>2, FS_EmptySet
  <2>4. \A i \in DOMAIN rows : ~planSheetRow(store, kind, rows[i]).problem
    BY <1>1, <2>3 DEF troubled
  <2> HIDE DEF opened
  <2>5. SheetKept(opened, store)
    <3>a. /\ opened.asked = rows /\ opened.kind = kind /\ opened.plan = plan /\ opened.before = store
          /\ opened.written = 0 /\ opened.at = 1
      BY <2>1 DEF Request
    <3>1. opened.asked = rows /\ opened.kind = kind /\ opened.plan = plan /\ opened.before = store /\ opened.written = 0
          /\ opened.at = 0 + 1 /\ opened.written \in Nat /\ 0 <= Len(rows)
      BY <1>1, <3>a
    <3> QED
      BY <1>2, <1>6, <2>4, <3>1 DEF SheetKept
  <2>6. UploadKept(opened, store)
    BY <2>1, <2>5, AskedKept
  <2> QED
    BY <1>3, <1>4, <2>2, <2>6 DEF BooksKept
<1> QED
  BY <1>7, <1>8

LEMMA SheetsAsked ==
  ASSUME BooksKept, NEW file \in Files, ImportProjects(file) \/ ImportUsers(file) \/ ImportRoles(file)
  PROVE  BooksKept'
<1>1. file.rows \in Seq(RowOf(file.kind))
  BY WorkbooksAssumption
<1>2. CASE ImportProjects(file)
  <2> DEFINE plans == [i \in DOMAIN file.rows |-> planProject(store, file.rows[i])]
  <2>1. file.kind = "projects" /\ ImportSheet(file, plans)
    BY <1>2 DEF ImportProjects
  <2>2. plans = [i \in DOMAIN file.rows |-> planSheetRow(store, file.kind, file.rows[i])] /\ file.kind \in Sheets
    BY <2>1 DEF planSheetRow, Sheets
  <2> HIDE DEF plans
  <2> QED
    BY <1>1, <2>1, <2>2, SheetAsked
<1>3. CASE ImportUsers(file)
  <2> DEFINE plans == [i \in DOMAIN file.rows |-> planAccount(store, file.rows[i])]
  <2>1. file.kind = "accounts" /\ ImportSheet(file, plans)
    BY <1>3 DEF ImportUsers
  <2>2. plans = [i \in DOMAIN file.rows |-> planSheetRow(store, file.kind, file.rows[i])] /\ file.kind \in Sheets
    BY <2>1 DEF planSheetRow, Sheets
  <2> HIDE DEF plans
  <2> QED
    BY <1>1, <2>1, <2>2, SheetAsked
<1>4. CASE ImportRoles(file)
  <2> DEFINE plans == [i \in DOMAIN file.rows |-> planRole(store, file.rows[i])]
  <2>1. file.kind = "roles" /\ ImportSheet(file, plans)
    BY <1>4 DEF ImportRoles
  <2>2. plans = [i \in DOMAIN file.rows |-> planSheetRow(store, file.kind, file.rows[i])] /\ file.kind \in Sheets
    BY <2>1 DEF planSheetRow, Sheets
  <2> HIDE DEF plans
  <2> QED
    BY <1>1, <2>1, <2>2, SheetAsked
<1> QED
  BY <1>2, <1>3, <1>4

\* Entries and a week, as they are asked for.
LEMMA RowsAsked ==
  ASSUME BooksKept, NEW kind \in {"entries", "week"}, NEW lines, NEW rows \in Seq(Entry), NEW rejected,
         NotOverfilled(store.entries \o rows), NEW refused, NEW nothing \in BOOLEAN, nothing => rows = <<>>,
         kind = "week" => LET copy == planCopy(store, lines[1], lines[2]) IN
           lines[1] \in Nat /\ lines[2] \in Nat /\ rows = copy.rows /\ (~refused => copy.rejected = 0),
         store' = store,
         upload' = IF refused THEN Request("answered", kind, lines, rows, 1, 0, "refused", TRUE, store)
                   ELSE IF nothing THEN Request("answered", kind, lines, rows, 1, 0, "done", TRUE, store)
                   ELSE Request("writing", kind, lines, rows, 1, 0, "", TRUE, store)
  PROVE  BooksKept'
<1>1. Store(store) /\ NotOverfilled(store.entries) /\ store.entries \in Seq(Entry)
  BY DEF BooksKept, Store
<1>2. PICK state, said : /\ upload' = Request(state, kind, lines, rows, 1, 0, said, TRUE, store)
                         /\ (state = "writing" /\ said = "") \/ state = "answered"
                         /\ said \in {"", "refused"} \/ nothing
                         /\ refused => said = "refused"
  <2>1. CASE refused
    BY <2>1
  <2>2. CASE ~refused /\ nothing
    BY <2>2
  <2>3. CASE ~refused /\ ~nothing
    BY <2>3
  <2> QED
    BY <2>1, <2>2, <2>3
<1> DEFINE u == upload'
<1>3. u = Request(state, kind, lines, rows, 1, 0, said, TRUE, store)
  BY <1>2
<1> HIDE DEF u
<1>4. /\ u.kind = kind /\ u.plan = rows /\ u.before = store /\ u.said = said /\ u.asked = lines
  BY <1>3 DEF Request
<1>5. store.entries = IF said = "done" THEN store.entries \o rows ELSE store.entries
  <2>1. nothing => store.entries \o rows = store.entries
    BY <1>1
  <2> QED
    BY <1>2, <2>1
<1>6. RowsKept(u, store)
  <2>1. u.plan \in Seq(Entry) /\ NotOverfilled(u.before.entries \o u.plan)
    BY <1>4
  <2>2. store.entries = IF u.said = "done" THEN u.before.entries \o u.plan ELSE u.before.entries
    BY <1>4, <1>5
  <2>3. u.kind = "week" =>
          LET copy == planCopy(u.before, u.asked[1], u.asked[2]) IN
          /\ u.asked[1] \in Nat /\ u.asked[2] \in Nat /\ u.plan = copy.rows
          /\ u.said # "refused" => copy.rejected = 0
    BY <1>2, <1>4
  <2> QED
    BY <2>1, <2>2, <2>3 DEF RowsKept
<1>7. UploadKept(u, store)
  BY <1>2, <1>3, <1>6, AskedKept
<1> QED
  BY <1>1, <1>7 DEF BooksKept, u

LEMMA EntriesAsked ==
  ASSUME BooksKept, NEW file \in Files, ImportEntries(file)
  PROVE  BooksKept'
<1> DEFINE plan == planEntries(store, file.rows)
           rows == plan.rows
           refused == refuseRejected(file.rows, plan.rejected)
           opened == Asked("entries", file.rows, rows)
           shut == [opened EXCEPT !.state = "answered", !.said = "refused"]
<1>1. file.kind = "entries" /\ upload' = (IF refused THEN shut ELSE opened) /\ store' = store
  BY DEF ImportEntries
<1>2. file.rows \in Seq(RowOf("entries"))
  <2>1. file.rows \in Seq(RowOf(file.kind))
    BY WorkbooksAssumption
  <2> QED
    BY <1>1, <2>1
<1>3. Store(store) /\ NotOverfilled(store.entries)
  BY DEF BooksKept
<1>4. plan \in PlansOf(store)
  BY <1>2, <1>3, EntriesPlanned
<1>5. rows \in Seq(Entry) /\ NotOverfilled(store.entries \o rows)
  BY <1>4 DEF PlansOf
<1> HIDE DEF plan, refused
<1>6. /\ opened = Request("writing", "entries", file.rows, rows, 1, 0, "", TRUE, store)
      /\ shut = Request("answered", "entries", file.rows, rows, 1, 0, "refused", TRUE, store)
  BY OpenedIs
<1>7. upload' = IF refused THEN Request("answered", "entries", file.rows, rows, 1, 0, "refused", TRUE, store)
                ELSE IF FALSE THEN Request("answered", "entries", file.rows, rows, 1, 0, "done", TRUE, store)
                ELSE Request("writing", "entries", file.rows, rows, 1, 0, "", TRUE, store)
  BY <1>1, <1>6
<1> QED
  BY <1>1, <1>5, <1>7, RowsAsked

LEMMA WeekAsked ==
  ASSUME BooksKept, NEW copy \in Copies, CopyWeek(copy.from, copy.to)
  PROVE  BooksKept'
<1> DEFINE from == copy.from
           to == copy.to
           plan == planCopy(store, from, to)
           rows == plan.rows
           lines == <<from, to>>
           refused == weekOf(store, from) = <<>> \/ plan.rejected > 0
           opened == Asked("week", lines, rows)
           nothing == rows = <<>>
           shut == [opened EXCEPT !.state = "answered", !.said = "refused"]
           ended == [opened EXCEPT !.state = "answered", !.said = "done"]
<1>1. upload' = (IF refused THEN shut ELSE IF nothing THEN ended ELSE opened) /\ store' = store
  BY DEF CopyWeek
<1>2. from \in Nat /\ to \in Nat
  BY WorkbooksAssumption
<1>3. Store(store) /\ NotOverfilled(store.entries)
  BY DEF BooksKept
<1> HIDE DEF from, to
<1>4. plan \in CopiesOf(store)
  BY <1>2, <1>3, CopyInSteps
<1>5. rows \in Seq(Entry) /\ NotOverfilled(store.entries \o rows) /\ plan.rejected \in Nat
  BY <1>4 DEF CopiesOf
<1>6. lines[1] = from /\ lines[2] = to
  OBVIOUS
<1> HIDE DEF lines
<1>7. ~refused => planCopy(store, lines[1], lines[2]).rejected = 0
  BY <1>5, <1>6
<1>8. lines[1] \in Nat /\ lines[2] \in Nat /\ rows = planCopy(store, lines[1], lines[2]).rows
  BY <1>2, <1>6
<1> HIDE DEF plan, refused
<1>9. /\ opened = Request("writing", "week", lines, rows, 1, 0, "", TRUE, store)
      /\ shut = Request("answered", "week", lines, rows, 1, 0, "refused", TRUE, store)
      /\ ended = Request("answered", "week", lines, rows, 1, 0, "done", TRUE, store)
  BY OpenedIs
<1> HIDE DEF opened, shut, ended
<1>10. upload' = IF refused THEN Request("answered", "week", lines, rows, 1, 0, "refused", TRUE, store)
                ELSE IF nothing THEN Request("answered", "week", lines, rows, 1, 0, "done", TRUE, store)
                ELSE Request("writing", "week", lines, rows, 1, 0, "", TRUE, store)
  BY <1>1, <1>9
<1>11. nothing \in BOOLEAN /\ (nothing => rows = <<>>)
  OBVIOUS
<1> HIDE DEF rows, nothing
<1> QED
  BY <1>1, <1>5, <1>7, <1>8, <1>10, <1>11, RowsAsked

\* Which kind of upload it is.
LEMMA OfEitherKind ==
  ASSUME BooksKept, upload.state \in {"writing", "answered"}
  PROVE  /\ UploadFields(upload) /\ Store(upload.before) /\ NotOverfilled(upload.before.entries)
         /\ Store(store) /\ NotOverfilled(store.entries) /\ (upload.state = "writing" => upload.said = "")
         /\ upload.kind \in Sheets => SheetKept(upload, store)
         /\ upload.kind \in {"entries", "week"} => RowsKept(upload, store)
         /\ upload.kind \in Sheets \/ upload.kind \in {"entries", "week"}
<1>1. upload # NoUpload
  BY DEF NoUpload
<1>2. UploadKept(upload, store)
  BY <1>1 DEF BooksKept
<1>3. upload.kind \in Sheets => upload.kind \notin {"entries", "week"}
  BY DEF Sheets
<1> QED
  BY <1>2, <1>3 DEF BooksKept, UploadKept

\* What of a sheet's plan is known.
LEMMA PlanOfSheet ==
  ASSUME BooksKept, upload.state \in {"writing", "answered"}, upload.kind \in Sheets
  PROVE  /\ SheetPlan(upload.kind, Len(upload.asked), upload.plan) /\ Len(upload.plan) = Len(upload.asked)
         /\ Len(upload.asked) \in Nat
<1>1. upload.asked \in Seq(RowOf(upload.kind)) /\ upload.plan = PlanOf(upload.before, upload.kind, upload.asked)
  BY OfEitherKind DEF SheetKept
<1>2. DOMAIN upload.plan = 1..Len(upload.asked) /\ Len(upload.asked) \in Nat
  BY <1>1 DEF PlanOf
<1>3. Len(upload.plan) = Len(upload.asked)
  BY <1>1, <1>2 DEF PlanOf
<1> QED
  BY <1>1, <1>2, <1>3, RowIsPlanned

LEMMA RowApplied ==
  ASSUME BooksKept, NEW kind \in Sheets,
         WriteSheetRow(kind, writeSheetRow(store, kind, upload.plan[upload.at]))
  PROVE  BooksKept'
<1> DEFINE u == upload
           p == u.plan[u.at]
           result == writeSheetRow(store, kind, p)
           n == Len(u.asked)
<1>1. /\ u.state = "writing" /\ u.kind = kind /\ u.at <= Len(u.plan) /\ store' = result.store
      /\ upload' = counted(result)
  BY DEF WriteSheetRow
<1>2. /\ UploadFields(u) /\ Store(u.before) /\ NotOverfilled(u.before.entries) /\ SheetKept(u, store)
      /\ Store(store) /\ NotOverfilled(store.entries) /\ u.said = ""
  BY <1>1, OfEitherKind
<1>3. SheetPlan(kind, n, u.plan) /\ Len(u.plan) = n /\ n \in Nat
  BY <1>1, PlanOfSheet
<1>4. u.written \in Nat /\ u.at = u.written + 1 /\ u.at \in 1..n
  <2>1. u.written \in Nat /\ u.at = u.written + 1
    BY <1>1, <1>2 DEF SheetKept
  <2>2. u.at <= n
    BY <1>1, <1>3
  <2> HIDE DEF u, n
  <2> QED
    BY <1>3, <2>1, <2>2
<1>5. p.row \in RowOf(kind)
  BY <1>3, <1>4 DEF SheetPlan
<1>6. Outcome(store, result)
  <2> HIDE DEF p
  <2> QED
    BY <1>2, <1>5, SheetRowWritten
<1> HIDE DEF result, n
<1>7. Store(store') /\ NotOverfilled(store'.entries)
  <2>1. result.store \in AllStores /\ result.store.entries = store.entries
    BY <1>6 DEF Outcome, Results
  <2> QED
    BY <1>1, <1>2, <2>1, StoreIsOne
<1>8. CASE result.ok
  <2>1. upload' = Request("writing", kind, u.asked, u.plan, u.at + 1, u.written + 1, "", u.alone, u.before)
    BY <1>1, <1>2, <1>8, UploadChanged DEF counted
  <2>2. result = Wrote(store')
    BY <1>1, <1>6, <1>8 DEF Outcome, RefusedWrite
  <2> DEFINE v == upload'
  <2>3. v = Request("writing", kind, u.asked, u.plan, u.at + 1, u.written + 1, "", u.alone, u.before)
    BY <2>1
  <2> HIDE DEF v
  <2>4. /\ UploadFields(v) /\ v.state = "writing" /\ v.kind = kind /\ v.asked = u.asked /\ v.plan = u.plan
        /\ v.at = u.at + 1 /\ v.written = u.written + 1 /\ v.said = "" /\ v.before = u.before
    BY <2>3 DEF Request, UploadFields
  <2>a. v.alone = u.alone
    BY <2>3 DEF Request
  <2>5. v.written \in Nat /\ v.at = v.written + 1 /\ v.written <= n
    <3> DEFINE w == u.written
               a == u.at
    <3>1. w \in Nat /\ a = w + 1 /\ a \in 1..n /\ v.at = a + 1 /\ v.written = w + 1
      BY <1>4, <2>4
    <3> HIDE DEF w, a
    <3> QED
      BY <1>3, <3>1
  <2>6. ASSUME v.alone PROVE After(v.before, v.kind, v.plan, v.written) = Wrote(store')
    <3>1. After(u.before, kind, u.plan, u.written) = Wrote(store)
      BY <1>1, <1>2, <2>a, <2>6 DEF SheetKept
    <3>2. u.written \in 0..(n - 1)
      BY <1>4, <1>3
    <3>3. After(u.before, kind, u.plan, u.written + 1)
            = writeUnlessRefused(After(u.before, kind, u.plan, u.written), kind, u.plan[u.written + 1])
      <4> DEFINE k == u.written
                 s == u.before
                 plan == u.plan
      <4>1. \A j \in 0..(n - 1) :
              After(s, kind, plan, j + 1) = writeUnlessRefused(After(s, kind, plan, j), kind, plan[j + 1])
        <5>1. Store(s) /\ SheetPlan(kind, n, plan)
          BY <1>2, <1>3
        <5> HIDE DEF s, plan
        <5> QED
          BY <5>1, AfterOneMore
      <4> QED
        BY <3>2, <4>1
    <3>4. writeUnlessRefused(Wrote(store), kind, p) = result
      BY DEF writeUnlessRefused, Wrote, result
    <3> QED
      BY <1>4, <2>2, <2>4, <3>1, <3>3, <3>4
  <2>7. SheetKept(v, store')
    <3>1. v.asked \in Seq(RowOf(v.kind)) /\ v.plan = PlanOf(v.before, v.kind, v.asked)
      BY <1>1, <1>2, <2>4 DEF SheetKept
    <3>2. v.alone => \A i \in DOMAIN v.asked : ~planSheetRow(v.before, v.kind, v.asked[i]).problem
      BY <1>1, <1>2, <2>4, <2>a DEF SheetKept
    <3>3. v.written <= Len(v.asked)
      BY <2>4, <2>5 DEF n
    <3> QED
      BY <2>5, <2>6, <3>1, <3>2, <3>3 DEF SheetKept
  <2>8. UploadKept(v, store')
    BY <1>2, <2>4, <2>7 DEF UploadKept
  <2> QED
    BY <1>7, <2>8 DEF BooksKept, v
<1>9. CASE ~result.ok
  <2>1. upload' = Request("answered", kind, u.asked, u.plan, u.at, u.written, "stopped", u.alone, u.before)
    BY <1>1, <1>2, <1>9, UploadChanged DEF counted, Answered
  <2>2. store' = store
    BY <1>1, <1>6, <1>9 DEF Outcome, RefusedWrite, Wrote
  <2> DEFINE v == upload'
  <2>3. v = Request("answered", kind, u.asked, u.plan, u.at, u.written, "stopped", u.alone, u.before)
    BY <2>1
  <2> HIDE DEF v
  <2>4. /\ UploadFields(v) /\ v.state = "answered" /\ v.kind = kind /\ v.asked = u.asked /\ v.plan = u.plan
        /\ v.written = u.written /\ v.said = "stopped" /\ v.before = u.before
    BY <2>3 DEF Request, UploadFields
  <2>a. v.alone = u.alone
    BY <2>3 DEF Request
  <2>5. SheetKept(v, store)
    BY <1>1, <1>2, <2>4, <2>a DEF SheetKept
  <2>6. UploadKept(v, store)
    BY <1>2, <2>4, <2>5 DEF UploadKept
  <2> QED
    BY <1>7, <2>2, <2>6 DEF BooksKept, v
<1> QED
  BY <1>8, <1>9

LEMMA RowsApplied ==
  ASSUME BooksKept, ApplyProjects \/ ApplyUsers \/ ApplyRoles
  PROVE  BooksKept'
<1>1. ASSUME NEW kind \in Sheets PROVE
        /\ kind = "projects" => \A p : writeSheetRow(store, kind, p) = writeProject(store, p)
        /\ kind = "accounts" => \A p : writeSheetRow(store, kind, p) = UpdateUser(store, p)
        /\ kind = "roles" => \A p : writeSheetRow(store, kind, p) = writeRole(store, p)
  BY DEF writeSheetRow, Sheets
<1>2. "projects" \in Sheets /\ "accounts" \in Sheets /\ "roles" \in Sheets
  BY DEF Sheets
<1>3. CASE ApplyProjects
  <2>1. WriteSheetRow("projects", writeSheetRow(store, "projects", upload.plan[upload.at]))
    BY <1>1, <1>2, <1>3 DEF ApplyProjects
  <2> QED
    BY <1>2, <2>1, RowApplied
<1>4. CASE ApplyUsers
  <2>1. WriteSheetRow("accounts", writeSheetRow(store, "accounts", upload.plan[upload.at]))
    BY <1>1, <1>2, <1>4 DEF ApplyUsers
  <2> QED
    BY <1>2, <2>1, RowApplied
<1>5. CASE ApplyRoles
  <2>1. WriteSheetRow("roles", writeSheetRow(store, "roles", upload.plan[upload.at]))
    BY <1>1, <1>2, <1>5 DEF ApplyRoles
  <2> QED
    BY <1>2, <2>1, RowApplied
<1> QED
  BY <1>3, <1>4, <1>5

\* An answer to what is being written.
LEMMA AnsweredKept ==
  ASSUME BooksKept, upload.state = "writing", NEW said, said # "refused", said = "done" => upload.kind \in Sheets,
         upload' = Answered(said), store' = store
  PROVE  BooksKept'
<1> DEFINE u == upload
           v == upload'
<1>1. /\ UploadFields(u) /\ Store(u.before) /\ NotOverfilled(u.before.entries) /\ Store(store)
      /\ NotOverfilled(store.entries) /\ u.said = "" /\ (u.kind \in Sheets => SheetKept(u, store))
      /\ (u.kind \in {"entries", "week"} => RowsKept(u, store)) /\ (u.kind \in Sheets \/ u.kind \in {"entries", "week"})
  BY OfEitherKind
<1>2. v = Request("answered", u.kind, u.asked, u.plan, u.at, u.written, said, u.alone, u.before)
  BY <1>1, UploadChanged DEF Answered
<1>a. said # "refused" /\ (said = "done" => u.kind \in Sheets)
  OBVIOUS
<1>3. u.kind \in Sheets => u.kind \notin {"entries", "week"}
  BY DEF Sheets
<1> HIDE DEF v
<1>4. /\ UploadFields(v) /\ v.state = "answered" /\ v.kind = u.kind /\ v.asked = u.asked /\ v.plan = u.plan
      /\ v.written = u.written /\ v.said = said /\ v.before = u.before
  BY <1>2 DEF Request, UploadFields
<1>5. v.alone = u.alone
  BY <1>2 DEF Request
<1>6. ASSUME u.kind \in Sheets PROVE SheetKept(v, store)
  <2>1. SheetKept(u, store)
    BY <1>1, <1>6
  <2> QED
    BY <1>1, <1>4, <1>5, <2>1 DEF SheetKept
<1>7. ASSUME u.kind \in {"entries", "week"} PROVE RowsKept(v, store)
  <2>1. RowsKept(u, store) /\ said # "done"
    BY <1>1, <1>3, <1>7, <1>a
  <2> QED
    BY <1>1, <1>4, <2>1, <1>a DEF RowsKept
<1>8. UploadKept(v, store)
  BY <1>1, <1>4, <1>6, <1>7 DEF UploadKept
<1> QED
  BY <1>1, <1>8 DEF BooksKept, v

LEMMA FinishedKept == ASSUME BooksKept, FinishSheet PROVE BooksKept'
<1> DEFINE said == "done"
<1>1. upload.state = "writing" /\ upload.kind \in Sheets /\ upload' = Answered(said) /\ store' = store /\ said # "refused"
  BY DEF FinishSheet
<1> HIDE DEF said
<1> QED
  BY <1>1, AnsweredKept

LEMMA LostKept == ASSUME BooksKept, ConnectionLost PROVE BooksKept'
<1> DEFINE said == IF upload.kind \in Sheets THEN "stopped" ELSE "failed"
<1>1. upload.state = "writing" /\ upload' = Answered(said) /\ store' = store
  BY DEF ConnectionLost
<1>2. said # "refused" /\ said # "done"
  OBVIOUS
<1> HIDE DEF said
<1> QED
  BY <1>1, <1>2, AnsweredKept

\* One transaction, entry after entry.
LEMMA SavedKept == ASSUME BooksKept, SaveMany PROVE BooksKept'
<1> DEFINE u == upload
           rows == u.plan
           was == u.before.entries
           row == rows[u.at]
           refused == ForeignKeys /\ Refers(row) /\ ~store.projects[row.project].there
<1>1. u.state = "writing" /\ u.kind \in {"entries", "week"}
  BY DEF SaveMany
<1>2. /\ UploadFields(u) /\ Store(u.before) /\ NotOverfilled(was) /\ Store(store)
      /\ NotOverfilled(store.entries) /\ u.said = "" /\ RowsKept(u, store)
  BY <1>1, OfEitherKind
<1>3. rows \in Seq(Entry) /\ NotOverfilled(was \o rows) /\ store.entries = was
  BY <1>2 DEF RowsKept
<1>4. /\ store' = (IF refused THEN store ELSE Inserted(rows, u.at))
      /\ upload' = IF refused THEN Answered("failed")
                   ELSE IF u.at = Len(rows) THEN [Answered("done") EXCEPT !.written = u.at]
                   ELSE [u EXCEPT !.at = @ + 1]
  BY DEF SaveMany
<1> HIDE DEF refused
<1>5. CASE refused
  <2> DEFINE said == "failed"
  <2>1. said # "refused" /\ said # "done" /\ store' = store /\ upload' = Answered(said) /\ upload.state = "writing"
    BY <1>1, <1>4, <1>5
  <2> HIDE DEF said
  <2> QED
    BY <2>1, AnsweredKept
<1>b. store = [projects |-> store.projects, accounts |-> store.accounts, roles |-> store.roles, entries |-> store.entries]
  BY <1>2 DEF Store
<1>a. ASSUME NEW x PROVE [store EXCEPT !.entries = x] = [projects |-> store.projects, accounts |-> store.accounts,
                                                         roles |-> store.roles, entries |-> x]
  BY <1>b
<1>6. CASE ~refused /\ u.at = Len(rows)
  <2> DEFINE all == was \o rows
             d == Answered("done")
             v == upload'
             t == store'
  <2>1. t = [store EXCEPT !.entries = all]
    BY <1>3, <1>4, <1>6 DEF Inserted
  <2>2. all \in Seq(Entry)
    <3>1. was \in Seq(Entry)
      BY <1>2 DEF Store
    <3> QED
      BY <1>3, <3>1
  <2> HIDE DEF all, t
  <2>3. t = [projects |-> store.projects, accounts |-> store.accounts, roles |-> store.roles, entries |-> all]
    BY <1>a, <2>1
  <2>4. Store(t) /\ t.entries = all
    <3>1. /\ t.projects = store.projects /\ t.accounts = store.accounts /\ t.roles = store.roles /\ t.entries = all
          /\ t = [projects |-> t.projects, accounts |-> t.accounts, roles |-> t.roles, entries |-> t.entries]
      BY <2>3
    <3> QED
      BY <1>2, <2>2, <3>1 DEF Store
  <2>5. d = Request("answered", u.kind, u.asked, u.plan, u.at, u.written, "done", u.alone, u.before)
    BY <1>2, UploadChanged DEF Answered
  <2>6. v = [d EXCEPT !.written = u.at]
    BY <1>4, <1>6
  <2> HIDE DEF d, v
  <2>7. UploadFields(d) /\ d.state = "answered" /\ d.kind = u.kind /\ d.asked = u.asked /\ d.plan = u.plan
        /\ d.said = "done" /\ d.before = u.before
    BY <2>5 DEF Request, UploadFields
  <2>8. v = Request(d.state, d.kind, d.asked, d.plan, d.at, u.at, d.said, d.alone, d.before)
    BY <2>6, <2>7, FieldChanged
  <2>9. UploadFields(v) /\ v.state = "answered" /\ v.kind = u.kind /\ v.asked = u.asked /\ v.plan = rows
        /\ v.said = "done" /\ v.before = u.before
    BY <2>7, <2>8 DEF Request, UploadFields
  <2>10. RowsKept(v, t)
    <3>1. v.plan \in Seq(Entry) /\ NotOverfilled(v.before.entries \o v.plan)
      BY <1>3, <2>9
    <3>2. t.entries = IF v.said = "done" THEN v.before.entries \o v.plan ELSE v.before.entries
      BY <2>4, <2>9 DEF all
    <3>3. v.kind = "week" =>
          LET copy == planCopy(v.before, v.asked[1], v.asked[2]) IN
          /\ v.asked[1] \in Nat /\ v.asked[2] \in Nat /\ v.plan = copy.rows
          /\ v.said # "refused" => copy.rejected = 0
      BY <1>2, <2>9 DEF RowsKept
    <3> QED
      BY <3>1, <3>2, <3>3 DEF RowsKept
  <2>11. UploadKept(v, t)
    BY <1>1, <1>2, <2>9, <2>10 DEF UploadKept
  <2>12. NotOverfilled(t.entries)
    BY <1>3, <2>4 DEF all
  <2> QED
    BY <2>4, <2>11, <2>12 DEF BooksKept, v, t
<1>7. CASE ~refused /\ u.at # Len(rows)
  <2> DEFINE v == upload'
             t == store'
             x == u.at + 1
  <2>1. t = [store EXCEPT !.entries = store.entries]
    BY <1>4, <1>7 DEF Inserted
  <2> HIDE DEF t
  <2>2. t = store
    BY <1>2, <1>a, <2>1 DEF Store
  <2>3. v = [u EXCEPT !.at = x]
    BY <1>4, <1>7
  <2> HIDE DEF v, x
  <2>4. v = Request(u.state, u.kind, u.asked, u.plan, x, u.written, u.said, u.alone, u.before)
    BY <1>2, <2>3, FieldChanged
  <2>5. UploadFields(v) /\ v.state = "writing" /\ v.kind = u.kind /\ v.asked = u.asked /\ v.plan = u.plan
        /\ v.said = "" /\ v.before = u.before
    BY <1>1, <1>2, <2>4 DEF Request, UploadFields
  <2>6. RowsKept(v, store)
    BY <1>2, <2>5 DEF RowsKept
  <2>7. UploadKept(v, store)
    BY <1>1, <1>2, <2>5, <2>6 DEF UploadKept
  <2> QED
    BY <1>2, <2>2, <2>7 DEF BooksKept, v, t
<1> QED
  BY <1>5, <1>6, <1>7

\* What others do meanwhile leaves the entries as they are, and a file no longer alone.
LEMMA MeddledKept ==
  ASSUME BooksKept, NEW s, Store(s), s.entries = store.entries, Meddle(s)
  PROVE  BooksKept'
<1> DEFINE u == upload
           v == upload'
<1>1. store' = s /\ v = IF u.state = "writing" THEN [u EXCEPT !.alone = FALSE] ELSE NoUpload
  BY DEF Meddle
<1>2. Store(s) /\ NotOverfilled(s.entries)
  BY DEF BooksKept
<1>3. CASE u.state # "writing"
  BY <1>1, <1>2, <1>3 DEF BooksKept
<1>4. CASE u.state = "writing"
  <2> DEFINE alone == FALSE
  <2>1. /\ UploadFields(u) /\ Store(u.before) /\ NotOverfilled(u.before.entries)
        /\ u.said = "" /\ (u.kind \in Sheets => SheetKept(u, store))
        /\ (u.kind \in {"entries", "week"} => RowsKept(u, store)) /\ (u.kind \in Sheets \/ u.kind \in {"entries", "week"})
    BY <1>4, OfEitherKind
  <2>2. v = [u EXCEPT !.alone = alone] /\ ~alone
    BY <1>1, <1>4
  <2> HIDE DEF alone, v
  <2>3. v = Request(u.state, u.kind, u.asked, u.plan, u.at, u.written, u.said, alone, u.before)
    BY <2>1, <2>2, FieldChanged
  <2>4. UploadFields(v) /\ v.state = "writing" /\ v.kind = u.kind /\ v.asked = u.asked /\ v.plan = u.plan
        /\ v.at = u.at /\ v.written = u.written /\ v.said = "" /\ v.before = u.before
    BY <1>4, <2>1, <2>3 DEF Request, UploadFields
  <2>5. v.alone = alone
    BY <2>3 DEF Request
  <2>6. ASSUME u.kind \in Sheets PROVE SheetKept(v, s)
    <3>1. SheetKept(u, store)
      BY <2>1, <2>6
    <3> QED
      BY <1>4, <2>2, <2>4, <2>5, <3>1 DEF SheetKept
  <2>7. ASSUME u.kind \in {"entries", "week"} PROVE RowsKept(v, s)
    <3>1. RowsKept(u, store)
      BY <2>1, <2>7
    <3> QED
      BY <2>1, <2>4, <3>1 DEF RowsKept
  <2>8. UploadKept(v, s)
    BY <2>1, <2>4, <2>6, <2>7 DEF UploadKept
  <2> QED
    BY <1>1, <1>2, <2>8 DEF BooksKept, v
<1> QED
  BY <1>3, <1>4

LEMMA ProjectMeddled ==
  ASSUME BooksKept, NEW i \in DOMAIN store.projects, CompleteProject(i) \/ DeleteProject(i)
  PROVE  BooksKept'
<1> DEFINE t == store.projects
           o == t[i]
<1>1. /\ store = [projects |-> t, accounts |-> store.accounts, roles |-> store.roles, entries |-> store.entries]
      /\ t \in Seq(Project) /\ Store(store)
  BY DEF BooksKept, Store
<1>2. o \in Project
  BY <1>1
<1>3. ASSUME NEW x \in Project PROVE [t EXCEPT ![i] = x] \in Seq(Project)
  BY <1>1
<1>4. ASSUME NEW x PROVE [store EXCEPT !.projects = x] = WithProjects(store, x)
  BY <1>1 DEF WithProjects
<1>5. ASSUME NEW x, x \in Seq(Project) PROVE Store(WithProjects(store, x)) /\ WithProjects(store, x).entries = store.entries
  <2>1. Store(WithProjects(store, x))
    BY <1>1, <1>5, PartTyped
  <2> QED
    BY <2>1 DEF WithProjects
<1>6. CASE CompleteProject(i)
  <2> DEFINE c == [o EXCEPT !.status = "completed"]
             x == [t EXCEPT ![i] = c]
  <2>1. c \in Project
    <3>1. "completed" \in Text
      BY WorkbooksAssumption
    <3> QED
      BY <1>2, <3>1 DEF Project
  <2>2. [store EXCEPT !.projects[i].status = "completed"] = [store EXCEPT !.projects = x]
    OBVIOUS
  <2> HIDE DEF c
  <2>3. x \in Seq(Project)
    BY <1>3, <2>1
  <2> HIDE DEF x
  <2>4. Meddle(WithProjects(store, x))
    BY <1>4, <1>6, <2>2 DEF CompleteProject
  <2> QED
    BY <1>5, <2>3, <2>4, MeddledKept
<1>7. CASE DeleteProject(i)
  <2> DEFINE c == [o EXCEPT !.there = FALSE]
             x == [t EXCEPT ![i] = c]
  <2>1. c \in Project
    BY <1>2 DEF Project
  <2>2. [store EXCEPT !.projects[i].there = FALSE] = [store EXCEPT !.projects = x]
    OBVIOUS
  <2> HIDE DEF c
  <2>3. x \in Seq(Project)
    BY <1>3, <2>1
  <2> HIDE DEF x
  <2>4. Meddle(WithProjects(store, x))
    BY <1>4, <1>7, <2>2 DEF DeleteProject
  <2> QED
    BY <1>5, <2>3, <2>4, MeddledKept
<1> QED
  BY <1>6, <1>7

LEMMA RoleMeddled ==
  ASSUME BooksKept, NEW r \in DOMAIN store.roles, DeleteUnusedRole(r)
  PROVE  BooksKept'
<1> DEFINE t == store.roles
           x == [q \in DOMAIN t \ {r} |-> t[q]]
<1>1. /\ store = [projects |-> store.projects, accounts |-> store.accounts, roles |-> t, entries |-> store.entries]
      /\ t \in [DOMAIN t -> Role] /\ DOMAIN t \in SUBSET Text /\ Store(store)
  BY DEF BooksKept, Store
<1>2. x \in [DOMAIN x -> Role] /\ DOMAIN x \in SUBSET Text
  BY <1>1
<1>3. Meddle([store EXCEPT !.roles = x])
  BY DEF DeleteUnusedRole
<1> HIDE DEF x
<1>4. [store EXCEPT !.roles = x] = WithRoles(store, x)
  BY <1>1 DEF WithRoles
<1>5. Store(WithRoles(store, x)) /\ WithRoles(store, x).entries = store.entries
  <2>1. Store(WithRoles(store, x))
    BY <1>1, <1>2, PartTyped
  <2> QED
    BY <2>1 DEF WithRoles
<1> QED
  BY <1>3, <1>4, <1>5, MeddledKept

\* So it holds to begin with and through every step.
LEMMA BooksStart == ASSUME WorkbooksInit PROVE BooksKept
<1>1. Store(store)
  BY WorkbooksAssumption DEF WorkbooksInit
<1>2. NotOverfilled(store.entries)
  BY StoresAssumption DEF WorkbooksInit
<1> QED
  BY <1>1, <1>2 DEF WorkbooksInit, BooksKept

LEMMA BooksStep == ASSUME BooksKept, [WorkbooksNext]_workbookVars PROVE BooksKept'
<1>1. ASSUME NEW file \in Files, ImportProjects(file) \/ ImportUsers(file) \/ ImportRoles(file) PROVE BooksKept'
  BY <1>1, SheetsAsked
<1>2. ASSUME NEW file \in Files, ImportEntries(file) PROVE BooksKept'
  BY <1>2, EntriesAsked
<1>3. ASSUME NEW copy \in Copies, CopyWeek(copy.from, copy.to) PROVE BooksKept'
  BY <1>3, WeekAsked
<1>4. CASE ApplyProjects \/ ApplyUsers \/ ApplyRoles
  BY <1>4, RowsApplied
<1>5. CASE FinishSheet
  BY <1>5, FinishedKept
<1>6. CASE SaveMany
  BY <1>6, SavedKept
<1>7. CASE ConnectionLost
  BY <1>7, LostKept
<1>8. ASSUME NEW i \in DOMAIN store.projects, CompleteProject(i) \/ DeleteProject(i) PROVE BooksKept'
  BY <1>8, ProjectMeddled
<1>9. ASSUME NEW r \in DOMAIN store.roles, DeleteUnusedRole(r) PROVE BooksKept'
  BY <1>9, RoleMeddled
<1>10. CASE UNCHANGED workbookVars
  BY <1>10 DEF workbookVars, BooksKept
<1> QED
  BY <1>1, <1>2, <1>3, <1>4, <1>5, <1>6, <1>7, <1>8, <1>9, <1>10 DEF WorkbooksNext

\* What it comes to.
LEMMA BooksSay ==
  ASSUME BooksKept
  PROVE  NoDayOverfilled /\ WholeOrNothing /\ StoppedWhereItSays /\ CopiedDayByDay
<1>1. NoDayOverfilled
  BY DEF BooksKept, NoDayOverfilled
<1> DEFINE u == upload
<1>2. CASE u = NoUpload
  <2>1. u.state = "idle"
    BY <1>2 DEF NoUpload
  <2> QED
    BY <1>1, <2>1 DEF WholeOrNothing, StoppedWhereItSays, CopiedDayByDay, OfASheet
<1>3. CASE u # NoUpload
  <2>1. u.state \in {"writing", "answered"}
    BY <1>3 DEF BooksKept, UploadKept
  <2>2. /\ Store(u.before) /\ NotOverfilled(u.before.entries) /\ (u.kind \in Sheets => SheetKept(u, store))
        /\ (u.kind \in {"entries", "week"} => RowsKept(u, store))
    BY <2>1, OfEitherKind
  <2>3. WholeOrNothing
    BY <2>2 DEF WholeOrNothing, RowsKept
  <2>4. StoppedWhereItSays
    BY <2>2 DEF StoppedWhereItSays, OfASheet, SheetKept
  <2>5. ASSUME u.kind = "week", u.said = "done", NEW d \in 0..6
        PROVE  LET was == u.before
                   from == u.asked[1]
                   to == u.asked[2]
                   Expected(e) == Chosen(EntriesOn(was.entries, from + e), {x \in Range(was.entries) : stillOpen(was, x.project)})
                   Undated(entries) == [i \in DOMAIN entries |-> [entries[i] EXCEPT !.day = 0]]
               IN Undated(EntriesOn(store.entries, to + d)) =
                    Undated(IF EntriesOn(was.entries, to + d) # <<>> THEN EntriesOn(was.entries, to + d) ELSE Expected(d))
    <3> DEFINE was == u.before
               from == u.asked[1]
               to == u.asked[2]
               after == store.entries
    <3>1. RowsKept(u, store)
      BY <2>2, <2>5
    <3>2. from \in Nat /\ to \in Nat /\ planCopy(was, from, to).rejected = 0 /\ u.plan = planCopy(was, from, to).rows
          /\ after = was.entries \o u.plan
      BY <2>5, <3>1 DEF RowsKept
    <3>3. after = was.entries \o planCopy(was, from, to).rows
      BY <3>2
    <3>4. Store(was) /\ NotOverfilled(was.entries)
      BY <2>2
    <3> HIDE DEF was, from, to, after
    <3>6. AsItWas(was, from, to, d, after)
      <4>1. from \in Nat /\ to \in Nat /\ planCopy(was, from, to).rejected = 0 /\ d \in 0..6
        BY <2>5, <3>2
      <4> HIDE DEF u
      <4> QED
        BY <3>3, <3>4, <4>1, WeekAsItWas
    <3> QED
      BY <3>6 DEF AsItWas, Undating, was, from, to, after
  <2>6. CopiedDayByDay
    BY <2>5 DEF CopiedDayByDay
  <2> QED
    BY <1>1, <2>3, <2>4, <2>6
<1> QED
  BY <1>2, <1>3

-----------------------------------------------------------------------------
(* Importing a sheet again: its projects.                                  *)

\* Of the projects that have a row's name the latest is meant.
LEMMA Matched ==
  ASSUME NEW s, Store(s), NEW row
  PROVE  LET same == SameName(s, row)
             p == matchProject(s, row)
         IN /\ p.row = row /\ p.status = (IF p.id = 0 THEN "" ELSE s.projects[p.id].status)
            /\ same = {} => p.id = 0
            /\ same # {} => p.id \in same /\ \A j \in same : j <= p.id
            /\ same \in SUBSET (1..Len(s.projects))
<1> DEFINE same == SameName(s, row)
           m == Len(s.projects)
           id == IF same = {} THEN 0 ELSE CHOOSE i \in same : \A j \in same : j <= i
<1>1. s.projects \in Seq(Project) /\ m \in Nat /\ same \in SUBSET (1..m)
  BY DEF Store, SameName, VisibleTo
<1>2. matchProject(s, row) = [row |-> row, id |-> id, status |-> IF id = 0 THEN "" ELSE s.projects[id].status]
  BY DEF matchProject
<1>3. ASSUME same # {} PROVE \E i \in same : \A j \in same : j <= i
  <2> DEFINE T == {m - i : i \in same}
  <2> HIDE DEF same, m
  <2>a. \A i \in same : i \in 1..m
    BY <1>1
  <2>b. \A i \in same : m - i \in Nat
    BY <1>1, <2>a
  <2>1. T \in SUBSET Nat /\ T # {}
    BY <1>3, <2>b
  <2>2. PICK x \in T : \A y \in T : x <= y
    BY <2>1, Least
  <2>3. PICK i \in same : x = m - i
    BY <2>2
  <2>4. ASSUME NEW j \in same PROVE j <= i
    <3>1. m - j \in T
      BY <2>4
    <3>2. m - i <= m - j /\ i \in Nat /\ j \in Nat
      BY <1>1, <2>2, <2>3, <3>1
    <3> QED
      BY <1>1, <3>2
  <2> QED
    BY <2>4
<1>4. /\ same = {} => id = 0
      /\ same # {} => id \in same /\ \A j \in same : j <= id
  <2> HIDE DEF same
  <2> QED
    BY <1>3
<1> DEFINE p == matchProject(s, row)
           says == IF id = 0 THEN "" ELSE s.projects[id].status
<1>5. p.row = row /\ p.id = id /\ p.status = says
  <2>1. p = [row |-> row, id |-> id, status |-> says]
    BY <1>2
  <2> HIDE DEF p, id, says
  <2> QED
    BY <2>1
<1> HIDE DEF p, same, m, id
<1>6. /\ p.row = row /\ p.status = (IF p.id = 0 THEN "" ELSE s.projects[p.id].status)
      /\ same = {} => p.id = 0
      /\ same # {} => p.id \in same /\ \A j \in same : j <= p.id
      /\ same \in SUBSET (1..m)
  BY <1>1, <1>4, <1>5
<1> QED
  BY <1>6 DEF same, m, p

LEMMA MatchedTheSame ==
  ASSUME NEW s, NEW t, NEW row, SameName(t, row) = SameName(s, row), Store(s),
         \A i \in SameName(s, row) : t.projects[i] = s.projects[i]
  PROVE  matchProject(t, row) = matchProject(s, row)
<1> DEFINE same == SameName(s, row)
           id == IF same = {} THEN 0 ELSE CHOOSE i \in same : \A j \in same : j <= i
<1>1. /\ matchProject(s, row) = [row |-> row, id |-> id, status |-> IF id = 0 THEN "" ELSE s.projects[id].status]
      /\ matchProject(t, row) = [row |-> row, id |-> id, status |-> IF id = 0 THEN "" ELSE t.projects[id].status]
  BY DEF matchProject
<1>a. same = {} => id = 0
  OBVIOUS
<1> HIDE DEF id
<1>2. matchProject(s, row).id = id
  <2> DEFINE p == matchProject(s, row)
             says == IF id = 0 THEN "" ELSE s.projects[id].status
  <2>1. p = [row |-> row, id |-> id, status |-> says]
    BY <1>1
  <2> HIDE DEF p, says
  <2>2. p.id = id
    BY <2>1
  <2> QED
    BY <2>2 DEF p
<1>3. id = 0 \/ id \in same
  <2>1. same = {} => id = 0
    BY <1>a
  <2>2. same # {} => id \in same
    BY <1>2, Matched
  <2> QED
    BY <2>1, <2>2
<1> DEFINE was == IF id = 0 THEN "" ELSE s.projects[id].status
           is == IF id = 0 THEN "" ELSE t.projects[id].status
<1>4. is = was
  BY <1>3
<1>5. /\ matchProject(s, row) = [row |-> row, id |-> id, status |-> was]
      /\ matchProject(t, row) = [row |-> row, id |-> id, status |-> is]
  BY <1>1
<1> HIDE DEF was, is
<1> QED
  BY <1>4, <1>5

\* A row that says what there is,
ProjectStands(s, row) ==
  LET id == matchProject(s, row).id IN
  /\ id # 0 /\ row.name # "" /\ checkProjectStatus(row) /\ row.start # 0
  /\ s.projects[id].start = row.start /\ row.status \in {"", s.projects[id].status}

\* and when written leaves it.
LEMMA ProjectSettled ==
  ASSUME NEW s, Store(s), NEW row \in RowOf("projects"), ProjectStands(s, row)
  PROVE  ~planProject(s, row).problem /\ writeProject(s, planProject(s, row).planned) = Wrote(s)
<1> DEFINE p == matchProject(s, row)
           id == p.id
           t == s.projects
<1>1. /\ p.row = row /\ id \in SameName(s, row) /\ id # 0 /\ id \in DOMAIN t
      /\ p.status = t[id].status
  <2>1. SameName(s, row) # {} /\ id # 0
    BY Matched DEF ProjectStands
  <2>2. /\ p.row = row /\ p.status = (IF p.id = 0 THEN "" ELSE s.projects[p.id].status)
        /\ p.id \in SameName(s, row)
    BY <2>1, Matched
  <2>3. id \in DOMAIN t
    BY <2>2 DEF SameName, VisibleTo
  <2> QED
    BY <2>1, <2>2, <2>3
<1>2. ~changesStatus(p)
  BY <1>1 DEF ProjectStands, changesStatus
<1>3. planProject(s, row).planned = p /\ ~planProject(s, row).problem
  <2>1. parseProjectRow(row) /\ checkProjectStatus(row) /\ checkArchiving(p)
    BY <1>2 DEF ProjectStands, parseProjectRow, checkArchiving
  <2> QED
    BY <2>1 DEF planProject
<1>4. t \in Seq(Project) /\ t[id] \in Project
  BY <1>1 DEF Store
<1>5. ChangedProject(s, p) = t[id]
  <2>1. t[id] = [there |-> t[id].there, name |-> t[id].name, owner |-> t[id].owner, status |-> t[id].status,
                 start |-> t[id].start]
    BY <1>4 DEF Project
  <2>2. p.row.start = t[id].start
    BY <1>1 DEF ProjectStands
  <2> QED
    BY <1>2, <2>1, <2>2 DEF ChangedProject
<1>6. writeProject(s, p) = Wrote(WithProjects(s, [t EXCEPT ![id] = ChangedProject(s, p)]))
  <2>1. p.row \in RowOf("projects") /\ p.id \in DOMAIN s.projects /\ p.row.start # 0 /\ p.id \in VisibleTo(s, Actor)
    BY <1>1 DEF ProjectStands, SameName
  <2>2. writeProject(s, p) = updateProject(s, p)
    BY <1>1 DEF writeProject
  <2> HIDE DEF p
  <2>3. updateProject(s, p) = Wrote([s EXCEPT !.projects[p.id].start = p.row.start,
                         !.projects[p.id].status = IF changesStatus(p) THEN p.row.status ELSE @])
    BY <1>2, <2>1 DEF updateProject
  <2> QED
    BY <2>1, <2>2, <2>3, ProjectUpdated
<1>7. [t EXCEPT ![id] = t[id]] = t
  BY <1>1, <1>4
<1>8. WithProjects(s, t) = s
  BY DEF Store, WithProjects
<1> QED
  BY <1>3, <1>5, <1>6, <1>7, <1>8

\* What others' rows say is untouched by a project that is added or changed under its name.
LEMMA OthersMatched ==
  ASSUME NEW s, Store(s), NEW t, Store(t), NEW b, SameName(t, b) = SameName(s, b),
         \A i \in SameName(s, b) : t.projects[i] = s.projects[i]
  PROVE  matchProject(t, b) = matchProject(s, b) /\ (ProjectStands(s, b) => ProjectStands(t, b))
<1>1. matchProject(t, b) = matchProject(s, b)
  BY MatchedTheSame
<1> DEFINE id == matchProject(s, b).id
<1>2. ASSUME ProjectStands(s, b) PROVE t.projects[id] = s.projects[id]
  <2>1. id # 0
    BY <1>2 DEF ProjectStands
  <2>2. id \in SameName(s, b)
    BY <2>1, Matched
  <2> QED
    BY <2>2
<1> QED
  BY <1>1, <1>2 DEF ProjectStands

LEMMA ProjectAdded ==
  ASSUME NEW s, Store(s), NEW a \in RowOf("projects"), a.start # 0, ~planProject(s, a).problem,
         matchProject(s, a).id = 0, NEW t, Store(t), writeProject(s, matchProject(s, a)) = Wrote(t)
  PROVE  /\ ProjectStands(t, a)
         /\ \A b : b.name # a.name =>
              matchProject(t, b) = matchProject(s, b) /\ (ProjectStands(s, b) => ProjectStands(t, b))
<1> DEFINE P == s.projects
           Q == t.projects
           new == NewProject(a)
           m == Len(P) + 1
<1>1. SameName(s, a) = {} /\ matchProject(s, a).row = a
  <2>1. SameName(s, a) # {} => matchProject(s, a).id \in SameName(s, a) /\ SameName(s, a) \in SUBSET (1..Len(s.projects))
    BY Matched
  <2>2. 0 \notin 1..Len(s.projects)
    OBVIOUS
  <2>3. SameName(s, a) = {}
    BY <2>1, <2>2
  <2> QED
    BY <2>3, Matched
<1>2. P \in Seq(Project) /\ m \in Nat
  BY DEF Store
<1>3. Wrote(t) = Wrote(WithProjects(s, Append(P, new))) /\ new \in Project
  BY <1>1, ProjectCreated DEF writeProject
<1>4. Q = Append(P, new)
  BY <1>3 DEF Wrote, WithProjects
<1> HIDE DEF new
<1>5. DOMAIN Q = 1..m /\ DOMAIN P = 1..(m - 1) /\ Q[m] = new /\ \A i \in 1..(m - 1) : Q[i] = P[i]
  BY <1>2, <1>3, <1>4
<1>6. /\ new.there /\ new.name = a.name /\ new.owner = Actor /\ new.start = a.start
      /\ new.status = IF a.status = "" THEN "active" ELSE a.status
  BY DEF new, NewProject
<1> HIDE DEF P, Q, m
<1>7. m \in 1..m /\ \A i : i \in 1..m <=> i \in 1..(m - 1) \/ i = m
  BY <1>2, <1>5 DEF m
<1>a. m \notin 1..(m - 1)
  BY <1>2 DEF m
<1>8. ASSUME NEW b PROVE SameName(t, b) = SameName(s, b) \union (IF b.name = a.name THEN {m} ELSE {})
  <2>1. ASSUME NEW i PROVE i \in SameName(t, b) <=> i \in 1..m /\ Q[i].there /\ Q[i].owner = Actor /\ Q[i].name = b.name
    BY <1>5 DEF SameName, VisibleTo, Q
  <2>2. ASSUME NEW i PROVE i \in SameName(s, b) <=> i \in 1..(m - 1) /\ P[i].there /\ P[i].owner = Actor /\ P[i].name = b.name
    BY <1>5 DEF SameName, VisibleTo, P
  <2>3. ASSUME NEW i PROVE i \in SameName(t, b) <=> i \in SameName(s, b) \/ (i = m /\ b.name = a.name)
    <3>1. CASE i = m
      BY <1>5, <1>6, <1>7, <1>a, <2>1, <2>2, <3>1
    <3>2. CASE i # m
      BY <1>5, <1>7, <2>1, <2>2, <3>2
    <3> QED
      BY <3>1, <3>2
  <2> QED
    BY <2>3
<1>9. ProjectStands(t, a)
  <2>1. SameName(t, a) = {m}
    BY <1>1, <1>8
  <2>2. matchProject(t, a).id = m /\ m # 0
    <3>1. matchProject(t, a).id \in SameName(t, a)
      BY <2>1, Matched
    <3> QED
      BY <1>2, <2>1, <3>1 DEF m
  <2>3. a.name # "" /\ checkProjectStatus(a)
    BY DEF planProject, parseProjectRow
  <2>4. t.projects[m].start = a.start /\ a.status \in {"", t.projects[m].status}
    BY <1>5, <1>6 DEF Q
  <2> QED
    BY <2>2, <2>3, <2>4 DEF ProjectStands
<1>10. ASSUME NEW b, b.name # a.name
       PROVE  matchProject(t, b) = matchProject(s, b) /\ (ProjectStands(s, b) => ProjectStands(t, b))
  <2>1. SameName(t, b) = SameName(s, b)
    BY <1>8, <1>10
  <2>2. \A i \in SameName(s, b) : t.projects[i] = s.projects[i]
    BY <1>5 DEF SameName, VisibleTo, P, Q
  <2> QED
    BY <2>1, <2>2, OthersMatched
<1> QED
  BY <1>9, <1>10

LEMMA ProjectChanged ==
  ASSUME NEW s, Store(s), NEW a \in RowOf("projects"), a.start # 0, ~planProject(s, a).problem,
         matchProject(s, a).id # 0, NEW t, Store(t), writeProject(s, matchProject(s, a)) = Wrote(t)
  PROVE  /\ ProjectStands(t, a)
         /\ \A b : b.name # a.name =>
              matchProject(t, b) = matchProject(s, b) /\ (ProjectStands(s, b) => ProjectStands(t, b))
<1> DEFINE P == s.projects
           Q == t.projects
           p == matchProject(s, a)
           id == p.id
           new == ChangedProject(s, p)
<1>1. id \in SameName(s, a) /\ p.row = a /\ p.status = P[id].status /\ \A j \in SameName(s, a) : j <= id
  <2> DEFINE same == SameName(s, a)
  <2>1. /\ p.row = a /\ p.status = (IF p.id = 0 THEN "" ELSE s.projects[p.id].status)
        /\ same = {} => p.id = 0
        /\ same # {} => p.id \in same /\ \A j \in same : j <= p.id
    BY Matched
  <2>2. p.id # 0
    OBVIOUS
  <2> HIDE DEF p, same
  <2>3. same # {}
    BY <2>1, <2>2
  <2>4. p.id \in same /\ (\A j \in same : j <= p.id) /\ p.row = a /\ p.status = s.projects[p.id].status
    BY <2>1, <2>2, <2>3
  <2> QED
    BY <2>4 DEF same
<1>2. P \in Seq(Project) /\ id \in DOMAIN P /\ P[id].name = a.name /\ id \in Nat
  BY <1>1 DEF Store, SameName, VisibleTo
<1>3. Wrote(t) = Wrote(WithProjects(s, [P EXCEPT ![id] = new])) /\ new \in Project
  <2>1. p.row \in RowOf("projects") /\ p.id \in DOMAIN s.projects
    BY <1>1, <1>2
  <2>2. Wrote(t) = updateProject(s, p)
    BY DEF writeProject
  <2> HIDE DEF p
  <2>3. Wrote(t) # RefusedWrite(s)
    BY DEF Wrote, RefusedWrite
  <2>4. updateProject(s, p) = Wrote([s EXCEPT !.projects[p.id].start = p.row.start,
                         !.projects[p.id].status = IF changesStatus(p) THEN p.row.status ELSE @])
    BY <2>2, <2>3 DEF updateProject
  <2> QED
    BY <2>1, <2>2, <2>4, ProjectUpdated
<1>4. Q = [P EXCEPT ![id] = new]
  BY <1>3 DEF Wrote, WithProjects
<1>5. /\ new.there = P[id].there /\ new.name = P[id].name /\ new.owner = P[id].owner /\ new.start = a.start
      /\ new.status = IF changesStatus(p) THEN a.status ELSE P[id].status
  BY <1>1 DEF ChangedProject
<1> HIDE DEF new
<1>6. DOMAIN Q = DOMAIN P /\ Q[id] = new /\ \A i \in DOMAIN P : i # id => Q[i] = P[i]
  BY <1>2, <1>4
<1>b. a.status \in {"", new.status}
  BY <1>1, <1>5 DEF changesStatus
<1> HIDE DEF P, Q, id
<1>8. ASSUME NEW b PROVE SameName(t, b) = SameName(s, b)
  <2>1. ASSUME NEW i PROVE i \in SameName(t, b) <=> i \in DOMAIN P /\ Q[i].there /\ Q[i].owner = Actor /\ Q[i].name = b.name
    BY <1>6 DEF SameName, VisibleTo, Q
  <2>2. ASSUME NEW i PROVE i \in SameName(s, b) <=> i \in DOMAIN P /\ P[i].there /\ P[i].owner = Actor /\ P[i].name = b.name
    BY DEF SameName, VisibleTo, P
  <2>3. ASSUME NEW i PROVE i \in SameName(t, b) <=> i \in SameName(s, b)
    <3>1. CASE i = id
      BY <1>5, <1>6, <2>1, <2>2, <3>1
    <3>2. CASE i # id
      BY <1>6, <2>1, <2>2, <3>2
    <3> QED
      BY <3>1, <3>2
  <2> QED
    BY <2>3
<1>9. ProjectStands(t, a)
  <2>1. SameName(t, a) = SameName(s, a)
    BY <1>8
  <2>2. matchProject(t, a).id = id
    <3> DEFINE k == matchProject(t, a).id
               T == SameName(t, a)
    <3>1. k \in T /\ (\A j \in T : j <= k) /\ T \in SUBSET (1..Len(t.projects))
      <4>1. SameName(t, a) # {}
        BY <1>1, <2>1 DEF id
      <4> QED
        BY <4>1, Matched
    <3>2. id \in T /\ \A j \in T : j <= id
      BY <1>1, <2>1 DEF id
    <3> HIDE DEF k, T
    <3>3. k \in Nat /\ k <= id /\ id <= k
      BY <3>1, <3>2
    <3>4. k = id
      BY <1>2, <3>3 DEF id
    <3> QED
      BY <3>4 DEF k
  <2>3. a.name # "" /\ checkProjectStatus(a)
    BY DEF planProject, parseProjectRow
  <2>4. t.projects[id].start = a.start /\ a.status \in {"", t.projects[id].status}
    BY <1>5, <1>6, <1>b DEF Q
  <2>5. id # 0
    BY DEF id
  <2> QED
    BY <2>2, <2>3, <2>4, <2>5 DEF ProjectStands
<1>10. ASSUME NEW b, b.name # a.name
       PROVE  matchProject(t, b) = matchProject(s, b) /\ (ProjectStands(s, b) => ProjectStands(t, b))
  <2>1. SameName(t, b) = SameName(s, b)
    BY <1>8
  <2>2. \A i \in SameName(s, b) : t.projects[i] = s.projects[i]
    <3>1. ASSUME NEW i \in SameName(s, b) PROVE i \in DOMAIN P /\ P[i].name = b.name
      BY DEF SameName, VisibleTo, P
    <3>2. ASSUME NEW i \in SameName(s, b) PROVE i # id
      BY <1>2, <1>10, <3>1 DEF P, id
    <3> QED
      BY <1>6, <3>1, <3>2 DEF P, Q
  <2> QED
    BY <2>1, <2>2, OthersMatched
<1> QED
  BY <1>9, <1>10

-----------------------------------------------------------------------------
(* Its roles.                                                              *)

\* A row that says what there is, and when written leaves it.
RoleStands(s, row) ==
  /\ row.name # "" /\ row.name \in DOMAIN s.roles
  /\ row.rights \in {{}, s.roles[row.name].rights}
  /\ s.roles[row.name].system => row.rights = s.roles[row.name].rights

LEMMA RoleSettled ==
  ASSUME NEW s, Store(s), NEW row \in RowOf("roles"), RoleStands(s, row)
  PROVE  ~planRole(s, row).problem /\ writeRole(s, planRole(s, row).planned) = Wrote(s)
<1> DEFINE p == planRole(s, row).planned
           id == row.name
           t == s.roles
<1>1. p.row = row /\ p.id = id /\ id # "" /\ id \in DOMAIN t
  BY DEF planRole, RoleStands
<1>2. ~planRole(s, row).problem
  BY DEF planRole, RoleStands, parseRoleRow
<1>3. t \in [DOMAIN t -> Role] /\ t[id] \in Role
  BY <1>1 DEF Store
<1>4. ChangedRole(s, p) = t[id]
  <2>1. t[id] = [system |-> t[id].system, shipped |-> t[id].shipped, rights |-> t[id].rights]
    BY <1>3 DEF Role
  <2>2. (IF p.row.rights = {} THEN t[id].rights ELSE p.row.rights) = t[id].rights
    BY <1>1 DEF RoleStands
  <2> QED
    BY <1>1, <2>1, <2>2 DEF ChangedRole
<1>5. writeRole(s, p) = Wrote(WithRoles(s, [t EXCEPT ![id] = ChangedRole(s, p)]))
  <2>1. p.row \in RowOf("roles") /\ p.id \in DOMAIN s.roles /\ p.id # "" /\ (p.row.rights # {} => p.row.rights = s.roles[p.id].rights)
    BY <1>1 DEF RoleStands
  <2> HIDE DEF p
  <2>2. writeRole(s, p) = Wrote([s EXCEPT !.roles[p.id].rights = IF p.row.rights = {} THEN @ ELSE p.row.rights])
    BY <2>1 DEF writeRole, updateRole
  <2>3. [s EXCEPT !.roles[p.id].rights = IF p.row.rights = {} THEN @ ELSE p.row.rights]
          = WithRoles(s, [s.roles EXCEPT ![p.id] = ChangedRole(s, p)])
    BY <2>1, RoleUpdated
  <2>4. p.id = id
    BY <1>1
  <2> QED
    BY <2>2, <2>3, <2>4
<1>6. [t EXCEPT ![id] = t[id]] = t
  BY <1>1, <1>3
<1>7. WithRoles(s, t) = s
  BY DEF Store, WithRoles
<1> QED
  BY <1>2, <1>4, <1>5, <1>6, <1>7

LEMMA RoleRowWritten ==
  ASSUME NEW s, Store(s), NEW a \in RowOf("roles"), ~planRole(s, a).problem,
         NEW t, Store(t), writeRole(s, planRole(s, a).planned) = Wrote(t)
  PROVE  /\ RoleStands(t, a)
         /\ \A b : b.name # a.name => planRole(t, b) = planRole(s, b) /\ (RoleStands(s, b) => RoleStands(t, b))
<1> DEFINE p == planRole(s, a).planned
           R == s.roles
           Q == t.roles
           id == a.name
<1>1. /\ p.row = a /\ id # "" /\ p.id = IF id \in DOMAIN R THEN id ELSE ""
      /\ IF id \in DOMAIN R THEN R[id].system => a.rights = R[id].rights ELSE a.rights # {}
  BY DEF planRole, parseRoleRow
<1>2. Wrote(t) # RefusedWrite(s)
  BY DEF Wrote, RefusedWrite
<1>3. /\ DOMAIN Q = DOMAIN R \union {id}
      /\ \A r \in DOMAIN R : r # id => Q[r] = R[r]
      /\ a.rights \in {{}, Q[id].rights} /\ (Q[id].system => a.rights = Q[id].rights)
  <2>1. CASE id \in DOMAIN R
    <3> DEFINE new == ChangedRole(s, p)
    <3>1. p.id = id /\ p.id \in DOMAIN s.roles /\ p.row \in RowOf("roles") /\ writeRole(s, p) = updateRole(s, p)
      BY <1>1, <2>1 DEF writeRole
    <3>2. Wrote(t) = Wrote(WithRoles(s, [R EXCEPT ![id] = new])) /\ new \in Role
      <4> HIDE DEF p
      <4>1. Wrote(t) = Wrote([s EXCEPT !.roles[p.id].rights = IF p.row.rights = {} THEN @ ELSE p.row.rights])
        BY <1>2, <3>1 DEF updateRole, p
      <4> QED
        BY <3>1, <4>1, RoleUpdated
    <3>3. Q = [R EXCEPT ![id] = new]
      BY <3>2 DEF Wrote, WithRoles
    <3>4. new.system = R[id].system /\ new.rights = IF a.rights = {} THEN R[id].rights ELSE a.rights
      BY <1>1, <2>1 DEF ChangedRole
    <3> HIDE DEF new
    <3>5. R \in [DOMAIN R -> Role]
      BY DEF Store
    <3> HIDE DEF R, Q, p, id
    <3>6. DOMAIN Q = DOMAIN R /\ Q[id] = new /\ \A r \in DOMAIN R : r # id => Q[r] = R[r]
      BY <2>1, <3>3, <3>5
    <3> QED
      BY <1>1, <2>1, <3>4, <3>6
  <2>2. CASE id \notin DOMAIN R
    <3> DEFINE more == [r \in DOMAIN R \union {id} |->
                          IF r = id THEN [system |-> FALSE, shipped |-> FALSE, rights |-> a.rights] ELSE R[r]]
    <3>1. writeRole(s, p) = createRole(s, a)
      BY <1>1, <2>2 DEF writeRole
    <3>2. Wrote(t) = Wrote([s EXCEPT !.roles = more])
      BY <1>2, <3>1 DEF createRole
    <3>3. more[id] = [system |-> FALSE, shipped |-> FALSE, rights |-> a.rights]
          /\ DOMAIN more = DOMAIN R \union {id} /\ \A r \in DOMAIN R : r # id => more[r] = R[r]
      BY <2>2
    <3> HIDE DEF more
    <3>4. [s EXCEPT !.roles = more] = WithRoles(s, more)
      BY DEF Store, WithRoles
    <3>5. Q = more
      BY <3>2, <3>4 DEF Wrote, WithRoles
    <3> QED
      BY <3>3, <3>5
  <2> QED
    BY <2>1, <2>2
<1>4. RoleStands(t, a)
  BY <1>1, <1>3 DEF RoleStands
<1>5. ASSUME NEW b, b.name # a.name
      PROVE  planRole(t, b) = planRole(s, b) /\ (RoleStands(s, b) => RoleStands(t, b))
  <2>1. (b.name \in DOMAIN Q <=> b.name \in DOMAIN R) /\ (b.name \in DOMAIN R => Q[b.name] = R[b.name])
    BY <1>3, <1>5
  <2>2. RoleStands(s, b) => RoleStands(t, b)
    BY <2>1 DEF RoleStands
  <2>3. planRole(t, b).planned = planRole(s, b).planned /\ (planRole(t, b).problem <=> planRole(s, b).problem)
    BY <2>1 DEF planRole
  <2>4. planRole(t, b) = planRole(s, b)
    BY <2>1 DEF planRole
  <2> QED
    BY <2>2, <2>4
<1> QED
  BY <1>4, <1>5

-----------------------------------------------------------------------------
(* A sheet that names each thing once.                                     *)

Stands(s, kind, row) == IF kind = "projects" THEN ProjectStands(s, row) ELSE RoleStands(s, row)

LEMMA NamedSettled ==
  ASSUME NEW s, Store(s), NEW kind \in {"projects", "roles"}, NEW row \in RowOf(kind), Stands(s, kind, row)
  PROVE  LET r == planSheetRow(s, kind, row) IN ~r.problem /\ writeSheetRow(s, kind, r.planned) = Wrote(s)
<1>1. CASE kind = "projects"
  <2>1. row \in RowOf("projects") /\ ProjectStands(s, row)
    BY <1>1 DEF Stands
  <2> QED
    BY <1>1, <2>1, ProjectSettled DEF planSheetRow, writeSheetRow
<1>2. CASE kind = "roles"
  <2>1. row \in RowOf("roles") /\ RoleStands(s, row)
    BY <1>2 DEF Stands
  <2> QED
    BY <1>2, <2>1, RoleSettled DEF planSheetRow, writeSheetRow
<1> QED
  BY <1>1, <1>2

LEMMA NamedWritten ==
  ASSUME NEW s, Store(s), NEW kind \in {"projects", "roles"}, NEW a \in RowOf(kind), kind = "projects" => a.start # 0,
         ~planSheetRow(s, kind, a).problem,
         NEW t, Store(t), writeSheetRow(s, kind, planSheetRow(s, kind, a).planned) = Wrote(t)
  PROVE  /\ Stands(t, kind, a)
         /\ \A b : b.name # a.name =>
              planSheetRow(t, kind, b) = planSheetRow(s, kind, b) /\ (Stands(s, kind, b) => Stands(t, kind, b))
<1>1. CASE kind = "projects"
  <2>1. a \in RowOf("projects") /\ a.start # 0 /\ ~planProject(s, a).problem
        /\ writeProject(s, planProject(s, a).planned) = Wrote(t)
    BY <1>1 DEF planSheetRow, writeSheetRow
  <2>2. planProject(s, a).planned = matchProject(s, a)
    BY DEF planProject
  <2>3. /\ ProjectStands(t, a)
        /\ \A b : b.name # a.name =>
              matchProject(t, b) = matchProject(s, b) /\ (ProjectStands(s, b) => ProjectStands(t, b))
    BY <2>1, <2>2, ProjectAdded, ProjectChanged
  <2>4. ASSUME NEW b, matchProject(t, b) = matchProject(s, b) PROVE planProject(t, b) = planProject(s, b)
    BY <2>4 DEF planProject
  <2> QED
    BY <1>1, <2>3, <2>4 DEF planSheetRow, Stands
<1>2. CASE kind = "roles"
  <2>1. a \in RowOf("roles") /\ ~planRole(s, a).problem /\ writeRole(s, planRole(s, a).planned) = Wrote(t)
    BY <1>2 DEF planSheetRow, writeSheetRow
  <2>2. /\ RoleStands(t, a)
        /\ \A b : b.name # a.name => planRole(t, b) = planRole(s, b) /\ (RoleStands(s, b) => RoleStands(t, b))
    BY <2>1, RoleRowWritten
  <2> QED
    BY <1>2, <2>2 DEF planSheetRow, Stands
<1> QED
  BY <1>1, <1>2

\* Rows of which the last was written were all written.
LEMMA AllWritten ==
  ASSUME NEW s, Store(s), NEW kind \in Sheets, NEW m, NEW plan, SheetPlan(kind, m, plan), NEW k \in 0..m,
         After(s, kind, plan, k).ok
  PROVE  /\ \A i \in 0..k : LET t == After(s, kind, plan, i).store IN After(s, kind, plan, i) = Wrote(t) /\ Store(t)
         /\ \A i \in 0..(k - 1) :
              After(s, kind, plan, i + 1) = writeSheetRow(After(s, kind, plan, i).store, kind, plan[i + 1])
<1> DEFINE A(i) == After(s, kind, plan, i)
<1>1. m \in Nat /\ k \in Nat /\ k <= m
  BY DEF SheetPlan
<1>2. /\ \A i \in 0..m : A(i) \in Results(s)
      /\ \A i \in 0..(m - 1) : A(i + 1) = writeUnlessRefused(A(i), kind, plan[i + 1])
  BY AfterOneMore
<1>3. A(k).ok
  OBVIOUS
<1> DEFINE B == {i \in Nat : i <= k /\ ~A(k - i).ok}
<1> HIDE DEF A
<1>4. B = {}
  <2> SUFFICES ASSUME B # {} PROVE FALSE
    OBVIOUS
  <2>1. PICK i \in B : \A j \in B : i <= j
    <3>1. B \in SUBSET Nat
      OBVIOUS
    <3> HIDE DEF B
    <3> QED
      BY <3>1, Least
  <2>2. i \in Nat /\ i <= k /\ ~A(k - i).ok
    OBVIOUS
  <2>3. i # 0
    BY <1>1, <1>3, <2>2
  <2> DEFINE j == k - i
  <2>4. j \in 0..(m - 1) /\ i - 1 \in Nat /\ i - 1 <= k /\ k - (i - 1) = j + 1 /\ ~(i <= i - 1)
    BY <1>1, <2>2, <2>3
  <2>5. i - 1 \notin B
    BY <2>1, <2>4
  <2>6. A(j + 1).ok
    BY <2>4, <2>5
  <2>7. ~A(j).ok
    BY <2>2
  <2> HIDE DEF j
  <2>8. A(j + 1) = A(j)
    BY <1>2, <2>4, <2>7 DEF writeUnlessRefused
  <2> QED
    BY <2>6, <2>7, <2>8
<1>5. ASSUME NEW i \in 0..k PROVE A(i).ok
  <2>1. k - i \in Nat /\ k - i <= k /\ k - (k - i) = i /\ k - i \notin B
    BY <1>1, <1>4
  <2> QED
    BY <2>1
<1> HIDE DEF B
<1>6. ASSUME NEW i \in 0..k PROVE A(i) = Wrote(A(i).store) /\ Store(A(i).store)
  <2>1. A(i) \in Results(s) /\ A(i).ok
    BY <1>1, <1>2, <1>5
  <2>2. A(i) \in [ok : BOOLEAN, store : AllStores]
    BY <2>1 DEF Results
  <2>3. A(i).store \in AllStores /\ A(i) = [ok |-> TRUE, store |-> A(i).store]
    BY <2>1, <2>2
  <2> QED
    BY <2>3, StoreIsOne DEF Wrote
<1>7. ASSUME NEW i \in 0..(k - 1) PROVE A(i + 1) = writeSheetRow(A(i).store, kind, plan[i + 1])
  <2>1. i \in 0..(m - 1) /\ i \in 0..k
    BY <1>1
  <2> QED
    BY <1>2, <1>5, <2>1 DEF writeUnlessRefused
<1> QED
  BY <1>6, <1>7 DEF A

\* As far as a sheet is written its rows stand, and the others are planned as they were.
LEMMA NamedSoFar ==
  ASSUME NEW s, Store(s), NEW kind \in {"projects", "roles"}, NEW rows \in Seq(RowOf(kind)), EachOnce(kind, rows),
         \A i \in DOMAIN rows : ~planSheetRow(s, kind, rows[i]).problem,
         NEW k \in 0..Len(rows), NEW plan, plan = PlanOf(s, kind, rows),
         NEW t, After(s, kind, plan, k) = Wrote(t)
  PROVE  /\ \A j \in 1..k : Stands(t, kind, rows[j])
         /\ \A j \in (k + 1)..Len(rows) : planSheetRow(t, kind, rows[j]) = planSheetRow(s, kind, rows[j])
<1> DEFINE n == Len(rows)
           F(i) == After(s, kind, plan, i).store
           SoFar(i) == /\ \A j \in 1..i : Stands(F(i), kind, rows[j])
                       /\ \A j \in (i + 1)..n : planSheetRow(F(i), kind, rows[j]) = planSheetRow(s, kind, rows[j])
           B == {i \in 0..k : ~SoFar(i)}
<1>0. kind \in Sheets
  BY DEF Sheets
<1>1. n \in Nat /\ DOMAIN rows = 1..n /\ k \in Nat /\ k <= n /\ \A j \in 1..n : rows[j] \in RowOf(kind)
  OBVIOUS
<1>2. SheetPlan(kind, n, plan)
  BY <1>0, RowIsPlanned
<1>3. After(s, kind, plan, k).ok /\ F(k) = t
  BY DEF Wrote
<1>4. /\ \A i \in 0..k : After(s, kind, plan, i) = Wrote(F(i)) /\ Store(F(i))
      /\ \A i \in 0..(k - 1) : After(s, kind, plan, i + 1) = writeSheetRow(F(i), kind, plan[i + 1])
  BY <1>0, <1>1, <1>2, <1>3, AllWritten
<1>5. \A j \in 1..n : plan[j] = planSheetRow(s, kind, rows[j]).planned
  BY <1>1 DEF PlanOf
<1>6. F(0) = s
  <2>1. After(s, kind, plan, 0) = Wrote(s)
    BY <1>0, <1>2, AfterOneMore
  <2> QED
    BY <2>1 DEF Wrote
<1>7. ASSUME NEW i, NEW j \in 1..n, i \in 1..n, i # j PROVE rows[i].name # rows[j].name
  BY <1>1, <1>7 DEF EachOnce
<1>8. ASSUME NEW i \in 1..n, kind = "projects" PROVE rows[i].start # 0
  BY <1>1, <1>8 DEF EachOnce
<1> HIDE DEF F, n
<1>9. SoFar(0)
  BY <1>6
<1>10. ASSUME NEW i \in 0..(k - 1), SoFar(i) PROVE SoFar(i + 1)
  <2> DEFINE q == F(i)
             r == F(i + 1)
             a == rows[i + 1]
  <2>1. i \in Nat /\ i + 1 \in 1..n /\ i + 1 \in (i + 1)..n /\ i \in 0..k /\ i + 1 \in 0..k
    BY <1>1
  <2>2. Store(q) /\ Store(r) /\ a \in RowOf(kind) /\ (kind = "projects" => a.start # 0)
    BY <1>1, <1>4, <1>8, <2>1
  <2>3. planSheetRow(q, kind, a) = planSheetRow(s, kind, a)
    BY <1>10, <2>1
  <2>4. ~planSheetRow(q, kind, a).problem
    BY <1>1, <2>1, <2>3
  <2>5. writeSheetRow(q, kind, planSheetRow(q, kind, a).planned) = Wrote(r)
    BY <1>4, <1>5, <2>1, <2>3
  <2> HIDE DEF q, r, a
  <2>6. /\ Stands(r, kind, a)
        /\ \A b : b.name # a.name =>
             planSheetRow(r, kind, b) = planSheetRow(q, kind, b) /\ (Stands(q, kind, b) => Stands(r, kind, b))
    BY <2>2, <2>4, <2>5, NamedWritten
  <2>7. ASSUME NEW j \in 1..(i + 1) PROVE Stands(r, kind, rows[j])
    <3>1. CASE j = i + 1
      BY <2>6, <3>1 DEF a
    <3>2. CASE j # i + 1
      <4>1. j \in 1..i /\ j \in 1..n
        BY <1>1, <2>1, <3>2
      <4>2. Stands(q, kind, rows[j])
        BY <1>10, <4>1 DEF q
      <4>3. rows[j].name # a.name
        BY <1>7, <2>1, <3>2, <4>1 DEF a
      <4> QED
        BY <2>6, <4>2, <4>3
    <3> QED
      BY <3>1, <3>2
  <2>8. ASSUME NEW j \in (i + 1 + 1)..n PROVE planSheetRow(r, kind, rows[j]) = planSheetRow(s, kind, rows[j])
    <3>1. j \in (i + 1)..n /\ j \in 1..n /\ j # i + 1
      BY <1>1, <2>1
    <3>2. planSheetRow(q, kind, rows[j]) = planSheetRow(s, kind, rows[j])
      BY <1>10, <3>1 DEF q
    <3>3. rows[j].name # a.name
      BY <1>7, <2>1, <3>1 DEF a
    <3> QED
      BY <2>6, <3>2, <3>3
  <2> QED
    BY <2>7, <2>8 DEF r
<1>11. B = {}
  <2> SUFFICES ASSUME B # {} PROVE FALSE
    OBVIOUS
  <2>1. PICK i \in B : \A j \in B : i <= j
    <3>1. B \in SUBSET Nat
      BY <1>1
    <3> HIDE DEF B
    <3> QED
      BY <3>1, Least
  <2>2. i \in 0..k /\ ~SoFar(i)
    OBVIOUS
  <2> HIDE DEF SoFar
  <2>3. i # 0
    BY <1>9, <2>2
  <2>4. i - 1 \in 0..k /\ i - 1 \in 0..(k - 1) /\ (i - 1) + 1 = i /\ ~(i <= i - 1)
    BY <1>1, <2>2, <2>3
  <2>5. SoFar(i - 1)
    BY <2>1, <2>4
  <2> QED
    BY <1>10, <2>2, <2>4, <2>5
<1>12. SoFar(k)
  <2>1. k \in 0..k
    BY <1>1
  <2> HIDE DEF SoFar
  <2> QED
    BY <1>11, <2>1
<1> QED
  BY <1>3, <1>12 DEF n

-----------------------------------------------------------------------------
(* Finishing what was stopped.                                             *)

LEMMA WholeIs ==
  ASSUME NEW s, NEW kind, NEW rows, \A i \in DOMAIN rows : ~planSheetRow(s, kind, rows[i]).problem
  PROVE  WholeImport(s, kind, rows) = After(s, kind, PlanOf(s, kind, rows), Len(rows))
<1> DEFINE plans == [i \in DOMAIN rows |-> planSheetRow(s, kind, rows[i])]
           plan == [i \in DOMAIN plans |-> plans[i].planned]
<1>1. plan = PlanOf(s, kind, rows)
  BY DEF PlanOf
<1>2. ~ \E i \in DOMAIN plans : plans[i].problem
  OBVIOUS
<1>3. WholeImport(s, kind, rows) =
        IF \E i \in DOMAIN plans : plans[i].problem THEN RefusedWrite(s) ELSE After(s, kind, plan, Len(rows))
  BY DEF WholeImport
<1> HIDE DEF plans, plan
<1> QED
  BY <1>1, <1>2, <1>3

\* Rows that stand are written without a change.
LEMMA StandingWritten ==
  ASSUME NEW t, Store(t), NEW kind \in {"projects", "roles"}, NEW rows \in Seq(RowOf(kind)), NEW k \in 0..Len(rows),
         NEW plan, plan = PlanOf(t, kind, rows), \A j \in 1..k : Stands(t, kind, rows[j])
  PROVE  After(t, kind, plan, k) = Wrote(t)
<1> DEFINE n == Len(rows)
           A(i) == After(t, kind, plan, i)
           B == {i \in 0..k : A(i) # Wrote(t)}
<1>0. kind \in Sheets
  BY DEF Sheets
<1>1. n \in Nat /\ DOMAIN rows = 1..n /\ k \in Nat /\ k <= n /\ \A j \in 1..n : rows[j] \in RowOf(kind)
  OBVIOUS
<1>2. SheetPlan(kind, n, plan)
  BY <1>0, RowIsPlanned
<1>3. \A j \in 1..n : plan[j] = planSheetRow(t, kind, rows[j]).planned
  BY <1>1 DEF PlanOf
<1> HIDE DEF n
<1>4. A(0) = Wrote(t) /\ \A i \in 0..(n - 1) : A(i + 1) = writeUnlessRefused(A(i), kind, plan[i + 1])
  BY <1>0, <1>2, AfterOneMore
<1> HIDE DEF A
<1>5. ASSUME NEW i \in 0..(k - 1), A(i) = Wrote(t) PROVE A(i + 1) = Wrote(t)
  <2>1. i \in 0..(n - 1) /\ i + 1 \in 1..k /\ i + 1 \in 1..n
    BY <1>1
  <2> DEFINE row == rows[i + 1]
  <2>2. row \in RowOf(kind) /\ Stands(t, kind, row) /\ plan[i + 1] = planSheetRow(t, kind, row).planned
    BY <1>1, <1>3, <2>1
  <2> HIDE DEF row
  <2>3. writeSheetRow(t, kind, planSheetRow(t, kind, row).planned) = Wrote(t)
    BY <2>2, NamedSettled
  <2>4. A(i + 1) = writeUnlessRefused(Wrote(t), kind, planSheetRow(t, kind, row).planned)
    BY <1>4, <1>5, <2>1, <2>2
  <2> QED
    BY <2>3, <2>4 DEF writeUnlessRefused, Wrote
<1>6. B = {}
  <2> SUFFICES ASSUME B # {} PROVE FALSE
    OBVIOUS
  <2>1. PICK i \in B : \A j \in B : i <= j
    <3>1. B \in SUBSET Nat
      BY <1>1
    <3> HIDE DEF B
    <3> QED
      BY <3>1, Least
  <2>2. i \in 0..k /\ A(i) # Wrote(t)
    OBVIOUS
  <2>3. i # 0
    BY <1>4, <2>2
  <2>4. i - 1 \in 0..k /\ i - 1 \in 0..(k - 1) /\ (i - 1) + 1 = i /\ ~(i <= i - 1)
    BY <1>1, <2>2, <2>3
  <2>5. A(i - 1) = Wrote(t)
    BY <2>1, <2>4
  <2> QED
    BY <1>5, <2>2, <2>4, <2>5
<1> QED
  BY <1>1, <1>6 DEF A

\* Two imports that came to the same half way and have the same rows left come to the same.
LEMMA SameRest ==
  ASSUME NEW s, Store(s), NEW t, Store(t), NEW kind \in Sheets, NEW m, NEW plan, NEW again,
         SheetPlan(kind, m, plan), SheetPlan(kind, m, again), NEW k \in 0..m,
         After(t, kind, again, k) = After(s, kind, plan, k), \A j \in (k + 1)..m : again[j] = plan[j]
  PROVE  After(t, kind, again, m) = After(s, kind, plan, m)
<1> DEFINE A(i) == After(s, kind, plan, i)
           G(i) == After(t, kind, again, i)
           B == {i \in k..m : G(i) # A(i)}
<1>1. m \in Nat /\ k \in Nat /\ k <= m
  BY DEF SheetPlan
<1>2. \A i \in 0..(m - 1) : A(i + 1) = writeUnlessRefused(A(i), kind, plan[i + 1])
  BY AfterOneMore
<1>3. \A i \in 0..(m - 1) : G(i + 1) = writeUnlessRefused(G(i), kind, again[i + 1])
  BY AfterOneMore
<1>4. G(k) = A(k)
  OBVIOUS
<1> HIDE DEF A, G
<1>5. ASSUME NEW i \in k..(m - 1), G(i) = A(i) PROVE G(i + 1) = A(i + 1)
  <2>1. i \in 0..(m - 1) /\ i + 1 \in (k + 1)..m
    BY <1>1
  <2> QED
    BY <1>2, <1>3, <1>5, <2>1
<1>6. B = {}
  <2> SUFFICES ASSUME B # {} PROVE FALSE
    OBVIOUS
  <2>1. PICK i \in B : \A j \in B : i <= j
    <3>1. B \in SUBSET Nat
      BY <1>1
    <3> HIDE DEF B
    <3> QED
      BY <3>1, Least
  <2>2. i \in k..m /\ G(i) # A(i)
    OBVIOUS
  <2>3. i # k
    BY <1>4, <2>2
  <2>4. i - 1 \in k..m /\ i - 1 \in k..(m - 1) /\ (i - 1) + 1 = i /\ ~(i <= i - 1)
    BY <1>1, <2>2, <2>3
  <2>5. G(i - 1) = A(i - 1)
    BY <2>1, <2>4
  <2> QED
    BY <1>5, <2>2, <2>4, <2>5
<1>7. G(m) = A(m)
  <2>1. m \in k..m
    BY <1>1
  <2> QED
    BY <1>6, <2>1
<1> QED
  BY <1>7 DEF A, G

\* So a sheet that names each thing once is finished by importing it again.
LEMMA NamedFinished ==
  ASSUME NEW s, Store(s), NEW t, Store(t), NEW kind \in {"projects", "roles"}, NEW rows \in Seq(RowOf(kind)),
         EachOnce(kind, rows), \A i \in DOMAIN rows : ~planSheetRow(s, kind, rows[i]).problem,
         NEW k \in 0..Len(rows), After(s, kind, PlanOf(s, kind, rows), k) = Wrote(t)
  PROVE  WholeImport(t, kind, rows) = WholeImport(s, kind, rows)
<1> DEFINE n == Len(rows)
           plan == PlanOf(s, kind, rows)
           again == PlanOf(t, kind, rows)
<1>0. kind \in Sheets
  BY DEF Sheets
<1>1. n \in Nat /\ DOMAIN rows = 1..n /\ k \in Nat /\ k <= n /\ \A j \in 1..n : rows[j] \in RowOf(kind)
  OBVIOUS
<1>2. SheetPlan(kind, n, plan) /\ SheetPlan(kind, n, again)
  BY <1>0, RowIsPlanned
<1>3. \A j \in 1..n : plan[j] = planSheetRow(s, kind, rows[j]).planned /\ again[j] = planSheetRow(t, kind, rows[j]).planned
  BY <1>1 DEF PlanOf
<1> HIDE DEF plan, again
<1>4. /\ \A j \in 1..k : Stands(t, kind, rows[j])
      /\ \A j \in (k + 1)..n : planSheetRow(t, kind, rows[j]) = planSheetRow(s, kind, rows[j])
  BY NamedSoFar DEF plan
<1>5. \A i \in DOMAIN rows : ~planSheetRow(t, kind, rows[i]).problem
  <2>1. ASSUME NEW i \in 1..n PROVE ~planSheetRow(t, kind, rows[i]).problem
    <3>1. CASE i \in 1..k
      BY <1>1, <1>4, <3>1, NamedSettled
    <3>2. CASE i \notin 1..k
      <4>1. i \in (k + 1)..n
        BY <1>1, <3>2
      <4> QED
        BY <1>1, <1>4, <4>1
    <3> QED
      BY <3>1, <3>2
  <2> QED
    BY <1>1, <2>1
<1>6. After(t, kind, again, k) = Wrote(t)
  BY <1>4, StandingWritten DEF again
<1>7. \A j \in (k + 1)..n : again[j] = plan[j]
  <2>1. \A j \in (k + 1)..n : j \in 1..n
    BY <1>1
  <2> QED
    BY <1>3, <1>4, <2>1
<1>8. After(t, kind, again, k) = After(s, kind, plan, k)
  BY <1>6 DEF plan
<1> HIDE DEF n
<1>a. k \in 0..n
  BY <1>1
<1>9. After(t, kind, again, n) = After(s, kind, plan, n)
  BY <1>0, <1>2, <1>7, <1>8, <1>a, SameRest
<1>10. WholeImport(s, kind, rows) = After(s, kind, plan, n) /\ WholeImport(t, kind, rows) = After(t, kind, again, n)
  BY <1>5, WholeIs DEF plan, again, n
<1> QED
  BY <1>9, <1>10

-----------------------------------------------------------------------------
(* Its accounts.                                                           *)

\* Whether an account may be what a row says, and the accounts with it.
RoleBy(b, row) == IF row.role = "" THEN b[row.mail].role ELSE row.role
Fits(roles, b, row) ==
  /\ b[row.mail].external => row.name \in {"", b[row.mail].name}
  /\ RoleBy(b, row) \in DOMAIN roles
  /\ row.role # "" /\ b[row.mail].system => "roles:write" \in roles[row.role].rights
Taking(b, row) ==
  [x \in DOMAIN b |->
     IF x = row.mail
     THEN [name |-> IF row.name = "" THEN b[x].name ELSE row.name, external |-> b[x].external,
           system |-> b[x].system, role |-> RoleBy(b, row)]
     ELSE b[x]]
ByMail(row) == [row |-> row, id |-> row.mail]

LEMMA AccountPlanned ==
  ASSUME NEW s, NEW rows, NEW i \in DOMAIN rows
  PROVE  /\ PlanOf(s, "accounts", rows)[i] = ByMail(rows[i])
         /\ ~planSheetRow(s, "accounts", rows[i]).problem <=>
              /\ rows[i].mail # "" /\ rows[i].mail \in DOMAIN s.accounts
              /\ rows[i].role = "" \/ rows[i].role \in DOMAIN s.roles
<1>1. planSheetRow(s, "accounts", rows[i]) = planAccount(s, rows[i])
  BY DEF planSheetRow
<1>2. planAccount(s, rows[i]).planned = ByMail(rows[i])
  BY DEF planAccount, ByMail
<1>3. PlanOf(s, "accounts", rows)[i] = ByMail(rows[i])
  BY <1>1, <1>2 DEF PlanOf
<1> DEFINE row == rows[i]
<1>4. planAccount(s, row).problem <=>
        \/ ~parseUserRow(row) \/ row.mail \notin DOMAIN s.accounts \/ (row.role # "" /\ row.role \notin DOMAIN s.roles)
  BY DEF planAccount
<1>5. parseUserRow(row) <=> row.mail # ""
  BY DEF parseUserRow
<1> HIDE DEF row
<1>6. ~planAccount(s, row).problem <=>
        /\ row.mail # "" /\ row.mail \in DOMAIN s.accounts /\ (row.role = "" \/ row.role \in DOMAIN s.roles)
  BY <1>4, <1>5
<1> QED
  BY <1>1, <1>3, <1>6 DEF row

LEMMA AccountTaken ==
  ASSUME NEW s, Store(s), NEW row \in RowOf("accounts"), row.mail \in DOMAIN s.accounts
  PROVE  UpdateUser(s, ByMail(row)) =
           IF Fits(s.roles, s.accounts, row) THEN Wrote(WithAccounts(s, Taking(s.accounts, row))) ELSE RefusedWrite(s)
<1> DEFINE p == ByMail(row)
           b == s.accounts
           id == row.mail
           role == IF p.row.role = "" THEN s.accounts[p.id].role ELSE p.row.role
<1>1. p.row = row /\ p.id = id
  BY DEF ByMail
<1>2. role = RoleBy(b, row)
  BY <1>1 DEF RoleBy
<1>3. UpdateUser(s, p) =
        IF \/ b[id].external /\ row.name \notin {"", b[id].name}
           \/ role \notin DOMAIN s.roles
           \/ row.role # "" /\ b[id].system /\ "roles:write" \notin s.roles[role].rights
        THEN RefusedWrite(s)
        ELSE Wrote([s EXCEPT !.accounts[p.id].role = role,
                             !.accounts[p.id].name = IF p.row.name = "" THEN @ ELSE p.row.name])
  <2> DEFINE new == [s EXCEPT !.accounts[p.id].role = role,
                              !.accounts[p.id].name = IF p.row.name = "" THEN @ ELSE p.row.name]
  <2>1. UpdateUser(s, p) =
        IF \/ s.accounts[p.id].external /\ p.row.name \notin {"", s.accounts[p.id].name}
           \/ role \notin DOMAIN s.roles
           \/ p.row.role # "" /\ s.accounts[p.id].system /\ "roles:write" \notin s.roles[role].rights
        THEN RefusedWrite(s) ELSE Wrote(new)
    BY DEF UpdateUser
  <2> HIDE DEF new, p, role
  <2>2. UpdateUser(s, p) =
        IF \/ b[id].external /\ row.name \notin {"", b[id].name}
           \/ role \notin DOMAIN s.roles
           \/ row.role # "" /\ b[id].system /\ "roles:write" \notin s.roles[role].rights
        THEN RefusedWrite(s) ELSE Wrote(new)
    BY <1>1, <2>1
  <2> QED
    BY <2>2 DEF new
<1>4. (\/ b[id].external /\ row.name \notin {"", b[id].name}
       \/ role \notin DOMAIN s.roles
       \/ row.role # "" /\ b[id].system /\ "roles:write" \notin s.roles[role].rights) <=> ~Fits(s.roles, b, row)
  <2>1. row.role # "" => role = row.role
    BY <1>2 DEF RoleBy
  <2> HIDE DEF role
  <2>2. role = RoleBy(b, row)
    BY <1>2
  <2> QED
    BY <2>1, <2>2 DEF Fits
<1>5. [s EXCEPT !.accounts[p.id].role = role, !.accounts[p.id].name = IF p.row.name = "" THEN @ ELSE p.row.name]
        = WithAccounts(s, [b EXCEPT ![id] = ChangedAccount(s, p)])
  <2>1. p.row \in RowOf("accounts") /\ p.id \in DOMAIN s.accounts
    BY <1>1
  <2>a. role = IF p.row.role = "" THEN s.accounts[p.id].role ELSE p.row.role
    OBVIOUS
  <2> HIDE DEF p, role
  <2>2. [s EXCEPT !.accounts[p.id].role = role, !.accounts[p.id].name = IF p.row.name = "" THEN @ ELSE p.row.name]
          = WithAccounts(s, [s.accounts EXCEPT ![p.id] = ChangedAccount(s, p)])
    BY <2>1, <2>a, AccountUpdated
  <2> QED
    BY <1>1, <2>2
<1>6. [b EXCEPT ![id] = ChangedAccount(s, p)] = Taking(b, row)
  <2> DEFINE new == ChangedAccount(s, p)
  <2>1. new = [name |-> IF row.name = "" THEN b[id].name ELSE row.name, external |-> b[id].external,
               system |-> b[id].system, role |-> role]
    BY <1>1 DEF ChangedAccount
  <2>2. b = [x \in DOMAIN b |-> b[x]]
    BY DEF Store
  <2>3. [b EXCEPT ![id] = new] = [x \in DOMAIN b |-> IF x = id THEN new ELSE b[x]]
    <3> HIDE DEF new, b, id
    <3> QED
      BY <2>2
  <2>4. Taking(b, row) = [x \in DOMAIN b |-> IF x = id THEN new ELSE b[x]]
    <3> DEFINE old == [name |-> IF row.name = "" THEN b[id].name ELSE row.name, external |-> b[id].external,
                       system |-> b[id].system, role |-> role]
    <3>1. Taking(b, row) = [x \in DOMAIN b |-> IF x = id THEN old ELSE b[x]]
      <4>1. ASSUME NEW x \in DOMAIN b PROVE Taking(b, row)[x] = IF x = id THEN old ELSE b[x]
        BY <1>2 DEF Taking
      <4>2. Taking(b, row) = [x \in DOMAIN b |-> Taking(b, row)[x]]
        BY DEF Taking
      <4> QED
        BY <4>1, <4>2
    <3>2. old = new
      BY <2>1
    <3> HIDE DEF old, new
    <3> QED
      BY <3>1, <3>2
  <2> QED
    BY <2>3, <2>4
<1> HIDE DEF p, role
<1> QED
  BY <1>3, <1>4, <1>5, <1>6 DEF p

FieldsOf(b, row, x) ==
  LET c == Taking(b, row)[x] IN
  /\ c.external = b[x].external /\ c.system = b[x].system
  /\ c.name = IF x = row.mail /\ row.name # "" THEN row.name ELSE b[x].name
  /\ c.role = IF x = row.mail /\ row.role # "" THEN row.role ELSE b[x].role
LEMMA FieldsTaken ==
  ASSUME NEW D, NEW b \in [D -> Account], NEW row, NEW x \in D
  PROVE  FieldsOf(b, row, x)
<1> DEFINE role == RoleBy(b, row)
           name == IF row.name = "" THEN b[x].name ELSE row.name
           c == Taking(b, row)[x]
<1>1. c = IF x = row.mail THEN [name |-> name, external |-> b[x].external, system |-> b[x].system, role |-> role] ELSE b[x]
  BY DEF Taking
<1>2. x = row.mail => role = IF row.role # "" THEN row.role ELSE b[x].role
  BY DEF RoleBy
<1>3. name = IF row.name # "" THEN row.name ELSE b[x].name
  OBVIOUS
<1> HIDE DEF role, name, c
<1>4. CASE x = row.mail
  <2>1. c.name = name /\ c.external = b[x].external /\ c.system = b[x].system /\ c.role = role
    BY <1>1, <1>4
  <2> QED
    BY <1>2, <1>3, <1>4, <2>1 DEF c, FieldsOf
<1>5. CASE x # row.mail
  BY <1>1, <1>5 DEF c, FieldsOf
<1> QED
  BY <1>4, <1>5

LEMMA TakenTyped ==
  ASSUME NEW D, NEW b \in [D -> Account], NEW row \in RowOf("accounts")
  PROVE  Taking(b, row) \in [D -> Account]
<1>1. row \in [mail : Text, name : Text, role : Text]
  BY DEF RowOf
<1>2. DOMAIN b = D
  OBVIOUS
<1>3. ASSUME NEW x \in D PROVE Taking(b, row)[x] \in Account
  <2>1. CASE x = row.mail
    <3> DEFINE role == RoleBy(b, row)
               name == IF row.name = "" THEN b[x].name ELSE row.name
    <3>1. b[x] \in Account
      OBVIOUS
    <3>2. role \in Text /\ name \in Text /\ b[x].external \in BOOLEAN /\ b[x].system \in BOOLEAN
      BY <1>1, <2>1, <3>1 DEF RoleBy, Account
    <3>3. Taking(b, row)[x] = [name |-> name, external |-> b[x].external, system |-> b[x].system, role |-> role]
      BY <2>1 DEF Taking
    <3> HIDE DEF name, role
    <3> QED
      BY <3>2, <3>3 DEF Account
  <2>2. CASE x # row.mail
    BY <2>2 DEF Taking
  <2> QED
    BY <2>1, <2>2
<1>4. Taking(b, row) = [x \in D |-> Taking(b, row)[x]]
  BY <1>2 DEF Taking
<1> HIDE DEF Taking
<1> QED
  BY <1>3, <1>4

\* Accounts that are taken through rows, one after the other, each of which fits.
TakesUp(roles, D, k, rows, a) ==
  /\ \A i \in 0..k : a[i] \in [D -> Account]
  /\ \A i \in 1..k : rows[i].mail \in D /\ Fits(roles, a[i - 1], rows[i]) /\ a[i] = Taking(a[i - 1], rows[i])

\* What is fixed stays, and an account that is taken up has a role that there is.
HeldFast(roles, D, rows, a, n) ==
  /\ \A x \in D : /\ a[n][x].external = a[0][x].external /\ a[n][x].system = a[0][x].system
                  /\ a[0][x].external => a[n][x].name = a[0][x].name
  /\ \A j \in 1..n : a[n][rows[j].mail].role \in DOMAIN roles

LEMMA FieldsKept ==
  ASSUME NEW roles, NEW D, NEW k \in Nat, NEW rows, NEW a, TakesUp(roles, D, k, rows, a), NEW i \in 0..k
  PROVE  HeldFast(roles, D, rows, a, i)
<1> DEFINE Held(n) == HeldFast(roles, D, rows, a, n)
<1> DEFINE B == {n \in 0..k : ~Held(n)}
<1>1. Held(0)
  BY DEF HeldFast
<1>2. ASSUME NEW n \in 1..k, Held(n - 1) PROVE Held(n)
  <2> DEFINE row == rows[n]
             b == a[n - 1]
             c == a[n]
  <2>1. row.mail \in D /\ Fits(roles, b, row) /\ c = Taking(b, row) /\ n - 1 \in 0..k /\ b \in [D -> Account]
    <3>1. n - 1 \in 0..k
      OBVIOUS
    <3> QED
      BY <3>1 DEF TakesUp
  <2> HIDE DEF row, b, c
  <2>2. \A x \in D : /\ c[x].external = b[x].external /\ c[x].system = b[x].system
                     /\ c[x].name = IF x = row.mail /\ row.name # "" THEN row.name ELSE b[x].name
                     /\ c[x].role = IF x = row.mail /\ row.role # "" THEN row.role ELSE b[x].role
    <3>1. b \in [D -> Account] /\ c = Taking(b, row)
      BY <2>1
    <3>2. ASSUME NEW x \in D
          PROVE  FieldsOf(b, row, x)
      BY <3>1, FieldsTaken
    <3> QED
      BY <3>1, <3>2 DEF FieldsOf
  <2>3. \A x \in D : /\ b[x].external = a[0][x].external /\ b[x].system = a[0][x].system
                     /\ a[0][x].external => b[x].name = a[0][x].name
    BY <1>2 DEF b, HeldFast
  <2>4. b[row.mail].external => row.name \in {"", b[row.mail].name}
    BY <2>1 DEF Fits
  <2>5. (IF row.role = "" THEN b[row.mail].role ELSE row.role) \in DOMAIN roles
    BY <2>1 DEF Fits, RoleBy
  <2>6. ASSUME NEW x \in D
        PROVE  /\ c[x].external = a[0][x].external /\ c[x].system = a[0][x].system
               /\ a[0][x].external => c[x].name = a[0][x].name
    BY <2>2, <2>3, <2>4
  <2>7. ASSUME NEW j \in 1..n PROVE c[rows[j].mail].role \in DOMAIN roles
    <3>1. rows[j].mail \in D
      <4>1. j \in 1..k
        OBVIOUS
      <4> QED
        BY <4>1 DEF TakesUp
    <3> DEFINE x == rows[j].mail
    <3>2. CASE x = row.mail
      BY <2>1, <2>2, <2>5, <3>2
    <3>3. CASE x # row.mail
      <4>1. j \in 1..(n - 1)
        BY <3>3 DEF row
      <4>2. b[x].role \in DOMAIN roles
        BY <1>2, <4>1 DEF b, HeldFast
      <4> HIDE DEF x
      <4> QED
        BY <2>2, <3>1, <3>3, <4>2 DEF x
    <3> QED
      BY <3>2, <3>3
  <2> QED
    BY <2>6, <2>7 DEF c, HeldFast
<1>3. B = {}
  <2> SUFFICES ASSUME B # {} PROVE FALSE
    OBVIOUS
  <2>1. PICK n \in B : \A m \in B : n <= m
    <3>1. B \in SUBSET Nat
      OBVIOUS
    <3> HIDE DEF B
    <3> QED
      BY <3>1, Least
  <2>2. n \in 0..k /\ ~Held(n)
    OBVIOUS
  <2> HIDE DEF Held
  <2>3. n # 0
    BY <1>1, <2>2
  <2>4. n - 1 \in 0..k /\ n \in 1..k /\ ~(n <= n - 1)
    BY <2>2, <2>3
  <2>5. Held(n - 1)
    BY <2>1, <2>4
  <2> QED
    BY <1>2, <2>2, <2>4, <2>5
<1> HIDE DEF Held
<1>4. Held(i)
  BY <1>3
<1> QED
  BY <1>4 DEF Held

\* Whether one of the first rows says what an account is called, or what role it has.
Named(rows, i, x) == \E j \in 1..i : rows[j].mail = x /\ rows[j].name # ""
Given(rows, i, x) == \E j \in 1..i : rows[j].mail = x /\ rows[j].role # ""

\* Half way again: what the rows so far say is as it was then, and the rest as it was left.
HalfAgain(k, rows, D, a, g, i) ==
  \A x \in D :
    /\ g[i][x].external = a[0][x].external /\ g[i][x].system = a[0][x].system
    /\ g[i][x].name = IF Named(rows, i, x) THEN a[i][x].name ELSE a[k][x].name
    /\ g[i][x].role = IF Given(rows, i, x) THEN a[i][x].role ELSE a[k][x].role

LEMMA OneMoreAgain ==
  ASSUME NEW roles, NEW D, NEW k \in Nat, NEW rows, NEW a, TakesUp(roles, D, k, rows, a), NEW n \in 1..k,
         NEW g, g[n - 1] \in [D -> Account], g[n] = Taking(g[n - 1], rows[n]), HalfAgain(k, rows, D, a, g, n - 1)
  PROVE  HalfAgain(k, rows, D, a, g, n) /\ Fits(roles, g[n - 1], rows[n])
<1> DEFINE row == rows[n]
           b == a[n - 1]
           c == a[n]
           d == g[n - 1]
           e == g[n]
           m == row.mail
<1>0. n \in Nat /\ n - 1 \in 0..k /\ n \in 0..k /\ k \in 0..k /\ n \in 1..n
  OBVIOUS
<1>1. /\ b \in [D -> Account] /\ c = Taking(b, row) /\ m \in D /\ Fits(roles, b, row)
      /\ d \in [D -> Account] /\ e = Taking(d, row)
  BY <1>0 DEF TakesUp
<1>2. \A x \in D : FieldsOf(b, row, x) /\ FieldsOf(d, row, x)
  <2> HIDE DEF b, d, row
  <2> QED
    BY <1>1, FieldsTaken
<1>a. HeldFast(roles, D, rows, a, n - 1) /\ HeldFast(roles, D, rows, a, k)
  <2>1. \A i \in 0..k : HeldFast(roles, D, rows, a, i)
    BY FieldsKept
  <2> QED
    BY <1>0, <2>1
<1>3. \A x \in D : /\ b[x].external = a[0][x].external /\ b[x].system = a[0][x].system
                   /\ a[0][x].external => b[x].name = a[0][x].name
  BY <1>a DEF HeldFast
<1>4. \A x \in D : a[0][x].external => a[k][x].name = a[0][x].name
  BY <1>a DEF HeldFast
<1>5. a[k][m].role \in DOMAIN roles
  <2>1. n \in 1..k
    OBVIOUS
  <2> QED
    BY <1>a, <2>1 DEF HeldFast
<1>6. \A x \in D :
        /\ d[x].external = a[0][x].external /\ d[x].system = a[0][x].system
        /\ d[x].name = IF Named(rows, n - 1, x) THEN b[x].name ELSE a[k][x].name
        /\ d[x].role = IF Given(rows, n - 1, x) THEN b[x].role ELSE a[k][x].role
  BY DEF HalfAgain
<1>7. \A x : /\ Named(rows, n, x) <=> Named(rows, n - 1, x) \/ (x = m /\ row.name # "")
             /\ Given(rows, n, x) <=> Given(rows, n - 1, x) \/ (x = m /\ row.role # "")
  <2>1. \A j : j \in 1..n <=> j \in 1..(n - 1) \/ j = n
    BY <1>0
  <2> QED
    BY <2>1 DEF Named, Given
<1> HIDE DEF row, b, c, d, e, m
<1>8. Fits(roles, d, row)
  <2>1. /\ b[m].external => row.name \in {"", b[m].name}
        /\ (IF row.role = "" THEN b[m].role ELSE row.role) \in DOMAIN roles
        /\ row.role # "" /\ b[m].system => "roles:write" \in roles[row.role].rights
    BY <1>1 DEF Fits, RoleBy, m
  <2>2. d[m].external => row.name \in {"", d[m].name}
    <3>1. ASSUME d[m].external PROVE d[m].name = b[m].name /\ b[m].external
      BY <1>1, <1>3, <1>4, <1>6, <3>1
    <3> QED
      BY <2>1, <3>1
  <2>3. (IF row.role = "" THEN d[m].role ELSE row.role) \in DOMAIN roles
    <3>1. CASE row.role = ""
      <4>1. b[m].role \in DOMAIN roles /\ d[m].role \in {b[m].role, a[k][m].role}
        BY <1>1, <1>6, <2>1, <3>1
      <4> QED
        BY <1>5, <3>1, <4>1
    <3>2. CASE row.role # ""
      BY <2>1, <3>2
    <3> QED
      BY <3>1, <3>2
  <2>4. row.role # "" /\ d[m].system => "roles:write" \in roles[row.role].rights
    BY <1>1, <1>3, <1>6, <2>1
  <2> QED
    BY <2>2, <2>3, <2>4 DEF Fits, RoleBy, m
<1>9. ASSUME NEW x \in D
      PROVE  /\ e[x].external = a[0][x].external /\ e[x].system = a[0][x].system
             /\ e[x].name = IF Named(rows, n, x) THEN c[x].name ELSE a[k][x].name
             /\ e[x].role = IF Given(rows, n, x) THEN c[x].role ELSE a[k][x].role
  <2>1. /\ c[x].name = IF x = m /\ row.name # "" THEN row.name ELSE b[x].name
        /\ c[x].role = IF x = m /\ row.role # "" THEN row.role ELSE b[x].role
    BY <1>1, <1>2 DEF FieldsOf, m
  <2>2. /\ e[x].name = IF x = m /\ row.name # "" THEN row.name ELSE d[x].name
        /\ e[x].role = IF x = m /\ row.role # "" THEN row.role ELSE d[x].role
        /\ e[x].external = d[x].external /\ e[x].system = d[x].system
    BY <1>1, <1>2 DEF FieldsOf, m
  <2>3. /\ d[x].external = a[0][x].external /\ d[x].system = a[0][x].system
        /\ d[x].name = IF Named(rows, n - 1, x) THEN b[x].name ELSE a[k][x].name
        /\ d[x].role = IF Given(rows, n - 1, x) THEN b[x].role ELSE a[k][x].role
    BY <1>6
  <2> QED
    BY <1>7, <2>1, <2>2, <2>3
<1> QED
  BY <1>8, <1>9 DEF HalfAgain, row, c, d, e

\* Taken through the same rows again they fit again and come to the same.
TakenFrom(D, k, rows, first, g) ==
  /\ \A i \in 0..k : g[i] \in [D -> Account]
  /\ g[0] = first /\ \A i \in 1..k : g[i] = Taking(g[i - 1], rows[i])
TakenOnce(roles, k, rows, a, g) == (\A i \in 1..k : Fits(roles, g[i - 1], rows[i])) /\ g[k] = a[k]
LEMMA TakenAgain ==
  ASSUME NEW roles, NEW D, NEW k \in Nat, NEW rows, NEW a, TakesUp(roles, D, k, rows, a), NEW g,
         TakenFrom(D, k, rows, a[k], g)
  PROVE  TakenOnce(roles, k, rows, a, g)
<1> DEFINE Half(i) == HalfAgain(k, rows, D, a, g, i)
           B == {n \in 0..k : ~Half(n)}
<1>0. k \in 0..k
  OBVIOUS
<1>a. HeldFast(roles, D, rows, a, k)
  BY <1>0, FieldsKept
<1>b. /\ \A i \in 0..k : g[i] \in [D -> Account]
      /\ g[0] = a[k] /\ \A i \in 1..k : g[i] = Taking(g[i - 1], rows[i])
  BY DEF TakenFrom
<1>1. Half(0)
  <2>1. \A x : ~Named(rows, 0, x) /\ ~Given(rows, 0, x)
    BY DEF Named, Given
  <2>2. \A x \in D : a[k][x].external = a[0][x].external /\ a[k][x].system = a[0][x].system
    BY <1>a DEF HeldFast
  <2> QED
    BY <1>b, <2>1, <2>2 DEF HalfAgain
<1>2. ASSUME NEW n \in 1..k, Half(n - 1) PROVE Half(n) /\ Fits(roles, g[n - 1], rows[n])
  <2>1. n - 1 \in 0..k
    OBVIOUS
  <2> QED
    BY <1>b, <1>2, <2>1, OneMoreAgain
<1>3. B = {}
  <2> SUFFICES ASSUME B # {} PROVE FALSE
    OBVIOUS
  <2>1. PICK n \in B : \A m \in B : n <= m
    <3>1. B \in SUBSET Nat
      OBVIOUS
    <3> HIDE DEF B
    <3> QED
      BY <3>1, Least
  <2>2. n \in 0..k /\ ~Half(n)
    OBVIOUS
  <2> HIDE DEF Half
  <2>3. n # 0
    BY <1>1, <2>2
  <2>4. n - 1 \in 0..k /\ n \in 1..k /\ ~(n <= n - 1)
    BY <2>2, <2>3
  <2>5. Half(n - 1)
    BY <2>1, <2>4
  <2> QED
    BY <1>2, <2>2, <2>4, <2>5
<1>4. \A i \in 1..k : Fits(roles, g[i - 1], rows[i])
  <2>1. ASSUME NEW i \in 1..k PROVE Half(i - 1)
    <3>1. i - 1 \in 0..k
      OBVIOUS
    <3> HIDE DEF Half
    <3> QED
      BY <1>3, <3>1
  <2> HIDE DEF Half
  <2> QED
    BY <1>2, <2>1
<1>5. Half(k)
  <2> HIDE DEF Half
  <2> QED
    BY <1>0, <1>3
<1>6. g[k] = a[k]
  <2> DEFINE b == g[k]
             c == a[k]
  <2>1. b \in [D -> Account] /\ c \in [D -> Account]
    BY <1>0, <1>b DEF TakesUp
  <2>2. \A x \in D : c[x].external = a[0][x].external /\ c[x].system = a[0][x].system
    BY <1>a DEF HeldFast
  <2>3. \A x \in D : /\ b[x].external = a[0][x].external /\ b[x].system = a[0][x].system
                     /\ b[x].name = c[x].name /\ b[x].role = c[x].role
    BY <1>5 DEF HalfAgain
  <2> HIDE DEF b, c
  <2>4. ASSUME NEW x \in D PROVE b[x] = c[x]
    <3> DEFINE y == b[x]
               z == c[x]
    <3>1. y \in Account /\ z \in Account
      BY <2>1
    <3>2. y.external = z.external /\ y.system = z.system /\ y.name = z.name /\ y.role = z.role
      BY <2>2, <2>3
    <3> HIDE DEF y, z
    <3>3. y = z
      BY <3>1, <3>2 DEF Account
    <3> QED
      BY <3>3 DEF y, z
  <2>5. b = c
    BY <2>1, <2>4
  <2> QED
    BY <2>5 DEF b, c
<1> QED
  BY <1>4, <1>6 DEF TakenOnce

\* A row of accounts as it is written.
LEMMA AccountOneMore ==
  ASSUME NEW s, Store(s), NEW D, D = DOMAIN s.accounts, NEW b, b \in [D -> Account],
         NEW row \in RowOf("accounts"), row.mail \in D
  PROVE  /\ Store(WithAccounts(s, b))
         /\ writeSheetRow(WithAccounts(s, b), "accounts", ByMail(row)) =
              IF Fits(s.roles, b, row) THEN Wrote(WithAccounts(s, Taking(b, row))) ELSE RefusedWrite(WithAccounts(s, b))
<1> DEFINE q == WithAccounts(s, b)
<1>1. Store(q)
  <2>1. b \in [DOMAIN b -> Account] /\ DOMAIN b \in SUBSET Text
    BY DEF Store
  <2> QED
    BY <2>1, PartTyped
<1>2. /\ q.accounts = b /\ q.roles = s.roles /\ q.projects = s.projects /\ q.entries = s.entries /\ DOMAIN b = D
  BY DEF WithAccounts
<1>3. \A x : WithAccounts(q, x) = WithAccounts(s, x)
  BY DEF WithAccounts
<1> HIDE DEF q
<1>4. UpdateUser(q, ByMail(row)) =
        IF Fits(q.roles, q.accounts, row) THEN Wrote(WithAccounts(q, Taking(q.accounts, row))) ELSE RefusedWrite(q)
  BY <1>1, <1>2, AccountTaken
<1>5. writeSheetRow(q, "accounts", ByMail(row)) = UpdateUser(q, ByMail(row))
  BY DEF writeSheetRow
<1>6. writeSheetRow(q, "accounts", ByMail(row)) =
        IF Fits(s.roles, b, row) THEN Wrote(WithAccounts(s, Taking(b, row))) ELSE RefusedWrite(q)
  BY <1>2, <1>3, <1>4, <1>5
<1> QED
  BY <1>1, <1>6 DEF q

\* Rows that were all written took the accounts up, and nothing else.
AccountsOnly(s, D, f) == f = WithAccounts(s, f.accounts) /\ f.accounts \in [D -> Account]
LEMMA AccountsFollow ==
  ASSUME NEW s, Store(s), NEW rows \in Seq(RowOf("accounts")),
         \A i \in DOMAIN rows : ~planSheetRow(s, "accounts", rows[i]).problem,
         NEW plan, plan = PlanOf(s, "accounts", rows), NEW k \in 0..Len(rows), After(s, "accounts", plan, k).ok,
         NEW D, D = DOMAIN s.accounts, NEW a, a = [i \in 0..k |-> After(s, "accounts", plan, i).store.accounts]
  PROVE  /\ \A i \in 0..k : AccountsOnly(s, D, After(s, "accounts", plan, i).store)
         /\ TakesUp(s.roles, D, k, rows, a)
<1> DEFINE n == Len(rows)
           A(i) == After(s, "accounts", plan, i)
           F(i) == A(i).store
           Alone(i) == AccountsOnly(s, D, F(i))
           B == {i \in 0..k : ~Alone(i)}
<1>0. "accounts" \in Sheets
  BY DEF Sheets
<1>1. n \in Nat /\ DOMAIN rows = 1..n /\ k \in Nat /\ k <= n /\ \A j \in 1..n : rows[j] \in RowOf("accounts")
  OBVIOUS
<1>2. SheetPlan("accounts", n, plan)
  BY <1>0, RowIsPlanned
<1>3. /\ \A i \in 0..k : A(i) = Wrote(F(i)) /\ Store(F(i))
      /\ \A i \in 0..(k - 1) : A(i + 1) = writeSheetRow(F(i), "accounts", plan[i + 1])
  BY <1>0, <1>1, <1>2, AllWritten
<1>4. \A j \in 1..n : plan[j] = ByMail(rows[j]) /\ rows[j].mail \in D
  BY <1>1, AccountPlanned
<1>5. F(0) = s
  <2>1. A(0) = Wrote(s)
    BY <1>0, <1>2, AfterOneMore
  <2> QED
    BY <2>1 DEF Wrote
<1>6. a = [i \in 0..k |-> F(i).accounts]
  OBVIOUS
<1>7. Alone(0)
  <2>1. s = WithAccounts(s, s.accounts) /\ s.accounts \in [D -> Account]
    BY DEF Store, WithAccounts
  <2> QED
    BY <1>5, <2>1 DEF AccountsOnly
<1> HIDE DEF F, A, n
<1>8. ASSUME NEW i \in 0..(k - 1), Alone(i)
      PROVE  /\ Alone(i + 1) /\ Fits(s.roles, F(i).accounts, rows[i + 1])
             /\ F(i + 1).accounts = Taking(F(i).accounts, rows[i + 1])
  <2> DEFINE b == F(i).accounts
             row == rows[i + 1]
             c == Taking(b, row)
  <2>1. i \in 0..k /\ i + 1 \in 0..k /\ i + 1 \in 1..n
    BY <1>1
  <2>2. row \in RowOf("accounts") /\ row.mail \in D /\ plan[i + 1] = ByMail(row)
    BY <1>1, <1>4, <2>1
  <2>3. b \in [D -> Account] /\ F(i) = WithAccounts(s, b)
    BY <1>8 DEF AccountsOnly
  <2> HIDE DEF b, row
  <2>4. writeSheetRow(WithAccounts(s, b), "accounts", ByMail(row)) =
          IF Fits(s.roles, b, row) THEN Wrote(WithAccounts(s, c)) ELSE RefusedWrite(WithAccounts(s, b))
    BY <2>2, <2>3, AccountOneMore
  <2>5. Wrote(F(i + 1)) = writeSheetRow(WithAccounts(s, b), "accounts", ByMail(row))
    BY <1>3, <2>1, <2>2, <2>3
  <2>6. \A x : Wrote(F(i + 1)) # RefusedWrite(x)
    BY DEF Wrote, RefusedWrite
  <2>7. Fits(s.roles, b, row) /\ Wrote(F(i + 1)) = Wrote(WithAccounts(s, c))
    BY <2>4, <2>5, <2>6
  <2>8. c \in [D -> Account]
    BY <2>2, <2>3, TakenTyped
  <2> HIDE DEF c
  <2>9. F(i + 1) = WithAccounts(s, c)
    BY <2>7 DEF Wrote
  <2>10. F(i + 1).accounts = c
    BY <2>9 DEF WithAccounts
  <2> QED
    BY <2>7, <2>8, <2>9, <2>10 DEF AccountsOnly, b, row, c
<1>9. B = {}
  <2> SUFFICES ASSUME B # {} PROVE FALSE
    OBVIOUS
  <2>1. PICK i \in B : \A j \in B : i <= j
    <3>1. B \in SUBSET Nat
      BY <1>1
    <3> HIDE DEF B
    <3> QED
      BY <3>1, Least
  <2>2. i \in 0..k /\ ~Alone(i)
    OBVIOUS
  <2> HIDE DEF Alone
  <2>3. i # 0
    BY <1>7, <2>2
  <2>4. i - 1 \in 0..k /\ i - 1 \in 0..(k - 1) /\ (i - 1) + 1 = i /\ ~(i <= i - 1)
    BY <1>1, <2>2, <2>3
  <2>5. Alone(i - 1)
    BY <2>1, <2>4
  <2> QED
    BY <1>8, <2>2, <2>4, <2>5
<1>10. \A i \in 0..k : Alone(i)
  BY <1>9
<1>11. TakesUp(s.roles, D, k, rows, a)
  <2>1. \A i \in 0..k : a[i] = F(i).accounts /\ a[i] \in [D -> Account]
    BY <1>6, <1>10 DEF AccountsOnly
  <2>2. ASSUME NEW i \in 1..k
        PROVE  rows[i].mail \in D /\ Fits(s.roles, a[i - 1], rows[i]) /\ a[i] = Taking(a[i - 1], rows[i])
    <3>1. i - 1 \in 0..(k - 1) /\ (i - 1) + 1 = i /\ i - 1 \in 0..k /\ i \in 0..k /\ i \in 1..n
      BY <1>1
    <3> HIDE DEF Alone
    <3>2. Fits(s.roles, F(i - 1).accounts, rows[i]) /\ F(i).accounts = Taking(F(i - 1).accounts, rows[i])
      BY <1>8, <1>10, <3>1
    <3> QED
      BY <1>4, <2>1, <3>1, <3>2
  <2> QED
    BY <2>1, <2>2 DEF TakesUp
<1> QED
  BY <1>10, <1>11 DEF F, A

\* The accounts again after the first of a file's rows, which fit.
LEMMA AccountsAgain ==
  ASSUME NEW s, Store(s), NEW rows \in Seq(RowOf("accounts")), NEW D, D = DOMAIN s.accounts,
         NEW k \in 0..Len(rows), NEW g, \A i \in 0..k : g[i] \in [D -> Account],
         \A i \in 1..k : rows[i].mail \in D /\ Fits(s.roles, g[i - 1], rows[i]) /\ g[i] = Taking(g[i - 1], rows[i]),
         NEW t, Store(t), t = WithAccounts(s, g[0]), NEW again, SheetPlan("accounts", Len(rows), again),
         \A i \in 1..Len(rows) : again[i] = ByMail(rows[i])
  PROVE  After(t, "accounts", again, k) = Wrote(WithAccounts(s, g[k]))
<1> DEFINE n == Len(rows)
           A(i) == After(t, "accounts", again, i)
           To(i) == A(i) = Wrote(WithAccounts(s, g[i]))
           B == {i \in 0..k : ~To(i)}
<1>0. "accounts" \in Sheets
  BY DEF Sheets
<1>1. n \in Nat /\ k \in Nat /\ k <= n /\ \A j \in 1..n : rows[j] \in RowOf("accounts")
  OBVIOUS
<1>2. A(0) = Wrote(t) /\ \A i \in 0..(n - 1) : A(i + 1) = writeUnlessRefused(A(i), "accounts", again[i + 1])
  BY <1>0, AfterOneMore
<1>3. To(0)
  BY <1>2
<1> HIDE DEF A, n
<1>4. ASSUME NEW i \in 0..(k - 1), To(i) PROVE To(i + 1)
  <2> DEFINE row == rows[i + 1]
             b == g[i]
             q == WithAccounts(s, b)
             c == g[i + 1]
  <2>1. i \in 0..(n - 1) /\ i \in 0..k /\ i + 1 \in 1..k /\ i + 1 \in 1..n /\ (i + 1) - 1 = i
    BY <1>1
  <2>2. row \in RowOf("accounts") /\ row.mail \in D /\ again[i + 1] = ByMail(row) /\ b \in [D -> Account]
    BY <1>1, <2>1 DEF n
  <2>3. Fits(s.roles, b, row) /\ c = Taking(b, row)
    BY <2>1
  <2> HIDE DEF row, b, c
  <2>4. writeSheetRow(q, "accounts", ByMail(row)) = Wrote(WithAccounts(s, c))
    BY <2>2, <2>3, AccountOneMore
  <2>5. A(i) = Wrote(q)
    BY <1>4 DEF b
  <2> HIDE DEF q
  <2>6. A(i + 1) = writeUnlessRefused(Wrote(q), "accounts", ByMail(row))
    BY <1>2, <2>1, <2>2, <2>5
  <2>7. A(i + 1) = Wrote(WithAccounts(s, c))
    BY <2>4, <2>6 DEF writeUnlessRefused, Wrote
  <2> QED
    BY <2>7 DEF c
<1>5. B = {}
  <2> SUFFICES ASSUME B # {} PROVE FALSE
    OBVIOUS
  <2>1. PICK i \in B : \A j \in B : i <= j
    <3>1. B \in SUBSET Nat
      BY <1>1
    <3> HIDE DEF B
    <3> QED
      BY <3>1, Least
  <2>2. i \in 0..k /\ ~To(i)
    OBVIOUS
  <2> HIDE DEF To
  <2>3. i # 0
    BY <1>3, <2>2
  <2>4. i - 1 \in 0..k /\ i - 1 \in 0..(k - 1) /\ (i - 1) + 1 = i /\ ~(i <= i - 1)
    BY <1>1, <2>2, <2>3
  <2>5. To(i - 1)
    BY <2>1, <2>4
  <2> QED
    BY <1>4, <2>2, <2>4, <2>5
<1>6. To(k)
  <2>1. k \in 0..k
    BY <1>1
  <2> QED
    BY <1>5, <2>1
<1> QED
  BY <1>6 DEF A

LEMMA TakingOn ==
  ASSUME NEW D, NEW rows \in Seq(RowOf("accounts")), NEW k \in 0..Len(rows), NEW first \in [D -> Account]
  PROVE  \E g : TakenFrom(D, k, rows, first, g)
<1> DEFINE V == [D -> Account]
           step == [x \in Nat \X V |-> IF x[1] \in 1..k THEN Taking(x[2], rows[x[1]]) ELSE x[2]]
<1>1. k \in Nat /\ \A i \in 1..k : rows[i] \in RowOf("accounts")
  OBVIOUS
<1>2. ASSUME NEW j \in Nat, NEW v \in V PROVE step[<<j, v>>] = IF j \in 1..k THEN Taking(v, rows[j]) ELSE v
  OBVIOUS
<1>3. ASSUME NEW j \in Nat, NEW v \in V PROVE step[<<j, v>>] \in V
  <2>1. j \in 1..k => Taking(v, rows[j]) \in V
    BY <1>1, TakenTyped
  <2> HIDE DEF V, step
  <2> QED
    BY <1>2, <2>1
<1> HIDE DEF V, step
<1>4. StepsIn(V, first, step)
  <2>1. first \in V
    BY DEF V
  <2>2. step \in [Nat \X V -> V]
    <3>1. DOMAIN step = Nat \X V /\ step = [x \in DOMAIN step |-> step[x]]
      BY DEF step
    <3>2. \A x \in Nat \X V : step[x] \in V
      <4>1. ASSUME NEW x \in Nat \X V PROVE step[x] \in V
        <5>1. PICK j \in Nat, v \in V : x = <<j, v>>
          OBVIOUS
        <5> QED
          BY <1>3, <5>1
      <4> QED
        BY <4>1
    <3> QED
      BY <3>1, <3>2
  <2> QED
    BY <2>1, <2>2 DEF StepsIn
<1>5. PICK g : /\ g = [i \in 0..k |-> g[i]]
               /\ \A i \in 0..k : g[i] \in V
               /\ g[0] = first
               /\ \A i \in 1..k : g[i] = step[<<i, g[i - 1]>>]
  BY <1>1, <1>4, FunctionOfSteps
<1>6. ASSUME NEW i \in 1..k PROVE g[i] = Taking(g[i - 1], rows[i])
  <2>1. i - 1 \in 0..k /\ i \in Nat
    BY <1>1
  <2>2. g[i - 1] \in V
    BY <1>5, <2>1
  <2> QED
    BY <1>2, <1>5, <2>1, <2>2
<1> QED
  BY <1>5, <1>6 DEF V, TakenFrom

\* A sheet of accounts is finished by importing it again, whomever its rows name how often.
LEMMA AccountsFinished ==
  ASSUME NEW s, Store(s), NEW t, Store(t), NEW rows \in Seq(RowOf("accounts")),
         \A i \in DOMAIN rows : ~planSheetRow(s, "accounts", rows[i]).problem,
         NEW k \in 0..Len(rows), After(s, "accounts", PlanOf(s, "accounts", rows), k) = Wrote(t)
  PROVE  WholeImport(t, "accounts", rows) = WholeImport(s, "accounts", rows)
<1> DEFINE n == Len(rows)
           plan == PlanOf(s, "accounts", rows)
           again == PlanOf(t, "accounts", rows)
           D == DOMAIN s.accounts
           a == [i \in 0..k |-> After(s, "accounts", plan, i).store.accounts]
<1>0. "accounts" \in Sheets
  BY DEF Sheets
<1>1. n \in Nat /\ DOMAIN rows = 1..n /\ k \in Nat /\ k <= n /\ k \in 0..k /\ k \in 0..n
  OBVIOUS
<1>2. SheetPlan("accounts", n, plan) /\ SheetPlan("accounts", n, again)
  BY <1>0, RowIsPlanned
<1>3. \A i \in 1..n : plan[i] = ByMail(rows[i]) /\ again[i] = ByMail(rows[i])
  BY <1>1, AccountPlanned
<1>4. After(s, "accounts", plan, k).ok /\ After(s, "accounts", plan, k).store = t /\ a[k] = t.accounts
  BY <1>1 DEF Wrote
<1>5. a = [i \in 0..k |-> After(s, "accounts", plan, i).store.accounts]
  OBVIOUS
<1> HIDE DEF plan, a, D
<1>6. /\ \A i \in 0..k : AccountsOnly(s, D, After(s, "accounts", plan, i).store)
      /\ TakesUp(s.roles, D, k, rows, a)
  BY <1>4, <1>5, AccountsFollow DEF plan, D
<1>7. t = WithAccounts(s, t.accounts) /\ t.accounts \in [D -> Account]
  BY <1>1, <1>4, <1>6 DEF AccountsOnly
<1>8. PICK g : /\ \A i \in 0..k : g[i] \in [D -> Account]
               /\ g[0] = t.accounts /\ \A i \in 1..k : g[i] = Taking(g[i - 1], rows[i])
  <2> DEFINE first == t.accounts
  <2>1. first \in [D -> Account]
    BY <1>7
  <2> HIDE DEF first
  <2>2. \E g : TakenFrom(D, k, rows, first, g)
    BY <2>1, TakingOn
  <2> QED
    BY <2>2 DEF first, TakenFrom
<1>9. (\A i \in 1..k : Fits(s.roles, g[i - 1], rows[i])) /\ g[k] = t.accounts
  <2> DEFINE roles == s.roles
  <2>1. TakesUp(roles, D, k, rows, a) /\ TakenFrom(D, k, rows, a[k], g)
    BY <1>4, <1>6, <1>8 DEF TakenFrom
  <2> HIDE DEF roles
  <2>2. TakenOnce(roles, k, rows, a, g)
    BY <1>1, <2>1, TakenAgain
  <2> QED
    BY <1>4, <2>2 DEF roles, TakenOnce
<1>10. \A i \in 1..k : rows[i].mail \in D
  BY <1>6 DEF TakesUp
<1> HIDE DEF again
<1>11. After(t, "accounts", again, k) = Wrote(WithAccounts(s, g[k]))
  <2>1. t = WithAccounts(s, g[0])
    BY <1>7, <1>8
  <2>2. \A i \in 1..Len(rows) : again[i] = ByMail(rows[i])
    BY <1>3
  <2>3. \A i \in 1..k : rows[i].mail \in D /\ Fits(s.roles, g[i - 1], rows[i]) /\ g[i] = Taking(g[i - 1], rows[i])
    BY <1>8, <1>9, <1>10
  <2> QED
    BY <1>2, <1>8, <2>1, <2>2, <2>3, AccountsAgain DEF D
<1>12. After(t, "accounts", again, k) = After(s, "accounts", plan, k)
  BY <1>7, <1>9, <1>11 DEF plan
<1>13. \A i \in DOMAIN rows : ~planSheetRow(t, "accounts", rows[i]).problem
  <2>1. DOMAIN t.accounts = D /\ t.roles = s.roles
    <3>1. t.roles = s.roles
      BY <1>7 DEF WithAccounts
    <3> QED
      BY <1>7, <3>1
  <2>2. ASSUME NEW i \in DOMAIN rows PROVE ~planSheetRow(t, "accounts", rows[i]).problem
    <3>1. /\ rows[i].mail # "" /\ rows[i].mail \in DOMAIN s.accounts
          /\ rows[i].role = "" \/ rows[i].role \in DOMAIN s.roles
      BY AccountPlanned
    <3> QED
      BY <2>1, <3>1, AccountPlanned DEF D
  <2> QED
    BY <2>2
<1> HIDE DEF n
<1>14. \A j \in (k + 1)..n : again[j] = plan[j]
  <2>1. \A j \in (k + 1)..n : j \in 1..n
    BY <1>1
  <2> QED
    BY <1>3, <2>1
<1>15. After(t, "accounts", again, n) = After(s, "accounts", plan, n)
  BY <1>0, <1>1, <1>2, <1>12, <1>14, SameRest
<1>16. /\ WholeImport(s, "accounts", rows) = After(s, "accounts", plan, n)
       /\ WholeImport(t, "accounts", rows) = After(t, "accounts", again, n)
  BY <1>13, WholeIs DEF plan, again, n
<1> QED
  BY <1>15, <1>16

\* Whatever sheet it was, and how far it came.
LEMMA BooksFinished == ASSUME BooksKept PROVE FinishedByImportingAgain
<1> SUFFICES ASSUME OfASheet, EachOnce(upload.kind, upload.asked)
             PROVE  WholeImport(store, upload.kind, upload.asked) = WholeImport(upload.before, upload.kind, upload.asked)
  BY DEF FinishedByImportingAgain
<1> DEFINE s == upload.before
           t == store
           kind == upload.kind
           rows == upload.asked
           k == upload.written
<1>1. Store(s) /\ Store(t) /\ kind \in Sheets /\ SheetKept(upload, store) /\ EachOnce(kind, rows)
  BY OfEitherKind DEF OfASheet
<1>2. /\ rows \in Seq(RowOf(kind)) /\ upload.plan = PlanOf(s, kind, rows) /\ k \in Nat
      /\ k <= Len(rows) /\ After(s, kind, upload.plan, k) = Wrote(t)
      /\ \A i \in DOMAIN rows : ~planSheetRow(s, kind, rows[i]).problem
  BY <1>1 DEF SheetKept, OfASheet
<1>3. k \in 0..Len(rows) /\ After(s, kind, PlanOf(s, kind, rows), k) = Wrote(t)
  <2>1. Len(rows) \in Nat
    BY <1>2
  <2> HIDE DEF rows, k
  <2> QED
    BY <1>2, <2>1
<1>4. kind \in {"projects", "roles"} \/ kind = "accounts"
  BY <1>1 DEF Sheets
<1> HIDE DEF s, t, kind, rows, k
<1>5. CASE kind \in {"projects", "roles"}
  <2>1. WholeImport(t, kind, rows) = WholeImport(s, kind, rows)
    BY <1>1, <1>2, <1>3, <1>5, NamedFinished
  <2> QED
    BY <2>1 DEF s, t, kind, rows
<1>6. CASE kind = "accounts"
  <2>1. WholeImport(t, "accounts", rows) = WholeImport(s, "accounts", rows)
    BY <1>1, <1>2, <1>3, <1>6, AccountsFinished
  <2> QED
    BY <1>6, <2>1 DEF s, t, kind, rows
<1> QED
  BY <1>4, <1>5, <1>6

\* What an import of projects, accounts, roles or entries and a copied week leave is what
\* their answer says: no day over its cap, entries whole or not at all, copied days as they
\* were, the rows up to the count written and none after it, and the rest of a file that
\* names each thing once there after importing it again (SaveMany, CopyWeek, ApplyProjects,
\* ApplyUsers, ApplyRoles).
THEOREM LeavesWhatItAnswers == Spec => []LeavesWhatItSays
<1>1. Init => BooksKept
  BY BooksStart DEF Init
<1>2. BooksKept /\ [Next]_allVars => BooksKept'
  <2>1. [Next]_allVars => [WorkbooksNext]_workbookVars
    BY DEF Next, allVars
  <2> QED
    BY <2>1, BooksStep
<1>3. BooksKept => LeavesWhatItSays
  BY BooksSay, BooksFinished DEF LeavesWhatItSays
<1> QED
  BY <1>1, <1>2, <1>3, PTL DEF Spec
=============================================================================
