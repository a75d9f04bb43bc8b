------------------------- MODULE PageProofs -------------------------
(***************************************************************************)
(* The two pages with numbers on them.  The numbers of the dashboard add up, *)
(* and every student it shows has a team, for any students, teams, requests  *)
(* and outcomes, whatever is written while a page is read (DashboardInv).    *)
(* The activity report agrees with the rows it is made from, for any rows,   *)
(* dates and guard (ReportInv).  First, what is needed of sums and sequences. *)
(***************************************************************************)
EXTENDS AdminDashboard, ActivityReport, FiniteSetTheorems, SequenceTheorems, FunctionTheorems, TLAPS

Less == OpToRel(<, Nat)

\* A set of numbers has a least one.
LEMMA Least ==
  ASSUME NEW S \in SUBSET Nat, S # {}
  PROVE  \E x \in S : \A y \in S : x <= y
<1>1. Less = {ss \in Nat \X Nat : ss[1] < ss[2]}
  BY DEF Less, OpToRel
<1>2. IsWellFoundedOn(Less, Nat)
  BY NatLessThanWellFounded DEF Less
<1>3. PICK x \in S : \A y \in S : ~(<<y, x>> \in Less)
  BY <1>2, WFMin
<1>4. ASSUME NEW y \in S PROVE x <= y
  <2>1. x \in Nat /\ y \in Nat
    OBVIOUS
  <2>2. y < x => <<y, x>> \in Less
    BY <1>1, <2>1
  <2> QED
    BY <1>3, <2>1, <2>2
<1> QED
  BY <1>4

\* Induction, over a set: the provers cannot instantiate the library's theorem.
LEMMA SetInduction ==
  ASSUME NEW P, 0 \in P, \A n \in Nat : n \in P => n + 1 \in P
  PROVE  \A n \in Nat : n \in P
<1> DEFINE S == Nat \ P
<1> SUFFICES ASSUME S # {} PROVE FALSE
  OBVIOUS
<1>1. PICK x \in S : \A y \in S : x <= y
  BY Least
<1>2. x \in Nat /\ x # 0
  OBVIOUS
<1>3. x - 1 \in Nat /\ x - 1 + 1 = x /\ ~(x <= x - 1)
  BY <1>2
<1>4. x - 1 \in P
  BY <1>1, <1>3
<1> QED
  BY <1>3, <1>4

AnyOf(s) == CHOOSE x \in s : TRUE
Step(f, g, s) == IF s = {} THEN 0 ELSE f[AnyOf(s)] + g[s \ {AnyOf(s)}]

LEMMA Smaller ==
  ASSUME NEW s, IsFiniteSet(s), s # {}
  PROVE  /\ AnyOf(s) \in s /\ IsFiniteSet(s \ {AnyOf(s)})
         /\ Cardinality(s) \in Nat /\ Cardinality(s \ {AnyOf(s)}) = Cardinality(s) - 1
<1>1. AnyOf(s) \in s
  BY DEF AnyOf
<1> QED
  BY <1>1, FS_RemoveElement, FS_CardinalityType

\* The recursion of the fold defines a function.
LEMMA SumsExist ==
  ASSUME NEW f, NEW D, IsFiniteSet(D)
  PROVE  \E g : g = [s \in SUBSET D |-> Step(f, g, s)]
<1> DEFINE Agrees(g, n) == \A s \in SUBSET D : Cardinality(s) <= n => g[s] = Step(f, g, s)
           P == {n \in Nat : \E g : Agrees(g, n)}
<1>1. \A s \in SUBSET D : IsFiniteSet(s) /\ Cardinality(s) \in Nat /\ Cardinality(s) <= Cardinality(D)
  BY FS_Subset, FS_CardinalityType
<1>2. 0 \in P
  <2> DEFINE g == [s \in SUBSET D |-> 0]
  <2>1. \A s \in SUBSET D : Cardinality(s) <= 0 => s = {}
    BY <1>1, FS_EmptySet
  <2>2. Agrees(g, 0)
    BY <2>1 DEF Step
  <2> QED
    BY <2>2
<1>3. ASSUME NEW n \in Nat, n \in P PROVE n + 1 \in P
  <2>1. PICK g : Agrees(g, n)
    BY <1>3
  <2> DEFINE h == [s \in SUBSET D |-> IF Cardinality(s) <= n THEN g[s] ELSE Step(f, g, s)]
  <2>2. ASSUME NEW s \in SUBSET D, Cardinality(s) <= n + 1 PROVE h[s] = Step(f, h, s)
    <3>1. h[s] = Step(f, g, s)
      BY <2>1
    <3>2. CASE s = {}
      BY <3>1, <3>2 DEF Step
    <3>3. CASE s # {}
      <4>1. s \ {AnyOf(s)} \in SUBSET D /\ Cardinality(s \ {AnyOf(s)}) <= n
        BY <1>1, <2>2, <3>3, Smaller
      <4>2. h[s \ {AnyOf(s)}] = g[s \ {AnyOf(s)}]
        BY <4>1
      <4> QED
        BY <3>1, <4>2 DEF Step
    <3> QED
      BY <3>2, <3>3
  <2>3. Agrees(h, n + 1)
    BY <2>2
  <2>4. \E k : Agrees(k, n + 1)
    <3> HIDE DEF h
    <3> QED
      BY <2>3
  <2> QED
    BY <2>4
<1> HIDE DEF P
<1>4. Cardinality(D) \in P
  BY <1>1, <1>2, <1>3, SetInduction, FS_CardinalityType
<1>5. PICK g : Agrees(g, Cardinality(D))
  BY <1>4 DEF P
<1> DEFINE h == [s \in SUBSET D |-> g[s]]
<1>6. ASSUME NEW s \in SUBSET D PROVE h[s] = Step(f, h, s)
  <2>1. g[s] = Step(f, g, s)
    BY <1>1, <1>5
  <2>2. s # {} => h[s \ {AnyOf(s)}] = g[s \ {AnyOf(s)}]
    OBVIOUS
  <2> QED
    BY <2>1, <2>2 DEF Step
<1>7. h = [s \in SUBSET D |-> Step(f, h, s)]
  BY <1>6
<1> QED
  BY <1>7

Sums(f, D) == CHOOSE g : g = [s \in SUBSET D |-> Step(f, g, s)]

LEMMA SumIsFold ==
  ASSUME NEW f, NEW D
  PROVE SumFunctionOnSet(f, D) = Sums(f, D)[D]
BY DEF SumFunctionOnSet, FoldFunctionOnSet, MapThenFoldSet, Sums, Step, AnyOf

\* Which function it is does not depend on the domain.
LEMMA SumsAgree ==
  ASSUME NEW f, NEW D, IsFiniteSet(D), NEW S \in SUBSET D
  PROVE  Sums(f, S)[S] = Sums(f, D)[S]
<1> DEFINE g == Sums(f, S)
           h == Sums(f, D)
           P == {n \in Nat : \A s \in SUBSET S : Cardinality(s) = n => g[s] = h[s]}
<1>1. IsFiniteSet(S)
  BY FS_Subset
<1>2. g = [s \in SUBSET S |-> Step(f, g, s)]
  BY <1>1, SumsExist DEF Sums
<1>3. h = [s \in SUBSET D |-> Step(f, h, s)]
  BY SumsExist DEF Sums
<1> HIDE DEF g, h
<1>4. \A s \in SUBSET S : IsFiniteSet(s) /\ Cardinality(s) \in Nat
  BY <1>1, FS_Subset, FS_CardinalityType
<1>5. \A s \in SUBSET S : g[s] = Step(f, g, s) /\ h[s] = Step(f, h, s)
  BY <1>2, <1>3
<1>6. 0 \in P
  <2>1. \A s \in SUBSET S : Cardinality(s) = 0 => s = {}
    BY <1>4, FS_EmptySet
  <2> QED
    BY <1>5, <2>1 DEF Step
<1>7. ASSUME NEW n \in Nat, n \in P PROVE n + 1 \in P
  <2>1. ASSUME NEW s \in SUBSET S, Cardinality(s) = n + 1 PROVE g[s] = h[s]
    <3>1. s # {}
      BY <2>1, FS_EmptySet
    <3>2. s \ {AnyOf(s)} \in SUBSET S /\ Cardinality(s \ {AnyOf(s)}) = n
      BY <1>4, <2>1, <3>1, Smaller
    <3>3. g[s \ {AnyOf(s)}] = h[s \ {AnyOf(s)}]
      BY <1>7, <3>2
    <3> QED
      BY <1>5, <3>3 DEF Step
  <2> QED
    BY <2>1
<1> HIDE DEF P
<1>8. Cardinality(S) \in P
  BY <1>1, <1>6, <1>7, SetInduction, FS_CardinalityType
<1> QED
  BY <1>8 DEF P, g, h

Sum(f, S) == SumFunctionOnSet(f, S)

LEMMA SumEmpty == ASSUME NEW f PROVE Sum(f, {}) = 0
<1>1. Sums(f, {}) = [s \in SUBSET {} |-> Step(f, Sums(f, {}), s)]
  BY FS_EmptySet, SumsExist DEF Sums
<1> QED
  BY <1>1, SumIsFold DEF Sum, Step

\* What is chosen first comes off the sum; that it may be any element is next.
LEMMA SumFirst ==
  ASSUME NEW f, NEW S, IsFiniteSet(S), S # {}
  PROVE  Sum(f, S) = f[AnyOf(S)] + Sum(f, S \ {AnyOf(S)})
<1>1. Sums(f, S) = [s \in SUBSET S |-> Step(f, Sums(f, S), s)]
  BY SumsExist DEF Sums
<1>2. Sums(f, S)[S] = f[AnyOf(S)] + Sums(f, S)[S \ {AnyOf(S)}]
  <2> DEFINE g == Sums(f, S)
  <2> HIDE DEF g
  <2>1. g = [s \in SUBSET S |-> Step(f, g, s)]
    BY <1>1 DEF g
  <2>2. g[S] = f[AnyOf(S)] + g[S \ {AnyOf(S)}]
    BY <2>1 DEF Step
  <2> QED
    BY <2>2 DEF g
<1>3. Sums(f, S)[S \ {AnyOf(S)}] = Sums(f, S \ {AnyOf(S)})[S \ {AnyOf(S)}]
  BY SumsAgree
<1> QED
  BY <1>2, <1>3, SumIsFold DEF Sum

LEMMA SumType ==
  ASSUME NEW f, NEW S, IsFiniteSet(S), \A x \in S : f[x] \in Int
  PROVE  Sum(f, S) \in Int
<1> DEFINE P == {n \in Nat : \A s \in SUBSET S : Cardinality(s) = n => Sum(f, s) \in Int}
<1>1. \A s \in SUBSET S : IsFiniteSet(s) /\ Cardinality(s) \in Nat
  BY FS_Subset, FS_CardinalityType
<1>2. 0 \in P
  <2>1. \A s \in SUBSET S : Cardinality(s) = 0 => s = {}
    BY <1>1, FS_EmptySet
  <2> QED
    BY <2>1, SumEmpty
<1>3. ASSUME NEW n \in Nat, n \in P PROVE n + 1 \in P
  <2>1. ASSUME NEW s \in SUBSET S, Cardinality(s) = n + 1 PROVE Sum(f, s) \in Int
    <3>1. s # {}
      BY <2>1, FS_EmptySet
    <3>2. s \ {AnyOf(s)} \in SUBSET S /\ Cardinality(s \ {AnyOf(s)}) = n /\ AnyOf(s) \in S
      BY <1>1, <2>1, <3>1, Smaller
    <3>3. Sum(f, s \ {AnyOf(s)}) \in Int
      BY <1>3, <3>2
    <3>4. Sum(f, s) = f[AnyOf(s)] + Sum(f, s \ {AnyOf(s)})
      BY <1>1, <3>1, SumFirst
    <3> QED
      BY <3>2, <3>3, <3>4
  <2> QED
    BY <2>1
<1> HIDE DEF P
<1>4. Cardinality(S) \in P
  BY <1>1, <1>2, <1>3, SetInduction
<1> QED
  BY <1>4 DEF P

LEMMA SumTake ==
  ASSUME NEW f, NEW S, IsFiniteSet(S), \A x \in S : f[x] \in Int, NEW x \in S
  PROVE  Sum(f, S) = f[x] + Sum(f, S \ {x})
<1> DEFINE Takes(s) == \A y \in s : Sum(f, s) = f[y] + Sum(f, s \ {y})
           P == {n \in Nat : \A s \in SUBSET S : Cardinality(s) = n => Takes(s)}
<1>1. \A s \in SUBSET S : IsFiniteSet(s) /\ Cardinality(s) \in Nat /\ Sum(f, s) \in Int
  BY FS_Subset, FS_CardinalityType, SumType
<1>2. 0 \in P
  BY <1>1, FS_EmptySet
<1>3. ASSUME NEW n \in Nat, n \in P PROVE n + 1 \in P
  <2>1. ASSUME NEW s \in SUBSET S, Cardinality(s) = n + 1, NEW y \in s
        PROVE  Sum(f, s) = f[y] + Sum(f, s \ {y})
    <3> DEFINE a == AnyOf(s)
    <3>1. /\ a \in s /\ s \ {a} \in SUBSET S /\ Cardinality(s \ {a}) = n
          /\ Sum(f, s) = f[a] + Sum(f, s \ {a})
      <4>1. s # {} /\ IsFiniteSet(s)
        BY <1>1, <2>1
      <4>2. a \in s /\ Cardinality(s \ {a}) = n
        BY <2>1, <4>1, Smaller
      <4>3. Sum(f, s) = f[a] + Sum(f, s \ {a})
        BY <4>1, SumFirst
      <4> QED
        BY <4>2, <4>3
    <3> HIDE DEF a
    <3>2. CASE y = a
      BY <3>1, <3>2
    <3>3. CASE y # a
      <4>1. Sum(f, s \ {a}) = f[y] + Sum(f, (s \ {a}) \ {y})
        BY <1>3, <3>1, <3>3
      <4>2. Cardinality(s \ {y}) = n /\ s \ {y} \in SUBSET S /\ a \in s \ {y}
        BY <1>1, <2>1, <3>1, <3>3, FS_RemoveElement
      <4>3. Sum(f, s \ {y}) = f[a] + Sum(f, (s \ {y}) \ {a})
        BY <1>3, <4>2
      <4>4. (s \ {a}) \ {y} = (s \ {y}) \ {a} /\ (s \ {y}) \ {a} \in SUBSET S
        OBVIOUS
      <4>5. Sum(f, (s \ {y}) \ {a}) \in Int /\ f[a] \in Int /\ f[y] \in Int
        BY <1>1, <3>1, <4>4
      <4>6. PICK rest : rest = Sum(f, (s \ {y}) \ {a})
        OBVIOUS
      <4>7. Sum(f, s \ {a}) = f[y] + rest /\ Sum(f, s \ {y}) = f[a] + rest
        BY <4>1, <4>3, <4>4, <4>6
      <4> QED
        BY <3>1, <4>5, <4>6, <4>7
    <3> QED
      BY <3>2, <3>3
  <2> QED
    BY <2>1
<1> HIDE DEF P
<1>4. Cardinality(S) \in P
  BY <1>1, <1>2, <1>3, SetInduction
<1> QED
  BY <1>4 DEF P

\* Sums of larger numbers are larger.
LEMMA SumLeq ==
  ASSUME NEW f, NEW g, NEW S, IsFiniteSet(S), \A x \in S : f[x] \in Int /\ g[x] \in Int /\ f[x] <= g[x]
  PROVE  Sum(f, S) <= Sum(g, S)
<1> DEFINE P == {n \in Nat : \A s \in SUBSET S : Cardinality(s) = n => Sum(f, s) <= Sum(g, s)}
<1>1. \A s \in SUBSET S : /\ IsFiniteSet(s) /\ Cardinality(s) \in Nat
                          /\ Sum(f, s) \in Int /\ Sum(g, s) \in Int
  BY FS_Subset, FS_CardinalityType, SumType
<1>2. 0 \in P
  <2>1. \A s \in SUBSET S : Cardinality(s) = 0 => s = {}
    BY <1>1, FS_EmptySet
  <2> QED
    BY <2>1, SumEmpty
<1>3. ASSUME NEW n \in Nat, n \in P PROVE n + 1 \in P
  <2>1. ASSUME NEW s \in SUBSET S, Cardinality(s) = n + 1 PROVE Sum(f, s) <= Sum(g, s)
    <3>1. s # {}
      BY <2>1, FS_EmptySet
    <3>2. PICK a : a \in s /\ s \ {a} \in SUBSET S /\ Cardinality(s \ {a}) = n
      BY <1>1, <2>1, <3>1, Smaller
    <3>3. Sum(f, s) = f[a] + Sum(f, s \ {a}) /\ Sum(g, s) = g[a] + Sum(g, s \ {a})
      BY <1>1, <3>2, SumTake
    <3>4. Sum(f, s \ {a}) <= Sum(g, s \ {a})
      BY <1>3, <3>2
    <3> QED
      BY <1>1, <3>2, <3>3, <3>4
  <2> QED
    BY <2>1
<1> HIDE DEF P
<1>4. Cardinality(S) \in P
  BY <1>1, <1>2, <1>3, SetInduction
<1> QED
  BY <1>4 DEF P

LEMMA SumEqual ==
  ASSUME NEW f, NEW g, NEW S, IsFiniteSet(S), \A x \in S : f[x] \in Int /\ g[x] = f[x]
  PROVE  Sum(f, S) = Sum(g, S)
<1>1. Sum(f, S) <= Sum(g, S) /\ Sum(g, S) <= Sum(f, S) /\ Sum(f, S) \in Int /\ Sum(g, S) \in Int
  BY SumLeq, SumType
<1> QED
  BY <1>1

LEMMA SumOne ==
  ASSUME NEW f, NEW g, NEW S, IsFiniteSet(S), NEW a \in S, \A x \in S : f[x] \in Int,
         \A x \in S \ {a} : g[x] = f[x], g[a] = f[a] + 1
  PROVE  Sum(g, S) = Sum(f, S) + 1
<1>1. IsFiniteSet(S \ {a})
  BY FS_RemoveElement
<1>2. Sum(f, S) = f[a] + Sum(f, S \ {a}) /\ Sum(g, S) = g[a] + Sum(g, S \ {a})
  BY SumTake
<1>3. Sum(f, S \ {a}) = Sum(g, S \ {a}) /\ Sum(f, S \ {a}) \in Int
  BY <1>1, SumEqual, SumType
<1> QED
  BY <1>2, <1>3

Counts(R, k, S) == [m \in S |-> Cardinality({r \in R : k[r] = m})]

\* Counting by kinds leaves nothing out.
LEMMA SumOfCounts ==
  ASSUME NEW R, NEW S, NEW k, IsFiniteSet(R), IsFiniteSet(S), \A r \in R : k[r] \in S
  PROVE  Sum(Counts(R, k, S), S) = Cardinality(R)
<1> DEFINE P == {n \in Nat : \A T \in SUBSET R : Cardinality(T) = n => Sum(Counts(T, k, S), S) = n}
<1>1. \A T \in SUBSET R : IsFiniteSet(T) /\ Cardinality(T) \in Nat
  BY FS_Subset, FS_CardinalityType
<1>2. \A T \in SUBSET R : \A m \in S : IsFiniteSet({r \in T : k[r] = m}) /\ Counts(T, k, S)[m] \in Int
  <2> TAKE T \in SUBSET R
  <2> TAKE m \in S
  <2>1. {r \in T : k[r] = m} \in SUBSET R
    OBVIOUS
  <2> QED
    BY <1>1, <2>1 DEF Counts
<1>3. 0 \in P
  <2>1. ASSUME NEW T \in SUBSET R, Cardinality(T) = 0 PROVE Sum(Counts(T, k, S), S) = 0
    <3>1. T = {}
      BY <1>1, <2>1, FS_EmptySet
    <3>2. \A m \in S : Counts(T, k, S)[m] = 0
      BY <3>1, FS_EmptySet DEF Counts
    <3> DEFINE Zeros == {n \in Nat : \A s \in SUBSET S : Cardinality(s) = n => Sum(Counts(T, k, S), s) = 0}
    <3>3. \A s \in SUBSET S : IsFiniteSet(s) /\ Cardinality(s) \in Nat
      BY FS_Subset, FS_CardinalityType
    <3>4. 0 \in Zeros
      BY <3>3, FS_EmptySet, SumEmpty
    <3>5. ASSUME NEW n \in Nat, n \in Zeros PROVE n + 1 \in Zeros
      <4>1. ASSUME NEW s \in SUBSET S, Cardinality(s) = n + 1 PROVE Sum(Counts(T, k, S), s) = 0
        <5>1. s # {}
          BY <4>1, FS_EmptySet
        <5>2. s \ {AnyOf(s)} \in SUBSET S /\ Cardinality(s \ {AnyOf(s)}) = n /\ AnyOf(s) \in S
          BY <3>3, <4>1, <5>1, Smaller
        <5> QED
          BY <3>2, <3>3, <3>5, <5>1, <5>2, SumFirst
      <4> QED
        BY <4>1
    <3> HIDE DEF Zeros
    <3>6. Cardinality(S) \in Zeros
      BY <3>3, <3>4, <3>5, SetInduction
    <3> QED
      BY <3>6 DEF Zeros
  <2> QED
    BY <2>1
<1>4. ASSUME NEW n \in Nat, n \in P PROVE n + 1 \in P
  <2>1. ASSUME NEW T \in SUBSET R, Cardinality(T) = n + 1 PROVE Sum(Counts(T, k, S), S) = n + 1
    <3>1. T # {}
      BY <2>1, FS_EmptySet
    <3>2. PICK a : a \in T /\ T \ {a} \in SUBSET R /\ Cardinality(T \ {a}) = n
      BY <1>1, <2>1, <3>1, Smaller
    <3>3. Sum(Counts(T \ {a}, k, S), S) = n
      BY <1>4, <3>2
    <3>4. \A m \in S \ {k[a]} : {r \in T : k[r] = m} = {r \in T \ {a} : k[r] = m}
      OBVIOUS
    <3>5. /\ {r \in T \ {a} : k[r] = k[a]} = {r \in T : k[r] = k[a]} \ {a}
          /\ a \in {r \in T : k[r] = k[a]}
      BY <3>2
    <3>6. k[a] \in S
      BY <3>2
    <3>7. Counts(T, k, S)[k[a]] = Counts(T \ {a}, k, S)[k[a]] + 1
      <4>1. IsFiniteSet({r \in T : k[r] = k[a]})
        BY <1>2, <3>6
      <4>2. /\ Cardinality({r \in T : k[r] = k[a]}) \in Nat
            /\ Cardinality({r \in T : k[r] = k[a]} \ {a}) = Cardinality({r \in T : k[r] = k[a]}) - 1
        BY <3>5, <4>1, FS_RemoveElement, FS_CardinalityType
      <4> QED
        BY <3>5, <3>6, <4>2 DEF Counts
    <3>8. \A m \in S \ {k[a]} : Counts(T, k, S)[m] = Counts(T \ {a}, k, S)[m]
      BY <3>4 DEF Counts
    <3>9. \A m \in S : Counts(T \ {a}, k, S)[m] \in Int
      BY <1>2, <3>2
    <3> QED
      BY <3>3, <3>6, <3>7, <3>8, <3>9, SumOne
  <2> QED
    BY <2>1
<1> HIDE DEF P
<1>5. Cardinality(R) \in P
  BY <1>1, <1>3, <1>4, SetInduction
<1> QED
  BY <1>5 DEF P
------------------------------------------------------------------------------
(* Sequences *)

\* The recursion of FlattenSeq defines a function.
Flat(f, ss, i) == IF i = 1 THEN ss[i] ELSE f[i - 1] \o ss[i]
Flats(ss) == CHOOSE f : f = [i \in 1..Len(ss) |-> Flat(f, ss, i)]

LEMMA FlatLater ==
  ASSUME NEW f, NEW ss, NEW k \in Nat, k # 0, NEW n, n = k + 1
  PROVE  Flat(f, ss, n) = f[k] \o ss[n]
<1>1. n # 1 /\ n - 1 = k
  OBVIOUS
<1>2. Flat(f, ss, n) = f[n - 1] \o ss[n]
  BY <1>1 DEF Flat
<1> QED
  BY <1>1, <1>2

LEMMA FlatsExist ==
  ASSUME NEW ss, NEW n \in Nat
  PROVE  \E f : f = [i \in 1..n |-> Flat(f, ss, i)]
<1> DEFINE P == {m \in Nat : \E f : \A i \in 1..m : f[i] = Flat(f, ss, i)}
<1>1. 0 \in P
  OBVIOUS
<1>2. ASSUME NEW m \in Nat, m \in P PROVE m + 1 \in P
  <2>1. PICK f : \A i \in 1..m : f[i] = Flat(f, ss, i)
    BY <1>2
  <2> DEFINE g == [i \in 1..(m + 1) |-> IF i = m + 1 THEN Flat(f, ss, i) ELSE f[i]]
  <2>2. ASSUME NEW i \in 1..(m + 1) PROVE g[i] = Flat(g, ss, i)
    <3>1. g[i] = Flat(f, ss, i)
      BY <2>1
    <3>2. i # 1 => g[i - 1] = f[i - 1]
      OBVIOUS
    <3> QED
      BY <3>1, <3>2 DEF Flat
  <2>3. \E h : \A i \in 1..(m + 1) : h[i] = Flat(h, ss, i)
    <3> HIDE DEF g
    <3> QED
      BY <2>2
  <2> QED
    BY <2>3
<1> HIDE DEF P
<1>3. n \in P
  BY <1>1, <1>2, SetInduction
<1>4. PICK f : \A i \in 1..n : f[i] = Flat(f, ss, i)
  BY <1>3 DEF P
<1> DEFINE g == [i \in 1..n |-> f[i]]
<1>5. ASSUME NEW i \in 1..n PROVE g[i] = Flat(g, ss, i)
  <2>1. i # 1 => g[i - 1] = f[i - 1]
    OBVIOUS
  <2> QED
    BY <1>4, <2>1 DEF Flat
<1>6. g = [i \in 1..n |-> Flat(g, ss, i)]
  BY <1>5
<1> QED
  BY <1>6

\* The elements of the first m sequences of ss.
Within(ss, m) == UNION {Range(ss[i]) : i \in 1..m}

LEMMA FlatsRange ==
  ASSUME NEW S, NEW ss \in Seq(Seq(S)), NEW f, \A i \in 1..Len(ss) : f[i] = Flat(f, ss, i),
         NEW m \in 1..Len(ss)
  PROVE  f[m] \in Seq(S) /\ Range(f[m]) = Within(ss, m)
<1> DEFINE Below(k) == UNION {Range(ss[i]) : i \in 1..k}
           P == {k \in Nat : k \in 1..Len(ss) => f[k] \in Seq(S) /\ Range(f[k]) = Below(k)}
<1>1. Len(ss) \in Nat /\ \A i \in 1..Len(ss) : ss[i] \in Seq(S)
  OBVIOUS
<1>2. 0 \in P
  <2>1. 0 \notin 1..Len(ss)
    OBVIOUS
  <2> QED
    BY <2>1
<1>3. ASSUME NEW k \in Nat, k \in P PROVE k + 1 \in P
  <2>1. ASSUME k + 1 \in 1..Len(ss) PROVE f[k + 1] \in Seq(S) /\ Range(f[k + 1]) = Below(k + 1)
    <3>1. ss[k + 1] \in Seq(S) /\ f[k + 1] = Flat(f, ss, k + 1)
      BY <1>1, <2>1
    <3>2. CASE k = 0
      <4>1. 1..1 = {1} /\ k + 1 = 1
        BY <3>2
      <4>2. f[1] = ss[1]
        BY <3>1, <4>1 DEF Flat
      <4>3. Below(1) = Range(ss[1])
        BY <4>1
      <4> QED
        BY <3>1, <4>1, <4>2, <4>3
    <3>3. CASE k # 0
      <4>1. k \in 1..Len(ss) /\ k + 1 # 1 /\ k + 1 - 1 = k /\ 1..(k + 1) = 1..k \cup {k + 1}
        BY <1>1, <2>1, <3>3
      <4>2. f[k] \in Seq(S) /\ Range(f[k]) = Below(k)
        BY <1>3, <4>1
      <4>3. f[k + 1] = f[k] \o ss[k + 1]
        <5>1. Flat(f, ss, k + 1) = f[k] \o ss[k + 1]
          BY <3>3, FlatLater
        <5> QED
          BY <3>1, <5>1
      <4>4. /\ f[k] \o ss[k + 1] \in Seq(S)
            /\ Range(f[k] \o ss[k + 1]) = Range(f[k]) \cup Range(ss[k + 1])
        BY <3>1, <4>2, RangeConcatenation, ConcatProperties
      <4>5. Below(k + 1) = Below(k) \cup Range(ss[k + 1])
        BY <4>1
      <4> HIDE DEF Below
      <4> QED
        BY <4>2, <4>3, <4>4, <4>5
    <3> QED
      BY <3>2, <3>3
  <2> QED
    BY <2>1
<1> HIDE DEF P
<1>4. m \in Nat /\ m \in P
  <2>1. \A n \in Nat : n \in P
    BY <1>2, <1>3, SetInduction
  <2>2. m \in Nat
    BY <1>1
  <2> QED
    BY <2>1, <2>2
<1>5. f[m] \in Seq(S) /\ Range(f[m]) = Below(m)
  <2> HIDE DEF Below
  <2> QED
    BY <1>4 DEF P
<1> QED
  BY <1>5 DEF Within

\* Flattening keeps all elements and adds none.
LEMMA FlattenRange ==
  ASSUME NEW S, NEW ss \in Seq(Seq(S))
  PROVE  /\ FlattenSeq(ss) \in Seq(S)
         /\ Range(FlattenSeq(ss)) = UNION {Range(ss[i]) : i \in DOMAIN ss}
<1>1. Len(ss) \in Nat /\ DOMAIN ss = 1..Len(ss)
  OBVIOUS
<1>2. CASE Len(ss) = 0
  <2>1. ss = <<>> /\ FlattenSeq(ss) = ss
    BY <1>2 DEF FlattenSeq
  <2>2. Range(<<>>) = {} /\ <<>> \in Seq(S) /\ DOMAIN <<>> = {}
    BY DEF Range
  <2>3. FlattenSeq(ss) = <<>> /\ UNION {Range(ss[i]) : i \in DOMAIN ss} = {}
    BY <2>1, <2>2
  <2> QED
    BY <2>2, <2>3
<1>3. CASE Len(ss) # 0
  <2>1. FlattenSeq(ss) = Flats(ss)[Len(ss)]
    BY <1>3 DEF FlattenSeq, Flats, Flat
  <2>2. Flats(ss) = [i \in 1..Len(ss) |-> Flat(Flats(ss), ss, i)]
    BY <1>1, FlatsExist DEF Flats
  <2>3. \A i \in 1..Len(ss) : Flats(ss)[i] = Flat(Flats(ss), ss, i)
    <3> DEFINE f == Flats(ss)
    <3> HIDE DEF f
    <3>1. f = [i \in 1..Len(ss) |-> Flat(f, ss, i)]
      BY <2>2 DEF f
    <3>2. \A i \in 1..Len(ss) : f[i] = Flat(f, ss, i)
      BY <3>1
    <3> QED
      BY <3>2 DEF f
  <2>4. Len(ss) \in 1..Len(ss)
    BY <1>1, <1>3
  <2>5. /\ Flats(ss)[Len(ss)] \in Seq(S)
        /\ Range(Flats(ss)[Len(ss)]) = UNION {Range(ss[i]) : i \in 1..Len(ss)}
    <3>1. PICK f : f = Flats(ss)
      OBVIOUS
    <3>2. \A i \in 1..Len(ss) : f[i] = Flat(f, ss, i)
      BY <2>3, <3>1
    <3>3. PICK n : n = Len(ss) /\ n \in 1..Len(ss)
      BY <2>4
    <3>4. f[n] \in Seq(S) /\ Range(f[n]) = Within(ss, n)
      BY <3>2, <3>3, FlatsRange
    <3> QED
      BY <3>1, <3>3, <3>4 DEF Within
  <2>6. FlattenSeq(ss) \in Seq(S) /\ Range(FlattenSeq(ss)) = UNION {Range(ss[i]) : i \in 1..Len(ss)}
    BY <2>1, <2>5
  <2>7. {Range(ss[i]) : i \in 1..Len(ss)} = {Range(ss[i]) : i \in DOMAIN ss}
    BY <1>1
  <2> QED
    BY <2>6, <2>7
<1> QED
  BY <1>2, <1>3

\* What is left of a sequence of groups when an element of its first one has gone.
Left(a, q) == Head(a) \ {q}
Rest(a, q) == IF Left(a, q) = {} THEN Tail(a) ELSE <<Left(a, q)>> \o Tail(a)

LEMMA RestRange ==
  ASSUME NEW S, NEW a \in Seq(SUBSET S), a # <<>>, NEW q \in Head(a)
  PROVE  /\ q \in S /\ q \in UNION Range(a)
         /\ Rest(a, q) \in Seq(SUBSET S)
         /\ (UNION Range(a)) \ {q} \subseteq UNION Range(Rest(a, q))
         /\ UNION Range(Rest(a, q)) \subseteq UNION Range(a)
<1>1. /\ Head(a) \in SUBSET S /\ Tail(a) \in Seq(SUBSET S) /\ Len(Tail(a)) = Len(a) - 1
      /\ \A i \in 1..Len(Tail(a)) : Tail(a)[i] = a[i + 1]
  BY HeadTailProperties
<1>2. Range(a) = {Head(a)} \cup Range(Tail(a))
  <2>1. Range(a) = {a[i] : i \in 1..Len(a)} /\ Range(Tail(a)) = {Tail(a)[i] : i \in 1..Len(Tail(a))}
    BY <1>1, RangeEquality
  <2>2. Len(a) \in Nat /\ Len(a) # 0 /\ Head(a) = a[1]
    OBVIOUS
  <2>3. \A i \in 1..Len(a) : a[i] \in {Head(a)} \cup Range(Tail(a))
    <3> SUFFICES ASSUME NEW i \in 1..Len(a), i # 1 PROVE a[i] \in Range(Tail(a))
      BY <2>2
    <3>1. i - 1 \in 1..Len(Tail(a)) /\ i - 1 + 1 = i
      BY <1>1, <2>2
    <3> QED
      BY <1>1, <2>1, <3>1
  <2>4. \A i \in 1..Len(Tail(a)) : Tail(a)[i] \in Range(a)
    <3> TAKE i \in 1..Len(Tail(a))
    <3>1. i + 1 \in 1..Len(a)
      BY <1>1, <2>2
    <3> QED
      BY <1>1, <2>1, <3>1
  <2> QED
    BY <2>1, <2>2, <2>3, <2>4
<1>3. Left(a, q) \in SUBSET S
  BY <1>1 DEF Left
<1>4. CASE Left(a, q) = {}
  BY <1>1, <1>2, <1>4 DEF Rest, Left
<1>5. CASE Left(a, q) # {}
  <2>1. <<Left(a, q)>> \in Seq(SUBSET S) /\ Range(<<Left(a, q)>>) = {Left(a, q)}
    BY <1>3 DEF Range
  <2>2. /\ Rest(a, q) \in Seq(SUBSET S)
        /\ Range(Rest(a, q)) = {Left(a, q)} \cup Range(Tail(a))
    <3>1. /\ <<Left(a, q)>> \o Tail(a) \in Seq(SUBSET S)
          /\ Range(<<Left(a, q)>> \o Tail(a)) = Range(<<Left(a, q)>>) \cup Range(Tail(a))
      BY <1>1, <2>1, ConcatProperties, RangeConcatenation
    <3>2. Rest(a, q) = <<Left(a, q)>> \o Tail(a)
      BY <1>5 DEF Rest
    <3> QED
      BY <2>1, <3>1, <3>2
  <2> QED
    BY <1>1, <1>2, <2>2 DEF Left
<1> QED
  BY <1>4, <1>5

\* The places of a sequence that are in a set have a last one.
LEMMA LastPlace ==
  ASSUME NEW n \in Nat, NEW S \in SUBSET (1..n), S # {}
  PROVE  Max(S) \in S
<1> DEFINE P == {m \in Nat : \A T \in SUBSET (1..m) : T # {} => \E x \in T : \A y \in T : x >= y}
<1>1. 0 \in P
  <2>1. 1..0 = {}
    OBVIOUS
  <2>2. \A T \in SUBSET (1..0) : T = {}
    BY <2>1
  <2> QED
    BY <2>2
<1>2. ASSUME NEW m \in Nat, m \in P PROVE m + 1 \in P
  <2>1. ASSUME NEW T \in SUBSET (1..(m + 1)), T # {} PROVE \E x \in T : \A y \in T : x >= y
    <3>1. CASE m + 1 \in T
      BY <2>1, <3>1
    <3>2. CASE m + 1 \notin T
      <4>1. T \in SUBSET (1..m)
        BY <2>1, <3>2
      <4> QED
        BY <1>2, <2>1, <4>1
    <3> QED
      BY <3>1, <3>2
  <2> QED
    BY <2>1
<1> HIDE DEF P
<1>3. n \in P
  BY <1>1, <1>2, SetInduction
<1>4. \E x \in S : \A y \in S : x >= y
  BY <1>3 DEF P
<1> QED
  BY <1>4 DEF Max
------------------------------------------------------------------------------
(* The invariant *)

Places == {"all"} \cup TeamSet
Statuses == Outcomes \cup {"null"}
LogRow == [team : TeamSet, student : Students, status : Statuses, due : {"arrival", "outcome", "none"}]
Queries == {Q(w) : w \in {"list", "teams", "students", "total", "failed", "active", "byStudent", "health"}}
           \cup {QT(w, t) : w \in {"members", "total", "byMethod", "byStatus"}, t \in TeamSet}

\* What the databases promise: a row's team exists, and its student is a member.
Tables ==
  /\ teams \subseteq TeamSet /\ members \in [TeamSet -> SUBSET Students]
  /\ log \in [Requests -> {NoRow} \cup LogRow]
  /\ \A r \in Logged : log[r].team \in teams /\ log[r].student \in members[log[r].team]
  /\ \A t \in TeamSet : members[t] # {} => t \in teams
  /\ since \in [new : 0..MaxChanges, other : 0..MaxChanges]

Pending(k) == UNION Range(ahead[k])
Answered(k) == DOMAIN got[k]
Either(k) == Pending(k) \cup Answered(k)

Pages ==
  /\ page \in {"none", "overview", "detail", "csv"}
  /\ ahead \in [Tasks -> Seq(SUBSET Queries)]
  /\ got = [k \in Tasks |-> got[k]] /\ \A k \in Tasks : Answered(k) \subseteq Queries
  /\ page = "none" => \A k \in Tasks : ahead[k] = <<>> /\ got[k] = NoAnswers

\* The overview asks all it shows, and the health check nothing more.
OverviewAsks ==
  /\ Pending("overview") \cup Pending("detail") \subseteq
       {Q(w) : w \in {"teams", "students", "total", "failed", "active", "health"}}
  /\ Asked("overview") => {Q("teams"), Q("total"), Q("failed"), Q("active")} \subseteq Either("overview")

\* The teams' numbers are asked for each team that is listed.
TeamsAsk ==
  \/ Answered("teams") = {} /\ ahead["teams"] \in {<<>>, <<{Q("list")}>>}
  \/ /\ Q("list") \in Answered("teams") /\ Q("list") \notin Pending("teams")
     /\ \A t \in Shown("teams", Q("list")) : \A w \in {"total", "byMethod", "byStatus"} :
          QT(w, t) \in Either("teams")

\* The students come before the teams, and the teams before their members.
StudentsAsk ==
  \/ Answered("students") = {} /\ ahead["students"] \in {<<>>, StudentGroups}
  \/ Answered("students") = {Q("byStudent")} /\ ahead["students"] = <<{Q("list")}>>
  \/ /\ {Q("byStudent"), Q("list")} \subseteq Answered("students")
     /\ Pending("students") \subseteq {QT("members", t) : t \in TeamSet}
     /\ \A t \in Shown("students", Q("list")) : QT("members", t) \in Either("students")

\* A student's requests came before the teams were listed and his team read.
CameFirst(r, s) ==
  /\ log[r].student = s
  /\ Q("list") \in Answered("students") => log[r].team \in Shown("students", Q("list"))
  /\ QT("members", log[r].team) \in Answered("students") => s \in Shown("students", QT("members", log[r].team))
StudentsCameFirst ==
  Q("byStudent") \in Answered("students") =>
    \A s \in DOMAIN Shown("students", Q("byStudent")) : \E r \in Logged : CameFirst(r, s)

\* What an answer tells, when the rows old and the teams early were there as the
\* page was asked: a number of rows lies between those and the present ones.
Size(t) == Cardinality(RowsOf(t))
Tells(old, n, t) == n \in Int /\ Cardinality(old \cap RowsOf(t)) <= n /\ n <= Size(t)
Requested(v) == [s \in DOMAIN v |-> v[s].requests]
True(old, early, q, v) ==
  /\ q.what = "list" => early \subseteq v /\ v \subseteq teams
  /\ q.what = "members" => v \subseteq members[q.team]
  /\ q.what = "teams" => v \in Int /\ Cardinality(early) <= v
  /\ q.what = "total" => Tells(old, v, q.team)
  /\ q.what = "failed" => v \in Int /\ v <= Size("all")
  /\ q.what = "active" => v \in Int /\ v <= Size("all") /\ v <= Cardinality(teams)
  /\ q.what \in {"byMethod", "byStatus"} => Tells(old, SumFunction(v), q.team)
  /\ q.what = "byStudent" => Tells(old, SumFunction(Requested(v)), "all")

Before(old, early) ==
  /\ old \subseteq Logged /\ early \subseteq teams /\ \A r \in old : log[r].team \in early
  /\ Cardinality(Logged) <= Cardinality(old) + since.new
  /\ Cardinality(teams) <= Cardinality(early) + since.new
AllTrue(old, early) == \A k \in Tasks : \A q \in Answered(k) : True(old, early, q, Shown(k, q))
Dated == page # "none" => \E old \in SUBSET Requests, early \in SUBSET TeamSet :
                            Before(old, early) /\ AllTrue(old, early)

Asks == OverviewAsks /\ TeamsAsk /\ StudentsAsk
DashboardInv == Tables /\ Pages /\ Asks /\ StudentsCameFirst /\ Dated
------------------------------------------------------------------------------
(* The tables grow *)

LEMMA Image ==
  ASSUME NEW S, IsFiniteSet(S), NEW f
  PROVE  /\ IsFiniteSet({f[x] : x \in S}) /\ Cardinality({f[x] : x \in S}) \in Nat
         /\ Cardinality({f[x] : x \in S}) <= Cardinality(S)
<1> DEFINE g == [x \in S |-> f[x]]
<1>1. g \in Surjection(S, {f[x] : x \in S})
  BY DEF Surjection
<1> QED
  BY <1>1, FS_Surjection, FS_CardinalityType

LEMMA TeamSetFacts ==
  /\ Teams \in Seq(TeamSet) /\ DOMAIN Teams = 1..Len(Teams) /\ Len(Teams) \in Nat
  /\ TeamSet = {Teams[i] : i \in DOMAIN Teams} /\ IsFiniteSet(TeamSet)
  /\ "all" \notin TeamSet /\ "none" \notin TeamSet
<1>1. /\ Teams \in Seq(TeamSet) /\ DOMAIN Teams = 1..Len(Teams) /\ Len(Teams) \in Nat
      /\ "all" \notin TeamSet /\ "none" \notin TeamSet
  BY DashboardAssumption DEF TeamSet
<1>2. TeamSet = {Teams[i] : i \in DOMAIN Teams}
  BY DEF TeamSet, Range
<1>3. IsFiniteSet(1..Len(Teams))
  <2>1. \A n \in Nat : IsFiniteSet(1..n)
    BY FS_Interval
  <2> QED
    BY <1>1, <2>1
<1>4. IsFiniteSet({Teams[i] : i \in DOMAIN Teams})
  <2>1. IsFiniteSet(DOMAIN Teams)
    BY <1>1, <1>3
  <2> QED
    BY <2>1, Image
<1> QED
  BY <1>1, <1>2, <1>4

\* What the tables hold is finite.
LEMMA Finite ==
  /\ IsFiniteSet(Requests) /\ RowsOf("all") = Logged /\ Logged \subseteq Requests
  /\ \A t : RowsOf(t) \subseteq Logged
  /\ \A S \in SUBSET Requests : IsFiniteSet(S) /\ Cardinality(S) \in Nat
  /\ \A S \in SUBSET TeamSet : IsFiniteSet(S) /\ Cardinality(S) \in Nat
<1>1. RowsOf("all") = Logged /\ Logged \subseteq Requests /\ \A t : RowsOf(t) \subseteq Logged
  BY DEF RowsOf, Logged
<1>2. \A S \in SUBSET Requests : IsFiniteSet(S) /\ Cardinality(S) \in Nat
  BY DashboardAssumption, FS_Subset, FS_CardinalityType
<1>3. \A S \in SUBSET TeamSet : IsFiniteSet(S) /\ Cardinality(S) \in Nat
  BY TeamSetFacts, FS_Subset, FS_CardinalityType
<1> QED
  BY <1>1, <1>2, <1>3, DashboardAssumption

LEMMA SubsetLeq ==
  ASSUME NEW S, NEW T, IsFiniteSet(T), S \subseteq T
  PROVE  IsFiniteSet(S) /\ Cardinality(S) \in Nat /\ Cardinality(T) \in Nat /\ Cardinality(S) <= Cardinality(T)
BY FS_Subset, FS_CardinalityType

LEMMA LoggedRow ==
  ASSUME Tables
  PROVE  \A r \in Requests : r \in Logged <=> log[r] \in LogRow
<1> TAKE r \in Requests
<1>1. log[r] \in {NoRow} \cup LogRow
  BY DEF Tables
<1>2. NoRow \notin LogRow
  <2>1. NoRow.team = "none"
    BY DEF NoRow
  <2> QED
    BY <2>1, TeamSetFacts DEF LogRow
<1> QED
  BY <1>1, <1>2 DEF Logged

\* Rows, teams and members stay, and what comes is counted.
Grow ==
  /\ teams \subseteq teams' /\ Logged \subseteq Logged'
  /\ \A r \in Logged : log'[r].team = log[r].team /\ log'[r].student = log[r].student
  /\ \A t \in TeamSet : members[t] \subseteq members'[t]
  /\ page # "none" => /\ since.new <= since'.new
                      /\ Cardinality(Logged') <= Cardinality(Logged) + (since'.new - since.new)
                      /\ Cardinality(teams') <= Cardinality(teams) + (since'.new - since.new)
  /\ UNCHANGED pageVars

LEMMA CountsNew ==
  ASSUME Tables, NEW n \in 0..1, NEW o \in 0..1, Count(n, o)
  PROVE  /\ since' \in [new : 0..MaxChanges, other : 0..MaxChanges]
         /\ page # "none" => since'.new = since.new + n
<1>1. since.new \in 0..MaxChanges /\ since.other \in 0..MaxChanges /\ MaxChanges \in Nat
  BY DashboardAssumption DEF Tables
<1>2. CASE page = "none"
  BY <1>2 DEF Count, Tables
<1>3. CASE page # "none"
  <2>1. /\ since.new + since.other < MaxChanges
        /\ since' = [new |-> since.new + n, other |-> since.other + o]
    BY <1>3 DEF Count
  <2>2. since.new + n \in 0..MaxChanges /\ since.other + o \in 0..MaxChanges
    BY <1>1, <2>1
  <2> QED
    BY <2>1, <2>2
<1> QED
  BY <1>2, <1>3

LEMMA CreateTeamGrows ==
  ASSUME Tables, NEW t \in TeamSet, CreateTeam(t)
  PROVE  Tables' /\ Grow
<1>1. /\ teams' = teams \cup {t} /\ members' = members /\ log' = log /\ Count(1, 0) /\ UNCHANGED pageVars
      /\ t \notin teams
  BY DEF CreateTeam
<1>2. /\ since' \in [new : 0..MaxChanges, other : 0..MaxChanges]
      /\ page # "none" => since'.new = since.new + 1
  BY <1>1, CountsNew
<1>3. Logged' = Logged
  BY <1>1 DEF Logged
<1>4. teams \subseteq TeamSet /\ since.new \in Int
  BY DEF Tables
<1>5. Cardinality(teams') = Cardinality(teams) + 1 /\ Cardinality(teams) \in Nat
  BY <1>1, <1>4, Finite, FS_AddElement
<1>6. Cardinality(Logged) \in Nat
  BY Finite
<1>7. Tables'
  BY <1>1, <1>2, <1>3 DEF Tables
<1>8. page # "none" => /\ since.new <= since'.new
                       /\ Cardinality(Logged') <= Cardinality(Logged) + (since'.new - since.new)
                       /\ Cardinality(teams') <= Cardinality(teams) + (since'.new - since.new)
  BY <1>2, <1>3, <1>4, <1>5, <1>6
<1> QED
  BY <1>1, <1>3, <1>7, <1>8 DEF Grow

LEMMA AddMemberGrows ==
  ASSUME Tables, NEW t \in TeamSet, NEW s \in Students, AddMember(t, s)
  PROVE  Tables' /\ Grow
<1>1. /\ teams' = teams /\ t \in teams /\ members' = [members EXCEPT ![t] = @ \cup {s}] /\ log' = log
      /\ Count(0, 1) /\ UNCHANGED pageVars
  BY DEF AddMember, MembersWith
<1>2. /\ since' \in [new : 0..MaxChanges, other : 0..MaxChanges]
      /\ page # "none" => since'.new = since.new
  <2>1. since.new \in Int
    BY DEF Tables
  <2> QED
    BY <1>1, <2>1, CountsNew
<1>3. Logged' = Logged
  BY <1>1 DEF Logged
<1>4. /\ members' \in [TeamSet -> SUBSET Students] /\ \A u \in TeamSet : members[u] \subseteq members'[u]
      /\ \A u \in TeamSet : members'[u] # members[u] => u \in teams
  BY <1>1 DEF Tables
<1>5. since.new \in Int /\ Cardinality(Logged) \in Nat /\ Cardinality(teams) \in Nat
  BY Finite DEF Tables
<1>6. Tables'
  <2>1. \A r \in Logged : log[r].team \in TeamSet
    BY DEF Tables
  <2> QED
    BY <1>1, <1>2, <1>3, <1>4, <2>1 DEF Tables
<1>7. page # "none" => /\ since.new <= since'.new
                       /\ Cardinality(Logged') <= Cardinality(Logged) + (since'.new - since.new)
                       /\ Cardinality(teams') <= Cardinality(teams) + (since'.new - since.new)
  BY <1>1, <1>2, <1>3, <1>5
<1> QED
  BY <1>1, <1>3, <1>4, <1>6, <1>7 DEF Grow

LEMMA FirstWriteGrows ==
  ASSUME Tables, NEW r \in Requests, NEW t \in TeamSet, NEW s \in Students, FirstWrite(r, t, s)
  PROVE  Tables' /\ Grow
<1>1. PICK row \in LogRow : /\ row.team = t /\ row.student = s
                            /\ log' = [log EXCEPT ![r] = row] /\ log[r] = NoRow /\ s \in members[t]
  BY DEF FirstWrite, Row, LogRow, Statuses
<1>2. teams' = teams /\ members' = members /\ Count(1, 0) /\ UNCHANGED pageVars
  BY DEF FirstWrite
<1>3. /\ since' \in [new : 0..MaxChanges, other : 0..MaxChanges]
      /\ page # "none" => since'.new = since.new + 1
  BY <1>2, CountsNew
<1>4. log' \in [Requests -> {NoRow} \cup LogRow] /\ log'[r] = row /\ \A x \in Requests \ {r} : log'[x] = log[x]
  BY <1>1 DEF Tables
<1>5. row # NoRow
  BY <1>1, TeamSetFacts DEF NoRow
<1>6. Logged' = Logged \cup {r} /\ r \notin Logged
  BY <1>1, <1>4, <1>5 DEF Logged
<1>7. Cardinality(Logged') = Cardinality(Logged) + 1 /\ Cardinality(Logged) \in Nat
  BY <1>6, Finite, FS_AddElement
<1>8. since.new \in Int /\ Cardinality(teams) \in Nat
  BY Finite DEF Tables
<1>9. Tables'
  <2>1. t \in teams
    BY <1>1 DEF Tables
  <2>2. \A x \in Logged' : log'[x].team \in teams' /\ log'[x].student \in members'[log'[x].team]
    BY <1>1, <1>2, <1>4, <1>6, <2>1, Finite DEF Tables
  <2> QED
    BY <1>2, <1>3, <1>4, <2>2 DEF Tables
<1>10. page # "none" => /\ since.new <= since'.new
                        /\ Cardinality(Logged') <= Cardinality(Logged) + (since'.new - since.new)
                        /\ Cardinality(teams') <= Cardinality(teams) + (since'.new - since.new)
  BY <1>2, <1>3, <1>7, <1>8
<1>11. \A x \in Logged : log'[x].team = log[x].team /\ log'[x].student = log[x].student
  BY <1>4, <1>6, Finite
<1> QED
  BY <1>2, <1>6, <1>9, <1>10, <1>11 DEF Grow

LEMMA SecondWriteGrows ==
  ASSUME Tables, NEW r \in Requests, SecondWrite(r)
  PROVE  Tables' /\ Grow
<1>1. log[r].due # "none"
  BY DEF SecondWrite
<1>2. log[r] # NoRow
  BY <1>1 DEF NoRow
<1>3. r \in Logged /\ log[r] \in LogRow
  BY <1>2, LoggedRow DEF Logged
<1>4. PICK row \in LogRow : /\ row.team = log[r].team /\ row.student = log[r].student
                            /\ log' = [log EXCEPT ![r] = row]
  BY <1>3 DEF SecondWrite, Row, LogRow, Statuses
<1>5. teams' = teams /\ members' = members /\ Count(0, 1) /\ UNCHANGED pageVars
  BY DEF SecondWrite
<1>6. /\ since' \in [new : 0..MaxChanges, other : 0..MaxChanges]
      /\ page # "none" => since'.new = since.new
  <2>1. since.new \in Int
    BY DEF Tables
  <2> QED
    BY <1>5, <2>1, CountsNew
<1>7. log' \in [Requests -> {NoRow} \cup LogRow] /\ log'[r] = row /\ \A x \in Requests \ {r} : log'[x] = log[x]
  BY <1>4 DEF Tables
<1>8. row # NoRow
  <2>1. row.team \in TeamSet /\ NoRow.team = "none"
    BY DEF LogRow, NoRow
  <2> QED
    BY <2>1, TeamSetFacts
<1>9. Logged' = Logged
  BY <1>2, <1>7, <1>8 DEF Logged
<1>10. \A x \in Logged : log'[x].team = log[x].team /\ log'[x].student = log[x].student
  BY <1>4, <1>7, Finite
<1>11. since.new \in Int /\ Cardinality(teams) \in Nat /\ Cardinality(Logged) \in Nat
  BY Finite DEF Tables
<1>12. Tables'
  <2>1. \A x \in Logged' : log'[x].team \in teams' /\ log'[x].student \in members'[log'[x].team]
    BY <1>5, <1>9, <1>10 DEF Tables
  <2> QED
    BY <1>5, <1>6, <1>7, <2>1 DEF Tables
<1>13. page # "none" => /\ since.new <= since'.new
                        /\ Cardinality(Logged') <= Cardinality(Logged) + (since'.new - since.new)
                        /\ Cardinality(teams') <= Cardinality(teams) + (since'.new - since.new)
  BY <1>5, <1>6, <1>9, <1>11
<1> QED
  BY <1>5, <1>9, <1>10, <1>12, <1>13 DEF Grow

LEMMA ChangeGrows == Tables /\ Change => Tables' /\ Grow
BY CreateTeamGrows, AddMemberGrows, FirstWriteGrows, SecondWriteGrows DEF Change
------------------------------------------------------------------------------
(* Answers *)

LEMMA RowsFinite ==
  ASSUME NEW t
  PROVE  RowsOf(t) \subseteq Requests /\ IsFiniteSet(RowsOf(t)) /\ Size(t) \in Nat
BY Finite DEF Size

\* A number of rows just counted.
LEMMA CountedNow ==
  ASSUME NEW old, NEW t, NEW n, n = Size(t)
  PROVE  Tells(old, n, t)
<1>1. Cardinality(old \cap RowsOf(t)) <= Size(t) /\ Size(t) \in Nat
  BY RowsFinite, SubsetLeq DEF Size
<1> QED
  BY <1>1 DEF Tells

LEMMA SumFunctionIs == ASSUME NEW f PROVE SumFunction(f) = Sum(f, DOMAIN f)
BY DEF SumFunction, Sum

\* Grouped counts add up to the rows.
LEMMA GroupsAdd ==
  ASSUME NEW R \in SUBSET Requests, NEW S, IsFiniteSet(S), NEW k, \A r \in R : k[r] \in S,
         NEW f, f = [m \in S |-> Cardinality({r \in R : k[r] = m})]
  PROVE  SumFunction(f) = Cardinality(R)
<1>1. f = Counts(R, k, S) /\ DOMAIN f = S
  BY DEF Counts
<1>2. IsFiniteSet(R)
  BY Finite
<1>3. Sum(Counts(R, k, S), S) = Cardinality(R)
  BY <1>2, SumOfCounts
<1> QED
  BY <1>1, <1>3, SumFunctionIs

LEMMA MethodsAdd == ASSUME NEW t PROVE SumFunction(ByMethod(RowsOf(t))) = Size(t)
<1>1. PICK R : R = RowsOf(t)
  OBVIOUS
<1>2. R \in SUBSET Requests /\ Size(t) = Cardinality(R)
  BY <1>1, RowsFinite DEF Size
<1>3. Range(MethodOf) = {MethodOf[r] : r \in Requests} /\ \A r \in R : MethodOf[r] \in Range(MethodOf)
  BY <1>2, DashboardAssumption DEF Range
<1>4. IsFiniteSet(Range(MethodOf))
  BY <1>3, Finite, Image
<1>5. ByMethod(R) = [m \in Range(MethodOf) |-> Cardinality({r \in R : MethodOf[r] = m})]
  BY DEF ByMethod
<1>6. PICK f : f = ByMethod(R)
  OBVIOUS
<1>7. SumFunction(f) = Cardinality(R)
  BY <1>2, <1>3, <1>4, <1>5, <1>6, GroupsAdd
<1> QED
  BY <1>1, <1>2, <1>6, <1>7

LEMMA StatusesAdd == ASSUME Tables, NEW t PROVE SumFunction(ByStatus(RowsOf(t))) = Size(t)
<1>1. PICK R : R = RowsOf(t)
  OBVIOUS
<1>2. R \in SUBSET Requests /\ R \subseteq Logged /\ Size(t) = Cardinality(R)
  BY <1>1, Finite DEF Size
<1> DEFINE k == [r \in Requests |-> log[r].status]
<1>3. \A r \in R : k[r] = log[r].status /\ k[r] \in Statuses
  BY <1>2, LoggedRow DEF LogRow
<1>4. IsFiniteSet(Statuses)
  BY DashboardAssumption, FS_AddElement DEF Statuses
<1>5. \A m : {r \in R : log[r].status = m} = {r \in R : k[r] = m}
  BY <1>3
<1>6. ByStatus(R) = [m \in Statuses |-> Cardinality({r \in R : k[r] = m})]
  BY <1>5 DEF ByStatus, Statuses
<1> HIDE DEF k
<1>7. PICK f : f = ByStatus(R)
  OBVIOUS
<1>8. SumFunction(f) = Cardinality(R)
  BY <1>2, <1>3, <1>4, <1>6, <1>7, GroupsAdd
<1> QED
  BY <1>1, <1>2, <1>7, <1>8

LEMMA RequestsAdd == ASSUME Tables PROVE SumFunction(Requested(ByStudent(RowsOf("all")))) = Size("all")
<1>1. PICK R : R = RowsOf("all")
  OBVIOUS
<1>2. R \in SUBSET Requests /\ Size("all") = Cardinality(R)
  BY <1>1, RowsFinite DEF Size
<1> DEFINE k == [r \in Requests |-> log[r].student]
<1>3. \A r \in R : k[r] = log[r].student
  BY <1>2
<1>4. StudentsIn(R) = {k[r] : r \in R}
  BY <1>3 DEF StudentsIn
<1>5. \A m : {r \in R : log[r].student = m} = {r \in R : k[r] = m}
  BY <1>3
<1>6. DOMAIN ByStudent(R) = StudentsIn(R)
  BY DEF ByStudent
<1>7. \A m \in StudentsIn(R) : ByStudent(R)[m].requests = Cardinality({r \in R : k[r] = m})
  BY <1>5 DEF ByStudent
<1>8. Requested(ByStudent(R)) = [m \in StudentsIn(R) |-> Cardinality({r \in R : k[r] = m})]
  BY <1>6, <1>7 DEF Requested
<1>9. IsFiniteSet(StudentsIn(R)) /\ \A r \in R : k[r] \in StudentsIn(R)
  <2> HIDE DEF k
  <2> QED
    BY <1>2, <1>4, Finite, Image
<1> HIDE DEF k
<1>10. PICK f : f = Requested(ByStudent(R))
  OBVIOUS
<1>11. SumFunction(f) = Cardinality(R)
  BY <1>2, <1>8, <1>9, <1>10, GroupsAdd
<1> QED
  BY <1>1, <1>2, <1>10, <1>11

LEMMA QueryKinds ==
  ASSUME NEW q \in Queries
  PROVE  /\ q.what \in {"list", "teams", "students", "total", "failed", "active", "byStudent", "health",
                        "members", "byMethod", "byStatus"}
         /\ q.what = "list" <=> q = Q("list")
         /\ q.what = "byStudent" => q = Q("byStudent")
         /\ q.what = "members" => q.team \in TeamSet /\ q = QT("members", q.team)
<1>1. CASE q \in {Q(w) : w \in {"list", "teams", "students", "total", "failed", "active", "byStudent", "health"}}
  BY <1>1 DEF Q
<1>2. CASE q \in {QT(w, t) : w \in {"members", "total", "byMethod", "byStatus"}, t \in TeamSet}
  BY <1>2 DEF Q, QT
<1> QED
  BY <1>1, <1>2 DEF Queries

\* The active teams and the failed rows are no more than the rows and the teams.
LEMMA PartsFit ==
  ASSUME Tables, NEW recent
  PROVE  /\ Cardinality(Failed(RowsOf("all"))) \in Int /\ Cardinality(Failed(RowsOf("all"))) <= Size("all")
         /\ Cardinality({log[r].team : r \in RowsOf("all") \cap recent}) \in Int
         /\ Cardinality({log[r].team : r \in RowsOf("all") \cap recent}) <= Size("all")
         /\ Cardinality({log[r].team : r \in RowsOf("all") \cap recent}) <= Cardinality(teams)
<1>1. Failed(RowsOf("all")) \subseteq RowsOf("all") /\ IsFiniteSet(RowsOf("all"))
  BY RowsFinite DEF Failed
<1>2. /\ Cardinality(Failed(RowsOf("all"))) \in Int
      /\ Cardinality(Failed(RowsOf("all"))) <= Size("all")
  BY <1>1, SubsetLeq DEF Size
<1> DEFINE k == [r \in Requests |-> log[r].team]
           rows == RowsOf("all") \cap recent
<1>0. rows \subseteq Requests /\ IsFiniteSet(rows) /\ Cardinality(rows) <= Cardinality(RowsOf("all"))
      /\ Cardinality(rows) \in Nat /\ Cardinality(RowsOf("all")) \in Nat
  BY <1>1, RowsFinite, SubsetLeq
<1>3. {log[r].team : r \in rows} = {k[r] : r \in rows}
  BY RowsFinite
<1>4. /\ Cardinality({k[r] : r \in rows}) \in Nat
      /\ Cardinality({k[r] : r \in rows}) <= Cardinality(rows)
  <2> HIDE DEF k, rows
  <2> QED
    BY <1>0, Image
<1>5. {log[r].team : r \in rows} \subseteq teams /\ IsFiniteSet(teams)
  BY Finite DEF Tables
<1>6. Cardinality({log[r].team : r \in rows}) <= Cardinality(teams)
  BY <1>5, SubsetLeq
<1> HIDE DEF k
<1> QED
  BY <1>0, <1>2, <1>3, <1>4, <1>6 DEF Size

\* An answer is true when it is given.
LEMMA AnswersTrue ==
  ASSUME Tables, NEW q \in Queries, NEW old, NEW early, Before(old, early),
         NEW recent \in SUBSET Logged
  PROVE  True(old, early, q, Answer(q, recent))
<1>1. early \subseteq teams /\ IsFiniteSet(teams)
  BY Finite DEF Before, Tables
<1>2. CASE q.what = "list"
  <2>1. Answer(q, recent) = teams
    BY <1>2 DEF Answer
  <2> QED
    BY <1>1, <1>2, <2>1 DEF True
<1>3. CASE q.what = "members"
  <2>1. Answer(q, recent) = members[q.team]
    BY <1>3 DEF Answer
  <2> QED
    BY <1>3, <2>1 DEF True
<1>4. CASE q.what = "teams"
  <2>1. Answer(q, recent) = Cardinality(teams)
    BY <1>4 DEF Answer
  <2>2. Cardinality(early) <= Cardinality(teams) /\ Cardinality(teams) \in Int
    BY <1>1, SubsetLeq
  <2> QED
    BY <1>4, <2>1, <2>2 DEF True
<1>5. CASE q.what = "total"
  <2>1. Answer(q, recent) = Size(q.team)
    BY <1>5 DEF Answer, CountAll, Size
  <2>2. Tells(old, Answer(q, recent), q.team)
    BY <2>1, CountedNow
  <2> QED
    BY <1>5, <2>2 DEF True
<1>6. CASE q.what = "failed"
  <2>1. q.team = "all"
    BY <1>6 DEF Queries, Q, QT
  <2>2. Answer(q, recent) = Cardinality(Failed(RowsOf("all")))
    BY <1>6, <2>1 DEF Answer
  <2> QED
    BY <1>6, <2>2, PartsFit DEF True
<1>7. CASE q.what = "active"
  <2>1. q.team = "all"
    BY <1>7 DEF Queries, Q, QT
  <2>2. Answer(q, recent) = Cardinality({log[r].team : r \in RowsOf("all") \cap recent})
    BY <1>7, <2>1 DEF Answer
  <2> QED
    BY <1>7, <2>2, PartsFit DEF True
<1>8. CASE q.what \in {"byMethod", "byStatus"}
  <2>1. Answer(q, recent) = (IF q.what = "byMethod" THEN ByMethod(RowsOf(q.team)) ELSE ByStatus(RowsOf(q.team)))
    BY <1>8 DEF Answer
  <2>2. SumFunction(Answer(q, recent)) = Size(q.team)
    BY <2>1, MethodsAdd, StatusesAdd
  <2>3. Tells(old, SumFunction(Answer(q, recent)), q.team)
    BY <2>2, CountedNow
  <2> QED
    BY <1>8, <2>3 DEF True
<1>9. CASE q.what = "byStudent"
  <2>1. q.team = "all"
    BY <1>9 DEF Queries, Q, QT
  <2>2. Answer(q, recent) = ByStudent(RowsOf("all"))
    BY <1>9, <2>1 DEF Answer
  <2>3. Tells(old, SumFunction(Requested(Answer(q, recent))), "all")
    BY <2>2, RequestsAdd, CountedNow
  <2> QED
    BY <1>9, <2>3 DEF True
<1>10. CASE q.what \in {"students", "health"}
  BY <1>10 DEF True
<1> QED
  BY <1>2, <1>3, <1>4, <1>5, <1>6, <1>7, <1>8, <1>9, <1>10, QueryKinds

LEMMA RowsGrow ==
  ASSUME Grow, NEW old, old \subseteq Logged, NEW t
  PROVE  /\ RowsOf(t) \subseteq RowsOf(t)' /\ old \cap RowsOf(t)' = old \cap RowsOf(t)
         /\ Size(t) <= Size(t)' /\ Size(t) \in Nat /\ Size(t)' \in Nat
<1>1. /\ Logged \subseteq Logged' /\ \A r \in Logged : log'[r].team = log[r].team
      /\ Logged' \subseteq Requests
  BY DEF Grow, Logged
<1>2. RowsOf(t) \subseteq RowsOf(t)' /\ old \cap RowsOf(t)' = old \cap RowsOf(t)
  BY <1>1 DEF RowsOf
<1>3. IsFiniteSet(RowsOf(t)')
  <2>1. RowsOf(t)' \subseteq Requests
    BY <1>1 DEF RowsOf
  <2> QED
    BY <2>1, Finite
<1>4. /\ Cardinality(RowsOf(t)) <= Cardinality(RowsOf(t)') /\ Cardinality(RowsOf(t)) \in Nat
      /\ Cardinality(RowsOf(t)') \in Nat
  BY <1>2, <1>3, SubsetLeq
<1> QED
  BY <1>2, <1>4 DEF Size

LEMMA TellsKept ==
  ASSUME Grow, NEW old, old \subseteq Logged, NEW t, NEW n, Tells(old, n, t)
  PROVE  n \in Int /\ Cardinality(old \cap RowsOf(t)') <= n /\ n <= Size(t)'
BY RowsGrow DEF Tells

\* And it stays true.
LEMMA TrueKept ==
  ASSUME Tables, Tables', Grow, NEW old, NEW early, Before(old, early), NEW q \in Queries,
         NEW v, True(old, early, q, v)
  PROVE  True(old, early, q, v)'
<1>1. old \subseteq Logged /\ teams \subseteq teams' /\ \A t \in TeamSet : members[t] \subseteq members'[t]
  BY DEF Before, Grow
<1>2. Cardinality(teams) <= Cardinality(teams') /\ Cardinality(teams) \in Int /\ Cardinality(teams') \in Int
  BY <1>1, Finite, SubsetLeq DEF Tables
<1>3. Size("all") <= Size("all")' /\ Size("all") \in Int /\ Size("all")' \in Int
  BY <1>1, RowsGrow
<1>4. q.what = "list" => early \subseteq v /\ v \subseteq teams'
  BY <1>1 DEF True
<1>5. q.what = "members" => v \subseteq members'[q.team]
  BY <1>1, QueryKinds DEF True
<1>6. q.what = "teams" => v \in Int /\ Cardinality(early) <= v
  BY DEF True
<1>7. q.what = "total" => Tells(old, v, q.team)'
  BY <1>1, TellsKept DEF True, Tells
<1>8. q.what = "failed" => v \in Int /\ v <= Size("all")'
  BY <1>3 DEF True
<1>9. q.what = "active" => v \in Int /\ v <= Size("all")' /\ v <= Cardinality(teams')
  BY <1>2, <1>3 DEF True
<1>10. q.what \in {"byMethod", "byStatus"} => Tells(old, SumFunction(v), q.team)'
  BY <1>1, TellsKept DEF True, Tells
<1>11. q.what = "byStudent" => Tells(old, SumFunction(Requested(v)), "all")'
  BY <1>1, TellsKept DEF True, Tells
<1> QED
  BY <1>4, <1>5, <1>6, <1>7, <1>8, <1>9, <1>10, <1>11 DEF True

LEMMA BeforeKept ==
  ASSUME Tables, Tables', Grow, page # "none", NEW old, NEW early, Before(old, early)
  PROVE  Before(old, early)'
<1>1. /\ old \subseteq Logged /\ early \subseteq teams /\ \A r \in old : log[r].team \in early
      /\ Cardinality(Logged) <= Cardinality(old) + since.new
      /\ Cardinality(teams) <= Cardinality(early) + since.new
  BY DEF Before
<1>2. /\ Cardinality(Logged') <= Cardinality(Logged) + (since'.new - since.new)
      /\ Cardinality(teams') <= Cardinality(teams) + (since'.new - since.new)
      /\ Logged \subseteq Logged' /\ teams \subseteq teams' /\ \A r \in Logged : log'[r].team = log[r].team
  BY DEF Grow
<1>3. since.new \in Int /\ since'.new \in Int
  BY DEF Tables
<1>4. /\ Cardinality(Logged) \in Int /\ Cardinality(teams) \in Int
      /\ Cardinality(old) \in Int /\ Cardinality(early) \in Int
  BY <1>1, Finite DEF Tables
<1>5. Cardinality(Logged') \in Int /\ Cardinality(teams') \in Int
  <2>1. Logged' \subseteq Requests /\ teams' \subseteq TeamSet
    BY DEF Logged, Tables
  <2> QED
    BY <2>1, Finite
<1>6. Cardinality(Logged') <= Cardinality(old) + since'.new /\ Cardinality(teams') <= Cardinality(early) + since'.new
  BY <1>1, <1>2, <1>3, <1>4, <1>5
<1> QED
  BY <1>1, <1>2, <1>6 DEF Before
------------------------------------------------------------------------------
(* The invariant is kept *)

LEMMA ChangeKeepsPages == Pages /\ Asks /\ Grow => Pages' /\ Asks'
<1> SUFFICES ASSUME Pages, Asks, Grow PROVE Pages' /\ Asks'
  OBVIOUS
<1>1. page' = page /\ ahead' = ahead /\ got' = got
  BY DEF Grow, pageVars
<1>2. Pages'
  BY <1>1 DEF Pages, Answered
<1>3. OverviewAsks'
  BY <1>1 DEF Asks, OverviewAsks, Pending, Answered, Either, Asked
<1>4. TeamsAsk'
  BY <1>1 DEF Asks, TeamsAsk, Pending, Answered, Either, Shown
<1>5. StudentsAsk'
  BY <1>1 DEF Asks, StudentsAsk, Pending, Answered, Either, Shown
<1> QED
  BY <1>2, <1>3, <1>4, <1>5 DEF Asks

LEMMA ChangeKeepsStudents == StudentsCameFirst /\ Grow => StudentsCameFirst'
<1> SUFFICES ASSUME StudentsCameFirst, Grow, Q("byStudent") \in Answered("students")',
                    NEW s \in DOMAIN Shown("students", Q("byStudent"))'
             PROVE  \E r \in Logged' : CameFirst(r, s)'
  BY DEF StudentsCameFirst
<1>1. got' = got /\ Logged \subseteq Logged'
      /\ \A r \in Logged : log'[r].team = log[r].team /\ log'[r].student = log[r].student
  BY DEF Grow, pageVars
<1>2. PICK r \in Logged : CameFirst(r, s)
  BY <1>1 DEF StudentsCameFirst, Answered, Shown
<1>3. CameFirst(r, s)'
  BY <1>1, <1>2 DEF CameFirst, Answered, Shown
<1> QED
  BY <1>1, <1>3

LEMMA ChangeKeepsDated == Tables /\ Tables' /\ Pages /\ Dated /\ Grow => Dated'
<1> SUFFICES ASSUME Tables, Tables', Pages, Dated, Grow, page' # "none" PROVE Dated'
  BY DEF Dated
<1>1. page' = page /\ got' = got
  BY DEF Grow, pageVars
<1>2. PICK old \in SUBSET Requests, early \in SUBSET TeamSet : Before(old, early) /\ AllTrue(old, early)
  BY <1>1 DEF Dated
<1>3. Before(old, early)'
  BY <1>1, <1>2, BeforeKept
<1>4. AllTrue(old, early)'
  <2> SUFFICES ASSUME NEW k \in Tasks, NEW q \in Answered(k)' PROVE True(old, early, q, Shown(k, q))'
    BY DEF AllTrue
  <2>1. q \in Answered(k) /\ q \in Queries
    BY <1>1 DEF Answered, Pages
  <2>2. PICK v : v = Shown(k, q)
    OBVIOUS
  <2>3. True(old, early, q, v)
    BY <1>2, <2>1, <2>2 DEF AllTrue
  <2>4. True(old, early, q, v)'
    BY <1>2, <2>1, <2>3, TrueKept
  <2>5. Shown(k, q)' = v
    BY <1>1, <2>2 DEF Shown
  <2> QED
    BY <2>4, <2>5 DEF True, Tells
<1> QED
  BY <1>2, <1>3, <1>4 DEF Dated

LEMMA ChangeKeeps == DashboardInv /\ Change => DashboardInv'
BY ChangeGrows, ChangeKeepsPages, ChangeKeepsStudents, ChangeKeepsDated DEF DashboardInv

\* As the page is asked, what is there is what was there before.
LEMMA AskKeeps ==
  ASSUME Tables, Pages, NEW p \in {"overview", "detail", "csv"}, NEW task \in Tasks,
         NEW groups \in Seq(SUBSET Queries), Ask(p, task, groups)
  PROVE  /\ Tables' /\ Pages' /\ StudentsCameFirst' /\ Dated'
         /\ \A k \in Tasks : Answered(k)' = {}
         /\ ahead'[task] = groups /\ \A k \in Tasks \ {task} : ahead'[k] = <<>>
<1>1. /\ page = "none" /\ page' = p /\ since' = Nothing /\ ahead' = [ahead EXCEPT ![task] = groups]
      /\ teams' = teams /\ members' = members /\ log' = log /\ got' = got
  BY DEF Ask, tableVars
<1>2. Logged' = Logged
  BY <1>1 DEF Logged
<1>3. Nothing \in [new : 0..MaxChanges, other : 0..MaxChanges]
  BY DashboardAssumption DEF Nothing
<1>4. Tables'
  BY <1>1, <1>2, <1>3 DEF Tables
<1>5. /\ \A k \in Tasks : Answered(k)' = {}
      /\ ahead'[task] = groups /\ \A k \in Tasks \ {task} : ahead'[k] = <<>>
      /\ ahead' \in [Tasks -> Seq(SUBSET Queries)]
  BY <1>1 DEF Pages, Answered, NoAnswers
<1>6. Pages'
  BY <1>1, <1>5 DEF Pages
<1>7. StudentsCameFirst'
  BY <1>5 DEF StudentsCameFirst, Tasks
<1>8. Dated'
  <2>1. PICK old, early : old = Logged /\ early = teams
    OBVIOUS
  <2>2. old \in SUBSET Requests /\ early \in SUBSET TeamSet
    BY <2>1, Finite DEF Tables
  <2>3. Cardinality(old) \in Int /\ Cardinality(early) \in Int /\ since'.new = 0
    BY <1>1, <2>2, Finite DEF Nothing
  <2>4. Before(old, early)'
    BY <1>1, <1>2, <2>1, <2>3 DEF Before, Tables
  <2>5. AllTrue(old, early)'
    BY <1>5 DEF AllTrue
  <2> QED
    BY <2>2, <2>4, <2>5 DEF Dated
<1> QED
  BY <1>4, <1>5, <1>6, <1>7, <1>8

LEMMA Groups ==
  ASSUME NEW S, NEW T
  PROVE  Range(<<>>) = {} /\ UNION Range(<<>>) = {} /\ UNION Range(<<S>>) = S /\ UNION Range(<<S, T>>) = S \cup T
<1>1. Range(<<>>) = {} /\ Range(<<S>>) = {S} /\ Range(<<S, T>>) = {S, T}
  BY DEF Range
<1> QED
  BY <1>1

LEMMA GroupTypes ==
  /\ OverviewGroups \in Seq(SUBSET Queries) /\ StudentGroups \in Seq(SUBSET Queries)
  /\ <<{Q("list")}>> \in Seq(SUBSET Queries) /\ <<{Q("health")}>> \in Seq(SUBSET Queries)
<1>1. {Q("teams"), Q("students"), Q("total"), Q("failed"), Q("active"), Q("list"), Q("byStudent"), Q("health")}
        \subseteq Queries
  BY DEF Queries
<1> QED
  BY <1>1 DEF OverviewGroups, StudentGroups

LEMMA HomeKeeps == DashboardInv /\ Home => DashboardInv'
<1> SUFFICES ASSUME DashboardInv, Home PROVE DashboardInv'
  OBVIOUS
<1>1. Tables /\ Pages /\ "overview" \in Tasks /\ Ask("overview", "overview", OverviewGroups)
  BY DEF DashboardInv, Home, Tasks
<1>2. /\ Tables' /\ Pages' /\ StudentsCameFirst' /\ Dated'
      /\ \A k \in Tasks : Answered(k)' = {}
      /\ ahead'["overview"] = OverviewGroups /\ \A k \in Tasks \ {"overview"} : ahead'[k] = <<>>
  BY <1>1, AskKeeps, GroupTypes
<1>3. /\ Pending("overview")' = {Q("teams"), Q("students"), Q("total"), Q("failed"), Q("active")}
      /\ Pending("detail")' = {}
  BY <1>2, Groups DEF Pending, OverviewGroups, Tasks
<1>4. OverviewAsks'
  BY <1>3 DEF OverviewAsks, Either
<1>5. TeamsAsk' /\ StudentsAsk'
  BY <1>2 DEF TeamsAsk, StudentsAsk, Tasks
<1> QED
  BY <1>2, <1>4, <1>5 DEF DashboardInv, Asks

LEMMA CsvKeeps == DashboardInv /\ ExportCsv => DashboardInv'
<1> SUFFICES ASSUME DashboardInv, ExportCsv PROVE DashboardInv'
  OBVIOUS
<1>1. Tables /\ Pages /\ "students" \in Tasks /\ Ask("csv", "students", StudentGroups)
  BY DEF DashboardInv, ExportCsv, Tasks
<1>2. /\ Tables' /\ Pages' /\ StudentsCameFirst' /\ Dated'
      /\ \A k \in Tasks : Answered(k)' = {}
      /\ ahead'["students"] = StudentGroups /\ \A k \in Tasks \ {"students"} : ahead'[k] = <<>>
  BY <1>1, AskKeeps, GroupTypes
<1>3. Pending("overview")' = {} /\ Pending("detail")' = {} /\ ~Asked("overview")'
  BY <1>2, Groups DEF Pending, Tasks, Asked, Answered
<1>4. OverviewAsks'
  BY <1>3 DEF OverviewAsks
<1>5. TeamsAsk' /\ StudentsAsk'
  BY <1>2 DEF TeamsAsk, StudentsAsk, Tasks
<1> QED
  BY <1>2, <1>4, <1>5 DEF DashboardInv, Asks

LEMMA DetailKeeps == DashboardInv /\ OfferingDetail => DashboardInv'
<1> SUFFICES ASSUME DashboardInv, OfferingDetail PROVE DashboardInv'
  OBVIOUS
<1>1. Tables /\ Pages /\ "detail" \in Tasks /\ Ask("detail", "detail", <<{Q("health")}>>)
  BY DEF DashboardInv, OfferingDetail, Tasks
<1>2. /\ Tables' /\ Pages' /\ StudentsCameFirst' /\ Dated'
      /\ \A k \in Tasks : Answered(k)' = {}
      /\ ahead'["detail"] = <<{Q("health")}>> /\ \A k \in Tasks \ {"detail"} : ahead'[k] = <<>>
  BY <1>1, AskKeeps, GroupTypes
<1>3. Pending("overview")' = {} /\ Pending("detail")' = {Q("health")} /\ ~Asked("overview")'
  BY <1>2, Groups DEF Pending, Tasks, Asked, Answered
<1>4. OverviewAsks'
  BY <1>3 DEF OverviewAsks
<1>5. TeamsAsk' /\ StudentsAsk'
  BY <1>2 DEF TeamsAsk, StudentsAsk, Tasks
<1> QED
  BY <1>2, <1>4, <1>5 DEF DashboardInv, Asks

\* The two activities find nothing asked or answered of theirs.
LEMMA ActivitiesKeep == DashboardInv /\ Activities => DashboardInv'
<1> SUFFICES ASSUME DashboardInv, Activities PROVE DashboardInv'
  OBVIOUS
<1>1. /\ page = "detail" /\ page' = page /\ got' = got /\ since' = since
      /\ teams' = teams /\ members' = members /\ log' = log
      /\ ahead' = [ahead EXCEPT !["teams"] = <<{Q("list")}>>, !["students"] = StudentGroups]
      /\ Answered("teams") = {} /\ Answered("students") = {}
  BY DEF Activities, tableVars, Asked, Answered
<1>2. /\ ahead' \in [Tasks -> Seq(SUBSET Queries)]
      /\ ahead'["teams"] = <<{Q("list")}>> /\ ahead'["students"] = StudentGroups
      /\ ahead'["overview"] = ahead["overview"] /\ ahead'["detail"] = ahead["detail"]
  BY <1>1, GroupTypes DEF DashboardInv, Pages, Tasks
<1>3. Logged' = Logged
  BY <1>1 DEF Logged
<1>4. Tables'
  BY <1>1, <1>3 DEF DashboardInv, Tables
<1>5. Pages'
  BY <1>1, <1>2 DEF DashboardInv, Pages, Answered
<1>6. OverviewAsks'
  BY <1>1, <1>2 DEF DashboardInv, Asks, OverviewAsks, Pending, Either, Answered, Asked
<1>7. TeamsAsk' /\ StudentsAsk'
  BY <1>1, <1>2 DEF TeamsAsk, StudentsAsk, Answered
<1>8. StudentsCameFirst'
  BY <1>1 DEF StudentsCameFirst, Answered
<1>9. Dated'
  <2>1. PICK old \in SUBSET Requests, early \in SUBSET TeamSet : Before(old, early) /\ AllTrue(old, early)
    BY <1>1 DEF DashboardInv, Dated
  <2>2. Before(old, early)'
    BY <1>1, <1>3, <2>1 DEF Before
  <2>3. \A t : RowsOf(t)' = RowsOf(t)
    BY <1>1, <1>3 DEF RowsOf
  <2>4. AllTrue(old, early)'
    BY <1>1, <2>1, <2>3 DEF AllTrue, True, Tells, Size, Shown, Answered
  <2> QED
    BY <2>1, <2>2, <2>4 DEF Dated
<1> QED
  BY <1>4, <1>5, <1>6, <1>7, <1>8, <1>9 DEF DashboardInv, Asks

\* The groups that follow the list are those of the listed teams.
Following(task, t) ==
  {QT(w, t) : w \in IF task = "teams" THEN {"members", "total", "byMethod", "byStatus"} ELSE {"members"}}

LEMMA ListedRange ==
  ASSUME NEW task, NEW L \in SUBSET TeamSet
  PROVE  /\ ListedThen(task, L) \in Seq(SUBSET Queries)
         /\ UNION Range(ListedThen(task, L)) = UNION {Following(task, t) : t \in L}
<1> DEFINE G(t) == IF task = "teams" THEN TeamGroups(t) ELSE MemberGroups(t)
           ss == [i \in DOMAIN Teams |-> IF Teams[i] \in L THEN G(Teams[i]) ELSE <<>>]
<1>1. \A t \in TeamSet : /\ G(t) \in Seq(SUBSET Queries)
                         /\ UNION Range(G(t)) = Following(task, t)
  <2> TAKE t \in TeamSet
  <2>1. {QT("members", t), QT("total", t), QT("byMethod", t), QT("byStatus", t)} \subseteq Queries
    BY DEF Queries
  <2>2. /\ TeamGroups(t) \in Seq(SUBSET Queries) /\ MemberGroups(t) \in Seq(SUBSET Queries)
    BY <2>1 DEF TeamGroups, MemberGroups
  <2>3. /\ UNION Range(TeamGroups(t)) = {QT("members", t), QT("total", t), QT("byMethod", t), QT("byStatus", t)}
        /\ UNION Range(MemberGroups(t)) = {QT("members", t)}
    <3>1. PICK S, T : S = {QT("members", t)} /\ T = {QT("total", t), QT("byMethod", t), QT("byStatus", t)}
      OBVIOUS
    <3>2. UNION Range(<<S, T>>) = S \cup T /\ UNION Range(<<S>>) = S
      BY Groups
    <3>3. TeamGroups(t) = <<S, T>> /\ MemberGroups(t) = <<S>>
      BY <3>1 DEF TeamGroups, MemberGroups
    <3> QED
      BY <3>1, <3>2, <3>3
  <2>4. Following(task, t) = (IF task = "teams" THEN
          {QT("members", t), QT("total", t), QT("byMethod", t), QT("byStatus", t)} ELSE {QT("members", t)})
    BY DEF Following
  <2> QED
    BY <2>2, <2>3, <2>4
<1>2. ss \in Seq(Seq(SUBSET Queries)) /\ DOMAIN ss = DOMAIN Teams
  <2>1. \A i \in DOMAIN Teams : Teams[i] \in TeamSet
    BY TeamSetFacts
  <2>2. ss \in [1..Len(Teams) -> Seq(SUBSET Queries)]
    <3> HIDE DEF G
    <3>1. <<>> \in Seq(SUBSET Queries)
      OBVIOUS
    <3> QED
      BY <1>1, <2>1, <3>1, TeamSetFacts
  <2> QED
    BY <2>2, TeamSetFacts
<1>3. \A i \in DOMAIN Teams : UNION Range(ss[i]) = IF Teams[i] \in L THEN Following(task, Teams[i]) ELSE {}
  BY <1>1, Groups
<1>4. ListedThen(task, L) = FlattenSeq(ss)
  BY DEF ListedThen
<1> HIDE DEF ss, G
<1>5. PICK s : s = ss
  OBVIOUS
<1>6. FlattenSeq(s) \in Seq(SUBSET Queries) /\ Range(FlattenSeq(s)) = UNION {Range(s[i]) : i \in DOMAIN s}
  BY <1>2, <1>5, FlattenRange
<1>7. UNION Range(FlattenSeq(s)) = UNION {Following(task, t) : t \in L}
  <2>1. ASSUME NEW x \in UNION Range(FlattenSeq(s)) PROVE \E t \in L : x \in Following(task, t)
    <3>1. PICK i \in DOMAIN Teams : x \in UNION Range(s[i])
      BY <1>2, <1>5, <1>6, <2>1
    <3> QED
      BY <1>3, <1>5, <3>1
  <2>2. ASSUME NEW t \in L, NEW x \in Following(task, t) PROVE x \in UNION Range(FlattenSeq(s))
    <3>1. PICK i \in DOMAIN Teams : Teams[i] = t
      BY TeamSetFacts
    <3>2. x \in UNION Range(s[i])
      BY <1>3, <1>5, <2>2, <3>1
    <3> QED
      BY <1>2, <1>5, <1>6, <3>2
  <2> QED
    BY <2>1, <2>2
<1> QED
  BY <1>4, <1>5, <1>6, <1>7

\* A query leaves the group it is in, and is answered; after the list come the
\* listed teams.
Moves(task, q) ==
  /\ page # "none" /\ ahead[task] # <<>> /\ q \in Head(ahead[task]) /\ q \in Pending(task)
  /\ Answered(task)' = Answered(task) \cup {q} 
  /\ \E recent \in SUBSET Logged : got'[task][q] = Answer(q, recent)
  /\ \A p \in Answered(task) \ {q} : got'[task][p] = got[task][p]
  /\ \A k \in Tasks \ {task} : got'[k] = got[k] /\ ahead'[k] = ahead[k]
  /\ Rest(ahead[task], q) \in Seq(SUBSET Queries)
  /\ Pending(task) \ {q} \subseteq UNION Range(Rest(ahead[task], q))
  /\ UNION Range(Rest(ahead[task], q)) \subseteq Pending(task)
  /\ ahead'[task] = IF q.what = "list" THEN ListedThen(task, teams) \o Rest(ahead[task], q)
                    ELSE Rest(ahead[task], q)
  /\ teams' = teams /\ members' = members /\ log' = log /\ page' = page /\ since' = since

LEMMA QueryMoves ==
  ASSUME Tables, Pages, NEW task \in Tasks, Query(task)
  PROVE  \E q \in Queries : Moves(task, q) /\ Pages'
<1>1. /\ ahead \in [Tasks -> Seq(SUBSET Queries)] /\ got = [k \in Tasks |-> got[k]]
      /\ ahead[task] # <<>> /\ ahead[task] \in Seq(SUBSET Queries) /\ page # "none"
      /\ \A k \in Tasks : Answered(k) \subseteq Queries
  BY DEF Query, Pages
<1>2. PICK q \in Head(ahead[task]), recent \in SUBSET Logged :
        /\ got' = [got EXCEPT ![task] = [p \in DOMAIN got[task] \cup {q} |->
                                          IF p = q THEN Answer(q, recent) ELSE got[task][p]]]
        /\ ahead' = [ahead EXCEPT ![task] = IF q.what = "list" THEN ListedThen(task, teams) \o Rest(ahead[task], q)
                                            ELSE Rest(ahead[task], q)]
  BY DEF Query, Rest, Left
<1>3. teams' = teams /\ members' = members /\ log' = log /\ page' = page /\ since' = since
  BY DEF Query, tableVars
<1>4. PICK a : a = ahead[task]
  OBVIOUS
<1>5. /\ q \in Queries /\ q \in Pending(task)
      /\ Rest(ahead[task], q) \in Seq(SUBSET Queries)
      /\ Pending(task) \ {q} \subseteq UNION Range(Rest(ahead[task], q))
      /\ UNION Range(Rest(ahead[task], q)) \subseteq Pending(task)
  <2>1. a \in Seq(SUBSET Queries) /\ a # <<>> /\ q \in Head(a)
    BY <1>1, <1>2, <1>4
  <2>2. /\ q \in Queries /\ q \in UNION Range(a)
        /\ Rest(a, q) \in Seq(SUBSET Queries)
        /\ (UNION Range(a)) \ {q} \subseteq UNION Range(Rest(a, q))
        /\ UNION Range(Rest(a, q)) \subseteq UNION Range(a)
    BY <2>1, RestRange
  <2> QED
    BY <1>4, <2>2 DEF Pending
<1> DEFINE answers == [p \in DOMAIN got[task] \cup {q} |-> IF p = q THEN Answer(q, recent) ELSE got[task][p]]
           later == IF q.what = "list" THEN ListedThen(task, teams) \o Rest(ahead[task], q)
                    ELSE Rest(ahead[task], q)
<1>6. /\ DOMAIN answers = Answered(task) \cup {q} /\ answers[q] = Answer(q, recent)
      /\ \A p \in Answered(task) \ {q} : answers[p] = got[task][p]
  BY DEF Answered
<1>7. later \in Seq(SUBSET Queries)
  <2>1. ListedThen(task, teams) \in Seq(SUBSET Queries)
    BY ListedRange DEF Tables
  <2> QED
    BY <1>5, <2>1
<1>8. got' = [got EXCEPT ![task] = answers] /\ ahead' = [ahead EXCEPT ![task] = later]
  BY <1>2
<1>9. later = IF q.what = "list" THEN ListedThen(task, teams) \o Rest(ahead[task], q)
              ELSE Rest(ahead[task], q)
  OBVIOUS
<1> HIDE DEF answers, later
<1>10. /\ got'[task] = answers /\ ahead'[task] = later
       /\ \A k \in Tasks \ {task} : got'[k] = got[k] /\ ahead'[k] = ahead[k]
       /\ ahead' \in [Tasks -> Seq(SUBSET Queries)]
  BY <1>1, <1>7, <1>8
<1>11. got' = [k \in Tasks |-> got'[k]]
  BY <1>1, <1>8
<1>12. Moves(task, q)
  BY <1>1, <1>2, <1>3, <1>5, <1>6, <1>9, <1>10 DEF Moves, Answered
<1>13. Pages'
  <2>1. \A k \in Tasks : Answered(k)' \subseteq Queries
    BY <1>1, <1>5, <1>6, <1>10 DEF Answered
  <2> QED
    BY <1>1, <1>3, <1>10, <1>11, <2>1 DEF Pages
<1> QED
  BY <1>5, <1>12, <1>13

\* The tables are as they were, the answers before are kept and the new one is true.
LEMMA QueryKeepsDated ==
  ASSUME DashboardInv, NEW task \in Tasks, NEW q \in Queries, Moves(task, q)
  PROVE  Tables' /\ Dated'
<1>1. /\ teams' = teams /\ members' = members /\ log' = log /\ page' = page /\ since' = since
      /\ page # "none" /\ Tables
  BY DEF Moves, DashboardInv
<1>2. Logged' = Logged /\ \A t : RowsOf(t)' = RowsOf(t)
  BY <1>1 DEF Logged, RowsOf
<1>3. Tables'
  BY <1>1, <1>2 DEF Tables
<1>4. PICK old \in SUBSET Requests, early \in SUBSET TeamSet : Before(old, early) /\ AllTrue(old, early)
  BY <1>1 DEF DashboardInv, Dated
<1>5. Before(old, early)'
  BY <1>1, <1>2, <1>4 DEF Before
<1>6. \A p, v : True(old, early, p, v) => True(old, early, p, v)'
  BY <1>1, <1>2 DEF True, Tells, Size
<1>7. AllTrue(old, early)'
  <2> SUFFICES ASSUME NEW k \in Tasks, NEW p \in Answered(k)' PROVE True(old, early, p, Shown(k, p))'
    BY DEF AllTrue
  <2>1. PICK v : v = Shown(k, p)'
    OBVIOUS
  <2>2. True(old, early, p, v)
    <3>1. CASE k = task /\ p = q
      <4>1. PICK recent \in SUBSET Logged : v = Answer(q, recent)
        BY <2>1, <3>1 DEF Shown, Moves
      <4> QED
        BY <1>1, <1>4, <3>1, <4>1, AnswersTrue
    <3>2. CASE ~(k = task /\ p = q)
      <4>1. p \in Answered(k) /\ v = Shown(k, p)
        BY <2>1, <3>2 DEF Shown, Moves, Answered
      <4> QED
        BY <1>4, <4>1 DEF AllTrue
    <3> QED
      BY <3>1, <3>2
  <2>3. True(old, early, p, v)'
    BY <1>6, <2>2
  <2> QED
    BY <2>1, <2>3 DEF True, Tells
<1> QED
  BY <1>3, <1>4, <1>5, <1>7 DEF Dated

LEMMA QueryKeepsOverview ==
  ASSUME DashboardInv, NEW task \in Tasks, NEW q \in Queries, Moves(task, q)
  PROVE  OverviewAsks'
<1>1. OverviewAsks
  BY DEF DashboardInv, Asks
<1>2. CASE task \in {"overview", "detail"}
  <2>1. q \in {Q(w) : w \in {"teams", "students", "total", "failed", "active", "health"}}
    BY <1>1, <1>2 DEF OverviewAsks, Moves
  <2>2. q.what # "list"
    BY <2>1 DEF Q
  <2>3. /\ Pending(task) \ {q} \subseteq Pending(task)' /\ Pending(task)' \subseteq Pending(task)
        /\ Either(task) \subseteq Either(task)'
    BY <2>2 DEF Moves, Pending, Either
  <2>4. Asked(task)
    BY DEF Asked, Moves
  <2>5. \A k \in Tasks \ {task} : /\ Pending(k)' = Pending(k) /\ Either(k)' = Either(k)
                                  /\ Asked(k)' <=> Asked(k)
    BY DEF Moves, Pending, Either, Answered, Asked
  <2> QED
    BY <1>1, <1>2, <2>3, <2>4, <2>5 DEF OverviewAsks, Tasks
<1>3. CASE task \notin {"overview", "detail"}
  <2>1. \A k \in {"overview", "detail"} : got'[k] = got[k] /\ ahead'[k] = ahead[k]
    BY <1>3 DEF Moves, Tasks
  <2> QED
    BY <1>1, <2>1 DEF OverviewAsks, Pending, Either, Answered, Asked
<1> QED
  BY <1>2, <1>3

\* The only query of the only group leaves nothing but what is listed.
LEMMA ListLeaves ==
  ASSUME DashboardInv, NEW task \in Tasks, NEW q \in Queries, Moves(task, q), ahead[task] = <<{Q("list")}>>
  PROVE  /\ q = Q("list") /\ q.what = "list"
         /\ Pending(task)' = UNION {Following(task, t) : t \in teams}
<1>1. q = Q("list") /\ q.what = "list"
  BY DEF Moves, Q
<1>2. PICK a : a = ahead[task]
  OBVIOUS
<1>3. Rest(a, q) = <<>>
  <2>1. Head(a) = {q} /\ Tail(a) = <<>>
    BY <1>1, <1>2
  <2> QED
    BY <2>1 DEF Rest, Left
<1>4. ahead'[task] = ListedThen(task, teams) \o <<>>
  BY <1>1, <1>2, <1>3 DEF Moves
<1>5. ListedThen(task, teams) \in Seq(SUBSET Queries)
      /\ UNION Range(ListedThen(task, teams)) = UNION {Following(task, t) : t \in teams}
  BY ListedRange DEF DashboardInv, Tables
<1>6. ahead'[task] = ListedThen(task, teams)
  BY <1>4, <1>5
<1> QED
  BY <1>1, <1>5, <1>6 DEF Pending

LEMMA QueryKeepsTeams ==
  ASSUME DashboardInv, NEW task \in Tasks, NEW q \in Queries, Moves(task, q)
  PROVE  TeamsAsk'
<1>1. TeamsAsk
  BY DEF DashboardInv, Asks
<1>2. CASE task # "teams"
  <2>1. got'["teams"] = got["teams"] /\ ahead'["teams"] = ahead["teams"]
    BY <1>2 DEF Moves, Tasks
  <2> QED
    BY <1>1, <2>1 DEF TeamsAsk, Pending, Either, Answered, Shown
<1>3. CASE task = "teams" /\ Q("list") \notin Answered("teams")
  <2>1. ahead["teams"] = <<{Q("list")}>>
    BY <1>1, <1>3 DEF TeamsAsk, Moves
  <2>2. q = Q("list") /\ q.what = "list" /\ Pending("teams")' = UNION {Following("teams", t) : t \in teams}
    BY <1>3, <2>1, ListLeaves
  <2>3. \A t \in teams : \A w \in {"total", "byMethod", "byStatus"} : QT(w, t) \in Pending("teams")'
    BY <2>2 DEF Following
  <2>4. Q("list") \notin Pending("teams")'
    BY <2>2 DEF Following, Q, QT
  <2>5. Q("list") \in Answered("teams")' /\ Shown("teams", Q("list"))' = teams
    <3>1. \A recent : Answer(q, recent) = teams
      BY <2>2 DEF Answer
    <3> QED
      BY <1>3, <2>2, <3>1 DEF Moves, Shown
  <2> QED
    BY <2>3, <2>4, <2>5 DEF TeamsAsk, Either
<1>4. CASE task = "teams" /\ Q("list") \in Answered("teams")
  <2>1. /\ Q("list") \notin Pending("teams")
        /\ \A t \in Shown("teams", Q("list")) : \A w \in {"total", "byMethod", "byStatus"} :
             QT(w, t) \in Either("teams")
    BY <1>1, <1>4 DEF TeamsAsk
  <2>2. q # Q("list") /\ q.what # "list"
    BY <1>4, <2>1, QueryKinds DEF Moves
  <2>3. /\ Pending("teams")' \subseteq Pending("teams") /\ Either("teams") \subseteq Either("teams")'
        /\ Q("list") \in Answered("teams")'
    BY <1>4, <2>2 DEF Moves, Pending, Either
  <2>4. Shown("teams", Q("list"))' = Shown("teams", Q("list"))
    BY <1>4, <2>2 DEF Moves, Shown
  <2> QED
    BY <2>1, <2>3, <2>4 DEF TeamsAsk
<1> QED
  BY <1>2, <1>3, <1>4

LEMMA QueryKeepsStudents ==
  ASSUME DashboardInv, NEW task \in Tasks, NEW q \in Queries, Moves(task, q)
  PROVE  StudentsAsk' /\ StudentsCameFirst'
<1>1. StudentsAsk /\ StudentsCameFirst /\ Tables
  BY DEF DashboardInv, Asks
<1>2. /\ log' = log /\ Logged' = Logged
      /\ \A r \in Logged : log[r].team \in teams /\ log[r].team \in TeamSet /\ log[r].student \in members[log[r].team]
  BY <1>1 DEF Moves, Logged, Tables
<1>3. CASE task # "students"
  <2>1. got'["students"] = got["students"] /\ ahead'["students"] = ahead["students"]
    BY <1>3 DEF Moves, Tasks
  <2>2. StudentsAsk'
    BY <1>1, <2>1 DEF StudentsAsk, Pending, Either, Answered, Shown
  <2>3. StudentsCameFirst'
    BY <1>1, <1>2, <2>1 DEF StudentsCameFirst, CameFirst, Answered, Shown
  <2> QED
    BY <2>2, <2>3
<1>4. CASE task = "students" /\ Answered("students") = {} /\ ahead["students"] = StudentGroups
  <2>1. PICK a : a = ahead["students"]
    OBVIOUS
  <2>2. Head(a) = {Q("byStudent")} /\ Tail(a) = <<{Q("list")}>>
    BY <1>4, <2>1 DEF StudentGroups
  <2>3. q = Q("byStudent") /\ q.what = "byStudent" /\ q.team = "all"
    BY <1>4, <2>1, <2>2 DEF Moves, Q
  <2>4. Rest(a, q) = <<{Q("list")}>>
    BY <2>2, <2>3 DEF Rest, Left
  <2>5. ahead'["students"] = <<{Q("list")}>> /\ Answered("students")' = {Q("byStudent")}
    BY <1>4, <2>1, <2>3, <2>4 DEF Moves
  <2>6. StudentsAsk'
    BY <2>5 DEF StudentsAsk
  <2>7. Shown("students", Q("byStudent"))' = ByStudent(Logged)
    <3>1. \A recent : Answer(q, recent) = ByStudent(RowsOf("all"))
      BY <2>3 DEF Answer
    <3> QED
      BY <1>4, <2>3, <3>1, Finite DEF Moves, Shown
  <2>8. DOMAIN ByStudent(Logged) = {log[r].student : r \in Logged}
    BY DEF ByStudent, StudentsIn
  <2>9. Q("list") \notin Answered("students")' /\ \A t : QT("members", t) \notin Answered("students")'
    BY <2>5 DEF Q, QT
  <2>10. \A s \in {log[r].student : r \in Logged} : \E r \in Logged' : CameFirst(r, s)'
    BY <1>2, <2>9 DEF CameFirst
  <2>11. StudentsCameFirst'
    BY <2>7, <2>8, <2>10 DEF StudentsCameFirst
  <2> QED
    BY <2>6, <2>11
<1>5. CASE task = "students" /\ Answered("students") = {Q("byStudent")} /\ ahead["students"] = <<{Q("list")}>>
  <2>1. q = Q("list") /\ q.what = "list" /\ Pending("students")' = UNION {Following("students", t) : t \in teams}
    BY <1>5, ListLeaves
  <2>2. Answered("students")' = {Q("byStudent"), Q("list")} /\ Q("byStudent") # q
    BY <1>5, <2>1 DEF Moves, Q
  <2>3. Shown("students", Q("list"))' = teams
    <3>1. \A recent : Answer(q, recent) = teams
      BY <2>1 DEF Answer
    <3> QED
      BY <1>5, <2>1, <3>1 DEF Moves, Shown
  <2>4. Pending("students")' = {QT("members", t) : t \in teams}
    BY <2>1 DEF Following
  <2>5. StudentsAsk'
    BY <1>1, <2>2, <2>3, <2>4 DEF StudentsAsk, Either, Tables
  <2>6. Shown("students", Q("byStudent"))' = Shown("students", Q("byStudent"))
    BY <1>5, <2>2 DEF Moves, Shown
  <2>7. \A t : QT("members", t) \notin Answered("students")'
    BY <2>2 DEF Q, QT
  <2>8. ASSUME NEW s \in DOMAIN Shown("students", Q("byStudent")) PROVE \E r \in Logged' : CameFirst(r, s)'
    <3>1. PICK r \in Logged : CameFirst(r, s)
      BY <1>1, <1>5, <2>8 DEF StudentsCameFirst
    <3> QED
      BY <1>2, <2>3, <2>7, <3>1 DEF CameFirst
  <2>9. StudentsCameFirst'
    BY <2>6, <2>8 DEF StudentsCameFirst
  <2> QED
    BY <2>5, <2>9
<1>6. CASE task = "students" /\ {Q("byStudent"), Q("list")} \subseteq Answered("students")
  <2>1. /\ Pending("students") \subseteq {QT("members", t) : t \in TeamSet}
        /\ \A t \in Shown("students", Q("list")) : QT("members", t) \in Either("students")
    <3>1. Q("list") # Q("byStudent")
      BY DEF Q
    <3> QED
      BY <1>1, <1>6, <3>1 DEF StudentsAsk
  <2>2. PICK t \in TeamSet : q = QT("members", t)
    BY <1>6, <2>1 DEF Moves
  <2>3. q.what = "members" /\ q.team = t /\ q # Q("list") /\ q # Q("byStudent")
    BY <2>2 DEF Q, QT
  <2>4. /\ Pending("students")' \subseteq Pending("students") /\ Either("students") \subseteq Either("students")'
        /\ {Q("byStudent"), Q("list")} \subseteq Answered("students")'
        /\ Answered("students")' = Answered("students") \cup {q}
    BY <1>6, <2>3 DEF Moves, Pending, Either
  <2>5. /\ Shown("students", Q("list"))' = Shown("students", Q("list"))
        /\ Shown("students", Q("byStudent"))' = Shown("students", Q("byStudent"))
        /\ \A p \in Answered("students") \ {q} : Shown("students", p)' = Shown("students", p)
    BY <1>6, <2>3 DEF Moves, Shown
  <2>6. StudentsAsk'
    BY <2>1, <2>4, <2>5 DEF StudentsAsk
  <2>7. Shown("students", q)' = members[t]
    <3>1. \A recent : Answer(q, recent) = members[t]
      BY <2>3 DEF Answer
    <3> QED
      BY <1>6, <3>1 DEF Moves, Shown
  <2>8. ASSUME NEW s \in DOMAIN Shown("students", Q("byStudent")) PROVE \E r \in Logged' : CameFirst(r, s)'
    <3>1. PICK r \in Logged : CameFirst(r, s)
      BY <1>1, <1>6, <2>8 DEF StudentsCameFirst
    <3>2. log'[r].student = s /\ log[r].student = s /\ log[r].team \in Shown("students", Q("list"))'
      BY <1>2, <1>6, <2>5, <3>1 DEF CameFirst
    <3>3. CASE QT("members", log[r].team) = q
      <4>1. log[r].team = t
        BY <2>2, <3>3 DEF QT
      <4>2. s \in Shown("students", QT("members", log[r].team))'
        BY <1>2, <2>2, <2>7, <3>2, <4>1
      <4> QED
        BY <1>2, <3>2, <4>2 DEF CameFirst
    <3>4. CASE QT("members", log[r].team) # q
      <4>1. PICK p : p = QT("members", log[r].team) /\ p = QT("members", log[r].team)'
        BY <1>2 DEF QT
      <4>2. p \in Answered("students")' => p \in Answered("students") \ {q}
        BY <2>4, <3>4, <4>1
      <4>3. p \in Answered("students") => s \in Shown("students", p)
        BY <3>1, <4>1 DEF CameFirst
      <4>4. p \in Answered("students")' => s \in Shown("students", p)'
        BY <2>5, <4>2, <4>3
      <4>5. Shown("students", QT("members", log[r].team))' = Shown("students", p)'
        BY <4>1 DEF Shown
      <4> QED
        BY <1>2, <3>2, <4>1, <4>4, <4>5 DEF CameFirst
    <3> QED
      BY <3>3, <3>4
  <2>9. StudentsCameFirst'
    BY <2>5, <2>8 DEF StudentsCameFirst
  <2> QED
    BY <2>6, <2>9
<1> QED
  <2>1. ahead["students"] = <<>> => task # "students"
    BY DEF Moves
  <2> QED
    BY <1>1, <1>3, <1>4, <1>5, <1>6, <2>1 DEF StudentsAsk

LEMMA QueryKeeps == DashboardInv /\ (\E task \in Tasks : Query(task)) => DashboardInv'
<1> SUFFICES ASSUME DashboardInv, NEW task \in Tasks, Query(task) PROVE DashboardInv'
  OBVIOUS
<1>1. PICK q \in Queries : Moves(task, q) /\ Pages'
  BY QueryMoves DEF DashboardInv
<1> QED
  BY <1>1, QueryKeepsDated, QueryKeepsOverview, QueryKeepsTeams, QueryKeepsStudents DEF DashboardInv, Asks
------------------------------------------------------------------------------
(* The theorems *)

LEMMA InitHolds == Init => DashboardInv
<1> SUFFICES ASSUME Init PROVE DashboardInv
  OBVIOUS
<1>1. /\ teams = {} /\ members = [t \in TeamSet |-> {}] /\ log = [r \in Requests |-> NoRow]
      /\ page = "none" /\ ahead = [k \in Tasks |-> <<>>] /\ got = [k \in Tasks |-> NoAnswers]
      /\ since = Nothing
  BY DEF Init
<1>2. Logged = {} /\ Nothing \in [new : 0..MaxChanges, other : 0..MaxChanges]
  BY <1>1, DashboardAssumption DEF Logged, Nothing
<1>3. \A k \in Tasks : ahead[k] = <<>> /\ got[k] = NoAnswers /\ Answered(k) = {} /\ Pending(k) = {}
  BY <1>1, Groups DEF Answered, Pending, NoAnswers
<1>4. Tables
  BY <1>1, <1>2 DEF Tables
<1>5. Pages
  <2>1. \A k \in Tasks : <<>> \in Seq(SUBSET Queries)
    OBVIOUS
  <2> QED
    BY <1>1, <1>3, <2>1 DEF Pages
<1>6. Asks
  BY <1>3 DEF Asks, OverviewAsks, TeamsAsk, StudentsAsk, Asked, Answered, Tasks
<1>7. StudentsCameFirst /\ Dated
  BY <1>1, <1>3 DEF StudentsCameFirst, Dated, Tasks
<1> QED
  BY <1>4, <1>5, <1>6, <1>7 DEF DashboardInv

LEMMA StepKeeps == DashboardInv /\ [Next]_vars => DashboardInv'
<1>1. DashboardInv /\ Next => DashboardInv'
  BY ChangeKeeps, HomeKeeps, DetailKeeps, CsvKeeps, ActivitiesKeep, QueryKeeps DEF Next, Page
<1>2. DashboardInv /\ UNCHANGED vars => DashboardInv'
  <2> SUFFICES ASSUME DashboardInv, UNCHANGED vars PROVE DashboardInv'
    OBVIOUS
  <2>1. /\ teams' = teams /\ members' = members /\ log' = log /\ page' = page /\ ahead' = ahead
        /\ got' = got /\ since' = since
    BY DEF vars, tableVars, pageVars
  <2>2. Logged' = Logged
    BY <2>1 DEF Logged
  <2>3. \A t : RowsOf(t)' = RowsOf(t)
    BY <2>1, <2>2 DEF RowsOf
  <2>4. Tables' /\ Pages'
    BY <2>1, <2>2 DEF DashboardInv, Tables, Pages, Answered
  <2>5. Asks'
    BY <2>1 DEF DashboardInv, Asks, OverviewAsks, TeamsAsk, StudentsAsk, Asked, Either, Answered, Pending, Shown
  <2>6. StudentsCameFirst'
    BY <2>1, <2>2 DEF DashboardInv, StudentsCameFirst, CameFirst, Answered, Shown
  <2>7. \A old, early : Before(old, early) => Before(old, early)'
    BY <2>1, <2>2 DEF Before
  <2>8. \A old, early : AllTrue(old, early) => AllTrue(old, early)'
    <3> SUFFICES ASSUME NEW old, NEW early, AllTrue(old, early) PROVE AllTrue(old, early)'
      OBVIOUS
    <3>1. \A q, v : True(old, early, q, v) => True(old, early, q, v)'
      BY <2>1, <2>3 DEF True, Tells, Size
    <3> SUFFICES ASSUME NEW k \in Tasks, NEW q \in Answered(k)' PROVE True(old, early, q, Shown(k, q))'
      BY DEF AllTrue
    <3>2. PICK v : v = Shown(k, q)
      OBVIOUS
    <3>3. True(old, early, q, v)
      BY <2>1, <3>2 DEF AllTrue, Answered
    <3>4. v = Shown(k, q)'
      BY <2>1, <3>2 DEF Shown
    <3>5. True(old, early, q, v)'
      BY <3>1, <3>3
    <3> QED
      BY <3>4, <3>5 DEF True, Tells
  <2>9. Dated'
    BY <2>1, <2>7, <2>8 DEF DashboardInv, Dated
  <2> QED
    BY <2>4, <2>5, <2>6, <2>9 DEF DashboardInv
<1> QED
  BY <1>1, <1>2

LEMMA Invariance == Spec => []DashboardInv
BY InitHolds, StepKeeps, PTL DEF Spec

LEMMA DoneFacts ==
  ASSUME DashboardInv, NEW task \in Tasks, Done(task)
  PROVE  /\ Either(task) = Answered(task) /\ Answered(task) # {} /\ ahead[task] = <<>>
         /\ \E old \in SUBSET Requests, early \in SUBSET TeamSet : Before(old, early) /\ AllTrue(old, early)
<1>1. ahead[task] = <<>> /\ Answered(task) # {}
  BY DEF Done, Asked, Answered
<1>2. Pending(task) = {}
  BY <1>1, Groups DEF Pending
<1>3. page # "none"
  BY <1>1 DEF DashboardInv, Pages, Answered, NoAnswers
<1> QED
  BY <1>1, <1>2, <1>3 DEF Either, DashboardInv, Dated

\* Between the rows before and the present ones there are at most the new ones.
LEMMA SizesNear ==
  ASSUME Tables, NEW old, NEW early, Before(old, early), NEW t
  PROVE  /\ Size(t) \in Int /\ Cardinality(old \cap RowsOf(t)) \in Int
         /\ Size(t) - Cardinality(old \cap RowsOf(t)) <= since.new
         /\ old \cap RowsOf("all") = old
<1>1. /\ old \subseteq Logged /\ Cardinality(Logged) <= Cardinality(old) + since.new
      /\ RowsOf(t) \subseteq Logged /\ IsFiniteSet(Logged) /\ IsFiniteSet(RowsOf(t))
  BY Finite, RowsFinite DEF Before
<1>2. /\ Cardinality(RowsOf(t) \ old) = Cardinality(RowsOf(t)) - Cardinality(RowsOf(t) \cap old)
      /\ Cardinality(Logged \ old) = Cardinality(Logged) - Cardinality(Logged \cap old)
  BY <1>1, FS_Difference
<1>3. Logged \cap old = old /\ RowsOf(t) \cap old = old \cap RowsOf(t)
  BY <1>1
<1>4. Cardinality(RowsOf(t) \ old) <= Cardinality(Logged \ old)
  <2>1. RowsOf(t) \ old \subseteq Logged \ old /\ IsFiniteSet(Logged \ old)
    BY <1>1, FS_Subset
  <2> QED
    BY <2>1, SubsetLeq
<1>5. /\ Cardinality(old) \in Int /\ Cardinality(Logged) \in Int /\ Size(t) \in Int
      /\ Cardinality(old \cap RowsOf(t)) \in Int /\ since.new \in Int
  <2>1. old \subseteq Requests /\ old \cap RowsOf(t) \subseteq Requests
    BY <1>1, Finite
  <2> QED
    BY <2>1, Finite, RowsFinite DEF Tables
<1>6. Cardinality(Logged \ old) = Cardinality(Logged) - Cardinality(old)
      /\ Cardinality(RowsOf(t) \ old) = Size(t) - Cardinality(old \cap RowsOf(t))
  BY <1>2, <1>3 DEF Size
<1>7. Size(t) - Cardinality(old \cap RowsOf(t)) <= Cardinality(Logged) - Cardinality(old)
  BY <1>4, <1>6
<1>8. Size(t) - Cardinality(old \cap RowsOf(t)) <= since.new
  BY <1>1, <1>5, <1>7
<1>9. old \cap RowsOf("all") = old
  BY <1>1, Finite
<1> QED
  BY <1>5, <1>8, <1>9

LEMMA BothNear ==
  ASSUME Tables, NEW old, NEW early, Before(old, early), NEW t, NEW a, NEW b, Tells(old, a, t), Tells(old, b, t)
  PROVE  Near(a, b)
<1>1. since.new \in Int
  BY DEF Tables
<1> QED
  BY <1>1, SizesNear DEF Tells, Near

LEMMA OverviewHolds == DashboardInv => OverviewAdds
<1> SUFFICES ASSUME DashboardInv, Done("overview") PROVE OverviewAdds
  BY DEF OverviewAdds
<1>1. "overview" \in Tasks /\ Tables /\ OverviewAsks
  BY DEF Tasks, DashboardInv, Asks
<1>2. PICK old \in SUBSET Requests, early \in SUBSET TeamSet : Before(old, early) /\ AllTrue(old, early)
  BY <1>1, DoneFacts
<1>3. {Q("teams"), Q("total"), Q("failed"), Q("active")} \subseteq Answered("overview")
  BY <1>1, DoneFacts DEF OverviewAsks, Done
<1>4. \A w \in {"teams", "total", "failed", "active"} : True(old, early, Q(w), Shown("overview", Q(w)))
  BY <1>1, <1>2, <1>3 DEF AllTrue
<1>5. /\ Shown("overview", Q("teams")) \in Int /\ Cardinality(early) <= Shown("overview", Q("teams"))
      /\ Tells(old, Shown("overview", Q("total")), "all")
      /\ Shown("overview", Q("failed")) \in Int /\ Shown("overview", Q("failed")) <= Size("all")
      /\ Shown("overview", Q("active")) \in Int /\ Shown("overview", Q("active")) <= Size("all")
      /\ Shown("overview", Q("active")) <= Cardinality(teams)
  BY <1>4 DEF True, Q
<1>6. Size("all") \in Int /\ Size("all") - Cardinality(old \cap RowsOf("all")) <= since.new
      /\ Cardinality(old \cap RowsOf("all")) \in Int
  BY <1>1, <1>2, SizesNear
<1>7. Cardinality(teams) <= Cardinality(early) + since.new /\ Cardinality(teams) \in Int
      /\ Cardinality(early) \in Int /\ since.new \in Int
  BY <1>1, <1>2, Finite DEF Before, Tables
<1>8. Size("all") <= Shown("overview", Q("total")) + since.new /\ Shown("overview", Q("total")) \in Int
  BY <1>5, <1>6, <1>7 DEF Tells
<1>9. Cardinality(teams) <= Shown("overview", Q("teams")) + since.new
  BY <1>5, <1>7
<1> QED
  BY <1>5, <1>6, <1>7, <1>8, <1>9 DEF OverviewAdds

\* The answers about a team that was listed.
LEMMA TeamTells ==
  ASSUME DashboardInv, Done("teams"), NEW old, NEW early, AllTrue(old, early),
         NEW t \in Shown("teams", Q("list"))
  PROVE  /\ Tells(old, Shown("teams", QT("total", t)), t)
         /\ Tells(old, SumFunction(Shown("teams", QT("byMethod", t))), t)
         /\ Tells(old, SumFunction(Shown("teams", QT("byStatus", t))), t)
<1>1. "teams" \in Tasks /\ TeamsAsk
  BY DEF Tasks, DashboardInv, Asks
<1>2. Answered("teams") # {} /\ Either("teams") = Answered("teams")
  BY <1>1, DoneFacts
<1>3. \A w \in {"total", "byMethod", "byStatus"} : QT(w, t) \in Answered("teams")
  BY <1>1, <1>2 DEF TeamsAsk
<1>4. \A w \in {"total", "byMethod", "byStatus"} : True(old, early, QT(w, t), Shown("teams", QT(w, t)))
  BY <1>1, <1>3 DEF AllTrue
<1> QED
  BY <1>4 DEF True, QT

LEMMA TeamNumbersHold == DashboardInv => TeamNumbersAdd
<1> SUFFICES ASSUME DashboardInv, Done("teams"), NEW t \in Shown("teams", Q("list"))
             PROVE  /\ Near(Shown("teams", QT("total", t)), SumFunction(Shown("teams", QT("byMethod", t))))
                    /\ Near(Shown("teams", QT("total", t)), SumFunction(Shown("teams", QT("byStatus", t))))
  BY DEF TeamNumbersAdd
<1>1. PICK old \in SUBSET Requests, early \in SUBSET TeamSet : Before(old, early) /\ AllTrue(old, early)
  BY DoneFacts DEF Tasks
<1> QED
  BY <1>1, TeamTells, BothNear DEF DashboardInv

\* A team's total lies between its rows before and its present ones, and so does
\* the sum over the teams: a row of before is of a team that was listed.
LEMMA TotalsTell ==
  ASSUME DashboardInv, Done("teams"), NEW old, NEW early, Before(old, early), AllTrue(old, early)
  PROVE  LET listed == Shown("teams", Q("list"))
             sum == SumFunction([t \in listed |-> Shown("teams", QT("total", t))])
         IN  sum \in Int /\ Cardinality(old) <= sum /\ sum <= Size("all")
<1> DEFINE listed == Shown("teams", Q("list"))
           f == [t \in listed |-> Shown("teams", QT("total", t))]
           o == [t \in listed |-> Cardinality(old \cap RowsOf(t))]
           z == [t \in listed |-> Size(t)]
<1>1. "teams" \in Tasks /\ Tables /\ TeamsAsk
  BY DEF Tasks, DashboardInv, Asks
<1>2. Q("list") \in Answered("teams")
  BY <1>1, DoneFacts DEF TeamsAsk
<1>3. early \subseteq listed /\ listed \subseteq teams
  BY <1>1, <1>2 DEF AllTrue, True, Q
<1>4. listed \subseteq TeamSet /\ IsFiniteSet(listed)
  BY <1>1, <1>3, Finite DEF Tables
<1>5. \A t \in listed : /\ f[t] \in Int /\ o[t] \in Int /\ z[t] \in Int
                        /\ o[t] <= f[t] /\ f[t] <= z[t]
  <2> TAKE t \in listed
  <2>1. Tells(old, Shown("teams", QT("total", t)), t)
    BY TeamTells
  <2>2. Size(t) \in Int /\ Cardinality(old \cap RowsOf(t)) \in Int
    BY <1>1, SizesNear
  <2> QED
    BY <2>1, <2>2 DEF Tells
<1>6. DOMAIN f = listed /\ DOMAIN o = listed /\ DOMAIN z = listed
  OBVIOUS
<1> DEFINE k == [r \in Requests |-> log[r].team]
           R == {r \in Logged : log[r].team \in listed}
<1>7. \A t \in TeamSet : RowsOf(t) = {r \in Logged : log[r].team = t}
  BY TeamSetFacts DEF RowsOf
<1>8. /\ old \subseteq Logged /\ Logged \subseteq Requests /\ \A r \in old : log[r].team \in listed
  BY <1>3, Finite DEF Before
<1>9. \A r \in Logged : k[r] = log[r].team
  BY <1>8
<1>10. o = [t \in listed |-> Cardinality({r \in old : k[r] = t})]
  <2>1. \A t \in listed : old \cap RowsOf(t) = {r \in old : k[r] = t}
    BY <1>4, <1>7, <1>8, <1>9
  <2> HIDE DEF k, listed
  <2> QED
    BY <2>1
<1>11. z = [t \in listed |-> Cardinality({r \in R : k[r] = t})]
  <2>1. \A t \in listed : RowsOf(t) = {r \in R : k[r] = t}
    BY <1>4, <1>7, <1>9
  <2> HIDE DEF k, listed, R
  <2> QED
    BY <2>1 DEF Size
<1>12. R \subseteq Requests /\ old \subseteq Requests /\ R \subseteq Logged
       /\ (\A r \in R : k[r] \in listed) /\ \A r \in old : k[r] \in listed
  BY <1>8, <1>9
<1> HIDE DEF listed, f, o, z, k, R
<1>13. PICK L, ff, oo, zz : L = listed /\ ff = f /\ oo = o /\ zz = z
  OBVIOUS
<1>14. SumFunction(oo) = Cardinality(old) /\ SumFunction(zz) = Cardinality(R)
  BY <1>4, <1>10, <1>11, <1>12, <1>13, GroupsAdd
<1>15. /\ SumFunction(ff) = Sum(ff, L) /\ SumFunction(oo) = Sum(oo, L) /\ SumFunction(zz) = Sum(zz, L)
  BY <1>6, <1>13, SumFunctionIs
<1>16. Sum(oo, L) <= Sum(ff, L) /\ Sum(ff, L) <= Sum(zz, L) /\ Sum(ff, L) \in Int
  BY <1>4, <1>5, <1>13, SumLeq, SumType
<1>17. Cardinality(R) <= Size("all") /\ Cardinality(R) \in Int /\ Size("all") \in Int /\ Cardinality(old) \in Int
  BY <1>12, Finite, SubsetLeq DEF Size
<1>18. SumFunction(f) \in Int /\ Cardinality(old) <= SumFunction(f) /\ SumFunction(f) <= Size("all")
  BY <1>13, <1>14, <1>15, <1>16, <1>17
<1> QED
  BY <1>18 DEF f, listed

LEMMA HalvesHold == DashboardInv => HalvesAgree
<1> SUFFICES ASSUME DashboardInv, Done("teams"), Done("students") PROVE HalvesAgree
  BY DEF HalvesAgree
<1>1. "teams" \in Tasks /\ "students" \in Tasks /\ Tables /\ StudentsAsk
  BY DEF Tasks, DashboardInv, Asks
<1>2. PICK old \in SUBSET Requests, early \in SUBSET TeamSet : Before(old, early) /\ AllTrue(old, early)
  BY <1>1, DoneFacts
<1>3. PICK a : a = SumFunction([t \in Shown("teams", Q("list")) |-> Shown("teams", QT("total", t))])
  OBVIOUS
<1>4. a \in Int /\ Cardinality(old) <= a /\ a <= Size("all")
  BY <1>2, <1>3, TotalsTell
<1>5. PICK v : v = Shown("students", Q("byStudent"))
  OBVIOUS
<1>6. Q("byStudent") \in Answered("students")
  BY <1>1, DoneFacts DEF StudentsAsk
<1>7. Tells(old, SumFunction(Requested(v)), "all")
  BY <1>1, <1>2, <1>5, <1>6 DEF AllTrue, True, Q
<1>8. old \cap RowsOf("all") = old
  BY <1>1, <1>2, SizesNear
<1>9. Tells(old, a, "all")
  BY <1>4, <1>8 DEF Tells
<1>10. Near(a, SumFunction(Requested(v)))
  BY <1>1, <1>2, <1>7, <1>9, BothNear
<1> QED
  BY <1>3, <1>5, <1>10 DEF HalvesAgree, Requested

LEMMA TypesHold == DashboardInv => TypeOK
<1> SUFFICES ASSUME DashboardInv PROVE TypeOK
  OBVIOUS
<1>1. Tables /\ Pages
  BY DEF DashboardInv
<1>2. \A r \in Logged : log[r].status \in Outcomes \cup {"null"}
  BY <1>1, LoggedRow, Finite DEF LogRow, Statuses
<1>3. DOMAIN ahead = Tasks /\ DOMAIN got = Tasks
  BY <1>1 DEF Pages
<1> QED
  BY <1>1, <1>2, <1>3 DEF TypeOK, Tables, Pages

\* The numbers a page shows add up, up to the rows and teams that came since it
\* was asked: counts and sums over any tables, in any order of the answers
\* (overview, teamActivity and studentActivity of AdminDashboardService).
THEOREM PagesAlwaysAdd == Spec => []PagesAdd
<1>1. DashboardInv => PagesAdd
  BY TypesHold, OverviewHolds, TeamNumbersHold, HalvesHold DEF PagesAdd
<1> QED
  BY <1>1, Invariance, PTL

LEMMA ShownStudentHolds == DashboardInv => StudentsHaveTeams
<1> SUFFICES ASSUME DashboardInv, Done("students"),
                    NEW s \in DOMAIN Shown("students", Q("byStudent"))
             PROVE  /\ Listing(s) # {}
                    /\ \/ \E r \in Logged : log[r].student = s /\ log[r].team = ShownTeam(s)
                       \/ Cardinality({t \in TeamSet : s \in members[t]}) > 1
  BY DEF StudentsHaveTeams
<1>1. "students" \in Tasks /\ Tables /\ StudentsAsk /\ StudentsCameFirst
  BY DEF Tasks, DashboardInv, Asks
<1>2. /\ {Q("byStudent"), Q("list")} \subseteq Answered("students")
      /\ \A t \in Shown("students", Q("list")) : QT("members", t) \in Answered("students")
  BY <1>1, DoneFacts DEF StudentsAsk
<1>3. PICK old \in SUBSET Requests, early \in SUBSET TeamSet : Before(old, early) /\ AllTrue(old, early)
  BY <1>1, DoneFacts
<1>4. Shown("students", Q("list")) \subseteq teams
  BY <1>1, <1>2, <1>3 DEF AllTrue, True, Q
<1>5. \A t \in Shown("students", Q("list")) : Shown("students", QT("members", t)) \subseteq members[t]
  BY <1>1, <1>2, <1>3 DEF AllTrue, True, QT
<1>6. PICK r \in Logged : CameFirst(r, s)
  BY <1>1, <1>2 DEF StudentsCameFirst
<1>7. PICK t : t = log[r].team
  OBVIOUS
<1>8. /\ t \in Shown("students", Q("list")) /\ t \in TeamSet /\ s \in Shown("students", QT("members", t))
      /\ log[r].student = s
  BY <1>1, <1>2, <1>4, <1>6, <1>7 DEF CameFirst, Tables
<1>9. Listing(s) # {} /\ Listing(s) \subseteq 1..Len(Teams)
  BY <1>8, TeamSetFacts DEF Listing
<1>10. Max(Listing(s)) \in Listing(s)
  <2>1. PICK n, S : n = Len(Teams) /\ S = Listing(s)
    OBVIOUS
  <2>2. n \in Nat /\ S \in SUBSET (1..n) /\ S # {}
    BY <1>9, <2>1, TeamSetFacts
  <2> QED
    BY <2>1, <2>2, LastPlace
<1>11. PICK u : u = ShownTeam(s)
  OBVIOUS
<1>12. u \in Shown("students", Q("list")) /\ s \in Shown("students", QT("members", u))
  BY <1>10, <1>11 DEF Listing, ShownTeam
<1>13. CASE u = t
  BY <1>6, <1>7, <1>8, <1>9, <1>11, <1>13
<1>14. CASE u # t
  <2>1. {t, u} \subseteq {x \in TeamSet : s \in members[x]}
    BY <1>1, <1>4, <1>5, <1>8, <1>12 DEF Tables
  <2>2. IsFiniteSet({x \in TeamSet : s \in members[x]})
    BY Finite
  <2>3. Cardinality({t, u}) = 2
    <3>1. {t, u} = {t} \cup {u} /\ u \notin {t}
      BY <1>14
    <3>2. IsFiniteSet({t}) /\ Cardinality({t}) = 1
      BY FS_Singleton
    <3> QED
      BY <3>1, <3>2, FS_AddElement
  <2>4. Cardinality({x \in TeamSet : s \in members[x]}) > 1
    <3>1. /\ Cardinality({t, u}) <= Cardinality({x \in TeamSet : s \in members[x]})
          /\ Cardinality({x \in TeamSet : s \in members[x]}) \in Nat
      BY <2>1, <2>2, SubsetLeq
    <3> QED
      BY <2>3, <3>1
  <2> QED
    BY <1>9, <2>4
<1> QED
  BY <1>13, <1>14

\* A student shown with requests has a team, and one he made a request for unless
\* he is a member of two (studentActivity: the log first, then the teams and
\* their members).
THEOREM ShownStudentsHaveTeams == Spec => []StudentsHaveTeams
BY ShownStudentHolds, Invariance, PTL
------------------------------------------------------------------------------
(* The activity report *)

DatedForms == [type : Types, id : Ids, start : Days, end : Days]
Reportable(f) == activities \in Seq(Rows) /\ f \in DatedForms /\ f.start <= f.end

\* The days of the chart, and the rows of a bar of it.
Drawn(f) == Min({f.end - f.start + 1, Guard})
Bar(f, i) == {j \in Filtered(f) : DhakaHour(activities[j]) = 24 * f.start + i - 1}
Charted(f) == RowsIn(f, 24 * f.start, 24 * Min({f.end + 1, f.start + Guard}) - 1)

LEMMA HourAndDay ==
  ASSUME NEW h \in Int
  PROVE  h \div 24 \in Int /\ h % 24 \in 0..23 /\ h = 24 * (h \div 24) + (h % 24)
OBVIOUS

LEMMA HoursOfDays ==
  ASSUME NEW d \in Int, NEW m \in 0..23, NEW a \in Int, NEW b \in Int
  PROVE  a <= d /\ d <= b <=> 24 * d + m \in (24 * a)..(24 * b + 23)
OBVIOUS

LEMMA HoursDiffer ==
  ASSUME NEW d \in Int, NEW m \in 0..23, NEW e \in Int, NEW n \in 0..23
  PROVE  d = e /\ m = n <=> 24 * d + m = 24 * e + n
OBVIOUS

LEMMA RowTimes ==
  ASSUME activities \in Seq(Rows), NEW i \in DOMAIN activities
  PROVE  /\ DhakaHour(activities[i]) \in Int
         /\ DayOf(activities[i]) \in Int /\ HourOf(activities[i]) \in 0..23
         /\ DhakaHour(activities[i]) = 24 * DayOf(activities[i]) + HourOf(activities[i])
<1>1. activities[i] \in Rows
  OBVIOUS
<1>2. activities[i].at.wall \in Int /\ activities[i].at.zone \in Int
  BY <1>1 DEF Rows
<1>3. DhakaHour(activities[i]) \in Int
  BY <1>2 DEF DhakaHour
<1> QED
  BY <1>3, HourAndDay DEF DayOf, HourOf

LEMMA PlacesFinite ==
  ASSUME activities \in Seq(Rows)
  PROVE  \A S \in SUBSET DOMAIN activities : IsFiniteSet(S) /\ Cardinality(S) \in Nat
<1>1. DOMAIN activities = 1..Len(activities) /\ Len(activities) \in Nat
  OBVIOUS
<1>2. IsFiniteSet(DOMAIN activities)
  <2>1. \A n \in Nat : IsFiniteSet(1..n)
    BY FS_Interval
  <2> QED
    BY <1>1, <2>1
<1> QED
  BY <1>2, FS_Subset, FS_CardinalityType

LEMMA DatesFit ==
  ASSUME NEW f, Reportable(f)
  PROVE  f.start \in Nat /\ f.end \in Nat /\ f.start <= f.end
BY ReportAssumption DEF Reportable, DatedForms

\* Filtering by days is filtering by the hours of the days.
LEMMA FilteredByHour ==
  ASSUME NEW f, Reportable(f)
  PROVE  Filtered(f) = RowsIn(f, 24 * f.start, 24 * f.end + 23)
<1>1. ASSUME NEW i \in DOMAIN activities
      PROVE  f.start <= DayOf(activities[i]) /\ DayOf(activities[i]) <= f.end
               <=> DhakaHour(activities[i]) \in (24 * f.start)..(24 * f.end + 23)
  <2> DEFINE d == DayOf(activities[i])
             m == HourOf(activities[i])
  <2>1. d \in Int /\ m \in 0..23 /\ DhakaHour(activities[i]) = 24 * d + m
    BY RowTimes DEF Reportable
  <2>2. f.start \in Int /\ f.end \in Int
    BY DatesFit
  <2> HIDE DEF d, m
  <2>3. f.start <= d /\ d <= f.end <=> 24 * d + m \in (24 * f.start)..(24 * f.end + 23)
    BY <2>1, <2>2, HoursOfDays
  <2> QED
    BY <2>1, <2>3 DEF d
<1> QED
  BY <1>1 DEF Filtered, HisRows, RowsIn

LEMMA DrawnDays ==
  ASSUME NEW f, Reportable(f)
  PROVE  /\ Drawn(f) \in Nat \ {0} /\ Drawn(f) <= f.end - f.start + 1
         /\ Min({f.end + 1, f.start + Guard}) = f.start + Drawn(f)
<1>1. ASSUME NEW a \in Int, NEW b \in Int
      PROVE  Min({a, b}) = IF a <= b THEN a ELSE b
  <2>1. \E x \in {a, b} : \A y \in {a, b} : x <= y
    OBVIOUS
  <2>2. Min({a, b}) \in {a, b} /\ \A y \in {a, b} : Min({a, b}) <= y
    BY <2>1 DEF Min
  <2> QED
    BY <2>2
<1>2. Guard \in Nat \ {0}
  BY ReportAssumption
<1>3. f.end - f.start + 1 \in Int /\ f.end + 1 \in Int /\ f.start + Guard \in Int
  BY <1>2, DatesFit
<1>4. Drawn(f) = IF f.end - f.start + 1 <= Guard THEN f.end - f.start + 1 ELSE Guard
  BY <1>1, <1>2, <1>3 DEF Drawn
<1>5. Min({f.end + 1, f.start + Guard}) = IF f.end + 1 <= f.start + Guard THEN f.end + 1 ELSE f.start + Guard
  BY <1>1, <1>3
<1> QED
  BY <1>2, <1>4, <1>5, DatesFit

LEMMA BucketsAre ==
  ASSUME NEW f, Reportable(f)
  PROVE  /\ DOMAIN Buckets(f) = 1..24 * Drawn(f)
         /\ \A i \in 1..24 * Drawn(f) : /\ Buckets(f)[i] \in Bars
                                        /\ 24 * Buckets(f)[i].day + Buckets(f)[i].hour = 24 * f.start + i - 1
<1>1. Buckets(f) = [i \in 1..24 * Drawn(f) |-> [day |-> f.start + (i - 1) \div 24, hour |-> (i - 1) % 24]]
  BY DEF Buckets, Drawn
<1>2. ASSUME NEW i \in 1..24 * Drawn(f)
      PROVE  /\ Buckets(f)[i] \in Bars
             /\ 24 * Buckets(f)[i].day + Buckets(f)[i].hour = 24 * f.start + i - 1
  <2>1. i - 1 \in Nat
    BY DrawnDays
  <2>2. (i - 1) \div 24 \in Int /\ (i - 1) % 24 \in 0..23 /\ i - 1 = 24 * ((i - 1) \div 24) + ((i - 1) % 24)
    BY <2>1, HourAndDay
  <2>3. (i - 1) \div 24 >= 0
    BY <2>1, <2>2
  <2>4. Buckets(f)[i] = [day |-> f.start + (i - 1) \div 24, hour |-> (i - 1) % 24]
    BY <1>1
  <2>5. f.start + (i - 1) \div 24 \in Nat /\ 24 * (f.start + (i - 1) \div 24) + ((i - 1) % 24) = 24 * f.start + i - 1
    BY <2>1, <2>2, <2>3, DatesFit
  <2> QED
    BY <2>2, <2>4, <2>5 DEF Bars
<1> QED
  BY <1>1, <1>2

\* A bar counts the rows of its hour.
LEMMA BarCounts ==
  ASSUME NEW f, Reportable(f), NEW i \in 1..24 * Drawn(f)
  PROVE  CountIn(Filtered(f), Buckets(f)[i]) = Cardinality(Bar(f, i))
<1>1. /\ Buckets(f)[i].day \in Nat /\ Buckets(f)[i].hour \in 0..23
      /\ 24 * Buckets(f)[i].day + Buckets(f)[i].hour = 24 * f.start + i - 1
  BY BucketsAre DEF Bars
<1>2. ASSUME NEW j \in Filtered(f)
      PROVE  DayOf(activities[j]) = Buckets(f)[i].day /\ HourOf(activities[j]) = Buckets(f)[i].hour
               <=> DhakaHour(activities[j]) = 24 * f.start + i - 1
  <2>1. j \in DOMAIN activities
    BY DEF Filtered, HisRows
  <2> DEFINE d == DayOf(activities[j])
             m == HourOf(activities[j])
             e == Buckets(f)[i].day
             n == Buckets(f)[i].hour
  <2>2. d \in Int /\ m \in 0..23 /\ DhakaHour(activities[j]) = 24 * d + m
    BY <2>1, RowTimes DEF Reportable
  <2>3. e \in Int /\ n \in 0..23 /\ 24 * e + n = 24 * f.start + i - 1
    BY <1>1
  <2> HIDE DEF d, m, e, n
  <2>4. d = e /\ m = n <=> 24 * d + m = 24 * e + n
    BY <2>2, <2>3, HoursDiffer
  <2> QED
    BY <2>2, <2>3, <2>4 DEF d, m, e, n
<1> QED
  BY <1>2 DEF CountIn, Bar

LEMMA ChartIsOfRows ==
  ASSUME NEW f, Reportable(f)
  PROVE  /\ Filtered(f) \subseteq DOMAIN activities
         /\ Charted(f) = {j \in Filtered(f) : DhakaHour(activities[j]) < 24 * (f.start + Drawn(f))}
         /\ \A j \in Charted(f) : /\ DhakaHour(activities[j]) \in Int
                                  /\ DhakaHour(activities[j]) - 24 * f.start + 1 \in 1..24 * Drawn(f)
<1>1. Filtered(f) \subseteq DOMAIN activities
  BY DEF Filtered, HisRows
<1>2. Charted(f) = RowsIn(f, 24 * f.start, 24 * (f.start + Drawn(f)) - 1)
  BY DrawnDays DEF Charted
<1>3. \A j \in DOMAIN activities : DhakaHour(activities[j]) \in Int
  BY RowTimes DEF Reportable
<1> DEFINE s == f.start
           e == f.end
           n == Drawn(f)
<1>4. s \in Int /\ e \in Int /\ n \in Nat /\ n <= e - s + 1
  <2>1. s \in Int /\ e \in Int
    BY DatesFit
  <2>2. n \in Nat \ {0} /\ n <= e - s + 1
    BY DrawnDays
  <2> QED
    BY <2>1, <2>2
<1>5. ASSUME NEW j \in DOMAIN activities
      PROVE  /\ j \in Charted(f) <=> j \in Filtered(f) /\ DhakaHour(activities[j]) < 24 * (s + n)
             /\ j \in Charted(f) => DhakaHour(activities[j]) - 24 * s + 1 \in 1..24 * n
  <2> DEFINE h == DhakaHour(activities[j])
  <2>1. h \in Int
    BY <1>3
  <2>2. j \in Charted(f) <=> IdOf(activities[j], f.type) = f.id /\ h \in (24 * s)..(24 * (s + n) - 1)
    BY <1>2 DEF RowsIn
  <2>3. j \in Filtered(f) <=> IdOf(activities[j], f.type) = f.id /\ h \in (24 * s)..(24 * e + 23)
    BY FilteredByHour DEF RowsIn
  <2> HIDE DEF s, e, n, h
  <2>4. h \in (24 * s)..(24 * (s + n) - 1) <=> h \in (24 * s)..(24 * e + 23) /\ h < 24 * (s + n)
    BY <1>4, <2>1
  <2>5. h \in (24 * s)..(24 * (s + n) - 1) => h - 24 * s + 1 \in 1..24 * n
    BY <1>4, <2>1
  <2> QED
    BY <2>2, <2>3, <2>4, <2>5 DEF h
<1>6. Charted(f) \subseteq DOMAIN activities
  BY DEF Charted, RowsIn
<1> QED
  BY <1>1, <1>3, <1>5, <1>6

Heights(f) == [i \in 1..24 * Drawn(f) |-> Cardinality(Bar(f, i))]

LEMMA BarsFit ==
  ASSUME NEW f, Reportable(f)
  PROVE  /\ 24 * Drawn(f) \in Nat \ {0} /\ IsFiniteSet(1..24 * Drawn(f))
         /\ \A i \in 1..24 * Drawn(f) : /\ IsFiniteSet(Bar(f, i)) /\ Heights(f)[i] \in Nat
                                        /\ Heights(f)[i] = Cardinality(Bar(f, i))
                                        /\ Heights(f)[i] = 0 <=> Bar(f, i) = {}
         /\ Made(f).counts = Heights(f)
<1>1. 24 * Drawn(f) \in Nat \ {0}
  <2>1. Drawn(f) \in Nat \ {0}
    BY DrawnDays
  <2> QED
    BY <2>1
<1>2. IsFiniteSet(1..24 * Drawn(f))
  <2>1. \A n \in Nat : IsFiniteSet(1..n)
    BY FS_Interval
  <2> QED
    BY <1>1, <2>1
<1>3. ASSUME NEW i \in 1..24 * Drawn(f)
      PROVE  /\ IsFiniteSet(Bar(f, i)) /\ Heights(f)[i] \in Nat
             /\ Heights(f)[i] = Cardinality(Bar(f, i))
             /\ Heights(f)[i] = 0 <=> Bar(f, i) = {}
  <2>1. Bar(f, i) \in SUBSET DOMAIN activities
    BY ChartIsOfRows DEF Bar
  <2>2. IsFiniteSet(Bar(f, i)) /\ Cardinality(Bar(f, i)) \in Nat
    BY <2>1, PlacesFinite DEF Reportable
  <2> QED
    BY <2>2, FS_EmptySet DEF Heights
<1>4. Made(f).counts = Heights(f)
  <2>1. DOMAIN Buckets(f) = 1..24 * Drawn(f)
    BY BucketsAre
  <2>2. [i \in DOMAIN Buckets(f) |-> CountIn(Filtered(f), Buckets(f)[i])] = Heights(f)
    BY <2>1, BarCounts DEF Heights
  <2>3. Made(f).counts = [i \in DOMAIN Buckets(f) |-> CountIn(Filtered(f), Buckets(f)[i])]
    BY DEF Made
  <2> QED
    BY <2>2, <2>3
<1> QED
  BY <1>1, <1>2, <1>3, <1>4

\* The rows of a bar are charted.
LEMMA BarIsCharted ==
  ASSUME NEW f, Reportable(f), NEW i \in 1..24 * Drawn(f)
  PROVE  Bar(f, i) = {j \in Charted(f) : DhakaHour(activities[j]) = 24 * f.start + i - 1}
<1> DEFINE s == f.start
           n == Drawn(f)
<1>1. s \in Int /\ n \in Nat /\ i \in 1..24 * n
  <2>1. s \in Int
    BY DatesFit
  <2>2. n \in Nat \ {0}
    BY DrawnDays
  <2> QED
    BY <2>1, <2>2
<1>2. 24 * s + i - 1 < 24 * (s + n)
  <2> HIDE DEF s, n
  <2> QED
    BY <1>1
<1> QED
  BY <1>2, ChartIsOfRows DEF Bar

\* The bars add up to the rows charted.
LEMMA BarsAddUp ==
  ASSUME NEW f, Reportable(f)
  PROVE  FoldSeq(+, 0, Heights(f)) = Cardinality(Charted(f))
<1> DEFINE N == 24 * Drawn(f)
           k == [j \in Charted(f) |-> DhakaHour(activities[j]) - 24 * f.start + 1]
<1>1. IsFiniteSet(Charted(f))
  BY ChartIsOfRows, PlacesFinite DEF Reportable
<1>2. \A j \in Charted(f) : k[j] \in 1..N
  BY ChartIsOfRows
<1>3. Heights(f) = Counts(Charted(f), k, 1..N)
  <2>1. ASSUME NEW i \in 1..N PROVE Bar(f, i) = {j \in Charted(f) : k[j] = i}
    <3>1. f.start \in Int
      BY DatesFit
    <3>2. ASSUME NEW h \in Int PROVE h = 24 * f.start + i - 1 <=> h - 24 * f.start + 1 = i
      BY <3>1
    <3>3. \A j \in Charted(f) : DhakaHour(activities[j]) \in Int
      BY ChartIsOfRows
    <3> QED
      BY <3>2, <3>3, BarIsCharted
  <2> QED
    BY <2>1 DEF Heights, Counts
<1>4. FoldSeq(+, 0, Heights(f)) = Sum(Heights(f), 1..N)
  <2>1. DOMAIN Heights(f) = 1..N
    BY DEF Heights
  <2> QED
    BY <2>1 DEF FoldSeq, FoldFunction, Sum, SumFunctionOnSet
<1> HIDE DEF k
<1>5. Sum(Counts(Charted(f), k, 1..N), 1..N) = Cardinality(Charted(f))
  BY <1>1, <1>2, BarsFit, SumOfCounts
<1> QED
  BY <1>3, <1>4, <1>5

ChartHours(f) == {DhakaHour(activities[j]) : j \in Charted(f)}

LEMMA HoursAreBars ==
  ASSUME NEW f, Reportable(f)
  PROVE  /\ \A i \in 1..24 * Drawn(f) : 24 * f.start + i - 1 \in ChartHours(f) <=> Heights(f)[i] > 0
         /\ \A h \in ChartHours(f) : h \in Int /\ \E i \in 1..24 * Drawn(f) : h = 24 * f.start + i - 1
<1>1. ASSUME NEW i \in 1..24 * Drawn(f)
      PROVE  24 * f.start + i - 1 \in ChartHours(f) <=> Heights(f)[i] > 0
  <2>1. Heights(f)[i] \in Nat /\ (Heights(f)[i] = 0 <=> Bar(f, i) = {})
    BY BarsFit
  <2>2. Bar(f, i) # {} <=> 24 * f.start + i - 1 \in ChartHours(f)
    BY BarIsCharted DEF ChartHours
  <2> QED
    BY <2>1, <2>2
<1>2. ASSUME NEW h \in ChartHours(f)
      PROVE  h \in Int /\ \E i \in 1..24 * Drawn(f) : h = 24 * f.start + i - 1
  <2>1. PICK j \in Charted(f) : h = DhakaHour(activities[j])
    BY DEF ChartHours
  <2>2. h \in Int /\ h - 24 * f.start + 1 \in 1..24 * Drawn(f)
    BY <2>1, ChartIsOfRows
  <2>3. f.start \in Int
    BY DatesFit
  <2>4. h = 24 * f.start + (h - 24 * f.start + 1) - 1
    BY <2>2, <2>3
  <2> QED
    BY <2>2, <2>4
<1> QED
  BY <1>1, <1>2

\* An hour is active if it is the hour of a row.
LEMMA ActiveHoursCount ==
  ASSUME NEW f, Reportable(f)
  PROVE  Made(f).activeHours = Cardinality(ChartHours(f))
<1> DEFINE N == 24 * Drawn(f)
           A == {i \in 1..N : Heights(f)[i] > 0}
           up == [i \in A |-> 24 * f.start + i - 1]
           down == [h \in ChartHours(f) |-> h - 24 * f.start + 1]
<1>1. f.start \in Int /\ A \subseteq Int
  BY DatesFit
<1>2. IsFiniteSet(A)
  BY BarsFit, FS_Subset
<1>3. {up[i] : i \in A} = ChartHours(f)
  BY HoursAreBars
<1>4. {down[h] : h \in ChartHours(f)} = A
  <2>1. ASSUME NEW h \in ChartHours(f) PROVE down[h] \in A
    <3>1. PICK i \in 1..N : h = 24 * f.start + i - 1
      BY HoursAreBars
    <3>2. h - 24 * f.start + 1 = i
      BY <1>1, <3>1
    <3>3. Heights(f)[i] > 0
      BY <3>1, HoursAreBars
    <3> QED
      BY <3>2, <3>3
  <2>2. ASSUME NEW i \in A PROVE \E h \in ChartHours(f) : down[h] = i
    <3>1. 24 * f.start + i - 1 \in ChartHours(f)
      BY HoursAreBars
    <3>2. (24 * f.start + i - 1) - 24 * f.start + 1 = i
      BY <1>1
    <3>3. down[24 * f.start + i - 1] = i
      BY <3>1, <3>2
    <3> QED
      BY <3>1, <3>3
  <2> QED
    BY <2>1, <2>2
<1>5. Cardinality(A) = Cardinality(ChartHours(f))
  <2> HIDE DEF A, up, down
  <2>1. /\ IsFiniteSet(ChartHours(f)) /\ Cardinality(ChartHours(f)) \in Nat
        /\ Cardinality(ChartHours(f)) <= Cardinality(A)
    BY <1>2, <1>3, Image
  <2>2. Cardinality(A) \in Nat /\ Cardinality(A) <= Cardinality(ChartHours(f))
    BY <1>4, <2>1, Image
  <2> QED
    BY <2>1, <2>2
<1>6. Made(f).activeHours = Cardinality(A)
  <2>1. DOMAIN Buckets(f) = 1..N
    BY BucketsAre
  <2>2. Made(f).activeHours = Cardinality({i \in DOMAIN Buckets(f) : Made(f).counts[i] > 0})
    BY DEF Made
  <2> QED
    BY <2>1, <2>2, BarsFit
<1> QED
  BY <1>5, <1>6

\* The first of the greatest of finitely many numbers.
LEMMA FirstGreatest ==
  ASSUME NEW N \in Nat \ {0}, NEW c, \A i \in 1..N : c[i] \in Nat
  PROVE  LET tops == {i \in 1..N : \A j \in 1..N : c[j] <= c[i]} IN
         Min(tops) \in tops /\ \A i \in tops : Min(tops) <= i
<1> DEFINE tops == {i \in 1..N : \A j \in 1..N : c[j] <= c[i]}
           P == {n \in Nat : n + 1 <= N => \E i \in 1..n + 1 : \A j \in 1..n + 1 : c[j] <= c[i]}
<1>1. 0 \in P
  <2>1. 1 \in 1..0 + 1 /\ \A j \in 1..0 + 1 : j = 1
    OBVIOUS
  <2>2. c[1] <= c[1]
    BY <2>1
  <2> QED
    BY <2>1, <2>2
<1>2. ASSUME NEW n \in Nat, n \in P PROVE n + 1 \in P
  <2> SUFFICES ASSUME n + 1 + 1 <= N PROVE \E i \in 1..n + 1 + 1 : \A j \in 1..n + 1 + 1 : c[j] <= c[i]
    OBVIOUS
  <2>1. PICK i \in 1..n + 1 : \A j \in 1..n + 1 : c[j] <= c[i]
    BY <1>2
  <2>2. /\ n + 1 + 1 \in 1..N /\ i \in 1..N /\ i \in 1..n + 1 + 1
        /\ \A j \in 1..n + 1 + 1 : j = n + 1 + 1 \/ j \in 1..n + 1
        /\ \A j \in 1..n + 1 : j \in 1..N
    OBVIOUS
  <2>3. c[i] \in Nat /\ c[n + 1 + 1] \in Nat
    BY <2>2
  <2>4. CASE c[n + 1 + 1] <= c[i]
    BY <2>1, <2>2, <2>4
  <2>5. CASE c[i] < c[n + 1 + 1]
    <3>1. \A j \in 1..n + 1 : c[j] <= c[n + 1 + 1]
      BY <2>1, <2>2, <2>3, <2>5
    <3> QED
      BY <2>2, <2>3, <3>1
  <2> QED
    BY <2>3, <2>4, <2>5
<1> HIDE DEF P
<1>3. N - 1 \in P
  BY <1>1, <1>2, SetInduction
<1>4. tops # {}
  <2>1. N - 1 + 1 = N
    OBVIOUS
  <2> QED
    BY <1>3, <2>1 DEF P
<1>5. \E i \in tops : \A j \in tops : i <= j
  <2> HIDE DEF tops
  <2>1. tops \in SUBSET Nat
    BY DEF tops
  <2> QED
    BY <1>4, <2>1, Least
<1> QED
  BY <1>5 DEF Min

\* The peak is the earliest of the fullest bars.
LEMMA PeakIsFirst ==
  ASSUME NEW f, Reportable(f)
  PROVE  LET p == Peak(Buckets(f), Heights(f)) IN
         /\ p \in 1..24 * Drawn(f)
         /\ \A i \in 1..24 * Drawn(f) : /\ Heights(f)[i] <= Heights(f)[p]
                                        /\ i < p => Heights(f)[i] < Heights(f)[p]
<1> DEFINE N == 24 * Drawn(f)
           c == Heights(f)
           tops == {i \in 1..N : \A j \in 1..N : c[j] <= c[i]}
           p == Peak(Buckets(f), Heights(f))
<1>1. p = Min(tops)
  <2>1. DOMAIN Buckets(f) = 1..N
    BY BucketsAre
  <2> QED
    BY <2>1 DEF Peak
<1>2. N \in Nat \ {0} /\ \A i \in 1..N : c[i] \in Nat
  BY BarsFit
<1> HIDE DEF N, c, p
<1>3. Min(tops) \in tops /\ \A i \in tops : Min(tops) <= i
  BY <1>2, FirstGreatest
<1>4. ASSUME NEW i \in 1..N, i < p PROVE c[i] < c[p]
  <2>1. p \in 1..N /\ i \notin tops
    BY <1>1, <1>2, <1>3, <1>4
  <2>2. PICK j \in 1..N : ~(c[j] <= c[i])
    BY <2>1
  <2>3. c[j] <= c[p]
    BY <1>1, <1>3
  <2> QED
    BY <1>2, <2>1, <2>2, <2>3
<1> QED
  BY <1>1, <1>3, <1>4 DEF N, c, p

LEMMA MadeParts ==
  ASSUME NEW f, Reportable(f)
  PROVE  LET p == Peak(Buckets(f), Heights(f)) IN
         /\ Made(f).of = f /\ Made(f).noData = FALSE /\ Made(f).total = Cardinality(Filtered(f))
         /\ Made(f).peakCount = Heights(f)[p]
         /\ Made(f).peak = IF Heights(f)[p] = 0 THEN None ELSE Buckets(f)[p]
<1> DEFINE c == [i \in DOMAIN Buckets(f) |-> CountIn(Filtered(f), Buckets(f)[i])]
<1>1. Made(f).counts = c
  BY DEF Made
<1>2. c = Heights(f)
  BY <1>1, BarsFit
<1>3. /\ Made(f).of = f /\ Made(f).noData = FALSE /\ Made(f).total = Cardinality(Filtered(f))
      /\ Made(f).peakCount = c[Peak(Buckets(f), c)]
      /\ Made(f).peak = IF c[Peak(Buckets(f), c)] = 0 THEN None ELSE Buckets(f)[Peak(Buckets(f), c)]
  BY DEF Made
<1> HIDE DEF c
<1> QED
  BY <1>2, <1>3

LEMMA TogetherIsHeight ==
  ASSUME NEW f, Reportable(f), NEW i \in 1..24 * Drawn(f)
  PROVE  Together(Charted(f), 24 * f.start + i - 1) = Heights(f)[i]
<1>1. Bar(f, i) = {j \in Charted(f) : DhakaHour(activities[j]) = 24 * f.start + i - 1}
  BY BarIsCharted
<1>2. Heights(f)[i] = Cardinality(Bar(f, i))
  BY BarsFit
<1> QED
  BY <1>1, <1>2 DEF Together

\* Without rows in the chart there is no peak, and else it is in the chart.
LEMMA PeakOfRows ==
  ASSUME NEW f, Reportable(f)
  PROVE  LET p == Peak(Buckets(f), Heights(f)) IN
         /\ Made(f).peak = None <=> Charted(f) = {}
         /\ Charted(f) # {} =>
              /\ 24 * Made(f).peak.day + Made(f).peak.hour = 24 * f.start + p - 1
              /\ 24 * f.start + p - 1 \in ChartHours(f)
<1> DEFINE N == 24 * Drawn(f)
           p == Peak(Buckets(f), Heights(f))
<1>1. p \in 1..N /\ \A i \in 1..N : Heights(f)[i] <= Heights(f)[p]
  BY PeakIsFirst
<1>2. Buckets(f)[p] \in Bars /\ 24 * Buckets(f)[p].day + Buckets(f)[p].hour = 24 * f.start + p - 1
  BY <1>1, BucketsAre
<1>3. Made(f).peak = IF Heights(f)[p] = 0 THEN None ELSE Buckets(f)[p]
  BY MadeParts
<1>4. \A i \in 1..N : Heights(f)[i] \in Nat
  BY BarsFit
<1>5. Heights(f)[p] = 0 <=> Charted(f) = {}
  <2>1. ASSUME Charted(f) = {} PROVE Heights(f)[p] = 0
    <3>1. Bar(f, p) = {}
      BY <1>1, <2>1, BarIsCharted
    <3> QED
      BY <1>1, <3>1, BarsFit
  <2>2. ASSUME Heights(f)[p] = 0, NEW j \in Charted(f) PROVE FALSE
    <3>1. DhakaHour(activities[j]) \in ChartHours(f)
      BY DEF ChartHours
    <3>2. PICK i \in 1..N : DhakaHour(activities[j]) = 24 * f.start + i - 1
      BY <3>1, HoursAreBars
    <3>3. Heights(f)[i] > 0
      BY <3>1, <3>2, HoursAreBars
    <3> QED
      BY <1>1, <1>4, <2>2, <3>3
  <2> QED
    BY <2>1, <2>2
<1>6. None \notin Bars
  BY ReportAssumption
<1>7. Heights(f)[p] # 0 => 24 * f.start + p - 1 \in ChartHours(f)
  <2>1. Heights(f)[p] # 0 => Heights(f)[p] > 0
    BY <1>1, <1>4
  <2> QED
    BY <1>1, <2>1, HoursAreBars
<1> QED
  BY <1>2, <1>3, <1>5, <1>6, <1>7

LEMMA FullestFirst ==
  ASSUME NEW f, Reportable(f), Charted(f) # {}, NEW g \in ChartHours(f)
  PROVE  LET h == 24 * Made(f).peak.day + Made(f).peak.hour IN
         /\ Made(f).peakCount = Together(Charted(f), h)
         /\ IF g < h THEN Together(Charted(f), g) < Made(f).peakCount
                     ELSE Together(Charted(f), g) <= Made(f).peakCount
<1> DEFINE p == Peak(Buckets(f), Heights(f))
           s == f.start
<1>1. PICK j \in 1..24 * Drawn(f) : g = 24 * s + j - 1
  BY HoursAreBars
<1>2. /\ p \in 1..24 * Drawn(f)
      /\ Heights(f)[j] <= Heights(f)[p] /\ (j < p => Heights(f)[j] < Heights(f)[p])
  BY PeakIsFirst
<1>3. 24 * Made(f).peak.day + Made(f).peak.hour = 24 * s + p - 1
  BY PeakOfRows
<1>4. Made(f).peakCount = Heights(f)[p]
  BY MadeParts
<1>5. Together(Charted(f), 24 * s + p - 1) = Heights(f)[p] /\ Together(Charted(f), g) = Heights(f)[j]
  BY <1>1, <1>2, TogetherIsHeight
<1>6. s \in Int
  BY DatesFit
<1> HIDE DEF p, s
<1>7. g < 24 * s + p - 1 => j < p
  BY <1>1, <1>2, <1>6
<1> QED
  BY <1>2, <1>3, <1>4, <1>5, <1>7

Truthful == report = IF Filtered(report.of) = {} THEN NoData(report.of) ELSE Made(report.of)

\* A report made of the rows of its form agrees with them.
LEMMA TruthAdds == ASSUME Reportable(report.of), Truthful PROVE ReportAdds
<1> DEFINE f == report.of
<1>1. Reportable(f) /\ report = IF Filtered(f) = {} THEN NoData(f) ELSE Made(f)
  BY DEF Truthful
<1> HIDE DEF f
<1>2. Filtered(f) = RowsIn(f, 24 * f.start, 24 * f.end + 23)
  BY <1>1, FilteredByHour
<1>3. CASE Filtered(f) = {}
  <2>1. report.noData = TRUE
    BY <1>1, <1>3 DEF NoData
  <2> QED
    BY <1>2, <1>3, <2>1 DEF ReportAdds, f
<1>4. CASE Filtered(f) # {}
  <2>1. report = Made(f)
    BY <1>1, <1>4
  <2>2. report.noData = FALSE /\ report.total = Cardinality(Filtered(f))
    BY <1>1, <2>1, MadeParts
  <2>3. FoldSeq(+, 0, report.counts) = Cardinality(Charted(f))
    BY <1>1, <2>1, BarsFit, BarsAddUp
  <2>4. report.activeHours = Cardinality(ChartHours(f))
    BY <1>1, <2>1, ActiveHoursCount
  <2>5. report.peak = None <=> Charted(f) = {}
    BY <1>1, <2>1, PeakOfRows
  <2>6. ASSUME Charted(f) # {}
        PROVE  LET h == 24 * report.peak.day + report.peak.hour IN
               /\ h \in ChartHours(f) /\ report.peakCount = Together(Charted(f), h)
               /\ \A g \in ChartHours(f) : IF g < h THEN Together(Charted(f), g) < report.peakCount
                                                     ELSE Together(Charted(f), g) <= report.peakCount
    <3>1. 24 * report.peak.day + report.peak.hour \in ChartHours(f)
      BY <1>1, <2>1, <2>6, PeakOfRows
    <3> QED
      BY <1>1, <2>1, <2>6, <3>1, FullestFirst
  <2>7. /\ Charted(f) = RowsIn(f, 24 * f.start, 24 * Min({f.end + 1, f.start + Guard}) - 1)
        /\ ChartHours(f) = {DhakaHour(activities[j]) : j \in Charted(f)}
    BY DEF Charted, ChartHours
  <2> QED
    BY <1>2, <1>4, <2>2, <2>3, <2>4, <2>5, <2>6, <2>7 DEF ReportAdds, f
<1> QED
  BY <1>3, <1>4

LEMMA MadeFits ==
  ASSUME NEW f, Reportable(f)
  PROVE  NoData(f) \in Reports /\ Made(f) \in Reports
<1>1. f \in Forms
  BY DEF Reportable, DatedForms, Forms
<1>2. NoData(f) \in Reports
  BY <1>1 DEF NoData, Reports
<1> DEFINE p == Peak(Buckets(f), Heights(f))
           N == 24 * Drawn(f)
<1>3. p \in 1..N
  BY PeakIsFirst
<1>4. Heights(f) \in Seq(Nat) /\ Heights(f)[p] \in Nat
  <2>1. N \in Nat /\ \A i \in 1..N : Heights(f)[i] \in Nat
    BY BarsFit
  <2>2. Heights(f) \in [1..N -> Nat]
    BY <2>1 DEF Heights
  <2> QED
    BY <1>3, <2>1, <2>2
<1>5. Cardinality(Filtered(f)) \in Nat /\ Cardinality(ChartHours(f)) \in Nat
  <2>1. IsFiniteSet(Filtered(f)) /\ Cardinality(Filtered(f)) \in Nat /\ IsFiniteSet(Charted(f))
    BY ChartIsOfRows, PlacesFinite DEF Reportable
  <2> DEFINE k == [j \in Charted(f) |-> DhakaHour(activities[j])]
  <2>2. ChartHours(f) = {k[j] : j \in Charted(f)}
    BY DEF ChartHours
  <2> HIDE DEF k
  <2> QED
    BY <2>1, <2>2, Image
<1>6. Made(f).peak \in Bars \cup {None}
  <2>1. Buckets(f)[p] \in Bars
    BY <1>3, BucketsAre
  <2>2. Made(f).peak = IF Heights(f)[p] = 0 THEN None ELSE Buckets(f)[p]
    BY MadeParts
  <2> QED
    BY <2>1, <2>2
<1>7. Made(f) = [of |-> Made(f).of, noData |-> Made(f).noData, total |-> Made(f).total,
                 counts |-> Made(f).counts, activeHours |-> Made(f).activeHours,
                 peak |-> Made(f).peak, peakCount |-> Made(f).peakCount]
  BY DEF Made
<1>8. /\ Made(f).of \in Forms /\ Made(f).noData \in {FALSE} /\ Made(f).total \in Nat
      /\ Made(f).peakCount \in Nat
  BY <1>1, <1>4, <1>5, MadeParts
<1>9. Made(f).counts \in Seq(Nat) /\ Made(f).activeHours \in Nat
  BY <1>4, <1>5, BarsFit, ActiveHoursCount
<1>10. Made(f) \in [of : Forms, noData : {FALSE}, total : Nat, counts : Seq(Nat), activeHours : Nat,
                    peak : Bars \cup {None}, peakCount : Nat]
  BY <1>6, <1>7, <1>8, <1>9
<1> QED
  BY <1>2, <1>10 DEF Reports
------------------------------------------------------------------------------
(* The invariant of the report: the server's copy, and a page whose report is *)
(* made of the rows it was loaded with.                                       *)

ServerInv ==
  /\ ServerTypeOK /\ CacheIsFile
  /\ cache.data \in Seq(Rows) /\ unsaved \in Seq(Rows)
  /\ statted # 0 \/ unsaved # <<>> => file # Absent
FormInv ==
  /\ ReportTypeOK /\ ReportIsTheForms
  /\ ~Loaded => form.id = None /\ report = None
  /\ report # None => Loaded /\ Reportable(report.of) /\ Truthful
ReportInv == ServerInv /\ FormInv

LEMMA SavedRows ==
  ASSUME ServerInv, NEW rows \in Seq(Rows), Save(rows), unsaved' \in Seq(Rows)
  PROVE  ServerInv'
<1>1. rows # Absent
  BY ExportAssumption
<1>2. /\ file' = rows /\ mtime' = clock /\ clock' = clock /\ cache' = cache /\ statted' = statted
      /\ served' = served
  BY DEF Save, serverVars
<1>3. /\ clock \in 1..MaxClock /\ mtime \in 0..clock /\ cache.mtime \in 0..mtime
      /\ cache.readAt \in cache.mtime..clock /\ statted \in 0..mtime
      /\ MaxClock \in Nat \ {0} /\ served \in Seq(Rows) \cup {Absent}
  BY ExportAssumption DEF ServerInv, ServerTypeOK
<1>4. ServerTypeOK'
  BY <1>1, <1>2, <1>3 DEF ServerTypeOK
<1>5. CacheIsFile'
  BY <1>2, <1>3 DEF CacheIsFile, TakenForCurrent, Stamp
<1> QED
  BY <1>1, <1>2, <1>4, <1>5 DEF ServerInv

LEMMA NoTimeRow == ASSUME NEW row \in Rows PROVE [row EXCEPT !.at = NoTime] \in Rows
<1>1. NoTime \in [wall : Int, zone : Int]
  BY DEF NoTime
<1> QED
  BY <1>1 DEF Rows

LEMMA ServerKeeps == ServerInv /\ ServerNext => ServerInv'
<1> SUFFICES ASSUME ServerInv, ServerNext PROVE ServerInv'
  OBVIOUS
<1>1. CASE Export
  <2>1. PICK e \in Exports : unsaved' = e
    BY <1>1 DEF Export
  <2>2. <<>> \in Seq(Rows) /\ unsaved' \in Seq(Rows) /\ Save(<<>>)
    BY <1>1, <2>1, ExportAssumption DEF Export
  <2> QED
    BY <2>2, SavedRows
<1>2. CASE WriteBlock
  <2> DEFINE whole == IF Torn(file) THEN Front(file) ELSE file
  <2>1. unsaved # <<>> /\ unsaved \in Seq(Rows) /\ file \in Seq(Rows)
    BY <1>2 DEF WriteBlock, ServerInv, ServerTypeOK
  <2>2. Head(unsaved) \in Rows /\ Tail(unsaved) \in Seq(Rows)
    BY <2>1
  <2>3. whole \in Seq(Rows)
    <3>1. CASE Torn(file)
      <4>1. file # <<>>
        BY <3>1 DEF Torn
      <4>2. Len(file) \in Nat \ {0}
        BY <2>1, <4>1
      <4>3. Front(file) = SubSeq(file, 1, Len(file) - 1)
        BY DEF Front
      <4>4. SubSeq(file, 1, Len(file) - 1) \in Seq(Rows)
        BY <2>1, <4>2
      <4> QED
        BY <3>1, <4>3, <4>4
    <3> QED
      BY <2>1, <3>1
  <2>4. [Head(unsaved) EXCEPT !.at = NoTime] \in Rows
    BY <2>2, NoTimeRow
  <2>5. /\ Append(whole, Head(unsaved)) \in Seq(Rows)
        /\ Append(whole, [Head(unsaved) EXCEPT !.at = NoTime]) \in Seq(Rows)
    BY <2>2, <2>3, <2>4
  <2>6. \/ Save(Append(whole, Head(unsaved))) /\ unsaved' = Tail(unsaved)
        \/ Save(Append(whole, [Head(unsaved) EXCEPT !.at = NoTime])) /\ unsaved' = unsaved
    BY <1>2 DEF WriteBlock
  <2> HIDE DEF whole
  <2> QED
    BY <2>1, <2>2, <2>5, <2>6, SavedRows
<1>3. CASE Tick
  BY <1>3, ExportAssumption
  DEF Tick, ServerInv, ServerTypeOK, CacheIsFile, TakenForCurrent, Stamp, serverVars
<1>4. CASE Stat
  <2>1. CASE file = Absent
    BY <1>4, <2>1 DEF Stat, Serve, ServerInv, ServerTypeOK, CacheIsFile, TakenForCurrent, Stamp, fileVars
  <2>2. CASE file # Absent /\ TakenForCurrent
    BY <1>4, <2>2 DEF Stat, Serve, ServerInv, ServerTypeOK, CacheIsFile, TakenForCurrent, Stamp, fileVars
  <2>3. CASE file # Absent /\ ~TakenForCurrent
    BY <1>4, <2>3 DEF Stat, ServerInv, ServerTypeOK, CacheIsFile, TakenForCurrent, Stamp, fileVars
  <2> QED
    BY <2>1, <2>2, <2>3
<1>5. CASE Read
  BY <1>5 DEF Read, Serve, ServerInv, ServerTypeOK, CacheIsFile, TakenForCurrent, Stamp, fileVars
<1> QED
  BY <1>1, <1>2, <1>3, <1>4, <1>5 DEF ServerNext

\* What a filled in form reports is in the rows it has.
LEMMA RowsStay ==
  ASSUME activities' = activities, NEW f
  PROVE  Filtered(f)' = Filtered(f) /\ Made(f)' = Made(f) /\ NoData(f)' = NoData(f)
BY DEF Filtered, HisRows, Made, CountIn, NoData

LEMMA LoadKeeps == ReportInv /\ Load => ReportInv'
<1> SUFFICES ASSUME ReportInv, Load PROVE ReportInv'
  OBVIOUS
<1>1. ~Loaded /\ served # Absent /\ activities' = served
      /\ UNCHANGED <<serverState, form, text, error, report, pressed>>
  BY DEF Load
<1>2. ServerInv'
  BY <1>1 DEF ReportInv, ServerInv, ServerTypeOK, CacheIsFile, TakenForCurrent, Stamp,
              serverState, fileVars, serverVars
<1>3. report = None /\ form.id = None /\ served \in Seq(Rows)
  BY <1>1 DEF ReportInv, FormInv, ServerInv, ServerTypeOK
<1>4. ReportTypeOK'
  BY <1>1, <1>2, <1>3 DEF ReportInv, FormInv, ServerInv, ReportTypeOK
<1>5. ReportIsTheForms'
  BY <1>1, <1>3 DEF ReportInv, FormInv, ReportIsTheForms
<1>6. FormInv'
  BY <1>1, <1>3, <1>4, <1>5 DEF FormInv
<1> QED
  BY <1>2, <1>6 DEF ReportInv

LEMMA SameReport ==
  ASSUME FormInv, activities' = activities, report' = report
  PROVE  (report # None => Loaded /\ Reportable(report.of) /\ Truthful)'
<1>1. CASE report = None
  BY <1>1
<1>2. CASE report # None
  <2>1. Loaded /\ Reportable(report.of) /\ Truthful
    BY <1>2 DEF FormInv
  <2> DEFINE f == report.of
  <2>2. Filtered(f)' = Filtered(f) /\ Made(f)' = Made(f) /\ NoData(f)' = NoData(f)
    BY RowsStay
  <2> QED
    BY <2>1, <2>2 DEF Loaded, Reportable, Truthful
<1> QED
  BY <1>1, <1>2

LEMMA EditKeeps ==
  ASSUME ReportInv, Loaded, NEW f \in Forms, Edit(f),
         f.id # None => f.id = text' /\ f.id \in Options(f.type)
  PROVE  ReportInv'
<1>1. form' = f /\ pressed' = "edited" /\ UNCHANGED <<serverState, activities, error, report>>
  BY DEF Edit
<1>2. ServerInv'
  BY <1>1 DEF ReportInv, ServerInv, ServerTypeOK, CacheIsFile, TakenForCurrent, Stamp,
              serverState, fileVars, serverVars
<1>3. ReportTypeOK'
  BY <1>1, <1>2 DEF ReportInv, FormInv, ServerInv, ReportTypeOK
<1>4. ReportIsTheForms'
  BY <1>1 DEF ReportIsTheForms, Options
<1>5. (report # None => Loaded /\ Reportable(report.of) /\ Truthful)'
  BY <1>1, SameReport DEF ReportInv
<1>6. FormInv'
  BY <1>1, <1>3, <1>4, <1>5 DEF FormInv, Loaded
<1> QED
  BY <1>2, <1>6 DEF ReportInv

LEMMA ChangeTypeKeeps == ReportInv /\ ChangeType => ReportInv'
<1> SUFFICES ASSUME ReportInv, ChangeType PROVE ReportInv'
  OBVIOUS
<1>1. PICK type \in Types : Edit([form EXCEPT !.type = type, !.id = IdAfterTypeChange])
  BY DEF ChangeType
<1> DEFINE f == [form EXCEPT !.type = type, !.id = IdAfterTypeChange]
<1>2. f \in Forms /\ f.id = None
  BY DEF IdAfterTypeChange, ReportInv, FormInv, ReportTypeOK, Forms
<1> HIDE DEF f
<1> QED
  BY <1>1, <1>2, EditKeeps DEF ChangeType, f

LEMMA ChooseDatesKeeps == ReportInv /\ ChooseDates => ReportInv'
<1> SUFFICES ASSUME ReportInv, ChooseDates PROVE ReportInv'
  OBVIOUS
<1>1. PICK day \in Days : Edit([form EXCEPT !.start = day]) \/ Edit([form EXCEPT !.end = day])
  BY DEF ChooseDates
<1>2. ASSUME NEW f, f \in {[form EXCEPT !.start = day], [form EXCEPT !.end = day]}
      PROVE  f \in Forms /\ f.id = form.id /\ f.type = form.type
  BY <1>2 DEF ReportInv, FormInv, ReportTypeOK, Forms
<1>3. PICK f : Edit(f) /\ f \in {[form EXCEPT !.start = day], [form EXCEPT !.end = day]}
  BY <1>1
<1>4. form.id # None => form.id = text /\ form.id \in Options(form.type)
  BY DEF ReportInv, FormInv, ReportIsTheForms
<1>5. text' = text /\ Loaded
  BY DEF ChooseDates
<1> QED
  BY <1>2, <1>3, <1>4, <1>5, EditKeeps

LEMMA TypeKeeps == ReportInv /\ Type => ReportInv'
<1> SUFFICES ASSUME ReportInv, Type PROVE ReportInv'
  OBVIOUS
<1> DEFINE f == [form EXCEPT !.id = None]
<1>1. f \in Forms /\ f.id = None
  BY DEF ReportInv, FormInv, ReportTypeOK, Forms
<1>2. Edit(f) /\ Loaded
  BY DEF Type
<1> HIDE DEF f
<1> QED
  BY <1>1, <1>2, EditKeeps

LEMMA PickKeeps == ReportInv /\ Pick => ReportInv'
<1> SUFFICES ASSUME ReportInv, Pick PROVE ReportInv'
  OBVIOUS
<1>1. PICK id \in Options(form.type) : text' = id /\ Edit([form EXCEPT !.id = id])
  BY DEF Pick
<1> DEFINE f == [form EXCEPT !.id = id]
<1>2. Loaded
  BY DEF Pick
<1>3. id \in Ids
  <2>1. activities \in Seq(Rows)
    BY <1>2 DEF ReportInv, FormInv, ReportTypeOK, Loaded
  <2>2. PICK i \in DOMAIN activities : id = IdOf(activities[i], form.type)
    BY DEF Options
  <2>3. activities[i] \in Rows
    BY <2>1
  <2> QED
    BY <2>2, <2>3 DEF IdOf, Rows
<1>4. f \in Forms /\ f.id = id /\ f.type = form.type
  BY <1>3 DEF ReportInv, FormInv, ReportTypeOK, Forms
<1>5. Edit(f)
  BY <1>1
<1> HIDE DEF f
<1> QED
  BY <1>1, <1>2, <1>4, <1>5, EditKeeps

LEMMA GenerateKeeps == ReportInv /\ GenerateReport => ReportInv'
<1> SUFFICES ASSUME ReportInv, GenerateReport PROVE ReportInv'
  OBVIOUS
<1>1. Loaded /\ error' = Complaint /\ UNCHANGED <<serverState, activities, form, text>>
  BY DEF GenerateReport
<1>2. ServerInv'
  BY <1>1 DEF ReportInv, ServerInv, ServerTypeOK, CacheIsFile, TakenForCurrent, Stamp,
              serverState, fileVars, serverVars
<1>3. activities \in Seq(Rows) /\ form \in Forms
  BY <1>1 DEF ReportInv, FormInv, ReportTypeOK, Loaded
<1>4. (form.id # None => form.id = text /\ form.id \in Options(form.type))'
  BY <1>1 DEF ReportInv, FormInv, ReportIsTheForms, Options
<1>5. CASE report' = report /\ (pressed' = "thrown" \/ (pressed' = "refused" /\ Complaint # ""))
  <2>1. ReportTypeOK'
    BY <1>1, <1>2, <1>5 DEF ReportInv, FormInv, ServerInv, ReportTypeOK
  <2>2. ReportIsTheForms'
    BY <1>1, <1>4, <1>5 DEF ReportIsTheForms
  <2>3. (report # None => Loaded /\ Reportable(report.of) /\ Truthful)'
    BY <1>1, <1>5, SameReport DEF ReportInv
  <2> QED
    BY <1>1, <1>2, <2>1, <2>2, <2>3 DEF ReportInv, FormInv, Loaded
<1>6. CASE /\ Complaint = "" /\ pressed' = "made"
           /\ report' = IF Filtered(form) = {} THEN WithoutRows ELSE Made(form)
  <2>1. form.id # None /\ ~Undated /\ ~(form.start > form.end)
    BY <1>6 DEF Complaint
  <2>2. Reportable(form)
    <3>1. /\ form.type \in Types /\ form.id \in Ids /\ form.start \in Days /\ form.end \in Days
          /\ form = [type |-> form.type, id |-> form.id, start |-> form.start, end |-> form.end]
      BY <1>3, <2>1 DEF Forms, Undated
    <3>2. form.start \in Nat /\ form.end \in Nat
      BY <3>1, ReportAssumption
    <3>3. form.start <= form.end
      BY <2>1, <3>2
    <3> QED
      BY <1>3, <2>1, <3>1, <3>2, <3>3 DEF Reportable, DatedForms
  <2>3. NoData(form) \in Reports /\ Made(form) \in Reports /\ NoData(form).of = form /\ Made(form).of = form
    BY <2>2, MadeFits, MadeParts DEF NoData
  <2>4. report' = IF Filtered(form) = {} THEN NoData(form) ELSE Made(form)
    BY <1>6 DEF WithoutRows
  <2>5. report' \in Reports /\ report'.of = form /\ report' # None
    BY <2>3, <2>4, ReportAssumption
  <2>6. ReportTypeOK'
    BY <1>1, <1>2, <1>3, <1>6, <2>1, <2>2, <2>5 DEF ServerInv, ReportTypeOK, Reportable
  <2>7. ReportIsTheForms'
    BY <1>1, <1>4, <1>6, <2>5 DEF ReportIsTheForms
  <2>8. Truthful'
    <3> DEFINE f == form
    <3>1. Filtered(f)' = Filtered(f) /\ Made(f)' = Made(f) /\ NoData(f)' = NoData(f)
      BY <1>1, RowsStay
    <3> QED
      BY <1>1, <2>4, <2>5, <3>1 DEF Truthful
  <2>9. Reportable(report.of)'
    BY <1>1, <2>2, <2>5 DEF Reportable
  <2> QED
    BY <1>1, <1>2, <2>6, <2>7, <2>8, <2>9 DEF ReportInv, FormInv, Loaded
<1> QED
  BY <1>5, <1>6 DEF GenerateReport

LEMMA ReportInitHolds == ReportInit => ReportInv
<1> SUFFICES ASSUME ReportInit PROVE ReportInv
  OBVIOUS
<1>1. ServerInv
  <2>1. /\ clock = 1 /\ file = Absent /\ mtime = 0 /\ unsaved = <<>> /\ statted = 0 /\ served = Absent
        /\ cache.mtime = 0 /\ cache.readAt = 0 /\ cache.data = <<>>
    BY DEF ReportInit, ServerInit
  <2>2. 1 \in 1..MaxClock
    BY ExportAssumption
  <2>3. ServerTypeOK
    BY <2>1, <2>2 DEF ServerTypeOK
  <2>4. CacheIsFile
    BY <2>1 DEF CacheIsFile
  <2>5. <<>> \in Seq(Rows)
    OBVIOUS
  <2>6. cache.data \in Seq(Rows) /\ unsaved \in Seq(Rows)
    BY <2>1, <2>5
  <2> QED
    BY <2>1, <2>3, <2>4, <2>6 DEF ServerInv
<1>2. ReportTypeOK
  BY <1>1 DEF ReportInit, ReportTypeOK, ServerInv, Forms, Types
<1> QED
  BY <1>1, <1>2 DEF ReportInit, ReportInv, FormInv, ReportIsTheForms

LEMMA ReportStepKeeps == ReportInv /\ [ReportNext]_reportVars => ReportInv'
<1> SUFFICES ASSUME ReportInv, [ReportNext]_reportVars PROVE ReportInv'
  OBVIOUS
<1>1. CASE ~Loaded /\ ServerNext /\ UNCHANGED formVars
  <2>1. ServerInv'
    BY <1>1, ServerKeeps DEF ReportInv
  <2>2. report = None /\ form.id = None
    BY <1>1 DEF ReportInv, FormInv
  <2> QED
    BY <1>1, <2>1, <2>2 DEF ReportInv, ServerInv, FormInv, ReportTypeOK, ReportIsTheForms, Loaded, formVars
<1>2. CASE UNCHANGED reportVars
  <2>1. ServerInv'
    BY <1>2 DEF ReportInv, ServerInv, ServerTypeOK, CacheIsFile, TakenForCurrent, Stamp,
                reportVars, serverState, fileVars, serverVars
  <2>2. activities' = activities /\ report' = report /\ form' = form /\ text' = text /\ error' = error
        /\ pressed' = pressed
    BY <1>2 DEF reportVars, formVars
  <2>3. (report # None => Loaded /\ Reportable(report.of) /\ Truthful)'
    BY <2>2, SameReport DEF ReportInv
  <2>4. ReportTypeOK' /\ ReportIsTheForms'
    BY <2>1, <2>2 DEF ReportInv, FormInv, ServerInv, ReportTypeOK, ReportIsTheForms, Options
  <2> QED
    BY <2>1, <2>2, <2>3, <2>4 DEF ReportInv, FormInv, Loaded
<1> QED
  BY <1>1, <1>2, LoadKeeps, ChangeTypeKeeps, ChooseDatesKeeps, TypeKeeps, PickKeeps, GenerateKeeps
  DEF ReportNext, UseForm

LEMMA ReportInvariance == ReportSpec => []ReportInv
BY ReportInitHolds, ReportStepKeeps, PTL DEF ReportSpec

\* server.js and Report.jsx: whatever psql writes and whenever the server looks
\* at the file, a copy taken for current is the file, unless it was read in the
\* tick of its time stamp; and a report is of an id and of dates in order.
THEOREM PageAlwaysFits == ReportSpec => []PageFits
<1>1. ReportInv => PageFits
  BY DEF ReportInv, ServerInv, FormInv, PageFits
<1> QED
  BY <1>1, ReportInvariance, PTL

\* handleTypeChange, SearchSelect and generateReport: the id that will be
\* reported on is the one in the search field, and the report shown after the
\* button was pressed is that of the form.
THEOREM ReportsAreTheForms == ReportSpec => []ReportIsTheForms
<1>1. ReportInv => ReportIsTheForms
  BY DEF ReportInv, FormInv
<1> QED
  BY <1>1, ReportInvariance, PTL

\* generateReport and buildBuckets: for any rows, dates and guard, the total, the
\* bars, the active hours and the peak agree with the rows of the period.
THEOREM ReportsAlwaysAdd == ReportSpec => []ReportAdds
<1>1. ReportInv => ReportAdds
  <2>1. CASE report = None
    BY <2>1 DEF ReportAdds
  <2>2. CASE report # None
    BY <2>2, TruthAdds DEF ReportInv, FormInv
  <2> QED
    BY <2>1, <2>2
<1> QED
  BY <1>1, ReportInvariance, PTL
==============================================================================
