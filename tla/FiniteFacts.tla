----------------------------- MODULE FiniteFacts -----------------------------
\* Facts about numbers and finite sets that the proofs of several components
\* rest on: induction, stated for sets instead of predicates, the sum of a
\* function over a finite set, and the members of a finite set in order.
EXTENDS Integers, FiniteSets, Sequences, FiniteSetsExt, FiniteSetTheorems,
        WellFoundedInduction, TLAPS

-----------------------------------------------------------------------------
\* Induction.

LEMMA LeastNumber ==
  ASSUME NEW T, T \subseteq Nat, T # {}
  PROVE  \E x \in T : \A y \in T : x <= y
<1> DEFINE R == {ss \in Nat \X Nat : ss[1] < ss[2]}
<1>1. IsWellFoundedOn(R, Nat)
  BY NatLessThanWellFounded, Zenon DEF OpToRel
<1>2. PICK x \in T : \A y \in T : <<y, x>> \notin R
  BY <1>1, WFMin, Zenon
<1>3. ASSUME NEW y \in T PROVE x <= y
  <2>1. x \in Nat /\ y \in Nat /\ <<y, x>> \notin R
    BY <1>2
  <2>2. y < x => <<y, x>> \in R
    BY <2>1
  <2>3. QED
    BY <2>1, <2>2
<1>4. QED
  BY <1>3

\* Induction over numbers: the numbers that have a property are all numbers.
LEMMA AllNumbers ==
  ASSUME NEW T, T \subseteq Nat, 0 \in T, \A n \in T : n + 1 \in T
  PROVE  T = Nat
<1>1. SUFFICES ASSUME Nat \ T # {} PROVE FALSE
  OBVIOUS
<1>2. PICK x \in Nat \ T : \A y \in Nat \ T : x <= y
  BY <1>1, LeastNumber
<1>3. x - 1 \in Nat /\ x - 1 \in T
  BY <1>2
<1>4. QED
  BY <1>2, <1>3

\* A set of n + 1 members has one, and n without it.
LEMMA OneLess ==
  ASSUME NEW S, IsFiniteSet(S), NEW n \in Nat, Cardinality(S) = n + 1
  PROVE  /\ S # {}
         /\ \A x \in S : IsFiniteSet(S \ {x}) /\ Cardinality(S \ {x}) = n
<1>1. S # {}
  BY FS_EmptySet
<1>2. ASSUME NEW x \in S PROVE IsFiniteSet(S \ {x}) /\ Cardinality(S \ {x}) = n
  <2>1. IsFiniteSet(S \ {x}) /\ Cardinality(S \ {x}) = Cardinality(S) - 1
    BY FS_RemoveElement
  <2>2. QED
    BY <2>1
<1>3. QED
  BY <1>1, <1>2

\* An interval and its parts are finite.
LEMMA IntervalFinite ==
  ASSUME NEW a \in Int, NEW b \in Int, NEW S \in SUBSET (a..b)
  PROVE  IsFiniteSet(S) /\ Cardinality(S) \in Nat
<1>1. IsFiniteSet(a..b)
  BY FS_Interval
<1>2. IsFiniteSet(S)
  BY <1>1, FS_Subset
<1>3. QED
  BY <1>2, FS_CardinalityType

LEMMA FirstNumbers ==
  ASSUME NEW n \in Nat
  PROVE  IsFiniteSet(1..n) /\ Cardinality(1..n) = n
BY FS_Interval

\* What finite sets are combined to is finite.
LEMMA FiniteTogether ==
  ASSUME NEW S, IsFiniteSet(S)
  PROVE  /\ \A T \in SUBSET S : IsFiniteSet(T)
         /\ \A T : IsFiniteSet(T) => IsFiniteSet(S \cup T)
         /\ \A f : IsFiniteSet({f[x] : x \in S})
         /\ \A x : IsFiniteSet(S \cup {x})
<1>1. \A T \in SUBSET S : IsFiniteSet(T)
  BY FS_Subset
<1>2. \A T : IsFiniteSet(T) => IsFiniteSet(S \cup T)
  BY FS_Union
<1>3. ASSUME NEW f PROVE IsFiniteSet({f[x] : x \in S})
  <2> DEFINE T == {f[x] : x \in S}
             g == [x \in S |-> f[x]]
  <2>1. g \in Surjection(S, T)
    BY DEF Surjection
  <2> HIDE DEF g, T
  <2>2. IsFiniteSet(T)
    BY <2>1, FS_Surjection
  <2>3. QED
    BY <2>2 DEF T
<1>4. \A x : IsFiniteSet(S \cup {x})
  BY FS_AddElement
<1>5. QED
  BY <1>1, <1>2, <1>3, <1>4

\* A proper part has fewer members.
LEMMA FewerMembers ==
  ASSUME NEW S, IsFiniteSet(S), NEW T \in SUBSET S
  PROVE  /\ Cardinality(T) \in Nat /\ Cardinality(S) \in Nat /\ Cardinality(T) <= Cardinality(S)
         /\ T # S => Cardinality(T) < Cardinality(S)
<1>1. IsFiniteSet(T) /\ Cardinality(T) <= Cardinality(S) /\ (Cardinality(S) = Cardinality(T) => S = T)
  BY FS_Subset
<1>2. Cardinality(T) \in Nat /\ Cardinality(S) \in Nat
  BY <1>1, FS_CardinalityType
<1>3. QED
  BY <1>1, <1>2

\* Induction over finite sets: a family of subsets that has the empty one and
\* stays closed when an element is added has them all.
LEMMA AllSubsets ==
  ASSUME NEW U, IsFiniteSet(U), NEW T, {} \in T,
         \A S \in SUBSET U : \A x \in U \ S : S \in T => S \cup {x} \in T
  PROVE  \A S \in SUBSET U : S \in T
<1> DEFINE Sizes == {n \in Nat : \A S \in SUBSET U : Cardinality(S) = n => S \in T}
<1>1. 0 \in Sizes
  BY FS_EmptySet, FS_Subset
<1>2. ASSUME NEW n \in Sizes PROVE n + 1 \in Sizes
  <2>1. SUFFICES ASSUME NEW S \in SUBSET U, Cardinality(S) = n + 1 PROVE S \in T
    OBVIOUS
  <2>2. n \in Nat /\ IsFiniteSet(S)
    BY FS_Subset
  <2>3. PICK x \in S : TRUE
    BY <2>1, <2>2, OneLess
  <2>4. Cardinality(S \ {x}) = n
    BY <2>1, <2>2, <2>3, OneLess
  <2>5. S \ {x} \in T
    BY <2>4
  <2>6. S = (S \ {x}) \cup {x}
    OBVIOUS
  <2>7. QED
    BY <2>5, <2>6
<1>3. Sizes = Nat
  <2>1. Sizes \subseteq Nat
    OBVIOUS
  <2> HIDE DEF Sizes
  <2>2. QED
    BY <1>1, <1>2, <2>1, AllNumbers
<1>4. ASSUME NEW S \in SUBSET U PROVE S \in T
  <2>1. Cardinality(S) \in Nat
    BY FS_Subset, FS_CardinalityType
  <2>2. QED
    BY <1>3, <2>1
<1>5. QED
  BY <1>4

-----------------------------------------------------------------------------
\* Products.

LEMMA Cancel ==
  ASSUME NEW b \in Nat \ {0}, NEW x \in Nat, NEW y \in Nat, b * x <= b * y
  PROVE  x <= y
<1>1. SUFFICES ASSUME y + 1 <= x PROVE FALSE
  OBVIOUS
<1>2. PICK k \in Nat : x = y + 1 + k
  <2>1. x - (y + 1) \in Nat /\ x = y + 1 + (x - (y + 1))
    BY <1>1
  <2>2. QED
    BY <2>1
<1>3. b * x = b * y + b + b * k /\ b * k \in Nat /\ b * y \in Nat
  BY <1>2
<1>4. QED
  BY <1>3

LEMMA ScaleUp ==
  ASSUME NEW c \in Nat, NEW x \in Nat, NEW y \in Nat, x <= y
  PROVE  x * c <= y * c
<1>1. PICK k \in Nat : y = x + k
  <2>1. y - x \in Nat /\ y = x + (y - x)
    OBVIOUS
  <2>2. QED
    BY <2>1
<1>2. y * c = x * c + k * c /\ k * c \in Nat /\ x * c \in Nat
  BY <1>1
<1>3. QED
  BY <1>2

-----------------------------------------------------------------------------
\* Sums.

Total(f, S) == MapThenSumSet(LAMBDA u : f[u], S)

\* What one call of the sum computes, from what it computes for less.
SumStep(f, g, s) == IF s = {} THEN 0 ELSE f[CHOOSE x \in s : TRUE] + g[s \ {CHOOSE x \in s : TRUE}]

SumTable(f, U) == CHOOSE g : g = [s \in SUBSET U |-> SumStep(f, g, s)]

LEMMA TotalTable ==
  ASSUME NEW f, NEW S
  PROVE  Total(f, S) = SumTable(f, S)[S]
BY DEF Total, MapThenSumSet, MapThenFoldSet, SumTable, SumStep

\* The recursion has a solution ...
LEMMA SumTableSolves ==
  ASSUME NEW f, NEW U, IsFiniteSet(U)
  PROVE  \A s \in SUBSET U : SumTable(f, U)[s] = SumStep(f, SumTable(f, U), s)
<1> DEFINE Upto(n, g) == \A s \in SUBSET U : Cardinality(s) <= n => g[s] = SumStep(f, g, s)
           T == {n \in Nat : \E g : Upto(n, g)}
<1>1. \A s \in SUBSET U : /\ Cardinality(s) \in Nat /\ (Cardinality(s) = 0 <=> s = {})
                          /\ s # {} => /\ (CHOOSE x \in s : TRUE) \in s
                                       /\ Cardinality(s \ {CHOOSE x \in s : TRUE}) = Cardinality(s) - 1
  BY FS_Subset, FS_EmptySet, FS_CardinalityType, FS_RemoveElement
<1>2. 0 \in T
  <2>1. Upto(0, [s \in SUBSET U |-> 0])
    <3>1. ASSUME NEW s \in SUBSET U, Cardinality(s) <= 0 PROVE s = {}
      <4>1. Cardinality(s) \in Nat /\ (Cardinality(s) = 0 <=> s = {})
        BY <1>1
      <4>2. QED
        BY <3>1, <4>1
    <3>2. SumStep(f, [s \in SUBSET U |-> 0], {}) = 0
      BY DEF SumStep
    <3>3. QED
      BY <3>1, <3>2
  <2>2. QED
    BY <2>1
<1>3. ASSUME NEW n \in T PROVE n + 1 \in T
  <2>1. PICK g : Upto(n, g)
    OBVIOUS
  <2> DEFINE h == [s \in SUBSET U |-> IF Cardinality(s) <= n THEN g[s] ELSE SumStep(f, g, s)]
  <2>2. ASSUME NEW s \in SUBSET U, Cardinality(s) <= n + 1 PROVE h[s] = SumStep(f, g, s)
    BY <2>1
  <2>3. ASSUME NEW s \in SUBSET U, Cardinality(s) <= n + 1
        PROVE  SumStep(f, h, s) = SumStep(f, g, s)
    <3>1. CASE s = {}
      BY <3>1 DEF SumStep
    <3>2. CASE s # {}
      <4>1. s \ {CHOOSE x \in s : TRUE} \in SUBSET U
        OBVIOUS
      <4>2. Cardinality(s \ {CHOOSE x \in s : TRUE}) <= n
        <5>1. \A k \in Nat : k <= n + 1 => k - 1 <= n
          BY DEF T
        <5>2. QED
          BY <1>1, <2>3, <3>2, <5>1
      <4>3. h[s \ {CHOOSE x \in s : TRUE}] = g[s \ {CHOOSE x \in s : TRUE}]
        BY <4>1, <4>2
      <4>4. QED
        BY <3>2, <4>3 DEF SumStep
    <3>3. QED
      BY <3>1, <3>2
  <2>4. Upto(n + 1, h)
    BY <2>2, <2>3
  <2>5. n + 1 \in Nat
    OBVIOUS
  <2>6. QED
    BY <2>4, <2>5
<1>4. Cardinality(U) \in T
  <2>1. T \subseteq Nat
    OBVIOUS
  <2> HIDE DEF T
  <2>2. QED
    BY <1>1, <1>2, <1>3, <2>1, AllNumbers
<1>5. PICK g : \A s \in SUBSET U : g[s] = SumStep(f, g, s)
  <2>1. PICK g : Upto(Cardinality(U), g)
    BY <1>4
  <2>2. \A s \in SUBSET U : Cardinality(s) <= Cardinality(U)
    BY FS_Subset
  <2>3. QED
    BY <2>1, <2>2
<1> DEFINE h == [s \in SUBSET U |-> g[s]]
<1>6. ASSUME NEW s \in SUBSET U PROVE g[s] = SumStep(f, h, s)
  <2>1. s \ {CHOOSE x \in s : TRUE} \in SUBSET U
    OBVIOUS
  <2>2. QED
    BY <1>5, <2>1 DEF SumStep
<1>7. h = [s \in SUBSET U |-> SumStep(f, h, s)]
  BY <1>6
<1> HIDE DEF h
<1>8. SumTable(f, U) = [s \in SUBSET U |-> SumStep(f, SumTable(f, U), s)]
  BY <1>7 DEF SumTable
<1>9. QED
  BY <1>8

\* ... and only one: a sum over a part of U is found in the table for U.
LEMMA TotalInTable ==
  ASSUME NEW f, NEW U, IsFiniteSet(U), NEW S \in SUBSET U
  PROVE  Total(f, S) = SumTable(f, U)[S]
<1> DEFINE T == {s \in SUBSET S : SumTable(f, S)[s] = SumTable(f, U)[s]}
           Sizes == {n \in Nat : \A s \in SUBSET S : Cardinality(s) = n => s \in T}
<1>1. /\ IsFiniteSet(S)
      /\ \A s \in SUBSET S : SumTable(f, S)[s] = SumStep(f, SumTable(f, S), s)
      /\ \A s \in SUBSET S : SumTable(f, U)[s] = SumStep(f, SumTable(f, U), s)
  BY FS_Subset, SumTableSolves
<1>2. \A s \in SUBSET S : IsFiniteSet(s) /\ Cardinality(s) \in Nat /\ (Cardinality(s) = 0 <=> s = {})
  BY <1>1, FS_Subset, FS_EmptySet, FS_CardinalityType
<1>3. 0 \in Sizes
  BY <1>1, <1>2 DEF SumStep
<1>4. ASSUME NEW n \in Sizes PROVE n + 1 \in Sizes
  <2>1. n \in Nat
    OBVIOUS
  <2>2. SUFFICES ASSUME NEW s \in SUBSET S, Cardinality(s) = n + 1 PROVE s \in T
    OBVIOUS
  <2> DEFINE rest == s \ {CHOOSE x \in s : TRUE}
  <2>3. s # {} /\ rest \in SUBSET S
    BY <1>2, <2>1, <2>2, OneLess
  <2>4. Cardinality(rest) = n
    BY <1>2, <2>1, <2>2, <2>3, OneLess
  <2>5. rest \in T
    BY <2>3, <2>4
  <2>6. QED
    BY <1>1, <2>3, <2>5 DEF SumStep
<1>5. Sizes = Nat
  <2>1. Sizes \subseteq Nat
    OBVIOUS
  <2> HIDE DEF Sizes
  <2>2. QED
    BY <1>3, <1>4, <2>1, AllNumbers
<1>6. S \in T
  BY <1>2, <1>5
<1>7. QED
  BY <1>6, TotalTable

LEMMA TotalStep ==
  ASSUME NEW f, NEW S, IsFiniteSet(S)
  PROVE  /\ Total(f, {}) = 0
         /\ S # {} => Total(f, S) = f[CHOOSE x \in S : TRUE] + Total(f, S \ {CHOOSE x \in S : TRUE})
<1> DEFINE rest == S \ {CHOOSE x \in S : TRUE}
<1>1. /\ Total(f, {}) = SumTable(f, S)[{}] /\ Total(f, S) = SumTable(f, S)[S]
      /\ Total(f, rest) = SumTable(f, S)[rest]
  BY TotalInTable
<1>2. /\ SumTable(f, S)[{}] = SumStep(f, SumTable(f, S), {})
      /\ SumTable(f, S)[S] = SumStep(f, SumTable(f, S), S)
  BY SumTableSolves
<1>3. QED
  BY <1>1, <1>2 DEF SumStep

LEMMA TotalNat ==
  ASSUME NEW f, NEW S, IsFiniteSet(S), \A x \in S : f[x] \in Nat
  PROVE  Total(f, S) \in Nat
<1> DEFINE Sizes == {n \in Nat : \A s \in SUBSET S : Cardinality(s) = n => Total(f, s) \in Nat}
<1>1. \A s \in SUBSET S : IsFiniteSet(s) /\ Cardinality(s) \in Nat /\ (Cardinality(s) = 0 <=> s = {})
  BY FS_Subset, FS_EmptySet, FS_CardinalityType
<1>2. 0 \in Sizes
  <2>1. Total(f, {}) = 0
    BY TotalStep
  <2>2. QED
    BY <1>1, <2>1
<1>3. ASSUME NEW n \in Sizes PROVE n + 1 \in Sizes
  <2>1. n \in Nat
    OBVIOUS
  <2>2. SUFFICES ASSUME NEW s \in SUBSET S, Cardinality(s) = n + 1 PROVE Total(f, s) \in Nat
    OBVIOUS
  <2> DEFINE c == CHOOSE x \in s : TRUE
  <2>3. s # {} /\ c \in s
    BY <1>1, <2>1, <2>2, OneLess
  <2>4. Cardinality(s \ {c}) = n
    BY <1>1, <2>1, <2>2, <2>3, OneLess
  <2>5. Total(f, s \ {c}) \in Nat /\ f[c] \in Nat
    BY <2>3, <2>4
  <2>6. Total(f, s) = f[c] + Total(f, s \ {c})
    BY <1>1, <2>3, TotalStep
  <2>7. QED
    BY <2>5, <2>6
<1>4. Sizes = Nat
  <2>1. Sizes \subseteq Nat
    OBVIOUS
  <2> HIDE DEF Sizes
  <2>2. QED
    BY <1>2, <1>3, <2>1, AllNumbers
<1>5. QED
  BY <1>1, <1>4

\* Whatever the order, any member can be added last.
LEMMA TotalRemove ==
  ASSUME NEW f, NEW S, IsFiniteSet(S), \A x \in S : f[x] \in Nat, NEW e \in S
  PROVE  Total(f, S) = f[e] + Total(f, S \ {e})
<1> DEFINE Good(s) == \A x \in s : Total(f, s) = f[x] + Total(f, s \ {x})
           Sizes == {n \in Nat : \A s \in SUBSET S : Cardinality(s) = n => Good(s)}
<1>1. \A s \in SUBSET S : /\ IsFiniteSet(s) /\ Cardinality(s) \in Nat /\ (Cardinality(s) = 0 <=> s = {})
                          /\ Total(f, s) \in Nat
  BY FS_Subset, FS_EmptySet, FS_CardinalityType, TotalNat
<1>2. 0 \in Sizes
  BY <1>1
<1>3. ASSUME NEW n \in Sizes PROVE n + 1 \in Sizes
  <2>1. n \in Nat
    OBVIOUS
  <2>2. SUFFICES ASSUME NEW s \in SUBSET S, Cardinality(s) = n + 1, NEW x \in s
                 PROVE  Total(f, s) = f[x] + Total(f, s \ {x})
    OBVIOUS
  <2> DEFINE c == CHOOSE y \in s : TRUE
  <2>3. c \in s
    OBVIOUS
  <2>4. Good(s \ {x}) /\ Good(s \ {c})
    BY <1>1, <2>1, <2>2, <2>3, OneLess
  <2>5. Total(f, s) = f[c] + Total(f, s \ {c})
    BY <1>1, <2>3, TotalStep
  <2>6. CASE x = c
    BY <2>5, <2>6
  <2>7. CASE x # c
    <3>1. Total(f, s \ {c}) = f[x] + Total(f, (s \ {c}) \ {x})
      BY <2>3, <2>4, <2>7
    <3>2. Total(f, s \ {x}) = f[c] + Total(f, (s \ {x}) \ {c})
      BY <2>3, <2>4, <2>7
    <3>3. (s \ {c}) \ {x} = (s \ {x}) \ {c}
      OBVIOUS
    <3>4. Total(f, (s \ {x}) \ {c}) \in Nat /\ f[x] \in Nat /\ f[c] \in Nat
      BY <1>1, <2>3
    <3>5. Total(f, s \ {c}) = f[x] + Total(f, (s \ {x}) \ {c})
      BY <3>1, <3>3
    <3> DEFINE rest == Total(f, (s \ {x}) \ {c})
    <3> HIDE DEF rest, c
    <3>6. Total(f, s) = f[c] + (f[x] + rest) /\ Total(f, s \ {x}) = f[c] + rest
      BY <2>5, <3>2, <3>5 DEF rest
    <3>7. rest \in Nat /\ f[x] \in Nat /\ f[c] \in Nat
      BY <3>4 DEF rest
    <3>8. QED
      BY <3>6, <3>7
  <2>8. QED
    BY <2>6, <2>7
<1>4. Sizes = Nat
  <2>1. Sizes \subseteq Nat
    OBVIOUS
  <2> HIDE DEF Sizes
  <2>2. QED
    BY <1>2, <1>3, <2>1, AllNumbers
<1>5. QED
  BY <1>1, <1>4

LEMMA TotalAdd ==
  ASSUME NEW f, NEW S, IsFiniteSet(S), \A x \in S : f[x] \in Nat,
         NEW e, e \notin S, f[e] \in Nat
  PROVE  Total(f, S \cup {e}) = f[e] + Total(f, S)
<1>1. IsFiniteSet(S \cup {e}) /\ (S \cup {e}) \ {e} = S
  BY FS_AddElement
<1>2. QED
  BY <1>1, TotalRemove

\* Only the values on S count.
LEMMA TotalSame ==
  ASSUME NEW f, NEW g, NEW S, IsFiniteSet(S), \A x \in S : f[x] \in Nat /\ g[x] = f[x]
  PROVE  Total(g, S) = Total(f, S)
<1> DEFINE T == {s \in SUBSET S : Total(g, s) = Total(f, s)}
<1>1. \A s \in SUBSET S : IsFiniteSet(s)
  BY FS_Subset
<1>2. {} \in T
  <2>1. Total(f, {}) = 0 /\ Total(g, {}) = 0
    BY TotalStep
  <2>2. QED
    BY <2>1
<1>3. ASSUME NEW s \in SUBSET S, NEW x \in S \ s, s \in T PROVE s \cup {x} \in T
  <2>1. Total(f, s \cup {x}) = f[x] + Total(f, s)
    BY <1>1, TotalAdd
  <2>2. Total(g, s \cup {x}) = g[x] + Total(g, s)
    BY <1>1, TotalAdd
  <2>3. g[x] = f[x] /\ Total(g, s) = Total(f, s)
    BY <1>3
  <2>4. Total(g, s \cup {x}) = Total(f, s \cup {x})
    BY <2>1, <2>2, <2>3
  <2>5. QED
    BY <2>4
<1> HIDE DEF T
<1>4. S \in T
  BY <1>2, <1>3, AllSubsets
<1>5. QED
  BY <1>4 DEF T

\* A sum does not depend on the names of what is summed.
LEMMA TotalRenamed ==
  ASSUME NEW f, NEW g, NEW p, NEW S, IsFiniteSet(S),
         \A x \in S : g[p[x]] \in Nat /\ f[x] = g[p[x]],
         \A x, y \in S : p[x] = p[y] => x = y
  PROVE  Total(f, S) = Total(g, {p[x] : x \in S})
<1> DEFINE T == {s \in SUBSET S : Total(f, s) = Total(g, {p[x] : x \in s})}
<1>1. \A s \in SUBSET S : IsFiniteSet(s) /\ IsFiniteSet({p[x] : x \in s})
  BY FiniteTogether
<1>2. {} \in T
  <2>1. {p[x] : x \in {}} = {}
    OBVIOUS
  <2>2. Total(f, {}) = 0 /\ Total(g, {}) = 0
    BY TotalStep
  <2>3. QED
    BY <2>1, <2>2
<1>3. ASSUME NEW s \in SUBSET S, NEW x \in S \ s, s \in T PROVE s \cup {x} \in T
  <2> DEFINE P == {p[y] : y \in s}
  <2>1. {p[y] : y \in s \cup {x}} = P \cup {p[x]} /\ p[x] \notin P
    OBVIOUS
  <2>2. IsFiniteSet(P) /\ \A q \in P : g[q] \in Nat
    BY <1>1
  <2>3. Total(f, s) = Total(g, P)
    BY <1>3
  <2>4. g[p[x]] \in Nat /\ f[x] = g[p[x]] /\ \A y \in s : f[y] \in Nat
    OBVIOUS
  <2> HIDE DEF P
  <2>5. Total(f, s \cup {x}) = f[x] + Total(f, s)
    BY <1>1, <2>4, TotalAdd
  <2>6. Total(g, P \cup {p[x]}) = g[p[x]] + Total(g, P)
    BY <2>1, <2>2, <2>4, TotalAdd
  <2>7. Total(f, s \cup {x}) = Total(g, {p[y] : y \in s \cup {x}})
    BY <2>1, <2>3, <2>4, <2>5, <2>6
  <2>8. QED
    BY <2>7
<1> HIDE DEF T
<1>4. S \in T
  BY <1>2, <1>3, AllSubsets
<1>5. QED
  BY <1>4 DEF T

LEMMA TotalUnion ==
  ASSUME NEW f, NEW S, NEW U, IsFiniteSet(S), IsFiniteSet(U), S \cap U = {},
         \A x \in S \cup U : f[x] \in Nat
  PROVE  Total(f, S \cup U) = Total(f, S) + Total(f, U)
<1> DEFINE T == {s \in SUBSET U : Total(f, S \cup s) = Total(f, S) + Total(f, s)}
<1>1. \A s \in SUBSET U : /\ IsFiniteSet(s) /\ IsFiniteSet(S \cup s)
                          /\ Total(f, s) \in Nat /\ Total(f, S \cup s) \in Nat
  BY FS_Subset, FS_Union, TotalNat
<1>2. {} \in T
  <2>1. S \cup {} = S /\ Total(f, {}) = 0 /\ Total(f, S) \in Nat
    BY TotalStep, TotalNat
  <2>2. QED
    BY <2>1
<1>3. ASSUME NEW s \in SUBSET U, NEW x \in U \ s, s \in T PROVE s \cup {x} \in T
  <2>1. Total(f, s \cup {x}) = f[x] + Total(f, s)
    BY <1>1, TotalAdd
  <2>2. Total(f, (S \cup s) \cup {x}) = f[x] + Total(f, S \cup s)
    BY <1>1, TotalAdd
  <2>3. S \cup (s \cup {x}) = (S \cup s) \cup {x}
    OBVIOUS
  <2>4. Total(f, S) \in Nat /\ f[x] \in Nat /\ Total(f, s) \in Nat
    BY <1>1, TotalNat
  <2>5. Total(f, S \cup (s \cup {x})) = f[x] + (Total(f, S) + Total(f, s))
    BY <1>3, <2>2, <2>3
  <2>6. Total(f, S \cup (s \cup {x})) = Total(f, S) + Total(f, s \cup {x})
    BY <2>1, <2>4, <2>5
  <2>7. QED
    BY <2>6
<1> HIDE DEF T
<1>4. U \in T
  BY <1>2, <1>3, AllSubsets
<1>5. QED
  BY <1>4 DEF T

LEMMA TotalSubset ==
  ASSUME NEW f, NEW U, IsFiniteSet(U), NEW S \in SUBSET U, \A x \in U : f[x] \in Nat
  PROVE  Total(f, S) <= Total(f, U)
<1>1. IsFiniteSet(S) /\ IsFiniteSet(U \ S) /\ S \cup (U \ S) = U
  BY FS_Subset
<1>2. Total(f, U) = Total(f, S) + Total(f, U \ S)
  BY <1>1, TotalUnion
<1>3. Total(f, S) \in Nat /\ Total(f, U \ S) \in Nat
  BY <1>1, TotalNat
<1>4. QED
  BY <1>2, <1>3

-----------------------------------------------------------------------------
\* The members of a finite set in order.

\* A strict total order of U, as a set of pairs.
Orders(R, U) ==
    /\ \A x \in U : <<x, x>> \notin R
    /\ \A x, y, z \in U : <<x, y>> \in R /\ <<y, z>> \in R => <<x, z>> \in R
    /\ \A x, y \in U : x = y \/ <<x, y>> \in R \/ <<y, x>> \in R

LEMMA HasLast ==
  ASSUME NEW U, IsFiniteSet(U), NEW R, Orders(R, U), U # {}
  PROVE  \E m \in U : \A x \in U \ {m} : <<x, m>> \in R
<1> DEFINE T == {S \in SUBSET U : S = {} \/ \E m \in S : \A x \in S \ {m} : <<x, m>> \in R}
<1>1. ASSUME NEW S \in SUBSET U, NEW y \in U \ S, S \in T PROVE S \cup {y} \in T
  <2>1. CASE S = {}
    BY <2>1
  <2>2. ASSUME NEW m \in S, \A x \in S \ {m} : <<x, m>> \in R
        PROVE  \E k \in S \cup {y} : \A x \in (S \cup {y}) \ {k} : <<x, k>> \in R
    <3>1. CASE <<y, m>> \in R
      BY <2>2, <3>1
    <3>2. CASE <<m, y>> \in R
      BY <2>2, <3>2 DEF Orders
    <3>3. QED
      BY <3>1, <3>2 DEF Orders
  <2>3. QED
    BY <1>1, <2>1, <2>2
<1>2. {} \in T
  OBVIOUS
<1> HIDE DEF T
<1>3. U \in T
  BY <1>1, <1>2, AllSubsets
<1>4. QED
  BY <1>3 DEF T

InOrder(s, n, R) == \A i, j \in 1..n : i < j => <<s[i], s[j]>> \in R

LEMMA SortedExists ==
  ASSUME NEW U, IsFiniteSet(U), NEW R, Orders(R, U)
  PROVE  \E s \in [1..Cardinality(U) -> U] : InOrder(s, Cardinality(U), R)
<1> DEFINE Good(S, n) == \E s \in [1..n -> S] : InOrder(s, n, R)
           Sizes == {n \in Nat : \A S \in SUBSET U : Cardinality(S) = n => Good(S, n)}
<1>1. \A S \in SUBSET U : IsFiniteSet(S) /\ Cardinality(S) \in Nat /\ Orders(R, S)
  BY FS_Subset, FS_CardinalityType DEF Orders
<1>2. 0 \in Sizes
  <2>1. ASSUME NEW S \in SUBSET U PROVE Good(S, 0)
    <3>1. <<>> \in [1..0 -> S] /\ InOrder(<<>>, 0, R)
      BY DEF InOrder
    <3>2. QED
      BY <3>1
  <2>2. QED
    BY <2>1
<1>3. ASSUME NEW n \in Sizes PROVE n + 1 \in Sizes
  <2>1. n \in Nat
    OBVIOUS
  <2>2. SUFFICES ASSUME NEW S \in SUBSET U, Cardinality(S) = n + 1 PROVE Good(S, n + 1)
    OBVIOUS
  <2>3. S # {}
    BY <1>1, <2>1, <2>2, OneLess
  <2>4. PICK m \in S : \A x \in S \ {m} : <<x, m>> \in R
    BY <1>1, <2>3, HasLast
  <2>5. Cardinality(S \ {m}) = n
    BY <1>1, <2>1, <2>2, OneLess
  <2>6. PICK s \in [1..n -> S \ {m}] : InOrder(s, n, R)
    BY <2>5
  <2> DEFINE t == [i \in 1..(n + 1) |-> IF i = n + 1 THEN m ELSE s[i]]
  <2>7. \A i \in 1..(n + 1) : i = n + 1 \/ i \in 1..n
    BY <2>1
  <2>8. t \in [1..(n + 1) -> S]
    BY <2>7
  <2>9. ASSUME NEW i \in 1..(n + 1), NEW j \in 1..(n + 1), i < j PROVE <<t[i], t[j]>> \in R
    <3>1. i \in 1..n /\ i # n + 1
      BY <2>1, <2>9
    <3>2. CASE j = n + 1
      BY <2>4, <2>6, <3>1, <3>2
    <3>3. CASE j # n + 1
      BY <2>6, <2>7, <2>9, <3>1, <3>3 DEF InOrder
    <3>4. QED
      BY <3>2, <3>3
  <2>10. QED
    BY <2>8, <2>9 DEF InOrder
<1>4. Sizes = Nat
  <2>1. Sizes \subseteq Nat
    OBVIOUS
  <2> HIDE DEF Sizes
  <2>2. QED
    BY <1>2, <1>3, <2>1, AllNumbers
<1>5. QED
  BY <1>1, <1>4

\* A sorted sequence as long as U has every member of U, once.
LEMMA SortedOnto ==
  ASSUME NEW U, IsFiniteSet(U), NEW R, Orders(R, U),
         NEW s \in [1..Cardinality(U) -> U], InOrder(s, Cardinality(U), R)
  PROVE  /\ \A i, j \in 1..Cardinality(U) : s[i] = s[j] => i = j
         /\ \A x \in U : \E i \in 1..Cardinality(U) : s[i] = x
<1> DEFINE n == Cardinality(U)
<1>1. n \in Nat /\ IsFiniteSet(1..n) /\ Cardinality(1..n) = n
  <2>1. n \in Nat
    BY FS_CardinalityType
  <2> HIDE DEF n
  <2>2. QED
    BY <2>1, FS_Interval
<1>2. ASSUME NEW i \in 1..n, NEW j \in 1..n, s[i] = s[j] PROVE i = j
  <2>1. ~(i < j) /\ ~(j < i)
    BY <1>2 DEF Orders, InOrder
  <2>2. QED
    BY <2>1
<1>3. s \in Injection(1..n, U)
  BY <1>2 DEF Injection, IsInjective
<1>4. s \in Surjection(1..n, U)
  BY <1>1, <1>3, FS_Injection
<1>5. \A x \in U : \E i \in 1..n : s[i] = x
  BY <1>4 DEF Surjection
<1>6. QED
  BY <1>2, <1>5

=============================================================================
