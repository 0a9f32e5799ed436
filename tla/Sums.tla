-------------------------------- MODULE Sums --------------------------------
(***************************************************************************)
(* Finite sums, for any finite set of summands. SumFunction of the         *)
(* community modules folds a function by a CHOOSE of a function over all   *)
(* subsets; here that choice is shown to exist (SumTableUpto, by induction *)
(* on the size), to be unique whatever element is picked first             *)
(* (SumAnyOrder), and to obey the laws the money invariants cite: one      *)
(* summand changes (SumExcept), one summand more (SumOver), two sums added *)
(* (SumPlus), compared (SumMonotone) or bounded (SumBound).                *)
(*                                                                         *)
(* Induction is by well-foundedness of < on Nat (NatInduct), a theorem of  *)
(* the library whose statement takes no operator parameter.                *)
(***************************************************************************)
EXTENDS Integers, FiniteSets, Functions, FiniteSetTheorems, WellFoundedInduction, TLAPS

\* A nonempty set of naturals has a least element.
LEMMA LeastNat ==
  ASSUME NEW T \in SUBSET Nat, T # {}
  PROVE  \E x \in T : \A y \in T : x <= y
<1>1. \E x \in T : \A y \in T : ~ (<<y, x>> \in OpToRel(<, Nat))
  BY NatLessThanWellFounded, WFMin
<1>2. PICK x \in T : \A y \in T : ~ (<<y, x>> \in OpToRel(<, Nat))
  BY <1>1
<1>3. \A y \in T : ~(y < x)
  BY <1>2 DEF OpToRel
<1> QED BY <1>3

\* Induction on the naturals, for a set instead of a predicate.
LEMMA NatInduct ==
  ASSUME NEW S, 0 \in S, \A n \in Nat : n \in S => n + 1 \in S
  PROVE  Nat \subseteq S
<1> SUFFICES ASSUME NEW m \in Nat, m \notin S PROVE FALSE
  OBVIOUS
<1> DEFINE T == {n \in Nat : n \notin S}
<1>1. PICK x \in T : \A y \in T : x <= y
  BY LeastNat
<1>2. x # 0 /\ x - 1 \in Nat /\ x - 1 \notin T
  BY <1>1
<1> QED BY <1>1, <1>2

\* Induction on the subsets of a finite set, one element at a time.
LEMMA FiniteSubsetInduct ==
  ASSUME NEW S, IsFiniteSet(S), NEW G, {} \in G,
         \A X \in SUBSET S : X \in G => \A x \in S \ X : X \cup {x} \in G
  PROVE  SUBSET S \subseteq G
<1> DEFINE T == {n \in Nat : \A X \in SUBSET S : Cardinality(X) = n => X \in G}
<1>0. \A X \in SUBSET S : IsFiniteSet(X) /\ Cardinality(X) \in Nat
  BY FS_Subset, FS_CardinalityType
<1>1. 0 \in T
  BY <1>0, FS_EmptySet
<1>2. ASSUME NEW n \in Nat, n \in T PROVE n + 1 \in T
  <2> SUFFICES ASSUME NEW X \in SUBSET S, Cardinality(X) = n + 1 PROVE X \in G
    OBVIOUS
  <2>1. X # {}
    BY FS_EmptySet
  <2>2. PICK x \in X : TRUE
    BY <2>1
  <2>3. Cardinality(X \ {x}) = n
    <3>1. IsFiniteSet(X)
      BY <1>0
    <3>2. Cardinality(X \ {x}) = Cardinality(X) - 1
      BY <2>2, <3>1, FS_RemoveElement
    <3> QED BY <3>2
  <2>4. X \ {x} \in G
    BY <1>2, <2>3
  <2> QED BY <2>2, <2>4, X = (X \ {x}) \cup {x}
<1> HIDE DEF T
<1>3. Nat \subseteq T
  BY <1>1, <1>2, NatInduct
<1> QED BY <1>0, <1>3 DEF T

-----------------------------------------------------------------------------
\* The element the fold takes first.
SumPick(s) == CHOOSE x \in s : TRUE

\* One step of the fold: the picked summand and the sum of the rest.
SumStep(f, g, s) == IF s = {} THEN 0 ELSE f[SumPick(s)] + g[s \ {SumPick(s)}]

\* g holds the sum of f over every subset of S.
SumEquation(f, S, g) == g = [s \in SUBSET S |-> SumStep(f, g, s)]

\* SumFunction is the fold's chosen table, read at the whole domain.
LEMMA SumIsChosen ==
  ASSUME NEW f
  PROVE  SumFunction(f) = (CHOOSE g : SumEquation(f, DOMAIN f, g))[DOMAIN f]
BY DEF SumFunction, SumFunctionOnSet, FoldFunctionOnSet, MapThenFoldSet, SumEquation,
   SumStep, SumPick

\* The subsets of S with at most n elements.
SubsetsUpto(S, n) == {s \in SUBSET S : Cardinality(s) <= n}

\* A nonempty subset of a finite set loses exactly one element.
LEMMA OneLess ==
  ASSUME NEW S, IsFiniteSet(S), NEW s \in SUBSET S, NEW x \in s
  PROVE  /\ s \ {x} \in SUBSET S /\ IsFiniteSet(s) /\ Cardinality(s) \in Nat
         /\ Cardinality(s \ {x}) = Cardinality(s) - 1 /\ Cardinality(s \ {x}) \in Nat
<1>1. IsFiniteSet(s)
  BY FS_Subset
<1>2. Cardinality(s \ {x}) = Cardinality(s) - 1 /\ IsFiniteSet(s \ {x})
  BY <1>1, FS_RemoveElement
<1> QED BY <1>1, <1>2, FS_CardinalityType

\* There is a table for the subsets of any bounded size.
LEMMA SumTableUpto ==
  ASSUME NEW S, IsFiniteSet(S), NEW f \in [S -> Int], NEW n \in Nat
  PROVE  \E g \in [SubsetsUpto(S, n) -> Int] :
           \A s \in SubsetsUpto(S, n) : g[s] = SumStep(f, g, s)
<1> DEFINE T == {m \in Nat : \E g \in [SubsetsUpto(S, m) -> Int] :
                                \A s \in SubsetsUpto(S, m) : g[s] = SumStep(f, g, s)}
<1>1. 0 \in T
  <2>1. \A s \in SubsetsUpto(S, 0) : s = {}
    BY FS_Subset, FS_EmptySet, FS_CardinalityType DEF SubsetsUpto
  <2> DEFINE g == [s \in SubsetsUpto(S, 0) |-> 0]
  <2>2. g \in [SubsetsUpto(S, 0) -> Int] /\ \A s \in SubsetsUpto(S, 0) : g[s] = SumStep(f, g, s)
    BY <2>1 DEF SumStep
  <2> QED BY <2>2
<1>2. ASSUME NEW m \in Nat, m \in T PROVE m + 1 \in T
  <2>1. PICK g \in [SubsetsUpto(S, m) -> Int] :
          \A s \in SubsetsUpto(S, m) : g[s] = SumStep(f, g, s)
    BY <1>2
  <2> DEFINE h == [s \in SubsetsUpto(S, m + 1) |-> SumStep(f, g, s)]
  <2>2. ASSUME NEW s \in SubsetsUpto(S, m + 1), s # {}
        PROVE  SumPick(s) \in s /\ s \ {SumPick(s)} \in SubsetsUpto(S, m)
    <3>1. SumPick(s) \in s
      BY <2>2 DEF SumPick
    <3> QED BY <3>1, OneLess DEF SubsetsUpto
  <2>3. h \in [SubsetsUpto(S, m + 1) -> Int]
    <3> SUFFICES ASSUME NEW s \in SubsetsUpto(S, m + 1) PROVE SumStep(f, g, s) \in Int
      OBVIOUS
    <3> QED BY <2>2 DEF SumStep, SubsetsUpto
  <2>4. \A t \in SubsetsUpto(S, m) : t \in SubsetsUpto(S, m + 1) /\ h[t] = g[t]
    <3> SUFFICES ASSUME NEW t \in SubsetsUpto(S, m)
                 PROVE  t \in SubsetsUpto(S, m + 1) /\ h[t] = g[t]
      OBVIOUS
    <3>1. t \in SubsetsUpto(S, m + 1)
      <4>1. Cardinality(t) \in Nat
        BY FS_Subset, FS_CardinalityType DEF SubsetsUpto
      <4> QED BY <4>1 DEF SubsetsUpto
    <3> QED BY <2>1, <3>1
  <2>5. ASSUME NEW s \in SubsetsUpto(S, m + 1) PROVE h[s] = SumStep(f, h, s)
    <3>1. h[s] = SumStep(f, g, s)
      OBVIOUS
    <3>2. SumStep(f, g, s) = SumStep(f, h, s)
      <4>1. CASE s = {}
        BY <4>1 DEF SumStep
      <4>2. CASE s # {}
        <5>1. h[s \ {SumPick(s)}] = g[s \ {SumPick(s)}]
          BY <2>2, <2>4, <4>2
        <5> HIDE DEF h
        <5> QED BY <4>2, <5>1 DEF SumStep
      <4> QED BY <4>1, <4>2
    <3> HIDE DEF h
    <3> QED BY <3>1, <3>2
  <2> HIDE DEF h
  <2> QED BY <2>3, <2>5
<1> HIDE DEF T
<1>3. n \in T
  BY <1>1, <1>2, NatInduct
<1> QED BY <1>3 DEF T

\* There is a table for all subsets, so the fold's CHOOSE finds one.
LEMMA SumTableExists ==
  ASSUME NEW S, IsFiniteSet(S), NEW f \in [S -> Int]
  PROVE  \E g : SumEquation(f, S, g)
<1> DEFINE n == Cardinality(S)
<1>1. n \in Nat
  BY FS_CardinalityType
<1>2. SubsetsUpto(S, n) = SUBSET S
  BY FS_Subset DEF SubsetsUpto
<1> HIDE DEF n
<1>5. \E g \in [SubsetsUpto(S, n) -> Int] : \A s \in SubsetsUpto(S, n) : g[s] = SumStep(f, g, s)
  BY <1>1, SumTableUpto
<1>3. PICK g \in [SUBSET S -> Int] : \A s \in SUBSET S : g[s] = SumStep(f, g, s)
  BY <1>2, <1>5
<1>4. g = [s \in SUBSET S |-> SumStep(f, g, s)]
  BY <1>3
<1> QED BY <1>4 DEF SumEquation

\* g is a table of the sums of the integer function f on the finite set S.
SumTable(f, S, g) == IsFiniteSet(S) /\ f \in [S -> Int] /\ SumEquation(f, S, g)

\* A table holds integers, and unfolds at the picked element.
LEMMA SumTableStep ==
  ASSUME NEW S, NEW f, NEW g, SumTable(f, S, g)
  PROVE  /\ g[{}] = 0
         /\ \A s \in SUBSET S : s # {} => SumPick(s) \in s
         /\ \A s \in SUBSET S : s # {} => g[s] = f[SumPick(s)] + g[s \ {SumPick(s)}]
         /\ \A s \in SUBSET S : g[s] \in Int
<1> USE DEF SumTable
<1>1. \A s \in SUBSET S : g[s] = SumStep(f, g, s)
  BY DEF SumEquation
<1>2. g[{}] = 0
  BY <1>1 DEF SumStep
<1>3. ASSUME NEW s \in SUBSET S, s # {}
      PROVE SumPick(s) \in s /\ g[s] = f[SumPick(s)] + g[s \ {SumPick(s)}]
  BY <1>1, <1>3 DEF SumStep, SumPick
<1> DEFINE T == {n \in Nat : \A s \in SUBSET S : Cardinality(s) = n => g[s] \in Int}
<1>4. 0 \in T
  BY <1>2, FS_Subset, FS_EmptySet
<1>5. ASSUME NEW n \in Nat, n \in T PROVE n + 1 \in T
  <2> SUFFICES ASSUME NEW s \in SUBSET S, Cardinality(s) = n + 1 PROVE g[s] \in Int
    OBVIOUS
  <2>1. s # {}
    BY FS_EmptySet
  <2>4. SumPick(s) \in s /\ g[s] = f[SumPick(s)] + g[s \ {SumPick(s)}]
    BY <1>3, <2>1
  <2> DEFINE t == s \ {SumPick(s)}
  <2>2. Cardinality(t) = (n + 1) - 1 /\ t \in SUBSET S
    BY <2>4, OneLess
  <2>3. f[SumPick(s)] \in Int
    BY <2>4
  <2>5. g[t] \in Int
    <3> HIDE DEF t
    <3>1. Cardinality(t) = n
      BY <2>2
    <3> QED BY <1>5, <2>2, <3>1
  <2> QED BY <2>3, <2>4, <2>5
<1> HIDE DEF T
<1>6. Nat \subseteq T
  BY <1>4, <1>5, NatInduct
<1>7. \A s \in SUBSET S : g[s] \in Int
  BY <1>6, FS_Subset, FS_CardinalityType DEF T
<1> QED BY <1>2, <1>3, <1>7

\* A table unfolds at every element, not only at the picked one.
LEMMA SumAnyOrder ==
  ASSUME NEW S, NEW f, NEW g, SumTable(f, S, g), NEW s \in SUBSET S, NEW x \in s
  PROVE  g[s] = f[x] + g[s \ {x}]
<1>0. IsFiniteSet(S) /\ f \in [S -> Int]
  BY DEF SumTable
<1>3. \A u \in SUBSET S :
        u # {} => SumPick(u) \in u /\ g[u] = f[SumPick(u)] + g[u \ {SumPick(u)}]
  BY SumTableStep
<1> DEFINE T == {n \in Nat : \A t \in SUBSET S : Cardinality(t) = n =>
                               \A y \in t : g[t] = f[y] + g[t \ {y}]}
<1>1. 0 \in T
  <2> SUFFICES ASSUME NEW t \in SUBSET S, Cardinality(t) = 0 PROVE t = {}
    OBVIOUS
  <2> QED BY <1>0, FS_Subset, FS_EmptySet
<1>2. ASSUME NEW n \in Nat, n \in T PROVE n + 1 \in T
  <2> SUFFICES ASSUME NEW t \in SUBSET S, Cardinality(t) = n + 1, NEW y \in t
               PROVE  g[t] = f[y] + g[t \ {y}]
    BY n + 1 \in Nat, Zenon
  <2> DEFINE p == SumPick(t)
  <2>1. p \in t /\ g[t] = f[p] + g[t \ {p}]
    <3>1. t # {}
      OBVIOUS
    <3> HIDE DEF T
    <3> QED BY <1>3, <3>1
  <2>2. CASE y = p
    BY <2>1, <2>2
  <2>3. CASE y # p
    <3>1. t \ {p} \in SUBSET S /\ Cardinality(t \ {p}) = n /\ y \in t \ {p}
      BY <1>0, <2>1, <2>3, OneLess
    <3>2. t \ {y} \in SUBSET S /\ Cardinality(t \ {y}) = n /\ p \in t \ {y}
      BY <1>0, <2>1, <2>3, OneLess
    <3>3. g[t \ {p}] = f[y] + g[(t \ {p}) \ {y}]
      BY <1>2, <3>1
    <3>4. g[t \ {y}] = f[p] + g[(t \ {y}) \ {p}]
      BY <1>2, <3>2
    <3>5. (t \ {p}) \ {y} = (t \ {y}) \ {p} /\ (t \ {y}) \ {p} \in SUBSET S
      OBVIOUS
    <3>6. f[p] \in Int /\ f[y] \in Int /\ g[(t \ {y}) \ {p}] \in Int
      BY <1>0, <2>1, <3>5, SumTableStep
    <3> DEFINE r == (t \ {y}) \ {p}
    <3>7. g[t] = f[p] + (f[y] + g[r]) /\ g[t \ {y}] = f[p] + g[r]
      BY <2>1, <3>3, <3>4, <3>5
    <3>8. \A a, b, c \in Int : a + (b + c) = b + (a + c)
      OBVIOUS
    <3> HIDE DEF p, r
    <3> QED BY <3>6, <3>7, <3>8 DEF r
  <2> QED BY <2>2, <2>3
<1> HIDE DEF T
<1>4. Nat \subseteq T
  BY <1>1, <1>2, NatInduct
<1> QED BY <1>0, <1>4, FS_Subset, FS_CardinalityType DEF T

-----------------------------------------------------------------------------
\* Tables of two functions that agree on R hold the same sum for R.
LEMMA SumTablesAgree ==
  ASSUME NEW S, NEW f, NEW g, SumTable(f, S, g),
         NEW R \in SUBSET S, NEW e, NEW h, SumTable(e, R, h),
         \A y \in R : e[y] = f[y]
  PROVE  g[R] = h[R]
<1> DEFINE G == {X \in SUBSET R : g[X] = h[X]}
<1>0. IsFiniteSet(R)
  BY DEF SumTable
<1>1. {} \in G
  BY SumTableStep
<1>2. ASSUME NEW X \in SUBSET R, X \in G, NEW y \in R \ X PROVE X \cup {y} \in G
  <2>1. (X \cup {y}) \ {y} = X /\ X \cup {y} \in SUBSET R /\ X \cup {y} \in SUBSET S
    OBVIOUS
  <2>2. g[X \cup {y}] = f[y] + g[X]
    BY <2>1, SumAnyOrder
  <2>3. h[X \cup {y}] = e[y] + h[X]
    <3> DEFINE Y == X \cup {y}
    <3>1. Y \in SUBSET R /\ y \in Y /\ Y \ {y} = X
      BY <2>1
    <3> HIDE DEF Y
    <3>2. h[Y] = e[y] + h[Y \ {y}]
      BY <3>1, SumAnyOrder
    <3> QED BY <3>1, <3>2 DEF Y
  <2> QED BY <1>2, <2>1, <2>2, <2>3
<1> HIDE DEF G
<1>5. SUBSET R \subseteq G
  BY <1>0, <1>1, <1>2, FiniteSubsetInduct
<1> QED BY <1>5 DEF G

\* The sum of a function is read off some table.
LEMMA SumByTable ==
  ASSUME NEW S, IsFiniteSet(S), NEW f \in [S -> Int]
  PROVE  \E g : SumTable(f, S, g) /\ SumFunction(f) = g[S]
<1> DEFINE g == CHOOSE g : SumEquation(f, S, g)
<1>1. SumEquation(f, S, g)
  BY SumTableExists
<1>2. SumFunction(f) = g[S]
  BY SumIsChosen
<1> QED BY <1>1, <1>2 DEF SumTable

\* The sum of integers is an integer.
LEMMA SumType ==
  ASSUME NEW S, IsFiniteSet(S), NEW f \in [S -> Int]
  PROVE  SumFunction(f) \in Int
BY SumByTable, SumTableStep

\* The sum of nothing is zero.
LEMMA SumEmpty ==
  ASSUME NEW f \in [{} -> Int]
  PROVE  SumFunction(f) = 0
<1>1. IsFiniteSet({})
  BY FS_EmptySet
<1>2. PICK g : SumTable(f, {}, g) /\ SumFunction(f) = g[{}]
  BY <1>1, SumByTable
<1> QED BY <1>1, <1>2, SumTableStep

\* One summand taken out.
LEMMA SumSplit ==
  ASSUME NEW S, IsFiniteSet(S), NEW f \in [S -> Int], NEW x \in S
  PROVE  SumFunction(f) = f[x] + SumFunction([y \in S \ {x} |-> f[y]])
<1> DEFINE R == S \ {x}
           e == [y \in R |-> f[y]]
<1>1. IsFiniteSet(R) /\ e \in [R -> Int]
  BY FS_Subset
<1>2. PICK g : SumTable(f, S, g) /\ SumFunction(f) = g[S]
  BY SumByTable
<1>3. PICK h : SumTable(e, R, h) /\ SumFunction(e) = h[R]
  BY <1>1, SumByTable
<1>4. g[S] = f[x] + g[R]
  BY <1>2, SumAnyOrder
<1>5. g[R] = h[R]
  <2>1. R \in SUBSET S /\ \A y \in R : e[y] = f[y]
    OBVIOUS
  <2> HIDE DEF e, R
  <2> QED BY <1>1, <1>2, <1>3, <2>1, SumTablesAgree
<1> HIDE DEF R
<1> QED BY <1>2, <1>3, <1>4, <1>5 DEF R

\* One summand put in.
LEMMA SumAdd ==
  ASSUME NEW S, IsFiniteSet(S), NEW x, x \notin S, NEW f \in [S \cup {x} -> Int]
  PROVE  SumFunction(f) = SumFunction([y \in S |-> f[y]]) + f[x]
<1> DEFINE T == S \cup {x}
           e == [y \in S |-> f[y]]
<1>1. IsFiniteSet(T)
  BY FS_AddElement
<1>2. T \ {x} = S
  OBVIOUS
<1>3. SumFunction(f) = f[x] + SumFunction([y \in T \ {x} |-> f[y]])
  <2> HIDE DEF T
  <2>1. f \in [T -> Int] /\ x \in T
    BY DEF T
  <2> QED BY <1>1, <2>1, SumSplit
<1>4. SumFunction(e) \in Int /\ f[x] \in Int
  <2>1. e \in [S -> Int]
    OBVIOUS
  <2> HIDE DEF e
  <2> QED BY <2>1, SumType
<1>5. SumFunction(f) = f[x] + SumFunction(e)
  BY <1>2, <1>3
<1> HIDE DEF e
<1>6. SumFunction(f) = SumFunction(e) + f[x]
  BY <1>4, <1>5
<1> QED BY <1>6 DEF e

\* The sum over a part of the domain is an integer.
LEMMA SumOverType ==
  ASSUME NEW S, IsFiniteSet(S), NEW f \in [S -> Int], NEW X \in SUBSET S
  PROVE  SumFunction(Restrict(f, X)) \in Int
<1> DEFINE d == [y \in X |-> f[y]]
<1>1. IsFiniteSet(X) /\ d \in [X -> Int]
  BY FS_Subset
<1> HIDE DEF d
<1>2. SumFunction(d) \in Int
  BY <1>1, SumType
<1> QED BY <1>2 DEF d, Restrict

\* The sum over a part of the domain that gains one element.
LEMMA SumOver ==
  ASSUME NEW S, IsFiniteSet(S), NEW f \in [S -> Int], NEW X \in SUBSET S,
         NEW x \in S, x \notin X
  PROVE  SumFunction(Restrict(f, X \cup {x})) = SumFunction(Restrict(f, X)) + f[x]
<1> DEFINE e == [y \in X \cup {x} |-> f[y]]
           d == [y \in X |-> f[y]]
<1>1. IsFiniteSet(X) /\ e \in [X \cup {x} -> Int] /\ e[x] = f[x] /\ [y \in X |-> e[y]] = d
  BY FS_Subset
<1> HIDE DEF e, d
<1>2. SumFunction(e) = SumFunction([y \in X |-> e[y]]) + e[x]
  BY <1>1, SumAdd
<1> QED BY <1>1, <1>2 DEF e, d, Restrict

\* The sum after one summand changed.
LEMMA SumExcept ==
  ASSUME NEW S, IsFiniteSet(S), NEW f \in [S -> Int], NEW x \in S, NEW v \in Int
  PROVE  SumFunction([f EXCEPT ![x] = v]) = SumFunction(f) - f[x] + v
<1> DEFINE h == [f EXCEPT ![x] = v]
           rest == [y \in S \ {x} |-> f[y]]
<1>1. h \in [S -> Int] /\ h[x] = v /\ f[x] \in Int
  OBVIOUS
<1>2. [y \in S \ {x} |-> h[y]] = rest
  OBVIOUS
<1>3. SumFunction(f) = f[x] + SumFunction(rest)
  BY SumSplit
<1>4. SumFunction(h) = v + SumFunction(rest)
  <2> HIDE DEF h
  <2>1. SumFunction(h) = h[x] + SumFunction([y \in S \ {x} |-> h[y]])
    BY <1>1, SumSplit
  <2> QED BY <1>1, <1>2, <2>1
<1>5. SumFunction(rest) \in Int
  <2>1. IsFiniteSet(S \ {x}) /\ rest \in [S \ {x} -> Int]
    BY FS_Subset
  <2> HIDE DEF rest
  <2> QED BY <2>1, SumType
<1> HIDE DEF h, rest
<1>6. SumFunction(h) = SumFunction(f) - f[x] + v
  BY <1>1, <1>3, <1>4, <1>5
<1> QED BY <1>6 DEF h

\* The sum of the sums is the sum, pointwise.
LEMMA SumPlus ==
  ASSUME NEW S, IsFiniteSet(S), NEW f \in [S -> Int], NEW g \in [S -> Int]
  PROVE  SumFunction([x \in S |-> f[x] + g[x]]) = SumFunction(f) + SumFunction(g)
<1> DEFINE F(X) == [x \in X |-> f[x]]
           H(X) == [x \in X |-> g[x]]
           P(X) == [x \in X |-> f[x] + g[x]]
           G == {X \in SUBSET S : SumFunction(P(X)) = SumFunction(F(X)) + SumFunction(H(X))}
<1>1. {} \in G
  <2>1. F({}) \in [{} -> Int] /\ H({}) \in [{} -> Int] /\ P({}) \in [{} -> Int]
    OBVIOUS
  <2>2. SumFunction(F({})) = 0 /\ SumFunction(H({})) = 0 /\ SumFunction(P({})) = 0
    <3> HIDE DEF F, H, P
    <3> QED BY <2>1, SumEmpty
  <2> HIDE DEF F, H, P
  <2> QED BY <2>2
<1>2. ASSUME NEW X \in SUBSET S, X \in G, NEW y \in S \ X PROVE X \cup {y} \in G
  <2> DEFINE Y == X \cup {y}
  <2>1. IsFiniteSet(X) /\ Y \in SUBSET S
    BY FS_Subset
  <2>a. /\ F(Y) \in [Y -> Int] /\ F(X) \in [X -> Int] /\ F(Y)[y] = f[y]
        /\ [x \in X |-> F(Y)[x]] = F(X)
    OBVIOUS
  <2>b. /\ H(Y) \in [Y -> Int] /\ H(X) \in [X -> Int] /\ H(Y)[y] = g[y]
        /\ [x \in X |-> H(Y)[x]] = H(X)
    OBVIOUS
  <2>c. /\ P(Y) \in [Y -> Int] /\ P(X) \in [X -> Int] /\ P(Y)[y] = f[y] + g[y]
        /\ [x \in X |-> P(Y)[x]] = P(X)
    OBVIOUS
  <2>3. f[y] \in Int /\ g[y] \in Int
    OBVIOUS
  <2> HIDE DEF F, H, P
  <2>4. SumFunction(F(Y)) = SumFunction(F(X)) + f[y]
    <3>1. SumFunction(F(Y)) = SumFunction([x \in X |-> F(Y)[x]]) + F(Y)[y]
      BY <2>1, <2>a, SumAdd
    <3> QED BY <2>a, <3>1
  <2>5. SumFunction(H(Y)) = SumFunction(H(X)) + g[y]
    <3>1. SumFunction(H(Y)) = SumFunction([x \in X |-> H(Y)[x]]) + H(Y)[y]
      BY <2>1, <2>b, SumAdd
    <3> QED BY <2>b, <3>1
  <2>6. SumFunction(P(Y)) = SumFunction(P(X)) + (f[y] + g[y])
    <3>1. SumFunction(P(Y)) = SumFunction([x \in X |-> P(Y)[x]]) + P(Y)[y]
      BY <2>1, <2>c, SumAdd
    <3> QED BY <2>c, <3>1
  <2>7. SumFunction(F(X)) \in Int /\ SumFunction(H(X)) \in Int
    BY <2>1, <2>a, <2>b, SumType
  <2>8. SumFunction(P(Y)) = SumFunction(F(Y)) + SumFunction(H(Y))
    <3>1. SumFunction(P(X)) = SumFunction(F(X)) + SumFunction(H(X))
      BY <1>2
    <3> QED BY <2>3, <2>4, <2>5, <2>6, <2>7, <3>1
  <2> QED BY <2>1, <2>8
<1>3. SUBSET S \subseteq G
  <2> HIDE DEF G
  <2> QED BY <1>1, <1>2, FiniteSubsetInduct
<1>4. F(S) = f /\ H(S) = g
  OBVIOUS
<1>5. SumFunction(P(S)) = SumFunction(F(S)) + SumFunction(H(S))
  <2> HIDE DEF F, H, P
  <2> QED BY <1>3
<1> QED BY <1>4, <1>5

\* The sum of naturals is a natural.
LEMMA SumNat ==
  ASSUME NEW S, IsFiniteSet(S), NEW f \in [S -> Nat]
  PROVE  SumFunction(f) \in Nat
<1> DEFINE F(X) == [x \in X |-> f[x]]
           G == {X \in SUBSET S : SumFunction(F(X)) \in Nat}
<1>1. {} \in G
  <2>1. F({}) \in [{} -> Int]
    OBVIOUS
  <2>2. SumFunction(F({})) = 0
    <3> HIDE DEF F
    <3> QED BY <2>1, SumEmpty
  <2> HIDE DEF F
  <2> QED BY <2>2
<1>2. ASSUME NEW X \in SUBSET S, X \in G, NEW y \in S \ X PROVE X \cup {y} \in G
  <2> DEFINE Y == X \cup {y}
  <2>1. IsFiniteSet(X) /\ Y \in SUBSET S
    BY FS_Subset
  <2>2. /\ F(Y) \in [Y -> Int] /\ F(Y)[y] \in Nat
        /\ [x \in X |-> F(Y)[x]] = F(X)
    OBVIOUS
  <2> HIDE DEF F
  <2>3. SumFunction(F(Y)) = SumFunction([x \in X |-> F(Y)[x]]) + F(Y)[y]
    BY <2>1, <2>2, SumAdd
  <2>4. SumFunction(F(Y)) \in Nat
    BY <1>2, <2>2, <2>3
  <2> QED BY <2>1, <2>4
<1>3. SUBSET S \subseteq G
  <2> HIDE DEF G
  <2> QED BY <1>1, <1>2, FiniteSubsetInduct
<1>4. F(S) = f
  OBVIOUS
<1>5. SumFunction(F(S)) \in Nat
  <2> HIDE DEF F
  <2> QED BY <1>3
<1> QED BY <1>4, <1>5

\* Larger summands have a larger sum.
LEMMA SumMonotone ==
  ASSUME NEW S, IsFiniteSet(S), NEW f \in [S -> Int], NEW g \in [S -> Int],
         \A x \in S : f[x] <= g[x]
  PROVE  SumFunction(f) <= SumFunction(g)
<1> DEFINE d == [x \in S |-> g[x] - f[x]]
<1>1. d \in [S -> Nat] /\ d \in [S -> Int]
  OBVIOUS
<1>2. [x \in S |-> f[x] + d[x]] = g
  OBVIOUS
<1> HIDE DEF d
<1>3. SumFunction([x \in S |-> f[x] + d[x]]) = SumFunction(f) + SumFunction(d)
  BY <1>1, SumPlus
<1>4. SumFunction(d) \in Nat
  BY <1>1, SumNat
<1>5. SumFunction(f) \in Int
  BY SumType
<1> QED BY <1>2, <1>3, <1>4, <1>5

\* Zeros add up to zero.
LEMMA SumZero ==
  ASSUME NEW S, IsFiniteSet(S)
  PROVE  SumFunction([x \in S |-> 0]) = 0
<1> DEFINE z == [x \in S |-> 0]
<1>1. z \in [S -> Int] /\ [x \in S |-> z[x] + z[x]] = z
  OBVIOUS
<1> HIDE DEF z
<1>2. SumFunction([x \in S |-> z[x] + z[x]]) = SumFunction(z) + SumFunction(z)
  BY <1>1, SumPlus
<1>3. SumFunction(z) \in Int
  BY <1>1, SumType
<1>4. SumFunction(z) = SumFunction(z) + SumFunction(z)
  BY <1>1, <1>2, Zenon
<1>5. SumFunction(z) = 0
  <2> DEFINE n == SumFunction(z)
  <2>1. n \in Int /\ n = n + n
    BY <1>3, <1>4
  <2> HIDE DEF n
  <2>2. n = 0
    BY <2>1
  <2> QED BY <2>2 DEF n
<1> QED BY <1>5 DEF z

\* Equal summands add up to their number times their value.
LEMMA SumConstant ==
  ASSUME NEW S, IsFiniteSet(S), NEW v \in Nat
  PROVE  SumFunction([x \in S |-> v]) = Cardinality(S) * v
<1> DEFINE F(X) == [x \in X |-> v]
           G == {X \in SUBSET S : SumFunction(F(X)) = Cardinality(X) * v}
<1>1. {} \in G
  <2>1. F({}) \in [{} -> Int]
    OBVIOUS
  <2>2. SumFunction(F({})) = 0
    <3> HIDE DEF F
    <3> QED BY <2>1, SumEmpty
  <2> HIDE DEF F
  <2> QED BY <2>2, FS_EmptySet
<1>2. ASSUME NEW X \in SUBSET S, X \in G, NEW y \in S \ X PROVE X \cup {y} \in G
  <2> DEFINE Y == X \cup {y}
  <2>1. IsFiniteSet(X) /\ Y \in SUBSET S /\ Cardinality(X) \in Nat
    BY FS_Subset, FS_CardinalityType
  <2>2. /\ F(Y) \in [Y -> Int] /\ F(Y)[y] = v
        /\ [x \in X |-> F(Y)[x]] = F(X)
    OBVIOUS
  <2>5. Cardinality(Y) = Cardinality(X) + 1
    BY <2>1, FS_AddElement
  <2> HIDE DEF F
  <2>3. SumFunction(F(Y)) = SumFunction([x \in X |-> F(Y)[x]]) + F(Y)[y]
    BY <2>1, <2>2, SumAdd
  <2>4. SumFunction(F(Y)) = Cardinality(X) * v + v
    BY <1>2, <2>2, <2>3
  <2>6. \A n \in Nat : (n + 1) * v = n * v + v
    OBVIOUS
  <2>7. SumFunction(F(Y)) = Cardinality(Y) * v
    BY <2>1, <2>4, <2>5, <2>6
  <2> QED BY <2>1, <2>7
<1>3. SUBSET S \subseteq G
  <2> HIDE DEF G
  <2> QED BY <1>1, <1>2, FiniteSubsetInduct
<1>4. SumFunction(F(S)) = Cardinality(S) * v
  <2> HIDE DEF F
  <2> QED BY <1>3
<1> QED BY <1>4

\* Summands bounded by v add up to at most their number times v.
LEMMA SumBound ==
  ASSUME NEW S, IsFiniteSet(S), NEW f \in [S -> Int], NEW v \in Nat,
         \A x \in S : f[x] <= v
  PROVE  SumFunction(f) <= Cardinality(S) * v
<1> DEFINE k == [x \in S |-> v]
<1>1. k \in [S -> Int] /\ \A x \in S : f[x] <= k[x]
  OBVIOUS
<1>2. SumFunction(k) = Cardinality(S) * v
  BY SumConstant
<1> HIDE DEF k
<1> QED BY <1>1, <1>2, SumMonotone

\* The sum of a span of days, less its last.
LEMMA OneMoreDay ==
  ASSUME NEW m \in Nat, NEW rows \in [1..m -> Int], NEW from \in Nat \ {0}, NEW d \in from..m
  PROVE  SumFunction(Restrict(rows, from..d)) = SumFunction(Restrict(rows, from..(d - 1))) + rows[d]
  <1> DEFINE X == from..(d - 1)
             D == 1..m
  <1>1. X \in SUBSET D /\ d \in D /\ d \notin X /\ rows \in [D -> Int] /\ X \cup {d} = from..d
    OBVIOUS
  <1>2. IsFiniteSet(D)
    BY FS_Interval
  <1> HIDE DEF X, D
  <1>3. SumFunction(Restrict(rows, X \cup {d})) = SumFunction(Restrict(rows, X)) + rows[d]
    BY <1>1, <1>2, SumOver
  <1> QED
    BY <1>1, <1>3 DEF X
=============================================================================
