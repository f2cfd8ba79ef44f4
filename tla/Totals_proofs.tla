---------------------------- MODULE Totals_proofs ----------------------------
(***************************************************************************)
(* What Total does, for every finite set of rows.  It is a fold, a function *)
(* defined by recursion over the subsets of its domain: the lemmas show    *)
(* first that there is such a function, taking a least counterexample by   *)
(* the number of elements, and then that what one element more preserves   *)
(* holds of the whole.                                                     *)
(***************************************************************************)
EXTENDS Totals, FiniteSetTheorems, WellFoundedInduction, TLAPS

Pick(s) == CHOOSE x \in s : TRUE
FoldStep(f, g, s) == IF s = {} THEN 0 ELSE f[Pick(s)] + g[s \ {Pick(s)}]
Small(S, n) == {s \in SUBSET S : Cardinality(s) <= n}

\* Every nonempty set of natural numbers has a least element.
LEMMA LeastNumber ==
    ASSUME NEW T \in SUBSET Nat, T # {}
    PROVE  \E n \in T : \A m \in T : ~(m < n)
<1>1. \E n \in T : \A m \in T : ~(<<m, n>> \in OpToRel(<, Nat))
  BY NatLessThanWellFounded, WFMin
<1>2. \A m, n \in T : m < n => <<m, n>> \in OpToRel(<, Nat)
  BY DEF OpToRel
<1>. QED BY <1>1, <1>2

\* One step of a fold goes on to a smaller subset.
LEMMA StepShrinks ==
    ASSUME NEW S, IsFiniteSet(S), NEW n \in Nat, NEW s \in Small(S, n), s # {}
    PROVE  /\ Pick(s) \in s /\ Pick(s) \in S
           /\ n > 0 /\ s \ {Pick(s)} \in Small(S, n - 1)
<1>1. Pick(s) \in s
  BY DEF Pick
<1>2. IsFiniteSet(s) /\ Cardinality(s) \in Nat /\ Cardinality(s) # 0
  BY FS_Subset, FS_EmptySet, FS_CardinalityType DEF Small
<1>3. Cardinality(s \ {Pick(s)}) = Cardinality(s) - 1
  BY <1>1, <1>2, FS_RemoveElement
<1>. QED BY <1>1, <1>2, <1>3 DEF Small

\* The fold of f is defined on all subsets of up to n elements, whatever n is.
LEMMA PartialFold ==
    ASSUME NEW S, IsFiniteSet(S), NEW f \in [S -> Int]
    PROVE  \A n \in Nat : \E g \in [Small(S, n) -> Int] :
             \A s \in Small(S, n) : g[s] = FoldStep(f, g, s)
<1> DEFINE Good(n) == \E g \in [Small(S, n) -> Int] : \A s \in Small(S, n) : g[s] = FoldStep(f, g, s)
           Bad == {n \in Nat : ~Good(n)}
<1>1. SUFFICES ASSUME Bad # {} PROVE FALSE
  OBVIOUS
<1>2. PICK n \in Bad : \A m \in Bad : ~(m < n)
  BY <1>1, LeastNumber
<1>3. Good(n)
  <2>1. CASE n = 0
    <3>1. ASSUME NEW s \in Small(S, 0) PROVE s = {}
      <4>1. CASE s # {}
        BY <4>1, FS_Subset, FS_EmptySet, FS_CardinalityType DEF Small
      <4>. QED BY <4>1
    <3>2. [s \in Small(S, 0) |-> 0] \in [Small(S, 0) -> Int]
      OBVIOUS
    <3>. QED BY <2>1, <3>1, <3>2 DEF FoldStep
  <2>2. CASE n > 0
    <3>1. n - 1 \in Nat /\ Good(n - 1)
      BY <1>2, <2>2
    <3>2. PICK g \in [Small(S, n - 1) -> Int] : \A s \in Small(S, n - 1) : g[s] = FoldStep(f, g, s)
      BY <3>1
    <3> DEFINE h == [s \in Small(S, n) |-> FoldStep(f, g, s)]
    <3>3. h \in [Small(S, n) -> Int]
      BY StepShrinks, <1>2 DEF FoldStep
    <3>4. Small(S, n - 1) \subseteq Small(S, n)
      <4>1. ASSUME NEW s \in Small(S, n - 1) PROVE s \in Small(S, n)
        <5>1. Cardinality(s) \in Nat
          BY FS_Subset, FS_CardinalityType DEF Small
        <5>. QED BY <5>1, <1>2 DEF Small
      <4>. QED BY <4>1
    <3>5. \A s \in Small(S, n - 1) : h[s] = g[s]
      BY <3>2, <3>4
    <3>6. \A s \in Small(S, n) : h[s] = FoldStep(f, h, s)
      <4>1. TAKE s \in Small(S, n)
      <4>2. h[s] = FoldStep(f, g, s)
        OBVIOUS
      <4>3. s # {} => h[s \ {Pick(s)}] = g[s \ {Pick(s)}]
        BY StepShrinks, <3>5, <1>2
      <4>. QED BY <4>2, <4>3 DEF FoldStep
    <3>. QED BY <3>3, <3>6
  <2>. QED BY <2>1, <2>2, <1>2
<1>. QED BY <1>2, <1>3

\* Hence on all subsets of a finite set: there is a function as Total chooses one.
LEMMA FoldExists ==
    ASSUME NEW S, IsFiniteSet(S), NEW f \in [S -> Int]
    PROVE  \E g \in [SUBSET S -> Int] : \A s \in SUBSET S : g[s] = FoldStep(f, g, s)
<1>1. Cardinality(S) \in Nat
  BY FS_CardinalityType
<1>2. Small(S, Cardinality(S)) = SUBSET S
  BY FS_Subset DEF Small
<1> DEFINE n == Cardinality(S)
<1> HIDE DEF n
<1>3. \E g \in [Small(S, n) -> Int] : \A s \in Small(S, n) : g[s] = FoldStep(f, g, s)
  BY <1>1, PartialFold DEF n
<1>4. PICK g \in [SUBSET S -> Int] : \A s \in SUBSET S : g[s] = FoldStep(f, g, s)
  BY <1>2, <1>3 DEF n
<1>. QED BY <1>4


\* What holds of {} and is kept by putting back an element holds of every subset.
LEMMA SubsetsBySize ==
    ASSUME NEW S, IsFiniteSet(S), NEW Good \in SUBSET SUBSET S, {} \in Good,
           \A s \in SUBSET S : s # {} /\ s \ {Pick(s)} \in Good => s \in Good
    PROVE  Good = SUBSET S
<1> DEFINE Bad == {n \in Nat : \E s \in Small(S, n) : s \notin Good}
<1>1. Bad = {}
  <2>1. SUFFICES ASSUME Bad # {} PROVE FALSE
    OBVIOUS
  <2>2. PICK n \in Bad : \A m \in Bad : ~(m < n)
    BY <2>1, LeastNumber
  <2>3. PICK s \in Small(S, n) : s \notin Good
    BY <2>2
  <2>4. s # {} /\ n \in Nat
    BY <2>3
  <2>5. n > 0 /\ s \ {Pick(s)} \in Small(S, n - 1)
    BY <2>4, StepShrinks
  <2>6. n - 1 \in Nat /\ n - 1 \notin Bad
    BY <2>2, <2>4, <2>5
  <2>7. s \ {Pick(s)} \in Good
    BY <2>5, <2>6
  <2>. QED BY <2>3, <2>4, <2>7 DEF Small
<1>2. ASSUME NEW s \in SUBSET S PROVE s \in Good
  <2>1. Cardinality(s) \in Nat /\ s \in Small(S, Cardinality(s))
    BY FS_Subset, FS_CardinalityType DEF Small
  <2>. QED BY <1>1, <2>1
<1>. QED BY <1>2

\* The function Total folds with.
LEMMA TotalIsFold ==
    ASSUME NEW S, IsFiniteSet(S), NEW f \in [S -> Int]
    PROVE  \E g : /\ g = [s \in SUBSET S |-> FoldStep(f, g, s)]
                  /\ Total(f) = g[S]
<1>1. PICK g \in [SUBSET S -> Int] : \A s \in SUBSET S : g[s] = FoldStep(f, g, s)
  BY FoldExists
<1>2. g = [s \in SUBSET S |->
             IF s = {} THEN 0
             ELSE LET x == CHOOSE x \in s : TRUE IN f[x] + g[s \ {x}]]
  BY <1>1 DEF FoldStep, Pick
<1> DEFINE iter == CHOOSE iter : iter = [s \in SUBSET S |->
                     IF s = {} THEN 0
                     ELSE LET x == CHOOSE x \in s : TRUE IN f[x] + iter[s \ {x}]]
<1>3. iter = [s \in SUBSET S |->
                IF s = {} THEN 0
                ELSE LET x == CHOOSE x \in s : TRUE IN f[x] + iter[s \ {x}]]
  BY <1>2
<1>4. Total(f) = iter[S]
  BY DEF Total, MapThenFoldSet
<1> HIDE DEF iter
<1>5. iter = [s \in SUBSET S |-> FoldStep(f, iter, s)]
  BY <1>3 DEF FoldStep, Pick
<1>. QED BY <1>4, <1>5

\* It adds up to a number on every subset.
LEMMA FoldInt ==
    ASSUME NEW S, IsFiniteSet(S), NEW f \in [S -> Int], NEW g,
           g = [s \in SUBSET S |-> FoldStep(f, g, s)]
    PROVE  \A s \in SUBSET S : g[s] \in Int
<1> DEFINE Good == {s \in SUBSET S : g[s] \in Int}
<1>1. {} \in Good
  BY DEF FoldStep
<1>2. ASSUME NEW s \in SUBSET S, s # {}, s \ {Pick(s)} \in Good PROVE s \in Good
  <2>1. Pick(s) \in S
    BY <1>2 DEF Pick
  <2>2. g[s] = FoldStep(f, g, s)
    OBVIOUS
  <2>. QED BY <1>2, <2>1, <2>2 DEF FoldStep
<1>3. Good = SUBSET S
  <2>1. Good \in SUBSET SUBSET S
    OBVIOUS
  <2>2. \A s \in SUBSET S : s # {} /\ s \ {Pick(s)} \in Good => s \in Good
    BY <1>2
  <2> HIDE DEF Good
  <2>. QED BY <1>1, <2>1, <2>2, SubsetsBySize
<1>. QED BY <1>3

\* The total of a column of amounts is an amount.
THEOREM TotalInt ==
    ASSUME NEW S, IsFiniteSet(S), NEW f \in [S -> Int]
    PROVE  Total(f) \in Int
<1>1. PICK g : g = [s \in SUBSET S |-> FoldStep(f, g, s)] /\ Total(f) = g[S]
  BY TotalIsFold
<1>. QED BY <1>1, FoldInt

\* Where no row is less, the total is not less: what the refund cap relies on when a
\* payment is allocated or a refund taken back.
THEOREM TotalMonotone ==
    ASSUME NEW S, IsFiniteSet(S), NEW f \in [S -> Int], NEW h \in [S -> Int],
           \A x \in S : f[x] <= h[x]
    PROVE  Total(f) <= Total(h)
<1>1. PICK g : g = [s \in SUBSET S |-> FoldStep(f, g, s)] /\ Total(f) = g[S]
  BY TotalIsFold
<1>2. PICK k : k = [s \in SUBSET S |-> FoldStep(h, k, s)] /\ Total(h) = k[S]
  BY TotalIsFold
<1>3. \A s \in SUBSET S : g[s] \in Int /\ k[s] \in Int
  BY <1>1, <1>2, FoldInt
<1> DEFINE Good == {s \in SUBSET S : g[s] <= k[s]}
<1>4. {} \in Good
  BY <1>1, <1>2 DEF FoldStep
<1>5. ASSUME NEW s \in SUBSET S, s # {}, s \ {Pick(s)} \in Good PROVE s \in Good
  <2>1. Pick(s) \in S
    BY <1>5 DEF Pick
  <2>2. g[s] = f[Pick(s)] + g[s \ {Pick(s)}] /\ k[s] = h[Pick(s)] + k[s \ {Pick(s)}]
    BY <1>1, <1>2, <1>5 DEF FoldStep
  <2>3. f[Pick(s)] <= h[Pick(s)] /\ f[Pick(s)] \in Int /\ h[Pick(s)] \in Int
    BY <2>1
  <2>4. g[s \ {Pick(s)}] <= k[s \ {Pick(s)}]
    BY <1>5
  <2>5. g[s \ {Pick(s)}] \in Int /\ k[s \ {Pick(s)}] \in Int
    BY <1>3
  <2>. QED BY <2>2, <2>3, <2>4, <2>5
<1>6. Good = SUBSET S
  <2>1. Good \in SUBSET SUBSET S
    OBVIOUS
  <2>2. \A s \in SUBSET S : s # {} /\ s \ {Pick(s)} \in Good => s \in Good
    BY <1>5
  <2> HIDE DEF Good
  <2>. QED BY <1>4, <2>1, <2>2, SubsetsBySize
<1>7. S \in Good
  BY <1>6
<1>. QED BY <1>1, <1>2, <1>7

\* Rows that count for nothing add up to nothing, as on a database with no payments.
THEOREM TotalOfNothing ==
    ASSUME NEW S, IsFiniteSet(S), NEW f \in [S -> Int], \A x \in S : f[x] = 0
    PROVE  Total(f) = 0
<1>1. PICK g : g = [s \in SUBSET S |-> FoldStep(f, g, s)] /\ Total(f) = g[S]
  BY TotalIsFold
<1> DEFINE Good == {s \in SUBSET S : g[s] = 0}
<1>2. {} \in Good
  BY <1>1 DEF FoldStep
<1>3. ASSUME NEW s \in SUBSET S, s # {}, s \ {Pick(s)} \in Good PROVE s \in Good
  <2>1. Pick(s) \in S
    BY <1>3 DEF Pick
  <2>2. g[s] = f[Pick(s)] + g[s \ {Pick(s)}]
    BY <1>1, <1>3 DEF FoldStep
  <2>. QED BY <1>3, <2>1, <2>2
<1>4. Good = SUBSET S
  <2>1. Good \in SUBSET SUBSET S
    OBVIOUS
  <2>2. \A s \in SUBSET S : s # {} /\ s \ {Pick(s)} \in Good => s \in Good
    BY <1>3
  <2> HIDE DEF Good
  <2>. QED BY <1>2, <2>1, <2>2, SubsetsBySize
<1>. QED BY <1>1, <1>4

\* What holds of every subset that is whole with any one element put back holds of all.
LEMMA SubsetsByAnyElement ==
    ASSUME NEW S, IsFiniteSet(S), NEW Good \in SUBSET SUBSET S,
           \A s \in SUBSET S : (\A x \in s : s \ {x} \in Good) => s \in Good
    PROVE  Good = SUBSET S
<1> DEFINE Bad == {n \in Nat : \E s \in Small(S, n) : s \notin Good}
<1>1. Bad = {}
  <2>1. SUFFICES ASSUME Bad # {} PROVE FALSE
    OBVIOUS
  <2>2. PICK n \in Bad : \A m \in Bad : ~(m < n)
    BY <2>1, LeastNumber
  <2>3. PICK s \in Small(S, n) : s \notin Good
    BY <2>2
  <2>4. n \in Nat /\ s \in SUBSET S /\ Cardinality(s) <= n /\ IsFiniteSet(s)
    BY <2>3, FS_Subset DEF Small
  <2>5. ASSUME NEW x \in s PROVE s \ {x} \in Good
    <3>1. Cardinality(s) \in Nat /\ Cardinality(s) # 0
      BY <2>4, <2>5, FS_EmptySet, FS_CardinalityType
    <3>2. Cardinality(s \ {x}) = Cardinality(s) - 1
      BY <2>4, <2>5, FS_RemoveElement
    <3>3. n - 1 \in Nat /\ n - 1 < n /\ s \ {x} \in Small(S, n - 1)
      BY <2>4, <3>1, <3>2 DEF Small
    <3>4. n - 1 \notin Bad
      BY <2>2, <3>3
    <3>. QED BY <3>3, <3>4
  <2>. QED BY <2>3, <2>4, <2>5
<1>2. ASSUME NEW s \in SUBSET S PROVE s \in Good
  <2>1. Cardinality(s) \in Nat /\ s \in Small(S, Cardinality(s))
    BY FS_Subset, FS_CardinalityType DEF Small
  <2>. QED BY <1>1, <2>1
<1>. QED BY <1>2

AddsUp(g, f, S) ==
    /\ IsFiniteSet(S) /\ f \in [S -> Int]
    /\ \A s \in SUBSET S : g[s] \in Int
    /\ \A s \in SUBSET S : s # {} => g[s] = f[Pick(s)] + g[s \ {Pick(s)}]

AnyLast(g, f, S) == \A s \in SUBSET S : \A x \in s : g[s] = f[x] + g[s \ {x}]

\* The order in which rows are added does not matter: any row may come last.
LEMMA FoldAnyElement ==
    ASSUME NEW S, NEW f, NEW g, AddsUp(g, f, S)
    PROVE  AnyLast(g, f, S)
<1> USE DEF AddsUp
<1> DEFINE Good == {s \in SUBSET S : \A x \in s : g[s] = f[x] + g[s \ {x}]}
<1>1. ASSUME NEW s \in SUBSET S, \A x \in s : s \ {x} \in Good PROVE s \in Good
  <2>1. SUFFICES ASSUME NEW x \in s PROVE g[s] = f[x] + g[s \ {x}]
    OBVIOUS
  <2>2. PICK y \in s : y = Pick(s)
    BY <2>1 DEF Pick
  <2>3. g[s] = f[y] + g[s \ {y}]
    BY <2>1, <2>2
  <2>4. CASE x = y
    BY <2>3, <2>4
  <2>5. CASE x # y
    <3>1. g[s \ {y}] = f[x] + g[(s \ {y}) \ {x}]
      BY <1>1, <2>1, <2>5
    <3>2. g[s \ {x}] = f[y] + g[(s \ {x}) \ {y}]
      BY <1>1, <2>2, <2>5
    <3>3. (s \ {x}) \ {y} = (s \ {y}) \ {x}
      OBVIOUS
    <3>4. PICK rest \in Int : rest = g[(s \ {y}) \ {x}]
      OBVIOUS
    <3>5. g[s \ {y}] = f[x] + rest /\ g[s \ {x}] = f[y] + rest
      BY <3>1, <3>2, <3>3, <3>4
    <3>6. f[x] \in Int /\ f[y] \in Int
      BY <2>1
    <3>. QED BY <2>3, <3>5, <3>6
  <2>. QED BY <2>4, <2>5
<1>2. Good = SUBSET S
  <2>1. Good \in SUBSET SUBSET S
    OBVIOUS
  <2>2. \A s \in SUBSET S : (\A x \in s : s \ {x} \in Good) => s \in Good
    BY <1>1
  <2> HIDE DEF Good
  <2>. QED BY <2>1, <2>2, SubsetsByAnyElement
<1>. QED BY <1>2 DEF AnyLast

\* Where one row changes, the total changes by as much.
THEOREM TotalOneChanged ==
    ASSUME NEW S, IsFiniteSet(S), NEW f \in [S -> Int], NEW h \in [S -> Int],
           NEW x \in S, \A y \in S \ {x} : h[y] = f[y]
    PROVE  Total(h) = Total(f) + (h[x] - f[x])
<1>1. PICK g : g = [s \in SUBSET S |-> FoldStep(f, g, s)] /\ Total(f) = g[S]
  BY TotalIsFold
<1>2. PICK k : k = [s \in SUBSET S |-> FoldStep(h, k, s)] /\ Total(h) = k[S]
  BY TotalIsFold
<1>3. \A s \in SUBSET S : g[s] \in Int /\ k[s] \in Int
  BY <1>1, <1>2, FoldInt
<1>4. g[S] = f[x] + g[S \ {x}]
  <2>1. AddsUp(g, f, S)
    BY <1>1, <1>3 DEF FoldStep, AddsUp
  <2>2. AnyLast(g, f, S)
    BY <2>1, FoldAnyElement
  <2>. QED BY <2>2 DEF AnyLast
<1>5. k[S] = h[x] + k[S \ {x}]
  <2>1. AddsUp(k, h, S)
    BY <1>2, <1>3 DEF FoldStep, AddsUp
  <2>2. AnyLast(k, h, S)
    BY <2>1, FoldAnyElement
  <2>. QED BY <2>2 DEF AnyLast
<1> DEFINE Good == {s \in SUBSET S : x \notin s => k[s] = g[s]}
<1>6. ASSUME NEW s \in SUBSET S, s # {}, s \ {Pick(s)} \in Good PROVE s \in Good
  <2>1. SUFFICES ASSUME x \notin s PROVE k[s] = g[s]
    OBVIOUS
  <2>2. Pick(s) \in s
    BY <1>6 DEF Pick
  <2>3. g[s] = f[Pick(s)] + g[s \ {Pick(s)}] /\ k[s] = h[Pick(s)] + k[s \ {Pick(s)}]
    BY <1>1, <1>2, <1>6 DEF FoldStep
  <2>4. k[s \ {Pick(s)}] = g[s \ {Pick(s)}]
    BY <1>6, <2>1
  <2>. QED BY <2>1, <2>2, <2>3, <2>4
<1>7. {} \in Good
  BY <1>1, <1>2 DEF FoldStep
<1>8. Good = SUBSET S
  <2>1. Good \in SUBSET SUBSET S
    OBVIOUS
  <2>2. \A s \in SUBSET S : s # {} /\ s \ {Pick(s)} \in Good => s \in Good
    BY <1>6
  <2> HIDE DEF Good
  <2>. QED BY <1>7, <2>1, <2>2, SubsetsBySize
<1>9. k[S \ {x}] = g[S \ {x}]
  BY <1>8
<1>10. f[x] \in Int /\ h[x] \in Int /\ g[S \ {x}] \in Int
  BY <1>3
<1>. QED BY <1>1, <1>2, <1>4, <1>5, <1>9, <1>10

\* Rows left out count as much as rows of nothing.
LEMMA TotalOfSome ==
    ASSUME NEW S, IsFiniteSet(S), NEW f \in [S -> Int], NEW T \in SUBSET S
    PROVE  Total([x \in T |-> f[x]]) = Total([x \in S |-> IF x \in T THEN f[x] ELSE 0])
<1> DEFINE h == [x \in S |-> IF x \in T THEN f[x] ELSE 0]
           t == [x \in T |-> f[x]]
<1>1. h \in [S -> Int] /\ t \in [T -> Int] /\ IsFiniteSet(T)
  BY FS_Subset
<1>2. /\ \A x \in T : t[x] = h[x]
      /\ \A x \in S \ T : h[x] = 0
  OBVIOUS
<1> HIDE DEF h, t
<1>3. PICK g : g = [s \in SUBSET T |-> FoldStep(t, g, s)] /\ Total(t) = g[T]
  BY <1>1, TotalIsFold
<1>4. PICK k : k = [s \in SUBSET S |-> FoldStep(h, k, s)] /\ Total(h) = k[S]
  BY <1>1, TotalIsFold
<1>5. \A s \in SUBSET T : g[s] \in Int
  BY <1>1, <1>3, FoldInt
<1> DEFINE Good == {s \in SUBSET S : k[s] = g[s \cap T]}
<1>6. {} \in Good
  BY <1>3, <1>4 DEF FoldStep
<1>7. ASSUME NEW s \in SUBSET S, s # {}, s \ {Pick(s)} \in Good PROVE s \in Good
  <2>1. PICK y \in s : y = Pick(s)
    BY <1>7 DEF Pick
  <2>2. k[s] = h[y] + k[s \ {y}]
    BY <1>4, <1>7, <2>1 DEF FoldStep
  <2>3. k[s \ {y}] = g[(s \ {y}) \cap T]
    BY <1>7, <2>1
  <2>4. CASE y \in T
    <3>1. g[s \cap T] = t[y] + g[(s \cap T) \ {y}]
      <4>1. AddsUp(g, t, T)
        BY <1>1, <1>3, <1>5 DEF FoldStep, AddsUp
      <4>2. AnyLast(g, t, T)
        BY <4>1, FoldAnyElement
      <4>. QED BY <2>4, <4>2 DEF AnyLast
    <3>2. (s \cap T) \ {y} = (s \ {y}) \cap T
      OBVIOUS
    <3>. QED BY <1>2, <2>2, <2>3, <2>4, <3>1, <3>2
  <2>5. CASE y \notin T
    <3>1. h[y] = 0
      BY <1>2, <1>7, <2>5
    <3>2. (s \ {y}) \cap T = s \cap T
      BY <2>5
    <3>3. k[s \ {y}] = g[s \cap T] /\ g[s \cap T] \in Int
      BY <1>5, <2>3, <3>2
    <3>. QED BY <2>2, <3>1, <3>3
  <2>. QED BY <2>4, <2>5
<1>8. Good = SUBSET S
  <2>1. Good \in SUBSET SUBSET S
    OBVIOUS
  <2>2. \A s \in SUBSET S : s # {} /\ s \ {Pick(s)} \in Good => s \in Good
    BY <1>7
  <2> HIDE DEF Good
  <2>. QED BY <1>6, <2>1, <2>2, SubsetsBySize
<1>9. k[S] = g[T]
  <2>1. S \cap T = T
    OBVIOUS
  <2>. QED BY <1>8, <2>1
<1>. QED BY <1>3, <1>4, <1>9 DEF h, t

\* A part of the rows, with one that is not in it, adds up to no more than all of them
\* do: why money that reaches a debt has paid every older one.
THEOREM TotalOfPart ==
    ASSUME NEW S, IsFiniteSet(S), NEW f \in [S -> Nat],
           NEW T \in SUBSET S, NEW x \in S, x \notin T
    PROVE  /\ Total([y \in T |-> f[y]]) \in Int
           /\ Total([y \in T |-> f[y]]) + f[x] <= Total(f)
<1> DEFINE some == [y \in S |-> IF y \in T THEN f[y] ELSE 0]
           more == [y \in S |-> IF y \in T \cup {x} THEN f[y] ELSE 0]
<1>1. f \in [S -> Int] /\ some \in [S -> Int] /\ more \in [S -> Int]
  OBVIOUS
<1>2. /\ some[x] = 0 /\ more[x] = f[x]
      /\ \A y \in S \ {x} : more[y] = some[y]
      /\ \A y \in S : more[y] <= f[y]
  OBVIOUS
<1>3. Total([y \in T |-> f[y]]) = Total(some)
  BY <1>1, TotalOfSome
<1> HIDE DEF some, more
<1>4. Total(more) = Total(some) + (more[x] - some[x])
  BY <1>1, <1>2, TotalOneChanged
<1>5. Total(more) <= Total(f)
  BY <1>1, <1>2, TotalMonotone
<1>6. Total(some) \in Int /\ Total(more) \in Int /\ Total(f) \in Int /\ f[x] \in Int
  BY <1>1, TotalInt
<1>. QED BY <1>2, <1>3, <1>4, <1>5, <1>6

Part(f, T) == [x \in T |-> f[x]]

\* One row more adds what it counts.
THEOREM TotalAdded ==
    ASSUME NEW S, IsFiniteSet(S), NEW f \in [S -> Int],
           NEW T \in SUBSET S, NEW x \in S, x \notin T
    PROVE  Total(Part(f, T \cup {x})) = Total(Part(f, T)) + f[x]
<1> DEFINE some == [y \in S |-> IF y \in T THEN f[y] ELSE 0]
           more == [y \in S |-> IF y \in T \cup {x} THEN f[y] ELSE 0]
<1>1. some \in [S -> Int] /\ more \in [S -> Int]
  OBVIOUS
<1>2. some[x] = 0 /\ more[x] = f[x] /\ \A y \in S \ {x} : more[y] = some[y]
  OBVIOUS
<1>3. Total(Part(f, T)) = Total(some) /\ Total(Part(f, T \cup {x})) = Total(more)
  BY TotalOfSome, T \cup {x} \in SUBSET S DEF Part
<1> HIDE DEF some, more
<1>4. Total(more) = Total(some) + (more[x] - some[x])
  BY <1>1, <1>2, TotalOneChanged
<1>5. Total(some) \in Int /\ f[x] \in Int
  BY <1>1, TotalInt
<1>. QED BY <1>2, <1>3, <1>4, <1>5

\* Fewer rows of amounts add up to no more.
THEOREM TotalOfFewer ==
    ASSUME NEW S, IsFiniteSet(S), NEW f \in [S -> Nat],
           NEW T \in SUBSET S, NEW U \in SUBSET T
    PROVE  /\ Total(Part(f, U)) \in Int /\ Total(Part(f, T)) \in Int
           /\ Total(Part(f, U)) <= Total(Part(f, T))
<1> DEFINE some == [y \in S |-> IF y \in U THEN f[y] ELSE 0]
           more == [y \in S |-> IF y \in T THEN f[y] ELSE 0]
<1>1. f \in [S -> Int] /\ some \in [S -> Int] /\ more \in [S -> Int] /\ U \in SUBSET S
  OBVIOUS
<1>2. \A y \in S : some[y] <= more[y]
  OBVIOUS
<1>3. Total(Part(f, U)) = Total(some) /\ Total(Part(f, T)) = Total(more)
  BY <1>1, TotalOfSome DEF Part
<1> HIDE DEF some, more
<1>. QED BY <1>1, <1>2, <1>3, TotalInt, TotalMonotone

=============================================================================
