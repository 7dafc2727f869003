--------------------------- MODULE SnapshotProofs ---------------------------
(***************************************************************************)
(* The readers are right about every snapshot a backtest can write, of any  *)
(* length and over any tickers, prices, quantities and split ratios.        *)
(*                                                                          *)
(* The readers are loops over rows and sums over tickers.  Induction is     *)
(* stated with sets instead of predicates (a set of numbers that has 0 and  *)
(* with each number the next one), so that it can be cited like any other   *)
(* lemma.                                                                   *)
(***************************************************************************)
EXTENDS Snapshot, FiniteSetTheorems, WellFoundedInduction, TLAPS

-----------------------------------------------------------------------------
(* Induction. *)

\* A set of naturals that is not empty has a least element.
LEMMA LeastOf ==
    ASSUME NEW S, S \subseteq Nat, S # {}
    PROVE  \E m \in S : \A y \in S : m <= y
<1>1. PICK m \in S : \A y \in S : ~(<<y, m>> \in OpToRel(<, Nat))
  BY NatLessThanWellFounded, WFMin
<1>2. OpToRel(<, Nat) = {ss \in Nat \X Nat : ss[1] < ss[2]}
  BY Zenon DEF OpToRel
<1>3. \A x, y \in Nat : <<y, x>> \in {ss \in Nat \X Nat : ss[1] < ss[2]} <=> y < x
  OBVIOUS
<1>4. \A y \in S : ~(y < m)
  BY <1>1, <1>2, <1>3
<1> QED
  BY <1>4

\* Induction over an initial segment.
LEMMA UpTo ==
    ASSUME NEW n \in Nat, NEW S, 0 \in S,
           \A i \in 0..(n - 1) : i \in S => i + 1 \in S
    PROVE  0..n \subseteq S
<1> SUFFICES ASSUME ~(0..n \subseteq S) PROVE FALSE
  OBVIOUS
<1>1. PICK m \in (0..n) \ S : \A y \in (0..n) \ S : m <= y
  BY LeastOf, (0..n) \ S \subseteq Nat, (0..n) \ S # {}
<1>2. m - 1 \in 0..(n - 1) /\ m - 1 \in S
  BY <1>1
<1>3. (m - 1) + 1 \in S
  BY <1>2
<1> QED
  BY <1>1, <1>3

\* A run of n steps of a loop; two runs that step alike.
IsRun(f, start, step, n) == f[0] = start /\ \A i \in 1..n : f[i] = step[<<f[i - 1], i>>]
Alike(f, g, n) == f[0] = g[0] /\ \A i \in 1..n : f[i - 1] = g[i - 1] => f[i] = g[i]
Steps(X, n) == [X \X (1..n) -> X]

\* Two runs that agree at the start and step alike agree all along.
LEMMA SameRun ==
    ASSUME NEW n \in Nat, NEW f, NEW g, Alike(f, g, n)
    PROVE  \A i \in 0..n : f[i] = g[i]
<1> USE DEF Alike
<1> DEFINE S == {i \in 0..n : f[i] = g[i]}
<1>1. 0 \in S
  OBVIOUS
<1>2. ASSUME NEW i \in 0..(n - 1), i \in S PROVE i + 1 \in S
  <2>1. i + 1 \in 1..n /\ (i + 1) - 1 = i
    OBVIOUS
  <2> QED
    BY <1>2, <2>1
<1> HIDE DEF S
<1>3. 0..n \subseteq S
  BY <1>1, <1>2, UpTo
<1> QED
  BY <1>3 DEF S

\* A loop whose step stays in X has a run.
LEMMA RunExists ==
    ASSUME NEW n \in Nat, NEW X, NEW start \in X, NEW step \in Steps(X, n)
    PROVE  \E f \in [0..n -> X] : IsRun(f, start, step, n)
<1> USE DEF IsRun, Steps
<1> DEFINE S == {m \in 0..n : \E f \in [0..m -> X] : IsRun(f, start, step, m)}
<1>1. 0 \in S
  <2> DEFINE f == [i \in 0..0 |-> start]
  <2>1. f \in [0..0 -> X] /\ IsRun(f, start, step, 0) /\ 0 \in 0..n
    OBVIOUS
  <2> HIDE DEF f, IsRun, Steps
  <2> QED
    BY <2>1
<1>2. ASSUME NEW m \in 0..(n - 1), m \in S PROVE m + 1 \in S
  <2>1. PICK f \in [0..m -> X] : IsRun(f, start, step, m)
    BY <1>2
  <2> DEFINE g == [i \in 0..(m + 1) |-> IF i <= m THEN f[i] ELSE step[<<f[m], m + 1>>]]
  <2>2. m \in Nat /\ m + 1 \in 1..n /\ f[m] \in X
    OBVIOUS
  <2>3. step[<<f[m], m + 1>>] \in X
    BY <2>2
  <2>4. g \in [0..(m + 1) -> X]
    BY <2>2, <2>3
  <2>5. \A i \in 0..m : g[i] = f[i]
    BY <2>2
  <2>6. g[m + 1] = step[<<f[m], m + 1>>] /\ (m + 1) - 1 = m
    BY <2>2
  <2> HIDE DEF g
  <2>7. ASSUME NEW i \in 1..(m + 1) PROVE g[i] = step[<<g[i - 1], i>>]
    <3>1. CASE i = m + 1
      <4>1. g[m] = f[m]
        BY <2>2, <2>5
      <4> QED
        BY <2>6, <3>1, <4>1
    <3>2. CASE i <= m
      <4>1. i \in 1..m /\ i \in 0..m /\ i - 1 \in 0..m
        BY <2>2, <3>2
      <4> QED
        BY <2>1, <2>5, <4>1
    <3> QED
      BY <2>2, <3>1, <3>2
  <2>8. g[0] = start
    BY <2>1, <2>2, <2>5
  <2> QED
    BY <2>2, <2>4, <2>7, <2>8
<1> HIDE DEF S
<1>3. n \in S
  BY <1>1, <1>2, UpTo
<1> QED
  BY <1>3 DEF S

\* Induction over the subsets of a finite set.
LEMMA SubsetInduction ==
    ASSUME NEW S, IsFiniteSet(S), NEW Q, {} \in Q,
           \A u \in SUBSET S : u # {} /\ (\A x \in u : u \ {x} \in Q) => u \in Q
    PROVE  SUBSET S \subseteq Q
<1> SUFFICES ASSUME ~(SUBSET S \subseteq Q) PROVE FALSE
  OBVIOUS
<1> DEFINE C == {Cardinality(u) : u \in (SUBSET S) \ Q}
<1>1. \A u \in SUBSET S : IsFiniteSet(u) /\ Cardinality(u) \in Nat
  BY FS_Subset, FS_CardinalityType
<1>2. C \subseteq Nat /\ C # {}
  BY <1>1
<1> HIDE DEF C
<1>3. PICK m \in C : \A y \in C : m <= y
  BY <1>2, LeastOf
<1>4. PICK u \in (SUBSET S) \ Q : Cardinality(u) = m
  BY <1>3 DEF C
<1>5. ASSUME NEW x \in u PROVE u \ {x} \in Q
  <2>1. Cardinality(u \ {x}) = m - 1
    BY <1>1, <1>4, FS_RemoveElement
  <2>2. ~(m <= m - 1)
    BY <1>2, <1>3
  <2>3. u \ {x} \in SUBSET S
    BY <1>4
  <2> QED
    BY <1>3, <2>1, <2>2, <2>3 DEF C
<1>6. u # {}
  BY <1>4
<1> QED
  BY <1>4, <1>5, <1>6

-----------------------------------------------------------------------------
(* Sums over finite sets. *)

\* g has the sum of f over each subset of S.
Adds(g, f, S) ==
    /\ g \in [SUBSET S -> Int] /\ g[{}] = 0
    /\ \A u \in SUBSET S : \A x \in u : g[u] = f[x] + g[u \ {x}]

\* SumFunction picks the elements in some order.
First(u) == CHOOSE x \in u : TRUE
SumStep(g, f, u) == IF u = {} THEN 0 ELSE f[First(u)] + g[u \ {First(u)}]

\* Its recursion has a solution.
LEMMA SumRun ==
    ASSUME NEW S, IsFiniteSet(S), NEW f \in [S -> Int]
    PROVE  \E g \in [SUBSET S -> Int] : \A u \in SUBSET S : g[u] = SumStep(g, f, u)
<1> DEFINE n == Cardinality(S)
           X == [SUBSET S -> Int]
           zero == [u \in SUBSET S |-> 0]
           step == [y \in X \X (1..n) |-> [u \in SUBSET S |-> SumStep(y[1], f, u)]]
<1>1. \A u \in SUBSET S : IsFiniteSet(u) /\ Cardinality(u) \in 0..n
  BY FS_Subset, FS_CardinalityType
<1>2. n \in Nat
  BY FS_CardinalityType
<1>3. \A g \in X, u \in SUBSET S : SumStep(g, f, u) \in Int
  <2> SUFFICES ASSUME NEW g \in X, NEW u \in SUBSET S, u # {} PROVE SumStep(g, f, u) \in Int
    BY DEF SumStep
  <2>1. First(u) \in u /\ u \ {First(u)} \in SUBSET S
    BY DEF First
  <2>2. f[First(u)] \in Int /\ g[u \ {First(u)}] \in Int
    BY <2>1
  <2> QED
    BY <2>2 DEF SumStep
<1>4. zero \in X
  OBVIOUS
<1>5. step \in Steps(X, n)
  BY <1>3 DEF Steps
<1>6. \A g \in X, i \in 1..n : step[<<g, i>>] = [u \in SUBSET S |-> SumStep(g, f, u)]
  OBVIOUS
<1>7. \A u \in SUBSET S : zero[u] = 0
  OBVIOUS
<1> HIDE DEF n, zero, step, X
<1>8. PICK h \in [0..n -> X] : IsRun(h, zero, step, n)
  BY <1>2, <1>4, <1>5, RunExists
<1>9. \A i \in 1..n : \A u \in SUBSET S : h[i][u] = SumStep(h[i - 1], f, u)
  <2>1. \A i \in 1..n : h[i - 1] \in X /\ h[i] = step[<<h[i - 1], i>>]
    BY <1>2, <1>8 DEF IsRun
  <2>2. \A i \in 1..n : h[i] = [u \in SUBSET S |-> SumStep(h[i - 1], f, u)]
    BY <1>6, <2>1, Zenon
  <2> QED
    BY <2>2, Zenon
<1> DEFINE Q == {i \in 0..n : \A u \in SUBSET S :
                    Cardinality(u) <= i => h[i][u] = SumStep(h[i], f, u)}
<1>10. 0 \in Q
  <2> SUFFICES ASSUME NEW u \in SUBSET S, Cardinality(u) <= 0 PROVE h[0][u] = SumStep(h[0], f, u)
    BY <1>2
  <2>1. Cardinality(u) = 0
    BY <1>1, <1>2
  <2>2. u = {}
    BY <1>1, <2>1, FS_EmptySet
  <2> QED
    BY <1>7, <1>8, <2>2 DEF IsRun, SumStep
<1>11. ASSUME NEW i \in 0..(n - 1), i \in Q PROVE i + 1 \in Q
  <2>1. i + 1 \in 1..n /\ (i + 1) - 1 = i /\ i \in Nat
    BY <1>2
  <2> SUFFICES ASSUME NEW u \in SUBSET S, Cardinality(u) <= i + 1
               PROVE  h[i + 1][u] = SumStep(h[i + 1], f, u)
    BY <2>1
  <2>2. h[i + 1][u] = SumStep(h[i], f, u)
    BY <1>9, <2>1
  <2>3. CASE u = {}
    BY <2>2, <2>3 DEF SumStep
  <2>4. CASE u # {}
    <3> DEFINE v == u \ {First(u)}
    <3>1. First(u) \in u /\ v \in SUBSET S
      BY <2>4 DEF First
    <3>2. Cardinality(v) = Cardinality(u) - 1
      BY <1>1, <3>1, FS_RemoveElement
    <3>3. Cardinality(v) <= i
      BY <1>1, <2>1, <3>2
    <3>4. h[i][v] = SumStep(h[i], f, v)
      BY <1>11, <3>1, <3>3
    <3>5. h[i + 1][v] = SumStep(h[i], f, v)
      BY <1>9, <2>1, <3>1
    <3> QED
      BY <2>2, <2>4, <3>4, <3>5 DEF SumStep
  <2> QED
    BY <2>3, <2>4
<1> HIDE DEF Q
<1>12. n \in Q
  <2>1. 0..n \subseteq Q
    BY <1>2, <1>10, <1>11, UpTo, Zenon
  <2> QED
    BY <1>2, <2>1
<1>13. \A u \in SUBSET S : h[n][u] = SumStep(h[n], f, u)
  BY <1>1, <1>12 DEF Q
<1>14. h[n] \in X
  BY <1>2
<1> QED
  BY <1>13, <1>14 DEF X

\* The sum does not depend on the order.
LEMMA SumAdds ==
    ASSUME NEW S, IsFiniteSet(S), NEW f \in [S -> Int]
    PROVE  \E g : Adds(g, f, S) /\ SumFunction(f) = g[S]
<1> DEFINE P(g) == g = [s \in SUBSET S |-> IF s = {} THEN 0 ELSE
                          LET x == CHOOSE x \in s : TRUE IN f[x] + g[s \ {x}]]
           Z(g) == g = [s \in SUBSET S |-> SumStep(g, f, s)]
           it == CHOOSE g : P(g)
<1>1. \A g : P(g) <=> Z(g)
  BY DEF SumStep, First
<1>2. PICK h \in [SUBSET S -> Int] : \A u \in SUBSET S : h[u] = SumStep(h, f, u)
  BY SumRun
<1>3. Z(h)
  BY <1>2
<1>4. P(it)
  <2>1. P(h)
    BY <1>1, <1>3
  <2> QED
    BY <2>1
<1>5. SumFunction(f) = it[S]
  BY DEF SumFunction, SumFunctionOnSet, FoldFunctionOnSet, MapThenFoldSet
<1> HIDE DEF P
<1>6. Z(it)
  BY <1>1, <1>4
<1> HIDE DEF it
<1>7. DOMAIN it = SUBSET S /\ \A u \in SUBSET S : it[u] = SumStep(it, f, u)
  BY <1>6, Zenon
<1> HIDE DEF Z
<1>8. it[{}] = 0
  BY <1>7 DEF SumStep
<1>9. ASSUME NEW u \in SUBSET S, u # {}
      PROVE  /\ First(u) \in u /\ f[First(u)] \in Int
             /\ it[u] = f[First(u)] + it[u \ {First(u)}]
  BY <1>7, <1>9 DEF SumStep, First
<1> DEFINE A == {u \in SUBSET S : it[u] \in Int}
           B == {u \in SUBSET S : \A x \in u : it[u] = f[x] + it[u \ {x}]}
<1>10. SUBSET S \subseteq A
  <2>1. {} \in A
    BY <1>8
  <2>2. ASSUME NEW u \in SUBSET S, u # {}, \A x \in u : u \ {x} \in A PROVE u \in A
    <3>1. First(u) \in u /\ f[First(u)] \in Int /\ it[u] = f[First(u)] + it[u \ {First(u)}]
      BY <1>9, <2>2
    <3>2. it[u \ {First(u)}] \in Int
      BY <2>2, <3>1
    <3> QED
      BY <3>1, <3>2
  <2> HIDE DEF A
  <2> QED
    BY <2>1, <2>2, SubsetInduction
<1>11. SUBSET S \subseteq B
  <2>1. {} \in B
    OBVIOUS
  <2>2. ASSUME NEW u \in SUBSET S, u # {}, \A x \in u : u \ {x} \in B PROVE u \in B
    <3> SUFFICES ASSUME NEW x \in u PROVE it[u] = f[x] + it[u \ {x}]
      OBVIOUS
    <3> DEFINE y == First(u)
    <3>1. y \in u /\ f[y] \in Int /\ it[u] = f[y] + it[u \ {y}]
      BY <1>9, <2>2
    <3> HIDE DEF y
    <3>2. CASE x = y
      BY <3>1, <3>2
    <3>3. CASE x # y
      <4>1. x \in u \ {y} /\ y \in u \ {x} /\ (u \ {y}) \ {x} = (u \ {x}) \ {y}
        BY <3>1, <3>3
      <4> DEFINE c == it[(u \ {y}) \ {x}]
      <4>2. it[u \ {y}] = f[x] + c
        BY <2>2, <3>1, <4>1
      <4>3. it[u \ {x}] = f[y] + c
        BY <2>2, <3>1, <4>1
      <4>4. c \in Int /\ f[x] \in Int
        BY <1>10
      <4> HIDE DEF c
      <4> QED
        BY <3>1, <4>2, <4>3, <4>4
    <3> QED
      BY <3>2, <3>3
  <2> HIDE DEF B
  <2> QED
    BY <2>1, <2>2, SubsetInduction
<1>12. it \in [SUBSET S -> Int]
  <2>1. it = [u \in SUBSET S |-> it[u]]
    BY <1>6 DEF Z
  <2> QED
    BY <1>10, <2>1
<1>13. Adds(it, f, S)
  BY <1>8, <1>11, <1>12 DEF Adds
<1> QED
  BY <1>5, <1>13

\* A sum of integers is an integer.
LEMMA SumInt ==
    ASSUME NEW S, IsFiniteSet(S), NEW f \in [S -> Int]
    PROVE  SumFunction(f) \in Int
<1>1. PICK g : Adds(g, f, S) /\ SumFunction(f) = g[S]
  BY SumAdds
<1> QED
  BY <1>1 DEF Adds

\* Sums of differences.
Difference(c, a, b, S) == \A x \in S : c[x] = a[x] - b[x]

LEMMA SumDiff ==
    ASSUME NEW S, IsFiniteSet(S), NEW a \in [S -> Int], NEW b \in [S -> Int],
           NEW c \in [S -> Int], Difference(c, a, b, S)
    PROVE  SumFunction(c) = SumFunction(a) - SumFunction(b)
<1>1. PICK ga : Adds(ga, a, S) /\ SumFunction(a) = ga[S]
  BY SumAdds
<1>2. PICK gb : Adds(gb, b, S) /\ SumFunction(b) = gb[S]
  BY SumAdds
<1>3. PICK gc : Adds(gc, c, S) /\ SumFunction(c) = gc[S]
  BY SumAdds
<1> DEFINE Q == {u \in SUBSET S : gc[u] = ga[u] - gb[u]}
<1>4. {} \in Q
  BY <1>1, <1>2, <1>3 DEF Adds
<1>5. ASSUME NEW u \in SUBSET S, u # {}, \A x \in u : u \ {x} \in Q PROVE u \in Q
  <2>1. PICK x \in u : TRUE
    BY <1>5
  <2>2. /\ gc[u] = c[x] + gc[u \ {x}]
        /\ ga[u] = a[x] + ga[u \ {x}] /\ gb[u] = b[x] + gb[u \ {x}]
    BY <1>1, <1>2, <1>3 DEF Adds
  <2>3. ga[u \ {x}] \in Int /\ gb[u \ {x}] \in Int /\ a[x] \in Int /\ b[x] \in Int
    BY <1>1, <1>2 DEF Adds
  <2>4. gc[u \ {x}] = ga[u \ {x}] - gb[u \ {x}] /\ c[x] = a[x] - b[x]
    BY <1>5 DEF Difference
  <2> QED
    BY <2>2, <2>3, <2>4
<1> HIDE DEF Q
<1>6. S \in Q
  <2>1. SUBSET S \subseteq Q
    BY <1>4, <1>5, SubsetInduction
  <2> QED
    BY <2>1
<1> QED
  BY <1>1, <1>2, <1>3, <1>6 DEF Q

\* Zeros add nothing.
Padded(a, b, S, T) == (\A x \in T : b[x] = a[x]) /\ \A x \in S \ T : a[x] = 0

LEMMA SumZeros ==
    ASSUME NEW S, IsFiniteSet(S), NEW T \in SUBSET S, NEW a \in [S -> Int],
           NEW b \in [T -> Int], Padded(a, b, S, T)
    PROVE  SumFunction(a) = SumFunction(b)
<1> USE DEF Padded
<1>1. PICK ga : Adds(ga, a, S) /\ SumFunction(a) = ga[S]
  BY SumAdds
<1>2. PICK gb : Adds(gb, b, T) /\ SumFunction(b) = gb[T]
  BY SumAdds, FS_Subset
<1> DEFINE Q == {u \in SUBSET S : ga[u] = gb[u \cap T]}
<1>3. {} \in Q
  BY <1>1, <1>2, {} \cap T = {} DEF Adds
<1>4. ASSUME NEW u \in SUBSET S, u # {}, \A x \in u : u \ {x} \in Q PROVE u \in Q
  <2>1. PICK x \in u : TRUE
    BY <1>4
  <2>2. ga[u] = a[x] + ga[u \ {x}] /\ ga[u \ {x}] \in Int /\ a[x] \in Int
    BY <1>1 DEF Adds
  <2>3. ga[u \ {x}] = gb[(u \ {x}) \cap T]
    BY <1>4
  <2>4. CASE x \in T
    <3>1. (u \ {x}) \cap T = (u \cap T) \ {x} /\ x \in u \cap T /\ u \cap T \in SUBSET T
      BY <2>4
    <3>2. gb[u \cap T] = b[x] + gb[(u \cap T) \ {x}]
      BY <1>2, <3>1 DEF Adds
    <3> QED
      BY <2>2, <2>3, <2>4, <3>1, <3>2
  <2>5. CASE x \notin T
    <3>1. (u \ {x}) \cap T = u \cap T /\ a[x] = 0
      BY <2>5
    <3> QED
      BY <2>2, <2>3, <3>1
  <2> QED
    BY <2>4, <2>5
<1> HIDE DEF Q
<1>5. S \in Q
  <2>1. SUBSET S \subseteq Q
    BY <1>3, <1>4, SubsetInduction
  <2> QED
    BY <2>1
<1> QED
  BY <1>1, <1>2, <1>5, S \cap T = T DEF Q

\* Nothing adds up to nothing, and so do two that cancel.
LEMMA SumNull ==
    ASSUME NEW S, IsFiniteSet(S), NEW a \in [S -> Int], \A x \in S : a[x] = 0
    PROVE  SumFunction(a) = 0
<1>1. SumFunction(a) = SumFunction(a) - SumFunction(a)
  BY SumDiff DEF Difference
<1>2. SumFunction(a) \in Int
  BY SumInt
<1> QED
  BY <1>1, <1>2

LEMMA SumPair ==
    ASSUME NEW S, IsFiniteSet(S), NEW a \in [S -> Int], NEW p \in S, NEW q \in S, p # q,
           a[p] + a[q] = 0, \A x \in S \ {p, q} : a[x] = 0
    PROVE  SumFunction(a) = 0
<1> DEFINE T == {p, q}
           b == [x \in T |-> a[x]]
<1>1. T \in SUBSET S /\ b \in [T -> Int] /\ Padded(a, b, S, T)
  BY DEF Padded
<1>2. b[p] = a[p] /\ b[q] = a[q] /\ a[p] \in Int /\ a[q] \in Int
  OBVIOUS
<1> HIDE DEF T, b
<1>3. IsFiniteSet(T)
  BY <1>1, FS_Subset
<1>4. PICK g : Adds(g, b, T) /\ SumFunction(b) = g[T]
  BY <1>1, <1>3, SumAdds
<1>5. SumFunction(a) = SumFunction(b)
  BY <1>1, SumZeros
<1>6. T \in SUBSET T /\ p \in T /\ T \ {p} = {q} /\ {q} \in SUBSET T 
  BY DEF T
<1>7. g[T] = b[p] + g[{q}]
  BY <1>4, <1>6 DEF Adds
<1>8. g[{q}] = b[q] + g[{}] /\ g[{}] = 0
  <2>1. {q} \ {q} = {}
    OBVIOUS
  <2>2. g[{q}] = b[q] + g[{q} \ {q}]
    BY <1>4, <1>6 DEF Adds
  <2> QED
    BY <1>4, <2>1, <2>2 DEF Adds
<1> QED
  BY <1>2, <1>4, <1>5, <1>7, <1>8

-----------------------------------------------------------------------------
(* The replay, for any sequence of rows. *)

Pos == [qty : Int, cost : Int, per : Int, last : Int]

\* What applyTxToLedger does to quantity, cost and divisor.
LEMMA ApplyTxFields ==
    ASSUME NEW pos \in Pos, NEW x \in TxRows, NEW p, p = ApplyTx(pos, x)
    PROVE  /\ p \in Pos
           /\ x.kind = "buy" =>
                /\ p.qty = pos.qty + x.qty /\ p.per = pos.per
                /\ p.cost = pos.cost + x.qty * x.price * pos.per
           /\ x.kind = "sell" /\ pos.qty > 0 =>
                /\ p.qty = pos.qty - x.qty
                /\ p.per = pos.per * pos.qty
                /\ p.cost = pos.cost * (pos.qty - x.qty)
           /\ x.kind = "split" =>
                p.qty = pos.qty * x.price /\ p.per = pos.per /\ p.cost = pos.cost
           /\ x.kind \notin {"buy", "sell", "split"} =>
                p.qty = pos.qty /\ p.per = pos.per /\ p.cost = pos.cost
<1> DEFINE l == IF x.price > 0 THEN x.price ELSE pos.last
           At(q, c, r) == [qty |-> q, cost |-> c, per |-> r, last |-> l]
<1>1. /\ x.qty \in Int /\ x.price \in Int
      /\ pos.qty \in Int /\ pos.cost \in Int /\ pos.per \in Int /\ l \in Int
  BY DEF TxRows, Pos
<1>2. pos = [qty |-> pos.qty, cost |-> pos.cost, per |-> pos.per, last |-> pos.last]
  BY DEF Pos
<1>3. [pos EXCEPT !.last = IF x.price > 0 THEN x.price ELSE @] = At(pos.qty, pos.cost, pos.per)
  BY <1>2
<1> HIDE DEF l
<1>4. \A q, c, r \in Int : At(q, c, r) \in Pos
  BY <1>1 DEF Pos
<1>5. CASE x.kind = "buy"
  <2> DEFINE c == pos.cost + x.qty * x.price * pos.per
  <2>1. p = At(pos.qty + x.qty, c, pos.per)
    BY <1>3, <1>5 DEF ApplyTx
  <2>2. pos.qty + x.qty \in Int /\ c \in Int
    BY <1>1
  <2> HIDE DEF c
  <2>3. p \in Pos /\ p.qty = pos.qty + x.qty /\ p.per = pos.per /\ p.cost = c
    BY <1>1, <1>4, <2>1, <2>2
  <2> QED
    BY <1>5, <2>3 DEF c
<1>6. CASE x.kind = "sell"
  <2> DEFINE c == IF pos.qty > 0 THEN pos.cost * (pos.qty - x.qty) ELSE pos.cost
             r == IF pos.qty > 0 THEN pos.per * pos.qty ELSE pos.per
  <2>1. p = At(pos.qty - x.qty, c, r)
    BY <1>3, <1>6 DEF ApplyTx
  <2>2. pos.qty - x.qty \in Int /\ c \in Int /\ r \in Int
    BY <1>1
  <2> HIDE DEF c, r
  <2>3. p \in Pos /\ p.qty = pos.qty - x.qty /\ p.per = r /\ p.cost = c
    BY <1>1, <1>4, <2>1, <2>2
  <2> QED
    BY <1>6, <2>3 DEF c, r
<1>7. CASE x.kind = "split"
  <2> DEFINE q == pos.qty * x.price
  <2>1. p = At(q, pos.cost, pos.per)
    BY <1>3, <1>7 DEF ApplyTx
  <2>2. q \in Int
    BY <1>1
  <2> HIDE DEF q
  <2>3. p \in Pos /\ p.qty = q /\ p.per = pos.per /\ p.cost = pos.cost
    BY <1>1, <1>4, <2>1, <2>2
  <2> QED
    BY <1>7, <2>3 DEF q
<1>8. CASE x.kind \notin {"buy", "sell", "split"}
  <2>1. p = At(pos.qty, pos.cost, pos.per)
    BY <1>3, <1>8 DEF ApplyTx
  <2> QED
    BY <1>1, <1>4, <1>8, <2>1
<1> QED
  BY <1>5, <1>6, <1>7, <1>8

\* f is the position before each row.
ReplayedBy(f, s, t, d) ==
    /\ f[0] = NoPos
    /\ \A i \in 1..Len(s) : f[i] = ReplayStep(f[i - 1], s, i, t, d)
    /\ Replay(s, t, d) = f[Len(s)]

\* The replay is the run of its loop.
LEMMA ReplayRun ==
    ASSUME NEW s \in Seq(TxRows), NEW t, NEW d
    PROVE  \E f \in [0..Len(s) -> Pos] : ReplayedBy(f, s, t, d)
<1> DEFINE n == Len(s)
           step == [y \in Pos \X (1..n) |-> ReplayStep(y[1], s, y[2], t, d)]
           P(g) == g = [i \in 0..n |-> IF i = 0 THEN NoPos ELSE ReplayStep(g[i - 1], s, i, t, d)]
           g == CHOOSE h : P(h)
<1>1. n \in Nat /\ \A i \in 1..n : s[i] \in TxRows
  OBVIOUS
<1>2. NoPos \in Pos
  BY DEF NoPos, Pos
<1>3. \A p \in Pos, i \in 1..n : ReplayStep(p, s, i, t, d) \in Pos
  BY <1>1, ApplyTxFields DEF ReplayStep
<1>4. step \in Steps(Pos, n)
  BY <1>3 DEF Steps
<1>5. \A p \in Pos, i \in 1..n : step[<<p, i>>] = ReplayStep(p, s, i, t, d)
  OBVIOUS
<1> HIDE DEF n, step
<1>6. PICK f \in [0..n -> Pos] : IsRun(f, NoPos, step, n)
  BY <1>1, <1>2, <1>4, RunExists
<1>7. f[0] = NoPos /\ \A i \in 1..n : f[i] = ReplayStep(f[i - 1], s, i, t, d)
  <2>1. \A i \in 1..n : f[i - 1] \in Pos
    BY <1>1, <1>6
  <2> QED
    BY <1>5, <1>6, <2>1 DEF IsRun
<1>8. P(f)
  BY <1>1, <1>7
<1>9. P(g)
  BY <1>8
<1>10. Replay(s, t, d) = g[n]
  BY DEF Replay, Loop, n
<1> HIDE DEF g
<1>11. g[0] = NoPos /\ \A i \in 1..n : g[i] = ReplayStep(g[i - 1], s, i, t, d)
  BY <1>1, <1>9
<1>12. Alike(f, g, n)
  BY <1>7, <1>11 DEF Alike
<1>13. \A i \in 0..n : f[i] = g[i]
  BY <1>1, <1>12, SameRun
<1>14. Replay(s, t, d) = f[n]
  BY <1>1, <1>10, <1>13
<1> QED
  BY <1>7, <1>14 DEF ReplayedBy, n

LEMMA ReplayEmpty ==
    ASSUME NEW s \in Seq(TxRows), NEW t, NEW d
    PROVE  Len(s) = 0 => Replay(s, t, d) = NoPos
<1>1. PICK f \in [0..Len(s) -> Pos] : ReplayedBy(f, s, t, d)
  BY ReplayRun
<1> QED
  BY <1>1 DEF ReplayedBy

\* One more row is one more step.
LEMMA ReplayAppend ==
    ASSUME NEW s \in Seq(TxRows), NEW x \in TxRows, NEW t, NEW d
    PROVE  /\ Replay(s, t, d) \in Pos
           /\ Replay(Append(s, x), t, d) =
                IF x.ticker = t /\ x.date <= d THEN ApplyTx(Replay(s, t, d), x)
                ELSE Replay(s, t, d)
<1> DEFINE n == Len(s)
           u == Append(s, x)
<1>1. n \in Nat /\ u \in Seq(TxRows) /\ Len(u) = n + 1 /\ u[n + 1] = x
  OBVIOUS
<1>2. \A i \in 1..n : u[i] = s[i] /\ i \in DOMAIN s /\ i \in DOMAIN u
  OBVIOUS
<1>3. DOMAIN u = 1..(n + 1)
  OBVIOUS
<1> HIDE DEF u
<1>4. PICK f \in [0..n -> Pos] : ReplayedBy(f, s, t, d)
  BY ReplayRun
<1>5. PICK h \in [0..(n + 1) -> Pos] : ReplayedBy(h, u, t, d)
  BY <1>1, ReplayRun
<1> HIDE DEF n
<1>6. \A p, i : i \in 1..n => ReplayStep(p, s, i, t, d) = ReplayStep(p, u, i, t, d)
  BY <1>2 DEF ReplayStep, Replayed
<1>7. Alike(f, h, n)
  <2>1. \A i \in 1..n : i \in 1..(n + 1)
    BY <1>1
  <2>2. f[0] = NoPos /\ \A i \in 1..n : f[i] = ReplayStep(f[i - 1], s, i, t, d)
    BY <1>4 DEF ReplayedBy, n
  <2>3. h[0] = NoPos /\ \A i \in 1..(n + 1) : h[i] = ReplayStep(h[i - 1], u, i, t, d)
    BY <1>1, <1>5 DEF ReplayedBy
  <2> QED
    BY <1>6, <2>1, <2>2, <2>3 DEF Alike
<1>8. f[n] = h[n]
  BY <1>1, <1>7, SameRun
<1>9. h[n + 1] = ReplayStep(h[n], u, n + 1, t, d)
  BY <1>1, <1>5 DEF ReplayedBy
<1>10. n + 1 \in Replayed(u, t, d) <=> x.ticker = t /\ x.date <= d
  BY <1>1, <1>3 DEF Replayed
<1>11. f[n] \in Pos
  BY <1>1
<1> QED
  BY <1>1, <1>4, <1>5, <1>8, <1>9, <1>10, <1>11 DEF ReplayStep, ReplayedBy, u, n

\* A day without rows changes nothing.
LEMMA ReplayLater ==
    ASSUME NEW s \in Seq(TxRows), NEW t, NEW d \in Int, NEW e \in Int,
           \A i \in DOMAIN s : s[i].date <= d <=> s[i].date <= e
    PROVE  Replay(s, t, d) = Replay(s, t, e) /\ Replayed(s, t, d) = Replayed(s, t, e)
<1> DEFINE n == Len(s)
<1>1. n \in Nat /\ DOMAIN s = 1..n
  OBVIOUS
<1>2. PICK f \in [0..n -> Pos] : ReplayedBy(f, s, t, d)
  BY ReplayRun
<1>3. PICK h \in [0..n -> Pos] : ReplayedBy(h, s, t, e)
  BY ReplayRun
<1> HIDE DEF n
<1>4. Replayed(s, t, d) = Replayed(s, t, e)
  BY DEF Replayed
<1>5. Alike(f, h, n)
  BY <1>2, <1>3, <1>4 DEF Alike, ReplayStep, ReplayedBy, n
<1>6. f[n] = h[n]
  BY <1>1, <1>5, SameRun
<1> QED
  BY <1>2, <1>3, <1>4, <1>6 DEF ReplayedBy, n

-----------------------------------------------------------------------------
(* Average cost: products that the solver does not rearrange by itself. *)

LEMMA Product ==
    /\ \A a, b, c \in Int : (a * b) * c = a * (b * c) /\ a * b = b * a
    /\ \A a, b, c \in Int : a * (b + c) = a * b + a * c
    /\ \A a, b, c \in Int : a <= b /\ c >= 0 => a * c <= b * c
    /\ \A a, b \in Int : a > 0 /\ b > 0 => a * b > 0
  OBVIOUS

\* The mean of a position bought at p or less and a purchase at m is no more
\* than the larger price.
LEMMA MeanBelow ==
    ASSUME NEW q \in Int, NEW c \in Int, NEW r \in Int, NEW x \in Int, NEW p \in Int,
           NEW m \in Int, q >= 0, r > 0, x > 0, c <= p * q * r
    PROVE  \E M \in {p, m} : c + x * m * r <= M * (q + x) * r
<1> DEFINE M == IF p <= m THEN m ELSE p
           w == q * r
           z == x * r
<1>1. M \in {p, m} /\ M \in Int /\ p <= M /\ m <= M
  OBVIOUS
<1>2. w \in Int /\ z \in Int /\ w >= 0 /\ z >= 0
  BY Product
<1>3. p * q * r = p * w
  BY Product
<1>4. x * m * r = m * z
  <2>1. x * m * r = (m * x) * r
    BY Product
  <2>2. (m * x) * r = m * z
    BY Product
  <2> QED
    BY <2>1, <2>2
<1>5. M * (q + x) * r = M * w + M * z
  <2>1. M * (q + x) * r = M * ((q + x) * r)
    BY <1>1, Product
  <2>2. (q + x) * r = r * (q + x) /\ r * (q + x) = r * q + r * x /\ r * q = w /\ r * x = z
    BY Product
  <2>3. (q + x) * r = w + z
    BY <2>2
  <2>4. M * (w + z) = M * w + M * z
    BY <1>1, <1>2, Product
  <2> QED
    BY <2>1, <2>3, <2>4
<1> HIDE DEF M, w, z
<1>6. p * w <= M * w /\ m * z <= M * z
  BY <1>1, <1>2, Product
<1>7. /\ p * w \in Int /\ m * z \in Int /\ M * w \in Int /\ M * z \in Int
      /\ c <= p * w
  BY <1>1, <1>2, <1>3
<1>8. c + m * z <= M * w + M * z
  BY <1>6, <1>7
<1> QED
  BY <1>1, <1>4, <1>5, <1>8

\* And no less than the smaller.
LEMMA MeanAbove ==
    ASSUME NEW q \in Int, NEW c \in Int, NEW r \in Int, NEW x \in Int, NEW p \in Int,
           NEW m \in Int, q >= 0, r > 0, x > 0, c >= p * q * r
    PROVE  \E M \in {p, m} : c + x * m * r >= M * (q + x) * r
<1> DEFINE M == IF p <= m THEN p ELSE m
           w == q * r
           z == x * r
<1>1. M \in {p, m} /\ M \in Int /\ M <= p /\ M <= m
  OBVIOUS
<1>2. w \in Int /\ z \in Int /\ w >= 0 /\ z >= 0
  BY Product
<1>3. p * q * r = p * w
  BY Product
<1>4. x * m * r = m * z
  <2>1. x * m * r = (m * x) * r
    BY Product
  <2>2. (m * x) * r = m * z
    BY Product
  <2> QED
    BY <2>1, <2>2
<1>5. M * (q + x) * r = M * w + M * z
  <2>1. M * (q + x) * r = M * ((q + x) * r)
    BY <1>1, Product
  <2>2. (q + x) * r = r * (q + x) /\ r * (q + x) = r * q + r * x /\ r * q = w /\ r * x = z
    BY Product
  <2>3. (q + x) * r = w + z
    BY <2>2
  <2>4. M * (w + z) = M * w + M * z
    BY <1>1, <1>2, Product
  <2> QED
    BY <2>1, <2>3, <2>4
<1> HIDE DEF M, w, z
<1>6. p * w >= M * w /\ m * z >= M * z
  BY <1>1, <1>2, Product
<1>7. /\ p * w \in Int /\ m * z \in Int /\ M * w \in Int /\ M * z \in Int
      /\ c >= p * w
  BY <1>1, <1>2, <1>3
<1>8. c + m * z >= M * w + M * z
  BY <1>6, <1>7
<1> QED
  BY <1>1, <1>4, <1>5, <1>8

\* A sale scales cost and quantity alike; a split only the quantity.
LEMMA Scaled ==
    ASSUME NEW q \in Int, NEW c \in Int, NEW r \in Int, NEW p \in Int, NEW k \in Int, k >= 0
    PROVE  /\ c <= p * q * r => c * k <= p * k * (r * q)
           /\ c >= p * q * r => c * k >= p * k * (r * q)
           /\ c <= p * q * r /\ k >= 1 /\ p >= 0 /\ q >= 0 /\ r >= 0 => c <= p * (q * k) * r
<1>1. p * q * r \in Int
  OBVIOUS
<1>2. (p * q * r) * k = p * k * (r * q)
  <2>1. p * q * r = p * (r * q)
    BY Product
  <2>2. (p * (r * q)) * k = k * (p * (r * q)) /\ k * (p * (r * q)) = (k * p) * (r * q)
    BY Product
  <2> QED
    BY <2>1, <2>2, Product
<1>3. c <= p * q * r => c * k <= p * k * (r * q)
  BY <1>1, <1>2, Product
<1>4. c >= p * q * r => c * k >= p * k * (r * q)
  BY <1>1, <1>2, Product
<1>5. ASSUME c <= p * q * r, k >= 1, p >= 0, q >= 0, r >= 0 PROVE c <= p * (q * k) * r
  <2> DEFINE b == p * q * r
  <2>1. p * (q * k) * r = k * b
    <3>1. q * k = k * q /\ p * (k * q) = (k * q) * p /\ (k * q) * p = k * (q * p)
      BY Product
    <3>2. (k * (q * p)) * r = k * ((q * p) * r) /\ q * p = p * q
      BY Product
    <3> QED
      BY <3>1, <3>2
  <2>2. b \in Int /\ b >= 0
    <3>1. p * q >= 0 /\ p * q \in Int
      BY <1>5
    <3> QED
      BY <1>5, <3>1
  <2>3. c <= b
    BY <1>5
  <2> HIDE DEF b
  <2>4. 1 * b <= k * b
    BY <1>5, <2>2, Product
  <2> QED
    BY <2>1, <2>2, <2>3, <2>4
<1> QED
  BY <1>3, <1>4, <1>5

-----------------------------------------------------------------------------
(* The ledger is right, for any sequence of rows. *)

Paid(s, t, d) == {s[i].price : i \in {j \in Replayed(s, t, d) : s[j].kind = "buy"}}
HasSplit(s, t, d) == \E i \in Replayed(s, t, d) : s[i].kind = "split"

\* The cost of pos is a mean of paid, which splits may have divided.
AtMost(pos, p)  == pos.cost <= p * pos.qty * pos.per
AtLeast(pos, p) == pos.cost >= p * pos.qty * pos.per
Mean(pos, paid, split) ==
    /\ pos.qty = 0 => pos.cost = 0
    /\ pos.qty > 0 => /\ \E p \in paid : AtMost(pos, p)
                      /\ ~split => \E p \in paid : AtLeast(pos, p)

Right(s, t, d, held) ==
    /\ Replay(s, t, d).qty = held
    /\ Mean(Replay(s, t, d), Paid(s, t, d), HasSplit(s, t, d))
Sound(s, t, d, held) == Right(s, t, d, held) /\ Replay(s, t, d).per > 0

LEMMA MeanBuy ==
    ASSUME NEW pos \in Pos, NEW x \in TxRows, x.kind = "buy", x.qty > 0, pos.qty >= 0,
           pos.per > 0, NEW paid \in SUBSET Nat, NEW split \in BOOLEAN, Mean(pos, paid, split),
           NEW p, p = ApplyTx(pos, x)
    PROVE  /\ p \in Pos /\ p.qty = pos.qty + x.qty /\ p.per > 0
           /\ Mean(p, paid \cup {x.price}, split)
<1>1. /\ x.qty \in Int /\ x.price \in Int /\ pos.qty \in Int /\ pos.cost \in Int
      /\ pos.per \in Int
  BY DEF TxRows, Pos
<1>2. /\ p \in Pos /\ p.qty = pos.qty + x.qty /\ p.per = pos.per
      /\ p.cost = pos.cost + x.qty * x.price * pos.per
  BY ApplyTxFields
<1>3. p.qty > 0 /\ p.qty # 0
  BY <1>1, <1>2
<1>4. ASSUME NEW b \in Int, AtMost(pos, b) PROVE \E y \in {b, x.price} : AtMost(p, y)
  BY <1>1, <1>2, <1>4, MeanBelow DEF AtMost
<1>5. ASSUME NEW b \in Int, AtLeast(pos, b) PROVE \E y \in {b, x.price} : AtLeast(p, y)
  <2>1. pos.cost >= b * pos.qty * pos.per
    BY <1>5 DEF AtLeast
  <2>2. \E y \in {b, x.price} : pos.cost + x.qty * x.price * pos.per
                                   >= y * (pos.qty + x.qty) * pos.per
    BY <1>1, <2>1, MeanAbove
  <2> QED
    BY <1>2, <2>2 DEF AtLeast
<1>6. CASE pos.qty = 0
  <2>1. pos.cost = 0 /\ x.price * pos.qty * pos.per = 0
    BY <1>1, <1>6 DEF Mean
  <2>2. AtMost(pos, x.price) /\ AtLeast(pos, x.price)
    BY <2>1 DEF AtMost, AtLeast
  <2>3. AtMost(p, x.price) /\ AtLeast(p, x.price)
    BY <1>1, <1>4, <1>5, <2>2
  <2> QED
    BY <1>2, <1>3, <2>3 DEF Mean
<1>7. CASE pos.qty > 0
  <2>1. PICK b \in paid : AtMost(pos, b)
    BY <1>7 DEF Mean
  <2>2. \E y \in paid \cup {x.price} : AtMost(p, y)
    <3>1. b \in Int
      OBVIOUS
    <3>2. PICK y \in {b, x.price} : AtMost(p, y)
      BY <1>4, <2>1, <3>1
    <3> QED
      BY <3>2
  <2>3. ASSUME ~split PROVE \E y \in paid \cup {x.price} : AtLeast(p, y)
    <3>1. PICK e \in paid : AtLeast(pos, e)
      BY <1>7, <2>3 DEF Mean
    <3>2. e \in Int
      OBVIOUS
    <3>3. PICK y \in {e, x.price} : AtLeast(p, y)
      BY <1>5, <3>1, <3>2
    <3> QED
      BY <3>3
  <2> QED
    BY <1>2, <1>3, <2>2, <2>3 DEF Mean
<1> QED
  BY <1>1, <1>6, <1>7

LEMMA MeanSell ==
    ASSUME NEW pos \in Pos, NEW x \in TxRows, x.kind = "sell", x.qty > 0, pos.qty >= x.qty,
           pos.per > 0, NEW paid \in SUBSET Nat, NEW split \in BOOLEAN, Mean(pos, paid, split),
           NEW p, p = ApplyTx(pos, x)
    PROVE  p \in Pos /\ p.qty = pos.qty - x.qty /\ p.per > 0 /\ Mean(p, paid, split)
<1>1. /\ x.qty \in Int /\ pos.qty \in Int /\ pos.cost \in Int /\ pos.per \in Int
      /\ pos.qty > 0
  BY DEF TxRows, Pos
<1> DEFINE k == pos.qty - x.qty
<1>2. k \in Int /\ k >= 0
  BY <1>1
<1>3. /\ p \in Pos /\ p.qty = k /\ p.per = pos.per * pos.qty
      /\ p.cost = pos.cost * k
  BY <1>1, ApplyTxFields
<1> HIDE DEF k
<1>4. p.per > 0
  BY <1>1, <1>3, Product
<1>5. k = 0 => p.cost = 0
  BY <1>1, <1>3
<1>6. PICK b \in paid : AtMost(pos, b)
  BY <1>1 DEF Mean
<1>7. AtMost(p, b)
  <2>1. b \in Int
    OBVIOUS
  <2> QED
    BY <1>1, <1>2, <1>3, <1>6, <2>1, Scaled DEF AtMost
<1>8. ASSUME ~split PROVE \E y \in paid : AtLeast(p, y)
  <2>1. PICK e \in paid : AtLeast(pos, e)
    BY <1>1, <1>8 DEF Mean
  <2>2. e \in Int
    OBVIOUS
  <2>3. AtLeast(p, e)
    BY <1>1, <1>2, <1>3, <2>1, <2>2, Scaled DEF AtLeast
  <2> QED
    BY <2>3
<1> QED
  BY <1>3, <1>4, <1>5, <1>7, <1>8 DEF Mean, k

LEMMA MeanSplit ==
    ASSUME NEW pos \in Pos, NEW x \in TxRows, x.kind = "split", x.price > 0, pos.qty >= 0,
           pos.per > 0, NEW paid \in SUBSET Nat, NEW split, Mean(pos, paid, split),
           NEW p, p = ApplyTx(pos, x)
    PROVE  p \in Pos /\ p.qty = pos.qty * x.price /\ p.per > 0 /\ Mean(p, paid, TRUE)
<1>1. x.price \in Int /\ pos.qty \in Int /\ pos.cost \in Int /\ pos.per \in Int
  BY DEF TxRows, Pos
<1>2. p \in Pos /\ p.qty = pos.qty * x.price /\ p.per = pos.per /\ p.cost = pos.cost
  BY ApplyTxFields
<1>3. CASE pos.qty = 0
  <2>1. p.qty = 0 /\ p.cost = 0
    BY <1>1, <1>2, <1>3 DEF Mean
  <2> QED
    BY <1>2, <2>1 DEF Mean
<1>4. CASE pos.qty > 0
  <2>1. PICK b \in paid : AtMost(pos, b)
    BY <1>4 DEF Mean
  <2>2. b \in Int /\ b >= 0
    OBVIOUS
  <2>3. AtMost(p, b)
    BY <1>1, <1>2, <2>1, <2>2, Scaled DEF AtMost
  <2>4. p.qty > 0
    BY <1>1, <1>2, <1>4, Product
  <2> QED
    BY <1>2, <2>3, <2>4 DEF Mean
<1>5. pos.qty = 0 \/ pos.qty > 0
  BY <1>1
<1> QED
  BY <1>3, <1>4, <1>5, Zenon

LEMMA MeanOther ==
    ASSUME NEW pos \in Pos, NEW x \in TxRows, x.kind \notin {"buy", "sell", "split"},
           NEW paid, NEW split, Mean(pos, paid, split), NEW p, p = ApplyTx(pos, x)
    PROVE  p \in Pos /\ p.qty = pos.qty /\ p.per = pos.per /\ Mean(p, paid, split)
<1>1. p \in Pos /\ p.qty = pos.qty /\ p.per = pos.per /\ p.cost = pos.cost
  BY ApplyTxFields
<1> QED
  BY <1>1 DEF Mean, AtMost, AtLeast

\* The row is of the ticker, and not of a later day.
Applies(x, t, d) == x.ticker = t /\ x.date <= d

Bought(s, t, d) == {j \in Replayed(s, t, d) : s[j].kind = "buy"}

\* The rows that are replayed with one more.
LEMMA ReplayedAppend ==
    ASSUME NEW s \in Seq(TxRows), NEW x \in TxRows, NEW t, NEW d
    PROVE  Replayed(Append(s, x), t, d) =
             IF Applies(x, t, d) THEN Replayed(s, t, d) \cup {Len(s) + 1} ELSE Replayed(s, t, d)
<1> DEFINE u == Append(s, x)
           n == Len(s)
<1>1. /\ n \in Nat /\ u[n + 1] = x /\ DOMAIN u = (DOMAIN s) \cup {n + 1}
      /\ n + 1 \notin DOMAIN s
      /\ \A i \in DOMAIN s : u[i] = s[i]
  OBVIOUS
<1> HIDE DEF n, u
<1>2. ~Applies(x, t, d) => Replayed(u, t, d) = Replayed(s, t, d)
  BY <1>1 DEF Replayed, Applies
<1>3. Applies(x, t, d) => Replayed(u, t, d) = Replayed(s, t, d) \cup {n + 1}
  BY <1>1 DEF Replayed, Applies
<1> QED
  BY <1>2, <1>3 DEF n, u

LEMMA PaidNat ==
    ASSUME NEW s \in Seq(TxRows), NEW t, NEW d
    PROVE  Paid(s, t, d) \in SUBSET Nat
<1>1. \A i \in DOMAIN s : s[i] \in TxRows
  OBVIOUS
<1>2. \A i \in DOMAIN s : s[i].price \in Nat
  BY <1>1 DEF TxRows
<1> QED
  BY <1>2 DEF Paid, Replayed

\* A row that is replayed adds its price if it is a purchase, and itself if it
\* is a split.
LEMMA PaidSkip ==
    ASSUME NEW s \in Seq(TxRows), NEW x \in TxRows, NEW t, NEW d,
           ~Applies(x, t, d)
    PROVE  /\ Paid(Append(s, x), t, d) = Paid(s, t, d)
           /\ HasSplit(Append(s, x), t, d) <=> HasSplit(s, t, d)
<1> DEFINE u == Append(s, x)
<1>1. (\A i \in Replayed(s, t, d) : u[i] = s[i]) /\ Replayed(u, t, d) = Replayed(s, t, d)
  <2>1. \A i \in Replayed(s, t, d) : u[i] = s[i]
    BY DEF Replayed
  <2> QED
    BY <2>1, ReplayedAppend
<1> HIDE DEF u
<1>2. Bought(u, t, d) = Bought(s, t, d)
  BY <1>1 DEF Bought
<1>3. HasSplit(u, t, d) <=> HasSplit(s, t, d)
  BY <1>1 DEF HasSplit
<1>4. /\ Paid(s, t, d) = {s[i].price : i \in Bought(s, t, d)}
      /\ Paid(u, t, d) = {u[i].price : i \in Bought(u, t, d)}
  BY DEF Paid, Bought
<1>5. {s[i].price : i \in Bought(s, t, d)} = {u[i].price : i \in Bought(s, t, d)}
  BY <1>1 DEF Bought
<1> QED
  BY <1>2, <1>3, <1>4, <1>5 DEF u

LEMMA PaidRow ==
    ASSUME NEW s \in Seq(TxRows), NEW x \in TxRows, NEW t, NEW d,
           Applies(x, t, d)
    PROVE  /\ x.kind = "buy" => Paid(Append(s, x), t, d) = Paid(s, t, d) \cup {x.price}
           /\ x.kind # "buy" => Paid(Append(s, x), t, d) = Paid(s, t, d)
           /\ HasSplit(Append(s, x), t, d) <=> HasSplit(s, t, d) \/ x.kind = "split"
<1> DEFINE u == Append(s, x)
           m == Len(s) + 1
<1>1. /\ \A i \in Replayed(s, t, d) : u[i] = s[i]
      /\ u[m] = x /\ Replayed(u, t, d) = Replayed(s, t, d) \cup {m}
  <2>1. \A i \in Replayed(s, t, d) : u[i] = s[i]
    BY DEF Replayed
  <2>2. u[m] = x
    OBVIOUS
  <2> QED
    BY <2>1, <2>2, ReplayedAppend
<1> HIDE DEF m, u
<1>2. /\ x.kind = "buy" => Bought(u, t, d) = Bought(s, t, d) \cup {m}
      /\ x.kind # "buy" => Bought(u, t, d) = Bought(s, t, d)
  BY <1>1 DEF Bought
<1>3. HasSplit(u, t, d) <=> HasSplit(s, t, d) \/ x.kind = "split"
  BY <1>1 DEF HasSplit
<1>4. /\ Paid(s, t, d) = {s[i].price : i \in Bought(s, t, d)}
      /\ Paid(u, t, d) = {u[i].price : i \in Bought(u, t, d)}
  BY DEF Paid, Bought
<1>5. {u[i].price : i \in Bought(s, t, d) \cup {m}}
        = {u[i].price : i \in Bought(s, t, d)} \cup {u[m].price}
  OBVIOUS
<1>6. {s[i].price : i \in Bought(s, t, d)} = {u[i].price : i \in Bought(s, t, d)}
  BY <1>1 DEF Bought
<1>7. x.kind = "buy" => Paid(u, t, d) = Paid(s, t, d) \cup {x.price}
  BY <1>1, <1>2, <1>4, <1>5, <1>6
<1>8. x.kind # "buy" => Paid(u, t, d) = Paid(s, t, d)
  BY <1>2, <1>4, <1>6
<1> QED
  BY <1>3, <1>7, <1>8 DEF u

\* A row of another ticker, or of a later day.
LEMMA RightSkip ==
    ASSUME NEW s \in Seq(TxRows), NEW x \in TxRows, NEW t, NEW d, NEW held,
           ~Applies(x, t, d)
    PROVE  /\ Right(s, t, d, held) => Right(Append(s, x), t, d, held)
           /\ Sound(s, t, d, held) => Sound(Append(s, x), t, d, held)
<1> DEFINE u == Append(s, x)
<1>1. Replay(u, t, d) = Replay(s, t, d)
  BY ReplayAppend DEF Applies
<1>2. Paid(u, t, d) = Paid(s, t, d) /\ (HasSplit(u, t, d) <=> HasSplit(s, t, d))
  BY PaidSkip
<1> QED
  BY <1>1, <1>2 DEF Right, Sound, Mean

\* A row of the ticker.
LEMMA SoundRow ==
    ASSUME NEW s \in Seq(TxRows), NEW x \in TxRows, NEW t, NEW d, NEW held \in Nat, NEW now,
           Applies(x, t, d), Sound(s, t, d, held),
           \/ x.kind = "buy" /\ x.qty > 0 /\ now = held + x.qty
           \/ x.kind = "sell" /\ x.qty > 0 /\ held >= x.qty /\ now = held - x.qty
           \/ x.kind = "split" /\ x.price > 0 /\ now = held * x.price
           \/ x.kind \notin {"buy", "sell", "split"} /\ now = held
    PROVE  Sound(Append(s, x), t, d, now)
<1> DEFINE u == Append(s, x)
           pos == Replay(s, t, d)
           p == Replay(u, t, d)
           paid == Paid(s, t, d)
           split == HasSplit(s, t, d)
<1>1. pos \in Pos /\ p = ApplyTx(pos, x)
  BY ReplayAppend DEF Applies
<1>2. /\ paid \in SUBSET Nat
      /\ x.kind = "buy" => Paid(u, t, d) = paid \cup {x.price}
      /\ x.kind # "buy" => Paid(u, t, d) = paid
      /\ HasSplit(u, t, d) <=> split \/ x.kind = "split"
  <2> HIDE DEF paid, split
  <2>1. paid \in SUBSET Nat
    BY PaidNat DEF paid
  <2> QED
    BY <2>1, PaidRow DEF paid, split
<1>3. pos.qty = held /\ pos.per > 0 /\ Mean(pos, paid, split) /\ held >= 0
  BY DEF Sound, Right
<1>4. split \in BOOLEAN
  BY DEF HasSplit
<1> HIDE DEF pos, p, paid, split
<1>5. SUFFICES p.qty = now /\ p.per > 0 /\ Mean(p, Paid(u, t, d), HasSplit(u, t, d))
  BY <1>5 DEF Sound, Right, p
<1>6. CASE x.kind = "buy"
  <2>1. x.qty > 0 /\ pos.qty >= 0
    BY <1>3, <1>6
  <2>2. p.qty = pos.qty + x.qty /\ p.per > 0 /\ Mean(p, paid \cup {x.price}, split)
    BY <1>1, <1>2, <1>3, <1>4, <1>6, <2>1, MeanBuy
  <2> QED
    BY <1>2, <1>3, <1>6, <2>2 DEF Mean
<1>7. CASE x.kind = "sell"
  <2>1. p.qty = pos.qty - x.qty /\ p.per > 0 /\ Mean(p, paid, split)
    BY <1>1, <1>2, <1>3, <1>4, <1>7, MeanSell
  <2> QED
    BY <1>2, <1>3, <1>7, <2>1 DEF Mean
<1>8. CASE x.kind = "split"
  <2>1. p.qty = pos.qty * x.price /\ p.per > 0 /\ Mean(p, paid, TRUE)
    BY <1>1, <1>2, <1>3, <1>8, MeanSplit
  <2> QED
    BY <1>2, <1>3, <1>8, <2>1 DEF Mean
<1>9. CASE x.kind \notin {"buy", "sell", "split"}
  <2>1. p.qty = pos.qty /\ p.per = pos.per /\ Mean(p, paid, split)
    BY <1>1, <1>3, <1>9, MeanOther
  <2> QED
    BY <1>2, <1>3, <1>9, <2>1 DEF Mean
<1> QED
  BY <1>6, <1>7, <1>8, <1>9

\* Rows of no later day.
LEMMA SoundLater ==
    ASSUME NEW s \in Seq(TxRows), NEW t, NEW d \in Int, NEW e \in Int, NEW held,
           \A i \in DOMAIN s : s[i].date <= d <=> s[i].date <= e, Sound(s, t, d, held)
    PROVE  Sound(s, t, e, held)
<1>1. Replay(s, t, d) = Replay(s, t, e) /\ Replayed(s, t, d) = Replayed(s, t, e)
  BY ReplayLater
<1> QED
  BY <1>1 DEF Sound, Right, Paid, HasSplit

-----------------------------------------------------------------------------
(* The inductive invariant. *)

\* What the tables say was held of t at the close of a day.
HeldAt(day, t) == IF t \in DOMAIN day.pos THEN day.pos[t].qty ELSE 0

\* LedgerRight is Right of the transactions.
LEMMA LedgerForm ==
    ASSUME NEW t \in Tickers, NEW d, NEW held
    PROVE  /\ LedgerRight(t, d, held) <=> Right(txs, t, d, held)
           /\ LedgerAsOf(d)[t] = Replay(txs, t, d)
<1>1. LedgerAsOf(d)[t] = Replay(txs, t, d)
  BY DEF LedgerAsOf
<1>2. LedgerRight(t, d, held) <=>
        /\ Replay(txs, t, d).qty = held
        /\ Replay(txs, t, d).qty = 0 => Replay(txs, t, d).cost = 0
        /\ Replay(txs, t, d).qty > 0 =>
             /\ \E p \in Paid(txs, t, d) : AtMost(Replay(txs, t, d), p)
             /\ ~HasSplit(txs, t, d) => \E p \in Paid(txs, t, d) : AtLeast(Replay(txs, t, d), p)
  BY <1>1 DEF LedgerRight, Paid, HasSplit, AtMost, AtLeast
<1> QED
  BY <1>1, <1>2 DEF Right, Mean

LEMMA LedgerFormNext ==
    ASSUME NEW t \in Tickers, NEW d, NEW held
    PROVE  /\ LedgerRight(t, d, held)' <=> Right(txs', t, d, held)
           /\ LedgerAsOf(d)'[t] = Replay(txs', t, d)
<1>1. LedgerAsOf(d)'[t] = Replay(txs', t, d)
  BY DEF LedgerAsOf
<1>2. LedgerRight(t, d, held)' <=>
        /\ Replay(txs', t, d).qty = held
        /\ Replay(txs', t, d).qty = 0 => Replay(txs', t, d).cost = 0
        /\ Replay(txs', t, d).qty > 0 =>
             /\ \E p \in Paid(txs', t, d) : AtMost(Replay(txs', t, d), p)
             /\ ~HasSplit(txs', t, d) => \E p \in Paid(txs', t, d) : AtLeast(Replay(txs', t, d), p)
  BY <1>1 DEF LedgerRight, Paid, HasSplit, AtMost, AtLeast
<1> QED
  BY <1>1, <1>2 DEF Right, Mean

\* The two invariants of the ledger, in terms of the tables.
LEMMA LedgerInvForm ==
    /\ LedgerInv <=> \A t \in Tickers : Sound(txs, t, Today, qty[t])
    /\ LedgerReplayed <=> \A d \in DOMAIN days, t \in Tickers : Right(txs, t, d, HeldAt(days[d], t))
  BY LedgerForm DEF LedgerInv, LedgerReplayed, Sound, HeldAt

LEMMA LedgerInvFormNext ==
    /\ LedgerInv' <=> \A t \in Tickers : Sound(txs', t, Today', qty'[t])
    /\ LedgerReplayed' <=>
         \A d \in DOMAIN days', t \in Tickers : Right(txs', t, d, HeldAt(days'[d], t))
  BY LedgerFormNext DEF LedgerInv, LedgerReplayed, Sound, HeldAt

\* A row that is true of the quantities: what it says of its ticker happened.
RowFor(x, held, now) ==
    \/ x.kind = "buy" /\ x.qty > 0 /\ now = held + x.qty
    \/ x.kind = "sell" /\ x.qty > 0 /\ held >= x.qty /\ now = held - x.qty
    \/ x.kind = "split" /\ x.price > 0 /\ now = held * x.price
    \/ x.kind \notin {"buy", "sell", "split"} /\ now = held

\* Writing such a row keeps the invariant.
LEMMA WriteKeeps ==
    ASSUME IInv, NEW x \in TxRows, x.date = Today, Write(x), days' = days,
           x.ticker = Cash <=> x.kind \in {"deposit", "withdrawal", "interest"},
           cash' \in Nat, qty' \in [Tickers -> Nat],
           \A t \in Tickers : IF x.ticker = t THEN RowFor(x, qty[t], qty'[t])
                              ELSE qty'[t] = qty[t]
    PROVE  IInv'
<1>1. /\ txs \in Seq(TxRows) /\ Len(txs) < MaxTx /\ txs' = Append(txs, x)
      /\ days \in Seq(Range(days)) /\ qty \in [Tickers -> Nat]
  BY DEF IInv, TypeOK, Write
<1>2. Today' = Today /\ Today \in Nat /\ \A d \in DOMAIN days : d < Today
  BY <1>1 DEF Today
<1>3. TypeOK'
  <2>1. txs' \in Seq(TxRows) /\ Len(txs') <= MaxTx
    BY <1>1, SnapshotAssumption
  <2> QED
    BY <2>1 DEF IInv, TypeOK
<1>4. TxInv'
  <2> SUFFICES ASSUME NEW i \in DOMAIN txs'
               PROVE  /\ txs'[i].date <= Today'
                      /\ txs'[i].ticker = Cash <=> txs'[i].kind \in {"deposit", "withdrawal", "interest"}
    BY DEF TxInv
  <2>1. CASE i \in DOMAIN txs
    <3>1. txs'[i] = txs[i]
      BY <1>1, <2>1
    <3> QED
      BY <1>2, <2>1, <3>1 DEF IInv, TxInv
  <2>2. CASE i \notin DOMAIN txs
    <3>1. txs'[i] = x
      BY <1>1, <2>2
    <3> QED
      BY <1>2, <3>1
  <2> QED
    BY <2>1, <2>2
<1>5. DayInv'
  BY DEF IInv, DayInv
<1>6. ASSUME NEW t \in Tickers PROVE Sound(txs', t, Today, qty'[t])
  <2>1. Sound(txs, t, Today, qty[t]) /\ qty[t] \in Nat
    BY <1>1, LedgerInvForm DEF IInv
  <2>2. CASE x.ticker # t
    BY <1>1, <2>1, <2>2, RightSkip DEF Applies
  <2>3. CASE x.ticker = t
    <3>1. Applies(x, t, Today)
      BY <1>2, <2>3 DEF Applies
    <3>2. RowFor(x, qty[t], qty'[t])
      BY <2>3
    <3> QED
      BY <1>1, <2>1, <3>1, <3>2, SoundRow DEF RowFor
  <2> QED
    BY <2>2, <2>3
<1>7. ASSUME NEW d \in DOMAIN days, NEW t \in Tickers
      PROVE  Right(txs', t, d, HeldAt(days[d], t))
  <2>1. Right(txs, t, d, HeldAt(days[d], t))
    BY LedgerInvForm DEF IInv
  <2>2. d \in Nat /\ ~(x.date <= d)
    BY <1>1, <1>2
  <2> QED
    BY <1>1, <2>1, <2>2, RightSkip DEF Applies
<1>8. LedgerInv'
  BY <1>2, <1>6, LedgerInvFormNext
<1>9. LedgerReplayed'
  BY <1>7, LedgerInvFormNext
<1> QED
  BY <1>3, <1>4, <1>5, <1>8, <1>9 DEF IInv

LEMMA Positive ==
    ASSUME NEW v, v \in Prices \/ v \in Deposits \/ v \in Lots \/ v \in Ratios \/ v \in Payments
    PROVE  v \in Nat /\ v > 0
<1>1. UNION {Prices, Deposits, Lots, Ratios, Payments} \subseteq Nat \ {0}
  BY SnapshotAssumption
<1>2. v \in UNION {Prices, Deposits, Lots, Ratios, Payments}
  OBVIOUS
<1>3. v \in Nat \ {0}
  BY <1>1, <1>2, Zenon
<1> QED
  BY <1>3

LEMMA BatchNat ==
    ASSUME IInv
    PROVE  NextBatch \in Nat
<1>1. DOMAIN txs = 1..Len(txs) /\ Len(txs) \in Nat
  BY DEF IInv, TypeOK
<1>2. IsFiniteSet(DOMAIN txs)
  BY <1>1, FS_Interval
<1> DEFINE B == {i \in DOMAIN txs : txs[i].batch # 0}
<1>3. Cardinality(B) \in Nat
  <2>1. B \in SUBSET DOMAIN txs
    OBVIOUS
  <2> HIDE DEF B
  <2> QED
    BY <1>2, <2>1, FS_Subset, FS_CardinalityType
<1> QED
  BY <1>3 DEF NextBatch

LEMMA TodayType ==
    ASSUME IInv
    PROVE  Today \in 1..(MaxDays + 1)
  BY SnapshotAssumption DEF IInv, TypeOK, Today

LEMMA DepositKeeps ==
    ASSUME IInv, NEW a \in Deposits, Deposit(a)
    PROVE  IInv'
<1> DEFINE x == Row("deposit", Cash, 0, 0, a, 0)
<1>1. a \in Nat
  BY Positive
<1>2. x \in TxRows /\ x.date = Today /\ x.kind = "deposit" /\ x.ticker = Cash
  BY <1>1, TodayType DEF Row, TxRows, Kinds
<1>3. Write(x) /\ days' = days /\ cash' = cash + a /\ qty' = qty
  BY DEF Deposit
<1> HIDE DEF x
<1>4. cash' \in Nat /\ qty' \in [Tickers -> Nat]
  BY <1>1, <1>3 DEF IInv, TypeOK
<1>5. \A t \in Tickers : IF x.ticker = t THEN RowFor(x, qty[t], qty'[t]) ELSE qty'[t] = qty[t]
  BY <1>2, <1>3 DEF RowFor
<1> QED
  BY <1>2, <1>3, <1>4, <1>5, WriteKeeps

LEMMA WithdrawKeeps ==
    ASSUME IInv, NEW a \in Deposits, Withdraw(a)
    PROVE  IInv'
<1> DEFINE x == Row("withdrawal", Cash, 0, 0, a, 0)
<1>1. a \in Nat
  BY Positive
<1>2. x \in TxRows /\ x.date = Today /\ x.kind = "withdrawal" /\ x.ticker = Cash
  BY <1>1, TodayType DEF Row, TxRows, Kinds
<1>3. Write(x) /\ days' = days /\ cash >= a /\ cash' = cash - a /\ qty' = qty
  BY DEF Withdraw
<1> HIDE DEF x
<1>4. cash' \in Nat /\ qty' \in [Tickers -> Nat]
  BY <1>1, <1>3 DEF IInv, TypeOK
<1>5. \A t \in Tickers : IF x.ticker = t THEN RowFor(x, qty[t], qty'[t]) ELSE qty'[t] = qty[t]
  BY <1>2, <1>3 DEF RowFor
<1> QED
  BY <1>2, <1>3, <1>4, <1>5, WriteKeeps

LEMMA InterestKeeps ==
    ASSUME IInv, NEW a \in Payments, Interest(a)
    PROVE  IInv'
<1> DEFINE x == Row("interest", Cash, 0, 0, a, 0)
<1>1. a \in Nat
  BY Positive
<1>2. x \in TxRows /\ x.date = Today /\ x.kind = "interest" /\ x.ticker = Cash
  BY <1>1, TodayType DEF Row, TxRows, Kinds
<1>3. Write(x) /\ days' = days /\ cash' = cash + a /\ qty' = qty
  BY DEF Interest
<1> HIDE DEF x
<1>4. cash' \in Nat /\ qty' \in [Tickers -> Nat]
  BY <1>1, <1>3 DEF IInv, TypeOK
<1>5. \A t \in Tickers : IF x.ticker = t THEN RowFor(x, qty[t], qty'[t]) ELSE qty'[t] = qty[t]
  BY <1>2, <1>3 DEF RowFor
<1> QED
  BY <1>2, <1>3, <1>4, <1>5, WriteKeeps

LEMMA DividendKeeps ==
    ASSUME IInv, NEW t \in Tickers, NEW a \in Payments, Dividend(t, a)
    PROVE  IInv'
<1> DEFINE x == Row("dividend", t, 0, 0, a, 0)
<1>1. a \in Nat /\ t # Cash
  BY Positive, SnapshotAssumption
<1>2. x \in TxRows /\ x.date = Today /\ x.kind = "dividend" /\ x.ticker = t
  BY <1>1, TodayType DEF Row, TxRows, Kinds
<1>3. Write(x) /\ days' = days /\ cash' = cash + a /\ qty' = qty
  BY DEF Dividend
<1> HIDE DEF x
<1>4. cash' \in Nat /\ qty' \in [Tickers -> Nat]
  BY <1>1, <1>3 DEF IInv, TypeOK
<1>5. \A k \in Tickers : IF x.ticker = k THEN RowFor(x, qty[k], qty'[k]) ELSE qty'[k] = qty[k]
  BY <1>2, <1>3 DEF RowFor
<1> QED
  BY <1>1, <1>2, <1>3, <1>4, <1>5, WriteKeeps

LEMMA FeeKeeps ==
    ASSUME IInv, NEW t \in Tickers, NEW a \in Payments, Fee(t, a)
    PROVE  IInv'
<1> DEFINE x == Row("fee", t, 0, 0, a, 0)
<1>1. a \in Nat /\ t # Cash
  BY Positive, SnapshotAssumption
<1>2. x \in TxRows /\ x.date = Today /\ x.kind = "fee" /\ x.ticker = t
  BY <1>1, TodayType DEF Row, TxRows, Kinds
<1>3. Write(x) /\ days' = days /\ cash' = cash - a /\ qty' = qty /\ cash >= a
  BY DEF Fee
<1> HIDE DEF x
<1>4. cash' \in Nat /\ qty' \in [Tickers -> Nat]
  BY <1>1, <1>3 DEF IInv, TypeOK
<1>5. \A k \in Tickers : IF x.ticker = k THEN RowFor(x, qty[k], qty'[k]) ELSE qty'[k] = qty[k]
  BY <1>2, <1>3 DEF RowFor
<1> QED
  BY <1>1, <1>2, <1>3, <1>4, <1>5, WriteKeeps

LEMMA BuyKeeps ==
    ASSUME IInv, NEW t \in Tickers, NEW q \in Lots, NEW p \in Prices, Buy(t, q, p)
    PROVE  IInv'
<1> DEFINE c == q * p
           x == Row("buy", t, q, p, c, NextBatch)
<1>1. q \in Nat /\ q > 0 /\ p \in Nat /\ c \in Nat /\ t # Cash
  BY Positive, SnapshotAssumption
<1>2. cash >= c /\ Write(x) /\ days' = days /\ cash' = cash - c /\ qty' = [qty EXCEPT ![t] = @ + q]
  BY DEF Buy
<1> HIDE DEF c
<1>3. x \in TxRows /\ x.date = Today /\ x.kind = "buy" /\ x.ticker = t /\ x.qty = q
  BY <1>1, TodayType, BatchNat DEF Row, TxRows, Kinds
<1> HIDE DEF x
<1>4. cash' \in Nat /\ qty' \in [Tickers -> Nat]
  BY <1>1, <1>2 DEF IInv, TypeOK
<1>5. \A k \in Tickers : IF x.ticker = k THEN RowFor(x, qty[k], qty'[k]) ELSE qty'[k] = qty[k]
  BY <1>1, <1>2, <1>3 DEF RowFor, IInv, TypeOK
<1> QED
  BY <1>1, <1>2, <1>3, <1>4, <1>5, WriteKeeps

LEMMA SellKeeps ==
    ASSUME IInv, NEW t \in Tickers, NEW q \in Lots, NEW p \in Prices,
           NEW b \in {0, NextBatch}, Sell(t, q, p, b)
    PROVE  IInv'
<1> DEFINE c == q * p
           x == Row("sell", t, q, p, c, b)
<1>1. q \in Nat /\ q > 0 /\ p \in Nat /\ c \in Nat /\ b \in Nat /\ t # Cash
  BY Positive, BatchNat, SnapshotAssumption
<1>2. qty[t] >= q /\ Write(x) /\ days' = days /\ cash' = cash + c /\ qty' = [qty EXCEPT ![t] = @ - q]
  BY DEF Sell
<1> HIDE DEF c
<1>3. x \in TxRows /\ x.date = Today /\ x.kind = "sell" /\ x.ticker = t /\ x.qty = q
  BY <1>1, TodayType DEF Row, TxRows, Kinds
<1> HIDE DEF x
<1>4. cash' \in Nat /\ qty' \in [Tickers -> Nat]
  BY <1>1, <1>2 DEF IInv, TypeOK
<1>5. \A k \in Tickers : IF x.ticker = k THEN RowFor(x, qty[k], qty'[k]) ELSE qty'[k] = qty[k]
  BY <1>1, <1>2, <1>3 DEF RowFor, IInv, TypeOK
<1> QED
  BY <1>1, <1>2, <1>3, <1>4, <1>5, WriteKeeps

LEMMA SplitKeeps ==
    ASSUME IInv, NEW t \in Tickers, NEW n \in Ratios, Split(t, n)
    PROVE  IInv'
<1> DEFINE x == Row("split", t, 0, n, 0, NextBatch)
           now == qty[t] * n
<1>1. n \in Nat /\ n > 0 /\ t # Cash
  BY Positive, SnapshotAssumption
<1>2. Write(x) /\ days' = days /\ cash' = cash /\ qty' = [qty EXCEPT ![t] = now]
  BY DEF Split
<1>3. x \in TxRows /\ x.date = Today /\ x.kind = "split" /\ x.ticker = t /\ x.price = n
  BY <1>1, TodayType, BatchNat DEF Row, TxRows, Kinds
<1>4. qty[t] \in Nat /\ now \in Nat
  BY <1>1 DEF IInv, TypeOK
<1>5. RowFor(x, qty[t], now)
  BY <1>1, <1>3 DEF RowFor
<1> HIDE DEF x, now
<1>6. cash' \in Nat /\ qty' \in [Tickers -> Nat]
  BY <1>2, <1>4 DEF IInv, TypeOK
<1>7. \A k \in Tickers : IF x.ticker = k THEN RowFor(x, qty[k], qty'[k]) ELSE qty'[k] = qty[k]
  BY <1>2, <1>3, <1>5 DEF IInv, TypeOK
<1> QED
  BY <1>1, <1>2, <1>3, <1>6, <1>7, WriteKeeps

LEMMA CloseDayKeeps ==
    ASSUME IInv, NEW price \in [Held -> Prices], CloseDay(price)
    PROVE  IInv'
<1> DEFINE K == Held \cup {Cash}
           pos == [k \in K |-> IF k = Cash THEN [mv |-> cash, qty |-> cash]
                                ELSE [mv |-> qty[k] * price[k], qty |-> qty[k]]]
           day == CloseOf(pos)
           items == [k \in DOMAIN pos |-> pos[k].mv]
<1>1. /\ cash \in Nat /\ qty \in [Tickers -> Nat] /\ txs \in Seq(TxRows)
      /\ days \in Seq(Range(days)) /\ Len(days) < MaxDays
  BY DEF IInv, TypeOK, CloseDay
<1>2. days' = Append(days, day) /\ cash' = cash /\ qty' = qty /\ txs' = txs
  BY DEF CloseDay
<1>3. Held \subseteq Tickers /\ Cash \notin Held /\ \A k \in Held : qty[k] > 0
  BY SnapshotAssumption DEF Held
<1>4. \A k \in Held : qty[k] * price[k] \in Nat
  <2> SUFFICES ASSUME NEW k \in Held PROVE qty[k] * price[k] \in Nat
    OBVIOUS
  <2>1. qty[k] \in Nat /\ price[k] \in Nat
    BY <1>1, <1>3, Positive
  <2> QED
    BY <2>1
<1>5. /\ DOMAIN pos = K /\ pos \in [K -> [mv : Nat, qty : Nat]]
      /\ \A k \in Held : pos[k].qty = qty[k]
  BY <1>1, <1>3, <1>4
<1>6. day = [v |-> SumFunction(items), pos |-> pos]
  BY DEF CloseOf
<1>7. items \in [K -> Int] /\ IsFiniteSet(K)
  <2>1. items \in [K -> Int]
    BY <1>5
  <2>2. IsFiniteSet(Held)
    BY <1>3, SnapshotAssumption, FS_Subset
  <2> QED
    BY <2>1, <2>2, FS_AddElement
<1> HIDE DEF pos, day
<1>8. day.v \in Int /\ day.pos = pos /\ day.v = SumFunction([k \in DOMAIN day.pos |-> day.pos[k].mv])
  <2>1. SumFunction(items) \in Int
    BY <1>7, SumInt
  <2> QED
    BY <1>6, <2>1
<1> HIDE DEF items
<1>9. /\ Len(days) \in Nat /\ Len(days') = Len(days) + 1 /\ DOMAIN days' = (DOMAIN days) \cup {Today}
      /\ days'[Today] = day /\ \A d \in DOMAIN days : days'[d] = days[d] /\ d # Today
  BY <1>1, <1>2 DEF Today
<1>10. Today \in Nat /\ Today' = Today + 1
  BY <1>9 DEF Today
<1>11. TypeOK'
  <2>1. days' \in Seq(Range(days')) /\ Len(days') <= MaxDays
    BY <1>1, <1>2, <1>9, SnapshotAssumption DEF Range
  <2>2. ASSUME NEW d \in DOMAIN days'
        PROVE  /\ days'[d].v \in Int /\ DOMAIN days'[d].pos \subseteq Tickers \cup {Cash}
               /\ days'[d].pos \in [DOMAIN days'[d].pos -> [mv : Nat, qty : Nat]]
    <3>1. CASE d \in DOMAIN days
      BY <1>9, <3>1 DEF IInv, TypeOK
    <3>2. CASE d = Today
      BY <1>3, <1>5, <1>8, <1>9, <3>2
    <3> QED
      BY <1>9, <3>1, <3>2
  <2> QED
    BY <1>2, <2>1, <2>2 DEF IInv, TypeOK
<1>12. TxInv'
  <2>1. \A i \in DOMAIN txs : txs[i].date \in Int
    <3>1. \A i \in DOMAIN txs : txs[i] \in TxRows
      BY <1>1
    <3> QED
      BY <3>1, SnapshotAssumption DEF TxRows
  <2> QED
    BY <1>2, <1>10, <2>1 DEF IInv, TxInv
<1>13. DayInv'
  <2> SUFFICES ASSUME NEW d \in DOMAIN days'
               PROVE  /\ Cash \in DOMAIN days'[d].pos
                      /\ \A t \in DOMAIN days'[d].pos \ {Cash} : days'[d].pos[t].qty > 0
                      /\ days'[d].v = SumFunction([k \in DOMAIN days'[d].pos |-> days'[d].pos[k].mv])
    BY DEF DayInv
  <2>1. CASE d \in DOMAIN days
    BY <1>9, <2>1 DEF IInv, DayInv
  <2>2. CASE d = Today
    BY <1>3, <1>5, <1>8, <1>9, <2>2
  <2> QED
    BY <1>9, <2>1, <2>2
<1>14. ASSUME NEW t \in Tickers PROVE Sound(txs, t, Today, qty[t])
  BY LedgerInvForm DEF IInv
<1>15. ASSUME NEW t \in Tickers PROVE Sound(txs', t, Today', qty'[t])
  <2>1. ASSUME NEW i \in DOMAIN txs PROVE txs[i].date <= Today <=> txs[i].date <= Today + 1
    <3>1. txs[i].date <= Today /\ txs[i] \in TxRows
      BY <1>1 DEF IInv, TxInv
    <3>2. txs[i].date \in Int
      BY <3>1, SnapshotAssumption DEF TxRows
    <3> QED
      BY <1>10, <3>1, <3>2
  <2>2. Today \in Int /\ Today + 1 \in Int
    BY <1>10
  <2> QED
    BY <1>1, <1>2, <1>10, <1>14, <2>1, <2>2, SoundLater
<1>16. ASSUME NEW d \in DOMAIN days', NEW t \in Tickers
       PROVE  Right(txs', t, d, HeldAt(days'[d], t))
  <2>1. CASE d \in DOMAIN days
    BY <1>2, <1>9, <2>1, LedgerInvForm DEF IInv
  <2>2. CASE d = Today
    <3>1. HeldAt(day, t) = qty[t]
      <4>1. t # Cash /\ qty[t] \in Nat
        BY <1>1, SnapshotAssumption
      <4>2. CASE t \in Held
        BY <1>5, <1>8, <4>2 DEF HeldAt
      <4>3. CASE t \notin Held
        BY <1>5, <1>8, <4>1, <4>3 DEF HeldAt, Held
      <4> QED
        BY <4>2, <4>3
    <3> QED
      BY <1>2, <1>9, <1>14, <2>2, <3>1 DEF Sound
  <2> QED
    BY <1>9, <2>1, <2>2
<1>17. LedgerInv' /\ LedgerReplayed'
  BY <1>15, <1>16, LedgerInvFormNext
<1> QED
  BY <1>11, <1>12, <1>13, <1>17 DEF IInv

LEMMA InitKeeps ==
    Init => IInv
<1> SUFFICES ASSUME Init PROVE IInv
  OBVIOUS
<1>1. /\ cash = 0 /\ qty = [t \in Tickers |-> 0] /\ txs = <<>> /\ days = <<>>
      /\ txs \in Seq(TxRows) /\ days \in Seq(Range(days)) /\ DOMAIN txs = {} /\ DOMAIN days = {}
  BY DEF Init
<1>2. TypeOK /\ TxInv /\ DayInv
  BY <1>1, SnapshotAssumption DEF TypeOK, TxInv, DayInv
<1>3. ASSUME NEW t \in Tickers PROVE Sound(txs, t, Today, qty[t])
  <2>1. Replay(txs, t, Today) = NoPos
    <3>1. txs \in Seq(TxRows) /\ Len(txs) = 0
      BY <1>1
    <3> QED
      BY <3>1, ReplayEmpty
  <2>2. qty[t] = 0
    BY <1>1
  <2> QED
    BY <2>1, <2>2 DEF Sound, Right, Mean, NoPos
<1>4. LedgerInv /\ LedgerReplayed
  BY <1>1, <1>3, LedgerInvForm
<1> QED
  BY <1>2, <1>4 DEF IInv

LEMMA NextKeeps ==
    IInv /\ [Next]_vars => IInv'
<1> SUFFICES ASSUME IInv, [Next]_vars PROVE IInv'
  OBVIOUS
<1>1. ASSUME NEW t \in Tickers, Trade(t) PROVE IInv'
  <2>1. ASSUME NEW q \in Lots, NEW p \in Prices, Buy(t, q, p) PROVE IInv'
    BY <2>1, BuyKeeps
  <2>2. ASSUME NEW q \in Lots, NEW p \in Prices, NEW b \in {0, NextBatch}, Sell(t, q, p, b)
        PROVE  IInv'
    BY <2>2, SellKeeps
  <2>3. ASSUME NEW n \in Ratios, Split(t, n) PROVE IInv'
    BY <2>3, SplitKeeps
  <2>4. ASSUME NEW a \in Payments, Dividend(t, a) PROVE IInv'
    BY <2>4, DividendKeeps
  <2>5. ASSUME NEW a \in Payments, Fee(t, a) PROVE IInv'
    BY <2>5, FeeKeeps
  <2> QED
    BY <1>1, <2>1, <2>2, <2>3, <2>4, <2>5 DEF Trade
<1>2. ASSUME NEW a \in Payments, Interest(a) PROVE IInv'
  BY <1>2, InterestKeeps
<1>3. ASSUME NEW a \in Deposits, Deposit(a) PROVE IInv'
  BY <1>3, DepositKeeps
<1>4. ASSUME NEW a \in Deposits, Withdraw(a) PROVE IInv'
  BY <1>4, WithdrawKeeps
<1>5. ASSUME NEW price \in [Held -> Prices], CloseDay(price) PROVE IInv'
  BY <1>5, CloseDayKeeps
<1>6. CASE UNCHANGED vars
  <2>1. cash' = cash /\ qty' = qty /\ txs' = txs /\ days' = days
    BY <1>6 DEF vars
  <2>2. TypeOK' /\ TxInv' /\ DayInv' /\ Today' = Today
    BY <2>1 DEF IInv, TypeOK, TxInv, DayInv, Today
  <2>3. LedgerInv' /\ LedgerReplayed'
    BY <2>1, <2>2, LedgerInvForm, LedgerInvFormNext DEF IInv
  <2> QED
    BY <2>2, <2>3 DEF IInv
<1> QED
  BY <1>1, <1>2, <1>3, <1>4, <1>5, <1>6 DEF Next

\* Whatever a backtest writes, the tables have their types, no row is from the
\* future, and the replay is right for every closed day and for today.
THEOREM Invariance == Spec => []IInv
<1>1. Init => IInv
  BY InitKeeps
<1>2. IInv /\ [Next]_vars => IInv'
  BY NextKeeps
<1> QED
  BY <1>1, <1>2, PTL DEF Spec

\* The holdings of a past date, replayed from the transactions (ledgerAsOf), are
\* those the backtest had at the close of that day, and their average cost is a
\* mean of prices paid.
THEOREM LedgerReplayedHolds == Spec => []LedgerReplayed
<1>1. IInv => LedgerReplayed
  BY DEF IInv
<1> QED
  BY <1>1, Invariance, PTL

-----------------------------------------------------------------------------
(* The holdings history. *)

LEMMA HistoryFromInv ==
    IInv => HistoryAddsUp
<1> SUFFICES ASSUME IInv, NEW x \in Batches
             PROVE  SumFunction(HoldingsHistoryBatch(x.date)) = PortfolioValueOn(x.date)
  BY DEF HistoryAddsUp
<1> DEFINE d == x.date
           day == days[d]
           K == DOMAIN day.pos
           led == LedgerAsOf(d)
           items == {t \in Tickers : led[t].qty > 0}
<1>1. PICK i \in DOMAIN txs : x = txs[i]
  BY DEF Batches
<1>2. d \in Nat /\ d >= 1 /\ d < Len(days) + 1 /\ Len(days) \in Nat /\ days \in Seq(Range(days))
  <2>1. txs[i] \in TxRows /\ days \in Seq(Range(days)) /\ d < Today
    BY <1>1 DEF IInv, TypeOK, Batches
  <2> QED
    BY <1>1, <2>1, SnapshotAssumption DEF TxRows, Today
<1>3. d \in DOMAIN days
  BY <1>2
<1>4. /\ K \subseteq Tickers \cup {Cash} /\ Cash \in K
      /\ \A t \in K \ {Cash} : day.pos[t].qty > 0
      /\ day.v = SumFunction([k \in K |-> day.pos[k].mv])
  BY <1>3 DEF IInv, TypeOK, DayInv
<1>5. ASSUME NEW t \in Tickers PROVE led[t].qty = HeldAt(day, t)
  <2>1. Right(txs, t, d, HeldAt(day, t))
    BY <1>3, LedgerInvForm DEF IInv
  <2>2. led[t] = Replay(txs, t, d)
    BY DEF LedgerAsOf
  <2> QED
    BY <2>1, <2>2 DEF Right
<1> HIDE DEF led
<1>6. items = K \ {Cash}
  <2>1. Cash \notin Tickers
    BY SnapshotAssumption
  <2>2. \A t \in Tickers : t \in K <=> led[t].qty > 0
    BY <1>4, <1>5, <2>1 DEF HeldAt
  <2> QED
    BY <1>4, <2>1, <2>2
<1> HIDE DEF items
<1>7. items \cup ({Cash} \cap K) = K
  BY <1>4, <1>6
<1>8. HoldingsHistoryBatch(d) =
        [k \in items \cup ({Cash} \cap K) |->
            IF k = Cash THEN day.pos[Cash].mv ELSE HistoryValue(led, day.pos, k)]
  BY DEF HoldingsHistoryBatch, PositionsDailyOn, items, led
<1>9. \A k \in K : (IF k = Cash THEN day.pos[Cash].mv ELSE HistoryValue(led, day.pos, k)) = day.pos[k].mv
  BY DEF HistoryValue
<1>10. HoldingsHistoryBatch(d) = [k \in K |-> day.pos[k].mv]
  BY <1>7, <1>8, <1>9
<1> QED
  BY <1>4, <1>10 DEF PortfolioValueOn

\* Every entry of the holdings history sums to the portfolio value of its day.
THEOREM HistoryAddsUpHolds == Spec => []HistoryAddsUp
  BY HistoryFromInv, Invariance, PTL

-----------------------------------------------------------------------------
(* Contributions. *)

\* What transaction i moves into the bucket k.
FlowStep(w, k, i) == IF InWindow(txs[i], w) THEN TxFlow(txs[i], k) ELSE 0

\* f is the flow after each transaction.
FlowBy(f, w, k) ==
    /\ f \in [0..Len(txs) -> Int] /\ f[0] = 0
    /\ \A i \in 1..Len(txs) : f[i] = f[i - 1] + FlowStep(w, k, i)
    /\ Flow(w, k) = f[Len(txs)]

\* The flow is the run of its loop.
LEMMA FlowRun ==
    ASSUME IInv, NEW w \in Int, NEW k
    PROVE  \E f : FlowBy(f, w, k)
<1> DEFINE n == Len(txs)
           step == [y \in Int \X (1..n) |-> AddFlow(y[1], y[2], w, k)]
           P(g) == g = [i \in 0..n |-> IF i = 0 THEN 0 ELSE AddFlow(g[i - 1], i, w, k)]
           g == CHOOSE h : P(h)
<1>1. n \in Nat /\ \A i \in 1..n : txs[i] \in TxRows
  BY DEF IInv, TypeOK
<1>2. \A i \in 1..n : TxFlow(txs[i], k) \in Int
  <2> SUFFICES ASSUME NEW i \in 1..n PROVE TxFlow(txs[i], k) \in Int
    OBVIOUS
  <2>1. txs[i].amount \in Int
    BY <1>1 DEF TxRows
  <2> QED
    BY <2>1 DEF TxFlow
<1>3. \A v \in Int, i \in 1..n : AddFlow(v, i, w, k) \in Int
  BY <1>2 DEF AddFlow
<1>4. step \in Steps(Int, n)
  BY <1>3 DEF Steps
<1>5. \A v \in Int, i \in 1..n : step[<<v, i>>] = AddFlow(v, i, w, k)
  OBVIOUS
<1> HIDE DEF n, step
<1>6. PICK f \in [0..n -> Int] : IsRun(f, 0, step, n)
  <2>1. 0 \in Int
    OBVIOUS
  <2> QED
    BY <1>1, <1>4, <2>1, RunExists, Zenon
<1>7. f[0] = 0 /\ \A i \in 1..n : f[i] = AddFlow(f[i - 1], i, w, k)
  <2>1. \A i \in 1..n : f[i - 1] \in Int
    BY <1>1, <1>6
  <2> QED
    BY <1>5, <1>6, <2>1 DEF IsRun
<1>8. P(f)
  BY <1>1, <1>7
<1>9. P(g)
  BY <1>8
<1>10. Flow(w, k) = g[n]
  BY DEF Flow, Loop, n
<1> HIDE DEF g
<1>11. g[0] = 0 /\ \A i \in 1..n : g[i] = AddFlow(g[i - 1], i, w, k)
  BY <1>1, <1>9
<1>12. Alike(f, g, n)
  BY <1>7, <1>11 DEF Alike
<1>13. \A i \in 0..n : f[i] = g[i]
  BY <1>1, <1>12, SameRun
<1>14. Flow(w, k) = f[n]
  BY <1>1, <1>10, <1>13
<1>15. \A i \in 1..n : f[i] = f[i - 1] + FlowStep(w, k, i)
  <2> SUFFICES ASSUME NEW i \in 1..n PROVE f[i] = f[i - 1] + FlowStep(w, k, i)
    OBVIOUS
  <2>1. f[i - 1] \in Int /\ f[i] = AddFlow(f[i - 1], i, w, k)
    BY <1>1, <1>7
  <2> QED
    BY <2>1 DEF AddFlow, FlowStep
<1> QED
  BY <1>7, <1>14, <1>15 DEF FlowBy, n

\* No money from outside in the window, and no flow of an unknown ticker: the
\* premise of ImpactComplete.
Closed(w) ==
    \A i \in DOMAIN txs : InWindow(txs[i], w) =>
        /\ txs[i].kind \notin {"deposit", "withdrawal"}
        /\ txs[i].kind \notin {"interest", "split"} => txs[i].ticker \in Keys(w)

\* The positions of a window.
LEMMA WindowKeys ==
    ASSUME IInv, NEW w \in 1..(Len(days) - 1)
    PROVE  /\ IsFiniteSet(Keys(w)) /\ Cash \in Keys(w)
           /\ Len(days) \in Nat /\ w \in Int /\ w \in DOMAIN days /\ Len(days) \in DOMAIN days
           /\ DOMAIN days[w].pos \subseteq Keys(w)
           /\ DOMAIN days[Len(days)].pos \subseteq Keys(w)
<1>1. Len(days) \in Nat /\ DOMAIN days = 1..Len(days)
  BY DEF IInv, TypeOK
<1>2. /\ w..Len(days) \subseteq DOMAIN days /\ w \in w..Len(days) /\ Len(days) \in w..Len(days)
      /\ w \in Int
  BY <1>1
<1>3. DOMAIN days[w].pos \subseteq Keys(w) /\ DOMAIN days[Len(days)].pos \subseteq Keys(w)
  BY <1>2 DEF Keys
<1>4. Cash \in DOMAIN days[w].pos
  BY <1>2 DEF IInv, DayInv
<1>5. Keys(w) \subseteq Tickers \cup {Cash}
  BY <1>2 DEF Keys, IInv, TypeOK
<1>6. IsFiniteSet(Tickers \cup {Cash})
  BY SnapshotAssumption, FS_AddElement
<1>7. IsFiniteSet(Keys(w))
  BY <1>5, <1>6, FS_Subset
<1> QED
  BY <1>1, <1>2, <1>3, <1>4, <1>7

\* The market values of the window's tickers sum to the equity.
LEMMA SumOfMV ==
    ASSUME IInv, NEW K, IsFiniteSet(K), NEW d \in DOMAIN days, DOMAIN days[d].pos \subseteq K
    PROVE  /\ [k \in K |-> MV(d, k)] \in [K -> Int]
           /\ SumFunction([k \in K |-> MV(d, k)]) = days[d].v
<1> DEFINE T == DOMAIN days[d].pos
           a == [k \in K |-> MV(d, k)]
           b == [k \in T |-> days[d].pos[k].mv]
<1>1. days[d].pos \in [T -> [mv : Nat, qty : Nat]]
  BY DEF IInv, TypeOK
<1>2. b \in [T -> Int] /\ T \in SUBSET K
  BY <1>1
<1>3. a \in [K -> Int]
  BY <1>1 DEF MV
<1>4. Padded(a, b, K, T)
  BY DEF Padded, MV
<1>5. days[d].v = SumFunction(b)
  BY DEF IInv, DayInv
<1> HIDE DEF a, b, T
<1>6. SumFunction(a) = SumFunction(b)
  BY <1>2, <1>3, <1>4, SumZeros
<1> QED
  BY <1>3, <1>5, <1>6 DEF a

\* What one transaction moves cancels over the buckets.
LEMMA FlowCancels ==
    ASSUME IInv, NEW w \in 1..(Len(days) - 1), Closed(w), NEW i \in 1..Len(txs)
    PROVE  /\ [k \in Keys(w) |-> FlowStep(w, k, i)] \in [Keys(w) -> Int]
           /\ SumFunction([k \in Keys(w) |-> FlowStep(w, k, i)]) = 0
<1> DEFINE K == Keys(w)
           e == [k \in K |-> FlowStep(w, k, i)]
           x == txs[i]
<1>1. IsFiniteSet(K) /\ Cash \in K
  BY WindowKeys
<1>2. i \in DOMAIN txs /\ x \in TxRows
  BY DEF IInv, TypeOK
<1>3. x.amount \in Int /\ x.kind \in Kinds
  BY <1>2 DEF TxRows
<1>4. e \in [K -> Int]
  BY <1>3 DEF FlowStep, TxFlow
<1>5. CASE ~InWindow(x, w)
  <2>1. \A k \in K : e[k] = 0
    BY <1>5 DEF FlowStep
  <2> HIDE DEF e, K
  <2>2. SumFunction(e) = 0
    BY <1>1, <1>4, <2>1, SumNull
  <2> QED
    BY <1>4, <2>2 DEF e, K
<1>6. CASE InWindow(x, w)
  <2>1. x.kind \notin {"deposit", "withdrawal"} /\ (x.kind \notin {"interest", "split"} => x.ticker \in K)
    BY <1>2, <1>6 DEF Closed
  <2>2. x.ticker = Cash <=> x.kind \in {"deposit", "withdrawal", "interest"}
    BY <1>2 DEF IInv, TxInv
  <2>3. \A k \in K : e[k] = TxFlow(x, k)
    BY <1>6 DEF FlowStep
  <2> HIDE DEF e, K, x
  <2>4. CASE x.kind \in {"interest", "split"}
    <3>1. \A k \in K : e[k] = 0
      BY <2>3, <2>4 DEF TxFlow
    <3>2. SumFunction(e) = 0
      BY <1>1, <1>4, <3>1, SumNull
    <3> QED
      BY <1>4, <3>2 DEF e, K
  <2>5. CASE x.kind \in {"buy", "fee", "sell", "dividend"}
    <3>1. x.ticker \in K /\ x.ticker # Cash
      BY <2>1, <2>2, <2>5
    <3>2. \A k \in K \ {Cash, x.ticker} : e[k] = 0
      BY <2>3, <2>5 DEF TxFlow
    <3>3. TxFlow(x, Cash) + TxFlow(x, x.ticker) = 0
      BY <1>3, <2>5, <3>1 DEF TxFlow
    <3>4. e[Cash] + e[x.ticker] = 0
      BY <1>1, <2>3, <3>1, <3>3
    <3>5. SumFunction(e) = 0
      BY <1>1, <1>4, <3>1, <3>2, <3>4, SumPair
    <3> QED
      BY <1>4, <3>5 DEF e, K
  <2> QED
    BY <1>3, <2>1, <2>4, <2>5 DEF Kinds
<1> QED
  BY <1>5, <1>6

\* So do the flows of the window.
LEMMA FlowsCancel ==
    ASSUME IInv, NEW w \in 1..(Len(days) - 1), Closed(w)
    PROVE  /\ [k \in Keys(w) |-> Flow(w, k)] \in [Keys(w) -> Int]
           /\ SumFunction([k \in Keys(w) |-> Flow(w, k)]) = 0
<1> DEFINE K == Keys(w)
           n == Len(txs)
           R == [k \in K |-> CHOOSE f : FlowBy(f, w, k)]
           Part(i) == [k \in K |-> R[k][i]]
           e(i) == [k \in K |-> FlowStep(w, k, i)]
<1>1. IsFiniteSet(K) /\ w \in Int
  BY WindowKeys
<1>2. n \in Nat
  BY DEF IInv, TypeOK
<1>3. \A k \in K : FlowBy(R[k], w, k)
  BY <1>1, FlowRun
<1>4. ASSUME NEW i \in 1..n PROVE e(i) \in [K -> Int] /\ SumFunction(e(i)) = 0
  BY FlowCancels
<1> HIDE DEF R
<1>5. ASSUME NEW k \in K
      PROVE  /\ R[k] \in [0..n -> Int] /\ R[k][0] = 0 /\ R[k][n] = Flow(w, k)
             /\ \A i \in 1..n : R[k][i] = R[k][i - 1] + FlowStep(w, k, i)
  BY <1>3 DEF FlowBy
<1> HIDE DEF n
<1>6. ASSUME NEW i \in 0..n PROVE Part(i) \in [K -> Int]
  BY <1>5
<1> DEFINE Q == {i \in 0..n : SumFunction(Part(i)) = 0}
<1>7. 0 \in Q
  <2>1. 0 \in 0..n
    BY <1>2
  <2>2. Part(0) \in [K -> Int]
    BY <1>6, <2>1
  <2>3. \A k \in K : Part(0)[k] = 0
    BY <1>5
  <2> HIDE DEF Part, K
  <2>4. SumFunction(Part(0)) = 0
    BY <1>1, <2>2, <2>3, SumNull
  <2> QED
    BY <2>1, <2>4
<1>8. ASSUME NEW i \in 0..(n - 1), i \in Q PROVE i + 1 \in Q
  <2>1. i \in 0..n /\ i + 1 \in 0..n /\ i + 1 \in 1..n /\ (i + 1) - 1 = i
    BY <1>2
  <2>2. Part(i) \in [K -> Int] /\ Part(i + 1) \in [K -> Int]
    BY <1>6, <2>1
  <2>3. e(i + 1) \in [K -> Int] /\ SumFunction(e(i + 1)) = 0
    BY <1>4, <2>1
  <2>4. Difference(Part(i), Part(i + 1), e(i + 1), K)
    <3> SUFFICES ASSUME NEW k \in K PROVE Part(i)[k] = Part(i + 1)[k] - e(i + 1)[k]
      BY DEF Difference
    <3>1. R[k][i + 1] = R[k][i] + FlowStep(w, k, i + 1)
      BY <1>5, <2>1
    <3>2. R[k][i] \in Int /\ FlowStep(w, k, i + 1) \in Int
      BY <1>5, <2>1, <2>3
    <3>3. R[k][i] = R[k][i + 1] - FlowStep(w, k, i + 1)
      BY <3>1, <3>2
    <3> QED
      BY <3>3
  <2> HIDE DEF Part, e, K
  <2>5. SumFunction(Part(i)) = SumFunction(Part(i + 1)) - SumFunction(e(i + 1))
    BY <1>1, <2>2, <2>3, <2>4, SumDiff
  <2>6. SumFunction(Part(i)) = 0 /\ SumFunction(Part(i + 1)) \in Int
    BY <1>1, <1>8, <2>2, SumInt
  <2>7. SumFunction(Part(i + 1)) = 0
    BY <2>3, <2>5, <2>6
  <2> QED
    BY <2>1, <2>7
<1>9. n \in Q
  <2> HIDE DEF Q
  <2>1. 0..n \subseteq Q
    BY <1>2, <1>7, <1>8, UpTo, Zenon
  <2> QED
    BY <1>2, <2>1
<1>10. Part(n) = [k \in K |-> Flow(w, k)]
  BY <1>5
<1>11. Part(n) \in [K -> Int]
  BY <1>2, <1>6
<1> QED
  BY <1>9, <1>10, <1>11

LEMMA ImpactFromInv ==
    IInv => ImpactComplete
<1> SUFFICES ASSUME IInv, NEW w \in Windows, Closed(w) PROVE Residual(w) = 0
  BY DEF ImpactComplete, Closed
<1>1. w \in 1..(Len(days) - 1)
  BY DEF Windows
<1> DEFINE K == Keys(w)
           n == Len(days)
           one == [k \in K |-> MV(n, k)]
           zero == [k \in K |-> MV(w, k)]
           flow == [k \in K |-> Flow(w, k)]
           pnl == [k \in K |-> Pnl(w, k)]
           gain == [k \in K |-> one[k] - zero[k]]
<1>2. /\ IsFiniteSet(K) /\ w \in DOMAIN days /\ n \in DOMAIN days
      /\ DOMAIN days[w].pos \subseteq K /\ DOMAIN days[n].pos \subseteq K
  BY <1>1, WindowKeys
<1>3. one \in [K -> Int] /\ SumFunction(one) = days[n].v
  BY <1>2, SumOfMV
<1>4. zero \in [K -> Int] /\ SumFunction(zero) = days[w].v
  BY <1>2, SumOfMV
<1>5. flow \in [K -> Int] /\ SumFunction(flow) = 0
  BY <1>1, FlowsCancel
<1>6. Residual(w) = days[n].v - days[w].v - SumFunction(pnl)
  BY DEF Residual
<1>7. \A k \in K : pnl[k] = one[k] - zero[k] - flow[k]
  BY DEF Pnl
<1>8. DOMAIN pnl = K /\ pnl = [k \in K |-> pnl[k]]
  OBVIOUS
<1> HIDE DEF one, zero, flow, pnl, K
<1>9. gain \in [K -> Int] /\ Difference(gain, one, zero, K)
  BY <1>3, <1>4 DEF Difference
<1>10. \A k \in K : gain[k] = one[k] - zero[k]
  OBVIOUS
<1> HIDE DEF gain
<1>11. pnl \in [K -> Int] /\ Difference(pnl, gain, flow, K)
  <2>1. \A k \in K : pnl[k] = gain[k] - flow[k] /\ pnl[k] \in Int
    BY <1>3, <1>4, <1>5, <1>7, <1>10
  <2> QED
    BY <1>8, <2>1 DEF Difference
<1>12. SumFunction(gain) = SumFunction(one) - SumFunction(zero)
  BY <1>2, <1>3, <1>4, <1>9, SumDiff
<1>13. SumFunction(pnl) = SumFunction(gain) - SumFunction(flow)
  <2>1. IsFiniteSet(K)
    BY <1>2
  <2>2. flow \in [K -> Int]
    BY <1>5
  <2>3. gain \in [K -> Int]
    BY <1>9
  <2>4. pnl \in [K -> Int]
    BY <1>11
  <2>5. Difference(pnl, gain, flow, K)
    BY <1>11
  <2> QED
    BY <2>1, <2>2, <2>3, <2>4, <2>5, SumDiff
<1>14. SumFunction(one) \in Int /\ SumFunction(zero) \in Int
  BY <1>2, <1>3, <1>4, SumInt
<1> QED
  BY <1>3, <1>4, <1>5, <1>6, <1>12, <1>13, <1>14

\* The contributions of a closed window explain the whole change of equity: the
\* residual that computePeriod checks is zero.
THEOREM ImpactCompleteHolds == Spec => []ImpactComplete
  BY ImpactFromInv, Invariance, PTL

-----------------------------------------------------------------------------
(* Drawdowns, of any series. *)

Cycles == [start : Int, trough : Int, recovery : Int, days : Int]
ScanStates(n) == [peak : 1..n, trough : 0..n, out : SUBSET Cycles]
Start == [peak |-> 1, trough |-> 0, out |-> {}]

\* One step of the scan.
LEMMA ScanFields ==
    ASSUME NEW s \in Seq(Int), NEW st \in ScanStates(Len(s)), NEW i \in 1..Len(s)
    PROVE  /\ Scan(s, st, i) \in ScanStates(Len(s))
           /\ Recovered(s, i, st.peak) =>
                /\ Scan(s, st, i).peak = i /\ Scan(s, st, i).trough = 0
                /\ Scan(s, st, i).out =
                      IF st.trough # 0 /\ Deep(s[st.trough], s[st.peak])
                      THEN st.out \cup {Cycle(st.peak, st.trough, i, i - st.peak)}
                      ELSE st.out
           /\ ~Recovered(s, i, st.peak) =>
                /\ Scan(s, st, i).peak = st.peak /\ Scan(s, st, i).out = st.out
                /\ Scan(s, st, i).trough =
                      IF st.trough = 0 \/ s[i] < s[st.trough] THEN i ELSE st.trough
<1> DEFINE n == Len(s)
<1>1. n \in Nat /\ i \in Int /\ i \in 0..n
  OBVIOUS
<1>2. /\ st.peak \in 1..n /\ st.trough \in 0..n /\ st.out \in SUBSET Cycles
      /\ st.peak \in Int /\ st.trough \in Int
      /\ st = [peak |-> st.peak, trough |-> st.trough, out |-> st.out]
  BY <1>1 DEF ScanStates
<1>3. CASE Recovered(s, i, st.peak)
  <2> DEFINE o == IF st.trough # 0 /\ Deep(s[st.trough], s[st.peak])
                  THEN st.out \cup {Cycle(st.peak, st.trough, i, i - st.peak)} ELSE st.out
  <2>1. Scan(s, st, i) = [peak |-> i, trough |-> 0, out |-> o]
    BY <1>3 DEF Scan
  <2>2. Cycle(st.peak, st.trough, i, i - st.peak) \in Cycles
    BY <1>1, <1>2 DEF Cycle, Cycles
  <2>3. o \in SUBSET Cycles
    BY <1>2, <2>2
  <2> HIDE DEF o
  <2>4. Scan(s, st, i) \in ScanStates(n)
    BY <1>1, <2>1, <2>3 DEF ScanStates
  <2> QED
    BY <1>3, <2>1, <2>4 DEF o
<1>4. CASE ~Recovered(s, i, st.peak)
  <2> DEFINE l == IF st.trough = 0 \/ s[i] < s[st.trough] THEN i ELSE st.trough
  <2>1. Scan(s, st, i) = [peak |-> st.peak, trough |-> l, out |-> st.out]
    BY <1>2, <1>4 DEF Scan
  <2>2. l \in 0..n
    BY <1>1, <1>2
  <2> HIDE DEF l
  <2>3. Scan(s, st, i) \in ScanStates(n)
    BY <1>2, <2>1, <2>2 DEF ScanStates
  <2> QED
    BY <1>4, <2>1, <2>3 DEF l
<1> QED
  BY <1>3, <1>4

\* f is the scan after each day.
ScannedBy(f, s) ==
    /\ f[0] = Start
    /\ \A i \in 1..(Len(s) - 1) : f[i] = Scan(s, f[i - 1], i + 1)
    /\ DetectDrawdowns(s) =
         IF f[Len(s) - 1].trough # 0
            /\ Deep(s[f[Len(s) - 1].trough], s[f[Len(s) - 1].peak])
         THEN f[Len(s) - 1].out
              \cup {Cycle(f[Len(s) - 1].peak, f[Len(s) - 1].trough, 0,
                          Len(s) - (f[Len(s) - 1].peak - 1))}
         ELSE f[Len(s) - 1].out

LEMMA ScanRun ==
    ASSUME NEW s \in Seq(Int), Len(s) > 0
    PROVE  \E f \in [0..(Len(s) - 1) -> ScanStates(Len(s))] : ScannedBy(f, s)
<1> DEFINE n == Len(s) - 1
           X == ScanStates(Len(s))
           step == [y \in X \X (1..n) |-> Scan(s, y[1], y[2] + 1)]
           P(g) == g = [i \in 0..n |-> IF i = 0 THEN Start ELSE Scan(s, g[i - 1], i + 1)]
           g == CHOOSE h : P(h)
<1>1. n \in Nat /\ \A i \in 1..n : i + 1 \in 1..Len(s)
  OBVIOUS
<1>2. Start \in X
  BY DEF Start, ScanStates
<1>3. \A p \in X, i \in 1..n : Scan(s, p, i + 1) \in X
  <2> HIDE DEF n
  <2> QED
    BY <1>1, ScanFields
<1>4. step \in Steps(X, n)
  <2> HIDE DEF n, X
  <2> QED
    BY <1>3 DEF Steps
<1>5. \A p \in X, i \in 1..n : step[<<p, i>>] = Scan(s, p, i + 1)
  OBVIOUS
<1> HIDE DEF n, step, X
<1>6. PICK f \in [0..n -> X] : IsRun(f, Start, step, n)
  BY <1>1, <1>2, <1>4, RunExists
<1>7. f[0] = Start /\ \A i \in 1..n : f[i] = Scan(s, f[i - 1], i + 1)
  <2>1. \A i \in 1..n : f[i - 1] \in X
    BY <1>1, <1>6
  <2> QED
    BY <1>5, <1>6, <2>1 DEF IsRun
<1>8. P(f)
  BY <1>1, <1>7
<1>9. P(g)
  BY <1>8
<1>10. DetectDrawdowns(s) =
         IF g[n].trough # 0 /\ Deep(s[g[n].trough], s[g[n].peak])
         THEN g[n].out \cup {Cycle(g[n].peak, g[n].trough, 0, Len(s) - (g[n].peak - 1))}
         ELSE g[n].out
  BY DEF DetectDrawdowns, Loop, n, Start
<1> HIDE DEF g
<1>11. g[0] = Start /\ \A i \in 1..n : g[i] = Scan(s, g[i - 1], i + 1)
  <2>1. \A i \in 0..n : g[i] = IF i = 0 THEN Start ELSE Scan(s, g[i - 1], i + 1)
    BY <1>9, Zenon
  <2> HIDE DEF P
  <2> QED
    BY <1>1, <2>1
<1>12. Alike(f, g, n)
  BY <1>7, <1>11 DEF Alike
<1>13. f[n] = g[n]
  BY <1>1, <1>12, SameRun
<1>14. ScannedBy(f, s)
  BY <1>7, <1>10, <1>13 DEF ScannedBy, n
<1> QED
  BY <1>6, <1>14 DEF n, X

\* j is the first lowest of J.
FirstLowest(s, J, j) == j \in J /\ \A k \in J : s[j] < s[k] \/ (s[j] = s[k] /\ j <= k)

\* There is only one.
LEMMA LowestIs ==
    ASSUME NEW s \in Seq(Int), NEW J \in SUBSET (1..Len(s)), NEW j, FirstLowest(s, J, j)
    PROVE  Lowest(s, J) = j
<1> DEFINE l == CHOOSE y \in J : \A k \in J : s[y] < s[k] \/ (s[y] = s[k] /\ y <= k)
<1>1. l \in J /\ \A k \in J : s[l] < s[k] \/ (s[l] = s[k] /\ l <= k)
  BY DEF FirstLowest
<1>2. Lowest(s, J) = l
  BY DEF Lowest
<1> HIDE DEF l
<1>3. j \in Int /\ l \in Int /\ s[j] \in Int /\ s[l] \in Int
  BY <1>1 DEF FirstLowest
<1>4. s[l] < s[j] \/ (s[l] = s[j] /\ l <= j)
  BY <1>1 DEF FirstLowest
<1>5. s[j] < s[l] \/ (s[j] = s[l] /\ j <= l)
  BY <1>1 DEF FirstLowest
<1> QED
  BY <1>2, <1>3, <1>4, <1>5

Peaks(s) == {i \in 1..Len(s) : /\ MaxAt(s, i) /\ Under(s, i) # {}
                              /\ Deep(s[Lowest(s, Under(s, i))], s[i])}

\* The loop invariant of detectDrawdowns after m days: the peak is a running
\* maximum that nothing has reached since, the trough is the first lowest day
\* since, and the drawdowns that began before the peak are out.
ScanInv(s, st, m) ==
    /\ st.peak \in 1..m /\ MaxAt(s, st.peak)
    /\ \A j \in (st.peak + 1)..m : s[j] < s[st.peak]
    /\ IF st.trough = 0 THEN st.peak = m
       ELSE FirstLowest(s, (st.peak + 1)..m, st.trough)
    /\ st.out = {CycleAt(s, i) : i \in {j \in Peaks(s) : j < st.peak}}

\* The days under a peak that has not been reached until m and is at m + 1.
LEMMA UnderIs ==
    ASSUME NEW s \in Seq(Int), NEW p \in 1..Len(s), NEW m \in p..Len(s),
           \A j \in (p + 1)..m : s[j] < s[p], m < Len(s) => ~(s[m + 1] < s[p])
    PROVE  Under(s, p) = (p + 1)..m /\ Cardinality(Under(s, p)) = m - p
<1>1. Under(s, p) = (p + 1)..m
  <2>1. ASSUME NEW j \in Under(s, p) PROVE j \in (p + 1)..m
    <3>1. j \in (p + 1)..Len(s) /\ \A k \in (p + 1)..j : s[k] < s[p]
      BY DEF Under
    <3>2. CASE j > m
      <4>1. m + 1 \in (p + 1)..j /\ m < Len(s)
        BY <3>1, <3>2
      <4>2. s[m + 1] < s[p]
        BY <3>1, <4>1
      <4> QED
        BY <4>1, <4>2
    <3> QED
      BY <3>1, <3>2
  <2>2. ASSUME NEW j \in (p + 1)..m PROVE j \in Under(s, p)
    <3>1. j \in (p + 1)..Len(s) /\ \A k \in (p + 1)..j : k \in (p + 1)..m
      OBVIOUS
    <3> QED
      BY <3>1 DEF Under
  <2> QED
    BY <2>1, <2>2
<1>2. p + 1 \in Int /\ m \in Int
  OBVIOUS
<1>3. Cardinality((p + 1)..m) = IF p + 1 > m THEN 0 ELSE m - (p + 1) + 1
  BY <1>2, FS_Interval
<1>4. Cardinality((p + 1)..m) = m - p
  BY <1>3
<1> QED
  BY <1>1, <1>4

\* The cycle that the scan is in, when m is its last day.
Ended(s, st, m) ==
    IF m < Len(s) THEN Cycle(st.peak, st.trough, m + 1, (m + 1) - st.peak)
    ELSE Cycle(st.peak, st.trough, 0, Len(s) - (st.peak - 1))

\* What is known of the peak of the scan when its cycle ends at m.
LEMMA PeakEnds ==
    ASSUME NEW s \in Seq(Int), NEW st \in ScanStates(Len(s)), NEW m \in 1..Len(s),
           ScanInv(s, st, m), m < Len(s) => ~(s[m + 1] < s[st.peak])
    PROVE  /\ st.peak \in Peaks(s) <=> st.trough # 0 /\ Deep(s[st.trough], s[st.peak])
           /\ st.trough # 0 => CycleAt(s, st.peak) = Ended(s, st, m)
           /\ \A i \in Peaks(s) : i <= m => i <= st.peak
<1> DEFINE p == st.peak
           l == st.trough
           J == (p + 1)..m
<1>1. /\ p \in 1..m /\ MaxAt(s, p) /\ \A j \in J : s[j] < s[p]
      /\ IF l = 0 THEN p = m ELSE FirstLowest(s, J, l)
  BY DEF ScanInv
<1>2. p \in 1..Len(s) /\ m \in p..Len(s) /\ p \in Int /\ m \in Int /\ Len(s) \in Int
  BY <1>1
<1>3. m < Len(s) => ~(s[m + 1] < s[p])
  OBVIOUS
<1> HIDE DEF p, l
<1>4. Under(s, p) = J /\ Cardinality(Under(s, p)) = m - p
  BY <1>1, <1>2, <1>3, UnderIs
<1>5. l = 0 => J = {}
  BY <1>1, <1>2
<1>6. l # 0 => J # {} /\ Lowest(s, J) = l
  <2>1. J \in SUBSET (1..Len(s))
    BY <1>2
  <2> HIDE DEF J
  <2> QED
    BY <1>1, <2>1, LowestIs DEF FirstLowest
<1>7. p \in Peaks(s) <=> l # 0 /\ Deep(s[l], s[p])
  <2> HIDE DEF J
  <2> QED
    BY <1>1, <1>2, <1>4, <1>5, <1>6 DEF Peaks
<1>8. ASSUME l # 0
      PROVE  CycleAt(s, p) = IF m < Len(s) THEN Cycle(p, l, m + 1, (m + 1) - p)
                             ELSE Cycle(p, l, 0, Len(s) - (p - 1))
  <2>1. p + Cardinality(Under(s, p)) = m
    BY <1>2, <1>4
  <2>2. Lowest(s, Under(s, p)) = l
    BY <1>4, <1>6, <1>8
  <2>3. CycleAt(s, p) = IF m < Len(s) THEN Cycle(p, l, m + 1, (m + 1) - p)
                        ELSE Cycle(p, l, 0, Len(s) + 1 - p)
    <3>1. (m + 1) - p = m + 1 - p
      BY <1>2
    <3> QED
      BY <2>1, <2>2, <3>1 DEF CycleAt
  <2>4. Len(s) + 1 - p = Len(s) - (p - 1)
    BY <1>2
  <2> QED
    BY <2>3, <2>4
<1>9. ASSUME NEW i \in Peaks(s), i <= m PROVE i <= p
  <2>1. i \in 1..Len(s) /\ \A j \in 1..i : s[j] <= s[i]
    BY DEF Peaks, MaxAt
  <2>2. CASE i > p
    <3>1. i \in J /\ p \in 1..i
      BY <1>2, <1>9, <2>1, <2>2
    <3>2. s[i] \in Int /\ s[p] \in Int
      BY <1>2, <2>1
    <3>3. s[i] < s[p] /\ s[p] <= s[i]
      BY <1>1, <2>1, <3>1
    <3> QED
      BY <3>2, <3>3
  <2> QED
    BY <1>2, <2>1, <2>2
<1> QED
  BY <1>7, <1>8, <1>9 DEF p, l, Ended

\* The first lowest day with one more.
LEMMA LowestNext ==
    ASSUME NEW s \in Seq(Int), NEW J \in SUBSET (1..Len(s)), NEW n \in 1..Len(s), NEW l,
           \A k \in J : k < n, FirstLowest(s, J, l)
    PROVE  FirstLowest(s, J \cup {n}, IF s[n] < s[l] THEN n ELSE l)
<1>1. \A k \in J \cup {n} : s[k] \in Int /\ k \in Int
  OBVIOUS
<1>2. l \in J /\ \A k \in J : s[l] < s[k] \/ (s[l] = s[k] /\ l <= k)
  BY DEF FirstLowest
<1>3. CASE s[n] < s[l]
  <2>1. ASSUME NEW k \in J PROVE s[n] < s[k]
    <3>1. s[k] \in Int /\ s[n] \in Int /\ s[l] \in Int
      BY <1>1, <1>2
    <3>2. s[l] < s[k] \/ s[l] = s[k]
      BY <1>2
    <3> QED
      BY <1>3, <3>1, <3>2
  <2>2. FirstLowest(s, J \cup {n}, n)
    BY <2>1 DEF FirstLowest
  <2> QED
    BY <1>3, <2>2
<1>4. CASE ~(s[n] < s[l])
  <2>1. s[l] < s[n] \/ (s[l] = s[n] /\ l <= n)
    <3>1. s[n] \in Int /\ s[l] \in Int /\ l \in Int /\ n \in Int /\ l < n
      BY <1>1, <1>2
    <3> QED
      BY <1>4, <3>1
  <2>2. FirstLowest(s, J \cup {n}, l)
    BY <1>2, <2>1 DEF FirstLowest
  <2> QED
    BY <1>4, <2>2
<1> QED
  BY <1>3, <1>4

LEMMA ScanKeeps ==
    ASSUME NEW s \in Seq(Int), NEW st \in ScanStates(Len(s)), NEW m \in 1..(Len(s) - 1),
           ScanInv(s, st, m)
    PROVE  ScanInv(s, Scan(s, st, m + 1), m + 1)
<1> DEFINE p == st.peak
           l == st.trough
           n == m + 1
           z == Scan(s, st, n)
           J == (p + 1)..m
           Before(q) == {j \in Peaks(s) : j < q}
<1>1. /\ p \in 1..m /\ MaxAt(s, p) /\ \A j \in J : s[j] < s[p]
      /\ IF l = 0 THEN p = m ELSE FirstLowest(s, J, l)
      /\ st.out = {CycleAt(s, i) : i \in Before(p)}
  BY DEF ScanInv
<1>2. n \in 1..Len(s) /\ m \in 1..Len(s) /\ m < Len(s) /\ Len(s) \in Nat
  OBVIOUS
<1>3. p \in 1..Len(s) /\ s[p] \in Int /\ s[n] \in Int /\ p \in Int /\ n \in Int /\ m \in Int
  BY <1>1, <1>2
<1>4. Recovered(s, n, p) =>
        /\ z.peak = n /\ z.trough = 0
        /\ z.out = IF l # 0 /\ Deep(s[l], s[p]) THEN st.out \cup {Cycle(p, l, n, n - p)}
                   ELSE st.out
  BY <1>2, ScanFields
<1>5. ~Recovered(s, n, p) =>
        /\ z.peak = p /\ z.out = st.out
        /\ z.trough = IF l = 0 \/ s[n] < s[l] THEN n ELSE l
  BY <1>2, ScanFields
<1>6. ASSUME ~(s[n] < s[p])
      PROVE  /\ p \in Peaks(s) <=> l # 0 /\ Deep(s[l], s[p])
             /\ l # 0 => CycleAt(s, p) = Cycle(p, l, n, n - p)
             /\ \A i \in Peaks(s) : i <= m => i <= p
  <2>1. m < Len(s) => ~(s[m + 1] < s[st.peak])
    BY <1>6
  <2>2. p \in Peaks(s) <=> l # 0 /\ Deep(s[l], s[p])
    BY <1>2, <2>1, PeakEnds
  <2>3. l # 0 => CycleAt(s, p) = Cycle(p, l, n, n - p)
    <3>1. st.trough # 0 => CycleAt(s, st.peak) = Ended(s, st, m)
      BY <1>2, <2>1, PeakEnds
    <3> QED
      BY <1>2, <3>1 DEF Ended
  <2>4. \A i \in Peaks(s) : i <= m => i <= p
    BY <1>2, <2>1, PeakEnds
  <2> QED
    BY <1>2, <2>2, <2>3, <2>4
<1> HIDE DEF p
<1>7. /\ \A j \in 1..n : j \in 1..p \/ j \in J \/ j = n
      /\ (p + 1)..n = J \cup {n} /\ n # 0 /\ p \in 1..n /\ (n + 1)..n = {} /\ n \in 1..n
      /\ (\A k \in J : k < n) /\ J \in SUBSET (1..Len(s)) /\ 1..n \subseteq 1..Len(s)
  <2>1. ASSUME NEW j \in 1..n PROVE j \in 1..p \/ j \in J \/ j = n
    BY <1>3
  <2>2. (p + 1)..n = J \cup {n}
    BY <1>1, <1>3
  <2>3. n # 0 /\ p \in 1..n /\ (n + 1)..n = {} /\ n \in 1..n
    BY <1>1, <1>3
  <2>4. (\A k \in J : k < n) /\ J \in SUBSET (1..Len(s))
    BY <1>2, <1>3
  <2>5. 1..n \subseteq 1..Len(s)
    BY <1>2, <1>3
  <2> QED
    BY <2>1, <2>2, <2>3, <2>4, <2>5
<1>8. p < n /\ \A i \in Int : i < n <=> i <= m
  <2>1. p <= m
    BY <1>1
  <2> QED
    BY <1>3, <2>1
<1>9. p = m => J = {}
  BY <1>3
<1>10. SUFFICES ScanInv(s, z, n)
  OBVIOUS
<1> HIDE DEF p, l, n, z, J
<1>11. CASE Recovered(s, n, p)
  <2>1. s[n] >= s[p] /\ ~(s[n] < s[p])
    BY <1>3, <1>11 DEF Recovered
  <2>2. MaxAt(s, n)
    <3> SUFFICES ASSUME NEW j \in 1..n PROVE s[j] <= s[n]
      BY DEF MaxAt
    <3>1. s[j] \in Int
      BY <1>7
    <3>2. s[j] <= s[p] \/ j = n
      <4>1. CASE j \in 1..p
        BY <1>1, <4>1 DEF MaxAt
      <4>2. CASE j \in J
        BY <1>1, <1>3, <3>1, <4>2
      <4> QED
        BY <1>7, <4>1, <4>2
    <3> QED
      BY <1>3, <2>1, <3>1, <3>2
  <2>3. \A i \in Peaks(s) : i \in Int
    BY DEF Peaks
  <2>4. Before(n) = IF p \in Peaks(s) THEN Before(p) \cup {p} ELSE Before(p)
    <3>1. ASSUME NEW i \in Peaks(s) PROVE i < n <=> i < p \/ i = p
      <4>1. i \in Int /\ (i <= m => i <= p) /\ (i < n <=> i <= m)
        BY <1>6, <1>8, <2>1, <2>3
      <4> QED
        BY <1>3, <1>8, <4>1
    <3> QED
      BY <3>1
  <2> HIDE DEF Before
  <2>5. z.out = {CycleAt(s, i) : i \in Before(n)}
    <3>1. CASE p \in Peaks(s)
      <4>1. CycleAt(s, p) = Cycle(p, l, n, n - p) /\ z.out = st.out \cup {Cycle(p, l, n, n - p)}
        BY <1>4, <1>6, <1>11, <2>1, <3>1
      <4>2. {CycleAt(s, i) : i \in Before(p) \cup {p}}
              = {CycleAt(s, i) : i \in Before(p)} \cup {CycleAt(s, p)}
        OBVIOUS
      <4> QED
        BY <1>1, <2>4, <3>1, <4>1, <4>2
    <3>2. CASE p \notin Peaks(s)
      <4>1. z.out = st.out
        BY <1>4, <1>6, <1>11, <2>1, <3>2
      <4> QED
        BY <1>1, <2>4, <3>2, <4>1
    <3> QED
      BY <3>1, <3>2
  <2>6. z.peak = n /\ z.trough = 0
    BY <1>4, <1>11
  <2> QED
    BY <1>7, <2>2, <2>5, <2>6 DEF ScanInv, Before
<1>12. CASE ~Recovered(s, n, p)
  <2>1. s[n] < s[p]
    BY <1>3, <1>12 DEF Recovered
  <2>2. /\ z.peak = p /\ z.out = st.out
        /\ z.trough = IF l = 0 \/ s[n] < s[l] THEN n ELSE l
    BY <1>5, <1>12
  <2>3. \A j \in (p + 1)..n : s[j] < s[p]
    BY <1>1, <1>7, <2>1
  <2>4. FirstLowest(s, J \cup {n}, z.trough) /\ z.trough # 0
    <3>1. CASE l = 0
      <4>1. z.trough = n /\ J = {}
        BY <1>1, <1>9, <2>2, <3>1
      <4> QED
        BY <1>3, <1>7, <4>1 DEF FirstLowest
    <3>2. CASE l # 0
      <4>1. FirstLowest(s, J \cup {n}, IF s[n] < s[l] THEN n ELSE l)
        BY <1>1, <1>2, <1>7, <3>2, LowestNext
      <4> QED
        BY <1>7, <2>2, <3>2, <4>1
    <3> QED
      BY <3>1, <3>2
  <2> QED
    BY <1>1, <1>7, <2>2, <2>3, <2>4 DEF ScanInv
<1> QED
  BY <1>11, <1>12

\* detectDrawdowns is exact for every series.
LEMMA DetectExact ==
    ASSUME NEW s \in Seq(Int), Len(s) > 0
    PROVE  DetectDrawdowns(s) = {CycleAt(s, i) : i \in Peaks(s)}
<1> DEFINE n == Len(s) - 1
<1>1. PICK f \in [0..n -> ScanStates(Len(s))] : ScannedBy(f, s)
  BY ScanRun
<1>2. n \in Nat /\ n + 1 = Len(s) /\ Len(s) \in Nat
  OBVIOUS
<1>3. f[0] = Start /\ \A i \in 1..n : f[i] = Scan(s, f[i - 1], i + 1)
  BY <1>1 DEF ScannedBy
<1> DEFINE end == f[n]
           Q == {i \in 0..n : ScanInv(s, f[i], i + 1)}
<1>4. DetectDrawdowns(s) =
        IF end.trough # 0 /\ Deep(s[end.trough], s[end.peak])
        THEN end.out \cup {Cycle(end.peak, end.trough, 0, Len(s) - (end.peak - 1))}
        ELSE end.out
  BY <1>1 DEF ScannedBy
<1> HIDE DEF n
<1>5. 0 \in Q
  <2>1. f[0].peak = 1 /\ f[0].trough = 0 /\ f[0].out = {} /\ 0 + 1 = 1
    BY <1>3 DEF Start
  <2>2. MaxAt(s, 1) /\ (1 + 1)..1 = {} /\ 1 \in 1..1
    <3>1. s[1] \in Int
      OBVIOUS
    <3> QED
      BY <3>1 DEF MaxAt
  <2>3. {j \in Peaks(s) : j < 1} = {}
    BY DEF Peaks
  <2>4. {CycleAt(s, i) : i \in {j \in Peaks(s) : j < 1}} = {}
    BY <2>3
  <2>5. ScanInv(s, f[0], 1)
    BY <2>1, <2>2, <2>4 DEF ScanInv
  <2> QED
    BY <1>2, <2>1, <2>5
<1>6. ASSUME NEW i \in 0..(n - 1), i \in Q PROVE i + 1 \in Q
  <2> DEFINE m == i + 1
  <2>1. /\ m \in 1..(Len(s) - 1) /\ m \in 1..n /\ m \in 0..n /\ i \in 0..n /\ m - 1 = i
    BY <1>2
  <2>2. f[i] \in ScanStates(Len(s)) /\ ScanInv(s, f[i], m)
    BY <1>1, <1>6, <2>1
  <2>3. f[m] = Scan(s, f[i], m + 1)
    BY <1>3, <2>1
  <2> HIDE DEF m
  <2>4. ScanInv(s, f[m], m + 1)
    BY <2>1, <2>2, <2>3, ScanKeeps
  <2>5. m \in Q
    BY <2>1, <2>4
  <2> QED
    BY <2>5 DEF m
<1>7. ScanInv(s, end, Len(s)) /\ end \in ScanStates(Len(s))
  <2> HIDE DEF Q
  <2>1. 0..n \subseteq Q
    BY <1>2, <1>5, <1>6, UpTo, Zenon
  <2>2. n \in Q
    BY <1>2, <2>1
  <2>3. end \in ScanStates(Len(s))
    BY <1>1, <1>2
  <2> QED
    BY <1>2, <2>2, <2>3 DEF Q
<1> HIDE DEF end
<1>8. Len(s) \in 1..Len(s) /\ ~(Len(s) < Len(s))
  BY <1>2
<1>9. end.peak \in Peaks(s) <=> end.trough # 0 /\ Deep(s[end.trough], s[end.peak])
  BY <1>7, <1>8, PeakEnds
<1>10. end.trough # 0 =>
         CycleAt(s, end.peak) = Cycle(end.peak, end.trough, 0, Len(s) - (end.peak - 1))
  <2>1. end.trough # 0 => CycleAt(s, end.peak) = Ended(s, end, Len(s))
    BY <1>7, <1>8, PeakEnds
  <2> QED
    BY <1>8, <2>1 DEF Ended
<1>11. \A i \in Peaks(s) : i <= end.peak
  <2>1. \A i \in Peaks(s) : i <= Len(s) => i <= end.peak
    BY <1>7, <1>8, PeakEnds
  <2>2. \A i \in Peaks(s) : i <= Len(s)
    BY <1>2 DEF Peaks
  <2> QED
    BY <2>1, <2>2
<1> DEFINE B == {j \in Peaks(s) : j < end.peak}
<1>12. end.out = {CycleAt(s, i) : i \in B}
  BY <1>7 DEF ScanInv
<1>13. Peaks(s) = IF end.peak \in Peaks(s) THEN B \cup {end.peak} ELSE B
  <2>1. end.peak \in Int /\ \A i \in Peaks(s) : i \in Int
    BY <1>7 DEF ScanInv, Peaks
  <2>2. \A i \in Peaks(s) : i < end.peak \/ i = end.peak
    BY <1>11, <2>1
  <2> QED
    BY <2>2
<1> HIDE DEF B
<1>14. CASE end.peak \in Peaks(s)
  <2>1. DetectDrawdowns(s) = end.out \cup {CycleAt(s, end.peak)}
    BY <1>4, <1>9, <1>10, <1>14
  <2>2. {CycleAt(s, i) : i \in B \cup {end.peak}}
          = {CycleAt(s, i) : i \in B} \cup {CycleAt(s, end.peak)}
    OBVIOUS
  <2>3. Peaks(s) = B \cup {end.peak}
    BY <1>13, <1>14
  <2> QED
    BY <1>12, <2>1, <2>2, <2>3, Zenon
<1>15. CASE end.peak \notin Peaks(s)
  <2>1. DetectDrawdowns(s) = end.out /\ Peaks(s) = B
    BY <1>4, <1>9, <1>13, <1>15
  <2> QED
    BY <1>12, <2>1, Zenon
<1> QED
  BY <1>14, <1>15

LEMMA DrawdownsFromInv ==
    IInv => DrawdownsExact
<1> SUFFICES ASSUME IInv PROVE DrawdownsExact
  OBVIOUS
<1>1. days \in Seq(Range(days)) /\ \A d \in DOMAIN days : days[d].v \in Int
  BY DEF IInv, TypeOK
<1>2. DOMAIN days = 1..Len(days) /\ Len(days) \in Nat
  BY <1>1
<1>3. Equity \in [1..Len(days) -> Int]
  BY <1>1, <1>2 DEF Equity
<1>4. Equity \in Seq(Int)
  BY <1>2, <1>3
<1>5. Len(Equity) > 0 => DetectDrawdowns(Equity) = {CycleAt(Equity, i) : i \in Peaks(Equity)}
  BY <1>4, DetectExact
<1> QED
  BY <1>5, Zenon DEF DrawdownsExact, Peaks

\* The drawdowns reported are the cycles of the equity curve, each with its peak,
\* its first lowest day and the day that reaches the peak again.
THEOREM DrawdownsExactHolds == Spec => []DrawdownsExact
  BY DrawdownsFromInv, Invariance, PTL
=============================================================================
