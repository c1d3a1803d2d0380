----------------------------- MODULE FoldLemmas -----------------------------
(***************************************************************************)
(* Facts about the folds the models are written with: sums over a finite   *)
(* set, FoldLeft over a sequence, and FlattenSeq, with what it makes of the*)
(* elements of a sequence.  The induction principles take a set where the  *)
(* library's take an operator, and all come from the fact that a nonempty  *)
(* set of natural numbers has a least one.                                 *)
(***************************************************************************)
EXTENDS Integers, Sequences, FiniteSets, SequencesExt, FiniteSetTheorems,
        SequenceTheorems, WellFoundedInduction, TLAPS

LEMMA Induction ==
  ASSUME NEW P, 0 \in P, \A n \in Nat : n \in P => n + 1 \in P
  PROVE  Nat \subseteq P
<1> DEFINE T == {n \in Nat : n \notin P}
<1> SUFFICES ASSUME T # {} PROVE FALSE
  OBVIOUS
<1>1. \E x \in T : \A y \in T : ~ (<<y, x>> \in OpToRel(<, Nat))
  BY NatLessThanWellFounded, WFMin
<1>2. \A x, y \in Nat : <<y, x>> \in OpToRel(<, Nat) <=> y < x
  BY DEF OpToRel
<1>3. \E x \in T : \A y \in T : ~ (y < x)
  BY <1>1, <1>2, Zenon
<1>4. PICK x \in T : \A y \in T : ~ (y < x)
  BY <1>3
<1>5. x # 0 /\ x - 1 \in Nat /\ x - 1 \notin T
  BY <1>4
<1> QED
  BY <1>4, <1>5

\* What holds of a finite set whenever it holds of the set without one of its
\* elements holds of all finite sets.
LEMMA FiniteInduction ==
  ASSUME NEW S, IsFiniteSet(S), NEW P,
         \A T \in SUBSET S : (\A x \in T : T \ {x} \in P) => T \in P
  PROVE  SUBSET S \subseteq P
<1> DEFINE N == {n \in Nat : \A T \in SUBSET S : Cardinality(T) <= n => T \in P}
<1>1. \A T \in SUBSET S : IsFiniteSet(T) /\ Cardinality(T) \in Nat
  BY FS_Subset, FS_CardinalityType
<1>2. 0 \in N
  <2> SUFFICES ASSUME NEW T \in SUBSET S, Cardinality(T) <= 0 PROVE T \in P
    OBVIOUS
  <2>1. T = {}
    BY <1>1, FS_EmptySet
  <2> QED
    BY <2>1
<1>3. ASSUME NEW n \in Nat, n \in N PROVE n + 1 \in N
  <2> SUFFICES ASSUME NEW T \in SUBSET S, Cardinality(T) <= n + 1 PROVE T \in P
    OBVIOUS
  <2>1. ASSUME NEW x \in T PROVE T \ {x} \in P
    <3>1. Cardinality(T \ {x}) = Cardinality(T) - 1 /\ IsFiniteSet(T)
      BY <1>1, FS_RemoveElement
    <3>2. Cardinality(T \ {x}) <= n
      BY <1>1, <3>1
    <3> QED
      BY <1>3, <3>2
  <2> QED
    BY <2>1
<1>4. Nat \subseteq N
  <2> HIDE DEF N
  <2> QED
    BY <1>2, <1>3, Induction
<1> QED
  BY <1>1, <1>4

-----------------------------------------------------------------------------
(* Folds over a finite set *)

\* pick chooses an element of every nonempty subset of S.
Picks(pick, S) == \A T \in SUBSET S : T # {} => pick[T] \in T

\* f and g follow one recursion on the subsets of S.
Alike(f, g, S, pick) ==
  /\ f[{}] = g[{}]
  /\ \A T \in SUBSET S : T # {} /\ f[T \ {pick[T]}] = g[T \ {pick[T]}] => f[T] = g[T]

\* it folds step over the subsets of S, as MapThenFoldSet does.
Folds(it, S, base, pick, step) ==
  /\ it[{}] = base
  /\ \A T \in SUBSET S : T # {} => it[T] = step[<<pick[T], it[T \ {pick[T]}]>>]

LEMMA FoldsAgree ==
  ASSUME NEW S, IsFiniteSet(S), NEW f, NEW g, NEW pick, Picks(pick, S), Alike(f, g, S, pick)
  PROVE  \A T \in SUBSET S : f[T] = g[T]
<1> USE DEF Picks, Alike
<1> DEFINE P == {T \in SUBSET S : f[T] = g[T]}
<1>1. \A T \in SUBSET S : (\A x \in T : T \ {x} \in P) => T \in P
  OBVIOUS
<1>2. SUBSET S \subseteq P
  <2> HIDE DEF P
  <2> QED
    BY <1>1, FiniteInduction
<1> QED
  BY <1>2

\* The recursion of MapThenFoldSet has a solution.
LEMMA FoldExists ==
  ASSUME NEW S, IsFiniteSet(S), NEW V, NEW base \in V, NEW pick, Picks(pick, S),
         NEW step \in [S \X V -> V]
  PROVE  \E it \in [SUBSET S -> V] : Folds(it, S, base, pick, step)
<1> USE DEF Picks, Folds
<1> DEFINE Upto(n) == {T \in SUBSET S : Cardinality(T) <= n}
           Solves(it, n) ==
             \A T \in Upto(n) :
               it[T] = IF T = {} THEN base ELSE step[<<pick[T], it[T \ {pick[T]}]>>]
           N == {n \in Nat : \E it \in [Upto(n) -> V] : Solves(it, n)}
<1>1. \A T \in SUBSET S : IsFiniteSet(T) /\ Cardinality(T) \in Nat
  BY FS_Subset, FS_CardinalityType
<1>2. Upto(0) = {{}}
  BY <1>1, FS_EmptySet
<1>3. 0 \in N
  <2>1. [T \in Upto(0) |-> base] \in [Upto(0) -> V] /\ Solves([T \in Upto(0) |-> base], 0)
    BY <1>2
  <2> QED
    BY <2>1
<1>4. ASSUME NEW n \in Nat, n \in N PROVE n + 1 \in N
  <2>1. PICK it \in [Upto(n) -> V] : Solves(it, n)
    BY <1>4
  <2> DEFINE next == [T \in Upto(n + 1) |->
                        IF Cardinality(T) <= n THEN it[T]
                        ELSE step[<<pick[T], it[T \ {pick[T]}]>>]]
  <2>2. \A T \in Upto(n + 1) : T # {} => T \ {pick[T]} \in Upto(n) /\ pick[T] \in S
    <3> SUFFICES ASSUME NEW T \in Upto(n + 1), T # {}
                 PROVE  T \ {pick[T]} \in Upto(n) /\ pick[T] \in S
      OBVIOUS
    <3>1. Cardinality(T \ {pick[T]}) = Cardinality(T) - 1
      BY <1>1, FS_RemoveElement
    <3> QED
      BY <1>1, <3>1
  <2>3. \A T \in Upto(n) : T \in Upto(n + 1) /\ next[T] = it[T]
    BY <1>1
  <2>4. \A T \in Upto(n + 1) : T \notin Upto(n) =>
          T # {} /\ next[T] = step[<<pick[T], it[T \ {pick[T]}]>>]
    BY <1>1, FS_EmptySet
  <2>5. next \in [Upto(n + 1) -> V]
    <3> SUFFICES ASSUME NEW T \in Upto(n + 1) PROVE next[T] \in V
      BY Zenon
    <3> HIDE DEF Upto, next
    <3> QED
      BY <2>2, <2>3, <2>4
  <2>6. Solves(next, n + 1)
    <3> HIDE DEF Upto, next
    <3> QED
      BY <2>1, <2>2, <2>3, <2>4
  <2> HIDE DEF Upto, Solves, next
  <2> QED
    BY <2>5, <2>6
<1>5. Nat \subseteq N
  <2> HIDE DEF N
  <2> QED
    BY <1>3, <1>4, Induction
<1>6. Upto(Cardinality(S)) = SUBSET S /\ Cardinality(S) \in Nat
  BY <1>1, FS_Subset
<1>7. PICK it \in [Upto(Cardinality(S)) -> V] : Solves(it, Cardinality(S))
  <2> HIDE DEF Upto, Solves
  <2> QED
    BY <1>5, <1>6
<1> QED
  BY <1>6, <1>7

-----------------------------------------------------------------------------
(* Sums *)

Pick(T) == CHOOSE x \in T : TRUE

\* What the sums of the community modules are made of.
SumIter(f, S) ==
  CHOOSE it : it = [T \in SUBSET S |-> IF T = {} THEN 0 ELSE f[Pick(T)] + it[T \ {Pick(T)}]]

LEMMA SumIsIter ==
  ASSUME NEW f, NEW S
  PROVE  SumFunctionOnSet(f, S) = SumIter(f, S)[S]
BY DEF SumFunctionOnSet, FoldFunctionOnSet, MapThenFoldSet, SumIter, Pick

LEMMA PickPicks ==
  ASSUME NEW S
  PROVE  /\ Picks([T \in SUBSET S |-> Pick(T)], S)
         /\ \A T \in SUBSET S : T # {} => Pick(T) \in T
BY DEF Picks, Pick

LEMMA SumIterSolves ==
  ASSUME NEW S, IsFiniteSet(S), NEW f, \A x \in S : f[x] \in Nat
  PROVE  /\ SumIter(f, S) \in [SUBSET S -> Nat]
         /\ SumIter(f, S)[{}] = 0
         /\ \A T \in SUBSET S : T # {} =>
              SumIter(f, S)[T] = f[Pick(T)] + SumIter(f, S)[T \ {Pick(T)}]
<1> DEFINE pick == [T \in SUBSET S |-> Pick(T)]
           step == [p \in S \X Nat |-> f[p[1]] + p[2]]
           Sums(it) == [T \in SUBSET S |->
                          IF T = {} THEN 0 ELSE f[Pick(T)] + it[T \ {Pick(T)}]]
<1>1. Picks(pick, S) /\ \A T \in SUBSET S : T # {} => Pick(T) \in T
  BY PickPicks
<1>2. step \in [S \X Nat -> Nat] /\ 0 \in Nat
  OBVIOUS
<1>3. PICK it \in [SUBSET S -> Nat] : Folds(it, S, 0, pick, step)
  <2> HIDE DEF pick, step
  <2> QED
    BY <1>1, <1>2, FoldExists
<1>4. /\ it[{}] = 0
      /\ \A T \in SUBSET S : T # {} => it[T] = f[Pick(T)] + it[T \ {Pick(T)}]
  BY <1>1, <1>3 DEF Folds
<1>5. it = Sums(it)
  BY <1>4
<1>6. SumIter(f, S) = Sums(SumIter(f, S))
  BY <1>5, Zenon DEF SumIter
<1> DEFINE g == SumIter(f, S)
<1>7. /\ g = [T \in SUBSET S |-> g[T]] /\ g[{}] = 0
      /\ \A T \in SUBSET S : T # {} => g[T] = f[Pick(T)] + g[T \ {Pick(T)}]
  BY <1>6
<1> HIDE DEF g
<1>8. Alike(g, it, S, pick)
  BY <1>4, <1>7 DEF Alike
<1>9. \A T \in SUBSET S : g[T] = it[T]
  <2> HIDE DEF pick
  <2> QED
    BY <1>1, <1>8, FoldsAgree
<1>10. g \in [SUBSET S -> Nat]
  BY <1>7, <1>9
<1> QED
  BY <1>7, <1>10 DEF g

LEMMA SumStep ==
  ASSUME NEW S, IsFiniteSet(S), NEW f, \A x \in S : f[x] \in Nat
  PROVE  /\ SumFunctionOnSet(f, S) \in Nat
         /\ S = {} => SumFunctionOnSet(f, S) = 0
         /\ S # {} => \E x \in S : SumFunctionOnSet(f, S) = f[x] + SumFunctionOnSet(f, S \ {x})
<1> DEFINE a == SumIter(f, S)
           x == Pick(S)
           R == S \ {x}
           b == SumIter(f, R)
           pick == [T \in SUBSET R |-> Pick(T)]
<1>1. /\ a \in [SUBSET S -> Nat] /\ a[{}] = 0
      /\ \A T \in SUBSET S : T # {} => a[T] = f[Pick(T)] + a[T \ {Pick(T)}]
  BY SumIterSolves
<1>2. SumFunctionOnSet(f, S) = a[S] /\ SumFunctionOnSet(f, R) = b[R]
  BY SumIsIter
<1>3. IsFiniteSet(R) /\ R \subseteq S /\ \A y \in R : f[y] \in Nat
  BY FS_RemoveElement
<1>4. a[R] = b[R]
  <2> HIDE DEF R
  <2>1. /\ b[{}] = 0
        /\ \A T \in SUBSET R : T # {} => b[T] = f[Pick(T)] + b[T \ {Pick(T)}]
    BY <1>3, SumIterSolves
  <2> HIDE DEF a, b
  <2>2. Picks(pick, R)
    BY PickPicks
  <2>3. Alike(a, b, R, pick)
    BY <1>1, <1>3, <2>1 DEF Alike
  <2> HIDE DEF pick
  <2> QED
    BY <1>3, <2>2, <2>3, FoldsAgree
<1>5. S # {} => x \in S
  BY PickPicks
<1> HIDE DEF a, b
<1> QED
  BY <1>1, <1>2, <1>4, <1>5

\* The sum does not depend on the order.
LEMMA SumRemove ==
  ASSUME NEW S, IsFiniteSet(S), NEW f, \A x \in S : f[x] \in Nat, NEW x \in S
  PROVE  /\ SumFunctionOnSet(f, S) = f[x] + SumFunctionOnSet(f, S \ {x})
         /\ SumFunctionOnSet(f, S \ {x}) \in Nat
<1> DEFINE Sum(T) == SumFunctionOnSet(f, T)
           P == {T \in SUBSET S : \A y \in T : Sum(T) = f[y] + Sum(T \ {y})}
<1>1. \A T \in SUBSET S : IsFiniteSet(T) /\ Sum(T) \in Nat
  BY FS_Subset, SumStep
<1>2. ASSUME NEW T \in SUBSET S, \A y \in T : T \ {y} \in P
      PROVE  T \in P
  <2> SUFFICES ASSUME NEW y \in T PROVE Sum(T) = f[y] + Sum(T \ {y})
    OBVIOUS
  <2>1. PICK c \in T : Sum(T) = f[c] + Sum(T \ {c})
    BY <1>1, SumStep
  <2>2. CASE c = y
    BY <2>1, <2>2
  <2>3. CASE c # y
    <3>1. Sum(T \ {c}) = f[y] + Sum((T \ {c}) \ {y})
      BY <1>2, <2>3
    <3>2. Sum(T \ {y}) = f[c] + Sum((T \ {y}) \ {c})
      BY <1>2, <2>3
    <3>3. (T \ {c}) \ {y} = (T \ {y}) \ {c} /\ (T \ {c}) \ {y} \in SUBSET S
      OBVIOUS
    <3>4. Sum((T \ {c}) \ {y}) \in Nat /\ f[c] \in Nat /\ f[y] \in Nat
      BY <1>1, <3>3
    <3> HIDE DEF Sum
    <3> QED
      BY <2>1, <3>1, <3>2, <3>3, <3>4
  <2> QED
    BY <2>2, <2>3
<1>3. SUBSET S \subseteq P
  <2> HIDE DEF P
  <2> QED
    BY <1>2, FiniteInduction
<1>4. S \in P /\ S \ {x} \in SUBSET S
  BY <1>3
<1> QED
  BY <1>1, <1>4

LEMMA SumAdd ==
  ASSUME NEW S, IsFiniteSet(S), NEW f, NEW x, x \notin S, \A y \in S \cup {x} : f[y] \in Nat
  PROVE  SumFunctionOnSet(f, S \cup {x}) = SumFunctionOnSet(f, S) + f[x]
<1>1. IsFiniteSet(S \cup {x}) /\ (S \cup {x}) \ {x} = S
  BY FS_AddElement
<1>2. SumFunctionOnSet(f, S \cup {x}) = f[x] + SumFunctionOnSet(f, (S \cup {x}) \ {x})
  BY <1>1, SumRemove
<1>3. SumFunctionOnSet(f, S) \in Nat /\ f[x] \in Nat
  BY SumStep
<1> QED
  BY <1>1, <1>2, <1>3

\* It depends only on what is summed.
LEMMA SumCongruent ==
  ASSUME NEW S, IsFiniteSet(S), NEW f, NEW g, \A x \in S : f[x] \in Nat /\ f[x] = g[x]
  PROVE  SumFunctionOnSet(f, S) = SumFunctionOnSet(g, S)
<1> DEFINE P == {T \in SUBSET S : SumFunctionOnSet(f, T) = SumFunctionOnSet(g, T)}
<1>1. ASSUME NEW T \in SUBSET S, \A y \in T : T \ {y} \in P
      PROVE  T \in P
  <2>1. IsFiniteSet(T)
    BY FS_Subset
  <2>2. CASE T = {}
    BY <2>1, <2>2, SumStep
  <2>3. CASE T # {}
    <3>1. PICK x \in T : SumFunctionOnSet(f, T) = f[x] + SumFunctionOnSet(f, T \ {x})
      BY <2>1, <2>3, SumStep
    <3>2. SumFunctionOnSet(g, T) = g[x] + SumFunctionOnSet(g, T \ {x})
      <4>1. \A y \in T : g[y] \in Nat
        OBVIOUS
      <4> QED
        BY <2>1, <4>1, SumRemove
    <3> QED
      BY <1>1, <3>1, <3>2
  <2> QED
    BY <2>2, <2>3
<1>2. SUBSET S \subseteq P
  <2> HIDE DEF P
  <2> QED
    BY <1>1, FiniteInduction
<1> QED
  BY <1>2

\* g extends the summable f beyond S.
Extends(g, f, S) == \A y \in S : f[y] \in Nat /\ f[y] = g[y]

\* One more is summed, with a function that agrees on the rest.
LEMMA SumGrows ==
  ASSUME NEW S, IsFiniteSet(S), NEW f, NEW g, Extends(g, f, S), NEW x, x \notin S, g[x] \in Nat
  PROVE  SumFunctionOnSet(g, S \cup {x}) = SumFunctionOnSet(f, S) + g[x]
<1>1. SumFunctionOnSet(f, S) = SumFunctionOnSet(g, S)
  BY SumCongruent DEF Extends
<1>2. \A y \in S \cup {x} : g[y] \in Nat
  BY DEF Extends
<1> QED
  BY <1>1, <1>2, SumAdd

\* One entry changed.
LEMMA SumUpdate ==
  ASSUME NEW S, IsFiniteSet(S), NEW f \in [S -> Nat], NEW x \in S, NEW g \in [S -> Nat],
         \A y \in S : y # x => g[y] = f[y]
  PROVE  SumFunctionOnSet(g, S) + f[x] = SumFunctionOnSet(f, S) + g[x]
<1>1. /\ SumFunctionOnSet(f, S) = f[x] + SumFunctionOnSet(f, S \ {x})
      /\ SumFunctionOnSet(f, S \ {x}) \in Nat
      /\ SumFunctionOnSet(g, S) = g[x] + SumFunctionOnSet(g, S \ {x})
  BY SumRemove
<1>2. SumFunctionOnSet(f, S \ {x}) = SumFunctionOnSet(g, S \ {x})
  <2>1. IsFiniteSet(S \ {x}) /\ \A y \in S \ {x} : f[y] \in Nat /\ f[y] = g[y]
    BY FS_RemoveElement
  <2> QED
    BY <2>1, SumCongruent
<1> QED
  BY <1>1, <1>2

-----------------------------------------------------------------------------
(* FoldLeft, which takes the greatest place last *)

LEMMA MaxPicks ==
  ASSUME NEW n \in Nat
  PROVE  /\ Picks([T \in SUBSET (1..n) |-> Max(T)], 1..n)
         /\ \A T \in SUBSET (1..n) : T # {} => Max(T) \in T /\ \A y \in T : Max(T) >= y
<1> DEFINE P == {T \in SUBSET (1..n) : T # {} => \E x \in T : \A y \in T : x >= y}
<1>1. ASSUME NEW T \in SUBSET (1..n), \A x \in T : T \ {x} \in P
      PROVE  T \in P
  <2> SUFFICES ASSUME NEW x \in T PROVE \E z \in T : \A y \in T : z >= y
    OBVIOUS
  <2>1. CASE T \ {x} = {}
    BY <2>1
  <2>2. CASE T \ {x} # {}
    <3>1. PICK m \in T \ {x} : \A y \in T \ {x} : m >= y
      BY <1>1, <2>2
    <3>2. CASE m >= x
      BY <3>1, <3>2
    <3>3. CASE ~(m >= x)
      BY <3>1, <3>3
    <3> QED
      BY <3>2, <3>3
  <2> QED
    BY <2>1, <2>2
<1>2. SUBSET (1..n) \subseteq P
  <2> DEFINE S == 1..n
  <2>1. IsFiniteSet(S)
    BY FS_Interval
  <2> HIDE DEF P, S
  <2>2. \A T \in SUBSET S : (\A x \in T : T \ {x} \in P) => T \in P
    BY <1>1 DEF S
  <2>3. SUBSET S \subseteq P
    BY <2>1, <2>2, FiniteInduction
  <2> QED
    BY <2>3 DEF S
<1>3. ASSUME NEW T \in SUBSET (1..n), T # {}
      PROVE  Max(T) \in T /\ \A y \in T : Max(T) >= y
  <2>1. \E x \in T : \A y \in T : x >= y
    BY <1>2, <1>3
  <2> QED
    BY <2>1, Zenon DEF Max
<1> QED
  BY <1>3 DEF Picks

\* it folds step over the places 1 to n, the last place last.
LeftFolds(it, n, base, step) ==
  /\ it[{}] = base
  /\ \A T \in SUBSET (1..n) : T # {} => it[T] = step[<<Max(T), it[T \ {Max(T)}]>>]

LEMMA LeftFoldExists ==
  ASSUME NEW n \in Nat, NEW V, NEW base \in V, NEW step \in [(1..n) \X V -> V]
  PROVE  \E it \in [SUBSET (1..n) -> V] : LeftFolds(it, n, base, step)
<1> DEFINE pick == [T \in SUBSET (1..n) |-> Max(T)]
           S == 1..n
<1>1. IsFiniteSet(S)
  BY FS_Interval
<1>2. Picks(pick, S)
  BY MaxPicks
<1>3. PICK it \in [SUBSET S -> V] : Folds(it, S, base, pick, step)
  <2> HIDE DEF pick, S
  <2>1. step \in [S \X V -> V]
    BY DEF S
  <2> QED
    BY <1>1, <1>2, <2>1, FoldExists
<1> QED
  BY <1>3 DEF Folds, LeftFolds

\* Step after step, from the first place to the last.
Climbs(it, n, base, step) ==
  /\ it[1..0] = base
  /\ \A i \in 1..n : it[1..i] = step[<<i, it[1..(i - 1)]>>]

LEMMA LeftFoldClimbs ==
  ASSUME NEW n \in Nat, NEW base, NEW step, NEW it, LeftFolds(it, n, base, step)
  PROVE  Climbs(it, n, base, step)
<1>1. 1..0 = {}
  OBVIOUS
<1>2. ASSUME NEW i \in 1..n PROVE it[1..i] = step[<<i, it[1..(i - 1)]>>]
  <2>1. 1..i \in SUBSET (1..n) /\ i \in 1..i
    OBVIOUS
  <2>2. Max(1..i) \in 1..i /\ Max(1..i) >= i
    BY <2>1, MaxPicks
  <2>3. Max(1..i) = i /\ (1..i) \ {i} = 1..(i - 1)
    BY <2>2
  <2>4. 1..i # {}
    BY <2>1
  <2> QED
    BY <2>1, <2>3, <2>4 DEF LeftFolds
<1> QED
  BY <1>1, <1>2 DEF LeftFolds, Climbs

\* What follows the recursion of a FoldLeft is its solution.
LEMMA LeftFoldsAgree ==
  ASSUME NEW n \in Nat, NEW f, NEW g, Alike(f, g, 1..n, [T \in SUBSET (1..n) |-> Max(T)])
  PROVE  f[1..n] = g[1..n]
<1> DEFINE pick == [T \in SUBSET (1..n) |-> Max(T)]
           S == 1..n
<1>1. IsFiniteSet(S)
  BY FS_Interval
<1>2. Picks(pick, S)
  BY MaxPicks
<1>3. Alike(f, g, S, pick)
  OBVIOUS
<1> HIDE DEF pick, S
<1>4. \A T \in SUBSET S : f[T] = g[T]
  BY <1>1, <1>2, <1>3, FoldsAgree
<1> QED
  BY <1>4 DEF S

-----------------------------------------------------------------------------
(* Concatenations *)

\* The concatenations of the first 1 to n sequences of s.
Flattens(f, s, n) ==
  \A i \in 1..n : f[i] = IF i = 1 THEN s[i] ELSE f[i - 1] \o s[i]

LEMMA FlattenExists ==
  ASSUME NEW V, NEW s, NEW n \in Nat, \A i \in 1..n : s[i] \in Seq(V)
  PROVE  \E f \in [1..n -> Seq(V)] : Flattens(f, s, n)
<1> DEFINE P == {m \in Nat : m <= n => \E f \in [1..m -> Seq(V)] : Flattens(f, s, m)}
<1>1. 0 \in P
  <2> DEFINE f == [i \in 1..0 |-> <<>>]
  <2>1. f \in [1..0 -> Seq(V)] /\ \A i \in 1..0 : FALSE
    OBVIOUS
  <2>2. Flattens(f, s, 0)
    BY <2>1 DEF Flattens
  <2> QED
    BY <2>1, <2>2
<1>2. ASSUME NEW m \in Nat, m \in P PROVE m + 1 \in P
  <2> SUFFICES ASSUME m + 1 <= n
               PROVE  \E f \in [1..(m + 1) -> Seq(V)] : Flattens(f, s, m + 1)
    OBVIOUS
  <2>1. PICK f \in [1..m -> Seq(V)] : Flattens(f, s, m)
    BY <1>2
  <2> DEFINE last == IF m = 0 THEN s[1] ELSE f[m] \o s[m + 1]
             g == [i \in 1..(m + 1) |-> IF i = m + 1 THEN last ELSE f[i]]
  <2>2. s[m + 1] \in Seq(V) /\ (m # 0 => f[m] \in Seq(V))
    BY <2>1
  <2>3. last \in Seq(V)
    BY <2>2, ConcatProperties
  <2>4. g \in [1..(m + 1) -> Seq(V)]
    <3> HIDE DEF last
    <3> QED
      BY <2>1, <2>3
  <2>5. ASSUME NEW i \in 1..(m + 1) PROVE g[i] = IF i = 1 THEN s[i] ELSE g[i - 1] \o s[i]
    <3>1. CASE i = m + 1
      BY <3>1
    <3>2. CASE i # m + 1
      <4>1. i \in 1..m /\ g[i] = f[i] /\ (i # 1 => g[i - 1] = f[i - 1])
        BY <3>2
      <4> QED
        BY <4>1, <2>1 DEF Flattens
    <3> QED
      BY <3>1, <3>2
  <2> QED
    BY <2>4, <2>5 DEF Flattens
<1>3. Nat \subseteq P
  <2> HIDE DEF P
  <2> QED
    BY <1>1, <1>2, Induction
<1> QED
  BY <1>3

\* What FlattenSeq of the community modules is made of.
Flattened(s) ==
  CHOOSE f : f = [i \in 1..Len(s) |-> IF i = 1 THEN s[i] ELSE f[i - 1] \o s[i]]

LEMMA FlattenIsFlattened ==
  ASSUME NEW V, NEW s \in Seq(Seq(V))
  PROVE  /\ Len(s) \in Nat
         /\ Len(s) = 0 => FlattenSeq(s) = <<>>
         /\ Len(s) # 0 => FlattenSeq(s) = Flattened(s)[Len(s)]
<1>1. Len(s) \in Nat /\ (s = <<>> \/ Len(s) # 0)
  BY EmptySeq, LenProperties
<1> QED
  BY <1>1 DEF FlattenSeq, Flattened

LEMMA FlattenedSolves ==
  ASSUME NEW V, NEW s \in Seq(Seq(V))
  PROVE  Flattened(s) \in [1..Len(s) -> Seq(V)] /\ Flattens(Flattened(s), s, Len(s))
<1> DEFINE n == Len(s)
           Turns(f) == [i \in 1..n |-> IF i = 1 THEN s[i] ELSE f[i - 1] \o s[i]]
           g == Flattened(s)
<1>1. n \in Nat /\ \A i \in 1..n : s[i] \in Seq(V)
  BY ElementOfSeq, LenProperties
<1>2. PICK f \in [1..n -> Seq(V)] : Flattens(f, s, n)
  <2> HIDE DEF n
  <2> QED
    BY <1>1, FlattenExists
<1>3. f = Turns(f)
  BY <1>2 DEF Flattens
<1>4. g = Turns(g)
  BY <1>3, Zenon DEF Flattened
<1> HIDE DEF g, n
<1>5. /\ g = [i \in 1..n |-> g[i]]
      /\ \A i \in 1..n : g[i] = IF i = 1 THEN s[i] ELSE g[i - 1] \o s[i]
  BY <1>4
<1> DEFINE P == {m \in Nat : m \in 1..n => g[m] = f[m]}
<1>6. 0 \in P
  BY <1>1
<1>7. ASSUME NEW m \in Nat, m \in P PROVE m + 1 \in P
  <2> SUFFICES ASSUME m + 1 \in 1..n PROVE g[m + 1] = f[m + 1]
    BY <1>7
  <2>1. m # 0 => g[m] = f[m]
    BY <1>1, <1>7
  <2>2. (m + 1) - 1 = m /\ (m + 1 = 1 <=> m = 0)
    OBVIOUS
  <2>3. g[m + 1] = IF m = 0 THEN s[m + 1] ELSE g[m] \o s[m + 1]
    BY <1>5, <2>2
  <2>4. f[m + 1] = IF m = 0 THEN s[m + 1] ELSE f[m] \o s[m + 1]
    BY <1>2, <2>2 DEF Flattens
  <2> QED
    BY <2>1, <2>3, <2>4
<1>8. Nat \subseteq P
  <2> HIDE DEF P
  <2> QED
    BY <1>6, <1>7, Induction
<1>9. \A i \in 1..n : g[i] = f[i]
  BY <1>1, <1>8
<1> QED
  BY <1>5, <1>9, <1>2 DEF g, n, Flattens

LEMMA FlattenEmpty == FlattenSeq(<<>>) = <<>>
BY DEF FlattenSeq

LEMMA FlattenType ==
  ASSUME NEW V, NEW s \in Seq(Seq(V))
  PROVE  FlattenSeq(s) \in Seq(V)
<1> DEFINE f == Flattened(s)
<1>1. /\ Len(s) \in Nat /\ Len(s) = 0 => FlattenSeq(s) = <<>>
      /\ Len(s) # 0 => FlattenSeq(s) = f[Len(s)]
  BY FlattenIsFlattened
<1>2. f \in [1..Len(s) -> Seq(V)]
  BY FlattenedSolves
<1> HIDE DEF f
<1>3. CASE Len(s) = 0
  BY <1>1, <1>3, EmptySeq
<1>4. CASE Len(s) # 0
  <2>1. Len(s) \in 1..Len(s)
    BY <1>1, <1>4
  <2> QED
    BY <1>1, <1>2, <1>4, <2>1
<1> QED
  BY <1>3, <1>4

LEMMA FlattenAppend ==
  ASSUME NEW V, NEW s \in Seq(Seq(V)), NEW x \in Seq(V)
  PROVE  FlattenSeq(Append(s, x)) = FlattenSeq(s) \o x
<1> DEFINE t == Append(s, x)
           n == Len(s)
           f == Flattened(s)
           g == Flattened(t)
<1>1. /\ n \in Nat /\ t \in Seq(Seq(V)) /\ Len(t) = n + 1
      /\ \A i \in 1..n : t[i] = s[i]
      /\ t[n + 1] = x
  BY AppendProperties, LenProperties
<1>2. f \in [1..n -> Seq(V)] /\ Flattens(f, s, n)
  BY FlattenedSolves
<1>3. g \in [1..(n + 1) -> Seq(V)] /\ Flattens(g, t, n + 1)
  <2> HIDE DEF t, n
  <2> QED
    BY <1>1, FlattenedSolves
<1>4. /\ FlattenSeq(t) = g[n + 1]
      /\ n = 0 => FlattenSeq(s) = <<>>
      /\ n # 0 => FlattenSeq(s) = f[n]
  <2>1. Len(t) # 0 => FlattenSeq(t) = g[Len(t)]
    <3> HIDE DEF t
    <3> QED
      BY <1>1, FlattenIsFlattened
  <2>2. Len(t) # 0 /\ Len(t) = n + 1
    BY <1>1
  <2> HIDE DEF t
  <2> QED
    BY <2>1, <2>2, FlattenIsFlattened
<1> HIDE DEF t, n, f, g
<1> DEFINE P == {m \in Nat : m \in 1..n => g[m] = f[m]}
<1>5. 0 \in P
  BY <1>1
<1>6. ASSUME NEW m \in Nat, m \in P PROVE m + 1 \in P
  <2> SUFFICES ASSUME m + 1 \in 1..n PROVE g[m + 1] = f[m + 1]
    BY <1>6
  <2>1. (m # 0 => g[m] = f[m]) /\ s[m + 1] = t[m + 1] /\ m + 1 \in 1..(n + 1)
    BY <1>1, <1>6
  <2>2. (m + 1) - 1 = m /\ (m + 1 = 1 <=> m = 0)
    OBVIOUS
  <2>3. g[m + 1] = IF m = 0 THEN t[m + 1] ELSE g[m] \o t[m + 1]
    BY <1>3, <2>1, <2>2 DEF Flattens
  <2>4. f[m + 1] = IF m = 0 THEN s[m + 1] ELSE f[m] \o s[m + 1]
    BY <1>2, <2>2 DEF Flattens
  <2> QED
    BY <2>1, <2>3, <2>4
<1>7. Nat \subseteq P
  <2> HIDE DEF P
  <2> QED
    BY <1>5, <1>6, Induction
<1>8. ASSUME n # 0 PROVE g[n] = f[n] /\ g[n + 1] = g[n] \o x
  <2>1. n \in 1..n /\ n + 1 \in 1..(n + 1) /\ (n + 1) - 1 = n /\ n + 1 # 1
    BY <1>1, <1>8
  <2>2. g[n + 1] = g[n] \o t[n + 1]
    BY <1>3, <2>1 DEF Flattens
  <2> QED
    BY <1>1, <1>7, <2>1, <2>2
<1>9. n = 0 => g[n + 1] = x /\ <<>> \o x = x
  BY <1>1, <1>3, ConcatEmptySeq DEF Flattens
<1> QED
  BY <1>4, <1>8, <1>9 DEF t

LEMMA FlattenOne ==
  ASSUME NEW V, NEW x \in Seq(V)
  PROVE  FlattenSeq(<<x>>) = x
<1>1. <<>> \in Seq(Seq(V)) /\ Append(<<>>, x) = <<x>> /\ <<>> \o x = x
  BY EmptySeq, ConcatEmptySeq
<1> QED
  BY <1>1, FlattenAppend, FlattenEmpty

Regroups(a, b, c) == (a \o b) \o c = a \o (b \o c)

LEMMA Regroup ==
  ASSUME NEW V, NEW a, NEW b, NEW c, a \in Seq(V) /\ b \in Seq(V) /\ c \in Seq(V)
  PROVE  Regroups(a, b, c)
BY ConcatAssociative DEF Regroups

LEMMA AppendAcross ==
  ASSUME NEW W, NEW s, NEW v, NEW x, s \in Seq(W) /\ v \in Seq(W) /\ x \in W
  PROVE  s \o v \in Seq(W) /\ s \o Append(v, x) = Append(s \o v, x)
<1> DEFINE one == <<x>>
           t == s \o v
<1>1. one \in Seq(W) /\ Append(v, x) = v \o one
  BY AppendIsConcat
<1>2. t \in Seq(W)
  BY ConcatProperties
<1> HIDE DEF t
<1>3. Append(t, x) = t \o one
  BY <1>2, AppendIsConcat
<1> HIDE DEF one
<1>4. Regroups(s, v, one)
  BY <1>1, Regroup
<1> QED
  BY <1>1, <1>2, <1>3, <1>4 DEF t, Regroups

\* FlattenSeq takes s and v together as it takes them apart.
Splits(s, v) == FlattenSeq(s \o v) = FlattenSeq(s) \o FlattenSeq(v)

LEMMA FlattenConcatStep ==
  ASSUME NEW V, NEW s, NEW v, NEW x,
         s \in Seq(Seq(V)) /\ v \in Seq(Seq(V)) /\ x \in Seq(V), Splits(s, v)
  PROVE  Splits(s, Append(v, x))
<1> DEFINE a == FlattenSeq(s)
           b == FlattenSeq(v)
           t == s \o v
<1>1. a \in Seq(V) /\ b \in Seq(V) /\ x \in Seq(V) /\ FlattenSeq(t) = a \o b
  BY FlattenType DEF Splits
<1>2. t \in Seq(Seq(V)) /\ s \o Append(v, x) = Append(t, x)
  BY AppendAcross
<1>3. FlattenSeq(Append(v, x)) = b \o x
  BY FlattenAppend
<1> HIDE DEF a, b, t
<1>4. FlattenSeq(Append(t, x)) = FlattenSeq(t) \o x
  BY <1>1, <1>2, FlattenAppend
<1>5. Regroups(a, b, x)
  BY <1>1, Regroup
<1> QED
  BY <1>1, <1>2, <1>3, <1>4, <1>5 DEF a, Splits, Regroups

LEMMA FlattenConcat ==
  ASSUME NEW V, NEW s \in Seq(Seq(V)), NEW t \in Seq(Seq(V))
  PROVE  FlattenSeq(s \o t) = FlattenSeq(s) \o FlattenSeq(t)
<1> DEFINE W == Seq(V)
           P == {n \in Nat : \A u \in Seq(W) : Len(u) = n => Splits(s, u)}
<1>1. 0 \in P
  <2>1. ASSUME NEW u \in Seq(W), Len(u) = 0 PROVE u = <<>>
    BY <2>1, EmptySeq
  <2>2. FlattenSeq(s) \in W
    BY FlattenType
  <2>3. s \o <<>> = s /\ FlattenSeq(s) \o <<>> = FlattenSeq(s)
    BY <2>2, ConcatEmptySeq
  <2> QED
    BY <2>1, <2>3, FlattenEmpty DEF Splits
<1>2. ASSUME NEW n \in Nat, n \in P PROVE n + 1 \in P
  <2> SUFFICES ASSUME NEW u \in Seq(W), Len(u) = n + 1 PROVE Splits(s, u)
    OBVIOUS
  <2>1. u # <<>>
    BY EmptySeq
  <2>2. PICK v \in Seq(W), x \in W : u = Append(v, x)
    BY <2>1, SequenceEmptyOrAppend, Zenon
  <2>3. Len(v) = n
    BY <2>2, AppendProperties, LenProperties
  <2>4. Splits(s, v)
    BY <1>2, <2>3
  <2>5. s \in Seq(Seq(V)) /\ v \in Seq(Seq(V)) /\ x \in Seq(V)
    OBVIOUS
  <2> HIDE DEF W, P
  <2>6. Splits(s, Append(v, x))
    BY <2>4, <2>5, FlattenConcatStep
  <2> QED
    BY <2>2, <2>6
<1>3. Nat \subseteq P
  <2> HIDE DEF P
  <2> QED
    BY <1>1, <1>2, Induction
<1>4. Len(t) \in P
  BY <1>3, LenProperties
<1> QED
  BY <1>4 DEF Splits

-----------------------------------------------------------------------------
(* Sequences of sequences from the elements of one *)

\* What f makes of each element of s, one after the other.
FlatMap(f, s) == FlattenSeq([i \in DOMAIN s |-> f[s[i]]])

LEMMA FunctionIsSeq ==
  ASSUME NEW W, NEW n \in Nat, NEW m \in [1..n -> W]
  PROVE  m \in Seq(W) /\ Len(m) = n
OBVIOUS

LEMMA MappedType ==
  ASSUME NEW R, NEW V, NEW f \in [R -> Seq(V)], NEW s \in Seq(R)
  PROVE  /\ [i \in DOMAIN s |-> f[s[i]]] \in Seq(Seq(V))
         /\ Len([i \in DOMAIN s |-> f[s[i]]]) = Len(s)
<1> DEFINE m == [i \in DOMAIN s |-> f[s[i]]]
<1>1. Len(s) \in Nat /\ DOMAIN s = 1..Len(s) /\ \A i \in 1..Len(s) : s[i] \in R
  BY LenProperties, ElementOfSeq
<1> DEFINE W == Seq(V)
<1>2. m \in [1..Len(s) -> W]
  BY <1>1
<1> HIDE DEF m, W
<1>3. m \in Seq(W) /\ Len(m) = Len(s)
  BY <1>1, <1>2, FunctionIsSeq
<1> QED
  BY <1>3 DEF m, W

LEMMA FlatMapType ==
  ASSUME NEW R, NEW V, NEW f \in [R -> Seq(V)], NEW s \in Seq(R)
  PROVE  FlatMap(f, s) \in Seq(V)
<1> DEFINE m == [i \in DOMAIN s |-> f[s[i]]]
<1>1. m \in Seq(Seq(V))
  BY MappedType
<1> HIDE DEF m
<1>2. FlattenSeq(m) \in Seq(V)
  BY <1>1, FlattenType
<1> QED
  BY <1>2 DEF FlatMap, m

LEMMA FlatMapOne ==
  ASSUME NEW R, NEW V, NEW f \in [R -> Seq(V)], NEW x \in R
  PROVE  FlatMap(f, <<x>>) = f[x]
<1>1. [i \in DOMAIN <<x>> |-> f[<<x>>[i]]] = <<f[x]>>
  OBVIOUS
<1> QED
  BY <1>1, FlattenOne DEF FlatMap

LEMMA FlatMapEmpty ==
  ASSUME NEW f
  PROVE  FlatMap(f, <<>>) = <<>>
<1>1. [i \in DOMAIN <<>> |-> f[<<>>[i]]] = <<>>
  OBVIOUS
<1> QED
  BY <1>1, FlattenEmpty DEF FlatMap

LEMMA FlatMapConcat ==
  ASSUME NEW R, NEW V, NEW f \in [R -> Seq(V)], NEW s \in Seq(R), NEW t \in Seq(R)
  PROVE  FlatMap(f, s \o t) = FlatMap(f, s) \o FlatMap(f, t)
<1> DEFINE u == s \o t
           ms == [i \in DOMAIN s |-> f[s[i]]]
           mt == [i \in DOMAIN t |-> f[t[i]]]
           mu == [i \in DOMAIN u |-> f[u[i]]]
<1>1. /\ u \in Seq(R) /\ Len(u) = Len(s) + Len(t)
      /\ \A i \in 1..(Len(s) + Len(t)) : u[i] = IF i <= Len(s) THEN s[i] ELSE t[i - Len(s)]
      /\ Len(s) \in Nat /\ Len(t) \in Nat
      /\ DOMAIN s = 1..Len(s) /\ DOMAIN t = 1..Len(t)
  BY ConcatProperties, LenProperties
<1> HIDE DEF u
<1>2. DOMAIN u = 1..(Len(s) + Len(t))
  BY <1>1, LenProperties
<1>3. /\ ms \in Seq(Seq(V)) /\ Len(ms) = Len(s)
      /\ mt \in Seq(Seq(V)) /\ Len(mt) = Len(t)
      /\ mu \in Seq(Seq(V)) /\ Len(mu) = Len(s) + Len(t)
  BY <1>1, MappedType
<1>4. /\ \A i \in 1..Len(s) : ms[i] = f[s[i]]
      /\ \A i \in 1..Len(t) : mt[i] = f[t[i]]
      /\ \A i \in 1..(Len(s) + Len(t)) : mu[i] = f[u[i]]
  BY <1>1, <1>2
<1> HIDE DEF ms, mt, mu
<1>5. /\ ms \o mt \in Seq(Seq(V)) /\ Len(ms \o mt) = Len(s) + Len(t)
      /\ \A i \in 1..(Len(s) + Len(t)) :
           (ms \o mt)[i] = IF i <= Len(s) THEN ms[i] ELSE mt[i - Len(s)]
  <2> DEFINE W == Seq(V)
  <2>1. ms \in Seq(W) /\ mt \in Seq(W)
    BY <1>3
  <2> HIDE DEF W
  <2>2. /\ ms \o mt \in Seq(W) /\ Len(ms \o mt) = Len(ms) + Len(mt)
        /\ \A i \in 1..(Len(ms) + Len(mt)) :
             (ms \o mt)[i] = IF i <= Len(ms) THEN ms[i] ELSE mt[i - Len(ms)]
    BY <2>1, ConcatProperties
  <2> QED
    BY <1>3, <2>2 DEF W
<1>6. \A i \in 1..(Len(s) + Len(t)) : mu[i] = (ms \o mt)[i]
  <2> TAKE i \in 1..(Len(s) + Len(t))
  <2>1. /\ (ms \o mt)[i] = IF i <= Len(s) THEN ms[i] ELSE mt[i - Len(s)]
        /\ u[i] = IF i <= Len(s) THEN s[i] ELSE t[i - Len(s)]
        /\ mu[i] = f[u[i]]
    BY <1>1, <1>4, <1>5
  <2>2. CASE i <= Len(s)
    BY <1>1, <1>4, <2>1, <2>2
  <2>3. CASE ~(i <= Len(s))
    <3>1. i - Len(s) \in 1..Len(t)
      BY <1>1, <2>3
    <3> QED
      BY <1>4, <2>1, <2>3, <3>1
  <2> QED
    BY <2>2, <2>3
<1>7. mu = ms \o mt
  <2> DEFINE c == ms \o mt
  <2>1. c \in Seq(Seq(V)) /\ Len(c) = Len(mu) /\ \A i \in 1..Len(mu) : mu[i] = c[i]
    BY <1>3, <1>5, <1>6
  <2> HIDE DEF c
  <2>2. mu = c
    BY <1>3, <2>1, SeqEqual
  <2> QED
    BY <2>2 DEF c
<1>8. FlattenSeq(ms \o mt) = FlattenSeq(ms) \o FlattenSeq(mt)
  BY <1>3, FlattenConcat
<1> QED
  BY <1>7, <1>8 DEF FlatMap, u, ms, mt, mu

LEMMA FlatMapAppend ==
  ASSUME NEW R, NEW V, NEW f \in [R -> Seq(V)], NEW s \in Seq(R), NEW x \in R
  PROVE  FlatMap(f, Append(s, x)) = FlatMap(f, s) \o f[x]
<1> DEFINE one == <<x>>
<1>1. one \in Seq(R) /\ Append(s, x) = s \o one
  BY AppendIsConcat
<1>2. FlatMap(f, one) = f[x]
  BY FlatMapOne
<1>3. \A t \in Seq(R) : FlatMap(f, s \o t) = FlatMap(f, s) \o FlatMap(f, t)
  BY FlatMapConcat
<1> HIDE DEF one
<1> QED
  BY <1>1, <1>2, <1>3

\* What f makes nothing of leaves nothing.
LEMMA FlatMapNothing ==
  ASSUME NEW R, NEW V, NEW f \in [R -> Seq(V)], NEW s \in Seq(R),
         \A i \in 1..Len(s) : f[s[i]] = <<>>
  PROVE  FlatMap(f, s) = <<>>
<1> DEFINE P == {n \in Nat : \A u \in Seq(R) :
                   Len(u) = n /\ (\A i \in 1..n : f[u[i]] = <<>>) => FlatMap(f, u) = <<>>}
<1>1. 0 \in P
  <2>1. ASSUME NEW u \in Seq(R), Len(u) = 0 PROVE u = <<>>
    BY <2>1, EmptySeq
  <2> QED
    BY <2>1, FlatMapEmpty
<1>2. ASSUME NEW n \in Nat, n \in P PROVE n + 1 \in P
  <2> SUFFICES ASSUME NEW u \in Seq(R), Len(u) = n + 1,
                      \A i \in 1..(n + 1) : f[u[i]] = <<>>
               PROVE  FlatMap(f, u) = <<>>
    OBVIOUS
  <2>1. PICK v \in Seq(R), x \in R : u = Append(v, x)
    <3>1. u # <<>>
      BY EmptySeq
    <3> QED
      BY <3>1, SequenceEmptyOrAppend, Zenon
  <2>2. /\ Len(v) = n /\ u[n + 1] = x /\ \A i \in 1..n : u[i] = v[i]
    BY <2>1, AppendProperties, LenProperties
  <2>3. f[x] = <<>> /\ \A i \in 1..n : f[v[i]] = <<>>
    BY <2>2
  <2>4. FlatMap(f, v) = <<>>
    BY <1>2, <2>2, <2>3
  <2>6. FlatMap(f, u) = FlatMap(f, v) \o f[x]
    BY <2>1, FlatMapAppend
  <2>8. <<>> \o <<>> = <<>>
    OBVIOUS
  <2> QED
    BY <2>3, <2>4, <2>6, <2>8
<1>3. Nat \subseteq P
  <2> HIDE DEF P
  <2> QED
    BY <1>1, <1>2, Induction
<1>4. Len(s) \in P
  BY <1>3, LenProperties
<1> QED
  BY <1>4
=============================================================================
