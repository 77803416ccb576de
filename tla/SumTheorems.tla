-------------------------- MODULE SumTheorems --------------------------------
(***************************************************************************)
(* Induction stated of sets instead of predicates, and what it gives of    *)
(* recursions and of the sums the models take over functions with a finite *)
(* domain.                                                                 *)
(***************************************************************************)
EXTENDS Integers, FiniteSets, Functions, FiniteSetTheorems, WellFoundedInduction, TLAPS

(* What holds of zero and is handed on to the next number holds of all.    *)
LEMMA NumberInduction ==
  ASSUME NEW S \in SUBSET Nat, 0 \in S, \A n \in S : n + 1 \in S
  PROVE  S = Nat
<1> DEFINE R == {ss \in Nat \X Nat : ss[1] < ss[2]}
<1>1. \A a, b \in Nat : a < b <=> <<a, b>> \in R
  OBVIOUS
<1>2. IsWellFoundedOn(R, Nat)
  BY NatLessThanWellFounded DEF OpToRel
<1> HIDE DEF R
<1> SUFFICES ASSUME Nat \ S # {} PROVE FALSE
  OBVIOUS
<1>3. PICK x \in Nat \ S : \A y \in Nat \ S : ~ (<<y, x>> \in R)
  BY <1>2, WFMin
<1>4. x # 0 /\ x - 1 \in Nat /\ x - 1 < x
  OBVIOUS
<1>5. x - 1 \in S
  BY <1>1, <1>3, <1>4
<1> QED BY <1>3, <1>4, <1>5

(* A recursion over 0..m in a set V has a solution: step gives each value from *)
(* the one before.                                                             *)
Solves(V, z, m, step, g) ==
  /\ g \in [0..m -> V] /\ g[0] = z
  /\ \A i \in 1..m : g[i] = step[<<i, g[i - 1]>>]
LEMMA RecursionExists ==
  ASSUME NEW V, NEW z \in V, NEW m \in Nat, NEW step,
         \A i \in 1..m, v \in V : step[<<i, v>>] \in V
  PROVE  \E g : Solves(V, z, m, step, g)
<1> DEFINE S == {n \in Nat : n <= m => \E g : Solves(V, z, n, step, g)}
<1>1. 0 \in S
  <2> DEFINE g == [n \in 0..0 |-> z]
  <2>1. Solves(V, z, 0, step, g)
    BY DEF Solves
  <2> QED BY <2>1
<1>2. ASSUME NEW n \in S PROVE n + 1 \in S
  <2> SUFFICES ASSUME n + 1 <= m PROVE \E g : Solves(V, z, n + 1, step, g)
    OBVIOUS
  <2>1. PICK g : Solves(V, z, n, step, g)
    OBVIOUS
  <2> DEFINE h == [k \in 0..(n + 1) |-> IF k <= n THEN g[k] ELSE step[<<n + 1, g[n]>>]]
  <2>2. g \in [0..n -> V] /\ g[0] = z /\ \A i \in 1..n : g[i] = step[<<i, g[i - 1]>>]
    BY <2>1 DEF Solves
  <2>3. g[n] \in V /\ n + 1 \in 1..m
    BY <2>2
  <2>4. step[<<n + 1, g[n]>>] \in V
    BY <2>3
  <2>5. h \in [0..(n + 1) -> V] /\ h[0] = z
    BY <2>2, <2>4
  <2>6. ASSUME NEW i \in 1..(n + 1) PROVE h[i] = step[<<i, h[i - 1]>>]
    <3>1. CASE i <= n
      <4>1. h[i] = g[i] /\ h[i - 1] = g[i - 1] /\ i \in 1..n
        BY <3>1
      <4> HIDE DEF h
      <4> QED BY <2>2, <4>1
    <3>2. CASE i = n + 1
      <4>1. h[i] = step[<<n + 1, g[n]>>] /\ h[i - 1] = g[n]
        BY <3>2
      <4> HIDE DEF h
      <4> QED BY <3>2, <4>1
    <3> QED BY <3>1, <3>2
  <2>7. Solves(V, z, n + 1, step, h)
    <3> HIDE DEF h
    <3> QED BY <2>5, <2>6 DEF Solves
  <2> QED BY <2>7
<1>3. S = Nat
  <2> HIDE DEF S
  <2>1. S \in SUBSET Nat
    BY DEF S
  <2> QED BY <1>1, <1>2, <2>1, NumberInduction
<1> QED BY <1>3

(* A recursion over all numbers has a solution too.                        *)
SolvesAll(V, z, step, g) ==
  /\ g \in [Nat -> V] /\ g[0] = z
  /\ \A i \in Nat \ {0} : g[i] = step[<<i, g[i - 1]>>]
LEMMA RecursionForAll ==
  ASSUME NEW V, NEW z \in V, NEW step, \A i \in Nat, v \in V : step[<<i, v>>] \in V
  PROVE  \E g : SolvesAll(V, z, step, g)
<1> DEFINE pick == [m \in Nat |-> CHOOSE g : Solves(V, z, m, step, g)]
<1>1. ASSUME NEW m \in Nat PROVE Solves(V, z, m, step, pick[m])
  <2>1. \A i \in 1..m, v \in V : step[<<i, v>>] \in V
    <3>1. \A i \in 1..m : i \in Nat
      OBVIOUS
    <3> QED BY <3>1
  <2>2. \E g : Solves(V, z, m, step, g)
    BY <2>1, RecursionExists
  <2> QED BY <2>2
<1> HIDE DEF pick
<1>2. ASSUME NEW m \in Nat PROVE pick[m] \in [0..m -> V] /\ pick[m][0] = z
                                 /\ \A i \in 1..m : pick[m][i] = step[<<i, pick[m][i - 1]>>]
  BY <1>1 DEF Solves
<1> DEFINE S == {n \in Nat : pick[n + 1][n] = pick[n][n]}
<1> DEFINE A(m) == {n \in Nat : n <= m => pick[m + 1][n] = pick[m][n]}
<1>3. ASSUME NEW m \in Nat PROVE pick[m + 1][m] = pick[m][m]
  <2>1. 0 \in A(m)
    BY <1>2
  <2>2. ASSUME NEW n \in A(m) PROVE n + 1 \in A(m)
    <3> SUFFICES ASSUME n + 1 <= m PROVE pick[m + 1][n + 1] = pick[m][n + 1]
      OBVIOUS
    <3>1. pick[m + 1][n] = pick[m][n]
      OBVIOUS
    <3>2. pick[m + 1][n + 1] = step[<<n + 1, pick[m + 1][(n + 1) - 1]>>]
      BY <1>2, n + 1 \in 1..(m + 1)
    <3>3. pick[m][n + 1] = step[<<n + 1, pick[m][(n + 1) - 1]>>]
      BY <1>2, n + 1 \in 1..m
    <3> QED BY <3>1, <3>2, <3>3
  <2>3. A(m) = Nat
    <3> HIDE DEF A
    <3>1. A(m) \in SUBSET Nat
      BY DEF A
    <3> QED BY <2>1, <2>2, <3>1, NumberInduction
  <2> QED BY <2>3
<1> DEFINE g == [n \in Nat |-> pick[n][n]]
<1>4. g \in [Nat -> V] /\ g[0] = z
  BY <1>2
<1>5. ASSUME NEW i \in Nat \ {0} PROVE g[i] = step[<<i, g[i - 1]>>]
  <2>1. pick[i][i] = step[<<i, pick[i][i - 1]>>]
    BY <1>2
  <2>2. pick[(i - 1) + 1][i - 1] = pick[i - 1][i - 1]
    BY <1>3
  <2>3. pick[i][i - 1] = pick[i - 1][i - 1]
    BY <2>2
  <2> QED BY <2>1, <2>3
<1> QED
  <2> HIDE DEF g
  <2> QED BY <1>4, <1>5 DEF SolvesAll

-----------------------------------------------------------------------------

(* What a subset has whenever all its proper subsets have it, all have.    *)
LEMMA SubsetInduction ==
  ASSUME NEW S, IsFiniteSet(S), NEW P \in SUBSET SUBSET S,
         \A T \in SUBSET S : (\A U \in SUBSET T : U # T => U \in P) => T \in P
  PROVE  P = SUBSET S
<1>1. IsWellFoundedOn(StrictSubsetOrdering(S), SUBSET S)
  BY FS_StrictSubsetOrderingWellFounded, FS_FiniteSubsetsOfFinite
<1> SUFFICES ASSUME (SUBSET S) \ P # {} PROVE FALSE
  OBVIOUS
<1>2. PICK T \in (SUBSET S) \ P :
        \A U \in (SUBSET S) \ P : ~ (<<U, T>> \in StrictSubsetOrdering(S))
  <2> DEFINE Q == (SUBSET S) \ P
             R == StrictSubsetOrdering(S)
  <2>1. Q # {} /\ Q \subseteq SUBSET S /\ IsWellFoundedOn(R, SUBSET S)
    BY <1>1
  <2> HIDE DEF Q, R
  <2>2. \E T \in Q : \A U \in Q : ~ (<<U, T>> \in R)
    BY <2>1, WFMin
  <2> QED BY <2>2 DEF Q, R
<1>3. ASSUME NEW U \in SUBSET T, U # T PROVE U \in P
  BY <1>2, <1>3 DEF StrictSubsetOrdering
<1> QED BY <1>2, <1>3

-----------------------------------------------------------------------------
(* The recursion behind a sum over the subsets of S.                       *)
Least(s) == CHOOSE x \in s : TRUE
SumsOver(fun, S, g) ==
  g = [s \in SUBSET S |-> IF s = {} THEN 0 ELSE fun[Least(s)] + g[s \ {Least(s)}]]

(* The element chosen is one.                                              *)
LEMMA LeastIsMember == ASSUME NEW s, s # {} PROVE Least(s) \in s
BY DEF Least

(* Two solutions agree on the sets both are about.                         *)
LEMMA SumsAgree ==
  ASSUME NEW fun, NEW A, NEW B, IsFiniteSet(A), NEW g, NEW h,
         SumsOver(fun, A, g), SumsOver(fun, B, h),
         NEW T, T \subseteq A, T \subseteq B
  PROVE  g[T] = h[T]
<1> DEFINE P == {U \in SUBSET T : g[U] = h[U]}
<1>1. IsFiniteSet(T)
  BY FS_Subset
<1>2. ASSUME NEW U \in SUBSET T, \A V \in SUBSET U : V # U => V \in P
      PROVE  U \in P
  <2>1. CASE U = {}
    BY <2>1 DEF SumsOver
  <2>2. CASE U # {}
    <3> DEFINE V == U \ {Least(U)}
    <3>1. V \in SUBSET U /\ V # U
      BY <2>2, LeastIsMember
    <3>2. g[V] = h[V]
      BY <1>2, <3>1
    <3>3. U \in SUBSET A /\ U \in SUBSET B
      OBVIOUS
    <3>4. g[U] = fun[Least(U)] + g[V]
      BY <2>2, <3>3 DEF SumsOver
    <3>5. h[U] = fun[Least(U)] + h[V]
      BY <2>2, <3>3 DEF SumsOver
    <3> QED BY <3>2, <3>4, <3>5
  <2> QED BY <2>1, <2>2
<1>3. P \in SUBSET SUBSET T
  OBVIOUS
<1> HIDE DEF P
<1>4. P = SUBSET T
  BY <1>1, <1>2, <1>3, SubsetInduction
<1> QED BY <1>4 DEF P

(* There is one on a finite set: those below a set are put together.       *)
LEMMA SumsExist ==
  ASSUME NEW fun, NEW S, IsFiniteSet(S)
  PROVE  \E g : SumsOver(fun, S, g)
<1> DEFINE P == {T \in SUBSET S : \E g : SumsOver(fun, T, g)}
<1>1. ASSUME NEW T \in SUBSET S, \A U \in SUBSET T : U # T => U \in P
      PROVE  T \in P
  <2> DEFINE below(U) == CHOOSE g : SumsOver(fun, U, g)
             rest(s) == s \ {Least(s)}
             g == [s \in SUBSET T |-> IF s = {} THEN 0
                                      ELSE fun[Least(s)] + below(rest(s))[rest(s)]]
  <2>1. ASSUME NEW U \in SUBSET T, U # T
        PROVE  SumsOver(fun, U, below(U))
    BY <1>1, <2>1
  <2>2. ASSUME NEW s \in SUBSET T, s # {}
        PROVE  g[rest(s)] = below(rest(s))[rest(s)]
    <3> DEFINE U == rest(s)
    <3>1. U \in SUBSET T /\ U # T /\ U \in SUBSET U
      BY <2>2, LeastIsMember
    <3>2. SumsOver(fun, U, below(U))
      BY <2>1, <3>1
    <3>3. CASE U = {}
      <4>1. below(U)[U] = 0
        BY <3>1, <3>2, <3>3 DEF SumsOver
      <4> QED BY <3>1, <3>3, <4>1
    <3>4. CASE U # {}
      <4> DEFINE V == rest(U)
      <4>1. V \in SUBSET T /\ V # T /\ V \subseteq U
        BY <3>1, <3>4, LeastIsMember
      <4>2. SumsOver(fun, V, below(V))
        BY <2>1, <4>1
      <4>3. IsFiniteSet(U)
        BY <3>1, FS_Subset
      <4>4. below(U)[V] = below(V)[V]
        <5> HIDE DEF below, V, rest
        <5> QED BY <3>2, <4>1, <4>2, <4>3, SumsAgree
      <4>5. below(U)[U] = fun[Least(U)] + below(U)[V]
        <5> HIDE DEF below
        <5> QED BY <3>1, <3>2, <3>4 DEF SumsOver
      <4>6. g[U] = fun[Least(U)] + below(V)[V]
        <5> HIDE DEF below
        <5> QED BY <3>1, <3>4
      <4> QED BY <4>4, <4>5, <4>6
    <3> QED BY <3>3, <3>4
  <2>3. SumsOver(fun, T, g)
    <3>1. g = [s \in SUBSET T |-> IF s = {} THEN 0 ELSE fun[Least(s)] + g[rest(s)]]
      <4> HIDE DEF below, rest
      <4>1. \A s \in SUBSET T : g[s] = IF s = {} THEN 0 ELSE fun[Least(s)] + g[rest(s)]
        BY <2>2
      <4>2. g = [s \in SUBSET T |-> g[s]]
        OBVIOUS
      <4> HIDE DEF g
      <4> QED BY <4>1, <4>2
    <3> HIDE DEF g
    <3> QED BY <3>1 DEF SumsOver
  <2> QED BY <2>3
<1>2. P \in SUBSET SUBSET S
  OBVIOUS
<1> HIDE DEF P
<1>3. P = SUBSET S
  BY <1>1, <1>2, SubsetInduction
<1> QED BY <1>3 DEF P

(* SumFunctionOnSet takes its value from the solution on the whole set.    *)
LEMMA SumIsOfSolution ==
  ASSUME NEW fun, NEW S, IsFiniteSet(S), NEW g, SumsOver(fun, S, g), NEW T \in SUBSET S
  PROVE  SumFunctionOnSet(fun, T) = g[T]
<1> DEFINE h == CHOOSE k : SumsOver(fun, T, k)
<1>1. IsFiniteSet(T)
  BY FS_Subset
<1>2. SumsOver(fun, T, h)
  BY <1>1, SumsExist
<1>3. SumFunctionOnSet(fun, T) = h[T]
  BY DEF SumFunctionOnSet, FoldFunctionOnSet, MapThenFoldSet, SumsOver, Least
<1> HIDE DEF h
<1>4. h[T] = g[T]
  <2>1. T \subseteq T /\ T \subseteq S
    OBVIOUS
  <2> QED BY <1>1, <1>2, <2>1, SumsAgree
<1> QED BY <1>3, <1>4

(* A sum over no element.                                                  *)
LEMMA SumOfNothing ==
  ASSUME NEW fun
  PROVE  SumFunctionOnSet(fun, {}) = 0
<1>1. IsFiniteSet({})
  BY FS_EmptySet
<1>2. PICK g : SumsOver(fun, {}, g)
  BY <1>1, SumsExist
<1>3. g[{}] = 0
  BY <1>2 DEF SumsOver
<1> QED BY <1>1, <1>2, <1>3, SumIsOfSolution

(* Whichever element is taken first.                                       *)
LEMMA SumWithElement ==
  ASSUME NEW fun, NEW S, IsFiniteSet(S), \A x \in S : fun[x] \in Int
  PROVE  /\ SumFunctionOnSet(fun, S) \in Int
         /\ \A x \in S : SumFunctionOnSet(fun, S) = fun[x] + SumFunctionOnSet(fun, S \ {x})
<1>1. PICK g : SumsOver(fun, S, g)
  BY SumsExist
<1> DEFINE Splits(T) == /\ g[T] \in Int
                        /\ \A x \in T : g[T] = fun[x] + g[T \ {x}]
           P == {T \in SUBSET S : Splits(T)}
<1>2. ASSUME NEW T \in SUBSET S, \A U \in SUBSET T : U # T => U \in P
      PROVE  T \in P
  <2>1. CASE T = {}
    BY <1>1, <2>1 DEF SumsOver
  <2>2. CASE T # {}
    <3> DEFINE y == Least(T)
    <3>1. y \in T /\ T \ {y} \in SUBSET T /\ T \ {y} # T
      BY <2>2, LeastIsMember
    <3>2. g[T] = fun[y] + g[T \ {y}]
      BY <1>1, <2>2 DEF SumsOver
    <3>3. Splits(T \ {y})
      BY <1>2, <3>1
    <3> HIDE DEF y
    <3>4. ASSUME NEW x \in T, x # y
          PROVE  g[T] = fun[x] + g[T \ {x}]
      <4>1. Splits(T \ {x})
        BY <1>2, <3>4
      <4>2. g[T \ {y}] = fun[x] + g[(T \ {y}) \ {x}]
        BY <3>3, <3>4
      <4>3. g[T \ {x}] = fun[y] + g[(T \ {x}) \ {y}]
        BY <3>1, <3>4, <4>1
      <4>4. (T \ {y}) \ {x} = (T \ {x}) \ {y}
        OBVIOUS
      <4>5. Splits((T \ {x}) \ {y})
        BY <1>2, <3>4
      <4>6. fun[x] \in Int /\ fun[y] \in Int /\ g[(T \ {x}) \ {y}] \in Int
        BY <3>1, <3>4, <4>5
      <4> DEFINE a == fun[x]  b == fun[y]  r == g[(T \ {x}) \ {y}]
                 u == g[T \ {y}]  v == g[T \ {x}]
      <4>7. u = a + r /\ v = b + r /\ g[T] = b + u
        BY <3>2, <4>2, <4>3, <4>4
      <4>8. a \in Int /\ b \in Int /\ r \in Int
        BY <4>6
      <4> HIDE DEF a, b, r, u, v
      <4>9. g[T] = a + v
        BY <4>7, <4>8
      <4> QED BY <4>9 DEF a, v
    <3>5. g[T] \in Int
      BY <3>1, <3>2, <3>3
    <3>6. Splits(T)
      BY <3>2, <3>4, <3>5
    <3> QED BY <3>6
  <2> QED BY <2>1, <2>2
<1>3. P \in SUBSET SUBSET S
  OBVIOUS
<1> HIDE DEF P
<1>4. P = SUBSET S
  BY <1>2, <1>3, SubsetInduction
<1>5. Splits(S)
  BY <1>4 DEF P
<1>6. \A T \in SUBSET S : SumFunctionOnSet(fun, T) = g[T]
  BY <1>1, SumIsOfSolution
<1> QED BY <1>5, <1>6

(* What the empty set has and a further element does not take away.        *)
LEMMA ElementInduction ==
  ASSUME NEW S, IsFiniteSet(S), NEW P \in SUBSET SUBSET S, {} \in P,
         \A T \in P, x \in S : x \notin T => T \cup {x} \in P
  PROVE  P = SUBSET S
<1>1. ASSUME NEW T \in SUBSET S, \A U \in SUBSET T : U # T => U \in P
      PROVE  T \in P
  <2>1. CASE T = {}
    BY <2>1
  <2>2. CASE T # {}
    <3>1. PICK x \in T : TRUE
      BY <2>2
    <3> DEFINE U == T \ {x}
    <3>2. U \in SUBSET T /\ U # T /\ x \notin U /\ U \cup {x} = T
      BY <3>1
    <3>3. U \in P
      BY <1>1, <3>2
    <3> HIDE DEF U
    <3> QED BY <3>1, <3>2, <3>3
  <2> QED BY <2>1, <2>2
<1> QED BY <1>1, SubsetInduction

(* The value an added element brings.                                      *)
LEMMA SumGrows ==
  ASSUME NEW fun, NEW S, IsFiniteSet(S), NEW x, x \notin S,
         \A y \in S \cup {x} : fun[y] \in Int
  PROVE  /\ SumFunctionOnSet(fun, S) \in Int
         /\ SumFunctionOnSet(fun, S \cup {x}) = fun[x] + SumFunctionOnSet(fun, S)
<1> DEFINE T == S \cup {x}
<1>1. IsFiniteSet(T)
  BY FS_AddElement
<1>2. x \in T /\ T \ {x} = S /\ \A y \in T : fun[y] \in Int
  OBVIOUS
<1> HIDE DEF T
<1>3. SumFunctionOnSet(fun, T) = fun[x] + SumFunctionOnSet(fun, T \ {x})
  BY <1>1, <1>2, SumWithElement
<1> QED BY <1>2, <1>3, SumWithElement DEF T

(* A sum of numbers that are not negative is none either.                  *)
LEMMA SumOfNaturals ==
  ASSUME NEW fun, NEW S, IsFiniteSet(S), \A x \in S : fun[x] \in Nat
  PROVE  SumFunctionOnSet(fun, S) \in Nat
<1> DEFINE P == {T \in SUBSET S : SumFunctionOnSet(fun, T) \in Nat}
<1>1. {} \in P
  BY SumOfNothing
<1>2. ASSUME NEW T \in P, NEW x \in S, x \notin T
      PROVE  T \cup {x} \in P
  <2>1. IsFiniteSet(T) /\ T \cup {x} \in SUBSET S
    BY FS_Subset
  <2>2. \A y \in T \cup {x} : fun[y] \in Int
    BY <2>1
  <2>3. SumFunctionOnSet(fun, T \cup {x}) = fun[x] + SumFunctionOnSet(fun, T)
    BY <1>2, <2>1, <2>2, SumGrows
  <2> QED BY <2>1, <2>3
<1> HIDE DEF P
<1>3. P \in SUBSET SUBSET S
  BY DEF P
<1>4. P = SUBSET S
  BY <1>1, <1>2, <1>3, ElementInduction
<1> QED BY <1>4 DEF P

(* Functions that agree on a set have one sum over it.                     *)
LEMMA SumOfEquals ==
  ASSUME NEW f, NEW g, NEW S, IsFiniteSet(S),
         \A x \in S : f[x] \in Int /\ f[x] = g[x]
  PROVE  SumFunctionOnSet(f, S) = SumFunctionOnSet(g, S)
<1> DEFINE P == {T \in SUBSET S : SumFunctionOnSet(f, T) = SumFunctionOnSet(g, T)}
<1>1. {} \in P
  BY SumOfNothing
<1>2. ASSUME NEW T \in P, NEW x \in S, x \notin T
      PROVE  T \cup {x} \in P
  <2>1. IsFiniteSet(T) /\ T \cup {x} \in SUBSET S
    BY FS_Subset
  <2>2. \A y \in T \cup {x} : f[y] \in Int /\ g[y] \in Int /\ f[y] = g[y]
    BY <2>1
  <2>3. SumFunctionOnSet(f, T \cup {x}) = f[x] + SumFunctionOnSet(f, T)
    BY <1>2, <2>1, <2>2, SumGrows
  <2>4. SumFunctionOnSet(g, T \cup {x}) = g[x] + SumFunctionOnSet(g, T)
    BY <1>2, <2>1, <2>2, SumGrows
  <2> QED BY <2>1, <2>2, <2>3, <2>4
<1> HIDE DEF P
<1>3. P \in SUBSET SUBSET S
  BY DEF P
<1>4. P = SUBSET S
  BY <1>1, <1>2, <1>3, ElementInduction
<1> QED BY <1>4 DEF P

(* Summing under other names: f over S is g over what p takes S to.        *)
LEMMA SumRenamed ==
  ASSUME NEW f, NEW g, NEW p, NEW S, IsFiniteSet(S),
         \A x \in S : f[x] \in Int /\ g[p[x]] = f[x],
         \A x, y \in S : p[x] = p[y] => x = y
  PROVE  SumFunctionOnSet(f, S) = SumFunctionOnSet(g, {p[x] : x \in S})
<1> DEFINE Im(T) == {p[x] : x \in T}
           Agree(T) == IsFiniteSet(Im(T)) /\ SumFunctionOnSet(f, T) = SumFunctionOnSet(g, Im(T))
           P == {T \in SUBSET S : Agree(T)}
<1>1. {} \in P
  <2>1. Im({}) = {}
    OBVIOUS
  <2>2. IsFiniteSet({})
    BY FS_EmptySet
  <2> QED BY <2>1, <2>2, SumOfNothing
<1>2. ASSUME NEW T \in P, NEW x \in S, x \notin T
      PROVE  T \cup {x} \in P
  <2>1. IsFiniteSet(T) /\ T \cup {x} \in SUBSET S
    BY FS_Subset
  <2>2. Agree(T)
    OBVIOUS
  <2>3. Im(T \cup {x}) = Im(T) \cup {p[x]}
    OBVIOUS
  <2>4. p[x] \notin Im(T)
    BY <1>2, <2>1
  <2>5. \A y \in T \cup {x} : f[y] \in Int
    BY <2>1
  <2>6. SumFunctionOnSet(f, T \cup {x}) = f[x] + SumFunctionOnSet(f, T)
    BY <1>2, <2>1, <2>5, SumGrows
  <2>7. \A z \in Im(T) \cup {p[x]} : g[z] \in Int
    <3>1. \A y \in T \cup {x} : g[p[y]] \in Int
      BY <2>1
    <3> QED BY <2>3, <3>1
  <2>8. g[p[x]] = f[x]
    OBVIOUS
  <2> HIDE DEF Im
  <2>9. SumFunctionOnSet(g, Im(T) \cup {p[x]}) = g[p[x]] + SumFunctionOnSet(g, Im(T))
    BY <2>2, <2>4, <2>7, SumGrows
  <2>10. IsFiniteSet(Im(T) \cup {p[x]})
    BY <2>2, FS_AddElement
  <2>11. Agree(T \cup {x})
    BY <2>2, <2>3, <2>6, <2>8, <2>9, <2>10
  <2> QED BY <2>1, <2>11
<1>3. P \in SUBSET SUBSET S
  OBVIOUS
<1> HIDE DEF P
<1>4. P = SUBSET S
  BY <1>1, <1>2, <1>3, ElementInduction
<1> QED BY <1>4 DEF P

(* The sum over two sets without a common element.                         *)
LEMMA SumOfUnion ==
  ASSUME NEW f, NEW A, NEW S, IsFiniteSet(A), IsFiniteSet(S), A \cap S = {},
         \A x \in A \cup S : f[x] \in Int
  PROVE  SumFunctionOnSet(f, A \cup S)
           = SumFunctionOnSet(f, A) + SumFunctionOnSet(f, S)
<1> DEFINE P == {T \in SUBSET S : SumFunctionOnSet(f, A \cup T)
                                    = SumFunctionOnSet(f, A) + SumFunctionOnSet(f, T)}
<1>0. SumFunctionOnSet(f, A) \in Int
  BY SumWithElement
<1>1. {} \in P
  <2>1. A \cup {} = A
    OBVIOUS
  <2> QED BY <1>0, <2>1, SumOfNothing
<1>2. ASSUME NEW T \in P, NEW x \in S, x \notin T
      PROVE  T \cup {x} \in P
  <2>1. IsFiniteSet(T) /\ IsFiniteSet(A \cup T) /\ T \cup {x} \in SUBSET S
    BY FS_Subset, FS_Union
  <2>2. (\A y \in T \cup {x} : f[y] \in Int) /\ x \notin A \cup T
    BY <1>2, <2>1
  <2>3. /\ SumFunctionOnSet(f, T) \in Int
        /\ SumFunctionOnSet(f, T \cup {x}) = f[x] + SumFunctionOnSet(f, T)
    BY <1>2, <2>1, <2>2, SumGrows
  <2>4. \A y \in (A \cup T) \cup {x} : f[y] \in Int
    BY <2>1
  <2>5. SumFunctionOnSet(f, (A \cup T) \cup {x}) = f[x] + SumFunctionOnSet(f, A \cup T)
    BY <2>1, <2>2, <2>4, SumGrows
  <2>6. (A \cup T) \cup {x} = A \cup (T \cup {x})
    OBVIOUS
  <2>7. f[x] \in Int
    BY <2>4
  <2> DEFINE a == SumFunctionOnSet(f, A)  t == SumFunctionOnSet(f, T)  v == f[x]
  <2>8. SumFunctionOnSet(f, A \cup T) = a + t
    OBVIOUS
  <2> HIDE DEF a, t, v
  <2>9. v + (a + t) = a + (v + t)
    BY <1>0, <2>3, <2>7 DEF a, t, v
  <2>10. SumFunctionOnSet(f, A \cup (T \cup {x})) = a + SumFunctionOnSet(f, T \cup {x})
    BY <2>3, <2>5, <2>6, <2>8, <2>9 DEF t, v
  <2> QED BY <2>1, <2>10 DEF a
<1> HIDE DEF P
<1>3. P \in SUBSET SUBSET S
  BY DEF P
<1>4. P = SUBSET S
  BY <1>1, <1>2, <1>3, ElementInduction
<1> QED BY <1>4 DEF P

(* The same value from every element.                                      *)
LEMMA SumOfConstant ==
  ASSUME NEW f, NEW S, IsFiniteSet(S), NEW c \in Int, \A x \in S : f[x] = c
  PROVE  SumFunctionOnSet(f, S) = Cardinality(S) * c
<1> DEFINE P == {T \in SUBSET S : SumFunctionOnSet(f, T) = Cardinality(T) * c}
<1>1. {} \in P
  BY SumOfNothing, FS_EmptySet
<1>2. ASSUME NEW T \in P, NEW x \in S, x \notin T
      PROVE  T \cup {x} \in P
  <2>1. IsFiniteSet(T) /\ T \cup {x} \in SUBSET S
    BY FS_Subset
  <2>2. \A y \in T \cup {x} : f[y] \in Int
    BY <2>1
  <2>3. SumFunctionOnSet(f, T \cup {x}) = f[x] + SumFunctionOnSet(f, T)
    BY <1>2, <2>1, <2>2, SumGrows
  <2>4. Cardinality(T \cup {x}) = Cardinality(T) + 1 /\ Cardinality(T) \in Nat
    BY <1>2, <2>1, FS_AddElement, FS_CardinalityType
  <2>5. SumFunctionOnSet(f, T \cup {x}) = c + Cardinality(T) * c
    BY <2>3
  <2> DEFINE k == Cardinality(T)
  <2>6. k \in Nat /\ c + k * c = (k + 1) * c
    <3>1. k \in Nat
      BY <2>4
    <3> HIDE DEF k
    <3> QED BY <3>1
  <2> QED BY <2>1, <2>4, <2>5, <2>6
<1> HIDE DEF P
<1>3. P \in SUBSET SUBSET S
  BY DEF P
<1>4. P = SUBSET S
  BY <1>1, <1>2, <1>3, ElementInduction
<1> QED BY <1>4 DEF P

(* A finite set of integers that is not empty has a greatest element.      *)
LEMMA HasGreatest ==
  ASSUME NEW S \in SUBSET Int, IsFiniteSet(S), S # {}
  PROVE  \E x \in S : \A y \in S : y <= x
<1> DEFINE P == {T \in SUBSET S : T # {} => \E x \in T : \A y \in T : y <= x}
<1>1. {} \in P
  OBVIOUS
<1>2. ASSUME NEW T \in P, NEW z \in S, z \notin T
      PROVE  T \cup {z} \in P
  <2>1. CASE T = {}
    BY <2>1
  <2>2. CASE T # {}
    <3>1. PICK x \in T : \A y \in T : y <= x
      BY <2>2
    <3>2. x \in Int /\ z \in Int /\ T \subseteq Int
      BY <3>1
    <3>3. CASE z <= x
      BY <3>1, <3>2, <3>3
    <3>4. CASE ~ (z <= x)
      <4>1. \A y \in T \cup {z} : y <= z
        BY <3>1, <3>2, <3>4
      <4> QED BY <4>1
    <3> QED BY <3>3, <3>4
  <2> QED BY <2>1, <2>2
<1> HIDE DEF P
<1>3. P \in SUBSET SUBSET S
  BY DEF P
<1>4. P = SUBSET S
  BY <1>1, <1>2, <1>3, ElementInduction
<1> QED BY <1>4 DEF P

-----------------------------------------------------------------------------
(* What a remainder is.                                                    *)
LEMMA RemainderIs ==
  ASSUME NEW m \in Nat \ {0}, NEW a \in Int, NEW q \in Int, NEW r \in 0..(m - 1),
         a = m * q + r
  PROVE  a % m = r
OBVIOUS

(* A multiple of the modulus more changes no remainder.                    *)
LEMMA RemainderOfMultiple ==
  ASSUME NEW m \in Nat \ {0}, NEW a \in Int, NEW b \in Int, NEW q \in Int, a = b + m * q
  PROVE  a % m = b % m
<1>1. PICK k \in Int, r \in 0..(m - 1) : b = m * k + r
  <2> DEFINE k == b \div m  r == b % m
  <2>1. b = m * k + r /\ k \in Int /\ r \in 0..(m - 1)
    OBVIOUS
  <2> HIDE DEF k, r
  <2> QED BY <2>1
<1>2. b % m = r
  BY <1>1
<1> DEFINE l == k + q
<1>3. l \in Int /\ a = m * l + r
  BY <1>1
<1> HIDE DEF l
<1>4. a % m = r
  BY <1>3, RemainderIs
<1> QED BY <1>2, <1>4

(* A remainder is off by a multiple of the modulus.                        *)
LEMMA RemainderIsOff ==
  ASSUME NEW m \in Nat \ {0}, NEW a \in Int
  PROVE  a % m \in 0..(m - 1) /\ \E q \in Int : a = (a % m) + m * q
<1> DEFINE k == a \div m  r == a % m
<1>1. a = m * k + r /\ k \in Int /\ r \in 0..(m - 1)
  OBVIOUS
<1>2. r \in 0..(m - 1) /\ \E q \in Int : a = r + m * q
  <2> HIDE DEF k, r
  <2> QED BY <1>1
<1> QED BY <1>2

(* Whatever follows the recursion as long as it stays in V is a solution.      *)
LEMMA Solution ==
  ASSUME NEW V, NEW z \in V, NEW m \in Nat, NEW step,
         \A i \in 1..m, v \in V : step[<<i, v>>] \in V,
         NEW j, DOMAIN j = 0..m, j = [i \in 0..m |-> j[i]], j[0] = z,
         \A i \in 1..m : j[i - 1] \in V => j[i] = step[<<i, j[i - 1]>>]
  PROVE  Solves(V, z, m, step, j)
<1> DEFINE S == {n \in Nat : n <= m => j[n] \in V}
<1>1. 0 \in S
  OBVIOUS
<1>2. ASSUME NEW n \in S PROVE n + 1 \in S
  <2> SUFFICES ASSUME n + 1 <= m PROVE j[n + 1] \in V
    OBVIOUS
  <2>1. j[n] \in V /\ n + 1 \in 1..m /\ (n + 1) - 1 = n
    OBVIOUS
  <2>2. j[n + 1] = step[<<n + 1, j[n]>>]
    BY <2>1
  <2> QED BY <2>1, <2>2
<1>3. S = Nat
  <2> HIDE DEF S
  <2>1. S \in SUBSET Nat
    BY DEF S
  <2> QED BY <1>1, <1>2, <2>1, NumberInduction
<1>4. \A i \in 0..m : j[i] \in V
  BY <1>3
<1>5. \A i \in 1..m : i - 1 \in 0..m
  OBVIOUS
<1>6. j \in [0..m -> V]
  BY <1>4
<1> QED BY <1>4, <1>5, <1>6 DEF Solves
=============================================================================
