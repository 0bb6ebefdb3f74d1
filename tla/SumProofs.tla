----------------------------- MODULE SumProofs -----------------------------
(***************************************************************************)
(* Facts about SumFunction (module Functions) over a finite domain, for    *)
(* the invariants that balance an account against what it owes.            *)
(*                                                                         *)
(* The induction principles of the library take an operator as parameter.  *)
(* These proofs use its WFMin instead: a set of subsets of a finite set    *)
(* that is not empty has a minimal member.                                 *)
(***************************************************************************)
EXTENDS Integers, Functions, FiniteSetTheorems, TLAPS

(* A set of subsets of S that holds every subset whose proper subsets it    *)
(* holds, holds all of them.                                                *)
LEMMA SubsetInduction ==
  ASSUME NEW S, IsFiniteSet(S),
         NEW T,
         \A U \in SUBSET S : (\A V \in SUBSET U : V # U => V \in T) => U \in T
  PROVE  \A U \in SUBSET S : U \in T
<1> DEFINE C == (SUBSET S) \ T
           R == StrictSubsetOrdering(S)
<1>1. IsWellFoundedOn(R, SUBSET S)
  BY FS_StrictSubsetOrderingWellFounded, FS_FiniteSubsetsOfFinite
<1> HIDE DEF R
<1>2. SUFFICES ASSUME C # {} PROVE FALSE
  OBVIOUS
<1>3. C \subseteq SUBSET S
  OBVIOUS
<1>4. PICK U \in C : \A V \in C : ~ (<<V, U>> \in R)
  <2> HIDE DEF C
  <2> QED BY <1>1, <1>2, <1>3, WFMin
<1>5. \A V \in SUBSET U : V # U => V \in T
  <2>1. SUFFICES ASSUME NEW V \in SUBSET U, V # U, V \notin T PROVE FALSE
    OBVIOUS
  <2>2. V \in C
    BY <2>1
  <2>3. <<V, U>> \in R
    BY <2>1 DEF R, StrictSubsetOrdering
  <2> QED BY <2>2, <2>3, <1>4
<1> QED BY <1>5

-----------------------------------------------------------------------------

Pick(s) == CHOOSE x \in s : TRUE

(* g is the running sum of f on the subsets of S. *)
Running(f, g, S) ==
  g = [s \in SUBSET S |-> IF s = {} THEN 0 ELSE f[Pick(s)] + g[s \ {Pick(s)}]]

(* What SumFunctionOnSet is, as a function chosen by its recursive equation. *)
LEMMA SumIsRunning ==
  ASSUME NEW f, NEW S
  PROVE  SumFunctionOnSet(f, S) = (CHOOSE g : Running(f, g, S))[S]
BY DEF SumFunctionOnSet, FoldFunctionOnSet, MapThenFoldSet, Running, Pick

(* A non-empty set holds the element Pick takes from it. *)
LEMMA PickIn ==
  ASSUME NEW s, s # {}
  PROVE  Pick(s) \in s
BY DEF Pick

(* Two running sums of f agree wherever both are defined. *)
LEMMA RunningUnique ==
  ASSUME NEW f, NEW g, NEW h, NEW U, NEW V, IsFiniteSet(U), V \subseteq U,
         Running(f, g, U), Running(f, h, V)
  PROVE  \A s \in SUBSET V : g[s] = h[s]
<1> DEFINE T == {s \in SUBSET V : g[s] = h[s]}
<1>1. IsFiniteSet(V)
  BY FS_Subset
<1>2. ASSUME NEW W \in SUBSET V, \A X \in SUBSET W : X # W => X \in T
      PROVE  W \in T
  <2>1. CASE W = {}
    BY <2>1 DEF Running
  <2>2. CASE W # {}
    <3>1. Pick(W) \in W
      BY <2>2, PickIn
    <3>2. W \ {Pick(W)} \in T
      BY <3>1, <1>2
    <3>3. /\ g[W] = f[Pick(W)] + g[W \ {Pick(W)}]
          /\ h[W] = f[Pick(W)] + h[W \ {Pick(W)}]
      BY <2>2 DEF Running
    <3> QED BY <3>2, <3>3
  <2> QED BY <2>1, <2>2
<1> HIDE DEF T
<1>3. \A W \in SUBSET V : W \in T
  BY <1>1, <1>2, SubsetInduction
<1> QED BY <1>3 DEF T

(* Every finite set has a running sum. *)
LEMMA RunningExists ==
  ASSUME NEW f, NEW S, IsFiniteSet(S)
  PROVE  \A U \in SUBSET S : \E g : Running(f, g, U)
<1> DEFINE T == {U \in SUBSET S : \E g : Running(f, g, U)}
<1>1. ASSUME NEW U \in SUBSET S, \A V \in SUBSET U : V # U => V \in T
      PROVE  U \in T
  <2> DEFINE Sum(s) == (CHOOSE g : Running(f, g, s))[s]
             G == [s \in SUBSET U |-> IF s = {} THEN 0
                                      ELSE f[Pick(s)] + Sum(s \ {Pick(s)})]
  <2>1. ASSUME NEW s \in SUBSET U, s # {}
        PROVE  G[s \ {Pick(s)}] = Sum(s \ {Pick(s)})
    <3> DEFINE W == s \ {Pick(s)}
               g == CHOOSE k : Running(f, k, W)
    <3>1. W \in SUBSET U /\ W # U
      BY <2>1, PickIn
    <3>2. Running(f, g, W)
      BY <3>1, <1>1
    <3>3. CASE W = {}
      BY <3>1, <3>2, <3>3 DEF Running
    <3>4. CASE W # {}
      <4> DEFINE X == W \ {Pick(W)}
                 h == CHOOSE k : Running(f, k, X)
      <4>1. X \in SUBSET W /\ X # W
        BY <3>4, PickIn
      <4>2. Running(f, h, X)
        BY <3>1, <4>1, <1>1
      <4>3. g[X] = h[X]
        <5>1. IsFiniteSet(W)
          BY <3>1, FS_Subset
        <5> HIDE DEF g, h, X, W
        <5> QED BY <5>1, <4>1, <4>2, <3>2, RunningUnique
      <4>4. g[W] = f[Pick(W)] + g[X]
        <5> HIDE DEF g
        <5> QED BY <3>2, <3>4 DEF Running
      <4>5. G[W] = f[Pick(W)] + h[X]
        BY <3>1, <3>4
      <4> QED BY <4>3, <4>4, <4>5
    <3> QED BY <3>3, <3>4
  <2>2. Running(f, G, U)
    <3> HIDE DEF Sum
    <3>1. G = [s \in SUBSET U |-> IF s = {} THEN 0 ELSE f[Pick(s)] + G[s \ {Pick(s)}]]
      BY <2>1
    <3> HIDE DEF G
    <3> QED BY <3>1 DEF Running
  <2> QED BY <2>2
<1> HIDE DEF T
<1>2. \A U \in SUBSET S : U \in T
  BY <1>1, SubsetInduction
<1> QED BY <1>2 DEF T

(* The equation of the sum. *)
LEMMA SumEquation ==
  ASSUME NEW f, NEW S, IsFiniteSet(S)
  PROVE  SumFunctionOnSet(f, S) =
           IF S = {} THEN 0
           ELSE f[Pick(S)] + SumFunctionOnSet(f, S \ {Pick(S)})
<1> DEFINE W == S \ {Pick(S)}
           g == CHOOSE k : Running(f, k, S)
           h == CHOOSE k : Running(f, k, W)
<1>1. Running(f, g, S) /\ Running(f, h, W)
  BY RunningExists
<1>2. g[W] = h[W]
  <2> HIDE DEF g, h
  <2> QED BY <1>1, RunningUnique
<1>3. g[S] = IF S = {} THEN 0 ELSE f[Pick(S)] + g[W]
  <2> HIDE DEF g
  <2> QED BY <1>1 DEF Running
<1>4. SumFunctionOnSet(f, S) = g[S] /\ SumFunctionOnSet(f, W) = h[W]
  BY SumIsRunning
<1> HIDE DEF g, h
<1> QED BY <1>2, <1>3, <1>4

-----------------------------------------------------------------------------

LEMMA SumEmpty ==
  ASSUME NEW f
  PROVE  SumFunctionOnSet(f, {}) = 0
<1>1. IsFiniteSet({})
  BY FS_EmptySet
<1> QED BY <1>1, SumEquation

(* A sum of integers is an integer, one of naturals a natural. *)
LEMMA SumOnSetType ==
  ASSUME NEW N \in {Int, Nat}, NEW S, IsFiniteSet(S), NEW f, \A x \in S : f[x] \in N
  PROVE  SumFunctionOnSet(f, S) \in N
<1> DEFINE T == {U \in SUBSET S : SumFunctionOnSet(f, U) \in N}
<1>1. ASSUME NEW U \in SUBSET S, \A V \in SUBSET U : V # U => V \in T
      PROVE  U \in T
  <2>1. IsFiniteSet(U)
    BY FS_Subset
  <2>2. CASE U = {}
    BY <2>2, SumEmpty
  <2>3. CASE U # {}
    <3>1. Pick(U) \in U
      BY <2>3, PickIn
    <3>2. SumFunctionOnSet(f, U \ {Pick(U)}) \in N
      BY <3>1, <1>1
    <3>3. SumFunctionOnSet(f, U) = f[Pick(U)] + SumFunctionOnSet(f, U \ {Pick(U)})
      BY <2>1, <2>3, SumEquation
    <3>4. f[Pick(U)] \in N
      BY <3>1
    <3> QED BY <3>2, <3>3, <3>4
  <2> QED BY <2>2, <2>3
<1> HIDE DEF T
<1>2. \A U \in SUBSET S : U \in T
  BY <1>1, SubsetInduction
<1> QED BY <1>2 DEF T

(* Any element of the set can be summed first: the order does not matter. *)
LEMMA SumRemove ==
  ASSUME NEW S, IsFiniteSet(S), NEW f, \A x \in S : f[x] \in Int
  PROVE  \A y \in S : SumFunctionOnSet(f, S) = f[y] + SumFunctionOnSet(f, S \ {y})
<1> DEFINE T == {U \in SUBSET S : \A y \in U :
                   SumFunctionOnSet(f, U) = f[y] + SumFunctionOnSet(f, U \ {y})}
<1>1. ASSUME NEW U \in SUBSET S, \A V \in SUBSET U : V # U => V \in T
      PROVE  U \in T
  <2>1. SUFFICES ASSUME NEW y \in U
                 PROVE  SumFunctionOnSet(f, U) = f[y] + SumFunctionOnSet(f, U \ {y})
    OBVIOUS
  <2> DEFINE x == Pick(U)
             W == U \ {x, y}
  <2>2. IsFiniteSet(U) /\ IsFiniteSet(W)
    BY FS_Subset
  <2>3. x \in U
    BY PickIn
  <2>4. SumFunctionOnSet(f, U) = f[x] + SumFunctionOnSet(f, U \ {x})
    BY <2>2, SumEquation
  <2>5. CASE x = y
    BY <2>4, <2>5
  <2>6. CASE x # y
    <3>1. /\ U \ {x} \in T /\ y \in U \ {x} /\ (U \ {x}) \ {y} = W
          /\ U \ {y} \in T /\ x \in U \ {y} /\ (U \ {y}) \ {x} = W
      BY <1>1, <2>3, <2>6
    <3>2. /\ SumFunctionOnSet(f, U \ {x}) = f[y] + SumFunctionOnSet(f, W)
          /\ SumFunctionOnSet(f, U \ {y}) = f[x] + SumFunctionOnSet(f, W)
      <4> HIDE DEF W
      <4> QED BY <3>1
    <3>3. SumFunctionOnSet(f, W) \in Int /\ f[x] \in Int /\ f[y] \in Int
      BY <2>2, <2>3, SumOnSetType
    <3> QED BY <2>4, <3>2, <3>3
  <2> QED BY <2>5, <2>6
<1> HIDE DEF T
<1>2. \A U \in SUBSET S : U \in T
  BY <1>1, SubsetInduction
<1> QED BY <1>2 DEF T

(* A sum is the sum over a part and over the rest. *)
LEMMA SumSplit ==
  ASSUME NEW S, IsFiniteSet(S), NEW f, \A x \in S : f[x] \in Int
  PROVE  \A U \in SUBSET S :
           SumFunctionOnSet(f, S) = SumFunctionOnSet(f, U) + SumFunctionOnSet(f, S \ U)
<1> DEFINE T == {U \in SUBSET S :
             SumFunctionOnSet(f, S) = SumFunctionOnSet(f, U) + SumFunctionOnSet(f, S \ U)}
<1>1. ASSUME NEW U \in SUBSET S, \A V \in SUBSET U : V # U => V \in T
      PROVE  U \in T
  <2> DEFINE y == Pick(U)
             V == U \ {y}
  <2>1. IsFiniteSet(U) /\ IsFiniteSet(V) /\ IsFiniteSet(S \ V) /\ IsFiniteSet(S \ U)
    BY FS_Subset
  <2>2. /\ SumFunctionOnSet(f, S) \in Int
        /\ SumFunctionOnSet(f, V) \in Int
        /\ SumFunctionOnSet(f, S \ U) \in Int
    <3>1. /\ \A x \in V : f[x] \in Int
          /\ \A x \in S \ U : f[x] \in Int
      OBVIOUS
    <3> HIDE DEF V
    <3> QED BY <2>1, <3>1, SumOnSetType
  <2>3. CASE U = {}
    <3>1. S \ U = S
      BY <2>3
    <3>2. SumFunctionOnSet(f, U) = 0
      BY <2>3, SumEmpty
    <3>3. SumFunctionOnSet(f, S) = 0 + SumFunctionOnSet(f, S)
      BY <2>2
    <3> QED BY <3>1, <3>2, <3>3
  <2>4. CASE U # {}
    <3>1. y \in U /\ V # U
      BY <2>4, PickIn
    <3>2. SumFunctionOnSet(f, S) = SumFunctionOnSet(f, V) + SumFunctionOnSet(f, S \ V)
      BY <3>1, <1>1
    <3>3. SumFunctionOnSet(f, U) = f[y] + SumFunctionOnSet(f, V)
      BY <2>1, <3>1, SumRemove
    <3>4. /\ y \in S \ V
          /\ (S \ V) \ {y} = S \ U
          /\ \A x \in S \ V : f[x] \in Int
      BY <3>1
    <3>5. SumFunctionOnSet(f, S \ V) = f[y] + SumFunctionOnSet(f, S \ U)
      <4> HIDE DEF V, y
      <4> QED BY <2>1, <3>4, SumRemove
    <3>6. f[y] \in Int
      BY <3>1
    <3> HIDE DEF V, y
    <3> QED BY <2>2, <3>2, <3>3, <3>5, <3>6
  <2> QED BY <2>3, <2>4
<1> HIDE DEF T
<1>2. \A U \in SUBSET S : U \in T
  BY <1>1, SubsetInduction
<1> QED BY <1>2 DEF T

(* Two functions that agree on the set have the same sum. *)
LEMMA SumAgree ==
  ASSUME NEW S, IsFiniteSet(S), NEW f, NEW g, \A x \in S : f[x] = g[x]
  PROVE  SumFunctionOnSet(f, S) = SumFunctionOnSet(g, S)
<1> DEFINE T == {U \in SUBSET S : SumFunctionOnSet(f, U) = SumFunctionOnSet(g, U)}
<1>1. ASSUME NEW U \in SUBSET S, \A V \in SUBSET U : V # U => V \in T
      PROVE  U \in T
  <2>1. IsFiniteSet(U)
    BY FS_Subset
  <2>2. CASE U = {}
    BY <2>2, SumEmpty
  <2>3. CASE U # {}
    <3>1. Pick(U) \in U /\ Pick(U) \in S
      BY <2>3, PickIn
    <3>2. SumFunctionOnSet(f, U \ {Pick(U)}) = SumFunctionOnSet(g, U \ {Pick(U)})
      BY <3>1, <1>1
    <3> QED BY <2>1, <2>3, <3>1, <3>2, SumEquation
  <2> QED BY <2>2, <2>3
<1> HIDE DEF T
<1>2. \A U \in SUBSET S : U \in T
  BY <1>1, SubsetInduction
<1> QED BY <1>2 DEF T

(* A function that is nowhere greater has a sum that is not greater. *)
LEMMA SumMonotone ==
  ASSUME NEW S, IsFiniteSet(S), NEW f, NEW g,
         \A x \in S : f[x] \in Int /\ g[x] \in Int /\ f[x] <= g[x]
  PROVE  SumFunctionOnSet(f, S) <= SumFunctionOnSet(g, S)
<1> DEFINE T == {U \in SUBSET S : SumFunctionOnSet(f, U) <= SumFunctionOnSet(g, U)}
<1>1. ASSUME NEW U \in SUBSET S, \A V \in SUBSET U : V # U => V \in T
      PROVE  U \in T
  <2>1. IsFiniteSet(U) /\ IsFiniteSet(U \ {Pick(U)})
    BY FS_Subset
  <2>2. CASE U = {}
    BY <2>2, SumEmpty
  <2>3. CASE U # {}
    <3>1. Pick(U) \in U /\ Pick(U) \in S
      BY <2>3, PickIn
    <3>2. SumFunctionOnSet(f, U \ {Pick(U)}) <= SumFunctionOnSet(g, U \ {Pick(U)})
      BY <3>1, <1>1
    <3>3. /\ SumFunctionOnSet(f, U) = f[Pick(U)] + SumFunctionOnSet(f, U \ {Pick(U)})
          /\ SumFunctionOnSet(g, U) = g[Pick(U)] + SumFunctionOnSet(g, U \ {Pick(U)})
      BY <2>1, <2>3, SumEquation
    <3>4. /\ SumFunctionOnSet(f, U \ {Pick(U)}) \in Int
          /\ SumFunctionOnSet(g, U \ {Pick(U)}) \in Int
      <4>1. \A x \in U \ {Pick(U)} : f[x] \in Int /\ g[x] \in Int
        OBVIOUS
      <4> QED BY <2>1, <4>1, SumOnSetType
    <3> QED BY <3>1, <3>2, <3>3, <3>4
  <2> QED BY <2>2, <2>3
<1> HIDE DEF T
<1>2. \A U \in SUBSET S : U \in T
  BY <1>1, SubsetInduction
<1> QED BY <1>2 DEF T

-----------------------------------------------------------------------------

(* SumFunction adds up a function over its domain. *)

LEMMA SumNat ==
  ASSUME NEW S, IsFiniteSet(S), NEW f \in [S -> Nat]
  PROVE  SumFunction(f) \in Nat
BY SumOnSetType DEF SumFunction

LEMMA SumInt ==
  ASSUME NEW S, IsFiniteSet(S), NEW f \in [S -> Int]
  PROVE  SumFunction(f) \in Int
BY SumOnSetType DEF SumFunction

(* A function changed at one point changes its sum by the difference. *)
LEMMA SumPoint ==
  ASSUME NEW S, IsFiniteSet(S), NEW f \in [S -> Int], NEW g \in [S -> Int],
         NEW y \in S, \A x \in S \ {y} : g[x] = f[x]
  PROVE  SumFunction(g) = SumFunction(f) + (g[y] - f[y])
<1>1. IsFiniteSet(S \ {y})
  BY FS_RemoveElement
<1>2. SumFunctionOnSet(f, S \ {y}) = SumFunctionOnSet(g, S \ {y})
  BY <1>1, SumAgree
<1>3. /\ SumFunctionOnSet(f, S) = f[y] + SumFunctionOnSet(f, S \ {y})
      /\ SumFunctionOnSet(g, S) = g[y] + SumFunctionOnSet(g, S \ {y})
  BY SumRemove
<1>4. SumFunctionOnSet(f, S \ {y}) \in Int
  BY <1>1, SumOnSetType
<1>5. f[y] \in Int /\ g[y] \in Int
  OBVIOUS
<1>6. SumFunctionOnSet(g, S) = SumFunctionOnSet(f, S) + (g[y] - f[y])
  BY <1>2, <1>3, <1>4, <1>5
<1> QED BY <1>6 DEF SumFunction

LEMMA SumLeq ==
  ASSUME NEW S, IsFiniteSet(S), NEW f \in [S -> Int], NEW g \in [S -> Int],
         \A x \in S : f[x] <= g[x]
  PROVE  SumFunction(f) <= SumFunction(g)
BY SumMonotone DEF SumFunction

(* The sum of a function that is zero everywhere. *)
LEMMA SumZero ==
  ASSUME NEW S, IsFiniteSet(S), NEW f \in [S -> Int], \A x \in S : f[x] = 0
  PROVE  SumFunction(f) = 0
<1> DEFINE T == {U \in SUBSET S : SumFunctionOnSet(f, U) = 0}
<1>1. ASSUME NEW U \in SUBSET S, \A V \in SUBSET U : V # U => V \in T
      PROVE  U \in T
  <2>1. IsFiniteSet(U)
    BY FS_Subset
  <2>2. CASE U = {}
    BY <2>2, SumEmpty
  <2>3. CASE U # {}
    <3>1. Pick(U) \in U /\ Pick(U) \in S
      BY <2>3, PickIn
    <3>2. SumFunctionOnSet(f, U \ {Pick(U)}) = 0
      BY <3>1, <1>1
    <3> QED BY <2>1, <2>3, <3>1, <3>2, SumEquation
  <2> QED BY <2>2, <2>3
<1> HIDE DEF T
<1>2. \A U \in SUBSET S : U \in T
  BY <1>1, SubsetInduction
<1> QED BY <1>2 DEF T, SumFunction

(* The sum of two functions is the sum of their sums. *)
LEMMA SumPlus ==
  ASSUME NEW S, IsFiniteSet(S), NEW f \in [S -> Int], NEW g \in [S -> Int]
  PROVE  SumFunction([x \in S |-> f[x] + g[x]]) = SumFunction(f) + SumFunction(g)
<1> DEFINE h == [x \in S |-> f[x] + g[x]]
           T == {U \in SUBSET S :
                   SumFunctionOnSet(h, U) = SumFunctionOnSet(f, U) + SumFunctionOnSet(g, U)}
<1>1. h \in [S -> Int] /\ \A x \in S : h[x] = f[x] + g[x]
  OBVIOUS
<1> HIDE DEF h
<1>2. ASSUME NEW U \in SUBSET S, \A V \in SUBSET U : V # U => V \in T
      PROVE  U \in T
  <2> DEFINE y == Pick(U)
             V == U \ {y}
  <2>1. IsFiniteSet(U) /\ IsFiniteSet(V)
    BY FS_Subset
  <2>2. CASE U = {}
    BY <2>2, SumEmpty
  <2>3. CASE U # {}
    <3>1. y \in U /\ y \in S /\ V # U
      BY <2>3, PickIn
    <3>2. V \in T
      BY <3>1, <1>2
    <3>3. /\ SumFunctionOnSet(h, U) = h[y] + SumFunctionOnSet(h, V)
          /\ SumFunctionOnSet(f, U) = f[y] + SumFunctionOnSet(f, V)
          /\ SumFunctionOnSet(g, U) = g[y] + SumFunctionOnSet(g, V)
      BY <2>1, <2>3, SumEquation
    <3>4. SumFunctionOnSet(f, V) \in Int /\ SumFunctionOnSet(g, V) \in Int
      <4>1. \A x \in V : f[x] \in Int /\ g[x] \in Int
        OBVIOUS
      <4> HIDE DEF V
      <4> QED BY <2>1, <4>1, SumOnSetType
    <3>5. h[y] = f[y] + g[y] /\ f[y] \in Int /\ g[y] \in Int
      BY <1>1, <3>1
    <3> HIDE DEF y, V
    <3> QED BY <3>2, <3>3, <3>4, <3>5
  <2> QED BY <2>2, <2>3
<1> HIDE DEF T
<1>3. \A U \in SUBSET S : U \in T
  BY <1>2, SubsetInduction
<1>4. SumFunctionOnSet(h, S) = SumFunctionOnSet(f, S) + SumFunctionOnSet(g, S)
  BY <1>3 DEF T
<1>5. DOMAIN h = S /\ DOMAIN f = S /\ DOMAIN g = S
  BY <1>1
<1>6. SumFunction(h) = SumFunction(f) + SumFunction(g)
  BY <1>4, <1>5 DEF SumFunction
<1> QED BY <1>6 DEF h

(* Sums compare as the functions do, two against one or one against two. *)
LEMMA SumLeqPlus ==
  ASSUME NEW S, IsFiniteSet(S), NEW f \in [S -> Int], NEW g \in [S -> Int],
         NEW h \in [S -> Int], \A x \in S : f[x] <= g[x] + h[x]
  PROVE  SumFunction(f) <= SumFunction(g) + SumFunction(h)
<1> DEFINE k == [x \in S |-> g[x] + h[x]]
<1>1. k \in [S -> Int] /\ \A x \in S : f[x] <= k[x]
  OBVIOUS
<1>2. SumFunction(k) = SumFunction(g) + SumFunction(h)
  BY SumPlus
<1> HIDE DEF k
<1>3. SumFunction(f) <= SumFunction(k)
  BY <1>1, SumLeq
<1> QED BY <1>2, <1>3

LEMMA SumPlusLeq ==
  ASSUME NEW S, IsFiniteSet(S), NEW f \in [S -> Int], NEW g \in [S -> Int],
         NEW h \in [S -> Int], \A x \in S : f[x] + g[x] <= h[x]
  PROVE  SumFunction(f) + SumFunction(g) <= SumFunction(h)
<1> DEFINE k == [x \in S |-> f[x] + g[x]]
<1>1. k \in [S -> Int] /\ \A x \in S : k[x] <= h[x]
  OBVIOUS
<1>2. SumFunction(k) = SumFunction(f) + SumFunction(g)
  BY SumPlus
<1> HIDE DEF k
<1>3. SumFunction(k) <= SumFunction(h)
  BY <1>1, SumLeq
<1> QED BY <1>2, <1>3

(* A sum over a part of a set is one over the whole, with zero elsewhere. *)
LEMMA SumRestrict ==
  ASSUME NEW S, IsFiniteSet(S), NEW f, NEW T \in SUBSET S, \A x \in S : f[x] \in Int
  PROVE  SumFunctionOnSet(f, T) = SumFunction([x \in S |-> IF x \in T THEN f[x] ELSE 0])
<1> DEFINE g == [x \in S |-> IF x \in T THEN f[x] ELSE 0]
<1>1. /\ g \in [S -> Int] /\ DOMAIN g = S
      /\ \A x \in T : f[x] = g[x]
      /\ \A x \in S \ T : g[x] = 0
  OBVIOUS
<1> HIDE DEF g
<1>2. IsFiniteSet(T) /\ IsFiniteSet(S \ T)
  BY FS_Subset
<1>3. SumFunctionOnSet(g, S) = SumFunctionOnSet(g, T) + SumFunctionOnSet(g, S \ T)
  BY <1>1, SumSplit
<1>4. SumFunctionOnSet(f, T) = SumFunctionOnSet(g, T)
  BY <1>1, <1>2, SumAgree
<1>5. SumFunctionOnSet(g, S \ T) = 0
  <2> DEFINE z == [x \in S \ T |-> 0]
  <2>1. z \in [S \ T -> Int] /\ DOMAIN z = S \ T /\ \A x \in S \ T : z[x] = 0 /\ g[x] = z[x]
    BY <1>1
  <2> HIDE DEF z
  <2>2. SumFunction(z) = 0
    BY <1>2, <2>1, SumZero
  <2>3. SumFunctionOnSet(g, S \ T) = SumFunctionOnSet(z, S \ T)
    BY <1>2, <2>1, SumAgree
  <2> QED BY <2>1, <2>2, <2>3 DEF SumFunction
<1>6. SumFunctionOnSet(g, T) \in Int
  BY <1>1, <1>2, SumOnSetType
<1>7. SumFunctionOnSet(f, T) = SumFunction(g)
  BY <1>1, <1>3, <1>4, <1>5, <1>6 DEF SumFunction
<1> QED BY <1>7 DEF g

(* One value of a sum of naturals is at most the sum. *)
LEMMA SumMember ==
  ASSUME NEW S, IsFiniteSet(S), NEW f \in [S -> Nat], NEW y \in S
  PROVE  f[y] <= SumFunction(f)
<1>1. IsFiniteSet(S \ {y})
  BY FS_RemoveElement
<1>2. SumFunctionOnSet(f, S) = f[y] + SumFunctionOnSet(f, S \ {y})
  BY SumRemove
<1>3. SumFunctionOnSet(f, S \ {y}) \in Nat
  BY <1>1, SumOnSetType
<1> QED BY <1>2, <1>3 DEF SumFunction

(* f and g differ only at the different points x[1], ..., x[n], and there   *)
(* by D[1], ..., D[n].                                                      *)
DifferAt(S, f, g, n, x, D) ==
  /\ \A i \in 1..n : x[i] \in S
  /\ \A i, j \in 1..n : x[i] = x[j] => i = j
  /\ \A y \in S : (\A i \in 1..n : x[i] # y) => g[y] = f[y]
  /\ \A i \in 1..4 : D[i] = IF i <= n THEN g[x[i]] - f[x[i]] ELSE 0

LEMMA SumFourPoints ==
  ASSUME NEW S, IsFiniteSet(S), NEW f \in [S -> Int], NEW g \in [S -> Int],
         NEW n \in Nat, n <= 4, NEW x, NEW D \in [1..4 -> Int],
         DifferAt(S, f, g, n, x, D)
  PROVE  SumFunction(g) = SumFunction(f) + (D[1] + D[2] + D[3] + D[4])
<1> USE DEF DifferAt
<1> DEFINE H(k) == [y \in S |-> IF \E i \in 1..n : i <= k /\ x[i] = y THEN g[y] ELSE f[y]]
<1>1. H(0) = f
  BY DEF H
<1>2. H(4) = g
  <2>1. \A y \in S : H(4)[y] = g[y]
    BY DEF H
  <2> QED BY <2>1
<1>3. ASSUME NEW k \in 1..4
      PROVE  SumFunction(H(k)) = SumFunction(H(k - 1)) + D[k] /\ SumFunction(H(k)) \in Int
  <2>1. H(k) \in [S -> Int] /\ H(k - 1) \in [S -> Int]
    OBVIOUS
  <2>2. CASE k <= n
    <3>1. k \in 1..n /\ x[k] \in S
      BY <2>2
    <3>2. H(k)[x[k]] = g[x[k]] /\ H(k - 1)[x[k]] = f[x[k]]
      BY <3>1
    <3>3. \A y \in S \ {x[k]} : H(k)[y] = H(k - 1)[y]
      <4>1. \A i \in 1..n : i <= k /\ i # k => i <= k - 1
        OBVIOUS
      <4> QED BY <4>1, <3>1
    <3>4. D[k] = g[x[k]] - f[x[k]]
      BY <2>2
    <3> HIDE DEF H
    <3>5. SumFunction(H(k)) = SumFunction(H(k - 1)) + (H(k)[x[k]] - H(k - 1)[x[k]])
      BY <2>1, <3>1, <3>3, SumPoint
    <3> QED BY <2>1, <3>2, <3>4, <3>5, SumInt
  <2>3. CASE ~(k <= n)
    <3>1. H(k) = H(k - 1)
      <4>1. \A i \in 1..n : i <= k /\ i <= k - 1
        BY <2>3
      <4> QED BY <4>1
    <3>2. D[k] = 0
      BY <2>3
    <3> HIDE DEF H
    <3>3. SumFunction(H(k)) \in Int
      BY <2>1, SumInt
    <3> QED BY <3>1, <3>2, <3>3
  <2> QED BY <2>2, <2>3
<1>4. SumFunction(f) \in Int
  BY SumInt
<1> HIDE DEF H
<1>5. /\ 1 \in 1..4 /\ 2 \in 1..4 /\ 3 \in 1..4 /\ 4 \in 1..4
      /\ 1 - 1 = 0 /\ 2 - 1 = 1 /\ 3 - 1 = 2 /\ 4 - 1 = 3
  OBVIOUS
<1>6. /\ SumFunction(H(1)) = SumFunction(H(0)) + D[1] /\ SumFunction(H(1)) \in Int
      /\ SumFunction(H(2)) = SumFunction(H(1)) + D[2] /\ SumFunction(H(2)) \in Int
      /\ SumFunction(H(3)) = SumFunction(H(2)) + D[3] /\ SumFunction(H(3)) \in Int
      /\ SumFunction(H(4)) = SumFunction(H(3)) + D[4]
  BY <1>3, <1>5
<1>7. D[1] \in Int /\ D[2] \in Int /\ D[3] \in Int /\ D[4] \in Int
  BY <1>5
<1> QED BY <1>1, <1>2, <1>4, <1>6, <1>7

=============================================================================
