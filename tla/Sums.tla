--------------------------------- MODULE Sums ---------------------------------
(***************************************************************************)
(* Facts about SumFunctionOnSet of the community modules: the proofs about *)
(* money add up holdings, shares and stakes.                               *)
(*                                                                         *)
(* The sum is a recursive function over the subsets of a set.  The library *)
(* justifies recursion and induction with an operator as a parameter; here *)
(* a finite family of sets has a smallest one instead, and a sum is shown  *)
(* to exist and to be unique by a smallest counterexample.                 *)
(***************************************************************************)
EXTENDS Functions, Integers, FiniteSets, FiniteSetTheorems,
        WellFoundedInduction, TLAPS

(* A family of subsets of a finite set has a smallest member.                *)
LEMMA SmallestSet ==
    ASSUME NEW S, IsFiniteSet(S), NEW D, D \subseteq SUBSET S, D # {}
    PROVE  \E T \in D : \A U \in D : U \subseteq T => U = T
<1>1. IsWellFoundedOn(StrictSubsetOrdering(S), SUBSET S)
  BY FS_StrictSubsetOrderingWellFounded, FS_FiniteSubsetsOfFinite
<1>2. PICK T \in D : \A U \in D : <<U, T>> \notin StrictSubsetOrdering(S)
  BY <1>1, WFMin
<1>3. ASSUME NEW U \in D, U \subseteq T, U # T PROVE FALSE
  BY <1>2, <1>3 DEF StrictSubsetOrdering
<1> QED
  BY <1>3

-------------------------------------------------------------------------------
(* The sum exists *)

Pick(s) == CHOOSE x \in s : TRUE

Solves(g, f, S) ==
    g = [s \in SUBSET S |-> IF s = {} THEN 0 ELSE f[Pick(s)] + g[s \ {Pick(s)}]]

LEMMA PickIn == \A s : s # {} => Pick(s) \in s
BY DEF Pick

(* The equation of the sum has one solution.                                 *)
LEMMA SolutionUnique ==
    ASSUME NEW A, NEW B, NEW S, S \in SUBSET A, S \in SUBSET B, IsFiniteSet(S),
           NEW f, NEW a, Solves(a, f, A), NEW b, Solves(b, f, B)
    PROVE  a[S] = b[S]
<1> DEFINE D == {s \in SUBSET S : a[s] # b[s]}
<1> SUFFICES ASSUME D # {} PROVE FALSE
  OBVIOUS
<1>1. PICK T \in D : \A U \in D : U \subseteq T => U = T
  <2> HIDE DEF D
  <2>1. D \subseteq SUBSET S
    BY DEF D
  <2> QED
    BY <2>1, SmallestSet
<1>2. /\ a[T] = IF T = {} THEN 0 ELSE f[Pick(T)] + a[T \ {Pick(T)}]
      /\ b[T] = IF T = {} THEN 0 ELSE f[Pick(T)] + b[T \ {Pick(T)}]
  BY <1>1 DEF Solves
<1>3. CASE T = {}
  BY <1>1, <1>2, <1>3
<1>4. CASE T # {}
  <2>1. Pick(T) \in T
    BY <1>4, PickIn
  <2>2. a[T \ {Pick(T)}] = b[T \ {Pick(T)}]
    BY <1>1, <2>1
  <2> QED
    BY <1>1, <1>2, <1>4, <2>2
<1> QED
  BY <1>3, <1>4

LEMMA SolutionExists ==
    ASSUME NEW S, IsFiniteSet(S), NEW f
    PROVE  \E g : Solves(g, f, S)
<1> DEFINE D == {s \in SUBSET S : ~ \E g : Solves(g, f, s)}
<1> SUFFICES ASSUME D # {} PROVE FALSE
  OBVIOUS
<1>1. PICK T \in D : \A U \in D : U \subseteq T => U = T
  <2> HIDE DEF D
  <2>1. D \subseteq SUBSET S
    BY DEF D
  <2> QED
    BY <2>1, SmallestSet
<1> DEFINE sol(U) == CHOOSE g : Solves(g, f, U)
           val(U) == sol(U)[U]
           h == [s \in SUBSET T |-> IF s = {} THEN 0 ELSE f[Pick(s)] + val(s \ {Pick(s)})]
<1>2. \A U \in SUBSET T : U # T => Solves(sol(U), f, U)
  BY <1>1
<1>3. IsFiniteSet(T)
  BY <1>1, FS_Subset
<1>4. ASSUME NEW U \in SUBSET T, U # T PROVE h[U] = val(U)
  <2>1. h[U] = IF U = {} THEN 0 ELSE f[Pick(U)] + val(U \ {Pick(U)})
    OBVIOUS
  <2>2. val(U) = IF U = {} THEN 0 ELSE f[Pick(U)] + sol(U)[U \ {Pick(U)}]
    <3>1. Solves(sol(U), f, U)
      BY <1>2, <1>4
    <3> HIDE DEF sol
    <3> QED
      BY <3>1 DEF Solves
  <2>3. CASE U = {}
    BY <2>1, <2>2, <2>3
  <2>4. CASE U # {}
    <3> DEFINE V == U \ {Pick(U)}
    <3>1. V \in SUBSET U /\ V # U /\ V # T /\ V \in SUBSET T
      BY <2>4, <1>4, PickIn
    <3>2. IsFiniteSet(V)
      BY <1>3, <3>1, FS_Subset
    <3>3. Solves(sol(U), f, U) /\ Solves(sol(V), f, V)
      BY <1>2, <1>4, <3>1
    <3>4. sol(U)[V] = sol(V)[V]
      <4> HIDE DEF sol, V
      <4> QED
        BY <3>1, <3>2, <3>3, SolutionUnique
    <3> HIDE DEF sol
    <3> QED
      BY <2>1, <2>2, <2>4, <3>4
  <2> QED
    BY <2>3, <2>4
<1>5. Solves(h, f, T)
  <2>1. \A s \in SUBSET T : s # {} => h[s \ {Pick(s)}] = val(s \ {Pick(s)})
    <3> SUFFICES ASSUME NEW s \in SUBSET T, s # {}
                 PROVE  h[s \ {Pick(s)}] = val(s \ {Pick(s)})
      OBVIOUS
    <3>1. s \ {Pick(s)} \in SUBSET T /\ s \ {Pick(s)} # T
      BY PickIn
    <3> HIDE DEF h, val
    <3> QED
      BY <3>1, <1>4
  <2>2. h = [s \in SUBSET T |-> IF s = {} THEN 0 ELSE f[Pick(s)] + h[s \ {Pick(s)}]]
    <3> HIDE DEF val
    <3> QED
      BY <2>1
  <2> QED
    BY <2>2 DEF Solves
<1> QED
  BY <1>1, <1>5

(* The definition of the sum, as an equation.                                *)
LEMMA SumUnfolds ==
    ASSUME NEW S, IsFiniteSet(S), NEW f
    PROVE  SumFunctionOnSet(f, S) =
             IF S = {} THEN 0
             ELSE f[Pick(S)] + SumFunctionOnSet(f, S \ {Pick(S)})
<1> DEFINE sol(U) == CHOOSE g : Solves(g, f, U)
<1>1. \A U : SumFunctionOnSet(f, U) = sol(U)[U]
  BY DEF SumFunctionOnSet, FoldFunctionOnSet, MapThenFoldSet, Solves, Pick
<1>2. ASSUME NEW U \in SUBSET S PROVE Solves(sol(U), f, U)
  BY SolutionExists, FS_Subset
<1>3. sol(S)[S] = IF S = {} THEN 0 ELSE f[Pick(S)] + sol(S)[S \ {Pick(S)}]
  <2>1. Solves(sol(S), f, S)
    BY <1>2
  <2> HIDE DEF sol
  <2> QED
    BY <2>1 DEF Solves
<1>4. sol(S)[S \ {Pick(S)}] = sol(S \ {Pick(S)})[S \ {Pick(S)}]
  <2> DEFINE V == S \ {Pick(S)}
  <2>1. V \in SUBSET S /\ IsFiniteSet(V)
    BY FS_Subset
  <2>2. Solves(sol(S), f, S) /\ Solves(sol(V), f, V)
    BY <1>2, <2>1
  <2> HIDE DEF sol, V
  <2>3. \A g, h : Solves(g, f, S) /\ Solves(h, f, V) => g[V] = h[V]
    BY <2>1, SolutionUnique
  <2> QED
    BY <2>2, <2>3 DEF V
<1> QED
  <2> HIDE DEF sol
  <2> QED
    BY <1>1, <1>3, <1>4

-------------------------------------------------------------------------------
(* Sums of any function *)

(* Nothing adds up to zero.                                                  *)
THEOREM SumEmpty == \A f : SumFunctionOnSet(f, {}) = 0
BY SumUnfolds, FS_EmptySet

(* A sum depends on its summands alone.                                      *)
THEOREM SumSame ==
    ASSUME NEW S, IsFiniteSet(S), NEW f, NEW g, \A x \in S : f[x] = g[x]
    PROVE  SumFunctionOnSet(f, S) = SumFunctionOnSet(g, S)
<1> DEFINE D == {s \in SUBSET S : SumFunctionOnSet(f, s) # SumFunctionOnSet(g, s)}
<1> SUFFICES ASSUME D # {} PROVE FALSE
  OBVIOUS
<1>1. PICK T \in D : \A U \in D : U \subseteq T => U = T
  <2> HIDE DEF D
  <2>1. D \subseteq SUBSET S
    BY DEF D
  <2> QED
    BY <2>1, SmallestSet
<1>2. IsFiniteSet(T)
  BY <1>1, FS_Subset
<1>3. CASE T = {}
  BY <1>1, <1>3, SumEmpty
<1>4. CASE T # {}
  <2>1. Pick(T) \in T
    BY <1>4, PickIn
  <2>2. SumFunctionOnSet(f, T \ {Pick(T)}) = SumFunctionOnSet(g, T \ {Pick(T)})
    BY <1>1, <2>1
  <2>3. f[Pick(T)] = g[Pick(T)]
    BY <1>1, <2>1
  <2> QED
    BY <1>1, <1>2, <1>4, <2>2, <2>3, SumUnfolds
<1> QED
  BY <1>3, <1>4

-------------------------------------------------------------------------------
(* Sums of natural numbers *)

(* They are natural numbers.                                                 *)
THEOREM SumNat ==
    ASSUME NEW S, IsFiniteSet(S), NEW f, \A x \in S : f[x] \in Nat
    PROVE  SumFunctionOnSet(f, S) \in Nat
<1> DEFINE D == {s \in SUBSET S : SumFunctionOnSet(f, s) \notin Nat}
<1> SUFFICES ASSUME D # {} PROVE FALSE
  OBVIOUS
<1>1. PICK T \in D : \A U \in D : U \subseteq T => U = T
  <2> HIDE DEF D
  <2>1. D \subseteq SUBSET S
    BY DEF D
  <2> QED
    BY <2>1, SmallestSet
<1>2. IsFiniteSet(T)
  BY <1>1, FS_Subset
<1>3. T # {}
  <2>1. SumFunctionOnSet(f, {}) \in Nat
    BY SumEmpty
  <2> QED
    BY <1>1, <2>1
<1>4. Pick(T) \in T
  BY <1>3, PickIn
<1>5. SumFunctionOnSet(f, T \ {Pick(T)}) \in Nat
  BY <1>1, <1>4
<1>6. f[Pick(T)] \in Nat
  BY <1>1, <1>4
<1>7. SumFunctionOnSet(f, T) = f[Pick(T)] + SumFunctionOnSet(f, T \ {Pick(T)})
  BY <1>2, <1>3, SumUnfolds
<1> QED
  BY <1>1, <1>5, <1>6, <1>7

(* Any summand may be taken out first.                                       *)
THEOREM SumRemove ==
    ASSUME NEW S, IsFiniteSet(S), NEW f, \A x \in S : f[x] \in Nat, NEW x \in S
    PROVE  SumFunctionOnSet(f, S) = f[x] + SumFunctionOnSet(f, S \ {x})
<1> DEFINE sum(s) == SumFunctionOnSet(f, s)
           D == {s \in SUBSET S : \E y \in s : sum(s) # f[y] + sum(s \ {y})}
<1> SUFFICES ASSUME D # {} PROVE FALSE
  OBVIOUS
<1>1. PICK T \in D : \A U \in D : U \subseteq T => U = T
  <2> HIDE DEF D
  <2>1. D \subseteq SUBSET S
    BY DEF D
  <2> QED
    BY <2>1, SmallestSet
<1>2. \A U \in SUBSET T : IsFiniteSet(U) /\ sum(U) \in Nat
  <2> SUFFICES ASSUME NEW U \in SUBSET T PROVE IsFiniteSet(U) /\ sum(U) \in Nat
    OBVIOUS
  <2>1. IsFiniteSet(U) /\ \A y \in U : f[y] \in Nat
    BY <1>1, FS_Subset
  <2> QED
    BY <2>1, SumNat
<1>3. PICK y \in T : sum(T) # f[y] + sum(T \ {y})
  BY <1>1
<1> DEFINE p == Pick(T)
           V == T \ {p}
           W == T \ {y}
<1>4. p \in T
  BY <1>3, PickIn
<1>5. sum(T) = f[p] + sum(V)
  BY <1>2, <1>3, SumUnfolds
<1>6. p # y
  BY <1>3, <1>5
<1>7. sum(V) = f[y] + sum(V \ {y})
  <2>1. V \in SUBSET S /\ V \notin D /\ y \in V
    BY <1>1, <1>3, <1>4, <1>6
  <2> HIDE DEF V, sum
  <2> QED
    BY <2>1
<1>8. sum(W) = f[p] + sum(W \ {p})
  <2>1. W \in SUBSET S /\ W \notin D /\ p \in W
    BY <1>1, <1>3, <1>4, <1>6
  <2> HIDE DEF W, sum
  <2> QED
    BY <2>1
<1>9. sum(V \ {y}) = sum(W \ {p})
  <2>1. V \ {y} = W \ {p}
    OBVIOUS
  <2> HIDE DEF sum, V, W
  <2> QED
    BY <2>1
<1>10. f[p] \in Nat /\ f[y] \in Nat /\ sum(V \ {y}) \in Nat
  BY <1>1, <1>2, <1>3, <1>4
<1>11. sum(T) # f[y] + sum(W)
  BY <1>3
<1> HIDE DEF sum, D, V, W, p
<1> QED
  BY <1>5, <1>7, <1>8, <1>9, <1>10, <1>11

(* A summand that is added counts once.                                      *)
THEOREM SumAdd ==
    ASSUME NEW S, IsFiniteSet(S), NEW x, x \notin S,
           NEW f, \A y \in S \cup {x} : f[y] \in Nat
    PROVE  SumFunctionOnSet(f, S \cup {x}) = f[x] + SumFunctionOnSet(f, S)
<1> DEFINE T == S \cup {x}
<1>1. T \ {x} = S
  OBVIOUS
<1>2. IsFiniteSet(T)
  BY FS_AddElement
<1>3. x \in T /\ \A y \in T : f[y] \in Nat
  OBVIOUS
<1> HIDE DEF T
<1>4. SumFunctionOnSet(f, T) = f[x] + SumFunctionOnSet(f, T \ {x})
  BY <1>2, <1>3, SumRemove
<1> QED
  BY <1>1, <1>4 DEF T

(* Two sets that share nothing are added up one after the other.             *)
THEOREM SumUnion ==
    ASSUME NEW S, IsFiniteSet(S), NEW T, IsFiniteSet(T), S \cap T = {},
           NEW f, \A x \in S \cup T : f[x] \in Nat
    PROVE  SumFunctionOnSet(f, S \cup T) = SumFunctionOnSet(f, S) + SumFunctionOnSet(f, T)
<1> DEFINE sum(s) == SumFunctionOnSet(f, s)
           D == {s \in SUBSET T : sum(S \cup s) # sum(S) + sum(s)}
<1> SUFFICES ASSUME D # {} PROVE FALSE
  OBVIOUS
<1>1. PICK U \in D : \A V \in D : V \subseteq U => V = U
  <2> HIDE DEF D
  <2>1. D \subseteq SUBSET T
    BY DEF D
  <2> QED
    BY <2>1, SmallestSet
<1>2. ASSUME NEW V \in SUBSET T
      PROVE  IsFiniteSet(V) /\ IsFiniteSet(S \cup V) /\ sum(V) \in Nat /\ sum(S \cup V) \in Nat
  <2>1. IsFiniteSet(V) /\ IsFiniteSet(S \cup V)
    BY FS_Subset, FS_Union
  <2>2. sum(V) \in Nat
    BY <2>1, SumNat
  <2>3. sum(S \cup V) \in Nat
    <3> DEFINE W == S \cup V
    <3>1. IsFiniteSet(W) /\ \A x \in W : f[x] \in Nat
      BY <2>1
    <3> HIDE DEF W
    <3>2. SumFunctionOnSet(f, W) \in Nat
      BY <3>1, SumNat
    <3> QED
      BY <3>2 DEF W
  <2> QED
    BY <2>1, <2>2, <2>3
<1>3. sum(S) \in Nat
  BY SumNat
<1>4. U # {}
  <2>1. S \cup {} = S /\ sum({}) = 0
    BY SumEmpty
  <2>2. sum(S \cup {}) = sum(S) + sum({})
    BY <1>3, <2>1
  <2>3. {} \notin D
    BY <2>2
  <2> HIDE DEF D
  <2> QED
    BY <2>3
<1>5. PICK u \in U : TRUE
  BY <1>4
<1> DEFINE V == U \ {u}
<1>6. V \in SUBSET T /\ V \notin D /\ U \in SUBSET T /\ u \notin V /\ u \notin S \cup V
  BY <1>1, <1>5
<1>7. sum(S \cup V) = sum(S) + sum(V)
  BY <1>6
<1>8. sum(U) = f[u] + sum(V)
  BY <1>2, <1>6, SumRemove
<1>9. sum(S \cup U) = f[u] + sum(S \cup V)
  <2> DEFINE A == S \cup U
             B == S \cup V
  <2>1. A \ {u} = B
    BY <1>5, <1>6
  <2>2. IsFiniteSet(A) /\ u \in A /\ \A x \in A : f[x] \in Nat
    BY <1>2, <1>5, <1>6
  <2> HIDE DEF A, B
  <2>3. SumFunctionOnSet(f, A) = f[u] + SumFunctionOnSet(f, A \ {u})
    BY <2>2, SumRemove
  <2> QED
    BY <2>1, <2>3 DEF A, B
<1>10. f[u] \in Nat /\ sum(V) \in Nat
  BY <1>2, <1>6
<1>11. sum(S \cup U) # sum(S) + sum(U)
  BY <1>1
<1> HIDE DEF sum, D, V
<1> QED
  BY <1>3, <1>7, <1>8, <1>9, <1>10, <1>11

(* A subset adds up to no more than the set.                                 *)
THEOREM SumPart ==
    ASSUME NEW S, IsFiniteSet(S), NEW T \in SUBSET S,
           NEW f, \A x \in S : f[x] \in Nat
    PROVE  /\ SumFunctionOnSet(f, S) = SumFunctionOnSet(f, S \ T) + SumFunctionOnSet(f, T)
           /\ SumFunctionOnSet(f, T) =< SumFunctionOnSet(f, S)
<1> DEFINE R == S \ T
<1>1. IsFiniteSet(R) /\ IsFiniteSet(T)
  BY FS_Subset, FS_Difference
<1>2. R \cap T = {} /\ R \cup T = S
  OBVIOUS
<1>3. (\A x \in R : f[x] \in Nat) /\ (\A x \in T : f[x] \in Nat)
  OBVIOUS
<1>4. SumFunctionOnSet(f, R) \in Nat /\ SumFunctionOnSet(f, T) \in Nat
  <2> HIDE DEF R
  <2> QED
    BY <1>1, <1>3, SumNat
<1>5. SumFunctionOnSet(f, R \cup T) = SumFunctionOnSet(f, R) + SumFunctionOnSet(f, T)
  <2> HIDE DEF R
  <2> QED
    BY <1>1, <1>2, <1>3, SumUnion
<1>6. SumFunctionOnSet(f, S) = SumFunctionOnSet(f, R) + SumFunctionOnSet(f, T)
  <2> HIDE DEF R
  <2> QED
    BY <1>2, <1>5
<1> QED
  BY <1>4, <1>6

(* Equal summands add up to as many times their value.                       *)
THEOREM SumConstant ==
    ASSUME NEW S, IsFiniteSet(S), NEW n \in Nat, NEW f, \A x \in S : f[x] = n
    PROVE  SumFunctionOnSet(f, S) = n * Cardinality(S)
<1> DEFINE D == {s \in SUBSET S : SumFunctionOnSet(f, s) # n * Cardinality(s)}
<1> SUFFICES ASSUME D # {} PROVE FALSE
  OBVIOUS
<1>1. PICK T \in D : \A U \in D : U \subseteq T => U = T
  <2> HIDE DEF D
  <2>1. D \subseteq SUBSET S
    BY DEF D
  <2> QED
    BY <2>1, SmallestSet
<1>2. IsFiniteSet(T)
  BY <1>1, FS_Subset
<1>3. T # {}
  <2>1. SumFunctionOnSet(f, {}) = 0 /\ Cardinality({}) = 0
    BY SumEmpty, FS_EmptySet
  <2>2. SumFunctionOnSet(f, {}) = n * Cardinality({})
    BY <2>1
  <2>3. {} \notin D
    BY <2>2
  <2> HIDE DEF D
  <2> QED
    BY <2>3
<1>4. PICK t \in T : TRUE
  BY <1>3
<1> DEFINE V == T \ {t}
<1>5. SumFunctionOnSet(f, V) = n * Cardinality(V)
  BY <1>1, <1>4
<1>6. SumFunctionOnSet(f, T) = n + SumFunctionOnSet(f, V)
  BY <1>1, <1>2, <1>4, SumRemove
<1>7. Cardinality(V) = Cardinality(T) - 1 /\ Cardinality(T) \in Nat /\ Cardinality(V) \in Nat
  BY <1>2, <1>4, FS_RemoveElement, FS_CardinalityType
<1>8. n + n * Cardinality(V) = n * Cardinality(T)
  <2> HIDE DEF V
  <2> QED
    BY <1>7
<1> QED
  BY <1>1, <1>5, <1>6, <1>8

(* Bounded summands add up to no more than as many times the bound.          *)
THEOREM SumBound ==
    ASSUME NEW S, IsFiniteSet(S), NEW n \in Nat,
           NEW f, \A x \in S : f[x] \in Nat /\ f[x] =< n
    PROVE  SumFunctionOnSet(f, S) =< n * Cardinality(S)
<1> DEFINE D == {s \in SUBSET S : ~ (SumFunctionOnSet(f, s) =< n * Cardinality(s))}
<1> SUFFICES ASSUME D # {} PROVE FALSE
  OBVIOUS
<1>1. PICK T \in D : \A U \in D : U \subseteq T => U = T
  <2> HIDE DEF D
  <2>1. D \subseteq SUBSET S
    BY DEF D
  <2> QED
    BY <2>1, SmallestSet
<1>2. IsFiniteSet(T)
  BY <1>1, FS_Subset
<1>3. T # {}
  <2>1. SumFunctionOnSet(f, {}) = 0 /\ Cardinality({}) = 0
    BY SumEmpty, FS_EmptySet
  <2>2. SumFunctionOnSet(f, {}) =< n * Cardinality({})
    BY <2>1
  <2>3. {} \notin D
    BY <2>2
  <2> HIDE DEF D
  <2> QED
    BY <2>3
<1>4. PICK t \in T : TRUE
  BY <1>3
<1> DEFINE V == T \ {t}
<1>5. SumFunctionOnSet(f, V) =< n * Cardinality(V)
  BY <1>1, <1>4
<1>6. SumFunctionOnSet(f, T) = f[t] + SumFunctionOnSet(f, V)
  BY <1>1, <1>2, <1>4, SumRemove
<1>7. Cardinality(V) = Cardinality(T) - 1 /\ Cardinality(T) \in Nat /\ Cardinality(V) \in Nat
  BY <1>2, <1>4, FS_RemoveElement, FS_CardinalityType
<1>8. n + n * Cardinality(V) = n * Cardinality(T)
  <2> HIDE DEF V
  <2> QED
    BY <1>7
<1>9. f[t] \in Nat /\ f[t] =< n /\ SumFunctionOnSet(f, V) \in Nat
  <2>1. IsFiniteSet(V) /\ V \subseteq S
    BY <1>1, <1>2, FS_RemoveElement
  <2> HIDE DEF V
  <2>2. SumFunctionOnSet(f, V) \in Nat
    BY <2>1, SumNat
  <2> QED
    BY <1>1, <1>4, <2>2
<1>10. n * Cardinality(V) \in Nat /\ n * Cardinality(T) \in Nat
  <2> HIDE DEF V
  <2> QED
    BY <1>7
<1>11. SumFunctionOnSet(f, T) =< n * Cardinality(T)
  <2> DEFINE a == n * Cardinality(V)
             b == n * Cardinality(T)
             s == SumFunctionOnSet(f, V)
  <2>1. a \in Nat /\ b \in Nat /\ s \in Nat /\ s =< a /\ n + a = b
    BY <1>5, <1>8, <1>9, <1>10
  <2>2. SumFunctionOnSet(f, T) = f[t] + s
    BY <1>6
  <2> HIDE DEF a, b, s
  <2>3. f[t] + s =< b
    BY <1>9, <2>1
  <2> USE DEF b
  <2> QED
    BY <2>2, <2>3
<1> QED
  BY <1>1, <1>11

(* One summand changes.                                                      *)
THEOREM SumChange ==
    ASSUME NEW S, IsFiniteSet(S), NEW x \in S,
           NEW f, \A y \in S : f[y] \in Nat,
           NEW g, \A y \in S : g[y] \in Nat,
           \A y \in S \ {x} : f[y] = g[y]
    PROVE  SumFunctionOnSet(g, S) - g[x] = SumFunctionOnSet(f, S) - f[x]
<1> DEFINE R == S \ {x}
<1>1. IsFiniteSet(R) /\ \A y \in R : f[y] = g[y] /\ f[y] \in Nat
  BY FS_RemoveElement
<1>2. SumFunctionOnSet(f, S) = f[x] + SumFunctionOnSet(f, R)
  BY SumRemove
<1>3. SumFunctionOnSet(g, S) = g[x] + SumFunctionOnSet(g, R)
  BY SumRemove
<1> HIDE DEF R
<1>4. SumFunctionOnSet(f, R) = SumFunctionOnSet(g, R) /\ SumFunctionOnSet(f, R) \in Nat
  BY <1>1, SumSame, SumNat
<1> QED
  BY <1>2, <1>3, <1>4
===============================================================================
