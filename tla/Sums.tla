-------------------------------- MODULE Sums --------------------------------
(***************************************************************************)
(* Facts about SumFunction, the community modules' sum of the values of a  *)
(* function on a finite set, for proofs that count units.  SumFunction is  *)
(* a fold, and a fold is a CHOOSE of a recursive function on the subsets   *)
(* of the domain; each fact holds because a smallest subset on which it    *)
(* failed cannot exist (NoSmallest).                                       *)
(***************************************************************************)
EXTENDS Integers, FiniteSets, Functions, FiniteSetTheorems, WellFoundedInduction, TLAPS

\* The element that the fold takes first.
Pick(T) == CHOOSE x \in T : TRUE

\* g tabulates the sums of f on the subsets of U.
Tabulates(g, f, U) ==
    g = [T \in SUBSET U |-> IF T = {} THEN 0 ELSE f[Pick(T)] + g[T \ {Pick(T)}]]

\* A set that is not empty has one.
LEMMA PickIn == \A T : T # {} => Pick(T) \in T
BY DEF Pick

\* What the operators of Functions and Folds amount to.
LEMMA Expand ==
    ASSUME NEW f, NEW S
    PROVE  SumFunctionOnSet(f, S) = (CHOOSE g : Tabulates(g, f, S))[S]
BY DEF SumFunctionOnSet, FoldFunctionOnSet, MapThenFoldSet, Tabulates, Pick

\* Induction over the subsets of a finite set: a property fails nowhere if it fails
\* only above another failure.
LEMMA NoSmallest ==
    ASSUME NEW S, IsFiniteSet(S), NEW B, B \subseteq SUBSET S,
           \A U \in B : \E V \in B : V \subseteq U /\ V # U
    PROVE  B = {}
<1> SUFFICES ASSUME B # {}
             PROVE  FALSE
  OBVIOUS
<1>1. B \subseteq FiniteSubsetsOf(S)
  BY FS_Subset DEF FiniteSubsetsOf
<1>2. PICK U \in B : \A V \in B : <<V, U>> \notin StrictSubsetOrdering(S)
  BY <1>1, FS_StrictSubsetOrderingWellFounded, WFMin, Zenon
<1>3. QED
  BY <1>2 DEF StrictSubsetOrdering

\* Two tables agree where both are defined.
LEMMA TablesAgree ==
    ASSUME NEW f, NEW U, NEW V, NEW g, NEW h, NEW T, IsFiniteSet(T),
           Tabulates(g, f, U), Tabulates(h, f, V), T \subseteq U, T \subseteq V
    PROVE  g[T] = h[T]
<1> DEFINE Bad == {W \in SUBSET T : g[W] # h[W]}
<1>1. SUFFICES Bad = {}
  OBVIOUS
<1>2. SUFFICES ASSUME NEW W \in Bad, \A X \in Bad : ~(X \subseteq W /\ X # W)
               PROVE  FALSE
  <2>1. Bad \subseteq SUBSET T
    OBVIOUS
  <2> HIDE DEF Bad
  <2>2. (\A X \in Bad : \E Y \in Bad : Y \subseteq X /\ Y # X) => Bad = {}
    BY <2>1, NoSmallest
  <2>3. QED
    BY <2>2
<1>3. W \in SUBSET U /\ W \in SUBSET V
  OBVIOUS
<1>4. CASE W = {}
  BY <1>3, <1>4 DEF Tabulates
<1>5. CASE W # {}
  <2>1. Pick(W) \in W
    BY <1>5, PickIn
  <2>2. /\ g[W] = f[Pick(W)] + g[W \ {Pick(W)}]
        /\ h[W] = f[Pick(W)] + h[W \ {Pick(W)}]
    BY <1>3, <1>5 DEF Tabulates
  <2>3. W \ {Pick(W)} \in SUBSET T /\ W \ {Pick(W)} \subseteq W /\ W \ {Pick(W)} # W
    BY <2>1
  <2>4. W \ {Pick(W)} \notin Bad
    BY <1>2, <2>3
  <2>5. g[W \ {Pick(W)}] = h[W \ {Pick(W)}]
    BY <2>3, <2>4
  <2>6. QED
    BY <2>2, <2>5
<1>6. QED
  BY <1>4, <1>5

\* There is a table of the subsets of a finite set.
LEMMA TableExists ==
    ASSUME NEW f, NEW S, IsFiniteSet(S)
    PROVE  \E g : Tabulates(g, f, S)
<1> DEFINE Bad == {W \in SUBSET S : ~\E g : Tabulates(g, f, W)}
           Table(W) == CHOOSE g : Tabulates(g, f, W)
<1>1. SUFFICES Bad = {}
  OBVIOUS
<1>2. SUFFICES ASSUME NEW W \in Bad, \A X \in Bad : ~(X \subseteq W /\ X # W)
               PROVE  FALSE
  <2>1. Bad \subseteq SUBSET S
    OBVIOUS
  <2> HIDE DEF Bad
  <2>2. (\A X \in Bad : \E Y \in Bad : Y \subseteq X /\ Y # X) => Bad = {}
    BY <2>1, NoSmallest
  <2>3. QED
    BY <2>2
<1>3. W \in SUBSET S /\ ~\E g : Tabulates(g, f, W)
  OBVIOUS
<1>4. ASSUME NEW X \in SUBSET W, X # W
      PROVE  Tabulates(Table(X), f, X)
  <2>1. \E g : Tabulates(g, f, X)
    BY <1>2, <1>3, <1>4
  <2>2. QED
    BY <2>1
<1> HIDE DEF Bad, Table
<1> DEFINE Rest(T) == T \ {Pick(T)}
           sums == [T \in SUBSET W |-> IF T = {} THEN 0 ELSE f[Pick(T)] + Table(Rest(T))[Rest(T)]]
<1>5. ASSUME NEW T \in SUBSET W, T # W
      PROVE  sums[T] = Table(T)[T]
  <2>1. Tabulates(Table(T), f, T)
    BY <1>4, <1>5
  <2>2. CASE T = {}
    BY <2>1, <2>2 DEF Tabulates
  <2>3. CASE T # {}
    <3>1. Pick(T) \in T
      BY <2>3, PickIn
    <3>2. Table(T)[T] = f[Pick(T)] + Table(T)[Rest(T)]
      BY <2>1, <2>3 DEF Tabulates
    <3>3. Tabulates(Table(Rest(T)), f, Rest(T))
      BY <1>4, <1>5, <3>1
    <3>4. IsFiniteSet(Rest(T))
      BY <1>3, FS_Subset
    <3>5. Table(T)[Rest(T)] = Table(Rest(T))[Rest(T)]
      BY <2>1, <3>3, <3>4, TablesAgree
    <3>6. QED
      BY <2>3, <3>2, <3>5
  <2>4. QED
    BY <2>2, <2>3
<1>6. ASSUME NEW T \in SUBSET W
      PROVE  sums[T] = IF T = {} THEN 0 ELSE f[Pick(T)] + sums[Rest(T)]
  <2>1. CASE T = {}
    BY <2>1
  <2>2. CASE T # {}
    <3>1. Pick(T) \in T
      BY <2>2, PickIn
    <3>2. Rest(T) \in SUBSET W /\ Rest(T) # W
      BY <3>1
    <3>3. sums[Rest(T)] = Table(Rest(T))[Rest(T)]
      BY <1>5, <3>2
    <3>4. QED
      BY <2>2, <3>3
  <2>3. QED
    BY <2>1, <2>2
<1>7. sums = [T \in SUBSET W |-> IF T = {} THEN 0 ELSE f[Pick(T)] + sums[Rest(T)]]
  <2>1. sums = [T \in SUBSET W |-> sums[T]]
    OBVIOUS
  <2> HIDE DEF sums
  <2>2. QED
    BY <1>6, <2>1
<1>8. Tabulates(sums, f, W)
  BY <1>7 DEF Tabulates
<1>9. QED
  BY <1>3, <1>8

-----------------------------------------------------------------------------
\* The sum over the empty set.
LEMMA SumEmpty ==
    ASSUME NEW f
    PROVE  SumFunctionOnSet(f, {}) = 0
<1>1. \E g : Tabulates(g, f, {})
  BY TableExists, FS_EmptySet
<1>2. Tabulates(CHOOSE g : Tabulates(g, f, {}), f, {})
  BY <1>1
<1>3. QED
  BY <1>2, Expand DEF Tabulates

\* The sum over another finite set, by the element that the fold takes first.
LEMMA SumPick ==
    ASSUME NEW f, NEW S, IsFiniteSet(S), S # {}
    PROVE  SumFunctionOnSet(f, S) = f[Pick(S)] + SumFunctionOnSet(f, S \ {Pick(S)})
<1> DEFINE R == S \ {Pick(S)}
           g == CHOOSE t : Tabulates(t, f, S)
           h == CHOOSE t : Tabulates(t, f, R)
<1>1. IsFiniteSet(R)
  BY FS_RemoveElement
<1>2. Tabulates(g, f, S)
  BY TableExists
<1>3. Tabulates(h, f, R)
  BY <1>1, TableExists
<1>4. SumFunctionOnSet(f, S) = g[S] /\ SumFunctionOnSet(f, R) = h[R]
  BY Expand
<1> HIDE DEF g, h
<1>5. g[R] = h[R]
  BY <1>1, <1>2, <1>3, TablesAgree
<1>6. g[S] = f[Pick(S)] + g[R]
  BY <1>2 DEF Tabulates
<1>7. QED
  BY <1>4, <1>5, <1>6

\* Integers add up to an integer.
LEMMA SumInt ==
    ASSUME NEW f, NEW S, IsFiniteSet(S), \A x \in S : f[x] \in Int
    PROVE  SumFunctionOnSet(f, S) \in Int
<1> DEFINE Bad == {W \in SUBSET S : SumFunctionOnSet(f, W) \notin Int}
<1>1. ASSUME NEW W \in Bad
      PROVE  \E V \in Bad : V \subseteq W /\ V # W
  <2>1. W # {}
    BY SumEmpty
  <2>2. Pick(W) \in W
    BY <2>1, PickIn
  <2>3. IsFiniteSet(W)
    BY FS_Subset
  <2>4. SumFunctionOnSet(f, W) = f[Pick(W)] + SumFunctionOnSet(f, W \ {Pick(W)})
    BY <2>1, <2>3, SumPick
  <2>5. W \ {Pick(W)} \in Bad
    BY <2>2, <2>4
  <2>6. QED
    BY <2>2, <2>5
<1>2. Bad \subseteq SUBSET S
  OBVIOUS
<1>3. Bad = {}
  <2> HIDE DEF Bad
  <2>1. QED
    BY <1>1, <1>2, NoSmallest
<1>4. QED
  BY <1>3

\* The sum does not depend on the order: any element may be taken first.
LEMMA SumRemove ==
    ASSUME NEW f, NEW S, IsFiniteSet(S), \A x \in S : f[x] \in Int, NEW e \in S
    PROVE  SumFunctionOnSet(f, S) = f[e] + SumFunctionOnSet(f, S \ {e})
<1> DEFINE Sum(W) == SumFunctionOnSet(f, W)
           Bad == {W \in SUBSET S : \E x \in W : Sum(W) # f[x] + Sum(W \ {x})}
<1>1. \A W \in SUBSET S : IsFiniteSet(W) /\ Sum(W) \in Int
  BY SumInt, FS_Subset
<1>2. \A W \in SUBSET S : W # {} => Sum(W) = f[Pick(W)] + Sum(W \ {Pick(W)})
  BY <1>1, SumPick
<1> HIDE DEF Sum
<1>3. ASSUME NEW W \in Bad
      PROVE  \E V \in Bad : V \subseteq W /\ V # W
  <2>1. PICK x \in W : Sum(W) # f[x] + Sum(W \ {x})
    OBVIOUS
  <2> DEFINE y == Pick(W)
  <2>2. y \in W /\ Sum(W) = f[y] + Sum(W \ {y})
    BY <1>2, PickIn
  <2> HIDE DEF y
  <2>3. x # y
    BY <2>1, <2>2
  <2> SUFFICES ASSUME W \ {x} \notin Bad, W \ {y} \notin Bad
               PROVE  FALSE
    BY <2>2
  <2>4. Sum(W \ {x}) = f[y] + Sum((W \ {x}) \ {y})
    BY <2>2, <2>3
  <2>5. (W \ {y}) \ {x} = (W \ {x}) \ {y}
    OBVIOUS
  <2>6. Sum(W \ {y}) = f[x] + Sum((W \ {x}) \ {y})
    BY <2>1, <2>2, <2>3, <2>5
  <2>7. f[x] \in Int /\ f[y] \in Int /\ Sum((W \ {x}) \ {y}) \in Int
    BY <1>1, <2>2
  <2>8. QED
    BY <2>1, <2>2, <2>4, <2>6, <2>7, SMT
<1>4. Bad \subseteq SUBSET S
  OBVIOUS
<1>5. Bad = {}
  <2> HIDE DEF Bad
  <2>1. QED
    BY <1>3, <1>4, NoSmallest
<1>6. Sum(S) = f[e] + Sum(S \ {e})
  BY <1>5
<1>7. QED
  BY <1>6 DEF Sum

\* Only the values on the set count.
LEMMA SumSame ==
    ASSUME NEW f, NEW g, NEW S, IsFiniteSet(S), \A x \in S : f[x] = g[x]
    PROVE  SumFunctionOnSet(f, S) = SumFunctionOnSet(g, S)
<1> DEFINE Bad == {W \in SUBSET S : SumFunctionOnSet(f, W) # SumFunctionOnSet(g, W)}
<1>1. ASSUME NEW W \in Bad
      PROVE  \E V \in Bad : V \subseteq W /\ V # W
  <2>1. W # {}
    BY SumEmpty
  <2>2. Pick(W) \in W /\ IsFiniteSet(W)
    BY <2>1, PickIn, FS_Subset
  <2>3. /\ SumFunctionOnSet(f, W) = f[Pick(W)] + SumFunctionOnSet(f, W \ {Pick(W)})
        /\ SumFunctionOnSet(g, W) = g[Pick(W)] + SumFunctionOnSet(g, W \ {Pick(W)})
    BY <2>1, <2>2, SumPick
  <2>4. f[Pick(W)] = g[Pick(W)]
    BY <2>2
  <2>5. W \ {Pick(W)} \in Bad
    BY <2>2, <2>3, <2>4
  <2>6. QED
    BY <2>2, <2>5
<1>2. Bad \subseteq SUBSET S
  OBVIOUS
<1>3. Bad = {}
  <2> HIDE DEF Bad
  <2>1. QED
    BY <1>1, <1>2, NoSmallest
<1>4. QED
  BY <1>3

-----------------------------------------------------------------------------
(* Sums over the domain of a function.                                     *)

\* Naturals add up to a natural.
LEMMA TotalNat ==
    ASSUME NEW S, IsFiniteSet(S), NEW f \in [S -> Nat]
    PROVE  SumFunction(f) \in Nat
<1> DEFINE Bad == {W \in SUBSET S : SumFunctionOnSet(f, W) \notin Nat}
<1>1. ASSUME NEW W \in Bad
      PROVE  \E V \in Bad : V \subseteq W /\ V # W
  <2>1. W # {}
    BY SumEmpty
  <2>2. Pick(W) \in W /\ IsFiniteSet(W)
    BY <2>1, PickIn, FS_Subset
  <2>3. SumFunctionOnSet(f, W) = f[Pick(W)] + SumFunctionOnSet(f, W \ {Pick(W)})
    BY <2>1, <2>2, SumPick
  <2>4. f[Pick(W)] \in Nat
    BY <2>2
  <2>5. W \ {Pick(W)} \in Bad
    BY <2>2, <2>3, <2>4
  <2>6. QED
    BY <2>2, <2>5
<1>2. Bad \subseteq SUBSET S
  OBVIOUS
<1>3. Bad = {}
  <2> HIDE DEF Bad
  <2>1. QED
    BY <1>1, <1>2, NoSmallest
<1>4. DOMAIN f = S
  OBVIOUS
<1>5. QED
  BY <1>3, <1>4 DEF SumFunction

\* When one summand changes, the sum changes by as much.
LEMMA TotalUpdate ==
    ASSUME NEW S, IsFiniteSet(S), NEW f \in [S -> Int], NEW g \in [S -> Int], NEW e \in S,
           \A x \in S : x # e => g[x] = f[x]
    PROVE  SumFunction(g) = SumFunction(f) + g[e] - f[e] /\ SumFunction(f) \in Int
<1>1. DOMAIN f = S /\ DOMAIN g = S
  OBVIOUS
<1>2. IsFiniteSet(S \ {e})
  BY FS_RemoveElement
<1>3. /\ SumFunctionOnSet(f, S) = f[e] + SumFunctionOnSet(f, S \ {e})
      /\ SumFunctionOnSet(g, S) = g[e] + SumFunctionOnSet(g, S \ {e})
  BY SumRemove
<1>4. SumFunctionOnSet(f, S \ {e}) = SumFunctionOnSet(g, S \ {e})
  BY <1>2, SumSame
<1>5. SumFunctionOnSet(f, S \ {e}) \in Int
  BY <1>2, SumInt
<1>6. f[e] \in Int /\ g[e] \in Int
  OBVIOUS
<1>7. QED
  BY <1>1, <1>3, <1>4, <1>5, <1>6 DEF SumFunction

\* Nothing but zeros adds up to zero.
LEMMA TotalZero ==
    ASSUME NEW S, IsFiniteSet(S)
    PROVE  SumFunction([x \in S |-> 0]) = 0
<1> DEFINE z == [x \in S |-> 0]
           Bad == {W \in SUBSET S : SumFunctionOnSet(z, W) # 0}
<1>1. ASSUME NEW W \in Bad
      PROVE  \E V \in Bad : V \subseteq W /\ V # W
  <2>1. W # {}
    BY SumEmpty
  <2>2. Pick(W) \in W /\ IsFiniteSet(W)
    BY <2>1, PickIn, FS_Subset
  <2>3. SumFunctionOnSet(z, W) = z[Pick(W)] + SumFunctionOnSet(z, W \ {Pick(W)})
    BY <2>1, <2>2, SumPick
  <2>4. W \ {Pick(W)} \in Bad
    BY <2>2, <2>3
  <2>5. QED
    BY <2>2, <2>4
<1>2. Bad \subseteq SUBSET S
  OBVIOUS
<1>3. Bad = {}
  <2> HIDE DEF Bad
  <2>1. QED
    BY <1>1, <1>2, NoSmallest
<1>4. DOMAIN z = S
  OBVIOUS
<1>5. QED
  BY <1>3, <1>4 DEF SumFunction
=============================================================================
