------------------------------ MODULE FiniteFacts ------------------------------
(* What the proofs of the other modules need of finite sets: induction over      *)
(* numbers and over finite sets, said of a set of values rather than of a        *)
(* predicate; and what a sum over a finite set is.                               *)
EXTENDS Integers, FiniteSets, Functions, FiniteSetTheorems, WellFoundedInduction, TLAPS

-------------------------------------------------------------------------------
(* Induction.  What fails somewhere fails first somewhere (WFMin).               *)

LEMMA NumberInduction ==
  ASSUME NEW S, 0 \in S, \A n \in Nat : n \in S => n + 1 \in S
  PROVE  Nat \subseteq S
<1> SUFFICES ASSUME Nat \ S # {} PROVE FALSE
  OBVIOUS
<1>1. IsWellFoundedOn(OpToRel(<, Nat), Nat)
  BY NatLessThanWellFounded
<1>2. \E x \in Nat \ S : \A y \in Nat \ S : ~ (<<y, x>> \in OpToRel(<, Nat))
  <2> HIDE DEF OpToRel
  <2> QED BY <1>1, WFMin
<1>3. PICK x \in Nat \ S : \A y \in Nat \ S : ~ (<<y, x>> \in OpToRel(<, Nat))
  BY <1>2
<1>4. \A y \in Nat \ S : ~ (y < x)
  BY <1>3 DEF OpToRel
<1>5. x # 0 /\ x - 1 \in Nat /\ x - 1 < x /\ (x - 1) + 1 = x
  OBVIOUS
<1> QED BY <1>4, <1>5

\* A set that has each subset of S all of whose smaller subsets it has, has S.
LEMMA SubsetInduction ==
  ASSUME NEW S, IsFiniteSet(S), NEW P,
         \A T \in SUBSET S : (\A U \in SUBSET T : U # T => U \in P) => T \in P
  PROVE  SUBSET S \subseteq P
<1> SUFFICES ASSUME NEW A \in SUBSET S, A \notin P PROVE FALSE
  OBVIOUS
<1> DEFINE Bad == (SUBSET S) \ P
           R == StrictSubsetOrdering(S)
<1>1. A \in Bad /\ Bad \subseteq FiniteSubsetsOf(S)
  BY FS_Subset DEF FiniteSubsetsOf
<1>2. IsWellFoundedOn(R, FiniteSubsetsOf(S))
  BY FS_StrictSubsetOrderingWellFounded
<1>3. \E T \in Bad : \A U \in Bad : ~ (<<U, T>> \in R)
  <2> HIDE DEF Bad, R
  <2> QED BY <1>1, <1>2, WFMin
<1>4. PICK T \in Bad : \A U \in Bad : ~ (<<U, T>> \in R)
  BY <1>3
<1>5. T \in SUBSET S /\ T \notin P
  BY <1>4
<1>6. \A U \in SUBSET T : U # T => <<U, T>> \in R
  BY <1>5 DEF StrictSubsetOrdering
<1>7. ASSUME NEW U \in SUBSET T, U # T PROVE U \in P
  <2>1. U \in SUBSET S /\ <<U, T>> \in R
    BY <1>5, <1>6, <1>7
  <2> QED BY <1>4, <2>1
<1> QED BY <1>5, <1>7

\* A set that has the empty set, and with a subset of S one that has one element more.
LEMMA ElementInduction ==
  ASSUME NEW S, IsFiniteSet(S), NEW P, {} \in P,
         \A T \in SUBSET S : \A x \in S \ T : T \in P => T \cup {x} \in P
  PROVE  S \in P
<1>1. ASSUME NEW T \in SUBSET S, \A U \in SUBSET T : U # T => U \in P
      PROVE  T \in P
  <2>1. CASE T = {}
    BY <2>1
  <2>2. CASE T # {}
    <3>1. PICK x \in T : TRUE
      BY <2>2
    <3>2. T \ {x} \in P /\ (T \ {x}) \cup {x} = T /\ x \in S \ (T \ {x})
      BY <1>1, <3>1
    <3> QED BY <3>2
  <2> QED BY <2>1, <2>2
<1>2. SUBSET S \subseteq P
  BY <1>1, SubsetInduction
<1> QED BY <1>2

-------------------------------------------------------------------------------
(* Sums.  Total(f, S) is what SumFunctionOnSet and MapThenFoldSet define: the    *)
(* recursion over the subsets of S that takes an element out by CHOOSE.          *)

Pick(s) == CHOOSE x \in s : TRUE
\* One unfolding of the recursion: what g says of smaller sets gives the sum of s.
Unfold(f, g, s) == IF s = {} THEN 0 ELSE f[Pick(s)] + g[s \ {Pick(s)}]
SumsOver(f, D, g) == g = [s \in D |-> Unfold(f, g, s)]
Total(f, S) == SumFunctionOnSet(f, S)

LEMMA PickFromSet == \A s : s # {} => Pick(s) \in s
BY DEF Pick

LEMMA TotalIsRecursive ==
  ASSUME NEW f, NEW S
  PROVE  Total(f, S) = (CHOOSE g : SumsOver(f, SUBSET S, g))[S]
BY DEF Total, SumFunctionOnSet, FoldFunctionOnSet, MapThenFoldSet, SumsOver, Unfold, Pick

\* The recursion over the subsets with at most n elements has a solution, for each n.
LEMMA SumsExist ==
  ASSUME NEW f, NEW S, IsFiniteSet(S)
  PROVE  \E g : SumsOver(f, SUBSET S, g)
<1> DEFINE Small(n) == {s \in SUBSET S : Cardinality(s) <= n}
           Solved(n) == \E g : SumsOver(f, Small(n), g)
           Good == {n \in Nat : Solved(n)}
<1>0. \A s \in SUBSET S : /\ IsFiniteSet(s) /\ Cardinality(s) \in Nat
                          /\ Cardinality(s) <= Cardinality(S)
                          /\ Cardinality(s) = 0 <=> s = {}
  BY FS_Subset, FS_EmptySet, FS_CardinalityType
<1>1. \A n \in Nat : \A s \in Small(n + 1) : s # {} => s \ {Pick(s)} \in Small(n)
  <2> SUFFICES ASSUME NEW n \in Nat, NEW s \in Small(n + 1), s # {}
               PROVE  s \ {Pick(s)} \in Small(n)
    OBVIOUS
  <2>1. s \in SUBSET S /\ IsFiniteSet(s) /\ Cardinality(s) <= n + 1 /\ Cardinality(s) \in Nat
    BY <1>0
  <2>2. Cardinality(s \ {Pick(s)}) = Cardinality(s) - 1
    BY <2>1, PickFromSet, FS_RemoveElement
  <2> QED BY <2>1, <2>2
<1>2. 0 \in Good
  <2> DEFINE g == [s \in Small(0) |-> 0]
  <2>1. \A s \in Small(0) : s = {}
    BY <1>0
  <2>2. SumsOver(f, Small(0), g)
    BY <2>1 DEF SumsOver, Unfold
  <2> QED BY <2>2
<1>3. ASSUME NEW n \in Nat, n \in Good PROVE n + 1 \in Good
  <2>1. PICK g : SumsOver(f, Small(n), g)
    BY <1>3
  <2> DEFINE h == [s \in Small(n + 1) |-> Unfold(f, g, s)]
  <2>2. Small(n) \subseteq Small(n + 1)
    BY <1>0
  <2>3. \A s \in Small(n) : h[s] = g[s]
    BY <2>1, <2>2 DEF SumsOver
  <2>4. \A s \in Small(n + 1) : Unfold(f, g, s) = Unfold(f, h, s)
    BY <1>1, <2>3 DEF Unfold
  <2>5. SumsOver(f, Small(n + 1), h)
    <3>1. h = [s \in Small(n + 1) |-> Unfold(f, g, s)]
      OBVIOUS
    <3> HIDE DEF Small, h
    <3>2. [s \in Small(n + 1) |-> Unfold(f, g, s)] = [s \in Small(n + 1) |-> Unfold(f, h, s)]
      BY <2>4
    <3> QED BY <3>1, <3>2 DEF SumsOver
  <2>6. Solved(n + 1)
    <3> HIDE DEF Small, h
    <3> QED BY <2>5
  <2> HIDE DEF Solved
  <2> QED BY <2>6
<1>4. Cardinality(S) \in Good
  <2> HIDE DEF Good
  <2>1. Nat \subseteq Good
    BY <1>2, <1>3, NumberInduction
  <2> QED BY <2>1, FS_CardinalityType
<1>5. Small(Cardinality(S)) = SUBSET S
  BY <1>0
<1> QED BY <1>4, <1>5

\* A sum over T is the same whatever set of sets the recursion runs over.
LEMMA TotalEquation ==
  ASSUME NEW f, NEW S, IsFiniteSet(S), S # {}
  PROVE  /\ Pick(S) \in S
         /\ Total(f, S) = f[Pick(S)] + Total(f, S \ {Pick(S)})
<1> DEFINE Sums(T) == CHOOSE g : SumsOver(f, SUBSET T, g)
<1>1. \A T \in SUBSET S : SumsOver(f, SUBSET T, Sums(T))
  BY SumsExist, FS_Subset
<1> HIDE DEF Sums
<1>2. Pick(S) \in S
  BY PickFromSet
<1> DEFINE T == S \ {Pick(S)}
           Same == {U \in SUBSET T : Sums(S)[U] = Sums(T)[U]}
<1>3. IsFiniteSet(T) /\ T \in SUBSET S
  BY FS_RemoveElement
<1>4. ASSUME NEW U \in SUBSET T, \A V \in SUBSET U : V # U => V \in Same
      PROVE  U \in Same
  <2>1. U \in SUBSET S /\ U \in SUBSET T
    BY <1>3
  <2>2. Sums(S)[U] = Unfold(f, Sums(S), U) /\ Sums(T)[U] = Unfold(f, Sums(T), U)
    BY <1>1, <1>3, <2>1 DEF SumsOver
  <2>3. U # {} => U \ {Pick(U)} \in SUBSET U /\ U \ {Pick(U)} # U
    BY PickFromSet
  <2>4. U # {} => Sums(S)[U \ {Pick(U)}] = Sums(T)[U \ {Pick(U)}]
    BY <1>4, <2>3
  <2> QED BY <2>2, <2>4 DEF Unfold
<1>5. T \in Same
  <2> HIDE DEF Same, T
  <2>1. SUBSET T \subseteq Same
    BY <1>3, <1>4, SubsetInduction
  <2> QED BY <2>1
<1>6. Sums(S)[S] = f[Pick(S)] + Sums(S)[T]
  BY <1>1 DEF SumsOver, Unfold
<1>7. Total(f, S) = Sums(S)[S] /\ Total(f, T) = Sums(T)[T]
  BY TotalIsRecursive DEF Sums
<1> QED BY <1>2, <1>5, <1>6, <1>7

LEMMA TotalOfNothing == ASSUME NEW f PROVE Total(f, {}) = 0
<1>1. \E g : SumsOver(f, SUBSET {}, g)
  BY SumsExist, FS_EmptySet
<1>2. SumsOver(f, SUBSET {}, CHOOSE g : SumsOver(f, SUBSET {}, g))
  BY <1>1
<1> QED BY <1>2, TotalIsRecursive DEF SumsOver, Unfold

LEMMA TotalType ==
  ASSUME NEW f, NEW S, IsFiniteSet(S), \A s \in S : f[s] \in Int
  PROVE  Total(f, S) \in Int
<1> DEFINE Good == {U \in SUBSET S : Total(f, U) \in Int}
<1>1. ASSUME NEW U \in SUBSET S, \A V \in SUBSET U : V # U => V \in Good
      PROVE  U \in Good
  <2>1. CASE U = {}
    BY <2>1, TotalOfNothing
  <2>2. CASE U # {}
    <3>1. Pick(U) \in U /\ Total(f, U) = f[Pick(U)] + Total(f, U \ {Pick(U)})
      BY <2>2, FS_Subset, TotalEquation
    <3>2. U \ {Pick(U)} \in Good
      BY <1>1, <3>1
    <3> QED BY <3>1, <3>2
  <2> QED BY <2>1, <2>2
<1>2. S \in Good
  <2> HIDE DEF Good
  <2>1. SUBSET S \subseteq Good
    BY <1>1, SubsetInduction
  <2> QED BY <2>1
<1> QED BY <1>2

\* Any element can be taken out first, not only the one CHOOSE takes.
LEMMA TotalOfUnion ==
  ASSUME NEW f, NEW S, IsFiniteSet(S), NEW x \in S, \A s \in S : f[s] \in Int
  PROVE  Total(f, S) = f[x] + Total(f, S \ {x})
<1> DEFINE Good == {U \in SUBSET S : \A y \in U : Total(f, U) = f[y] + Total(f, U \ {y})}
<1>0. \A U \in SUBSET S : IsFiniteSet(U) /\ Total(f, U) \in Int
  BY FS_Subset, TotalType
<1>1. ASSUME NEW U \in SUBSET S, \A V \in SUBSET U : V # U => V \in Good
      PROVE  U \in Good
  <2> SUFFICES ASSUME NEW y \in U PROVE Total(f, U) = f[y] + Total(f, U \ {y})
    OBVIOUS
  <2> DEFINE z == Pick(U)
  <2>1. z \in U /\ Total(f, U) = f[z] + Total(f, U \ {z})
    BY <1>0, TotalEquation
  <2>2. CASE z = y
    BY <2>1, <2>2
  <2>3. CASE z # y
    <3> HIDE DEF z
    <3> DEFINE W == U \ {y, z}
    <3>1. /\ U \ {z} \in Good /\ U \ {y} \in Good
          /\ y \in U \ {z} /\ z \in U \ {y}
          /\ (U \ {z}) \ {y} = W /\ (U \ {y}) \ {z} = W /\ W \in SUBSET S
      BY <1>1, <2>1, <2>3
    <3>2. Total(f, U \ {z}) = f[y] + Total(f, W) /\ Total(f, U \ {y}) = f[z] + Total(f, W)
      BY <3>1
    <3>3. f[y] \in Int /\ f[z] \in Int /\ Total(f, W) \in Int
      BY <1>0, <2>1, <3>1
    <3> HIDE DEF W
    <3> QED BY <2>1, <3>2, <3>3
  <2> QED BY <2>2, <2>3
<1>2. S \in Good
  <2> HIDE DEF Good
  <2>1. SUBSET S \subseteq Good
    BY <1>1, SubsetInduction
  <2> QED BY <2>1
<1> QED BY <1>2

LEMMA TotalAddsOne ==
  ASSUME NEW f, NEW S, IsFiniteSet(S), NEW x, x \notin S, \A s \in S \cup {x} : f[s] \in Int
  PROVE  Total(f, S \cup {x}) = f[x] + Total(f, S)
<1>1. IsFiniteSet(S \cup {x}) /\ (S \cup {x}) \ {x} = S
  BY FS_AddElement
<1> QED BY <1>1, TotalOfUnion

\* Sums whose terms correspond are equal.
LEMMA TotalMoves ==
  ASSUME NEW S, IsFiniteSet(S), NEW at, NEW f, NEW g,
         \A s, t \in S : at[s] = at[t] => s = t,
         \A s \in S : f[at[s]] \in Int /\ g[s] = f[at[s]]
  PROVE  Total(g, S) = Total(f, {at[s] : s \in S})
<1> DEFINE Image(U) == {at[s] : s \in U}
           Good == {U \in SUBSET S : Total(g, U) = Total(f, Image(U))}
<1>1. {} \in Good
  <2>1. Image({}) = {}
    OBVIOUS
  <2> QED BY <2>1, TotalOfNothing
<1>2. ASSUME NEW U \in SUBSET S, NEW x \in S \ U, U \in Good PROVE U \cup {x} \in Good
  <2>1. IsFiniteSet(U) /\ IsFiniteSet(Image(U))
    <3>1. IsFiniteSet(U)
      BY FS_Subset
    <3> DEFINE h == [u \in U |-> at[u]]
    <3>2. h \in Surjection(U, Image(U))
      BY DEF Surjection
    <3>3. IsFiniteSet(Image(U))
      <4> HIDE DEF h, Image
      <4> QED BY <3>1, <3>2, FS_Surjection
    <3> QED BY <3>1, <3>3
  <2>2. at[x] \notin Image(U) /\ Image(U \cup {x}) = Image(U) \cup {at[x]}
    OBVIOUS
  <2>3. Total(g, U \cup {x}) = g[x] + Total(g, U)
    BY <2>1, TotalAddsOne
  <2>4. \A t \in Image(U) \cup {at[x]} : f[t] \in Int
    OBVIOUS
  <2>5. Total(f, Image(U) \cup {at[x]}) = f[at[x]] + Total(f, Image(U))
    <3> HIDE DEF Image
    <3> QED BY <2>1, <2>2, <2>4, TotalAddsOne
  <2> HIDE DEF Image
  <2> QED BY <1>2, <2>2, <2>3, <2>5
<1>3. S \in Good
  <2> HIDE DEF Good
  <2> QED BY <1>1, <1>2, ElementInduction
<1> QED BY <1>3

LEMMA TotalAgrees ==
  ASSUME NEW S, IsFiniteSet(S), NEW f, NEW g, \A s \in S : f[s] \in Int /\ g[s] = f[s]
  PROVE  Total(g, S) = Total(f, S)
<1> DEFINE at == [s \in S |-> s]
<1>1. {at[s] : s \in S} = S
  OBVIOUS
<1>2. Total(g, S) = Total(f, {at[s] : s \in S})
  <2>1. \A s \in S : at[s] = s
    OBVIOUS
  <2> HIDE DEF at
  <2> QED BY <2>1, TotalMoves
<1> QED BY <1>1, <1>2

\* A sum of what is not negative is no less than a sum of a part of it.
LEMMA TotalOfPart ==
  ASSUME NEW f, NEW S, IsFiniteSet(S), \A s \in S : f[s] \in Nat, NEW T \in SUBSET S
  PROVE  Total(f, T) \in Nat /\ Total(f, T) <= Total(f, S)
<1> DEFINE Good == {U \in SUBSET (S \ T) : Total(f, T) <= Total(f, T \cup U)}
<1>0. \A U \in SUBSET S : IsFiniteSet(U) /\ Total(f, U) \in Int
  BY FS_Subset, TotalType
<1>1. {} \in Good
  <2>1. T \cup {} = T
    OBVIOUS
  <2> QED BY <1>0, <2>1
<1>2. ASSUME NEW U \in SUBSET (S \ T), NEW x \in (S \ T) \ U, U \in Good PROVE U \cup {x} \in Good
  <2>1. /\ T \cup (U \cup {x}) = (T \cup U) \cup {x} /\ x \notin T \cup U
        /\ T \cup U \in SUBSET S /\ f[x] \in Nat /\ \A s \in (T \cup U) \cup {x} : f[s] \in Int
    OBVIOUS
  <2>2. Total(f, (T \cup U) \cup {x}) = f[x] + Total(f, T \cup U)
    BY <1>0, <2>1, TotalAddsOne
  <2>3. Total(f, T) \in Int /\ Total(f, T \cup U) \in Int
    BY <1>0, <2>1
  <2> QED BY <1>2, <2>1, <2>2, <2>3
<1>3. S \ T \in Good
  <2>1. IsFiniteSet(S \ T)
    BY <1>0
  <2> HIDE DEF Good
  <2> QED BY <1>1, <1>2, <2>1, ElementInduction
<1>4. T \cup (S \ T) = S
  OBVIOUS
<1>5. Total(f, T) \in Nat
  <2> DEFINE Some == {U \in SUBSET T : Total(f, U) \in Nat}
  <2>1. {} \in Some
    BY TotalOfNothing
  <2>2. ASSUME NEW U \in SUBSET T, NEW x \in T \ U, U \in Some PROVE U \cup {x} \in Some
    <3>1. Total(f, U \cup {x}) = f[x] + Total(f, U) /\ f[x] \in Nat
      BY <1>0, TotalAddsOne
    <3> QED BY <2>2, <3>1
  <2>3. T \in Some
    <3> HIDE DEF Some
    <3> QED BY <1>0, <2>1, <2>2, ElementInduction
  <2> QED BY <2>3
<1> QED BY <1>3, <1>4, <1>5
=============================================================================
