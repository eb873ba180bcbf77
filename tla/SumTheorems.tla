----------------------------- MODULE SumTheorems -----------------------------
(***************************************************************************)
(* Facts about SumFunctionOnSet(f, S), the sum of f over a finite set S     *)
(* that every supply and stake invariant is stated with, and about the      *)
(* lists of the application: Filter(s, S), the entries of s that are in S,  *)
(* and what FlattenSeq computes.  The provers cannot instantiate an         *)
(* induction theorem with a predicate, so induction is stated here about    *)
(* sets: a set of naturals, or of subsets of a finite set, that is closed   *)
(* under "all smaller ones are in it" is everything.                        *)
(***************************************************************************)
EXTENDS Integers, Sequences, FiniteSets, Functions, Lists, FiniteSetTheorems, TLAPS

\* A non-empty set of naturals has a smallest element.
LEMMA SmallestNat ==
  ASSUME NEW S \in SUBSET Nat, S # {}
  PROVE  \E i \in S : \A j \in S : i <= j
<1> DEFINE R == OpToRel(<, Nat)
<1>1. IsWellFoundedOn(R, Nat)
  BY NatLessThanWellFounded
<1>2. \A x, y \in Nat : y < x => <<y, x>> \in R
  BY DEF OpToRel
<1> HIDE DEF R
<1>3. PICK m \in S : \A y \in S : <<y, m>> \notin R
  <2>1. S \subseteq Nat
    OBVIOUS
  <2> QED BY <1>1, <2>1, WFMin
<1>4. ASSUME NEW j \in S PROVE m <= j
  <2>1. j \in Nat /\ m \in Nat
    OBVIOUS
  <2>2. ~(j < m)
    BY <2>1, <1>2, <1>3
  <2> QED BY <2>1, <2>2
<1> QED BY <1>4

\* Induction on the naturals for a set G.
LEMMA NatSetInduction ==
  ASSUME NEW G \in SUBSET Nat, 0 \in G, \A n \in G : n + 1 \in G
  PROVE  G = Nat
<1> SUFFICES ASSUME Nat \ G # {} PROVE FALSE
  OBVIOUS
<1>1. PICK m \in Nat \ G : \A j \in Nat \ G : m <= j
  BY SmallestNat
<1>2. m # 0
  OBVIOUS
<1>3. m - 1 \in Nat /\ ~(m <= m - 1)
  BY <1>2
<1>4. m - 1 \in G
  BY <1>1, <1>3
<1>5. (m - 1) + 1 \in G
  BY <1>4
<1> QED BY <1>5

\* Induction on the subsets of a finite set, by removing one element.
LEMMA SubsetInduction ==
  ASSUME NEW S, IsFiniteSet(S), NEW G,
         \A t \in SUBSET S : (\A x \in t : t \ {x} \in G) => t \in G
  PROVE  S \in G
<1> DEFINE B == {t \in SUBSET S : t \notin G}
<1> SUFFICES ASSUME B # {} PROVE FALSE
  OBVIOUS
<1>1. IsWellFoundedOn(StrictSubsetOrdering(S), FiniteSubsetsOf(S))
  BY FS_StrictSubsetOrderingWellFounded
<1>2. B \subseteq FiniteSubsetsOf(S)
  BY FS_Subset DEF FiniteSubsetsOf
<1>3. PICK m \in B : \A y \in B : <<y, m>> \notin StrictSubsetOrdering(S)
  <2> HIDE DEF B
  <2> QED BY <1>1, <1>2, WFMin
<1>4. ASSUME NEW x \in m PROVE m \ {x} \in G
  <2>1. <<m \ {x}, m>> \in StrictSubsetOrdering(S)
    BY DEF StrictSubsetOrdering
  <2> QED BY <2>1, <1>3
<1> QED BY <1>4

\* The recursion that MapThenFoldSet unfolds to: g[s] is the sum over s.
Pick(s) == CHOOSE x \in s : TRUE

SumRec(f, S, g) ==
  g = [s \in SUBSET S |-> IF s = {} THEN 0 ELSE f[Pick(s)] + g[s \ {Pick(s)}]]

\* SumFunctionOnSet is a CHOOSE of a solution of the recursion.
LEMMA SumUnfold ==
  ASSUME NEW S, NEW f
  PROVE  SumFunctionOnSet(f, S) = (CHOOSE g : SumRec(f, S, g))[S]
BY DEF SumFunctionOnSet, FoldFunctionOnSet, MapThenFoldSet, SumRec, Pick

\* Pick picks.
LEMMA PickIn == ASSUME NEW s, s # {} PROVE Pick(s) \in s
BY DEF Pick

\* The recursion has a solution on a finite set, built by cardinality.
LEMMA SumRecExists ==
  ASSUME NEW S, IsFiniteSet(S), NEW f, \A x \in S : f[x] \in Int
  PROVE  \E g \in [SUBSET S -> Int] : SumRec(f, S, g)
<1> DEFINE Upto(g, n) == /\ g[{}] = 0
                         /\ \A t \in SUBSET S : t # {} /\ Cardinality(t) <= n
                               => g[t] = f[Pick(t)] + g[t \ {Pick(t)}]
           Good == {n \in Nat : \E g \in [SUBSET S -> Int] : Upto(g, n)}
<1>0. \A t \in SUBSET S : IsFiniteSet(t) /\ Cardinality(t) \in Nat
  BY FS_Subset, FS_CardinalityType
<1>1. 0 \in Good
  <2>1. [t \in SUBSET S |-> 0] \in [SUBSET S -> Int]
    OBVIOUS
  <2>2. Upto([t \in SUBSET S |-> 0], 0)
    BY <1>0, FS_EmptySet
  <2> HIDE DEF Upto
  <2> QED BY <2>1, <2>2
<1>2. ASSUME NEW n \in Nat, NEW g \in [SUBSET S -> Int], Upto(g, n)
      PROVE  \E h \in [SUBSET S -> Int] : Upto(h, n + 1)
  <2> DEFINE h == [t \in SUBSET S |-> IF Cardinality(t) = n + 1
                                      THEN f[Pick(t)] + g[t \ {Pick(t)}] ELSE g[t]]
  <2>1. ASSUME NEW t \in SUBSET S, t # {}
        PROVE  /\ Pick(t) \in t
               /\ t \ {Pick(t)} \in SUBSET S
               /\ Cardinality(t \ {Pick(t)}) = Cardinality(t) - 1
               /\ f[Pick(t)] \in Int
    BY <2>1, PickIn, <1>0, FS_RemoveElement
  <2>2. h \in [SUBSET S -> Int]
    <3> SUFFICES ASSUME NEW t \in SUBSET S, Cardinality(t) = n + 1
                 PROVE  f[Pick(t)] + g[t \ {Pick(t)}] \in Int
      OBVIOUS
    <3>1. Cardinality(t) # 0
      OBVIOUS
    <3>2. t # {}
      BY <3>1, FS_EmptySet
    <3> QED BY <3>2, <2>1
  <2>3. h[{}] = 0
    BY FS_EmptySet, <1>2
  <2>4. ASSUME NEW t \in SUBSET S, t # {}, Cardinality(t) <= n + 1
        PROVE  h[t] = f[Pick(t)] + h[t \ {Pick(t)}]
    <3>1. h[t \ {Pick(t)}] = g[t \ {Pick(t)}]
      BY <2>1, <2>4, <1>0
    <3>2. CASE Cardinality(t) = n + 1
      BY <3>1, <3>2
    <3>3. CASE Cardinality(t) <= n
      BY <3>1, <3>3, <1>2, <2>4
    <3> QED BY <3>2, <3>3, <2>4, <1>0
  <2>5. Upto(h, n + 1)
    BY <2>3, <2>4
  <2> HIDE DEF h, Upto
  <2> QED BY <2>2, <2>5
<1>3. Good = Nat
  <2>1. ASSUME NEW n \in Good PROVE n + 1 \in Good
    <3> HIDE DEF Upto
    <3>1. n \in Nat /\ \E g \in [SUBSET S -> Int] : Upto(g, n)
      OBVIOUS
    <3>2. \E h \in [SUBSET S -> Int] : Upto(h, n + 1)
      BY <3>1, <1>2
    <3>3. n + 1 \in Nat
      BY <3>1
    <3> QED BY <3>2, <3>3
  <2> HIDE DEF Good
  <2> QED BY <1>1, <2>1, NatSetInduction DEF Good
<1>4. PICK g \in [SUBSET S -> Int] : Upto(g, Cardinality(S))
  <2> HIDE DEF Upto
  <2> QED BY <1>3, FS_CardinalityType
<1>5. SumRec(f, S, g)
  <2>1. ASSUME NEW t \in SUBSET S, t # {} PROVE g[t] = f[Pick(t)] + g[t \ {Pick(t)}]
    <3>1. Cardinality(t) <= Cardinality(S)
      BY FS_Subset
    <3> QED BY <3>1, <2>1, <1>4
  <2> QED BY <2>1, <1>4 DEF SumRec
<1> QED BY <1>5

\* One unfolding of a solution.
LEMMA SumRecValue ==
  ASSUME NEW S, NEW f, NEW g, SumRec(f, S, g), NEW t \in SUBSET S
  PROVE  /\ t = {} => g[t] = 0
         /\ t # {} => g[t] = f[Pick(t)] + g[t \ {Pick(t)}]
BY DEF SumRec

\* A solution for S and one for a subset T agree on the subsets of T.
LEMMA SumRecAgree ==
  ASSUME NEW S, IsFiniteSet(S), NEW T \in SUBSET S, NEW f, NEW g, NEW h,
         SumRec(f, S, g), SumRec(f, T, h)
  PROVE  \A t \in SUBSET T : h[t] = g[t]
<1> DEFINE G == {t \in SUBSET T : h[t] = g[t]}
<1>1. ASSUME NEW U \in SUBSET T PROVE U \in G
  <2>1. ASSUME NEW t \in SUBSET U, \A x \in t : t \ {x} \in G PROVE t \in G
    <3>1. t \in SUBSET T /\ t \in SUBSET S
      OBVIOUS
    <3>2. /\ t = {} => g[t] = 0
          /\ t # {} => g[t] = f[Pick(t)] + g[t \ {Pick(t)}]
      BY <3>1, SumRecValue
    <3>4. /\ t = {} => h[t] = 0
          /\ t # {} => h[t] = f[Pick(t)] + h[t \ {Pick(t)}]
      BY <3>1 DEF SumRec
    <3>3. t # {} => h[t \ {Pick(t)}] = g[t \ {Pick(t)}]
      BY <2>1, PickIn
    <3> QED BY <3>1, <3>2, <3>3, <3>4
  <2>2. IsFiniteSet(U)
    BY FS_Subset
  <2> HIDE DEF G
  <2> QED BY <2>1, <2>2, SubsetInduction
<1> QED BY <1>1

\* g tabulates the sums of f over the subsets of S.
Solves(f, S, g) ==
  /\ g \in [SUBSET S -> Int]
  /\ SumRec(f, S, g)
  /\ \A t \in SUBSET S : SumFunctionOnSet(f, t) = g[t]

\* There is such a table.
LEMMA SumSolution ==
  ASSUME NEW S, IsFiniteSet(S), NEW f, \A x \in S : f[x] \in Int
  PROVE  \E g : Solves(f, S, g)
<1>1. PICK g \in [SUBSET S -> Int] : SumRec(f, S, g)
  BY SumRecExists
<1>2. ASSUME NEW t \in SUBSET S PROVE SumFunctionOnSet(f, t) = g[t]
  <2>1. IsFiniteSet(t) /\ \A x \in t : f[x] \in Int
    BY FS_Subset
  <2>2. \E h : SumRec(f, t, h)
    BY <2>1, SumRecExists
  <2> DEFINE h == CHOOSE h : SumRec(f, t, h)
  <2>3. SumRec(f, t, h)
    BY <2>2
  <2> HIDE DEF h
  <2>4. h[t] = g[t]
    <3>1. \A u \in SUBSET t : h[u] = g[u]
      BY <2>3, <1>1, SumRecAgree
    <3> QED BY <3>1
  <2> QED BY <2>4, SumUnfold DEF h
<1>3. Solves(f, S, g)
  BY <1>1, <1>2 DEF Solves
<1> QED BY <1>3

\* The sum over the empty set.
THEOREM SumEmpty == ASSUME NEW f PROVE SumFunctionOnSet(f, {}) = 0
<1>1. IsFiniteSet({}) BY FS_EmptySet
<1>2. PICK g : Solves(f, {}, g)
  BY <1>1, SumSolution
<1>3. SumRec(f, {}, g) /\ SumFunctionOnSet(f, {}) = g[{}]
  BY <1>2 DEF Solves
<1> QED BY <1>3 DEF SumRec

\* The sum of integers is an integer.
THEOREM SumType ==
  ASSUME NEW S, IsFiniteSet(S), NEW f, \A x \in S : f[x] \in Int
  PROVE  SumFunctionOnSet(f, S) \in Int
<1>1. PICK g : Solves(f, S, g)
  BY SumSolution
<1> QED BY <1>1 DEF Solves

\* Any element can be split off: the order of summation does not matter.
THEOREM SumRemove ==
  ASSUME NEW S, IsFiniteSet(S), NEW f, \A x \in S : f[x] \in Int, NEW a \in S
  PROVE  SumFunctionOnSet(f, S) = f[a] + SumFunctionOnSet(f, S \ {a})
<1>1. PICK g : Solves(f, S, g)
  BY SumSolution
<1> DEFINE G == {t \in SUBSET S : \A x \in t : g[t] = f[x] + g[t \ {x}]}
<1>2. ASSUME NEW t \in SUBSET S, \A x \in t : t \ {x} \in G, NEW x \in t
      PROVE  g[t] = f[x] + g[t \ {x}]
  <2> DEFINE c == Pick(t)
  <2>1. c \in t
    BY PickIn
  <2>2. g[t] = f[c] + g[t \ {c}]
    BY <1>1, SumRecValue DEF Solves
  <2> HIDE DEF c
  <2>3. CASE x = c
    BY <2>2, <2>3
  <2>4. CASE x # c
    <3>1. g[t \ {c}] = f[x] + g[(t \ {c}) \ {x}]
      BY <1>2, <2>1, <2>4
    <3>2. g[t \ {x}] = f[c] + g[(t \ {x}) \ {c}]
      BY <1>2, <2>1, <2>4
    <3>3. (t \ {c}) \ {x} = (t \ {x}) \ {c}
      OBVIOUS
    <3>4. g[(t \ {x}) \ {c}] \in Int
      BY <1>1 DEF Solves
    <3>5. f[c] \in Int /\ f[x] \in Int
      BY <2>1
    <3>6. g[t] = f[c] + (f[x] + g[(t \ {x}) \ {c}])
      BY <2>2, <3>1, <3>3
    <3> HIDE DEF G
    <3> DEFINE rest == g[(t \ {x}) \ {c}]
    <3>7. f[c] + (f[x] + rest) = f[x] + (f[c] + rest)
      <4> HIDE DEF rest
      <4> QED BY <3>4, <3>5 DEF rest
    <3> QED BY <3>2, <3>6, <3>7
  <2> QED BY <2>3, <2>4
<1>3. S \in G
  <2>1. \A t \in SUBSET S : (\A x \in t : t \ {x} \in G) => t \in G
    BY <1>2
  <2> HIDE DEF G
  <2> QED BY <2>1, SubsetInduction
<1> QED BY <1>1, <1>3 DEF Solves

\* Sums are additive.
THEOREM SumAdd ==
  ASSUME NEW S, IsFiniteSet(S), NEW f, NEW g, NEW h,
         \A x \in S : f[x] \in Int /\ g[x] \in Int /\ h[x] = f[x] + g[x]
  PROVE  SumFunctionOnSet(h, S) = SumFunctionOnSet(f, S) + SumFunctionOnSet(g, S)
<1> DEFINE G == {t \in SUBSET S : SumFunctionOnSet(h, t) = SumFunctionOnSet(f, t) + SumFunctionOnSet(g, t)}
<1>1. ASSUME NEW t \in SUBSET S, \A x \in t : t \ {x} \in G PROVE t \in G
  <2>0. IsFiniteSet(t)
    BY FS_Subset
  <2>1. CASE t = {}
    BY <2>1, SumEmpty
  <2>2. CASE t # {}
    <3>1. PICK x \in t : TRUE
      BY <2>2
    <3>2. \A y \in t : f[y] \in Int /\ g[y] \in Int /\ h[y] \in Int
      OBVIOUS
    <3>3. /\ SumFunctionOnSet(f, t) = f[x] + SumFunctionOnSet(f, t \ {x})
          /\ SumFunctionOnSet(g, t) = g[x] + SumFunctionOnSet(g, t \ {x})
          /\ SumFunctionOnSet(h, t) = h[x] + SumFunctionOnSet(h, t \ {x})
      BY <2>0, <3>2, SumRemove
    <3>4. IsFiniteSet(t \ {x})
      BY <2>0, FS_RemoveElement
    <3>5. /\ SumFunctionOnSet(f, t \ {x}) \in Int
          /\ SumFunctionOnSet(g, t \ {x}) \in Int
      BY <3>2, <3>4, SumType
    <3>6. SumFunctionOnSet(h, t \ {x}) = SumFunctionOnSet(f, t \ {x}) + SumFunctionOnSet(g, t \ {x})
      BY <1>1
    <3>7. h[x] = f[x] + g[x] /\ f[x] \in Int /\ g[x] \in Int
      OBVIOUS
    <3> QED BY <3>3, <3>5, <3>6, <3>7
  <2> QED BY <2>1, <2>2
<1> HIDE DEF G
<1>2. S \in G
  BY <1>1, SubsetInduction
<1> QED BY <1>2 DEF G

\* The sum of zeros.
THEOREM SumZero ==
  ASSUME NEW S, IsFiniteSet(S), NEW f, \A x \in S : f[x] = 0
  PROVE  SumFunctionOnSet(f, S) = 0
<1> DEFINE G == {t \in SUBSET S : SumFunctionOnSet(f, t) = 0}
<1>1. ASSUME NEW t \in SUBSET S, \A x \in t : t \ {x} \in G PROVE t \in G
  <2>1. CASE t = {}
    BY <2>1, SumEmpty
  <2>2. CASE t # {}
    <3>1. PICK x \in t : TRUE
      BY <2>2
    <3>2. IsFiniteSet(t) /\ \A y \in t : f[y] \in Int
      BY FS_Subset
    <3>3. SumFunctionOnSet(f, t) = f[x] + SumFunctionOnSet(f, t \ {x})
      BY <3>2, SumRemove
    <3>4. SumFunctionOnSet(f, t \ {x}) = 0 /\ f[x] = 0
      BY <1>1
    <3> QED BY <3>3, <3>4
  <2> QED BY <2>1, <2>2
<1> HIDE DEF G
<1>2. S \in G
  BY <1>1, SubsetInduction
<1> QED BY <1>2 DEF G

\* The sum depends only on the values on S.
THEOREM SumEqual ==
  ASSUME NEW S, IsFiniteSet(S), NEW f, NEW g,
         \A x \in S : f[x] \in Int /\ g[x] = f[x]
  PROVE  SumFunctionOnSet(g, S) = SumFunctionOnSet(f, S)
<1> DEFINE z == [x \in S |-> 0]
<1>1. SumFunctionOnSet(z, S) = 0
  BY SumZero
<1>2. \A x \in S : f[x] \in Int /\ z[x] \in Int /\ g[x] = f[x] + z[x]
  OBVIOUS
<1> HIDE DEF z
<1>3. SumFunctionOnSet(g, S) = SumFunctionOnSet(f, S) + SumFunctionOnSet(z, S)
  BY <1>2, SumAdd
<1> QED BY <1>1, <1>3, SumType

\* The sum of naturals is a natural.
THEOREM SumNat ==
  ASSUME NEW S, IsFiniteSet(S), NEW f, \A x \in S : f[x] \in Nat
  PROVE  SumFunctionOnSet(f, S) \in Nat
<1> DEFINE G == {t \in SUBSET S : SumFunctionOnSet(f, t) \in Nat}
<1>1. ASSUME NEW t \in SUBSET S, \A x \in t : t \ {x} \in G PROVE t \in G
  <2>1. CASE t = {}
    BY <2>1, SumEmpty
  <2>2. CASE t # {}
    <3>1. PICK x \in t : TRUE
      BY <2>2
    <3>2. IsFiniteSet(t) /\ \A y \in t : f[y] \in Int
      BY FS_Subset
    <3>3. SumFunctionOnSet(f, t) = f[x] + SumFunctionOnSet(f, t \ {x})
      BY <3>2, SumRemove
    <3>4. SumFunctionOnSet(f, t \ {x}) \in Nat /\ f[x] \in Nat
      BY <1>1
    <3> QED BY <3>3, <3>4
  <2> QED BY <2>1, <2>2
<1> HIDE DEF G
<1>2. S \in G
  BY <1>1, SubsetInduction
<1> QED BY <1>2 DEF G

\* A subset can be split off.
THEOREM SumSplit ==
  ASSUME NEW S, IsFiniteSet(S), NEW f, \A x \in S : f[x] \in Int, NEW T \in SUBSET S
  PROVE  SumFunctionOnSet(f, S) = SumFunctionOnSet(f, T) + SumFunctionOnSet(f, S \ T)
<1> DEFINE G == {t \in SUBSET S :
                   SumFunctionOnSet(f, S) = SumFunctionOnSet(f, t) + SumFunctionOnSet(f, S \ t)}
<1>0. SumFunctionOnSet(f, S) \in Int
  BY SumType
<1>1. ASSUME NEW t \in SUBSET T, \A x \in t : t \ {x} \in G PROVE t \in G
  <2>1. CASE t = {}
    <3>1. S \ t = S
      BY <2>1
    <3> QED BY <2>1, <3>1, <1>0, SumEmpty
  <2>2. CASE t # {}
    <3>1. PICK x \in t : TRUE
      BY <2>2
    <3>2. IsFiniteSet(t) /\ IsFiniteSet(S \ t) /\ IsFiniteSet(S \ (t \ {x})) /\ IsFiniteSet(t \ {x})
      BY FS_Subset
    <3>3. SumFunctionOnSet(f, t) = f[x] + SumFunctionOnSet(f, t \ {x})
      BY <3>2, SumRemove
    <3>4. (S \ (t \ {x})) \ {x} = S \ t /\ x \in S \ (t \ {x})
      OBVIOUS
    <3>5. SumFunctionOnSet(f, S \ (t \ {x})) = f[x] + SumFunctionOnSet(f, (S \ (t \ {x})) \ {x})
      BY <3>2, <3>4, SumRemove
    <3>6. SumFunctionOnSet(f, S) = SumFunctionOnSet(f, t \ {x}) + SumFunctionOnSet(f, S \ (t \ {x}))
      BY <1>1
    <3>7. /\ SumFunctionOnSet(f, t \ {x}) \in Int
          /\ SumFunctionOnSet(f, S \ t) \in Int
          /\ f[x] \in Int
      BY <3>2, SumType
    <3>8. SumFunctionOnSet(f, S \ (t \ {x})) = f[x] + SumFunctionOnSet(f, S \ t)
      BY <3>4, <3>5
    <3>9. SumFunctionOnSet(f, S) = SumFunctionOnSet(f, t) + SumFunctionOnSet(f, S \ t)
      BY <3>3, <3>6, <3>7, <3>8
    <3> QED BY <3>9
  <2> QED BY <2>1, <2>2
<1>2. IsFiniteSet(T)
  BY FS_Subset
<1> HIDE DEF G
<1>3. T \in G
  BY <1>1, <1>2, SubsetInduction
<1> QED BY <1>3 DEF G

\* Two functions that differ at most at a.
THEOREM SumUpdate ==
  ASSUME NEW S, IsFiniteSet(S), NEW f, NEW g, NEW a \in S,
         \A x \in S : f[x] \in Int /\ g[x] \in Int,
         \A x \in S : x # a => g[x] = f[x]
  PROVE  SumFunctionOnSet(g, S) = SumFunctionOnSet(f, S) - f[a] + g[a]
<1>1. IsFiniteSet(S \ {a})
  BY FS_RemoveElement
<1>2. \A x \in S \ {a} : f[x] \in Int /\ g[x] = f[x]
  OBVIOUS
<1>3. SumFunctionOnSet(g, S \ {a}) = SumFunctionOnSet(f, S \ {a})
  BY <1>1, <1>2, SumEqual
<1>4. /\ SumFunctionOnSet(f, S) = f[a] + SumFunctionOnSet(f, S \ {a})
      /\ SumFunctionOnSet(g, S) = g[a] + SumFunctionOnSet(g, S \ {a})
  BY SumRemove
<1>5. SumFunctionOnSet(f, S \ {a}) \in Int
  BY <1>1, SumType
<1> QED BY <1>3, <1>4, <1>5

\* Sums are monotone.
THEOREM SumMonotone ==
  ASSUME NEW S, IsFiniteSet(S), NEW f, NEW g,
         \A x \in S : f[x] \in Int /\ g[x] \in Int /\ f[x] <= g[x]
  PROVE  SumFunctionOnSet(f, S) <= SumFunctionOnSet(g, S)
<1> DEFINE d == [x \in S |-> g[x] - f[x]]
<1>1. \A x \in S : d[x] \in Nat
  OBVIOUS
<1>2. SumFunctionOnSet(d, S) \in Nat
  <2> HIDE DEF d
  <2> QED BY <1>1, SumNat
<1>3. \A x \in S : f[x] \in Int /\ d[x] \in Int /\ g[x] = f[x] + d[x]
  OBVIOUS
<1> HIDE DEF d
<1>4. SumFunctionOnSet(g, S) = SumFunctionOnSet(f, S) + SumFunctionOnSet(d, S)
  BY <1>3, SumAdd
<1>5. SumFunctionOnSet(f, S) \in Int
  BY SumType
<1> QED BY <1>2, <1>4, <1>5

\* The sum of naturals over a part is at most the sum over the whole.
THEOREM SumPart ==
  ASSUME NEW S, IsFiniteSet(S), NEW f, \A x \in S : f[x] \in Nat, NEW T \in SUBSET S
  PROVE  SumFunctionOnSet(f, T) <= SumFunctionOnSet(f, S)
<1>1. IsFiniteSet(T) /\ IsFiniteSet(S \ T)
  BY FS_Subset
<1>2. SumFunctionOnSet(f, T) \in Nat /\ SumFunctionOnSet(f, S \ T) \in Nat
  BY <1>1, SumNat
<1>3. SumFunctionOnSet(f, S) = SumFunctionOnSet(f, T) + SumFunctionOnSet(f, S \ T)
  BY SumSplit
<1> QED BY <1>2, <1>3

\* A constant factor moves out of a sum.
THEOREM SumScale ==
  ASSUME NEW S, IsFiniteSet(S), NEW f, NEW g, NEW c \in Int,
         \A x \in S : f[x] \in Int /\ g[x] = c * f[x]
  PROVE  SumFunctionOnSet(g, S) = c * SumFunctionOnSet(f, S)
<1> DEFINE G == {t \in SUBSET S : SumFunctionOnSet(g, t) = c * SumFunctionOnSet(f, t)}
<1>1. ASSUME NEW t \in SUBSET S, \A x \in t : t \ {x} \in G PROVE t \in G
  <2>1. CASE t = {}
    BY <2>1, SumEmpty
  <2>2. CASE t # {}
    <3>1. PICK x \in t : TRUE
      BY <2>2
    <3>2. IsFiniteSet(t) /\ IsFiniteSet(t \ {x})
      BY FS_Subset
    <3>3. \A y \in t : f[y] \in Int /\ g[y] \in Int
      OBVIOUS
    <3>4. /\ SumFunctionOnSet(f, t) = f[x] + SumFunctionOnSet(f, t \ {x})
          /\ SumFunctionOnSet(g, t) = g[x] + SumFunctionOnSet(g, t \ {x})
      BY <3>2, <3>3, SumRemove
    <3>5. SumFunctionOnSet(g, t \ {x}) = c * SumFunctionOnSet(f, t \ {x})
      BY <1>1
    <3>6. SumFunctionOnSet(f, t \ {x}) \in Int
      BY <3>2, <3>3, SumType
    <3>7. f[x] \in Int /\ g[x] = c * f[x]
      OBVIOUS
    <3>8. \A u, v \in Int : c * (u + v) = c * u + c * v
      OBVIOUS
    <3>9. c * (f[x] + SumFunctionOnSet(f, t \ {x})) = c * f[x] + c * SumFunctionOnSet(f, t \ {x})
      BY <3>6, <3>7, <3>8
    <3>10. SumFunctionOnSet(g, t) = c * SumFunctionOnSet(f, t)
      BY <3>4, <3>5, <3>7, <3>9
    <3> QED BY <3>10
  <2> QED BY <2>1, <2>2
<1> HIDE DEF G
<1>2. S \in G
  BY <1>1, SubsetInduction
<1> QED BY <1>2 DEF G

\* Adding up per first component and then over all of them gives the whole.
THEOREM SumFibers ==
  ASSUME NEW S, IsFiniteSet(S), NEW A, IsFiniteSet(A), NEW f,
         \A x \in S : f[x] \in Int /\ x[1] \in A
  PROVE  SumFunctionOnSet([a \in A |-> SumFunctionOnSet(f, {x \in S : x[1] = a})], A)
           = SumFunctionOnSet(f, S)
<1> DEFINE At(t, a) == {x \in t : x[1] = a}
           F(t) == [a \in A |-> SumFunctionOnSet(f, At(t, a))]
           G == {t \in SUBSET S : SumFunctionOnSet(F(t), A) = SumFunctionOnSet(f, t)}
<1>0. ASSUME NEW t \in SUBSET S PROVE \A a \in A : F(t)[a] \in Int
  <2>1. ASSUME NEW a \in A PROVE SumFunctionOnSet(f, At(t, a)) \in Int
    <3>1. IsFiniteSet(At(t, a)) /\ \A x \in At(t, a) : f[x] \in Int
      BY FS_Subset
    <3> HIDE DEF At
    <3> QED BY <3>1, SumType
  <2> QED BY <2>1
<1>1. ASSUME NEW t \in SUBSET S, \A x \in t : t \ {x} \in G PROVE t \in G
  <2>1. CASE t = {}
    <3>1. \A a \in A : At(t, a) = {}
      BY <2>1
    <3>2. \A a \in A : F(t)[a] = 0
      BY <3>1, SumEmpty
    <3> HIDE DEF F
    <3>3. SumFunctionOnSet(F(t), A) = 0
      BY <3>2, SumZero
    <3>4. SumFunctionOnSet(f, t) = 0
      BY <2>1, SumEmpty
    <3> QED BY <3>3, <3>4
  <2>2. CASE t # {}
    <3>1. PICK x \in t : TRUE
      BY <2>2
    <3> DEFINE u == t \ {x}
    <3>2. IsFiniteSet(t) /\ u \in SUBSET S /\ x[1] \in A /\ f[x] \in Int
          /\ \A y \in t : f[y] \in Int
      BY FS_Subset
    <3>3. SumFunctionOnSet(f, t) = f[x] + SumFunctionOnSet(f, u)
      BY <3>2, SumRemove
    <3>4. SumFunctionOnSet(F(u), A) = SumFunctionOnSet(f, u)
      BY <1>1
    <3>5. \A a \in A : a # x[1] => At(t, a) = At(u, a)
      OBVIOUS
    <3>6. F(t)[x[1]] = f[x] + F(u)[x[1]]
      <4>1. x \in At(t, x[1]) /\ At(t, x[1]) \ {x} = At(u, x[1])
            /\ IsFiniteSet(At(t, x[1])) /\ \A y \in At(t, x[1]) : f[y] \in Int
        BY <3>2, FS_Subset
      <4>2. F(t)[x[1]] = SumFunctionOnSet(f, At(t, x[1]))
            /\ F(u)[x[1]] = SumFunctionOnSet(f, At(u, x[1]))
        BY <3>2
      <4> HIDE DEF At, F, u
      <4>3. SumFunctionOnSet(f, At(t, x[1])) = f[x] + SumFunctionOnSet(f, At(t, x[1]) \ {x})
        BY <4>1, SumRemove
      <4> QED BY <4>1, <4>2, <4>3
    <3>7. \A a \in A : F(t)[a] \in Int /\ F(u)[a] \in Int
      BY <1>0, <3>2
    <3>8. \A a \in A : a # x[1] => F(t)[a] = F(u)[a]
      BY <3>5
    <3> DEFINE p == F(t)
               q == F(u)
               b == x[1]
    <3>9. /\ b \in A /\ p[b] = f[x] + q[b]
          /\ \A a \in A : p[a] \in Int /\ q[a] \in Int
          /\ \A a \in A : a # b => p[a] = q[a]
      BY <3>2, <3>6, <3>7, <3>8
    <3> HIDE DEF p, q, b, F, u
    <3>10. SumFunctionOnSet(p, A) = SumFunctionOnSet(q, A) - q[b] + p[b]
      BY <3>9, SumUpdate
    <3>11. SumFunctionOnSet(q, A) \in Int /\ q[b] \in Int
      BY <3>9, SumType
    <3>12. SumFunctionOnSet(p, A) = SumFunctionOnSet(f, t)
      BY <3>2, <3>3, <3>4, <3>9, <3>10, <3>11 DEF q
    <3> QED BY <3>12 DEF p
  <2> QED BY <2>1, <2>2
<1> HIDE DEF G
<1>2. S \in G
  BY <1>1, SubsetInduction
<1> QED BY <1>2 DEF G

\* Every summand is the same.
THEOREM SumConstant ==
  ASSUME NEW S, IsFiniteSet(S), NEW f, NEW c \in Int, \A x \in S : f[x] = c
  PROVE  SumFunctionOnSet(f, S) = c * Cardinality(S)
<1> DEFINE G == {t \in SUBSET S : SumFunctionOnSet(f, t) = c * Cardinality(t)}
<1>1. ASSUME NEW t \in SUBSET S, \A x \in t : t \ {x} \in G PROVE t \in G
  <2>1. CASE t = {}
    <3>1. Cardinality({}) = 0
      BY FS_EmptySet
    <3> QED BY <2>1, <3>1, SumEmpty
  <2>2. CASE t # {}
    <3>1. PICK x \in t : TRUE
      BY <2>2
    <3>2. IsFiniteSet(t) /\ \A y \in t : f[y] \in Int
      BY FS_Subset
    <3>3. SumFunctionOnSet(f, t) = c + SumFunctionOnSet(f, t \ {x})
      BY <3>2, SumRemove
    <3>4. /\ Cardinality(t \ {x}) = Cardinality(t) - 1
          /\ Cardinality(t) \in Nat /\ Cardinality(t \ {x}) \in Nat
      BY <3>2, FS_RemoveElement, FS_CardinalityType
    <3>5. SumFunctionOnSet(f, t \ {x}) = c * Cardinality(t \ {x})
      BY <1>1
    <3>6. \A n \in Nat : c + c * n = c * (n + 1)
      OBVIOUS
    <3>7. c + c * Cardinality(t \ {x}) = c * (Cardinality(t \ {x}) + 1)
      BY <3>4, <3>6
    <3>8. Cardinality(t \ {x}) + 1 = Cardinality(t)
      BY <3>4
    <3>9. SumFunctionOnSet(f, t) = c * Cardinality(t)
      BY <3>3, <3>5, <3>7, <3>8
    <3> QED BY <3>9
  <2> QED BY <2>1, <2>2
<1> HIDE DEF G
<1>2. S \in G
  BY <1>1, SubsetInduction
<1> QED BY <1>2 DEF G

\* In a finite set something has the largest value.
LEMMA Largest ==
  ASSUME NEW S, IsFiniteSet(S), S # {}, NEW f, \A x \in S : f[x] \in Int
  PROVE  \E x \in S : \A y \in S : f[y] <= f[x]
<1> DEFINE G == {t \in SUBSET S : t # {} => \E x \in t : \A y \in t : f[y] <= f[x]}
<1>1. ASSUME NEW t \in SUBSET S, \A x \in t : t \ {x} \in G PROVE t \in G
  <2>1. SUFFICES ASSUME t # {} PROVE \E x \in t : \A y \in t : f[y] <= f[x]
    OBVIOUS
  <2>2. PICK x \in t : TRUE
    BY <2>1
  <2>3. CASE t \ {x} = {}
    <3>1. \A y \in t : y = x
      BY <2>3
    <3>2. f[x] \in Int
      OBVIOUS
    <3> QED BY <3>1, <3>2
  <2>4. CASE t \ {x} # {}
    <3>1. PICK m \in t \ {x} : \A y \in t \ {x} : f[y] <= f[m]
      BY <1>1, <2>4
    <3>2. f[x] \in Int /\ f[m] \in Int /\ \A y \in t : f[y] \in Int
      OBVIOUS
    <3>3. CASE f[x] <= f[m]
      BY <3>1, <3>3
    <3>4. CASE ~(f[x] <= f[m])
      BY <3>1, <3>2, <3>4
    <3> QED BY <3>3, <3>4
  <2> QED BY <2>3, <2>4
<1> HIDE DEF G
<1>2. S \in G
  BY <1>1, SubsetInduction
<1> QED BY <1>2 DEF G

-----------------------------------------------------------------------------
(* Filter *)

\* kept[i] is what Filter leaves of the first i entries.
Filtering(s, S, kept) ==
  kept = [i \in 0..Len(s) |->
            IF i = 0 THEN << >>
            ELSE IF s[i] \in S THEN Append(kept[i - 1], s[i]) ELSE kept[i - 1]]

\* The recursion of the filter has a solution.
LEMMA FilteringExists ==
  ASSUME NEW s, Len(s) \in Nat, NEW S
  PROVE  \E kept : Filtering(s, S, kept)
<1> DEFINE Step(f, i) == IF i = 0 THEN << >>
                         ELSE IF s[i] \in S THEN Append(f[i - 1], s[i])
                         ELSE f[i - 1]
           Upto(f, n) == \A i \in 0..n : f[i] = Step(f, i)
           G == {n \in Nat : \E f : Upto(f, n)}
<1>1. 0 \in G
  <2>1. Upto([i \in 0..0 |-> << >>], 0)
    OBVIOUS
  <2> HIDE DEF Upto
  <2> QED BY <2>1
<1>2. ASSUME NEW n \in G PROVE n + 1 \in G
  <2>1. n \in Nat
    OBVIOUS
  <2>2. PICK f : Upto(f, n)
    <3> HIDE DEF Upto
    <3> QED OBVIOUS
  <2> DEFINE g == [i \in 0..(n + 1) |-> IF i = n + 1 THEN Step(f, n + 1) ELSE f[i]]
  <2>3. ASSUME NEW i \in 0..(n + 1) PROVE g[i] = Step(g, i)
    <3>1. i # 0 => i - 1 \in 0..n /\ g[i - 1] = f[i - 1]
      BY <2>1
    <3>2. Step(g, i) = Step(f, i)
      BY <3>1
    <3>3. g[i] = Step(f, i)
      <4>1. CASE i = n + 1
        BY <4>1
      <4>2. CASE i # n + 1
        <5>1. i \in 0..n
          BY <4>2, <2>1
        <5> HIDE DEF Step
        <5> QED BY <5>1, <4>2, <2>2
      <4> QED BY <4>1, <4>2
    <3> QED BY <3>2, <3>3
  <2>4. Upto(g, n + 1)
    <3> HIDE DEF g, Step
    <3> QED BY <2>3
  <2> HIDE DEF Upto, g
  <2> QED BY <2>1, <2>4
<1>3. G = Nat
  <2>1. G \in SUBSET Nat
    OBVIOUS
  <2> HIDE DEF G
  <2> QED BY <1>1, <1>2, <2>1, NatSetInduction
<1>4. PICK f : Upto(f, Len(s))
  <2> HIDE DEF Upto
  <2>1. Len(s) \in G
    BY <1>3
  <2> QED BY <2>1
<1> DEFINE h == [i \in 0..Len(s) |-> f[i]]
<1>5. ASSUME NEW i \in 0..Len(s) PROVE h[i] = Step(h, i)
  <2>1. i # 0 => i - 1 \in 0..Len(s) /\ h[i - 1] = f[i - 1]
    OBVIOUS
  <2>2. Step(h, i) = Step(f, i)
    BY <2>1
  <2> HIDE DEF Step
  <2> QED BY <2>2, <1>4
<1>6. Filtering(s, S, h)
  <2>1. \A i \in 0..Len(s) : h[i] = Step(h, i)
    BY <1>5
  <2>2. h = [i \in 0..Len(s) |-> Step(h, i)]
    <3> HIDE DEF Step
    <3> QED BY <2>1
  <2> HIDE DEF h
  <2> QED BY <2>2 DEF Filtering
<1> QED BY <1>6

\* r has the first n entries of s that are in S: f gives their places.
Places(s, S, n, r, f) ==
  /\ f \in [DOMAIN r -> 1..n]
  /\ \A i \in DOMAIN r : r[i] = s[f[i]] /\ s[f[i]] \in S
  /\ \A i, j \in DOMAIN r : i < j => f[i] < f[j]
  /\ \A j \in 1..n : s[j] \in S => \E i \in DOMAIN r : f[i] = j

\* Filter keeps exactly the entries that are in the set, once each and in order.
THEOREM FilterKeeps ==
  ASSUME NEW T, NEW s \in Seq(T), NEW S
  PROVE  /\ Filter(s, S) \in Seq(T)
         /\ \E f : Places(s, S, Len(s), Filter(s, S), f)
<1> DEFINE kept == CHOOSE f : Filtering(s, S, f)
<1>1. Filter(s, S) = kept[Len(s)]
  BY DEF Filter, Filtering
<1>2. Filtering(s, S, kept)
  BY FilteringExists
<1> HIDE DEF kept
<1>3. /\ kept[0] = << >>
      /\ \A n \in Nat : n + 1 <= Len(s) =>
           kept[n + 1] = IF s[n + 1] \in S THEN Append(kept[n], s[n + 1]) ELSE kept[n]
  <2>1. \A i \in 0..Len(s) : kept[i] =
            IF i = 0 THEN << >>
            ELSE IF s[i] \in S THEN Append(kept[i - 1], s[i]) ELSE kept[i - 1]
    BY <1>2 DEF Filtering
  <2>2. \A n \in Nat : n + 1 <= Len(s) =>
           n + 1 \in 0..Len(s) /\ n + 1 # 0 /\ (n + 1) - 1 = n
    OBVIOUS
  <2>3. 0 \in 0..Len(s)
    OBVIOUS
  <2> QED BY <2>1, <2>2, <2>3
<1> DEFINE Good(r, n) == r \in Seq(T) /\ \E f : Places(s, S, n, r, f)
           G == {n \in Nat : n <= Len(s) => Good(kept[n], n)}
<1>4. 0 \in G
  <2>1. << >> \in Seq(T) /\ DOMAIN << >> = {} /\ 1..0 = {}
    OBVIOUS
  <2>2. Places(s, S, 0, << >>, << >>)
    BY <2>1 DEF Places
  <2> HIDE DEF Places
  <2>3. Good(<< >>, 0)
    BY <2>1, <2>2
  <2> HIDE DEF Good
  <2> QED BY <2>3, <1>3
<1>5. ASSUME NEW n \in G PROVE n + 1 \in G
  <2> SUFFICES ASSUME n + 1 <= Len(s) PROVE Good(kept[n + 1], n + 1)
    OBVIOUS
  <2>1. n \in Nat /\ n <= Len(s) /\ n + 1 \in DOMAIN s
    OBVIOUS
  <2>2. Good(kept[n], n)
    BY <2>1
  <2>3. PICK r : r = kept[n]
    OBVIOUS
  <2>4. r \in Seq(T)
    BY <2>2, <2>3
  <2>5. PICK f : Places(s, S, n, r, f)
    BY <2>2, <2>3
  <2>6. 1..(n + 1) = 1..n \cup {n + 1} /\ \A j \in 1..n : j < n + 1 /\ j # n + 1
    BY <2>1
  <2>7. CASE s[n + 1] \notin S
    <3>1. kept[n + 1] = r
      BY <2>1, <2>3, <2>7, <1>3
    <3>2. Places(s, S, n + 1, r, f)
      BY <2>5, <2>6, <2>7 DEF Places
    <3> QED BY <3>1, <3>2, <2>4
  <2>8. CASE s[n + 1] \in S
    <3>1. PICK q : q = Append(r, s[n + 1])
      OBVIOUS
    <3>2. kept[n + 1] = q
      BY <2>1, <2>3, <2>8, <1>3, <3>1
    <3>3. s[n + 1] \in T /\ Len(r) \in Nat /\ DOMAIN r = 1..Len(r)
      BY <2>1, <2>4
    <3>4. /\ q \in Seq(T) /\ DOMAIN q = 1..(Len(r) + 1)
          /\ q[Len(r) + 1] = s[n + 1]
          /\ \A i \in DOMAIN r : q[i] = r[i]
      BY <2>4, <3>1, <3>3
    <3>5. /\ DOMAIN q = DOMAIN r \cup {Len(r) + 1} /\ Len(r) + 1 \notin DOMAIN r
          /\ \A i \in DOMAIN r : i < Len(r) + 1 /\ ~(Len(r) + 1 < i)
      BY <3>3, <3>4
    <3> DEFINE g == [i \in DOMAIN q |-> IF i = Len(r) + 1 THEN n + 1 ELSE f[i]]
    <3>6. /\ \A i \in DOMAIN r : g[i] = f[i] /\ g[i] \in 1..n
          /\ g[Len(r) + 1] = n + 1 /\ DOMAIN g = DOMAIN q
          /\ g = [i \in DOMAIN q |-> g[i]]
      BY <2>5, <3>5 DEF Places
    <3> HIDE DEF g
    <3>7. g \in [DOMAIN q -> 1..(n + 1)]
      <4>1. \A i \in DOMAIN q : g[i] \in 1..(n + 1)
        BY <2>6, <3>5, <3>6
      <4> QED BY <4>1, <3>6
    <3>8. \A i \in DOMAIN q : q[i] = s[g[i]] /\ s[g[i]] \in S
      BY <2>5, <2>8, <3>4, <3>5, <3>6 DEF Places
    <3>9. \A i, j \in DOMAIN q : i < j => g[i] < g[j]
      <4> SUFFICES ASSUME NEW i \in DOMAIN q, NEW j \in DOMAIN q, i < j PROVE g[i] < g[j]
        OBVIOUS
      <4>1. CASE j \in DOMAIN r
        <5>1. i \in DOMAIN r
          BY <4>1, <3>3, <3>4, <3>5
        <5> QED BY <4>1, <5>1, <2>5, <3>6 DEF Places
      <4>2. CASE j = Len(r) + 1
        <5>1. i \in DOMAIN r
          BY <4>2, <3>3, <3>4, <3>5
        <5> QED BY <4>2, <5>1, <2>6, <3>6
      <4> QED BY <4>1, <4>2, <3>5
    <3>10. \A j \in 1..(n + 1) : s[j] \in S => \E i \in DOMAIN q : g[i] = j
      BY <2>5, <2>6, <3>5, <3>6 DEF Places
    <3>11. Places(s, S, n + 1, q, g)
      BY <3>7, <3>8, <3>9, <3>10 DEF Places
    <3> QED BY <3>2, <3>4, <3>11
  <2> QED BY <2>7, <2>8
<1>6. G = Nat
  <2>1. G \in SUBSET Nat
    OBVIOUS
  <2> HIDE DEF G
  <2> QED BY <1>4, <1>5, <2>1, NatSetInduction
<1>7. Good(kept[Len(s)], Len(s))
  <2>1. Len(s) \in Nat /\ Len(s) <= Len(s)
    OBVIOUS
  <2>2. Len(s) \in G
    BY <1>6, <2>1
  <2> HIDE DEF Good
  <2> QED BY <2>1, <2>2
<1> HIDE DEF Places
<1> QED BY <1>1, <1>7
\* What FlattenSeq computes, place by place
Flattening(s, flatten) ==
  flatten = [i \in 1..Len(s) |-> IF i = 1 THEN s[i] ELSE flatten[i - 1] \o s[i]]

\* The recursion of FlattenSeq has a solution.
LEMMA FlatteningExists ==
  ASSUME NEW s, Len(s) \in Nat
  PROVE  \E flatten : Flattening(s, flatten)
<1> DEFINE Step(f, i) == IF i = 1 THEN s[i] ELSE f[i - 1] \o s[i]
           First(f, n) == \A i \in 1..n : f[i] = Step(f, i)
           G == {n \in Nat : \E f : First(f, n)}
<1>1. 0 \in G
  <2>1. First(<< >>, 0)
    OBVIOUS
  <2> HIDE DEF First
  <2> QED BY <2>1
<1>2. ASSUME NEW n \in G PROVE n + 1 \in G
  <2>1. n \in Nat
    OBVIOUS
  <2>2. PICK f : First(f, n)
    <3> HIDE DEF First
    <3> QED OBVIOUS
  <2> DEFINE g == [i \in 1..(n + 1) |-> IF i = n + 1 THEN Step(f, n + 1) ELSE f[i]]
  <2>3. ASSUME NEW i \in 1..(n + 1) PROVE g[i] = Step(g, i)
    <3>1. i # 1 => i - 1 \in 1..n /\ g[i - 1] = f[i - 1]
      BY <2>1
    <3>2. Step(g, i) = Step(f, i)
      BY <3>1
    <3>3. g[i] = Step(f, i)
      <4>1. CASE i = n + 1
        BY <4>1
      <4>2. CASE i # n + 1
        <5>1. i \in 1..n
          BY <4>2, <2>1
        <5> HIDE DEF Step
        <5> QED BY <5>1, <4>2, <2>2
      <4> QED BY <4>1, <4>2
    <3> QED BY <3>2, <3>3
  <2>4. First(g, n + 1)
    <3> HIDE DEF g, Step
    <3> QED BY <2>3
  <2> HIDE DEF First, g
  <2> QED BY <2>1, <2>4
<1>3. G = Nat
  <2>1. G \in SUBSET Nat
    OBVIOUS
  <2> HIDE DEF G
  <2> QED BY <1>1, <1>2, <2>1, NatSetInduction
<1>4. PICK f : First(f, Len(s))
  <2> HIDE DEF First
  <2>1. Len(s) \in G
    BY <1>3
  <2> QED BY <2>1
<1> DEFINE h == [i \in 1..Len(s) |-> f[i]]
<1>5. ASSUME NEW i \in 1..Len(s) PROVE h[i] = Step(h, i)
  <2>1. i # 1 => i - 1 \in 1..Len(s) /\ h[i - 1] = f[i - 1]
    OBVIOUS
  <2>2. Step(h, i) = Step(f, i)
    BY <2>1
  <2> HIDE DEF Step
  <2> QED BY <2>2, <1>4
<1>6. Flattening(s, h)
  <2>1. \A i \in 1..Len(s) : h[i] = Step(h, i)
    BY <1>5
  <2>2. h = [i \in 1..Len(s) |-> Step(h, i)]
    <3> HIDE DEF Step
    <3> QED BY <2>1
  <2> HIDE DEF h
  <2> QED BY <2>2 DEF Flattening
<1> QED BY <1>6

-----------------------------------------------------------------------------
(* Repetition *)

\* The history of a value that is changed again and again by one function
Iterates(f, step, a, S) ==
  f \in [Nat -> S] /\ f[0] = a /\ \A n \in Nat : f[n + 1] = step[f[n]]

\* There is such a history.
LEMMA IterationExists ==
  ASSUME NEW S, NEW step, step \in [S -> S], NEW a, a \in S
  PROVE  \E f : Iterates(f, step, a, S)
<1> DEFINE Part(g, n) == /\ g \in [0..n -> S] /\ g[0] = a
                         /\ \A i \in 0..(n - 1) : g[i + 1] = step[g[i]]
           G == {n \in Nat : \E g : Part(g, n)}
<1>1. G = Nat
  <2>1. 0 \in G
    <3>1. Part([i \in 0..0 |-> a], 0)
      OBVIOUS
    <3> HIDE DEF Part
    <3> QED BY <3>1
  <2>2. ASSUME NEW n \in G PROVE n + 1 \in G
    <3>1. PICK g : Part(g, n)
      <4> HIDE DEF Part
      <4> QED OBVIOUS
    <3> DEFINE h == [i \in 0..(n + 1) |-> IF i = n + 1 THEN step[g[n]] ELSE g[i]]
    <3>2. n \in Nat
      OBVIOUS
    <3>3. g[n] \in S
      BY <3>1, <3>2
    <3>4. h \in [0..(n + 1) -> S]
      BY <3>1, <3>2, <3>3
    <3>5. \A i \in 0..n : h[i] = g[i]
      BY <3>2
    <3>6. ASSUME NEW i \in 0..n PROVE h[i + 1] = step[h[i]]
      <4>1. CASE i = n
        BY <4>1, <3>2, <3>5
      <4>2. CASE i # n
        <5>1. i \in 0..(n - 1) /\ i + 1 \in 0..n
          BY <4>2, <3>2
        <5> HIDE DEF h
        <5> QED BY <5>1, <3>1, <3>5
      <4> QED BY <4>1, <4>2
    <3> HIDE DEF h
    <3>7. Part(h, n + 1)
      <4>1. h[0] = a
        BY <3>1, <3>2, <3>5
      <4>2. (n + 1) - 1 = n
        BY <3>2
      <4> QED BY <3>4, <3>6, <4>1, <4>2
    <3> HIDE DEF Part
    <3> QED BY <3>2, <3>7
  <2>3. G \in SUBSET Nat
    OBVIOUS
  <2> HIDE DEF G
  <2> QED BY <2>1, <2>2, <2>3, NatSetInduction
<1> DEFINE g(n) == CHOOSE x : Part(x, n)
<1>2. \A n \in Nat : Part(g(n), n)
  <2> SUFFICES ASSUME NEW n \in Nat PROVE Part(g(n), n)
    OBVIOUS
  <2>1. \E x : Part(x, n)
    <3> HIDE DEF Part
    <3>1. n \in G
      BY <1>1
    <3> QED BY <3>1
  <2> HIDE DEF Part
  <2> QED BY <2>1
<1> HIDE DEF g
<1>3. ASSUME NEW n \in Nat PROVE g(n + 1)[n] = g(n)[n]
  <2> DEFINE E == {i \in Nat : i <= n => g(n + 1)[i] = g(n)[i]}
  <2>1. Part(g(n), n) /\ Part(g(n + 1), n + 1)
    <3>1. n + 1 \in Nat
      OBVIOUS
    <3> HIDE DEF Part
    <3> QED BY <1>2, <3>1
  <2>2. 0 \in E
    BY <2>1
  <2>3. ASSUME NEW i \in E PROVE i + 1 \in E
    <3>1. i \in Nat /\ (i <= n => g(n + 1)[i] = g(n)[i])
      OBVIOUS
    <3>2. ASSUME i + 1 <= n PROVE g(n + 1)[i + 1] = g(n)[i + 1]
      <4>1. i \in 0..(n - 1) /\ i \in 0..((n + 1) - 1) /\ i <= n
        BY <3>1, <3>2
      <4> QED BY <4>1, <3>1, <2>1
    <3> QED BY <3>1, <3>2
  <2>4. E = Nat
    <3>1. E \in SUBSET Nat
      OBVIOUS
    <3> HIDE DEF E
    <3> QED BY <2>2, <2>3, <3>1, NatSetInduction
  <2>5. n \in E
    BY <2>4
  <2> QED BY <2>5
<1> DEFINE f == [n \in Nat |-> g(n)[n]]
<1>4. f \in [Nat -> S]
  <2> SUFFICES ASSUME NEW n \in Nat PROVE g(n)[n] \in S
    OBVIOUS
  <2> QED BY <1>2
<1>5. f[0] = a
  BY <1>2
<1>6. ASSUME NEW n \in Nat PROVE f[n + 1] = step[f[n]]
  <2>1. n + 1 \in Nat /\ n \in 0..((n + 1) - 1)
    OBVIOUS
  <2>2. g(n + 1)[n + 1] = step[g(n + 1)[n]]
    BY <1>2, <2>1
  <2> QED BY <1>3, <2>1, <2>2
<1>7. Iterates(f, step, a, S)
  <2> HIDE DEF f
  <2> QED BY <1>4, <1>5, <1>6 DEF Iterates
<1> HIDE DEF f
<1> QED BY <1>7

\* Division with a rest
LEMMA DivisionIs ==
  ASSUME NEW E \in Nat, E > 0, NEW y \in Nat
  PROVE  y \div E \in Nat /\ y = E * (y \div E) + (y % E) /\ y % E \in 0..(E - 1)
OBVIOUS
=============================================================================
