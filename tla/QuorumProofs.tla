----------------------------- MODULE QuorumProofs -----------------------------
(***************************************************************************)
(* Facts about certificates and proposers that hold for every validator    *)
(* set.                                                                    *)
(***************************************************************************)
EXTENDS StakeQuorum, SumTheorems

\* A validator set has finitely many positions, each with a stake.
LEMMA StakesOfSet ==
  ASSUME NEW A, NEW vals, IsValidatorSet(vals, A)
  PROVE  /\ IsFiniteSet(DOMAIN vals)
         /\ DOMAIN vals = 1..Len(vals) /\ Len(vals) \in Nat
         /\ \A i \in DOMAIN vals : vals[i].stake \in Nat /\ vals[i].addr \in A
<1>1. DOMAIN vals = 1..Len(vals) /\ Len(vals) \in Nat
  BY DEF IsValidatorSet
<1>2. IsFiniteSet(1..Len(vals))
  BY <1>1, FS_Interval
<1> DEFINE R == [addr: A, stake: Nat]
<1>3. vals \in Seq(R)
  BY DEF IsValidatorSet
<1> HIDE DEF R
<1>4. \A i \in DOMAIN vals : vals[i] \in R
  BY <1>1, <1>3
<1>5. \A i \in DOMAIN vals : vals[i].stake \in Nat /\ vals[i].addr \in A
  BY <1>4 DEF R
<1>6. IsFiniteSet(DOMAIN vals)
  BY <1>1, <1>2
<1> QED BY <1>1, <1>5, <1>6

\* A sum of stakes is an amount.
LEMMA StakeSumNat ==
  ASSUME NEW A, NEW vals, IsValidatorSet(vals, A), NEW I \in SUBSET DOMAIN vals
  PROVE  StakeSum(vals, I) \in Nat
<1> DEFINE f == [i \in DOMAIN vals |-> vals[i].stake]
<1>1. IsFiniteSet(I)
  BY StakesOfSet, FS_Subset
<1>2. \A i \in I : f[i] \in Nat
  BY StakesOfSet
<1> HIDE DEF f
<1>3. SumFunctionOnSet(f, I) \in Nat
  BY <1>1, <1>2, SumNat
<1> QED BY <1>3 DEF StakeSum, f

\* The stake of a set is that of two parts of it.
LEMMA StakeSumSplit ==
  ASSUME NEW A, NEW vals, IsValidatorSet(vals, A), NEW I \in SUBSET DOMAIN vals,
         NEW J \in SUBSET I
  PROVE  StakeSum(vals, I) = StakeSum(vals, J) + StakeSum(vals, I \ J)
<1> DEFINE f == [i \in DOMAIN vals |-> vals[i].stake]
<1>1. IsFiniteSet(I)
  BY StakesOfSet, FS_Subset
<1>2. \A i \in I : f[i] \in Int
  BY StakesOfSet
<1> HIDE DEF f
<1>3. SumFunctionOnSet(f, I) = SumFunctionOnSet(f, J) + SumFunctionOnSet(f, I \ J)
  BY <1>1, <1>2, SumSplit
<1> QED BY <1>3 DEF StakeSum, f

-------------------------------------------------------------------------------
\* Two certificates of one validator set have more than a third of the stake in
\* common (QuorumThreshold, ValidateQuorumCertificate): whoever signs at most one
\* block per height and holds that much makes two certificates impossible.
THEOREM QuorumIntersection ==
  ASSUME NEW A, NEW vals, IsValidatorSet(vals, A), NEW V, NEW W,
         ValidateQuorumCertificate(vals, V), ValidateQuorumCertificate(vals, W)
  PROVE  3 * CertifiedStake(vals, V \cap W) > TotalStake(vals)
<1> DEFINE D == DOMAIN vals
           I == {i \in D : vals[i].addr \in V}
           J == {i \in D : vals[i].addr \in W}
           K == {i \in D : vals[i].addr \in V \cap W}
<1>1. K \in SUBSET I /\ I \in SUBSET D /\ J \in SUBSET D /\ I \ K \in SUBSET (D \ J)
      /\ D \ J \in SUBSET D /\ (D \ J) \ (I \ K) \in SUBSET D /\ I \ K \in SUBSET D
      /\ K \in SUBSET D /\ D \in SUBSET D
  OBVIOUS
<1>2. CertifiedStake(vals, V) = StakeSum(vals, I) /\ CertifiedStake(vals, W) = StakeSum(vals, J)
      /\ CertifiedStake(vals, V \cap W) = StakeSum(vals, K) /\ TotalStake(vals) = StakeSum(vals, D)
  BY DEF CertifiedStake, TotalStake
<1> HIDE DEF D, I, J, K
<1>3. StakeSum(vals, I) = StakeSum(vals, K) + StakeSum(vals, I \ K)
  BY <1>1, StakeSumSplit DEF D
<1>4. StakeSum(vals, D) = StakeSum(vals, J) + StakeSum(vals, D \ J)
  BY <1>1, StakeSumSplit DEF D
<1>5. StakeSum(vals, D \ J) = StakeSum(vals, I \ K) + StakeSum(vals, (D \ J) \ (I \ K))
  BY <1>1, StakeSumSplit DEF D
<1>6. /\ StakeSum(vals, I) \in Nat /\ StakeSum(vals, J) \in Nat /\ StakeSum(vals, K) \in Nat
      /\ StakeSum(vals, D) \in Nat /\ StakeSum(vals, I \ K) \in Nat
      /\ StakeSum(vals, D \ J) \in Nat /\ StakeSum(vals, (D \ J) \ (I \ K)) \in Nat
  BY <1>1, StakeSumNat DEF D
<1>7. /\ StakeSum(vals, I) >= (2 * StakeSum(vals, D)) \div 3 + 1
      /\ StakeSum(vals, J) >= (2 * StakeSum(vals, D)) \div 3 + 1
  BY <1>2 DEF ValidateQuorumCertificate, QuorumThreshold
<1>8. \A t \in Nat : 3 * ((2 * t) \div 3 + 1) > 2 * t
  OBVIOUS
<1>9. /\ 3 * StakeSum(vals, I) > 2 * StakeSum(vals, D)
      /\ 3 * StakeSum(vals, J) > 2 * StakeSum(vals, D)
  BY <1>6, <1>7, <1>8
<1> QED BY <1>2, <1>3, <1>4, <1>5, <1>6, <1>9

-------------------------------------------------------------------------------
\* A height has a proposer, and it is one of the validators (ProposerForHeight:
\* the code's "should not reach here" is not reached).
THEOREM ProposerIsValidator ==
  ASSUME NEW A, NEW vals, IsValidatorSet(vals, A), vals # << >>, NEW h \in Nat
  PROVE  \E i \in DOMAIN vals : ProposerForHeight(vals, h) = vals[i].addr
<1> DEFINE total == TotalStake(vals)
           reached == {i \in DOMAIN vals : h % total < StakeSum(vals, 1..i)}
           first == CHOOSE i \in reached : \A j \in reached : i <= j
<1>1. DOMAIN vals = 1..Len(vals) /\ Len(vals) \in Nat
  BY StakesOfSet
<1>2. Len(vals) > 0
  BY <1>1 DEF IsValidatorSet
<1>3. total \in Nat
  BY StakeSumNat DEF TotalStake
<1>4. CASE total = 0
  <2>1. h % Len(vals) \in 0..(Len(vals) - 1)
    BY <1>1, <1>2
  <2>2. (h % Len(vals)) + 1 \in DOMAIN vals
    BY <2>1, <1>1
  <2> QED BY <2>2, <1>4 DEF ProposerForHeight
<1>5. CASE total # 0
  <2>1. h % total < total
    BY <1>3, <1>5
  <2>2. total = StakeSum(vals, 1..Len(vals))
    BY <1>1 DEF TotalStake
  <2> HIDE DEF total
  <2>3. Len(vals) \in reached
    BY <1>1, <1>2, <2>1, <2>2
  <2>4. reached \in SUBSET Nat /\ reached # {}
    BY <2>3, <1>1
  <2>5. \E i \in reached : \A j \in reached : i <= j
    BY <2>4, SmallestNat
  <2>6. first \in reached
    BY <2>5
  <2>7. first \in DOMAIN vals
    BY <2>6
  <2>8. ProposerForHeight(vals, h) = vals[first].addr
    BY <1>5 DEF ProposerForHeight, total
  <2> HIDE DEF first
  <2> QED BY <2>7, <2>8
<1> QED BY <1>4, <1>5

-------------------------------------------------------------------------------
(* Who proposes how often *)

\* The stake of the first k validators
Reach(vals, k) == StakeSum(vals, 1..k)

\* It starts at nothing, grows by the stake of each and ends with the total.
LEMMA ReachGrows ==
  ASSUME NEW A, NEW vals, IsValidatorSet(vals, A)
  PROVE  /\ Reach(vals, 0) = 0 /\ Reach(vals, Len(vals)) = TotalStake(vals)
         /\ \A k \in 0..Len(vals) : Reach(vals, k) \in Nat
         /\ \A k \in 1..Len(vals) : Reach(vals, k) = Reach(vals, k - 1) + vals[k].stake
         /\ \A j, k \in 0..Len(vals) : j <= k => Reach(vals, j) <= Reach(vals, k)
<1> DEFINE f == [i \in DOMAIN vals |-> vals[i].stake]
<1>1. DOMAIN vals = 1..Len(vals) /\ Len(vals) \in Nat /\ IsFiniteSet(DOMAIN vals)
  BY StakesOfSet
<1>2. \A i \in DOMAIN vals : f[i] \in Nat /\ f[i] = vals[i].stake
  BY StakesOfSet
<1> HIDE DEF f
<1>3. Reach(vals, 0) = 0
  <2>1. SumFunctionOnSet(f, {}) = 0
    BY SumEmpty
  <2>2. 1..0 = {}
    OBVIOUS
  <2> QED BY <2>1, <2>2 DEF Reach, StakeSum, f
<1>4. Reach(vals, Len(vals)) = TotalStake(vals)
  BY <1>1 DEF Reach, TotalStake
<1>5. \A k \in 0..Len(vals) : 1..k \in SUBSET DOMAIN vals
  BY <1>1
<1>6. \A k \in 0..Len(vals) : Reach(vals, k) \in Nat
  BY <1>5, StakeSumNat DEF Reach
<1>7. ASSUME NEW k \in 1..Len(vals) PROVE Reach(vals, k) = Reach(vals, k - 1) + vals[k].stake
  <2>1. IsFiniteSet(1..k)
    BY <1>1, FS_Interval
  <2>2. k \in 1..k /\ (1..k) \ {k} = 1..(k - 1)
    BY <1>1
  <2>3. \A x \in 1..k : f[x] \in Int
    BY <1>1, <1>2
  <2>4. SumFunctionOnSet(f, 1..k) = f[k] + SumFunctionOnSet(f, (1..k) \ {k})
    BY <2>1, <2>2, <2>3, SumRemove
  <2>5. f[k] = vals[k].stake /\ f[k] \in Nat
    BY <1>1, <1>2
  <2>6. Reach(vals, k) = f[k] + Reach(vals, k - 1)
    BY <2>2, <2>4 DEF Reach, StakeSum, f
  <2>7. Reach(vals, k - 1) \in Nat
    BY <1>1, <1>6
  <2> QED BY <2>5, <2>6, <2>7
<1>8. ASSUME NEW j \in 0..Len(vals), NEW k \in 0..Len(vals), j <= k
      PROVE  Reach(vals, j) <= Reach(vals, k)
  <2>1. 1..k \in SUBSET DOMAIN vals /\ 1..j \in SUBSET (1..k) /\ (1..k) \ (1..j) \in SUBSET DOMAIN vals
    BY <1>1, <1>8
  <2>2. StakeSum(vals, 1..k) = StakeSum(vals, 1..j) + StakeSum(vals, (1..k) \ (1..j))
    <3> DEFINE I == 1..k
               J == 1..j
    <3>1. I \in SUBSET DOMAIN vals /\ J \in SUBSET I
      BY <2>1
    <3> HIDE DEF I, J
    <3>2. StakeSum(vals, I) = StakeSum(vals, J) + StakeSum(vals, I \ J)
      BY <3>1, StakeSumSplit
    <3> QED BY <3>2 DEF I, J
  <2>3. StakeSum(vals, (1..k) \ (1..j)) \in Nat
    BY <2>1, StakeSumNat
  <2>4. StakeSum(vals, 1..j) \in Nat
    BY <1>6 DEF Reach
  <2> QED BY <2>2, <2>3, <2>4 DEF Reach
<1> QED BY <1>3, <1>4, <1>6, <1>7, <1>8

\* A validator proposes at the heights that fall on its own stretch.
LEMMA ProposerStretch ==
  ASSUME NEW A, NEW vals, IsValidatorSet(vals, A), TotalStake(vals) > 0,
         NEW h \in Nat, NEW i \in DOMAIN vals
  PROVE  ProposerForHeight(vals, h) = vals[i].addr
           <=> h % TotalStake(vals) \in Reach(vals, i - 1)..(Reach(vals, i) - 1)
<1> DEFINE total == TotalStake(vals)
           r == h % total
           reached == {j \in DOMAIN vals : r < Reach(vals, j)}
           first == CHOOSE j \in reached : \A k \in reached : j <= k
<1>1. DOMAIN vals = 1..Len(vals) /\ Len(vals) \in Nat
  BY StakesOfSet
<1>2. i \in 1..Len(vals) /\ i - 1 \in 0..Len(vals)
  BY <1>1
<1>3. total \in Nat /\ total > 0
  BY StakeSumNat DEF TotalStake
<1>4. r \in Nat /\ r < total
  <2> HIDE DEF total
  <2> QED BY <1>3
<1>5. ProposerForHeight(vals, h) = vals[first].addr
  <2>1. vals # << >>
    BY <1>2, <1>1
  <2> QED BY <1>3, <2>1 DEF ProposerForHeight, Reach
<1> HIDE DEF r, total
<1>6. Len(vals) \in reached
  BY <1>1, <1>2, <1>4, ReachGrows DEF total
<1>7. reached \in SUBSET Nat /\ reached # {}
  BY <1>1, <1>6
<1>8. first \in reached /\ \A k \in reached : first <= k
  <2>1. \E j \in reached : \A k \in reached : j <= k
    BY <1>7, SmallestNat
  <2> QED BY <2>1
<1>9. first \in 1..Len(vals) /\ r < Reach(vals, first)
  BY <1>1, <1>8
<1> HIDE DEF first
<1>10. /\ \A k \in 0..Len(vals) : Reach(vals, k) \in Nat
       /\ \A j, k \in 0..Len(vals) : j <= k => Reach(vals, j) <= Reach(vals, k)
       /\ Reach(vals, 0) = 0
  BY ReachGrows
<1>11. ASSUME r \in Reach(vals, i - 1)..(Reach(vals, i) - 1) PROVE first = i
  <2>1. Reach(vals, i - 1) <= r /\ r < Reach(vals, i)
    BY <1>2, <1>4, <1>10, <1>11
  <2>2. first <= i
    BY <2>1, <1>1, <1>8
  <2>3. ~ (first <= i - 1)
    <3> SUFFICES ASSUME first <= i - 1 PROVE FALSE
      OBVIOUS
    <3>1. first \in 0..Len(vals)
      BY <1>9, <1>1
    <3>2. Reach(vals, first) <= Reach(vals, i - 1) /\ Reach(vals, first) \in Nat /\ Reach(vals, i - 1) \in Nat
      BY <3>1, <1>2, <1>10
    <3> QED BY <3>2, <2>1, <1>4, <1>9
  <2> QED BY <2>2, <2>3, <1>2, <1>9, <1>1
<1>12. ASSUME first = i PROVE r \in Reach(vals, i - 1)..(Reach(vals, i) - 1)
  <2>1. r < Reach(vals, i)
    BY <1>9, <1>12
  <2>2. Reach(vals, i - 1) <= r
    <3>1. CASE i = 1
      BY <3>1, <1>4, <1>10
    <3>2. CASE i # 1
      <4>1. i - 1 \in DOMAIN vals /\ ~ (i <= i - 1)
        BY <3>2, <1>1, <1>2
      <4>2. i - 1 \notin reached
        BY <4>1, <1>8, <1>12
      <4> QED BY <4>1, <4>2, <1>2, <1>4, <1>10
    <3> QED BY <3>1, <3>2
  <2>3. Reach(vals, i - 1) \in Nat /\ Reach(vals, i) \in Nat
    BY <1>2, <1>10, <1>1
  <2> QED BY <2>1, <2>2, <2>3, <1>4
<1>13. vals[first].addr = vals[i].addr <=> first = i
  BY <1>1, <1>9 DEF IsValidatorSet
<1> QED BY <1>5, <1>11, <1>12, <1>13 DEF r, total

\* A number has one quotient and one rest.
LEMMA DivisionIsUnique ==
  ASSUME NEW E \in Nat, E > 0, NEW q \in Nat, NEW p \in Nat,
         NEW r \in 0..(E - 1), NEW s \in 0..(E - 1), E * q + r = E * p + s
  PROVE  r = s
<1>1. ASSUME NEW x \in Nat, NEW y \in Nat, x < y PROVE E * x + E <= E * y
  <2>1. PICK d \in Nat : y = x + d + 1
    <3>1. y - x - 1 \in Nat /\ y = x + (y - x - 1) + 1
      BY <1>1
    <3> QED BY <3>1
  <2>2. E * y = E * x + E * d + E
    BY <2>1
  <2>3. E * d \in Nat /\ E * x \in Nat
    OBVIOUS
  <2> QED BY <2>2, <2>3
<1>2. E * q \in Nat /\ E * p \in Nat
  OBVIOUS
<1>3. ~ (q < p)
  BY <1>1, <1>2
<1>4. ~ (p < q)
  BY <1>1, <1>2
<1>5. q = p
  BY <1>3, <1>4
<1> QED BY <1>2, <1>5

\* Heights in a row fall on every number once.
LEMMA RestsInARow ==
  ASSUME NEW E \in Nat, E > 0, NEW h0 \in Nat
  PROVE  /\ \A g, h \in h0..(h0 + E - 1) : g % E = h % E => g = h
         /\ \A r \in 0..(E - 1) : \E h \in h0..(h0 + E - 1) : h % E = r
<1>1. ASSUME NEW g \in h0..(h0 + E - 1), NEW h \in h0..(h0 + E - 1), g % E = h % E, g < h
      PROVE  FALSE
  <2>1. g \in Nat /\ h \in Nat /\ h - g \in 1..(E - 1)
    BY <1>1
  <2>2. /\ g = E * (g \div E) + (g % E) /\ h = E * (h \div E) + (h % E)
        /\ g \div E \in Nat /\ h \div E \in Nat /\ g % E \in 0..(E - 1)
    BY <2>1, DivisionIs
  <2> DEFINE a == g \div E
             b == h \div E
             s == g % E
  <2>3. g = E * a + s /\ h = E * b + s /\ a \in Nat /\ b \in Nat /\ s \in 0..(E - 1)
    BY <1>1, <2>2
  <2> HIDE DEF a, b, s
  <2>4. E * a \in Nat /\ E * b \in Nat
    BY <2>3
  <2>5. E * b + 0 = E * a + (h - g)
    BY <2>1, <2>3, <2>4
  <2>6. 0 \in 0..(E - 1) /\ h - g \in 0..(E - 1)
    BY <2>1
  <2>7. 0 = h - g
    BY <2>3, <2>5, <2>6, DivisionIsUnique
  <2> QED BY <2>1, <2>7
<1>2. ASSUME NEW g \in h0..(h0 + E - 1), NEW h \in h0..(h0 + E - 1), g % E = h % E
      PROVE  g = h
  <2>1. g \in Nat /\ h \in Nat
    OBVIOUS
  <2>2. ~ (g < h)
    BY <1>1, <1>2
  <2>3. ~ (h < g)
    BY <1>1, <1>2
  <2> QED BY <2>1, <2>2, <2>3
<1>3. ASSUME NEW r \in 0..(E - 1) PROVE \E h \in h0..(h0 + E - 1) : h % E = r
  <2> DEFINE a == h0 \div E
             s == h0 % E
  <2>1. h0 = E * a + s /\ a \in Nat /\ s \in 0..(E - 1)
    BY DivisionIs
  <2> HIDE DEF a, s
  <2>2. E * a \in Nat /\ E * (a + 1) = E * a + E
    BY <2>1
  <2>3. PICK q \in Nat : E * q \in Nat /\ E * q + r \in h0..(h0 + E - 1)
    <3>1. CASE s <= r
      <4>1. E * a + r \in h0..(h0 + E - 1)
        BY <2>1, <2>2, <3>1
      <4> QED BY <2>1, <2>2, <4>1
    <3>2. CASE r < s
      <4>1. E * (a + 1) + r \in h0..(h0 + E - 1)
        BY <2>1, <2>2, <3>2
      <4>2. a + 1 \in Nat /\ E * (a + 1) \in Nat
        BY <2>1, <2>2
      <4> QED BY <4>1, <4>2
    <3>3. s \in Nat /\ r \in Nat
      BY <2>1
    <3> QED BY <3>1, <3>2, <3>3
  <2> DEFINE h == E * q + r
  <2>4. h \in Nat /\ h = E * q + r /\ h \in h0..(h0 + E - 1)
    BY <2>3
  <2> HIDE DEF h
  <2> DEFINE b == h \div E
             t == h % E
  <2>5. h = E * b + t /\ b \in Nat /\ t \in 0..(E - 1)
    BY <2>4, DivisionIs
  <2> HIDE DEF b, t
  <2>6. E * b + t = E * q + r
    BY <2>4, <2>5
  <2>7. t = r
    BY <2>3, <2>5, <2>6, DivisionIsUnique
  <2> QED BY <2>4, <2>7 DEF t
<1> QED BY <1>2, <1>3

\* In as many heights in a row as there is stake, every validator proposes as often
\* as it has stake (ProposerForHeight; MINERS_GUIDE: "selected proportionally to
\* your stake").  Nobody is left out for
\* good, and a validator without stake never proposes while others have some.
THEOREM ProposerShare ==
  ASSUME NEW A, NEW vals, IsValidatorSet(vals, A), TotalStake(vals) > 0,
         NEW h0 \in Nat, NEW i \in DOMAIN vals
  PROVE  Cardinality({h \in h0..(h0 + TotalStake(vals) - 1) :
                        ProposerForHeight(vals, h) = vals[i].addr}) = vals[i].stake
<1> DEFINE total == TotalStake(vals)
           W == h0..(h0 + total - 1)
           T == Reach(vals, i - 1)..(Reach(vals, i) - 1)
           H == {h \in W : h % total \in T}
           f == [h \in H |-> h % total]
<1>1. DOMAIN vals = 1..Len(vals) /\ Len(vals) \in Nat /\ vals[i].stake \in Nat
  BY StakesOfSet
<1>2. total \in Nat /\ total > 0
  BY StakeSumNat DEF TotalStake
<1>3. /\ Reach(vals, i - 1) \in Nat /\ Reach(vals, i) \in Nat
      /\ Reach(vals, i) = Reach(vals, i - 1) + vals[i].stake
      /\ Reach(vals, i) <= total
  <2>1. i \in 1..Len(vals) /\ i \in 0..Len(vals) /\ i - 1 \in 0..Len(vals)
        /\ Len(vals) \in 0..Len(vals) /\ i <= Len(vals)
    BY <1>1
  <2> QED BY <2>1, ReachGrows
<1>4. H = {h \in W : ProposerForHeight(vals, h) = vals[i].addr}
  <2>1. \A h \in W : h \in Nat
    BY <1>2
  <2> QED BY <2>1, ProposerStretch
<1> HIDE DEF total
<1>5. T \subseteq 0..(total - 1)
  BY <1>2, <1>3
<1>6. IsFiniteSet(T) /\ Cardinality(T) = vals[i].stake
  <2> DEFINE from == Reach(vals, i - 1)
             to == Reach(vals, i) - 1
  <2>1. from \in Int /\ to \in Int /\ from = (to + 1) - vals[i].stake /\ from <= to + 1
    BY <1>1, <1>3
  <2> HIDE DEF from, to
  <2>2. /\ IsFiniteSet(from..to)
        /\ Cardinality(from..to) = IF from > to THEN 0 ELSE to - from + 1
    BY <2>1, FS_Interval
  <2>3. T = from..to
    BY DEF from, to
  <2> HIDE DEF T
  <2> QED BY <1>1, <2>1, <2>2, <2>3
<1>7. f \in Bijection(H, T)
  <2>1. f \in [H -> T]
    OBVIOUS
  <2>2. \A g, h \in H : f[g] = f[h] => g = h
    BY <1>2, RestsInARow
  <2>3. \A r \in T : \E h \in H : f[h] = r
    <3> TAKE r \in T
    <3>1. r \in 0..(total - 1)
      BY <1>5
    <3>2. PICK h \in W : h % total = r
      BY <1>2, <3>1, RestsInARow
    <3> QED BY <3>2
  <2> HIDE DEF f, H, T
  <2> QED BY <2>1, <2>2, <2>3 DEF Bijection, Injection, Surjection, IsInjective
<1>8. Cardinality(H) = Cardinality(T)
  <2>1. H \in SUBSET W /\ IsFiniteSet(W)
    BY <1>2, FS_Interval
  <2>2. IsFiniteSet(H)
    BY <2>1, FS_Subset
  <2>3. ExistsBijection(H, T)
    BY <1>7 DEF ExistsBijection
  <2> HIDE DEF H, T
  <2> QED BY <2>2, <2>3, FS_Bijection
<1> QED BY <1>4, <1>6, <1>8 DEF total

-------------------------------------------------------------------------------
(* The proposer counts answers, everybody else counts validators. *)

\* One voter more
LEMMA OneMoreVoter ==
  ASSUME NEW A, NEW vals, IsValidatorSet(vals, A), NEW V, NEW a, a \notin V
  PROVE  CertifiedStake(vals, V \cup {a}) = StakeOf(vals, a) + CertifiedStake(vals, V)
<1> DEFINE I == {i \in DOMAIN vals : vals[i].addr \in V \cup {a}}
           J == {i \in DOMAIN vals : vals[i].addr = a}
           K == {i \in DOMAIN vals : vals[i].addr \in V}
<1>1. I \in SUBSET DOMAIN vals /\ J \in SUBSET I /\ I \ J = K
  OBVIOUS
<1>2. /\ CertifiedStake(vals, V \cup {a}) = StakeSum(vals, I)
      /\ StakeOf(vals, a) = StakeSum(vals, J)
      /\ CertifiedStake(vals, V) = StakeSum(vals, K)
  BY DEF CertifiedStake, StakeOf
<1> HIDE DEF I, J, K
<1>3. StakeSum(vals, I) = StakeSum(vals, J) + StakeSum(vals, I \ J)
  BY <1>1, StakeSumSplit
<1> QED BY <1>1, <1>2, <1>3

\* The stake of a validator is an amount.
LEMMA StakeOfNat ==
  ASSUME NEW A, NEW vals, IsValidatorSet(vals, A), NEW a
  PROVE  StakeOf(vals, a) \in Nat
<1> DEFINE J == {i \in DOMAIN vals : vals[i].addr = a}
<1>1. J \in SUBSET DOMAIN vals
  OBVIOUS
<1>2. StakeSum(vals, J) \in Nat
  BY <1>1, StakeSumNat
<1> QED BY <1>2 DEF StakeOf

\* The proposer's count (proposeBlock) is the stake its certificate proves
\* (ValidateQuorumCertificate) if every connection that answered leads to a
\* different validator other than itself.  The code does not ensure that.
THEOREM CountIsExact ==
  ASSUME NEW A, NEW vals, IsValidatorSet(vals, A), NEW p, NEW answers, NEW owner,
         IsFiniteSet(answers), \A e \in answers : owner[e] # p,
         \A e, f \in answers : owner[e] = owner[f] => e = f
  PROVE  CountedStake(vals, p, answers, owner)
           = CertifiedStake(vals, {p} \cup {owner[e] : e \in answers})
<1> DEFINE w == [e \in answers |-> StakeOf(vals, owner[e])]
           At(t) == {owner[e] : e \in t}
           G == {t \in SUBSET answers : SumFunctionOnSet(w, t) = CertifiedStake(vals, At(t))}
<1>1. \A e \in answers : w[e] \in Nat /\ w[e] = StakeOf(vals, owner[e])
  BY StakeOfNat
<1> HIDE DEF w
<1>2. ASSUME NEW t \in SUBSET answers, \A e \in t : t \ {e} \in G PROVE t \in G
  <2>1. CASE t = {}
    <3> DEFINE I == {i \in DOMAIN vals : vals[i].addr \in At(t)}
    <3>1. I = {}
      BY <2>1
    <3>2. CertifiedStake(vals, At(t)) = StakeSum(vals, I)
      BY DEF CertifiedStake
    <3> HIDE DEF I
    <3>3. CertifiedStake(vals, At(t)) = 0
      BY <3>1, <3>2, SumEmpty DEF StakeSum
    <3>4. SumFunctionOnSet(w, t) = 0
      BY <2>1, SumEmpty
    <3> QED BY <3>3, <3>4
  <2>2. CASE t # {}
    <3>1. PICK e \in t : TRUE
      BY <2>2
    <3>2. IsFiniteSet(t) /\ \A x \in t : w[x] \in Int
      BY <1>1, FS_Subset
    <3>3. SumFunctionOnSet(w, t) = w[e] + SumFunctionOnSet(w, t \ {e})
      BY <3>2, SumRemove
    <3>4. At(t) = At(t \ {e}) \cup {owner[e]} /\ owner[e] \notin At(t \ {e})
      OBVIOUS
    <3>5. SumFunctionOnSet(w, t \ {e}) = CertifiedStake(vals, At(t \ {e}))
      BY <1>2
    <3>6. w[e] = StakeOf(vals, owner[e])
      BY <1>1
    <3> HIDE DEF At
    <3>7. CertifiedStake(vals, At(t)) = StakeOf(vals, owner[e]) + CertifiedStake(vals, At(t \ {e}))
      BY <3>4, OneMoreVoter
    <3>8. SumFunctionOnSet(w, t) = CertifiedStake(vals, At(t))
      BY <3>3, <3>5, <3>6, <3>7
    <3> QED BY <3>8
  <2> QED BY <2>1, <2>2
<1> HIDE DEF G
<1>3. answers \in G
  BY <1>2, SubsetInduction
<1>4. SumFunctionOnSet(w, answers) = CertifiedStake(vals, At(answers))
  BY <1>3 DEF G
<1>5. p \notin At(answers) /\ {p} \cup At(answers) = At(answers) \cup {p}
  OBVIOUS
<1> HIDE DEF At
<1>6. CertifiedStake(vals, At(answers) \cup {p})
        = StakeOf(vals, p) + CertifiedStake(vals, At(answers))
  BY <1>5, OneMoreVoter
<1>7. CountedStake(vals, p, answers, owner) = StakeOf(vals, p) + SumFunctionOnSet(w, answers)
  BY DEF CountedStake, w
<1> QED BY <1>4, <1>5, <1>6, <1>7 DEF At
=============================================================================
