----------------------------- MODULE LedgerProofs -----------------------------
(***************************************************************************)
(* The world state stays consistent: proofs for every set of accounts,     *)
(* every parameter of the genesis file within ParamAssumption and every    *)
(* bound.                                                                  *)
(***************************************************************************)
EXTENDS Ledger, SumTheorems

\* The inductive invariant of one world state.  Type correctness alone is not
\* inductive: that an unstake does not wrap below zero follows from the three
\* records of a stake agreeing, and a new position is new because post ids
\* carry used-up nonces.
Good(s) == WorldStateOK(s) /\ FreshOK(s) /\ StakesOK(s)

-------------------------------------------------------------------------------
(* Frames: what an operation that leaves posts and stakes alone preserves. *)

\* Stakes that nobody touches agree as before.
LEMMA StakesFrame ==
  ASSUME NEW s, NEW t, StakesOK(s), t.posts = s.posts, t.stakes = s.stakes,
         t.postStaked = s.postStaked, s.accounts \subseteq t.accounts
  PROVE  StakesOK(t)
<1>1. /\ \A a : StakedBy(t, a) = StakedBy(s, a)
      /\ \A p : StakedOn(t, p) = StakedOn(s, p) /\ PostStakers(t, p) = PostStakers(s, p)
  BY DEF StakedBy, StakedOn, StakeOf, PostStakers
<1> QED BY <1>1 DEF StakesOK

\* Posts and entries that nobody adds stay older than the nonces.
LEMMA FreshFrame ==
  ASSUME NEW s, NEW t, WorldStateOK(s), FreshOK(s), t.posts = s.posts,
         DOMAIN t.unbonding \subseteq DOMAIN s.unbonding,
         t.nonce \in [Addr -> Nat], \A a \in Addr : s.nonce[a] <= t.nonce[a]
  PROVE  FreshOK(t)
<1>1. ASSUME NEW k \in Addr \X Nat, k[2] <= s.nonce[k[1]] PROVE k[2] <= t.nonce[k[1]]
  BY <1>1 DEF WorldStateOK
<1> QED BY <1>1 DEF FreshOK, WorldStateOK, PostIds

-------------------------------------------------------------------------------
(* Sums over positions. *)

\* A position is an amount.
LEMMA StakeOfType ==
  ASSUME NEW s, WorldStateOK(s)
  PROVE  \A p, a : StakeOf(s, p, a) \in Nat
BY DEF StakeOf, WorldStateOK

\* So is what is staked on a post.
LEMMA StakedOnType ==
  ASSUME NEW s, WorldStateOK(s), NEW p
  PROVE  StakedOn(s, p) \in Nat
<1> DEFINE f == [a \in Addr |-> StakeOf(s, p, a)]
<1>1. \A a \in Addr : f[a] \in Nat
  BY StakeOfType
<1> HIDE DEF f
<1>2. SumFunctionOnSet(f, Addr) \in Nat
  BY <1>1, SumNat, AddrAssumption
<1> QED BY <1>2 DEF StakedOn, f

\* So is what an account has staked on posts.
LEMMA StakedByType ==
  ASSUME NEW s, WorldStateOK(s), NEW a
  PROVE  StakedBy(s, a) \in Nat
<1> DEFINE f == [p \in DOMAIN s.posts |-> StakeOf(s, p, a)]
<1>1. \A p \in DOMAIN s.posts : f[p] \in Nat
  BY StakeOfType
<1> HIDE DEF f
<1>2. SumFunctionOnSet(f, DOMAIN s.posts) \in Nat
  BY <1>1, SumNat DEF WorldStateOK
<1> QED BY <1>2 DEF StakedBy, f

\* No position can be larger than what its holder has staked in total.
LEMMA StakeIsPart ==
  ASSUME NEW s, Good(s), NEW a \in Addr, NEW p
  PROVE  StakeOf(s, p, a) <= s.postStaked[a]
<1> DEFINE f == [q \in DOMAIN s.posts |-> StakeOf(s, q, a)]
<1>1. WorldStateOK(s) /\ s.postStaked[a] = SumFunctionOnSet(f, DOMAIN s.posts)
  BY DEF Good, StakesOK, StakedBy
<1>2. s.postStaked[a] \in Nat
  BY <1>1 DEF WorldStateOK
<1>3. CASE p \in DOMAIN s.posts
  <2>1. \A q \in DOMAIN s.posts : f[q] \in Nat
    BY <1>1, StakeOfType
  <2>2. f[p] = StakeOf(s, p, a) /\ f[p] \in Nat
    BY <1>3, <2>1
  <2> HIDE DEF f
  <2>3. {p} \in SUBSET DOMAIN s.posts /\ IsFiniteSet({p}) /\ IsFiniteSet(DOMAIN s.posts)
    BY <1>1, <1>3, FS_Singleton DEF WorldStateOK
  <2>4. SumFunctionOnSet(f, {p}) <= SumFunctionOnSet(f, DOMAIN s.posts)
    BY <2>1, <2>3, SumPart
  <2>5. SumFunctionOnSet(f, {p}) = f[p] + SumFunctionOnSet(f, {p} \ {p})
    BY <2>2, <2>3, SumRemove
  <2>6. SumFunctionOnSet(f, {p} \ {p}) = 0
    <3>1. {p} \ {p} = {}
      OBVIOUS
    <3> QED BY <3>1, SumEmpty
  <2> QED BY <1>1, <2>2, <2>4, <2>5, <2>6
<1>4. CASE p \notin DOMAIN s.posts
  <2>1. <<p, a>> \notin DOMAIN s.stakes
    BY <1>4 DEF Good, StakesOK
  <2> QED BY <1>2, <2>1 DEF StakeOf
<1> QED BY <1>3, <1>4

\* A step that changes the positions of one post p only, old or new, keeps the
\* three records together if it does so on p and on the holders.
LEMMA StakesLocal ==
  ASSUME NEW s, NEW t, Good(s), WorldStateOK(t), NEW p,
         DOMAIN t.posts = DOMAIN s.posts \cup {p},
         s.accounts \subseteq t.accounts,
         \A q \in DOMAIN s.posts \ {p} : t.posts[q] = s.posts[q],
         \A q : q # p => \A a : /\ <<q, a>> \in DOMAIN t.stakes <=> <<q, a>> \in DOMAIN s.stakes
                                /\ StakeOf(t, q, a) = StakeOf(s, q, a),
         PostStakers(t, p) \subseteq t.accounts,
         \A a \in Addr : t.postStaked[a] = s.postStaked[a] - StakeOf(s, p, a) + StakeOf(t, p, a),
         t.posts[p].totalStaked = StakedOn(t, p),
         t.posts[p].stakerCount = Cardinality(PostStakers(t, p))
  PROVE  StakesOK(t)
<1>0. WorldStateOK(s) /\ StakesOK(s)
  BY DEF Good
<1>1. ASSUME NEW a \in Addr
      PROVE  StakedBy(t, a) = StakedBy(s, a) - StakeOf(s, p, a) + StakeOf(t, p, a)
  <2> DEFINE D == DOMAIN s.posts \ {p}
             f == [q \in DOMAIN s.posts |-> StakeOf(s, q, a)]
             g == [q \in DOMAIN t.posts |-> StakeOf(t, q, a)]
  <2>1. /\ \A q \in DOMAIN s.posts : f[q] \in Int
        /\ \A q \in DOMAIN t.posts : g[q] \in Int
        /\ \A q \in D : f[q] \in Int /\ g[q] = f[q]
        /\ g[p] = StakeOf(t, p, a)
        /\ p \in DOMAIN s.posts => f[p] = StakeOf(s, p, a)
    <3>1. \A q : StakeOf(s, q, a) \in Int /\ StakeOf(t, q, a) \in Int
      BY <1>0, StakeOfType
    <3>2. p \in DOMAIN t.posts /\ D \subseteq DOMAIN s.posts /\ D \subseteq DOMAIN t.posts
      OBVIOUS
    <3>3. \A q \in D : StakeOf(t, q, a) = StakeOf(s, q, a)
      OBVIOUS
    <3> HIDE DEF D
    <3> QED BY <3>1, <3>2, <3>3
  <2>2. IsFiniteSet(DOMAIN s.posts) /\ IsFiniteSet(DOMAIN t.posts) /\ IsFiniteSet(D)
    BY <1>0, FS_Subset DEF WorldStateOK
  <2>3. p \in DOMAIN t.posts /\ DOMAIN t.posts \ {p} = D
    OBVIOUS
  <2>4. p \notin DOMAIN s.posts => D = DOMAIN s.posts /\ StakeOf(s, p, a) = 0
    BY <1>0 DEF StakesOK, StakeOf
  <2>5. StakedBy(s, a) = SumFunctionOnSet(f, DOMAIN s.posts)
        /\ StakedBy(t, a) = SumFunctionOnSet(g, DOMAIN t.posts)
    BY DEF StakedBy
  <2>6. StakeOf(s, p, a) \in Int /\ StakeOf(t, p, a) \in Int
    BY <1>0, StakeOfType
  <2> HIDE DEF f, g, D
  <2>7. StakedBy(t, a) = StakeOf(t, p, a) + SumFunctionOnSet(g, D)
    <3>1. SumFunctionOnSet(g, DOMAIN t.posts) = g[p] + SumFunctionOnSet(g, DOMAIN t.posts \ {p})
      BY <2>1, <2>2, <2>3, SumRemove
    <3> QED BY <3>1, <2>1, <2>3, <2>5
  <2>8. SumFunctionOnSet(g, D) = SumFunctionOnSet(f, D)
    BY <2>1, <2>2, SumEqual
  <2>9. SumFunctionOnSet(f, D) \in Int
    BY <2>1, <2>2, SumType
  <2>10. CASE p \in DOMAIN s.posts
    <3>1. SumFunctionOnSet(f, DOMAIN s.posts) = f[p] + SumFunctionOnSet(f, DOMAIN s.posts \ {p})
      BY <2>1, <2>2, <2>10, SumRemove
    <3>2. DOMAIN s.posts \ {p} = D
      BY DEF D
    <3>3. StakedBy(s, a) = StakeOf(s, p, a) + SumFunctionOnSet(f, D)
      BY <3>1, <3>2, <2>1, <2>5, <2>10
    <3> QED BY <3>3, <2>6, <2>7, <2>8, <2>9
  <2>11. CASE p \notin DOMAIN s.posts
    <3>1. StakedBy(s, a) = SumFunctionOnSet(f, D) /\ StakeOf(s, p, a) = 0
      BY <2>4, <2>5, <2>11
    <3> QED BY <3>1, <2>6, <2>7, <2>8, <2>9
  <2> QED BY <2>10, <2>11
<1>2. ASSUME NEW q \in DOMAIN s.posts \ {p}
      PROVE  StakedOn(t, q) = StakedOn(s, q) /\ PostStakers(t, q) = PostStakers(s, q)
  BY DEF StakedOn, PostStakers
<1>3. ASSUME NEW a \in Addr PROVE t.postStaked[a] = StakedBy(t, a)
  BY <1>0, <1>1 DEF StakesOK
<1>4. ASSUME NEW q \in DOMAIN t.posts
      PROVE  /\ t.posts[q].totalStaked = StakedOn(t, q)
             /\ t.posts[q].stakerCount = Cardinality(PostStakers(t, q))
  <2>1. CASE q = p
    BY <2>1
  <2>2. CASE q # p
    BY <2>2, <1>0, <1>2 DEF StakesOK
  <2> QED BY <2>1, <2>2
<1>5. ASSUME NEW k \in DOMAIN t.stakes PROVE k[1] \in DOMAIN t.posts /\ k[2] \in t.accounts
  <2>1. k = <<k[1], k[2]>> /\ k[2] \in Addr
    BY DEF WorldStateOK
  <2>2. CASE k[1] = p
    BY <2>1, <2>2 DEF PostStakers
  <2>3. CASE k[1] # p
    <3>1. k \in DOMAIN s.stakes
      BY <2>1, <2>3
    <3> QED BY <3>1, <1>0 DEF StakesOK
  <2> QED BY <2>2, <2>3
<1> QED BY <1>3, <1>4, <1>5 DEF StakesOK

-------------------------------------------------------------------------------
(* One lemma per operation. *)

\* A balance that is adjusted within its means stays a balance.
LEMMA AdjustType ==
  ASSUME NEW f \in [Addr -> Nat], NEW a \in Addr, NEW n \in Int, f[a] + n >= 0
  PROVE  /\ Adjust(f, a, n) \in [Addr -> Nat]
         /\ Adjust(f, a, n)[a] = f[a] + n
         /\ \A b \in Addr \ {a} : Adjust(f, a, n)[b] = f[b]
BY DEF Adjust

\* A transaction uses up one nonce of its sender.
LEMMA NonceStep ==
  ASSUME NEW f \in [Addr -> Nat], NEW a \in Addr
  PROVE  /\ Adjust(f, a, 1) \in [Addr -> Nat]
         /\ Adjust(f, a, 1)[a] = f[a] + 1
         /\ \A b \in Addr : f[b] <= Adjust(f, a, 1)[b]
BY DEF Adjust

\* t is a world state that differs from s at most in the fields F.
Changed(s, t, F) == DOMAIN t = Fields /\ \A f \in Fields \ F : t[f] = s[f]

\* A transfer keeps the invariant.
LEMMA GoodTransfer ==
  ASSUME NEW s, Good(s), NEW tx, tx.sender \in Addr, tx.recipient \in Addr,
         tx.amount \in Nat, ValidTransfer(s, tx)
  PROVE  Good(ApplyTransfer(s, tx))
<1> DEFINE t == ApplyTransfer(s, tx)
<1>1. /\ Changed(s, t, {"accounts", "balance", "nonce"})
      /\ t.accounts = s.accounts \cup {tx.recipient}
      /\ t.balance = Adjust(Adjust(s.balance, tx.sender, -tx.amount), tx.recipient, tx.amount)
      /\ t.nonce = Adjust(s.nonce, tx.sender, 1)
  BY DEF ApplyTransfer, Good, WorldStateOK, Fields, Changed
<1> HIDE DEF t
<1>2. s.balance[tx.sender] >= tx.amount
  BY DEF ValidTransfer, ValidCommon
<1>3. /\ t.balance \in [Addr -> Nat]
      /\ t.nonce \in [Addr -> Nat]
      /\ \A a \in Addr : s.nonce[a] <= t.nonce[a]
  <2>1. s.balance \in [Addr -> Nat] /\ s.nonce \in [Addr -> Nat]
    BY DEF Good, WorldStateOK
  <2> DEFINE b == Adjust(s.balance, tx.sender, -tx.amount)
  <2>2. -tx.amount \in Int /\ s.balance[tx.sender] + (-tx.amount) >= 0
    BY <1>2, <2>1
  <2>3. b \in [Addr -> Nat]
    BY <2>1, <2>2, AdjustType
  <2> HIDE DEF b
  <2>4. Adjust(b, tx.recipient, tx.amount) \in [Addr -> Nat]
    BY <2>3, AdjustType
  <2> QED BY <1>1, <2>1, <2>4, NonceStep DEF b
<1>4. WorldStateOK(t)
  BY <1>1, <1>3 DEF Good, WorldStateOK, Changed, Fields
<1>5. t.posts = s.posts /\ t.stakes = s.stakes /\ t.postStaked = s.postStaked
      /\ t.unbonding = s.unbonding
  BY <1>1 DEF Changed, Fields
<1>6. FreshOK(t)
  BY <1>3, <1>5, FreshFrame DEF Good
<1>7. StakesOK(t)
  BY <1>1, <1>5, StakesFrame DEF Good
<1> QED BY <1>4, <1>6, <1>7 DEF Good, t

\* So does the registration of a name.
LEMMA GoodRegisterName ==
  ASSUME NEW s, Good(s), NEW tx, tx.sender \in Addr, tx.name \in Names
  PROVE  Good(ApplyRegisterName(s, tx))
<1> DEFINE t == ApplyRegisterName(s, tx)
<1>1. /\ Changed(s, t, {"nonce", "name", "nameIndex"})
      /\ t.nonce = Adjust(s.nonce, tx.sender, 1)
      /\ t.name = [s.name EXCEPT ![tx.sender] = tx.name]
      /\ t.nameIndex = [s.nameIndex EXCEPT ![tx.name] = tx.sender]
  BY DEF ApplyRegisterName, Good, WorldStateOK, Fields, Changed
<1> HIDE DEF t
<1>2. s.nonce \in [Addr -> Nat] /\ s.name \in [Addr -> Names \cup {None}]
      /\ s.nameIndex \in [Names -> Addr \cup {None}]
  BY DEF Good, WorldStateOK
<1>3. /\ t.nonce \in [Addr -> Nat] /\ \A a \in Addr : s.nonce[a] <= t.nonce[a]
      /\ t.name \in [Addr -> Names \cup {None}]
      /\ t.nameIndex \in [Names -> Addr \cup {None}]
  BY <1>1, <1>2, NonceStep
<1>4. WorldStateOK(t)
  BY <1>1, <1>3 DEF Good, WorldStateOK, Changed, Fields
<1>5. t.posts = s.posts /\ t.stakes = s.stakes /\ t.postStaked = s.postStaked
      /\ t.unbonding = s.unbonding /\ t.accounts = s.accounts
  BY <1>1 DEF Changed, Fields
<1>6. FreshOK(t)
  BY <1>3, <1>5, FreshFrame DEF Good
<1>7. StakesOK(t)
  BY <1>5, StakesFrame DEF Good
<1> QED BY <1>4, <1>6, <1>7 DEF Good, t

\* The active set stays typed when a key is set.
LEMMA KeyType ==
  ASSUME NEW v, IsMap(v), NEW b,
         \A a \in DOMAIN v : a \in Addr /\ v[a] \in [power: Nat, key: BOOLEAN]
  PROVE  /\ IsMap(SetValidatorPubKey(v, b))
         /\ \A a \in DOMAIN SetValidatorPubKey(v, b) :
              a \in Addr /\ SetValidatorPubKey(v, b)[a] \in [power: Nat, key: BOOLEAN]
<1>1. CASE b \in DOMAIN v
  <2>1. SetValidatorPubKey(v, b) = [v EXCEPT ![b] = [v[b] EXCEPT !.key = TRUE]]
    BY <1>1 DEF SetValidatorPubKey
  <2>2. [v[b] EXCEPT !.key = TRUE] \in [power: Nat, key: BOOLEAN]
    BY <1>1
  <2> QED BY <2>1, <2>2 DEF IsMap
<1>2. CASE b \notin DOMAIN v
  BY <1>2 DEF SetValidatorPubKey
<1> QED BY <1>1, <1>2

\* A stake keeps the invariant.
LEMMA GoodStake ==
  ASSUME NEW s, Good(s), NEW tx, tx.sender \in Addr, tx.amount \in Nat, ValidStake(s, tx)
  PROVE  Good(ApplyStake(s, tx))
<1> DEFINE t == ApplyStake(s, tx)
<1>1. /\ Changed(s, t, {"balance", "staked", "nonce", "active"})
      /\ t.balance = Adjust(s.balance, tx.sender, -tx.amount)
      /\ t.staked = Adjust(s.staked, tx.sender, tx.amount)
      /\ t.nonce = Adjust(s.nonce, tx.sender, 1)
      /\ t.active = SetValidatorPubKey(s.active, tx.sender)
  BY DEF ApplyStake, Good, WorldStateOK, Fields, Changed
<1> HIDE DEF t
<1>2. /\ s.balance \in [Addr -> Nat] /\ s.staked \in [Addr -> Nat] /\ s.nonce \in [Addr -> Nat]
      /\ IsMap(s.active)
      /\ \A a \in DOMAIN s.active : a \in Addr /\ s.active[a] \in [power: Nat, key: BOOLEAN]
  BY DEF Good, WorldStateOK
<1>3. s.balance[tx.sender] + (-tx.amount) >= 0 /\ -tx.amount \in Int
      /\ s.staked[tx.sender] + tx.amount >= 0
  BY <1>2 DEF ValidStake, ValidCommon
<1>4. /\ t.balance \in [Addr -> Nat] /\ t.staked \in [Addr -> Nat]
      /\ t.nonce \in [Addr -> Nat] /\ \A a \in Addr : s.nonce[a] <= t.nonce[a]
  <2>1. Adjust(s.balance, tx.sender, -tx.amount) \in [Addr -> Nat]
    BY <1>2, <1>3, AdjustType
  <2>2. Adjust(s.staked, tx.sender, tx.amount) \in [Addr -> Nat]
    BY <1>2, <1>3, AdjustType
  <2> QED BY <1>1, <1>2, <2>1, <2>2, NonceStep, ZenonT(30)
<1>5. /\ IsMap(t.active)
      /\ \A a \in DOMAIN t.active : a \in Addr /\ t.active[a] \in [power: Nat, key: BOOLEAN]
  BY <1>1, <1>2, KeyType
<1>6. WorldStateOK(t)
  BY <1>1, <1>4, <1>5 DEF Good, WorldStateOK, Changed, Fields
<1>7. t.posts = s.posts /\ t.stakes = s.stakes /\ t.postStaked = s.postStaked
      /\ t.unbonding = s.unbonding /\ t.accounts = s.accounts
  BY <1>1 DEF Changed, Fields
<1>8. FreshOK(t)
  BY <1>4, <1>7, FreshFrame DEF Good
<1>9. StakesOK(t)
  BY <1>7, StakesFrame DEF Good
<1> QED BY <1>6, <1>8, <1>9 DEF Good, t

\* So does an unstake.
LEMMA GoodUnstake ==
  ASSUME NEW s, Good(s), NEW tx, tx.sender \in Addr, tx.amount \in Nat, NEW h \in Nat,
         ValidUnstake(s, tx)
  PROVE  Good(ApplyUnstake(s, tx, h))
<1> DEFINE t == ApplyUnstake(s, tx, h)
           k == <<tx.sender, s.nonce[tx.sender] + 1>>
           e == [amount |-> tx.amount, release |-> h + UnbondingPeriod]
<1>1. /\ Changed(s, t, {"staked", "nonce", "unbonding"})
      /\ t.staked = Adjust(s.staked, tx.sender, -tx.amount)
      /\ t.nonce = Adjust(s.nonce, tx.sender, 1)
      /\ t.unbonding = MapPut(s.unbonding, k, e)
  BY DEF ApplyUnstake, AddUnbondingEntry, Good, WorldStateOK, Fields, Changed
<1> HIDE DEF t
<1>2. /\ s.staked \in [Addr -> Nat] /\ s.nonce \in [Addr -> Nat]
      /\ IsFiniteSet(DOMAIN s.unbonding)
      /\ \A j \in DOMAIN s.unbonding :
           /\ j \in Addr \X Nat /\ s.unbonding[j] \in [amount: Nat, release: Nat]
           /\ j[2] <= s.nonce[j[1]]
  BY DEF Good, WorldStateOK, FreshOK
<1>3. s.staked[tx.sender] + (-tx.amount) >= 0 /\ -tx.amount \in Int
  BY <1>2 DEF ValidUnstake
<1>4. /\ t.staked \in [Addr -> Nat]
      /\ t.nonce \in [Addr -> Nat] /\ \A a \in Addr : s.nonce[a] <= t.nonce[a]
      /\ t.nonce[tx.sender] = s.nonce[tx.sender] + 1
  <2>1. Adjust(s.staked, tx.sender, -tx.amount) \in [Addr -> Nat]
    BY <1>2, <1>3, AdjustType
  <2> QED BY <1>1, <1>2, <2>1, NonceStep
<1>5. k \in Addr \X Nat /\ k[2] <= t.nonce[k[1]] /\ e \in [amount: Nat, release: Nat]
  BY <1>2, <1>4, ParamAssumption
<1> HIDE DEF k, e
<1>6. /\ DOMAIN t.unbonding = DOMAIN s.unbonding \cup {k}
      /\ IsMap(t.unbonding)
      /\ t.unbonding[k] = e
      /\ \A j \in DOMAIN s.unbonding : j # k => t.unbonding[j] = s.unbonding[j]
  BY <1>1 DEF MapPut, IsMap
<1>7. /\ IsFiniteSet(DOMAIN t.unbonding)
      /\ \A j \in DOMAIN t.unbonding :
           j \in Addr \X Nat /\ t.unbonding[j] \in [amount: Nat, release: Nat]
  BY <1>2, <1>5, <1>6, FS_AddElement
<1>8. WorldStateOK(t)
  BY <1>1, <1>4, <1>6, <1>7 DEF Good, WorldStateOK, Changed, Fields
<1>9. t.posts = s.posts /\ t.stakes = s.stakes /\ t.postStaked = s.postStaked
      /\ t.accounts = s.accounts
  BY <1>1 DEF Changed, Fields
<1>10. FreshOK(t)
  <2>1. ASSUME NEW j \in Addr \X Nat, j[2] <= s.nonce[j[1]] PROVE j[2] <= t.nonce[j[1]]
    BY <1>2, <1>4, <2>1
  <2>2. \A j \in DOMAIN t.unbonding : j[2] <= t.nonce[j[1]]
    BY <1>2, <1>5, <1>6, <2>1
  <2> QED BY <1>9, <2>1, <2>2 DEF FreshOK, Good, WorldStateOK, PostIds
<1>11. StakesOK(t)
  BY <1>9, StakesFrame DEF Good
<1> QED BY <1>8, <1>10, <1>11 DEF Good, t

\* A fee is a natural number no larger than the amount.
LEMMA PercentType ==
  ASSUME NEW n \in Nat, NEW pct \in Nat, pct <= 100
  PROVE  Percent(n, pct) \in Nat /\ Percent(n, pct) <= n
<1>1. n * pct \in Nat /\ n * pct <= n * 100
  <2>1. n * (100 - pct) \in Nat
    OBVIOUS
  <2>2. n * (100 - pct) = n * 100 - n * pct
    OBVIOUS
  <2> QED BY <2>1, <2>2
<1>2. \A x \in Nat : x <= n * 100 => x \div 100 \in Nat /\ x \div 100 <= n
  OBVIOUS
<1> QED BY <1>1, <1>2 DEF Percent, MulDiv

\* The three fees of a boost together are no larger than the amount.
LEMMA BoostSplit ==
  ASSUME NEW n \in Nat
  PROVE  /\ Percent(n, BurnPct) \in Nat
         /\ Percent(n, AuthorPct) \in Nat
         /\ Percent(n, StakerPct) \in Nat
         /\ BoostStaked(n) \in Nat
<1>1. /\ BurnPct \in Nat /\ AuthorPct \in Nat /\ StakerPct \in Nat
      /\ BurnPct + AuthorPct + StakerPct <= 100
  BY ParamAssumption DEF BurnPct, AuthorPct, StakerPct, BoostDefaults
<1>2. BurnPct <= 100 /\ AuthorPct <= 100 /\ StakerPct <= 100
  BY <1>1
<1>3. /\ Percent(n, BurnPct) \in Nat /\ Percent(n, AuthorPct) \in Nat
      /\ Percent(n, StakerPct) \in Nat
  BY <1>1, <1>2, PercentType
<1>4. ASSUME NEW b \in Nat, NEW a \in Nat, NEW r \in Nat, b + a + r <= 100
      PROVE  (n * b) \div 100 + (n * a) \div 100 + (n * r) \div 100 <= n
  <2>1. n * b \in Nat /\ n * a \in Nat /\ n * r \in Nat
    OBVIOUS
  <2>2. n * b + n * a + n * r <= n * 100
    <3>1. n * (100 - (b + a + r)) \in Nat
      BY <1>4
    <3>2. n * (100 - (b + a + r)) = n * 100 - (n * b + n * a + n * r)
      OBVIOUS
    <3> QED BY <2>1, <3>1, <3>2
  <2>3. \A x, y, z \in Nat : x + y + z <= n * 100 => x \div 100 + y \div 100 + z \div 100 <= n
    OBVIOUS
  <2> QED BY <2>1, <2>2, <2>3
<1>5. Percent(n, BurnPct) + Percent(n, AuthorPct) + Percent(n, StakerPct) <= n
  BY <1>1, <1>4 DEF Percent, MulDiv
<1> QED BY <1>3, <1>5 DEF BoostStaked

\* A new position on a post id that nobody used before.
LEMMA GoodCreatePost ==
  ASSUME NEW s, Good(s), NEW tx, tx.sender \in Addr, tx.amount \in Nat,
         tx.post \in DOMAIN s.posts \cup {None}, ValidCreatePost(s, tx)
  PROVE  Good(ApplyCreatePost(s, tx))
<1> DEFINE t == ApplyCreatePost(s, tx)
           fee == Percent(tx.amount, PostFee)
           staked == tx.amount - fee
           id == <<tx.sender, s.nonce[tx.sender] + 1>>
           post == [author |-> tx.sender, parent |-> tx.post, totalStaked |-> staked,
                    totalBurned |-> fee, stakerCount |-> 1, withdrawn |-> FALSE]
<1>1. /\ Changed(s, t, {"balance", "postStaked", "nonce", "posts", "stakes", "burned"})
      /\ t.balance = Adjust(s.balance, tx.sender, -tx.amount)
      /\ t.postStaked = Adjust(s.postStaked, tx.sender, staked)
      /\ t.nonce = Adjust(s.nonce, tx.sender, 1)
      /\ t.posts = MapPut(s.posts, id, post)
      /\ t.stakes = MapPut(s.stakes, <<id, tx.sender>>, staked)
      /\ t.burned = s.burned + fee
  BY DEF ApplyCreatePost, Good, WorldStateOK, Fields, Changed
<1> HIDE DEF t
<1>2. WorldStateOK(s) /\ FreshOK(s) /\ StakesOK(s)
  BY DEF Good
<1>3. /\ s.balance \in [Addr -> Nat] /\ s.nonce \in [Addr -> Nat]
      /\ s.postStaked \in [Addr -> Nat] /\ s.burned \in Nat
      /\ \A p \in DOMAIN s.posts : p \in Addr \X Nat /\ p[2] <= s.nonce[p[1]]
                                   /\ s.posts[p].author = p[1]
  BY <1>2 DEF WorldStateOK, FreshOK, PostIds
<1>4. PostFee \in Nat /\ PostFee <= 100
  BY ParamAssumption DEF PostFee
<1>5. fee \in Nat /\ staked \in Nat
  BY <1>4, PercentType
<1>6. /\ s.balance[tx.sender] + (-tx.amount) >= 0 /\ -tx.amount \in Int
      /\ tx.sender \in s.accounts
  BY <1>3 DEF ValidCreatePost, ValidCommon, ValidCommonNoBalance
<1>7. id \in PostIds /\ id \notin DOMAIN s.posts /\ id[1] = tx.sender
      /\ id[2] = s.nonce[tx.sender] + 1
  BY <1>3 DEF PostIds
<1>8. post \in Post /\ post.totalStaked = staked /\ post.stakerCount = 1
      /\ post.author = tx.sender
  <2>1. tx.post \in PostIds \cup {None}
    BY <1>2 DEF WorldStateOK
  <2> QED BY <1>5, <2>1 DEF Post
<1> HIDE DEF fee, staked, id, post
<1>9. /\ t.balance \in [Addr -> Nat]
      /\ t.postStaked \in [Addr -> Nat]
      /\ t.postStaked[tx.sender] = s.postStaked[tx.sender] + staked
      /\ \A b \in Addr \ {tx.sender} : t.postStaked[b] = s.postStaked[b]
      /\ t.nonce \in [Addr -> Nat]
      /\ \A a \in Addr : s.nonce[a] <= t.nonce[a]
      /\ t.nonce[tx.sender] = s.nonce[tx.sender] + 1
  <2>1. Adjust(s.balance, tx.sender, -tx.amount) \in [Addr -> Nat]
    BY <1>3, <1>6, AdjustType
  <2> DEFINE b == Adjust(s.postStaked, tx.sender, staked)
  <2>2. s.postStaked[tx.sender] + staked >= 0 /\ staked \in Int
    BY <1>3, <1>5
  <2>3. /\ b \in [Addr -> Nat] /\ b[tx.sender] = s.postStaked[tx.sender] + staked
        /\ \A a \in Addr \ {tx.sender} : b[a] = s.postStaked[a]
    BY <1>3, <2>2, AdjustType
  <2>4. /\ t.nonce \in [Addr -> Nat] /\ \A a \in Addr : s.nonce[a] <= t.nonce[a]
        /\ t.nonce[tx.sender] = s.nonce[tx.sender] + 1
    BY <1>1, <1>3, NonceStep, ZenonT(30)
  <2> HIDE DEF b
  <2> QED BY <1>1, <2>1, <2>3, <2>4 DEF b
<1>10. /\ DOMAIN t.posts = DOMAIN s.posts \cup {id} /\ IsMap(t.posts)
       /\ t.posts[id] = post
       /\ \A p \in DOMAIN s.posts \ {id} : t.posts[p] = s.posts[p]
  BY <1>1 DEF MapPut, IsMap
<1>11. /\ DOMAIN t.stakes = DOMAIN s.stakes \cup {<<id, tx.sender>>} /\ IsMap(t.stakes)
       /\ t.stakes[<<id, tx.sender>>] = staked
       /\ \A k \in DOMAIN s.stakes : k # <<id, tx.sender>> => t.stakes[k] = s.stakes[k]
  BY <1>1 DEF MapPut, IsMap
<1>12. WorldStateOK(t)
  <2>1. IsFiniteSet(DOMAIN t.posts)
    BY <1>2, <1>10, FS_AddElement, SMTT(30) DEF WorldStateOK
  <2>2. \A p \in DOMAIN t.posts : p \in PostIds /\ t.posts[p] \in Post
    BY <1>2, <1>7, <1>8, <1>10 DEF WorldStateOK
  <2>3. \A k \in DOMAIN t.stakes : k \in PostIds \X Addr /\ t.stakes[k] \in Nat
    BY <1>2, <1>5, <1>7, <1>11 DEF WorldStateOK
  <2>4. t.burned \in Nat
    BY <1>1, <1>3, <1>5
  <2> QED BY <1>1, <1>2, <1>9, <1>10, <1>11, <2>1, <2>2, <2>3, <2>4, SMTT(30)
          DEF WorldStateOK, Changed, Fields
<1>13. t.unbonding = s.unbonding /\ t.accounts = s.accounts
  BY <1>1 DEF Changed, Fields
<1>14. FreshOK(t)
  <2>1. ASSUME NEW j \in Addr \X Nat, j[2] <= s.nonce[j[1]] PROVE j[2] <= t.nonce[j[1]]
    BY <1>3, <1>9, <2>1
  <2>2. \A p \in DOMAIN t.posts : p[2] <= t.nonce[p[1]] /\ t.posts[p].author = p[1]
    <3>1. id[2] <= t.nonce[id[1]] /\ t.posts[id].author = id[1]
      BY <1>3, <1>7, <1>8, <1>9, <1>10
    <3> QED BY <1>3, <1>10, <2>1, <3>1
  <2>3. \A k \in DOMAIN t.unbonding : k[2] <= t.nonce[k[1]]
    BY <1>2, <1>13, <2>1 DEF FreshOK, WorldStateOK
  <2> QED BY <2>2, <2>3 DEF FreshOK
<1>15. \A a : <<id, a>> \notin DOMAIN s.stakes
  BY <1>2, <1>7 DEF StakesOK
<1>16. /\ \A a \in Addr : StakeOf(s, id, a) = 0
       /\ \A a \in Addr : StakeOf(t, id, a) = IF a = tx.sender THEN staked ELSE 0
       /\ PostStakers(t, id) = {tx.sender}
  BY <1>11, <1>15 DEF StakeOf, PostStakers
<1>17. StakedOn(t, id) = staked
  <2> DEFINE f == [a \in Addr |-> StakeOf(s, id, a)]
             g == [a \in Addr |-> StakeOf(t, id, a)]
  <2>1. /\ \A a \in Addr : f[a] = 0 /\ f[a] \in Int /\ g[a] \in Int
        /\ \A a \in Addr : a # tx.sender => g[a] = f[a]
        /\ g[tx.sender] = staked
    BY <1>5, <1>16
  <2>2. StakedOn(t, id) = SumFunctionOnSet(g, Addr)
    BY DEF StakedOn
  <2> HIDE DEF f, g
  <2>3. SumFunctionOnSet(f, Addr) = 0
    BY <2>1, SumZero, AddrAssumption
  <2>4. SumFunctionOnSet(g, Addr) = SumFunctionOnSet(f, Addr) - f[tx.sender] + g[tx.sender]
    <3>1. \A a \in Addr : f[a] \in Int /\ g[a] \in Int
      BY <2>1
    <3>2. \A a \in Addr : a # tx.sender => g[a] = f[a]
      BY <2>1
    <3> QED BY <3>1, <3>2, SumUpdate, AddrAssumption
  <2> QED BY <1>5, <2>1, <2>2, <2>3, <2>4
<1>18. StakesOK(t)
  <2>1. \A q : q # id => \A a : /\ <<q, a>> \in DOMAIN t.stakes <=> <<q, a>> \in DOMAIN s.stakes
                                /\ StakeOf(t, q, a) = StakeOf(s, q, a)
    BY <1>11 DEF StakeOf
  <2>2. t.posts[id].totalStaked = StakedOn(t, id)
    BY <1>8, <1>10, <1>17
  <2>3. t.posts[id].stakerCount = Cardinality(PostStakers(t, id))
    BY <1>8, <1>10, <1>16, FS_Singleton
  <2>4. \A a \in Addr : t.postStaked[a] = s.postStaked[a] - StakeOf(s, id, a) + StakeOf(t, id, a)
    BY <1>3, <1>5, <1>9, <1>16
  <2>5. PostStakers(t, id) \subseteq t.accounts
    BY <1>6, <1>13, <1>16
  <2> QED BY <1>10, <1>12, <1>13, <2>1, <2>2, <2>3, <2>4, <2>5, StakesLocal
<1> QED BY <1>12, <1>14, <1>18 DEF Good, t

\* The share of a staker is an amount.
LEMMA ShareType ==
  ASSUME NEW s, WorldStateOK(s), NEW p \in DOMAIN s.posts, NEW reward \in Nat, NEW a
  PROVE  Share(s, p, reward, a) \in Nat
<1>1. \A x, y \in Nat : y > 0 => x \div y \in Nat
  OBVIOUS
<1>2. s.posts[p].totalStaked \in Nat /\ (<<p, a>> \in DOMAIN s.stakes => s.stakes[<<p, a>>] \in Nat)
  BY DEF WorldStateOK, Post
<1>3. \A x \in Nat : reward * x \in Nat
  OBVIOUS
<1> QED BY <1>1, <1>2, <1>3 DEF Share, MulDiv

\* One position grows, or a new one joins the post.
LEMMA GoodBoostPost ==
  ASSUME NEW s, Good(s), NEW tx, tx.sender \in Addr, tx.amount \in Nat, ValidBoostPost(s, tx)
  PROVE  Good(ApplyBoostPost(s, tx))
<1> DEFINE t == ApplyBoostPost(s, tx)
           old == s.posts[tx.post]
           staked == BoostStaked(tx.amount)
           burn == Percent(tx.amount, BurnPct)
           isNew == IsNewStaker(s, tx)
           post == [old EXCEPT !.totalStaked = @ + staked, !.totalBurned = @ + burn,
                               !.stakerCount = IF isNew THEN @ + 1 ELSE @]
           Paid(a) == (IF a = old.author /\ a \in s.accounts
                       THEN Percent(tx.amount, AuthorPct) ELSE 0)
                      + Share(s, tx.post, Percent(tx.amount, StakerPct), a)
                      - (IF a = tx.sender THEN tx.amount ELSE 0)
<1>1. /\ Changed(s, t, {"balance", "postStaked", "nonce", "posts", "stakes", "burned"})
      /\ t.balance = [a \in Addr |-> s.balance[a] + Paid(a)]
      /\ t.postStaked = Adjust(s.postStaked, tx.sender, staked)
      /\ t.nonce = Adjust(s.nonce, tx.sender, 1)
      /\ t.posts = MapPut(s.posts, tx.post, post)
      /\ t.stakes = MapPut(s.stakes, <<tx.post, tx.sender>>,
                           StakeOf(s, tx.post, tx.sender) + staked)
      /\ t.burned = s.burned + burn
  BY DEF ApplyBoostPost, Good, WorldStateOK, Fields, Changed
<1> HIDE DEF t
<1>2. WorldStateOK(s) /\ FreshOK(s) /\ StakesOK(s)
  BY DEF Good
<1>3. /\ s.balance \in [Addr -> Nat] /\ s.nonce \in [Addr -> Nat]
      /\ s.postStaked \in [Addr -> Nat] /\ s.burned \in Nat
      /\ \A p \in DOMAIN s.posts : p \in Addr \X Nat /\ p[2] <= s.nonce[p[1]]
                                   /\ s.posts[p].author = p[1]
  BY <1>2 DEF WorldStateOK, FreshOK, PostIds
<1>4. /\ tx.post \in DOMAIN s.posts /\ tx.sender \in s.accounts
      /\ s.balance[tx.sender] >= tx.amount
  BY DEF ValidBoostPost, ValidCommon, ValidCommonNoBalance
<1>5. staked \in Nat /\ burn \in Nat /\ Percent(tx.amount, AuthorPct) \in Nat
      /\ Percent(tx.amount, StakerPct) \in Nat
  BY BoostSplit
<1>6. old \in Post
  BY <1>2, <1>4 DEF WorldStateOK
<1>7. /\ post \in Post /\ post.author = old.author
      /\ post.totalStaked = old.totalStaked + staked
      /\ post.stakerCount = IF isNew THEN old.stakerCount + 1 ELSE old.stakerCount
  <2> HIDE DEF old, staked, burn, isNew
  <2>1. /\ post.author = old.author /\ post.totalStaked = old.totalStaked + staked
        /\ post.stakerCount = IF isNew THEN old.stakerCount + 1 ELSE old.stakerCount
    BY <1>6 DEF Post
  <2> DEFINE n == old.totalStaked + staked
             m == old.totalBurned + burn
             c == IF isNew THEN old.stakerCount + 1 ELSE old.stakerCount
  <2>2. n \in Nat /\ m \in Nat /\ c \in Nat
    BY <1>5, <1>6 DEF Post
  <2>3. post = [old EXCEPT !.totalStaked = n, !.totalBurned = m, !.stakerCount = c]
    OBVIOUS
  <2> HIDE DEF n, m, c
  <2>4. [old EXCEPT !.totalStaked = n, !.totalBurned = m, !.stakerCount = c] \in Post
    BY <1>6, <2>2 DEF Post
  <2> QED BY <2>1, <2>3, <2>4
<1>8. t.balance \in [Addr -> Nat]
  <2> SUFFICES ASSUME NEW a \in Addr PROVE s.balance[a] + Paid(a) \in Nat
    BY <1>1
  <2> DEFINE share == Share(s, tx.post, Percent(tx.amount, StakerPct), a)
             author == Percent(tx.amount, AuthorPct)
  <2>1. share \in Nat
    BY <1>2, <1>4, <1>5, ShareType
  <2>2. author \in Nat /\ s.balance[a] \in Nat
    BY <1>3, <1>5
  <2> HIDE DEF share, author, old
  <2>3. CASE a = tx.sender
    BY <1>4, <2>1, <2>2, <2>3 DEF share, author
  <2>4. CASE a # tx.sender
    BY <2>1, <2>2, <2>4 DEF share, author
  <2> QED BY <2>3, <2>4
<1> HIDE DEF staked, burn, post, Paid, old, isNew
<1>9. /\ t.postStaked \in [Addr -> Nat]
      /\ t.postStaked[tx.sender] = s.postStaked[tx.sender] + staked
      /\ \A b \in Addr \ {tx.sender} : t.postStaked[b] = s.postStaked[b]
      /\ t.nonce \in [Addr -> Nat]
      /\ \A a \in Addr : s.nonce[a] <= t.nonce[a]
  <2> DEFINE b == Adjust(s.postStaked, tx.sender, staked)
  <2>2. s.postStaked[tx.sender] + staked >= 0 /\ staked \in Int
    BY <1>3, <1>5
  <2>3. /\ b \in [Addr -> Nat] /\ b[tx.sender] = s.postStaked[tx.sender] + staked
        /\ \A a \in Addr \ {tx.sender} : b[a] = s.postStaked[a]
    BY <1>3, <2>2, AdjustType
  <2>4. t.nonce \in [Addr -> Nat] /\ \A a \in Addr : s.nonce[a] <= t.nonce[a]
    BY <1>1, <1>3, NonceStep
  <2> HIDE DEF b
  <2> QED BY <1>1, <2>3, <2>4 DEF b
<1>10. /\ DOMAIN t.posts = DOMAIN s.posts \cup {tx.post} /\ DOMAIN t.posts = DOMAIN s.posts
       /\ IsMap(t.posts) /\ t.posts[tx.post] = post
       /\ \A p \in DOMAIN s.posts \ {tx.post} : t.posts[p] = s.posts[p]
  BY <1>1, <1>4 DEF MapPut, IsMap
<1> DEFINE k0 == <<tx.post, tx.sender>>
<1>11. /\ DOMAIN t.stakes = DOMAIN s.stakes \cup {k0} /\ IsMap(t.stakes)
       /\ t.stakes[k0] = StakeOf(s, tx.post, tx.sender) + staked
       /\ \A k \in DOMAIN s.stakes : k # k0 => t.stakes[k] = s.stakes[k]
  BY <1>1 DEF MapPut, IsMap
<1>12. \A p, a : StakeOf(s, p, a) \in Nat
  BY <1>2, StakeOfType
<1>13. WorldStateOK(t)
  <2>1. IsFiniteSet(DOMAIN t.posts)
    BY <1>2, <1>10 DEF WorldStateOK
  <2>2. \A p \in DOMAIN t.posts : p \in PostIds /\ t.posts[p] \in Post
    BY <1>2, <1>7, <1>10 DEF WorldStateOK
  <2>3. \A k \in DOMAIN t.stakes : k \in PostIds \X Addr /\ t.stakes[k] \in Nat
    <3>1. k0 \in PostIds \X Addr /\ t.stakes[k0] \in Nat
      BY <1>2, <1>4, <1>5, <1>11, <1>12 DEF WorldStateOK
    <3> HIDE DEF k0
    <3> QED BY <1>2, <1>11, <3>1 DEF WorldStateOK
  <2>4. t.burned \in Nat
    BY <1>1, <1>3, <1>5
  <2>5. /\ DOMAIN t = Fields /\ t.accounts = s.accounts /\ t.staked = s.staked
        /\ t.name = s.name /\ t.nameIndex = s.nameIndex /\ t.active = s.active
        /\ t.unbonding = s.unbonding /\ t.slashed = s.slashed /\ t.issued = s.issued
        /\ t.height = s.height /\ t.epoch = s.epoch
    BY <1>1 DEF Changed, Fields
  <2> QED BY <1>2, <1>8, <1>9, <1>10, <1>11, <2>1, <2>2, <2>3, <2>4, <2>5, SMTT(30)
          DEF WorldStateOK
<1>14. t.unbonding = s.unbonding /\ t.accounts = s.accounts
  BY <1>1 DEF Changed, Fields
<1>15. FreshOK(t)
  <2>1. ASSUME NEW j \in Addr \X Nat, j[2] <= s.nonce[j[1]] PROVE j[2] <= t.nonce[j[1]]
    BY <1>3, <1>9, <2>1
  <2>2. \A p \in DOMAIN t.posts : p[2] <= t.nonce[p[1]] /\ t.posts[p].author = p[1]
    BY <1>3, <1>4, <1>7, <1>10, <2>1 DEF old
  <2>3. \A k \in DOMAIN t.unbonding : k[2] <= t.nonce[k[1]]
    BY <1>2, <1>14, <2>1 DEF FreshOK, WorldStateOK
  <2> QED BY <2>2, <2>3 DEF FreshOK
<1>16. /\ \A a \in Addr : a # tx.sender => StakeOf(t, tx.post, a) = StakeOf(s, tx.post, a)
       /\ StakeOf(t, tx.post, tx.sender) = StakeOf(s, tx.post, tx.sender) + staked
       /\ PostStakers(t, tx.post) = PostStakers(s, tx.post) \cup {tx.sender}
       /\ isNew <=> tx.sender \notin PostStakers(s, tx.post)
  BY <1>11 DEF StakeOf, PostStakers, isNew, IsNewStaker
<1>17. StakedOn(t, tx.post) = StakedOn(s, tx.post) + staked
  <2> DEFINE f == [a \in Addr |-> StakeOf(s, tx.post, a)]
             g == [a \in Addr |-> StakeOf(t, tx.post, a)]
  <2>1. \A a \in Addr : f[a] \in Int /\ g[a] \in Int
    BY <1>13, <1>12, StakeOfType
  <2>2. \A a \in Addr : a # tx.sender => g[a] = f[a]
    BY <1>16
  <2>3. g[tx.sender] = f[tx.sender] + staked
    BY <1>16
  <2>4. StakedOn(t, tx.post) = SumFunctionOnSet(g, Addr)
        /\ StakedOn(s, tx.post) = SumFunctionOnSet(f, Addr)
    BY DEF StakedOn
  <2> HIDE DEF f, g
  <2>5. SumFunctionOnSet(g, Addr) = SumFunctionOnSet(f, Addr) - f[tx.sender] + g[tx.sender]
    BY <2>1, <2>2, SumUpdate, AddrAssumption
  <2>6. SumFunctionOnSet(f, Addr) \in Int
    BY <2>1, SumType, AddrAssumption
  <2> QED BY <1>5, <2>1, <2>3, <2>4, <2>5, <2>6
<1>18. StakesOK(t)
  <2>1. \A q : q # tx.post =>
          \A a : /\ <<q, a>> \in DOMAIN t.stakes <=> <<q, a>> \in DOMAIN s.stakes
                 /\ StakeOf(t, q, a) = StakeOf(s, q, a)
    BY <1>11 DEF StakeOf
  <2>2. t.posts[tx.post].totalStaked = StakedOn(t, tx.post)
    BY <1>2, <1>4, <1>7, <1>10, <1>17 DEF StakesOK, old
  <2>3. t.posts[tx.post].stakerCount = Cardinality(PostStakers(t, tx.post))
    <3>1. IsFiniteSet(PostStakers(s, tx.post))
      BY AddrAssumption, FS_Subset DEF PostStakers
    <3>2. old.stakerCount = Cardinality(PostStakers(s, tx.post))
      BY <1>2, <1>4 DEF StakesOK, old
    <3>3. isNew => Cardinality(PostStakers(t, tx.post)) = Cardinality(PostStakers(s, tx.post)) + 1
      BY <1>16, <3>1, FS_AddElement
    <3>4. ~isNew => PostStakers(t, tx.post) = PostStakers(s, tx.post)
      BY <1>16
    <3> QED BY <1>7, <1>10, <3>2, <3>3, <3>4
  <2>4. \A a \in Addr : t.postStaked[a]
          = s.postStaked[a] - StakeOf(s, tx.post, a) + StakeOf(t, tx.post, a)
    BY <1>3, <1>5, <1>9, <1>12, <1>16
  <2>5. PostStakers(t, tx.post) \subseteq t.accounts
    <3>1. PostStakers(s, tx.post) \subseteq s.accounts
      BY <1>2 DEF StakesOK, PostStakers
    <3> QED BY <1>4, <1>14, <1>16, <3>1
  <2> QED BY <1>10, <1>13, <1>14, <2>1, <2>2, <2>3, <2>4, <2>5, StakesLocal
<1> QED BY <1>13, <1>15, <1>18 DEF Good, t

\* The positions of closing leave the post.
LEMMA GoodUnstakePost ==
  ASSUME NEW s, Good(s), NEW tx, tx.sender \in Addr, ValidUnstakePost(s, tx)
  PROVE  Good(ApplyUnstakePost(s, tx))
<1> DEFINE t == ApplyUnstakePost(s, tx)
           p == tx.post
           old == s.posts[p]
           closing == Closing(s, tx)
           Back(a) == IF a \in closing /\ a \in s.accounts THEN s.stakes[<<p, a>>] ELSE 0
           f == [a \in Addr |-> StakeOf(s, p, a)]
           total == SumFunctionOnSet(f, closing)
           post == [old EXCEPT !.totalStaked = @ - total,
                               !.stakerCount = @ - Cardinality(closing),
                               !.withdrawn   = @ \/ tx.sender = old.author]
<1>1. /\ Changed(s, t, {"balance", "postStaked", "nonce", "posts", "stakes"})
      /\ t.balance = [a \in Addr |-> s.balance[a] + Back(a)]
      /\ t.postStaked = [a \in Addr |-> s.postStaked[a] - Back(a)]
      /\ t.nonce = Adjust(s.nonce, tx.sender, 1)
      /\ t.posts = MapPut(s.posts, p, post)
      /\ t.stakes = MapDelete(s.stakes, {<<p, a>> : a \in closing})
  BY DEF ApplyUnstakePost, Good, WorldStateOK, Fields, Changed
<1> HIDE DEF t
<1>2. WorldStateOK(s) /\ FreshOK(s) /\ StakesOK(s)
  BY DEF Good
<1>3. /\ s.balance \in [Addr -> Nat] /\ s.nonce \in [Addr -> Nat]
      /\ s.postStaked \in [Addr -> Nat]
      /\ \A q \in DOMAIN s.posts : q \in Addr \X Nat /\ q[2] <= s.nonce[q[1]]
                                   /\ s.posts[q].author = q[1]
  BY <1>2 DEF WorldStateOK, FreshOK, PostIds
<1>4. p \in DOMAIN s.posts /\ <<p, tx.sender>> \in DOMAIN s.stakes
  BY DEF ValidUnstakePost
<1>5. old \in Post
  BY <1>2, <1>4 DEF WorldStateOK
<1>6. closing \subseteq PostStakers(s, p) /\ closing \subseteq Addr
  BY <1>4 DEF Closing, PostStakers
<1>7. PostStakers(s, p) \subseteq s.accounts
  BY <1>2 DEF StakesOK, PostStakers
<1>8. /\ \A q, a : StakeOf(s, q, a) \in Nat
      /\ \A a \in Addr : StakeOf(s, p, a) <= s.postStaked[a]
  BY <1>2, StakeOfType, StakeIsPart
<1>9. \A a \in Addr : Back(a) = IF a \in closing THEN StakeOf(s, p, a) ELSE 0
  BY <1>6, <1>7 DEF StakeOf, PostStakers
<1>10. \A a \in Addr : f[a] \in Nat /\ f[a] \in Int /\ f[a] = StakeOf(s, p, a)
  BY <1>8
<1>11. StakedOn(s, p) = SumFunctionOnSet(f, Addr)
  BY DEF StakedOn
<1> HIDE DEF closing, Back, f
<1>12. /\ IsFiniteSet(closing) /\ IsFiniteSet(PostStakers(s, p)) /\ IsFiniteSet(Addr \ closing)
       /\ IsFiniteSet(Addr)
  BY <1>6, AddrAssumption, FS_Subset DEF PostStakers
<1>13. /\ old.totalStaked = total + SumFunctionOnSet(f, Addr \ closing)
       /\ total \in Nat /\ SumFunctionOnSet(f, Addr \ closing) \in Nat
  <2>1. old.totalStaked = SumFunctionOnSet(f, Addr)
    BY <1>2, <1>4, <1>11 DEF StakesOK
  <2>2. SumFunctionOnSet(f, Addr) = SumFunctionOnSet(f, closing) + SumFunctionOnSet(f, Addr \ closing)
    BY <1>6, <1>10, <1>12, SumSplit
  <2>3. SumFunctionOnSet(f, closing) \in Nat
    BY <1>6, <1>10, <1>12, SumNat
  <2>4. SumFunctionOnSet(f, Addr \ closing) \in Nat
    BY <1>10, <1>12, SumNat
  <2> QED BY <2>1, <2>2, <2>3, <2>4
<1>14. /\ old.stakerCount - Cardinality(closing) \in Nat
       /\ old.stakerCount - Cardinality(closing) = Cardinality(PostStakers(s, p) \ closing)
  <2>1. old.stakerCount = Cardinality(PostStakers(s, p))
    BY <1>2, <1>4 DEF StakesOK
  <2>2. PostStakers(s, p) \cap closing = closing
    BY <1>6
  <2>3. Cardinality(PostStakers(s, p) \ closing)
          = Cardinality(PostStakers(s, p)) - Cardinality(PostStakers(s, p) \cap closing)
        /\ IsFiniteSet(PostStakers(s, p) \ closing)
    BY <1>12, FS_Difference
  <2>4. Cardinality(PostStakers(s, p) \ closing) \in Nat
    BY <2>3, FS_CardinalityType
  <2> QED BY <2>1, <2>2, <2>3, <2>4
<1>15. /\ post \in Post /\ post.author = old.author
       /\ post.totalStaked = SumFunctionOnSet(f, Addr \ closing)
       /\ post.stakerCount = Cardinality(PostStakers(s, p) \ closing)
  <2> DEFINE n == old.totalStaked - total
             c == old.stakerCount - Cardinality(closing)
             w == (old.withdrawn \/ tx.sender = old.author)
  <2>1. n \in Nat /\ n = SumFunctionOnSet(f, Addr \ closing)
    BY <1>13
  <2>2. c \in Nat /\ c = Cardinality(PostStakers(s, p) \ closing)
    BY <1>14
  <2>3. w \in BOOLEAN
    OBVIOUS
  <2>4. post = [old EXCEPT !.totalStaked = n, !.stakerCount = c, !.withdrawn = w]
    OBVIOUS
  <2> DEFINE r == [old EXCEPT !.totalStaked = n, !.stakerCount = c, !.withdrawn = w]
  <2> HIDE DEF n, c, w, old, total
  <2>5. r \in Post /\ r.author = old.author /\ r.totalStaked = n /\ r.stakerCount = c
    BY <1>5, <2>1, <2>2, <2>3 DEF Post
  <2> QED BY <2>1, <2>2, <2>4, <2>5
<1> HIDE DEF post, total, old
<1>16. /\ t.balance \in [Addr -> Nat]
       /\ t.postStaked \in [Addr -> Nat]
       /\ \A a \in Addr : t.postStaked[a] = s.postStaked[a]
                                            - (IF a \in closing THEN StakeOf(s, p, a) ELSE 0)
       /\ t.nonce \in [Addr -> Nat]
       /\ \A a \in Addr : s.nonce[a] <= t.nonce[a]
  <2>1. \A a \in Addr : s.balance[a] + Back(a) \in Nat /\ s.postStaked[a] - Back(a) \in Nat
    BY <1>3, <1>8, <1>9
  <2>2. t.nonce \in [Addr -> Nat] /\ \A a \in Addr : s.nonce[a] <= t.nonce[a]
    BY <1>1, <1>3, NonceStep
  <2>3. \A a \in Addr : t.postStaked[a] = s.postStaked[a] - Back(a)
    BY <1>1
  <2> QED BY <1>1, <1>9, <2>1, <2>2, <2>3
<1>17. /\ DOMAIN t.posts = DOMAIN s.posts \cup {p} /\ DOMAIN t.posts = DOMAIN s.posts
       /\ IsMap(t.posts) /\ t.posts[p] = post
       /\ \A q \in DOMAIN s.posts \ {p} : t.posts[q] = s.posts[q]
  BY <1>1, <1>4 DEF MapPut, IsMap
<1>18. /\ DOMAIN t.stakes = DOMAIN s.stakes \ {<<p, a>> : a \in closing} /\ IsMap(t.stakes)
       /\ \A k \in DOMAIN t.stakes : t.stakes[k] = s.stakes[k]
  BY <1>1 DEF MapDelete, Restrict, IsMap
<1>19. WorldStateOK(t)
  <2>1. \A q \in DOMAIN t.posts : q \in PostIds /\ t.posts[q] \in Post
    BY <1>2, <1>15, <1>17 DEF WorldStateOK
  <2>2. \A k \in DOMAIN t.stakes : k \in PostIds \X Addr /\ t.stakes[k] \in Nat
    BY <1>2, <1>18 DEF WorldStateOK
  <2> QED BY <1>1, <1>2, <1>16, <1>17, <1>18, <2>1, <2>2 DEF WorldStateOK, Changed, Fields
<1>20. t.unbonding = s.unbonding /\ t.accounts = s.accounts
  BY <1>1 DEF Changed, Fields
<1>21. FreshOK(t)
  <2>1. ASSUME NEW j \in Addr \X Nat, j[2] <= s.nonce[j[1]] PROVE j[2] <= t.nonce[j[1]]
    BY <1>3, <1>16, <2>1
  <2>2. \A q \in DOMAIN t.posts : q[2] <= t.nonce[q[1]] /\ t.posts[q].author = q[1]
    BY <1>3, <1>4, <1>15, <1>17, <2>1 DEF old
  <2>3. \A k \in DOMAIN t.unbonding : k[2] <= t.nonce[k[1]]
    BY <1>2, <1>20, <2>1 DEF FreshOK, WorldStateOK
  <2> QED BY <2>2, <2>3 DEF FreshOK
<1>22. /\ \A a \in Addr : StakeOf(t, p, a) = IF a \in closing THEN 0 ELSE StakeOf(s, p, a)
       /\ PostStakers(t, p) = PostStakers(s, p) \ closing
  BY <1>18 DEF StakeOf, PostStakers
<1>23. StakedOn(t, p) = SumFunctionOnSet(f, Addr \ closing)
  <2> DEFINE g == [a \in Addr |-> StakeOf(t, p, a)]
  <2>1. /\ \A a \in Addr : g[a] \in Int
        /\ \A a \in closing : g[a] = 0
        /\ \A a \in Addr \ closing : f[a] \in Int /\ g[a] = f[a]
    BY <1>6, <1>8, <1>10, <1>22
  <2>2. StakedOn(t, p) = SumFunctionOnSet(g, Addr)
    BY DEF StakedOn
  <2> HIDE DEF g
  <2>3. SumFunctionOnSet(g, Addr) = SumFunctionOnSet(g, closing) + SumFunctionOnSet(g, Addr \ closing)
    BY <1>6, <1>12, <2>1, SumSplit
  <2>4. SumFunctionOnSet(g, closing) = 0
    BY <1>12, <2>1, SumZero
  <2>5. SumFunctionOnSet(g, Addr \ closing) = SumFunctionOnSet(f, Addr \ closing)
    BY <1>12, <2>1, SumEqual
  <2> QED BY <1>13, <2>2, <2>3, <2>4, <2>5
<1>24. StakesOK(t)
  <2>1. \A q : q # p =>
          \A a : /\ <<q, a>> \in DOMAIN t.stakes <=> <<q, a>> \in DOMAIN s.stakes
                 /\ StakeOf(t, q, a) = StakeOf(s, q, a)
    BY <1>18 DEF StakeOf
  <2>2. t.posts[p].totalStaked = StakedOn(t, p)
    BY <1>15, <1>17, <1>23
  <2>3. t.posts[p].stakerCount = Cardinality(PostStakers(t, p))
    BY <1>15, <1>17, <1>22
  <2>4. \A a \in Addr : t.postStaked[a] = s.postStaked[a] - StakeOf(s, p, a) + StakeOf(t, p, a)
    BY <1>3, <1>8, <1>16, <1>22
  <2>5. PostStakers(t, p) \subseteq t.accounts
    BY <1>7, <1>20, <1>22
  <2> HIDE DEF p
  <2> QED BY <1>17, <1>19, <1>20, <2>1, <2>2, <2>3, <2>4, <2>5, StakesLocal
<1> QED BY <1>19, <1>21, <1>24 DEF Good, t

\* A sum of unbonding entries is an amount.
LEMMA UnbondingSumType ==
  ASSUME NEW s, WorldStateOK(s), NEW K \in SUBSET DOMAIN s.unbonding
  PROVE  UnbondingSum(s.unbonding, K) \in Nat
<1> DEFINE f == [k \in DOMAIN s.unbonding |-> s.unbonding[k].amount]
<1>1. \A k \in K : f[k] \in Nat
  BY DEF WorldStateOK
<1>2. IsFiniteSet(K)
  BY FS_Subset DEF WorldStateOK
<1> HIDE DEF f
<1>3. SumFunctionOnSet(f, K) \in Nat
  BY <1>1, <1>2, SumNat
<1> QED BY <1>3 DEF UnbondingSum, f

\* The release of matured entries keeps the invariant.
LEMMA GoodReleaseMatured ==
  ASSUME NEW s, Good(s), NEW h \in Nat
  PROVE  Good(ReleaseMatured(s, h))
<1> DEFINE t == ReleaseMatured(s, h)
           done == Matured(s.unbonding, h)
           paid(a) == UnbondingSum(s.unbonding, done \cap UnbondingOf(s.unbonding, a))
<1>1. /\ Changed(s, t, {"accounts", "balance", "unbonding"})
      /\ t.accounts = s.accounts \cup {k[1] : k \in done}
      /\ t.balance = [a \in Addr |-> s.balance[a] + paid(a)]
      /\ t.unbonding = MapDelete(s.unbonding, done)
  BY DEF ReleaseMatured, Good, WorldStateOK, Fields, Changed
<1> HIDE DEF t
<1>2. WorldStateOK(s) /\ FreshOK(s) /\ StakesOK(s) /\ done \subseteq DOMAIN s.unbonding
  BY DEF Good, Matured
<1>3. \A a \in Addr : paid(a) \in Nat
  BY <1>2, UnbondingSumType
<1> HIDE DEF done, paid
<1>4. t.balance \in [Addr -> Nat]
  BY <1>1, <1>2, <1>3 DEF WorldStateOK
<1>5. t.accounts \subseteq Addr /\ s.accounts \subseteq t.accounts
  <2>1. \A k \in done : k[1] \in Addr
    BY <1>2 DEF WorldStateOK
  <2> QED BY <1>1, <1>2, <2>1 DEF WorldStateOK
<1>6. /\ DOMAIN t.unbonding \subseteq DOMAIN s.unbonding /\ IsMap(t.unbonding)
      /\ \A k \in DOMAIN t.unbonding : t.unbonding[k] = s.unbonding[k]
  BY <1>1 DEF MapDelete, Restrict, IsMap
<1>7. IsFiniteSet(DOMAIN t.unbonding)
  BY <1>2, <1>6, FS_Subset DEF WorldStateOK
<1>8. WorldStateOK(t)
  BY <1>1, <1>2, <1>4, <1>5, <1>6, <1>7 DEF WorldStateOK, Changed, Fields
<1>9. t.posts = s.posts /\ t.stakes = s.stakes /\ t.postStaked = s.postStaked /\ t.nonce = s.nonce
  BY <1>1 DEF Changed, Fields
<1>10. t.nonce \in [Addr -> Nat] /\ \A a \in Addr : s.nonce[a] <= t.nonce[a]
  BY <1>2, <1>9 DEF WorldStateOK
<1>11. FreshOK(t)
  BY <1>2, <1>6, <1>9, <1>10, FreshFrame
<1>12. StakesOK(t)
  BY <1>2, <1>5, <1>9, StakesFrame
<1> QED BY <1>8, <1>11, <1>12 DEF Good, t

\* A slash is an amount.
LEMMA SlashAmountType ==
  ASSUME NEW s, WorldStateOK(s), NEW a \in Addr
  PROVE  SlashAmount(s, a) \in Nat
<1> DEFINE risk == s.staked[a] + UnbondingBalanceFor(s.unbonding, a)
<1>1. risk \in Nat
  <2>1. UnbondingOf(s.unbonding, a) \in SUBSET DOMAIN s.unbonding
    BY DEF UnbondingOf
  <2>2. UnbondingBalanceFor(s.unbonding, a) \in Nat
    BY <2>1, UnbondingSumType DEF UnbondingBalanceFor
  <2> QED BY <2>2 DEF WorldStateOK
<1>2. Percent(risk, SlashFraction) \in Nat
  BY <1>1, PercentType, ParamAssumption
<1> QED BY <1>2 DEF SlashAmount, Percent

\* What is left of the entries after a slash is typed.
LEMMA SlashUnbondingType ==
  ASSUME NEW s, WorldStateOK(s), NEW a \in Addr, NEW n \in Nat, NEW q,
         q = SlashUnbonding(s.unbonding, a, n)
  PROVE  /\ IsMap(q) /\ DOMAIN q \subseteq DOMAIN s.unbonding
         /\ \A k \in DOMAIN q : q[k] \in [amount: Nat, release: Nat]
<1> DEFINE u == s.unbonding
           left(k) == u[k].amount - SlashTaken(u, a, n, k)
<1>1. q = [k \in {j \in DOMAIN u : left(j) > 0} |-> [u[k] EXCEPT !.amount = left(k)]]
  BY DEF SlashUnbonding
<1>2. ASSUME NEW k \in DOMAIN u PROVE SlashTaken(u, a, n, k) \in Int /\ left(k) \in Int
  <2> DEFINE older == UnbondingSum(u, {j \in UnbondingOf(u, a) : j[2] < k[2]})
  <2>1. older \in Nat
    BY UnbondingSumType DEF UnbondingOf
  <2>2. u[k].amount \in Nat
    BY DEF WorldStateOK
  <2>3. SlashTaken(u, a, n, k)
          = IF k[1] # a \/ n <= older THEN 0 ELSE Least(u[k].amount, n - older)
    BY DEF SlashTaken
  <2> HIDE DEF older, u
  <2> QED BY <2>1, <2>2, <2>3 DEF Least
<1>3. ASSUME NEW k \in DOMAIN u, left(k) > 0
      PROVE  [u[k] EXCEPT !.amount = left(k)] \in [amount: Nat, release: Nat]
  <2>1. left(k) \in Nat
    BY <1>2, <1>3
  <2> HIDE DEF left
  <2> QED BY <2>1 DEF WorldStateOK
<1> HIDE DEF left, u
<1>4. DOMAIN q = {j \in DOMAIN u : left(j) > 0} /\ IsMap(q)
  BY <1>1 DEF IsMap
<1>5. \A k \in DOMAIN q : q[k] = [u[k] EXCEPT !.amount = left(k)]
  BY <1>1
<1>6. \A k \in DOMAIN q : q[k] \in [amount: Nat, release: Nat]
  BY <1>3, <1>4, <1>5
<1> QED BY <1>4, <1>6 DEF u

\* A slash keeps the invariant.
LEMMA GoodSlash ==
  ASSUME NEW s, Good(s), NEW a \in Addr, NEW eh \in Nat
  PROVE  Good(ApplySlashEvidence(s, a, eh))
<1> DEFINE t == ApplySlashEvidence(s, a, eh)
           amount == SlashAmount(s, a)
           fromStake == Least(amount, s.staked[a])
<1>1. CASE ~ Slashable(s, a, eh)
  BY <1>1 DEF ApplySlashEvidence
<1>2. CASE Slashable(s, a, eh)
  <2>1. /\ Changed(s, t, {"staked", "unbonding", "slashed", "burned"})
        /\ t.staked = Adjust(s.staked, a, -fromStake)
        /\ t.unbonding = IF amount > fromStake
                         THEN SlashUnbonding(s.unbonding, a, amount - fromStake)
                         ELSE s.unbonding
        /\ t.slashed = s.slashed \cup {<<a, eh>>}
        /\ t.burned = s.burned + amount
    BY <1>2 DEF ApplySlashEvidence, Good, WorldStateOK, Fields, Changed
  <2> HIDE DEF t
  <2>2. WorldStateOK(s) /\ FreshOK(s) /\ StakesOK(s) /\ s.staked \in [Addr -> Nat]
        /\ s.burned \in Nat
    BY DEF Good, WorldStateOK
  <2>3. amount \in Nat
    BY <2>2, SlashAmountType
  <2> HIDE DEF amount
  <2>4. fromStake \in Nat /\ fromStake <= amount /\ fromStake <= s.staked[a]
        /\ -fromStake \in Int /\ s.staked[a] + (-fromStake) >= 0
    BY <2>2, <2>3 DEF Least
  <2> HIDE DEF fromStake
  <2>5. t.staked \in [Addr -> Nat]
    BY <2>1, <2>2, <2>4, AdjustType
  <2>6. /\ IsMap(t.unbonding) /\ DOMAIN t.unbonding \subseteq DOMAIN s.unbonding
        /\ \A k \in DOMAIN t.unbonding : t.unbonding[k] \in [amount: Nat, release: Nat]
    <3>1. CASE amount > fromStake
      <4>1. amount - fromStake \in Nat
        BY <2>3, <2>4, <3>1
      <4>2. t.unbonding = SlashUnbonding(s.unbonding, a, amount - fromStake)
        BY <2>1, <3>1
      <4> QED BY <2>2, <4>1, <4>2, SlashUnbondingType
    <3>2. CASE ~(amount > fromStake)
      BY <2>1, <2>2, <3>2 DEF WorldStateOK
    <3> QED BY <3>1, <3>2
  <2>7. IsFiniteSet(DOMAIN t.unbonding)
        /\ \A k \in DOMAIN t.unbonding : k \in Addr \X Nat
    BY <2>2, <2>6, FS_Subset DEF WorldStateOK
  <2>8. t.burned \in Nat /\ t.slashed \subseteq Addr \X Nat
    BY <2>1, <2>2, <2>3 DEF WorldStateOK
  <2>9. WorldStateOK(t)
    BY <2>1, <2>2, <2>5, <2>6, <2>7, <2>8 DEF WorldStateOK, Changed, Fields
  <2>10. t.posts = s.posts /\ t.stakes = s.stakes /\ t.postStaked = s.postStaked
         /\ t.nonce = s.nonce /\ t.accounts = s.accounts
    BY <2>1 DEF Changed, Fields
  <2>11. t.nonce \in [Addr -> Nat] /\ \A b \in Addr : s.nonce[b] <= t.nonce[b]
    BY <2>2, <2>10 DEF WorldStateOK
  <2>12. FreshOK(t)
    BY <2>2, <2>6, <2>10, <2>11, FreshFrame
  <2>13. StakesOK(t)
    BY <2>2, <2>10, StakesFrame
  <2> QED BY <2>9, <2>12, <2>13 DEF Good, t
<1> QED BY <1>1, <1>2

\* So does the end of a block.
LEMMA GoodFinishBlock ==
  ASSUME NEW s, Good(s), NEW proposer \in Addr, NEW h \in Nat
  PROVE  Good(FinishBlock(s, proposer, h))
<1> DEFINE t == FinishBlock(s, proposer, h)
           r == RewardProposer(s, proposer)
           e == EpochTransition(r, h)
<1>0. WorldStateOK(s) /\ FreshOK(s) /\ StakesOK(s) /\ s.nonce \in [Addr -> Nat]
  BY DEF Good, WorldStateOK
<1>1. /\ Changed(s, r, {"accounts", "balance", "issued"})
      /\ r.accounts \subseteq Addr /\ s.accounts \subseteq r.accounts
      /\ r.balance \in [Addr -> Nat] /\ r.issued \in Nat
  <2>1. CASE BlockReward = 0
    BY <2>1, <1>0 DEF RewardProposer, WorldStateOK, Changed
  <2>2. CASE BlockReward # 0
    <3>1. /\ Changed(s, r, {"accounts", "balance", "issued"})
          /\ r.accounts = s.accounts \cup {proposer}
          /\ r.balance = Adjust(s.balance, proposer, BlockReward)
          /\ r.issued = s.issued + BlockReward
      BY <2>2, <1>0 DEF RewardProposer, WorldStateOK, Changed, Fields
    <3> HIDE DEF r
    <3>2. s.balance \in [Addr -> Nat] /\ s.issued \in Nat /\ s.accounts \subseteq Addr
          /\ BlockReward \in Nat
      BY <1>0, ParamAssumption DEF WorldStateOK
    <3>3. Adjust(s.balance, proposer, BlockReward) \in [Addr -> Nat]
      <4>1. s.balance[proposer] + BlockReward >= 0 /\ BlockReward \in Int
        BY <3>2
      <4> QED BY <3>2, <4>1, AdjustType
    <3> QED BY <3>1, <3>2, <3>3
  <2> QED BY <2>1, <2>2
<1> HIDE DEF r
<1>2. /\ Changed(r, e, {"active", "epoch"})
      /\ IsMap(e.active) /\ e.epoch \in Nat
      /\ \A a \in DOMAIN e.active : a \in Addr /\ e.active[a] \in [power: Nat, key: BOOLEAN]
  <2>1. /\ r.active = s.active /\ r.epoch = s.epoch /\ r.staked = s.staked
        /\ DOMAIN r = Fields
    BY <1>1 DEF Changed, Fields
  <2>2. CASE EpochLength > 0 /\ h % EpochLength = 0
    <3>1. /\ Changed(r, e, {"active", "epoch"})
          /\ e.active = ComputeActiveValidatorSet(r)
          /\ e.epoch = h \div EpochLength
      BY <2>1, <2>2 DEF EpochTransition, Changed, Fields
    <3> HIDE DEF e
    <3>2. e.epoch \in Nat
      BY <3>1, <2>2, ParamAssumption
    <3>3. /\ IsMap(e.active)
          /\ DOMAIN e.active = {b \in r.accounts : r.staked[b] >= MinStake}
          /\ \A a \in DOMAIN e.active :
               e.active[a] = [power |-> r.staked[a],
                              key   |-> a \in DOMAIN r.active /\ r.active[a].key]
      BY <3>1 DEF ComputeActiveValidatorSet, IsMap
    <3>4. ASSUME NEW a \in DOMAIN e.active
          PROVE  a \in Addr /\ e.active[a] \in [power: Nat, key: BOOLEAN]
      <4>1. a \in Addr
        BY <1>1, <3>3
      <4>2. r.staked[a] \in Nat
        BY <1>0, <2>1, <4>1 DEF WorldStateOK
      <4> DEFINE known == (a \in DOMAIN r.active /\ r.active[a].key)
      <4>3. known \in BOOLEAN
        OBVIOUS
      <4>4. e.active[a] = [power |-> r.staked[a], key |-> known]
        BY <3>3
      <4> HIDE DEF known
      <4> QED BY <4>1, <4>2, <4>3, <4>4
    <3> QED BY <3>1, <3>2, <3>3, <3>4
  <2>3. CASE ~(EpochLength > 0 /\ h % EpochLength = 0)
    BY <2>1, <2>3, <1>0 DEF EpochTransition, Changed, WorldStateOK
  <2> QED BY <2>2, <2>3
<1> HIDE DEF e
<1>3. Changed(e, t, {"height"}) /\ t.height = h
  <2>1. t = [e EXCEPT !.height = h]
    BY DEF FinishBlock, e, r
  <2>2. DOMAIN e = Fields
    BY <1>2 DEF Changed
  <2> HIDE DEF t
  <2> QED BY <2>1, <2>2 DEF Changed, Fields
<1> HIDE DEF t
<1>4. /\ Changed(s, t, {"accounts", "balance", "issued", "active", "epoch", "height"})
      /\ t.accounts = r.accounts /\ t.balance = r.balance /\ t.issued = r.issued
      /\ t.active = e.active /\ t.epoch = e.epoch
  BY <1>1, <1>2, <1>3 DEF Changed, Fields
<1>5. WorldStateOK(t)
  BY <1>0, <1>1, <1>2, <1>3, <1>4 DEF WorldStateOK, Changed, Fields
<1>6. t.posts = s.posts /\ t.stakes = s.stakes /\ t.postStaked = s.postStaked
      /\ t.unbonding = s.unbonding /\ t.nonce = s.nonce /\ s.accounts \subseteq t.accounts
  BY <1>1, <1>4 DEF Changed, Fields
<1>7. FreshOK(t)
  <2>1. \A a \in Addr : s.nonce[a] <= t.nonce[a]
    BY <1>0, <1>6
  <2> QED BY <1>0, <1>6, <2>1, FreshFrame
<1>8. StakesOK(t)
  BY <1>0, <1>6, StakesFrame
<1> QED BY <1>5, <1>7, <1>8 DEF Good, t

\* Genesis satisfies the invariant.
LEMMA GoodInitial == Good(InitializeState)
<1> DEFINE s == InitializeState
<1>1. /\ DOMAIN s = Fields
      /\ s.accounts = DOMAIN GenesisBalance
      /\ s.balance = [a \in Addr |-> InitialBalance(a) - InitialStake(a)]
      /\ s.staked = [a \in Addr |-> InitialStake(a)]
      /\ s.postStaked = [a \in Addr |-> 0]
      /\ s.nonce = [a \in Addr |-> 0]
      /\ s.name = [a \in Addr |-> None]
      /\ s.nameIndex = [n \in Names |-> None]
      /\ DOMAIN s.posts = {} /\ IsMap(s.posts)
      /\ DOMAIN s.stakes = {} /\ IsMap(s.stakes)
      /\ DOMAIN s.unbonding = {} /\ IsMap(s.unbonding)
      /\ s.active = [a \in DOMAIN GenesisStake |->
                       [power |-> IF GenesisStake[a] = 0 THEN 1 ELSE GenesisStake[a],
                        key   |-> TRUE]]
      /\ s.slashed = {} /\ s.burned = 0 /\ s.issued = 0 /\ s.height = 0 /\ s.epoch = 0
  BY DEF InitializeState, Fields, IsMap
<1> HIDE DEF s
<1>2. \A a \in Addr : InitialStake(a) \in Nat /\ InitialBalance(a) - InitialStake(a) \in Nat
  BY GenesisAssumption DEF InitialBalance, InitialStake
<1>3. s.balance \in [Addr -> Nat] /\ s.staked \in [Addr -> Nat]
  BY <1>1, <1>2
<1>4. /\ IsMap(s.active)
      /\ \A a \in DOMAIN s.active : a \in Addr /\ s.active[a] \in [power: Nat, key: BOOLEAN]
  BY <1>1, GenesisAssumption DEF IsMap
<1>5. IsFiniteSet(DOMAIN s.posts) /\ IsFiniteSet(DOMAIN s.unbonding)
  BY <1>1, FS_EmptySet
<1>6. WorldStateOK(s)
  BY <1>1, <1>3, <1>4, <1>5, GenesisAssumption DEF WorldStateOK
<1>7. FreshOK(s)
  BY <1>1 DEF FreshOK
<1>8. StakesOK(s)
  <2>1. \A a \in Addr : s.postStaked[a] = StakedBy(s, a)
    BY <1>1, SumEmpty DEF StakedBy
  <2> QED BY <1>1, <2>1 DEF StakesOK
<1> QED BY <1>6, <1>7, <1>8 DEF Good, s

-------------------------------------------------------------------------------
(* The inductive invariant of the specification. *)

IInv ==
  /\ Good(ws)
  /\ Good(wk)
  /\ phase \in {"idle", "evidence", "txs"}

\* Proposers are accounts.
LEMMA ProposerType == ASSUME Good(ws) PROVE Proposers \subseteq Addr
BY GenesisAssumption DEF Proposers, Powers, Good, WorldStateOK

\* The height of a block is a natural number.
LEMMA HeightType == ASSUME Good(ws) PROVE H \in Nat
BY DEF H, Good, WorldStateOK

\* Every step keeps both the committed state and the clone consistent.
LEMMA Preserved == IInv /\ [Next]_vars => IInv'
<1> SUFFICES ASSUME IInv, [Next]_vars PROVE IInv'
  OBVIOUS
<1>0. Good(ws) /\ Good(wk) /\ phase \in {"idle", "evidence", "txs"}
  BY DEF IInv
<1> USE DEF IInv
<1>1. CASE BeginBlock
  <2>1. ws.height + 1 \in Nat
    BY <1>0 DEF Good, WorldStateOK
  <2> QED BY <1>0, <1>1, <2>1, GoodReleaseMatured DEF BeginBlock
<1>2. ASSUME NEW a \in Addr, NEW eh \in EvidenceHeights, SlashEvidence(a, eh) PROVE IInv'
  BY <1>0, <1>2, GoodSlash, BoundAssumption DEF SlashEvidence
<1>3. ASSUME NEW a \in Addr, NEW r \in Addr, NEW n \in Nonces, NEW amt \in TransferAmounts,
             Transfer(a, n, r, amt)
      PROVE  IInv'
  <2> DEFINE tx == [sender |-> a, nonce |-> n, recipient |-> r, amount |-> amt]
  <2>1. ValidTransfer(wk, tx) /\ wk' = ApplyTransfer(wk, tx) /\ phase' = "txs" /\ ws' = ws
    BY <1>3 DEF Transfer, Execute
  <2>2. tx.sender \in Addr /\ tx.recipient \in Addr /\ tx.amount \in Nat
    BY BoundAssumption
  <2> HIDE DEF tx
  <2> QED BY <1>0, <2>1, <2>2, GoodTransfer
<1>4. ASSUME NEW a \in Addr, NEW n \in Nonces, NEW p \in DOMAIN wk.posts \cup {None},
             NEW amt \in CommitAmounts, CreatePost(a, n, p, amt)
      PROVE  IInv'
  <2> DEFINE tx == [sender |-> a, nonce |-> n, post |-> p, amount |-> amt]
  <2>1. ValidCreatePost(wk, tx) /\ wk' = ApplyCreatePost(wk, tx) /\ phase' = "txs" /\ ws' = ws
    BY <1>4 DEF CreatePost, Execute
  <2>2. tx.sender \in Addr /\ tx.post \in DOMAIN wk.posts \cup {None} /\ tx.amount \in Nat
    BY BoundAssumption
  <2> HIDE DEF tx
  <2> QED BY <1>0, <2>1, <2>2, GoodCreatePost
<1>5. ASSUME NEW a \in Addr, NEW n \in Nonces, NEW p \in DOMAIN wk.posts,
             NEW amt \in CommitAmounts, BoostPost(a, n, p, amt)
      PROVE  IInv'
  <2> DEFINE tx == [sender |-> a, nonce |-> n, post |-> p, amount |-> amt]
  <2>1. ValidBoostPost(wk, tx) /\ wk' = ApplyBoostPost(wk, tx) /\ phase' = "txs" /\ ws' = ws
    BY <1>5 DEF BoostPost, Execute
  <2>2. tx.sender \in Addr /\ tx.amount \in Nat
    BY BoundAssumption
  <2> HIDE DEF tx
  <2> QED BY <1>0, <2>1, <2>2, GoodBoostPost
<1>6. ASSUME NEW a \in Addr, NEW n \in Nonces, NEW p \in DOMAIN wk.posts, UnstakePost(a, n, p)
      PROVE  IInv'
  <2> DEFINE tx == [sender |-> a, nonce |-> n, post |-> p]
  <2>1. ValidUnstakePost(wk, tx) /\ wk' = ApplyUnstakePost(wk, tx) /\ phase' = "txs" /\ ws' = ws
    BY <1>6 DEF UnstakePost, Execute
  <2>2. tx.sender \in Addr
    OBVIOUS
  <2> HIDE DEF tx
  <2> QED BY <1>0, <2>1, <2>2, GoodUnstakePost
<1>7. ASSUME NEW a \in Addr, NEW n \in Nonces, NEW name \in Names, RegisterName(a, n, name)
      PROVE  IInv'
  <2> DEFINE tx == [sender |-> a, nonce |-> n, name |-> name, amount |-> 0]
  <2>1. wk' = ApplyRegisterName(wk, tx) /\ phase' = "txs" /\ ws' = ws
    BY <1>7 DEF RegisterName, Execute
  <2>2. tx.sender \in Addr /\ tx.name \in Names
    OBVIOUS
  <2> HIDE DEF tx
  <2> QED BY <1>0, <2>1, <2>2, GoodRegisterName
<1>8. ASSUME NEW a \in Addr, NEW n \in Nonces, NEW amt \in StakeAmounts, Stake(a, n, amt)
      PROVE  IInv'
  <2> DEFINE tx == [sender |-> a, nonce |-> n, amount |-> amt]
  <2>1. ValidStake(wk, tx) /\ wk' = ApplyStake(wk, tx) /\ phase' = "txs" /\ ws' = ws
    BY <1>8 DEF Stake, Execute
  <2>2. tx.sender \in Addr /\ tx.amount \in Nat
    BY BoundAssumption
  <2> HIDE DEF tx
  <2> QED BY <1>0, <2>1, <2>2, GoodStake
<1>9. ASSUME NEW a \in Addr, NEW n \in Nonces, NEW amt \in StakeAmounts, Unstake(a, n, amt)
      PROVE  IInv'
  <2> DEFINE tx == [sender |-> a, nonce |-> n, amount |-> amt]
  <2>1. ValidUnstake(wk, tx) /\ wk' = ApplyUnstake(wk, tx, H) /\ phase' = "txs" /\ ws' = ws
    BY <1>9 DEF Unstake, Execute
  <2>2. tx.sender \in Addr /\ tx.amount \in Nat /\ H \in Nat
    BY <1>0, BoundAssumption, HeightType
  <2> HIDE DEF tx
  <2> QED BY <1>0, <2>1, <2>2, GoodUnstake
<1>10. CASE RejectBlock
  BY <1>0, <1>10 DEF RejectBlock
<1>11. ASSUME NEW p \in Proposers, CommitBlock(p) PROVE IInv'
  <2>1. p \in Addr /\ H \in Nat
    BY <1>0, ProposerType, HeightType
  <2> QED BY <1>0, <1>11, <2>1, GoodFinishBlock DEF CommitBlock
<1>12. CASE Terminating
  BY <1>0, <1>12 DEF Terminating, vars
<1>13. CASE UNCHANGED vars
  BY <1>0, <1>13 DEF vars
<1> QED BY <1>1, <1>2, <1>3, <1>4, <1>5, <1>6, <1>7, <1>8, <1>9, <1>10, <1>11, <1>12, <1>13
        DEF Next

\* The invariant holds in every state.
LEMMA Inductive == Spec => []IInv
<1>1. Init => IInv
  BY GoodInitial DEF Init, IInv
<1> QED BY <1>1, Preserved, PTL DEF Spec

-------------------------------------------------------------------------------
\* Whatever blocks are offered, no amount or counter of executor.go wraps
\* below zero and every field keeps its type.
THEOREM Typing == Spec => []TypeOK
<1>1. IInv => TypeOK
  BY DEF IInv, Good, TypeOK
<1> QED BY <1>1, Inductive, PTL

\* PostStakeBalance, TotalStaked, StakerCount and the stake positions agree
\* after every transaction, also when an author's withdrawal closes the
\* positions of others.
THEOREM StakesAgreement == Spec => []StakesAgree
<1>1. IInv => StakesAgree
  BY DEF IInv, Good, StakesAgree
<1> QED BY <1>1, Inductive, PTL
===============================================================================
