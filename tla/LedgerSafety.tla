----------------------------- MODULE LedgerSafety -----------------------------
(***************************************************************************)
(* What the consistency of a world state (LedgerProofs) is good for: the   *)
(* invariants and action properties of Ledger, for every set of accounts,  *)
(* every parameter of the genesis file and every bound.                    *)
(***************************************************************************)
EXTENDS LedgerProofs

-------------------------------------------------------------------------------
(* What each operation does to the fields of a world state. *)

\* What a transfer changes
LEMMA TransferEffect ==
  ASSUME NEW s, Good(s), NEW tx
  PROVE  LET t == ApplyTransfer(s, tx)
         IN  /\ Changed(s, t, {"accounts", "balance", "nonce"})
             /\ t.accounts = s.accounts \cup {tx.recipient}
             /\ t.balance = Adjust(Adjust(s.balance, tx.sender, -tx.amount),
                                   tx.recipient, tx.amount)
BY DEF ApplyTransfer, Good, WorldStateOK, Fields, Changed

\* The id and the fee of the post that tx creates.
NewId(s, tx) == <<tx.sender, s.nonce[tx.sender] + 1>>
FeeOf(tx) == Percent(tx.amount, PostFee)

\* What a new post changes
LEMMA CreatePostEffect ==
  ASSUME NEW s, Good(s), NEW tx
  PROVE  LET t == ApplyCreatePost(s, tx)
             id == NewId(s, tx)
         IN  /\ Changed(s, t, {"balance", "postStaked", "nonce", "posts", "stakes", "burned"})
             /\ t.balance = Adjust(s.balance, tx.sender, -tx.amount)
             /\ t.postStaked = Adjust(s.postStaked, tx.sender, tx.amount - FeeOf(tx))
             /\ DOMAIN t.posts = DOMAIN s.posts \cup {id}
             /\ t.posts[id] = [author |-> tx.sender, parent |-> tx.post,
                               totalStaked |-> tx.amount - FeeOf(tx),
                               totalBurned |-> FeeOf(tx),
                               stakerCount |-> 1, withdrawn |-> FALSE]
             /\ \A p \in DOMAIN s.posts : p # id => t.posts[p] = s.posts[p]
             /\ t.stakes = MapPut(s.stakes, <<id, tx.sender>>, tx.amount - FeeOf(tx))
             /\ t.burned = s.burned + FeeOf(tx)
BY DEF ApplyCreatePost, NewId, FeeOf, MapPut, Good, WorldStateOK, Fields, Changed

\* What a boost changes
LEMMA BoostPostEffect ==
  ASSUME NEW s, Good(s), NEW tx, tx.post \in DOMAIN s.posts
  PROVE  LET t == ApplyBoostPost(s, tx)
             p == s.posts[tx.post]
         IN  /\ Changed(s, t, {"balance", "postStaked", "nonce", "posts", "stakes", "burned"})
             /\ t.postStaked = Adjust(s.postStaked, tx.sender, BoostStaked(tx.amount))
             /\ DOMAIN t.posts = DOMAIN s.posts
             /\ t.posts[tx.post].author = p.author
             /\ t.posts[tx.post].parent = p.parent
             /\ t.posts[tx.post].withdrawn = p.withdrawn
             /\ t.posts[tx.post].totalStaked = p.totalStaked + BoostStaked(tx.amount)
             /\ t.posts[tx.post].totalBurned = p.totalBurned + Percent(tx.amount, BurnPct)
             /\ \A q \in DOMAIN s.posts : q # tx.post => t.posts[q] = s.posts[q]
             /\ t.stakes = MapPut(s.stakes, <<tx.post, tx.sender>>,
                                  StakeOf(s, tx.post, tx.sender) + BoostStaked(tx.amount))
             /\ t.burned = s.burned + Percent(tx.amount, BurnPct)
<1> DEFINE p == s.posts[tx.post]
           q == [p EXCEPT !.totalStaked = @ + BoostStaked(tx.amount),
                          !.totalBurned = @ + Percent(tx.amount, BurnPct),
                          !.stakerCount = IF IsNewStaker(s, tx) THEN @ + 1 ELSE @]
           t == ApplyBoostPost(s, tx)
<1>1. /\ Changed(s, t, {"balance", "postStaked", "nonce", "posts", "stakes", "burned"})
      /\ t.postStaked = Adjust(s.postStaked, tx.sender, BoostStaked(tx.amount))
      /\ t.posts = MapPut(s.posts, tx.post, q)
      /\ t.stakes = MapPut(s.stakes, <<tx.post, tx.sender>>,
                           StakeOf(s, tx.post, tx.sender) + BoostStaked(tx.amount))
      /\ t.burned = s.burned + Percent(tx.amount, BurnPct)
  BY DEF ApplyBoostPost, Good, WorldStateOK, Fields, Changed
<1>2. p \in Post
  BY DEF Good, WorldStateOK
<1>3. /\ q.author = p.author /\ q.parent = p.parent /\ q.withdrawn = p.withdrawn
      /\ q.totalStaked = p.totalStaked + BoostStaked(tx.amount)
      /\ q.totalBurned = p.totalBurned + Percent(tx.amount, BurnPct)
  BY <1>2 DEF Post
<1> HIDE DEF q, t
<1>4. /\ DOMAIN t.posts = DOMAIN s.posts /\ t.posts[tx.post] = q
      /\ \A r \in DOMAIN s.posts : r # tx.post => t.posts[r] = s.posts[r]
  BY <1>1 DEF MapPut
<1> QED BY <1>1, <1>3, <1>4 DEF t

\* What a boost does to the posts
LEMMA BoostedPosts ==
  ASSUME NEW s, Good(s), NEW tx, tx.post \in DOMAIN s.posts, NEW t, t = ApplyBoostPost(s, tx)
  PROVE  /\ DOMAIN t.posts = DOMAIN s.posts
         /\ t.posts[tx.post].author = s.posts[tx.post].author
         /\ t.posts[tx.post].parent = s.posts[tx.post].parent
         /\ t.posts[tx.post].totalBurned
              = s.posts[tx.post].totalBurned + Percent(tx.amount, BurnPct)
         /\ \A q \in DOMAIN s.posts : q # tx.post => t.posts[q] = s.posts[q]
<1>1. /\ DOMAIN t.posts = DOMAIN s.posts
      /\ \A q \in DOMAIN s.posts : q # tx.post => t.posts[q] = s.posts[q]
  BY BoostPostEffect
<1>2. t.posts[tx.post].author = s.posts[tx.post].author
  BY BoostPostEffect, ZenonT(60)
<1>3. t.posts[tx.post].parent = s.posts[tx.post].parent
  BY BoostPostEffect, ZenonT(60)
<1>4. t.posts[tx.post].totalBurned
        = s.posts[tx.post].totalBurned + Percent(tx.amount, BurnPct)
  BY BoostPostEffect
<1> QED BY <1>1, <1>2, <1>3, <1>4

\* What an unstake from a post changes
LEMMA UnstakePostEffect ==
  ASSUME NEW s, Good(s), NEW tx, tx.post \in DOMAIN s.posts
  PROVE  LET t == ApplyUnstakePost(s, tx)
             p == s.posts[tx.post]
         IN  /\ Changed(s, t, {"balance", "postStaked", "nonce", "posts", "stakes"})
             /\ DOMAIN t.posts = DOMAIN s.posts
             /\ t.posts[tx.post].author = p.author
             /\ t.posts[tx.post].parent = p.parent
             /\ t.posts[tx.post].totalBurned = p.totalBurned
             /\ t.posts[tx.post].withdrawn <=> p.withdrawn \/ tx.sender = p.author
             /\ \A q \in DOMAIN s.posts : q # tx.post => t.posts[q] = s.posts[q]
             /\ t.stakes = MapDelete(s.stakes, {<<tx.post, a>> : a \in Closing(s, tx)})
<1> DEFINE p == s.posts[tx.post]
           total == SumFunctionOnSet([a \in Addr |-> StakeOf(s, tx.post, a)], Closing(s, tx))
           q == [p EXCEPT !.totalStaked = @ - total,
                          !.stakerCount = @ - Cardinality(Closing(s, tx)),
                          !.withdrawn   = @ \/ tx.sender = p.author]
           t == ApplyUnstakePost(s, tx)
<1>1. /\ Changed(s, t, {"balance", "postStaked", "nonce", "posts", "stakes"})
      /\ t.posts = MapPut(s.posts, tx.post, q)
      /\ t.stakes = MapDelete(s.stakes, {<<tx.post, a>> : a \in Closing(s, tx)})
  BY DEF ApplyUnstakePost, Good, WorldStateOK, Fields, Changed
<1>2. p \in Post
  BY DEF Good, WorldStateOK
<1>3. /\ q.author = p.author /\ q.parent = p.parent /\ q.totalBurned = p.totalBurned
      /\ q.withdrawn <=> p.withdrawn \/ tx.sender = p.author
  BY <1>2 DEF Post
<1> HIDE DEF q, t
<1>4. /\ DOMAIN t.posts = DOMAIN s.posts /\ t.posts[tx.post] = q
      /\ \A r \in DOMAIN s.posts : r # tx.post => t.posts[r] = s.posts[r]
  BY <1>1 DEF MapPut
<1> QED BY <1>1, <1>3, <1>4 DEF t

\* What comes back to account a when tx closes positions.
Returned(s, tx, a) ==
  IF a \in Closing(s, tx) /\ a \in s.accounts THEN s.stakes[<<tx.post, a>>] ELSE 0

\* Every coin it takes from a position goes to the balance of its owner.
LEMMA UnstakePostReturns ==
  ASSUME NEW s, Good(s), NEW tx
  PROVE  LET t == ApplyUnstakePost(s, tx)
         IN  /\ t.balance = [a \in Addr |-> s.balance[a] + Returned(s, tx, a)]
             /\ t.postStaked = [a \in Addr |-> s.postStaked[a] - Returned(s, tx, a)]
BY DEF ApplyUnstakePost, Returned, Good, WorldStateOK, Fields

\* What the registration of a name changes
LEMMA RegisterNameEffect ==
  ASSUME NEW s, Good(s), NEW tx
  PROVE  LET t == ApplyRegisterName(s, tx)
         IN  /\ Changed(s, t, {"nonce", "name", "nameIndex"})
             /\ t.name = [s.name EXCEPT ![tx.sender] = tx.name]
             /\ t.nameIndex = [s.nameIndex EXCEPT ![tx.name] = tx.sender]
BY DEF ApplyRegisterName, Good, WorldStateOK, Fields, Changed

\* What a stake changes
LEMMA StakeEffect ==
  ASSUME NEW s, Good(s), NEW tx
  PROVE  LET t == ApplyStake(s, tx)
         IN  /\ Changed(s, t, {"balance", "staked", "nonce", "active"})
             /\ t.balance = Adjust(s.balance, tx.sender, -tx.amount)
             /\ t.staked = Adjust(s.staked, tx.sender, tx.amount)
             /\ t.active = SetValidatorPubKey(s.active, tx.sender)
BY DEF ApplyStake, Good, WorldStateOK, Fields, Changed

\* What an unstake changes
LEMMA UnstakeEffect ==
  ASSUME NEW s, Good(s), NEW tx, NEW h
  PROVE  LET t == ApplyUnstake(s, tx, h)
         IN  /\ Changed(s, t, {"staked", "nonce", "unbonding"})
             /\ t.staked = Adjust(s.staked, tx.sender, -tx.amount)
             /\ t.unbonding = MapPut(s.unbonding, <<tx.sender, s.nonce[tx.sender] + 1>>,
                                     [amount |-> tx.amount, release |-> h + UnbondingPeriod])
BY DEF ApplyUnstake, AddUnbondingEntry, Good, WorldStateOK, Fields, Changed

\* What the release of matured entries changes
LEMMA ReleaseEffect ==
  ASSUME NEW s, Good(s), NEW h
  PROVE  LET t == ReleaseMatured(s, h)
             done == Matured(s.unbonding, h)
         IN  /\ Changed(s, t, {"accounts", "balance", "unbonding"})
             /\ t.balance = [a \in Addr |-> s.balance[a]
                   + UnbondingSum(s.unbonding, done \cap UnbondingOf(s.unbonding, a))]
             /\ t.unbonding = MapDelete(s.unbonding, done)
BY DEF ReleaseMatured, Good, WorldStateOK, Fields, Changed

\* What a slash changes
LEMMA SlashEffect ==
  ASSUME NEW s, Good(s), NEW a, NEW eh, Slashable(s, a, eh),
         NEW amount, amount = SlashAmount(s, a), NEW part, part = Least(amount, s.staked[a])
  PROVE  LET t == ApplySlashEvidence(s, a, eh)
         IN  /\ Changed(s, t, {"staked", "unbonding", "slashed", "burned"})
             /\ t.staked = Adjust(s.staked, a, -part)
             /\ t.unbonding = IF amount > part
                              THEN SlashUnbonding(s.unbonding, a, amount - part)
                              ELSE s.unbonding
             /\ t.slashed = s.slashed \cup {<<a, eh>>}
             /\ t.burned = s.burned + amount
BY DEF ApplySlashEvidence, Good, WorldStateOK, Fields, Changed

\* What the end of a block changes
LEMMA FinishEffect ==
  ASSUME NEW s, Good(s), NEW proposer \in Addr, NEW h
  PROVE  LET t == FinishBlock(s, proposer, h)
         IN  /\ Changed(s, t, {"accounts", "balance", "issued", "active", "epoch", "height"})
             /\ t.height = h
             /\ t.balance = Adjust(s.balance, proposer, BlockReward)
             /\ t.issued = s.issued + BlockReward
             /\ EpochLength > 0 /\ h % EpochLength = 0 =>
                  /\ t.epoch = h \div EpochLength
                  /\ \A a \in DOMAIN t.active : t.active[a].power = s.staked[a]
             /\ ~(EpochLength > 0 /\ h % EpochLength = 0) =>
                  t.epoch = s.epoch /\ t.active = s.active
<1> DEFINE r == RewardProposer(s, proposer)
           e == EpochTransition(r, h)
           t == FinishBlock(s, proposer, h)
<1>0. s.balance \in [Addr -> Nat] /\ s.issued \in Nat /\ DOMAIN s = Fields
  BY DEF Good, WorldStateOK
<1>1. /\ Changed(s, r, {"accounts", "balance", "issued"})
      /\ r.balance = Adjust(s.balance, proposer, BlockReward)
      /\ r.issued = s.issued + BlockReward
  <2>1. CASE BlockReward = 0
    <3>1. Adjust(s.balance, proposer, 0) = s.balance
      BY <1>0 DEF Adjust
    <3> QED BY <2>1, <3>1, <1>0 DEF RewardProposer, Changed
  <2>2. CASE BlockReward # 0
    BY <2>2, <1>0 DEF RewardProposer, Changed, Fields
  <2> QED BY <2>1, <2>2
<1> HIDE DEF r
<1>2. /\ Changed(r, e, {"active", "epoch"})
      /\ EpochLength > 0 /\ h % EpochLength = 0 =>
           /\ e.epoch = h \div EpochLength
           /\ \A a \in DOMAIN e.active : e.active[a].power = r.staked[a]
      /\ ~(EpochLength > 0 /\ h % EpochLength = 0) =>
           e.epoch = r.epoch /\ e.active = r.active
  <2>1. DOMAIN r = Fields
    BY <1>1 DEF Changed
  <2>2. CASE EpochLength > 0 /\ h % EpochLength = 0
    <3>1. Changed(r, e, {"active", "epoch"}) /\ e.active = ComputeActiveValidatorSet(r)
          /\ e.epoch = h \div EpochLength
      BY <2>1, <2>2 DEF EpochTransition, Changed, Fields
    <3> HIDE DEF e
    <3> QED BY <2>2, <3>1 DEF ComputeActiveValidatorSet
  <2>3. CASE ~(EpochLength > 0 /\ h % EpochLength = 0)
    <3>1. e = r
      BY <2>3 DEF EpochTransition
    <3> HIDE DEF e
    <3> QED BY <2>1, <2>3, <3>1 DEF Changed
  <2> QED BY <2>2, <2>3
<1> HIDE DEF e
<1>3. Changed(e, t, {"height"}) /\ t.height = h
  <2>1. t = [e EXCEPT !.height = h]
    BY DEF FinishBlock, e, r
  <2>2. DOMAIN e = Fields
    BY <1>2 DEF Changed
  <2> HIDE DEF t
  <2> QED BY <2>1, <2>2 DEF Changed, Fields
<1> HIDE DEF t
<1>4. /\ Changed(s, t, {"accounts", "balance", "issued", "active", "epoch", "height"})
      /\ t.balance = r.balance /\ t.issued = r.issued /\ t.active = e.active
      /\ t.epoch = e.epoch /\ r.staked = s.staked /\ r.epoch = s.epoch /\ r.active = s.active
  BY <1>1, <1>2, <1>3 DEF Changed, Fields
<1>5. t.balance = Adjust(s.balance, proposer, BlockReward) /\ t.issued = s.issued + BlockReward
  BY <1>1, <1>4
<1>6. /\ EpochLength > 0 /\ h % EpochLength = 0 =>
           /\ t.epoch = h \div EpochLength
           /\ \A a \in DOMAIN t.active : t.active[a].power = s.staked[a]
      /\ ~(EpochLength > 0 /\ h % EpochLength = 0) =>
           t.epoch = s.epoch /\ t.active = s.active
  BY <1>2, <1>4
<1> QED BY <1>3, <1>4, <1>5, <1>6 DEF t

-------------------------------------------------------------------------------
(* Names, replies, withdrawals and minimum stakes. *)

\* RepliesAreFlat of any world state.
FlatOK(s) ==
  \A p \in DOMAIN s.posts :
    s.posts[p].parent # None =>
      /\ s.posts[p].parent \in DOMAIN s.posts
      /\ s.posts[s.posts[p].parent].parent = None

\* NoStakeBelowMinimum of any world state.
MinimumOK(s) ==
  \A a \in Addr :
    \/ s.staked[a] = 0
    \/ s.staked[a] >= MinStake
    \/ InitialStake(a) < MinStake /\ InitialStake(a) > 0
    \/ \E eh \in EvidenceHeights : <<a, eh>> \in s.slashed

Sound(s) == NamesOK(s) /\ FlatOK(s) /\ WithdrawalOK(s) /\ MinimumOK(s)

\* An operation that leaves the fields alone that these speak about.
LEMMA SoundFrame ==
  ASSUME NEW s, NEW t
  PROVE  /\ NamesOK(s) /\ t.name = s.name /\ t.nameIndex = s.nameIndex => NamesOK(t)
         /\ FlatOK(s) /\ t.posts = s.posts => FlatOK(t)
         /\ WithdrawalOK(s) /\ t.posts = s.posts /\ t.stakes = s.stakes => WithdrawalOK(t)
         /\ MinimumOK(s) /\ t.staked = s.staked /\ t.slashed = s.slashed => MinimumOK(t)
<1>1. NamesOK(s) /\ t.name = s.name /\ t.nameIndex = s.nameIndex => NamesOK(t)
  BY DEF NamesOK
<1>2. FlatOK(s) /\ t.posts = s.posts => FlatOK(t)
  BY DEF FlatOK
<1>3. WithdrawalOK(s) /\ t.posts = s.posts /\ t.stakes = s.stakes => WithdrawalOK(t)
  BY DEF WithdrawalOK, PostStakers
<1>4. MinimumOK(s) /\ t.staked = s.staked /\ t.slashed = s.slashed => MinimumOK(t)
  BY DEF MinimumOK
<1> QED BY <1>1, <1>2, <1>3, <1>4

\* A post keeps its place among the replies whatever else happens to it.
LEMMA FlatUpdate ==
  ASSUME NEW s, NEW t, FlatOK(s), DOMAIN t.posts = DOMAIN s.posts,
         \A p \in DOMAIN s.posts : t.posts[p].parent = s.posts[p].parent
  PROVE  FlatOK(t)
BY DEF FlatOK

\* Names, replies, withdrawals and minimum stakes stay in order: by a transfer,
LEMMA SoundTransfer ==
  ASSUME NEW s, Good(s), Sound(s), NEW tx
  PROVE  Sound(ApplyTransfer(s, tx))
<1> DEFINE t == ApplyTransfer(s, tx)
<1>1. Changed(s, t, {"accounts", "balance", "nonce"})
  BY TransferEffect
<1> HIDE DEF t
<1>2. /\ t.name = s.name /\ t.nameIndex = s.nameIndex /\ t.posts = s.posts
      /\ t.stakes = s.stakes /\ t.staked = s.staked /\ t.slashed = s.slashed
  BY <1>1 DEF Changed, Fields
<1> QED BY <1>2, SoundFrame DEF Sound, t

\* by the registration of a name,
LEMMA SoundRegisterName ==
  ASSUME NEW s, Good(s), Sound(s), NEW tx, tx.sender \in Addr, tx.name \in Names,
         ValidRegisterName(s, tx)
  PROVE  Sound(ApplyRegisterName(s, tx))
<1> DEFINE t == ApplyRegisterName(s, tx)
<1>1. /\ Changed(s, t, {"nonce", "name", "nameIndex"})
      /\ t.name = [s.name EXCEPT ![tx.sender] = tx.name]
      /\ t.nameIndex = [s.nameIndex EXCEPT ![tx.name] = tx.sender]
  BY RegisterNameEffect
<1> HIDE DEF t
<1>2. /\ t.posts = s.posts /\ t.stakes = s.stakes /\ t.staked = s.staked
      /\ t.slashed = s.slashed
  BY <1>1 DEF Changed, Fields
<1>3. NamesOK(t)
  <2>1. s.name \in [Addr -> Names \cup {None}] /\ s.nameIndex \in [Names -> Addr \cup {None}]
    BY DEF Good, WorldStateOK
  <2>2. s.name[tx.sender] = None /\ s.nameIndex[tx.name] = None
    BY DEF ValidRegisterName
  <2>3. \A n \in Names, a \in Addr : s.nameIndex[n] = a <=> s.name[a] = n
    BY DEF Sound, NamesOK
  <2>4. ASSUME NEW n \in Names, NEW a \in Addr PROVE t.nameIndex[n] = a <=> t.name[a] = n
    BY <1>1, <2>1, <2>2, <2>3, AddrAssumption
  <2> QED BY <2>4 DEF NamesOK
<1> QED BY <1>2, <1>3, SoundFrame DEF Sound, t

\* by a new post,
LEMMA SoundCreatePost ==
  ASSUME NEW s, Good(s), Sound(s), NEW tx, tx.sender \in Addr, ValidCreatePost(s, tx)
  PROVE  Sound(ApplyCreatePost(s, tx))
<1> DEFINE t == ApplyCreatePost(s, tx)
           id == NewId(s, tx)
           fee == FeeOf(tx)
<1> HIDE DEF t, id, fee
<1>1. /\ Changed(s, t, {"balance", "postStaked", "nonce", "posts", "stakes", "burned"})
      /\ DOMAIN t.posts = DOMAIN s.posts \cup {id}
      /\ t.posts[id] = [author |-> tx.sender, parent |-> tx.post,
                        totalStaked |-> tx.amount - fee, totalBurned |-> fee,
                        stakerCount |-> 1, withdrawn |-> FALSE]
      /\ \A p \in DOMAIN s.posts : p # id => t.posts[p] = s.posts[p]
      /\ t.stakes = MapPut(s.stakes, <<id, tx.sender>>, tx.amount - fee)
  BY CreatePostEffect DEF t, id, fee
<1>2. t.name = s.name /\ t.nameIndex = s.nameIndex /\ t.staked = s.staked
      /\ t.slashed = s.slashed
  BY <1>1 DEF Changed, Fields
<1>3. id \notin DOMAIN s.posts
  <2>1. s.nonce[tx.sender] \in Nat
    BY DEF Good, WorldStateOK
  <2>2. id \in DOMAIN s.posts => id[2] <= s.nonce[id[1]]
    BY DEF Good, FreshOK
  <2> QED BY <2>1, <2>2 DEF id, NewId
<1>4. t.posts[id].parent = tx.post /\ t.posts[id].withdrawn = FALSE
      /\ t.posts[id].author = tx.sender
  BY <1>1
<1>5. FlatOK(t)
  <2>1. tx.post # None => tx.post \in DOMAIN s.posts /\ s.posts[tx.post].parent = None
    BY DEF ValidCreatePost
  <2>2. ASSUME NEW p \in DOMAIN t.posts, t.posts[p].parent # None
        PROVE  /\ t.posts[p].parent \in DOMAIN s.posts
               /\ s.posts[t.posts[p].parent].parent = None
    <3>1. CASE p = id
      BY <2>1, <2>2, <3>1, <1>4
    <3>2. CASE p # id
      BY <2>2, <3>2, <1>1 DEF Sound, FlatOK
    <3> QED BY <3>1, <3>2
  <2> QED BY <2>2, <1>1, <1>3 DEF FlatOK
<1>6. WithdrawalOK(t)
  <2>1. DOMAIN t.stakes = DOMAIN s.stakes \cup {<<id, tx.sender>>}
    BY <1>1 DEF MapPut
  <2>2. ASSUME NEW p \in DOMAIN s.posts
        PROVE  t.posts[p] = s.posts[p] /\ PostStakers(t, p) = PostStakers(s, p)
    BY <1>1, <1>3, <2>1 DEF PostStakers
  <2>3. tx.sender \in PostStakers(t, id)
    BY <2>1 DEF PostStakers
  <2> QED BY <1>1, <1>4, <2>2, <2>3 DEF WithdrawalOK, Sound
<1> QED BY <1>2, <1>5, <1>6, SoundFrame DEF Sound, t

\* by a boost,
LEMMA SoundBoostPost ==
  ASSUME NEW s, Good(s), Sound(s), NEW tx, tx.sender \in Addr, ValidBoostPost(s, tx)
  PROVE  Sound(ApplyBoostPost(s, tx))
<1> DEFINE t == ApplyBoostPost(s, tx)
<1>0. tx.post \in DOMAIN s.posts /\ ~ s.posts[tx.post].withdrawn
  BY DEF ValidBoostPost
<1> HIDE DEF t
<1>1. /\ Changed(s, t, {"balance", "postStaked", "nonce", "posts", "stakes", "burned"})
      /\ DOMAIN t.posts = DOMAIN s.posts
      /\ t.posts[tx.post].author = s.posts[tx.post].author
      /\ t.posts[tx.post].parent = s.posts[tx.post].parent
      /\ t.posts[tx.post].withdrawn = s.posts[tx.post].withdrawn
      /\ \A q \in DOMAIN s.posts : q # tx.post => t.posts[q] = s.posts[q]
      /\ t.stakes = MapPut(s.stakes, <<tx.post, tx.sender>>,
                           StakeOf(s, tx.post, tx.sender) + BoostStaked(tx.amount))
  BY <1>0, BoostPostEffect DEF t
<1>2. t.name = s.name /\ t.nameIndex = s.nameIndex /\ t.staked = s.staked
      /\ t.slashed = s.slashed
  BY <1>1 DEF Changed, Fields
<1>3. \A p \in DOMAIN s.posts : /\ t.posts[p].parent = s.posts[p].parent
                                /\ t.posts[p].author = s.posts[p].author
                                /\ t.posts[p].withdrawn = s.posts[p].withdrawn
  BY <1>1
<1>4. FlatOK(t)
  BY <1>1, <1>3, FlatUpdate DEF Sound
<1>5. WithdrawalOK(t)
  <2>1. DOMAIN t.stakes = DOMAIN s.stakes \cup {<<tx.post, tx.sender>>}
    BY <1>1 DEF MapPut
  <2>2. ASSUME NEW p \in DOMAIN s.posts
        PROVE  /\ PostStakers(s, p) \subseteq PostStakers(t, p)
               /\ p # tx.post => PostStakers(t, p) = PostStakers(s, p)
    BY <2>1 DEF PostStakers
  <2> QED BY <1>0, <1>1, <1>3, <2>2 DEF WithdrawalOK, Sound
<1> QED BY <1>2, <1>4, <1>5, SoundFrame DEF Sound, t

\* by an unstake from a post,
LEMMA SoundUnstakePost ==
  ASSUME NEW s, Good(s), Sound(s), NEW tx, tx.sender \in Addr, ValidUnstakePost(s, tx)
  PROVE  Sound(ApplyUnstakePost(s, tx))
<1> DEFINE t == ApplyUnstakePost(s, tx)
<1>0. tx.post \in DOMAIN s.posts /\ tx.sender \in PostStakers(s, tx.post)
  BY DEF ValidUnstakePost, PostStakers
<1> HIDE DEF t
<1>1. /\ Changed(s, t, {"balance", "postStaked", "nonce", "posts", "stakes"})
      /\ DOMAIN t.posts = DOMAIN s.posts
      /\ t.posts[tx.post].author = s.posts[tx.post].author
      /\ t.posts[tx.post].parent = s.posts[tx.post].parent
      /\ t.posts[tx.post].withdrawn
            <=> s.posts[tx.post].withdrawn \/ tx.sender = s.posts[tx.post].author
      /\ \A q \in DOMAIN s.posts : q # tx.post => t.posts[q] = s.posts[q]
      /\ t.stakes = MapDelete(s.stakes, {<<tx.post, a>> : a \in Closing(s, tx)})
  BY <1>0, UnstakePostEffect DEF t
<1>2. t.name = s.name /\ t.nameIndex = s.nameIndex /\ t.staked = s.staked
      /\ t.slashed = s.slashed
  BY <1>1 DEF Changed, Fields
<1>3. FlatOK(t)
  <2>1. \A p \in DOMAIN s.posts : t.posts[p].parent = s.posts[p].parent
    BY <1>1
  <2> QED BY <1>1, <2>1, FlatUpdate DEF Sound
<1>4. WithdrawalOK(t)
  <2>1. DOMAIN t.stakes = DOMAIN s.stakes \ {<<tx.post, a>> : a \in Closing(s, tx)}
    BY <1>1 DEF MapDelete, Restrict
  <2>2. PostStakers(t, tx.post) = PostStakers(s, tx.post) \ Closing(s, tx)
    BY <2>1 DEF PostStakers
  <2>3. ASSUME NEW p \in DOMAIN s.posts, p # tx.post
        PROVE  PostStakers(t, p) = PostStakers(s, p)
    BY <2>1, <2>3 DEF PostStakers
  <2>4. ~ s.posts[tx.post].withdrawn /\ s.posts[tx.post].author \in PostStakers(s, tx.post)
    BY <1>0 DEF Sound, WithdrawalOK
  <2>5. IF t.posts[tx.post].withdrawn THEN PostStakers(t, tx.post) = {}
        ELSE t.posts[tx.post].author \in PostStakers(t, tx.post)
    BY <1>1, <2>2, <2>4 DEF Closing
  <2> QED BY <1>1, <2>3, <2>5 DEF Sound, WithdrawalOK
<1> QED BY <1>2, <1>3, <1>4, SoundFrame DEF Sound, t

\* by a stake,
LEMMA SoundStake ==
  ASSUME NEW s, Good(s), Sound(s), NEW tx, tx.sender \in Addr, tx.amount \in Nat,
         ValidStake(s, tx)
  PROVE  Sound(ApplyStake(s, tx))
<1> DEFINE t == ApplyStake(s, tx)
<1>1. /\ Changed(s, t, {"balance", "staked", "nonce", "active"})
      /\ t.staked = Adjust(s.staked, tx.sender, tx.amount)
  BY StakeEffect
<1> HIDE DEF t
<1>2. /\ t.name = s.name /\ t.nameIndex = s.nameIndex /\ t.posts = s.posts
      /\ t.stakes = s.stakes /\ t.slashed = s.slashed
  BY <1>1 DEF Changed, Fields
<1>3. MinimumOK(t)
  <2>1. s.staked \in [Addr -> Nat] /\ MinStake \in Nat
    BY ParamAssumption DEF Good, WorldStateOK
  <2>2. s.staked[tx.sender] = 0 => tx.amount >= MinStake
    BY DEF ValidStake
  <2>3. /\ t.staked[tx.sender] = s.staked[tx.sender] + tx.amount
        /\ \A a \in Addr \ {tx.sender} : t.staked[a] = s.staked[a]
    BY <1>1, <2>1 DEF Adjust
  <2> QED BY <1>2, <2>1, <2>2, <2>3 DEF Sound, MinimumOK
<1> QED BY <1>2, <1>3, SoundFrame DEF Sound, t

\* by an unstake,
LEMMA SoundUnstake ==
  ASSUME NEW s, Good(s), Sound(s), NEW tx, tx.sender \in Addr, tx.amount \in Nat, NEW h,
         ValidUnstake(s, tx)
  PROVE  Sound(ApplyUnstake(s, tx, h))
<1> DEFINE t == ApplyUnstake(s, tx, h)
<1>1. /\ Changed(s, t, {"staked", "nonce", "unbonding"})
      /\ t.staked = Adjust(s.staked, tx.sender, -tx.amount)
  BY UnstakeEffect
<1> HIDE DEF t
<1>2. /\ t.name = s.name /\ t.nameIndex = s.nameIndex /\ t.posts = s.posts
      /\ t.stakes = s.stakes /\ t.slashed = s.slashed
  BY <1>1 DEF Changed, Fields
<1>3. MinimumOK(t)
  <2>1. s.staked \in [Addr -> Nat] /\ MinStake \in Nat
    BY ParamAssumption DEF Good, WorldStateOK
  <2>2. /\ s.staked[tx.sender] >= tx.amount
        /\ s.staked[tx.sender] - tx.amount > 0 => s.staked[tx.sender] - tx.amount >= MinStake
    BY DEF ValidUnstake
  <2>3. /\ t.staked[tx.sender] = s.staked[tx.sender] - tx.amount
        /\ \A a \in Addr \ {tx.sender} : t.staked[a] = s.staked[a]
    BY <1>1, <2>1 DEF Adjust
  <2>4. t.staked[tx.sender] = 0 \/ t.staked[tx.sender] >= MinStake
    BY <2>1, <2>2, <2>3
  <2> QED BY <1>2, <2>3, <2>4 DEF Sound, MinimumOK
<1> QED BY <1>2, <1>3, SoundFrame DEF Sound, t

\* by a release,
LEMMA SoundRelease ==
  ASSUME NEW s, Good(s), Sound(s), NEW h
  PROVE  Sound(ReleaseMatured(s, h))
<1> DEFINE t == ReleaseMatured(s, h)
<1>1. Changed(s, t, {"accounts", "balance", "unbonding"})
  BY ReleaseEffect
<1> HIDE DEF t
<1>2. /\ t.name = s.name /\ t.nameIndex = s.nameIndex /\ t.posts = s.posts
      /\ t.stakes = s.stakes /\ t.staked = s.staked /\ t.slashed = s.slashed
  BY <1>1 DEF Changed, Fields
<1> QED BY <1>2, SoundFrame DEF Sound, t

\* by a slash,
LEMMA SoundSlash ==
  ASSUME NEW s, Good(s), Sound(s), NEW a \in Addr, NEW eh \in EvidenceHeights
  PROVE  Sound(ApplySlashEvidence(s, a, eh))
<1> DEFINE t == ApplySlashEvidence(s, a, eh)
<1>1. CASE ~ Slashable(s, a, eh)
  BY <1>1 DEF ApplySlashEvidence
<1>2. CASE Slashable(s, a, eh)
  <2> DEFINE amount == SlashAmount(s, a)
             part == Least(amount, s.staked[a])
  <2> HIDE DEF amount, part, t
  <2>1. /\ Changed(s, t, {"staked", "unbonding", "slashed", "burned"})
        /\ t.staked = Adjust(s.staked, a, -part)
        /\ t.slashed = s.slashed \cup {<<a, eh>>}
    BY <1>2, SlashEffect DEF amount, part, t
  <2>2. /\ t.name = s.name /\ t.nameIndex = s.nameIndex /\ t.posts = s.posts
        /\ t.stakes = s.stakes
    BY <2>1 DEF Changed, Fields
  <2>3. \A b \in Addr \ {a} : t.staked[b] = s.staked[b]
    BY <2>1 DEF Adjust, Good, WorldStateOK
  <2>4. MinimumOK(t)
    BY <2>1, <2>3 DEF Sound, MinimumOK
  <2> QED BY <2>2, <2>4, SoundFrame DEF Sound, t
<1> QED BY <1>1, <1>2

\* by the end of a block.
LEMMA SoundFinish ==
  ASSUME NEW s, Good(s), Sound(s), NEW proposer \in Addr, NEW h
  PROVE  Sound(FinishBlock(s, proposer, h))
<1> DEFINE t == FinishBlock(s, proposer, h)
<1>1. Changed(s, t, {"accounts", "balance", "issued", "active", "epoch", "height"})
  BY FinishEffect
<1> HIDE DEF t
<1>2. /\ t.name = s.name /\ t.nameIndex = s.nameIndex /\ t.posts = s.posts
      /\ t.stakes = s.stakes /\ t.staked = s.staked /\ t.slashed = s.slashed
  BY <1>1 DEF Changed, Fields
<1> QED BY <1>2, SoundFrame DEF Sound, t

\* They are in order at genesis.
LEMMA SoundInitial == Sound(InitializeState)
<1>1. /\ InitializeState.name = [a \in Addr |-> None]
      /\ InitializeState.nameIndex = [n \in Names |-> None]
      /\ DOMAIN InitializeState.posts = {}
      /\ InitializeState.staked = [a \in Addr |-> InitialStake(a)]
  BY DEF InitializeState
<1>2. \A a \in Addr : InitialStake(a) \in Nat
  BY GenesisAssumption DEF InitialStake
<1>3. MinStake \in Nat
  BY ParamAssumption
<1> QED BY <1>1, <1>2, <1>3, AddrAssumption
        DEF Sound, NamesOK, FlatOK, WithdrawalOK, MinimumOK

-------------------------------------------------------------------------------
(* Coins.  Worth (Circulating plus burned minus issued) is what every step  *)
(* but a boost conserves.                                                   *)

\* What all accounts own, and what is in the unbonding queue.
Wealth(s) == SumFunctionOnSet([a \in Addr |-> Holdings(s, a)], Addr)
Queued(s) == UnbondingSum(s.unbonding, DOMAIN s.unbonding)

\* There are finitely many addresses.
LEMMA AddrFinite == IsFiniteSet(Addr)
BY AddrAssumption

\* What there is, taken apart
LEMMA WorthParts ==
  ASSUME NEW s, WorldStateOK(s)
  PROVE  /\ Worth(s) = Wealth(s) + Queued(s) + s.burned - s.issued
         /\ Wealth(s) \in Nat /\ Queued(s) \in Nat /\ s.burned \in Nat /\ s.issued \in Nat
         /\ \A a \in Addr : Holdings(s, a) \in Nat
<1> DEFINE f == [a \in Addr |-> Holdings(s, a)]
<1>1. \A a \in Addr : Holdings(s, a) \in Nat
  BY DEF Holdings, WorldStateOK
<1>2. \A a \in Addr : f[a] \in Nat
  BY <1>1
<1> HIDE DEF f
<1>3. SumFunctionOnSet(f, Addr) \in Nat
  BY <1>2, SumNat, AddrFinite
<1>4. Wealth(s) \in Nat
  BY <1>3 DEF Wealth, f
<1>5. Queued(s) \in Nat
  BY UnbondingSumType DEF Queued
<1>6. Worth(s) = Wealth(s) + Queued(s) + s.burned - s.issued
  BY DEF Worth, Circulating, Wealth, Queued
<1> QED BY <1>1, <1>4, <1>5, <1>6 DEF WorldStateOK

\* Holdings move by d.
LEMMA WealthShift ==
  ASSUME NEW s, WorldStateOK(s), NEW t, WorldStateOK(t), NEW d,
         \A a \in Addr : d[a] \in Int /\ Holdings(t, a) = Holdings(s, a) + d[a]
  PROVE  Wealth(t) = Wealth(s) + SumFunctionOnSet(d, Addr)
<1> DEFINE f == [a \in Addr |-> Holdings(s, a)]
           g == [a \in Addr |-> Holdings(t, a)]
<1>1. \A a \in Addr : f[a] \in Int /\ d[a] \in Int /\ g[a] = f[a] + d[a]
  BY WorthParts
<1> HIDE DEF f, g
<1>2. SumFunctionOnSet(g, Addr) = SumFunctionOnSet(f, Addr) + SumFunctionOnSet(d, Addr)
  BY <1>1, SumAdd, AddrFinite
<1> QED BY <1>2 DEF Wealth, f, g

\* The holdings of one account move.
LEMMA WealthOne ==
  ASSUME NEW s, WorldStateOK(s), NEW t, WorldStateOK(t), NEW b \in Addr, NEW n \in Int,
         Holdings(t, b) = Holdings(s, b) + n,
         \A a \in Addr : a # b => Holdings(t, a) = Holdings(s, a)
  PROVE  Wealth(t) = Wealth(s) + n
<1> DEFINE f == [a \in Addr |-> Holdings(s, a)]
           g == [a \in Addr |-> Holdings(t, a)]
<1>1. /\ \A a \in Addr : f[a] \in Int /\ g[a] \in Int
      /\ \A a \in Addr : a # b => g[a] = f[a]
      /\ g[b] = f[b] + n
  BY WorthParts
<1> HIDE DEF f, g
<1>2. SumFunctionOnSet(g, Addr) = SumFunctionOnSet(f, Addr) - f[b] + g[b]
  <2>1. \A a \in Addr : f[a] \in Int /\ g[a] \in Int
    BY <1>1
  <2>2. \A a \in Addr : a # b => g[a] = f[a]
    BY <1>1
  <2> QED BY ONLY <2>1, <2>2, b \in Addr, SumUpdate, AddrFinite
<1>3. SumFunctionOnSet(f, Addr) \in Int
  BY <1>1, SumType, AddrFinite
<1>4. SumFunctionOnSet(g, Addr) = SumFunctionOnSet(f, Addr) + n
  BY <1>1, <1>2, <1>3
<1> QED BY <1>4 DEF Wealth, f, g

\* Nobody's holdings move.
LEMMA WealthFrame ==
  ASSUME NEW s, WorldStateOK(s), NEW t,
         \A a \in Addr : Holdings(t, a) = Holdings(s, a)
  PROVE  Wealth(t) = Wealth(s)
BY DEF Wealth

\* Something moves from a to b.
LEMMA SumMove ==
  ASSUME NEW S, IsFiniteSet(S), NEW f, NEW h, NEW a \in S, NEW b \in S, a # b, NEW n \in Int,
         \A x \in S : f[x] \in Int /\ h[x] \in Int,
         \A x \in S : x # a /\ x # b => h[x] = f[x],
         h[a] = f[a] - n, h[b] = f[b] + n
  PROVE  SumFunctionOnSet(h, S) = SumFunctionOnSet(f, S)
<1> DEFINE g == [x \in S |-> IF x = a THEN h[a] ELSE f[x]]
<1>1. /\ \A x \in S : f[x] \in Int /\ g[x] \in Int
      /\ \A x \in S : x # a => g[x] = f[x]
  OBVIOUS
<1>2. \A x \in S : g[x] \in Int /\ h[x] \in Int
  OBVIOUS
<1>3. \A x \in S : x # b => h[x] = g[x]
  OBVIOUS
<1>4. g[a] = h[a] /\ g[b] = f[b] /\ f[a] \in Int /\ f[b] \in Int
  OBVIOUS
<1> HIDE DEF g
<1>5. SumFunctionOnSet(g, S) = SumFunctionOnSet(f, S) - f[a] + g[a]
  BY <1>1, SumUpdate
<1>6. SumFunctionOnSet(h, S) = SumFunctionOnSet(g, S) - g[b] + h[b]
  BY ONLY IsFiniteSet(S), b \in S, <1>2, <1>3, SumUpdate, SMTT(30)
<1>7. SumFunctionOnSet(f, S) \in Int
  BY SumType
<1> QED BY <1>4, <1>5, <1>6, <1>7

\* No coins are made or lost by a transfer,
LEMMA WorthTransfer ==
  ASSUME NEW s, Good(s), NEW tx, tx.sender \in Addr, tx.recipient \in Addr,
         tx.amount \in Nat, ValidTransfer(s, tx)
  PROVE  Worth(ApplyTransfer(s, tx)) = Worth(s)
<1> DEFINE t == ApplyTransfer(s, tx)
           f == [a \in Addr |-> Holdings(s, a)]
           h == [a \in Addr |-> Holdings(t, a)]
<1>1. /\ Changed(s, t, {"accounts", "balance", "nonce"})
      /\ t.balance = Adjust(Adjust(s.balance, tx.sender, -tx.amount), tx.recipient, tx.amount)
  BY TransferEffect
<1>2. WorldStateOK(s) /\ WorldStateOK(t)
  BY GoodTransfer DEF Good
<1> HIDE DEF t
<1>3. /\ t.staked = s.staked /\ t.postStaked = s.postStaked /\ t.unbonding = s.unbonding
      /\ t.burned = s.burned /\ t.issued = s.issued
  BY <1>1 DEF Changed, Fields
<1>4. tx.sender # tx.recipient
  BY DEF ValidTransfer
<1>5. /\ s.balance \in [Addr -> Nat] /\ s.staked \in [Addr -> Nat]
      /\ s.postStaked \in [Addr -> Nat]
  BY <1>2 DEF WorldStateOK
<1>6. /\ t.balance[tx.sender] = s.balance[tx.sender] - tx.amount
      /\ t.balance[tx.recipient] = s.balance[tx.recipient] + tx.amount
      /\ \A a \in Addr : a # tx.sender /\ a # tx.recipient => t.balance[a] = s.balance[a]
  BY <1>1, <1>4, <1>5 DEF Adjust
<1>7. /\ \A a \in Addr : f[a] \in Int /\ h[a] \in Int
      /\ \A a \in Addr : a # tx.sender /\ a # tx.recipient => h[a] = f[a]
      /\ h[tx.sender] = f[tx.sender] - tx.amount
      /\ h[tx.recipient] = f[tx.recipient] + tx.amount
  BY <1>3, <1>4, <1>5, <1>6 DEF Holdings
<1> HIDE DEF f, h
<1>8. SumFunctionOnSet(h, Addr) = SumFunctionOnSet(f, Addr)
  <2>1. tx.sender \in Addr /\ tx.recipient \in Addr /\ tx.amount \in Int
    OBVIOUS
  <2> QED BY ONLY <1>4, <1>7, <2>1, SumMove, AddrFinite
<1>9. Wealth(t) = Wealth(s)
  BY <1>8 DEF Wealth, f, h
<1>10. Queued(t) = Queued(s)
  BY <1>3 DEF Queued
<1> QED BY <1>2, <1>3, <1>9, <1>10, WorthParts DEF t

\* by the registration of a name,
LEMMA WorthRegisterName ==
  ASSUME NEW s, Good(s), NEW tx, tx.sender \in Addr, tx.name \in Names
  PROVE  Worth(ApplyRegisterName(s, tx)) = Worth(s)
<1> DEFINE t == ApplyRegisterName(s, tx)
<1>1. Changed(s, t, {"nonce", "name", "nameIndex"})
  BY RegisterNameEffect
<1> HIDE DEF t
<1>2. /\ t.balance = s.balance /\ t.staked = s.staked /\ t.postStaked = s.postStaked
      /\ t.unbonding = s.unbonding /\ t.burned = s.burned /\ t.issued = s.issued
  BY <1>1 DEF Changed, Fields
<1> QED BY <1>2 DEF Worth, Circulating, Holdings, t

\* by a new post,
LEMMA WorthCreatePost ==
  ASSUME NEW s, Good(s), NEW tx, tx.sender \in Addr, tx.amount \in Nat,
         tx.post \in DOMAIN s.posts \cup {None}, ValidCreatePost(s, tx)
  PROVE  Worth(ApplyCreatePost(s, tx)) = Worth(s)
<1> DEFINE t == ApplyCreatePost(s, tx)
           fee == FeeOf(tx)
<1>0. fee \in Nat /\ fee <= tx.amount
  <2>1. PostFee \in Nat /\ PostFee <= 100
    BY ParamAssumption DEF PostFee
  <2> QED BY <2>1, PercentType DEF FeeOf
<1>1. WorldStateOK(s) /\ WorldStateOK(t)
  BY GoodCreatePost DEF Good
<1> HIDE DEF t, fee
<1>2. /\ Changed(s, t, {"balance", "postStaked", "nonce", "posts", "stakes", "burned"})
      /\ t.balance = Adjust(s.balance, tx.sender, -tx.amount)
      /\ t.postStaked = Adjust(s.postStaked, tx.sender, tx.amount - fee)
      /\ t.burned = s.burned + fee
  BY CreatePostEffect DEF t, fee
<1>3. t.staked = s.staked /\ t.unbonding = s.unbonding /\ t.issued = s.issued
  BY <1>2 DEF Changed, Fields
<1>4. /\ s.balance \in [Addr -> Nat] /\ s.staked \in [Addr -> Nat]
      /\ s.postStaked \in [Addr -> Nat]
  BY <1>1 DEF WorldStateOK
<1>5. /\ Holdings(t, tx.sender) = Holdings(s, tx.sender) + (-fee)
      /\ \A a \in Addr : a # tx.sender => Holdings(t, a) = Holdings(s, a)
  BY <1>0, <1>2, <1>3, <1>4 DEF Adjust, Holdings
<1>6. Wealth(t) = Wealth(s) + (-fee)
  BY <1>0, <1>1, <1>5, WealthOne
<1>7. Queued(t) = Queued(s)
  BY <1>3 DEF Queued
<1> QED BY <1>0, <1>1, <1>2, <1>3, <1>6, <1>7, WorthParts DEF t

\* by an unstake from a post, the forced refunds included,
LEMMA WorthUnstakePost ==
  ASSUME NEW s, Good(s), NEW tx, tx.sender \in Addr, ValidUnstakePost(s, tx)
  PROVE  Worth(ApplyUnstakePost(s, tx)) = Worth(s)
<1> DEFINE t == ApplyUnstakePost(s, tx)
           R(a) == Returned(s, tx, a)
<1>1. WorldStateOK(s) /\ WorldStateOK(t) /\ tx.post \in DOMAIN s.posts
  BY GoodUnstakePost DEF Good, ValidUnstakePost
<1>2. \A a \in Addr : R(a) \in Nat
  <2>1. ASSUME NEW a \in Addr, a \in Closing(s, tx) PROVE <<tx.post, a>> \in DOMAIN s.stakes
    BY <2>1 DEF Closing, PostStakers, ValidUnstakePost
  <2> QED BY <1>1, <2>1 DEF Returned, WorldStateOK
<1> HIDE DEF t, R
<1>3. /\ Changed(s, t, {"balance", "postStaked", "nonce", "posts", "stakes"})
      /\ t.balance = [a \in Addr |-> s.balance[a] + R(a)]
      /\ t.postStaked = [a \in Addr |-> s.postStaked[a] - R(a)]
  <2>1. Changed(s, t, {"balance", "postStaked", "nonce", "posts", "stakes"})
    BY <1>1, UnstakePostEffect DEF t
  <2>2. /\ t.balance = [a \in Addr |-> s.balance[a] + R(a)]
        /\ t.postStaked = [a \in Addr |-> s.postStaked[a] - R(a)]
    BY UnstakePostReturns DEF t, R
  <2> QED BY <2>1, <2>2
<1>4. t.staked = s.staked /\ t.unbonding = s.unbonding /\ t.issued = s.issued
      /\ t.burned = s.burned
  BY <1>3 DEF Changed, Fields
<1>5. /\ s.balance \in [Addr -> Nat] /\ s.staked \in [Addr -> Nat]
      /\ s.postStaked \in [Addr -> Nat]
  BY <1>1 DEF WorldStateOK
<1>6. \A a \in Addr : Holdings(t, a) = Holdings(s, a)
  BY <1>2, <1>3, <1>4, <1>5 DEF Holdings
<1>7. Wealth(t) = Wealth(s)
  BY <1>1, <1>6, WealthFrame
<1>8. Queued(t) = Queued(s)
  BY <1>4 DEF Queued
<1> QED BY <1>1, <1>4, <1>7, <1>8, WorthParts DEF t

\* by a stake,
LEMMA WorthStake ==
  ASSUME NEW s, Good(s), NEW tx, tx.sender \in Addr, tx.amount \in Nat, ValidStake(s, tx)
  PROVE  Worth(ApplyStake(s, tx)) = Worth(s)
<1> DEFINE t == ApplyStake(s, tx)
<1>1. WorldStateOK(s) /\ WorldStateOK(t)
  BY GoodStake DEF Good
<1>2. /\ Changed(s, t, {"balance", "staked", "nonce", "active"})
      /\ t.balance = Adjust(s.balance, tx.sender, -tx.amount)
      /\ t.staked = Adjust(s.staked, tx.sender, tx.amount)
  BY StakeEffect
<1> HIDE DEF t
<1>3. t.postStaked = s.postStaked /\ t.unbonding = s.unbonding /\ t.issued = s.issued
      /\ t.burned = s.burned
  BY <1>2 DEF Changed, Fields
<1>4. /\ s.balance \in [Addr -> Nat] /\ s.staked \in [Addr -> Nat]
      /\ s.postStaked \in [Addr -> Nat]
  BY <1>1 DEF WorldStateOK
<1>5. \A a \in Addr : Holdings(t, a) = Holdings(s, a)
  BY <1>2, <1>3, <1>4 DEF Holdings, Adjust
<1>6. Wealth(t) = Wealth(s)
  BY <1>1, <1>5, WealthFrame
<1>7. Queued(t) = Queued(s)
  BY <1>3 DEF Queued
<1> QED BY <1>1, <1>3, <1>6, <1>7, WorthParts DEF t

\* by the end of a block, whose reward is counted as issued,
LEMMA WorthFinish ==
  ASSUME NEW s, Good(s), NEW proposer \in Addr, NEW h \in Nat
  PROVE  Worth(FinishBlock(s, proposer, h)) = Worth(s)
<1> DEFINE t == FinishBlock(s, proposer, h)
<1>1. WorldStateOK(s) /\ WorldStateOK(t) /\ BlockReward \in Nat
  BY GoodFinishBlock, ParamAssumption DEF Good
<1>2. /\ Changed(s, t, {"accounts", "balance", "issued", "active", "epoch", "height"})
      /\ t.balance = Adjust(s.balance, proposer, BlockReward)
      /\ t.issued = s.issued + BlockReward
  BY FinishEffect
<1> HIDE DEF t
<1>3. t.staked = s.staked /\ t.postStaked = s.postStaked /\ t.unbonding = s.unbonding
      /\ t.burned = s.burned
  BY <1>2 DEF Changed, Fields
<1>4. /\ s.balance \in [Addr -> Nat] /\ s.staked \in [Addr -> Nat]
      /\ s.postStaked \in [Addr -> Nat]
  BY <1>1 DEF WorldStateOK
<1>5. /\ Holdings(t, proposer) = Holdings(s, proposer) + BlockReward
      /\ \A a \in Addr : a # proposer => Holdings(t, a) = Holdings(s, a)
  BY <1>1, <1>2, <1>3, <1>4 DEF Adjust, Holdings
<1>6. Wealth(t) = Wealth(s) + BlockReward
  BY <1>1, <1>5, WealthOne
<1>7. Queued(t) = Queued(s)
  BY <1>3 DEF Queued
<1> QED BY <1>1, <1>2, <1>3, <1>6, <1>7, WorthParts DEF t

\* Everything about sums over a part of the unbonding queue.
LEMMA QueueSums ==
  ASSUME NEW s, WorldStateOK(s), NEW K \in SUBSET DOMAIN s.unbonding
  PROVE  /\ IsFiniteSet(K)
         /\ \A k \in K : s.unbonding[k].amount \in Nat
         /\ \A t : (\A k \in K : t[k].amount = s.unbonding[k].amount) /\ K \subseteq DOMAIN t
                     => UnbondingSum(t, K) = UnbondingSum(s.unbonding, K)
<1>1. IsFiniteSet(K)
  BY FS_Subset DEF WorldStateOK
<1>2. \A k \in K : s.unbonding[k].amount \in Nat
  BY DEF WorldStateOK
<1>3. ASSUME NEW t, \A k \in K : t[k].amount = s.unbonding[k].amount, K \subseteq DOMAIN t
      PROVE  UnbondingSum(t, K) = UnbondingSum(s.unbonding, K)
  <2> DEFINE f == [k \in DOMAIN s.unbonding |-> s.unbonding[k].amount]
             g == [k \in DOMAIN t |-> t[k].amount]
  <2>1. \A k \in K : f[k] \in Int /\ g[k] = f[k]
    BY <1>2, <1>3
  <2> HIDE DEF f, g
  <2>2. SumFunctionOnSet(g, K) = SumFunctionOnSet(f, K)
    BY <1>1, <2>1, SumEqual
  <2> QED BY <2>2 DEF UnbondingSum, f, g
<1> QED BY <1>1, <1>2, <1>3

\* The queue splits into a part and the rest.
LEMMA QueueSplit ==
  ASSUME NEW s, WorldStateOK(s), NEW K \in SUBSET DOMAIN s.unbonding, NEW L \in SUBSET K
  PROVE  UnbondingSum(s.unbonding, K)
           = UnbondingSum(s.unbonding, L) + UnbondingSum(s.unbonding, K \ L)
<1> DEFINE f == [k \in DOMAIN s.unbonding |-> s.unbonding[k].amount]
<1>1. IsFiniteSet(K) /\ \A k \in K : s.unbonding[k].amount \in Nat
  BY QueueSums
<1>2. \A k \in K : f[k] \in Int
  BY <1>1
<1> HIDE DEF f
<1>3. SumFunctionOnSet(f, K) = SumFunctionOnSet(f, L) + SumFunctionOnSet(f, K \ L)
  BY <1>1, <1>2, SumSplit
<1> QED BY <1>3 DEF UnbondingSum, f

\* by an unstake,
LEMMA WorthUnstake ==
  ASSUME NEW s, Good(s), NEW tx, tx.sender \in Addr, tx.amount \in Nat, NEW h \in Nat,
         ValidUnstake(s, tx)
  PROVE  Worth(ApplyUnstake(s, tx, h)) = Worth(s)
<1> DEFINE t == ApplyUnstake(s, tx, h)
           key == <<tx.sender, s.nonce[tx.sender] + 1>>
           old == DOMAIN s.unbonding
<1>1. WorldStateOK(s) /\ WorldStateOK(t)
  BY GoodUnstake DEF Good
<1>2. /\ Changed(s, t, {"staked", "nonce", "unbonding"})
      /\ t.staked = Adjust(s.staked, tx.sender, -tx.amount)
      /\ t.unbonding = MapPut(s.unbonding, key,
                              [amount |-> tx.amount, release |-> h + UnbondingPeriod])
  BY UnstakeEffect
<1>3. key \notin old
  BY <1>1 DEF Good, FreshOK, WorldStateOK
<1> HIDE DEF t, key
<1>4. t.balance = s.balance /\ t.postStaked = s.postStaked /\ t.issued = s.issued
      /\ t.burned = s.burned
  BY <1>2 DEF Changed, Fields
<1>5. /\ s.balance \in [Addr -> Nat] /\ s.staked \in [Addr -> Nat]
      /\ s.postStaked \in [Addr -> Nat]
  BY <1>1 DEF WorldStateOK
<1>6. /\ Holdings(t, tx.sender) = Holdings(s, tx.sender) + (-tx.amount)
      /\ \A a \in Addr : a # tx.sender => Holdings(t, a) = Holdings(s, a)
  BY <1>2, <1>4, <1>5 DEF Holdings, Adjust
<1>7. Wealth(t) = Wealth(s) + (-tx.amount)
  <2>1. -tx.amount \in Int
    OBVIOUS
  <2> QED BY <1>1, <1>6, <2>1, WealthOne
<1>8. Queued(t) = Queued(s) + tx.amount
  <2>1. /\ DOMAIN t.unbonding = old \cup {key}
        /\ t.unbonding[key].amount = tx.amount
        /\ \A k \in old : t.unbonding[k] = s.unbonding[k]
    BY <1>2, <1>3 DEF MapPut
  <2> DEFINE f == [k \in DOMAIN t.unbonding |-> t.unbonding[k].amount]
  <2>2. f[key] = tx.amount /\ \A k \in DOMAIN t.unbonding : f[k] \in Int
    BY <1>1, <2>1 DEF WorldStateOK
  <2>3. DOMAIN t.unbonding \ {key} = old /\ key \in DOMAIN t.unbonding
        /\ IsFiniteSet(DOMAIN t.unbonding)
    BY <1>1, <1>3, <2>1 DEF WorldStateOK
  <2> HIDE DEF f
  <2>4. SumFunctionOnSet(f, DOMAIN t.unbonding) = f[key] + SumFunctionOnSet(f, old)
    BY <2>2, <2>3, SumRemove
  <2>5. UnbondingSum(t.unbonding, old) = UnbondingSum(s.unbonding, old)
    BY <1>1, <2>1, QueueSums
  <2>6. UnbondingSum(s.unbonding, old) \in Nat
    BY <1>1, UnbondingSumType
  <2> QED BY <2>2, <2>4, <2>5, <2>6 DEF Queued, UnbondingSum, f
<1> QED BY <1>1, <1>4, <1>7, <1>8, WorthParts DEF t

\* by a release,
LEMMA WorthRelease ==
  ASSUME NEW s, Good(s), NEW h \in Nat
  PROVE  Worth(ReleaseMatured(s, h)) = Worth(s)
<1> DEFINE t == ReleaseMatured(s, h)
           done == Matured(s.unbonding, h)
           all == DOMAIN s.unbonding
           d == [a \in Addr |-> UnbondingSum(s.unbonding, {k \in done : k[1] = a})]
<1>1. WorldStateOK(s) /\ WorldStateOK(t)
  BY GoodReleaseMatured DEF Good
<1>2. done \in SUBSET all
  BY DEF Matured
<1>3. \A a \in Addr : done \cap UnbondingOf(s.unbonding, a) = {k \in done : k[1] = a}
  BY <1>2 DEF UnbondingOf
<1>4. /\ Changed(s, t, {"accounts", "balance", "unbonding"})
      /\ t.balance = [a \in Addr |-> s.balance[a]
            + UnbondingSum(s.unbonding, done \cap UnbondingOf(s.unbonding, a))]
      /\ t.unbonding = MapDelete(s.unbonding, done)
  BY ReleaseEffect
<1>5. \A a \in Addr : d[a] \in Int /\ t.balance[a] = s.balance[a] + d[a]
  <2>1. ASSUME NEW a \in Addr PROVE UnbondingSum(s.unbonding, {k \in done : k[1] = a}) \in Nat
    BY <1>1, <1>2, UnbondingSumType
  <2> HIDE DEF done, t
  <2> QED BY <1>3, <1>4, <2>1
<1> HIDE DEF t, done
<1>6. t.staked = s.staked /\ t.postStaked = s.postStaked /\ t.issued = s.issued
      /\ t.burned = s.burned
  BY <1>4 DEF Changed, Fields
<1>7. /\ s.balance \in [Addr -> Nat] /\ s.staked \in [Addr -> Nat]
      /\ s.postStaked \in [Addr -> Nat]
  BY <1>1 DEF WorldStateOK
<1>8. SumFunctionOnSet(d, Addr) = UnbondingSum(s.unbonding, done)
  <2> DEFINE f == [k \in all |-> s.unbonding[k].amount]
  <2>1. IsFiniteSet(done)
    BY <1>1, <1>2, QueueSums
  <2>2. \A k \in done : f[k] \in Int /\ k[1] \in Addr
    BY <1>1, <1>2 DEF WorldStateOK
  <2>3. d = [a \in Addr |-> SumFunctionOnSet(f, {k \in done : k[1] = a})]
    BY DEF UnbondingSum
  <2> HIDE DEF f, d
  <2>4. SumFunctionOnSet([a \in Addr |-> SumFunctionOnSet(f, {k \in done : k[1] = a})], Addr)
          = SumFunctionOnSet(f, done)
    BY <2>1, <2>2, SumFibers, AddrFinite
  <2> QED BY <2>3, <2>4 DEF UnbondingSum, f
<1>9. Wealth(t) = Wealth(s) + UnbondingSum(s.unbonding, done)
  <2>1. \A a \in Addr : d[a] \in Int /\ Holdings(t, a) = Holdings(s, a) + d[a]
    <3> HIDE DEF d
    <3> QED BY <1>5, <1>6, <1>7 DEF Holdings
  <2> HIDE DEF d
  <2>2. Wealth(t) = Wealth(s) + SumFunctionOnSet(d, Addr)
    BY <1>1, <2>1, WealthShift
  <2> QED BY <1>8, <2>2
<1>10. Queued(s) = UnbondingSum(s.unbonding, done) + Queued(t)
  <2>1. DOMAIN t.unbonding = all \ done /\ \A k \in all \ done : t.unbonding[k] = s.unbonding[k]
    BY <1>4 DEF MapDelete, Restrict
  <2>2. UnbondingSum(t.unbonding, all \ done) = UnbondingSum(s.unbonding, all \ done)
    BY <1>1, <2>1, QueueSums
  <2>3. UnbondingSum(s.unbonding, all)
          = UnbondingSum(s.unbonding, done) + UnbondingSum(s.unbonding, all \ done)
    BY <1>1, <1>2, QueueSplit
  <2> QED BY <2>1, <2>2, <2>3 DEF Queued
<1>11. UnbondingSum(s.unbonding, done) \in Nat
  BY <1>1, <1>2, UnbondingSumType
<1> QED BY <1>1, <1>6, <1>9, <1>10, <1>11, WorthParts DEF t

\* Oldest first: what SlashUnbonding takes from the entries of a up to some
\* nonce is all they hold, or all there is to take.
LEMMA SlashPrefix ==
  ASSUME NEW s, WorldStateOK(s), NEW a \in Addr, NEW n \in Nat
  PROVE  /\ \A k \in DOMAIN s.unbonding :
              /\ SlashTaken(s.unbonding, a, n, k) \in Nat
              /\ SlashTaken(s.unbonding, a, n, k) <= s.unbonding[k].amount
         /\ SumFunctionOnSet([k \in DOMAIN s.unbonding |-> SlashTaken(s.unbonding, a, n, k)],
                             UnbondingOf(s.unbonding, a))
              = Least(n, UnbondingBalanceFor(s.unbonding, a))
<1> DEFINE q == s.unbonding
           U == UnbondingOf(q, a)
           Older(k) == {j \in U : j[2] < k[2]}
           f == [k \in DOMAIN q |-> SlashTaken(q, a, n, k)]
           Total(T) == UnbondingSum(q, T)
           Initial(T) == \A k \in T : \A j \in U : j[2] < k[2] => j \in T
           G == {T \in SUBSET U : Initial(T) => SumFunctionOnSet(f, T) = Least(n, Total(T))}
<1>1. U \subseteq DOMAIN q /\ \A k \in U : k = <<a, k[2]>> /\ k[2] \in Nat
  BY DEF UnbondingOf, WorldStateOK
<1>2. \A k \in DOMAIN q : q[k].amount \in Nat
  BY DEF WorldStateOK
<1>3. \A T \in SUBSET U : Total(T) \in Nat /\ IsFiniteSet(T)
  <2> TAKE T \in SUBSET U
  <2>1. T \in SUBSET DOMAIN s.unbonding
    BY <1>1
  <2> QED BY <2>1, UnbondingSumType, QueueSums
<1>4. \A k : Older(k) \in SUBSET U
  OBVIOUS
<1>5. \A k \in DOMAIN q :
        f[k] = IF k[1] # a \/ n <= Total(Older(k)) THEN 0
               ELSE Least(q[k].amount, n - Total(Older(k)))
  BY DEF SlashTaken
<1> HIDE DEF f, Total, Older
<1>6. \A k \in DOMAIN q : f[k] \in Nat /\ f[k] <= q[k].amount
  <2> TAKE k \in DOMAIN q
  <2>1. Total(Older(k)) \in Nat /\ q[k].amount \in Nat
    BY <1>2, <1>3, <1>4
  <2> QED BY <1>5, <2>1 DEF Least
<1>7. \A T \in SUBSET U : (\A x \in T : T \ {x} \in G) => T \in G
  <2> SUFFICES ASSUME NEW T \in SUBSET U, \A x \in T : T \ {x} \in G, Initial(T)
               PROVE  SumFunctionOnSet(f, T) = Least(n, Total(T))
    OBVIOUS
  <2>1. CASE T = {}
    <3>1. SumFunctionOnSet(f, T) = 0 /\ Total(T) = 0
      BY <2>1, SumEmpty DEF Total, UnbondingSum
    <3> QED BY <3>1 DEF Least
  <2>2. CASE T # {}
    <3> DEFINE nonce == [k \in T |-> k[2]]
    <3>1. \A k \in T : nonce[k] \in Int
      BY <1>1
    <3> HIDE DEF nonce
    <3>2. PICK k \in T : \A j \in T : nonce[j] <= nonce[k]
      BY <1>3, <2>2, <3>1, Largest
    <3>3. \A j \in T : j[2] <= k[2] /\ j[2] \in Nat /\ j = <<a, j[2]>>
      BY <1>1, <3>2 DEF nonce
    <3>4. Older(k) = T \ {k}
      <4>1. \A j \in Older(k) : j \in T /\ j # k
        BY <3>3 DEF Older
      <4>2. \A j \in T \ {k} : j[2] < k[2]
        <5> TAKE j \in T \ {k}
        <5>1. j[2] # k[2]
          BY <3>3
        <5> QED BY <3>3, <5>1
      <4> QED BY <4>1, <4>2 DEF Older
    <3>5. Initial(T \ {k})
      <4> SUFFICES ASSUME NEW i \in T \ {k}, NEW j \in U, j[2] < i[2] PROVE j \in T \ {k}
        OBVIOUS
      <4>1. j \in T
        OBVIOUS
      <4>2. j # k
        BY <3>3
      <4> QED BY <4>1, <4>2
    <3>6. SumFunctionOnSet(f, T \ {k}) = Least(n, Total(T \ {k}))
      BY <3>5
    <3>7. SumFunctionOnSet(f, T) = f[k] + SumFunctionOnSet(f, T \ {k})
      <4>1. \A x \in T : f[x] \in Int
        BY <1>1, <1>6
      <4> QED BY <1>3, <4>1, SumRemove
    <3>8. Total(T) = q[k].amount + Total(T \ {k})
      <4> DEFINE g == [x \in DOMAIN q |-> q[x].amount]
      <4>1. \A x \in T : g[x] \in Int
        BY <1>1, <1>2
      <4>2. g[k] = q[k].amount
        BY <1>1
      <4> HIDE DEF g
      <4>3. SumFunctionOnSet(g, T) = g[k] + SumFunctionOnSet(g, T \ {k})
        BY <1>3, <4>1, SumRemove
      <4> QED BY <4>2, <4>3 DEF Total, UnbondingSum, g
    <3>9. k \in DOMAIN q /\ k[1] = a
      BY <1>1
    <3>10. f[k] = IF n <= Total(T \ {k}) THEN 0 ELSE Least(q[k].amount, n - Total(T \ {k}))
      BY <1>5, <3>4, <3>9
    <3>11. Total(T \ {k}) \in Nat /\ q[k].amount \in Nat
      BY <1>2, <1>3, <3>9
    <3> QED BY <3>6, <3>7, <3>8, <3>10, <3>11 DEF Least
  <2> QED BY <2>1, <2>2
<1>8. IsFiniteSet(U)
  BY <1>3
<1> HIDE DEF G
<1>9. U \in G
  BY <1>7, <1>8, SubsetInduction
<1>10. SumFunctionOnSet(f, U) = Least(n, Total(U))
  BY <1>9 DEF G
<1> QED BY <1>6, <1>10 DEF f, Total, UnbondingBalanceFor

\* SlashUnbonding takes exactly n out of the queue when there is so much.
LEMMA SlashExact ==
  ASSUME NEW s, WorldStateOK(s), NEW a \in Addr, NEW n \in Nat,
         n <= UnbondingBalanceFor(s.unbonding, a)
  PROVE  LET q == SlashUnbonding(s.unbonding, a, n)
         IN  UnbondingSum(q, DOMAIN q) = Queued(s) - n
<1> DEFINE all == DOMAIN s.unbonding
           U == UnbondingOf(s.unbonding, a)
           f == [k \in all |-> s.unbonding[k].amount]
           g == [k \in all |-> SlashTaken(s.unbonding, a, n, k)]
           rest == [k \in all |-> f[k] - g[k]]
           q == SlashUnbonding(s.unbonding, a, n)
<1>1. /\ \A k \in all : g[k] \in Nat /\ g[k] <= f[k] /\ f[k] \in Nat
      /\ SumFunctionOnSet(g, U) = Least(n, UnbondingBalanceFor(s.unbonding, a))
  BY SlashPrefix DEF WorldStateOK
<1>2. \A k \in all \ U : g[k] = 0
  BY DEF SlashTaken, UnbondingOf
<1>3. /\ DOMAIN q = {k \in all : rest[k] > 0}
      /\ \A k \in DOMAIN q : q[k].amount = rest[k]
  <2>1. /\ DOMAIN q = {k \in all : rest[k] > 0}
        /\ \A k \in DOMAIN q : q[k] = [s.unbonding[k] EXCEPT !.amount = rest[k]]
    BY DEF SlashUnbonding
  <2>2. \A k \in all : s.unbonding[k] \in [amount: Nat, release: Nat]
    BY DEF WorldStateOK
  <2> HIDE DEF q, rest
  <2> QED BY <2>1, <2>2
<1>4. \A k \in all : rest[k] \in Nat /\ f[k] \in Int /\ g[k] \in Int /\ f[k] = rest[k] + g[k]
  <2>1. ASSUME NEW x \in Nat, NEW y \in Nat, y <= x
        PROVE  x - y \in Nat /\ x \in Int /\ y \in Int /\ x = (x - y) + y
    BY <2>1
  <2> HIDE DEF f, g
  <2> QED BY <1>1, <2>1
<1>5. IsFiniteSet(all) /\ U \in SUBSET all
  BY DEF WorldStateOK, UnbondingOf
<1>6. UnbondingBalanceFor(s.unbonding, a) \in Nat
  BY <1>5, UnbondingSumType DEF UnbondingBalanceFor
<1> HIDE DEF f, g, rest, q
<1>7. SumFunctionOnSet(g, all) = n
  <2>1. SumFunctionOnSet(g, all) = SumFunctionOnSet(g, U) + SumFunctionOnSet(g, all \ U)
    BY <1>4, <1>5, SumSplit
  <2>2. SumFunctionOnSet(g, all \ U) = 0
    <3>1. IsFiniteSet(all \ U)
      BY <1>5, FS_Subset
    <3> QED BY <1>2, <3>1, SumZero
  <2> QED BY <1>1, <1>6, <2>1, <2>2 DEF Least
<1>8. SumFunctionOnSet(f, all) = SumFunctionOnSet(rest, all) + SumFunctionOnSet(g, all)
  <2>1. \A k \in all : rest[k] \in Int /\ g[k] \in Int /\ f[k] = rest[k] + g[k]
    BY <1>4
  <2> QED BY <1>5, <2>1, SumAdd
<1>9. SumFunctionOnSet(rest, all) = SumFunctionOnSet(rest, DOMAIN q)
  <2>1. DOMAIN q \in SUBSET all
    BY <1>3
  <2>2. \A k \in all : rest[k] \in Int
    BY <1>4
  <2>3. SumFunctionOnSet(rest, all)
          = SumFunctionOnSet(rest, DOMAIN q) + SumFunctionOnSet(rest, all \ DOMAIN q)
    BY <1>5, <2>1, <2>2, SumSplit
  <2>4. IsFiniteSet(all \ DOMAIN q) /\ IsFiniteSet(DOMAIN q)
    BY <1>5, <2>1, FS_Subset
  <2>5. \A k \in all \ DOMAIN q : rest[k] = 0
    BY <1>3, <1>4
  <2>6. SumFunctionOnSet(rest, all \ DOMAIN q) = 0
    BY <2>4, <2>5, SumZero
  <2>7. SumFunctionOnSet(rest, DOMAIN q) \in Int
    BY <2>1, <2>2, <2>4, SumType
  <2> QED BY <2>3, <2>6, <2>7
<1>10. UnbondingSum(q, DOMAIN q) = SumFunctionOnSet(rest, DOMAIN q)
  <2> DEFINE r == [k \in DOMAIN q |-> q[k].amount]
  <2>1. \A k \in DOMAIN q : rest[k] \in Int /\ r[k] = rest[k]
    BY <1>3, <1>4
  <2>2. IsFiniteSet(DOMAIN q)
    BY <1>3, <1>5, FS_Subset
  <2> HIDE DEF r
  <2>3. SumFunctionOnSet(r, DOMAIN q) = SumFunctionOnSet(rest, DOMAIN q)
    BY <2>1, <2>2, SumEqual
  <2> QED BY <2>3 DEF UnbondingSum, r
<1>11. SumFunctionOnSet(rest, all) \in Int
  BY <1>4, <1>5, SumType
<1> QED BY <1>7, <1>8, <1>9, <1>10, <1>11 DEF Queued, UnbondingSum, f, q

\* A slash never takes more than is at risk.
LEMMA SlashAmountBound ==
  ASSUME NEW s, WorldStateOK(s), NEW a \in Addr,
         s.staked[a] + UnbondingBalanceFor(s.unbonding, a) # 0
  PROVE  /\ SlashAmount(s, a) \in Nat
         /\ SlashAmount(s, a) <= s.staked[a] + UnbondingBalanceFor(s.unbonding, a)
         /\ UnbondingBalanceFor(s.unbonding, a) \in Nat
<1> DEFINE risk == s.staked[a] + UnbondingBalanceFor(s.unbonding, a)
<1>1. UnbondingBalanceFor(s.unbonding, a) \in Nat
  BY UnbondingSumType DEF UnbondingBalanceFor, UnbondingOf
<1>2. risk \in Nat /\ risk # 0
  BY <1>1 DEF WorldStateOK
<1>3. SlashAmount(s, a)
        = IF Percent(risk, SlashFraction) = 0 THEN 1 ELSE Percent(risk, SlashFraction)
  BY DEF SlashAmount, Percent
<1> HIDE DEF risk
<1>4. Percent(risk, SlashFraction) \in Nat /\ Percent(risk, SlashFraction) <= risk
  BY <1>2, PercentType, ParamAssumption
<1> QED BY <1>1, <1>2, <1>3, <1>4 DEF risk

\* by a slash, whose coins are counted as burned.
LEMMA WorthSlash ==
  ASSUME NEW s, Good(s), NEW a \in Addr, NEW eh \in Nat
  PROVE  Worth(ApplySlashEvidence(s, a, eh)) = Worth(s)
<1> DEFINE t == ApplySlashEvidence(s, a, eh)
<1>1. CASE ~ Slashable(s, a, eh)
  BY <1>1 DEF ApplySlashEvidence
<1>2. CASE Slashable(s, a, eh)
  <2> DEFINE amount == SlashAmount(s, a)
             part == Least(amount, s.staked[a])
             n == amount - part
  <2>1. WorldStateOK(s) /\ WorldStateOK(t)
    BY GoodSlash DEF Good
  <2>2. /\ amount \in Nat /\ UnbondingBalanceFor(s.unbonding, a) \in Nat
        /\ amount <= s.staked[a] + UnbondingBalanceFor(s.unbonding, a)
    BY <1>2, <2>1, SlashAmountBound DEF Slashable
  <2> HIDE DEF amount, t
  <2>3. /\ s.balance \in [Addr -> Nat] /\ s.staked \in [Addr -> Nat]
        /\ s.postStaked \in [Addr -> Nat]
    BY <2>1 DEF WorldStateOK
  <2>4. /\ part \in Nat /\ part <= s.staked[a] /\ n \in Nat
        /\ n <= UnbondingBalanceFor(s.unbonding, a)
    BY <2>2, <2>3 DEF Least
  <2> HIDE DEF part
  <2>5. /\ Changed(s, t, {"staked", "unbonding", "slashed", "burned"})
        /\ t.staked = Adjust(s.staked, a, -part)
        /\ t.unbonding = IF amount > part THEN SlashUnbonding(s.unbonding, a, n)
                         ELSE s.unbonding
        /\ t.burned = s.burned + amount
    BY <1>2, SlashEffect DEF amount, part, t
  <2>6. t.balance = s.balance /\ t.postStaked = s.postStaked /\ t.issued = s.issued
    BY <2>5 DEF Changed, Fields
  <2>7. /\ Holdings(t, a) = Holdings(s, a) + (-part)
        /\ \A b \in Addr : b # a => Holdings(t, b) = Holdings(s, b)
    BY <2>3, <2>4, <2>5, <2>6 DEF Holdings, Adjust
  <2>8. Wealth(t) = Wealth(s) + (-part)
    <3>1. -part \in Int
      BY <2>4
    <3> QED BY <2>1, <2>7, <3>1, WealthOne
  <2>9. Queued(t) = Queued(s) - n
    <3>1. CASE amount > part
      BY <2>1, <2>4, <2>5, <3>1, SlashExact DEF Queued
    <3>2. CASE ~(amount > part)
      <4>1. n = 0 /\ Queued(t) = Queued(s)
        BY <2>2, <2>4, <2>5, <3>2 DEF Queued
      <4>2. Queued(s) \in Nat
        BY <2>1, WorthParts
      <4> QED BY <4>1, <4>2
    <3> QED BY <3>1, <3>2
  <2> QED BY <2>1, <2>2, <2>4, <2>5, <2>6, <2>8, <2>9, WorthParts DEF t
<1> QED BY <1>1, <1>2

\* A function that is c at b and 0 elsewhere.
LEMMA SumPoint ==
  ASSUME NEW S, IsFiniteSet(S), NEW b \in S, NEW c \in Int, NEW f,
         \A x \in S : f[x] = IF x = b THEN c ELSE 0
  PROVE  SumFunctionOnSet(f, S) = c
<1>1. \A x \in S : f[x] \in Int
  OBVIOUS
<1>2. SumFunctionOnSet(f, S) = f[b] + SumFunctionOnSet(f, S \ {b})
  BY <1>1, SumRemove
<1>3. IsFiniteSet(S \ {b}) /\ \A x \in S \ {b} : f[x] = 0
  BY FS_Subset
<1>4. SumFunctionOnSet(f, S \ {b}) = 0
  BY <1>3, SumZero
<1> QED BY <1>2, <1>4

\* What the stakers of post p get out of a reward.
Shares(s, p, reward) == SumFunctionOnSet([a \in Addr |-> Share(s, p, reward, a)], Addr)

\* Rounding down, in products.
LEMMA FloorBounds ==
  ASSUME NEW r \in Nat, NEW x \in Nat, NEW T \in Nat, T > 0
  PROVE  /\ MulDiv(r, x, T) \in Nat
         /\ T * MulDiv(r, x, T) <= r * x
         /\ r * x <= T * MulDiv(r, x, T) + (T - 1)
<1>1. r * x \in Nat
  OBVIOUS
<1>2. \A y \in Nat : y \div T \in Nat /\ T * (y \div T) <= y /\ y <= T * (y \div T) + (T - 1)
  OBVIOUS
<1> QED BY <1>1, <1>2 DEF MulDiv

\* The shares never exceed the reward, and while anything is staked on the
\* post less than one coin per staker is lost.
LEMMA SharesBound ==
  ASSUME NEW s, Good(s), NEW p \in DOMAIN s.posts, NEW reward \in Nat
  PROVE  /\ Shares(s, p, reward) \in Nat
         /\ Shares(s, p, reward) <= reward
         /\ s.posts[p].totalStaked > 0 /\ PostStakers(s, p) # {} =>
              reward - Shares(s, p, reward) < s.posts[p].stakerCount
<1> DEFINE T == s.posts[p].totalStaked
           P == PostStakers(s, p)
           st == [a \in Addr |-> StakeOf(s, p, a)]
           sh == [a \in Addr |-> Share(s, p, reward, a)]
           c == s.posts[p].stakerCount
<1>1. WorldStateOK(s)
  BY DEF Good
<1>2. T \in Nat /\ c \in Nat
  BY <1>1 DEF WorldStateOK, Post
<1>3. \A a \in Addr : st[a] \in Nat /\ sh[a] \in Nat
  BY <1>1, StakeOfType, ShareType
<1>4. T = SumFunctionOnSet(st, Addr) /\ c = Cardinality(P)
  BY DEF Good, StakesOK, StakedOn
<1>5. \A a \in Addr : sh[a] = IF T > 0 /\ a \in P THEN MulDiv(reward, st[a], T) ELSE 0
  BY DEF Share, Good, StakesOK, PostStakers, StakeOf
<1>6. \A a \in Addr \ P : st[a] = 0
  BY DEF StakeOf, PostStakers
<1>7. P \in SUBSET Addr /\ IsFiniteSet(P) /\ IsFiniteSet(Addr \ P) /\ Cardinality(P) \in Nat
  BY AddrFinite, FS_Subset, FS_CardinalityType DEF PostStakers
<1> HIDE DEF T, P, st, sh, c
<1>8. Shares(s, p, reward) = SumFunctionOnSet(sh, Addr)
  BY DEF Shares, sh
<1>9. SumFunctionOnSet(sh, Addr) \in Nat
  BY <1>3, SumNat, AddrFinite
<1>10. CASE T = 0
  <2>1. \A a \in Addr : sh[a] = 0
    BY <1>5, <1>10
  <2>2. SumFunctionOnSet(sh, Addr) = 0
    BY <2>1, SumZero, AddrFinite
  <2> QED BY <1>8, <1>10, <2>2 DEF T
<1>11. CASE T > 0
  <2> DEFINE lo == [a \in Addr |-> T * sh[a]]
             mid == [a \in Addr |-> reward * st[a]]
             e == [a \in Addr |-> IF a \in P THEN T - 1 ELSE 0]
             hi == [a \in Addr |-> lo[a] + e[a]]
             X == SumFunctionOnSet(sh, Addr)
  <2>1. \A a \in Addr : /\ lo[a] \in Int /\ mid[a] \in Int /\ e[a] \in Int /\ hi[a] \in Int
                        /\ lo[a] <= mid[a] /\ mid[a] <= hi[a]
    <3> TAKE a \in Addr
    <3>1. st[a] \in Nat /\ sh[a] \in Nat
      BY <1>3
    <3>2. CASE a \in P
      <4>1. sh[a] = MulDiv(reward, st[a], T)
        BY <1>5, <1>11, <3>2
      <4>2. T * sh[a] <= reward * st[a] /\ reward * st[a] <= T * sh[a] + (T - 1)
        BY <1>2, <1>11, <3>1, <4>1, FloorBounds
      <4>3. T * sh[a] \in Int /\ reward * st[a] \in Int
        BY <1>2, <3>1
      <4> QED BY <1>2, <3>2, <4>2, <4>3
    <3>3. CASE a \notin P
      <4>1. sh[a] = 0 /\ st[a] = 0
        BY <1>5, <1>6, <3>3
      <4>2. T * 0 = 0 /\ reward * 0 = 0
        BY <1>2
      <4>3. lo[a] = 0 /\ mid[a] = 0
        BY <4>1, <4>2
      <4>4. e[a] = 0
        BY <3>3
      <4> HIDE DEF lo, mid, e
      <4> QED BY <4>3, <4>4
    <3> QED BY <3>2, <3>3
  <2>2. SumFunctionOnSet(lo, Addr) = T * X
    <3>1. \A a \in Addr : sh[a] \in Int /\ lo[a] = T * sh[a]
      BY <1>3
    <3>2. T \in Int
      BY <1>2
    <3> HIDE DEF lo
    <3> QED BY ONLY <3>1, <3>2, SumScale, AddrFinite, SMTT(30)
  <2>3. SumFunctionOnSet(mid, Addr) = reward * T
    <3>1. \A a \in Addr : st[a] \in Int /\ mid[a] = reward * st[a]
      BY <1>3
    <3>2. reward \in Int
      OBVIOUS
    <3> HIDE DEF mid
    <3>3. SumFunctionOnSet(mid, Addr) = reward * SumFunctionOnSet(st, Addr)
      BY ONLY <3>1, <3>2, SumScale, AddrFinite, SMTT(30)
    <3> QED BY <1>4, <3>3
  <2>4. SumFunctionOnSet(hi, Addr) = SumFunctionOnSet(lo, Addr) + SumFunctionOnSet(e, Addr)
    <3>1. \A a \in Addr : lo[a] \in Int /\ e[a] \in Int /\ hi[a] = lo[a] + e[a]
      BY <2>1
    <3> HIDE DEF hi, lo, e
    <3> QED BY ONLY <3>1, SumAdd, AddrFinite
  <2>5. SumFunctionOnSet(e, Addr) = (T - 1) * c
    <3>1. \A a \in Addr : e[a] \in Int
      BY <2>1
    <3>2. \A a \in P : e[a] = T - 1
      BY <1>7
    <3>3. \A a \in Addr \ P : e[a] = 0
      OBVIOUS
    <3>4. T - 1 \in Int
      BY <1>2
    <3> HIDE DEF e
    <3>5. SumFunctionOnSet(e, Addr) = SumFunctionOnSet(e, P) + SumFunctionOnSet(e, Addr \ P)
      BY <1>7, <3>1, SumSplit, AddrFinite
    <3>6. SumFunctionOnSet(e, P) = (T - 1) * Cardinality(P)
      BY ONLY <1>7, <3>2, <3>4, SumConstant
    <3>7. SumFunctionOnSet(e, Addr \ P) = 0
      BY <1>7, <3>3, SumZero
    <3>8. (T - 1) * Cardinality(P) \in Int
      BY <1>7, <3>4
    <3> QED BY <1>4, <3>5, <3>6, <3>7, <3>8
  <2> HIDE DEF lo, mid, e, hi
  <2>6. SumFunctionOnSet(lo, Addr) <= SumFunctionOnSet(mid, Addr)
    <3>1. \A a \in Addr : lo[a] \in Int /\ mid[a] \in Int /\ lo[a] <= mid[a]
      BY <2>1
    <3> QED BY ONLY <3>1, SumMonotone, AddrFinite
  <2>7. SumFunctionOnSet(mid, Addr) <= SumFunctionOnSet(hi, Addr)
    <3>1. \A a \in Addr : mid[a] \in Int /\ hi[a] \in Int /\ mid[a] <= hi[a]
      BY <2>1
    <3> QED BY ONLY <3>1, SumMonotone, AddrFinite
  <2>8. T * X <= reward * T /\ reward * T <= T * X + (T - 1) * c
    BY <2>2, <2>3, <2>4, <2>5, <2>6, <2>7
  <2> HIDE DEF X
  <2>9. X \in Nat
    BY <1>9 DEF X
  <2>10. X <= reward
    <3>1. \A x, r \in Nat : T * x <= r * T => x <= r
      <4> SUFFICES ASSUME NEW x \in Nat, NEW r \in Nat, x >= r + 1 PROVE ~(T * x <= r * T)
        OBVIOUS
      <4>1. T * x >= T * (r + 1)
        BY <1>2
      <4>2. T * (r + 1) = r * T + T
        BY <1>2
      <4> QED BY <1>2, <1>11, <4>1, <4>2
    <3> QED BY <2>8, <2>9, <3>1
  <2>11. P # {} => reward - X < c
    <3> SUFFICES ASSUME P # {}, reward - X >= c PROVE FALSE
      BY <1>2, <2>9
    <3>1. c > 0
      <4>1. Cardinality(P) # 0
        BY <1>7, FS_EmptySet
      <4> QED BY <1>2, <1>4, <4>1
    <3>2. reward * T - T * X = T * (reward - X)
      BY <1>2, <2>9
    <3>3. T * (reward - X) >= T * c
      <4>1. \A y, z \in Nat : y >= z => T * y >= T * z
        BY <1>2
      <4>2. reward - X \in Nat
        BY <2>9, <2>10
      <4> QED BY <1>2, <4>1, <4>2
    <3>4. T * c = (T - 1) * c + c
      BY <1>2
    <3>5. reward * T \in Int /\ T * X \in Int /\ (T - 1) * c \in Int /\ T * c \in Int
          /\ T * (reward - X) \in Int
      BY <1>2, <2>9
    <3> QED BY <1>2, <2>8, <3>1, <3>2, <3>3, <3>4, <3>5
  <2> QED BY <1>8, <1>9, <2>10, <2>11 DEF X, T, P, c
<1> QED BY <1>2, <1>10, <1>11

\* The balances after a boost.
LEMMA BoostBalances ==
  ASSUME NEW s, Good(s), NEW tx
  PROVE  ApplyBoostPost(s, tx).balance =
           [a \in Addr |-> s.balance[a]
              + ((IF a = s.posts[tx.post].author /\ a \in s.accounts
                  THEN Percent(tx.amount, AuthorPct) ELSE 0)
                 + Share(s, tx.post, Percent(tx.amount, StakerPct), a)
                 - (IF a = tx.sender THEN tx.amount ELSE 0))]
BY DEF ApplyBoostPost, Good, WorldStateOK, Fields

\* A boost loses what the shares leave of the staker reward, and nothing else.
LEMMA WorthBoost ==
  ASSUME NEW s, Good(s), WithdrawalOK(s), NEW tx, tx.sender \in Addr, tx.amount \in Nat,
         ValidBoostPost(s, tx)
  PROVE  LET reward == Percent(tx.amount, StakerPct)
         IN  Worth(ApplyBoostPost(s, tx)) = Worth(s) - (reward - Shares(s, tx.post, reward))
<1> DEFINE t == ApplyBoostPost(s, tx)
           burn == Percent(tx.amount, BurnPct)
           au == Percent(tx.amount, AuthorPct)
           reward == Percent(tx.amount, StakerPct)
           staked == BoostStaked(tx.amount)
           writer == s.posts[tx.post].author
           x == tx.sender
           sh == [a \in Addr |-> Share(s, tx.post, reward, a)]
<1>1. WorldStateOK(s) /\ WorldStateOK(t) /\ tx.post \in DOMAIN s.posts /\ x \in Addr
  BY GoodBoostPost DEF Good, ValidBoostPost
<1>2. writer \in Addr /\ writer \in s.accounts
  <2>1. writer \in PostStakers(s, tx.post)
    BY <1>1 DEF WithdrawalOK, ValidBoostPost
  <2> QED BY <2>1 DEF PostStakers, Good, StakesOK
<1>3. /\ burn \in Nat /\ au \in Nat /\ reward \in Nat /\ staked \in Nat
      /\ staked = tx.amount - burn - au - reward
  BY BoostSplit DEF BoostStaked
<1>4. \A a \in Addr : sh[a] \in Nat
  BY <1>1, <1>3, ShareType
<1>5. /\ Changed(s, t, {"balance", "postStaked", "nonce", "posts", "stakes", "burned"})
      /\ t.postStaked = Adjust(s.postStaked, x, staked)
      /\ t.burned = s.burned + burn
  BY <1>1, BoostPostEffect, ZenonT(60)
<1>6. \A a \in Addr : t.balance[a] = s.balance[a]
        + ((IF a = writer /\ a \in s.accounts THEN au ELSE 0) + sh[a]
           - (IF a = x THEN tx.amount ELSE 0))
  <2>1. t.balance = [a \in Addr |-> s.balance[a]
          + ((IF a = writer /\ a \in s.accounts THEN au ELSE 0)
             + Share(s, tx.post, reward, a) - (IF a = x THEN tx.amount ELSE 0))]
    BY BoostBalances
  <2>2. \A a \in Addr : sh[a] = Share(s, tx.post, reward, a)
    OBVIOUS
  <2> HIDE DEF t, au, reward, writer, x, sh
  <2> QED BY <2>1, <2>2
<1> DEFINE d1 == [a \in Addr |-> IF a = writer THEN au ELSE 0]
           d2 == [a \in Addr |-> IF a = x THEN staked - tx.amount ELSE 0]
           d3 == [a \in Addr |-> d1[a] + d2[a]]
           d == [a \in Addr |-> d3[a] + sh[a]]
<1> HIDE DEF t, burn, au, reward, staked, writer, x, sh
<1>7. t.staked = s.staked /\ t.unbonding = s.unbonding /\ t.issued = s.issued
  BY <1>5 DEF Changed, Fields
<1>8. /\ s.balance \in [Addr -> Nat] /\ s.staked \in [Addr -> Nat]
      /\ s.postStaked \in [Addr -> Nat]
  BY <1>1 DEF WorldStateOK
<1>9. \A a \in Addr : d1[a] \in Int /\ d2[a] \in Int /\ d3[a] \in Int /\ d[a] \in Int
  BY <1>3, <1>4
<1>10. \A a \in Addr : d[a] \in Int /\ Holdings(t, a) = Holdings(s, a) + d[a]
  <2> TAKE a \in Addr
  <2>1. t.balance[a] = s.balance[a] + ((IF a = writer THEN au ELSE 0) + sh[a]
                                       - (IF a = x THEN tx.amount ELSE 0))
    BY <1>2, <1>6
  <2>2. t.postStaked[a] = s.postStaked[a] + (IF a = x THEN staked ELSE 0)
    BY <1>3, <1>5, <1>8 DEF Adjust
  <2>3. d[a] = (IF a = writer THEN au ELSE 0) + (IF a = x THEN staked - tx.amount ELSE 0) + sh[a]
    OBVIOUS
  <2>4. sh[a] \in Nat /\ s.balance[a] \in Nat /\ s.staked[a] \in Nat /\ s.postStaked[a] \in Nat
    BY <1>4, <1>8
  <2> QED BY <1>3, <1>7, <1>9, <2>1, <2>2, <2>3, <2>4 DEF Holdings
<1>11. SumFunctionOnSet(d1, Addr) = au
  <2>1. \A a \in Addr : d1[a] = IF a = writer THEN au ELSE 0
    OBVIOUS
  <2> HIDE DEF d1
  <2> QED BY <1>2, <1>3, <2>1, SumPoint, AddrFinite
<1>12. SumFunctionOnSet(d2, Addr) = staked - tx.amount
  <2>1. \A a \in Addr : d2[a] = IF a = x THEN staked - tx.amount ELSE 0
    OBVIOUS
  <2>2. staked - tx.amount \in Int
    BY <1>3
  <2> HIDE DEF d2
  <2> QED BY <1>1, <2>1, <2>2, SumPoint, AddrFinite
<1>13. SumFunctionOnSet(d3, Addr) = SumFunctionOnSet(d1, Addr) + SumFunctionOnSet(d2, Addr)
  <2>1. \A a \in Addr : d1[a] \in Int /\ d2[a] \in Int /\ d3[a] = d1[a] + d2[a]
    BY <1>9
  <2> HIDE DEF d1, d2, d3
  <2> QED BY ONLY <2>1, SumAdd, AddrFinite
<1>14. SumFunctionOnSet(d, Addr) = SumFunctionOnSet(d3, Addr) + SumFunctionOnSet(sh, Addr)
  <2>1. \A a \in Addr : d3[a] \in Int /\ sh[a] \in Int /\ d[a] = d3[a] + sh[a]
    BY <1>4, <1>9
  <2> HIDE DEF d3, d
  <2> QED BY ONLY <2>1, SumAdd, AddrFinite
<1>15. Wealth(t) = Wealth(s) + SumFunctionOnSet(d, Addr)
  <2> HIDE DEF d
  <2> QED BY <1>1, <1>10, WealthShift
<1>16. SumFunctionOnSet(sh, Addr) = Shares(s, tx.post, reward)
  BY DEF sh, Shares
<1>17. Shares(s, tx.post, reward) \in Nat
  BY <1>1, <1>3, SharesBound
<1>18. Queued(t) = Queued(s)
  BY <1>7 DEF Queued
<1> HIDE DEF d, d1, d2, d3
<1>19. Worth(t) = Worth(s) - (reward - Shares(s, tx.post, reward))
  BY <1>1, <1>3, <1>5, <1>7, <1>11, <1>12, <1>13, <1>14, <1>15, <1>16, <1>17, <1>18, WorthParts
<1> QED BY <1>19 DEF t, reward

-------------------------------------------------------------------------------
(* One iteration of the evidence or the transaction loop of a block of      *)
(* height h takes the clone from s to t.                                    *)

Applied(s, t, h) ==
  \/ \E a \in Addr, eh \in EvidenceHeights : t = ApplySlashEvidence(s, a, eh)
  \/ \E tx : /\ tx.sender \in Addr /\ tx.recipient \in Addr /\ tx.amount \in Nat
             /\ ValidTransfer(s, tx) /\ t = ApplyTransfer(s, tx)
  \/ \E tx : /\ tx.sender \in Addr /\ tx.post \in DOMAIN s.posts \cup {None} /\ tx.amount \in Nat
             /\ ValidCreatePost(s, tx) /\ t = ApplyCreatePost(s, tx)
  \/ \E tx : /\ tx.sender \in Addr /\ tx.amount \in Nat
             /\ ValidBoostPost(s, tx) /\ t = ApplyBoostPost(s, tx)
  \/ \E tx : /\ tx.sender \in Addr
             /\ ValidUnstakePost(s, tx) /\ t = ApplyUnstakePost(s, tx)
  \/ \E tx : /\ tx.sender \in Addr /\ tx.name \in Names
             /\ ValidRegisterName(s, tx) /\ t = ApplyRegisterName(s, tx)
  \/ \E tx : /\ tx.sender \in Addr /\ tx.amount \in Nat
             /\ ValidStake(s, tx) /\ t = ApplyStake(s, tx)
  \/ \E tx : /\ tx.sender \in Addr /\ tx.amount \in Nat
             /\ ValidUnstake(s, tx) /\ t = ApplyUnstake(s, tx, h)

\* Every step of the specification is the beginning or the end of ApplyBlock
\* or such an iteration.
LEMMA StepCases ==
  ASSUME IInv, [Next]_vars
  PROVE  \/ BeginBlock
         \/ phase # "idle" /\ phase' # "idle" /\ ws' = ws /\ Applied(wk, wk', H)
         \/ RejectBlock
         \/ \E p \in Addr : CommitBlock(p)
         \/ UNCHANGED vars
<1> DEFINE Goal == \/ BeginBlock
                   \/ phase # "idle" /\ phase' # "idle" /\ ws' = ws /\ Applied(wk, wk', H)
                   \/ RejectBlock
                   \/ \E p \in Addr : CommitBlock(p)
                   \/ UNCHANGED vars
<1>1. ASSUME NEW a \in Addr, NEW eh \in EvidenceHeights, SlashEvidence(a, eh) PROVE Goal
  BY <1>1 DEF SlashEvidence, Applied
<1>2. ASSUME NEW a \in Addr, NEW r \in Addr, NEW n \in Nonces, NEW amt \in TransferAmounts,
             Transfer(a, n, r, amt)
      PROVE  Goal
  <2> DEFINE tx == [sender |-> a, nonce |-> n, recipient |-> r, amount |-> amt]
  <2>1. tx.sender \in Addr /\ tx.recipient \in Addr /\ tx.amount \in Nat
    BY BoundAssumption
  <2> HIDE DEF tx
  <2>2. ValidTransfer(wk, tx) /\ wk' = ApplyTransfer(wk, tx)
        /\ phase # "idle" /\ phase' = "txs" /\ ws' = ws
    BY <1>2 DEF Transfer, Execute, tx
  <2> QED BY <2>1, <2>2 DEF Applied
<1>3. ASSUME NEW a \in Addr, NEW n \in Nonces, NEW p \in DOMAIN wk.posts \cup {None},
             NEW amt \in CommitAmounts, CreatePost(a, n, p, amt)
      PROVE  Goal
  <2> DEFINE tx == [sender |-> a, nonce |-> n, post |-> p, amount |-> amt]
  <2>1. tx.sender \in Addr /\ tx.post \in DOMAIN wk.posts \cup {None} /\ tx.amount \in Nat
    BY BoundAssumption
  <2> HIDE DEF tx
  <2>2. ValidCreatePost(wk, tx) /\ wk' = ApplyCreatePost(wk, tx)
        /\ phase # "idle" /\ phase' = "txs" /\ ws' = ws
    BY <1>3 DEF CreatePost, Execute, tx
  <2> QED BY <2>1, <2>2 DEF Applied
<1>4. ASSUME NEW a \in Addr, NEW n \in Nonces, NEW p \in DOMAIN wk.posts,
             NEW amt \in CommitAmounts, BoostPost(a, n, p, amt)
      PROVE  Goal
  <2> DEFINE tx == [sender |-> a, nonce |-> n, post |-> p, amount |-> amt]
  <2>1. tx.sender \in Addr /\ tx.amount \in Nat
    BY BoundAssumption
  <2> HIDE DEF tx
  <2>2. ValidBoostPost(wk, tx) /\ wk' = ApplyBoostPost(wk, tx)
        /\ phase # "idle" /\ phase' = "txs" /\ ws' = ws
    BY <1>4 DEF BoostPost, Execute, tx
  <2> QED BY <2>1, <2>2 DEF Applied
<1>5. ASSUME NEW a \in Addr, NEW n \in Nonces, NEW p \in DOMAIN wk.posts, UnstakePost(a, n, p)
      PROVE  Goal
  <2> DEFINE tx == [sender |-> a, nonce |-> n, post |-> p]
  <2>1. tx.sender \in Addr
    OBVIOUS
  <2> HIDE DEF tx
  <2>2. ValidUnstakePost(wk, tx) /\ wk' = ApplyUnstakePost(wk, tx)
        /\ phase # "idle" /\ phase' = "txs" /\ ws' = ws
    BY <1>5 DEF UnstakePost, Execute, tx
  <2> QED BY <2>1, <2>2 DEF Applied
<1>6. ASSUME NEW a \in Addr, NEW n \in Nonces, NEW name \in Names, RegisterName(a, n, name)
      PROVE  Goal
  <2> DEFINE tx == [sender |-> a, nonce |-> n, name |-> name, amount |-> 0]
  <2>1. tx.sender \in Addr /\ tx.name \in Names
    OBVIOUS
  <2> HIDE DEF tx
  <2>2. ValidRegisterName(wk, tx) /\ wk' = ApplyRegisterName(wk, tx)
        /\ phase # "idle" /\ phase' = "txs" /\ ws' = ws
    BY <1>6 DEF RegisterName, Execute, tx
  <2> QED BY <2>1, <2>2 DEF Applied
<1>7. ASSUME NEW a \in Addr, NEW n \in Nonces, NEW amt \in StakeAmounts, Stake(a, n, amt)
      PROVE  Goal
  <2> DEFINE tx == [sender |-> a, nonce |-> n, amount |-> amt]
  <2>1. tx.sender \in Addr /\ tx.amount \in Nat
    BY BoundAssumption
  <2> HIDE DEF tx
  <2>2. ValidStake(wk, tx) /\ wk' = ApplyStake(wk, tx)
        /\ phase # "idle" /\ phase' = "txs" /\ ws' = ws
    BY <1>7 DEF Stake, Execute, tx
  <2> QED BY <2>1, <2>2 DEF Applied
<1>8. ASSUME NEW a \in Addr, NEW n \in Nonces, NEW amt \in StakeAmounts, Unstake(a, n, amt)
      PROVE  Goal
  <2> DEFINE tx == [sender |-> a, nonce |-> n, amount |-> amt]
  <2>1. tx.sender \in Addr /\ tx.amount \in Nat
    BY BoundAssumption
  <2> HIDE DEF tx
  <2>2. ValidUnstake(wk, tx) /\ wk' = ApplyUnstake(wk, tx, H)
        /\ phase # "idle" /\ phase' = "txs" /\ ws' = ws
    BY <1>8 DEF Unstake, Execute, tx
  <2> QED BY <2>1, <2>2 DEF Applied
<1>9. ASSUME NEW p \in Proposers, CommitBlock(p) PROVE Goal
  BY <1>9, ProposerType DEF IInv
<1>10. ASSUME Terminating PROVE Goal
  BY <1>10 DEF Terminating
<1> HIDE DEF Goal
<1>11. BeginBlock \/ RejectBlock \/ UNCHANGED vars => Goal
  BY DEF Goal
<1> QED BY <1>1, <1>2, <1>3, <1>4, <1>5, <1>6, <1>7, <1>8, <1>9, <1>10, <1>11 DEF Next, Goal

-------------------------------------------------------------------------------
(* The first strengthening: what is safe about one world state. *)

Safe(s) == Good(s) /\ Sound(s) /\ Worth(s) <= GenesisSupply

\* The coins of a state are a number.
LEMMA SupplyType == GenesisSupply \in Nat /\ \A s : WorldStateOK(s) => Worth(s) \in Int
<1>1. GenesisSupply \in Nat
  <2> DEFINE f == [a \in Addr |-> InitialBalance(a)]
  <2>1. \A a \in Addr : f[a] \in Nat
    BY GenesisAssumption DEF InitialBalance
  <2> HIDE DEF f
  <2>2. SumFunctionOnSet(f, Addr) \in Nat
    BY <2>1, SumNat, AddrFinite
  <2> QED BY <2>2 DEF GenesisSupply, f
<1>2. ASSUME NEW s, WorldStateOK(s) PROVE Worth(s) \in Int
  BY <1>2, WorthParts
<1> QED BY <1>1, <1>2

\* A boost takes the coins down by the rounding of the shares, or leaves them.
LEMMA BoostLoses ==
  ASSUME NEW s, Good(s), WithdrawalOK(s), NEW tx, tx.sender \in Addr, tx.amount \in Nat,
         ValidBoostPost(s, tx)
  PROVE  /\ Worth(ApplyBoostPost(s, tx)) <= Worth(s)
         /\ s.posts[tx.post].totalStaked > 0 =>
              Worth(s) - Worth(ApplyBoostPost(s, tx)) < s.posts[tx.post].stakerCount
<1> DEFINE reward == Percent(tx.amount, StakerPct)
           X == Shares(s, tx.post, reward)
<1>1. tx.post \in DOMAIN s.posts /\ reward \in Nat /\ WorldStateOK(s)
  BY BoostSplit DEF ValidBoostPost, Good
<1>2. PostStakers(s, tx.post) # {}
  BY <1>1 DEF WithdrawalOK, ValidBoostPost
<1>3. Worth(ApplyBoostPost(s, tx)) = Worth(s) - (reward - X)
  BY WorthBoost
<1> HIDE DEF reward
<1>4. X \in Nat /\ X <= reward
      /\ (s.posts[tx.post].totalStaked > 0 => reward - X < s.posts[tx.post].stakerCount)
  BY <1>1, <1>2, SharesBound
<1>5. Worth(s) \in Int
  BY <1>1, SupplyType
<1> HIDE DEF X
<1> QED BY <1>1, <1>3, <1>4, <1>5

\* A transaction or a slash keeps the invariant,
LEMMA SafeApplied ==
  ASSUME NEW s, NEW t, NEW h \in Nat, Safe(s), Applied(s, t, h)
  PROVE  Safe(t)
<1>0. Good(s) /\ Sound(s) /\ Worth(s) <= GenesisSupply /\ WithdrawalOK(s)
  BY DEF Safe, Sound
<1> USE DEF Safe
<1>1. ASSUME NEW a \in Addr, NEW eh \in EvidenceHeights, t = ApplySlashEvidence(s, a, eh)
      PROVE  Safe(t)
  BY <1>0, <1>1, GoodSlash, SoundSlash, WorthSlash, BoundAssumption
<1>2. ASSUME NEW tx, tx.sender \in Addr, tx.recipient \in Addr, tx.amount \in Nat,
             ValidTransfer(s, tx), t = ApplyTransfer(s, tx)
      PROVE  Safe(t)
  BY <1>0, <1>2, GoodTransfer, SoundTransfer, WorthTransfer
<1>3. ASSUME NEW tx, tx.sender \in Addr, tx.post \in DOMAIN s.posts \cup {None},
             tx.amount \in Nat, ValidCreatePost(s, tx), t = ApplyCreatePost(s, tx)
      PROVE  Safe(t)
  BY <1>0, <1>3, GoodCreatePost, SoundCreatePost, WorthCreatePost
<1>4. ASSUME NEW tx, tx.sender \in Addr, tx.amount \in Nat, ValidBoostPost(s, tx),
             t = ApplyBoostPost(s, tx)
      PROVE  Safe(t)
  <2>1. Good(t) /\ Sound(t)
    BY <1>0, <1>4, GoodBoostPost, SoundBoostPost
  <2>2. Worth(t) <= Worth(s)
    BY <1>0, <1>4, BoostLoses
  <2>3. Worth(t) \in Int /\ Worth(s) \in Int /\ GenesisSupply \in Int
    BY <1>0, <2>1, SupplyType DEF Good
  <2> QED BY <1>0, <2>1, <2>2, <2>3
<1>5. ASSUME NEW tx, tx.sender \in Addr, ValidUnstakePost(s, tx), t = ApplyUnstakePost(s, tx)
      PROVE  Safe(t)
  BY <1>0, <1>5, GoodUnstakePost, SoundUnstakePost, WorthUnstakePost
<1>6. ASSUME NEW tx, tx.sender \in Addr, tx.name \in Names, ValidRegisterName(s, tx),
             t = ApplyRegisterName(s, tx)
      PROVE  Safe(t)
  BY <1>0, <1>6, GoodRegisterName, SoundRegisterName, WorthRegisterName
<1>7. ASSUME NEW tx, tx.sender \in Addr, tx.amount \in Nat, ValidStake(s, tx),
             t = ApplyStake(s, tx)
      PROVE  Safe(t)
  BY <1>0, <1>7, GoodStake, SoundStake, WorthStake
<1>8. ASSUME NEW tx, tx.sender \in Addr, tx.amount \in Nat, ValidUnstake(s, tx),
             t = ApplyUnstake(s, tx, h)
      PROVE  Safe(t)
  BY <1>0, <1>8, GoodUnstake, SoundUnstake, WorthUnstake
<1> QED BY <1>1, <1>2, <1>3, <1>4, <1>5, <1>6, <1>7, <1>8 DEF Applied

\* and so does a release,
LEMMA SafeRelease ==
  ASSUME NEW s, Safe(s), NEW h \in Nat
  PROVE  Safe(ReleaseMatured(s, h))
BY GoodReleaseMatured, SoundRelease, WorthRelease DEF Safe

\* and so does the end of a block.
LEMMA SafeFinish ==
  ASSUME NEW s, Safe(s), NEW proposer \in Addr, NEW h \in Nat
  PROVE  Safe(FinishBlock(s, proposer, h))
BY GoodFinishBlock, SoundFinish, WorthFinish DEF Safe

\* It holds at genesis.
LEMMA SafeInitial == Safe(InitializeState)
<1> DEFINE s == InitializeState
           f == [a \in Addr |-> Holdings(s, a)]
           g == [a \in Addr |-> InitialBalance(a)]
<1>1. Good(s) /\ WorldStateOK(s)
  BY GoodInitial DEF Good
<1>2. /\ s.balance = [a \in Addr |-> InitialBalance(a) - InitialStake(a)]
      /\ s.staked = [a \in Addr |-> InitialStake(a)]
      /\ s.postStaked = [a \in Addr |-> 0]
      /\ DOMAIN s.unbonding = {} /\ s.burned = 0 /\ s.issued = 0
  BY DEF InitializeState
<1>3. \A a \in Addr : InitialBalance(a) \in Int /\ InitialStake(a) \in Int
  BY GenesisAssumption DEF InitialBalance, InitialStake
<1> HIDE DEF s
<1>4. \A a \in Addr : g[a] \in Int /\ f[a] = g[a]
  BY <1>2, <1>3 DEF Holdings
<1> HIDE DEF f, g
<1>5. SumFunctionOnSet(f, Addr) = SumFunctionOnSet(g, Addr)
  BY <1>4, SumEqual, AddrFinite
<1>6. Wealth(s) = GenesisSupply
  BY <1>5 DEF Wealth, GenesisSupply, f, g
<1>7. Queued(s) = 0
  BY <1>2, SumEmpty DEF Queued, UnbondingSum
<1>8. Worth(s) <= GenesisSupply
  BY <1>1, <1>2, <1>6, <1>7, WorthParts, SupplyType
<1> QED BY <1>1, <1>8, SoundInitial DEF Safe, s

-------------------------------------------------------------------------------
(* Between two states of the chain. *)

\* Every unbonding entry is released after h.
Later(s, h) == \A k \in DOMAIN s.unbonding : s.unbonding[k].release > h

\* s is in the epoch of its height.
EpochOK(s) == /\ s.epoch * EpochLength <= s.height
              /\ s.height < (s.epoch + 1) * EpochLength

\* The entries of a that outlast the epoch.
Lasting(s, a) ==
  {k \in UnbondingOf(s.unbonding, a) : s.unbonding[k].release > (s.epoch + 1) * EpochLength}

\* What is at risk for a validator up to the end of the epoch.
AtRisk(s, a) == s.staked[a] + UnbondingSum(s.unbonding, Lasting(s, a))

\* PowerIsBacked by what is still there at the end of the epoch.
BackedOK(s) ==
  \A a \in DOMAIN s.active :
    \/ s.active[a].power <= AtRisk(s, a)
    \/ \E eh \in EvidenceHeights : <<a, eh>> \in s.slashed
    \/ GenesisStake[a] = 0 /\ s.epoch = 0

\* What PostsArePermanent says of the posts before and after.
Kept(old, new) ==
  \A p \in DOMAIN old :
    /\ p \in DOMAIN new
    /\ new[p].author = old[p].author
    /\ new[p].parent = old[p].parent
    /\ new[p].totalBurned >= old[p].totalBurned
    /\ old[p].withdrawn => new[p] = old[p]

\* The inductive invariant.
LInv ==
  /\ Safe(ws) /\ Safe(wk)
  /\ phase = "idle" => wk = ws
  /\ wk.height = ws.height
  /\ UnbondingPeriod > 0 => /\ Later(ws, ws.height)
                            /\ phase # "idle" => Later(wk, ws.height + 1)
  /\ EpochLength > 0 /\ UnbondingPeriod >= EpochLength =>
       /\ EpochOK(ws) /\ wk.epoch = ws.epoch
       /\ BackedOK(ws) /\ BackedOK(wk)
  /\ Kept(ws.posts, wk.posts)

\* Neither the height nor the epoch moves within a block.
LEMMA AppliedFrame ==
  ASSUME NEW s, NEW t, NEW h, Good(s), Applied(s, t, h)
  PROVE  t.height = s.height /\ t.epoch = s.epoch
<1>1. ASSUME NEW F \in SUBSET (Fields \ {"height", "epoch"}), Changed(s, t, F)
      PROVE  t.height = s.height /\ t.epoch = s.epoch
  BY <1>1 DEF Changed, Fields
<1>2. ASSUME NEW a \in Addr, NEW eh \in EvidenceHeights, t = ApplySlashEvidence(s, a, eh)
      PROVE  t.height = s.height /\ t.epoch = s.epoch
  <2>1. CASE ~ Slashable(s, a, eh)
    BY <1>2, <2>1 DEF ApplySlashEvidence
  <2>2. CASE Slashable(s, a, eh)
    <3>1. Changed(s, t, {"staked", "unbonding", "slashed", "burned"})
      BY <1>2, <2>2, SlashEffect
    <3> QED BY <1>1, <3>1 DEF Fields
  <2> QED BY <2>1, <2>2
<1>3. ASSUME NEW tx, t = ApplyTransfer(s, tx)
      PROVE  t.height = s.height /\ t.epoch = s.epoch
  <2>1. Changed(s, t, {"accounts", "balance", "nonce"})
    BY <1>3, TransferEffect
  <2> QED BY <1>1, <2>1 DEF Fields
<1>4. ASSUME NEW tx, t = ApplyCreatePost(s, tx)
      PROVE  t.height = s.height /\ t.epoch = s.epoch
  <2>1. Changed(s, t, {"balance", "postStaked", "nonce", "posts", "stakes", "burned"})
    BY <1>4, CreatePostEffect
  <2> QED BY <1>1, <2>1 DEF Fields
<1>5. ASSUME NEW tx, ValidBoostPost(s, tx), t = ApplyBoostPost(s, tx)
      PROVE  t.height = s.height /\ t.epoch = s.epoch
  <2>1. Changed(s, t, {"balance", "postStaked", "nonce", "posts", "stakes", "burned"})
    BY <1>5, BoostPostEffect DEF ValidBoostPost
  <2> QED BY <1>1, <2>1 DEF Fields
<1>6. ASSUME NEW tx, ValidUnstakePost(s, tx), t = ApplyUnstakePost(s, tx)
      PROVE  t.height = s.height /\ t.epoch = s.epoch
  <2>1. Changed(s, t, {"balance", "postStaked", "nonce", "posts", "stakes"})
    BY <1>6, UnstakePostEffect DEF ValidUnstakePost
  <2> QED BY <1>1, <2>1 DEF Fields
<1>7. ASSUME NEW tx, t = ApplyRegisterName(s, tx)
      PROVE  t.height = s.height /\ t.epoch = s.epoch
  <2>1. Changed(s, t, {"nonce", "name", "nameIndex"})
    BY <1>7, RegisterNameEffect
  <2> QED BY <1>1, <2>1 DEF Fields
<1>8. ASSUME NEW tx, t = ApplyStake(s, tx)
      PROVE  t.height = s.height /\ t.epoch = s.epoch
  <2>1. Changed(s, t, {"balance", "staked", "nonce", "active"})
    BY <1>8, StakeEffect
  <2> QED BY <1>1, <2>1 DEF Fields
<1>9. ASSUME NEW tx, t = ApplyUnstake(s, tx, h)
      PROVE  t.height = s.height /\ t.epoch = s.epoch
  <2>1. Changed(s, t, {"staked", "nonce", "unbonding"})
    BY <1>9, UnstakeEffect
  <2> QED BY <1>1, <2>1 DEF Fields
<1> QED BY <1>2, <1>3, <1>4, <1>5, <1>6, <1>7, <1>8, <1>9 DEF Applied

\* Either an iteration leaves stakes, unbonding and the active set alone, or
\* it is one of slash evidence, stake and unstake.
LEMMA StakingCases ==
  ASSUME NEW s, NEW t, NEW h, Good(s), Applied(s, t, h)
  PROVE  \/ t.unbonding = s.unbonding /\ t.staked = s.staked /\ t.active = s.active
            /\ t.slashed = s.slashed
         \/ \E a \in Addr, eh \in EvidenceHeights :
              Slashable(s, a, eh) /\ t = ApplySlashEvidence(s, a, eh)
         \/ \E tx : /\ tx.sender \in Addr /\ tx.amount \in Nat
                    /\ ValidStake(s, tx) /\ t = ApplyStake(s, tx)
         \/ \E tx : /\ tx.sender \in Addr /\ tx.amount \in Nat
                    /\ ValidUnstake(s, tx) /\ t = ApplyUnstake(s, tx, h)
<1> DEFINE Same == t.unbonding = s.unbonding /\ t.staked = s.staked /\ t.active = s.active
                   /\ t.slashed = s.slashed
<1>1. ASSUME NEW F \in SUBSET (Fields \ {"unbonding", "staked", "active", "slashed"}),
             Changed(s, t, F)
      PROVE  Same
  BY <1>1 DEF Changed, Fields
<1> HIDE DEF Same
<1>2. ASSUME NEW a \in Addr, NEW eh \in EvidenceHeights, ~ Slashable(s, a, eh),
             t = ApplySlashEvidence(s, a, eh)
      PROVE  Same
  BY <1>2 DEF ApplySlashEvidence, Same
<1>3. ASSUME NEW tx, t = ApplyTransfer(s, tx) PROVE Same
  <2>1. Changed(s, t, {"accounts", "balance", "nonce"})
    BY <1>3, TransferEffect
  <2> QED BY <1>1, <2>1 DEF Fields
<1>4. ASSUME NEW tx, t = ApplyCreatePost(s, tx) PROVE Same
  <2>1. Changed(s, t, {"balance", "postStaked", "nonce", "posts", "stakes", "burned"})
    BY <1>4, CreatePostEffect
  <2> QED BY <1>1, <2>1 DEF Fields
<1>5. ASSUME NEW tx, ValidBoostPost(s, tx), t = ApplyBoostPost(s, tx) PROVE Same
  <2>1. Changed(s, t, {"balance", "postStaked", "nonce", "posts", "stakes", "burned"})
    BY <1>5, BoostPostEffect DEF ValidBoostPost
  <2> QED BY <1>1, <2>1 DEF Fields
<1>6. ASSUME NEW tx, ValidUnstakePost(s, tx), t = ApplyUnstakePost(s, tx) PROVE Same
  <2>1. Changed(s, t, {"balance", "postStaked", "nonce", "posts", "stakes"})
    BY <1>6, UnstakePostEffect DEF ValidUnstakePost
  <2> QED BY <1>1, <2>1 DEF Fields
<1>7. ASSUME NEW tx, t = ApplyRegisterName(s, tx) PROVE Same
  <2>1. Changed(s, t, {"nonce", "name", "nameIndex"})
    BY <1>7, RegisterNameEffect
  <2> QED BY <1>1, <2>1 DEF Fields
<1> QED BY <1>2, <1>3, <1>4, <1>5, <1>6, <1>7 DEF Applied, Same

\* Unbonding entries are made for later and slashing does not move them.
LEMMA LaterApplied ==
  ASSUME NEW s, NEW t, NEW h \in Nat, Good(s), Applied(s, t, h), Later(s, h),
         UnbondingPeriod > 0
  PROVE  Later(t, h)
<1>0. WorldStateOK(s) /\ UnbondingPeriod \in Nat
  BY ParamAssumption DEF Good
<1>1. CASE t.unbonding = s.unbonding
  BY <1>1 DEF Later
<1>2. ASSUME NEW a \in Addr, NEW eh \in EvidenceHeights, Slashable(s, a, eh),
             t = ApplySlashEvidence(s, a, eh)
      PROVE  Later(t, h)
  <2> DEFINE n == SlashAmount(s, a) - Least(SlashAmount(s, a), s.staked[a])
             q == SlashUnbonding(s.unbonding, a, n)
  <2>1. t.unbonding = q \/ t.unbonding = s.unbonding
    BY <1>2, SlashEffect
  <2>2. DOMAIN q \subseteq DOMAIN s.unbonding
        /\ \A k \in DOMAIN q : q[k].release = s.unbonding[k].release
    BY <1>0 DEF SlashUnbonding, WorldStateOK
  <2> HIDE DEF q
  <2> QED BY <2>1, <2>2 DEF Later
<1>3. ASSUME NEW tx, t = ApplyStake(s, tx) PROVE Later(t, h)
  <2>1. Changed(s, t, {"balance", "staked", "nonce", "active"})
    BY <1>3, StakeEffect
  <2> QED BY <1>1, <2>1 DEF Changed, Fields
<1>4. ASSUME NEW tx, t = ApplyUnstake(s, tx, h) PROVE Later(t, h)
  <2> DEFINE k0 == <<tx.sender, s.nonce[tx.sender] + 1>>
             e == [amount |-> tx.amount, release |-> h + UnbondingPeriod]
  <2>1. t.unbonding = MapPut(s.unbonding, k0, e)
    BY <1>4, UnstakeEffect
  <2>2. e.release > h
    BY <1>0
  <2> HIDE DEF k0, e
  <2> QED BY <2>1, <2>2 DEF Later, MapPut
<1> QED BY <1>1, <1>2, <1>3, <1>4, StakingCases

\* What a validator has at risk is an amount.
LEMMA RiskType ==
  ASSUME NEW s, WorldStateOK(s), NEW a \in Addr
  PROVE  Lasting(s, a) \in SUBSET DOMAIN s.unbonding /\ AtRisk(s, a) \in Nat
<1>1. Lasting(s, a) \in SUBSET DOMAIN s.unbonding
  BY DEF Lasting, UnbondingOf
<1>2. UnbondingSum(s.unbonding, Lasting(s, a)) \in Nat
  BY <1>1, UnbondingSumType
<1> QED BY <1>1, <1>2 DEF AtRisk, WorldStateOK

\* What has to be kept for the power to stay backed.
LEMMA BackedStep ==
  ASSUME NEW s, NEW t, WorldStateOK(s), WorldStateOK(t), BackedOK(s), t.epoch = s.epoch,
         DOMAIN t.active = DOMAIN s.active,
         \A a \in DOMAIN s.active : t.active[a].power = s.active[a].power,
         s.slashed \subseteq t.slashed,
         \A a \in Addr : \/ AtRisk(t, a) >= AtRisk(s, a)
                         \/ \E eh \in EvidenceHeights : <<a, eh>> \in t.slashed
  PROVE  BackedOK(t)
<1>1. \A a \in Addr : AtRisk(s, a) \in Nat /\ AtRisk(t, a) \in Nat
  BY RiskType
<1> SUFFICES ASSUME NEW a \in DOMAIN s.active
             PROVE  \/ t.active[a].power <= AtRisk(t, a)
                    \/ \E eh \in EvidenceHeights : <<a, eh>> \in t.slashed
                    \/ GenesisStake[a] = 0 /\ t.epoch = 0
  BY DEF BackedOK
<1>2. a \in Addr /\ s.active[a].power \in Nat /\ t.active[a].power = s.active[a].power
  BY DEF WorldStateOK
<1>3. \/ s.active[a].power <= AtRisk(s, a)
      \/ \E eh \in EvidenceHeights : <<a, eh>> \in s.slashed
      \/ GenesisStake[a] = 0 /\ s.epoch = 0
  BY DEF BackedOK
<1>4. CASE s.active[a].power <= AtRisk(s, a)
  BY <1>1, <1>2, <1>4
<1>5. CASE \E eh \in EvidenceHeights : <<a, eh>> \in s.slashed
  BY <1>5
<1>6. CASE GenesisStake[a] = 0 /\ s.epoch = 0
  BY <1>6
<1> QED BY <1>3, <1>4, <1>5, <1>6

\* The lasting entries of an account that an operation leaves alone.
LEMMA RiskFrame ==
  ASSUME NEW s, NEW t, WorldStateOK(s), WorldStateOK(t), t.epoch = s.epoch, NEW a \in Addr,
         t.staked[a] = s.staked[a],
         Lasting(t, a) = Lasting(s, a),
         \A k \in Lasting(s, a) : t.unbonding[k].amount = s.unbonding[k].amount
  PROVE  AtRisk(t, a) >= AtRisk(s, a)
<1>1. Lasting(s, a) \in SUBSET DOMAIN s.unbonding /\ Lasting(s, a) \subseteq DOMAIN t.unbonding
  BY DEF Lasting, UnbondingOf
<1>2. UnbondingSum(t.unbonding, Lasting(s, a)) = UnbondingSum(s.unbonding, Lasting(s, a))
  BY <1>1, QueueSums
<1>3. UnbondingSum(s.unbonding, Lasting(s, a)) \in Nat
  BY <1>1, UnbondingSumType
<1> QED BY <1>2, <1>3 DEF AtRisk, WorldStateOK

\* Slash evidence against a touches no other account.
LEMMA SlashOthers ==
  ASSUME NEW s, Good(s), NEW a \in Addr, NEW eh \in EvidenceHeights, Slashable(s, a, eh),
         NEW b \in Addr, b # a
  PROVE  AtRisk(ApplySlashEvidence(s, a, eh), b) >= AtRisk(s, b)
<1> DEFINE t == ApplySlashEvidence(s, a, eh)
           n == SlashAmount(s, a) - Least(SlashAmount(s, a), s.staked[a])
           q == SlashUnbonding(s.unbonding, a, n)
           L == Lasting(s, b)
           f == [k \in DOMAIN s.unbonding |-> s.unbonding[k].amount]
           M == {k \in L : f[k] > 0}
<1>1. WorldStateOK(s) /\ WorldStateOK(t)
  BY GoodSlash, BoundAssumption DEF Good
<1>2. /\ Changed(s, t, {"staked", "unbonding", "slashed", "burned"})
      /\ t.staked = Adjust(s.staked, a, -Least(SlashAmount(s, a), s.staked[a]))
      /\ t.unbonding = q \/ t.unbonding = s.unbonding
  BY SlashEffect
<1> HIDE DEF t, n
<1>3. t.staked[b] = s.staked[b] /\ t.epoch = s.epoch
  BY <1>1, <1>2 DEF Adjust, Changed, Fields, WorldStateOK
<1>4. CASE t.unbonding = s.unbonding
  <2>1. Lasting(t, b) = Lasting(s, b)
    BY <1>3, <1>4 DEF Lasting
  <2> QED BY <1>1, <1>3, <1>4, <2>1, RiskFrame DEF t
<1>5. CASE t.unbonding = q
  <2>1. \A k \in DOMAIN s.unbonding : f[k] \in Nat /\ f[k] = s.unbonding[k].amount
    BY <1>1 DEF WorldStateOK
  <2>2. \A k \in UnbondingOf(s.unbonding, b) : SlashTaken(s.unbonding, a, n, k) = 0
    BY DEF SlashTaken, UnbondingOf
  <2>3. /\ DOMAIN q = {k \in DOMAIN s.unbonding :
                         s.unbonding[k].amount - SlashTaken(s.unbonding, a, n, k) > 0}
        /\ \A k \in DOMAIN q :
             q[k] = [s.unbonding[k] EXCEPT
                       !.amount = s.unbonding[k].amount - SlashTaken(s.unbonding, a, n, k)]
    BY DEF SlashUnbonding
  <2> HIDE DEF q
  <2>4. \A k \in UnbondingOf(s.unbonding, b) :
          k \in DOMAIN s.unbonding /\ (k \in DOMAIN q <=> f[k] > 0)
    BY <2>1, <2>2, <2>3, SMTT(30) DEF UnbondingOf
  <2>5. \A k \in DOMAIN q : q[k].release = s.unbonding[k].release
    BY <1>1, <2>3 DEF WorldStateOK
  <2>6. \A k \in DOMAIN q \cap UnbondingOf(s.unbonding, b) : q[k].amount = s.unbonding[k].amount
    <3> SUFFICES ASSUME NEW k \in DOMAIN q, k \in UnbondingOf(s.unbonding, b)
                 PROVE  q[k].amount = s.unbonding[k].amount
      OBVIOUS
    <3>1. s.unbonding[k] \in [amount: Nat, release: Nat]
      BY <1>1, <2>3 DEF WorldStateOK
    <3> QED BY <2>2, <2>3, <3>1
  <2>7. UnbondingOf(q, b) = UnbondingOf(s.unbonding, b) \cap DOMAIN q
    BY <2>3 DEF UnbondingOf
  <2>8. Lasting(t, b) = M
    <3>1. Lasting(t, b) = {k \in UnbondingOf(q, b) : q[k].release > (s.epoch + 1) * EpochLength}
      BY <1>3, <1>5 DEF Lasting
    <3>2. M = {k \in UnbondingOf(s.unbonding, b) :
                 f[k] > 0 /\ s.unbonding[k].release > (s.epoch + 1) * EpochLength}
      BY DEF Lasting
    <3> HIDE DEF f, M
    <3> QED BY <2>4, <2>5, <2>7, <3>1, <3>2
  <2>9. M \in SUBSET L /\ L \in SUBSET DOMAIN s.unbonding /\ M \subseteq DOMAIN q
        /\ M \subseteq UnbondingOf(s.unbonding, b)
    BY <2>4 DEF Lasting, UnbondingOf
  <2>10. UnbondingSum(s.unbonding, L)
           = UnbondingSum(s.unbonding, M) + UnbondingSum(s.unbonding, L \ M)
    <3>1. M \in SUBSET L /\ L \in SUBSET DOMAIN s.unbonding
      BY <2>9
    <3> HIDE DEF L, M
    <3>2. \A K \in SUBSET DOMAIN s.unbonding : \A J \in SUBSET K :
            UnbondingSum(s.unbonding, K)
              = UnbondingSum(s.unbonding, J) + UnbondingSum(s.unbonding, K \ J)
      BY <1>1, QueueSplit
    <3> QED BY ONLY <3>1, <3>2
  <2>11. UnbondingSum(s.unbonding, L \ M) = 0
    <3>1. \A k \in L \ M : f[k] = 0
      BY <2>1, <2>9
    <3>2. IsFiniteSet(L \ M)
      BY <1>1, <2>9, FS_Subset, ZenonT(30) DEF WorldStateOK
    <3> HIDE DEF L, M, f
    <3>3. SumFunctionOnSet(f, L \ M) = 0
      BY <3>1, <3>2, SumZero
    <3> QED BY <3>3 DEF f, UnbondingSum
  <2>12. UnbondingSum(q, M) = UnbondingSum(s.unbonding, M)
    <3>1. \A k \in M : q[k].amount = s.unbonding[k].amount
      BY <2>6, <2>9
    <3>2. M \in SUBSET DOMAIN s.unbonding
      BY <2>9
    <3> HIDE DEF M
    <3> QED BY <1>1, <2>9, <3>1, <3>2, QueueSums
  <2>13. UnbondingSum(s.unbonding, M) \in Nat
    BY <1>1, <2>9, UnbondingSumType
  <2> HIDE DEF M, L
  <2>14. AtRisk(t, b) = AtRisk(s, b) /\ AtRisk(s, b) \in Nat
    BY <1>1, <1>3, <1>5, <2>8, <2>10, <2>11, <2>12, <2>13 DEF AtRisk, L, WorldStateOK
  <2> QED BY <2>14 DEF t
<1> QED BY <1>2, <1>4, <1>5

\* An unstake moves the sender's stake into an entry that outlasts the epoch.
LEMMA UnstakeRisk ==
  ASSUME NEW s, Good(s), NEW tx, tx.sender \in Addr, tx.amount \in Nat, NEW h \in Nat,
         ValidUnstake(s, tx), h + UnbondingPeriod > (s.epoch + 1) * EpochLength,
         NEW b \in Addr
  PROVE  AtRisk(ApplyUnstake(s, tx, h), b) >= AtRisk(s, b)
<1> DEFINE t == ApplyUnstake(s, tx, h)
           x == tx.sender
           key == <<x, s.nonce[x] + 1>>
           e == [amount |-> tx.amount, release |-> h + UnbondingPeriod]
           L == Lasting(s, b)
<1>1. WorldStateOK(s) /\ WorldStateOK(t)
  BY GoodUnstake DEF Good
<1>2. /\ Changed(s, t, {"staked", "nonce", "unbonding"})
      /\ t.staked = Adjust(s.staked, x, -tx.amount)
      /\ t.unbonding = MapPut(s.unbonding, key, e)
  BY UnstakeEffect
<1>3. key \notin DOMAIN s.unbonding /\ key[1] = x
  BY <1>1 DEF Good, FreshOK, WorldStateOK
<1>4. e.amount = tx.amount /\ e.release > (s.epoch + 1) * EpochLength
  OBVIOUS
<1> HIDE DEF t, key, e
<1>5. t.epoch = s.epoch
  BY <1>2 DEF Changed, Fields
<1>6. /\ DOMAIN t.unbonding = DOMAIN s.unbonding \cup {key}
      /\ t.unbonding[key] = e
      /\ \A k \in DOMAIN s.unbonding : t.unbonding[k] = s.unbonding[k]
  BY <1>2, <1>3 DEF MapPut
<1>7. CASE b # x
  <2>1. t.staked[b] = s.staked[b]
    BY <1>1, <1>2, <1>7 DEF Adjust, WorldStateOK
  <2>2. Lasting(t, b) = L
    BY <1>3, <1>5, <1>6, <1>7 DEF Lasting, UnbondingOf
  <2>3. \A k \in L : t.unbonding[k].amount = s.unbonding[k].amount
    BY <1>6 DEF Lasting, UnbondingOf
  <2> QED BY <1>1, <1>5, <2>1, <2>2, <2>3, RiskFrame DEF t
<1>8. CASE b = x
  <2>1. t.staked[b] = s.staked[b] - tx.amount
    BY <1>1, <1>2, <1>8 DEF Adjust, WorldStateOK
  <2>2. Lasting(t, b) = L \cup {key}
    <3>1. UnbondingOf(t.unbonding, b) = UnbondingOf(s.unbonding, b) \cup {key}
      BY <1>3, <1>6, <1>8 DEF UnbondingOf
    <3> QED BY <1>4, <1>5, <1>6, <3>1 DEF Lasting, UnbondingOf
  <2>3. L \in SUBSET DOMAIN s.unbonding /\ Lasting(t, b) \in SUBSET DOMAIN t.unbonding
    BY <1>1, RiskType
  <2> DEFINE f == [k \in DOMAIN t.unbonding |-> t.unbonding[k].amount]
  <2>4. f[key] = tx.amount /\ \A k \in Lasting(t, b) : f[k] \in Int
    BY <1>1, <1>4, <1>6, <2>3 DEF WorldStateOK
  <2>5. IsFiniteSet(Lasting(t, b)) /\ key \in Lasting(t, b) /\ Lasting(t, b) \ {key} = L
    BY <1>1, <1>3, <2>2, <2>3, FS_Subset DEF WorldStateOK
  <2> HIDE DEF f
  <2>6. SumFunctionOnSet(f, Lasting(t, b)) = f[key] + SumFunctionOnSet(f, L)
    BY <2>4, <2>5, SumRemove
  <2>7. UnbondingSum(t.unbonding, Lasting(t, b)) = tx.amount + UnbondingSum(t.unbonding, L)
    BY <2>4, <2>6 DEF UnbondingSum, f
  <2>8. UnbondingSum(t.unbonding, L) = UnbondingSum(s.unbonding, L)
    <3>1. L \subseteq DOMAIN t.unbonding
          /\ \A k \in L : t.unbonding[k].amount = s.unbonding[k].amount
      BY <1>6, <2>3
    <3> HIDE DEF L
    <3> QED BY <1>1, <2>3, <3>1, QueueSums
  <2>9. UnbondingSum(s.unbonding, L) \in Nat /\ s.staked[b] \in Nat
    BY <1>1, <2>3, UnbondingSumType DEF WorldStateOK
  <2> QED BY <2>1, <2>7, <2>8, <2>9 DEF AtRisk, t
<1> QED BY <1>7, <1>8

\* No transaction takes away what backs a validator's power within its epoch.
LEMMA BackedApplied ==
  ASSUME NEW s, NEW t, NEW h \in Nat, Good(s), Good(t), Applied(s, t, h), BackedOK(s),
         h + UnbondingPeriod > (s.epoch + 1) * EpochLength
  PROVE  BackedOK(t)
<1>0. WorldStateOK(s) /\ WorldStateOK(t)
  BY DEF Good
<1>1. t.epoch = s.epoch
  BY AppliedFrame
<1>2. CASE t.unbonding = s.unbonding /\ t.staked = s.staked /\ t.active = s.active
           /\ t.slashed = s.slashed
  BY <1>1, <1>2 DEF BackedOK, AtRisk, Lasting
<1>3. ASSUME NEW a \in Addr, NEW eh \in EvidenceHeights, Slashable(s, a, eh),
             t = ApplySlashEvidence(s, a, eh)
      PROVE  BackedOK(t)
  <2>1. /\ Changed(s, t, {"staked", "unbonding", "slashed", "burned"})
        /\ t.slashed = s.slashed \cup {<<a, eh>>}
    BY <1>3, SlashEffect
  <2>2. t.active = s.active
    BY <2>1 DEF Changed, Fields
  <2>3. \A b \in Addr : \/ AtRisk(t, b) >= AtRisk(s, b)
                        \/ \E x \in EvidenceHeights : <<b, x>> \in t.slashed
    <3> TAKE b \in Addr
    <3>1. CASE b = a
      BY <2>1, <3>1
    <3>2. CASE b # a
      BY <1>3, <3>2, SlashOthers
    <3> QED BY <3>1, <3>2
  <2> QED BY <1>0, <1>1, <2>1, <2>2, <2>3, BackedStep
<1>4. ASSUME NEW tx, tx.sender \in Addr, tx.amount \in Nat, t = ApplyStake(s, tx)
      PROVE  BackedOK(t)
  <2>1. /\ Changed(s, t, {"balance", "staked", "nonce", "active"})
        /\ t.staked = Adjust(s.staked, tx.sender, tx.amount)
        /\ t.active = SetValidatorPubKey(s.active, tx.sender)
    BY <1>4, StakeEffect
  <2>2. t.unbonding = s.unbonding /\ t.slashed = s.slashed
    BY <2>1 DEF Changed, Fields
  <2>3. DOMAIN t.active = DOMAIN s.active
        /\ \A a \in DOMAIN s.active : t.active[a].power = s.active[a].power
    BY <1>0, <2>1 DEF SetValidatorPubKey, WorldStateOK
  <2>4. ASSUME NEW b \in Addr PROVE AtRisk(t, b) >= AtRisk(s, b)
    <3>1. UnbondingSum(t.unbonding, Lasting(t, b)) = UnbondingSum(s.unbonding, Lasting(s, b))
      BY <1>1, <2>2 DEF Lasting
    <3>2. UnbondingSum(s.unbonding, Lasting(s, b)) \in Nat
      BY <1>0, RiskType, UnbondingSumType
    <3>3. s.staked[b] \in Nat /\ t.staked[b] \in Nat /\ t.staked[b] >= s.staked[b]
      BY <1>0, <1>4, <2>1 DEF Adjust, WorldStateOK
    <3> QED BY <3>1, <3>2, <3>3 DEF AtRisk
  <2> QED BY <1>0, <1>1, <2>2, <2>3, <2>4, BackedStep
<1>5. ASSUME NEW tx, tx.sender \in Addr, tx.amount \in Nat, ValidUnstake(s, tx),
             t = ApplyUnstake(s, tx, h)
      PROVE  BackedOK(t)
  <2>1. Changed(s, t, {"staked", "nonce", "unbonding"})
    BY <1>5, UnstakeEffect
  <2>2. t.active = s.active /\ t.slashed = s.slashed
    BY <2>1 DEF Changed, Fields
  <2>3. \A b \in Addr : AtRisk(t, b) >= AtRisk(s, b)
    BY <1>5, UnstakeRisk
  <2> QED BY <1>0, <1>1, <2>2, <2>3, BackedStep
<1> QED BY <1>2, <1>3, <1>4, <1>5, StakingCases

\* What is released at h does not outlast an epoch that h belongs to.
LEMMA BackedRelease ==
  ASSUME NEW s, Good(s), NEW h \in Nat, h <= (s.epoch + 1) * EpochLength, BackedOK(s)
  PROVE  BackedOK(ReleaseMatured(s, h))
<1> DEFINE t == ReleaseMatured(s, h)
           done == Matured(s.unbonding, h)
<1>1. WorldStateOK(s) /\ WorldStateOK(t)
  BY GoodReleaseMatured DEF Good
<1>2. /\ Changed(s, t, {"accounts", "balance", "unbonding"})
      /\ t.unbonding = MapDelete(s.unbonding, done)
  BY ReleaseEffect
<1> HIDE DEF t
<1>3. t.staked = s.staked /\ t.active = s.active /\ t.slashed = s.slashed /\ t.epoch = s.epoch
  BY <1>2 DEF Changed, Fields
<1>4. DOMAIN t.unbonding = DOMAIN s.unbonding \ done
      /\ \A k \in DOMAIN s.unbonding \ done : t.unbonding[k] = s.unbonding[k]
  BY <1>2 DEF MapDelete, Restrict
<1>5. ASSUME NEW b \in Addr PROVE AtRisk(t, b) >= AtRisk(s, b)
  <2>1. (s.epoch + 1) * EpochLength \in Nat
    BY <1>1, ParamAssumption DEF WorldStateOK
  <2>2. \A k \in Lasting(s, b) : k \in DOMAIN s.unbonding \ done
    <3> SUFFICES ASSUME NEW k \in Lasting(s, b), k \in done PROVE FALSE
      BY DEF Lasting, UnbondingOf
    <3>1. k \in DOMAIN s.unbonding /\ s.unbonding[k].release > (s.epoch + 1) * EpochLength
      BY DEF Lasting, UnbondingOf
    <3>2. s.unbonding[k].release <= h /\ s.unbonding[k].release \in Nat
      BY <1>1, <3>1 DEF Matured, WorldStateOK
    <3> QED BY <2>1, <3>1, <3>2
  <2>3. Lasting(t, b) = Lasting(s, b)
    <3>1. \A k : k \in Lasting(t, b) <=>
             /\ k \in DOMAIN t.unbonding /\ k[1] = b
             /\ t.unbonding[k].release > (s.epoch + 1) * EpochLength
      BY <1>3 DEF Lasting, UnbondingOf
    <3>2. \A k : k \in Lasting(s, b) <=>
             /\ k \in DOMAIN s.unbonding /\ k[1] = b
             /\ s.unbonding[k].release > (s.epoch + 1) * EpochLength
      BY DEF Lasting, UnbondingOf
    <3> HIDE DEF done
    <3>3. \A k : k \in Lasting(t, b) => k \in Lasting(s, b)
      BY <1>4, <3>1, <3>2
    <3>4. \A k : k \in Lasting(s, b) => k \in Lasting(t, b)
      BY <1>4, <2>2, <3>1, <3>2
    <3> QED BY <3>3, <3>4
  <2>4. \A k \in Lasting(s, b) : t.unbonding[k].amount = s.unbonding[k].amount
    BY <1>4, <2>2
  <2>5. t.staked[b] = s.staked[b]
    BY <1>3
  <2> QED BY ONLY b \in Addr, <1>1, <1>3, <2>3, <2>4, <2>5, RiskFrame
<1>6. \A a \in DOMAIN s.active : t.active[a].power = s.active[a].power
  BY <1>3
<1>7. BackedOK(t)
  BY <1>1, <1>3, <1>5, <1>6, BackedStep
<1> QED BY <1>7 DEF t

\* Heights and epochs.
LEMMA EpochArith ==
  ASSUME NEW e \in Nat, NEW E \in Nat, E > 0, NEW h \in Nat,
         e * E <= h, h < (e + 1) * E
  PROVE  /\ h + 1 <= (e + 1) * E
         /\ (h + 1) % E = 0 => LET d == (h + 1) \div E
                               IN  d \in Nat /\ d * E <= h + 1 /\ h + 1 < (d + 1) * E
         /\ (h + 1) % E # 0 => e * E <= h + 1 /\ h + 1 < (e + 1) * E
<1>1. e * E \in Nat /\ (e + 1) * E \in Nat
  OBVIOUS
<1>2. h + 1 <= (e + 1) * E /\ e * E <= h + 1
  BY <1>1
<1>3. ASSUME NEW y \in Nat
      PROVE  LET d == y \div E IN d \in Nat /\ d * E <= y /\ y < (d + 1) * E
  <2> DEFINE d == y \div E
  <2>1. d \in Nat /\ y = E * d + (y % E) /\ y % E \in 0 .. (E - 1)
    BY <1>3
  <2> HIDE DEF d
  <2>2. E * d = d * E /\ (d + 1) * E = d * E + E /\ d * E \in Nat
    BY <2>1
  <2>3. d * E <= y /\ y < (d + 1) * E
    BY <2>1, <2>2
  <2> QED BY <2>1, <2>3 DEF d
<1>4. \A d \in Nat : (d * E) % E = 0
  <2> TAKE d \in Nat
  <2> DEFINE y == d * E
             c == y \div E
             r == y % E
  <2>1. y \in Nat
    OBVIOUS
  <2>2. c \in Nat /\ y = E * c + r /\ r \in 0 .. (E - 1)
    BY <2>1
  <2>3. d * E = c * E + r
    BY <2>2
  <2> HIDE DEF y, c, r
  <2>4. (d - c) * E = r
    BY <2>2, <2>3
  <2>5. CASE d - c >= 1
    <3>1. \A x \in Nat : x >= 1 => x * E >= E
      OBVIOUS
    <3>2. d - c \in Nat
      BY <2>2, <2>5
    <3> QED BY <2>2, <2>4, <2>5, <3>1, <3>2
  <2>6. CASE d - c <= -1
    <3>1. \A x \in Nat : x >= 1 => (-x) * E <= -E
      OBVIOUS
    <3>2. c - d \in Nat /\ c - d >= 1 /\ d - c = -(c - d)
      BY <2>2, <2>6
    <3>3. (d - c) * E <= -E
      BY <3>1, <3>2
    <3> QED BY <2>2, <2>4, <3>3
  <2>7. CASE d - c = 0
    <3>1. r = 0
      BY <2>4, <2>7
    <3> QED BY <3>1 DEF r, y
  <2> QED BY <2>2, <2>5, <2>6, <2>7
<1>5. (h + 1) % E # 0 => h + 1 # (e + 1) * E
  <2> DEFINE d == e + 1
  <2>1. d \in Nat
    OBVIOUS
  <2> HIDE DEF d
  <2>2. (d * E) % E = 0
    BY <1>4, <2>1, Zenon
  <2>3. h + 1 = d * E => (h + 1) % E = 0
    BY <2>2, Zenon
  <2> QED BY <2>3, Zenon DEF d
<1> QED BY <1>1, <1>2, <1>3, <1>5

\* At an epoch boundary the power is the stake; else nothing moves.
LEMMA BackedFinish ==
  ASSUME NEW s, Good(s), NEW proposer \in Addr, BackedOK(s), EpochOK(s), EpochLength > 0
  PROVE  LET t == FinishBlock(s, proposer, s.height + 1)
         IN  BackedOK(t) /\ EpochOK(t)
<1> DEFINE h == s.height + 1
           t == FinishBlock(s, proposer, h)
<1>1. EpochLength \in Nat /\ s.height \in Nat /\ s.epoch \in Nat /\ h \in Nat
  BY ParamAssumption DEF Good, WorldStateOK
<1>2. WorldStateOK(s) /\ WorldStateOK(t)
  BY <1>1, GoodFinishBlock DEF Good
<1>3. /\ Changed(s, t, {"accounts", "balance", "issued", "active", "epoch", "height"})
      /\ t.height = h
      /\ h % EpochLength = 0 =>
           /\ t.epoch = h \div EpochLength
           /\ \A a \in DOMAIN t.active : t.active[a].power = s.staked[a]
      /\ h % EpochLength # 0 => t.epoch = s.epoch /\ t.active = s.active
  BY FinishEffect
<1>4. /\ h <= (s.epoch + 1) * EpochLength
      /\ h % EpochLength = 0 =>
           (h \div EpochLength) * EpochLength <= h /\ h < (h \div EpochLength + 1) * EpochLength
      /\ h % EpochLength # 0 => s.epoch * EpochLength <= h /\ h < (s.epoch + 1) * EpochLength
  BY <1>1, EpochArith DEF EpochOK
<1> HIDE DEF t, h
<1>5. t.staked = s.staked /\ t.unbonding = s.unbonding /\ t.slashed = s.slashed
  BY <1>3 DEF Changed, Fields
<1>6. EpochOK(t)
  BY <1>3, <1>4 DEF EpochOK
<1>7. BackedOK(t)
  <2>1. CASE h % EpochLength = 0
    <3> SUFFICES ASSUME NEW a \in DOMAIN t.active PROVE t.active[a].power <= AtRisk(t, a)
      BY DEF BackedOK
    <3>1. a \in Addr
      BY <1>2 DEF WorldStateOK
    <3>2. UnbondingSum(t.unbonding, Lasting(t, a)) \in Nat
      BY <1>2, <3>1, RiskType, UnbondingSumType
    <3>3. t.staked[a] \in Nat
      BY <1>2, <3>1 DEF WorldStateOK
    <3> QED BY <1>3, <1>5, <2>1, <3>2, <3>3 DEF AtRisk
  <2>2. CASE h % EpochLength # 0
    BY <1>3, <1>5, <2>2 DEF BackedOK, AtRisk, Lasting
  <2> QED BY <2>1, <2>2
<1> QED BY <1>6, <1>7 DEF t, h

\* The power of the genesis validators is backed.
LEMMA BackedInitial == EpochLength > 0 => BackedOK(InitializeState) /\ EpochOK(InitializeState)
<1> SUFFICES ASSUME EpochLength > 0 PROVE BackedOK(InitializeState) /\ EpochOK(InitializeState)
  OBVIOUS
<1> DEFINE s == InitializeState
<1>1. /\ s.staked = [a \in Addr |-> InitialStake(a)]
      /\ s.active = [a \in DOMAIN GenesisStake |->
                       [power |-> IF GenesisStake[a] = 0 THEN 1 ELSE GenesisStake[a],
                        key   |-> TRUE]]
      /\ s.height = 0 /\ s.epoch = 0
  BY DEF InitializeState
<1>2. WorldStateOK(s)
  BY GoodInitial DEF Good
<1> HIDE DEF s
<1>3. EpochOK(s)
  BY <1>1, ParamAssumption DEF EpochOK
<1>4. BackedOK(s)
  <2> SUFFICES ASSUME NEW a \in DOMAIN s.active, GenesisStake[a] # 0
               PROVE  s.active[a].power <= AtRisk(s, a)
    BY <1>1 DEF BackedOK
  <2>1. a \in DOMAIN GenesisStake /\ a \in Addr /\ GenesisStake[a] \in Nat
    BY <1>1, GenesisAssumption
  <2>2. s.active[a].power = GenesisStake[a] /\ s.staked[a] = GenesisStake[a]
    BY <1>1, <2>1 DEF InitialStake
  <2>3. UnbondingSum(s.unbonding, Lasting(s, a)) \in Nat
    BY <1>2, <2>1, RiskType, UnbondingSumType
  <2> QED BY <2>1, <2>2, <2>3 DEF AtRisk
<1> QED BY <1>3, <1>4 DEF s

-------------------------------------------------------------------------------
(* Posts. *)

\* Posts that do not change are kept.
LEMMA KeptSame == ASSUME NEW s, Good(s) PROVE Kept(s.posts, s.posts)
BY DEF Kept, Good, WorldStateOK, Post

\* What is kept twice is kept.
LEMMA KeptTwice ==
  ASSUME NEW r, NEW s, NEW t, Good(r), Good(s), Good(t),
         Kept(r.posts, s.posts), Kept(s.posts, t.posts)
  PROVE  Kept(r.posts, t.posts)
<1> SUFFICES ASSUME NEW p \in DOMAIN r.posts
             PROVE  /\ p \in DOMAIN t.posts
                    /\ t.posts[p].author = r.posts[p].author
                    /\ t.posts[p].parent = r.posts[p].parent
                    /\ t.posts[p].totalBurned >= r.posts[p].totalBurned
                    /\ r.posts[p].withdrawn => t.posts[p] = r.posts[p]
  BY DEF Kept
<1>1. /\ p \in DOMAIN s.posts
      /\ s.posts[p].author = r.posts[p].author
      /\ s.posts[p].parent = r.posts[p].parent
      /\ s.posts[p].totalBurned >= r.posts[p].totalBurned
      /\ r.posts[p].withdrawn => s.posts[p] = r.posts[p]
  BY DEF Kept
<1>2. /\ p \in DOMAIN t.posts
      /\ t.posts[p].author = s.posts[p].author
      /\ t.posts[p].parent = s.posts[p].parent
      /\ t.posts[p].totalBurned >= s.posts[p].totalBurned
      /\ s.posts[p].withdrawn => t.posts[p] = s.posts[p]
  BY <1>1 DEF Kept
<1>3. /\ r.posts[p].totalBurned \in Nat /\ s.posts[p].totalBurned \in Nat
      /\ t.posts[p].totalBurned \in Nat
  BY <1>1, <1>2 DEF Good, WorldStateOK, Post
<1>4. t.posts[p].totalBurned >= r.posts[p].totalBurned
  BY <1>1, <1>2, <1>3
<1>5. r.posts[p].withdrawn => t.posts[p] = r.posts[p]
  BY <1>1, <1>2
<1> QED BY <1>1, <1>2, <1>4, <1>5

\* Within a block posts are added, boosted while live, and withdrawn once.
LEMMA KeptApplied ==
  ASSUME NEW s, NEW t, NEW h, Good(s), WithdrawalOK(s), Applied(s, t, h)
  PROVE  Kept(s.posts, t.posts)
<1>1. CASE t.posts = s.posts
  BY <1>1, KeptSame
<1>2. ASSUME NEW F \in SUBSET (Fields \ {"posts"}), Changed(s, t, F) PROVE t.posts = s.posts
  BY <1>2 DEF Changed, Fields
<1>3. ASSUME NEW a \in Addr, NEW eh \in EvidenceHeights, t = ApplySlashEvidence(s, a, eh)
      PROVE  t.posts = s.posts
  <2>1. CASE ~ Slashable(s, a, eh)
    BY <1>3, <2>1 DEF ApplySlashEvidence
  <2>2. CASE Slashable(s, a, eh)
    <3>1. Changed(s, t, {"staked", "unbonding", "slashed", "burned"})
      BY <1>3, <2>2, SlashEffect
    <3> QED BY <1>2, <3>1 DEF Fields
  <2> QED BY <2>1, <2>2
<1>4. ASSUME NEW tx, t = ApplyTransfer(s, tx) PROVE t.posts = s.posts
  <2>1. Changed(s, t, {"accounts", "balance", "nonce"})
    BY <1>4, TransferEffect
  <2> QED BY <1>2, <2>1 DEF Fields
<1>5. ASSUME NEW tx, tx.sender \in Addr, t = ApplyCreatePost(s, tx)
      PROVE  Kept(s.posts, t.posts)
  <2>1. /\ DOMAIN t.posts = DOMAIN s.posts \cup {NewId(s, tx)}
        /\ \A p \in DOMAIN s.posts : p # NewId(s, tx) => t.posts[p] = s.posts[p]
    BY <1>5, CreatePostEffect
  <2>2. NewId(s, tx) \notin DOMAIN s.posts
    BY <1>5 DEF NewId, Good, FreshOK, WorldStateOK
  <2>3. \A p \in DOMAIN s.posts : p \in DOMAIN t.posts /\ t.posts[p] = s.posts[p]
    BY <2>1, <2>2
  <2>4. \A p \in DOMAIN s.posts : s.posts[p].totalBurned \in Nat
    BY DEF Good, WorldStateOK, Post
  <2> QED BY <2>3, <2>4 DEF Kept
<1>6. ASSUME NEW tx, tx.amount \in Nat, ValidBoostPost(s, tx), t = ApplyBoostPost(s, tx)
      PROVE  Kept(s.posts, t.posts)
  <2> DEFINE x == tx.post
             b == Percent(tx.amount, BurnPct)
  <2>1. x \in DOMAIN s.posts /\ ~ s.posts[x].withdrawn /\ b \in Nat
    BY <1>6, BoostSplit DEF ValidBoostPost
  <2>2. /\ DOMAIN t.posts = DOMAIN s.posts
        /\ t.posts[x].author = s.posts[x].author
        /\ t.posts[x].parent = s.posts[x].parent
        /\ t.posts[x].totalBurned = s.posts[x].totalBurned + b
        /\ \A q \in DOMAIN s.posts : q # x => t.posts[q] = s.posts[q]
    <3>1. tx.post \in DOMAIN s.posts
      BY <2>1
    <3> QED BY <1>6, <3>1, BoostedPosts
  <2>3. \A p \in DOMAIN s.posts : s.posts[p].totalBurned \in Nat
    BY DEF Good, WorldStateOK, Post
  <2> HIDE DEF x, b
  <2>4. t.posts[x].totalBurned >= s.posts[x].totalBurned
    BY <2>1, <2>2, <2>3
  <2> SUFFICES ASSUME NEW p \in DOMAIN s.posts
               PROVE  /\ p \in DOMAIN t.posts
                      /\ t.posts[p].author = s.posts[p].author
                      /\ t.posts[p].parent = s.posts[p].parent
                      /\ t.posts[p].totalBurned >= s.posts[p].totalBurned
                      /\ s.posts[p].withdrawn => t.posts[p] = s.posts[p]
    BY DEF Kept
  <2>5. CASE p = x
    BY <2>1, <2>2, <2>4, <2>5
  <2>6. CASE p # x
    BY <2>2, <2>3, <2>6
  <2> QED BY <2>5, <2>6
<1>7. ASSUME NEW tx, tx.sender \in Addr, ValidUnstakePost(s, tx), t = ApplyUnstakePost(s, tx)
      PROVE  Kept(s.posts, t.posts)
  <2> DEFINE x == tx.post
  <2>1. x \in DOMAIN s.posts /\ ~ s.posts[x].withdrawn
    BY <1>7 DEF ValidUnstakePost, WithdrawalOK, PostStakers
  <2>2. /\ DOMAIN t.posts = DOMAIN s.posts
        /\ t.posts[x].author = s.posts[x].author
        /\ t.posts[x].parent = s.posts[x].parent
        /\ t.posts[x].totalBurned = s.posts[x].totalBurned
        /\ \A q \in DOMAIN s.posts : q # x => t.posts[q] = s.posts[q]
    BY <1>7, <2>1, UnstakePostEffect
  <2>3. \A p \in DOMAIN s.posts : s.posts[p].totalBurned \in Nat
    BY DEF Good, WorldStateOK, Post
  <2> HIDE DEF x
  <2> SUFFICES ASSUME NEW p \in DOMAIN s.posts
               PROVE  /\ p \in DOMAIN t.posts
                      /\ t.posts[p].author = s.posts[p].author
                      /\ t.posts[p].parent = s.posts[p].parent
                      /\ t.posts[p].totalBurned >= s.posts[p].totalBurned
                      /\ s.posts[p].withdrawn => t.posts[p] = s.posts[p]
    BY DEF Kept
  <2>5. CASE p = x
    BY <2>1, <2>2, <2>3, <2>5
  <2>6. CASE p # x
    BY <2>2, <2>3, <2>6
  <2> QED BY <2>5, <2>6
<1>8. ASSUME NEW tx, t = ApplyRegisterName(s, tx) PROVE t.posts = s.posts
  <2>1. Changed(s, t, {"nonce", "name", "nameIndex"})
    BY <1>8, RegisterNameEffect
  <2> QED BY <1>2, <2>1 DEF Fields
<1>9. ASSUME NEW tx, t = ApplyStake(s, tx) PROVE t.posts = s.posts
  <2>1. Changed(s, t, {"balance", "staked", "nonce", "active"})
    BY <1>9, StakeEffect
  <2> QED BY <1>2, <2>1 DEF Fields
<1>10. ASSUME NEW tx, t = ApplyUnstake(s, tx, h) PROVE t.posts = s.posts
  <2>1. Changed(s, t, {"staked", "nonce", "unbonding"})
    BY <1>10, UnstakeEffect
  <2> QED BY <1>2, <2>1 DEF Fields
<1> QED BY <1>1, <1>3, <1>4, <1>5, <1>6, <1>7, <1>8, <1>9, <1>10 DEF Applied

-------------------------------------------------------------------------------
(* Every step keeps the invariant. *)

\* Every step keeps the invariant.
LEMMA LInvPreserved == LInv /\ IInv /\ [Next]_vars => LInv'
<1> SUFFICES ASSUME LInv, IInv, [Next]_vars PROVE LInv'
  OBVIOUS
<1> DEFINE Slow == EpochLength > 0 /\ UnbondingPeriod >= EpochLength
<1>0. /\ Safe(ws) /\ Safe(wk)
      /\ phase = "idle" => wk = ws
      /\ wk.height = ws.height
      /\ UnbondingPeriod > 0 => Later(ws, ws.height)
      /\ UnbondingPeriod > 0 /\ phase # "idle" => Later(wk, ws.height + 1)
      /\ Slow => EpochOK(ws) /\ wk.epoch = ws.epoch /\ BackedOK(ws) /\ BackedOK(wk)
      /\ Kept(ws.posts, wk.posts)
  BY DEF LInv
<1>1. /\ Good(ws) /\ Good(wk) /\ WithdrawalOK(ws) /\ WithdrawalOK(wk)
      /\ ws.height \in Nat /\ ws.height + 1 \in Nat /\ ws.epoch \in Nat
      /\ EpochLength \in Nat /\ UnbondingPeriod \in Nat
  BY <1>0, ParamAssumption DEF Safe, Sound, Good, WorldStateOK
<1>2. Slow => /\ ws.height + 1 <= (ws.epoch + 1) * EpochLength
              /\ ws.height + 1 + UnbondingPeriod > (ws.epoch + 1) * EpochLength
  <2> SUFFICES ASSUME Slow
               PROVE  /\ ws.height + 1 <= (ws.epoch + 1) * EpochLength
                      /\ ws.height + 1 + UnbondingPeriod > (ws.epoch + 1) * EpochLength
    OBVIOUS
  <2>1. ws.epoch * EpochLength <= ws.height /\ ws.height < (ws.epoch + 1) * EpochLength
    BY <1>0 DEF EpochOK
  <2>2. (ws.epoch + 1) * EpochLength = ws.epoch * EpochLength + EpochLength
        /\ ws.epoch * EpochLength \in Nat
    BY <1>1
  <2> QED BY <1>1, <2>1, <2>2
<1>3. CASE BeginBlock
  <2> DEFINE h == ws.height + 1
  <2>1. wk' = ReleaseMatured(ws, h) /\ ws' = ws /\ phase' = "evidence"
    BY <1>3 DEF BeginBlock
  <2>2. /\ Changed(ws, wk', {"accounts", "balance", "unbonding"})
        /\ wk'.unbonding = MapDelete(ws.unbonding, Matured(ws.unbonding, h))
    BY <1>1, <2>1, ReleaseEffect
  <2>3. wk'.height = ws.height /\ wk'.epoch = ws.epoch /\ wk'.posts = ws.posts
    BY <2>2 DEF Changed, Fields
  <2>4. Safe(wk')
    BY <1>0, <1>1, <2>1, SafeRelease
  <2>5. Later(wk', h)
    <3>1. /\ DOMAIN wk'.unbonding = DOMAIN ws.unbonding \ Matured(ws.unbonding, h)
          /\ \A k \in DOMAIN wk'.unbonding : wk'.unbonding[k] = ws.unbonding[k]
      BY <2>2 DEF MapDelete, Restrict
    <3>2. \A k \in DOMAIN ws.unbonding : ws.unbonding[k].release \in Nat
      BY <1>1 DEF Good, WorldStateOK
    <3> QED BY <1>1, <3>1, <3>2 DEF Later, Matured
  <2>6. Slow => BackedOK(wk')
    BY <1>0, <1>1, <1>2, <2>1, BackedRelease
  <2>7. Kept(ws.posts, wk'.posts)
    BY <1>1, <2>3, KeptSame
  <2> QED BY <1>0, <2>1, <2>3, <2>4, <2>5, <2>6, <2>7 DEF LInv
<1>4. CASE phase # "idle" /\ phase' # "idle" /\ ws' = ws /\ Applied(wk, wk', H)
  <2> DEFINE h == ws.height + 1
  <2>1. Applied(wk, wk', h)
    BY <1>4 DEF H
  <2>2. Safe(wk')
    BY <1>0, <1>1, <2>1, SafeApplied
  <2>3. Good(wk')
    BY <2>2 DEF Safe
  <2>4. wk'.height = wk.height /\ wk'.epoch = wk.epoch
    BY <1>1, <2>1, AppliedFrame
  <2>5. UnbondingPeriod > 0 => Later(wk', h)
    BY <1>0, <1>1, <1>4, <2>1, LaterApplied
  <2>6. Slow => BackedOK(wk')
    <3> SUFFICES ASSUME Slow PROVE BackedOK(wk')
      OBVIOUS
    <3>1. h + UnbondingPeriod > (wk.epoch + 1) * EpochLength /\ BackedOK(wk)
      BY <1>0, <1>2
    <3> QED BY <1>1, <2>1, <2>3, <3>1, BackedApplied
  <2>7. Kept(ws.posts, wk'.posts)
    <3>1. Kept(wk.posts, wk'.posts)
      BY <1>1, <2>1, KeptApplied
    <3> QED BY <1>0, <1>1, <2>3, <3>1, KeptTwice
  <2> QED BY <1>0, <1>4, <2>2, <2>4, <2>5, <2>6, <2>7 DEF LInv
<1>5. CASE RejectBlock
  <2>1. wk' = ws /\ ws' = ws /\ phase' = "idle"
    BY <1>5 DEF RejectBlock
  <2> QED BY <1>0, <1>1, <2>1, KeptSame DEF LInv
<1>6. ASSUME NEW p \in Addr, CommitBlock(p) PROVE LInv'
  <2> DEFINE h == ws.height + 1
  <2>1. /\ phase # "idle" /\ phase' = "idle" /\ wk' = ws'
        /\ ws' = FinishBlock(wk, p, h)
    BY <1>6 DEF CommitBlock, H
  <2>2. Safe(ws')
    BY <1>0, <1>1, <2>1, SafeFinish
  <2>3. /\ Changed(wk, ws', {"accounts", "balance", "issued", "active", "epoch", "height"})
        /\ ws'.height = h
    BY <1>1, <2>1, FinishEffect
  <2>4. ws'.unbonding = wk.unbonding /\ ws'.posts = wk.posts
    BY <2>3 DEF Changed, Fields
  <2>5. UnbondingPeriod > 0 => Later(ws', ws'.height)
    BY <1>0, <2>1, <2>3, <2>4 DEF Later
  <2>6. Slow => BackedOK(ws') /\ EpochOK(ws')
    <3> SUFFICES ASSUME Slow PROVE BackedOK(ws') /\ EpochOK(ws')
      OBVIOUS
    <3>1. EpochOK(wk) /\ BackedOK(wk) /\ h = wk.height + 1
      BY <1>0 DEF EpochOK
    <3> QED BY <1>1, <2>1, <3>1, BackedFinish
  <2>7. Kept(ws'.posts, wk'.posts)
    BY <2>1, <2>2, KeptSame DEF Safe
  <2> QED BY <1>0, <2>1, <2>2, <2>5, <2>6, <2>7 DEF LInv
<1>7. CASE UNCHANGED vars
  BY <1>7 DEF vars, LInv
<1> QED BY <1>3, <1>4, <1>5, <1>6, <1>7, StepCases

\* The invariant holds in every state.
LEMMA LInvAlways == Spec => [](LInv /\ IInv)
<1>1. Init => LInv
  <2> SUFFICES ASSUME Init PROVE LInv
    OBVIOUS
  <2>1. ws = InitializeState /\ wk = InitializeState /\ phase = "idle"
    BY DEF Init
  <2>2. DOMAIN InitializeState.unbonding = {}
    BY DEF InitializeState
  <2>3. Later(InitializeState, InitializeState.height)
    BY <2>2 DEF Later
  <2> QED BY <2>1, <2>3, SafeInitial, BackedInitial, GoodInitial, KeptSame DEF LInv
<1> QED BY <1>1, Inductive, LInvPreserved, PTL DEF Spec

-------------------------------------------------------------------------------
\* Coins come into being only as block rewards, whatever the rounding of fees,
\* shares and slashes in executor.go does, and whatever blocks are offered.
THEOREM SupplyIsBounded == Spec => []NoInflation
<1>1. LInv => NoInflation
  <2> SUFFICES ASSUME LInv PROVE SupplyOK(wk)
    BY DEF NoInflation
  <2>1. WorldStateOK(wk) /\ Worth(wk) <= GenesisSupply
    BY DEF LInv, Safe, Good
  <2>2. /\ Worth(wk) = Wealth(wk) + Queued(wk) + wk.burned - wk.issued
        /\ Wealth(wk) \in Nat /\ Queued(wk) \in Nat /\ wk.burned \in Nat /\ wk.issued \in Nat
    BY <2>1, WorthParts
  <2>3. Circulating(wk) = Wealth(wk) + Queued(wk)
    BY DEF Circulating, Wealth, Queued
  <2> QED BY <2>1, <2>2, <2>3, SupplyType DEF SupplyOK
<1> QED BY <1>1, LInvAlways, PTL

\* A withdrawn post holds nobody's coins and a live one still has its author's
\* position: applyUnstakePost closes either one position or all of them.
THEOREM WithdrawalIsComplete == Spec => []WithdrawnIsEmpty
<1>1. LInv => WithdrawnIsEmpty
  BY DEF LInv, Safe, Sound, WithdrawnIsEmpty
<1> QED BY <1>1, LInvAlways, PTL

\* The name index and the accounts name each other after every transaction.
THEOREM NamesAreUnique == Spec => []NamesAgree
<1>1. LInv => NamesAgree
  BY DEF LInv, Safe, Sound, NamesAgree
<1> QED BY <1>1, LInvAlways, PTL

\* validateCreatePost keeps replies one level deep, on posts that exist.
THEOREM Flatness == Spec => []RepliesAreFlat
<1>1. LInv => RepliesAreFlat
  BY DEF LInv, Safe, Sound, FlatOK, RepliesAreFlat
<1> QED BY <1>1, LInvAlways, PTL

\* After ApplyBlock nothing that matured is still in the unbonding queue.
THEOREM ReleasesAreOnTime == Spec => []UnbondingOnTime
<1>1. LInv => UnbondingOnTime
  BY DEF LInv, Later, UnbondingOnTime
<1> QED BY <1>1, LInvAlways, PTL

\* Until it is slashed a validator has at risk what the last epoch gave it as
\* voting power, provided unbonding outlasts an epoch.
THEOREM PowerStaysBacked == Spec => []PowerIsBacked
<1>1. LInv => PowerIsBacked
  <2> SUFFICES ASSUME LInv, UnbondingPeriod >= EpochLength, EpochLength > 0,
                      NEW a \in DOMAIN ws.active
               PROVE  \/ ws.active[a].power <= ws.staked[a] + UnbondingBalanceFor(ws.unbonding, a)
                      \/ \E eh \in EvidenceHeights : <<a, eh>> \in ws.slashed
                      \/ GenesisStake[a] = 0 /\ ws.epoch = 0
    BY DEF PowerIsBacked
  <2>1. BackedOK(ws) /\ WorldStateOK(ws)
    BY DEF LInv, Safe, Good
  <2>2. a \in Addr /\ ws.active[a].power \in Nat /\ ws.staked[a] \in Nat
    BY <2>1 DEF WorldStateOK
  <2> DEFINE U == UnbondingOf(ws.unbonding, a)
             L == Lasting(ws, a)
  <2>3. L \in SUBSET U /\ U \in SUBSET DOMAIN ws.unbonding /\ U \ L \in SUBSET DOMAIN ws.unbonding
        /\ L \in SUBSET DOMAIN ws.unbonding
    BY DEF Lasting, UnbondingOf
  <2> HIDE DEF U, L
  <2>4. UnbondingSum(ws.unbonding, U)
          = UnbondingSum(ws.unbonding, L) + UnbondingSum(ws.unbonding, U \ L)
    <3>1. \A K \in SUBSET DOMAIN ws.unbonding : \A J \in SUBSET K :
            UnbondingSum(ws.unbonding, K)
              = UnbondingSum(ws.unbonding, J) + UnbondingSum(ws.unbonding, K \ J)
      BY <2>1, QueueSplit
    <3> QED BY ONLY <2>3, <3>1
  <2>5. UnbondingSum(ws.unbonding, L) \in Nat /\ UnbondingSum(ws.unbonding, U \ L) \in Nat
    BY <2>1, <2>3, UnbondingSumType
  <2>6. AtRisk(ws, a) <= ws.staked[a] + UnbondingBalanceFor(ws.unbonding, a)
        /\ AtRisk(ws, a) \in Nat /\ UnbondingBalanceFor(ws.unbonding, a) \in Nat
    BY <2>2, <2>4, <2>5 DEF AtRisk, UnbondingBalanceFor, U, L
  <2>7. \/ ws.active[a].power <= AtRisk(ws, a)
        \/ \E eh \in EvidenceHeights : <<a, eh>> \in ws.slashed
        \/ GenesisStake[a] = 0 /\ ws.epoch = 0
    BY <2>1 DEF BackedOK
  <2>8. ws.active[a].power <= AtRisk(ws, a) =>
          ws.active[a].power <= ws.staked[a] + UnbondingBalanceFor(ws.unbonding, a)
    BY <2>2, <2>6
  <2> QED BY <2>7, <2>8
<1> QED BY <1>1, LInvAlways, PTL

\* validateStake and validateUnstake leave nobody with a stake between zero
\* and the minimum; only genesis and slashing can.
THEOREM MinimumIsKept == Spec => []NoStakeBelowMinimum
<1>1. LInv => NoStakeBelowMinimum
  BY DEF LInv, Safe, Sound, MinimumOK, NoStakeBelowMinimum
<1> QED BY <1>1, LInvAlways, PTL

\* No block removes a committed post, changes its author or parent, lowers
\* what it burned, or touches it once it is withdrawn.
THEOREM PostsStay == Spec => PostsArePermanent
<1>1. LInv /\ IInv /\ [Next]_vars =>
        [\A p \in DOMAIN ws.posts :
           /\ p \in DOMAIN ws'.posts
           /\ ws'.posts[p].author = ws.posts[p].author
           /\ ws'.posts[p].parent = ws.posts[p].parent
           /\ ws'.posts[p].totalBurned >= ws.posts[p].totalBurned
           /\ ws.posts[p].withdrawn => ws'.posts[p] = ws.posts[p]]_vars
  <2> SUFFICES ASSUME LInv, IInv, [Next]_vars PROVE Kept(ws.posts, ws'.posts)
    BY DEF Kept
  <2>1. Good(ws) /\ Good(wk) /\ Kept(ws.posts, wk.posts)
    BY DEF LInv, Safe
  <2>2. CASE ws' = ws
    BY <2>1, <2>2, KeptSame
  <2>3. ASSUME NEW p \in Addr, CommitBlock(p) PROVE Kept(ws.posts, ws'.posts)
    <3>1. ws' = FinishBlock(wk, p, H)
      BY <2>3 DEF CommitBlock
    <3>2. Changed(wk, ws', {"accounts", "balance", "issued", "active", "epoch", "height"})
      BY <2>1, <3>1, FinishEffect
    <3>3. ws'.posts = wk.posts
      BY <3>2 DEF Changed, Fields
    <3> QED BY <2>1, <3>3
  <2>4. BeginBlock \/ RejectBlock \/ UNCHANGED vars => ws' = ws
    BY DEF BeginBlock, RejectBlock, vars
  <2> QED BY <2>2, <2>3, <2>4, StepCases
<1> QED BY <1>1, LInvAlways, PTL DEF Spec, PostsArePermanent

-------------------------------------------------------------------------------
(* Public keys.  Within a block the active set stays the same set, and keys are *)
(* only added to it; a new epoch takes over the keys of those who stay.         *)

KeysKept(f, g) == DOMAIN g = DOMAIN f /\ \A a \in DOMAIN f : f[a].key => g[a].key

\* An iteration of a block takes no key out of the active set.
LEMMA KeysApplied ==
  ASSUME NEW s, NEW t, NEW h, Good(s), Applied(s, t, h)
  PROVE  KeysKept(s.active, t.active)
<1>1. t.active = s.active => KeysKept(s.active, t.active)
  BY DEF KeysKept
<1>2. ASSUME NEW a \in Addr, NEW eh \in EvidenceHeights, Slashable(s, a, eh),
             t = ApplySlashEvidence(s, a, eh)
      PROVE  t.active = s.active
  <2>1. Changed(s, t, {"staked", "unbonding", "slashed", "burned"})
    BY <1>2, SlashEffect
  <2> QED BY <2>1 DEF Changed, Fields
<1>3. ASSUME NEW tx, t = ApplyStake(s, tx) PROVE KeysKept(s.active, t.active)
  <2>1. t.active = SetValidatorPubKey(s.active, tx.sender)
    BY <1>3, StakeEffect
  <2>2. \A a \in DOMAIN s.active : s.active[a] \in [power: Nat, key: BOOLEAN]
    BY DEF Good, WorldStateOK
  <2>3. CASE tx.sender \notin DOMAIN s.active
    BY <1>1, <2>1, <2>3 DEF SetValidatorPubKey
  <2>4. CASE tx.sender \in DOMAIN s.active
    <3>1. t.active = [s.active EXCEPT ![tx.sender].key = TRUE]
      BY <2>1, <2>4 DEF SetValidatorPubKey
    <3>2. DOMAIN t.active = DOMAIN s.active
      BY <3>1
    <3>3. ASSUME NEW a \in DOMAIN s.active, s.active[a].key PROVE t.active[a].key
      <4>1. CASE a = tx.sender
        BY <2>2, <2>4, <3>1, <4>1
      <4>2. CASE a # tx.sender
        <5>1. t.active[a] = s.active[a]
          BY <3>1, <4>2
        <5> QED BY <3>3, <5>1
      <4> QED BY <4>1, <4>2
    <3> QED BY <3>2, <3>3 DEF KeysKept
  <2> QED BY <2>3, <2>4
<1>4. ASSUME NEW tx, t = ApplyUnstake(s, tx, h) PROVE t.active = s.active
  <2>1. Changed(s, t, {"staked", "nonce", "unbonding"})
    BY <1>4, UnstakeEffect
  <2> QED BY <2>1 DEF Changed, Fields
<1> QED BY <1>1, <1>2, <1>3, <1>4, StakingCases

\* The end of a block hands keys on to those who stay, and to nobody else.
LEMMA KeysFinish ==
  ASSUME NEW s, Good(s), NEW p \in Addr, NEW h
  PROVE  LET t == FinishBlock(s, p, h)
         IN  \A a \in DOMAIN s.active \cap DOMAIN t.active :
               s.active[a].key => t.active[a].key
<1> DEFINE r == RewardProposer(s, p)
           e == EpochTransition(r, h)
           t == FinishBlock(s, p, h)
<1>1. DOMAIN s = Fields
  BY DEF Good, WorldStateOK
<1>2. DOMAIN r = Fields /\ r.active = s.active
  BY <1>1 DEF RewardProposer, Fields
<1> HIDE DEF r
<1>3. /\ DOMAIN e = Fields
      /\ e.active = r.active \/ e.active = ComputeActiveValidatorSet(r)
  BY <1>2 DEF EpochTransition, Fields
<1> HIDE DEF e
<1>4. t = [e EXCEPT !.height = h]
  BY DEF FinishBlock, e, r
<1>5. t.active = e.active
  BY <1>3, <1>4 DEF Fields
<1> HIDE DEF t
<1>6. ASSUME NEW a \in DOMAIN s.active, a \in DOMAIN t.active, s.active[a].key
      PROVE  t.active[a].key
  <2>1. CASE t.active = s.active
    BY <1>6, <2>1
  <2>2. CASE t.active = ComputeActiveValidatorSet(r)
    <3>1. t.active[a].key = (a \in DOMAIN r.active /\ r.active[a].key)
      BY <1>6, <2>2 DEF ComputeActiveValidatorSet
    <3> QED BY <1>2, <1>6, <3>1, Zenon
  <2> QED BY <1>2, <1>3, <1>5, <2>1, <2>2
<1>7. \A a \in DOMAIN s.active \cap DOMAIN t.active : s.active[a].key => t.active[a].key
  BY <1>6
<1> QED BY <1>7 DEF t

\* Every step keeps the keys in the clone, and the committed ones of those who stay.
LEMMA KeysStep ==
  ASSUME LInv, IInv, [Next]_vars, KeysKept(ws.active, wk.active)
  PROVE  /\ KeysKept(ws.active, wk.active)'
         /\ \A a \in DOMAIN ws.active \cap DOMAIN ws'.active :
              ws.active[a].key => ws'.active[a].key
<1> DEFINE Goal == /\ KeysKept(ws.active, wk.active)'
                   /\ \A a \in DOMAIN ws.active \cap DOMAIN ws'.active :
                        ws.active[a].key => ws'.active[a].key
<1>0. Good(ws) /\ Good(wk)
  BY DEF LInv, Safe
<1>1. CASE BeginBlock
  <2>1. wk' = ReleaseMatured(ws, ws.height + 1) /\ ws' = ws
    BY <1>1 DEF BeginBlock
  <2>2. Changed(ws, wk', {"accounts", "balance", "unbonding"})
    BY <1>0, <2>1, ReleaseEffect
  <2>3. wk'.active = ws.active
    BY <2>2 DEF Changed, Fields
  <2> QED BY <2>1, <2>3 DEF KeysKept
<1>2. CASE ws' = ws /\ Applied(wk, wk', H)
  <2>1. KeysKept(wk.active, wk'.active)
    BY <1>0, <1>2, KeysApplied
  <2> QED BY <1>2, <2>1 DEF KeysKept
<1>3. CASE RejectBlock
  <2>1. wk' = ws /\ ws' = ws
    BY <1>3 DEF RejectBlock
  <2> QED BY <2>1 DEF KeysKept
<1>4. ASSUME NEW p \in Addr, CommitBlock(p) PROVE Goal
  <2>1. ws' = FinishBlock(wk, p, H) /\ wk' = ws'
    BY <1>4 DEF CommitBlock
  <2>2. \A a \in DOMAIN wk.active \cap DOMAIN ws'.active : wk.active[a].key => ws'.active[a].key
    BY <1>0, <2>1, KeysFinish
  <2> QED BY <2>1, <2>2 DEF KeysKept
<1>5. CASE UNCHANGED vars
  BY <1>5 DEF vars, KeysKept
<1> QED BY <1>1, <1>2, <1>3, <1>4, <1>5, StepCases

\* In every state the clone has the keys that the committed set has.
LEMMA KeysInClone == Spec => []KeysKept(ws.active, wk.active)
<1>1. Init => KeysKept(ws.active, wk.active)
  BY DEF Init, KeysKept
<1>2. LInv /\ IInv /\ [Next]_vars /\ KeysKept(ws.active, wk.active)
        => KeysKept(ws.active, wk.active)'
  BY KeysStep
<1> QED BY <1>1, <1>2, LInvAlways, PTL DEF Spec

\* ComputeActiveValidatorSet and SetValidatorPubKey take no validator's key away while
\* it stays in the set, whatever it stakes, unstakes or loses by a slash.
THEOREM KnownKeysStay == Spec => KeysStay
<1>1. LInv /\ IInv /\ [Next]_vars /\ KeysKept(ws.active, wk.active) =>
        [\A a \in DOMAIN ws.active \cap DOMAIN ws'.active :
           ws.active[a].key => ws'.active[a].key]_vars
  BY KeysStep
<1> QED BY <1>1, LInvAlways, KeysInClone, PTL DEF Spec, KeysStay

\* Somebody joins the active set.
Joins == ~ (DOMAIN ws'.active \subseteq DOMAIN ws.active)

\* So joining is the one way to a validator with the zero key: while nobody joins, all
\* keys are known.
THEOREM KeysKnownUntilJoin == Spec /\ [][~ Joins]_vars => []ActiveKeysKnown
<1>1. Init => ActiveKeysKnown
  <2> SUFFICES ASSUME Init PROVE ActiveKeysKnown
    OBVIOUS
  <2>1. ws = InitializeState
    BY DEF Init
  <2>2. \A a \in DOMAIN ws.active : ws.active[a].key
    BY <2>1 DEF InitializeState
  <2> QED BY <2>2 DEF ActiveKeysKnown
<1>2. /\ LInv /\ IInv /\ [Next]_vars /\ KeysKept(ws.active, wk.active)
      /\ ActiveKeysKnown /\ [~ Joins]_vars
      => ActiveKeysKnown'
  <2> SUFFICES ASSUME LInv, IInv, [Next]_vars, KeysKept(ws.active, wk.active),
                      ActiveKeysKnown, [~ Joins]_vars
               PROVE  ActiveKeysKnown'
    OBVIOUS
  <2>1. CASE UNCHANGED vars
    BY <2>1 DEF vars, ActiveKeysKnown
  <2>2. CASE ~ Joins
    <3>1. \A a \in DOMAIN ws.active \cap DOMAIN ws'.active :
             ws.active[a].key => ws'.active[a].key
      BY KeysStep
    <3> QED BY <2>2, <3>1 DEF Joins, ActiveKeysKnown
  <2> QED BY <2>1, <2>2
<1> QED BY <1>1, <1>2, LInvAlways, KeysInClone, PTL DEF Spec

-------------------------------------------------------------------------------
(* Rounding.  A share is lost whole when nothing is staked on the post, so   *)
(* the bound needs fees that leave something of a post and of a boost.       *)

FeesLeaveSomething ==
  /\ PostFee < 100
  /\ BurnPct + AuthorPct + StakerPct < 100
  /\ MinPostCommitment > 0

\* The author of a live post has coins on it.
PositiveOK(s) ==
  \A p \in DOMAIN s.posts :
    ~ s.posts[p].withdrawn => StakeOf(s, p, s.posts[p].author) > 0

\* Less than the whole is a fee.
LEMMA PercentStrict ==
  ASSUME NEW n \in Nat, n > 0, NEW x \in Nat, NEW y \in Nat, NEW z \in Nat, x + y + z < 100
  PROVE  Percent(n, x) + Percent(n, y) + Percent(n, z) < n
<1>1. n * x \in Nat /\ n * y \in Nat /\ n * z \in Nat
  OBVIOUS
<1>2. \A m \in Nat : m \div 100 \in Nat /\ 100 * (m \div 100) <= m
  OBVIOUS
<1>3. /\ Percent(n, x) \in Nat /\ 100 * Percent(n, x) <= n * x
      /\ Percent(n, y) \in Nat /\ 100 * Percent(n, y) <= n * y
      /\ Percent(n, z) \in Nat /\ 100 * Percent(n, z) <= n * z
  BY <1>1, <1>2 DEF Percent, MulDiv
<1>4. n * x + n * y + n * z = n * (x + y + z)
  OBVIOUS
<1>5. n * (x + y + z) <= n * 99
  <2>1. \A m \in Nat : m <= 99 => n * m <= n * 99
    OBVIOUS
  <2> QED BY <2>1
<1>6. n * 99 < 100 * n
  OBVIOUS
<1> QED BY <1>1, <1>3, <1>4, <1>5, <1>6

\* No transaction leaves an empty position.
LEMMA PositiveApplied ==
  ASSUME NEW s, NEW t, NEW h, Good(s), PositiveOK(s), FeesLeaveSomething, Applied(s, t, h)
  PROVE  PositiveOK(t)
<1>0. WorldStateOK(s) /\ \A p, a : StakeOf(s, p, a) \in Nat
  BY StakeOfType DEF Good
<1>1. CASE t.posts = s.posts /\ t.stakes = s.stakes
  BY <1>1 DEF PositiveOK, StakeOf
<1>2. ASSUME NEW F \in SUBSET (Fields \ {"posts", "stakes"}), Changed(s, t, F)
      PROVE  PositiveOK(t)
  <2>1. t.posts = s.posts /\ t.stakes = s.stakes
    BY <1>2 DEF Changed, Fields
  <2> QED BY <1>1, <2>1
<1>3. ASSUME NEW a \in Addr, NEW eh \in EvidenceHeights, t = ApplySlashEvidence(s, a, eh)
      PROVE  PositiveOK(t)
  <2>1. CASE ~ Slashable(s, a, eh)
    BY <1>3, <2>1 DEF ApplySlashEvidence
  <2>2. CASE Slashable(s, a, eh)
    <3>1. Changed(s, t, {"staked", "unbonding", "slashed", "burned"})
      BY <1>3, <2>2, SlashEffect
    <3> QED BY <1>2, <3>1 DEF Fields
  <2> QED BY <2>1, <2>2
<1>4. ASSUME NEW tx, t = ApplyTransfer(s, tx) PROVE PositiveOK(t)
  <2>1. Changed(s, t, {"accounts", "balance", "nonce"})
    BY <1>4, TransferEffect
  <2> QED BY <1>2, <2>1 DEF Fields
<1>5. ASSUME NEW tx, tx.sender \in Addr, tx.amount \in Nat, ValidCreatePost(s, tx),
             t = ApplyCreatePost(s, tx)
      PROVE  PositiveOK(t)
  <2> DEFINE id == NewId(s, tx)
             v == tx.amount - FeeOf(tx)
             x == tx.sender
  <2>1. /\ DOMAIN t.posts = DOMAIN s.posts \cup {id}
        /\ t.posts[id].author = x
        /\ \A p \in DOMAIN s.posts : p # id => t.posts[p] = s.posts[p]
        /\ t.stakes = MapPut(s.stakes, <<id, x>>, v)
    <3> DEFINE u == ApplyCreatePost(s, tx)
    <3> HIDE DEF u
    <3>1. /\ DOMAIN u.posts = DOMAIN s.posts \cup {NewId(s, tx)}
          /\ u.posts[NewId(s, tx)] =
               [author |-> tx.sender, parent |-> tx.post, totalStaked |-> tx.amount - FeeOf(tx),
                totalBurned |-> FeeOf(tx), stakerCount |-> 1, withdrawn |-> FALSE]
          /\ \A p \in DOMAIN s.posts : p # NewId(s, tx) => u.posts[p] = s.posts[p]
          /\ u.stakes = MapPut(s.stakes, <<NewId(s, tx), tx.sender>>, tx.amount - FeeOf(tx))
      BY CreatePostEffect DEF u
    <3>2. u = t
      BY <1>5 DEF u
    <3> QED BY <3>1, <3>2
  <2>2. v > 0
    <3>1. tx.amount > 0
      BY <1>5, ParamAssumption DEF FeesLeaveSomething, ValidCreatePost
    <3>2. PostFee \in Nat
      BY ParamAssumption DEF PostFee
    <3>3. Percent(tx.amount, PostFee) + Percent(tx.amount, 0) + Percent(tx.amount, 0) < tx.amount
      BY <1>5, <3>1, <3>2, PercentStrict DEF FeesLeaveSomething
    <3>4. Percent(tx.amount, 0) = 0 /\ Percent(tx.amount, PostFee) \in Nat
      <4>1. Percent(tx.amount, 0) = 0
        BY <1>5 DEF Percent, MulDiv
      <4>2. Percent(tx.amount, PostFee) \in Nat
        BY <1>5, <3>2, PercentType, SMTT(30) DEF FeesLeaveSomething
      <4> QED BY <4>1, <4>2
    <3> QED BY <1>5, <3>3, <3>4 DEF FeeOf
  <2> HIDE DEF id, v, x
  <2> SUFFICES ASSUME NEW p \in DOMAIN t.posts, ~ t.posts[p].withdrawn
               PROVE  StakeOf(t, p, t.posts[p].author) > 0
    BY DEF PositiveOK
  <2>3. CASE p = id
    BY <2>1, <2>2, <2>3 DEF StakeOf, MapPut
  <2>4. CASE p # id
    <3>1. StakeOf(t, p, s.posts[p].author) = StakeOf(s, p, s.posts[p].author)
      BY <2>1, <2>4 DEF StakeOf, MapPut
    <3> QED BY <2>1, <2>4, <3>1 DEF PositiveOK
  <2> QED BY <2>3, <2>4
<1>6. ASSUME NEW tx, tx.sender \in Addr, tx.amount \in Nat, ValidBoostPost(s, tx),
             t = ApplyBoostPost(s, tx)
      PROVE  PositiveOK(t)
  <2> DEFINE x == tx.post
             y == tx.sender
             v == BoostStaked(tx.amount)
             u == ApplyBoostPost(s, tx)
  <2>1. tx.post \in DOMAIN s.posts /\ v \in Nat
    BY <1>6, BoostSplit DEF ValidBoostPost
  <2> HIDE DEF u
  <2>2. /\ DOMAIN u.posts = DOMAIN s.posts
        /\ u.posts[x].author = s.posts[x].author
        /\ u.posts[x].withdrawn = s.posts[x].withdrawn
        /\ \A q \in DOMAIN s.posts : q # x => u.posts[q] = s.posts[q]
        /\ u.stakes = MapPut(s.stakes, <<x, y>>, StakeOf(s, x, y) + v)
    BY ONLY <2>1, Good(s), BoostPostEffect DEF u, x, y, v
  <2>3. u = t
    BY <1>6 DEF u
  <2> HIDE DEF x, y, v
  <2> SUFFICES ASSUME NEW p \in DOMAIN s.posts, ~ s.posts[p].withdrawn
               PROVE  StakeOf(u, p, s.posts[p].author) > 0
    <3>1. \A p \in DOMAIN s.posts : u.posts[p].author = s.posts[p].author
                                    /\ u.posts[p].withdrawn = s.posts[p].withdrawn
      BY <2>2
    <3> QED BY <2>2, <2>3, <3>1 DEF PositiveOK
  <2>4. StakeOf(s, p, s.posts[p].author) > 0
    BY DEF PositiveOK
  <2>5. CASE p = x /\ s.posts[p].author = y
    <3>1. StakeOf(u, p, y) = StakeOf(s, p, y) + v
      BY <2>2, <2>5 DEF StakeOf, MapPut
    <3> QED BY <1>0, <2>1, <2>4, <2>5, <3>1
  <2>6. CASE ~(p = x /\ s.posts[p].author = y)
    <3>1. StakeOf(u, p, s.posts[p].author) = StakeOf(s, p, s.posts[p].author)
      BY <2>2, <2>6 DEF StakeOf, MapPut
    <3> QED BY <2>4, <3>1
  <2> QED BY <2>5, <2>6
<1>7. ASSUME NEW tx, tx.sender \in Addr, ValidUnstakePost(s, tx), t = ApplyUnstakePost(s, tx)
      PROVE  PositiveOK(t)
  <2> DEFINE x == tx.post
             y == tx.sender
  <2>1. x \in DOMAIN s.posts
    BY <1>7 DEF ValidUnstakePost
  <2>2. /\ DOMAIN t.posts = DOMAIN s.posts
        /\ t.posts[x].author = s.posts[x].author
        /\ t.posts[x].withdrawn <=> s.posts[x].withdrawn \/ y = s.posts[x].author
        /\ \A q \in DOMAIN s.posts : q # x => t.posts[q] = s.posts[q]
        /\ t.stakes = MapDelete(s.stakes, {<<x, a>> : a \in Closing(s, tx)})
    BY <1>7, <2>1, UnstakePostEffect, SMTT(30)
  <2>3. y # s.posts[x].author => Closing(s, tx) = {y}
    BY DEF Closing
  <2> HIDE DEF x, y
  <2> SUFFICES ASSUME NEW p \in DOMAIN s.posts, ~ t.posts[p].withdrawn
               PROVE  StakeOf(t, p, t.posts[p].author) > 0
    BY <2>2 DEF PositiveOK
  <2>4. CASE p = x
    <3>1. y # s.posts[x].author /\ ~ s.posts[x].withdrawn
      BY <2>2, <2>4
    <3>2. StakeOf(t, x, s.posts[x].author) = StakeOf(s, x, s.posts[x].author)
      BY <2>2, <2>3, <3>1 DEF StakeOf, MapDelete, Restrict
    <3> QED BY <2>1, <2>2, <2>4, <3>1, <3>2 DEF PositiveOK
  <2>5. CASE p # x
    <3>1. \A a : <<p, a>> \notin {<<x, b>> : b \in Closing(s, tx)}
      BY <2>5
    <3>2. StakeOf(t, p, s.posts[p].author) = StakeOf(s, p, s.posts[p].author)
      BY <2>2, <3>1 DEF StakeOf, MapDelete, Restrict
    <3> QED BY <2>2, <2>5, <3>2 DEF PositiveOK
  <2> QED BY <2>4, <2>5
<1>8. ASSUME NEW tx, t = ApplyRegisterName(s, tx) PROVE PositiveOK(t)
  <2>1. Changed(s, t, {"nonce", "name", "nameIndex"})
    BY <1>8, RegisterNameEffect
  <2> QED BY <1>2, <2>1 DEF Fields
<1>9. ASSUME NEW tx, t = ApplyStake(s, tx) PROVE PositiveOK(t)
  <2>1. Changed(s, t, {"balance", "staked", "nonce", "active"})
    BY <1>9, StakeEffect
  <2> QED BY <1>2, <2>1 DEF Fields
<1>10. ASSUME NEW tx, t = ApplyUnstake(s, tx, h) PROVE PositiveOK(t)
  <2>1. Changed(s, t, {"staked", "nonce", "unbonding"})
    BY <1>10, UnstakeEffect
  <2> QED BY <1>2, <2>1 DEF Fields
<1> QED BY <1>3, <1>4, <1>5, <1>6, <1>7, <1>8, <1>9, <1>10 DEF Applied

\* One iteration keeps the coins, or is a boost that loses less than one per
\* staker.
LEMMA DustApplied ==
  ASSUME NEW s, NEW t, NEW h \in Nat, Good(s), WithdrawalOK(s), PositiveOK(s),
         FeesLeaveSomething, Applied(s, t, h)
  PROVE  \/ Worth(t) = Worth(s)
         \/ \E p \in DOMAIN s.posts :
              /\ t.posts[p].totalBurned >= s.posts[p].totalBurned
              /\ t.posts[p].totalStaked > s.posts[p].totalStaked
              /\ Worth(t) < Worth(s)
              /\ Worth(s) - Worth(t) < s.posts[p].stakerCount
<1>1. ASSUME NEW tx, tx.sender \in Addr, tx.amount \in Nat, ValidBoostPost(s, tx),
             t = ApplyBoostPost(s, tx), Worth(t) # Worth(s)
      PROVE  LET p == tx.post
             IN  /\ p \in DOMAIN s.posts
                 /\ t.posts[p].totalBurned >= s.posts[p].totalBurned
                 /\ t.posts[p].totalStaked > s.posts[p].totalStaked
                 /\ Worth(t) < Worth(s)
                 /\ Worth(s) - Worth(t) < s.posts[p].stakerCount
  <2> DEFINE x == tx.post
             v == BoostStaked(tx.amount)
             b == Percent(tx.amount, BurnPct)
             u == ApplyBoostPost(s, tx)
  <2>1. tx.post \in DOMAIN s.posts /\ ~ s.posts[x].withdrawn /\ v \in Nat /\ b \in Nat
    BY <1>1, BoostSplit DEF ValidBoostPost
  <2>2. WorldStateOK(s) /\ WorldStateOK(u)
    BY <1>1, GoodBoostPost DEF Good
  <2> HIDE DEF u
  <2>3. /\ u.posts[x].totalStaked = s.posts[x].totalStaked + v
        /\ u.posts[x].totalBurned = s.posts[x].totalBurned + b
    BY ONLY <2>1, Good(s), BoostPostEffect DEF u, x, v, b
  <2>4. s.posts[x].totalStaked \in Nat /\ s.posts[x].totalBurned \in Nat
        /\ s.posts[x].author \in Addr
    BY <2>1, <2>2 DEF WorldStateOK, Post
  <2>5. s.posts[x].totalStaked > 0
    <3> DEFINE f == [a \in Addr |-> StakeOf(s, x, a)]
               w == s.posts[x].author
    <3>1. s.posts[x].totalStaked = SumFunctionOnSet(f, Addr)
      BY <2>1 DEF Good, StakesOK, StakedOn
    <3>2. \A a \in Addr : f[a] \in Nat
      BY <2>2, StakeOfType
    <3>3. w \in Addr /\ f[w] > 0
      BY <2>1, <2>4 DEF PositiveOK
    <3> HIDE DEF f, w
    <3>4. SumFunctionOnSet(f, Addr) = f[w] + SumFunctionOnSet(f, Addr \ {w})
      BY <3>2, <3>3, SumRemove, AddrFinite
    <3>5. SumFunctionOnSet(f, Addr \ {w}) \in Nat
      <4>1. IsFiniteSet(Addr \ {w})
        BY AddrFinite, FS_Subset
      <4> QED BY <3>2, <4>1, SumNat
    <3> QED BY <3>1, <3>2, <3>3, <3>4, <3>5
  <2>6. Worth(u) <= Worth(s) /\ Worth(s) - Worth(u) < s.posts[x].stakerCount
    BY <1>1, <2>5, BoostLoses DEF u
  <2>7. Worth(u) \in Int /\ Worth(s) \in Int
    BY <2>2, SupplyType
  <2>8. u = t
    BY <1>1 DEF u
  <2>9. v > 0
    <3>1. tx.amount # 0
      <4> SUFFICES ASSUME tx.amount = 0 PROVE FALSE
        OBVIOUS
      <4>1. Percent(0, StakerPct) = 0
        <5>1. StakerPct \in Nat
          BY ParamAssumption DEF StakerPct
        <5> QED BY <5>1 DEF Percent, MulDiv
      <4>2. Shares(s, x, 0) \in Nat /\ Shares(s, x, 0) <= 0
        BY <2>1, SharesBound
      <4>3. Worth(u) = Worth(s) - (0 - Shares(s, x, 0))
        BY <1>1, <4>1, WorthBoost DEF u
      <4> QED BY <1>1, <2>7, <2>8, <4>2, <4>3
    <3>2. BurnPct \in Nat /\ AuthorPct \in Nat /\ StakerPct \in Nat
      BY ParamAssumption DEF BurnPct, AuthorPct, StakerPct
    <3>3. Percent(tx.amount, BurnPct) + Percent(tx.amount, AuthorPct)
            + Percent(tx.amount, StakerPct) < tx.amount
      BY <1>1, <3>1, <3>2, PercentStrict DEF FeesLeaveSomething
    <3> QED BY <1>1, <3>3, BoostSplit DEF BoostStaked
  <2>10. /\ u.posts[x].totalBurned >= s.posts[x].totalBurned
         /\ u.posts[x].totalStaked > s.posts[x].totalStaked
    BY <2>1, <2>3, <2>4, <2>9
  <2>11. Worth(u) < Worth(s)
    BY <1>1, <2>6, <2>7, <2>8
  <2> QED BY <2>1, <2>6, <2>8, <2>10, <2>11
<1>2. ASSUME NEW a \in Addr, NEW eh \in EvidenceHeights, t = ApplySlashEvidence(s, a, eh)
      PROVE  Worth(t) = Worth(s)
  BY <1>2, WorthSlash, BoundAssumption
<1> QED BY <1>1, <1>2, WorthTransfer, WorthCreatePost, WorthUnstakePost, WorthRegisterName,
           WorthStake, WorthUnstake DEF Applied

\* With fees that leave something of every post and boost, a step within a
\* block conserves the coins or is a boost that loses less than one coin per
\* staker to the rounding of applyBoostPost.
THEOREM RoundingIsBounded == ASSUME FeesLeaveSomething PROVE Spec => DustIsBounded
<1> DEFINE PInv == PositiveOK(ws) /\ PositiveOK(wk)
<1>1. Init => PInv
  <2>1. DOMAIN InitializeState.posts = {}
    BY DEF InitializeState
  <2> QED BY <2>1 DEF Init, PositiveOK
<1>2. PInv /\ LInv /\ IInv /\ [Next]_vars => PInv'
  <2> SUFFICES ASSUME PInv, LInv, IInv, [Next]_vars PROVE PInv'
    OBVIOUS
  <2>1. Good(ws) /\ Good(wk)
    BY DEF IInv
  <2>2. ASSUME NEW s, NEW t, PositiveOK(s), t.posts = s.posts, t.stakes = s.stakes
        PROVE  PositiveOK(t)
    BY <2>2 DEF PositiveOK, StakeOf
  <2>3. CASE BeginBlock
    <3>1. wk' = ReleaseMatured(ws, ws.height + 1) /\ ws' = ws
      BY <2>3 DEF BeginBlock
    <3>2. Changed(ws, wk', {"accounts", "balance", "unbonding"})
      BY <2>1, <3>1, ReleaseEffect
    <3>3. wk'.posts = ws.posts /\ wk'.stakes = ws.stakes
      BY <3>2 DEF Changed, Fields
    <3> QED BY <2>2, <3>1, <3>3
  <2>4. CASE ws' = ws /\ Applied(wk, wk', H)
    BY <2>1, <2>4, PositiveApplied
  <2>5. CASE RejectBlock
    BY <2>5 DEF RejectBlock
  <2>6. ASSUME NEW p \in Addr, CommitBlock(p) PROVE PInv'
    <3>1. ws' = FinishBlock(wk, p, H) /\ wk' = ws'
      BY <2>6 DEF CommitBlock
    <3>2. Changed(wk, ws', {"accounts", "balance", "issued", "active", "epoch", "height"})
      BY <2>1, <3>1, FinishEffect
    <3>3. ws'.posts = wk.posts /\ ws'.stakes = wk.stakes
      BY <3>2 DEF Changed, Fields
    <3> QED BY <2>2, <3>1, <3>3
  <2>7. CASE UNCHANGED vars
    BY <2>7 DEF vars
  <2> QED BY <2>3, <2>4, <2>5, <2>6, <2>7, StepCases
<1>3. PInv /\ LInv /\ IInv /\ [Next]_vars =>
        [phase' # "idle" =>
           \/ Worth(wk') = Worth(wk)
           \/ \E p \in DOMAIN wk.posts :
                /\ wk'.posts[p].totalBurned >= wk.posts[p].totalBurned
                /\ wk'.posts[p].totalStaked > wk.posts[p].totalStaked
                /\ Worth(wk') < Worth(wk)
                /\ Worth(wk) - Worth(wk') < wk.posts[p].stakerCount]_vars
  <2> DEFINE Bounded ==
               \/ Worth(wk') = Worth(wk)
               \/ \E p \in DOMAIN wk.posts :
                    /\ wk'.posts[p].totalBurned >= wk.posts[p].totalBurned
                    /\ wk'.posts[p].totalStaked > wk.posts[p].totalStaked
                    /\ Worth(wk') < Worth(wk)
                    /\ Worth(wk) - Worth(wk') < wk.posts[p].stakerCount
  <2> SUFFICES ASSUME PInv, LInv, IInv, [Next]_vars, phase' # "idle" PROVE Bounded
    OBVIOUS
  <2>1. Good(ws) /\ Good(wk) /\ WithdrawalOK(wk) /\ H \in Nat
    BY HeightType DEF IInv, LInv, Safe, Sound
  <2>2. CASE BeginBlock
    <3>1. wk' = ReleaseMatured(ws, H) /\ wk = ws
      BY <2>2 DEF BeginBlock, LInv, H
    <3>2. Worth(wk') = Worth(ws)
      BY <2>1, <3>1, WorthRelease
    <3> QED BY <3>1, <3>2
  <2>3. CASE Applied(wk, wk', H)
    <3> HIDE DEF Bounded
    <3> QED BY <2>1, <2>3, DustApplied DEF Bounded
  <2>4. ASSUME NEW p \in Addr, CommitBlock(p) PROVE Bounded
    BY <2>4 DEF CommitBlock
  <2>5. CASE RejectBlock
    BY <2>5 DEF RejectBlock
  <2>6. CASE UNCHANGED vars
    BY <2>6 DEF vars
  <2> QED BY <2>2, <2>3, <2>4, <2>5, <2>6, StepCases
<1> HIDE DEF PInv
<1> QED BY <1>1, <1>2, <1>3, LInvAlways, PTL DEF Spec, DustIsBounded
===============================================================================
