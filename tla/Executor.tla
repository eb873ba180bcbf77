------------------------------- MODULE Executor -------------------------------
(***************************************************************************)
(* What a transaction, slash evidence and a whole block do to the world    *)
(* state (internal/state/executor.go).  Each operator is given a state in  *)
(* which the transaction was just validated (ApplyBlock calls              *)
(* ValidateTransaction on the same clone first), so the executor's own     *)
(* existence and balance checks cannot fail and are not repeated.          *)
(***************************************************************************)
EXTENDS Validation

-------------------------------------------------------------------------------
(* Fee splits. *)

\* A fee of 0 in the genesis file means the default.
PostFee == IF PostFeePercent = 0 THEN 6 ELSE PostFeePercent

BoostDefaults == BoostBurnPercent = 0 /\ BoostAuthorPercent = 0 /\ BoostStakerPercent = 0
BurnPct   == IF BoostDefaults THEN 3 ELSE BoostBurnPercent
AuthorPct == IF BoostDefaults THEN 2 ELSE BoostAuthorPercent
StakerPct == IF BoostDefaults THEN 1 ELSE BoostStakerPercent

Percent(amount, pct) == MulDiv(amount, pct, 100)

\* What stays staked of a boost after the three fees.
BoostStaked(amount) ==
  amount - Percent(amount, BurnPct) - Percent(amount, AuthorPct) - Percent(amount, StakerPct)

\* Mistake: shares are rounded up.
ShareRoundedUp(s, p, reward, a) ==
  IF s.posts[p].totalStaked > 0 /\ <<p, a>> \in DOMAIN s.stakes /\ a \in s.accounts
  THEN (reward * s.stakes[<<p, a>>] + s.posts[p].totalStaked - 1) \div s.posts[p].totalStaked
  ELSE 0

\* Mistake: the author, who has a reward already, is left out of the shares.
ShareNotAuthor(s, p, reward, a) ==
  IF /\ s.posts[p].totalStaked > 0 /\ <<p, a>> \in DOMAIN s.stakes
     /\ a \in s.accounts /\ a # s.posts[p].author
  THEN MulDiv(reward, s.stakes[<<p, a>>], s.posts[p].totalStaked)
  ELSE 0

\* The part of reward that the position of a on post p earns: pro rata of the
\* stake before the boost, rounded down.
Share(s, p, reward, a) ==
  IF s.posts[p].totalStaked > 0 /\ <<p, a>> \in DOMAIN s.stakes /\ a \in s.accounts
  THEN MulDiv(reward, s.stakes[<<p, a>>], s.posts[p].totalStaked)
  ELSE 0

-------------------------------------------------------------------------------
(* Transactions. *)

\* applyTransfer: the recipient's account is created if it does not exist.
ApplyTransfer(s, tx) ==
  [s EXCEPT
     !.accounts = s.accounts \cup {tx.recipient},
     !.balance  = Adjust(Adjust(s.balance, tx.sender, -tx.amount), tx.recipient, tx.amount),
     !.nonce    = Adjust(s.nonce, tx.sender, 1)]

\* applyCreatePost.
ApplyCreatePost(s, tx) ==
  LET fee    == Percent(tx.amount, PostFee)
      staked == tx.amount - fee
      id     == <<tx.sender, s.nonce[tx.sender] + 1>>
  IN  [s EXCEPT
         !.balance    = Adjust(s.balance, tx.sender, -tx.amount),
         !.postStaked = Adjust(s.postStaked, tx.sender, staked),
         !.nonce      = Adjust(s.nonce, tx.sender, 1),
         !.posts      = MapPut(s.posts, id, [author |-> tx.sender, parent |-> tx.post,
                                       totalStaked |-> staked, totalBurned |-> fee,
                                       stakerCount |-> 1, withdrawn |-> FALSE]),
         !.stakes     = MapPut(s.stakes, <<id, tx.sender>>, staked),
         !.burned     = s.burned + fee]

\* Mistake: every boost counts as a new staker.
AlwaysNewStaker(s, tx) == TRUE

\* The booster has no position on the post yet.
IsNewStaker(s, tx) == <<tx.post, tx.sender>> \notin DOMAIN s.stakes

\* applyBoostPost: burn, author reward, staker rewards, and the rest becomes
\* (or joins) the booster's position.
ApplyBoostPost(s, tx) ==
  LET post   == s.posts[tx.post]
      burn   == Percent(tx.amount, BurnPct)
      author == Percent(tx.amount, AuthorPct)
      reward == Percent(tx.amount, StakerPct)
      staked == BoostStaked(tx.amount)
      Paid(a) == (IF a = post.author /\ a \in s.accounts THEN author ELSE 0)
                 + Share(s, tx.post, reward, a)
                 - (IF a = tx.sender THEN tx.amount ELSE 0)
  IN  [s EXCEPT
         !.balance    = [a \in Addr |-> s.balance[a] + Paid(a)],
         !.postStaked = Adjust(s.postStaked, tx.sender, staked),
         !.nonce      = Adjust(s.nonce, tx.sender, 1),
         !.posts      = MapPut(s.posts, tx.post,
                          [post EXCEPT !.totalStaked = @ + staked,
                                       !.totalBurned = @ + burn,
                                       !.stakerCount = IF IsNewStaker(s, tx) THEN @ + 1 ELSE @]),
         !.stakes     = MapPut(s.stakes, <<tx.post, tx.sender>>,
                               StakeOf(s, tx.post, tx.sender) + staked),
         !.burned     = s.burned + burn]

\* Mistake: an author's withdrawal forgets the other stakers.
ClosingSelf(s, tx) == {tx.sender}

\* Whose positions an unstake closes: the sender's, and when the sender is the
\* author everybody's.
Closing(s, tx) ==
  IF tx.sender = s.posts[tx.post].author THEN PostStakers(s, tx.post) ELSE {tx.sender}

\* applyUnstakePost: the closed positions go back to the wallets in full, and
\* the author's unstake withdraws the post.
ApplyUnstakePost(s, tx) ==
  LET post    == s.posts[tx.post]
      closing == Closing(s, tx)
      Back(a) == IF a \in closing /\ a \in s.accounts THEN s.stakes[<<tx.post, a>>] ELSE 0
      total   == SumFunctionOnSet([a \in Addr |-> StakeOf(s, tx.post, a)], closing)
  IN  [s EXCEPT
         !.balance    = [a \in Addr |-> s.balance[a] + Back(a)],
         !.postStaked = [a \in Addr |-> s.postStaked[a] - Back(a)],
         !.nonce      = Adjust(s.nonce, tx.sender, 1),
         !.posts      = MapPut(s.posts, tx.post,
                          [post EXCEPT !.totalStaked = @ - total,
                                       !.stakerCount = @ - Cardinality(closing),
                                       !.withdrawn   = @ \/ tx.sender = post.author]),
         !.stakes     = MapDelete(s.stakes, {<<tx.post, a>> : a \in closing})]

\* applyRegisterName.
ApplyRegisterName(s, tx) ==
  [s EXCEPT
     !.nonce     = Adjust(s.nonce, tx.sender, 1),
     !.name      = [s.name EXCEPT ![tx.sender] = tx.name],
     !.nameIndex = [s.nameIndex EXCEPT ![tx.name] = tx.sender]]

\* applyStake.
ApplyStake(s, tx) ==
  [s EXCEPT
     !.balance = Adjust(s.balance, tx.sender, -tx.amount),
     !.staked  = Adjust(s.staked, tx.sender, tx.amount),
     !.nonce   = Adjust(s.nonce, tx.sender, 1),
     !.active  = SetValidatorPubKey(s.active, tx.sender)]

\* applyUnstake in a block of height h.
ApplyUnstake(s, tx, h) ==
  [s EXCEPT
     !.staked    = Adjust(s.staked, tx.sender, -tx.amount),
     !.nonce     = Adjust(s.nonce, tx.sender, 1),
     !.unbonding = AddUnbondingEntry(s.unbonding, tx.sender, s.nonce[tx.sender] + 1, tx.amount,
                                     h + UnbondingPeriod)]

-------------------------------------------------------------------------------
(* The parts of ApplyBlock around the transactions. *)

\* Step 1: matured unbonding entries return to the wallets of their owners,
\* whose accounts are created if they do not exist.
ReleaseMatured(s, h) ==
  LET done == Matured(s.unbonding, h)
  IN  [s EXCEPT
         !.accounts  = s.accounts \cup {k[1] : k \in done},
         !.balance   = [a \in Addr |->
                          s.balance[a] + UnbondingSum(s.unbonding, done \cap UnbondingOf(s.unbonding, a))],
         !.unbonding = MapDelete(s.unbonding, done)]

\* What a double sign costs: a percentage of everything at risk, at least 1.
SlashAmount(s, a) ==
  LET risk   == s.staked[a] + UnbondingBalanceFor(s.unbonding, a)
      amount == MulDiv(risk, SlashFraction, 100)
  IN  IF amount = 0 THEN 1 ELSE amount

\* Step 2: applySlashEvidence for valid evidence that a voted twice at height
\* eh.  Evidence about an unknown account, with nothing at risk or already
\* punished is skipped.
Slashable(s, a, eh) ==
  /\ <<a, eh>> \notin s.slashed
  /\ a \in s.accounts
  /\ s.staked[a] + UnbondingBalanceFor(s.unbonding, a) # 0

ApplySlashEvidence(s, a, eh) ==
  LET amount    == SlashAmount(s, a)
      fromStake == Least(amount, s.staked[a])
  IN  IF ~ Slashable(s, a, eh) THEN s
      ELSE [s EXCEPT
              !.staked    = Adjust(s.staked, a, -fromStake),
              !.unbonding = IF amount > fromStake
                            THEN SlashUnbonding(s.unbonding, a, amount - fromStake)
                            ELSE s.unbonding,
              !.slashed   = s.slashed \cup {<<a, eh>>},
              !.burned    = s.burned + amount]

\* Step 4: the block reward, to an account that is created if it is missing.
RewardProposer(s, proposer) ==
  IF BlockReward = 0 THEN s
  ELSE [s EXCEPT
          !.accounts = s.accounts \cup {proposer},
          !.balance  = Adjust(s.balance, proposer, BlockReward),
          !.issued   = s.issued + BlockReward]

\* Step 5: at an epoch boundary the active validator set is recomputed.
EpochTransition(s, h) ==
  IF EpochLength > 0 /\ h % EpochLength = 0
  THEN [s EXCEPT !.active = ComputeActiveValidatorSet(s), !.epoch = h \div EpochLength]
  ELSE s

\* The end of ApplyBlock.
FinishBlock(s, proposer, h) ==
  [EpochTransition(RewardProposer(s, proposer), h) EXCEPT !.height = h]
===============================================================================
