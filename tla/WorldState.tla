------------------------------ MODULE WorldState ------------------------------
(***************************************************************************)
(* The replicated world state of a DRANA chain (internal/state/state.go)   *)
(* and the protocol parameters of the genesis file.  A world state is a    *)
(* record; every operation is an operator from a world state to a world    *)
(* state, so that the executor, the mempool's speculative state and the    *)
(* store can share them.                                                   *)
(*                                                                         *)
(* Amounts are integers: the uint64 subtraction of the code wraps where    *)
(* ours goes negative, so "the value is a natural number" is the claim     *)
(* that the code never wraps below zero.                                   *)
(***************************************************************************)
EXTENDS Integers, FiniteSets, Functions

CONSTANTS
  Addr,                 \* account addresses
  Names,                \* account names that pass ValidateName
  None,                 \* the zero value: no name, no address, no parent post
  PostFeePercent,       \* genesis parameters, named as in types.GenesisConfig
  BoostBurnPercent,
  BoostAuthorPercent,
  BoostStakerPercent,
  MinPostCommitment,
  MinBoostCommitment,
  MinStake,
  BlockReward,
  EpochLength,
  UnbondingPeriod,
  SlashFraction,        \* SlashFractionDoubleSign, in percent
  GenesisBalance,       \* balance of every genesis account
  GenesisStake          \* stake of every genesis validator

ASSUME AddrAssumption ==
  /\ IsFiniteSet(Addr)
  /\ None \notin Addr \cup Names

ASSUME ParamAssumption ==
  /\ {PostFeePercent, BoostBurnPercent, BoostAuthorPercent, BoostStakerPercent,
      MinPostCommitment, MinBoostCommitment, MinStake, BlockReward,
      EpochLength, UnbondingPeriod, SlashFraction} \subseteq Nat
  /\ PostFeePercent <= 100
  /\ BoostBurnPercent + BoostAuthorPercent + BoostStakerPercent <= 100
  /\ SlashFraction <= 100

\* LoadGenesis and InitializeState: validators are staked out of the balance
\* of a genesis account, and a validator with no stake weighs 1.
ASSUME GenesisAssumption ==
  /\ DOMAIN GenesisBalance \subseteq Addr
  /\ DOMAIN GenesisStake \subseteq Addr
  /\ \A a \in DOMAIN GenesisBalance : GenesisBalance[a] \in Nat
  /\ \A a \in DOMAIN GenesisStake :
        /\ GenesisStake[a] \in Nat
        /\ GenesisStake[a] > 0 => /\ a \in DOMAIN GenesisBalance
                                  /\ GenesisStake[a] <= GenesisBalance[a]

-------------------------------------------------------------------------------
(* Arithmetic and maps. *)

\* types.MulDiv: floor(a * b / c) with a 128-bit product.
MulDiv(a, b, c) == (a * b) \div c

Least(x, y) == IF x <= y THEN x ELSE y

\* acct.F += n, or -= for a negative n, on a field F of all accounts.
Adjust(f, a, n) == [f EXCEPT ![a] = @ + n]

\* Go's m[k] = v and delete(m, k) on a map represented by a function.
IsMap(m) == m = [x \in DOMAIN m |-> m[x]]
MapPut(m, k, v) == [x \in DOMAIN m \cup {k} |-> IF x = k THEN v ELSE m[x]]
MapDelete(m, K) == Restrict(m, DOMAIN m \ K)

-------------------------------------------------------------------------------
(* The record.  accounts is the set of addresses that have an Account; the *)
(* fields of an Account that does not exist read as zero, which is what    *)
(* the code gives an account when it creates it.                           *)

\* types.DerivePostID hashes author and nonce; the pair is that hash.
PostIds == Addr \X Nat

Post == [author: Addr, parent: PostIds \cup {None}, totalStaked: Nat,
         totalBurned: Nat, stakerCount: Nat, withdrawn: BOOLEAN]

\* GenesisBalance[a] for an account of the genesis file, else 0.
InitialBalance(a) == IF a \in DOMAIN GenesisBalance THEN GenesisBalance[a] ELSE 0
InitialStake(a)   == IF a \in DOMAIN GenesisStake THEN GenesisStake[a] ELSE 0

\* genesis.InitializeState.
InitializeState ==
  [accounts   |-> DOMAIN GenesisBalance,
   balance    |-> [a \in Addr |-> InitialBalance(a) - InitialStake(a)],
   staked     |-> [a \in Addr |-> InitialStake(a)],
   postStaked |-> [a \in Addr |-> 0],
   nonce      |-> [a \in Addr |-> 0],
   name       |-> [a \in Addr |-> None],
   nameIndex  |-> [n \in Names |-> None],
   posts      |-> [p \in {} |-> None],
   stakes     |-> [k \in {} |-> 0],
   active     |-> [a \in DOMAIN GenesisStake |->
                     [power |-> IF GenesisStake[a] = 0 THEN 1 ELSE GenesisStake[a],
                      key   |-> TRUE]],
   unbonding  |-> [i \in {} |-> None],
   slashed    |-> {},
   burned     |-> 0,
   issued     |-> 0,
   height     |-> 0,
   epoch      |-> 0]

-------------------------------------------------------------------------------
(* Post stakes: a flat map keyed by (post, staker). *)

\* GetPostStakers, as the set of stakers.
PostStakers(s, p) == {a \in Addr : <<p, a>> \in DOMAIN s.stakes}

\* The amount of a position; 0 where there is none.
StakeOf(s, p, a) == IF <<p, a>> \in DOMAIN s.stakes THEN s.stakes[<<p, a>>] ELSE 0

-------------------------------------------------------------------------------
(* The unbonding queue.  An entry is identified by the unstake transaction *)
(* that appended it, <<address, nonce>>: the entries of one address are in *)
(* the order of their nonces, and no operation depends on the order of     *)
(* entries of different addresses.                                         *)

\* Mistake: an entry is held one block too long.
MaturedLate(q, h) == {k \in DOMAIN q : q[k].release < h}

UnbondingOf(q, a)     == {k \in DOMAIN q : k[1] = a}
UnbondingSum(q, K)    == SumFunctionOnSet([k \in DOMAIN q |-> q[k].amount], K)
Matured(q, h)         == {k \in DOMAIN q : q[k].release <= h}

\* Mistake: the unbonding period is not waited for.
AddUnbondingNow(q, a, nonce, amount, release) ==
  MapPut(q, <<a, nonce>>, [amount |-> amount, release |-> release - UnbondingPeriod])

\* AddUnbondingEntry, called by applyUnstake.
AddUnbondingEntry(q, a, nonce, amount, release) ==
  MapPut(q, <<a, nonce>>, [amount |-> amount, release |-> release])

UnbondingBalanceFor(q, a) == UnbondingSum(q, UnbondingOf(q, a))

\* SlashUnbonding: the entries of a are consumed oldest first until amount is
\* covered; emptied entries leave the queue.
SlashTaken(q, a, amount, k) ==
  LET older == UnbondingSum(q, {j \in UnbondingOf(q, a) : j[2] < k[2]})
  IN  IF k[1] # a \/ amount <= older THEN 0 ELSE Least(q[k].amount, amount - older)

\* Mistake: only the stake is slashed, what is unbonding gets away.
SlashUnbondingNothing(q, a, amount) == q

SlashUnbonding(q, a, amount) ==
  LET left(k) == q[k].amount - SlashTaken(q, a, amount, k)
  IN  [k \in {j \in DOMAIN q : left(j) > 0} |-> [q[k] EXCEPT !.amount = left(k)]]

-------------------------------------------------------------------------------
(* The active validator set: address |-> voting power, and whether the set *)
(* holds the validator's public key or the zero key.                       *)

\* Mistake: a validator whose power changed counts as a new one.
ComputeActiveValidatorSetByPower(s) ==
  [a \in {b \in s.accounts : s.staked[b] >= MinStake} |->
     [power |-> s.staked[a],
      key   |-> /\ a \in DOMAIN s.active /\ s.active[a].key
                /\ s.active[a].power = s.staked[a]]]

\* ComputeActiveValidatorSet; pubKeyForAccount looks only in the current set.
ComputeActiveValidatorSet(s) ==
  [a \in {b \in s.accounts : s.staked[b] >= MinStake} |->
     [power |-> s.staked[a],
      key   |-> a \in DOMAIN s.active /\ s.active[a].key]]

\* SetValidatorPubKey.
SetValidatorPubKey(active, a) ==
  IF a \in DOMAIN active THEN [active EXCEPT ![a].key = TRUE] ELSE active

-------------------------------------------------------------------------------
(* What the fields hold, and the sums the invariants speak about. *)

Fields == {"accounts", "balance", "staked", "postStaked", "nonce", "name", "nameIndex",
           "posts", "stakes", "active", "unbonding", "slashed",
           "burned", "issued", "height", "epoch"}

WorldStateOK(s) ==
  /\ DOMAIN s = Fields
  /\ s.accounts \subseteq Addr
  /\ s.balance \in [Addr -> Nat]
  /\ s.staked \in [Addr -> Nat]
  /\ s.postStaked \in [Addr -> Nat]
  /\ s.nonce \in [Addr -> Nat]
  /\ s.name \in [Addr -> Names \cup {None}]
  /\ s.nameIndex \in [Names -> Addr \cup {None}]
  /\ IsFiniteSet(DOMAIN s.posts)
  /\ IsMap(s.posts)
  /\ \A p \in DOMAIN s.posts : p \in PostIds /\ s.posts[p] \in Post
  /\ IsMap(s.stakes)
  /\ \A k \in DOMAIN s.stakes : k \in PostIds \X Addr /\ s.stakes[k] \in Nat
  /\ IsMap(s.active)
  /\ \A a \in DOMAIN s.active : a \in Addr /\ s.active[a] \in [power: Nat, key: BOOLEAN]
  /\ IsFiniteSet(DOMAIN s.unbonding)
  /\ IsMap(s.unbonding)
  /\ \A k \in DOMAIN s.unbonding :
        k \in Addr \X Nat /\ s.unbonding[k] \in [amount: Nat, release: Nat]
  /\ s.slashed \subseteq Addr \X Nat
  /\ s.burned \in Nat /\ s.issued \in Nat /\ s.height \in Nat /\ s.epoch \in Nat

\* Everything an account owns outside the unbonding queue.
Holdings(s, a) == s.balance[a] + s.staked[a] + s.postStaked[a]

\* All coins that belong to somebody.
Circulating(s) ==
  SumFunctionOnSet([a \in Addr |-> Holdings(s, a)], Addr)
  + UnbondingSum(s.unbonding, DOMAIN s.unbonding)

GenesisSupply == SumFunctionOnSet([a \in Addr |-> InitialBalance(a)], Addr)

\* The positions of one account over all posts, and of one post over all
\* accounts.
StakedBy(s, a) == SumFunctionOnSet([p \in DOMAIN s.posts |-> StakeOf(s, p, a)], DOMAIN s.posts)
StakedOn(s, p) == SumFunctionOnSet([a \in Addr |-> StakeOf(s, p, a)], Addr)
===============================================================================
