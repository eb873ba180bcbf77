-------------------------------- MODULE Ledger --------------------------------
(***************************************************************************)
(* Execution of blocks on the world state of one node.  ApplyBlock works   *)
(* on a clone of the committed state and hands it over only when every     *)
(* transaction of the block was valid and applied; an error drops the      *)
(* clone.  ws is the committed state, wk the clone.  The loop bodies of    *)
(* ApplyBlock are actions, in the order the code runs them: release of     *)
(* matured unbonding entries, slash evidence, transactions, reward and     *)
(* epoch transition.  Which blocks are offered is up to the environment.   *)
(***************************************************************************)
EXTENDS Executor

CONSTANTS
  MaxHeight,        \* bound: height of the chain
  MaxNonce,         \* bound: transactions per account
  TransferAmounts,  \* amounts of the transactions offered, by kind: an empty
  CommitAmounts,    \*   set means that no block offers a transaction of that
  StakeAmounts,     \*   kind
  EvidenceHeights   \* heights of the double-sign evidence offered

ASSUME BoundAssumption ==
  /\ MaxHeight \in Nat
  /\ MaxNonce \in Nat
  /\ TransferAmounts \cup CommitAmounts \cup StakeAmounts \cup EvidenceHeights \subseteq Nat

VARIABLES
  ws,     \* the committed world state (Engine.State)
  wk,     \* the clone a block is being executed on; ws between blocks
  phase   \* how far ApplyBlock has got: "idle", "evidence" or "txs"

vars == <<ws, wk, phase>>

Init ==
  /\ ws = InitializeState
  /\ wk = InitializeState
  /\ phase = "idle"

-------------------------------------------------------------------------------
Nonces == 1 .. MaxNonce

\* The height of the block being executed.
H == ws.height + 1

\* ApplyBlock begins: clone, then release what has matured.
BeginBlock ==
  /\ phase = "idle"
  /\ ws.height < MaxHeight
  /\ wk' = ReleaseMatured(ws, ws.height + 1)
  /\ phase' = "evidence"
  /\ UNCHANGED ws

SlashEvidence(a, eh) ==
  /\ phase = "evidence"
  /\ wk' = ApplySlashEvidence(wk, a, eh)
  /\ UNCHANGED <<ws, phase>>

\* One iteration of the transaction loop: the transaction was valid on the
\* clone and the clone moves to next.
Execute(valid, next) ==
  /\ phase # "idle"
  /\ valid
  /\ wk' = next
  /\ phase' = "txs"
  /\ UNCHANGED ws

Transfer(a, n, r, amt) ==
  LET tx == [sender |-> a, nonce |-> n, recipient |-> r, amount |-> amt]
  IN  Execute(ValidTransfer(wk, tx), ApplyTransfer(wk, tx))

CreatePost(a, n, parent, amt) ==
  LET tx == [sender |-> a, nonce |-> n, post |-> parent, amount |-> amt]
  IN  Execute(ValidCreatePost(wk, tx), ApplyCreatePost(wk, tx))

BoostPost(a, n, p, amt) ==
  LET tx == [sender |-> a, nonce |-> n, post |-> p, amount |-> amt]
  IN  Execute(ValidBoostPost(wk, tx), ApplyBoostPost(wk, tx))

UnstakePost(a, n, p) ==
  LET tx == [sender |-> a, nonce |-> n, post |-> p]
  IN  Execute(ValidUnstakePost(wk, tx), ApplyUnstakePost(wk, tx))

RegisterName(a, n, name) ==
  LET tx == [sender |-> a, nonce |-> n, name |-> name, amount |-> 0]
  IN  Execute(ValidRegisterName(wk, tx), ApplyRegisterName(wk, tx))

Stake(a, n, amt) ==
  LET tx == [sender |-> a, nonce |-> n, amount |-> amt]
  IN  Execute(ValidStake(wk, tx), ApplyStake(wk, tx))

Unstake(a, n, amt) ==
  LET tx == [sender |-> a, nonce |-> n, amount |-> amt]
  IN  Execute(ValidUnstake(wk, tx), ApplyUnstake(wk, tx, H))

\* A transaction of the block is invalid on the clone: ApplyBlock returns an
\* error and the clone is dropped.  Some transaction is always invalid (nonce
\* 0, say), so any block may turn out to be one that is rejected here.
RejectBlock ==
  /\ phase # "idle"
  /\ wk' = ws
  /\ phase' = "idle"
  /\ UNCHANGED ws

\* The end of ApplyBlock; commitBlock makes the clone the node's state.
CommitBlock(proposer) ==
  /\ phase # "idle"
  /\ ws' = FinishBlock(wk, proposer, H)
  /\ wk' = FinishBlock(wk, proposer, H)
  /\ phase' = "idle"

\* Engine.activeValidators, as voting powers: the genesis set stands in for an
\* empty active set.
Powers ==
  IF DOMAIN ws.active # {} THEN [a \in DOMAIN ws.active |-> ws.active[a].power]
  ELSE [a \in DOMAIN GenesisStake |-> IF GenesisStake[a] = 0 THEN 1 ELSE GenesisStake[a]]

\* ProposerForHeight, over all heights: a validator with power, or any if none
\* has power.
Proposers ==
  LET weighty == {a \in DOMAIN Powers : Powers[a] > 0}
  IN  IF weighty = {} THEN DOMAIN Powers ELSE weighty

\* The chain has reached the bound of the model.
Terminating ==
  /\ phase = "idle"
  /\ ws.height = MaxHeight
  /\ UNCHANGED vars

Next ==
  \/ BeginBlock
  \/ \E a \in Addr, eh \in EvidenceHeights : SlashEvidence(a, eh)
  \/ \E a, r \in Addr, n \in Nonces, amt \in TransferAmounts : Transfer(a, n, r, amt)
  \/ \E a \in Addr, n \in Nonces, p \in DOMAIN wk.posts \cup {None}, amt \in CommitAmounts :
        CreatePost(a, n, p, amt)
  \/ \E a \in Addr, n \in Nonces, p \in DOMAIN wk.posts, amt \in CommitAmounts :
        BoostPost(a, n, p, amt)
  \/ \E a \in Addr, n \in Nonces, p \in DOMAIN wk.posts : UnstakePost(a, n, p)
  \/ \E a \in Addr, n \in Nonces, name \in Names : RegisterName(a, n, name)
  \/ \E a \in Addr, n \in Nonces, amt \in StakeAmounts : Stake(a, n, amt)
  \/ \E a \in Addr, n \in Nonces, amt \in StakeAmounts : Unstake(a, n, amt)
  \/ RejectBlock
  \/ \E p \in Proposers : CommitBlock(p)
  \/ Terminating

Spec == Init /\ [][Next]_vars

-------------------------------------------------------------------------------
(* What is consistent about a world state s. *)

\* The three records of a post stake agree: the positions of an account add up
\* to its PostStakeBalance, those on a post to its TotalStaked, StakerCount
\* counts them, and every position is on a post and held by an account.
StakesOK(s) ==
  /\ \A a \in Addr : s.postStaked[a] = StakedBy(s, a)
  /\ \A p \in DOMAIN s.posts :
        /\ s.posts[p].totalStaked = StakedOn(s, p)
        /\ s.posts[p].stakerCount = Cardinality(PostStakers(s, p))
  /\ \A k \in DOMAIN s.stakes : k[1] \in DOMAIN s.posts /\ k[2] \in s.accounts

\* The author's position lives exactly as long as the post.
WithdrawalOK(s) ==
  \A p \in DOMAIN s.posts :
    IF s.posts[p].withdrawn THEN PostStakers(s, p) = {}
    ELSE s.posts[p].author \in PostStakers(s, p)

\* The name index and the accounts name each other.
NamesOK(s) == \A n \in Names, a \in Addr : s.nameIndex[n] = a <=> s.name[a] = n

\* What is owned plus what was burned is covered by genesis and rewards.
SupplyOK(s) == Circulating(s) + s.burned <= GenesisSupply + s.issued

\* Posts and unbonding entries carry the nonce of the transaction that made
\* them, which their author has used up: a new one never meets an old one.
FreshOK(s) ==
  /\ \A p \in DOMAIN s.posts : p[2] <= s.nonce[p[1]] /\ s.posts[p].author = p[1]
  /\ \A k \in DOMAIN s.unbonding : k[2] <= s.nonce[k[1]]

-------------------------------------------------------------------------------
(* Invariants.  wk passes through every state that ApplyBlock reaches, and *)
(* equals ws between blocks.                                               *)

\* No balance, stake, counter or total ever leaves the natural numbers: the
\* unsigned arithmetic of the executor never wraps.
TypeOK ==
  /\ WorldStateOK(ws)
  /\ WorldStateOK(wk)
  /\ phase \in {"idle", "evidence", "txs"}

\* Coins come into being only as block rewards: what is owned plus what was
\* burned never exceeds the genesis supply plus the rewards issued, whatever
\* the rounding of fees, shares and slashes does.
NoInflation == SupplyOK(wk)

\* Accounts, posts and stake positions tell the same story after every
\* transaction, also when an author's withdrawal closes the positions of
\* others: nobody's coins are stranded or counted twice.
StakesAgree == StakesOK(wk)

\* A withdrawn post holds nobody's coins, and a post that is not withdrawn
\* still has its author among the stakers.
WithdrawnIsEmpty == WithdrawalOK(wk)

\* No two accounts share a name, and no name is lost or reserved for nobody.
NamesAgree == NamesOK(wk)

\* Replies are one level deep, on posts that exist.
RepliesAreFlat ==
  \A p \in DOMAIN wk.posts :
    LET up == wk.posts[p].parent
    IN  up # None => up \in DOMAIN wk.posts /\ wk.posts[up].parent = None

\* After a block nothing that matured is still in the queue.
UnbondingOnTime ==
  phase = "idle" /\ UnbondingPeriod > 0 =>
    \A k \in DOMAIN ws.unbonding : ws.unbonding[k].release > ws.height

\* Voting power is backed: until it is slashed, a validator has as much at
\* risk (staked or unbonding) as the power the last epoch gave it, although it
\* may unstake at any time, provided unbonding outlasts an epoch.
PowerIsBacked ==
  phase = "idle" /\ UnbondingPeriod >= EpochLength /\ EpochLength > 0 =>
    \A a \in DOMAIN ws.active :
      \/ ws.active[a].power <= ws.staked[a] + UnbondingBalanceFor(ws.unbonding, a)
      \/ \E eh \in EvidenceHeights : <<a, eh>> \in ws.slashed
      \/ GenesisStake[a] = 0 /\ ws.epoch = 0

\* Nobody is left with a stake that is too small to be in the active set and
\* yet not zero, unless by slashing.
NoStakeBelowMinimum ==
  \A a \in Addr :
    \/ wk.staked[a] = 0
    \/ wk.staked[a] >= MinStake
    \/ InitialStake(a) < MinStake /\ InitialStake(a) > 0
    \/ \E eh \in EvidenceHeights : <<a, eh>> \in wk.slashed

\* Every validator of the active set can be identified by its votes: the set
\* holds its public key.
ActiveKeysKnown == \A a \in DOMAIN ws.active : ws.active[a].key

-------------------------------------------------------------------------------
(* Action properties. *)

Worth(s) == Circulating(s) + s.burned - s.issued

\* Within a block every step conserves the coins exactly, except that a boost
\* loses the rounding of the staker shares: less than one coin per staker.
DustIsBounded ==
  [][phase' # "idle" =>
       \/ Worth(wk') = Worth(wk)
       \/ \E p \in DOMAIN wk.posts :
            /\ wk'.posts[p].totalBurned >= wk.posts[p].totalBurned
            /\ wk'.posts[p].totalStaked > wk.posts[p].totalStaked
            /\ Worth(wk') < Worth(wk)
            /\ Worth(wk) - Worth(wk') < wk.posts[p].stakerCount]_vars

\* Committed posts are permanent: no block removes one, changes its author or
\* its parent, lowers what it burned, or touches it once it is withdrawn.
PostsArePermanent ==
  [][\A p \in DOMAIN ws.posts :
       /\ p \in DOMAIN ws'.posts
       /\ ws'.posts[p].author = ws.posts[p].author
       /\ ws'.posts[p].parent = ws.posts[p].parent
       /\ ws'.posts[p].totalBurned >= ws.posts[p].totalBurned
       /\ ws.posts[p].withdrawn => ws'.posts[p] = ws.posts[p]]_vars

\* A validator that stays in the active set keeps its public key, over epochs, stakes
\* and slashes: those that cannot be identified have joined without one.
KeysStay ==
  [][\A a \in DOMAIN ws.active \cap DOMAIN ws'.active :
       ws.active[a].key => ws'.active[a].key]_vars
===============================================================================
