# Verification of DRANA

DRANA is a proof-of-stake chain for short posts that people put coins behind. A
node executes blocks of transactions on a world state, agrees with its peers on
one block per height by collecting votes of 2/3 of the stake, keeps blocks and
state on disk, and serves them to an indexer and a web application. This directory
holds TLA+ modules that model the parts of the node and of the application, TLC configurations that
check them on small instances, and theorems that the TLA+ proof system checks
for every instance.

Paths below are relative to the repository, `internal/...` mostly.

## The system

| component | state | operations | hard part |
|---|---|---|---|
| world state (`internal/state/state.go`) | accounts, names, posts, stake positions, active validators, unbonding queue, slash record, supplies, height, epoch | get/set, queue operations, recomputation of the validator set | the same coins appear in several records |
| validation (`internal/validation`) | none | one rule per transaction type | must see the effects of earlier transactions of the block |
| executor (`internal/state/executor.go`) | a clone of the world state | `ApplyBlock`: release, evidence, transactions, reward, epoch | integer splits, forced refunds, unsigned arithmetic, partial failure |
| consensus engine (`internal/consensus`) | height, last block, state | propose, vote, finalize, sync | lost and late messages, no vote lock, one proposer per height, lock held over network calls |
| mempool (`internal/mempool`) | pending transactions | add, remove, evict, reap | speculative state that differs from the executor's, check before lock, a full pool |
| stores and node (`internal/store`, `internal/node`) | blocks and state in Badger | save, load, start-up | crash between two writes, rows that are never deleted |
| peers (`internal/p2p`) | connections | RPC calls | at-most-once delivery, evidence is not transmitted |
| RPC (`internal/rpc`) | none | queries, submit | - |
| indexer (`internal/indexer`) | SQL tables | poll, index a block, rank | a block is indexed by many statements, re-indexed after a failure |
| web wallet (`drana-app/src/wallet/storage.ts`, `WalletContext.tsx`, `WalletModals.tsx`, `components/TopBar.tsx`) | encrypted keys in localStorage, the wallet in use, its key and amounts, the open dialog | create, import, unlock, lock, switch, remove, register a name, refresh | handlers go on after an await with the values of an earlier render |
| pending transactions (`wallet/PendingContext.tsx`, four dialogs in `components`) | list of transactions with a status, kept in localStorage | submit, poll, reconcile, clean up | read, await, write back of a shared list; a node that answers late or not at all |
| signed bytes (`wallet/signableBytes.ts`, `internal/types/transaction.go`) | none | encode, hash | two implementations that must agree to the byte |
| feed and navigation (`router.ts`, `App.tsx`, `pages/Feed.tsx`) | hash, page, channel, strategy, loaded pages | links, back, channel, strategy, next page, refetch | events that come late, a ranking that moves between two pages |
| other pages (`pages`, `components`) | none but an open dialog | display | - |
| CLI (`cmd/drana-cli`) | none | one command per call | - |

Interaction: the wallet submits a transaction over RPC to a node's engine, which
adds it to the mempool and relays it. The proposer of a height reaps the
mempool, executes the block on a clone for its state root, asks every peer for
a vote, and on a quorum commits (block store, state store, mempool clean-up) and
notifies its peers, who execute the block again and commit it too. A node that
starts loads its stores and fetches what it misses. The indexer polls the RPC
server for new blocks.

What makes each part correct:

* executor: amounts never wrap, no coins come from nowhere, the records of a
  stake agree, a failed block leaves no trace, withdrawn posts are closed for
  good, slashing and unbonding account for every coin;
* validator set: power is backed by stake that can still be slashed, and every
  validator in the set can be recognised by its key;
* engine: no two blocks are finalized at one height, certificates carry 2/3 of
  the stake once per validator, a finalized block reaches everybody;
* mempool: what is reaped can be executed, nobody's transaction waits for ever;
* stores: a restart continues with the state that was committed;
* wallet: no wallet is lost, no name or key goes to another wallet, what is shown is
  what is stored, and a new key stays on the screen until it is confirmed (it does not
  always, see `KeyHiddenOnlyByEarlierHandler`);
* pending transactions: what is sent is accepted by the node's signature check,
  every accepted transaction is followed until its end, and no status is wrong;
* feed: page and filter are those of the URL, and the posts those of the ranking.

## Modules

| module | models |
|---|---|
| `WorldState` | the record of a world state and its operators; genesis parameters as CONSTANTS with named assumptions |
| `Validation` | the rules of `validate.go`, one operator per transaction type |
| `Executor` | `apply...` of `executor.go`, from a world state to a world state, and the parts of `ApplyBlock` around the transactions |
| `Ledger` | the state machine: execution of blocks on a clone, commit or rejection; the properties |
| `MCLedgerPosts`, `MCLedgerStaking` | instances of `Ledger` for TLC |
| `SumTheorems` | lemmas about sums over finite sets (`SumFunctionOnSet`) and about lists (`Filter`, what `FlattenSeq` computes) |
| `LedgerProofs` | proofs that world states stay consistent |
| `LedgerSafety` | proofs of the other properties of `Ledger`, from that consistency |
| `StakeQuorum` | proposer selection, quorum threshold, the check of a certificate and the proposer's own count, as operators |
| `Consensus` | the engines of a network of validators with their stores, start-up, crashes and failing calls; the properties |
| `Finality` | what `Consensus` implements: one chain that only grows, of which every node has a growing prefix |
| `MCConsensus` | instances of `Consensus` for TLC |
| `QuorumProofs` | theorems about the operators of `StakeQuorum` |
| `ConsensusProofs` | proofs of the safety properties of `Consensus`, the refinement of `Finality` among them |
| `Lists` | `Filter`, the entries of a list that are in a set |
| `Wallet` | the stored wallets, the wallet context and its dialogs; the properties |
| `SignableBytes` | the signed bytes as the application and as the node write them, as operators |
| `PendingTxs` | from a filled-in dialog to a block: submission, the list of pending transactions, the node's pool; uses `SignableBytes`; the properties |
| `Feed` | the URL, the page and channel that follow it, and the pages of the feed; the properties |
| `MCWallet`, `MCPendingTxs`, `MCFeed` | instances of these for TLC |
| `WalletProofs`, `PendingProofs`, `FeedProofs` | proofs of their safety properties |

### How the state corresponds to the code

A world state is a record. `balance`, `staked`, `postStaked`, `nonce` and `name`
are the fields of `types.Account` as functions on all addresses, zero where
there is no account, and `accounts` is the set of addresses that have one.
`posts` and `stakes` are Go's maps as functions on the keys present. A post is
identified by its author and nonce, the pair that `DerivePostID` hashes. The
unbonding queue is a function whose keys are the unstake transactions that made
the entries: the code reads the queue in order only among the entries of one
address, and those are ordered by nonce. The active set keeps, for each
validator, its power and whether the set holds its real public key. The text,
channel and time of a post, the height of a position and signatures are left
out: no rule of the executor depends on them.

Amounts are integers, so a subtraction that would wrap in the code goes below
zero in the model and `TypeOK` would notice. Sums are not bounded by 2^64: the
supply is fixed at genesis up to rewards, and `InitializeState` rejects a
genesis whose sum overflows.

`Ledger` has the committed state `ws`, the clone `wk` and the `phase` of
`ApplyBlock`. One action is one iteration of a loop of `ApplyBlock`, in the
order the code runs them:

| action | code |
|---|---|
| `BeginBlock` | clone and release of matured unbonding entries (executor.go:313-325) |
| `SlashEvidence` | one iteration over `block.Evidence`, for evidence that `IsValid` accepts (327-330) |
| `Transfer` ... `Unstake` | one iteration over `block.Transactions`: validate, then apply (332-340) |
| `RejectBlock` | the error return inside that loop: the clone is dropped |
| `CommitBlock` | reward, epoch transition, height, and the hand-over of the clone (342-361) |

Which transactions, evidence and proposer a block has is chosen by the
environment, from small sets. The proposer is one that `ProposerForHeight` could
return for some height.

In `Consensus` a node n has `pc[n]`, the place its main goroutine has reached
(`Node.Start`, then `SyncToNetwork`, then the loop of `Run`), with the local
variables `job[n]`; `state[n]` and `last[n]` are the engine's fields, `blocks[n]`
and `saved[n]` the block store and the state store.

| actions | code |
|---|---|
| `Start` | `NewNode` and the beginning of `Start` (node.go:78-187) |
| `AskStatus`, `BeginFetch`, `Fetch`, `SyncBlock`, `EndSync` | `SyncToNetwork` (engine.go:464-539), with `OnGetStatus` and `OnSyncRequest` at the other end |
| `ReadHeight`, `TakeTurn`, `PassTurn` | `Run` reads the height, then the validator set, without the lock, and waits for the interval if it is its turn (122-180) |
| `ProposeBlock`, `OnProposal`, `GiveUp`, `CommitOwn`, `Notify`, `EndPropose` | `proposeBlock` (182-285), with `OnProposal` at the other end |
| `OnFinalizedBlock`, `IgnoreFinalizedBlock` | the handler of a notification (351-388) |
| `...Fails`, `...Timeout`, `...Rejected` | the error paths of the same lines |
| `Crash` | the process dies, also between the two writes of `commitBlock` |

The engine's mutex is held from the first to the last line of `proposeBlock` and
while a response is applied: that is `pc` in `collect`, `notify` or `apply`, and a
handler of the node runs only outside of it. The calls for a vote, a status or
blocks are one step together with their handler, because these handlers change
nothing and an answer that comes too late is dropped. `NotifyFinalized` is not:
its handler commits, so a notification is put into `net` and may be handled after
the caller has given up waiting, crashed or moved on. A peer whose lock is held
makes a caller wait until its timeout; that costs nothing in the model, while an
error of the network or the disk counts against `MaxErrors`. The time of a block
stands for its hash, and a block with a new time is a new block. A block that a
slow clock takes to be from the future is refused, which the model counts as a
failed call. Transactions appear only through the active set a block results in,
so what `Ledger` says about one node's execution and what `Consensus` says about
the order of blocks are separate questions. All nodes have been started from
genesis in the initial state; every later start goes through `Start`.

Nodes follow the protocol. A node that lies, or sends blocks of its own making, is
not modelled: the engine has no defence against a proposer that signs two blocks
besides the evidence that `Ledger` executes.

The modules of the application have one action per event handler, and one more for
each `await` in it: JavaScript does not interrupt a handler, but everything else may
happen before it goes on. A handler that waits is a record with the values of the
render it was started in.

| actions of `Wallet` | code |
|---|---|
| `OpenModal`, `SwitchModal`, `CloseModal`, `ConfirmBackup` | the drop-down of `TopBar`, the buttons of `WalletModals`, `Modal` |
| `StartCreate`, `CreateDone`; `StartImport`, `ImportDone`; `StartUnlock`, `UnlockDone`; `StartRegister`, `RegisterDone` | a handler of `WalletModals` up to its await, and the rest of it with the function of `WalletContext` it called |
| `Lock`, `SwitchWallet`, `RemoveCurrent` | the functions of `WalletContext` of that name |
| `TimerRefresh`, `RefreshDone` | `refreshBalance` by its timer and after its await; every `setStored` starts one too |
| `CallFails` | the `catch` of each handler |
| `Reload` | the page is left and opened again |

A key pair, its address and its name are one value; of an amount only the account it
is from is kept. `backup`, `removed` and `overlapped` (whether an unlock or an
import was waiting when the last creation was started) are history variables. The node knows which
accounts have a name (`names`); an answer may be older than the block that
registered it.

| actions of `PendingTxs` | code |
|---|---|
| `StartSubmit`, `Resolved`, `NonceRead`, `SubmitDone`, `SubmitFails` | `handleSend`, `handleSubmit`, `handleBoost`, `handleUnstake` with `signAndSubmit`, await by await |
| `Checked`, `Pooled` | `Mempool.Add` before and after it takes its lock |
| `Confirm` | a block with one transaction, and `EvictStale` after it |
| `PollStart`, `PollAsks`, `PollAnswered`, `PollUnreachable`, `PollDone` | `poll`; the status of a transaction is looked up in the blocks, then in the pool |
| `SwitchWallet`, `Reload`, `ReconcileRead`, `ReconcileDone`, `CheckAsks`, `CheckAnswered`, `CheckDone`, `...Fails` | the reconciliation when the wallet in use changes or the page is opened |
| `CleanUp`, `GrowOlder`, `RefreshBalance` | the 30 second timer, the time that passes, `refreshBalance` |

An entry of the list has a number, by which `added` holds its transaction and its age;
the age is one of the four intervals that the code's limits of 15 seconds, 5 minutes
and 10 minutes make. A transaction stands for its hash. Balances are those of the
node's accounts; other income is left out, and so is a pool that is full. The node
stays up: a restart empties its pool, which is in memory only, and what was accepted and
not yet in a block is then gone.

`SignableBytes` has the number of byte values, the widths of integers and the lengths
of addresses as parameters, so that TLC can take small ones; that UTF-8 is a prefix
code is an assumption. `Genuine` in `PendingTxs` is the set of requests that the
node's code accepts, computed from the node's own encoding.

In `Feed`, a link or the back button changes the hash at once and puts an event on
its way (`HashChange` is its delivery); `setChannel` changes both without one. The
pages of a query key are loaded one after the other and replaced together, by a
refetch (`StartRefetch`, `Invalidate`) or with one page more (`FetchNextPage`);
that is what react-query does and is marked external. The indexer's ranking is a
sequence for each strategy, of which trending lists only a part.

Operators whose comment starts with "Mistake" are plausible errors in the
definition that follows them. Nothing uses them; each shows that some property
depends on the code being as it is (see "mutants" in `PROJECT.json`).

## Properties and runs

`ledger_posts` (MCLedgerPosts.cfg): two funded accounts and one that comes into
being when it is paid, two blocks, two transactions per account, fees of 25%
each so that commitments of 4 and 8 leave remainders in every split. It reaches
boosts of one's own and of others' posts, boosts of posts with several stakers,
withdrawals that close other accounts' positions, replies to withdrawn posts and
a contested name.

* `TypeOK`: nothing wraps below zero.
* `NoInflation`: coins owned plus burned never exceed genesis plus rewards.
* `DustIsBounded`: a step inside a block conserves coins exactly, but for a
  boost, which may lose less than one coin per staker.
* `StakesAgree`: `PostStakeBalance` of an account is the sum of its positions,
  `TotalStaked` of a post the sum of its positions, `StakerCount` their number.
* `WithdrawnIsEmpty`: a withdrawn post holds nobody's coins, and a post that is
  not withdrawn still has its author among the stakers.
* `NamesAgree`: accounts and name index are inverse to each other.
* `RepliesAreFlat`: a reply's parent is a top-level post.
* `PostsArePermanent`: committed posts never disappear, change author or parent
  or lower their burn, and do not change at all once withdrawn.

`ledger_staking` (MCLedgerStaking.cfg): one genesis validator and one account
that may join, epochs and unbonding of three blocks, five blocks, two transactions
per account, evidence about two heights, a slash of 60%. It reaches slashes that
exhaust the stake and reach one or two unbonding entries, evidence repeated in a
block and across blocks, an emptied validator set, and partial unstakes.

* `UnbondingOnTime`: after a block nothing that matured is still queued.
* `PowerIsBacked`: until it is slashed, a validator has at least its voting power
  at risk, staked or unbonding, if unbonding lasts at least an epoch.
* `NoStakeBelowMinimum`: only slashing leaves a stake between zero and the
  minimum.
* `KeysStay`: a validator that stays in the active set keeps its public key.

`consensus_safety` (MCConsensus.cfg): three validators with stakes 2, 3 and 1, so
that 5 of 6 are needed and no one decides alone, two heights, and after the first
block either a shifted set or an empty one, for which the genesis validators step
in; one crash anywhere and one error. `n2` is connected to `n3` at two addresses, which
the code allows, since it keeps connections by address; `n3` knows `n1` only. No set has a
validator with a quorum of its own, see `consensus_race`.

* `TypeOK`: also that a thread's local variables are there when it uses them.
* `Agreement`: no two nodes have executed and saved different blocks of one height.
* `StoresFit`: block store, state store and memory fit together at every moment, though
  block and state are saved by two writes and `Run` reads the height without the lock.
* `CertificatesProve`: the certificate of a saved block carries more than two thirds
  of the stake in force at its height, every validator counted once, except on the disk
  of a proposer that is connected twice to one of the voters. This does happen: while
  `n1` holds its lock, `n2` counts 3 + 1 + 1 and commits with 4 of 6. The other nodes
  check the certificate themselves and refuse the block, as the property says of them
  without exception.
* `BlocksAreFinal`: the engines refine `Finality`; a saved block is never replaced.

`consensus_live` (MCConsensusLive.cfg): three heights, `n3` goes down anywhere and
comes back any time or never, the other two have a quorum and are the proposers of
all heights.

* `SteadyNodesAdvance`: these two get to the last height. In particular a proposer
  that still notifies and the next one that already collects votes, each holding
  its own lock, do not block each other for ever. Nothing is said about a proposer that
  is down: there is no round change, the chain waits for it.

`wallet` (MCWallet.cfg): two key pairs, one of which has a name on the chain, two
handlers waiting at once.

* `StorageIsShown`: the rendered wallet and list are those a reload would read.
* `WalletsAreKept`: the whole-list writes of `storage.ts` drop no wallet the user did
  not remove.
* `NamesAreTheirs`: a name is stored with the wallet of its address only.
* `RevivedOnlyByName`: a removed wallet comes back by itself in one case, an answer
  that brings its name after it was removed. This does happen.
* `KeyHiddenOnlyByEarlierHandler`: a new key that is on the screen stays there until it
  is confirmed or the page is left, except when an unlock or an import was waiting
  already when its creation was started: the `onClose` of that handler takes it away.
  This does happen.
* `KeyStraysOnlyByLateAnswer`: the key in memory and the wallet in use come apart (see
  `wallet_key`) only when an unlock, or an answer with a new name, ends after the wallet
  was changed.
* `AccountArrives`: amounts of another wallet do not stay and a registered name
  arrives.

`pending` (MCPendingTxs.cfg): two wallets with enough money for one transaction each, a
reply with a character of two bytes and a payment to one of the two, at most two
submissions, one poll and one other handler waiting, a reload or change of wallet.

* `SubmissionVerifies`: every request sent passes the node's signature check.
* `EncodingsAreDistinct`: different transactions have different signed bytes and
  hashes, and post identifiers differ unless author and nonce agree.
* `ConfirmedIsTrue`, `FailedHasCause`: what the list says of a transaction is so.
* `DroppedOnlyByClash`: while the node stays up, an accepted transaction is dropped only
  if one of the same wallet with the same nonce is in a block; two made before a block get
  the same nonce.
* `LostOnlyByOldList`: a recent transaction disappears from the list (see `pending_lost`)
  only when a poll or a reconciliation writes back a list that lacks it.
* `OutgoingIsReleased`: the amounts held back are released, even without any block.

`feed` (MCFeed.cfg): two posts, one in a channel, pages of one post, two moves of the
user, two changes of the ranking, one failing request.

* `UrlShowsPage`: when no event is on its way, page and channel are those of the URL.
* `FeedIsPrefix`: while the ranking rests, the loaded posts are its beginning, complete
  if there is no next page.
* `FeedCatchesUp`: when the ranking comes to rest, the feed comes to show it.

Five runs show disagreements between the code and what is written about it:

* `ledger_keys`: an account that stakes for the first time enters the active set at
  the next epoch with the zero public key, although the comments of
  `SetValidatorPubKey` and `pubKeyForAccount` say its key is picked up.
* `consensus_catchup`: with no message lost, a node that is restarted and still
  synchronizing while the next block is finalized stays behind until it is
  restarted again, although docs/IMPLEMENTATION_PHASE_2.md says it catches up.
* `consensus_race`: a block that changes the validator set is committed after `Run`
  read the height and before it reads the set; a validator with more than two thirds
  of the new stake then finalizes a second block of that height by itself, although
  docs/DESIGN.md says blocks are final at once. Where it needs another vote nobody
  gives it, which `consensus_safety` shows.
* `wallet_key`: a decryption that ends after the user switched to another wallet, or
  removed the one it was for, leaves the key of the one with the address of the
  other, although docs/FRONTEND_FIXES.md says switching clears the key. Nothing is
  signed wrongly for it: the node refuses the signature (`RegisterDone`).
* `pending_lost`: a poll that was under way when a submission was recorded writes its
  older list back, and the accepted transaction is gone from the list, although
  docs/PENDING_ENHANCEMENT_DESIGN.md says it is followed until it is confirmed.

Three more follow from what the passing runs and theorems say. The supply equation of
docs/POST_STAKING_BACKEND_IMPLEMENTATION.md ("Supply Conservation Invariant") does not
hold with equality: a boost of a post with stakers loses the remainder of the split,
which `DustIsBounded` bounds and `NoInflation` allows. A proposer that is connected to
one peer under two addresses counts its stake twice and commits a block with less than
the "`2/3 + 1` threshold" of docs/DESIGN.md; without the exception, `CertificatesProve` is
violated in 16 states. No two nodes come to disagree by it, but the proposer is at a
height to which nobody follows: it does not propose the height again, and the others
refuse its block whenever it is offered, so the chain stops. And the dialog that says
"Save this key now. It will never be shown again." (`WalletModals.tsx:39`) does not always
show it until the user has saved it: an import is started and its dialog closed, a wallet
is created, its key appears, and the `onClose` of the import closes the dialog; without the
exception, `KeyHiddenOnlyByEarlierHandler` is violated in 8 states. A creation whose own
dialog is closed while it waits never shows its key at all.

Bounds. Every hazard above needs at most two posts, three accounts and two
transactions per account to show; more transactions only repeat them, and the
theorems below remove the bounds for all properties of these runs. Blocks are
unbounded in length but for the nonce bound. `Terminating` stands for the end of
the bounded chain, so deadlock is checked.

For the engine two heights are enough for everything that relates a block to its
predecessor (links, a proposer that missed the previous block, a set that changed),
one crash for every place to die and start again, and an error besides for a failed
write or a lost call around it; `consensus_safety` has 682,000 states. The liveness runs
have no errors, since one that is repeated for ever would stop any protocol, and a
`SyncBatch` of 1 so that a synchronization takes several calls.

For the application, two wallets are needed for every confusion between wallets and
two transactions for every one between transactions; two waiting handlers of `wallet`
cover every pair of them, and longer overlaps are made of pairs, as handlers only meet
through the state. In `pending` the poll overlaps with one submission or
reconciliation; the amounts allow the case that the second transaction cannot be paid,
and `pending_lost` has money for both. Integers of one byte of base 8 are wide enough
that no length or nonce of the instance wraps. In `feed` two posts on pages of one make
two pages in every order, and with a third page nothing new can happen to the total or
the order. `wallet` has 448,000 states, `pending` 314,000, `feed` 332,000. `pending` and `feed`
run without the deadlock check: when the bounds are used up and everything is settled,
a user who does nothing is no error.

Fairness. The ledger runs state safety only: which blocks come is decided by the
consensus engine. `FairSpec` of `Consensus` assumes, for each node, strong fairness
of its thread and of its handlers, and weak fairness of giving up calls that cannot
be answered. The first is strong because a step may need the lock of another node,
which is taken and released again and again; Go's mutex hands itself to a waiter
that has waited for a millisecond, so nobody starves. The second is weak because
every call has a timeout. Nothing promises that a node that crashed is started
again, and no network error is fair.

`Wallet` assumes that what is awaited ends, with or without success (a derivation
ends, a request times out), that the timer of `refreshBalance` keeps firing, and that
the node answers the current wallet again and again; the last two are strong because
switching wallets interrupts them. `PendingTxs` assumes that time passes and that
`poll` and its requests go on; that they end in an answer, or that a block comes, is
not assumed. `Feed` assumes that the browser delivers its events, that the refetch
interval of `App.tsx` fires, and that requests beyond the bound on failures are
answered. The user is never assumed to do anything.

## Proofs

Every invariant and action property that a passing run checks is also a theorem: it
holds for every value of the constants that satisfies the named assumptions, and for
every bound. Each proof has the same shape: an inductive
invariant that implies the properties, one lemma per action that the action keeps it,
and lemmas about the operators. TLC has checked the invariants on the instances of the
runs before they were proved.

**Ledger.** `LedgerProofs` proves `Typing` (`TypeOK`) and `StakesAgreement`
(`StakesAgree`). Neither is inductive alone. That the refund of a position does not
wrap the staker's `PostStakeBalance` or the post's `TotalStaked` below zero needs the
records to agree (`StakesOK`); that they agree after a new post needs its id to be
new, which needs every post and unbonding entry to carry a nonce its author has
used up (`FreshOK`). The inductive invariant is the conjunction,
`Good(s) == WorldStateOK(s) /\ FreshOK(s) /\ StakesOK(s)`, of both the committed
state and the clone. There is one lemma per operation that it preserves `Good`;
operations that touch neither posts nor stakes go through two frame lemmas, and
the three that change positions through `StakesLocal`, which reduces agreement to
the one post they touch.

`LedgerSafety` adds, under the invariant `LInv`, what the rest needs:

| theorem | property | argument |
|---|---|---|
| `SupplyIsBounded` | `NoInflation` | `Worth(s)`, coins owned plus burned minus issued, is kept by every operation but a boost, whose shares add up to at most the reward (`SharesBound`: each is rounded down, and the positions of a post add up to its total) |
| `RoundingIsBounded` | `DustIsBounded` | each share loses less than one coin, so all of them less than the number of stakers; see below for the assumption |
| `WithdrawalIsComplete` | `WithdrawnIsEmpty` | an author leaves only by withdrawing, which closes every position of the post |
| `NamesAreUnique`, `Flatness`, `MinimumIsKept` | `NamesAgree`, `RepliesAreFlat`, `NoStakeBelowMinimum` | inductive together with `Good` |
| `ReleasesAreOnTime` | `UnbondingOnTime` | what is queued in a block matures after it (`Later`), of the clone already while the block is executed |
| `PowerStaysBacked` | `PowerIsBacked` | stronger: stake plus those unbonding entries that outlast the epoch (`Lasting`) cover the power; needs the height to be inside the epoch (`EpochOK`), and a slash to touch only the slashed account |
| `PostsStay` | `PostsArePermanent` | the clone's posts extend the committed ones (`Kept`) at every moment of a block |
| `KnownKeysStay` | `KeysStay` | within a block the clone's active set has the same members and at least the same keys (`KeysKept`); a new epoch takes over the keys of those who stay |
| `KeysKnownUntilJoin` | (`ledger_keys`) | so every key is known as long as nobody joins the set: joining is the only cause of a zero key |

The slash needs the sum that `SlashUnbonding` takes from the queue entry by entry to
be the part it set out to take (`SlashPrefix`, by induction over sets of entries).

**Consensus.** `QuorumProofs` proves about the operators of `StakeQuorum`, for every
sequence of validators and stakes:

* `QuorumIntersection`: two certificates of one set have more than a third of its
  stake in common;
* `ProposerIsValidator`: every height has a proposer in a set that is not empty, with
  or without stake (that the search in `ProposerForHeight` ends before the fallback);
* `CountIsExact`: if no two connections lead to the same validator and none to the
  proposer itself, the proposer's count is the stake its certificate proves (the case
  without the exception in `CertificatesProve`);
* `ProposerShare`: in as many heights in a row as there is stake, every validator
  proposes exactly as often as it has stake ("selected proportionally to your stake",
  `MINERS_GUIDE.md`).

The first three come from the additivity of sums over disjoint sets of positions. For
the last, the remainders a validator proposes at are a stretch as long as its stake
(`ProposerStretch`), and heights in a row meet every remainder once (`RestsInARow`).

`ConsensusProofs` proves `ConsensusTyping` (`TypeOK`, with `TypeInv`) and, with
`SafeInv`, `NodesAgree` (`Agreement`), `StoresAlwaysFit` (`StoresFit`),
`CertificatesHold` (`CertificatesProve`) and `EnginesImplementFinality`
(`BlocksAreFinal`: the initial states map to those of `Finality`, and every step to a
step of it or to a stutter). Two quorums of one height do intersect, but that excludes
nothing: a validator votes for every proposal that fits, there is no lock. Agreement rests on something else: a height has one proposer for all
who agree on the block before, and the block that is sent, served or collected at
another node is final at its proposer (`Final`, `SentIsFinal`), which saves it
before it tells anybody. The rest of `SafeInv` is that the state of a node is the result of its
saved chain (`StateFrom`), that every saved block has the rightful proposer
(`Rightful`), that blocks with one time are one block (`Distinct`), and what a proposal
under way relies on (`ProposalFits`). The proposer itself proposes twice at one height
only if its height and its set are of different moments, since `Run` reads them without
the lock. Then its own vote must not be enough, because no other node votes for
the second block: this is the hypothesis

    NoSoleQuorum: no set in use has a validator with a quorum of its own

of every theorem but typing. It is needed: `consensus_race` shows two blocks of a
height where it fails. It is true of `consensus_safety` and not checked by the code, which
is why it is a hypothesis of the theorems and not an assumption of the module. How nodes
are connected is left open: `CertificatesHold` covers any number of addresses per node.
A node that takes a block over has checked its certificate; a proposer whose connections
to the voters are all to different nodes has counted exactly (`CountIsExact`); what is
left is the exception that the property names.

**Wallet.** `WalletProofs` proves `WalletTyping`, `PageShowsStorage`
(`StorageIsShown`), `NoWalletIsLost` (`WalletsAreKept`), `NamesStayWithTheirWallet`
(`NamesAreTheirs`), `RemovedStaysAway` (`RevivedOnlyByName`) and
`NewKeyHiddenByEarlierHandler` (`KeyHiddenOnlyByEarlierHandler`). The last needs that, while
a key is created or shown, every unlock or import that waits was there before
(`ClosersAreEarlier`), since the dialog in which one is started cannot be opened then.
`KeyStaysWithoutOverlap` draws the conclusion: if no creation is started
while an unlock or import waits, only the user takes a new key from the screen.
`KeyStraysByLateAnswer` (`KeyStraysOnlyByLateAnswer`) and
`KeyStaysWithoutLateAnswers` say that the race of `wallet_key` is the only one: without an
answer that comes after the wallet was changed, the key in memory is always that of the
wallet in use. `WalletInv` adds that the list has an address once, that the
address in use is listed unless the list is empty, that every key in the list, in
memory and in the render of a waiting handler has been created or imported, and that a
waiting handler carries what it needs and a name only of its own wallet (`CallsFit`),
and that a key on the screen is new and no waiting handler is about it (`ShownIsNew`).

**Pending transactions.** `PendingProofs` proves `PendingTyping`,
`ConfirmedMeansInBlock` (`ConfirmedIsTrue`), `FailedMeansGone` (`FailedHasCause`),
`OnlyClashesDrop` (`DroppedOnlyByClash`) and `RequestsVerify` (`SubmissionVerifies`).
A list or an answer that waits in a poll or a reconciliation may be written back at any
later time. So `PendingInv` says of each of them (`WaitingFits`) what is claimed of the
list that is shown, in terms that no step takes back: a transaction is in a block, its
nonce is used up (`Stale`), or its entry is old; `Grows` says what every step
keeps, so none of these ends. `RequestsVerify` unfolds the nine parts that both sides write one after the
other (`FlattenNine`) and does not depend on widths, on the encoding of characters or
on the lengths of addresses.

`SignaturesAreForOne` (`EncodingsAreDistinct`) is about the bytes alone. What is written
can be read again from the left: a part of fixed length by cutting it off, a part with
its length in front after that, a number from its digits, and a text because no
character's bytes begin with another's. The digits of a number that fits its width
determine it, since dividing by the base and putting the remainder back is undone step
by step; this is an induction along `Shifted`. An absent recipient or post is written as
zeros, so no address or identifier may be all zeros.

`OnlyOldListsLose` (`LostOnlyByOldList`) and `TrackedUnlessRecordedMeanwhile` narrow
down what `pending_lost` shows: a recent transaction is lost only when a list that lacks
it is written back, and no list lacks one (`AllComplete`) if nothing is recorded while a
poll or a reconciliation waits.

**Feed.** `FeedProofs` proves `FeedTyping`, `PageFollowsUrl` (`UrlShowsPage`) and
`FeedShowsRanking` (`FeedIsPrefix`). `FeedInv` says that a request asks for the
selection of its own key and, while the ranking rests, that page i of every list,
loaded or still on its way, is page i of the ranking (`Exact`); a request that goes on
knows that there is a next page. That such pages put together are the beginning of the
ranking (`PagesJoin`) is proved by induction over sets of naturals; that they are all
of it once there is no next page needs the total that is reported to be at least what
is listed, which holds because trending lists only posts that new lists
(`RankingFits`, `FewerEntries`).

`SumTheorems` supplies what the provers cannot do alone. `SumFunctionOnSet`, `Filter`,
`FlattenSeq` and `Shifted` are defined by recursive functions; that the recursion has a
solution, and that a sum does not depend on which element is taken first, is proved by
well-founded induction over sets rather than over predicates, since an operator
parameter cannot be instantiated. `Lists` has `Filter` because the definition of
`SelectSeq` is out of the provers' reach; it says the same.

Assumptions, in the modules that declare the constants, where TLC evaluates them:
finitely many addresses, endpoints and posts; parameters are naturals; percentages at
most 100 in total (the code does not check this when it loads a genesis file); genesis
stakes covered by genesis balances (the code does check this); validator sets have a
validator once; what is typed into a form has the type the form allows; `None` is
nothing else. About the bytes (`EncodingAssumption`, `FormsAreWritten`): addresses and
post identifiers of one kind have one length, differ and are not all zeros; UTF-8 is a
prefix code; types, amounts, nonces and lengths fit the width they are written in, as 32
and 64 bits do for what the dialogs accept; two dialogs filled in alike are one dialog,
since a transaction stands for its hash. `RoundingIsBounded` has the hypothesis `FeesLeaveSomething`: the fee
on a post and the three fees on a boost each leave part of the amount, and the least
amount of a post is not zero. Without it a live post may have no coins on it, and a
boost of it then loses the whole of the stakers' reward, since nobody has a share. The
parameters of `init-network.sh` and `gen-testnet.sh` satisfy it.

Model-checked only: the liveness properties `SteadyNodesAdvance`, `AccountArrives`,
`OutgoingIsReleased` and `FeedCatchesUp`, since the prover has no rules for fairness and
ENABLED.

## Plan

Done: the ledger, the quorum operators, the consensus engine, and the web application's
wallets, pending transactions, signed bytes and feed, with their safety properties
proved. Left, in this order:

1. `Mempool`: `ReapForBlock` with its speculative state and a full pool, composed with
   `Executor`: which reaped lists can be executed.
2. `Store`: what `SaveState` and `LoadState` keep of a world state and what the
   state root covers; what a restart forgets or brings back.
3. `Indexer`: polling and indexing block by block, again after a failure.

## Not modelled

Parsing, formatting and hashing (signatures and hashes are ideal), the derivation and
encryption of keys, HTTP and gRPC plumbing, the scores of the ranking, the CLI. Of the
application: pages that only display (posts, profiles, rewards), the dialogs a page
opens until they are filled in, the cache of other accounts' names, the rounding of
typed amounts, several tabs that share localStorage, and the types of what
`numericReviver` makes of an answer: it turns every string of digits into a number, a
channel or a text of digits included. A channel without a name is listed as "general"
but selects all posts, since no channel and the empty channel are the same to the feed.

Hazards of the code that no property covers and that `PROJECT.json` leaves out as minor:

- `genesis.go:82` reads percentages without an upper bound; the models assume at most 100.
- `mempool.go:74` and `:249`: a full pool that stale transactions occupy, and a head of
  a sender's queue that blocks the ones behind it. Planned with `Mempool`.
- `engine.go:341`: an honest proposer's retry makes honest validators sign pairs of votes
  that `SlashEvidence.IsValid` accepts; nothing in the code collects evidence.
- `rpc/server.go:251` shows a block that a crash in `commitBlock` left in the block store.
- `kvstore.go:48` writes the whole state in one database transaction of limited size.
- `validator.go:55` checks the clock again on a finalized block; a refusal is a failed
  notification in the model, and `consensus_catchup` shows what follows.
- `PendingContext.tsx:139` subtracts what all wallets of the browser have pending.
