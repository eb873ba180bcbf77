------------------------------ MODULE Consensus ------------------------------
(***************************************************************************)
(* The consensus engines of a network of validators                        *)
(* (internal/consensus/engine.go), with the start-up of internal/node and  *)
(* the two stores of internal/store.  One proposer per height builds a     *)
(* block, asks every connection for a vote, saves block and state once it  *)
(* counts a quorum, and only then tells its peers.  All of this happens    *)
(* under the engine's lock, which the handlers of a node also take, so a   *)
(* handler runs only while its node's own thread does not hold the lock.   *)
(*                                                                         *)
(* Nodes follow the protocol; they crash and restart, calls between them   *)
(* fail or time out, and writes to disk fail.  Transactions are left out:  *)
(* a block is told apart by its time, and of what it does to the world     *)
(* state only the active validator set it results in is kept.              *)
(***************************************************************************)
EXTENDS StakeQuorum, FiniteSets

CONSTANTS
  Node,           \* validators that run a node
  Endpoint,       \* network addresses in seed lists and peer exchange
  Owner,          \* Owner[e]: the node that listens at endpoint e
  Peers,          \* Peers[n]: the endpoints node n is connected to
  GenesisValSet,  \* the validators of the genesis file
  ActiveSets,     \* active sets a block may result in
  SyncBatch,      \* blocks per sync response (100 in the code)
  Crashable,      \* nodes that may crash
  MaxHeight,      \* bound: height of the chain
  MaxCrashes,     \* bound: crashes
  MaxErrors       \* bound: failed or late calls, failed writes and executions

ASSUME NetworkAssumption ==
  /\ Owner \in [Endpoint -> Node]
  /\ Peers \in [Node -> SUBSET Endpoint]
  /\ Crashable \subseteq Node
  /\ None \notin Node \cup Endpoint
  /\ IsFiniteSet(Endpoint)

ASSUME ValidatorAssumption ==
  /\ IsValidatorSet(GenesisValSet, Node)
  /\ GenesisValSet # << >>
  /\ \A vals \in ActiveSets : IsValidatorSet(vals, Node)

ASSUME BoundAssumption ==
  /\ {MaxHeight, MaxCrashes, MaxErrors} \subseteq Nat
  /\ SyncBatch \in Nat \ {0}

VARIABLES
  pc,       \* where the thread of node n that runs Start is
  job,      \* the local variables of that thread
  state,    \* Engine.State: height, active set, and the block it comes from
  last,     \* Engine.lastBlock
  blocks,   \* the block store, by height: a block and who signed it
  saved,    \* the state store
  net,      \* finalized blocks on their way to a node or waiting for its lock
  crashes,
  errors

vars == <<pc, job, state, last, blocks, saved, net, crashes, errors>>
disk == <<blocks, saved>>

-------------------------------------------------------------------------------
(* Blocks and states. *)

\* The header.  time stands for the timestamp and for everything else in
\* which two blocks of one height may differ; base is the state whose
\* execution gave the state root; active is in the root, too.
Block == [height: Nat, prev: Nat, proposer: Node, time: Nat, base: Nat,
          active: ActiveSets]

\* A nil pointer to a block is not a block.
ASSUME NoneAssumption == None \notin Block

\* BlockHeader.Hash; 0 is the zero hash that the first block points to.
Hash(b) == IF b = None THEN 0 ELSE b.time

Signed == [block: Block, cert: SUBSET Node]

State == [height: Nat, active: ActiveSets \cup {GenesisValSet}, at: Nat]

\* The state of genesis.InitializeState.
GenesisState == [height |-> 0, active |-> GenesisValSet, at |-> 0]

\* Executor.ApplyBlock, seen from here (see Ledger).
ApplyBlock(s, b) == [height |-> b.height, active |-> b.active, at |-> Hash(b)]

\* The validators in force, genesis validators when a state has none.
ActiveOf(s) == IF s.active # << >> THEN s.active ELSE GenesisValSet
ActiveValidators(n) == ActiveOf(state[n])

\* A time at which no block known anywhere was made.
Times ==
  {0} \cup {m.block.time : m \in net}
      \cup (UNION {{blocks[n][h].block.time : h \in DOMAIN blocks[n]} : n \in Node})
      \cup {job[n].block.time : n \in {m \in Node : job[m].block # None}}
Now == 1 + (CHOOSE t \in Times : \A u \in Times : u <= t)

\* ValidateProposedBlock on node n.  That a block is not from the future is
\* not here: a node whose clock is behind refuses it, which is one way for a
\* call to fail.
ValidateProposedBlock(n, b) ==
  /\ b.height = (IF last[n] = None THEN 1 ELSE last[n].height + 1)
  /\ b.prev = Hash(last[n])
  /\ b.proposer = ProposerForHeight(ActiveValidators(n), b.height)
  /\ last[n] # None => b.time > last[n].time
  /\ b.base = state[n].at

-------------------------------------------------------------------------------
(* Threads and locks. *)

EmptyJob == [next |-> 0, block |-> None, todo |-> {}, votes |-> {},
             peer |-> None, target |-> 0, resp |-> << >>]

Job == [next: Nat, block: Block \cup {None}, todo: SUBSET Endpoint,
        votes: SUBSET Endpoint, peer: Endpoint \cup {None}, target: Nat,
        resp: Seq(Signed)]

PCs == {"down", "status", "fetch", "fetched", "apply", "run", "turn",
        "wait", "collect", "notify"}

Up(n) == pc[n] # "down"

\* mu is held from the first to the last line of proposeBlock and while
\* SyncToNetwork applies a response.
Locked(n) == pc[n] \in {"collect", "notify", "apply"}

\* The handlers of node n can run.
Free(n) == Up(n) /\ ~Locked(n)

\* The node a message is addressed to.
To(m) == Owner[m.to]

\* Mistake: a certificate is all that a finalized block needs.
CanCommitCertified(m) ==
  /\ ValidateQuorumCertificate(ActiveValidators(To(m)), m.cert)
  /\ m.block.height > state[To(m)].height

\* Mistake: the certificate is not checked again by those who get the block.
CanCommitUncertified(m) ==
  /\ m.block.height > state[To(m)].height
  /\ ValidateProposedBlock(To(m), m.block)

\* The checks of OnFinalizedBlock.
CanCommit(m) ==
  /\ ValidateQuorumCertificate(ActiveValidators(To(m)), m.cert)
  /\ m.block.height > state[To(m)].height
  /\ ValidateProposedBlock(To(m), m.block)

Goto(n, label, j) ==
  /\ pc' = [pc EXCEPT ![n] = label]
  /\ job' = [job EXCEPT ![n] = j]

\* A call to endpoint e fails: nobody listens there, or it times out because the
\* lock is held there, or else by an error of the network.
CallFails(e) ==
  IF Free(Owner[e]) THEN errors < MaxErrors /\ errors' = errors + 1
                    ELSE UNCHANGED errors

-------------------------------------------------------------------------------
(* commitBlock: the block is saved, then the state, each in one database   *)
(* transaction; then the engine moves on.  The lock is held throughout.    *)

\* BlockStore.SaveBlock: replaces what was there at this height.
SaveBlock(n, sb) ==
  blocks' = [blocks EXCEPT ![n] =
    [h \in DOMAIN @ \cup {sb.block.height} |->
       IF h = sb.block.height THEN sb ELSE @[h]]]

CommitBlock(n, sb) ==
  LET s == ApplyBlock(state[n], sb.block)
  IN  /\ SaveBlock(n, sb)
      /\ saved' = [saved EXCEPT ![n] = s]
      /\ state' = [state EXCEPT ![n] = s]
      /\ last' = [last EXCEPT ![n] = sb.block]

\* SaveBlock or SaveState returns an error: the block may be saved, the engine
\* does not move.
CommitFails(n, sb) ==
  /\ errors < MaxErrors
  /\ errors' = errors + 1
  /\ SaveBlock(n, sb) \/ UNCHANGED blocks
  /\ UNCHANGED <<saved, state, last>>

-------------------------------------------------------------------------------
(* Start-up and SyncToNetwork. *)

\* Mistake: a restart begins from genesis.
LoadStateGenesis(n) == GenesisState

LoadState(n) == saved[n]

\* NewNode and the beginning of Start: load the state and the block it comes
\* from, start to listen.  A fresh store holds the genesis state.
Start(n) ==
  LET s == LoadState(n)
  IN  /\ pc[n] = "down"
      /\ state' = [state EXCEPT ![n] = s]
      /\ last' = [last EXCEPT ![n] =
                    IF s.height \in DOMAIN blocks[n] THEN blocks[n][s.height].block
                                                     ELSE None]
      /\ Goto(n, "status", [EmptyJob EXCEPT !.todo = Peers[n]])
      /\ UNCHANGED <<disk, net, crashes, errors>>

\* One GetStatus call: the highest peer so far is remembered.
AskStatus(n, e) ==
  LET h == state[Owner[e]].height
      j == [job[n] EXCEPT !.todo = @ \ {e}]
  IN  /\ pc[n] = "status"
      /\ e \in job[n].todo
      /\ Free(Owner[e])
      /\ Goto(n, "status",
              IF h > j.target THEN [j EXCEPT !.peer = e, !.target = h] ELSE j)
      /\ UNCHANGED <<state, last, disk, net, crashes, errors>>

AskStatusFails(n, e) ==
  /\ pc[n] = "status"
  /\ e \in job[n].todo
  /\ CallFails(e)
  /\ Goto(n, "status", [job[n] EXCEPT !.todo = @ \ {e}])
  /\ UNCHANGED <<state, last, disk, net, crashes>>

\* The loop condition of SyncToNetwork, also its check that a peer is ahead.
BeginFetch(n) ==
  /\ pc[n] = "status"
  /\ job[n].todo = {}
  /\ Goto(n, "fetch", job[n])
  /\ UNCHANGED <<state, last, disk, net, crashes, errors>>

EndSync(n) ==
  /\ pc[n] = "fetch"
  /\ state[n].height >= job[n].target
  /\ Goto(n, "run", EmptyJob)
  /\ UNCHANGED <<state, last, disk, net, crashes, errors>>

\* OnSyncRequest at node q: the blocks from..to it has executed, up to the
\* first that it cannot read and at most SyncBatch of them.
OnSyncRequest(q, from, to) ==
  LET end  == CHOOSE h \in {to, state[q].height, from + SyncBatch - 1} :
                /\ h <= to /\ h <= state[q].height /\ h <= from + SyncBatch - 1
      Have(h) == from..h \subseteq DOMAIN blocks[q]
      upto == CHOOSE h \in from - 1 .. end :
                Have(h) /\ (h < end => ~Have(h + 1))
  IN  IF end < from THEN << >>
      ELSE [i \in 1..(upto - from + 1) |-> blocks[q][from + i - 1]]

\* One SyncBlocks call; an empty answer ends the loop.
Fetch(n) ==
  LET e    == job[n].peer
      resp == OnSyncRequest(Owner[e], state[n].height + 1, job[n].target)
  IN  /\ pc[n] = "fetch"
      /\ state[n].height < job[n].target
      /\ Free(Owner[e])
      /\ IF resp = << >> THEN Goto(n, "run", EmptyJob)
                         ELSE Goto(n, "fetched", [job[n] EXCEPT !.resp = resp])
      /\ UNCHANGED <<state, last, disk, net, crashes, errors>>

\* Any error ends the synchronization, it is not tried again.
FetchFails(n) ==
  /\ pc[n] = "fetch"
  /\ state[n].height < job[n].target
  /\ CallFails(job[n].peer)
  /\ Goto(n, "run", EmptyJob)
  /\ UNCHANGED <<state, last, disk, net, crashes>>

\* The checks that a block of a response has to pass.
CanSync(n, sb) ==
  /\ ValidateQuorumCertificate(ActiveValidators(n), sb.cert)
  /\ ValidateProposedBlock(n, sb.block)

\* Mistake: the lock is not released after the last block of a response.
SyncBlockKeepsLock(n) ==
  /\ pc[n] \in {"fetched", "apply"}
  /\ CanSync(n, Head(job[n].resp))
  /\ CommitBlock(n, Head(job[n].resp))
  /\ Goto(n, "apply", [job[n] EXCEPT !.resp = Tail(@)])
  /\ UNCHANGED <<net, crashes, errors>>

\* The lock is taken for all blocks of a response.
SyncBlock(n) ==
  /\ pc[n] \in {"fetched", "apply"}
  /\ CanSync(n, Head(job[n].resp))
  /\ CommitBlock(n, Head(job[n].resp))
  /\ Goto(n, IF Len(job[n].resp) = 1 THEN "fetch" ELSE "apply",
          [job[n] EXCEPT !.resp = Tail(@)])
  /\ UNCHANGED <<net, crashes, errors>>

SyncBlockRejected(n) ==
  /\ pc[n] \in {"fetched", "apply"}
  /\ ~CanSync(n, Head(job[n].resp))
  /\ Goto(n, "run", EmptyJob)
  /\ UNCHANGED <<state, last, disk, net, crashes, errors>>

SyncBlockFails(n) ==
  /\ pc[n] \in {"fetched", "apply"}
  /\ CanSync(n, Head(job[n].resp))
  /\ CommitFails(n, Head(job[n].resp))
  /\ Goto(n, "run", EmptyJob)
  /\ UNCHANGED <<net, crashes>>

-------------------------------------------------------------------------------
(* Run and proposeBlock. *)

IsProposer(n, height) == ProposerForHeight(ActiveValidators(n), height) = n

\* Run reads the height, and then the validator set, without the lock; a
\* handler may commit a block in between.  That the height was read is told
\* apart from not having read it only when this may happen.
ReadHeight(n) ==
  /\ pc[n] = "run"
  /\ \E m \in net : To(m) = n /\ CanCommit(m)
  /\ Goto(n, "turn", [EmptyJob EXCEPT !.next = state[n].height + 1])
  /\ UNCHANGED <<state, last, disk, net, crashes, errors>>

NextHeight(n) == IF pc[n] = "turn" THEN job[n].next ELSE state[n].height + 1

\* By what it has read it is this node's turn; wait for the block interval.
MyTurn(n) == NextHeight(n) <= MaxHeight /\ IsProposer(n, NextHeight(n))
TakeTurn(n) ==
  /\ pc[n] \in {"run", "turn"}
  /\ MyTurn(n)
  /\ Goto(n, "wait", [EmptyJob EXCEPT !.next = NextHeight(n)])
  /\ UNCHANGED <<state, last, disk, net, crashes, errors>>

\* It is not: wait for blockCommitted or a timeout and look again.
PassTurn(n) ==
  /\ pc[n] = "turn"
  /\ ~MyTurn(n)
  /\ Goto(n, "run", EmptyJob)
  /\ UNCHANGED <<state, last, disk, net, crashes, errors>>

\* proposeBlock up to its own vote, with the height read before the wait.
ProposeBlock(n) ==
  /\ pc[n] = "wait"
  /\ \E active \in ActiveSets :
       Goto(n, "collect",
            [job[n] EXCEPT
               !.block = [height |-> job[n].next, prev |-> Hash(last[n]),
                          proposer |-> n, time |-> Now, base |-> state[n].at,
                          active |-> active],
               !.todo = Peers[n]])
  /\ UNCHANGED <<state, last, disk, net, crashes, errors>>

\* The trial execution of the reaped transactions fails, and so does proposeBlock.
TrialFails(n) ==
  /\ pc[n] = "wait"
  /\ errors < MaxErrors
  /\ errors' = errors + 1
  /\ Goto(n, "run", EmptyJob)
  /\ UNCHANGED <<state, last, disk, net, crashes>>

\* One ProposeBlock call and the OnProposal handler at the other end.  The
\* voter keeps no record of its vote.
OnProposal(n, e) ==
  /\ pc[n] = "collect"
  /\ e \in job[n].todo
  /\ Free(Owner[e])
  /\ Goto(n, "collect",
          [job[n] EXCEPT
             !.todo = @ \ {e},
             !.votes = IF ValidateProposedBlock(Owner[e], job[n].block)
                       THEN @ \cup {e} ELSE @])
  /\ UNCHANGED <<state, last, disk, net, crashes, errors>>

OnProposalFails(n, e) ==
  /\ pc[n] = "collect"
  /\ e \in job[n].todo
  /\ CallFails(e)
  /\ Goto(n, "collect", [job[n] EXCEPT !.todo = @ \ {e}])
  /\ UNCHANGED <<state, last, disk, net, crashes>>

\* All peers were asked; the certificate lists everybody who answered.
Collected(n) == pc[n] = "collect" /\ job[n].todo = {}
Quorate(n) ==
  CountedStake(ActiveValidators(n), n, job[n].votes, Owner)
    >= QuorumThreshold(ActiveValidators(n))
Certified(n) == [block |-> job[n].block,
                 cert  |-> {n} \cup {Owner[e] : e \in job[n].votes}]

\* Too few votes: the block is forgotten, Run will try again.
GiveUp(n) ==
  /\ Collected(n)
  /\ ~Quorate(n)
  /\ Goto(n, "run", EmptyJob)
  /\ UNCHANGED <<state, last, disk, net, crashes, errors>>

CommitOwn(n) ==
  /\ Collected(n)
  /\ Quorate(n)
  /\ CommitBlock(n, Certified(n))
  /\ Goto(n, "notify", [job[n] EXCEPT !.todo = Peers[n]])
  /\ UNCHANGED <<net, crashes, errors>>

CommitOwnFails(n) ==
  /\ Collected(n)
  /\ Quorate(n)
  /\ CommitFails(n, Certified(n))
  /\ Goto(n, "run", EmptyJob)
  /\ UNCHANGED <<net, crashes>>

\* A NotifyFinalized call is under way until the handler has run or the node it
\* went to is gone.
Waiting(n) == \E m \in net : m.to = job[n].peer /\ m.block = job[n].block

\* One NotifyFinalized call.  What it returns does not matter.
Notify(n, e) ==
  /\ pc[n] = "notify"
  /\ e \in job[n].todo
  /\ ~Waiting(n)
  /\ Up(Owner[e])
  /\ net' = net \cup {[to |-> e, block |-> job[n].block, cert |-> Certified(n).cert]}
  /\ Goto(n, "notify", [job[n] EXCEPT !.todo = @ \ {e}, !.peer = e])
  /\ UNCHANGED <<state, last, disk, crashes, errors>>

NotifyFails(n, e) ==
  /\ pc[n] = "notify"
  /\ e \in job[n].todo
  /\ ~Waiting(n)
  /\ CallFails(e)
  /\ Goto(n, "notify", [job[n] EXCEPT !.todo = @ \ {e}, !.peer = None])
  /\ UNCHANGED <<state, last, disk, net, crashes>>

\* The proposer does not wait any longer; the handler may still run, later.
NotifyTimeout(n) ==
  /\ pc[n] = "notify"
  /\ Waiting(n)
  /\ CallFails(job[n].peer)
  /\ Goto(n, "notify", [job[n] EXCEPT !.peer = None])
  /\ UNCHANGED <<state, last, disk, net, crashes>>

\* The deferred unlock at the end of proposeBlock.
EndPropose(n) ==
  /\ pc[n] = "notify"
  /\ job[n].todo = {}
  /\ ~Waiting(n)
  /\ Goto(n, "run", EmptyJob)
  /\ UNCHANGED <<state, last, disk, net, crashes, errors>>

-------------------------------------------------------------------------------
(* OnFinalizedBlock at the node a message m is addressed to. *)

Body(m) == [block |-> m.block, cert |-> m.cert]

OnFinalizedBlock(m) ==
  /\ Free(To(m))
  /\ CanCommit(m)
  /\ CommitBlock(To(m), Body(m))
  /\ net' = net \ {m}
  /\ UNCHANGED <<pc, job, crashes, errors>>

\* Known already, or refused: too few votes, or not the next block.
IgnoreFinalizedBlock(m) ==
  /\ Free(To(m))
  /\ ~CanCommit(m)
  /\ net' = net \ {m}
  /\ UNCHANGED <<pc, job, state, last, disk, crashes, errors>>

OnFinalizedBlockFails(m) ==
  /\ Free(To(m))
  /\ CanCommit(m)
  /\ CommitFails(To(m), Body(m))
  /\ net' = net \ {m}
  /\ UNCHANGED <<pc, job, crashes>>

-------------------------------------------------------------------------------
(* Crashes. *)

\* Mistake: the state is saved before the block.
SavedAtCrashStateFirst(n, sb) ==
  /\ saved' = [saved EXCEPT ![n] = ApplyBlock(state[n], sb.block)]
  /\ UNCHANGED blocks

\* What commitBlock has written when the process dies between its two writes.
SavedAtCrash(n, sb) ==
  /\ SaveBlock(n, sb)
  /\ UNCHANGED saved

\* It dies there while it commits a block of its own, one it fetched, or one
\* that a message brought.
DiesInCommit(n) ==
  \/ Collected(n) /\ Quorate(n) /\ SavedAtCrash(n, Certified(n))
  \/ /\ pc[n] \in {"fetched", "apply"}
     /\ CanSync(n, Head(job[n].resp))
     /\ SavedAtCrash(n, Head(job[n].resp))
  \/ \E m \in net : To(m) = n /\ Free(n) /\ CanCommit(m) /\ SavedAtCrash(n, Body(m))

\* The process dies, at any point; calls that wait for its lock die with it.
Crash(n) ==
  /\ n \in Crashable
  /\ Up(n)
  /\ crashes < MaxCrashes
  /\ crashes' = crashes + 1
  /\ UNCHANGED disk \/ DiesInCommit(n)
  /\ Goto(n, "down", EmptyJob)
  /\ state' = [state EXCEPT ![n] = GenesisState]
  /\ last' = [last EXCEPT ![n] = None]
  /\ net' = {m \in net : To(m) # n}
  /\ UNCHANGED errors

-------------------------------------------------------------------------------
\* All nodes have been started from the genesis file and found nobody ahead.
Init ==
  /\ pc = [n \in Node |-> "run"]
  /\ job = [n \in Node |-> EmptyJob]
  /\ state = [n \in Node |-> GenesisState]
  /\ last = [n \in Node |-> None]
  /\ blocks = [n \in Node |-> << >>]
  /\ saved = [n \in Node |-> GenesisState]
  /\ net = {}
  /\ crashes = 0
  /\ errors = 0

\* What the thread of node n does when nothing goes wrong.
Run(n) ==
  \/ BeginFetch(n) \/ EndSync(n) \/ Fetch(n) \/ SyncBlock(n) \/ SyncBlockRejected(n)
  \/ ReadHeight(n) \/ TakeTurn(n) \/ PassTurn(n) \/ ProposeBlock(n) 
  \/ GiveUp(n) \/ CommitOwn(n) \/ EndPropose(n)
  \/ \E e \in Peers[n] : AskStatus(n, e) \/ OnProposal(n, e) \/ Notify(n, e)

Handle(n) ==
  \E m \in net : To(m) = n /\ (OnFinalizedBlock(m) \/ IgnoreFinalizedBlock(m))

\* A call fails, and the thread goes on without an answer.
Skip(n) ==
  \/ FetchFails(n) \/ NotifyTimeout(n)
  \/ \E e \in Peers[n] :
       AskStatusFails(n, e) \/ OnProposalFails(n, e) \/ NotifyFails(n, e)

\* An operation on the node itself fails.
Fail(n) ==
  \/ TrialFails(n)
  \/ SyncBlockFails(n)
  \/ CommitOwnFails(n)
  \/ \E m \in net : To(m) = n /\ OnFinalizedBlockFails(m)

\* Nothing is under way: the chain has reached its bound, or whoever would have
\* to propose does not know that it is their turn.
Terminating ==
  /\ \A n \in Node : pc[n] = "run" /\ ~MyTurn(n)
  /\ net = {}
  /\ UNCHANGED vars

Next ==
  \/ \E n \in Node : Start(n) \/ Run(n) \/ Handle(n) \/ Skip(n) \/ Fail(n) \/ Crash(n)
  \/ Terminating

Spec == Init /\ [][Next]_vars

-------------------------------------------------------------------------------
(* Properties. *)

\* The local variables that a thread is about to use are there.
JobOK(n) ==
  /\ pc[n] \in {"collect", "notify"} => job[n].block # None
  /\ pc[n] \in {"fetched", "apply"} => job[n].resp # << >>
  /\ job[n].target > 0 => job[n].peer # None

TypeOK ==
  /\ pc \in [Node -> PCs]
  /\ \A n \in Node :
       /\ job[n] \in Job
       /\ JobOK(n)
       /\ state[n] \in State
       /\ saved[n] \in State
       /\ last[n] \in Block \cup {None}
       /\ blocks[n] \in [DOMAIN blocks[n] -> Signed]
       /\ DOMAIN blocks[n] \subseteq 1..MaxHeight
  /\ \A m \in net : m.to \in Endpoint /\ Body(m) \in Signed
  /\ crashes \in 0..MaxCrashes
  /\ errors \in 0..MaxErrors

\* The block a node has made final at height h.
FinalBlock(n, h) == IF h \in DOMAIN blocks[n] THEN blocks[n][h].block ELSE None

\* No two nodes have different blocks at a height both have executed and
\* saved, whatever crashes, lost calls, failed writes and retries of a
\* proposer there were (proposeBlock, OnFinalizedBlock, SyncToNetwork).
Agreement ==
  \A n, m \in Node : \A h \in 1..saved[n].height :
    h <= saved[m].height => FinalBlock(n, h) = FinalBlock(m, h)

\* The stores and the memory of a node fit together: the saved state comes from
\* the block saved at its height, which every running node has as lastBlock,
\* blocks are linked by hashes, and no block replaces the one it builds on,
\* although Run reads the height to propose for without the lock.
StoresFit ==
  \A n \in Node :
    /\ 1..saved[n].height \subseteq DOMAIN blocks[n]
    /\ saved[n].height > 0 => saved[n].at = Hash(FinalBlock(n, saved[n].height))
    /\ \A h \in 1..saved[n].height :
         FinalBlock(n, h).prev = Hash(FinalBlock(n, h - 1))
    /\ Up(n) => /\ state[n] = saved[n]
                /\ last[n] = IF saved[n].height = 0 THEN None
                             ELSE FinalBlock(n, saved[n].height)

\* The set in force for the block of height h on node n.
ActiveFor(n, h) ==
  IF h = 1 THEN GenesisValSet
  ELSE ActiveOf(ApplyBlock(GenesisState, FinalBlock(n, h - 1)))

\* Node n proposed the block itself, and two of its connections lead to one
\* validator that is in the certificate.
CountedTwice(n, sb) ==
  /\ sb.block.proposer = n
  /\ \E e, f \in Peers[n] :
       e # f /\ Owner[e] = Owner[f] /\ Owner[e] \in sb.cert

\* QuorumCertificate "proves that a block was accepted by >= 2/3 of validators",
\* every validator counted once.  proposeBlock counts answers by address and may
\* count a voter twice: the certificate falls short on the disk of such a
\* proposer at the most, and no other node takes the block
\* (OnFinalizedBlock, SyncToNetwork).
CertificatesProve ==
  \A n \in Node : \A h \in 1..saved[n].height :
    LET vals == ActiveFor(n, h)
        sb   == blocks[n][h]
    IN  \/ 3 * CertifiedStake(vals, sb.cert) > 2 * TotalStake(vals)
        \/ CountedTwice(n, sb)

\* The engines implement Finality: the longest saved chain is the chain, and
\* saved heights say how far each node is.
FinalChain ==
  LET n == CHOOSE n \in Node : \A m \in Node : saved[m].height <= saved[n].height
  IN  [h \in 1..saved[n].height |-> FinalBlock(n, h)]

Abstract == INSTANCE Finality WITH chain <- FinalChain,
                                   at <- [n \in Node |-> saved[n].height]

\* A saved block is final: it is never replaced and every node gets the same
\* blocks, one after the other.
BlocksAreFinal == Abstract!Spec

-------------------------------------------------------------------------------
(* Liveness.  Threads make progress when they can, calls that cannot be    *)
(* answered time out, and Go's mutex does not starve a waiter, so a        *)
(* handler or a caller that can get a lock again and again gets it.        *)
(* Nobody promises that a node that crashed is started again.              *)

Fairness ==
  /\ \A n \in Node : SF_vars(Run(n)) /\ SF_vars(Handle(n))
  /\ \A n \in Node : WF_vars(Skip(n) /\ UNCHANGED errors)

FairSpec == Spec /\ Fairness

\* As long as the nodes that stay up have a quorum and all the proposers, they
\* get to every height, though another node goes down for good at any time.
SteadyNodesAdvance ==
  <>(\A n \in Node \ Crashable : saved[n].height = MaxHeight)

\* A running node that is behind gets the blocks it misses: a restarted
\* validator catches up via chain sync and rejoins consensus.
CatchesUp ==
  \A n \in Node : \A h \in 1..MaxHeight :
    (Up(n) /\ state[n].height < h /\ \E m \in Node : saved[m].height >= h)
      ~> (state[n].height >= h \/ ~Up(n))
=============================================================================
