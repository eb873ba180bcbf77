--------------------------- MODULE ConsensusProofs ---------------------------
(***************************************************************************)
(* The consensus engines keep one chain: proofs about module Consensus for *)
(* every number of nodes, every height and any number of crashes, lost     *)
(* calls and failed writes.                                                *)
(***************************************************************************)
EXTENDS Consensus, QuorumProofs

-------------------------------------------------------------------------------
(* Types. *)

\* Blocks and signed blocks of the bounded chain.
HBlock == {b \in Block : b.height \in 1..MaxHeight /\ b.time > 0}
HSigned == {sb \in Signed : sb.block \in HBlock}

\* What a thread at p knows.
JobFits(n, p, j) ==
  /\ j \in Job
  /\ p \in PCs
  /\ j.block \in HBlock \cup {None}
  /\ p \in {"collect", "notify"} <=> j.block # None
  /\ \A i \in 1..Len(j.resp) : j.resp[i] \in HSigned
  /\ p \in {"fetched", "apply"} => j.resp # << >>
  /\ j.target > 0 => j.peer # None
  /\ p \notin {"status", "fetch", "fetched", "apply"} => j.target = 0
  /\ p = "turn" => j.next > 0
  /\ p = "wait" => j.next \in 1..MaxHeight
  /\ p \notin {"collect", "notify"} => j.votes = {}
  /\ j.todo \subseteq Peers[n] /\ j.votes \subseteq Peers[n]

JobT ==
  /\ pc \in [Node -> PCs]
  /\ job \in [Node -> Job]
  /\ \A n \in Node : JobFits(n, pc[n], job[n])

\* Blocks are filed by their height.
StoreT ==
  /\ state \in [Node -> State]
  /\ saved \in [Node -> State]
  /\ last \in [Node -> HBlock \cup {None}]
  /\ blocks = [n \in Node |-> blocks[n]]
  /\ \A n \in Node :
       /\ blocks[n] \in [DOMAIN blocks[n] -> HSigned]
       /\ DOMAIN blocks[n] \subseteq 1..MaxHeight
       /\ \A h \in DOMAIN blocks[n] : blocks[n][h].block.height = h

Message == [to: Endpoint, block: Block, cert: SUBSET Node]

NetT == \A m \in net : m \in Message /\ m.block \in HBlock

CountT == crashes \in 0..MaxCrashes /\ errors \in 0..MaxErrors

\* Block b is one of those that a new block's time differs from: on its way, in
\* a store, or proposed.
Recorded(b) ==
  \/ \E m \in net : m.block = b
  \/ \E n \in Node : \E h \in DOMAIN blocks[n] : blocks[n][h].block = b
  \/ \E n \in Node : job[n].block # None /\ job[n].block = b

\* Block b is in a response to a request for blocks.
Fetched(b) ==
  \E n \in Node : \E i \in 1..Len(job[n].resp) : job[n].resp[i].block = b

\* There is a last time.
Bounded ==
  \E t \in Nat : \A b \in HBlock : Recorded(b) \/ Fetched(b) => b.time <= t

TypeInv == JobT /\ StoreT /\ NetT /\ CountT /\ Bounded

-------------------------------------------------------------------------------
(* Safety.  One node alone is no quorum: the run consensus_race shows that *)
(* the engine is not safe without this.                                    *)

NoSoleQuorum ==
  \A vals \in ActiveSets \cup {GenesisValSet} : \A n \in Node :
    vals # << >> => StakeOf(vals, n) < QuorumThreshold(vals)

\* The node that proposed block b has executed and saved it.
Final(b) ==
  /\ b \in HBlock
  /\ b.height <= saved[b.proposer].height
  /\ FinalBlock(b.proposer, b.height) = b

\* A saved state is that of genesis, or the one its block results in.
StateFrom(n) ==
  saved[n] = IF saved[n].height = 0 THEN GenesisState
             ELSE ApplyBlock(GenesisState, FinalBlock(n, saved[n].height))

\* A proposal rests on what its proposer has executed last; only if it is the
\* next block, in its proposer's turn, does anybody vote for it.
ProposalFits(n) ==
  LET b == job[n].block
  IN  /\ b.proposer = n
      /\ b.prev = Hash(last[n])
      /\ \A e \in job[n].votes : Owner[e] # n
      /\ job[n].votes # {} =>
           /\ b.height = saved[n].height + 1
           /\ IsProposer(n, b.height)

\* Saved blocks come from the proposer whose turn it was.
Rightful ==
  \A n \in Node : \A h \in 1..saved[n].height :
    /\ Final(FinalBlock(n, h))
    /\ FinalBlock(n, h).proposer = ProposerForHeight(ActiveFor(n, h), h)

\* What is sent or fetched is final where it was made.
SentIsFinal ==
  /\ \A m \in net : Final(m.block)
  /\ \A n \in Node : \A i \in 1..Len(job[n].resp) : Final(job[n].resp[i].block)

\* Two blocks that differ were made at different times.
Distinct ==
  \A b, c \in HBlock : Recorded(b) /\ Recorded(c) /\ b.time = c.time => b = c

SafeInv ==
  /\ StoresFit
  /\ \A n \in Node : StateFrom(n)
  /\ Rightful
  /\ SentIsFinal
  /\ \A n \in Node : pc[n] = "collect" => ProposalFits(n)
  /\ \A n \in Node : pc[n] = "notify" => Final(job[n].block) /\ job[n].block.proposer = n
  /\ Distinct
  /\ Agreement

-------------------------------------------------------------------------------
(* The shapes of steps. *)

\* What a node may commit: a proposal of its own, a block it fetched, or one that
\* a message brought.
Own(n, sb) == Collected(n) /\ Quorate(n) /\ sb = Certified(n)
Synced(n, sb) ==
  pc[n] \in {"fetched", "apply"} /\ sb = Head(job[n].resp) /\ CanSync(n, sb)
Delivered(n, sb) ==
  \E m \in net : To(m) = n /\ Free(n) /\ CanCommit(m) /\ sb = Body(m)
MayCommit(n, sb) == Own(n, sb) \/ Synced(n, sb) \/ Delivered(n, sb)

\* A block in n's response was there before, or a running node has executed it.
Served(n, sb) ==
  \/ \E i \in 1..Len(job[n].resp) : sb = job[n].resp[i]
  \/ \E q \in Node : /\ Up(q)
                     /\ \E h \in DOMAIN blocks[q] : h <= state[q].height /\ sb = blocks[q][h]

Thread(n, p, j) ==
  /\ Up(n) /\ p # "down"
  /\ Goto(n, p, j) /\ JobFits(n, p, j)
  /\ \A i \in 1..Len(j.resp) : Served(n, j.resp[i])

\* The block is saved and the state is not, or nothing is written.
HalfSaved(n) == 
  /\ UNCHANGED blocks \/ \E sb \in HSigned : MayCommit(n, sb) /\ SaveBlock(n, sb)
  /\ UNCHANGED saved

\* A step that neither proposes nor commits.
Moving(n, p, j) ==
  /\ Thread(n, p, j)
  /\ p \notin {"collect", "notify"}
  /\ HalfSaved(n) /\ UNCHANGED <<state, last>> /\ net' \subseteq net

Proposing(n, j) ==
  /\ Thread(n, "collect", j)
  /\ j.block.proposer = n /\ j.block.prev = Hash(last[n]) /\ j.block.time = Now
  /\ j.votes = {}
  /\ UNCHANGED <<state, last, disk, net>>

Voting(n, j) ==
  /\ pc[n] = "collect"
  /\ Thread(n, "collect", j)
  /\ j.block = job[n].block
  /\ \/ j.votes = job[n].votes
     \/ \E e \in Peers[n] : /\ j.votes = job[n].votes \cup {e}
                            /\ Free(Owner[e])
                            /\ ValidateProposedBlock(Owner[e], j.block)
  /\ UNCHANGED <<state, last, disk, net>>

Telling(n, j) ==
  /\ pc[n] = "notify"
  /\ Thread(n, "notify", j)
  /\ j.block = job[n].block
  /\ \A m \in net' : m \in net \/ (m \in Message /\ m.block = j.block)
  /\ UNCHANGED <<state, last, disk>>

Committing(n, p, j, sb) ==
  /\ Thread(n, p, j)
  /\ MayCommit(n, sb)
  /\ CommitBlock(n, sb)
  /\ p \in {"collect", "notify"} => p = "notify" /\ Own(n, sb) /\ j.block = sb.block
  /\ net' \subseteq net

Stopping(n) ==
  /\ Up(n)
  /\ Goto(n, "down", EmptyJob)
  /\ HalfSaved(n)
  /\ state' = [state EXCEPT ![n] = GenesisState]
  /\ last' = [last EXCEPT ![n] = None]
  /\ net' \subseteq net

StepOf(n) ==
  \/ \E p \in PCs, j \in Job : Moving(n, p, j)
  \/ \E j \in Job : Proposing(n, j) \/ Voting(n, j) \/ Telling(n, j)
  \/ \E p \in PCs, j \in Job, sb \in HSigned : Committing(n, p, j, sb)
  \/ Stopping(n)
  \/ Start(n)

\* A thread that has no local variables fits every place that needs none.
LEMMA EmptyFits ==
  ASSUME NEW n \in Node, NEW p \in PCs,
         p \notin {"collect", "notify", "fetched", "apply", "turn", "wait"}
  PROVE  /\ JobFits(n, p, EmptyJob)
         /\ EmptyJob \in Job
         /\ Len(EmptyJob.resp) = 0
<1>1. EmptyJob \in Job
  BY DEF EmptyJob, Job
<1>2. Len(EmptyJob.resp) = 0 /\ EmptyJob.block = None /\ EmptyJob.target = 0 /\ EmptyJob.todo = {}
      /\ EmptyJob.votes = {}
  BY DEF EmptyJob
<1> HIDE DEF EmptyJob
<1> QED BY <1>1, <1>2 DEF JobFits

\* What a node may commit is a typed block, and the node runs.
LEMMA CommitTyped ==
  ASSUME TypeInv, NEW n \in Node, NEW sb, MayCommit(n, sb)
  PROVE  sb \in HSigned /\ Up(n)
<1>1. JobFits(n, pc[n], job[n]) /\ job[n] \in Job
  BY DEF TypeInv, JobT
<1>2. CASE Own(n, sb)
  <2>1. pc[n] = "collect" /\ sb = Certified(n)
    BY <1>2 DEF Own, Collected
  <2>2. job[n].block \in HBlock /\ job[n].votes \subseteq Endpoint
    BY <1>1, <2>1 DEF JobFits, Job
  <2>3. Certified(n).block = job[n].block /\ Certified(n).cert \in SUBSET Node
        /\ Certified(n) = [block |-> job[n].block, cert |-> Certified(n).cert]
    BY <2>2, NetworkAssumption DEF Certified
  <2>4. Certified(n) \in Signed
    BY <2>2, <2>3 DEF Signed, HBlock
  <2> QED BY <2>1, <2>2, <2>3, <2>4 DEF HSigned, Up
<1>3. CASE Synced(n, sb)
  <2>1. job[n].resp # << >> /\ pc[n] # "down"
    BY <1>1, <1>3 DEF Synced, JobFits
  <2>2. job[n].resp \in Seq(Signed)
    BY <1>1 DEF Job
  <2>3. sb = job[n].resp[1] /\ 1 \in 1..Len(job[n].resp)
    BY <1>3, <2>1, <2>2 DEF Synced
  <2> QED BY <1>1, <2>1, <2>3 DEF JobFits, Up
<1>4. CASE Delivered(n, sb)
  <2>1. PICK m \in net : sb = Body(m) /\ Free(n)
    BY <1>4 DEF Delivered
  <2>2. m \in Message /\ m.block \in HBlock
    BY DEF TypeInv, NetT
  <2>3. Body(m).block \in HBlock /\ Body(m) \in Signed
    BY <2>2 DEF Message, Body, Signed, HBlock
  <2> QED BY <2>1, <2>3 DEF HSigned, Free
<1> QED BY <1>2, <1>3, <1>4 DEF MayCommit

\* The thread goes back to the loop of Run.
LEMMA ToRun ==
  ASSUME TypeInv, NEW n \in Node, Up(n), Goto(n, "run", EmptyJob), HalfSaved(n),
         UNCHANGED <<state, last>>, net' \subseteq net
  PROVE  StepOf(n)
<1>1. JobFits(n, "run", EmptyJob) /\ EmptyJob \in Job /\ Len(EmptyJob.resp) = 0 /\ "run" \in PCs
  BY EmptyFits DEF PCs
<1> HIDE DEF EmptyJob
<1>2. Moving(n, "run", EmptyJob)
  BY <1>1 DEF Moving, Thread
<1> QED BY <1>1, <1>2 DEF StepOf

\* The thread goes on, and nothing is written.
LEMMA GoesOn ==
  ASSUME TypeInv, NEW n \in Node, Up(n), NEW p \in PCs, NEW j,
         p \notin {"down", "collect", "notify"},
         Goto(n, p, j), JobFits(n, p, j), j.resp = job[n].resp \/ j.resp = << >>,
         UNCHANGED <<state, last, disk, net>>
  PROVE  StepOf(n)
<1>1. j \in Job
  BY DEF JobFits
<1>2. \A i \in 1..Len(j.resp) : Served(n, j.resp[i])
  BY DEF Served
<1>3. HalfSaved(n)
  BY DEF HalfSaved, disk
<1>4. Moving(n, p, j)
  BY <1>2, <1>3 DEF Moving, Thread
<1> QED BY <1>1, <1>4 DEF StepOf

\* Asking a peer for its status is a step of the node's thread.
LEMMA AskStatusStep ==
  ASSUME TypeInv, NEW n \in Node, NEW e \in Peers[n], AskStatus(n, e) \/ AskStatusFails(n, e)
  PROVE  StepOf(n)
<1> DEFINE h == state[Owner[e]].height
           k == [job[n] EXCEPT !.todo = @ \ {e}]
           l == [k EXCEPT !.peer = e, !.target = h]
<1>1. JobFits(n, pc[n], job[n]) /\ job[n] \in Job
  BY DEF TypeInv, JobT
<1>2. e \in Endpoint /\ Owner[e] \in Node
  BY NetworkAssumption
<1>3. h \in Nat
  <2>1. state[Owner[e]] \in State
    BY <1>2 DEF TypeInv, StoreT
  <2> QED BY <2>1 DEF State
<1>4. e # None
  BY <1>2, NetworkAssumption
<1>5. pc[n] = "status" /\ "status" \in PCs
  BY DEF AskStatus, AskStatusFails, PCs
<1> HIDE DEF h
<1>6. JobFits(n, "status", k) /\ k.resp = job[n].resp
  BY <1>1, <1>2, <1>5 DEF JobFits, Job
<1>7. JobFits(n, "status", l) /\ l.resp = job[n].resp
  BY <1>1, <1>2, <1>3, <1>4, <1>5 DEF JobFits, Job
<1>8. Goto(n, "status", k) \/ Goto(n, "status", l)
  BY DEF AskStatus, AskStatusFails, h
<1>9. UNCHANGED <<state, last, disk, net>>
  BY DEF AskStatus, AskStatusFails
<1>10. Up(n)
  BY <1>5 DEF Up
<1> HIDE DEF k, l
<1> QED BY <1>5, <1>6, <1>7, <1>8, <1>9, <1>10, GoesOn

\* A response holds blocks that the node has executed (OnSyncRequest).
LEMMA ResponseIsExecuted ==
  ASSUME TypeInv, NEW q \in Node, NEW from \in Nat \ {0}, NEW to \in Nat
  PROVE  LET r == OnSyncRequest(q, from, to)
         IN  /\ r \in Seq(HSigned)
             /\ \A i \in 1..Len(r) :
                  \E h \in DOMAIN blocks[q] : h <= state[q].height /\ r[i] = blocks[q][h]
<1> DEFINE top == state[q].height
           S == {to, top, from + SyncBatch - 1}
           IsEnd(h) == h <= to /\ h <= top /\ h <= from + SyncBatch - 1
           end == CHOOSE h \in S : IsEnd(h)
           Have(h) == from..h \subseteq DOMAIN blocks[q]
           IsUpto(h) == Have(h) /\ (h < end => ~Have(h + 1))
           upto == CHOOSE h \in from - 1 .. end : IsUpto(h)
           r == [i \in 1..(upto - from + 1) |-> blocks[q][from + i - 1]]
<1>1. top \in Nat
  <2>1. state[q] \in State
    BY DEF TypeInv, StoreT
  <2> QED BY <2>1 DEF State
<1>2. SyncBatch \in Nat \ {0}
  BY BoundAssumption
<1>3. \E h \in S : IsEnd(h)
  BY <1>1, <1>2
<1>4. end \in S /\ IsEnd(end)
  BY <1>3
<1> HIDE DEF end
<1>5. end \in Nat /\ end <= top
  BY <1>1, <1>2, <1>4
<1> HIDE DEF top
<1>6. OnSyncRequest(q, from, to) = IF end < from THEN << >> ELSE r
  BY DEF OnSyncRequest, end, top
<1>7. CASE end < from
  <2>1. OnSyncRequest(q, from, to) = << >>
    BY <1>6, <1>7
  <2> QED BY <2>1
<1>8. CASE ~(end < from)
  <2>1. \E h \in from - 1 .. end : IsUpto(h)
    <3> DEFINE G == {h \in Nat : from - 1 + h <= end => Have(from - 1 + h)}
    <3>1. SUFFICES ASSUME \A h \in from - 1 .. end : ~IsUpto(h) PROVE FALSE
      OBVIOUS
    <3>2. 0 \in G
      OBVIOUS
    <3>3. ASSUME NEW h \in G PROVE h + 1 \in G
      <4>1. SUFFICES ASSUME from - 1 + (h + 1) <= end PROVE Have(from - 1 + (h + 1))
        OBVIOUS
      <4> DEFINE g == from - 1 + h
      <4>2. g \in from - 1 .. end /\ g < end /\ g + 1 = from - 1 + (h + 1)
        BY <4>1, <1>5
      <4>3. Have(g)
        BY <4>2, <1>5
      <4>4. ~IsUpto(g)
        BY <4>2, <3>1
      <4> HIDE DEF Have
      <4> QED BY <4>2, <4>3, <4>4
    <3> HIDE DEF G
    <3>4. G = Nat
      <4>1. G \in SUBSET Nat
        BY DEF G
      <4> QED BY <4>1, <3>2, <3>3, NatSetInduction
    <3>5. end - from + 1 \in Nat /\ from - 1 + (end - from + 1) = end
      BY <1>5, <1>8
    <3> HIDE DEF Have
    <3>6. Have(end)
      <4> DEFINE g == end - from + 1
      <4>1. g \in G /\ from - 1 + g = end /\ end <= end
        BY <3>4, <3>5, <1>5
      <4> HIDE DEF g
      <4>2. Have(from - 1 + g)
        BY <4>1 DEF G
      <4> QED BY <4>1, <4>2
    <3>7. end \in from - 1 .. end /\ ~(end < end)
      BY <1>5, <1>8
    <3> QED BY <3>1, <3>6, <3>7
  <2>2. upto \in from - 1 .. end /\ Have(upto)
    BY <2>1
  <2> HIDE DEF upto
  <2>3. upto - from + 1 \in Nat
    BY <2>2, <1>5
  <2>4. ASSUME NEW i \in 1..(upto - from + 1)
        PROVE  from + i - 1 \in DOMAIN blocks[q] /\ from + i - 1 <= top
    BY <2>2, <2>3, <1>1, <1>5
  <2>5. \A h \in DOMAIN blocks[q] : blocks[q][h] \in HSigned
    BY DEF TypeInv, StoreT
  <2>6. r \in [1..(upto - from + 1) -> HSigned]
    BY <2>4, <2>5
  <2>7. r \in Seq(HSigned) /\ Len(r) = upto - from + 1
    BY <2>3, <2>6
  <2>8. \A i \in 1..Len(r) :
          \E h \in DOMAIN blocks[q] : h <= top /\ r[i] = blocks[q][h]
    BY <2>4, <2>7
  <2>9. OnSyncRequest(q, from, to) = r
    BY <1>6, <1>8
  <2> HIDE DEF r
  <2> QED BY <2>7, <2>8, <2>9 DEF top
<1> QED BY <1>7, <1>8

\* Heights are naturals.
LEMMA HeightNat ==
  ASSUME TypeInv, NEW n \in Node
  PROVE  state[n].height \in Nat /\ saved[n].height \in Nat
<1>1. state[n] \in State /\ saved[n] \in State
  BY DEF TypeInv, StoreT
<1> QED BY <1>1 DEF State

\* So is fetching blocks.
LEMMA FetchStep ==
  ASSUME TypeInv, NEW n \in Node, BeginFetch(n) \/ EndSync(n) \/ Fetch(n) \/ FetchFails(n)
  PROVE  StepOf(n)
<1>1. JobFits(n, pc[n], job[n]) /\ job[n] \in Job
  BY DEF TypeInv, JobT
<1>2. pc[n] \in {"status", "fetch"} /\ UNCHANGED <<state, last, disk, net>>
  BY DEF BeginFetch, EndSync, Fetch, FetchFails
<1>3. Up(n)
  BY <1>2 DEF Up
<1>4. HalfSaved(n)
  BY <1>2 DEF HalfSaved, disk
<1>5. CASE Goto(n, "run", EmptyJob)
  BY <1>2, <1>3, <1>4, <1>5, ToRun
<1>6. CASE BeginFetch(n)
  <2>1. Goto(n, "fetch", job[n]) /\ pc[n] = "status"
    BY <1>6 DEF BeginFetch
  <2>2. JobFits(n, "fetch", job[n]) /\ "fetch" \in PCs
    BY <1>1, <2>1 DEF JobFits, PCs
  <2> QED BY <1>2, <1>3, <2>1, <2>2, GoesOn
<1>7. CASE Fetch(n) /\ ~Goto(n, "run", EmptyJob)
  <2> DEFINE e == job[n].peer
             resp == OnSyncRequest(Owner[e], state[n].height + 1, job[n].target)
             j == [job[n] EXCEPT !.resp = resp]
  <2>1. pc[n] = "fetch" /\ Free(Owner[e]) /\ resp # << >> /\ Goto(n, "fetched", j)
        /\ state[n].height < job[n].target
    BY <1>7 DEF Fetch
  <2>2. state[n].height \in Nat /\ job[n].target \in Nat /\ state[n].height + 1 \in Nat \ {0}
    BY <1>1, HeightNat DEF Job
  <2>3. e \in Endpoint
    BY <2>1, <2>2, <1>1 DEF JobFits, Job
  <2>4. Owner[e] \in Node
    BY <2>3, NetworkAssumption
  <2>5. /\ resp \in Seq(HSigned)
        /\ \A i \in 1..Len(resp) : \E h \in DOMAIN blocks[Owner[e]] :
             h <= state[Owner[e]].height /\ resp[i] = blocks[Owner[e]][h]
    BY <2>2, <2>4, ResponseIsExecuted, ZenonT(30)
  <2> HIDE DEF resp
  <2>6. \A i \in 1..Len(resp) : resp[i] \in HSigned
    BY <2>5
  <2>7. resp \in Seq(Signed)
    <3>1. \A i \in 1..Len(resp) : resp[i] \in Signed
      BY <2>6 DEF HSigned
    <3> HIDE DEF Signed
    <3>2. resp \in [1..Len(resp) -> Signed] /\ Len(resp) \in Nat
      BY <2>5, <3>1
    <3> QED BY <3>2
  <2>8. j \in Job /\ j.resp = resp
    BY <1>1, <2>7 DEF Job
  <2>9. JobFits(n, "fetched", j) /\ "fetched" \in PCs
    <3>1. /\ j.block = job[n].block /\ j.target = job[n].target /\ j.peer = job[n].peer
          /\ j.todo = job[n].todo /\ j.votes = job[n].votes
      BY <1>1 DEF Job
    <3> HIDE DEF j
    <3> QED BY <1>1, <2>1, <2>6, <2>8, <3>1 DEF JobFits, PCs
  <2>10. Up(Owner[e])
    BY <2>1 DEF Free
  <2>11. \A i \in 1..Len(j.resp) : Served(n, j.resp[i])
    BY <2>4, <2>5, <2>8, <2>10 DEF Served
  <2> HIDE DEF j
  <2>12. Moving(n, "fetched", j)
    BY <1>2, <1>3, <1>4, <2>1, <2>9, <2>11 DEF Moving, Thread
  <2> QED BY <2>8, <2>9, <2>12 DEF StepOf
<1> QED BY <1>5, <1>6, <1>7 DEF EndSync, Fetch, FetchFails

\* A failed commit leaves the block saved at most.
LEMMA FailedIsHalf ==
  ASSUME TypeInv, NEW n \in Node, NEW sb, MayCommit(n, sb), CommitFails(n, sb)
  PROVE  HalfSaved(n) /\ UNCHANGED <<state, last>>
<1>1. sb \in HSigned
  BY CommitTyped
<1>2. (SaveBlock(n, sb) \/ UNCHANGED blocks) /\ UNCHANGED <<saved, state, last>>
  BY DEF CommitFails
<1> QED BY <1>1, <1>2 DEF HalfSaved

\* So is applying a fetched block.
LEMMA SyncStep ==
  ASSUME TypeInv, NEW n \in Node, SyncBlock(n) \/ SyncBlockRejected(n) \/ SyncBlockFails(n)
  PROVE  StepOf(n)
<1> DEFINE sb == Head(job[n].resp)
<1>1. JobFits(n, pc[n], job[n]) /\ job[n] \in Job
  BY DEF TypeInv, JobT
<1>2. pc[n] \in {"fetched", "apply"} /\ net' = net
  BY DEF SyncBlock, SyncBlockRejected, SyncBlockFails
<1>3. Up(n)
  BY <1>2 DEF Up
<1>4. job[n].resp \in Seq(Signed) /\ job[n].resp # << >>
  BY <1>1, <1>2 DEF Job, JobFits
<1>5. CASE SyncBlockRejected(n)
  <2>1. Goto(n, "run", EmptyJob) /\ UNCHANGED <<state, last, disk>>
    BY <1>5 DEF SyncBlockRejected
  <2>2. HalfSaved(n) /\ UNCHANGED <<state, last>>
    BY <2>1 DEF HalfSaved, disk
  <2> QED BY <1>2, <1>3, <2>1, <2>2, ToRun
<1>6. CASE SyncBlockFails(n)
  <2>1. Goto(n, "run", EmptyJob) /\ CanSync(n, sb) /\ CommitFails(n, sb)
    BY <1>6 DEF SyncBlockFails
  <2>2. MayCommit(n, sb)
    BY <1>2, <2>1 DEF MayCommit, Synced
  <2> QED BY <1>2, <1>3, <2>1, <2>2, FailedIsHalf, ToRun
<1>7. CASE SyncBlock(n)
  <2> DEFINE p == IF Len(job[n].resp) = 1 THEN "fetch" ELSE "apply"
             j == [job[n] EXCEPT !.resp = Tail(@)]
  <2>1. CanSync(n, sb) /\ CommitBlock(n, sb) /\ Goto(n, p, j)
    BY <1>7 DEF SyncBlock
  <2>2. MayCommit(n, sb)
    BY <1>2, <2>1 DEF MayCommit, Synced
  <2>3. sb \in HSigned
    BY <2>2, CommitTyped
  <2>4. j \in Job /\ j.resp = Tail(job[n].resp)
    <3>1. Tail(job[n].resp) \in Seq(Signed)
      <4> HIDE DEF Signed
      <4> QED BY <1>4
    <3> QED BY <1>1, <3>1 DEF Job
  <2>5. \A i \in 1..Len(j.resp) : i + 1 \in 1..Len(job[n].resp) /\ j.resp[i] = job[n].resp[i + 1]
    <3> HIDE DEF Signed
    <3> QED BY <1>4, <2>4
  <2>6. p = "apply" => j.resp # << >>
    <3> HIDE DEF Signed
    <3>1. Len(Tail(job[n].resp)) = Len(job[n].resp) - 1 /\ Len(job[n].resp) \in Nat \ {0}
      BY <1>4
    <3>2. p = "apply" => Len(job[n].resp) # 1
      OBVIOUS
    <3>3. p = "apply" => Len(Tail(job[n].resp)) # 0
      BY <3>1, <3>2
    <3>4. Len(<< >>) = 0
      OBVIOUS
    <3> QED BY <2>4, <3>3, <3>4
  <2>7. /\ j.block = job[n].block /\ j.target = job[n].target /\ j.peer = job[n].peer
        /\ j.todo = job[n].todo /\ j.votes = job[n].votes
    BY <1>1 DEF Job
  <2>8. p \in {"fetch", "apply"}
    OBVIOUS
  <2> HIDE DEF j, p, sb
  <2>9. \A i \in 1..Len(j.resp) : j.resp[i] \in HSigned /\ Served(n, j.resp[i])
    BY <1>1, <2>5 DEF JobFits, Served
  <2>10. JobFits(n, p, j) /\ p \in PCs
    BY <1>1, <1>2, <2>4, <2>6, <2>7, <2>8, <2>9 DEF JobFits, PCs
  <2>11. Committing(n, p, j, sb)
    BY <1>2, <1>3, <2>1, <2>2, <2>8, <2>9, <2>10 DEF Committing, Thread
  <2> QED BY <2>3, <2>4, <2>10, <2>11 DEF StepOf
<1> QED BY <1>5, <1>6, <1>7

\* So is a round of Run.
LEMMA TurnStep ==
  ASSUME TypeInv, NEW n \in Node,
         ReadHeight(n) \/ TakeTurn(n) \/ PassTurn(n) \/ TrialFails(n)
  PROVE  StepOf(n)
<1>1. JobFits(n, pc[n], job[n]) /\ job[n] \in Job
  BY DEF TypeInv, JobT
<1>2. pc[n] \in {"run", "turn", "wait"} /\ UNCHANGED <<state, last, disk, net>>
  BY DEF ReadHeight, TakeTurn, PassTurn, TrialFails
<1>3. Up(n)
  BY <1>2 DEF Up
<1>4. HalfSaved(n)
  BY <1>2 DEF HalfSaved, disk
<1>5. EmptyJob \in Job /\ JobFits(n, "run", EmptyJob)
  BY EmptyFits DEF PCs
<1>6. state[n].height \in Nat
  BY HeightNat
<1>7. CASE Goto(n, "run", EmptyJob)
  BY <1>2, <1>3, <1>4, <1>7, ToRun
<1>8. ASSUME NEW h \in Nat, NEW p \in {"turn", "wait"}, p = "wait" => h \in 1..MaxHeight, h > 0,
             Goto(n, p, [EmptyJob EXCEPT !.next = h])
      PROVE  StepOf(n)
  <2> DEFINE j == [EmptyJob EXCEPT !.next = h]
  <2>1. /\ j \in Job /\ j.next = h /\ j.resp = << >> /\ j.block = None /\ j.target = 0
        /\ j.todo = {} /\ j.votes = {}
    BY <1>5 DEF EmptyJob, Job
  <2> HIDE DEF j
  <2>2. JobFits(n, p, j) /\ p \in PCs
    BY <1>8, <2>1 DEF JobFits, PCs
  <2>3. Goto(n, p, j)
    BY <1>8 DEF j
  <2> QED BY <1>2, <1>3, <2>1, <2>2, <2>3, GoesOn
<1>9. CASE ReadHeight(n)
  <2>1. Goto(n, "turn", [EmptyJob EXCEPT !.next = state[n].height + 1])
    BY <1>9 DEF ReadHeight
  <2>2. state[n].height + 1 \in Nat /\ state[n].height + 1 > 0
    BY <1>6
  <2> QED BY <1>8, <2>1, <2>2
<1>10. CASE TakeTurn(n)
  <2>1. Goto(n, "wait", [EmptyJob EXCEPT !.next = NextHeight(n)]) /\ NextHeight(n) <= MaxHeight
        /\ IsProposer(n, NextHeight(n))
    BY <1>10 DEF TakeTurn, MyTurn
  <2>2. NextHeight(n) \in Nat
    BY <1>1, <1>6 DEF NextHeight, Job
  <2>3. NextHeight(n) # 0
    BY <1>1, <1>6 DEF NextHeight, JobFits
  <2> QED BY <1>8, <2>1, <2>2, <2>3, BoundAssumption
<1> QED BY <1>7, <1>9, <1>10 DEF PassTurn, TrialFails

\* A set of numbers with a bound has a largest element.
LEMMA LargestBelow ==
  ASSUME NEW S \in SUBSET Nat, S # {}, NEW t \in Nat, \A x \in S : x <= t
  PROVE  \E x \in S : \A y \in S : y <= x
<1> DEFINE U == {u \in Nat : \A x \in S : x <= u}
<1>1. U \in SUBSET Nat /\ U # {}
  OBVIOUS
<1>2. PICK u \in U : \A v \in U : u <= v
  BY <1>1, SmallestNat
<1>3. u \in Nat /\ \A x \in S : x <= u
  OBVIOUS
<1>4. SUFFICES ASSUME u \notin S PROVE FALSE
  BY <1>3
<1>5. \A x \in S : x \in Nat /\ x < u
  BY <1>3, <1>4
<1>6. u > 0
  <2>1. PICK x \in S : TRUE
    OBVIOUS
  <2>2. x \in Nat /\ x < u
    BY <1>5
  <2> QED BY <1>3, <2>2
<1>7. u - 1 \in U
  BY <1>3, <1>5, <1>6
<1> QED BY <1>2, <1>3, <1>7

\* A block that is proposed now differs from every block there is.
LEMMA NowIsLater ==
  ASSUME TypeInv
  PROVE  /\ Now \in Nat /\ Now > 0
         /\ \A b \in HBlock : Recorded(b) => b.time < Now
<1>1. PICK t \in Nat : \A b \in HBlock : Recorded(b) \/ Fetched(b) => b.time <= t
  BY DEF TypeInv, Bounded
<1>2. \A b \in HBlock : b.time \in Nat
  BY DEF HBlock, Block
<1> DEFINE A == {m.block.time : m \in net}
           Of(n) == {blocks[n][h].block.time : h \in DOMAIN blocks[n]}
           B == UNION {Of(n) : n \in Node}
           N == {m \in Node : job[m].block # None}
           C == {job[n].block.time : n \in N}
<1>0. Times = {0} \cup A \cup B \cup C
  BY DEF Times
<1>3. ASSUME NEW x \in Times PROVE x = 0 \/ \E b \in HBlock : Recorded(b) /\ x = b.time
  <2>1. CASE \E m \in net : x = m.block.time
    <3>1. PICK m \in net : x = m.block.time
      BY <2>1
    <3>2. m.block \in HBlock
      BY DEF TypeInv, NetT
    <3> QED BY <3>1, <3>2 DEF Recorded
  <2>2. CASE \E n \in Node : \E h \in DOMAIN blocks[n] : x = blocks[n][h].block.time
    <3>1. PICK n \in Node : \E h \in DOMAIN blocks[n] : x = blocks[n][h].block.time
      BY <2>2
    <3>2. PICK h \in DOMAIN blocks[n] : x = blocks[n][h].block.time
      BY <3>1
    <3>3. blocks[n][h] \in HSigned
      BY DEF TypeInv, StoreT
    <3>4. blocks[n][h].block \in HBlock
      BY <3>3 DEF HSigned
    <3> QED BY <3>2, <3>4 DEF Recorded
  <2>3. CASE \E n \in Node : job[n].block # None /\ x = job[n].block.time
    <3>1. PICK n \in Node : job[n].block # None /\ x = job[n].block.time
      BY <2>3
    <3>2. job[n].block \in HBlock
      BY <3>1 DEF TypeInv, JobT, JobFits
    <3> QED BY <3>1, <3>2 DEF Recorded
  <2>4. x \in A => \E m \in net : x = m.block.time
    OBVIOUS
  <2>5. x \in B => \E n \in Node : \E h \in DOMAIN blocks[n] : x = blocks[n][h].block.time
    OBVIOUS
  <2>6. x \in C => \E n \in Node : job[n].block # None /\ x = job[n].block.time
    OBVIOUS
  <2> HIDE DEF A, B, C
  <2> QED BY <1>0, <2>1, <2>2, <2>3, <2>4, <2>5, <2>6
<1>4. ASSUME NEW b \in HBlock, Recorded(b) PROVE b.time \in Times
  <2>1. CASE \E m \in net : m.block = b
    <3>1. b.time \in A
      BY <2>1
    <3> QED BY <1>0, <3>1
  <2>2. CASE \E n \in Node : \E h \in DOMAIN blocks[n] : blocks[n][h].block = b
    <3>1. PICK n \in Node : \E h \in DOMAIN blocks[n] : blocks[n][h].block = b
      BY <2>2
    <3>2. b.time \in Of(n)
      BY <3>1
    <3> HIDE DEF Of
    <3>3. b.time \in B
      BY <3>2
    <3> QED BY <1>0, <3>3
  <2>3. CASE \E n \in Node : job[n].block # None /\ job[n].block = b
    <3>1. b.time \in C
      BY <2>3
    <3> QED BY <1>0, <3>1
  <2> QED BY <1>4, <2>1, <2>2, <2>3 DEF Recorded
<1>5. Times \in SUBSET Nat /\ \A x \in Times : x <= t
  BY <1>1, <1>2, <1>3
<1>6. 0 \in Times
  BY <1>0
<1> HIDE DEF A, B, C
<1> DEFINE top == CHOOSE x \in Times : \A y \in Times : y <= x
<1>7. \E x \in Times : \A y \in Times : y <= x
  BY <1>5, <1>6, LargestBelow
<1>8. top \in Times /\ \A y \in Times : y <= top
  BY <1>7
<1>9. Now = 1 + top
  BY DEF Now
<1> HIDE DEF top
<1>10. top \in Nat
  BY <1>5, <1>8
<1>11. \A b \in HBlock : Recorded(b) => b.time < Now
  BY <1>2, <1>4, <1>8, <1>9, <1>10
<1> QED BY <1>9, <1>10, <1>11

\* So is the making of a proposal.
LEMMA ProposeStep ==
  ASSUME TypeInv, NEW n \in Node, ProposeBlock(n)
  PROVE  StepOf(n)
<1>1. JobFits(n, pc[n], job[n]) /\ job[n] \in Job
  BY DEF TypeInv, JobT
<1>2. pc[n] = "wait" /\ UNCHANGED <<state, last, disk, net>>
  BY DEF ProposeBlock
<1>3. PICK active \in ActiveSets :
        Goto(n, "collect",
             [job[n] EXCEPT
                !.block = [height |-> job[n].next, prev |-> Hash(last[n]),
                           proposer |-> n, time |-> Now, base |-> state[n].at,
                           active |-> active],
                !.todo = Peers[n]])
  BY DEF ProposeBlock
<1> DEFINE b == [height |-> job[n].next, prev |-> Hash(last[n]),
                 proposer |-> n, time |-> Now, base |-> state[n].at, active |-> active]
           j == [job[n] EXCEPT !.block = b, !.todo = Peers[n]]
<1>4. Now \in Nat /\ Now > 0
  BY NowIsLater
<1>5. Hash(last[n]) \in Nat /\ state[n].at \in Nat
  <2>1. last[n] \in HBlock \cup {None} /\ state[n] \in State
    BY DEF TypeInv, StoreT
  <2> QED BY <2>1 DEF HBlock, Block, State, Hash
<1>6. job[n].next \in 1..MaxHeight
  BY <1>1, <1>2 DEF JobFits
<1>7. job[n].next \in Nat
  BY <1>1 DEF Job
<1>8. b \in Block /\ b.height = job[n].next /\ b.time = Now /\ b.proposer = n /\ b.prev = Hash(last[n])
  BY <1>4, <1>5, <1>7 DEF Block
<1> HIDE DEF b
<1>9. b \in HBlock /\ b # None
  BY <1>4, <1>6, <1>8, NoneAssumption DEF HBlock
<1>10. Peers[n] \in SUBSET Endpoint
  BY NetworkAssumption
<1>11. /\ j \in Job /\ j.block = b /\ j.resp = job[n].resp /\ j.target = job[n].target
       /\ j.peer = job[n].peer /\ j.todo = Peers[n] /\ j.votes = job[n].votes
  BY <1>1, <1>8, <1>10 DEF Job
<1>12. Goto(n, "collect", j)
  BY <1>3 DEF b
<1> HIDE DEF j
<1>13. JobFits(n, "collect", j) /\ j.votes = {}
  BY <1>1, <1>2, <1>9, <1>11 DEF JobFits, PCs
<1>14. \A i \in 1..Len(j.resp) : Served(n, j.resp[i])
  BY <1>11 DEF Served
<1>15. Proposing(n, j)
  BY <1>2, <1>8, <1>11, <1>12, <1>13, <1>14 DEF Proposing, Thread, Up
<1> QED BY <1>11, <1>15 DEF StepOf

\* So is a peer's vote.
LEMMA VoteStep ==
  ASSUME TypeInv, NEW n \in Node, NEW e \in Peers[n], OnProposal(n, e) \/ OnProposalFails(n, e)
  PROVE  StepOf(n)
<1> DEFINE k == [job[n] EXCEPT !.todo = @ \ {e}]
           l == [job[n] EXCEPT !.todo = @ \ {e}, !.votes = @ \cup {e}]
           m == [job[n] EXCEPT !.todo = @ \ {e}, !.votes = @]
<1>1. JobFits(n, pc[n], job[n]) /\ job[n] \in Job
  BY DEF TypeInv, JobT
<1>2. pc[n] = "collect" /\ UNCHANGED <<state, last, disk, net>>
  BY DEF OnProposal, OnProposalFails
<1>3. e \in Endpoint
  BY NetworkAssumption
<1>4. k = m
  BY <1>1 DEF Job
<1>5. \/ Goto(n, "collect", k)
      \/ Goto(n, "collect", l) /\ Free(Owner[e]) /\ ValidateProposedBlock(Owner[e], job[n].block)
  <2>1. CASE OnProposalFails(n, e)
    BY <2>1 DEF OnProposalFails
  <2>2. CASE OnProposal(n, e) /\ ValidateProposedBlock(Owner[e], job[n].block)
    BY <2>2 DEF OnProposal
  <2>3. CASE OnProposal(n, e) /\ ~ValidateProposedBlock(Owner[e], job[n].block)
    <3>1. Goto(n, "collect", m)
      BY <2>3 DEF OnProposal
    <3> QED BY <3>1, <1>4
  <2> QED BY <2>1, <2>2, <2>3
<1>6. JobFits(n, "collect", k) /\ k.resp = job[n].resp /\ k.block = job[n].block
      /\ k.votes = job[n].votes
  BY <1>1, <1>2 DEF JobFits, Job
<1>7. JobFits(n, "collect", l) /\ l.resp = job[n].resp /\ l.block = job[n].block
      /\ l.votes = job[n].votes \cup {e}
  BY <1>1, <1>2, <1>3 DEF JobFits, Job
<1> HIDE DEF k, l
<1>8. Up(n)
  BY <1>2 DEF Up
<1>9. /\ \A i \in 1..Len(k.resp) : Served(n, k.resp[i])
      /\ \A i \in 1..Len(l.resp) : Served(n, l.resp[i])
  BY <1>6, <1>7 DEF Served
<1>10. k \in Job /\ l \in Job
  BY <1>6, <1>7 DEF JobFits
<1>11. CASE Goto(n, "collect", k)
  <2>1. Voting(n, k)
    BY <1>2, <1>6, <1>8, <1>9, <1>11 DEF Voting, Thread
  <2> QED BY <2>1, <1>10 DEF StepOf
<1>12. CASE Goto(n, "collect", l) /\ Free(Owner[e])
            /\ ValidateProposedBlock(Owner[e], job[n].block)
  <2>1. Voting(n, l)
    BY <1>2, <1>7, <1>8, <1>9, <1>12 DEF Voting, Thread
  <2> QED BY <2>1, <1>10 DEF StepOf
<1> QED BY <1>5, <1>11, <1>12

\* So is the end of proposeBlock, with or without a quorum.
LEMMA OwnStep ==
  ASSUME TypeInv, NEW n \in Node,
         GiveUp(n) \/ CommitOwn(n) \/ CommitOwnFails(n) \/ EndPropose(n)
  PROVE  StepOf(n)
<1>1. JobFits(n, pc[n], job[n]) /\ job[n] \in Job
  BY DEF TypeInv, JobT
<1>2. pc[n] \in {"collect", "notify"} /\ net' = net
  BY DEF GiveUp, CommitOwn, CommitOwnFails, EndPropose, Collected
<1>3. Up(n)
  BY <1>2 DEF Up
<1>4. CASE GiveUp(n) \/ EndPropose(n)
  <2>1. Goto(n, "run", EmptyJob) /\ UNCHANGED <<state, last, disk>>
    BY <1>4 DEF GiveUp, EndPropose
  <2>2. HalfSaved(n) /\ UNCHANGED <<state, last>>
    BY <2>1 DEF HalfSaved, disk
  <2> QED BY <1>2, <1>3, <2>1, <2>2, ToRun
<1>5. CASE CommitOwnFails(n)
  <2>1. Goto(n, "run", EmptyJob) /\ Collected(n) /\ Quorate(n) /\ CommitFails(n, Certified(n))
    BY <1>5 DEF CommitOwnFails
  <2>2. MayCommit(n, Certified(n))
    BY <2>1 DEF MayCommit, Own
  <2> QED BY <1>2, <1>3, <2>1, <2>2, FailedIsHalf, ToRun
<1>6. CASE CommitOwn(n)
  <2> DEFINE j == [job[n] EXCEPT !.todo = Peers[n]]
             sb == Certified(n)
  <2>1. Goto(n, "notify", j) /\ Collected(n) /\ Quorate(n) /\ CommitBlock(n, sb)
    BY <1>6 DEF CommitOwn
  <2>2. Own(n, sb) /\ MayCommit(n, sb)
    BY <2>1 DEF MayCommit, Own
  <2>3. sb \in HSigned /\ sb.block = job[n].block
    <3>1. sb \in HSigned
      BY <2>2, CommitTyped
    <3> QED BY <3>1 DEF Certified
  <2>4. Peers[n] \in SUBSET Endpoint
    BY NetworkAssumption
  <2>5. JobFits(n, "notify", j) /\ j \in Job /\ j.resp = job[n].resp /\ j.block = job[n].block
    BY <1>1, <1>2, <2>1, <2>4 DEF JobFits, Job, PCs, Collected
  <2> HIDE DEF j, sb
  <2>6. \A i \in 1..Len(j.resp) : Served(n, j.resp[i])
    BY <2>5 DEF Served
  <2>7. Committing(n, "notify", j, sb)
    BY <1>2, <1>3, <2>1, <2>2, <2>3, <2>5, <2>6 DEF Committing, Thread
  <2>8. "notify" \in PCs
    BY DEF PCs
  <2> QED BY <2>3, <2>5, <2>7, <2>8 DEF StepOf
<1> QED BY <1>4, <1>5, <1>6

\* So is a notification.
LEMMA NotifyStep ==
  ASSUME TypeInv, NEW n \in Node,
         \/ \E e \in Peers[n] : Notify(n, e) \/ NotifyFails(n, e)
         \/ NotifyTimeout(n)
  PROVE  StepOf(n)
<1>1. JobFits(n, pc[n], job[n]) /\ job[n] \in Job
  BY DEF TypeInv, JobT
<1>2. pc[n] = "notify" /\ UNCHANGED <<state, last, disk>>
  BY DEF Notify, NotifyFails, NotifyTimeout
<1>3. Up(n)
  BY <1>2 DEF Up
<1>4. ASSUME NEW x \in SUBSET Endpoint, NEW e \in Endpoint \cup {None}, x \subseteq Peers[n],
             Goto(n, "notify", [job[n] EXCEPT !.todo = x, !.peer = e]),
             \A m \in net' : m \in net \/ (m \in Message /\ m.block = job[n].block)
      PROVE  StepOf(n)
  <2> DEFINE j == [job[n] EXCEPT !.todo = x, !.peer = e]
  <2>0. /\ j \in Job /\ j.resp = job[n].resp /\ j.block = job[n].block
        /\ j.target = job[n].target /\ j.todo = x /\ j.votes = job[n].votes
    BY <1>1, <1>4 DEF Job
  <2>5. Goto(n, "notify", j)
    BY <1>4
  <2> HIDE DEF j
  <2>6. j.target = 0
    BY <1>1, <1>2, <2>0 DEF JobFits
  <2>1. JobFits(n, "notify", j) /\ j.resp = job[n].resp /\ j.block = job[n].block
    BY <1>1, <1>2, <1>4, <2>0, <2>6 DEF JobFits
  <2>2. \A i \in 1..Len(j.resp) : Served(n, j.resp[i])
    BY <2>1 DEF Served
  <2>3. Telling(n, j)
    BY <1>2, <1>3, <1>4, <2>1, <2>2, <2>5 DEF Telling, Thread
  <2>4. j \in Job
    BY <2>1 DEF JobFits
  <2> QED BY <2>3, <2>4 DEF StepOf
<1>5. job[n].todo \subseteq Peers[n] /\ job[n].todo \in SUBSET Endpoint
  BY <1>1 DEF JobFits, Job
<1>6. ASSUME NEW e \in Peers[n], Notify(n, e) PROVE StepOf(n)
  <2> DEFINE x == job[n].todo \ {e}
             new == [to |-> e, block |-> job[n].block, cert |-> Certified(n).cert]
  <2>1. e \in Endpoint
    BY NetworkAssumption
  <2>2. Goto(n, "notify", [job[n] EXCEPT !.todo = x, !.peer = e]) /\ net' = net \cup {new}
    BY <1>6 DEF Notify
  <2>3. new \in Message /\ new.block = job[n].block
    <3>1. job[n].block \in Block /\ job[n].votes \subseteq Endpoint
      BY <1>1, <1>2 DEF JobFits, Job, HBlock
    <3>2. Certified(n).cert \in SUBSET Node
      BY <3>1, NetworkAssumption DEF Certified
    <3> QED BY <2>1, <3>1, <3>2 DEF Message
  <2>4. x \in SUBSET Endpoint /\ x \subseteq Peers[n]
    BY <1>5
  <2> HIDE DEF new, x
  <2>6. net' = net \cup {new}
    BY <2>2
  <2>7. \A m \in net' : m \in net \/ m = new
    BY <2>6
  <2>5. \A m \in net' : m \in net \/ (m \in Message /\ m.block = job[n].block)
    BY <2>7, <2>3
  <2> QED BY <1>4, <2>1, <2>2, <2>4, <2>5
<1>7. ASSUME NEW e \in Peers[n], NotifyFails(n, e) PROVE StepOf(n)
  <2> DEFINE x == job[n].todo \ {e}
  <2>1. Goto(n, "notify", [job[n] EXCEPT !.todo = x, !.peer = None]) /\ net' = net
    BY <1>7 DEF NotifyFails
  <2>2. x \in SUBSET Endpoint /\ x \subseteq Peers[n]
    BY <1>5
  <2> HIDE DEF x
  <2>3. \A m \in net' : m \in net \/ (m \in Message /\ m.block = job[n].block)
    BY <2>1
  <2> QED BY <1>4, <2>1, <2>2, <2>3
<1>8. CASE NotifyTimeout(n)
  <2>1. Goto(n, "notify", [job[n] EXCEPT !.peer = None]) /\ net' = net
    BY <1>8 DEF NotifyTimeout
  <2>2. [job[n] EXCEPT !.peer = None] = [job[n] EXCEPT !.todo = job[n].todo, !.peer = None]
    BY <1>1 DEF Job
  <2>3. \A m \in net' : m \in net \/ (m \in Message /\ m.block = job[n].block)
    BY <2>1
  <2> QED BY <1>4, <1>5, <2>1, <2>2, <2>3
<1> QED BY <1>6, <1>7, <1>8

\* The handler of a notification is a step of the node that gets it.
LEMMA HandleStep ==
  ASSUME TypeInv, NEW m \in net,
         OnFinalizedBlock(m) \/ IgnoreFinalizedBlock(m) \/ OnFinalizedBlockFails(m)
  PROVE  To(m) \in Node /\ StepOf(To(m))
<1> DEFINE n == To(m)
           sb == Body(m)
<1>1. n \in Node
  <2>1. m \in Message
    BY DEF TypeInv, NetT
  <2> QED BY <2>1, NetworkAssumption DEF Message, To
<1> HIDE DEF n
<1>2. JobFits(n, pc[n], job[n]) /\ job[n] \in Job /\ pc[n] \in PCs
  BY <1>1 DEF TypeInv, JobT
<1>3. Free(n) /\ UNCHANGED <<pc, job>> /\ net' \subseteq net
  BY DEF OnFinalizedBlock, IgnoreFinalizedBlock, OnFinalizedBlockFails, n
<1>4. Up(n) /\ pc[n] \notin {"down", "collect", "notify"}
  BY <1>3 DEF Free, Up, Locked
<1>5. Goto(n, pc[n], job[n])
  BY <1>1, <1>3 DEF Goto, TypeInv, JobT
<1>6. Thread(n, pc[n], job[n])
  BY <1>2, <1>4, <1>5 DEF Thread, Served
<1>7. CanCommit(m) => MayCommit(n, sb)
  BY <1>3 DEF MayCommit, Delivered, n
<1>8. CASE OnFinalizedBlock(m)
  <2>1. CanCommit(m) /\ CommitBlock(n, sb)
    BY <1>8 DEF OnFinalizedBlock, n
  <2> HIDE DEF sb
  <2>2. MayCommit(n, sb) /\ sb \in HSigned
    BY <1>1, <1>7, <2>1, CommitTyped
  <2>3. Committing(n, pc[n], job[n], sb)
    BY <1>3, <1>4, <1>6, <2>1, <2>2 DEF Committing
  <2>4. StepOf(n)
    BY <1>2, <2>2, <2>3 DEF StepOf
  <2> QED BY <1>1, <2>4 DEF n
<1>9. CASE ~OnFinalizedBlock(m)
  <2>1. HalfSaved(n) /\ UNCHANGED <<state, last>>
    <3>1. CASE IgnoreFinalizedBlock(m)
      BY <3>1 DEF IgnoreFinalizedBlock, HalfSaved, disk
    <3>2. CASE OnFinalizedBlockFails(m)
      <4>1. CanCommit(m) /\ CommitFails(n, sb)
        BY <3>2 DEF OnFinalizedBlockFails, n
      <4> QED BY <1>1, <1>7, <4>1, FailedIsHalf
    <3> QED BY <1>9, <3>1, <3>2
  <2>2. Moving(n, pc[n], job[n])
    BY <1>3, <1>4, <1>6, <2>1 DEF Moving
  <2>3. StepOf(n)
    BY <1>2, <2>2 DEF StepOf
  <2> QED BY <1>1, <2>3 DEF n
<1> QED BY <1>8, <1>9

\* A crash is a step of the node that goes down.
LEMMA CrashStep ==
  ASSUME TypeInv, NEW n \in Node, Crash(n)
  PROVE  StepOf(n)
<1>1. HalfSaved(n)
  <2>1. CASE UNCHANGED disk
    BY <2>1 DEF disk, HalfSaved
  <2>2. CASE DiesInCommit(n)
    <3>1. \E sb : MayCommit(n, sb) /\ SavedAtCrash(n, sb)
      BY <2>2 DEF DiesInCommit, MayCommit, Own, Synced, Delivered
    <3>2. PICK sb : MayCommit(n, sb) /\ SavedAtCrash(n, sb)
      BY <3>1
    <3>3. sb \in HSigned
      BY <3>2, CommitTyped
    <3> QED BY <3>2, <3>3 DEF SavedAtCrash, HalfSaved
  <2> QED BY <2>1, <2>2 DEF Crash
<1>2. Stopping(n)
  BY <1>1 DEF Crash, Stopping
<1> QED BY <1>2 DEF StepOf

\* The counters stay within their bounds.
LEMMA Counts ==
  ASSUME TypeInv, Next PROVE CountT'
<1>1. crashes \in 0..MaxCrashes /\ errors \in 0..MaxErrors
  BY DEF TypeInv, CountT
<1>2. MaxCrashes \in Nat /\ MaxErrors \in Nat
  BY BoundAssumption
<1>3. ASSUME NEW e, CallFails(e) PROVE errors' \in 0..MaxErrors
  BY <1>1, <1>2, <1>3 DEF CallFails
<1>4. ASSUME NEW n \in Node, Start(n) \/ Run(n) \/ Handle(n) \/ Skip(n) \/ Fail(n) \/ Crash(n)
      PROVE  CountT'
  <2>1. CASE Start(n) \/ Handle(n)
    BY <1>1, <2>1 DEF CountT, Start, Handle, OnFinalizedBlock, IgnoreFinalizedBlock
  <2>2. CASE Run(n)
    BY <1>1, <2>2 DEF CountT, Run, BeginFetch, EndSync, Fetch, SyncBlock, SyncBlockRejected,
         ReadHeight, TakeTurn, PassTurn, ProposeBlock, GiveUp, CommitOwn, EndPropose, AskStatus,
         OnProposal, Notify
  <2>3. CASE Skip(n)
    BY <1>1, <1>3, <2>3 DEF CountT, Skip, FetchFails, NotifyTimeout, AskStatusFails,
         OnProposalFails, NotifyFails
  <2>4. CASE Fail(n)
    <3>1. UNCHANGED crashes /\ errors < MaxErrors /\ errors' = errors + 1
      BY <2>4 DEF Fail, TrialFails, SyncBlockFails, CommitOwnFails, OnFinalizedBlockFails,
           CommitFails
    <3> QED BY <1>1, <1>2, <3>1 DEF CountT
  <2>5. CASE Crash(n)
    BY <1>1, <1>2, <2>5 DEF CountT, Crash
  <2> QED BY <1>4, <2>1, <2>2, <2>3, <2>4, <2>5
<1>5. CASE Terminating
  BY <1>1, <1>5 DEF CountT, Terminating, vars
<1> QED BY <1>4, <1>5 DEF Next

\* Every step of the specification has one of the shapes.
LEMMA StepShapes ==
  ASSUME TypeInv, Next
  PROVE  (\E n \in Node : StepOf(n)) \/ UNCHANGED vars
<1>1. ASSUME NEW n \in Node, Start(n) PROVE StepOf(n)
  BY <1>1 DEF StepOf
<1>2. ASSUME NEW n \in Node, Run(n) PROVE StepOf(n)
  BY <1>2, FetchStep, SyncStep, TurnStep, ProposeStep, OwnStep, AskStatusStep, VoteStep,
     NotifyStep DEF Run
<1>3. ASSUME NEW n \in Node, Handle(n) PROVE StepOf(n)
  BY <1>3, HandleStep DEF Handle
<1>4. ASSUME NEW n \in Node, Skip(n) PROVE StepOf(n)
  BY <1>4, FetchStep, AskStatusStep, VoteStep, NotifyStep DEF Skip
<1>5. ASSUME NEW n \in Node, Fail(n) PROVE StepOf(n)
  BY <1>5, TurnStep, SyncStep, OwnStep, HandleStep DEF Fail
<1>6. ASSUME NEW n \in Node, Crash(n) PROVE StepOf(n)
  BY <1>6, CrashStep
<1>7. CASE Terminating
  BY <1>7 DEF Terminating
<1> QED BY <1>1, <1>2, <1>3, <1>4, <1>5, <1>6, <1>7 DEF Next

-------------------------------------------------------------------------------
(* Types are preserved. *)

\* A thread that goes on changes only its own local variables.
LEMMA GotoT ==
  ASSUME TypeInv, NEW n \in Node, NEW p, NEW j, Goto(n, p, j), JobFits(n, p, j)
  PROVE  /\ JobT'
         /\ pc'[n] = p /\ job'[n] = j
         /\ \A m \in Node \ {n} : pc'[m] = pc[m] /\ job'[m] = job[m]
<1>1. /\ pc \in [Node -> PCs] /\ job \in [Node -> Job]
      /\ \A m \in Node : JobFits(m, pc[m], job[m])
  BY DEF TypeInv, JobT
<1>2. j \in Job /\ p \in PCs
  BY DEF JobFits
<1>3. pc' \in [Node -> PCs] /\ pc'[n] = p /\ \A m \in Node \ {n} : pc'[m] = pc[m]
  BY <1>1, <1>2 DEF Goto
<1> HIDE DEF PCs, Job
<1>4. job' \in [Node -> Job] /\ job'[n] = j /\ \A m \in Node \ {n} : job'[m] = job[m]
  BY <1>1, <1>2 DEF Goto
<1>5. \A m \in Node : JobFits(m, pc'[m], job'[m])
  BY <1>1, <1>3, <1>4
<1> QED BY <1>3, <1>4, <1>5 DEF JobT

\* SaveBlock writes one block of one store.
LEMMA SaveEffect ==
  ASSUME StoreT, NEW n \in Node, NEW sb \in HSigned, SaveBlock(n, sb)
  PROVE  /\ blocks' = [m \in Node |-> blocks'[m]]
         /\ DOMAIN blocks'[n] = DOMAIN blocks[n] \cup {sb.block.height}
         /\ blocks'[n][sb.block.height] = sb
         /\ \A h \in DOMAIN blocks[n] \ {sb.block.height} : blocks'[n][h] = blocks[n][h]
         /\ blocks'[n] = [h \in DOMAIN blocks'[n] |-> blocks'[n][h]]
         /\ \A m \in Node \ {n} : blocks'[m] = blocks[m]
<1> DEFINE B == [h \in DOMAIN blocks[n] \cup {sb.block.height} |->
                   IF h = sb.block.height THEN sb ELSE blocks[n][h]]
<1>1. blocks = [m \in Node |-> blocks[m]]
  BY DEF StoreT
<1>2. blocks' = [blocks EXCEPT ![n] = B]
  BY DEF SaveBlock
<1>3. /\ DOMAIN B = DOMAIN blocks[n] \cup {sb.block.height}
      /\ B[sb.block.height] = sb
      /\ \A h \in DOMAIN blocks[n] \ {sb.block.height} : B[h] = blocks[n][h]
      /\ B = [h \in DOMAIN B |-> B[h]]
  OBVIOUS
<1> HIDE DEF B
<1>4. /\ blocks'[n] = B /\ blocks' = [m \in Node |-> blocks'[m]]
      /\ \A m \in Node \ {n} : blocks'[m] = blocks[m]
  BY <1>1, <1>2
<1> QED BY <1>3, <1>4

\* The part of StoreT that is about the block stores.
BlocksT ==
  /\ blocks = [n \in Node |-> blocks[n]]
  /\ \A n \in Node :
       /\ blocks[n] \in [DOMAIN blocks[n] -> HSigned]
       /\ DOMAIN blocks[n] \subseteq 1..MaxHeight
       /\ \A h \in DOMAIN blocks[n] : blocks[n][h].block.height = h

\* The stores stay typed when a block is saved.
LEMMA SaveT ==
  ASSUME StoreT, NEW n \in Node, NEW sb \in HSigned, SaveBlock(n, sb)
  PROVE  BlocksT'
<1> DEFINE H == sb.block.height
<1>1. H \in 1..MaxHeight
  BY DEF HSigned, HBlock
<1>2. /\ blocks' = [m \in Node |-> blocks'[m]]
      /\ DOMAIN blocks'[n] = DOMAIN blocks[n] \cup {H}
      /\ blocks'[n][H] = sb
      /\ \A h \in DOMAIN blocks[n] \ {H} : blocks'[n][h] = blocks[n][h]
      /\ blocks'[n] = [h \in DOMAIN blocks'[n] |-> blocks'[n][h]]
      /\ \A m \in Node \ {n} : blocks'[m] = blocks[m]
  BY SaveEffect
<1>3. \A m \in Node : /\ blocks[m] \in [DOMAIN blocks[m] -> HSigned]
                      /\ DOMAIN blocks[m] \subseteq 1..MaxHeight
                      /\ \A h \in DOMAIN blocks[m] : blocks[m][h].block.height = h
  BY DEF StoreT
<1>4. H = sb.block.height
  OBVIOUS
<1> HIDE DEF H, HSigned
<1>5. \A h \in DOMAIN blocks'[n] : /\ blocks'[n][h] \in HSigned
                                   /\ h \in 1..MaxHeight
                                   /\ blocks'[n][h].block.height = h
  BY <1>1, <1>2, <1>3, <1>4
<1>6. blocks'[n] \in [DOMAIN blocks'[n] -> HSigned]
  BY <1>2, <1>5
<1> QED BY <1>2, <1>3, <1>5, <1>6 DEF BlocksT

\* So they do when the second of the two writes is missing.
LEMMA HalfT ==
  ASSUME TypeInv, NEW n \in Node, HalfSaved(n)
  PROVE  BlocksT' /\ saved' = saved
<1>1. StoreT
  BY DEF TypeInv
<1>2. CASE UNCHANGED blocks
  BY <1>1, <1>2 DEF StoreT, BlocksT, HalfSaved
<1>3. CASE \E sb \in HSigned : SaveBlock(n, sb)
  BY <1>1, <1>3, SaveT DEF HalfSaved
<1> QED BY <1>2, <1>3 DEF HalfSaved

\* commitBlock moves store, state and memory of one node by one block.
LEMMA CommitEffect ==
  ASSUME TypeInv, NEW n \in Node, NEW sb \in HSigned, CommitBlock(n, sb)
  PROVE  /\ StoreT'
         /\ SaveBlock(n, sb)
         /\ saved'[n] = ApplyBlock(GenesisState, sb.block) /\ state'[n] = saved'[n]
         /\ last'[n] = sb.block
         /\ \A m \in Node \ {n} : saved'[m] = saved[m] /\ state'[m] = state[m] /\ last'[m] = last[m]
<1> DEFINE s == ApplyBlock(state[n], sb.block)
<1>1. sb.block \in HBlock /\ sb.block \in Block
  BY DEF HSigned, HBlock
<1>2. s = ApplyBlock(GenesisState, sb.block) /\ s \in State
  BY <1>1, NoneAssumption DEF ApplyBlock, Hash, Block, State
<1>3. /\ state \in [Node -> State] /\ saved \in [Node -> State]
      /\ last \in [Node -> HBlock \cup {None}] /\ StoreT
  BY DEF TypeInv, StoreT
<1>4. /\ SaveBlock(n, sb)
      /\ saved' = [saved EXCEPT ![n] = s]
      /\ state' = [state EXCEPT ![n] = s]
      /\ last' = [last EXCEPT ![n] = sb.block]
  BY DEF CommitBlock
<1> HIDE DEF s, State, HBlock
<1>5. BlocksT'
  BY <1>3, <1>4, SaveT
<1>6. state' \in [Node -> State] /\ saved' \in [Node -> State]
  BY <1>2, <1>3, <1>4
<1>7. last' \in [Node -> HBlock \cup {None}]
  BY <1>1, <1>3, <1>4
<1>8. StoreT'
  BY <1>5, <1>6, <1>7 DEF BlocksT, StoreT
<1>9. /\ saved'[n] = s /\ state'[n] = s /\ last'[n] = sb.block
      /\ \A m \in Node \ {n} : saved'[m] = saved[m] /\ state'[m] = state[m] /\ last'[m] = last[m]
  BY <1>3, <1>4
<1> QED BY <1>2, <1>4, <1>8, <1>9

\* A node that starts reads its stores.
LEMMA StartEffect ==
  ASSUME TypeInv, NEW n \in Node, Start(n)
  PROVE  /\ pc[n] = "down" /\ UNCHANGED <<blocks, saved, net>>
         /\ \E j \in Job : /\ Goto(n, "status", j) /\ JobFits(n, "status", j)
                           /\ j.resp = << >> /\ j.block = None
         /\ StoreT'
         /\ state'[n] = saved[n]
         /\ last'[n] = FinalBlock(n, saved[n].height)
         /\ \A m \in Node \ {n} : state'[m] = state[m] /\ last'[m] = last[m]
<1> DEFINE j == [EmptyJob EXCEPT !.todo = Peers[n]]
           b == FinalBlock(n, saved[n].height)
<1>1. pc[n] = "down" /\ UNCHANGED <<blocks, saved, net>> /\ Goto(n, "status", j)
  BY DEF Start, disk
<1>2. state' = [state EXCEPT ![n] = saved[n]] /\ last' = [last EXCEPT ![n] = b]
  BY DEF Start, LoadState, FinalBlock
<1>3. JobFits(n, "status", EmptyJob) /\ EmptyJob \in Job
  BY EmptyFits DEF PCs
<1>4. Peers[n] \in SUBSET Endpoint
  BY NetworkAssumption
<1>5. /\ j \in Job /\ j.todo = Peers[n] /\ j.resp = << >> /\ j.block = None /\ j.target = 0
      /\ j.votes = {} /\ Len(j.resp) = 0
  <2>1. j \in Job
    BY <1>3, <1>4 DEF Job
  <2> QED BY <2>1 DEF EmptyJob
<1> HIDE DEF j
<1>6. JobFits(n, "status", j)
  BY <1>5 DEF JobFits, PCs
<1>7. /\ state \in [Node -> State] /\ saved \in [Node -> State]
      /\ last \in [Node -> HBlock \cup {None}] /\ StoreT
  BY DEF TypeInv, StoreT
<1>8. b \in HBlock \cup {None}
  <2>1. \A h \in DOMAIN blocks[n] : blocks[n][h] \in HSigned
    BY <1>7 DEF StoreT
  <2> QED BY <2>1 DEF FinalBlock, HSigned
<1> HIDE DEF b
<1> HIDE DEF State, HBlock
<1>9. /\ state' \in [Node -> State] /\ last' \in [Node -> HBlock \cup {None}]
      /\ state'[n] = saved[n] /\ last'[n] = b
      /\ \A m \in Node \ {n} : state'[m] = state[m] /\ last'[m] = last[m]
  BY <1>2, <1>7, <1>8
<1>10. StoreT'
  BY <1>1, <1>7, <1>9 DEF StoreT
<1> QED BY <1>1, <1>5, <1>6, <1>9, <1>10 DEF b

\* A node that stops forgets its memory and keeps its stores.
LEMMA StopEffect ==
  ASSUME TypeInv, NEW n \in Node, Stopping(n)
  PROVE  /\ StoreT'
         /\ JobFits(n, "down", EmptyJob) /\ EmptyJob.resp = << >> /\ EmptyJob.block = None
         /\ saved' = saved
         /\ \A m \in Node \ {n} : state'[m] = state[m] /\ last'[m] = last[m]
<1>1. JobFits(n, "down", EmptyJob) /\ EmptyJob.resp = << >> /\ EmptyJob.block = None
  <2>1. "down" \in PCs
    BY DEF PCs
  <2>2. JobFits(n, "down", EmptyJob)
    BY <2>1, EmptyFits
  <2> QED BY <2>2 DEF EmptyJob
<1>2. /\ state \in [Node -> State] /\ saved \in [Node -> State]
      /\ last \in [Node -> HBlock \cup {None}]
  BY DEF TypeInv, StoreT
<1>3. BlocksT' /\ saved' = saved
  BY HalfT DEF Stopping
<1>4. GenesisState \in State
  BY DEF GenesisState, State
<1> HIDE DEF State, HBlock, GenesisState
<1>5. /\ state' \in [Node -> State] /\ last' \in [Node -> HBlock \cup {None}]
      /\ \A m \in Node \ {n} : state'[m] = state[m] /\ last'[m] = last[m]
  BY <1>2, <1>4 DEF Stopping
<1> QED BY <1>1, <1>2, <1>3, <1>5 DEF StoreT, BlocksT

\* Where only the block stores move, all stores stay typed.
LEMMA QuietT ==
  ASSUME TypeInv, UNCHANGED <<state, last, saved>>, BlocksT'
  PROVE  StoreT'
BY DEF TypeInv, StoreT, BlocksT

\* What a node commits is known already.
LEMMA CommitKnown ==
  ASSUME TypeInv, NEW n \in Node, NEW sb, MayCommit(n, sb)
  PROVE  Recorded(sb.block) \/ Fetched(sb.block)
<1>1. JobFits(n, pc[n], job[n]) /\ job[n] \in Job
  BY DEF TypeInv, JobT
<1>2. CASE Own(n, sb)
  <2>1. sb.block = job[n].block /\ job[n].block # None
    BY <1>1, <1>2 DEF Own, Certified, Collected, JobFits
  <2> QED BY <2>1 DEF Recorded
<1>3. CASE Synced(n, sb)
  <2>1. job[n].resp # << >>
    BY <1>1, <1>3 DEF Synced, JobFits
  <2>2. job[n].resp \in Seq(Signed)
    BY <1>1 DEF Job
  <2>3. sb = job[n].resp[1] /\ 1 \in 1..Len(job[n].resp)
    BY <1>3, <2>1, <2>2 DEF Synced
  <2> QED BY <2>3 DEF Fetched
<1>4. CASE Delivered(n, sb)
  <2>1. \E m \in net : sb.block = m.block
    BY <1>4 DEF Delivered, Body
  <2> QED BY <2>1 DEF Recorded
<1> QED BY <1>2, <1>3, <1>4 DEF MayCommit

\* What is saved was known, or in the store.
LEMMA SavedKnown ==
  ASSUME StoreT, NEW n \in Node, NEW sb \in HSigned, SaveBlock(n, sb), NEW b,
         \E m \in Node : \E h \in DOMAIN blocks'[m] : blocks'[m][h].block = b
  PROVE  Recorded(b) \/ b = sb.block
<1>1. PICK m \in Node : \E h \in DOMAIN blocks'[m] : blocks'[m][h].block = b
  OBVIOUS
<1>2. PICK h \in DOMAIN blocks'[m] : blocks'[m][h].block = b
  BY <1>1
<1>3. /\ DOMAIN blocks'[n] = DOMAIN blocks[n] \cup {sb.block.height}
      /\ blocks'[n][sb.block.height] = sb
      /\ \A g \in DOMAIN blocks[n] \ {sb.block.height} : blocks'[n][g] = blocks[n][g]
      /\ \A q \in Node \ {n} : blocks'[q] = blocks[q]
  BY SaveEffect, ZenonT(30)
<1>4. b = sb.block \/ (h \in DOMAIN blocks[m] /\ blocks[m][h].block = b)
  BY <1>2, <1>3
<1> QED BY <1>4 DEF Recorded

\* A block that is half saved was known before.
LEMMA HalfKnown ==
  ASSUME TypeInv, NEW n \in Node, HalfSaved(n), NEW b,
         \E m \in Node : \E h \in DOMAIN blocks'[m] : blocks'[m][h].block = b
  PROVE  Recorded(b) \/ Fetched(b)
<1>1. CASE UNCHANGED blocks
  <2>1. \E m \in Node : \E h \in DOMAIN blocks[m] : blocks[m][h].block = b
    BY <1>1
  <2> QED BY <2>1 DEF Recorded
<1>2. CASE \E sb \in HSigned : MayCommit(n, sb) /\ SaveBlock(n, sb)
  <2>1. PICK sb \in HSigned : MayCommit(n, sb) /\ SaveBlock(n, sb)
    BY <1>2
  <2>2. StoreT
    BY DEF TypeInv
  <2>3. Recorded(b) \/ b = sb.block
    BY <2>1, <2>2, SavedKnown
  <2> QED BY <2>1, <2>3, CommitKnown
<1> QED BY <1>1, <1>2 DEF HalfSaved

\* What an answer holds is known.
LEMMA ServedKnown ==
  ASSUME NEW n \in Node, NEW sb, Served(n, sb)
  PROVE  Recorded(sb.block) \/ Fetched(sb.block)
BY DEF Served, Recorded, Fetched

\* The blocks of a thread that goes on were known, but for its own proposal.
LEMMA ThreadKnown ==
  ASSUME TypeInv, NEW n \in Node, NEW p, NEW j, Goto(n, p, j), JobFits(n, p, j),
         \A i \in 1..Len(j.resp) : Served(n, j.resp[i]), NEW b
  PROVE  /\ Fetched(b)' => Recorded(b) \/ Fetched(b)
         /\ (\E m \in Node : job'[m].block # None /\ job'[m].block = b)
              => Recorded(b) \/ (b # None /\ b = j.block)
<1>1. job'[n] = j /\ \A m \in Node \ {n} : job'[m] = job[m]
  BY GotoT
<1>2. ASSUME Fetched(b)' PROVE Recorded(b) \/ Fetched(b)
  <2>1. PICK m \in Node : \E i \in 1..Len(job'[m].resp) : job'[m].resp[i].block = b
    BY <1>2 DEF Fetched
  <2>2. CASE m = n
    <3>1. PICK i \in 1..Len(j.resp) : j.resp[i].block = b
      BY <1>1, <2>1, <2>2
    <3> QED BY <3>1, ServedKnown
  <2>3. CASE m # n
    BY <1>1, <2>1, <2>3 DEF Fetched
  <2> QED BY <2>2, <2>3
<1>3. ASSUME NEW m \in Node, job'[m].block # None /\ job'[m].block = b
      PROVE  Recorded(b) \/ (b # None /\ b = j.block)
  BY <1>1, <1>3 DEF Recorded
<1> QED BY <1>2, <1>3

\* A step makes at most one block that was not known, and it has the present time.
LEMMA NewBlocks ==
  ASSUME TypeInv, NEW n \in Node, StepOf(n)
  PROVE  \/ \A b : Recorded(b)' \/ Fetched(b)' => Recorded(b) \/ Fetched(b)
         \/ \E c \in HBlock :
              /\ c.time = Now
              /\ \A b : Recorded(b)' \/ Fetched(b)' => Recorded(b) \/ Fetched(b) \/ b = c
<1> DEFINE InNet(b) == \E m \in net' : m.block = b
           InStore(b) == \E m \in Node : \E h \in DOMAIN blocks'[m] : blocks'[m][h].block = b
           InJob(b) == \E m \in Node : job'[m].block # None /\ job'[m].block = b
           Known(b) == Recorded(b) \/ Fetched(b)
<1>1. \A b : Recorded(b)' => InNet(b) \/ InStore(b) \/ InJob(b)
  BY DEF Recorded
<1>2. net' \subseteq net => \A b : InNet(b) => Known(b)
  BY DEF Recorded
<1>3. HalfSaved(n) => \A b : InStore(b) => Known(b)
  BY HalfKnown
<1>4. ASSUME NEW p, NEW j, Goto(n, p, j), JobFits(n, p, j),
             \A i \in 1..Len(j.resp) : Served(n, j.resp[i])
      PROVE  \A b : /\ Fetched(b)' => Known(b)
                    /\ InJob(b) => Known(b) \/ (b # None /\ b = j.block)
  BY <1>4, ThreadKnown
<1>5. UNCHANGED disk => HalfSaved(n)
  BY DEF disk, HalfSaved
<1> HIDE DEF InNet, InStore, InJob
<1>6. \A m \in Node : \A b : b # None /\ b = job[m].block => Known(b)
  BY DEF Recorded
<1> HIDE DEF Known
<1>7. SUFFICES \/ \A b : Recorded(b)' \/ Fetched(b)' => Known(b)
               \/ \E c \in HBlock :
                    /\ c.time = Now
                    /\ \A b : Recorded(b)' \/ Fetched(b)' => Known(b) \/ b = c
  BY Zenon DEF Known
<1>8. CASE \E p \in PCs, j \in Job : Moving(n, p, j)
  <2>1. PICK p \in PCs, j \in Job : Moving(n, p, j)
    BY <1>8
  <2>2. j.block = None /\ Thread(n, p, j) /\ HalfSaved(n) /\ net' \subseteq net
    BY <2>1 DEF Moving, Thread, JobFits
  <2>3. \A b : /\ Fetched(b)' => Known(b)
               /\ InJob(b) => Known(b)
    BY <1>4, <2>2 DEF Thread
  <2> QED BY <1>1, <1>2, <1>3, <2>2, <2>3
<1>9. CASE \E j \in Job : Proposing(n, j)
  <2>1. PICK j \in Job : Proposing(n, j)
    BY <1>9
  <2>2. /\ Thread(n, "collect", j) /\ HalfSaved(n) /\ net' \subseteq net
        /\ j.block.time = Now
    BY <1>5, <2>1 DEF Proposing
  <2>3. j.block \in HBlock
    BY <2>2 DEF Thread, JobFits
  <2>4. \A b : /\ Fetched(b)' => Known(b)
               /\ InJob(b) => Known(b) \/ b = j.block
    BY <1>4, <2>2 DEF Thread
  <2>5. \A b : Recorded(b)' \/ Fetched(b)' => Known(b) \/ b = j.block
    BY <1>1, <1>2, <1>3, <2>2, <2>4
  <2> QED BY <2>2, <2>3, <2>5
<1>10. CASE \E j \in Job : Voting(n, j) \/ Telling(n, j)
  <2>1. PICK j \in Job : Voting(n, j) \/ Telling(n, j)
    BY <1>10
  <2>2. /\ Thread(n, "collect", j) \/ Thread(n, "notify", j)
        /\ HalfSaved(n) /\ j.block = job[n].block
    BY <1>5, <2>1 DEF Voting, Telling
  <2>3. j.block # None
    BY <2>2 DEF Thread, JobFits
  <2>4. Known(j.block)
    BY <1>6, <2>2, <2>3
  <2>5. \A m \in net' : m \in net \/ m.block = j.block
    BY <2>1 DEF Voting, Telling
  <2>6. \A b : InNet(b) => Known(b)
    BY <2>4, <2>5 DEF InNet, Known, Recorded
  <2>7. \A b : /\ Fetched(b)' => Known(b)
               /\ InJob(b) => Known(b)
    BY <1>4, <2>2, <2>4 DEF Thread
  <2> QED BY <1>1, <1>3, <2>2, <2>6, <2>7
<1>11. CASE \E p \in PCs, j \in Job, sb \in HSigned : Committing(n, p, j, sb)
  <2>1. PICK p \in PCs, j \in Job, sb \in HSigned : Committing(n, p, j, sb)
    BY <1>11
  <2>2. /\ Thread(n, p, j) /\ MayCommit(n, sb) /\ SaveBlock(n, sb) /\ net' \subseteq net
    BY <2>1 DEF Committing, CommitBlock
  <2>3. Known(sb.block)
    BY <2>2, CommitKnown DEF Known
  <2>4. j.block # None => j.block = sb.block
    BY <2>1 DEF Committing, Thread, JobFits
  <2>5. \A b : /\ Fetched(b)' => Known(b)
               /\ InJob(b) => Known(b)
    BY <1>4, <2>2, <2>3, <2>4 DEF Thread
  <2>6. StoreT
    BY DEF TypeInv
  <2>7. \A b : InStore(b) => Known(b)
    BY <2>2, <2>3, <2>6, SavedKnown DEF InStore, Known
  <2> QED BY <1>1, <1>2, <2>2, <2>5, <2>7
<1>12. CASE Stopping(n)
  <2>1. JobFits(n, "down", EmptyJob) /\ EmptyJob.resp = << >> /\ EmptyJob.block = None
    BY <1>12, StopEffect
  <2>2. Goto(n, "down", EmptyJob) /\ HalfSaved(n) /\ net' \subseteq net
    BY <1>12 DEF Stopping
  <2> HIDE DEF EmptyJob
  <2>3. \A b : /\ Fetched(b)' => Known(b)
               /\ InJob(b) => Known(b)
    BY <1>4, <2>1, <2>2
  <2> QED BY <1>1, <1>2, <1>3, <2>2, <2>3
<1>13. CASE Start(n)
  <2>1. /\ UNCHANGED <<blocks, saved, net>>
        /\ \E j \in Job : /\ Goto(n, "status", j) /\ JobFits(n, "status", j)
                          /\ j.resp = << >> /\ j.block = None
    BY <1>13, StartEffect
  <2>2. PICK j \in Job : /\ Goto(n, "status", j) /\ JobFits(n, "status", j)
                         /\ j.resp = << >> /\ j.block = None
    BY <2>1
  <2>3. \A b : /\ Fetched(b)' => Known(b)
               /\ InJob(b) => Known(b)
    BY <1>4, <2>2
  <2>4. HalfSaved(n) /\ net' \subseteq net
    BY <2>1 DEF HalfSaved
  <2> QED BY <1>1, <1>2, <1>3, <2>3, <2>4
<1> QED BY <1>8, <1>9, <1>10, <1>11, <1>12, <1>13 DEF StepOf

\* Every step of a thread keeps the types.
LEMMA TypeStep ==
  ASSUME TypeInv, NEW n \in Node, StepOf(n)
  PROVE  JobT' /\ StoreT' /\ NetT'
<1>1. UNCHANGED disk => HalfSaved(n)
  BY DEF disk, HalfSaved
<1>2. net' \subseteq net => NetT'
  BY DEF TypeInv, NetT
<1>3. ASSUME NEW p, NEW j, Thread(n, p, j) PROVE JobT'
  BY <1>3, GotoT DEF Thread
<1>4. HalfSaved(n) /\ UNCHANGED <<state, last>> => StoreT'
  BY HalfT, QuietT
<1>5. CASE \E p \in PCs, j \in Job : Moving(n, p, j)
  BY <1>2, <1>3, <1>4, <1>5 DEF Moving
<1>6. CASE \E j \in Job : Proposing(n, j) \/ Voting(n, j)
  <2>1. UNCHANGED <<state, last, disk, net>>
    BY <1>6 DEF Proposing, Voting
  <2>2. JobT'
    BY <1>3, <1>6 DEF Proposing, Voting
  <2> QED BY <1>1, <1>2, <1>4, <2>1, <2>2
<1>7. CASE \E j \in Job : Telling(n, j)
  <2>1. PICK j \in Job : Telling(n, j)
    BY <1>7
  <2>2. JobT' /\ StoreT'
    BY <1>1, <1>3, <1>4, <2>1 DEF Telling
  <2>3. j.block \in HBlock
    BY <2>1 DEF Telling, Thread, JobFits
  <2>4. \A m \in net' : m \in net \/ (m \in Message /\ m.block = j.block)
    BY <2>1 DEF Telling
  <2>5. NetT'
    BY <2>3, <2>4 DEF TypeInv, NetT
  <2> QED BY <2>2, <2>5
<1>8. CASE \E p \in PCs, j \in Job, sb \in HSigned : Committing(n, p, j, sb)
  <2>1. PICK p \in PCs, j \in Job, sb \in HSigned : Committing(n, p, j, sb)
    BY <1>8
  <2>2. JobT' /\ NetT'
    BY <1>2, <1>3, <2>1 DEF Committing
  <2>3. StoreT'
    BY <2>1, CommitEffect DEF Committing
  <2> QED BY <2>2, <2>3
<1>9. CASE Stopping(n)
  <2>1. StoreT' /\ JobFits(n, "down", EmptyJob)
    BY <1>9, StopEffect
  <2>2. JobT' /\ NetT'
    BY <1>2, <1>9, <2>1, GotoT DEF Stopping
  <2> QED BY <2>1, <2>2
<1>10. CASE Start(n)
  <2>1. /\ StoreT' /\ UNCHANGED net
        /\ \E j \in Job : Goto(n, "status", j) /\ JobFits(n, "status", j)
    BY <1>10, StartEffect
  <2>2. JobT' /\ NetT'
    BY <1>2, <2>1, GotoT
  <2> QED BY <2>1, <2>2
<1> QED BY <1>5, <1>6, <1>7, <1>8, <1>9, <1>10 DEF StepOf

\* Every step keeps the types.
LEMMA TypePreserved == TypeInv /\ [Next]_vars => TypeInv'
<1>1. SUFFICES ASSUME TypeInv, [Next]_vars PROVE TypeInv'
  OBVIOUS
<1>2. CASE UNCHANGED vars
  <2>1. UNCHANGED <<pc, job, state, last, blocks, saved, net, crashes, errors>>
    BY <1>2 DEF vars
  <2>2. Bounded'
    BY <1>1, <2>1 DEF TypeInv, Bounded, Recorded, Fetched
  <2>3. JobT' /\ StoreT' /\ NetT' /\ CountT'
    BY <1>1, <2>1 DEF TypeInv, JobT, StoreT, NetT, CountT
  <2> QED BY <2>2, <2>3 DEF TypeInv
<1>3. ASSUME NEW n \in Node, StepOf(n), Next PROVE TypeInv'
  <2>1. JobT' /\ StoreT' /\ NetT' /\ CountT'
    BY <1>1, <1>3, TypeStep, Counts
  <2>2. PICK t \in Nat : \A b \in HBlock : Recorded(b) \/ Fetched(b) => b.time <= t
    BY <1>1 DEF TypeInv, Bounded
  <2>3. Now \in Nat
    BY <1>1, NowIsLater
  <2> DEFINE u == IF Now <= t THEN t ELSE Now
  <2>4. u \in Nat /\ Now <= u /\ t <= u
    BY <2>2, <2>3
  <2> HIDE DEF u
  <2>5. \A b \in HBlock : b.time \in Nat
    BY DEF HBlock, Block
  <2>6. ASSUME NEW b \in HBlock, Recorded(b)' \/ Fetched(b)' PROVE b.time <= u
    <3>1. Recorded(b) \/ Fetched(b) \/ b.time = Now
      BY <1>1, <1>3, <2>6, NewBlocks
    <3> QED BY <2>2, <2>3, <2>4, <2>5, <3>1
  <2>7. Bounded'
    BY <2>4, <2>6 DEF Bounded
  <2> QED BY <2>1, <2>7 DEF TypeInv
<1> QED BY <1>1, <1>2, <1>3, StepShapes

\* There is a node, since there is a validator.
LEMMA SomeNode == Node # {}
<1>1. Len(GenesisValSet) \in Nat /\ DOMAIN GenesisValSet = 1..Len(GenesisValSet)
      /\ \A i \in DOMAIN GenesisValSet : GenesisValSet[i].addr \in Node
  BY ValidatorAssumption, StakesOfSet
<1>2. Len(GenesisValSet) # 0
  BY ValidatorAssumption DEF IsValidatorSet
<1>3. 1 \in DOMAIN GenesisValSet
  BY <1>1, <1>2
<1>4. GenesisValSet[1].addr \in Node
  BY <1>1, <1>3
<1> QED BY <1>4

\* The first state is typed.
LEMMA TypeInitially == Init => TypeInv
<1>1. SUFFICES ASSUME Init PROVE TypeInv
  OBVIOUS
<1>2. /\ \A n \in Node : JobFits(n, "run", EmptyJob)
      /\ EmptyJob \in Job /\ Len(EmptyJob.resp) = 0 /\ EmptyJob.block = None
  <2>1. Node # {}
    BY SomeNode
  <2>2. "run" \in PCs
    BY DEF PCs
  <2>3. \A n \in Node : JobFits(n, "run", EmptyJob) /\ EmptyJob \in Job /\ Len(EmptyJob.resp) = 0
    BY <2>2, EmptyFits
  <2>4. EmptyJob.block = None
    BY DEF EmptyJob
  <2> QED BY <2>1, <2>3, <2>4
<1> HIDE DEF EmptyJob
<1>3. JobT
  BY <1>1, <1>2 DEF Init, JobT, PCs
<1>4. StoreT
  <2>1. GenesisState \in State
    BY DEF GenesisState, State
  <2>2. blocks = [n \in Node |-> << >>]
    BY <1>1 DEF Init
  <2>3. \A n \in Node : blocks[n] = << >> /\ DOMAIN blocks[n] = {}
    BY <2>2
  <2>4. blocks = [n \in Node |-> blocks[n]] /\ \A n \in Node : blocks[n] \in [DOMAIN blocks[n] -> HSigned]
    BY <2>2, <2>3
  <2> HIDE DEF State, GenesisState
  <2> QED BY <1>1, <2>1, <2>3, <2>4 DEF Init, StoreT
<1>5. NetT /\ CountT
  BY <1>1, BoundAssumption DEF Init, NetT, CountT
<1>6. Bounded
  <2>1. ASSUME NEW b PROVE ~Recorded(b) /\ ~Fetched(b)
    <3>1. net = {} /\ \A n \in Node : job[n] = EmptyJob /\ DOMAIN blocks[n] = {}
      BY <1>1 DEF Init
    <3> QED BY <1>2, <3>1 DEF Recorded, Fetched
  <2> QED BY <2>1 DEF Bounded
<1> QED BY <1>3, <1>4, <1>5, <1>6 DEF TypeInv

\* The types hold in every state, and times tell blocks apart: this is what the
\* safety proof rests on.
THEOREM TypeInvAlways == Spec => []TypeInv
<1> QED BY TypeInitially, TypePreserved, PTL DEF Spec

\* Every thread finds the local variables it needs and everything has its type,
\* whatever calls and writes fail and whoever crashes.
THEOREM ConsensusTyping == Spec => []TypeOK
<1>1. TypeInv => TypeOK
  <2>1. SUFFICES ASSUME TypeInv PROVE TypeOK
    OBVIOUS
  <2>2. \A n \in Node : JobFits(n, pc[n], job[n])
    BY <2>1 DEF TypeInv, JobT
  <2>3. \A n \in Node : JobOK(n) /\ job[n] \in Job
    BY <2>2 DEF JobOK, JobFits
  <2>4. ASSUME NEW n \in Node
        PROVE  /\ state[n] \in State /\ saved[n] \in State /\ last[n] \in Block \cup {None}
               /\ blocks[n] \in [DOMAIN blocks[n] -> Signed]
               /\ DOMAIN blocks[n] \subseteq 1..MaxHeight
    <3>1. /\ state[n] \in State /\ saved[n] \in State /\ last[n] \in HBlock \cup {None}
          /\ blocks[n] \in [DOMAIN blocks[n] -> HSigned]
          /\ DOMAIN blocks[n] \subseteq 1..MaxHeight
      BY <2>1 DEF TypeInv, StoreT
    <3>2. HSigned \subseteq Signed /\ HBlock \subseteq Block
      BY DEF HSigned, HBlock
    <3> HIDE DEF HSigned, HBlock, Signed, Block, State
    <3>3. blocks[n] \in [DOMAIN blocks[n] -> Signed]
      BY <3>1, <3>2
    <3>4. last[n] \in Block \cup {None}
      BY <3>1, <3>2
    <3> QED BY <3>1, <3>3, <3>4
  <2>5. \A m \in net : m.to \in Endpoint /\ Body(m) \in Signed
    BY <2>1 DEF TypeInv, NetT, Message, Body, Signed
  <2> QED BY <2>1, <2>3, <2>4, <2>5 DEF TypeOK, TypeInv, JobT, CountT
<1> QED BY <1>1, TypeInvAlways, PTL

-------------------------------------------------------------------------------
(* The disks. *)

\* A block of a store has the height it is stored at.
LEMMA Stored ==
  ASSUME TypeInv, NEW n \in Node
  PROVE  /\ \A h : h \in DOMAIN blocks[n] <=> FinalBlock(n, h) # None
         /\ \A h : FinalBlock(n, h) # None =>
                     /\ FinalBlock(n, h) \in HBlock
                     /\ FinalBlock(n, h).height = h
                     /\ h \in 1..MaxHeight
                     /\ FinalBlock(n, h) = blocks[n][h].block
         /\ FinalBlock(n, 0) = None
<1>1. \A h \in DOMAIN blocks[n] : /\ blocks[n][h] \in HSigned
                                  /\ h \in 1..MaxHeight
                                  /\ blocks[n][h].block.height = h
  BY DEF TypeInv, StoreT
<1>2. \A h \in DOMAIN blocks[n] : blocks[n][h].block \in HBlock /\ blocks[n][h].block # None
  BY <1>1, NoneAssumption DEF HSigned, HBlock
<1>3. 0 \notin DOMAIN blocks[n]
  BY <1>1
<1> HIDE DEF HBlock, HSigned
<1> QED BY <1>1, <1>2, <1>3 DEF FinalBlock

\* The block of the saved state.
Top(n) == FinalBlock(n, saved[n].height)

\* A saved state is the one that the highest saved block results in.
LEMMA TopFits ==
  ASSUME TypeInv, SafeInv, NEW n \in Node
  PROVE  /\ saved[n].height \in Nat
         /\ saved[n].height = 0 <=> Top(n) = None
         /\ Top(n) # None => /\ Top(n) \in HBlock
                             /\ Top(n).height = saved[n].height
                             /\ Recorded(Top(n))
         /\ saved[n] = IF Top(n) = None THEN GenesisState ELSE ApplyBlock(GenesisState, Top(n))
         /\ Up(n) => state[n] = saved[n] /\ last[n] = Top(n)
         /\ ActiveFor(n, saved[n].height + 1) = ActiveOf(saved[n])
<1>1. saved[n].height \in Nat
  BY HeightNat
<1>2. /\ 1..saved[n].height \subseteq DOMAIN blocks[n]
      /\ Up(n) => /\ state[n] = saved[n]
                  /\ last[n] = IF saved[n].height = 0 THEN None
                               ELSE FinalBlock(n, saved[n].height)
  BY DEF SafeInv, StoresFit
<1>3. saved[n].height = 0 <=> Top(n) = None
  BY <1>1, <1>2, Stored DEF Top
<1>4. ASSUME Top(n) # None
      PROVE  Top(n) \in HBlock /\ Top(n).height = saved[n].height /\ Recorded(Top(n))
  <2>1. /\ Top(n) \in HBlock /\ Top(n).height = saved[n].height
        /\ saved[n].height \in DOMAIN blocks[n] /\ Top(n) = blocks[n][saved[n].height].block
    BY <1>4, Stored DEF Top
  <2>2. Recorded(Top(n))
    BY <2>1 DEF Recorded
  <2> QED BY <2>1, <2>2
<1>5. saved[n] = IF saved[n].height = 0 THEN GenesisState
                 ELSE ApplyBlock(GenesisState, Top(n))
  BY DEF SafeInv, StateFrom, Top
<1>6. saved[n] = IF Top(n) = None THEN GenesisState ELSE ApplyBlock(GenesisState, Top(n))
  BY <1>3, <1>5
<1>7. Up(n) => state[n] = saved[n] /\ last[n] = Top(n)
  BY <1>2, <1>3 DEF Top
<1>8. ActiveFor(n, saved[n].height + 1) = ActiveOf(saved[n])
  <2>1. (saved[n].height + 1) - 1 = saved[n].height
        /\ (saved[n].height + 1 = 1 <=> saved[n].height = 0)
    BY <1>1
  <2>2. CASE saved[n].height = 0
    <3>1. saved[n].active = GenesisValSet
      BY <1>5, <2>2 DEF GenesisState
    <3>2. ActiveOf(saved[n]) = GenesisValSet
      BY <3>1, ValidatorAssumption DEF ActiveOf
    <3> QED BY <2>1, <2>2, <3>2 DEF ActiveFor
  <2>3. CASE saved[n].height # 0
    <3>1. ActiveFor(n, saved[n].height + 1) = ActiveOf(ApplyBlock(GenesisState, Top(n)))
      BY <2>1, <2>3 DEF ActiveFor, Top
    <3> QED BY <1>5, <2>3, <3>1
  <2> QED BY <2>2, <2>3
<1> QED BY <1>1, <1>3, <1>4, <1>6, <1>7, <1>8

\* The active set in force is a validator set, and nobody in it is a quorum.
LEMMA ActiveIsSet ==
  ASSUME TypeInv, NEW n \in Node
  PROVE  /\ IsValidatorSet(ActiveValidators(n), Node) /\ ActiveValidators(n) # << >>
         /\ ActiveValidators(n) \in ActiveSets \cup {GenesisValSet}
<1>1. state[n] \in State
  BY DEF TypeInv, StoreT
<1>2. state[n].active \in ActiveSets \cup {GenesisValSet}
  BY <1>1 DEF State
<1> QED BY <1>2, ValidatorAssumption DEF ActiveValidators, ActiveOf

\* A node alone does not commit.
LEMMA NeedsVotes ==
  ASSUME TypeInv, NoSoleQuorum, NEW n \in Node, Quorate(n)
  PROVE  job[n].votes # {}
<1> DEFINE vals == ActiveValidators(n)
<1>1. SUFFICES ASSUME job[n].votes = {} PROVE FALSE
  OBVIOUS
<1>2. IsValidatorSet(vals, Node) /\ vals # << >> /\ vals \in ActiveSets \cup {GenesisValSet}
  BY ActiveIsSet
<1> DEFINE w == [e \in job[n].votes |-> StakeOf(vals, Owner[e])]
<1>3. CountedStake(vals, n, job[n].votes, Owner)
        = StakeOf(vals, n) + SumFunctionOnSet(w, job[n].votes)
  BY DEF CountedStake
<1> HIDE DEF w, vals
<1>4. SumFunctionOnSet(w, job[n].votes) = 0
  BY <1>1, SumEmpty
<1>5. StakeOf(vals, n) \in Nat
  BY <1>2, StakeOfNat
<1>6. StakeOf(vals, n) < QuorumThreshold(vals)
  BY <1>2 DEF NoSoleQuorum
<1>7. CountedStake(vals, n, job[n].votes, Owner) >= QuorumThreshold(vals)
  BY DEF Quorate, vals
<1>8. QuorumThreshold(vals) \in Nat
  <2>1. TotalStake(vals) \in Nat
    BY <1>2, StakeSumNat DEF TotalStake
  <2> QED BY <2>1 DEF QuorumThreshold
<1> QED BY <1>3, <1>4, <1>5, <1>6, <1>7, <1>8

\* What a node may commit is the next block, by the proposer whose turn it is,
\* and it is final at its proposer already or is the node's own.
LEMMA CommitNext ==
  ASSUME TypeInv, SafeInv, NoSoleQuorum, NEW n \in Node, NEW sb, MayCommit(n, sb)
  PROVE  LET b == sb.block
         IN  /\ Up(n) /\ b \in HBlock
             /\ b.height = saved[n].height + 1
             /\ b.prev = Hash(Top(n))
             /\ b.proposer = ProposerForHeight(ActiveValidators(n), b.height)
             /\ Final(b) \/ b.proposer = n
             /\ Own(n, sb) => b.proposer = n
<1> DEFINE b == sb.block
<1>1. Up(n) /\ b \in HBlock
  BY CommitTyped DEF HSigned
<1>2. last[n] = Top(n) /\ state[n] = saved[n] /\ saved[n].height \in Nat
  BY <1>1, TopFits
<1>3. JobFits(n, pc[n], job[n]) /\ job[n] \in Job
  BY DEF TypeInv, JobT
<1>4. CASE Own(n, sb)
  <2>1. pc[n] = "collect" /\ b = job[n].block /\ Quorate(n)
    BY <1>4 DEF Own, Collected, Certified
  <2>2. ProposalFits(n)
    BY <2>1 DEF SafeInv
  <2>3. job[n].votes # {}
    BY <2>1, NeedsVotes
  <2>4. b.proposer = n /\ b.prev = Hash(last[n]) /\ b.height = saved[n].height + 1
        /\ IsProposer(n, b.height)
    BY <2>1, <2>2, <2>3 DEF ProposalFits
  <2> QED BY <1>1, <1>2, <2>4 DEF IsProposer
<1>5. CASE ~Own(n, sb)
  <2>1. ValidateProposedBlock(n, b) /\ Final(b)
    <3>1. CASE Synced(n, sb)
      <4>1. job[n].resp # << >>
        BY <1>3, <3>1 DEF Synced, JobFits
      <4>2. job[n].resp \in Seq(Signed)
        BY <1>3 DEF Job
      <4>3. sb = job[n].resp[1] /\ 1 \in 1..Len(job[n].resp)
        BY <3>1, <4>1, <4>2 DEF Synced
      <4> QED BY <3>1, <4>3 DEF Synced, CanSync, SafeInv, SentIsFinal
    <3>2. CASE Delivered(n, sb)
      <4>1. PICK m \in net : To(m) = n /\ CanCommit(m) /\ sb = Body(m)
        BY <3>2 DEF Delivered
      <4>2. b = m.block
        BY <4>1 DEF Body
      <4> QED BY <4>1, <4>2 DEF CanCommit, SafeInv, SentIsFinal
    <3> QED BY <1>5, <3>1, <3>2 DEF MayCommit
  <2>2. /\ b.height = (IF last[n] = None THEN 1 ELSE last[n].height + 1)
        /\ b.prev = Hash(last[n])
        /\ b.proposer = ProposerForHeight(ActiveValidators(n), b.height)
    BY <2>1 DEF ValidateProposedBlock
  <2>3. b.height = saved[n].height + 1
    BY <1>2, <2>2, TopFits
  <2> QED BY <1>1, <1>2, <1>5, <2>1, <2>2, <2>3 DEF IsProposer
<1> QED BY <1>4, <1>5

\* A step keeps what is final on every disk, or extends one of them.
KeepsDisks ==
  /\ saved' = saved
  /\ \A m \in Node : \A h \in 0..saved[m].height : FinalBlock(m, h)' = FinalBlock(m, h)

Extends(n, b) ==
  /\ b \in HBlock
  /\ b.height = saved[n].height + 1
  /\ saved'[n] = ApplyBlock(GenesisState, b)
  /\ FinalBlock(n, b.height)' = b
  /\ \A h \in 0..saved[n].height : FinalBlock(n, h)' = FinalBlock(n, h)
  /\ \A m \in Node \ {n} : saved'[m] = saved[m] /\ \A h : FinalBlock(m, h)' = FinalBlock(m, h)

\* Saving the next block leaves the blocks below alone.
LEMMA SaveKeeps ==
  ASSUME TypeInv, SafeInv, NEW n \in Node, NEW sb \in HSigned, SaveBlock(n, sb),
         sb.block.height = saved[n].height + 1
  PROVE  /\ FinalBlock(n, sb.block.height)' = sb.block
         /\ \A h \in 0..saved[n].height : FinalBlock(n, h)' = FinalBlock(n, h)
         /\ \A m \in Node \ {n} : \A h : FinalBlock(m, h)' = FinalBlock(m, h)
<1>1. StoreT /\ saved[n].height \in Nat
  BY HeightNat DEF TypeInv
<1>2. /\ DOMAIN blocks'[n] = DOMAIN blocks[n] \cup {sb.block.height}
      /\ blocks'[n][sb.block.height] = sb
      /\ \A h \in DOMAIN blocks[n] \ {sb.block.height} : blocks'[n][h] = blocks[n][h]
      /\ \A m \in Node \ {n} : blocks'[m] = blocks[m]
  BY <1>1, SaveEffect, ZenonT(30)
<1>3. \A h \in 0..saved[n].height : h # sb.block.height
  BY <1>1
<1> QED BY <1>2, <1>3 DEF FinalBlock

\* A half-saved block changes nothing of what is final.
LEMMA HalfKeeps ==
  ASSUME TypeInv, SafeInv, NoSoleQuorum, NEW n \in Node, HalfSaved(n)
  PROVE  KeepsDisks
<1>1. saved' = saved
  BY DEF HalfSaved
<1>2. CASE UNCHANGED blocks
  BY <1>1, <1>2 DEF KeepsDisks, FinalBlock
<1>3. CASE \E sb \in HSigned : MayCommit(n, sb) /\ SaveBlock(n, sb)
  <2>1. PICK sb \in HSigned : MayCommit(n, sb) /\ SaveBlock(n, sb)
    BY <1>3
  <2>2. sb.block.height = saved[n].height + 1
    BY <2>1, CommitNext
  <2>3. /\ \A h \in 0..saved[n].height : FinalBlock(n, h)' = FinalBlock(n, h)
        /\ \A m \in Node \ {n} : \A h : FinalBlock(m, h)' = FinalBlock(m, h)
    BY <2>1, <2>2, SaveKeeps
  <2> QED BY <1>1, <2>3 DEF KeepsDisks
<1> QED BY <1>2, <1>3 DEF HalfSaved

\* A commit extends the chain of its node by one block.
LEMMA CommitExtends ==
  ASSUME TypeInv, SafeInv, NoSoleQuorum, NEW n \in Node, NEW sb \in HSigned,
         MayCommit(n, sb), CommitBlock(n, sb)
  PROVE  Extends(n, sb.block)
<1>1. sb.block \in HBlock /\ sb.block.height = saved[n].height + 1
  BY CommitNext
<1>2. /\ SaveBlock(n, sb)
      /\ saved'[n] = ApplyBlock(GenesisState, sb.block)
      /\ \A m \in Node \ {n} : saved'[m] = saved[m]
  BY CommitEffect
<1>3. /\ FinalBlock(n, sb.block.height)' = sb.block
      /\ \A h \in 0..saved[n].height : FinalBlock(n, h)' = FinalBlock(n, h)
      /\ \A m \in Node \ {n} : \A h : FinalBlock(m, h)' = FinalBlock(m, h)
  BY <1>1, <1>2, SaveKeeps
<1> QED BY <1>1, <1>2, <1>3 DEF Extends

\* Every step leaves the disks as they are or extends one of them.
LEMMA DiskStep ==
  ASSUME TypeInv, SafeInv, NoSoleQuorum, NEW n \in Node, StepOf(n)
  PROVE  \/ KeepsDisks
         \/ \E p \in PCs, j \in Job, sb \in HSigned :
              Committing(n, p, j, sb) /\ Extends(n, sb.block)
<1>1. UNCHANGED disk => HalfSaved(n)
  BY DEF disk, HalfSaved
<1>2. CASE \E p \in PCs, j \in Job, sb \in HSigned : Committing(n, p, j, sb)
  BY <1>2, CommitExtends DEF Committing
<1>3. CASE ~\E p \in PCs, j \in Job, sb \in HSigned : Committing(n, p, j, sb)
  <2>1. HalfSaved(n)
    BY <1>1, <1>3 DEF StepOf, Moving, Proposing, Voting, Telling, Stopping, Start
  <2> QED BY <2>1, HalfKeeps
<1> QED BY <1>2, <1>3

\* Final blocks stay.
LEMMA FinalStays ==
  ASSUME TypeInv, SafeInv,
         KeepsDisks \/ \E n \in Node : \E b \in HBlock : Extends(n, b),
         NEW b, Final(b)
  PROVE  Final(b)'
<1>1. b \in HBlock /\ b.height <= saved[b.proposer].height /\ FinalBlock(b.proposer, b.height) = b
  BY DEF Final
<1>2. b.proposer \in Node /\ b.height \in Nat \ {0}
  BY <1>1 DEF HBlock, Block
<1>3. saved[b.proposer].height \in Nat
  BY <1>2, HeightNat
<1>4. b.height \in 0..saved[b.proposer].height
  BY <1>1, <1>2, <1>3
<1>5. CASE KeepsDisks
  BY <1>1, <1>2, <1>4, <1>5 DEF KeepsDisks, Final
<1>6. ASSUME NEW n \in Node, NEW c \in HBlock, Extends(n, c) PROVE Final(b)'
  <2>1. FinalBlock(b.proposer, b.height)' = b
    BY <1>1, <1>2, <1>4, <1>6 DEF Extends
  <2>2. b.height <= saved'[b.proposer].height
    <3>1. CASE b.proposer = n
      <4>1. saved'[n].height = c.height /\ c.height = saved[n].height + 1
        BY <1>6 DEF Extends, ApplyBlock
      <4> QED BY <1>1, <1>2, <1>3, <3>1, <4>1
    <3>2. CASE b.proposer # n
      BY <1>1, <1>2, <1>6, <3>2 DEF Extends
    <3> QED BY <3>1, <3>2
  <2> QED BY <1>1, <2>1, <2>2 DEF Final
<1> QED BY <1>5, <1>6

-------------------------------------------------------------------------------
(* The chains on the disks. *)

Linked ==
  \A n \in Node : \A h \in 1..saved[n].height :
    /\ FinalBlock(n, h) # None
    /\ FinalBlock(n, h).prev = Hash(FinalBlock(n, h - 1))

ChainInv == (\A n \in Node : StateFrom(n)) /\ Linked /\ Rightful /\ Agreement

\* The invariant about chains is part of the whole.
LEMMA SafeChain ==
  ASSUME TypeInv, SafeInv
  PROVE  ChainInv
<1>1. ASSUME NEW n \in Node, NEW h \in 1..saved[n].height
      PROVE  FinalBlock(n, h) # None /\ FinalBlock(n, h).prev = Hash(FinalBlock(n, h - 1))
  <2>1. h \in DOMAIN blocks[n] /\ FinalBlock(n, h).prev = Hash(FinalBlock(n, h - 1))
    BY DEF SafeInv, StoresFit
  <2> QED BY <2>1, Stored
<1> QED BY <1>1 DEF SafeInv, ChainInv, Linked

\* The validators of a height depend on the block before it only.
LEMMA ActiveKept ==
  ASSUME NEW n, NEW h, FinalBlock(n, h - 1)' = FinalBlock(n, h - 1)
  PROVE  ActiveFor(n, h)' = ActiveFor(n, h)
<1> DEFINE b == FinalBlock(n, h - 1)
           A(x) == IF h = 1 THEN GenesisValSet ELSE ActiveOf(ApplyBlock(GenesisState, x))
<1>1. ActiveFor(n, h) = A(b)
  BY DEF ActiveFor
<1>2. ActiveFor(n, h)' = A(b')
  BY DEF ActiveFor, ApplyBlock, Hash, ActiveOf, GenesisState
<1>3. b' = b
  OBVIOUS
<1> HIDE DEF b
<1> QED BY <1>1, <1>2, <1>3

\* Disks that keep their blocks keep the invariant about chains.
LEMMA KeptChain ==
  ASSUME TypeInv, SafeInv, KeepsDisks
  PROVE  ChainInv'
<1>1. ChainInv
  BY SafeChain
<1>2. saved' = saved /\ \A m \in Node : saved[m].height \in Nat
  BY HeightNat DEF KeepsDisks
<1>3. \A m \in Node : \A h \in 0..saved[m].height : FinalBlock(m, h)' = FinalBlock(m, h)
  BY DEF KeepsDisks
<1>4. \A m \in Node : \A h \in 1..saved[m].height : h \in 0..saved[m].height /\ h - 1 \in 0..saved[m].height
  BY <1>2
<1>5. ASSUME NEW n \in Node PROVE StateFrom(n)'
  <2>1. saved[n].height \in 0..saved[n].height
    BY <1>2
  <2>2. FinalBlock(n, saved[n].height)' = FinalBlock(n, saved[n].height)
    BY <1>2, <1>3, <2>1 DEF FinalBlock
  <2>3. StateFrom(n)
    BY <1>1 DEF ChainInv
  <2> QED BY <1>2, <1>3, <2>1, <2>2, <2>3 DEF StateFrom, FinalBlock, ApplyBlock, Hash
<1>6. Linked'
  BY <1>1, <1>2, <1>3, <1>4 DEF ChainInv, Linked, Hash
<1>7. ASSUME NEW n \in Node, NEW h \in 1..saved[n].height
      PROVE  Final(FinalBlock(n, h))'
             /\ FinalBlock(n, h)'.proposer = ProposerForHeight(ActiveFor(n, h)', h)
  <2>1. Final(FinalBlock(n, h)) /\ FinalBlock(n, h).proposer = ProposerForHeight(ActiveFor(n, h), h)
    BY <1>1 DEF ChainInv, Rightful
  <2>2. FinalBlock(n, h)' = FinalBlock(n, h) /\ ActiveFor(n, h)' = ActiveFor(n, h)
    BY <1>3, <1>4, ActiveKept
  <2> DEFINE b == FinalBlock(n, h)
  <2>3. b' = b
    BY <2>2
  <2>4. Final(b)
    BY <2>1
  <2> HIDE DEF b
  <2>5. Final(b)'
    <3>1. ASSUME NEW c, Final(c) PROVE /\ c.height <= saved'[c.proposer].height /\ c \in HBlock
                                       /\ FinalBlock(c.proposer, c.height)' = c
      <4>1. Final(c)'
        BY <3>1, FinalStays
      <4> QED BY <4>1 DEF Final
    <3> QED BY <2>3, <2>4, <3>1 DEF Final, FinalBlock
  <2> QED BY <2>1, <2>2, <2>5 DEF b
<1>8. Rightful'
  BY <1>2, <1>7 DEF Rightful
<1>9. Agreement'
  BY <1>1, <1>2, <1>3, <1>4 DEF ChainInv, Agreement
<1> QED BY <1>5, <1>6, <1>8, <1>9 DEF ChainInv

\* Whoever has a block at the height that is extended has this block.
LEMMA SameNext ==
  ASSUME TypeInv, SafeInv, NEW n \in Node, NEW b \in HBlock,
         b.height = saved[n].height + 1,
         b.proposer = ProposerForHeight(ActiveOf(saved[n]), b.height),
         Final(b) \/ b.proposer = n,
         NEW m \in Node, b.height <= saved[m].height
  PROVE  FinalBlock(m, b.height) = b
<1> DEFINE H == b.height
           c == FinalBlock(m, H)
           p == b.proposer
<1>1. saved[n].height \in Nat /\ saved[m].height \in Nat /\ H = saved[n].height + 1
  BY HeightNat
<1>2. H \in 1..saved[m].height /\ H - 1 = saved[n].height
  BY <1>1
<1>3. Final(c) /\ c.proposer = ProposerForHeight(ActiveFor(m, H), H) /\ c # None
  BY <1>2, SafeChain DEF ChainInv, Rightful, Linked
<1>4. c.height = H
  BY <1>3, Stored
<1>5. ActiveFor(m, H) = ActiveFor(n, H)
  <2>1. CASE H = 1
    BY <2>1 DEF ActiveFor
  <2>2. CASE H # 1
    <3>1. H - 1 \in 1..saved[n].height /\ H - 1 <= saved[m].height
      BY <1>1, <1>2, <2>2
    <3>2. FinalBlock(n, H - 1) = FinalBlock(m, H - 1)
      BY <3>1 DEF SafeInv, Agreement
    <3> QED BY <2>2, <3>2 DEF ActiveFor
  <2> QED BY <2>1, <2>2
<1>6. ActiveFor(n, H) = ActiveOf(saved[n])
  BY <1>1, TopFits
<1>7. c.proposer = p
  BY <1>3, <1>5, <1>6
<1> HIDE DEF c
<1>8. H <= saved[p].height /\ FinalBlock(p, H) = c
  BY <1>3, <1>4, <1>7 DEF Final
<1>9. CASE Final(b)
  BY <1>8, <1>9 DEF Final, c
<1>10. CASE p = n
  BY <1>1, <1>8, <1>10
<1> QED BY <1>9, <1>10

\* A chain that is extended by a final block, or by its proposer, agrees with all others.
LEMMA ExtendedChain ==
  ASSUME TypeInv, SafeInv, TypeInv', NEW n \in Node, NEW b \in HBlock, Extends(n, b),
         b.prev = Hash(Top(n)),
         b.proposer = ProposerForHeight(ActiveOf(saved[n]), b.height),
         Final(b) \/ b.proposer = n
  PROVE  ChainInv' /\ Final(b)'
<1> DEFINE H == b.height
<1>1. \A m \in Node : saved[m].height \in Nat
  BY HeightNat
<1>2. /\ H = saved[n].height + 1
      /\ saved'[n] = ApplyBlock(GenesisState, b)
      /\ FinalBlock(n, H)' = b
      /\ \A h \in 0..saved[n].height : FinalBlock(n, h)' = FinalBlock(n, h)
      /\ \A m \in Node \ {n} : saved'[m] = saved[m] /\ \A h : FinalBlock(m, h)' = FinalBlock(m, h)
  BY DEF Extends
<1>3. saved'[n].height = H /\ saved'[n].height = saved[n].height + 1 /\ H \in Nat \ {0}
  BY <1>1, <1>2 DEF ApplyBlock
<1>4. ChainInv
  BY SafeChain
<1>5. b # None
  BY NoneAssumption DEF HBlock
<1>6. Final(b)'
  <2>1. CASE Final(b)
    BY <2>1, FinalStays
  <2>2. CASE b.proposer = n
    BY <1>2, <1>3, <2>2 DEF Final
  <2> QED BY <2>1, <2>2
<1>7. \A m \in Node : \A h \in 0..saved[m].height : FinalBlock(m, h)' = FinalBlock(m, h)
  BY <1>2
<1>8. \A m \in Node : \A h \in 1..saved'[m].height :
        \/ h \in 1..saved[m].height /\ h \in 0..saved[m].height /\ h - 1 \in 0..saved[m].height
        \/ m = n /\ h = H
  BY <1>1, <1>2, <1>3
<1>9. ASSUME NEW m \in Node PROVE StateFrom(m)'
  <2>1. CASE m = n
    <3>1. FinalBlock(n, saved[n].height)' = b
      BY <1>2, <1>3 DEF FinalBlock
    <3>2. (saved[n] = IF saved[n].height = 0 THEN GenesisState
                      ELSE ApplyBlock(GenesisState, FinalBlock(n, saved[n].height)))'
      BY <1>2, <1>3, <3>1 DEF ApplyBlock, Hash, FinalBlock
    <3> QED BY <2>1, <3>2 DEF StateFrom
  <2>2. CASE m # n
    <3>1. saved'[m] = saved[m] /\ FinalBlock(m, saved[m].height)' = FinalBlock(m, saved[m].height)
      BY <1>2, <2>2 DEF FinalBlock
    <3>2. StateFrom(m)
      BY <1>4 DEF ChainInv
    <3> QED BY <3>1, <3>2 DEF StateFrom, ApplyBlock, Hash
  <2> QED BY <2>1, <2>2
<1>10. ASSUME NEW m \in Node, NEW h \in 1..saved'[m].height
       PROVE  FinalBlock(m, h)' # None /\ FinalBlock(m, h)'.prev = Hash(FinalBlock(m, h - 1)')
  <2>1. CASE h \in 1..saved[m].height
    BY <1>1, <1>4, <1>7, <1>8, <2>1 DEF ChainInv, Linked
  <2>2. CASE m = n /\ h = H
    <3>1. h - 1 = saved[n].height /\ h - 1 \in 0..saved[n].height
      BY <1>1, <1>2, <2>2
    <3>2. FinalBlock(n, h - 1)' = Top(n)
      BY <1>7, <3>1 DEF Top
    <3> QED BY <1>2, <1>5, <2>2, <3>2
  <2> QED BY <1>8, <2>1, <2>2
<1>11. Linked'
  BY <1>10 DEF Linked, Hash
<1>12. ASSUME NEW m \in Node, NEW h \in 1..saved'[m].height
       PROVE  Final(FinalBlock(m, h))'
              /\ FinalBlock(m, h)'.proposer = ProposerForHeight(ActiveFor(m, h)', h)
  <2>1. CASE h \in 1..saved[m].height
    <3> DEFINE c == FinalBlock(m, h)
    <3>1. Final(c) /\ c.proposer = ProposerForHeight(ActiveFor(m, h), h)
      BY <1>4, <2>1 DEF ChainInv, Rightful
    <3>2. c' = c /\ ActiveFor(m, h)' = ActiveFor(m, h)
      BY <1>1, <1>7, <1>8, <2>1, ActiveKept
    <3> HIDE DEF c
    <3>3. ASSUME NEW x, Final(x) PROVE /\ x.height <= saved'[x.proposer].height /\ x \in HBlock
                                       /\ FinalBlock(x.proposer, x.height)' = x
      <4>1. Final(x)'
        BY <3>3, FinalStays
      <4> QED BY <4>1 DEF Final
    <3>4. Final(c)'
      BY <3>1, <3>2, <3>3 DEF Final, FinalBlock
    <3> QED BY <3>1, <3>2, <3>4 DEF c
  <2>2. CASE m = n /\ h = H
    <3>1. h - 1 = saved[n].height /\ h - 1 \in 0..saved[n].height /\ h = saved[n].height + 1
      BY <1>1, <1>2, <2>2
    <3>2. ActiveFor(n, h)' = ActiveFor(n, h)
      BY <1>7, <3>1, ActiveKept
    <3>3. ActiveFor(n, h) = ActiveOf(saved[n])
      BY <3>1, TopFits
    <3>4. FinalBlock(m, h)' = b
      BY <1>2, <2>2
    <3>5. Final(FinalBlock(m, h))'
      BY <1>6, <3>4 DEF Final, FinalBlock
    <3> QED BY <2>2, <3>2, <3>3, <3>4, <3>5
  <2> QED BY <1>8, <2>1, <2>2
<1>13. Rightful'
  BY <1>12 DEF Rightful
<1>14. ASSUME NEW m \in Node, H <= saved[m].height PROVE FinalBlock(m, H)' = b
  <2>1. FinalBlock(m, H) = b
    BY <1>2, <1>14, SameNext
  <2>2. m # n
    BY <1>1, <1>2, <1>14
  <2> QED BY <1>2, <2>1, <2>2
<1>15. ASSUME NEW m \in Node, NEW q \in Node, NEW h \in 1..saved'[m].height, h <= saved'[q].height
       PROVE  FinalBlock(m, h)' = FinalBlock(q, h)'
  <2>1. h \in 1..saved'[q].height
    <3>1. saved'[q].height \in Nat
      BY <1>1, <1>2, <1>3
    <3> QED BY <1>15, <3>1
  <2>2. CASE h \in 1..saved[m].height /\ h \in 1..saved[q].height
    <3>1. FinalBlock(m, h) = FinalBlock(q, h)
      BY <1>1, <1>4, <2>2 DEF ChainInv, Agreement
    <3> QED BY <1>1, <1>7, <2>2, <3>1
  <2>3. CASE m = n /\ h = H
    BY <1>1, <1>2, <1>8, <1>14, <2>1, <2>3
  <2>4. CASE q = n /\ h = H
    BY <1>1, <1>2, <1>8, <1>14, <2>4
  <2> QED BY <1>8, <2>1, <2>2, <2>3, <2>4
<1>16. Agreement'
  BY <1>15 DEF Agreement
<1> QED BY <1>6, <1>9, <1>11, <1>13, <1>16 DEF ChainInv

-------------------------------------------------------------------------------
(* The memory of the nodes, and what they send. *)

\* A step of one node changes nothing of another's memory.
LEMMA Frame ==
  ASSUME TypeInv, NEW n \in Node, StepOf(n)
  PROVE  \A m \in Node \ {n} : /\ pc'[m] = pc[m] /\ job'[m] = job[m]
                               /\ state'[m] = state[m] /\ last'[m] = last[m]
<1>1. \E p, j : Goto(n, p, j)
  BY DEF StepOf, Moving, Proposing, Voting, Telling, Committing, Stopping, Start, Thread
<1>2. \A m \in Node \ {n} : pc'[m] = pc[m] /\ job'[m] = job[m]
  BY <1>1 DEF Goto, TypeInv, JobT
<1>3. CASE UNCHANGED <<state, last>>
  BY <1>2, <1>3
<1>4. CASE \E p \in PCs, j \in Job, sb \in HSigned : Committing(n, p, j, sb)
  BY <1>2, <1>4, CommitEffect DEF Committing
<1>5. CASE Stopping(n)
  BY <1>2, <1>5, StopEffect
<1>6. CASE Start(n)
  BY <1>2, <1>6, StartEffect
<1> QED BY <1>3, <1>4, <1>5, <1>6 DEF StepOf, Moving, Proposing, Voting, Telling

MemoryFits == \A n \in Node : Up(n) => state[n] = saved[n] /\ last[n] = Top(n)

\* Chains and memories that fit make stores that fit.
LEMMA FitsAgain ==
  ASSUME TypeInv', ChainInv', MemoryFits'
  PROVE  StoresFit'
<1>1. ASSUME NEW n \in Node
      PROVE  /\ 1..saved'[n].height \subseteq DOMAIN blocks'[n]
             /\ saved'[n].height > 0 => saved'[n].at = Hash(FinalBlock(n, saved[n].height))'
             /\ \A h \in 1..saved'[n].height :
                  FinalBlock(n, h)'.prev = Hash(FinalBlock(n, h - 1))'
             /\ Up(n)' => /\ state'[n] = saved'[n]
                          /\ last'[n] = FinalBlock(n, saved[n].height)'
  <2>1. \A h \in 1..saved'[n].height : FinalBlock(n, h)' # None
    BY DEF ChainInv, Linked
  <2>2. \A h \in 1..saved'[n].height : h \in DOMAIN blocks'[n]
    BY <2>1 DEF FinalBlock
  <2>3. StateFrom(n)'
    BY DEF ChainInv
  <2>4. saved'[n].height > 0 => saved'[n].at = Hash(FinalBlock(n, saved[n].height))'
    <3>1. SUFFICES ASSUME saved'[n].height > 0
                   PROVE  saved'[n].at = Hash(FinalBlock(n, saved[n].height))'
      OBVIOUS
    <3>2. saved'[n] = ApplyBlock(GenesisState, FinalBlock(n, saved[n].height))'
      BY <2>3, <3>1 DEF StateFrom
    <3> QED BY <3>2 DEF ApplyBlock
  <2>5. \A h \in 1..saved'[n].height : FinalBlock(n, h)'.prev = Hash(FinalBlock(n, h - 1))'
    BY DEF ChainInv, Linked
  <2> QED BY <2>2, <2>4, <2>5 DEF MemoryFits, Top
<1>2. ASSUME NEW n \in Node, saved'[n].height = 0 PROVE FinalBlock(n, saved[n].height)' = None
  <2>1. DOMAIN blocks'[n] \subseteq 1..MaxHeight
    BY DEF TypeInv, StoreT
  <2>2. 0 \notin DOMAIN blocks'[n]
    BY <2>1
  <2> QED BY <1>2, <2>2 DEF FinalBlock
<1> QED BY <1>1, <1>2 DEF StoresFit

\* Memory follows the disk.
LEMMA MemoryKept ==
  ASSUME TypeInv, SafeInv, NoSoleQuorum, NEW n \in Node, StepOf(n)
  PROVE  MemoryFits'
<1>1. \A m \in Node : /\ saved[m].height \in Nat
                      /\ Up(m) => state[m] = saved[m] /\ last[m] = Top(m)
  BY TopFits
<1>2. \A m \in Node \ {n} : /\ pc'[m] = pc[m] /\ job'[m] = job[m]
                            /\ state'[m] = state[m] /\ last'[m] = last[m]
  BY Frame
<1>3. ASSUME KeepsDisks, NEW m \in Node PROVE saved'[m] = saved[m] /\ Top(m)' = Top(m)
  <2>1. saved' = saved /\ saved[m].height \in 0..saved[m].height
    BY <1>1, <1>3 DEF KeepsDisks
  <2>2. \A h \in 0..saved[m].height : FinalBlock(m, h)' = FinalBlock(m, h)
    BY <1>3 DEF KeepsDisks
  <2> QED BY <2>1, <2>2 DEF Top, FinalBlock
<1>4. CASE \E p \in PCs, j \in Job, sb \in HSigned :
             Committing(n, p, j, sb) /\ Extends(n, sb.block)
  <2>1. PICK p \in PCs, j \in Job, sb \in HSigned :
             Committing(n, p, j, sb) /\ Extends(n, sb.block)
    BY <1>4
  <2>2. state'[n] = saved'[n] /\ last'[n] = sb.block
    BY <2>1, CommitEffect DEF Committing
  <2>3. Top(n)' = sb.block
    <3>1. saved'[n].height = sb.block.height /\ FinalBlock(n, sb.block.height)' = sb.block
      BY <2>1 DEF Extends, ApplyBlock
    <3> QED BY <3>1 DEF Top, FinalBlock
  <2>4. \A m \in Node \ {n} : saved'[m] = saved[m] /\ Top(m)' = Top(m)
    BY <2>1 DEF Extends, Top, FinalBlock
  <2>5. \A m \in Node \ {n} : Up(m)' => state'[m] = saved'[m] /\ last'[m] = Top(m)'
    BY <1>1, <1>2, <2>4 DEF Up
  <2> QED BY <2>2, <2>3, <2>5 DEF MemoryFits
<1>5. CASE KeepsDisks
  <2>1. \A m \in Node \ {n} : Up(m)' => state'[m] = saved'[m] /\ last'[m] = Top(m)'
    BY <1>1, <1>2, <1>3, <1>5 DEF Up
  <2>2. Up(n)' => state'[n] = saved'[n] /\ last'[n] = Top(n)'
    <3>1. saved'[n] = saved[n] /\ Top(n)' = Top(n)
      BY <1>3, <1>5
    <3>2. CASE \E p, j : Thread(n, p, j) /\ UNCHANGED <<state, last>>
      BY <1>1, <3>1, <3>2 DEF Thread
    <3>3. CASE Stopping(n)
      <4>1. pc'[n] = "down"
        BY <3>3 DEF Stopping, Goto, TypeInv, JobT
      <4> QED BY <4>1 DEF Up
    <3>4. CASE Start(n)
      <4>1. state'[n] = saved[n] /\ last'[n] = Top(n)
        BY <3>4, StartEffect DEF Top
      <4> QED BY <3>1, <4>1
    <3>5. CASE \E p \in PCs, j \in Job, sb \in HSigned : Committing(n, p, j, sb)
      <4>1. PICK p \in PCs, j \in Job, sb \in HSigned : Committing(n, p, j, sb)
        BY <3>5
      <4>2. Extends(n, sb.block)
        BY <4>1, CommitExtends DEF Committing
      <4>3. saved'[n].height = saved[n].height + 1
        BY <4>2 DEF Extends, ApplyBlock
      <4> QED BY <1>1, <3>1, <4>3
    <3> QED BY <3>2, <3>3, <3>4, <3>5 DEF StepOf, Moving, Proposing, Voting, Telling
  <2> QED BY <2>1, <2>2 DEF MemoryFits
<1> QED BY <1>4, <1>5, DiskStep

\* Everything that is served is final.
LEMMA ServedIsFinal ==
  ASSUME TypeInv, SafeInv, NEW n \in Node, NEW sb, Served(n, sb)
  PROVE  Final(sb.block)
<1>1. CASE \E i \in 1..Len(job[n].resp) : sb = job[n].resp[i]
  BY <1>1 DEF SafeInv, SentIsFinal
<1>2. CASE \E q \in Node : /\ Up(q)
                           /\ \E h \in DOMAIN blocks[q] : h <= state[q].height /\ sb = blocks[q][h]
  <2>1. PICK q \in Node : /\ Up(q)
                          /\ \E h \in DOMAIN blocks[q] : h <= state[q].height /\ sb = blocks[q][h]
    BY <1>2
  <2>2. PICK h \in DOMAIN blocks[q] : h <= state[q].height /\ sb = blocks[q][h]
    BY <2>1
  <2>3. state[q] = saved[q] /\ saved[q].height \in Nat
    BY <2>1, TopFits
  <2>4. h \in 1..MaxHeight
    BY DEF TypeInv, StoreT
  <2>5. h \in 1..saved[q].height
    BY <2>2, <2>3, <2>4, BoundAssumption
  <2>6. FinalBlock(q, h) = sb.block
    BY <2>2 DEF FinalBlock
  <2> QED BY <2>5, <2>6 DEF SafeInv, Rightful
<1> QED BY <1>1, <1>2 DEF Served

\* Every step keeps the invariant about chains, and what is final stays final.
LEMMA ChainStep ==
  ASSUME TypeInv, SafeInv, NoSoleQuorum, TypeInv', NEW n \in Node, StepOf(n)
  PROVE  /\ ChainInv'
         /\ \A b : Final(b) => Final(b)'
         /\ \A p \in PCs, j \in Job, sb \in HSigned : Committing(n, p, j, sb) => Final(sb.block)'
<1>1. ASSUME NEW p \in PCs, NEW j \in Job, NEW sb \in HSigned, Committing(n, p, j, sb)
      PROVE  ChainInv' /\ Final(sb.block)' /\ \A b : Final(b) => Final(b)'
  <2>1. MayCommit(n, sb) /\ CommitBlock(n, sb)
    BY <1>1 DEF Committing
  <2>2. Extends(n, sb.block)
    BY <2>1, CommitExtends
  <2>3. /\ Up(n) /\ sb.block \in HBlock
        /\ sb.block.prev = Hash(Top(n))
        /\ sb.block.proposer = ProposerForHeight(ActiveValidators(n), sb.block.height)
        /\ Final(sb.block) \/ sb.block.proposer = n
    BY <2>1, CommitNext
  <2>4. ActiveValidators(n) = ActiveOf(saved[n])
    BY <2>3, TopFits DEF ActiveValidators
  <2>5. sb.block.proposer = ProposerForHeight(ActiveOf(saved[n]), sb.block.height)
    BY <2>3, <2>4
  <2>6. ChainInv' /\ Final(sb.block)'
    BY <2>2, <2>3, <2>5, ExtendedChain
  <2>7. \A b : Final(b) => Final(b)'
    BY <2>2, <2>3, FinalStays
  <2> QED BY <2>6, <2>7
<1>2. CASE KeepsDisks
  BY <1>1, <1>2, KeptChain, FinalStays
<1> QED BY <1>1, <1>2, DiskStep

\* What is sent or notified is final.
LEMMA SentStep ==
  ASSUME TypeInv, SafeInv, NoSoleQuorum, TypeInv', NEW n \in Node, StepOf(n)
  PROVE  /\ SentIsFinal'
         /\ \A m \in Node : pc'[m] = "notify" =>
              Final(job[m].block)' /\ job'[m].block.proposer = m
<1>1. /\ \A b : Final(b) => Final(b)'
      /\ \A p \in PCs, j \in Job, sb \in HSigned : Committing(n, p, j, sb) => Final(sb.block)'
  BY ChainStep
<1>2. \A m \in Node \ {n} : pc'[m] = pc[m] /\ job'[m] = job[m]
  BY Frame
<1>3. \A m \in net : Final(m.block)
  BY DEF SafeInv, SentIsFinal
<1>4. \A m \in Node : \A i \in 1..Len(job[m].resp) : Final(job[m].resp[i].block)
  BY DEF SafeInv, SentIsFinal
<1>5. \A m \in Node : pc[m] = "notify" => Final(job[m].block) /\ job[m].block.proposer = m
  BY DEF SafeInv
<1>6. \A m \in net' : Final(m.block)
  <2>1. CASE net' \subseteq net
    BY <1>3, <2>1
  <2>2. CASE \E j \in Job : Telling(n, j)
    BY <1>3, <1>5, <2>2 DEF Telling
  <2> QED BY <2>1, <2>2, StartEffect DEF StepOf, Moving, Proposing, Voting, Committing, Stopping
<1>7. PICK p, j : /\ pc'[n] = p /\ job'[n] = j
                  /\ (\A i \in 1..Len(j.resp) : Served(n, j.resp[i])) \/ j.resp = << >>
                  /\ p = "notify" =>
                       \/ Telling(n, j)
                       \/ \E sb \in HSigned : Committing(n, p, j, sb) /\ p \in PCs /\ j \in Job
  <2>1. ASSUME NEW p, NEW j, Thread(n, p, j)
        PROVE  pc'[n] = p /\ job'[n] = j /\ \A i \in 1..Len(j.resp) : Served(n, j.resp[i])
    BY <2>1, GotoT DEF Thread
  <2>2. CASE \E p \in PCs, j \in Job : Moving(n, p, j)
    BY <2>1, <2>2 DEF Moving
  <2>3. CASE \E j \in Job : Proposing(n, j) \/ Voting(n, j)
    BY <2>1, <2>3 DEF Proposing, Voting
  <2>4. CASE \E j \in Job : Telling(n, j)
    BY <2>1, <2>4 DEF Telling
  <2>5. CASE \E p \in PCs, j \in Job, sb \in HSigned : Committing(n, p, j, sb)
    BY <2>1, <2>5 DEF Committing
  <2>6. CASE Stopping(n)
    <3>0. JobFits(n, "down", EmptyJob) /\ EmptyJob.resp = << >> /\ Goto(n, "down", EmptyJob)
      BY <2>6, StopEffect DEF Stopping
    <3> HIDE DEF EmptyJob
    <3>1. pc'[n] = "down" /\ job'[n] = EmptyJob /\ EmptyJob.resp = << >>
      BY <3>0, GotoT
    <3> QED BY <3>1
  <2>7. CASE Start(n)
    <3>1. \E j \in Job : /\ Goto(n, "status", j) /\ JobFits(n, "status", j) /\ j.resp = << >>
      BY <2>7, StartEffect
    <3>2. \E j \in Job : pc'[n] = "status" /\ job'[n] = j /\ j.resp = << >>
      BY <3>1, GotoT
    <3> QED BY <3>2
  <2> QED BY <2>2, <2>3, <2>4, <2>5, <2>6, <2>7 DEF StepOf
<1>8. \A i \in 1..Len(j.resp) : Final(j.resp[i].block)
  <2>1. CASE j.resp = << >>
    BY <2>1
  <2>2. CASE \A i \in 1..Len(j.resp) : Served(n, j.resp[i])
    BY <2>2, ServedIsFinal
  <2> QED BY <1>7, <2>1, <2>2
<1> DEFINE After(b) == /\ b \in HBlock
                       /\ b.height <= saved'[b.proposer].height
                       /\ b.height \in DOMAIN blocks'[b.proposer]
                       /\ blocks'[b.proposer][b.height].block = b
<1>9. \A b : Final(b)' => After(b)
  <2>1. SUFFICES ASSUME NEW b, Final(b)' PROVE After(b)
    OBVIOUS
  <2>2. b \in HBlock /\ b # None
    BY <2>1, NoneAssumption DEF Final, HBlock
  <2> QED BY <2>1, <2>2 DEF Final, FinalBlock
<1>10. SentIsFinal'
  <2>1. \A m \in net' : After(m.block)
    BY <1>1, <1>6, <1>9
  <2>2. ASSUME NEW m \in Node PROVE \A i \in 1..Len(job'[m].resp) : After(job'[m].resp[i].block)
    <3>1. \A i \in 1..Len(job'[m].resp) : Final(job'[m].resp[i].block)
      BY <1>2, <1>4, <1>7, <1>8
    <3> HIDE DEF After
    <3> QED BY <1>1, <1>9, <3>1
  <2> QED BY <2>1, <2>2 DEF SentIsFinal, Final, FinalBlock
<1>11. ASSUME NEW m \in Node, pc'[m] = "notify"
       PROVE  After(job'[m].block) /\ job'[m].block.proposer = m
  <2>1. CASE m # n
    <3>1. Final(job'[m].block) /\ job'[m].block.proposer = m
      BY <1>2, <1>5, <1>11, <2>1
    <3> HIDE DEF After
    <3> QED BY <1>1, <1>9, <3>1
  <2>2. CASE m = n /\ Telling(n, j)
    <3>1. Final(job'[m].block) /\ job'[m].block.proposer = m
      BY <1>5, <1>7, <2>2 DEF Telling
    <3> HIDE DEF After
    <3> QED BY <1>1, <1>9, <3>1
  <2>3. CASE m = n /\ \E sb \in HSigned : Committing(n, p, j, sb) /\ p \in PCs /\ j \in Job
    <3>1. PICK sb \in HSigned : Committing(n, p, j, sb) /\ p \in PCs /\ j \in Job
      BY <2>3
    <3>2. Own(n, sb) /\ j.block = sb.block /\ MayCommit(n, sb)
      BY <1>7, <1>11, <2>3, <3>1 DEF Committing
    <3>3. sb.block.proposer = n
      BY <3>2, CommitNext
    <3>4. Final(sb.block)'
      BY <1>1, <3>1
    <3>5. job'[m].block = sb.block
      BY <1>7, <2>3, <3>2
    <3> HIDE DEF After
    <3> QED BY <1>9, <2>3, <3>3, <3>4, <3>5
  <2> QED BY <1>7, <1>11, <2>1, <2>2, <2>3
<1>12. ASSUME NEW m \in Node, pc'[m] = "notify" PROVE Final(job[m].block)'
  BY <1>11, <1>12 DEF Final, FinalBlock
<1> QED BY <1>10, <1>11, <1>12

\* Whoever votes for a proposal stands where its proposer stands.
LEMMA VoterAgrees ==
  ASSUME TypeInv, SafeInv, NEW n \in Node, NEW v \in Node, pc[n] = "collect", Free(v),
         ValidateProposedBlock(v, job[n].block)
  PROVE  /\ v # n
         /\ job[n].block.height = saved[n].height + 1
         /\ IsProposer(n, job[n].block.height)
<1> DEFINE b == job[n].block
<1>1. v # n /\ Up(v) /\ Up(n)
  BY DEF Free, Locked, Up
<1>2. ProposalFits(n)
  BY DEF SafeInv
<1>3. /\ state[v] = saved[v] /\ last[v] = Top(v)
      /\ state[n] = saved[n] /\ last[n] = Top(n)
      /\ saved[n].height \in Nat
  BY <1>1, TopFits
<1>4. b.prev = Hash(Top(n)) /\ b.proposer = n
  BY <1>2, <1>3 DEF ProposalFits
<1>5. /\ b.height = (IF Top(v) = None THEN 1 ELSE Top(v).height + 1)
      /\ b.prev = Hash(Top(v))
      /\ b.proposer = ProposerForHeight(ActiveValidators(v), b.height)
  BY <1>3 DEF ValidateProposedBlock
<1>6. ASSUME NEW m \in Node, Top(m) # None
      PROVE  Top(m) \in HBlock /\ Recorded(Top(m)) /\ Hash(Top(m)) = Top(m).time /\ Top(m).time > 0
  <2>1. Top(m) \in HBlock /\ Recorded(Top(m))
    BY <1>6, TopFits
  <2> QED BY <1>6, <2>1 DEF HBlock, Hash
<1>7. Top(v) = Top(n)
  <2>1. Hash(Top(v)) = Hash(Top(n))
    BY <1>4, <1>5
  <2>2. Hash(None) = 0
    BY DEF Hash
  <2>3. CASE Top(v) = None \/ Top(n) = None
    <3>1. Top(v) # None => Top(v).time > 0 /\ Hash(Top(v)) = Top(v).time /\ Top(v) \in HBlock
      BY <1>6
    <3>2. Top(n) # None => Top(n).time > 0 /\ Hash(Top(n)) = Top(n).time /\ Top(n) \in HBlock
      BY <1>6
    <3>3. \A x \in HBlock : x.time \in Nat
      BY DEF HBlock, Block
    <3> QED BY <2>1, <2>2, <2>3, <3>1, <3>2, <3>3
  <2>4. CASE Top(v) # None /\ Top(n) # None
    <3>1. /\ Top(v) \in HBlock /\ Recorded(Top(v)) /\ Top(n) \in HBlock /\ Recorded(Top(n))
          /\ Top(v).time = Top(n).time
      BY <1>6, <2>1, <2>4
    <3> QED BY <3>1 DEF SafeInv, Distinct
  <2> QED BY <2>3, <2>4
<1>8. saved[v] = saved[n]
  <2>1. /\ saved[n] = IF Top(n) = None THEN GenesisState ELSE ApplyBlock(GenesisState, Top(n))
        /\ saved[v] = IF Top(v) = None THEN GenesisState ELSE ApplyBlock(GenesisState, Top(v))
    BY TopFits
  <2> QED BY <1>7, <2>1
<1>9. ActiveValidators(v) = ActiveValidators(n)
  BY <1>3, <1>8 DEF ActiveValidators
<1>10. b.height = saved[n].height + 1
  BY <1>3, <1>5, <1>7, TopFits
<1> QED BY <1>1, <1>4, <1>5, <1>9, <1>10 DEF IsProposer

\* A proposal under way extends the chain of its proposer.
LEMMA ProposalStep ==
  ASSUME TypeInv, SafeInv, NoSoleQuorum, NEW n \in Node, StepOf(n),
         NEW m \in Node, pc'[m] = "collect"
  PROVE  ProposalFits(m)'
<1>1. \A q \in Node \ {n} : /\ pc'[q] = pc[q] /\ job'[q] = job[q]
                            /\ state'[q] = state[q] /\ last'[q] = last[q]
  BY Frame
<1>2. CASE m # n
  <2>1. ProposalFits(m)
    BY <1>1, <1>2 DEF SafeInv
  <2>2. saved'[m] = saved[m]
    BY <1>2, DiskStep DEF KeepsDisks, Extends
  <2> QED BY <1>1, <1>2, <2>1, <2>2 DEF ProposalFits, IsProposer, ActiveValidators, Hash
<1>3. CASE m = n
  <2>1. ASSUME NEW p, NEW j, Thread(n, p, j) PROVE pc'[n] = p /\ job'[n] = j
    BY <2>1, GotoT DEF Thread
  <2>2. PICK j \in Job : Proposing(n, j) \/ Voting(n, j)
    <3>1. ~Stopping(n)
      BY <1>3 DEF Stopping, Goto, TypeInv, JobT
    <3>2. ~Start(n)
      BY <1>3 DEF Start, Goto, TypeInv, JobT
    <3>3. ~\E p \in PCs, j \in Job : Moving(n, p, j)
      BY <1>3, <2>1 DEF Moving
    <3>4. ~\E p \in PCs, j \in Job, sb \in HSigned : Committing(n, p, j, sb)
      BY <1>3, <2>1 DEF Committing
    <3>5. ~\E j \in Job : Telling(n, j)
      BY <1>3, <2>1 DEF Telling
    <3> QED BY <3>1, <3>2, <3>3, <3>4, <3>5 DEF StepOf
  <2>3. job'[n] = j /\ UNCHANGED <<state, last, saved>>
    BY <2>1, <2>2 DEF Proposing, Voting, disk
  <2>4. /\ j.block.proposer = n
        /\ j.block.prev = Hash(last[n])
        /\ \A e \in j.votes : Owner[e] # n
        /\ j.votes # {} => j.block.height = saved[n].height + 1 /\ IsProposer(n, j.block.height)
    <3>1. CASE Proposing(n, j)
      BY <3>1 DEF Proposing
    <3>2. CASE Voting(n, j)
      <4>1. ProposalFits(n) /\ j.block = job[n].block /\ pc[n] = "collect"
        BY <3>2 DEF Voting, SafeInv
      <4>2. CASE j.votes = job[n].votes
        BY <4>1, <4>2 DEF ProposalFits
      <4>3. CASE \E e \in Peers[n] : /\ j.votes = job[n].votes \cup {e}
                                     /\ Free(Owner[e])
                                     /\ ValidateProposedBlock(Owner[e], j.block)
        <5>1. PICK e \in Peers[n] : /\ j.votes = job[n].votes \cup {e}
                                    /\ Free(Owner[e])
                                    /\ ValidateProposedBlock(Owner[e], j.block)
          BY <4>3
        <5>2. Owner[e] \in Node
          BY NetworkAssumption
        <5>3. /\ Owner[e] # n
              /\ job[n].block.height = saved[n].height + 1
              /\ IsProposer(n, job[n].block.height)
          BY <4>1, <5>1, <5>2, VoterAgrees
        <5> QED BY <4>1, <5>1, <5>3 DEF ProposalFits
      <4> QED BY <3>2, <4>2, <4>3 DEF Voting
    <3> QED BY <2>2, <3>1, <3>2
  <2> QED BY <1>3, <2>3, <2>4 DEF ProposalFits, IsProposer, ActiveValidators, Hash
<1> QED BY <1>2, <1>3

\* Blocks of one time are the same.
LEMMA DistinctStep ==
  ASSUME TypeInv, SafeInv, NEW n \in Node, StepOf(n)
  PROVE  Distinct'
<1>1. ASSUME NEW b, Fetched(b) PROVE Recorded(b)
  <2>1. Final(b)
    BY <1>1 DEF Fetched, SafeInv, SentIsFinal
  <2>2. /\ b \in HBlock /\ b # None /\ b.proposer \in Node /\ FinalBlock(b.proposer, b.height) = b
    BY <2>1, NoneAssumption DEF Final, HBlock, Block
  <2>3. b.height \in DOMAIN blocks[b.proposer] /\ blocks[b.proposer][b.height].block = b
    BY <2>2 DEF FinalBlock
  <2> QED BY <2>2, <2>3 DEF Recorded
<1>2. /\ Now \in Nat
      /\ \A b \in HBlock : Recorded(b) => b.time < Now
  BY NowIsLater
<1>3. \A b \in HBlock : b.time \in Nat
  BY DEF HBlock, Block
<1>4. \/ \A b : Recorded(b)' => Recorded(b)
      \/ \E c \in HBlock : c.time = Now /\ \A b : Recorded(b)' => Recorded(b) \/ b = c
  BY <1>1, NewBlocks
<1>5. SUFFICES ASSUME NEW b \in HBlock, NEW c \in HBlock, Recorded(b)', Recorded(c)',
                      b.time = c.time
               PROVE  b = c
  BY DEF Distinct
<1>6. Recorded(b) /\ Recorded(c) => b = c
  BY <1>5 DEF SafeInv, Distinct
<1> QED BY <1>2, <1>3, <1>4, <1>5, <1>6

-------------------------------------------------------------------------------
(* Agreement. *)

\* Every step keeps the safety invariant.
LEMMA SafePreserved ==
  ASSUME NoSoleQuorum
  PROVE  TypeInv /\ SafeInv /\ [Next]_vars => SafeInv'
<1>1. SUFFICES ASSUME TypeInv, SafeInv, [Next]_vars PROVE SafeInv'
  OBVIOUS
<1>2. TypeInv'
  BY <1>1, TypePreserved
<1>3. CASE UNCHANGED vars
  <2>1. UNCHANGED <<pc, job, state, last, blocks, saved, net>>
    BY <1>3 DEF vars
  <2>2. StoresFit'
    BY <1>1, <2>1 DEF SafeInv, StoresFit, FinalBlock, Hash, Up
  <2>3. \A n \in Node : StateFrom(n)'
    BY <1>1, <2>1 DEF SafeInv, StateFrom, FinalBlock, ApplyBlock, Hash
  <2>4. KeepsDisks
    BY <2>1 DEF KeepsDisks, FinalBlock
  <2>5. Rightful' /\ Agreement'
    BY <1>1, <2>4, KeptChain DEF ChainInv
  <2>6. SentIsFinal'
    BY <1>1, <2>1, ZenonT(30) DEF SafeInv, SentIsFinal, Final, FinalBlock
  <2>7. \A n \in Node : pc'[n] = "collect" => ProposalFits(n)'
    BY <1>1, <2>1 DEF SafeInv, ProposalFits, IsProposer, ActiveValidators, Hash
  <2>8. \A n \in Node : pc'[n] = "notify" => Final(job[n].block)' /\ job'[n].block.proposer = n
    BY <1>1, <2>1 DEF SafeInv, Final, FinalBlock
  <2>9. Distinct'
    BY <1>1, <2>1 DEF SafeInv, Distinct, Recorded
  <2> QED BY <2>2, <2>3, <2>5, <2>6, <2>7, <2>8, <2>9 DEF SafeInv
<1>4. ASSUME NEW n \in Node, StepOf(n) PROVE SafeInv'
  <2>1. ChainInv'
    BY <1>1, <1>2, <1>4, ChainStep
  <2>2. MemoryFits'
    BY <1>1, <1>4, MemoryKept
  <2>3. StoresFit'
    BY <1>2, <2>1, <2>2, FitsAgain
  <2>4. /\ SentIsFinal'
        /\ \A m \in Node : pc'[m] = "notify" => Final(job[m].block)' /\ job'[m].block.proposer = m
    BY <1>1, <1>2, <1>4, SentStep
  <2>5. \A m \in Node : pc'[m] = "collect" => ProposalFits(m)'
    BY <1>1, <1>4, ProposalStep
  <2>6. Distinct'
    BY <1>1, <1>4, DistinctStep
  <2> QED BY <2>1, <2>3, <2>4, <2>5, <2>6 DEF SafeInv, ChainInv
<1> QED BY <1>1, <1>3, <1>4, StepShapes

\* It holds at the beginning.
LEMMA SafeInitially == Init => SafeInv
<1>1. SUFFICES ASSUME Init PROVE SafeInv
  OBVIOUS
<1>2. /\ net = {}
      /\ \A n \in Node : /\ pc[n] = "run" /\ job[n] = EmptyJob
                         /\ state[n] = GenesisState /\ last[n] = None
                         /\ blocks[n] = << >> /\ saved[n] = GenesisState
  BY <1>1 DEF Init
<1>3. /\ GenesisState.height = 0
      /\ EmptyJob.block = None /\ EmptyJob.resp = << >> /\ Len(EmptyJob.resp) = 0
  BY DEF GenesisState, EmptyJob
<1>4. \A n \in Node : DOMAIN blocks[n] = {} /\ saved[n].height = 0
  BY <1>2, <1>3
<1>5. \A h \in 1..0 : FALSE
  OBVIOUS
<1> HIDE DEF GenesisState, EmptyJob
<1>6. StoresFit
  BY <1>2, <1>4, <1>5 DEF StoresFit
<1>7. \A n \in Node : StateFrom(n)
  BY <1>2, <1>4 DEF StateFrom
<1>8. Rightful /\ Agreement
  BY <1>4, <1>5 DEF Rightful, Agreement
<1>9. SentIsFinal
  BY <1>2, <1>3, <1>5 DEF SentIsFinal
<1>10. Distinct
  BY <1>2, <1>3, <1>4 DEF Distinct, Recorded
<1> QED BY <1>2, <1>6, <1>7, <1>8, <1>9, <1>10 DEF SafeInv

\* It holds in every state, if no validator has a quorum alone.
THEOREM SafeInvAlways == ASSUME NoSoleQuorum PROVE Spec => []SafeInv
<1> QED BY TypeInvAlways, SafeInitially, SafePreserved, PTL DEF Spec

\* No two nodes have executed different blocks at a height, as long as no
\* validator is a quorum alone (proposeBlock, OnFinalizedBlock, SyncToNetwork):
\* for every network, active sets that blocks change, and any number of
\* crashes, lost and late calls, failed writes and proposals given up.
THEOREM NodesAgree == ASSUME NoSoleQuorum PROVE Spec => []Agreement
<1>1. SafeInv => Agreement
  BY DEF SafeInv
<1> QED BY <1>1, SafeInvAlways, PTL

\* The stores and the memory of every node fit together, after every crash
\* between two writes and every restart (commitBlock, NewNode, Run).
THEOREM StoresAlwaysFit == ASSUME NoSoleQuorum PROVE Spec => []StoresFit
<1>1. SafeInv => StoresFit
  BY DEF SafeInv
<1> QED BY <1>1, SafeInvAlways, PTL

-------------------------------------------------------------------------------
(* Certificates.  A node that is connected twice to another counts its     *)
(* vote twice; the certificate does not.                                   *)

Certs ==
  \A n \in Node : \A h \in 1..saved[n].height :
    \/ ValidateQuorumCertificate(ActiveFor(n, h), blocks[n][h].cert)
    \/ CountedTwice(n, blocks[n][h])

\* What a node may commit has a valid certificate, unless the node proposed it and
\* counted a vote twice: without that, CountIsExact says that its count is what
\* the certificate proves.
LEMMA CommitIsCertified ==
  ASSUME TypeInv, SafeInv, NEW n \in Node, NEW sb, MayCommit(n, sb)
  PROVE  \/ ValidateQuorumCertificate(ActiveValidators(n), sb.cert)
         \/ CountedTwice(n, sb)
<1>1. CASE Own(n, sb)
  <2> DEFINE vals == ActiveValidators(n)
             V == job[n].votes
  <2>0. SUFFICES ASSUME ~CountedTwice(n, sb)
                 PROVE  ValidateQuorumCertificate(vals, sb.cert)
    OBVIOUS
  <2>1. pc[n] = "collect" /\ Quorate(n) /\ sb.cert = {n} \cup {Owner[e] : e \in V}
    BY <1>1 DEF Own, Collected, Certified
  <2>2. /\ V \subseteq Peers[n] /\ \A e \in V : Owner[e] # n
        /\ sb.block.proposer = n
    BY <1>1, <2>1 DEF Own, Certified, TypeInv, JobT, JobFits, SafeInv, ProposalFits
  <2>3. IsFiniteSet(V)
    BY <2>2, NetworkAssumption, FS_Subset
  <2>4. \A e, f \in V : Owner[e] = Owner[f] => e = f
    BY <2>0, <2>1, <2>2 DEF CountedTwice
  <2>5. IsValidatorSet(vals, Node)
    BY ActiveIsSet
  <2>6. CountedStake(vals, n, V, Owner) >= QuorumThreshold(vals)
    BY <2>1 DEF Quorate
  <2> HIDE DEF vals, V
  <2>7. CountedStake(vals, n, V, Owner) = CertifiedStake(vals, {n} \cup {Owner[e] : e \in V})
    BY <2>2, <2>3, <2>4, <2>5, CountIsExact
  <2>8. CertifiedStake(vals, sb.cert) >= QuorumThreshold(vals)
    BY <2>1, <2>6, <2>7
  <2> QED BY <2>8 DEF ValidateQuorumCertificate, vals
<1>2. CASE Synced(n, sb)
  BY <1>2 DEF Synced, CanSync
<1>3. CASE Delivered(n, sb)
  BY <1>3 DEF Delivered, CanCommit, Body
<1> QED BY <1>1, <1>2, <1>3 DEF MayCommit

\* Every step keeps saved certificates valid.
LEMMA CertsPreserved ==
  ASSUME NoSoleQuorum
  PROVE  TypeInv /\ SafeInv /\ Certs /\ [Next]_vars => Certs'
<1>1. SUFFICES ASSUME TypeInv, SafeInv, Certs, [Next]_vars PROVE Certs'
  OBVIOUS
<1>2. /\ \A m \in Node : saved[m].height \in Nat
      /\ \A m \in Node : 1..saved[m].height \subseteq DOMAIN blocks[m]
  BY <1>1, HeightNat DEF SafeInv, StoresFit
<1>3. ASSUME NEW n \in Node, NEW sb \in HSigned, MayCommit(n, sb), SaveBlock(n, sb)
      PROVE  /\ sb.block.height = saved[n].height + 1
             /\ blocks'[n][sb.block.height] = sb
             /\ \A m \in Node : \A h \in 1..saved[m].height : blocks'[m][h] = blocks[m][h]
  <2>1. sb.block.height = saved[n].height + 1
    BY <1>1, <1>3, CommitNext
  <2>2. StoreT
    BY <1>1 DEF TypeInv
  <2>3. /\ blocks'[n][sb.block.height] = sb
        /\ \A h \in DOMAIN blocks[n] \ {sb.block.height} : blocks'[n][h] = blocks[n][h]
        /\ \A m \in Node \ {n} : blocks'[m] = blocks[m]
    BY <1>3, <2>2, SaveEffect, ZenonT(30)
  <2>4. \A h \in 1..saved[n].height : h \in DOMAIN blocks[n] \ {sb.block.height}
    BY <1>2, <2>1
  <2> QED BY <2>1, <2>3, <2>4
<1>4. ASSUME KeepsDisks, \A m \in Node : \A h \in 1..saved[m].height : blocks'[m][h] = blocks[m][h]
      PROVE  Certs'
  <2>1. saved' = saved
    BY <1>4 DEF KeepsDisks
  <2>2. ASSUME NEW m \in Node, NEW h \in 1..saved[m].height
        PROVE  ActiveFor(m, h)' = ActiveFor(m, h)
    <3>1. h - 1 \in 0..saved[m].height
      BY <1>2
    <3>2. FinalBlock(m, h - 1)' = FinalBlock(m, h - 1)
      BY <1>4, <3>1 DEF KeepsDisks
    <3> QED BY <3>2, ActiveKept
  <2> QED BY <1>1, <1>4, <2>1, <2>2 DEF Certs, ValidateQuorumCertificate, CountedTwice
<1>5. CASE UNCHANGED vars
  <2>1. KeepsDisks /\ UNCHANGED blocks
    BY <1>5 DEF KeepsDisks, FinalBlock, vars
  <2> QED BY <1>4, <2>1
<1>6. ASSUME NEW n \in Node, HalfSaved(n) PROVE Certs'
  <2>1. KeepsDisks
    BY <1>1, <1>6, HalfKeeps
  <2>2. \A m \in Node : \A h \in 1..saved[m].height : blocks'[m][h] = blocks[m][h]
    BY <1>3, <1>6 DEF HalfSaved
  <2> QED BY <1>4, <2>1, <2>2
<1>7. ASSUME NEW n \in Node, NEW p \in PCs, NEW j \in Job, NEW sb \in HSigned,
             Committing(n, p, j, sb)
      PROVE  Certs'
  <2> DEFINE H == sb.block.height
  <2>1. MayCommit(n, sb) /\ CommitBlock(n, sb) /\ SaveBlock(n, sb)
    BY <1>7 DEF Committing, CommitBlock
  <2>2. /\ H = saved[n].height + 1 /\ blocks'[n][H] = sb
        /\ \A m \in Node : \A h \in 1..saved[m].height : blocks'[m][h] = blocks[m][h]
    BY <1>3, <2>1
  <2>3. Extends(n, sb.block)
    BY <1>1, <2>1, CommitExtends
  <2>4. /\ saved'[n].height = H
        /\ \A m \in Node \ {n} : saved'[m] = saved[m]
        /\ \A m \in Node : \A h \in 0..saved[m].height : FinalBlock(m, h)' = FinalBlock(m, h)
    BY <2>3 DEF Extends, ApplyBlock
  <2>5. ASSUME NEW m \in Node, NEW h \in 1..(saved[m].height + 1)
        PROVE  ActiveFor(m, h)' = ActiveFor(m, h)
    <3>1. h - 1 \in 0..saved[m].height
      BY <1>2
    <3>2. FinalBlock(m, h - 1)' = FinalBlock(m, h - 1)
      BY <2>4, <3>1
    <3> QED BY <3>2, ActiveKept
  <2>6. ValidateQuorumCertificate(ActiveFor(n, H), sb.cert) \/ CountedTwice(n, sb)
    <3>1. Up(n)
      BY <1>1, <2>1, CommitTyped
    <3>2. ActiveFor(n, H) = ActiveValidators(n)
      BY <1>1, <2>2, <3>1, TopFits DEF ActiveValidators
    <3> QED BY <1>1, <2>1, <3>2, CommitIsCertified
  <2>7. ASSUME NEW m \in Node, NEW h \in 1..saved'[m].height
        PROVE  \/ ValidateQuorumCertificate(ActiveFor(m, h)', blocks'[m][h].cert)
               \/ CountedTwice(m, blocks'[m][h])
    <3>1. CASE h \in 1..saved[m].height
      <4>1. \/ ValidateQuorumCertificate(ActiveFor(m, h), blocks[m][h].cert)
            \/ CountedTwice(m, blocks[m][h])
        BY <1>1, <3>1 DEF Certs
      <4>2. h \in 1..(saved[m].height + 1)
        BY <1>2, <3>1
      <4> QED BY <2>2, <2>5, <3>1, <4>1, <4>2
    <3>2. CASE m = n /\ h = H
      <4>1. h \in 1..(saved[m].height + 1)
        BY <1>2, <2>2, <3>2
      <4> QED BY <2>2, <2>5, <2>6, <3>2, <4>1
    <3>3. h \in 1..saved[m].height \/ (m = n /\ h = H)
      BY <1>2, <2>2, <2>4
    <3> QED BY <3>1, <3>2, <3>3
  <2> QED BY <2>7 DEF Certs, ValidateQuorumCertificate, CountedTwice
<1>8. ASSUME NEW n \in Node, StepOf(n) PROVE Certs'
  <2>1. UNCHANGED disk => HalfSaved(n)
    BY DEF disk, HalfSaved
  <2>2. CASE \E p \in PCs, j \in Job, sb \in HSigned : Committing(n, p, j, sb)
    BY <1>7, <2>2
  <2>3. CASE ~\E p \in PCs, j \in Job, sb \in HSigned : Committing(n, p, j, sb)
    <3>1. HalfSaved(n)
      BY <1>8, <2>1, <2>3 DEF StepOf, Moving, Proposing, Voting, Telling, Stopping, Start
    <3> QED BY <1>6, <3>1
  <2> QED BY <2>2, <2>3
<1> QED BY <1>1, <1>5, <1>8, StepShapes

\* Every saved block was accepted by more than two thirds of the stake that was
\* in force for it, each validator counted once, or it is on the disk of its own
\* proposer, which counted a voter twice: for every set of addresses, also those
\* that lead to the same node (proposeBlock, ValidateQuorumCertificate).
THEOREM CertificatesHold ==
  ASSUME NoSoleQuorum
  PROVE  Spec => []CertificatesProve
<1>1. Init => Certs
  <2>1. SUFFICES ASSUME Init PROVE Certs
    OBVIOUS
  <2>2. \A n \in Node : saved[n].height = 0
    BY <2>1 DEF Init, GenesisState
  <2>3. \A h \in 1..0 : FALSE
    OBVIOUS
  <2> QED BY <2>2, <2>3 DEF Certs
<1>2. TypeInv /\ SafeInv /\ Certs => CertificatesProve
  <2>1. SUFFICES ASSUME TypeInv, SafeInv, Certs, NEW n \in Node, NEW h \in 1..saved[n].height,
                        ~CountedTwice(n, blocks[n][h])
                 PROVE  3 * CertifiedStake(ActiveFor(n, h), blocks[n][h].cert)
                          > 2 * TotalStake(ActiveFor(n, h))
    BY DEF CertificatesProve
  <2> DEFINE vals == ActiveFor(n, h)
             I == {i \in DOMAIN vals : vals[i].addr \in blocks[n][h].cert}
  <2>2. IsValidatorSet(vals, Node)
    <3>1. CASE h = 1
      BY <3>1, ValidatorAssumption DEF ActiveFor
    <3>2. CASE h # 1
      <4>1. saved[n].height \in Nat
        BY <2>1, HeightNat
      <4>2. h - 1 \in 1..saved[n].height
        BY <3>2, <4>1
      <4>3. FinalBlock(n, h - 1) # None
        BY <2>1, <4>2, SafeChain DEF ChainInv, Linked
      <4>4. FinalBlock(n, h - 1) \in Block
        BY <2>1, <4>3, Stored DEF HBlock
      <4>5. FinalBlock(n, h - 1).active \in ActiveSets
        BY <4>4 DEF Block
      <4> QED BY <3>2, <4>5, ValidatorAssumption DEF ActiveFor, ActiveOf, ApplyBlock
    <3> QED BY <3>1, <3>2
  <2>3. CertifiedStake(vals, blocks[n][h].cert) >= QuorumThreshold(vals)
    BY <2>1 DEF Certs, ValidateQuorumCertificate
  <2>4. CertifiedStake(vals, blocks[n][h].cert) = StakeSum(vals, I) /\ I \in SUBSET DOMAIN vals
    BY DEF CertifiedStake
  <2> HIDE DEF vals, I
  <2>5. CertifiedStake(vals, blocks[n][h].cert) \in Nat /\ TotalStake(vals) \in Nat
    BY <2>2, <2>4, StakeSumNat DEF TotalStake
  <2>6. \A c, t \in Nat : c >= (2 * t) \div 3 + 1 => 3 * c > 2 * t
    OBVIOUS
  <2> QED BY <2>3, <2>5, <2>6 DEF QuorumThreshold, vals
<1> QED BY <1>1, <1>2, TypeInvAlways, SafeInvAlways, CertsPreserved, PTL DEF Spec

-------------------------------------------------------------------------------
(* The engines implement Finality. *)

Highest(n) == \A m \in Node : saved[m].height <= saved[n].height
ChainOf(n) == [h \in 1..saved[n].height |-> FinalBlock(n, h)]

\* Some node is furthest, and the chain is that of any node that is.
LEMMA ChainOfHighest ==
  TypeInv /\ SafeInv =>
    /\ \E n \in Node : Highest(n)
    /\ \A n \in Node : Highest(n) => /\ FinalChain = ChainOf(n)
                                     /\ Len(FinalChain) = saved[n].height
<1>1. SUFFICES ASSUME TypeInv, SafeInv
               PROVE  /\ \E n \in Node : Highest(n)
                      /\ \A n \in Node : Highest(n) => /\ FinalChain = ChainOf(n)
                                                       /\ Len(FinalChain) = saved[n].height
  OBVIOUS
<1>2. \A n \in Node : saved[n].height \in Nat
  BY <1>1, HeightNat
<1>3. ASSUME NEW n \in Node PROVE saved[n].height <= MaxHeight
  <2>1. MaxHeight \in Nat
    BY BoundAssumption
  <2>2. CASE saved[n].height # 0
    <3>1. Top(n) # None
      BY <1>1, <2>2, TopFits
    <3>2. saved[n].height \in 1..MaxHeight
      BY <1>1, <3>1, Stored DEF Top
    <3> QED BY <3>2
  <2> QED BY <2>1, <2>2
<1> DEFINE S == {saved[n].height : n \in Node}
<1>4. S \in SUBSET Nat /\ S # {} /\ \A x \in S : x <= MaxHeight
  BY <1>2, <1>3, SomeNode
<1>5. MaxHeight \in Nat
  BY BoundAssumption
<1> HIDE DEF S
<1>6. \E x \in S : \A y \in S : y <= x
  BY <1>4, <1>5, LargestBelow
<1>7. \E n \in Node : Highest(n)
  BY <1>6 DEF S, Highest
<1>8. ASSUME NEW n \in Node, Highest(n), NEW m \in Node, Highest(m)
      PROVE  ChainOf(m) = ChainOf(n)
  <2>1. saved[m].height = saved[n].height
    BY <1>2, <1>8 DEF Highest
  <2>2. \A h \in 1..saved[n].height : FinalBlock(n, h) = FinalBlock(m, h)
    BY <1>1, <1>2, <2>1 DEF SafeInv, Agreement
  <2> QED BY <2>1, <2>2 DEF ChainOf
<1>9. ASSUME NEW n \in Node, Highest(n)
      PROVE  FinalChain = ChainOf(n) /\ Len(FinalChain) = saved[n].height
  <2> DEFINE t == CHOOSE q \in Node : \A m \in Node : saved[m].height <= saved[q].height
  <2>1. \E q \in Node : \A m \in Node : saved[m].height <= saved[q].height
    BY <1>7 DEF Highest
  <2>2. t \in Node /\ \A m \in Node : saved[m].height <= saved[t].height
    BY <2>1
  <2>3. FinalChain = ChainOf(t)
    BY DEF FinalChain, ChainOf
  <2> HIDE DEF t
  <2>4. FinalChain = ChainOf(n)
    BY <1>8, <1>9, <2>2, <2>3 DEF Highest
  <2>5. \A h \in 1..saved[n].height : FinalBlock(n, h) \in HBlock
    BY <1>1, SafeChain, Stored DEF ChainInv, Linked
  <2> HIDE DEF HBlock
  <2>6. ChainOf(n) \in [1..saved[n].height -> HBlock]
    BY <2>5 DEF ChainOf
  <2>7. Len(ChainOf(n)) = saved[n].height
    BY <1>2, <2>6
  <2> QED BY <2>4, <2>7
<1> QED BY <1>7, <1>9

\* The chain of a highest node is the final chain, after the step too.
LEMMA ChainOfHighestAfter ==
  TypeInv' /\ SafeInv' =>
    \A n \in Node : Highest(n)' => /\ FinalChain' = ChainOf(n)'
                                   /\ Len(FinalChain)' = saved'[n].height
<1>1. (TypeInv /\ SafeInv =>
         \A n \in Node : Highest(n) => /\ FinalChain = ChainOf(n)
                                       /\ Len(FinalChain) = saved[n].height)'
  BY ChainOfHighest, PTL
<1> QED BY <1>1

\* Every step of the engines is a step of Finality or leaves its variables alone.
LEMMA FinalityStep ==
  ASSUME NoSoleQuorum
  PROVE  TypeInv /\ SafeInv /\ TypeInv' /\ SafeInv' /\ [Next]_vars
           => [Abstract!Next]_(Abstract!vars)
<1>1. SUFFICES ASSUME TypeInv, SafeInv, TypeInv', SafeInv', [Next]_vars
               PROVE  Abstract!Next \/ Abstract!vars' = Abstract!vars
  OBVIOUS
<1> DEFINE at == [m \in Node |-> saved[m].height]
<1>2. \A m \in Node : saved[m].height \in Nat
  BY <1>1, HeightNat
<1>3. PICK t \in Node : Highest(t)
  BY <1>1, ChainOfHighest
<1>4. FinalChain = ChainOf(t) /\ Len(FinalChain) = saved[t].height
  BY <1>1, <1>3, ChainOfHighest
<1>5. \A n \in Node : Highest(n)' => /\ FinalChain' = ChainOf(n)'
                                     /\ Len(FinalChain)' = saved'[n].height
  BY <1>1, ChainOfHighestAfter
<1>6. CASE KeepsDisks
  <2>1. saved' = saved /\ \A h \in 0..saved[t].height : FinalBlock(t, h)' = FinalBlock(t, h)
    BY <1>6 DEF KeepsDisks
  <2>2. Highest(t)'
    BY <1>3, <2>1 DEF Highest
  <2>3. ChainOf(t)' = ChainOf(t)
    <3>1. \A h \in 1..saved[t].height : h \in 0..saved[t].height
      BY <1>2
    <3> QED BY <2>1, <3>1 DEF ChainOf
  <2>4. FinalChain' = FinalChain
    BY <1>4, <1>5, <2>2, <2>3
  <2>5. at' = at
    BY <2>1
  <2> QED BY <2>4, <2>5 DEF Abstract!vars
<1>7. ASSUME NEW n \in Node, NEW b \in HBlock, Extends(n, b) PROVE Abstract!Next
  <2>1. /\ saved'[n].height = saved[n].height + 1
        /\ \A h \in 0..saved[n].height : FinalBlock(n, h)' = FinalBlock(n, h)
        /\ \A m \in Node \ {n} : saved'[m] = saved[m] /\ \A h : FinalBlock(m, h)' = FinalBlock(m, h)
    BY <1>7 DEF Extends, ApplyBlock
  <2>2. at' = [at EXCEPT ![n] = @ + 1]
    <3>1. \A m \in Node : saved'[m].height = IF m = n THEN saved[n].height + 1 ELSE saved[m].height
      BY <2>1
    <3> QED BY <3>1
  <2>3. at[n] = saved[n].height
    OBVIOUS
  <2> HIDE DEF at
  <2>4. CASE Highest(n)
    <3>1. FinalChain = ChainOf(n) /\ Len(FinalChain) = saved[n].height
      BY <1>1, <2>4, ChainOfHighest
    <3>2. Highest(n)'
      BY <1>2, <2>1, <2>4 DEF Highest
    <3>3. FinalChain' = ChainOf(n)' /\ Len(FinalChain)' = saved[n].height + 1
      BY <1>5, <2>1, <3>2
    <3>4. \A h \in 1..saved[n].height : ChainOf(n)'[h] = ChainOf(n)[h]
      <4>1. ASSUME NEW h \in 1..saved[n].height
            PROVE  ChainOf(n)'[h] = FinalBlock(n, h)' /\ ChainOf(n)[h] = FinalBlock(n, h)
        <5>1. h \in 1..saved'[n].height
          BY <1>2, <2>1
        <5> QED BY <5>1 DEF ChainOf
      <4>2. \A h \in 1..saved[n].height : h \in 0..saved[n].height
        BY <1>2
      <4> QED BY <2>1, <4>1, <4>2
    <3>5. /\ at[n] = Len(FinalChain)
          /\ Len(FinalChain') = Len(FinalChain) + 1
          /\ \A h \in 1..Len(FinalChain) : FinalChain'[h] = FinalChain[h]
      BY <2>3, <3>1, <3>3, <3>4
    <3>6. Abstract!Finalize(n)
      BY <2>2, <3>5 DEF Abstract!Finalize, at
    <3> QED BY <3>6 DEF Abstract!Next
  <2>5. CASE ~Highest(n)
    <3>1. saved[n].height < saved[t].height /\ t # n
      <4>1. PICK m \in Node : ~(saved[m].height <= saved[n].height)
        BY <2>5 DEF Highest
      <4>2. saved[m].height <= saved[t].height
        BY <1>3 DEF Highest
      <4> QED BY <1>2, <4>1, <4>2
    <3>2. Highest(t)'
      BY <1>2, <1>3, <2>1, <3>1 DEF Highest
    <3>3. ChainOf(t)' = ChainOf(t)
      BY <2>1, <3>1 DEF ChainOf
    <3>4. FinalChain' = FinalChain
      BY <1>4, <1>5, <3>2, <3>3
    <3>5. at[n] < Len(FinalChain)
      BY <1>4, <2>3, <3>1
    <3>6. Abstract!CatchUp(n)
      BY <2>2, <3>4, <3>5 DEF Abstract!CatchUp, at
    <3> QED BY <3>6 DEF Abstract!Next
  <2> QED BY <2>4, <2>5
<1>8. ASSUME NEW n \in Node, StepOf(n) PROVE KeepsDisks \/ \E b \in HBlock : Extends(n, b)
  BY <1>1, <1>8, DiskStep DEF Extends
<1>9. CASE UNCHANGED vars
  <2>1. KeepsDisks
    BY <1>9 DEF KeepsDisks, FinalBlock, vars
  <2> QED BY <1>6, <2>1
<1> QED BY <1>1, <1>6, <1>7, <1>8, <1>9, StepShapes

\* The engines implement Finality: a block that a node has executed and saved is
\* never replaced, and all nodes execute the same blocks one after the other
\* (commitBlock, SyncToNetwork, OnFinalizedBlock, NewNode).
THEOREM EnginesImplementFinality ==
  ASSUME NoSoleQuorum
  PROVE  Spec => BlocksAreFinal
<1>1. Init => Abstract!Init
  <2>1. SUFFICES ASSUME Init PROVE Abstract!Init
    OBVIOUS
  <2>2. TypeInv /\ SafeInv
    BY <2>1, TypeInitially, SafeInitially
  <2>3. \A n \in Node : saved[n].height = 0
    BY <2>1 DEF Init, GenesisState
  <2>4. PICK n \in Node : Highest(n)
    BY <2>2, ChainOfHighest
  <2>5. FinalChain = ChainOf(n)
    BY <2>2, <2>4, ChainOfHighest
  <2>6. ChainOf(n) = << >>
    <3>1. 1..saved[n].height = {}
      BY <2>3
    <3> QED BY <3>1 DEF ChainOf
  <2> QED BY <2>3, <2>5, <2>6 DEF Abstract!Init
<1> QED BY <1>1, TypeInvAlways, SafeInvAlways, FinalityStep, PTL
        DEF Spec, BlocksAreFinal, Abstract!Spec
=============================================================================
