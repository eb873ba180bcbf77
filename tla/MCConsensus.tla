----------------------------- MODULE MCConsensus -----------------------------
(* Three validators for TLC. *)
EXTENDS Consensus

CONSTANTS
  n1, n2, n3,   \* validators, and the addresses at which they listen
  x3            \* a second address of n3

Val(a, s) == [addr |-> a, stake |-> s]

\* Two of three can decide: 5 of 6 are needed.  n1 proposes height 1, n2 the next.
MCGenesis == <<Val(n1, 2), Val(n2, 3), Val(n3, 1)>>

\* n2 leaves; n3 becomes the proposer of height 2 and would have been the one of
\* height 1.  In the second set it needs nobody else.
MCShifted == <<Val(n1, 1), Val(n3, 2)>>
MCDominated == <<Val(n1, 1), Val(n3, 5)>>

\* Nothing changes; or a block shifts the stake, or leaves nobody in the set, so
\* that the genesis validators step in.
MCSteady == {MCGenesis}
MCShifting == {<< >>, MCShifted}
MCDominating == {MCDominated}

\* Everybody is connected to everybody else at one endpoint.
MCOwner == [e \in Node |-> e]
MCPeers == [n \in Node |-> Node \ {n}]

\* n2 is connected to n3 at two endpoints and counts its vote twice: with stakes 3
\* and 1 it then needs nobody else, although the two have 4 of 6 only.  n3 knows
\* n1 only.
MCOwnerTwice == [e \in Node \cup {x3} |-> IF e = x3 THEN n3 ELSE e]
MCPeersTwice == [n \in Node |-> CASE n = n1 -> {n2, n3}
                               [] n = n2 -> {n1, n3, x3}
                               [] n = n3 -> {n1}]
=============================================================================
