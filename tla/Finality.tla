------------------------------- MODULE Finality -------------------------------
(***************************************************************************)
(* What the consensus engine promises: there is one chain of final blocks, *)
(* it only ever grows by one block at its end, and every node has a prefix *)
(* of it that only ever grows by one block.                                *)
(***************************************************************************)
EXTENDS Integers, Sequences

CONSTANT Node

VARIABLES
  chain,   \* the final blocks
  at       \* at[n]: how many of them node n has executed and saved

vars == <<chain, at>>

Init ==
  /\ chain = << >>
  /\ at = [n \in Node |-> 0]

\* A node at the end of the chain makes one more block final.
Finalize(n) ==
  /\ at[n] = Len(chain)
  /\ Len(chain') = Len(chain) + 1
  /\ \A h \in 1..Len(chain) : chain'[h] = chain[h]
  /\ at' = [at EXCEPT ![n] = @ + 1]

\* A node executes a block that is final already.
CatchUp(n) ==
  /\ at[n] < Len(chain)
  /\ at' = [at EXCEPT ![n] = @ + 1]
  /\ UNCHANGED chain

Next == \E n \in Node : Finalize(n) \/ CatchUp(n)

Spec == Init /\ [][Next]_vars
=============================================================================
