----------------------------- MODULE StakeQuorum -----------------------------
(***************************************************************************)
(* Proposer selection and vote counting (internal/consensus/proposer.go,   *)
(* validator.go and the count in engine.go).  A validator set is a         *)
(* sequence of records, in the order the code keeps it: sorted by address  *)
(* when an epoch computed it, in file order when it comes from genesis.    *)
(***************************************************************************)
EXTENDS Integers, Sequences, Functions

CONSTANT None   \* the zero address, a nil pointer

\* A validator set over the addresses A: no address occurs twice.
IsValidatorSet(vals, A) ==
  /\ vals \in Seq([addr: A, stake: Nat])
  /\ \A i, j \in DOMAIN vals : vals[i].addr = vals[j].addr => i = j

\* The stake of the validators at the positions I.
StakeSum(vals, I) == SumFunctionOnSet([i \in DOMAIN vals |-> vals[i].stake], I)

TotalStake(vals) == StakeSum(vals, DOMAIN vals)

\* Mistake: everybody has to agree.
QuorumThresholdAll(vals) == TotalStake(vals)

\* The stake a block needs: floor(2/3 of the total) + 1.
QuorumThreshold(vals) == (2 * TotalStake(vals)) \div 3 + 1

\* The validator on whose stretch of the cumulative stake height falls; one
\* after the other when nobody has stake; nobody (the zero address) for
\* an empty set.
ProposerForHeight(vals, height) ==
  LET total   == TotalStake(vals)
      reached == {i \in DOMAIN vals : height % total < StakeSum(vals, 1..i)}
      first   == CHOOSE i \in reached : \A j \in reached : i <= j
  IN  IF vals = << >> THEN None
      ELSE IF total = 0 THEN vals[(height % Len(vals)) + 1].addr
      ELSE vals[first].addr

\* stakeMap: the stake of address a, 0 when it is not a validator.
StakeOf(vals, a) == StakeSum(vals, {i \in DOMAIN vals : vals[i].addr = a})

\* ValidateQuorumCertificate: the stake of the distinct validators that voted.
CertifiedStake(vals, voters) ==
  StakeSum(vals, {i \in DOMAIN vals : vals[i].addr \in voters})

ValidateQuorumCertificate(vals, voters) ==
  CertifiedStake(vals, voters) >= QuorumThreshold(vals)

\* proposeBlock: the stake of the proposer and of every answer it got, one
\* answer per connection, whoever is at the other end of it.
CountedStake(vals, proposer, answers, owner) ==
  StakeOf(vals, proposer)
  + SumFunctionOnSet([e \in answers |-> StakeOf(vals, owner[e])], answers)
=============================================================================
