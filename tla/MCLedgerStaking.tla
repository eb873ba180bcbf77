---------------------------- MODULE MCLedgerStaking ----------------------------
(* Staking, unbonding, slashing and epochs: a genesis validator and an      *)
(* account that may join them.                                              *)
EXTENDS Ledger, TLC
CONSTANTS ann, bob
MCBalance == (ann :> 7) @@ (bob :> 4)
MCStake   == ann :> 3
================================================================================
