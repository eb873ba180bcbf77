------------------------------ MODULE MCWallet ------------------------------
(* Two key pairs for TLC, one of which has a name on the chain already. *)
EXTENDS Wallet

CONSTANTS w1, w2
=============================================================================
