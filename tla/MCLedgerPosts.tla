----------------------------- MODULE MCLedgerPosts -----------------------------
(* Three accounts, one of which appears only when it is paid, and fees of a *)
(* quarter each, so that amounts of 4 and 8 exercise the rounding.          *)
EXTENDS Ledger, TLC
CONSTANTS ann, bob, cat
MCBalance == (ann :> 12) @@ (bob :> 8)
MCStake   == ann :> 2
================================================================================
