---------------------------- MODULE MCPendingTxs ----------------------------
(* Two wallets, a reply whose text is a character of two bytes, and a payment. *)
(* An integer has one byte.                                                  *)
EXTENDS PendingTxs

CONSTANTS a1, a2, p1, reply, pay

MCFormData ==
    reply :> [type |-> 2, recipient |-> None, postId |-> p1,
              text |-> <<"e">>, channel |-> << >>, amount |-> 1]
    @@ pay :> [type |-> 1, recipient |-> a1, postId |-> None,
              text |-> << >>, channel |-> << >>, amount |-> 1]

MCUtf8 == "e" :> <<6, 5>> @@ "b" :> <<2>>
MCAddressBytes == a1 :> <<1>> @@ a2 :> <<2>>
MCPublicKeyBytes == a1 :> <<3, 3>> @@ a2 :> <<4, 4>>
MCPostBytes == p1 :> <<7>>
=============================================================================
