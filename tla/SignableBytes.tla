---------------------------- MODULE SignableBytes ----------------------------
(***************************************************************************)
(* The bytes a transaction is signed over, as the web application writes    *)
(* them (wallet/signableBytes.ts) and as the node writes them for the        *)
(* transaction it reads from the request (types/transaction.go, rpc).        *)
(* Nothing ties the two together but the signature check: one byte of        *)
(* difference and no transaction of the application is accepted.            *)
(*                                                                         *)
(* Byte values, integer widths and the lengths of addresses and identifiers *)
(* are parameters; TLC takes small ones.  Text is a sequence of characters  *)
(* of one or more bytes each.                                               *)
(***************************************************************************)
EXTENDS Naturals, Sequences, SequencesExt

CONSTANTS
    None,             \* an absent recipient or post
    Base,             \* the number of byte values, 256 in the code
    Width32, Width64, \* the bytes of an integer, 4 and 8 in the code
    Utf8,             \* the bytes of a character
    AddressBytes,     \* the bytes of an address, 24 in the code
    PublicKeyBytes,   \* the public key of an address, 32 bytes in the code
    PostBytes,        \* the bytes of a post identifier, 32 in the code
    AddressLen, PostIdLen

Byte == 0..(Base - 1)

Zeros(n) == [i \in 1..n |-> 0]

\* Names of one length that their bytes tell apart; the zeros are nobody's.
IsNaming(code, length) ==
    /\ IsInjective(code)
    /\ \A x \in DOMAIN code : /\ code[x] \in Seq(Byte) /\ Len(code[x]) = length
                               /\ code[x] # Zeros(length)

ASSUME EncodingAssumption ==
    /\ Base \in Nat \ {0, 1} /\ Width32 \in Nat \ {0} /\ Width64 \in Nat \ {0}
    /\ AddressLen \in Nat /\ IsNaming(AddressBytes, AddressLen)
    /\ PostIdLen \in Nat /\ IsNaming(PostBytes, PostIdLen)
    /\ \A a \in DOMAIN PublicKeyBytes : PublicKeyBytes[a] \in Seq(Byte)
    \* UTF-8 is a prefix code
    /\ \A c \in DOMAIN Utf8 : Utf8[c] \in Seq(Byte) /\ Utf8[c] # << >>
    /\ \A c, d \in DOMAIN Utf8 : c # d => ~ IsPrefix(Utf8[c], Utf8[d])

\* v without its last n bytes
Shifted(v) == LET shift[n \in Nat] == IF n = 0 THEN v ELSE shift[n - 1] \div Base
              IN  shift

\* Big-endian, cut to the width
WriteUint(v, width) == [i \in 1..width |-> Shifted(v)[width - i] % Base]

\* Nothing of v is cut off.
Fits(v, width) == Shifted(v)[width] = 0

WriteUint32(v) == WriteUint(v, Width32)
WriteUint64(v) == WriteUint(v, Width64)

WriteLenPrefixed(data) == WriteUint64(Len(data)) \o data

\* Mistake: one byte per character.
EncodeTextLatin(text) == [i \in DOMAIN text |-> Head(Utf8[text[i]])]

\* TextEncoder
EncodeText(text) == FlattenSeq([i \in DOMAIN text |-> Utf8[text[i]]])

-----------------------------------------------------------------------------
(* The application.  A transaction has the fields type, sender, recipient,   *)
(* postId, text, channel, amount, nonce and pubKey.                          *)

ComputeSignableBytes(tx) ==
    WriteUint32(tx.type)
    \o WriteLenPrefixed(AddressBytes[tx.sender])
    \o WriteLenPrefixed(IF tx.recipient = None THEN Zeros(AddressLen)
                        ELSE AddressBytes[tx.recipient])
    \o WriteLenPrefixed(IF tx.postId = None THEN Zeros(PostIdLen)
                        ELSE PostBytes[tx.postId])
    \o WriteLenPrefixed(EncodeText(tx.text))
    \o WriteLenPrefixed(EncodeText(tx.channel))
    \o WriteUint64(tx.amount)
    \o WriteUint64(tx.nonce)
    \o WriteLenPrefixed(PublicKeyBytes[tx.pubKey])

\* What computeTxHash hashes
TxHashBytes(tx, signature) ==
    WriteLenPrefixed(ComputeSignableBytes(tx)) \o WriteLenPrefixed(signature)

\* Mistake: the author is left out.
PostIdBytesByNonce(author, nonce) == WriteUint64(nonce)

\* What derivePostID hashes
PostIdBytes(author, nonce) ==
    WriteLenPrefixed(AddressBytes[author]) \o WriteUint64(nonce)

\* An ed25519 signature is valid for one key and one message.
Sign(key, message) == [key |-> key, message |-> message]

TypeNames == <<"transfer", "create_post", "boost_post", "register_name",
               "stake", "unstake", "unstake_post">>

\* The body of POST /v1/transactions: the type by its name, absent fields left
\* out, numbers as strings
SubmitRequest(tx, signature) ==
    [type |-> TypeNames[tx.type], sender |-> tx.sender, recipient |-> tx.recipient,
     postId |-> tx.postId, text |-> tx.text, channel |-> tx.channel,
     amount |-> tx.amount, nonce |-> tx.nonce, pubKey |-> tx.pubKey,
     signature |-> signature]

-----------------------------------------------------------------------------
(* The node.  A transaction is a struct of byte arrays of fixed size.        *)

ParseTxType(name) == CHOOSE i \in DOMAIN TypeNames : TypeNames[i] = name

ReceivedTx(req) ==
    [Type      |-> ParseTxType(req.type),
     Sender    |-> AddressBytes[req.sender],
     Recipient |-> IF req.recipient = None THEN Zeros(AddressLen)
                   ELSE AddressBytes[req.recipient],
     PostID    |-> IF req.postId = None THEN Zeros(PostIdLen)
                   ELSE PostBytes[req.postId],
     Text      |-> FlattenSeq([i \in DOMAIN req.text |-> Utf8[req.text[i]]]),
     Channel   |-> FlattenSeq([i \in DOMAIN req.channel |-> Utf8[req.channel[i]]]),
     Amount    |-> req.amount,
     Nonce     |-> req.nonce,
     PubKey    |-> PublicKeyBytes[req.pubKey]]

\* hw.WriteBytes and hw.WriteString
WriteBytes(b) == WriteUint(Len(b), Width64) \o b

GoSignableBytes(t) ==
    FlattenSeq(<<WriteUint(t.Type, Width32), WriteBytes(t.Sender),
                 WriteBytes(t.Recipient), WriteBytes(t.PostID),
                 WriteBytes(t.Text), WriteBytes(t.Channel),
                 WriteUint(t.Amount, Width64), WriteUint(t.Nonce, Width64),
                 WriteBytes(t.PubKey)>>)

\* Mempool.Add: the key is the sender's and has signed these bytes
Verifies(req) ==
    /\ req.pubKey = req.sender
    /\ req.signature = Sign(req.pubKey, GoSignableBytes(ReceivedTx(req)))
=============================================================================
