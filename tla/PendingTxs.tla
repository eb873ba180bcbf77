----------------------------- MODULE PendingTxs -----------------------------
(***************************************************************************)
(* Transactions of the web application from the dialog to the chain: the    *)
(* handlers of the four dialogs that spend (components/SendModal,           *)
(* NewPostModal, BoostModal, UnstakeModal), signAndSubmit                   *)
(* (wallet/WalletContext.tsx) and the list of transactions that wait for a   *)
(* block (wallet/PendingContext.tsx), with the node they talk to.           *)
(*                                                                         *)
(* The list is React state that is written in two ways: by a function of    *)
(* the current list, and as a whole from the list that an effect saw when   *)
(* it started.  Every await is a step in which anything else may happen.    *)
(* The wallet in use is taken to be unlocked; Wallet is about that.          *)
(***************************************************************************)
EXTENDS SignableBytes, FiniteSets, Lists

CONSTANTS
    Address,           \* the user's wallets
    Form,              \* the filled-in dialogs
    FormData,          \* type, recipient, postId, text, channel, amount of each
    MinPost, MinBoost, \* least amounts of NewPostModal and BoostModal
    Funds,             \* what each account has at the start
    MaxNonce,          \* bound: transactions of one account
    MaxAdded,          \* bound: transactions the user makes
    MaxCalls,          \* bound: dialogs and reconciliations that wait at the same time
    MaxPolls,          \* bound: polls that wait at the same time
    MaxMoves           \* bound: times the user switches the wallet or reloads the page

\* No number of a transaction is cut to its width, and no two dialogs are the same.
FormsAreWritten ==
    /\ IsInjective(FormData)
    /\ Fits(7, Width32) /\ Fits(MaxNonce, Width64)
    /\ \A f \in Form : /\ Fits(FormData[f].amount, Width64)
                       /\ Fits(Len(EncodeText(FormData[f].text)), Width64)
                       /\ Fits(Len(EncodeText(FormData[f].channel)), Width64)

ASSUME PendingAssumption ==
    /\ IsFiniteSet(Address) /\ None \notin Address
    /\ Address \subseteq DOMAIN AddressBytes \cap DOMAIN PublicKeyBytes
    /\ FormData \in [Form -> [type : {1, 2, 3, 7},
                              recipient : DOMAIN AddressBytes \cup {None},
                              postId : DOMAIN PostBytes \cup {None},
                              text : Seq(DOMAIN Utf8), channel : Seq(DOMAIN Utf8),
                              amount : Nat]]
    /\ FormsAreWritten
    /\ Funds \in Nat /\ MinPost \in Nat /\ MinBoost \in Nat
    /\ MaxNonce \in Nat /\ MaxAdded \in Nat /\ MaxCalls \in Nat /\ MaxPolls \in Nat
    /\ MaxMoves \in Nat

\* How long ago an entry was added: less than 15 seconds, less than 5 minutes,
\* less than 10 minutes, longer.
Just15s == 1
Over5min == 2
Over10min == 3

\* A transaction, and its hash
Tx == [form : Form, sender : Address, nonce : 1..MaxNonce]

Amount(t) == FormData[t.form].amount

VARIABLES
    address,            \* the wallet in use
    balance,            \* its balance, as last read
    txs,                \* PendingContext: entries, each a number and a status
    drana_pending_txs,  \* localStorage: the same list
    added,              \* transaction and age of the entries, by their number
    submits,            \* signAndSubmit calls that wait
    polls,              \* polls that wait
    reconciles,         \* getMempoolPending calls that wait
    checks,             \* getTxStatus calls of reconciliations that wait
    mempool, confirmed, \* the node: transactions in the pool and in blocks
    moves

app == <<address, balance>>
list == <<txs, drana_pending_txs, added>>
waiting == <<submits, polls, reconciles, checks>>
node == <<mempool, confirmed>>
vars == <<app, list, waiting, node, moves>>

Status == {"pending", "confirmed", "failed"}
Entry == [n : DOMAIN added, status : Status]
\* Of an asked status: not asked yet, not in a block, no change, or a new status
Answer == {"ask", "absent", "same", "confirmed", "failed"}

TypeOK ==
    /\ address \in Address
    /\ balance \in 0..(Funds * Cardinality(Address))
    /\ txs \in Seq(Entry) /\ drana_pending_txs \in Seq(Entry)
    /\ added \in Seq([tx : Tx, age : 0..Over10min])
    /\ \A s \in submits :
         /\ s.form \in Form /\ s.sender \in Address /\ s.id \in 1..MaxCalls
         /\ s.nonce \in 0..MaxNonce
         /\ s.phase \in {"resolve", "nonce", "send", "checked", "accepted", "rejected"}
    /\ \A p \in polls : p.list \in Seq(Entry) /\ p.got \in Seq(Answer)
                        /\ DOMAIN p.list = DOMAIN p.got
    /\ \A r \in reconciles :
         r.list \in Seq(Entry) /\ r.sender \in Address /\ r.hashes \subseteq Tx
         /\ r.answered \in BOOLEAN
    /\ checks \subseteq [tx : Tx, got : Answer]
    /\ mempool \subseteq Tx /\ confirmed \subseteq Tx
    /\ moves \in 0..MaxMoves

Init ==
    /\ address \in Address
    /\ balance = 0
    /\ txs = << >> /\ drana_pending_txs = << >> /\ added = << >>
    /\ submits = {} /\ polls = {} /\ reconciles = {} /\ checks = {}
    /\ mempool = {} /\ confirmed = {}
    /\ moves = 0

-----------------------------------------------------------------------------
(* The node: its accounts, Mempool.Add, blocks of one transaction.           *)

Of(S, a) == {t \in S : t.sender = a}

AccountNonce(a) == Cardinality(Of(confirmed, a))

Amounts == [t \in Tx |-> Amount(t)]

TotalAmount(S) == SumFunctionOnSet(Amounts, S)

\* applyTransfer and the others: the sender pays, the recipient of a payment gets.
AccountBalance(a) ==
    Funds - TotalAmount(Of(confirmed, a))
          + TotalAmount({t \in confirmed : FormData[t.form].recipient = a})

\* The transaction that signAndSubmit builds and the bytes it signs
FullTx(t) ==
    LET d == FormData[t.form]
    IN  [type |-> d.type, sender |-> t.sender, recipient |-> d.recipient,
         postId |-> d.postId, text |-> d.text, channel |-> d.channel,
         amount |-> d.amount, nonce |-> t.nonce, pubKey |-> t.sender]

SignedBytes == [t \in Tx |-> ComputeSignableBytes(FullTx(t))]

Request(t) == SubmitRequest(FullTx(t), Sign(t.sender, SignedBytes[t]))

\* The requests whose signature the node finds correct
Genuine == {t \in Tx : Verifies(Request(t))}

\* Mempool.Add before it takes its lock
PassesChecks(t) ==
    /\ t \in Genuine
    /\ Amount(t) > 0 => AccountBalance(t.sender) >= Amount(t)
    /\ t.nonce > AccountNonce(t.sender)

\* Mistake: the nonce is compared with those of other senders.
EvictStaleOfAll(pool, done) ==
    {u \in pool : \A t \in done : u.nonce > t.nonce}

\* EvictStale: the nonce of every sender in the blocks is done.
EvictStale(pool, done) == {u \in pool : u.nonce > Cardinality(Of(done, u.sender))}

\* A block takes only what the executor's validation lets pass; nobody can pay
\* himself.
Confirm(t) ==
    /\ t \in mempool
    /\ t.nonce = AccountNonce(t.sender) + 1
    /\ AccountBalance(t.sender) >= Amount(t)
    /\ FormData[t.form].recipient # t.sender
    /\ confirmed' = confirmed \cup {t}
    /\ mempool' = EvictStale(mempool \ {t}, confirmed')
    /\ UNCHANGED <<app, list, waiting, moves>>

-----------------------------------------------------------------------------
(* The list *)

\* The hash of an entry stands for the transaction.
Hash(e) == added[e.n].tx
Age(e) == added[e.n].age

\* setTxs and the effect that saves what it sets
SetTxs(l) == txs' = l /\ drana_pending_txs' = l

HasPending(l) == \E i \in DOMAIN l : l[i].status = "pending"

SetStatus(l, t, status) ==
    [i \in DOMAIN l |-> IF Hash(l[i]) = t THEN [l[i] EXCEPT !.status = status]
                        ELSE l[i]]

PendingOutgoing ==
    FoldSeq(LAMBDA e, sum : (IF e.status = "pending" THEN Amount(Hash(e)) ELSE 0) + sum,
            0, txs)

\* Entries grow older, none overtaking one that was added before it.
GrowOlder(i) ==
    /\ added[i].age < Over10min
    /\ i > 1 => added[i].age < added[i - 1].age
    /\ added' = [added EXCEPT ![i].age = @ + 1]
    /\ UNCHANGED <<app, txs, drana_pending_txs, waiting, node, moves>>

CallsWait == Cardinality(submits) + Cardinality(reconciles) + Cardinality(checks)

-----------------------------------------------------------------------------
(* Spending.  handleSend, handleSubmit, handleBoost and handleUnstake.        *)

\* What the handlers check before their first await
Available == balance - PendingOutgoing

SendIsValid(d) == d.amount > 0 /\ d.recipient # None /\ d.amount <= Available

PostIsValid(d) == d.amount >= MinPost /\ d.text # << >> /\ d.amount <= Available

BoostIsValid(d) == d.amount >= MinBoost /\ d.amount <= Available

\* Unstaking costs nothing.
UnstakeIsValid(d) == d.amount = 0

FormIsValid(d) ==
    CASE d.type = 1 -> SendIsValid(d)
      [] d.type = 2 -> PostIsValid(d)
      [] d.type = 3 -> BoostIsValid(d)
      [] d.type = 7 -> UnstakeIsValid(d)

\* A dialog that waits can be closed and another one opened.
StartSubmit(f, id) ==
    /\ \A s \in submits : s.id # id
    /\ CallsWait < MaxCalls /\ Len(added) + Cardinality(submits) < MaxAdded
    /\ FormIsValid(FormData[f])
    /\ submits' = submits \cup
         {[id |-> id, form |-> f, sender |-> address, nonce |-> 0,
           phase |-> IF FormData[f].type = 1 THEN "resolve" ELSE "nonce"]}
    /\ UNCHANGED <<app, list, polls, reconciles, checks, node, moves>>

Advance(s, s2) == submits' = (submits \ {s}) \cup {s2}

TxOf(s) == [form |-> s.form, sender |-> s.sender, nonce |-> s.nonce]

\* resolveName of SendModal: the recipient's name has been looked up
Resolved(s) ==
    /\ s \in submits /\ s.phase = "resolve"
    /\ Advance(s, [s EXCEPT !.phase = "nonce"])
    /\ UNCHANGED <<app, list, polls, reconciles, checks, node, moves>>

\* acct.nonce + 1
NextNonce(s) == AccountNonce(s.sender) + 1

\* getAccount of signAndSubmit has answered; the transaction is signed and sent
NonceRead(s) ==
    /\ s \in submits /\ s.phase = "nonce"
    /\ NextNonce(s) <= MaxNonce
    /\ Advance(s, [s EXCEPT !.phase = "send", !.nonce = NextNonce(s)])
    /\ UNCHANGED <<app, list, polls, reconciles, checks, node, moves>>

\* Mempool.Add looks at the account ...
Checked(s) ==
    /\ s \in submits /\ s.phase = "send"
    /\ Advance(s, [s EXCEPT !.phase = IF PassesChecks(TxOf(s)) THEN "checked" ELSE "rejected"])
    /\ UNCHANGED <<app, list, polls, reconciles, checks, node, moves>>

\* ... and, with its lock, at the pool.  A pool that is full is left out.
Pooled(s) ==
    /\ s \in submits /\ s.phase = "checked"
    /\ Advance(s, [s EXCEPT !.phase = IF TxOf(s) \in mempool THEN "rejected" ELSE "accepted"])
    /\ mempool' = mempool \cup {TxOf(s)}
    /\ UNCHANGED <<app, list, polls, reconciles, checks, confirmed, moves>>

\* The answer: addPending, or an error in the dialog
SubmitDone(s) ==
    /\ s \in submits /\ s.phase \in {"accepted", "rejected"}
    /\ submits' = submits \ {s}
    /\ IF s.phase = "accepted"
         THEN /\ SetTxs(Append(txs, [n |-> Len(added) + 1, status |-> "pending"]))
              /\ added' = Append(added, [tx |-> TxOf(s), age |-> 0])
         ELSE UNCHANGED list
    /\ UNCHANGED <<app, polls, reconciles, checks, node, moves>>

\* A name that nobody has, no answer, or an answer that is lost
SubmitFails(s) ==
    /\ s \in submits
    /\ submits' = submits \ {s}
    /\ UNCHANGED <<app, list, polls, reconciles, checks, node, moves>>

\* refreshBalance, by its timer or after a submission
RefreshBalance ==
    /\ balance # AccountBalance(address)
    /\ balance' = AccountBalance(address)
    /\ UNCHANGED <<address, list, waiting, node, moves>>

-----------------------------------------------------------------------------
(* poll.  It asks for the status of every entry that is pending in the list  *)
(* of its effect and replaces the list by that one with the answers in it.   *)

\* Mistake: a transaction in the pool counts as confirmed.
InBlocksOrPool(t) == IF t \in confirmed \cup mempool THEN "confirmed" ELSE "absent"

\* handleGetTransactionStatus looks for the transaction in the blocks ...
InBlocks(t) == IF t \in confirmed THEN "confirmed" ELSE "absent"

\* Mistake: given up after 15 seconds even if it is in the pool.
FromPoolEager(e) == IF Age(e) >= Just15s THEN "failed" ELSE "same"

\* ... and then in the pool; poll takes a transaction that is in neither for
\* rejected once it is 15 seconds old.
FromPool(e) == IF Hash(e) \notin mempool /\ Age(e) >= Just15s THEN "failed" ELSE "same"

\* Mistake: no timeout.
FirstAnswerPatient(e) == IF e.status # "pending" THEN "same" ELSE "ask"

\* An entry of the list that poll starts with: one that has waited for 5 minutes
\* is given up.
FirstAnswer(e) == IF e.status # "pending" THEN "same"
                  ELSE IF Age(e) >= Over5min THEN "failed" ELSE "ask"

PollStart ==
    /\ HasPending(txs)
    /\ Cardinality(polls) < MaxPolls
    /\ polls' = polls \cup
         {[list |-> txs, got |-> [i \in DOMAIN txs |-> FirstAnswer(txs[i])]]}
    /\ UNCHANGED <<app, list, submits, reconciles, checks, node, moves>>

PollGets(p, i, answer) ==
    /\ polls' = (polls \ {p}) \cup {[p EXCEPT !.got[i] = answer]}
    /\ UNCHANGED <<app, list, submits, reconciles, checks, node, moves>>

PollAsks(p, i) ==
    /\ p \in polls /\ p.got[i] = "ask"
    /\ PollGets(p, i, InBlocks(Hash(p.list[i])))

PollAnswered(p, i) ==
    /\ p \in polls /\ p.got[i] = "absent"
    /\ PollGets(p, i, FromPool(p.list[i]))

PollUnreachable(p, i) ==
    /\ p \in polls /\ p.got[i] \in {"ask", "absent"}
    /\ PollGets(p, i, "same")

\* Mistake: the answer is taken for the status.
UpdatedRaw(p) == [i \in DOMAIN p.list |-> [p.list[i] EXCEPT !.status = p.got[i]]]

Updated(p) ==
    [i \in DOMAIN p.list |->
       IF p.got[i] \in Status THEN [p.list[i] EXCEPT !.status = p.got[i]]
       ELSE p.list[i]]

PollDone(p) ==
    /\ p \in polls
    /\ \A i \in DOMAIN p.got : p.got[i] \notin {"ask", "absent"}
    /\ polls' = polls \ {p}
    /\ IF \E i \in DOMAIN p.got : p.got[i] \in Status
         THEN SetTxs(Updated(p)) ELSE UNCHANGED <<txs, drana_pending_txs>>
    /\ UNCHANGED <<app, added, submits, reconciles, checks, node, moves>>

-----------------------------------------------------------------------------
(* Reconciliation with the node's pool, when the page is opened or the wallet *)
(* in use changes.                                                           *)

Reconcile(a, l) ==
    IF HasPending(l)
      THEN {[list |-> l, sender |-> a, answered |-> FALSE, hashes |-> {}]} ELSE {}

SwitchWallet(a) ==
    /\ a # address
    /\ address' = a
    /\ balance' = 0
    /\ CallsWait < MaxCalls
    /\ moves < MaxMoves
    /\ moves' = moves + 1
    /\ reconciles' = reconciles \cup Reconcile(a, txs)
    /\ UNCHANGED <<list, submits, polls, checks, node>>

Reload ==
    /\ moves < MaxMoves
    /\ moves' = moves + 1
    /\ txs' = drana_pending_txs
    /\ balance' = 0
    /\ submits' = {} /\ polls' = {} /\ checks' = {}
    /\ reconciles' = Reconcile(address, txs')
    /\ UNCHANGED <<address, drana_pending_txs, added, node>>

\* getMempoolPending answers with the sender's transactions.
ReconcileRead(r) ==
    /\ r \in reconciles /\ ~ r.answered
    /\ reconciles' = (reconciles \ {r}) \cup
         {[r EXCEPT !.answered = TRUE, !.hashes = Of(mempool, r.sender)]}
    /\ UNCHANGED <<app, list, submits, polls, checks, node, moves>>

\* The entries that the answer does not show to be waiting
Unlisted(r) == {Hash(r.list[i]) : i \in {j \in DOMAIN r.list :
                   r.list[j].status = "pending" /\ Hash(r.list[j]) \notin r.hashes}}

ReconcileDone(r) ==
    /\ r \in reconciles /\ r.answered
    /\ reconciles' = reconciles \ {r}
    /\ checks' = checks \cup {[tx |-> t, got |-> "ask"] : t \in Unlisted(r)}
    /\ IF Unlisted(r) # {} THEN SetTxs(r.list)
       ELSE UNCHANGED <<txs, drana_pending_txs>>
    /\ UNCHANGED <<app, added, submits, polls, node, moves>>

ReconcileFails(r) ==
    /\ r \in reconciles
    /\ reconciles' = reconciles \ {r}
    /\ UNCHANGED <<app, list, submits, polls, checks, node, moves>>

CheckAsks(c) ==
    /\ c \in checks /\ c.got = "ask"
    /\ checks' = (checks \ {c}) \cup {[c EXCEPT !.got = InBlocks(c.tx)]}
    /\ UNCHANGED <<app, list, submits, polls, reconciles, node, moves>>

CheckAnswered(c) ==
    /\ c \in checks /\ c.got = "absent"
    /\ checks' = (checks \ {c}) \cup
         {[c EXCEPT !.got = IF c.tx \in mempool THEN "same" ELSE "failed"]}
    /\ UNCHANGED <<app, list, submits, polls, reconciles, node, moves>>

\* The answer changes the entry in the current list.
CheckDone(c) ==
    /\ c \in checks /\ c.got \notin {"ask", "absent"}
    /\ checks' = checks \ {c}
    /\ IF c.got \in Status THEN SetTxs(SetStatus(txs, c.tx, c.got))
       ELSE UNCHANGED <<txs, drana_pending_txs>>
    /\ UNCHANGED <<app, added, submits, polls, reconciles, node, moves>>

CheckFails(c) ==
    /\ c \in checks
    /\ checks' = checks \ {c}
    /\ UNCHANGED <<app, list, submits, polls, reconciles, node, moves>>

\* Mistake: what is settled goes at once.
KeepsPending(e) == e.status = "pending"

\* Every 30 seconds: what is settled and older than 10 minutes goes.
Keeps(e) == e.status = "pending" \/ Age(e) < Over10min

CleanUp ==
    /\ \E i \in DOMAIN txs : ~ Keeps(txs[i])
    /\ SetTxs(Filter(txs, {e \in Entry : Keeps(e)}))
    /\ UNCHANGED <<app, added, waiting, node, moves>>

-----------------------------------------------------------------------------
Spend ==
    \/ \E f \in Form, id \in 1..MaxCalls : StartSubmit(f, id)
    \/ \E s \in submits :
         Resolved(s) \/ NonceRead(s) \/ Checked(s) \/ Pooled(s) \/ SubmitDone(s)
         \/ SubmitFails(s)
    \/ RefreshBalance

Poll ==
    \/ PollStart
    \/ \E p \in polls :
         \/ PollDone(p)
         \/ \E i \in DOMAIN p.list :
              PollAsks(p, i) \/ PollAnswered(p, i) \/ PollUnreachable(p, i)

Settle ==
    \/ \E r \in reconciles : ReconcileRead(r) \/ ReconcileDone(r) \/ ReconcileFails(r)
    \/ \E c \in checks : CheckAsks(c) \/ CheckAnswered(c) \/ CheckDone(c) \/ CheckFails(c)
    \/ CleanUp

Next ==
    \/ \E t \in mempool : Confirm(t)
    \/ \E i \in DOMAIN added : GrowOlder(i)
    \/ Spend
    \/ Poll
    \/ Settle
    \/ \E a \in Address : SwitchWallet(a)
    \/ Reload

Spec == Init /\ [][Next]_vars

\* Time passes, the timer of poll fires and every request ends in an answer or
\* an error.  Nothing makes the node put a transaction into a block.
Fairness ==
    /\ WF_vars(\E i \in DOMAIN added : GrowOlder(i))
    /\ WF_vars(Poll)

FairSpec == Spec /\ Fairness

-----------------------------------------------------------------------------
Sent == {TxOf(s) : s \in {u \in submits : u.nonce > 0}}

Entries == {txs[i] : i \in DOMAIN txs}

\* Every request that signAndSubmit sends passes the signature check of the node:
\* computeSignableBytes and Transaction.SignableBytes write the same bytes
\* (signableBytes.ts: "Field order and encoding MUST match exactly").
SubmissionVerifies == Sent \subseteq Genuine

\* No two transactions under way are signed over the same bytes or have the same
\* hash, and only the same author and nonce give the same post: a signature
\* cannot be used for another transaction, whatever text and channel hold.
EncodingsAreDistinct ==
    \A t, u \in Sent \cup mempool :
       t # u => /\ SignedBytes[t] # SignedBytes[u]
                /\ TxHashBytes(FullTx(t), << >>) # TxHashBytes(FullTx(u), << >>)
                /\ PostIdBytes(t.sender, t.nonce) = PostIdBytes(u.sender, u.nonce)
                     => t.sender = u.sender /\ t.nonce = u.nonce

\* What the application shows as confirmed is in a block, however late the
\* answers came and whichever list they were written into.
ConfirmedIsTrue == \A e \in Entries : e.status = "confirmed" => Hash(e) \in confirmed

\* What it shows as failed within 5 minutes is not waiting for a block: it is not
\* in the pool, or another transaction has used its nonce (poll: "Not in mempool,
\* not confirmed, and it's been > 15 seconds - likely rejected").  It may be in a
\* block, if it got there between the two look-ups of the status.
FailedHasCause ==
    \A e \in Entries : e.status = "failed" =>
       \/ Age(e) >= Over5min
       \/ Hash(e) \notin mempool
       \/ Hash(e).nonce <= AccountNonce(Hash(e).sender)

\* A transaction that the node accepted leaves the pool for a block, or because
\* another one of the same wallet, given the same nonce by signAndSubmit, did.
DroppedOnlyByClash ==
    \A e \in Entries : Hash(e) \in mempool \cup confirmed
       \/ \E t \in confirmed : t.sender = Hash(e).sender /\ t.nonce = Hash(e).nonce

\* Money that the application holds back for transactions is not held back for
\* ever: again and again no entry is pending, even if the node never makes a
\* block (poll: "if pending > 5 minutes, mark as failed").
OutgoingIsReleased == []<>(PendingOutgoing = 0)

\* Every transaction the application recorded is in its list until it is 10
\* minutes old (PENDING_ENHANCEMENT_DESIGN: "Records submitted tx hashes locally",
\* "Polls their status until confirmed").
AcceptedIsTracked ==
    \A n \in DOMAIN added : added[n].age < Over10min => \E e \in Entries : e.n = n

\* The list l lacks a transaction that is less than 10 minutes old.
Lacks(l) == \E n \in DOMAIN added : /\ added[n].age < Over10min
                                    /\ \A i \in DOMAIN l : l[i].n # n

\* A poll or a reconciliation ends and writes the list of the time it started.
OldListWritten ==
    \/ \E p \in polls : Lacks(p.list) /\ PollDone(p)
    \/ \E r \in reconciles : Lacks(r.list) /\ ReconcileDone(r)

\* Transactions of the last 10 minutes get lost in no other way: not by answers that
\* are written into the current list, by reloading, by switching or by cleaning up.
LostOnlyByOldList ==
    [][AcceptedIsTracked /\ ~ AcceptedIsTracked' => OldListWritten]_vars
=============================================================================
