----------------------------- MODULE PendingProofs -----------------------------
(***************************************************************************)
(* What the application shows of its transactions is true of the node, for  *)
(* every number of wallets, dialogs, polls and reconciliations.  The lists   *)
(* that wait in polls and reconciliations may be written back at any later   *)
(* time, so the invariant says of all of them what is claimed of the list    *)
(* that is shown, in terms that no later step makes false: a transaction is  *)
(* in a block, or its nonce is used up, or its entry is old.                 *)
(***************************************************************************)
EXTENDS PendingTxs, SumTheorems, SequenceTheorems

Phase == {"resolve", "nonce", "send", "checked", "accepted", "rejected"}

Submit == [id : 1..MaxCalls, form : Form, sender : Address, nonce : 0..MaxNonce,
           phase : Phase]

\* The nonce of t is used up.
Stale(t) == t.nonce <= AccountNonce(t.sender)

\* The node has not forgotten t without a reason.
Lives(t) == t \in mempool \/ Stale(t)

\* What the status of an entry claims
EntryFits(e) ==
  /\ e.status = "confirmed" => Hash(e) \in confirmed
  /\ e.status = "failed" => Age(e) >= Over5min \/ Stale(Hash(e))

ListFits(l) == l \in Seq(Entry) /\ \A i \in DOMAIN l : EntryFits(l[i])

\* Blocks give every wallet the nonces 1, 2, ... in turn, and no wallet spends
\* what it has not.
NodeFits ==
  /\ mempool \subseteq Tx /\ confirmed \subseteq Tx /\ IsFiniteSet(confirmed)
  /\ \A t \in confirmed : Stale(t)
  /\ \A a \in Address : \A k \in 1..AccountNonce(a) :
       \E t \in confirmed : t.sender = a /\ t.nonce = k
  /\ \A a \in Address : AccountBalance(a) \in Nat
  /\ SumFunctionOnSet([a \in Address |-> AccountBalance(a)], Address)
       <= Funds * Cardinality(Address)

AddedFits ==
  /\ added \in Seq([tx : Tx, age : 0..Over10min])
  /\ \A n \in DOMAIN added : Lives(added[n].tx)

SubmitFits(s) ==
  /\ s \in Submit
  /\ s.phase \notin {"resolve", "nonce"} => s.nonce > 0
  /\ s.phase = "accepted" => Lives(TxOf(s))

\* What an answer claims of an entry
AnswerFits(e, answer) ==
  /\ answer = "confirmed" => Hash(e) \in confirmed
  /\ answer = "failed" => Age(e) >= Over5min \/ Stale(Hash(e))

PollFits(p) ==
  /\ p \in [list : Seq(Entry), got : Seq(Answer)] /\ DOMAIN p.list = DOMAIN p.got
  /\ ListFits(p.list)
  /\ \A i \in DOMAIN p.got : AnswerFits(p.list[i], p.got[i])

ReconcileFits(r) ==
  /\ r \in [list : Seq(Entry), sender : Address, answered : BOOLEAN, hashes : SUBSET Tx]
  /\ ListFits(r.list)

CheckFits(c) ==
  /\ c \in [tx : Tx, got : Answer]
  /\ \E n \in DOMAIN added : added[n].tx = c.tx
  /\ c.got = "confirmed" => c.tx \in confirmed
  /\ c.got = "failed" => Stale(c.tx)

WaitingFits ==
  /\ \A s \in submits : SubmitFits(s)
  /\ \A p \in polls : PollFits(p)
  /\ \A r \in reconciles : ReconcileFits(r)
  /\ \A c \in checks : CheckFits(c)

AppFits ==
  /\ address \in Address /\ balance \in 0..(Funds * Cardinality(Address))
  /\ moves \in 0..MaxMoves

PendingInv ==
  /\ NodeFits /\ AddedFits /\ WaitingFits /\ AppFits
  /\ drana_pending_txs = txs /\ ListFits(txs)

-----------------------------------------------------------------------------
(* What no step takes back *)

Grows ==
  /\ DOMAIN added \subseteq DOMAIN added'
  /\ \A n \in DOMAIN added : /\ added'[n].tx = added[n].tx
                             /\ added'[n].age >= added[n].age
  /\ confirmed \subseteq confirmed'
  /\ \A a \in Address : AccountNonce(a) <= AccountNonce(a)'
  /\ \A t \in mempool : Lives(t)'

\* Nonces are counted.
LEMMA NonceNat == NodeFits => \A a \in Address : AccountNonce(a) \in Nat
<1> SUFFICES ASSUME NodeFits, NEW a \in Address PROVE AccountNonce(a) \in Nat
  OBVIOUS
<1>1. Of(confirmed, a) \subseteq confirmed
  BY DEF Of
<1>2. IsFiniteSet(Of(confirmed, a))
  BY <1>1, FS_Subset DEF NodeFits
<1> QED BY <1>2, FS_CardinalityType DEF AccountNonce

\* The same after a step
LEMMA NonceNatNext == (NodeFits => \A a \in Address : AccountNonce(a) \in Nat)'
BY NonceNat, PTL

\* A nonce that is used up stays so.
LEMMA StaleStays ==
  ASSUME NodeFits, NodeFits', Grows, NEW t \in Tx, Stale(t)
  PROVE  Stale(t)'
<1>1. t.sender \in Address /\ t.nonce \in Nat
  BY PendingAssumption DEF Tx
<1>2. AccountNonce(t.sender) \in Nat /\ AccountNonce(t.sender)' \in Nat
  BY <1>1, NonceNat, NonceNatNext
<1>3. AccountNonce(t.sender) <= AccountNonce(t.sender)'
  BY <1>1 DEF Grows
<1> QED BY <1>1, <1>2, <1>3 DEF Stale

\* What was in the pool stays or its nonce is used up.
LEMMA LivesStays ==
  ASSUME NodeFits, NodeFits', Grows, NEW t \in Tx, Lives(t)
  PROVE  Lives(t)'
<1>1. CASE t \in mempool
  BY <1>1 DEF Grows
<1>2. CASE Stale(t)
  BY <1>2, StaleStays DEF Lives
<1> QED BY <1>1, <1>2 DEF Lives

\* The entries of added are typed.
LEMMA AddedTyped ==
  ASSUME AddedFits, NEW n \in DOMAIN added
  PROVE  added[n].tx \in Tx /\ added[n].age \in Nat
<1>1. added[n] \in [tx : Tx, age : 0..Over10min]
  <2>1. PICK R : R = [tx : Tx, age : 0..Over10min]
    OBVIOUS
  <2>2. added \in Seq(R)
    BY <2>1 DEF AddedFits
  <2>3. added[n] \in R
    BY <2>2
  <2> QED BY <2>1, <2>3
<1> QED BY <1>1 DEF Over10min

\* The same after a step
LEMMA AddedTypedNext ==
  (AddedFits => \A n \in DOMAIN added : added[n].tx \in Tx /\ added[n].age \in Nat)'
<1>1. AddedFits => \A n \in DOMAIN added : added[n].tx \in Tx /\ added[n].age \in Nat
  BY AddedTyped
<1> QED BY <1>1, PTL

\* What an answer claims stays true.
LEMMA AnswerStays ==
  ASSUME PendingInv, NodeFits', AddedFits', Grows, NEW e \in Entry, NEW x,
         AnswerFits(e, x)
  PROVE  AnswerFits(e, x)' /\ e \in Entry'
<1>1. e.n \in DOMAIN added /\ e.n \in DOMAIN added'
  BY DEF Entry, Grows
<1>2. e \in Entry'
  BY <1>1 DEF Entry
<1>3. Hash(e)' = Hash(e) /\ Hash(e) \in Tx
  BY <1>1, AddedTyped DEF Hash, Grows, PendingInv
<1>4. Age(e)' >= Age(e) /\ Age(e) \in Nat /\ Age(e)' \in Nat
  BY <1>1, AddedTyped, AddedTypedNext DEF Age, Grows, PendingInv
<1>5. Stale(Hash(e)) => Stale(Hash(e))'
  <2>1. PICK t : t = Hash(e)
    OBVIOUS
  <2>2. Stale(t) => Stale(t)'
    BY <1>3, <2>1, StaleStays DEF PendingInv
  <2> QED BY <1>3, <2>1, <2>2 DEF Stale, Hash
<1>6. Age(e) >= Over5min => Age(e)' >= Over5min
  BY <1>4 DEF Over5min
<1> QED BY <1>2, <1>3, <1>5, <1>6 DEF AnswerFits, Grows

\* A list stays as good as it is.
LEMMA ListStays ==
  ASSUME PendingInv, NodeFits', AddedFits', Grows, NEW l, ListFits(l)
  PROVE  ListFits(l)'
<1>1. \A e \in Entry : EntryFits(e) <=> AnswerFits(e, e.status)
  BY DEF EntryFits, AnswerFits
<1>2. ASSUME NEW i \in DOMAIN l PROVE l[i] \in Entry' /\ EntryFits(l[i])'
  <2>1. PICK e : e = l[i]
    OBVIOUS
  <2>2. e \in Entry /\ EntryFits(e)
    <3> HIDE DEF Entry
    <3> QED BY <2>1 DEF ListFits
  <2>3. AnswerFits(e, e.status)
    BY <1>1, <2>2
  <2>4. AnswerFits(e, e.status)' /\ e \in Entry'
    BY <2>2, <2>3, AnswerStays
  <2> QED BY <2>1, <2>4 DEF EntryFits, AnswerFits
<1>3. l \in Seq(Entry')
  <2>1. l \in Seq(Entry)
    BY DEF ListFits
  <2>2. PICK E : E = Entry
    OBVIOUS
  <2>3. PICK F : F = Entry'
    OBVIOUS
  <2>4. l \in Seq(E) /\ \A i \in DOMAIN l : l[i] \in F
    BY <1>2, <2>1, <2>2, <2>3
  <2> QED BY <2>3, <2>4
<1> QED BY <1>2, <1>3 DEF ListFits

\* What waits stays as good as it is.
LEMMA WaitingStays ==
  ASSUME PendingInv, NodeFits', AddedFits', Grows
  PROVE  /\ \A s \in submits : SubmitFits(s)'
         /\ \A p \in polls : PollFits(p)'
         /\ \A r \in reconciles : ReconcileFits(r)'
         /\ \A c \in checks : CheckFits(c)'
<1>1. ASSUME NEW s \in submits PROVE SubmitFits(s)'
  <2>1. SubmitFits(s)
    BY DEF PendingInv, WaitingFits
  <2>2. ASSUME s.phase = "accepted" PROVE Lives(TxOf(s))'
    <3>1. PICK t : t = TxOf(s)
      OBVIOUS
    <3>2. t \in Tx /\ Lives(t)
      BY <2>1, <2>2, <3>1, PendingAssumption DEF SubmitFits, Submit, TxOf, Tx
    <3>3. Lives(t)'
      BY <3>2, LivesStays DEF PendingInv
    <3> QED BY <3>1, <3>3 DEF TxOf
  <2> QED BY <2>1, <2>2 DEF SubmitFits
<1>2. ASSUME NEW p \in polls PROVE PollFits(p)'
  <2>1. PollFits(p)
    BY DEF PendingInv, WaitingFits
  <2>2. PICK l : l = p.list
    OBVIOUS
  <2>3. ListFits(l)'
    BY <2>1, <2>2, ListStays DEF PollFits
  <2>4. ASSUME NEW i \in DOMAIN p.got PROVE AnswerFits(p.list[i], p.got[i])'
    <3>1. PICK e : e = p.list[i]
      OBVIOUS
    <3>2. e \in Entry /\ AnswerFits(e, p.got[i])
      <4> HIDE DEF Entry
      <4> QED BY <2>1, <3>1 DEF PollFits, ListFits
    <3>3. AnswerFits(e, p.got[i])'
      BY <3>2, AnswerStays
    <3> QED BY <3>1, <3>3 DEF AnswerFits
  <2>5. p \in [list : Seq(Entry'), got : Seq(Answer)]
    BY <2>1, <2>2, <2>3 DEF PollFits, ListFits
  <2>6. ListFits(p.list)'
    BY <2>2, <2>3 DEF ListFits
  <2> QED BY <2>1, <2>4, <2>5, <2>6 DEF PollFits
<1>3. ASSUME NEW r \in reconciles PROVE ReconcileFits(r)'
  <2>1. ReconcileFits(r)
    BY DEF PendingInv, WaitingFits
  <2>2. PICK l : l = r.list
    OBVIOUS
  <2>3. ListFits(l)'
    BY <2>1, <2>2, ListStays DEF ReconcileFits
  <2>4. r \in [list : Seq(Entry'), sender : Address, answered : BOOLEAN, hashes : SUBSET Tx]
    BY <2>1, <2>2, <2>3 DEF ReconcileFits, ListFits
  <2>5. ListFits(r.list)'
    BY <2>2, <2>3 DEF ListFits
  <2> QED BY <2>4, <2>5 DEF ReconcileFits
<1>4. ASSUME NEW c \in checks PROVE CheckFits(c)'
  <2>1. CheckFits(c)
    BY DEF PendingInv, WaitingFits
  <2>2. \E n \in DOMAIN added' : added'[n].tx = c.tx
    BY <2>1 DEF CheckFits, Grows
  <2>3. c.got = "failed" => Stale(c.tx)'
    <3>1. PICK t : t = c.tx
      OBVIOUS
    <3>2. t \in Tx /\ (c.got = "failed" => Stale(t))
      BY <2>1, <3>1 DEF CheckFits
    <3>3. c.got = "failed" => Stale(t)'
      BY <3>2, StaleStays DEF PendingInv
    <3> QED BY <3>1, <3>3 DEF Stale
  <2> QED BY <2>1, <2>2, <2>3 DEF CheckFits, Grows
<1> QED BY <1>1, <1>2, <1>3, <1>4

-----------------------------------------------------------------------------
(* The node *)

\* Nothing is confirmed; the pool may grow.
LEMMA QuietNode ==
  ASSUME PendingInv, UNCHANGED <<added, confirmed>>, mempool \subseteq mempool',
         mempool' \subseteq Tx
  PROVE  NodeFits' /\ AddedFits' /\ Grows
<1>1. \A a \in Address : AccountNonce(a)' = AccountNonce(a)
  BY DEF AccountNonce, Of
<1>2. \A a \in Address : AccountBalance(a)' = AccountBalance(a)
  BY DEF AccountBalance, Of, TotalAmount
<1>3. [a \in Address |-> AccountBalance(a)]' = [a \in Address |-> AccountBalance(a)]
  BY <1>2
<1>4. \A t \in Tx : t.sender \in Address /\ t.nonce \in Nat
  BY PendingAssumption DEF Tx
<1>5. \A t \in Tx : (Stale(t) <=> Stale(t)') /\ (Lives(t) => Lives(t)')
  BY <1>1, <1>4 DEF Stale, Lives
<1>6. NodeFits'
  BY <1>1, <1>2, <1>3, <1>5 DEF PendingInv, NodeFits
<1>7. AddedFits'
  BY <1>5, AddedTyped DEF PendingInv, AddedFits
<1>8. Grows
  <2>1. \A n \in DOMAIN added : added'[n].age >= added[n].age
    BY AddedTyped DEF PendingInv
  <2>2. \A a \in Address : AccountNonce(a) <= AccountNonce(a)'
    BY <1>1, NonceNat DEF PendingInv
  <2>3. \A t \in mempool : Lives(t)'
    BY DEF Lives
  <2> QED BY <2>1, <2>2, <2>3 DEF Grows
<1> QED BY <1>6, <1>7, <1>8

\* The amounts of a set with one more transaction
LEMMA OneMoreAmount ==
  ASSUME NEW S \in SUBSET Tx, IsFiniteSet(S), NEW t \in Tx, t \notin S
  PROVE  /\ TotalAmount(S) \in Nat /\ Amount(t) \in Nat
         /\ TotalAmount(S \cup {t}) = TotalAmount(S) + Amount(t)
<1>1. \A u \in Tx : Amounts[u] = Amount(u) /\ Amount(u) \in Nat
  <2> SUFFICES ASSUME NEW u \in Tx PROVE Amounts[u] = Amount(u) /\ Amount(u) \in Nat
    OBVIOUS
  <2>1. u.form \in Form
    BY DEF Tx
  <2>2. FormData[u.form].amount \in Nat
    BY <2>1, PendingAssumption
  <2>3. Amounts[u] = Amount(u)
    BY DEF Amounts
  <2> QED BY <2>2, <2>3 DEF Amount
<1>2. PICK T : T = S \cup {t}
  OBVIOUS
<1>3. IsFiniteSet(T) /\ t \in T /\ T \ {t} = S
  BY <1>2, FS_AddElement
<1>4. \A u \in T : Amounts[u] \in Int
  BY <1>1, <1>2
<1>5. SumFunctionOnSet(Amounts, T) = Amounts[t] + SumFunctionOnSet(Amounts, T \ {t})
  BY <1>3, <1>4, SumRemove
<1>6. SumFunctionOnSet(Amounts, S) \in Nat
  <2>1. \A u \in S : Amounts[u] \in Nat
    BY <1>1
  <2> QED BY <2>1, SumNat
<1> QED BY <1>1, <1>2, <1>3, <1>5, <1>6 DEF TotalAmount

\* A block with the transaction t moves its amount.
LEMMA ConfirmBalances ==
  ASSUME NodeFits, NEW t \in Tx, t \notin confirmed, confirmed' = confirmed \cup {t},
         FormData[t.form].recipient # t.sender
  PROVE  /\ Amount(t) \in Nat
         /\ \A a \in Address : AccountBalance(a)' =
              IF a = t.sender THEN AccountBalance(a) - Amount(t)
              ELSE IF a = FormData[t.form].recipient THEN AccountBalance(a) + Amount(t)
              ELSE AccountBalance(a)
<1> DEFINE In(S, a) == {u \in S : FormData[u.form].recipient = a}
<1>1. confirmed \in SUBSET Tx /\ IsFiniteSet(confirmed)
  BY DEF NodeFits
<1>2. ASSUME NEW a \in Address
      PROVE  /\ Of(confirmed, a) \in SUBSET Tx /\ IsFiniteSet(Of(confirmed, a))
             /\ In(confirmed, a) \in SUBSET Tx /\ IsFiniteSet(In(confirmed, a))
             /\ t \notin Of(confirmed, a) /\ t \notin In(confirmed, a)
             /\ Of(confirmed', a) = IF a = t.sender THEN Of(confirmed, a) \cup {t}
                                    ELSE Of(confirmed, a)
             /\ In(confirmed', a) = IF a = FormData[t.form].recipient
                                    THEN In(confirmed, a) \cup {t} ELSE In(confirmed, a)
  <2>1. Of(confirmed, a) \subseteq confirmed /\ In(confirmed, a) \subseteq confirmed
    BY DEF Of
  <2>2. IsFiniteSet(Of(confirmed, a)) /\ IsFiniteSet(In(confirmed, a))
    BY <1>1, <2>1, FS_Subset
  <2>3. Of(confirmed', a) = IF a = t.sender THEN Of(confirmed, a) \cup {t}
                            ELSE Of(confirmed, a)
    BY DEF Of
  <2>4. In(confirmed', a) = IF a = FormData[t.form].recipient
                            THEN In(confirmed, a) \cup {t} ELSE In(confirmed, a)
    OBVIOUS
  <2> QED BY <1>1, <2>1, <2>2, <2>3, <2>4
<1>3. Amount(t) \in Nat
  <2>1. {} \in SUBSET Tx /\ IsFiniteSet({}) /\ t \notin {}
    BY FS_EmptySet
  <2> QED BY <2>1, OneMoreAmount
<1>4. ASSUME NEW a \in Address
      PROVE  /\ AccountBalance(a) = (Funds - TotalAmount(Of(confirmed, a)))
                                      + TotalAmount(In(confirmed, a))
             /\ AccountBalance(a)' = (Funds - TotalAmount(Of(confirmed', a)))
                                      + TotalAmount(In(confirmed', a))
  BY DEF AccountBalance, TotalAmount, Of
<1> HIDE DEF In
<1>5. ASSUME NEW a \in Address
      PROVE  /\ TotalAmount(Of(confirmed, a)) \in Nat /\ TotalAmount(In(confirmed, a)) \in Nat
             /\ TotalAmount(Of(confirmed', a)) =
                  IF a = t.sender THEN TotalAmount(Of(confirmed, a)) + Amount(t)
                  ELSE TotalAmount(Of(confirmed, a))
             /\ TotalAmount(In(confirmed', a)) =
                  IF a = FormData[t.form].recipient
                  THEN TotalAmount(In(confirmed, a)) + Amount(t)
                  ELSE TotalAmount(In(confirmed, a))
  BY <1>2, OneMoreAmount
<1>6. Funds \in Nat
  BY PendingAssumption
<1>7. ASSUME NEW a \in Address
      PROVE  AccountBalance(a)' =
               IF a = t.sender THEN AccountBalance(a) - Amount(t)
               ELSE IF a = FormData[t.form].recipient THEN AccountBalance(a) + Amount(t)
               ELSE AccountBalance(a)
  <2>1. PICK o : o = TotalAmount(Of(confirmed, a))
    OBVIOUS
  <2>2. PICK i : i = TotalAmount(In(confirmed, a))
    OBVIOUS
  <2>3. o \in Nat /\ i \in Nat /\ AccountBalance(a) = (Funds - o) + i
    BY <1>4, <1>5, <2>1, <2>2
  <2>4. CASE a = t.sender
    <3>1. AccountBalance(a)' = (Funds - (o + Amount(t))) + i
      BY <1>4, <1>5, <2>1, <2>2, <2>4
    <3> QED BY <3>1, <2>3, <2>4, <1>3, <1>6
  <2>5. CASE a # t.sender /\ a = FormData[t.form].recipient
    <3>1. AccountBalance(a)' = (Funds - o) + (i + Amount(t))
      BY <1>4, <1>5, <2>1, <2>2, <2>5
    <3> QED BY <3>1, <2>3, <2>5, <1>3, <1>6
  <2>6. CASE a # t.sender /\ a # FormData[t.form].recipient
    <3>1. AccountBalance(a)' = (Funds - o) + i
      BY <1>4, <1>5, <2>1, <2>2, <2>6
    <3> QED BY <3>1, <2>3, <2>6
  <2> QED BY <2>4, <2>5, <2>6
<1> QED BY <1>3, <1>7

\* No money is made: the sum of the balances does not grow.
LEMMA BalanceSum ==
  ASSUME NodeFits, NEW t \in Tx, t \notin confirmed, confirmed' = confirmed \cup {t},
         FormData[t.form].recipient # t.sender, AccountBalance(t.sender) >= Amount(t)
  PROVE  /\ \A a \in Address : AccountBalance(a)' \in Nat
         /\ SumFunctionOnSet([a \in Address |-> AccountBalance(a)], Address)'
              <= Funds * Cardinality(Address)
<1>1. PICK f : f = [a \in Address |-> AccountBalance(a)]
  OBVIOUS
<1>2. PICK g : g = [a \in Address |-> AccountBalance(a)']
  OBVIOUS
<1>3. PICK r : r = FormData[t.form].recipient
  OBVIOUS
<1>4. PICK m : m = Amount(t)
  OBVIOUS
<1>5. /\ m \in Nat
      /\ \A a \in Address : g[a] = IF a = t.sender THEN f[a] - m
                                   ELSE IF a = r THEN f[a] + m ELSE f[a]
  BY <1>1, <1>2, <1>3, <1>4, ConfirmBalances
<1>6. t.sender \in Address /\ IsFiniteSet(Address) /\ r # t.sender
  BY <1>3, PendingAssumption DEF Tx
<1>7. f \in [Address -> Nat] /\ f[t.sender] >= m
  BY <1>1, <1>4, <1>6 DEF NodeFits
<1>8. g \in [Address -> Nat]
  <2>1. \A a \in Address : g[a] \in Nat
    BY <1>5, <1>6, <1>7
  <2> QED BY <1>2, <2>1
<1>9. SumFunctionOnSet(g, Address) <= SumFunctionOnSet(f, Address)
  <2> DEFINE A == Address \ {t.sender}
  <2>1. IsFiniteSet(A) /\ r \notin {t.sender}
    BY <1>6, FS_Subset
  <2>2. /\ \A a \in Address : f[a] \in Int /\ g[a] \in Int
        /\ \A a \in A : f[a] \in Int /\ g[a] \in Int
    BY <1>7, <1>8
  <2>3. /\ SumFunctionOnSet(f, Address) = f[t.sender] + SumFunctionOnSet(f, A)
        /\ SumFunctionOnSet(g, Address) = g[t.sender] + SumFunctionOnSet(g, A)
    BY <1>6, <2>2, SumRemove
  <2>4. SumFunctionOnSet(f, A) \in Int /\ SumFunctionOnSet(g, A) \in Int
    BY <2>1, <2>2, SumType
  <2>5. SumFunctionOnSet(g, A) <= SumFunctionOnSet(f, A) + m
    <3>1. CASE r \in A
      <4> DEFINE B == A \ {r}
      <4>1. IsFiniteSet(B) /\ \A a \in B : f[a] \in Int /\ g[a] \in Int /\ g[a] = f[a]
        BY <1>5, <2>1, <2>2, FS_Subset
      <4>2. /\ SumFunctionOnSet(f, A) = f[r] + SumFunctionOnSet(f, B)
            /\ SumFunctionOnSet(g, A) = g[r] + SumFunctionOnSet(g, B)
        <5> HIDE DEF A
        <5> QED BY <2>1, <2>2, <3>1, SumRemove
      <4>3. SumFunctionOnSet(f, B) \in Int
        BY <4>1, SumType
      <4>4. SumFunctionOnSet(g, B) = SumFunctionOnSet(f, B)
        <5> HIDE DEF B
        <5> QED BY <4>1, SumEqual
      <4>5. g[r] = f[r] + m /\ f[r] \in Int
        BY <1>5, <1>7, <2>1, <3>1
      <4> HIDE DEF A, B
      <4> QED BY <1>5, <4>2, <4>3, <4>4, <4>5
    <3>2. CASE r \notin A
      <4>1. \A a \in A : f[a] \in Int /\ g[a] \in Int /\ g[a] = f[a]
        BY <1>5, <2>2, <3>2
      <4> HIDE DEF A
      <4>2. SumFunctionOnSet(g, A) = SumFunctionOnSet(f, A)
        BY <2>1, <4>1, SumEqual
      <4> QED BY <1>5, <2>4, <4>2
    <3> QED BY <3>1, <3>2
  <2>6. g[t.sender] = f[t.sender] - m /\ f[t.sender] \in Int
    BY <1>5, <1>6, <1>7
  <2> HIDE DEF A
  <2> QED BY <1>5, <2>3, <2>4, <2>5, <2>6
<1>10. SumFunctionOnSet(f, Address) <= Funds * Cardinality(Address)
  BY <1>1 DEF NodeFits
<1>11. SumFunctionOnSet(f, Address) \in Int /\ SumFunctionOnSet(g, Address) \in Int
  BY <1>6, <1>7, <1>8, SumType
<1>12. Funds * Cardinality(Address) \in Int
  BY <1>6, FS_CardinalityType, PendingAssumption
<1>13. SumFunctionOnSet(g, Address) <= Funds * Cardinality(Address)
  BY <1>9, <1>10, <1>11, <1>12
<1>14. [a \in Address |-> AccountBalance(a)]' = g
  BY <1>2
<1>15. \A a \in Address : AccountBalance(a)' \in Nat
  BY <1>2, <1>8
<1> QED BY <1>13, <1>14, <1>15

\* A block gives its sender the next nonce.
LEMMA ConfirmNonces ==
  ASSUME NodeFits, NEW t \in Tx, t \notin confirmed, confirmed' = confirmed \cup {t}
  PROVE  \A a \in Address :
            AccountNonce(a)' = IF a = t.sender THEN AccountNonce(a) + 1 ELSE AccountNonce(a)
<1> SUFFICES ASSUME NEW a \in Address
             PROVE  AccountNonce(a)' =
                      IF a = t.sender THEN AccountNonce(a) + 1 ELSE AccountNonce(a)
  OBVIOUS
<1>1. PICK S : S = Of(confirmed, a)
  OBVIOUS
<1>2. IsFiniteSet(S) /\ t \notin S
  <2>1. S \subseteq confirmed
    BY <1>1 DEF Of
  <2> QED BY <2>1, FS_Subset DEF NodeFits
<1>3. Of(confirmed, a)' = IF a = t.sender THEN S \cup {t} ELSE S
  BY <1>1 DEF Of
<1>4. Cardinality(S \cup {t}) = Cardinality(S) + 1
  BY <1>2, FS_AddElement
<1>5. AccountNonce(a) = Cardinality(S)
  BY <1>1 DEF AccountNonce
<1>6. AccountNonce(a)' = Cardinality(Of(confirmed, a)')
  BY DEF AccountNonce
<1> QED BY <1>3, <1>4, <1>5, <1>6

\* The next transaction of its sender is in no block.
LEMMA NextIsNew ==
  ASSUME NodeFits, NEW t \in Tx, t.nonce = AccountNonce(t.sender) + 1
  PROVE  t \notin confirmed
<1>1. t.sender \in Address
  BY DEF Tx
<1>2. AccountNonce(t.sender) \in Nat
  BY <1>1, NonceNat
<1>3. ~ Stale(t)
  BY <1>2 DEF Stale
<1> QED BY <1>3 DEF NodeFits

\* What a block does to the node
LEMMA ConfirmNode ==
  ASSUME PendingInv, NEW t \in mempool, Confirm(t)
  PROVE  NodeFits' /\ AddedFits' /\ Grows
<1>1. /\ t.nonce = AccountNonce(t.sender) + 1
      /\ AccountBalance(t.sender) >= Amount(t)
      /\ FormData[t.form].recipient # t.sender
      /\ confirmed' = confirmed \cup {t}
      /\ mempool' = EvictStale(mempool \ {t}, confirmed')
      /\ UNCHANGED added
  BY DEF Confirm, list
<1>2. /\ t \in Tx /\ mempool \subseteq Tx /\ confirmed \subseteq Tx /\ IsFiniteSet(confirmed)
      /\ NodeFits
  BY DEF PendingInv, NodeFits
<1>3. t \notin confirmed
  BY <1>1, <1>2, NextIsNew
<1>4. \A a \in Address : AccountNonce(a) \in Nat
  BY <1>2, NonceNat
<1>5. \A a \in Address : /\ AccountNonce(a)' = IF a = t.sender THEN AccountNonce(a) + 1
                                               ELSE AccountNonce(a)
                         /\ AccountNonce(a)' \in Nat
                         /\ AccountNonce(a) <= AccountNonce(a)'
  BY <1>1, <1>2, <1>3, <1>4, ConfirmNonces
<1>6. \A u \in Tx : u.sender \in Address /\ u.nonce \in Nat /\ u.nonce > 0
  BY PendingAssumption DEF Tx
<1>7. ASSUME NEW u \in Tx, Stale(u) PROVE Stale(u)'
  BY <1>4, <1>5, <1>6, <1>7 DEF Stale
<1>8. Stale(t)'
  <2>1. t.nonce = AccountNonce(t.sender)' /\ t.nonce \in Nat
    BY <1>1, <1>2, <1>5, <1>6
  <2> QED BY <2>1 DEF Stale
<1>9. ASSUME NEW u \in mempool PROVE Lives(u)'
  <2>1. CASE u = t
    BY <2>1, <1>8 DEF Lives, Stale
  <2>2. CASE u # t /\ u \notin mempool'
    <3>1. ~(u.nonce > Cardinality(Of(confirmed', u.sender)))
      BY <1>1, <2>2 DEF EvictStale
    <3>2. Cardinality(Of(confirmed', u.sender)) = AccountNonce(u.sender)'
      BY DEF AccountNonce, Of
    <3>3. AccountNonce(u.sender)' \in Nat /\ u.nonce \in Nat
      BY <1>2, <1>5, <1>6
    <3> QED BY <3>1, <3>2, <3>3 DEF Lives, Stale
  <2>3. CASE u \in mempool'
    BY <2>3 DEF Lives
  <2> QED BY <2>1, <2>2, <2>3
<1>10. NodeFits'
  <2>1. mempool' \subseteq Tx /\ confirmed' \subseteq Tx /\ IsFiniteSet(confirmed')
    BY <1>1, <1>2, FS_AddElement DEF EvictStale
  <2>2. \A u \in confirmed' : Stale(u)'
    BY <1>1, <1>2, <1>7, <1>8 DEF NodeFits
  <2>3. ASSUME NEW a \in Address, NEW k \in 1..(AccountNonce(a)')
        PROVE  \E u \in confirmed' : u.sender = a /\ u.nonce = k
    <3>1. CASE k \in 1..AccountNonce(a)
      BY <1>1, <1>2, <3>1 DEF NodeFits
    <3>2. CASE k \notin 1..AccountNonce(a)
      <4>1. a = t.sender /\ k = AccountNonce(a) + 1
        BY <1>4, <1>5, <3>2
      <4> QED BY <4>1, <1>1
    <3> QED BY <3>1, <3>2
  <2>4. /\ \A a \in Address : AccountBalance(a)' \in Nat
        /\ SumFunctionOnSet([a \in Address |-> AccountBalance(a)], Address)'
             <= Funds * Cardinality(Address)
    BY <1>1, <1>2, <1>3, BalanceSum
  <2> QED BY <2>1, <2>2, <2>3, <2>4 DEF NodeFits
<1>11. Grows
  <2>1. \A n \in DOMAIN added : added'[n].age >= added[n].age
    BY <1>1, AddedTyped DEF PendingInv
  <2> QED BY <1>1, <1>5, <1>9, <2>1 DEF Grows
<1>12. AddedFits'
  <2>1. ASSUME NEW n \in DOMAIN added' PROVE Lives(added[n].tx)'
    <3>1. PICK u : u = added[n].tx
      OBVIOUS
    <3>2. u \in Tx /\ Lives(u) /\ added'[n].tx = u
      BY <1>1, <3>1, AddedTyped DEF PendingInv, AddedFits
    <3>3. Lives(u)'
      BY <1>2, <1>10, <1>11, <3>2, LivesStays
    <3> QED BY <3>2, <3>3 DEF Lives, Stale
  <2> QED BY <1>1, <2>1 DEF AddedFits, PendingInv
<1> QED BY <1>10, <1>11, <1>12

\* Entries grow older.
LEMMA OlderNode ==
  ASSUME PendingInv, NEW i \in DOMAIN added, GrowOlder(i)
  PROVE  NodeFits' /\ AddedFits' /\ Grows
<1>1. /\ added[i].age < Over10min
      /\ added' = [added EXCEPT ![i].age = @ + 1]
      /\ UNCHANGED <<mempool, confirmed>>
  BY DEF GrowOlder, node
<1>2. /\ \A a \in Address : AccountNonce(a)' = AccountNonce(a)
      /\ \A a \in Address : AccountBalance(a)' = AccountBalance(a)
  BY <1>1 DEF AccountNonce, Of, AccountBalance, TotalAmount
<1>3. [a \in Address |-> AccountBalance(a)]' = [a \in Address |-> AccountBalance(a)]
  BY <1>2
<1>4. \A t \in Tx : t.sender \in Address
  BY DEF Tx
<1>5. \A t \in Tx : (Stale(t) <=> Stale(t)') /\ (Lives(t) <=> Lives(t)')
  BY <1>1, <1>2, <1>4 DEF Stale, Lives
<1>6. NodeFits'
  BY <1>1, <1>2, <1>3, <1>5 DEF PendingInv, NodeFits
<1>7. PICK R : R = [tx : Tx, age : 0..Over10min]
  OBVIOUS
<1>8. PICK x : x = [added[i] EXCEPT !.age = @ + 1]
  OBVIOUS
<1>9. added \in Seq(R)
  BY <1>7 DEF PendingInv, AddedFits
<1>10. added[i] \in R
  BY <1>9
<1>11. x \in R /\ x.tx = added[i].tx /\ x.age >= added[i].age
  BY <1>1, <1>7, <1>8, <1>10 DEF Over10min
<1>12. added' = [added EXCEPT ![i] = x]
  BY <1>1, <1>8
<1>13. added' \in Seq(R) /\ DOMAIN added' = DOMAIN added
  BY <1>9, <1>11, <1>12
<1>14. \A n \in DOMAIN added : added'[n] = IF n = i THEN x ELSE added[n]
  BY <1>9, <1>12
<1>15. \A n \in DOMAIN added : added'[n].tx = added[n].tx /\ added'[n].age >= added[n].age
  BY <1>11, <1>14, AddedTyped DEF PendingInv
<1>16. AddedFits'
  <2>1. ASSUME NEW n \in DOMAIN added' PROVE Lives(added[n].tx)'
    <3>1. PICK t : t = added[n].tx
      OBVIOUS
    <3>2. t \in Tx /\ Lives(t) /\ added'[n].tx = t
      BY <1>13, <1>15, <3>1, AddedTyped DEF PendingInv, AddedFits
    <3>3. Lives(t)'
      BY <1>5, <3>2
    <3> QED BY <3>2, <3>3 DEF Lives, Stale
  <2> QED BY <1>7, <1>13, <2>1 DEF AddedFits
<1>17. Grows
  <2>1. \A a \in Address : AccountNonce(a) <= AccountNonce(a)'
    BY <1>2, NonceNat DEF PendingInv
  <2>2. \A t \in mempool : Lives(t)'
    BY <1>1 DEF Lives
  <2> QED BY <1>1, <1>13, <1>15, <2>1, <2>2 DEF Grows
<1> QED BY <1>6, <1>16, <1>17

-----------------------------------------------------------------------------
(* The steps *)

\* The shown list is the same.
LEMMA ListKept ==
  ASSUME PendingInv, NodeFits', AddedFits', Grows, UNCHANGED <<txs, drana_pending_txs>>
  PROVE  drana_pending_txs' = txs' /\ ListFits(txs)'
<1>1. PICK l : l = txs
  OBVIOUS
<1>2. ListFits(l)'
  BY <1>1, ListStays DEF PendingInv
<1> QED BY <1>1, <1>2 DEF PendingInv, ListFits

\* A block is a step like that.
LEMMA ConfirmStep ==
  ASSUME PendingInv, NEW t \in mempool, Confirm(t)
  PROVE  PendingInv'
<1>1. NodeFits' /\ AddedFits' /\ Grows
  BY ConfirmNode
<1>2. UNCHANGED <<app, list, waiting, moves>>
  BY DEF Confirm
<1>3. WaitingFits'
  BY <1>1, <1>2, WaitingStays DEF waiting, WaitingFits
<1>4. AppFits'
  BY <1>2 DEF app, AppFits, PendingInv
<1>5. drana_pending_txs' = txs' /\ ListFits(txs)'
  BY <1>1, <1>2, ListKept DEF list
<1> QED BY <1>1, <1>3, <1>4, <1>5 DEF PendingInv

\* So is the passing of time.
LEMMA OlderStep ==
  ASSUME PendingInv, NEW i \in DOMAIN added, GrowOlder(i)
  PROVE  PendingInv'
<1>1. NodeFits' /\ AddedFits' /\ Grows
  BY OlderNode
<1>2. UNCHANGED <<app, txs, drana_pending_txs, waiting, moves>>
  BY DEF GrowOlder
<1>3. WaitingFits'
  BY <1>1, <1>2, WaitingStays DEF waiting, WaitingFits
<1>4. AppFits'
  BY <1>2 DEF app, AppFits, PendingInv
<1>5. drana_pending_txs' = txs' /\ ListFits(txs)'
  BY <1>1, <1>2, ListKept
<1> QED BY <1>1, <1>3, <1>4, <1>5 DEF PendingInv

\* A call of signAndSubmit makes a typed transaction.
LEMMA TxOfType ==
  ASSUME NEW s, SubmitFits(s), s.nonce > 0
  PROVE  TxOf(s) \in Tx
BY PendingAssumption DEF SubmitFits, Submit, TxOf, Tx

\* What a step that leaves the node and the entries alone has to show: that what
\* it adds is fit.
LEMMA LightStep ==
  ASSUME PendingInv, UNCHANGED <<added, mempool, confirmed>>, AppFits',
         \A s \in submits' : s \in submits \/ SubmitFits(s),
         \A p \in polls' : p \in polls \/ PollFits(p),
         \A r \in reconciles' : r \in reconciles \/ ReconcileFits(r),
         \A c \in checks' : c \in checks \/ CheckFits(c),
         drana_pending_txs' = txs', ListFits(txs')
  PROVE  PendingInv'
<1>1. NodeFits' /\ AddedFits' /\ Grows
  <2>1. mempool \subseteq mempool' /\ mempool' \subseteq Tx
    BY DEF PendingInv, NodeFits
  <2> QED BY <2>1, QuietNode
<1>2. \A l : ListFits(l) => ListFits(l)'
  BY <1>1, ListStays
<1>3. \A s \in submits' : SubmitFits(s)'
  <2>1. \A s : SubmitFits(s) => SubmitFits(s)'
    BY DEF SubmitFits, Lives, Stale, AccountNonce, Of, TxOf
  <2> QED BY <2>1 DEF PendingInv, WaitingFits
<1>4. \A p \in polls' : PollFits(p)'
  <2>1. \A p : PollFits(p) => PollFits(p)'
    BY DEF PollFits, ListFits, AnswerFits, EntryFits, Entry, Hash, Age, Stale,
           AccountNonce, Of
  <2> QED BY <2>1 DEF PendingInv, WaitingFits
<1>5. \A r \in reconciles' : ReconcileFits(r)'
  <2>1. \A r : ReconcileFits(r) => ReconcileFits(r)'
    BY DEF ReconcileFits, ListFits, EntryFits, Entry, Hash, Age, Stale, AccountNonce, Of
  <2> QED BY <2>1 DEF PendingInv, WaitingFits
<1>6. \A c \in checks' : CheckFits(c)'
  <2>1. \A c : CheckFits(c) => CheckFits(c)'
    BY DEF CheckFits, Stale, AccountNonce, Of
  <2> QED BY <2>1 DEF PendingInv, WaitingFits
<1>7. ListFits(txs)'
  <2>1. PICK l : l = txs'
    OBVIOUS
  <2>2. ListFits(l)'
    BY <1>2, <2>1
  <2> QED BY <2>1, <2>2 DEF ListFits
<1> QED BY <1>1, <1>3, <1>4, <1>5, <1>6, <1>7 DEF PendingInv, WaitingFits

\* A handler starts a call.
LEMMA StartSubmitStep ==
  ASSUME PendingInv, NEW f \in Form, NEW id \in 1..MaxCalls, StartSubmit(f, id)
  PROVE  PendingInv'
<1>1. PICK x : x = [id |-> id, form |-> f, sender |-> address, nonce |-> 0,
                    phase |-> IF FormData[f].type = 1 THEN "resolve" ELSE "nonce"]
  OBVIOUS
<1>2. submits' = submits \cup {x}
  BY <1>1 DEF StartSubmit
<1>3. SubmitFits(x)
  <2>1. address \in Address /\ MaxNonce \in Nat
    BY PendingAssumption DEF PendingInv, AppFits
  <2>2. x \in Submit /\ x.phase \in {"resolve", "nonce"}
    BY <1>1, <2>1 DEF Submit, Phase
  <2> QED BY <2>2 DEF SubmitFits
<1>4. UNCHANGED <<app, list, polls, reconciles, checks, node, moves>>
  BY DEF StartSubmit
<1>5. AppFits'
  BY <1>4 DEF app, AppFits, PendingInv
<1> QED BY <1>2, <1>3, <1>4, <1>5, LightStep DEF list, node, PendingInv

\* A call that goes on or ends leaves what else waits alone.
LEMMA SubmitLight ==
  ASSUME PendingInv, UNCHANGED <<app, list, polls, reconciles, checks, node, moves>>,
         \A s \in submits' : s \in submits \/ SubmitFits(s)
  PROVE  PendingInv'
<1>1. AppFits'
  BY DEF app, AppFits, PendingInv
<1> QED BY <1>1, LightStep DEF list, node, PendingInv

\* What a call is known to be when it goes on
LEMMA SubmitKnown ==
  ASSUME PendingInv, NEW s \in submits
  PROVE  SubmitFits(s) /\ s \in Submit
BY DEF PendingInv, WaitingFits, SubmitFits

\* The name is resolved.
LEMMA ResolvedStep ==
  ASSUME PendingInv, NEW s \in submits, Resolved(s)
  PROVE  PendingInv'
<1>1. PICK x : x = [s EXCEPT !.phase = "nonce"]
  OBVIOUS
<1>2. SubmitFits(x)
  BY <1>1, SubmitKnown DEF SubmitFits, Submit, Phase
<1> QED BY <1>1, <1>2, SubmitLight DEF Resolved, Advance

\* The nonce is read.
LEMMA NonceReadStep ==
  ASSUME PendingInv, NEW s \in submits, NonceRead(s)
  PROVE  PendingInv'
<1>1. PICK x : x = [s EXCEPT !.phase = "send", !.nonce = NextNonce(s)]
  OBVIOUS
<1>2. s.sender \in Address
  BY SubmitKnown DEF Submit
<1>3. AccountNonce(s.sender) \in Nat
  BY <1>2, NonceNat DEF PendingInv
<1>4. NextNonce(s) \in 0..MaxNonce /\ NextNonce(s) > 0
  BY <1>3, PendingAssumption DEF NonceRead, NextNonce
<1>5. SubmitFits(x)
  BY <1>1, <1>4, SubmitKnown DEF SubmitFits, Submit, Phase
<1> QED BY <1>1, <1>5, SubmitLight DEF NonceRead, Advance

\* The node looks at the account.
LEMMA CheckedStep ==
  ASSUME PendingInv, NEW s \in submits, Checked(s)
  PROVE  PendingInv'
<1>1. PICK x : x = [s EXCEPT !.phase = IF PassesChecks(TxOf(s)) THEN "checked"
                                       ELSE "rejected"]
  OBVIOUS
<1>2. s.phase = "send" /\ SubmitFits(s) /\ s \in Submit
  BY SubmitKnown DEF Checked
<1>3. /\ x \in Submit /\ x.nonce = s.nonce
      /\ x.phase \in {"checked", "rejected"}
  BY <1>1, <1>2 DEF Submit, Phase
<1>4. SubmitFits(x)
  BY <1>2, <1>3 DEF SubmitFits
<1> QED BY <1>1, <1>4, SubmitLight DEF Checked, Advance

\* A call fails.
LEMMA SubmitFailsStep ==
  ASSUME PendingInv, NEW s \in submits, SubmitFails(s)
  PROVE  PendingInv'
BY SubmitLight DEF SubmitFails

\* The node takes the transaction into its pool.
LEMMA PooledStep ==
  ASSUME PendingInv, NEW s \in submits, Pooled(s)
  PROVE  PendingInv'
<1>1. PICK x : x = [s EXCEPT !.phase = IF TxOf(s) \in mempool THEN "rejected"
                                       ELSE "accepted"]
  OBVIOUS
<1>2. s.phase = "checked" /\ SubmitFits(s) /\ s \in Submit
  BY SubmitKnown DEF Pooled
<1>3. s.nonce > 0 /\ TxOf(s) \in Tx
  BY <1>2, TxOfType DEF SubmitFits
<1>4. /\ submits' = (submits \ {s}) \cup {x}
      /\ mempool' = mempool \cup {TxOf(s)}
      /\ UNCHANGED <<app, list, polls, reconciles, checks, confirmed, moves>>
  BY <1>1 DEF Pooled, Advance
<1>5. NodeFits' /\ AddedFits' /\ Grows
  <2>1. mempool \subseteq mempool' /\ mempool' \subseteq Tx
    BY <1>3, <1>4 DEF PendingInv, NodeFits
  <2> QED BY <1>4, <2>1, QuietNode DEF list
<1>6. SubmitFits(x)'
  <2>1. /\ x \in Submit /\ x.nonce = s.nonce /\ TxOf(x) = TxOf(s)
        /\ x.phase \in {"rejected", "accepted"}
    BY <1>1, <1>2 DEF Submit, Phase, TxOf
  <2>2. Lives(TxOf(x))'
    BY <1>4, <2>1 DEF Lives, TxOf
  <2> QED BY <1>3, <2>1, <2>2 DEF SubmitFits
<1>7. WaitingFits'
  BY <1>4, <1>5, <1>6, WaitingStays DEF WaitingFits
<1>8. AppFits'
  BY <1>4 DEF app, AppFits, PendingInv
<1>9. drana_pending_txs' = txs' /\ ListFits(txs)'
  BY <1>4, <1>5, ListKept DEF list
<1> QED BY <1>5, <1>7, <1>8, <1>9 DEF PendingInv

\* The answer adds an entry: the node and what waits stay fit.
LEMMA AcceptedNode ==
  ASSUME PendingInv, NEW s \in submits, s.phase = "accepted",
         added' = Append(added, [tx |-> TxOf(s), age |-> 0]),
         UNCHANGED <<mempool, confirmed>>
  PROVE  NodeFits' /\ AddedFits' /\ Grows /\ DOMAIN added' = 1..(Len(added) + 1)
<1>1. PICK t : t = TxOf(s)
  OBVIOUS
<1>2. t \in Tx /\ Lives(t)
  BY <1>1, SubmitKnown, TxOfType DEF SubmitFits
<1>3. /\ \A a \in Address : AccountNonce(a)' = AccountNonce(a)
      /\ \A a \in Address : AccountBalance(a)' = AccountBalance(a)
  BY DEF AccountNonce, Of, AccountBalance, TotalAmount
<1>4. [a \in Address |-> AccountBalance(a)]' = [a \in Address |-> AccountBalance(a)]
  BY <1>3
<1>5. \A u \in Tx : u.sender \in Address
  BY DEF Tx
<1>6. \A u \in Tx : (Stale(u) <=> Stale(u)') /\ (Lives(u) <=> Lives(u)')
  BY <1>3, <1>5 DEF Stale, Lives
<1>7. NodeFits'
  BY <1>3, <1>4, <1>6 DEF PendingInv, NodeFits
<1>8. PICK R : R = [tx : Tx, age : 0..Over10min]
  OBVIOUS
<1>9. PICK x : x = [tx |-> t, age |-> 0]
  OBVIOUS
<1>10. added \in Seq(R) /\ x \in R /\ x.tx = t /\ added' = Append(added, x)
  BY <1>1, <1>2, <1>8, <1>9 DEF PendingInv, AddedFits, Over10min
<1>11. /\ added' \in Seq(R) /\ DOMAIN added = 1..Len(added)
       /\ DOMAIN added' = 1..(Len(added) + 1) /\ Len(added) \in Nat
       /\ \A n \in DOMAIN added : added'[n] = added[n]
       /\ added'[Len(added) + 1] = x
  BY <1>10
<1>12. AddedFits'
  <2>1. ASSUME NEW n \in DOMAIN added' PROVE Lives(added[n].tx)'
    <3>1. PICK u : u = added'[n].tx
      OBVIOUS
    <3>2. u \in Tx /\ Lives(u)
      <4>1. CASE n \in DOMAIN added
        BY <1>11, <3>1, <4>1, AddedTyped DEF PendingInv, AddedFits
      <4>2. CASE n = Len(added) + 1
        BY <1>2, <1>10, <1>11, <3>1, <4>2
      <4> QED BY <1>11, <4>1, <4>2
    <3>3. Lives(u)'
      BY <1>6, <3>2
    <3> QED BY <3>1, <3>3 DEF Lives, Stale
  <2> QED BY <1>8, <1>11, <2>1 DEF AddedFits
<1>13. Grows
  <2>1. \A a \in Address : AccountNonce(a) <= AccountNonce(a)'
    BY <1>3, NonceNat DEF PendingInv
  <2>2. \A u \in mempool : Lives(u)'
    BY DEF Lives
  <2>3. \A n \in DOMAIN added : added'[n].tx = added[n].tx /\ added'[n].age >= added[n].age
    BY <1>11, AddedTyped DEF PendingInv
  <2> QED BY <1>11, <2>1, <2>2, <2>3 DEF Grows
<1> QED BY <1>7, <1>11, <1>12, <1>13

\* The answer ends the call.
LEMMA SubmitDoneStep ==
  ASSUME PendingInv, NEW s \in submits, SubmitDone(s)
  PROVE  PendingInv'
<1>1. /\ submits' = submits \ {s}
      /\ UNCHANGED <<app, polls, reconciles, checks, node, moves>>
  BY DEF SubmitDone
<1>2. CASE s.phase # "accepted"
  <2>1. UNCHANGED list
    BY <1>2 DEF SubmitDone
  <2> QED BY <1>1, <2>1, SubmitLight
<1>3. CASE s.phase = "accepted"
  <2>1. /\ added' = Append(added, [tx |-> TxOf(s), age |-> 0])
        /\ txs' = Append(txs, [n |-> Len(added) + 1, status |-> "pending"])
        /\ drana_pending_txs' = txs'
    BY <1>3 DEF SubmitDone, SetTxs
  <2>2. NodeFits' /\ AddedFits' /\ Grows /\ DOMAIN added' = 1..(Len(added) + 1)
    BY <1>1, <1>3, <2>1, AcceptedNode DEF node
  <2>3. WaitingFits'
    BY <1>1, <2>2, WaitingStays DEF WaitingFits
  <2>4. AppFits'
    BY <1>1 DEF app, AppFits, PendingInv
  <2>5. ListFits(txs)'
    <3>1. PICK l : l = txs
      OBVIOUS
    <3>2. PICK e : e = [n |-> Len(added) + 1, status |-> "pending"]
      OBVIOUS
    <3>3. ListFits(l)'
      BY <2>2, <3>1, ListStays DEF PendingInv
    <3>4. PICK E : E = Entry'
      OBVIOUS
    <3>5. Len(added) \in Nat
      BY DEF PendingInv, AddedFits
    <3>6. e \in E /\ EntryFits(e)'
      BY <2>2, <3>2, <3>4, <3>5 DEF Entry, Status, EntryFits
    <3>7. l \in Seq(E) /\ \A i \in DOMAIN l : EntryFits(l[i])'
      BY <3>3, <3>4 DEF ListFits
    <3>8. PICK k : k = Append(l, e)
      OBVIOUS
    <3>9. /\ k \in Seq(E)
          /\ \A i \in DOMAIN k : (i \in DOMAIN l /\ k[i] = l[i]) \/ k[i] = e
      BY <3>6, <3>7, <3>8
    <3>10. ASSUME NEW i \in DOMAIN k PROVE EntryFits(k[i])'
      BY <3>6, <3>7, <3>9 DEF EntryFits
    <3>11. txs' = k
      BY <2>1, <3>1, <3>2, <3>8
    <3> QED BY <3>4, <3>9, <3>10, <3>11 DEF ListFits, EntryFits
  <2> QED BY <2>1, <2>2, <2>3, <2>4, <2>5 DEF PendingInv
<1> QED BY <1>2, <1>3

\* The balance of one wallet is at most the sum of all.
LEMMA RefreshBalanceStep ==
  ASSUME PendingInv, RefreshBalance
  PROVE  PendingInv'
<1>1. /\ balance' = AccountBalance(address) /\ address' = address
      /\ UNCHANGED <<list, waiting, node, moves>>
  BY DEF RefreshBalance
<1>2. PICK f : f = [a \in Address |-> AccountBalance(a)]
  OBVIOUS
<1>3. /\ address \in Address /\ IsFiniteSet(Address)
      /\ f \in [Address -> Nat] /\ f[address] = AccountBalance(address)
      /\ SumFunctionOnSet(f, Address) <= Funds * Cardinality(Address)
  BY <1>2, PendingAssumption DEF PendingInv, NodeFits, AppFits
<1>4. IsFiniteSet(Address \ {address})
  BY <1>3, FS_Subset
<1>5. SumFunctionOnSet(f, Address) = f[address] + SumFunctionOnSet(f, Address \ {address})
  <2>1. \A a \in Address : f[a] \in Int
    BY <1>3
  <2> QED BY <1>3, <2>1, SumRemove
<1>6. SumFunctionOnSet(f, Address \ {address}) \in Nat
  <2>1. \A a \in Address \ {address} : f[a] \in Nat
    BY <1>3
  <2> QED BY <1>4, <2>1, SumNat
<1>7. Funds * Cardinality(Address) \in Nat
  BY <1>3, FS_CardinalityType, PendingAssumption
<1>8. balance' \in 0..(Funds * Cardinality(Address))
  <2>1. f[address] \in Nat
    BY <1>3
  <2> QED BY <1>1, <1>3, <1>5, <1>6, <1>7, <2>1
<1>9. AppFits'
  BY <1>1, <1>8 DEF AppFits, PendingInv
<1> QED BY <1>1, <1>9, LightStep DEF list, node, waiting, PendingInv

-----------------------------------------------------------------------------
(* Polls *)

\* The entries of a list that fits
LEMMA EntryKnown ==
  ASSUME PendingInv, NEW l, ListFits(l), NEW i \in DOMAIN l
  PROVE  /\ l[i] \in Entry /\ EntryFits(l[i])
         /\ l[i].n \in DOMAIN added /\ l[i].status \in Status
         /\ Hash(l[i]) \in Tx /\ Lives(Hash(l[i])) /\ Age(l[i]) \in Nat
<1>1. l[i] \in Entry /\ EntryFits(l[i])
  <2> HIDE DEF Entry
  <2> QED BY DEF ListFits
<1>2. l[i].n \in DOMAIN added /\ l[i].status \in Status
  BY <1>1 DEF Entry
<1>3. added[l[i].n].tx \in Tx /\ added[l[i].n].age \in Nat
  BY <1>2, AddedTyped DEF PendingInv
<1>4. Lives(added[l[i].n].tx)
  BY <1>2 DEF PendingInv, AddedFits
<1> QED BY <1>1, <1>2, <1>3, <1>4 DEF Hash, Age

\* A function on the positions of a list is a list.
LEMMA SameLength ==
  ASSUME NEW S, NEW l \in Seq(S), NEW T, NEW g \in [DOMAIN l -> T]
  PROVE  g \in Seq(T) /\ DOMAIN g = DOMAIN l
<1>1. DOMAIN l = 1..Len(l) /\ Len(l) \in Nat
  OBVIOUS
<1>2. g \in [1..Len(l) -> T]
  BY <1>1
<1>3. g \in Seq(T)
  BY <1>1, <1>2
<1> QED BY <1>3

\* A poll starts: what is given up at once is old.
LEMMA PollStartStep ==
  ASSUME PendingInv, PollStart
  PROVE  PendingInv'
<1>1. PICK g : g = [i \in DOMAIN txs |-> FirstAnswer(txs[i])]
  OBVIOUS
<1>2. PICK p : p = [list |-> txs, got |-> g]
  OBVIOUS
<1>3. /\ polls' = polls \cup {p}
      /\ UNCHANGED <<app, list, submits, reconciles, checks, node, moves>>
  BY <1>1, <1>2 DEF PollStart
<1>4. ListFits(txs) /\ txs \in Seq(Entry)
  BY DEF PendingInv, ListFits
<1>5. g \in [DOMAIN txs -> Answer]
  BY <1>1 DEF FirstAnswer, Answer
<1>6. g \in Seq(Answer) /\ DOMAIN g = DOMAIN txs
  BY <1>4, <1>5, SameLength
<1>7. ASSUME NEW i \in DOMAIN txs PROVE AnswerFits(txs[i], g[i])
  BY <1>1 DEF FirstAnswer, AnswerFits
<1>8. PollFits(p)
  BY <1>2, <1>4, <1>6, <1>7 DEF PollFits
<1>9. AppFits'
  BY <1>3 DEF app, AppFits, PendingInv
<1> QED BY <1>3, <1>4, <1>8, <1>9, LightStep DEF list, node, PendingInv

\* A poll gets an answer that is true.
LEMMA PollGetsStep ==
  ASSUME PendingInv, NEW p \in polls, NEW i \in DOMAIN p.list, NEW x \in Answer,
         AnswerFits(p.list[i], x), PollGets(p, i, x)
  PROVE  PendingInv'
<1>1. PICK q : q = [p EXCEPT !.got[i] = x]
  OBVIOUS
<1>2. /\ polls' = (polls \ {p}) \cup {q}
      /\ UNCHANGED <<app, list, submits, reconciles, checks, node, moves>>
  BY <1>1 DEF PollGets
<1>3. PollFits(p)
  BY DEF PendingInv, WaitingFits
<1>4. PICK E : E = Seq(Entry)
  OBVIOUS
<1>5. /\ p \in [list : E, got : Seq(Answer)] /\ DOMAIN p.list = DOMAIN p.got
      /\ ListFits(p.list)
      /\ \A j \in DOMAIN p.got : AnswerFits(p.list[j], p.got[j])
  BY <1>3, <1>4 DEF PollFits
<1>6. PICK h : h = [p.got EXCEPT ![i] = x]
  OBVIOUS
<1>7. /\ h \in Seq(Answer) /\ DOMAIN h = DOMAIN p.got
      /\ \A j \in DOMAIN h : h[j] = IF j = i THEN x ELSE p.got[j]
  <2>1. PICK A : A = Answer
    OBVIOUS
  <2>2. p.got \in Seq(A) /\ i \in DOMAIN p.got /\ x \in A
    BY <1>5, <2>1
  <2> QED BY <1>6, <2>1, <2>2
<1>8. q \in [list : E, got : Seq(Answer)] /\ q.list = p.list /\ q.got = h
  BY <1>1, <1>5, <1>6, <1>7
<1>9. \A j \in DOMAIN h : AnswerFits(p.list[j], h[j])
  BY <1>5, <1>7
<1>10. PollFits(q)
  BY <1>4, <1>5, <1>7, <1>8, <1>9 DEF PollFits
<1>11. AppFits'
  BY <1>2 DEF app, AppFits, PendingInv
<1> QED BY <1>2, <1>10, <1>11, LightStep DEF list, node, PendingInv

\* The answers of the node are true.
LEMMA PollAnswerStep ==
  ASSUME PendingInv, NEW p \in polls, NEW i \in DOMAIN p.list,
         PollAsks(p, i) \/ PollAnswered(p, i) \/ PollUnreachable(p, i)
  PROVE  PendingInv'
<1>1. PICK e : e = p.list[i]
  OBVIOUS
<1>2. Hash(e) \in Tx /\ Lives(Hash(e)) /\ Age(e) \in Nat
  <2>1. PICK l : l = p.list
    OBVIOUS
  <2>2. ListFits(l) /\ i \in DOMAIN l /\ e = l[i]
    BY <1>1, <2>1 DEF PendingInv, WaitingFits, PollFits
  <2> QED BY <2>2, EntryKnown
<1>3. CASE PollAsks(p, i)
  <2>1. PICK x : x = InBlocks(Hash(e))
    OBVIOUS
  <2>2. x \in Answer /\ AnswerFits(e, x)
    BY <2>1 DEF InBlocks, Answer, AnswerFits
  <2> QED BY <1>1, <1>3, <2>1, <2>2, PollGetsStep DEF PollAsks
<1>4. CASE PollAnswered(p, i)
  <2>1. PICK x : x = FromPool(e)
    OBVIOUS
  <2>2. x \in Answer /\ AnswerFits(e, x)
    BY <1>2, <2>1 DEF FromPool, Answer, AnswerFits, Lives
  <2> QED BY <1>1, <1>4, <2>1, <2>2, PollGetsStep DEF PollAnswered
<1>5. CASE PollUnreachable(p, i)
  <2>1. PICK x : x = "same"
    OBVIOUS
  <2>2. x \in Answer /\ AnswerFits(e, x)
    BY <2>1 DEF Answer, AnswerFits
  <2> QED BY <1>1, <1>5, <2>1, <2>2, PollGetsStep DEF PollUnreachable
<1> QED BY <1>3, <1>4, <1>5

\* A list with statuses that fit its entries
LEMMA StatusWritten ==
  ASSUME PendingInv, NEW l, ListFits(l), NEW k, DOMAIN k = DOMAIN l,
         k = [i \in DOMAIN l |-> k[i]],
         \A i \in DOMAIN l : \/ k[i] = l[i]
                             \/ \E x \in Status : /\ k[i] = [l[i] EXCEPT !.status = x]
                                                  /\ AnswerFits(l[i], x)
  PROVE  ListFits(k)
<1>1. ASSUME NEW i \in DOMAIN l PROVE k[i] \in Entry /\ EntryFits(k[i])
  <2>1. PICK e : e = l[i]
    OBVIOUS
  <2>2. e \in Entry /\ EntryFits(e)
    BY <2>1, EntryKnown
  <2>3. CASE k[i] = e
    BY <2>2, <2>3
  <2>4. ASSUME NEW x \in Status, k[i] = [e EXCEPT !.status = x], AnswerFits(e, x)
        PROVE  k[i] \in Entry /\ EntryFits(k[i])
    <3>1. PICK f : f = [e EXCEPT !.status = x]
      OBVIOUS
    <3>2. f \in Entry /\ f.n = e.n /\ f.status = x
      BY <2>2, <3>1 DEF Entry
    <3>3. EntryFits(f)
      BY <2>4, <3>2 DEF EntryFits, AnswerFits, Hash, Age
    <3> QED BY <2>4, <3>1, <3>2, <3>3
  <2> QED BY <2>1, <2>3, <2>4
<1>2. k \in Seq(Entry)
  <2>1. l \in Seq(Entry)
    BY DEF ListFits
  <2>2. k \in [DOMAIN l -> Entry]
    <3> HIDE DEF Entry
    <3> QED BY <1>1
  <2> QED BY <2>1, <2>2, SameLength
<1> QED BY <1>1, <1>2 DEF ListFits

\* A poll ends.
LEMMA PollDoneStep ==
  ASSUME PendingInv, NEW p \in polls, PollDone(p)
  PROVE  PendingInv'
<1>1. /\ polls' = polls \ {p}
      /\ UNCHANGED <<app, added, submits, reconciles, checks, node, moves>>
      /\ \/ txs' = Updated(p) /\ drana_pending_txs' = txs'
         \/ UNCHANGED <<txs, drana_pending_txs>>
  BY DEF PollDone, SetTxs
<1>2. PICK l : l = p.list
  OBVIOUS
<1>3. PICK k : k = Updated(p)
  OBVIOUS
<1>4. /\ ListFits(l) /\ DOMAIN l = DOMAIN p.got
      /\ \A i \in DOMAIN l : AnswerFits(l[i], p.got[i])
  BY <1>2 DEF PendingInv, WaitingFits, PollFits
<1>5. /\ DOMAIN k = DOMAIN l /\ k = [i \in DOMAIN l |-> k[i]]
      /\ \A i \in DOMAIN l : k[i] = IF p.got[i] \in Status
                                    THEN [l[i] EXCEPT !.status = p.got[i]] ELSE l[i]
  BY <1>2, <1>3 DEF Updated
<1>6. \A i \in DOMAIN l : \/ k[i] = l[i]
                          \/ \E x \in Status : /\ k[i] = [l[i] EXCEPT !.status = x]
                                               /\ AnswerFits(l[i], x)
  BY <1>4, <1>5
<1>7. ListFits(k)
  BY <1>4, <1>5, <1>6, StatusWritten
<1>8. drana_pending_txs' = txs' /\ ListFits(txs')
  BY <1>1, <1>3, <1>7 DEF PendingInv
<1>9. AppFits'
  BY <1>1 DEF app, AppFits, PendingInv
<1> QED BY <1>1, <1>8, <1>9, LightStep DEF node

-----------------------------------------------------------------------------
(* Reconciliation and the rest *)

\* A reconciliation of a list that fits is fit.
LEMMA ReconcileIsFit ==
  ASSUME PendingInv, NEW a \in Address, NEW l, ListFits(l)
  PROVE  \A r \in Reconcile(a, l) : ReconcileFits(r)
<1> SUFFICES ASSUME NEW r \in Reconcile(a, l) PROVE ReconcileFits(r)
  OBVIOUS
<1>1. r = [list |-> l, sender |-> a, answered |-> FALSE, hashes |-> {}]
  BY DEF Reconcile
<1>2. l \in Seq(Entry)
  BY DEF ListFits
<1> QED BY <1>1, <1>2 DEF ReconcileFits

\* The user takes another wallet.
LEMMA SwitchWalletStep ==
  ASSUME PendingInv, NEW a \in Address, SwitchWallet(a)
  PROVE  PendingInv'
<1>1. /\ address' = a /\ balance' = 0 /\ moves < MaxMoves /\ moves' = moves + 1
      /\ reconciles' = reconciles \cup Reconcile(a, txs)
      /\ UNCHANGED <<list, submits, polls, checks, node>>
  BY DEF SwitchWallet
<1>2. ListFits(txs)
  BY DEF PendingInv
<1>3. Funds * Cardinality(Address) \in Nat
  BY FS_CardinalityType, PendingAssumption
<1>4. AppFits'
  BY <1>1, <1>3, PendingAssumption DEF AppFits, PendingInv
<1>5. \A r \in reconciles' : r \in reconciles \/ ReconcileFits(r)
  BY <1>1, <1>2, ReconcileIsFit
<1> QED BY <1>1, <1>2, <1>4, <1>5, LightStep DEF list, node, PendingInv

\* The page is loaded again.
LEMMA ReloadStep ==
  ASSUME PendingInv, Reload
  PROVE  PendingInv'
<1>1. /\ moves < MaxMoves /\ moves' = moves + 1
      /\ txs' = txs /\ balance' = 0
      /\ submits' = {} /\ polls' = {} /\ checks' = {}
      /\ reconciles' = Reconcile(address, txs)
      /\ UNCHANGED <<address, drana_pending_txs, added, node>>
  BY DEF Reload, PendingInv
<1>2. ListFits(txs) /\ address \in Address
  BY DEF PendingInv, AppFits
<1>3. Funds * Cardinality(Address) \in Nat
  BY FS_CardinalityType, PendingAssumption
<1>4. AppFits'
  BY <1>1, <1>3, PendingAssumption DEF AppFits, PendingInv
<1>5. \A r \in reconciles' : r \in reconciles \/ ReconcileFits(r)
  BY <1>1, <1>2, ReconcileIsFit
<1> QED BY <1>1, <1>2, <1>4, <1>5, LightStep DEF node, PendingInv

\* The pool has answered.
LEMMA ReconcileReadStep ==
  ASSUME PendingInv, NEW r \in reconciles, ReconcileRead(r)
  PROVE  PendingInv'
<1>1. PICK q : q = [r EXCEPT !.answered = TRUE, !.hashes = Of(mempool, r.sender)]
  OBVIOUS
<1>2. /\ reconciles' = (reconciles \ {r}) \cup {q}
      /\ UNCHANGED <<app, list, submits, polls, checks, node, moves>>
  BY <1>1 DEF ReconcileRead
<1>3. PICK E : E = Seq(Entry)
  OBVIOUS
<1>4. /\ r \in [list : E, sender : Address, answered : BOOLEAN, hashes : SUBSET Tx]
      /\ ListFits(r.list)
  BY <1>3 DEF PendingInv, WaitingFits, ReconcileFits
<1>5. Of(mempool, r.sender) \in SUBSET Tx
  BY DEF Of, PendingInv, NodeFits
<1>6. /\ q \in [list : E, sender : Address, answered : BOOLEAN, hashes : SUBSET Tx]
      /\ q.list = r.list
  BY <1>1, <1>4, <1>5
<1>7. ReconcileFits(q)
  BY <1>3, <1>4, <1>6 DEF ReconcileFits
<1>8. AppFits'
  BY <1>2 DEF app, AppFits, PendingInv
<1> QED BY <1>2, <1>7, <1>8, LightStep DEF list, node, PendingInv

\* What the pool does not list is asked for.
LEMMA ReconcileDoneStep ==
  ASSUME PendingInv, NEW r \in reconciles, ReconcileDone(r)
  PROVE  PendingInv'
<1>1. /\ reconciles' = reconciles \ {r}
      /\ checks' = checks \cup {[tx |-> t, got |-> "ask"] : t \in Unlisted(r)}
      /\ \/ txs' = r.list /\ drana_pending_txs' = txs'
         \/ UNCHANGED <<txs, drana_pending_txs>>
      /\ UNCHANGED <<app, added, submits, polls, node, moves>>
  BY DEF ReconcileDone, SetTxs
<1>2. PICK l : l = r.list
  OBVIOUS
<1>3. ListFits(l)
  BY <1>2 DEF PendingInv, WaitingFits, ReconcileFits
<1>4. ASSUME NEW t \in Unlisted(r)
      PROVE  t \in Tx /\ \E n \in DOMAIN added : added[n].tx = t
  <2>1. PICK i \in DOMAIN l : t = Hash(l[i])
    BY <1>2 DEF Unlisted
  <2> QED BY <1>3, <2>1, EntryKnown DEF Hash
<1>5. ASSUME NEW c \in checks' PROVE c \in checks \/ CheckFits(c)
  <2>1. CASE c \in checks
    BY <2>1
  <2>2. ASSUME NEW t \in Unlisted(r), c = [tx |-> t, got |-> "ask"]
        PROVE  CheckFits(c)
    BY <1>4, <2>2 DEF CheckFits, Answer
  <2> QED BY <1>1, <2>1, <2>2
<1>6. drana_pending_txs' = txs' /\ ListFits(txs')
  BY <1>1, <1>2, <1>3 DEF PendingInv
<1>7. AppFits'
  BY <1>1 DEF app, AppFits, PendingInv
<1> QED BY <1>1, <1>5, <1>6, <1>7, LightStep DEF node

\* The pool cannot be asked.
LEMMA ReconcileFailsStep ==
  ASSUME PendingInv, NEW r \in reconciles, ReconcileFails(r)
  PROVE  PendingInv'
<1>1. /\ reconciles' = reconciles \ {r}
      /\ UNCHANGED <<app, list, submits, polls, checks, node, moves>>
  BY DEF ReconcileFails
<1>2. AppFits'
  BY <1>1 DEF app, AppFits, PendingInv
<1> QED BY <1>1, <1>2, LightStep DEF list, node, PendingInv

\* A check gets a true answer or ends without one.
LEMMA CheckLight ==
  ASSUME PendingInv, UNCHANGED <<app, list, submits, polls, reconciles, node, moves>>,
         \A c \in checks' : c \in checks \/ CheckFits(c)
  PROVE  PendingInv'
<1>1. AppFits'
  BY DEF app, AppFits, PendingInv
<1> QED BY <1>1, LightStep DEF list, node, PendingInv

\* The blocks have answered.
LEMMA CheckAsksStep ==
  ASSUME PendingInv, NEW c \in checks, CheckAsks(c)
  PROVE  PendingInv'
<1>1. PICK d : d = [c EXCEPT !.got = InBlocks(c.tx)]
  OBVIOUS
<1>2. CheckFits(c)
  BY DEF PendingInv, WaitingFits
<1>3. InBlocks(c.tx) \in {"confirmed", "absent"} /\
      (InBlocks(c.tx) = "confirmed" => c.tx \in confirmed)
  BY DEF InBlocks
<1>4. d \in [tx : Tx, got : Answer] /\ d.tx = c.tx /\ d.got = InBlocks(c.tx)
  BY <1>1, <1>2, <1>3 DEF CheckFits, Answer
<1>5. CheckFits(d)
  BY <1>2, <1>3, <1>4 DEF CheckFits
<1> QED BY <1>1, <1>5, CheckLight DEF CheckAsks

\* The pool has answered: what is in neither has lost its nonce.
LEMMA CheckAnsweredStep ==
  ASSUME PendingInv, NEW c \in checks, CheckAnswered(c)
  PROVE  PendingInv'
<1>1. PICK x : x = IF c.tx \in mempool THEN "same" ELSE "failed"
  OBVIOUS
<1>2. PICK d : d = [c EXCEPT !.got = x]
  OBVIOUS
<1>3. CheckFits(c)
  BY DEF PendingInv, WaitingFits
<1>4. Lives(c.tx)
  BY <1>3 DEF CheckFits, PendingInv, AddedFits
<1>5. x \in {"same", "failed"} /\ (x = "failed" => Stale(c.tx))
  BY <1>1, <1>4 DEF Lives
<1>6. d \in [tx : Tx, got : Answer] /\ d.tx = c.tx /\ d.got = x
  BY <1>2, <1>3, <1>5 DEF CheckFits, Answer
<1>7. CheckFits(d)
  BY <1>3, <1>5, <1>6 DEF CheckFits
<1> QED BY <1>1, <1>2, <1>7, CheckLight DEF CheckAnswered

\* The answer is written into the list.
LEMMA CheckDoneStep ==
  ASSUME PendingInv, NEW c \in checks, CheckDone(c)
  PROVE  PendingInv'
<1>1. /\ checks' = checks \ {c}
      /\ UNCHANGED <<app, added, submits, polls, reconciles, node, moves>>
      /\ \/ /\ c.got \in Status
            /\ txs' = SetStatus(txs, c.tx, c.got) /\ drana_pending_txs' = txs'
         \/ UNCHANGED <<txs, drana_pending_txs>>
  BY DEF CheckDone, SetTxs
<1>2. PICK l : l = txs
  OBVIOUS
<1>3. PICK k : k = SetStatus(txs, c.tx, c.got)
  OBVIOUS
<1>4. CheckFits(c) /\ ListFits(l)
  BY <1>2 DEF PendingInv, WaitingFits
<1>5. /\ DOMAIN k = DOMAIN l /\ k = [i \in DOMAIN l |-> k[i]]
      /\ \A i \in DOMAIN l : k[i] = IF Hash(l[i]) = c.tx
                                    THEN [l[i] EXCEPT !.status = c.got] ELSE l[i]
  BY <1>2, <1>3 DEF SetStatus
<1>6. ASSUME c.got \in Status
      PROVE  \A i \in DOMAIN l : \/ k[i] = l[i]
                                 \/ \E x \in Status : /\ k[i] = [l[i] EXCEPT !.status = x]
                                                      /\ AnswerFits(l[i], x)
  <2>1. ASSUME NEW i \in DOMAIN l, Hash(l[i]) = c.tx PROVE AnswerFits(l[i], c.got)
    BY <1>4, <2>1 DEF CheckFits, AnswerFits
  <2> QED BY <1>5, <1>6, <2>1
<1>7. c.got \in Status => ListFits(k)
  BY <1>4, <1>5, <1>6, StatusWritten
<1>8. drana_pending_txs' = txs' /\ ListFits(txs')
  BY <1>1, <1>2, <1>3, <1>4, <1>7 DEF PendingInv
<1>9. AppFits'
  BY <1>1 DEF app, AppFits, PendingInv
<1> QED BY <1>1, <1>8, <1>9, LightStep DEF node

\* A check fails.
LEMMA CheckFailsStep ==
  ASSUME PendingInv, NEW c \in checks, CheckFails(c)
  PROVE  PendingInv'
BY CheckLight DEF CheckFails

\* What is left of the list is as good as it was.
LEMMA CleanUpStep ==
  ASSUME PendingInv, CleanUp
  PROVE  PendingInv'
<1>1. PICK K : K = {e \in Entry : Keeps(e)}
  OBVIOUS
<1>2. PICK l : l = txs
  OBVIOUS
<1>3. PICK k : k = Filter(l, K)
  OBVIOUS
<1>4. /\ txs' = k /\ drana_pending_txs' = k
      /\ UNCHANGED <<app, added, waiting, node, moves>>
  BY <1>1, <1>2, <1>3 DEF CleanUp, SetTxs
<1>5. ListFits(l) /\ l \in Seq(Entry)
  BY <1>2 DEF PendingInv, ListFits
<1>6. k \in Seq(Entry) /\ \E f : Places(l, K, Len(l), k, f)
  BY <1>3, <1>5, FilterKeeps
<1>7. \A i \in DOMAIN k : \E j \in DOMAIN l : k[i] = l[j]
  <2>1. PICK f : Places(l, K, Len(l), k, f)
    BY <1>6
  <2>2. DOMAIN l = 1..Len(l)
    BY <1>5
  <2> QED BY <2>1, <2>2 DEF Places
<1>8. ListFits(k)
  BY <1>5, <1>6, <1>7 DEF ListFits
<1>9. AppFits'
  BY <1>4 DEF app, AppFits, PendingInv
<1> QED BY <1>4, <1>8, <1>9, LightStep DEF node, waiting

-----------------------------------------------------------------------------
(* The invariant *)

\* The first state: every wallet has its funds.
LEMMA PendingInitially == Init => PendingInv
<1> SUFFICES ASSUME Init PROVE PendingInv
  OBVIOUS
<1>1. /\ address \in Address /\ balance = 0 /\ moves = 0
      /\ txs = << >> /\ drana_pending_txs = << >> /\ added = << >>
      /\ submits = {} /\ polls = {} /\ reconciles = {} /\ checks = {}
      /\ mempool = {} /\ confirmed = {}
  BY DEF Init
<1>2. Funds \in Nat /\ IsFiniteSet(Address) /\ Funds * Cardinality(Address) \in Nat
  BY PendingAssumption, FS_CardinalityType
<1>3. \A a \in Address : AccountNonce(a) = 0
  <2>1. \A a \in Address : Of(confirmed, a) = {}
    BY <1>1 DEF Of
  <2> QED BY <2>1, FS_EmptySet DEF AccountNonce
<1>4. \A a \in Address : AccountBalance(a) = Funds
  <2>1. TotalAmount({}) = 0
    BY SumEmpty DEF TotalAmount
  <2>2. \A a \in Address : /\ Of(confirmed, a) = {}
                           /\ {t \in confirmed : FormData[t.form].recipient = a} = {}
    BY <1>1 DEF Of
  <2>3. \A a \in Address : AccountBalance(a) = (Funds - 0) + 0
    BY <2>1, <2>2 DEF AccountBalance
  <2> QED BY <2>3, <1>2
<1>5. SumFunctionOnSet([a \in Address |-> AccountBalance(a)], Address)
        = Funds * Cardinality(Address)
  <2>1. PICK f : f = [a \in Address |-> AccountBalance(a)]
    OBVIOUS
  <2>2. \A a \in Address : f[a] = Funds
    BY <1>4, <2>1
  <2>3. SumFunctionOnSet(f, Address) = Funds * Cardinality(Address)
    <3>1. Funds \in Int
      BY <1>2
    <3> QED BY <1>2, <2>2, <3>1, SumConstant
  <2> QED BY <2>1, <2>3
<1>6. NodeFits
  <2>1. mempool \subseteq Tx /\ confirmed \subseteq Tx /\ IsFiniteSet(confirmed)
    BY <1>1, FS_EmptySet
  <2>2. \A a \in Address : \A k \in 1..AccountNonce(a) :
          \E t \in confirmed : t.sender = a /\ t.nonce = k
    BY <1>3
  <2>3. \A a \in Address : AccountBalance(a) \in Nat
    BY <1>2, <1>4
  <2>4. Funds * Cardinality(Address) <= Funds * Cardinality(Address)
    BY <1>2
  <2> QED BY <1>1, <1>5, <2>1, <2>2, <2>3, <2>4 DEF NodeFits
<1>7. AddedFits
  <2>1. << >> \in Seq([tx : Tx, age : 0..Over10min]) /\ DOMAIN << >> = {}
    OBVIOUS
  <2> QED BY <1>1, <2>1 DEF AddedFits
<1>8. ListFits(txs)
  <2>1. << >> \in Seq(Entry) /\ DOMAIN << >> = {}
    OBVIOUS
  <2> QED BY <1>1, <2>1 DEF ListFits
<1>9. AppFits
  BY <1>1, <1>2, PendingAssumption DEF AppFits
<1> QED BY <1>1, <1>6, <1>7, <1>8, <1>9 DEF PendingInv, WaitingFits

\* Every step keeps the invariant.
LEMMA PendingPreserved == PendingInv /\ [Next]_vars => PendingInv'
<1> SUFFICES ASSUME PendingInv, [Next]_vars PROVE PendingInv'
  OBVIOUS
<1>1. ASSUME NEW t \in mempool, Confirm(t) PROVE PendingInv'
  BY <1>1, ConfirmStep
<1>2. ASSUME NEW i \in DOMAIN added, GrowOlder(i) PROVE PendingInv'
  BY <1>2, OlderStep
<1>3. CASE Spend
  <2>1. ASSUME NEW f \in Form, NEW id \in 1..MaxCalls, StartSubmit(f, id)
        PROVE  PendingInv'
    BY <2>1, StartSubmitStep
  <2>2. ASSUME NEW s \in submits,
               Resolved(s) \/ NonceRead(s) \/ Checked(s) \/ Pooled(s) \/ SubmitDone(s)
               \/ SubmitFails(s)
        PROVE  PendingInv'
    BY <2>2, ResolvedStep, NonceReadStep, CheckedStep, PooledStep, SubmitDoneStep,
       SubmitFailsStep
  <2>3. CASE RefreshBalance
    BY <2>3, RefreshBalanceStep
  <2> QED BY <1>3, <2>1, <2>2, <2>3 DEF Spend
<1>4. CASE Poll
  <2>1. CASE PollStart
    BY <2>1, PollStartStep
  <2>2. ASSUME NEW p \in polls, PollDone(p) PROVE PendingInv'
    BY <2>2, PollDoneStep
  <2>3. ASSUME NEW p \in polls, NEW i \in DOMAIN p.list,
               PollAsks(p, i) \/ PollAnswered(p, i) \/ PollUnreachable(p, i)
        PROVE  PendingInv'
    BY <2>3, PollAnswerStep
  <2> QED BY <1>4, <2>1, <2>2, <2>3 DEF Poll
<1>5. CASE Settle
  <2>1. ASSUME NEW r \in reconciles,
               ReconcileRead(r) \/ ReconcileDone(r) \/ ReconcileFails(r)
        PROVE  PendingInv'
    BY <2>1, ReconcileReadStep, ReconcileDoneStep, ReconcileFailsStep
  <2>2. ASSUME NEW c \in checks,
               CheckAsks(c) \/ CheckAnswered(c) \/ CheckDone(c) \/ CheckFails(c)
        PROVE  PendingInv'
    BY <2>2, CheckAsksStep, CheckAnsweredStep, CheckDoneStep, CheckFailsStep
  <2>3. CASE CleanUp
    BY <2>3, CleanUpStep
  <2> QED BY <1>5, <2>1, <2>2, <2>3 DEF Settle
<1>6. ASSUME NEW a \in Address, SwitchWallet(a) PROVE PendingInv'
  BY <1>6, SwitchWalletStep
<1>7. CASE Reload
  BY <1>7, ReloadStep
<1>8. CASE UNCHANGED vars
  <2>1. UNCHANGED <<app, list, submits, polls, reconciles, checks, node, moves>>
    BY <1>8 DEF vars, waiting
  <2> QED BY <2>1, SubmitLight
<1> QED BY <1>1, <1>2, <1>3, <1>4, <1>5, <1>6, <1>7, <1>8 DEF Next

\* The invariant holds in every state.
LEMMA PendingInvAlways == Spec => []PendingInv
BY PendingInitially, PendingPreserved, PTL DEF Spec

-----------------------------------------------------------------------------
(* The theorems *)

\* The invariant makes the state typed.
LEMMA PendingTyped == PendingInv => TypeOK
<1> SUFFICES ASSUME PendingInv PROVE TypeOK
  OBVIOUS
<1>1. /\ address \in Address /\ balance \in 0..(Funds * Cardinality(Address))
      /\ moves \in 0..MaxMoves
  BY DEF PendingInv, AppFits
<1>2. txs \in Seq(Entry) /\ drana_pending_txs \in Seq(Entry)
  BY DEF PendingInv, ListFits
<1>3. added \in Seq([tx : Tx, age : 0..Over10min])
  BY DEF PendingInv, AddedFits
<1>4. \A s \in submits :
        /\ s.form \in Form /\ s.sender \in Address /\ s.id \in 1..MaxCalls
        /\ s.nonce \in 0..MaxNonce /\ s.phase \in Phase
  BY SubmitKnown DEF Submit
<1>5. \A p \in polls : p.list \in Seq(Entry) /\ p.got \in Seq(Answer)
                       /\ DOMAIN p.list = DOMAIN p.got
  <2>1. PICK E : E = Seq(Entry)
    OBVIOUS
  <2>2. \A p \in polls : p \in [list : E, got : Seq(Answer)] /\ DOMAIN p.list = DOMAIN p.got
    BY <2>1 DEF PendingInv, WaitingFits, PollFits
  <2> QED BY <2>1, <2>2
<1>6. \A r \in reconciles :
        r.list \in Seq(Entry) /\ r.sender \in Address /\ r.hashes \subseteq Tx
        /\ r.answered \in BOOLEAN
  <2>1. PICK E : E = Seq(Entry)
    OBVIOUS
  <2>2. \A r \in reconciles :
          r \in [list : E, sender : Address, answered : BOOLEAN, hashes : SUBSET Tx]
    BY <2>1 DEF PendingInv, WaitingFits, ReconcileFits
  <2> QED BY <2>1, <2>2
<1>7. checks \subseteq [tx : Tx, got : Answer]
  BY DEF PendingInv, WaitingFits, CheckFits
<1>8. mempool \subseteq Tx /\ confirmed \subseteq Tx
  BY DEF PendingInv, NodeFits
<1> QED BY <1>1, <1>2, <1>3, <1>4, <1>5, <1>6, <1>7, <1>8 DEF TypeOK, Phase

\* Lists, calls, answers and the node keep their types; in particular no answer
\* of a status, and no step but an answer, gets into the status of an entry, and
\* the balance shown is never more than all wallets have together.
THEOREM PendingTyping == Spec => []TypeOK
BY PendingInvAlways, PendingTyped, PTL

\* What is shown as confirmed is in a block.
THEOREM ConfirmedMeansInBlock == Spec => []ConfirmedIsTrue
<1>1. PendingInv => ConfirmedIsTrue
  BY EntryKnown DEF ConfirmedIsTrue, Entries, EntryFits, PendingInv
<1> QED BY <1>1, PendingInvAlways, PTL

\* What is shown as failed within 5 minutes has lost its nonce, so it is not
\* waiting for a block.
THEOREM FailedMeansGone == Spec => []FailedHasCause
<1>1. PendingInv => FailedHasCause
  BY EntryKnown DEF FailedHasCause, Entries, EntryFits, Stale, PendingInv
<1> QED BY <1>1, PendingInvAlways, PTL

\* What the node accepted leaves its pool for a block, or because another
\* transaction of the wallet took its nonce: the nonces of a wallet's blocks are
\* 1, 2, ... without a gap.
THEOREM OnlyClashesDrop == Spec => []DroppedOnlyByClash
<1>1. ASSUME PendingInv PROVE DroppedOnlyByClash
  <2> SUFFICES ASSUME NEW i \in DOMAIN txs
               PROVE  \/ Hash(txs[i]) \in mempool \cup confirmed
                      \/ \E t \in confirmed : /\ t.sender = Hash(txs[i]).sender
                                              /\ t.nonce = Hash(txs[i]).nonce
    BY DEF DroppedOnlyByClash, Entries
  <2>1. PICK u : u = Hash(txs[i])
    OBVIOUS
  <2>2. u \in Tx /\ Lives(u)
    BY <1>1, <2>1, EntryKnown DEF PendingInv
  <2>3. u.sender \in Address /\ u.nonce \in 1..MaxNonce
    BY <2>2 DEF Tx
  <2>4. AccountNonce(u.sender) \in Nat
    BY <1>1, <2>3, NonceNat DEF PendingInv
  <2>5. Stale(u) => u.nonce \in 1..AccountNonce(u.sender)
    BY <2>3, <2>4, PendingAssumption DEF Stale
  <2>6. Stale(u) => \E t \in confirmed : t.sender = u.sender /\ t.nonce = u.nonce
    BY <1>1, <2>3, <2>5 DEF PendingInv, NodeFits
  <2> QED BY <2>1, <2>2, <2>6 DEF Lives
<1> QED BY <1>1, PendingInvAlways, PTL

-----------------------------------------------------------------------------
(* Which list is written back.  The numbers of the entries are what counts.   *)

\* The transactions a that are less than 10 minutes old are in the list l.
HasAll(a, l) ==
  \A n \in DOMAIN a : a[n].age < Over10min => \E i \in DOMAIN l : l[i].n = n

\* No transaction is younger in b than in a, and there is no new one.
NoneNew(a, b) ==
  DOMAIN b = DOMAIN a /\ \A n \in DOMAIN a : b[n].age < Over10min => a[n].age < Over10min

\* The list k has what is young in l.
TakesOver(a, l, k) ==
  \A i \in DOMAIN l : l[i].n \in DOMAIN a /\ a[l[i].n].age < Over10min
     => \E j \in DOMAIN k : k[j].n = l[i].n

\* A transaction is recorded.
Recorded == \E s \in submits : s.phase = "accepted" /\ SubmitDone(s)

\* The three names of the same thing
LEMMA HasAllIs ==
  /\ AcceptedIsTracked <=> HasAll(added, txs)
  /\ \A l : Lacks(l) <=> ~ HasAll(added, l)
BY DEF AcceptedIsTracked, HasAll, Entries, Lacks

\* A list that takes over from a complete one is complete, and time only helps.
LEMMA TakenOver ==
  ASSUME NEW a, NEW b, NEW l, NEW k, HasAll(a, l), NoneNew(a, b), TakesOver(b, l, k)
  PROVE  HasAll(b, k)
BY DEF HasAll, NoneNew, TakesOver

\* Every list takes over from itself.
LEMMA TakesOverSelf == \A a, l : TakesOver(a, l, l)
BY DEF TakesOver

\* Entries with other statuses are entries of the same transactions.
LEMMA TakesOverNumbers ==
  ASSUME NEW a, NEW l, NEW k, DOMAIN k = DOMAIN l, \A i \in DOMAIN l : k[i].n = l[i].n
  PROVE  TakesOver(a, l, k)
BY DEF TakesOver

\* Only two actions change what has been recorded.
LEMMA AddedStays ==
  ASSUME PendingInv, [Next]_vars, ~ Recorded
  PROVE  NoneNew(added, added')
<1>1. ASSUME UNCHANGED added PROVE NoneNew(added, added')
  BY <1>1 DEF NoneNew
<1>2. CASE UNCHANGED vars
  BY <1>1, <1>2 DEF vars, list
<1>3. ASSUME NEW t \in mempool, Confirm(t) PROVE NoneNew(added, added')
  BY <1>1, <1>3 DEF Confirm, list
<1>4. ASSUME NEW i \in DOMAIN added, GrowOlder(i) PROVE NoneNew(added, added')
  <2>1. PICK a : a = added
    OBVIOUS
  <2>2. PICK b : b = added'
    OBVIOUS
  <2>3. /\ b = [a EXCEPT ![i].age = @ + 1] /\ a[i].age < Over10min /\ i \in DOMAIN a
    BY <1>4, <2>1, <2>2 DEF GrowOlder
  <2>4. DOMAIN b = DOMAIN a /\ \A n \in DOMAIN a : n # i => b[n] = a[n]
    BY <2>3
  <2> QED BY <2>1, <2>2, <2>3, <2>4 DEF NoneNew
<1>5. CASE Spend
  <2>1. ASSUME NEW f \in Form, NEW id \in 1..MaxCalls, StartSubmit(f, id)
        PROVE  UNCHANGED added
    BY <2>1 DEF StartSubmit, list
  <2>2. ASSUME NEW s \in submits, Resolved(s) \/ NonceRead(s) \/ Checked(s) \/ Pooled(s)
                                  \/ SubmitFails(s)
        PROVE  UNCHANGED added
    BY <2>2 DEF Resolved, NonceRead, Checked, Pooled, SubmitFails, list
  <2>3. ASSUME NEW s \in submits, SubmitDone(s) PROVE UNCHANGED added
    <3>1. s.phase # "accepted"
      BY <2>3 DEF Recorded
    <3> QED BY <2>3, <3>1 DEF SubmitDone, list
  <2>4. CASE RefreshBalance
    BY <2>4, <1>1 DEF RefreshBalance, list
  <2> QED BY <1>1, <1>5, <2>1, <2>2, <2>3, <2>4 DEF Spend
<1>6. CASE Poll
  <2>1. ASSUME NEW p \in polls, NEW i, PollAsks(p, i) \/ PollAnswered(p, i) \/ PollUnreachable(p, i)
        PROVE  UNCHANGED added
    BY <2>1 DEF PollAsks, PollAnswered, PollUnreachable, PollGets, list
  <2>2. ASSUME NEW p \in polls, PollDone(p) PROVE UNCHANGED added
    BY <2>2 DEF PollDone
  <2>3. CASE PollStart
    BY <2>3, <1>1 DEF PollStart, list
  <2> QED BY <1>1, <1>6, <2>1, <2>2, <2>3 DEF Poll
<1>7. CASE Settle
  <2>1. ASSUME NEW r \in reconciles, ReconcileRead(r) \/ ReconcileDone(r) \/ ReconcileFails(r)
        PROVE  UNCHANGED added
    BY <2>1 DEF ReconcileRead, ReconcileDone, ReconcileFails, list
  <2>2. ASSUME NEW c \in checks, CheckAsks(c) \/ CheckAnswered(c) \/ CheckDone(c) \/ CheckFails(c)
        PROVE  UNCHANGED added
    BY <2>2 DEF CheckAsks, CheckAnswered, CheckDone, CheckFails, list
  <2>3. CASE CleanUp
    BY <2>3, <1>1 DEF CleanUp
  <2> QED BY <1>1, <1>7, <2>1, <2>2, <2>3 DEF Settle
<1>8. ASSUME NEW a \in Address, SwitchWallet(a) PROVE NoneNew(added, added')
  BY <1>1, <1>8 DEF SwitchWallet, list
<1>9. CASE Reload
  BY <1>1, <1>9 DEF Reload
<1> QED BY <1>2, <1>3, <1>4, <1>5, <1>6, <1>7, <1>8, <1>9 DEF Next

\* The list that the next one takes over from
Source(l) ==
  \/ l = txs
  \/ \E p \in polls : l = p.list /\ PollDone(p)
  \/ \E r \in reconciles : l = r.list /\ ReconcileDone(r)

\* The answers of a poll are written into the list it started with.
LEMMA PollWrites ==
  ASSUME PendingInv, NEW p \in polls, PollDone(p)
  PROVE  \E l : Source(l) /\ TakesOver(added', l, txs')
<1>1. CASE txs' = txs
  BY <1>1, TakesOverSelf DEF Source
<1>2. CASE txs' # txs
  <2>1. txs' = Updated(p)
    BY <1>2 DEF PollDone, SetTxs
  <2>2. PICK l : l = p.list
    OBVIOUS
  <2>3. PICK k : k = Updated(p)
    OBVIOUS
  <2>4. ListFits(l)
    BY <2>2 DEF PendingInv, WaitingFits, PollFits
  <2>5. /\ DOMAIN k = DOMAIN l
        /\ \A i \in DOMAIN l : k[i] = IF p.got[i] \in Status
                                      THEN [l[i] EXCEPT !.status = p.got[i]] ELSE l[i]
    BY <2>2, <2>3 DEF Updated
  <2>6. ASSUME NEW i \in DOMAIN l PROVE k[i].n = l[i].n
    <3>1. l[i] \in Entry
      BY <2>4, EntryKnown
    <3> QED BY <2>5, <3>1 DEF Entry
  <2>7. TakesOver(added', l, k)
    BY <2>5, <2>6, TakesOverNumbers
  <2>8. Source(l)
    BY <2>2 DEF Source
  <2> QED BY <2>1, <2>3, <2>7, <2>8
<1> QED BY <1>1, <1>2

\* A reconciliation writes the list it started with.
LEMMA ReconcileWrites ==
  ASSUME PendingInv, NEW r \in reconciles, ReconcileDone(r)
  PROVE  \E l : Source(l) /\ TakesOver(added', l, txs')
<1>1. txs' = txs \/ txs' = r.list
  BY DEF ReconcileDone, SetTxs
<1>2. Source(txs) /\ Source(r.list)
  BY DEF Source
<1> QED BY <1>1, <1>2, TakesOverSelf

\* The status of a transaction is written into the current list.
LEMMA CheckWrites ==
  ASSUME PendingInv, NEW c \in checks, CheckDone(c)
  PROVE  TakesOver(added', txs, txs')
<1>1. CASE txs' = txs
  BY <1>1, TakesOverSelf
<1>2. CASE txs' # txs
  <2>1. PICK l : l = txs
    OBVIOUS
  <2>2. PICK k : k = SetStatus(l, c.tx, c.got)
    OBVIOUS
  <2>3. txs' = k
    BY <1>2, <2>1, <2>2 DEF CheckDone, SetTxs
  <2>4. ListFits(l)
    BY <2>1 DEF PendingInv
  <2>5. /\ DOMAIN k = DOMAIN l
        /\ \A i \in DOMAIN l : k[i] = IF Hash(l[i]) = c.tx
                                      THEN [l[i] EXCEPT !.status = c.got] ELSE l[i]
    BY <2>2 DEF SetStatus
  <2>6. ASSUME NEW i \in DOMAIN l PROVE k[i].n = l[i].n
    <3>1. l[i] \in Entry
      BY <2>4, EntryKnown
    <3> QED BY <2>5, <3>1 DEF Entry
  <2>7. TakesOver(added', l, k)
    BY <2>5, <2>6, TakesOverNumbers
  <2> QED BY <2>1, <2>3, <2>7
<1> QED BY <1>1, <1>2

\* What is less than 10 minutes old is not cleaned up.
LEMMA CleanUpWrites ==
  ASSUME PendingInv, CleanUp
  PROVE  TakesOver(added', txs, txs')
<1>1. PICK K : K = {e \in Entry : Keeps(e)}
  OBVIOUS
<1>2. PICK l : l = txs
  OBVIOUS
<1>3. PICK k : k = Filter(l, K)
  OBVIOUS
<1>4. txs' = k /\ added' = added
  BY <1>1, <1>2, <1>3 DEF CleanUp, SetTxs
<1>5. ListFits(l) /\ l \in Seq(Entry)
  BY <1>2 DEF PendingInv, ListFits
<1>6. PICK f : Places(l, K, Len(l), k, f)
  BY <1>3, <1>5, FilterKeeps
<1>7. DOMAIN l = 1..Len(l)
  BY <1>5
<1>8. ASSUME NEW i \in DOMAIN l, added[l[i].n].age < Over10min
      PROVE  \E j \in DOMAIN k : k[j].n = l[i].n
  <2>1. l[i] \in Entry
    BY <1>5, EntryKnown
  <2>2. l[i] \in K
    BY <1>1, <1>8, <2>1 DEF Keeps, Age
  <2>3. PICK j \in DOMAIN k : f[j] = i
    BY <1>6, <1>7, <2>2 DEF Places
  <2>4. k[j] = l[i]
    BY <1>6, <2>3 DEF Places
  <2> QED BY <2>4
<1> QED BY <1>2, <1>4, <1>8 DEF TakesOver

\* The next list takes over from the current one or from one that waited.
LEMMA ListWritten ==
  ASSUME PendingInv, [Next]_vars, ~ Recorded
  PROVE  \E l : Source(l) /\ TakesOver(added', l, txs')
<1>1. ASSUME TakesOver(added', txs, txs') PROVE \E l : Source(l) /\ TakesOver(added', l, txs')
  BY <1>1 DEF Source
<1>2. ASSUME UNCHANGED txs PROVE \E l : Source(l) /\ TakesOver(added', l, txs')
  BY <1>1, <1>2, TakesOverSelf
<1>3. CASE UNCHANGED vars
  BY <1>2, <1>3 DEF vars, list
<1>4. CASE \E t \in mempool : Confirm(t)
  BY <1>2, <1>4 DEF Confirm, list
<1>5. CASE \E i \in DOMAIN added : GrowOlder(i)
  BY <1>2, <1>5 DEF GrowOlder
<1>6. CASE Spend
  <2>1. ASSUME NEW f \in Form, NEW id \in 1..MaxCalls, StartSubmit(f, id)
        PROVE  UNCHANGED txs
    BY <2>1 DEF StartSubmit, list
  <2>2. ASSUME NEW s \in submits, Resolved(s) \/ NonceRead(s) \/ Checked(s) \/ Pooled(s)
                                  \/ SubmitFails(s)
        PROVE  UNCHANGED txs
    BY <2>2 DEF Resolved, NonceRead, Checked, Pooled, SubmitFails, list
  <2>3. ASSUME NEW s \in submits, SubmitDone(s) PROVE UNCHANGED txs
    <3>1. s.phase # "accepted"
      BY <2>3 DEF Recorded
    <3> QED BY <2>3, <3>1 DEF SubmitDone, list
  <2>4. ASSUME RefreshBalance PROVE UNCHANGED txs
    BY <2>4 DEF RefreshBalance, list
  <2>5. UNCHANGED txs
    BY <1>6, <2>1, <2>2, <2>3, <2>4 DEF Spend
  <2> QED BY <1>2, <2>5
<1>7. CASE Poll
  <2>1. ASSUME NEW p \in polls, NEW i, PollAsks(p, i) \/ PollAnswered(p, i) \/ PollUnreachable(p, i)
        PROVE  UNCHANGED txs
    BY <2>1 DEF PollAsks, PollAnswered, PollUnreachable, PollGets, list
  <2>2. ASSUME PollStart PROVE UNCHANGED txs
    BY <2>2 DEF PollStart, list
  <2>3. UNCHANGED txs \/ \E p \in polls : PollDone(p)
    BY <1>7, <2>1, <2>2 DEF Poll
  <2> QED BY <1>2, <2>3, PollWrites
<1>8. CASE Settle
  <2>1. ASSUME NEW r \in reconciles, ReconcileRead(r) \/ ReconcileFails(r)
        PROVE  UNCHANGED txs
    BY <2>1 DEF ReconcileRead, ReconcileFails, list
  <2>2. ASSUME NEW c \in checks, CheckAsks(c) \/ CheckAnswered(c) \/ CheckFails(c)
        PROVE  UNCHANGED txs
    BY <2>2 DEF CheckAsks, CheckAnswered, CheckFails, list
  <2>3. \/ UNCHANGED txs \/ CleanUp
        \/ \E r \in reconciles : ReconcileDone(r)
        \/ \E c \in checks : CheckDone(c)
    BY <1>8, <2>1, <2>2 DEF Settle
  <2> QED BY <1>1, <1>2, <2>3, ReconcileWrites, CheckWrites, CleanUpWrites
<1>9. CASE \E a \in Address : SwitchWallet(a)
  BY <1>2, <1>9 DEF SwitchWallet, list
<1>10. CASE Reload
  <2>1. UNCHANGED txs
    BY <1>10 DEF Reload, PendingInv
  <2> QED BY <1>2, <2>1
<1> QED BY <1>3, <1>4, <1>5, <1>6, <1>7, <1>8, <1>9, <1>10 DEF Next

\* A transaction that is recorded is in the list.
LEMMA RecordedIsListed ==
  ASSUME PendingInv, HasAll(added, txs), Recorded
  PROVE  HasAll(added', txs')
<1>1. PICK s \in submits : s.phase = "accepted" /\ SubmitDone(s)
  BY DEF Recorded
<1>2. PICK a : a = added
  OBVIOUS
<1>3. PICK l : l = txs
  OBVIOUS
<1>4. /\ txs' = Append(l, [n |-> Len(a) + 1, status |-> "pending"])
      /\ added' = Append(a, [tx |-> TxOf(s), age |-> 0])
  BY <1>1, <1>2, <1>3 DEF SubmitDone, SetTxs
<1>5. PICK E : l \in Seq(E)
  BY <1>3 DEF PendingInv, ListFits
<1>6. PICK A : a \in Seq(A)
  BY <1>2 DEF PendingInv, AddedFits
<1>7. PICK e : e = [n |-> Len(a) + 1, status |-> "pending"]
  OBVIOUS
<1>8. PICK k : k = Append(l, e)
  OBVIOUS
<1>9. /\ Len(l) \in Nat /\ DOMAIN l = 1..Len(l) /\ DOMAIN k = 1..(Len(l) + 1)
      /\ k[Len(l) + 1] = e /\ \A i \in 1..Len(l) : k[i] = l[i]
  BY <1>5, <1>8
<1>10. PICK b : b = Append(a, [tx |-> TxOf(s), age |-> 0])
  OBVIOUS
<1>11. /\ Len(a) \in Nat /\ DOMAIN a = 1..Len(a) /\ DOMAIN b = 1..(Len(a) + 1)
       /\ \A i \in 1..Len(a) : b[i] = a[i]
  BY <1>6, <1>10
<1>12. ASSUME NEW n \in DOMAIN b, b[n].age < Over10min
       PROVE  \E i \in DOMAIN k : k[i].n = n
  <2>1. CASE n = Len(a) + 1
    <3>1. Len(l) + 1 \in DOMAIN k /\ k[Len(l) + 1].n = n
      BY <1>7, <1>9, <2>1
    <3> QED BY <3>1
  <2>2. CASE n # Len(a) + 1
    <3>1. n \in DOMAIN a /\ b[n] = a[n]
      BY <1>11, <2>2
    <3>2. PICK i \in DOMAIN l : l[i].n = n
      BY <1>2, <1>3, <1>12, <3>1 DEF HasAll
    <3>3. i \in DOMAIN k /\ k[i] = l[i]
      BY <1>9
    <3> QED BY <3>2, <3>3
  <2> QED BY <2>1, <2>2
<1>13. txs' = k /\ added' = b
  BY <1>4, <1>7, <1>8, <1>10
<1> QED BY <1>12, <1>13 DEF HasAll

\* A step after which the list is incomplete has written an old list.
LEMMA LossStep ==
  ASSUME PendingInv, [Next]_vars, HasAll(added, txs), ~ HasAll(added', txs')
  PROVE  OldListWritten
<1>1. ~ Recorded
  BY RecordedIsListed
<1>2. PICK l : Source(l) /\ TakesOver(added', l, txs')
  BY <1>1, ListWritten
<1>3. ~ HasAll(added, l)
  BY <1>1, <1>2, AddedStays, TakenOver
<1>4. Lacks(l) /\ l # txs
  BY <1>3, HasAllIs
<1> QED BY <1>2, <1>4 DEF Source, OldListWritten

\* Whatever the order of submissions, polls, reconciliations, checks, reloads and
\* cleaning up, the application forgets a transaction of the last 10 minutes only
\* when poll or the reconciliation writes back a list that lacks it.
THEOREM OnlyOldListsLose == Spec => LostOnlyByOldList
<1>1. (AcceptedIsTracked <=> HasAll(added, txs))'
  BY HasAllIs, PTL
<1>2. PendingInv /\ [Next]_vars
        => [AcceptedIsTracked /\ ~ AcceptedIsTracked' => OldListWritten]_vars
  BY <1>1, HasAllIs, LossStep
<1>3. Spec => [][AcceptedIsTracked /\ ~ AcceptedIsTracked' => OldListWritten]_vars
  BY <1>2, PendingInvAlways, PTL DEF Spec
<1> QED BY <1>3 DEF LostOnlyByOldList

-----------------------------------------------------------------------------
(* Why there are such lists *)

\* A transaction is recorded while a poll or a reconciliation waits.
RecordedMeanwhile == Recorded /\ (polls # {} \/ reconciles # {})

\* No list lacks a transaction, the lists that wait included.
AllComplete ==
  /\ HasAll(added, txs)
  /\ \A p \in polls : HasAll(added, p.list)
  /\ \A r \in reconciles : HasAll(added, r.list)

\* A poll that waits after a step has waited before it or starts with the list.
LEMMA PollListKnown ==
  ASSUME PendingInv, [Next]_vars, NEW q \in polls'
  PROVE  q.list = txs \/ \E p \in polls : q.list = p.list
<1>1. ASSUME polls' \subseteq polls PROVE \E p \in polls : q.list = p.list
  BY <1>1
<1>2. CASE UNCHANGED vars
  BY <1>1, <1>2 DEF vars, waiting
<1>3. CASE \E t \in mempool : Confirm(t)
  BY <1>1, <1>3 DEF Confirm, waiting
<1>4. CASE \E i \in DOMAIN added : GrowOlder(i)
  BY <1>1, <1>4 DEF GrowOlder, waiting
<1>5. CASE Spend
  <2>1. ASSUME NEW f \in Form, NEW id \in 1..MaxCalls, StartSubmit(f, id)
        PROVE  UNCHANGED polls
    BY <2>1 DEF StartSubmit
  <2>2. ASSUME NEW s \in submits, Resolved(s) \/ NonceRead(s) \/ Checked(s) \/ Pooled(s)
                                  \/ SubmitDone(s) \/ SubmitFails(s)
        PROVE  UNCHANGED polls
    BY <2>2 DEF Resolved, NonceRead, Checked, Pooled, SubmitDone, SubmitFails
  <2>3. ASSUME RefreshBalance PROVE UNCHANGED polls
    BY <2>3 DEF RefreshBalance, waiting
  <2>4. UNCHANGED polls
    BY <1>5, <2>1, <2>2, <2>3 DEF Spend
  <2> QED BY <1>1, <2>4
<1>6. CASE Poll
  <2>1. ASSUME NEW p \in polls, PollDone(p) PROVE \E o \in polls : q.list = o.list
    BY <1>1, <2>1 DEF PollDone
  <2>2. ASSUME PollStart PROVE q.list = txs \/ \E p \in polls : q.list = p.list
    BY <2>2 DEF PollStart
  <2>3. ASSUME NEW p \in polls, NEW i, NEW x, PollGets(p, i, x)
        PROVE  \E o \in polls : q.list = o.list
    <3>1. q \in polls \/ q = [p EXCEPT !.got[i] = x]
      BY <2>3 DEF PollGets
    <3>2. PICK E : E = Seq(Entry)
      OBVIOUS
    <3>3. p \in [list : E, got : Seq(Answer)]
      BY <3>2 DEF PendingInv, WaitingFits, PollFits
    <3>4. [p EXCEPT !.got[i] = x].list = p.list
      BY <3>3
    <3> QED BY <3>1, <3>4
  <2> QED BY <1>6, <2>1, <2>2, <2>3 DEF Poll, PollAsks, PollAnswered, PollUnreachable
<1>7. CASE Settle
  <2>1. ASSUME NEW r \in reconciles, ReconcileRead(r) \/ ReconcileDone(r) \/ ReconcileFails(r)
        PROVE  UNCHANGED polls
    BY <2>1 DEF ReconcileRead, ReconcileDone, ReconcileFails
  <2>2. ASSUME NEW c \in checks, CheckAsks(c) \/ CheckAnswered(c) \/ CheckDone(c) \/ CheckFails(c)
        PROVE  UNCHANGED polls
    BY <2>2 DEF CheckAsks, CheckAnswered, CheckDone, CheckFails
  <2>3. ASSUME CleanUp PROVE UNCHANGED polls
    BY <2>3 DEF CleanUp, waiting
  <2>4. UNCHANGED polls
    BY <1>7, <2>1, <2>2, <2>3 DEF Settle
  <2> QED BY <1>1, <2>4
<1>8. CASE \E a \in Address : SwitchWallet(a)
  BY <1>1, <1>8 DEF SwitchWallet
<1>9. CASE Reload
  BY <1>1, <1>9 DEF Reload
<1> QED BY <1>2, <1>3, <1>4, <1>5, <1>6, <1>7, <1>8, <1>9 DEF Next

\* The same of a reconciliation
LEMMA ReconcileListKnown ==
  ASSUME PendingInv, [Next]_vars, NEW q \in reconciles'
  PROVE  q.list = txs \/ \E r \in reconciles : q.list = r.list
<1>1. ASSUME reconciles' \subseteq reconciles PROVE \E r \in reconciles : q.list = r.list
  BY <1>1
<1>2. CASE UNCHANGED vars
  BY <1>1, <1>2 DEF vars, waiting
<1>3. CASE \E t \in mempool : Confirm(t)
  BY <1>1, <1>3 DEF Confirm, waiting
<1>4. CASE \E i \in DOMAIN added : GrowOlder(i)
  BY <1>1, <1>4 DEF GrowOlder, waiting
<1>5. CASE Spend
  <2>1. ASSUME NEW f \in Form, NEW id \in 1..MaxCalls, StartSubmit(f, id)
        PROVE  UNCHANGED reconciles
    BY <2>1 DEF StartSubmit
  <2>2. ASSUME NEW s \in submits, Resolved(s) \/ NonceRead(s) \/ Checked(s) \/ Pooled(s)
                                  \/ SubmitDone(s) \/ SubmitFails(s)
        PROVE  UNCHANGED reconciles
    BY <2>2 DEF Resolved, NonceRead, Checked, Pooled, SubmitDone, SubmitFails
  <2>3. ASSUME RefreshBalance PROVE UNCHANGED reconciles
    BY <2>3 DEF RefreshBalance, waiting
  <2>4. UNCHANGED reconciles
    BY <1>5, <2>1, <2>2, <2>3 DEF Spend
  <2> QED BY <1>1, <2>4
<1>6. CASE Poll
  <2>1. ASSUME NEW p \in polls, NEW i, PollAsks(p, i) \/ PollAnswered(p, i) \/ PollUnreachable(p, i)
        PROVE  UNCHANGED reconciles
    BY <2>1 DEF PollAsks, PollAnswered, PollUnreachable, PollGets
  <2>2. ASSUME NEW p \in polls, PollDone(p) PROVE UNCHANGED reconciles
    BY <2>2 DEF PollDone
  <2>3. ASSUME PollStart PROVE UNCHANGED reconciles
    BY <2>3 DEF PollStart
  <2>4. UNCHANGED reconciles
    BY <1>6, <2>1, <2>2, <2>3 DEF Poll
  <2> QED BY <1>1, <2>4
<1>7. CASE Settle
  <2>1. ASSUME NEW r \in reconciles, ReconcileDone(r) \/ ReconcileFails(r)
        PROVE  reconciles' \subseteq reconciles
    BY <2>1 DEF ReconcileDone, ReconcileFails
  <2>2. ASSUME NEW c \in checks, CheckAsks(c) \/ CheckAnswered(c) \/ CheckDone(c) \/ CheckFails(c)
        PROVE  UNCHANGED reconciles
    BY <2>2 DEF CheckAsks, CheckAnswered, CheckDone, CheckFails
  <2>3. ASSUME CleanUp PROVE UNCHANGED reconciles
    BY <2>3 DEF CleanUp, waiting
  <2>4. ASSUME NEW r \in reconciles, ReconcileRead(r)
        PROVE  \E o \in reconciles : q.list = o.list
    <3>1. PICK o : o = [r EXCEPT !.answered = TRUE, !.hashes = Of(mempool, r.sender)]
      OBVIOUS
    <3>2. q \in reconciles \/ q = o
      BY <2>4, <3>1 DEF ReconcileRead
    <3>3. PICK E : E = Seq(Entry)
      OBVIOUS
    <3>4. r \in [list : E, sender : Address, answered : BOOLEAN, hashes : SUBSET Tx]
      BY <3>3 DEF PendingInv, WaitingFits, ReconcileFits
    <3>5. o.list = r.list
      BY <3>1, <3>4
    <3> QED BY <3>2, <3>5
  <2>5. reconciles' \subseteq reconciles \/ \E r \in reconciles : ReconcileRead(r)
    BY <1>7, <2>1, <2>2, <2>3 DEF Settle
  <2> QED BY <1>1, <2>4, <2>5
<1>8. ASSUME NEW a, q \in Reconcile(a, txs) PROVE q.list = txs
  BY <1>8 DEF Reconcile
<1>9. CASE \E a \in Address : SwitchWallet(a)
  BY <1>8, <1>9 DEF SwitchWallet
<1>10. CASE Reload
  <2>1. txs' = txs
    BY <1>10 DEF Reload, PendingInv
  <2>2. q \in Reconcile(address, txs)
    BY <1>10, <2>1 DEF Reload
  <2> QED BY <1>8, <2>2
<1> QED BY <1>2, <1>3, <1>4, <1>5, <1>6, <1>7, <1>9, <1>10 DEF Next

\* Completeness is kept by every step that records nothing meanwhile.
LEMMA CompleteStep ==
  ASSUME PendingInv, [Next]_vars, AllComplete, ~ RecordedMeanwhile
  PROVE  AllComplete'
<1>1. HasAll(added', txs')
  <2> SUFFICES ASSUME ~ HasAll(added', txs') PROVE FALSE
    OBVIOUS
  <2>1. OldListWritten
    BY LossStep DEF AllComplete
  <2> QED BY <2>1, HasAllIs DEF OldListWritten, AllComplete
<1>2. CASE Recorded
  <2>1. polls = {} /\ reconciles = {}
    BY <1>2 DEF RecordedMeanwhile
  <2>2. polls' = polls /\ reconciles' = reconciles
    BY <1>2 DEF Recorded, SubmitDone
  <2> QED BY <1>1, <2>1, <2>2 DEF AllComplete
<1>3. CASE ~ Recorded
  <2>1. \A l : HasAll(added, l) => HasAll(added', l)
    BY <1>3, AddedStays, TakenOver, TakesOverSelf
  <2>2. \A q \in polls' : HasAll(added', q.list)
    BY <2>1, PollListKnown DEF AllComplete
  <2>3. \A q \in reconciles' : HasAll(added', q.list)
    BY <2>1, ReconcileListKnown DEF AllComplete
  <2> QED BY <1>1, <2>2, <2>3 DEF AllComplete
<1> QED BY <1>2, <1>3

\* The one race behind it: if no transaction is recorded between the start and the
\* end of a poll or a reconciliation, none is ever forgotten.
THEOREM TrackedUnlessRecordedMeanwhile ==
  Spec /\ [][~ RecordedMeanwhile]_vars => []AcceptedIsTracked
<1>1. Init => AllComplete
  BY DEF Init, AllComplete, HasAll
<1>2. PendingInv /\ AllComplete /\ [Next]_vars /\ [~ RecordedMeanwhile]_vars => AllComplete'
  <2> SUFFICES ASSUME PendingInv, AllComplete, [Next]_vars, [~ RecordedMeanwhile]_vars
               PROVE  AllComplete'
    OBVIOUS
  <2>1. CASE UNCHANGED vars
    BY <2>1 DEF vars, list, waiting, AllComplete
  <2>2. CASE ~ RecordedMeanwhile
    BY <2>2, CompleteStep
  <2> QED BY <2>1, <2>2
<1>3. AllComplete => AcceptedIsTracked
  BY HasAllIs DEF AllComplete
<1> QED BY <1>1, <1>2, <1>3, PendingInvAlways, PTL DEF Spec

-----------------------------------------------------------------------------
(* Signatures *)

\* Nine parts written one after the other, as FlattenSeq writes them
LEMMA FlattenNine ==
  ASSUME NEW s, Len(s) = 9
  PROVE  FlattenSeq(s) = s[1] \o s[2] \o s[3] \o s[4] \o s[5] \o s[6] \o s[7] \o s[8] \o s[9]
<1> DEFINE flatten == CHOOSE f : Flattening(s, f)
<1>1. Flattening(s, flatten)
  BY FlatteningExists
<1>2. FlattenSeq(s) = flatten[9]
  BY DEF FlattenSeq, Flattening
<1> HIDE DEF flatten
<1>3. \A i \in 1..9 : flatten[i] = IF i = 1 THEN s[i] ELSE flatten[i - 1] \o s[i]
  BY <1>1 DEF Flattening
<1>4. flatten[1] = s[1]
  BY <1>3
<1>5. flatten[2] = flatten[1] \o s[2]
  <2>1. 2 \in 1..9 /\ 2 # 1 /\ 2 - 1 = 1
    OBVIOUS
  <2> QED BY <1>3, <2>1, Zenon
<1>6. flatten[3] = flatten[2] \o s[3]
  <2>1. 3 \in 1..9 /\ 3 # 1 /\ 3 - 1 = 2
    OBVIOUS
  <2> QED BY <1>3, <2>1, Zenon
<1>7. flatten[4] = flatten[3] \o s[4]
  <2>1. 4 \in 1..9 /\ 4 # 1 /\ 4 - 1 = 3
    OBVIOUS
  <2> QED BY <1>3, <2>1, Zenon
<1>8. flatten[5] = flatten[4] \o s[5]
  <2>1. 5 \in 1..9 /\ 5 # 1 /\ 5 - 1 = 4
    OBVIOUS
  <2> QED BY <1>3, <2>1, Zenon
<1>9. flatten[6] = flatten[5] \o s[6]
  <2>1. 6 \in 1..9 /\ 6 # 1 /\ 6 - 1 = 5
    OBVIOUS
  <2> QED BY <1>3, <2>1, Zenon
<1>10. flatten[7] = flatten[6] \o s[7]
  <2>1. 7 \in 1..9 /\ 7 # 1 /\ 7 - 1 = 6
    OBVIOUS
  <2> QED BY <1>3, <2>1, Zenon
<1>11. flatten[8] = flatten[7] \o s[8]
  <2>1. 8 \in 1..9 /\ 8 # 1 /\ 8 - 1 = 7
    OBVIOUS
  <2> QED BY <1>3, <2>1, Zenon
<1>12. flatten[9] = flatten[8] \o s[9]
  <2>1. 9 \in 1..9 /\ 9 # 1 /\ 9 - 1 = 8
    OBVIOUS
  <2> QED BY <1>3, <2>1, Zenon
<1> QED BY <1>2, <1>4, <1>5, <1>6, <1>7, <1>8, <1>9, <1>10, <1>11, <1>12

\* The node reads the type that the application means.
LEMMA TypeIsRead == \A i \in 1..7 : ParseTxType(TypeNames[i]) = i
<1> SUFFICES ASSUME NEW i \in 1..7 PROVE ParseTxType(TypeNames[i]) = i
  OBVIOUS
<1>1. DOMAIN TypeNames = 1..7
  BY DEF TypeNames
<1>2. \A j, k \in 1..7 : TypeNames[j] = TypeNames[k] => j = k
  <2>1. \A j \in 1..7 : j \in {1, 2, 3, 4, 5, 6, 7}
    OBVIOUS
  <2> QED BY <2>1 DEF TypeNames
<1> QED BY <1>1, <1>2 DEF ParseTxType

\* The node finds over every request the bytes that the application signed.
LEMMA RequestVerifies == \A t \in Tx : Verifies(Request(t))
<1> SUFFICES ASSUME NEW t \in Tx PROVE Verifies(Request(t))
  OBVIOUS
<1>1. PICK x : x = FullTx(t)
  OBVIOUS
<1>2. x.type \in 1..7 /\ x.pubKey = x.sender /\ x.sender = t.sender
  <2>1. t.form \in Form
    BY DEF Tx
  <2>2. FormData[t.form].type \in {1, 2, 3, 7}
    BY <2>1, PendingAssumption
  <2> QED BY <1>1, <2>2 DEF FullTx
<1>3. PICK g : g = Sign(x.sender, ComputeSignableBytes(x))
  OBVIOUS
<1>4. PICK q : q = SubmitRequest(x, g)
  OBVIOUS
<1>5. Request(t) = q
  BY <1>1, <1>2, <1>3, <1>4 DEF Request, SignedBytes
<1>6. /\ q.type = TypeNames[x.type] /\ q.sender = x.sender /\ q.recipient = x.recipient
      /\ q.postId = x.postId /\ q.text = x.text /\ q.channel = x.channel
      /\ q.amount = x.amount /\ q.nonce = x.nonce /\ q.pubKey = x.pubKey
      /\ q.signature = g
  BY <1>4 DEF SubmitRequest
<1>7. PICK r : r = ReceivedTx(q)
  OBVIOUS
<1>8. /\ r.Type = x.type /\ r.Sender = AddressBytes[x.sender]
      /\ r.Recipient = (IF x.recipient = None THEN Zeros(AddressLen)
                        ELSE AddressBytes[x.recipient])
      /\ r.PostID = (IF x.postId = None THEN Zeros(PostIdLen) ELSE PostBytes[x.postId])
      /\ r.Text = EncodeText(x.text) /\ r.Channel = EncodeText(x.channel)
      /\ r.Amount = x.amount /\ r.Nonce = x.nonce /\ r.PubKey = PublicKeyBytes[x.pubKey]
  BY <1>2, <1>6, <1>7, TypeIsRead DEF ReceivedTx, EncodeText
<1>9. PICK s : s = <<WriteUint(r.Type, Width32), WriteBytes(r.Sender),
                     WriteBytes(r.Recipient), WriteBytes(r.PostID),
                     WriteBytes(r.Text), WriteBytes(r.Channel),
                     WriteUint(r.Amount, Width64), WriteUint(r.Nonce, Width64),
                     WriteBytes(r.PubKey)>>
  OBVIOUS
<1>10. Len(s) = 9
  BY <1>9
<1>11. GoSignableBytes(r) = FlattenSeq(s)
  BY <1>9 DEF GoSignableBytes
<1>12. FlattenSeq(s) = s[1] \o s[2] \o s[3] \o s[4] \o s[5] \o s[6] \o s[7] \o s[8] \o s[9]
  BY <1>10, FlattenNine
<1>13. \A b : WriteBytes(b) = WriteLenPrefixed(b)
  BY DEF WriteBytes, WriteLenPrefixed, WriteUint64
<1>14. /\ s[1] = WriteUint32(x.type) /\ s[2] = WriteLenPrefixed(AddressBytes[x.sender])
       /\ s[3] = WriteLenPrefixed(IF x.recipient = None THEN Zeros(AddressLen)
                                  ELSE AddressBytes[x.recipient])
       /\ s[4] = WriteLenPrefixed(IF x.postId = None THEN Zeros(PostIdLen)
                                  ELSE PostBytes[x.postId])
       /\ s[5] = WriteLenPrefixed(EncodeText(x.text))
       /\ s[6] = WriteLenPrefixed(EncodeText(x.channel))
       /\ s[7] = WriteUint64(x.amount) /\ s[8] = WriteUint64(x.nonce)
       /\ s[9] = WriteLenPrefixed(PublicKeyBytes[x.pubKey])
  <2>1. /\ s[1] = WriteUint(r.Type, Width32) /\ s[2] = WriteBytes(r.Sender)
        /\ s[3] = WriteBytes(r.Recipient) /\ s[4] = WriteBytes(r.PostID)
        /\ s[5] = WriteBytes(r.Text) /\ s[6] = WriteBytes(r.Channel)
        /\ s[7] = WriteUint(r.Amount, Width64) /\ s[8] = WriteUint(r.Nonce, Width64)
        /\ s[9] = WriteBytes(r.PubKey)
    BY <1>9
  <2> QED BY <1>8, <1>13, <2>1 DEF WriteUint32, WriteUint64
<1>15. GoSignableBytes(r) = ComputeSignableBytes(x)
  BY <1>11, <1>12, <1>14, Zenon DEF ComputeSignableBytes
<1>16. Verifies(q)
  BY <1>2, <1>3, <1>6, <1>7, <1>15 DEF Verifies
<1> QED BY <1>5, <1>16

\* Every request of signAndSubmit passes the signature check of the node, whatever
\* the dialog holds and however long numbers, addresses and characters are.
THEOREM RequestsVerify == Spec => []SubmissionVerifies
<1>1. ASSUME PendingInv PROVE SubmissionVerifies
  <2> SUFFICES ASSUME NEW s \in submits, s.nonce > 0 PROVE TxOf(s) \in Genuine
    BY DEF SubmissionVerifies, Sent
  <2>1. TxOf(s) \in Tx
    BY <1>1, SubmitKnown, TxOfType
  <2> QED BY <2>1, RequestVerifies DEF Genuine
<1> QED BY <1>1, PendingInvAlways, PTL

-----------------------------------------------------------------------------
(* What is signed tells the transaction: integers that fit, *)
(* text whose characters are a prefix code, and parts with their length.  *)

\* Shifting, byte by byte
LEMMA ShiftedSteps ==
  ASSUME NEW v \in Nat
  PROVE  /\ Shifted(v) \in [Nat -> Nat]
         /\ Shifted(v)[0] = v
         /\ \A n \in Nat : Shifted(v)[n + 1] = Shifted(v)[n] \div Base
<1> DEFINE Is(f) == f = [n \in Nat |-> IF n = 0 THEN v ELSE f[n - 1] \div Base]
           step == [x \in Nat |-> x \div Base]
<1>0. \A x \in Nat : x \div Base \in Nat
  BY EncodingAssumption
<1>1. step \in [Nat -> Nat]
  BY <1>0
<1>2. PICK f : Iterates(f, step, v, Nat)
  <2> HIDE DEF step
  <2> QED BY <1>1, IterationExists
<1>3. Is(f)
  <2>1. ASSUME NEW n \in Nat PROVE f[n] = IF n = 0 THEN v ELSE f[n - 1] \div Base
    <3>1. CASE n = 0
      BY <3>1, <1>2 DEF Iterates
    <3>2. CASE n # 0
      <4>1. n - 1 \in Nat /\ (n - 1) + 1 = n
        BY <3>2
      <4>2. f[n] = step[f[n - 1]]
        BY <4>1, <1>2 DEF Iterates
      <4>3. f[n - 1] \in Nat
        BY <4>1, <1>2 DEF Iterates
      <4> QED BY <4>2, <4>3, <3>2
    <3> QED BY <3>1, <3>2
  <2>2. f \in [Nat -> Nat]
    BY <1>2 DEF Iterates
  <2> QED BY <2>1, <2>2
<1>4. Shifted(v) = CHOOSE h : Is(h)
  BY DEF Shifted
<1>5. Is(Shifted(v))
  <2> HIDE DEF Is
  <2> QED BY <1>3, <1>4
<1>6. PICK s : s = Shifted(v)
  OBVIOUS
<1>7. s = [n \in Nat |-> IF n = 0 THEN v ELSE s[n - 1] \div Base]
  BY <1>5, <1>6
<1>8. s[0] = v
  BY <1>7
<1>9. ASSUME NEW n \in Nat PROVE s[n + 1] = s[n] \div Base
  <2>1. n + 1 \in Nat /\ n + 1 # 0 /\ (n + 1) - 1 = n
    OBVIOUS
  <2> QED BY <2>1, <1>7
<1>10. \A n \in Nat : s[n] \in Nat
  <2> DEFINE G == {n \in Nat : s[n] \in Nat}
  <2>1. 0 \in G
    BY <1>8
  <2>2. ASSUME NEW n \in G PROVE n + 1 \in G
    BY <1>9, <1>0
  <2>3. G \in SUBSET Nat
    OBVIOUS
  <2>4. G = Nat
    <3> HIDE DEF G
    <3> QED BY <2>1, <2>2, <2>3, NatSetInduction
  <2> QED BY <2>4
<1>11. s \in [Nat -> Nat]
  BY <1>7, <1>10
<1> QED BY <1>6, <1>8, <1>9, <1>11

\* A number is its quotient and its remainder.
LEMMA QuotientAndRest ==
  ASSUME NEW x \in Nat, NEW y \in Nat, x \div Base = y \div Base, x % Base = y % Base
  PROVE  x = y
<1>1. Base \in Nat /\ Base > 0
  BY EncodingAssumption
<1>2. x = Base * (x \div Base) + (x % Base)
  BY <1>1, DivisionIs
<1>3. y = Base * (y \div Base) + (y % Base)
  BY <1>1, DivisionIs
<1> QED BY <1>2, <1>3, Zenon

\* A smaller number has a smaller quotient.
LEMMA QuotientMonotone ==
  ASSUME NEW x \in Nat, NEW y \in Nat, x <= y
  PROVE  x \div Base <= y \div Base
<1>1. Base \in Nat /\ Base > 0
  BY EncodingAssumption
<1> QED BY <1>1

\* What is smaller fits where something fits.
LEMMA FitsMonotone ==
  ASSUME NEW x \in Nat, NEW y \in Nat, x <= y, NEW width \in Nat, Fits(y, width)
  PROVE  Fits(x, width)
<1> DEFINE G == {n \in Nat : Shifted(x)[n] <= Shifted(y)[n]}
<1>1. 0 \in G
  BY ShiftedSteps
<1>2. ASSUME NEW n \in G PROVE n + 1 \in G
  <2>1. Shifted(x)[n] \in Nat /\ Shifted(y)[n] \in Nat /\ Shifted(x)[n] <= Shifted(y)[n]
    BY ShiftedSteps
  <2>2. Shifted(x)[n] \div Base <= Shifted(y)[n] \div Base
    BY <2>1, QuotientMonotone
  <2> QED BY <2>2, ShiftedSteps
<1>3. G \in SUBSET Nat
  OBVIOUS
<1>4. G = Nat
  <2> HIDE DEF G
  <2> QED BY <1>1, <1>2, <1>3, NatSetInduction
<1>5. Shifted(x)[width] <= Shifted(y)[width] /\ Shifted(x)[width] \in Nat
  BY <1>4, ShiftedSteps
<1> QED BY <1>5 DEF Fits

\* Numbers that fit are written differently unless they are equal (writeUint32,
\* writeUint64).
LEMMA WriteUintInjective ==
  ASSUME NEW x \in Nat, NEW y \in Nat, NEW width \in Nat, Fits(x, width), Fits(y, width),
         WriteUint(x, width) = WriteUint(y, width)
  PROVE  x = y
<1> DEFINE G == {n \in Nat : n <= width => Shifted(x)[width - n] = Shifted(y)[width - n]}
<1>1. 0 \in G
  BY DEF Fits
<1>2. ASSUME NEW n \in G PROVE n + 1 \in G
  <2> SUFFICES ASSUME n + 1 <= width
               PROVE  Shifted(x)[width - (n + 1)] = Shifted(y)[width - (n + 1)]
    OBVIOUS
  <2>1. PICK k : k = width - (n + 1)
    OBVIOUS
  <2>2. k \in Nat /\ k + 1 = width - n /\ n \in Nat /\ n <= width
    BY <2>1
  <2>3. Shifted(x)[k + 1] = Shifted(y)[k + 1]
    BY <2>2
  <2>4. Shifted(x)[k] \div Base = Shifted(y)[k] \div Base
    BY <2>2, <2>3, ShiftedSteps
  <2>5. n + 1 \in 1..width
    BY <2>2
  <2>6. Shifted(x)[width - (n + 1)] % Base = Shifted(y)[width - (n + 1)] % Base
    <3>1. /\ WriteUint(x, width)[n + 1] = Shifted(x)[width - (n + 1)] % Base
          /\ WriteUint(y, width)[n + 1] = Shifted(y)[width - (n + 1)] % Base
      BY <2>5 DEF WriteUint
    <3> QED BY <3>1
  <2>7. Shifted(x)[k] \in Nat /\ Shifted(y)[k] \in Nat
    BY <2>2, ShiftedSteps
  <2>8. Shifted(x)[k] % Base = Shifted(y)[k] % Base
    BY <2>1, <2>6
  <2> QED BY <2>1, <2>4, <2>7, <2>8, QuotientAndRest
<1>3. G \in SUBSET Nat
  OBVIOUS
<1>4. G = Nat
  <2> HIDE DEF G
  <2> QED BY <1>1, <1>2, <1>3, NatSetInduction
<1>5. width \in G
  BY <1>4
<1>6. Shifted(x)[0] = Shifted(y)[0]
  BY <1>5
<1> QED BY <1>6, ShiftedSteps

-----------------------------------------------------------------------------
\* What the first i characters of a text are written as
Written(t, p) ==
  /\ p \in [0..Len(t) -> Seq(Byte)]
  /\ p[0] = << >>
  /\ \A i \in 1..Len(t) : p[i] = p[i - 1] \o Utf8[t[i]]
  /\ EncodeText(t) = p[Len(t)]

\* A text is a sequence of known characters.
LEMMA TextKnown ==
  ASSUME NEW t \in Seq(DOMAIN Utf8)
  PROVE  /\ Len(t) \in Nat /\ DOMAIN t = 1..Len(t)
         /\ \A i \in 1..Len(t) : t[i] \in DOMAIN Utf8 /\ Utf8[t[i]] \in Seq(Byte)
                                 /\ Len(Utf8[t[i]]) \in Nat /\ Len(Utf8[t[i]]) > 0
<1>1. Len(t) \in Nat /\ DOMAIN t = 1..Len(t)
  OBVIOUS
<1>2. ASSUME NEW i \in 1..Len(t)
      PROVE  t[i] \in DOMAIN Utf8 /\ Utf8[t[i]] \in Seq(Byte)
             /\ Len(Utf8[t[i]]) \in Nat /\ Len(Utf8[t[i]]) > 0
  <2>1. t[i] \in DOMAIN Utf8
    BY <1>2
  <2>2. Utf8[t[i]] \in Seq(Byte) /\ Utf8[t[i]] # << >>
    BY <2>1, EncodingAssumption
  <2> QED BY <2>1, <2>2, EmptySeq
<1> QED BY <1>1, <1>2

\* TextEncoder writes character after character.
LEMMA TextIsWritten ==
  ASSUME NEW t \in Seq(DOMAIN Utf8)
  PROVE  \E p : Written(t, p)
<1> DEFINE s == [i \in DOMAIN t |-> Utf8[t[i]]]
           n == Len(t)
<1>1. n \in Nat /\ DOMAIN t = 1..n /\ \A i \in 1..n : Utf8[t[i]] \in Seq(Byte)
  BY TextKnown
<1>2. s \in Seq(Seq(Byte)) /\ Len(s) = n /\ \A i \in 1..n : s[i] = Utf8[t[i]]
  <2>1. s \in [1..n -> Seq(Byte)]
    BY <1>1
  <2>2. \A i \in 1..n : s[i] = Utf8[t[i]]
    BY <1>1
  <2> HIDE DEF s
  <2>3. s \in Seq(Seq(Byte))
    BY <1>1, <2>1
  <2>4. DOMAIN s = 1..n /\ DOMAIN s = 1..Len(s) /\ Len(s) \in Nat
    BY <2>1, <2>3
  <2>5. Len(s) = n
    BY <1>1, <2>4
  <2> QED BY <2>2, <2>3, <2>5
<1>3. EncodeText(t) = FlattenSeq(s)
  BY DEF EncodeText
<1> HIDE DEF s
<1> DEFINE flatten == CHOOSE f : Flattening(s, f)
<1>4. Flattening(s, flatten)
  BY <1>1, <1>2, FlatteningExists
<1>5. n # 0 => FlattenSeq(s) = flatten[n]
  BY <1>2 DEF FlattenSeq, Flattening
<1>6. n = 0 => FlattenSeq(s) = << >>
  <2>1. n = 0 => s = << >>
    BY <1>2, EmptySeq
  <2> QED BY <1>2, <2>1 DEF FlattenSeq
<1> HIDE DEF flatten
<1> DEFINE p == [i \in 0..n |-> IF i = 0 THEN << >> ELSE flatten[i]]
<1>7. ASSUME NEW i \in 1..n PROVE flatten[i] = IF i = 1 THEN s[i] ELSE flatten[i - 1] \o s[i]
  BY <1>2, <1>4 DEF Flattening
<1>8. p[0] = << >> /\ \A i \in 1..n : p[i] = flatten[i]
  BY <1>1
<1>9. DOMAIN p = 0..n
  OBVIOUS
<1> HIDE DEF p
<1>10. ASSUME NEW i \in 1..n PROVE p[i] = p[i - 1] \o Utf8[t[i]]
  <2>1. CASE i = 1
    <3>1. p[i] = s[i] /\ p[i - 1] = << >>
      BY <2>1, <1>7, <1>8
    <3>2. << >> \o Utf8[t[i]] = Utf8[t[i]]
      BY <1>1, ConcatEmptySeq
    <3> QED BY <3>1, <3>2, <1>2
  <2>2. CASE i # 1
    <3>1. i - 1 \in 1..n
      BY <2>2, <1>1
    <3>2. p[i] = flatten[i - 1] \o s[i]
      BY <2>2, <1>7, <1>8
    <3>3. p[i - 1] = flatten[i - 1] /\ s[i] = Utf8[t[i]]
      BY <3>1, <1>8, <1>2
    <3> QED BY <3>2, <3>3
  <2> QED BY <2>1, <2>2
<1>11. \A i \in 0..n : p[i] \in Seq(Byte)
  <2> DEFINE G == {i \in Nat : i <= n => p[i] \in Seq(Byte)}
  <2>1. 0 \in G
    BY <1>8, EmptySeq
  <2>2. ASSUME NEW i \in G PROVE i + 1 \in G
    <3> SUFFICES ASSUME i + 1 <= n PROVE p[i + 1] \in Seq(Byte)
      OBVIOUS
    <3>1. i + 1 \in 1..n /\ i <= n /\ (i + 1) - 1 = i
      BY <1>1
    <3>2. p[i + 1] = p[i] \o Utf8[t[i + 1]]
      BY <3>1, <1>10
    <3>3. p[i] \in Seq(Byte) /\ Utf8[t[i + 1]] \in Seq(Byte)
      BY <3>1, <1>1
    <3> QED BY <3>2, <3>3, ConcatProperties
  <2>3. G \in SUBSET Nat
    OBVIOUS
  <2>4. G = Nat
    <3> HIDE DEF G
    <3> QED BY <2>1, <2>2, <2>3, NatSetInduction
  <2> QED BY <2>4
<1>12. p \in [0..n -> Seq(Byte)]
  <2>1. p = [i \in 0..n |-> p[i]]
    BY DEF p
  <2> QED BY <1>11, <2>1
<1>13. EncodeText(t) = p[n]
  BY <1>1, <1>3, <1>5, <1>6, <1>8
<1>14. Written(t, p)
  BY <1>8, <1>10, <1>12, <1>13 DEF Written
<1> QED BY <1>14

\* What is written of the first characters is the beginning of what is written.
LEMMA WrittenGrows ==
  ASSUME NEW t \in Seq(DOMAIN Utf8), NEW p, Written(t, p), NEW i \in 0..Len(t)
  PROVE  /\ p[i] \in Seq(Byte) /\ EncodeText(t) \in Seq(Byte)
         /\ Len(p[i]) <= Len(EncodeText(t))
         /\ \A k \in 1..Len(p[i]) : EncodeText(t)[k] = p[i][k]
<1> DEFINE n == Len(t)
           Begins(j) == Len(p[i]) <= Len(p[j]) /\ \A k \in 1..Len(p[i]) : p[j][k] = p[i][k]
           G == {d \in Nat : i + d <= n => Begins(i + d)}
<1>1. n \in Nat /\ i \in Nat /\ \A j \in 1..n : Utf8[t[j]] \in Seq(Byte)
  BY TextKnown
<1>2. \A j \in 0..n : p[j] \in Seq(Byte) /\ Len(p[j]) \in Nat
  BY DEF Written
<1>3. 0 \in G
  BY <1>1, <1>2
<1>4. ASSUME NEW d \in G PROVE d + 1 \in G
  <2> SUFFICES ASSUME i + (d + 1) <= n PROVE Begins(i + (d + 1))
    OBVIOUS
  <2>1. PICK j : j = i + d
    OBVIOUS
  <2>2. j \in 0..n /\ j + 1 \in 1..n /\ (j + 1) - 1 = j /\ j + 1 = i + (d + 1)
    BY <1>1, <2>1
  <2>3. Begins(j)
    BY <1>1, <2>1, <2>2
  <2>4. p[j + 1] = p[j] \o Utf8[t[j + 1]]
    BY <2>2 DEF Written
  <2>5. p[j] \in Seq(Byte) /\ Utf8[t[j + 1]] \in Seq(Byte) /\ p[i] \in Seq(Byte)
        /\ Len(p[i]) \in Nat
    BY <1>1, <1>2, <2>2
  <2>6. PICK x : x = p[j]
    OBVIOUS
  <2>7. PICK y : y = Utf8[t[j + 1]]
    OBVIOUS
  <2>8. /\ Len(x \o y) = Len(x) + Len(y) /\ Len(x) \in Nat /\ Len(y) \in Nat
        /\ \A k \in 1..Len(x) : (x \o y)[k] = x[k]
    <3>1. x \in Seq(Byte) /\ y \in Seq(Byte)
      BY <2>5, <2>6, <2>7
    <3> QED BY <3>1, ConcatProperties
  <2>9. Len(p[i]) <= Len(x) /\ \A k \in 1..Len(p[i]) : x[k] = p[i][k]
    BY <2>3, <2>6
  <2>10. p[j + 1] = x \o y
    BY <2>4, <2>6, <2>7
  <2>11. Begins(j + 1)
    <3>1. \A k \in 1..Len(p[i]) : k \in 1..Len(x)
      BY <2>5, <2>8, <2>9
    <3> QED BY <2>5, <2>8, <2>9, <2>10, <3>1
  <2> QED BY <2>2, <2>11
<1>5. G \in SUBSET Nat
  OBVIOUS
<1>6. G = Nat
  <2> HIDE DEF G
  <2> QED BY <1>3, <1>4, <1>5, NatSetInduction
<1>7. n - i \in Nat /\ i + (n - i) = n
  BY <1>1
<1>8. Begins(n)
  <2>1. n - i \in G
    <3> HIDE DEF G
    <3> QED BY <1>6, <1>7
  <2>2. i + (n - i) <= n
    BY <1>1, <1>7
  <2>3. Begins(i + (n - i))
    <3> HIDE DEF Begins
    <3> QED BY <2>1, <2>2
  <2> QED BY <2>3, <1>7
<1>9. EncodeText(t) = p[n] /\ n \in 0..n
  BY <1>1 DEF Written
<1> QED BY <1>2, <1>8, <1>9

\* The bytes e have the character c after the first off bytes.
StandsAt(e, off, c) == \A k \in 1..Len(Utf8[c]) : e[off + k] = Utf8[c][k]

\* Two characters that a text may go on with are told apart by their bytes.
LEMMA CharacterDecides ==
  ASSUME NEW c, c \in DOMAIN Utf8, NEW d, d \in DOMAIN Utf8, NEW e, NEW off,
         StandsAt(e, off, c), StandsAt(e, off, d), Len(Utf8[c]) <= Len(Utf8[d])
  PROVE  c = d
<1> DEFINE x == Utf8[c]
           y == Utf8[d]
<1>1. x \in Seq(Byte) /\ y \in Seq(Byte)
  BY EncodingAssumption
<1>2. Len(x) \in Nat /\ Len(y) \in Nat /\ Len(x) <= Len(y)
  BY <1>1
<1>3. \A k \in 1..Len(x) : k \in 1..Len(y)
  BY <1>2
<1>4. \A k \in 1..Len(x) : x[k] = y[k]
  BY <1>3 DEF StandsAt
<1>5. IsPrefix(x, y)
  <2>1. \A k \in 1..Len(x) : x[k] \in Byte /\ y[k] \in Byte
    <3> HIDE DEF x, y
    <3> QED BY <1>1, <1>3
  <2> HIDE DEF x, y
  <2> DEFINE a == SubSeq(x, 1, Len(x))
             b == SubSeq(y, 1, Len(x))
  <2>2. /\ a \in Seq(Byte) /\ Len(a) = Len(x) /\ \A k \in 1..Len(x) : a[k] = x[k]
        /\ b \in Seq(Byte) /\ Len(b) = Len(x) /\ \A k \in 1..Len(x) : b[k] = y[k]
    BY <1>2, <2>1, SubSeqProperties
  <2> HIDE DEF a, b
  <2>3. \A k \in 1..Len(a) : a[k] = b[k]
    BY <2>2, <1>4
  <2>4. a = b
    BY <2>2, <2>3, SeqEqual
  <2> QED BY <2>4, <1>2 DEF IsPrefix, a, b
<1>6. c # d => ~ IsPrefix(Utf8[c], Utf8[d])
  BY EncodingAssumption
<1> QED BY <1>5, <1>6

\* One character more of a text, at its place in the bytes
GoesOn(v, r, i) ==
  /\ v[i + 1] \in DOMAIN Utf8 /\ Len(r[i]) \in Nat
  /\ r[i + 1] = r[i] \o Utf8[v[i + 1]]
  /\ Len(r[i + 1]) = Len(r[i]) + Len(Utf8[v[i + 1]])
  /\ Len(Utf8[v[i + 1]]) \in Nat /\ Len(Utf8[v[i + 1]]) > 0
  /\ Len(r[i + 1]) <= Len(EncodeText(v))
  /\ StandsAt(EncodeText(v), Len(r[i]), v[i + 1])

\* Every character of a text is written at its place.
LEMMA NextCharacter ==
  ASSUME NEW v, v \in Seq(DOMAIN Utf8), NEW r, Written(v, r), NEW i, i \in Nat, i + 1 <= Len(v)
  PROVE  GoesOn(v, r, i)
<1>1. i \in 0..Len(v) /\ i + 1 \in 0..Len(v) /\ i + 1 \in 1..Len(v) /\ (i + 1) - 1 = i
  BY TextKnown
<1>2. r[i + 1] = r[i] \o Utf8[v[i + 1]]
  BY <1>1 DEF Written
<1>3. v[i + 1] \in DOMAIN Utf8 /\ Utf8[v[i + 1]] \in Seq(Byte)
      /\ Len(Utf8[v[i + 1]]) \in Nat /\ Len(Utf8[v[i + 1]]) > 0
  BY <1>1, TextKnown
<1>4. r[i] \in Seq(Byte)
  BY <1>1, WrittenGrows
<1>5. /\ Len(r[i + 1]) <= Len(EncodeText(v))
      /\ \A k \in 1..Len(r[i + 1]) : EncodeText(v)[k] = r[i + 1][k]
  BY <1>1, WrittenGrows
<1>6. PICK x : x = r[i]
  OBVIOUS
<1>7. PICK y : y = Utf8[v[i + 1]]
  OBVIOUS
<1>8. /\ Len(x) \in Nat /\ Len(y) \in Nat /\ Len(x \o y) = Len(x) + Len(y)
      /\ \A k \in 1..(Len(x) + Len(y)) : (x \o y)[k] = IF k <= Len(x) THEN x[k] ELSE y[k - Len(x)]
  <2>1. x \in Seq(Byte) /\ y \in Seq(Byte)
    BY <1>3, <1>4, <1>6, <1>7
  <2> QED BY <2>1, ConcatProperties
<1>9. r[i + 1] = x \o y
  BY <1>2, <1>6, <1>7
<1>10. ASSUME NEW k \in 1..Len(y) PROVE EncodeText(v)[Len(x) + k] = y[k]
  <2>1. Len(x) + k \in 1..(Len(x) + Len(y)) /\ ~(Len(x) + k <= Len(x)) /\ (Len(x) + k) - Len(x) = k
    BY <1>8
  <2>2. (x \o y)[Len(x) + k] = y[k]
    BY <1>8, <2>1
  <2> QED BY <2>1, <2>2, <1>5, <1>8, <1>9
<1>11. StandsAt(EncodeText(v), Len(x), v[i + 1])
  BY <1>7, <1>10 DEF StandsAt
<1> QED BY <1>2, <1>3, <1>5, <1>6, <1>7, <1>8, <1>9, <1>11 DEF GoesOn

\* Different texts are written differently (TextEncoder).
LEMMA EncodeTextInjective ==
  ASSUME NEW t \in Seq(DOMAIN Utf8), NEW u \in Seq(DOMAIN Utf8),
         EncodeText(t) = EncodeText(u)
  PROVE  t = u
<1>1. PICK p : Written(t, p)
  BY TextIsWritten
<1>2. PICK q : Written(u, q)
  BY TextIsWritten
<1>3. PICK e : e = EncodeText(t)
  OBVIOUS
<1>4. e = EncodeText(u)
  BY <1>3
<1> DEFINE Same(i) == p[i] = q[i] /\ \A k \in 1..i : t[k] = u[k]
           G == {i \in Nat : i <= Len(t) /\ i <= Len(u) => Same(i)}
<1>5. Len(t) \in Nat /\ Len(u) \in Nat
  BY TextKnown
<1>6. 0 \in G
  <2>1. p[0] = << >> /\ q[0] = << >>
    BY <1>1, <1>2 DEF Written
  <2> QED BY <2>1
<1>8. ASSUME NEW i \in G PROVE i + 1 \in G
  <2> SUFFICES ASSUME i + 1 <= Len(t), i + 1 <= Len(u) PROVE Same(i + 1)
    OBVIOUS
  <2>1. i \in Nat /\ Same(i)
    BY <1>5
  <2>2. PICK c : c = t[i + 1]
    OBVIOUS
  <2>3. PICK d : d = u[i + 1]
    OBVIOUS
  <2>4. PICK off : off = Len(p[i])
    OBVIOUS
  <2>5. /\ c \in DOMAIN Utf8 /\ off \in Nat /\ p[i + 1] = p[i] \o Utf8[c]
        /\ Len(Utf8[c]) \in Nat
        /\ StandsAt(e, off, c)
    <3>1. GoesOn(t, p, i)
      BY <1>1, <2>1, NextCharacter
    <3> QED BY <3>1, <1>3, <2>2, <2>4, Zenon DEF GoesOn
  <2>6. /\ d \in DOMAIN Utf8 /\ q[i + 1] = q[i] \o Utf8[d]
        /\ Len(Utf8[d]) \in Nat
        /\ StandsAt(e, off, d)
    <3>1. GoesOn(u, q, i)
      BY <1>2, <2>1, NextCharacter
    <3>2. Len(q[i]) = off
      BY <2>1, <2>4
    <3> QED BY <3>1, <3>2, <1>4, <2>3, Zenon DEF GoesOn
  <2>7. c = d
    <3>1. CASE Len(Utf8[c]) <= Len(Utf8[d])
      BY <3>1, <2>5, <2>6, CharacterDecides
    <3>2. CASE Len(Utf8[d]) <= Len(Utf8[c])
      BY <3>2, <2>5, <2>6, CharacterDecides
    <3> QED BY <3>1, <3>2, <2>5, <2>6
  <2>8. p[i + 1] = q[i + 1]
    BY <2>1, <2>5, <2>6, <2>7
  <2>9. \A k \in 1..(i + 1) : k \in 1..i \/ k = i + 1
    BY <2>1
  <2> QED BY <2>1, <2>2, <2>3, <2>7, <2>8, <2>9
<1>9. G = Nat
  <2>1. G \in SUBSET Nat
    OBVIOUS
  <2> HIDE DEF G
  <2> QED BY <1>6, <1>8, <2>1, NatSetInduction
<1>10. \A i \in Nat : i <= Len(t) /\ i <= Len(u) => Same(i)
  <2> HIDE DEF Same
  <2> QED BY <1>9
<1>11. p[Len(t)] = e /\ q[Len(u)] = e
  BY <1>1, <1>2, <1>3, <1>4 DEF Written
<1>12. ~(Len(t) < Len(u))
  <2> SUFFICES ASSUME Len(t) < Len(u) PROVE FALSE
    OBVIOUS
  <2>1. Same(Len(t))
    BY <1>5, <1>10
  <2>2. Len(t) \in Nat /\ Len(t) + 1 <= Len(u)
    BY <1>5
  <2>3. q[Len(t)] = e
    BY <2>1, <1>11
  <2>4. GoesOn(u, q, Len(t))
    BY <1>2, <2>2, NextCharacter
  <2>5. PICK m : m = Len(Utf8[u[Len(t) + 1]])
    OBVIOUS
  <2>6. PICK l : l = Len(e)
    OBVIOUS
  <2>7. l \in Nat /\ m \in Nat /\ m > 0 /\ l + m <= l
    BY <2>3, <2>4, <2>5, <2>6, <1>4, Zenon DEF GoesOn
  <2> QED BY <2>7
<1>13. ~(Len(u) < Len(t))
  <2> SUFFICES ASSUME Len(u) < Len(t) PROVE FALSE
    OBVIOUS
  <2>1. Same(Len(u))
    BY <1>5, <1>10
  <2>2. Len(u) \in Nat /\ Len(u) + 1 <= Len(t)
    BY <1>5
  <2>3. p[Len(u)] = e
    BY <2>1, <1>11
  <2>4. GoesOn(t, p, Len(u))
    BY <1>1, <2>2, NextCharacter
  <2>5. PICK m : m = Len(Utf8[t[Len(u) + 1]])
    OBVIOUS
  <2>6. PICK l : l = Len(e)
    OBVIOUS
  <2>7. l \in Nat /\ m \in Nat /\ m > 0 /\ l + m <= l
    BY <2>3, <2>4, <2>5, <2>6, <1>3, Zenon DEF GoesOn
  <2> QED BY <2>7
<1>14. Len(t) = Len(u)
  BY <1>5, <1>12, <1>13
<1>15. \A k \in 1..Len(t) : t[k] = u[k]
  BY <1>5, <1>10, <1>14
<1> QED BY <1>14, <1>15, SeqEqual

-----------------------------------------------------------------------------
(* One part after the other *)

\* What is written, and one after the other
Bytes == Seq(Byte)
Then(a, b) == a \o b

\* Brackets do not matter.
LEMMA Regroup ==
  \A a, b, c \in Bytes : Then(Then(a, b), c) = Then(a, Then(b, c))
<1> SUFFICES ASSUME NEW a \in Seq(Byte), NEW b \in Seq(Byte), NEW c \in Seq(Byte)
             PROVE  (a \o b) \o c = a \o (b \o c)
  BY DEF Bytes, Then
<1> QED OBVIOUS

\* Both parts together are written, and as long as the two are.
LEMMA ThenType ==
  \A a, b \in Bytes : Then(a, b) \in Bytes /\ Len(Then(a, b)) = Len(a) + Len(b)
<1> SUFFICES ASSUME NEW a \in Seq(Byte), NEW b \in Seq(Byte)
             PROVE  a \o b \in Seq(Byte) /\ Len(a \o b) = Len(a) + Len(b)
  BY DEF Bytes, Then
<1> QED OBVIOUS

\* What begins with parts of one length has the same parts.
LEMMA SameParts ==
  \A a, b, x, y \in Bytes :
     Len(a) = Len(b) /\ Then(a, x) = Then(b, y) => a = b /\ x = y
<1> SUFFICES ASSUME NEW a \in Seq(Byte), NEW b \in Seq(Byte), NEW x \in Seq(Byte),
                    NEW y \in Seq(Byte), Len(a) = Len(b), a \o x = b \o y
             PROVE  a = b /\ x = y
  BY DEF Bytes, Then
<1>1. Len(a) \in Nat /\ Len(x) \in Nat /\ Len(y) \in Nat
  OBVIOUS
<1>2. /\ Len(a \o x) = Len(a) + Len(x) /\ Len(b \o y) = Len(b) + Len(y)
      /\ \A i \in 1..(Len(a) + Len(x)) : (a \o x)[i] = IF i <= Len(a) THEN a[i] ELSE x[i - Len(a)]
      /\ \A i \in 1..(Len(b) + Len(y)) : (b \o y)[i] = IF i <= Len(b) THEN b[i] ELSE y[i - Len(b)]
  BY ConcatProperties
<1>3. \A i \in 1..Len(a) : a[i] = b[i]
  <2> TAKE i \in 1..Len(a)
  <2>1. i \in 1..(Len(a) + Len(x)) /\ i \in 1..(Len(b) + Len(y)) /\ i <= Len(a)
    BY <1>1
  <2> QED BY <1>2, <2>1
<1>4. a = b
  BY <1>3, SeqEqual
<1>5. Len(x) = Len(y)
  BY <1>1, <1>2
<1>6. \A i \in 1..Len(x) : x[i] = y[i]
  <2> TAKE i \in 1..Len(x)
  <2>1. /\ Len(a) + i \in 1..(Len(a) + Len(x)) /\ Len(a) + i \in 1..(Len(b) + Len(y))
        /\ ~ (Len(a) + i <= Len(a)) /\ (Len(a) + i) - Len(a) = i
    BY <1>1, <1>5
  <2> QED BY <1>2, <2>1
<1>7. x = y
  BY <1>5, <1>6, SeqEqual
<1> QED BY <1>4, <1>7

\* An integer is written with its width.
LEMMA WriteUintType ==
  \A v, width \in Nat : WriteUint(v, width) \in Bytes /\ Len(WriteUint(v, width)) = width
<1> SUFFICES ASSUME NEW v \in Nat, NEW width \in Nat
             PROVE  WriteUint(v, width) \in Seq(Byte) /\ Len(WriteUint(v, width)) = width
  BY DEF Bytes
<1> DEFINE s == WriteUint(v, width)
<1>1. ASSUME NEW i \in 1..width PROVE Shifted(v)[width - i] % Base \in Byte
  <2>1. width - i \in Nat
    OBVIOUS
  <2>2. Shifted(v)[width - i] \in Nat
    BY <2>1, ShiftedSteps
  <2>3. Base \in Nat /\ Base > 0
    BY EncodingAssumption
  <2> QED BY <2>2, <2>3, DivisionIs DEF Byte
<1>2. s \in [1..width -> Byte]
  BY <1>1 DEF WriteUint
<1> HIDE DEF s
<1>3. s \in Seq(Byte)
  BY <1>2
<1>4. DOMAIN s = 1..width /\ DOMAIN s = 1..Len(s) /\ Len(s) \in Nat
  BY <1>2, <1>3
<1>5. Len(s) = width
  BY <1>4
<1> QED BY <1>3, <1>5 DEF s

\* The length is a number, and so is the width it is written with.
LEMMA LengthType ==
  Width64 \in Nat /\ Width32 \in Nat /\ \A a \in Bytes : Len(a) \in Nat
BY EncodingAssumption DEF Bytes

\* Data behind their length
LEMMA PrefixedIs ==
  \A a : WriteLenPrefixed(a) = Then(WriteUint(Len(a), Width64), a)
BY DEF WriteLenPrefixed, WriteUint64, Then

\* Data are written with their length.
LEMMA PrefixedType ==
  \A a \in Bytes : /\ WriteLenPrefixed(a) \in Bytes
                   /\ Len(WriteLenPrefixed(a)) = Width64 + Len(a)
<1> TAKE a \in Bytes
<1>1. WriteUint(Len(a), Width64) \in Bytes /\ Len(WriteUint(Len(a), Width64)) = Width64
  BY LengthType, WriteUintType
<1> QED BY <1>1, PrefixedIs, ThenType

\* Integers that fit, each with something behind it
LEMMA SameUint ==
  \A v, w, width \in Nat, x, y \in Bytes :
     /\ Fits(v, width) /\ Fits(w, width)
     /\ Then(WriteUint(v, width), x) = Then(WriteUint(w, width), y)
     => v = w /\ x = y
<1> SUFFICES ASSUME NEW v \in Nat, NEW w \in Nat, NEW width \in Nat,
                    NEW x \in Bytes, NEW y \in Bytes, Fits(v, width), Fits(w, width),
                    Then(WriteUint(v, width), x) = Then(WriteUint(w, width), y)
             PROVE  v = w /\ x = y
  OBVIOUS
<1>0. /\ WriteUint(v, width) \in Bytes /\ WriteUint(w, width) \in Bytes
      /\ Len(WriteUint(v, width)) = Len(WriteUint(w, width))
  BY WriteUintType
<1>1. WriteUint(v, width) = WriteUint(w, width) /\ x = y
  BY <1>0, SameParts
<1> QED BY <1>1, WriteUintInjective

\* Data of one length, each with something behind it
LEMMA SameBytes ==
  \A a, b, x, y \in Bytes :
     Len(a) = Len(b) /\ Then(WriteLenPrefixed(a), x) = Then(WriteLenPrefixed(b), y)
     => a = b /\ x = y
<1> SUFFICES ASSUME NEW a \in Bytes, NEW b \in Bytes, NEW x \in Bytes, NEW y \in Bytes,
                    Len(a) = Len(b),
                    Then(WriteLenPrefixed(a), x) = Then(WriteLenPrefixed(b), y)
             PROVE  a = b /\ x = y
  OBVIOUS
<1>0. /\ WriteLenPrefixed(a) \in Bytes /\ WriteLenPrefixed(b) \in Bytes
      /\ Len(WriteLenPrefixed(a)) = Len(WriteLenPrefixed(b))
  BY PrefixedType
<1>1. WriteLenPrefixed(a) = WriteLenPrefixed(b) /\ x = y
  BY <1>0, SameParts
<1>2. WriteUint(Len(a), Width64) \in Bytes /\ WriteUint(Len(b), Width64) \in Bytes
  BY LengthType, WriteUintType
<1>3. WriteUint(Len(a), Width64) = WriteUint(Len(b), Width64)
  OBVIOUS
<1>4. a = b
  BY <1>1, <1>2, <1>3, PrefixedIs, SameParts
<1> QED BY <1>1, <1>4

\* Data of any length that fits, each with something behind it
LEMMA SameText ==
  \A a, b, x, y \in Bytes :
     /\ Fits(Len(a), Width64) /\ Fits(Len(b), Width64)
     /\ Then(WriteLenPrefixed(a), x) = Then(WriteLenPrefixed(b), y)
     => a = b /\ x = y
<1> SUFFICES ASSUME NEW a \in Bytes, NEW b \in Bytes, NEW x \in Bytes, NEW y \in Bytes,
                    Fits(Len(a), Width64), Fits(Len(b), Width64),
                    Then(WriteLenPrefixed(a), x) = Then(WriteLenPrefixed(b), y)
             PROVE  a = b /\ x = y
  OBVIOUS
<1>1. Len(a) \in Nat /\ Len(b) \in Nat /\ Width64 \in Nat
  BY LengthType
<1>2. WriteUint(Len(a), Width64) \in Bytes /\ WriteUint(Len(b), Width64) \in Bytes
  BY <1>1, WriteUintType
<1>3. Then(a, x) \in Bytes /\ Then(b, y) \in Bytes
  BY ThenType
<1>4. Then(WriteUint(Len(a), Width64), Then(a, x))
        = Then(WriteUint(Len(b), Width64), Then(b, y))
  BY <1>2, PrefixedIs, Regroup
<1>5. Len(a) = Len(b) /\ Then(a, x) = Then(b, y)
  BY <1>1, <1>3, <1>4, SameUint
<1> QED BY <1>5, SameParts

-----------------------------------------------------------------------------
(* The fields of a transaction *)

\* A field that may be absent: the zeros are the bytes of nobody.
Coded(x, code, length) == IF x = None THEN Zeros(length) ELSE code[x]

\* The bytes of zeros
LEMMA ZerosType == \A n \in Nat : Zeros(n) \in Bytes /\ Len(Zeros(n)) = n
<1> SUFFICES ASSUME NEW n \in Nat PROVE Zeros(n) \in Seq(Byte) /\ Len(Zeros(n)) = n
  BY DEF Bytes
<1> DEFINE s == Zeros(n)
<1>1. s \in [1..n -> Byte]
  BY EncodingAssumption DEF Zeros, Byte
<1> HIDE DEF s
<1>2. s \in Seq(Byte)
  BY <1>1
<1>3. DOMAIN s = 1..n /\ DOMAIN s = 1..Len(s) /\ Len(s) \in Nat
  BY <1>1, <1>2
<1>4. Len(s) = n
  BY <1>3
<1> QED BY <1>2, <1>4 DEF s

\* A field has one length, and its bytes tell what it is.
LEMMA CodedIs ==
  ASSUME NEW code, NEW length \in Nat, IsNaming(code, length),
         NEW x \in DOMAIN code \cup {None}, NEW y \in DOMAIN code \cup {None}
  PROVE  /\ Coded(x, code, length) \in Bytes /\ Len(Coded(x, code, length)) = length
         /\ Coded(x, code, length) = Coded(y, code, length) => x = y
<1>1. Zeros(length) \in Bytes /\ Len(Zeros(length)) = length
  BY ZerosType
<1>2. \A z \in DOMAIN code : /\ code[z] \in Bytes /\ Len(code[z]) = length
                              /\ code[z] # Zeros(length)
  BY DEF IsNaming, Bytes
<1>3. \A z, w \in DOMAIN code : code[z] = code[w] => z = w
  BY DEF IsNaming, IsInjective
<1> QED BY <1>1, <1>2, <1>3 DEF Coded

\* Text is written.
LEMMA TextType == \A t \in Seq(DOMAIN Utf8) : EncodeText(t) \in Bytes
<1> TAKE t \in Seq(DOMAIN Utf8)
<1>1. PICK p : Written(t, p)
  BY TextIsWritten
<1>2. 0 \in 0..Len(t)
  OBVIOUS
<1> QED BY <1>1, <1>2, WrittenGrows DEF Bytes

\* Text that is written the same is the same.
LEMMA TextIsRead ==
  \A t, u \in Seq(DOMAIN Utf8) : EncodeText(t) = EncodeText(u) => t = u
BY EncodeTextInjective

\* What is known of a transaction
TxIs(t) ==
  /\ t.sender \in DOMAIN AddressBytes /\ t.sender \in DOMAIN PublicKeyBytes
  /\ t.nonce \in Nat /\ Fits(t.nonce, Width64)
  /\ FormData[t.form].type \in Nat /\ Fits(FormData[t.form].type, Width32)
  /\ FormData[t.form].recipient \in DOMAIN AddressBytes \cup {None}
  /\ FormData[t.form].postId \in DOMAIN PostBytes \cup {None}
  /\ FormData[t.form].text \in Seq(DOMAIN Utf8)
  /\ Fits(Len(EncodeText(FormData[t.form].text)), Width64)
  /\ FormData[t.form].channel \in Seq(DOMAIN Utf8)
  /\ Fits(Len(EncodeText(FormData[t.form].channel)), Width64)
  /\ FormData[t.form].amount \in Nat /\ Fits(FormData[t.form].amount, Width64)

\* The numbers of a transaction fit, and its names are names.
LEMMA TxKnown == \A t \in Tx : TxIs(t)
<1> SUFFICES ASSUME NEW t \in Tx PROVE TxIs(t)
  OBVIOUS
<1> DEFINE d == FormData[t.form]
<1>1. t.form \in Form /\ t.sender \in Address /\ t.nonce \in 1..MaxNonce
  BY DEF Tx
<1>2. d \in [type : {1, 2, 3, 7}, recipient : DOMAIN AddressBytes \cup {None},
             postId : DOMAIN PostBytes \cup {None}, text : Seq(DOMAIN Utf8),
             channel : Seq(DOMAIN Utf8), amount : Nat]
  BY <1>1, PendingAssumption
<1>3. t.sender \in DOMAIN AddressBytes /\ t.sender \in DOMAIN PublicKeyBytes
  BY <1>1, PendingAssumption
<1>4. MaxNonce \in Nat /\ Width64 \in Nat /\ Width32 \in Nat
  BY PendingAssumption, LengthType
<1>5. t.nonce \in Nat /\ t.nonce <= MaxNonce
  BY <1>1, <1>4
<1>6. Fits(t.nonce, Width64)
  BY <1>4, <1>5, FitsMonotone, PendingAssumption DEF FormsAreWritten
<1>7. d.type \in Nat /\ d.type <= 7
  BY <1>2
<1>8. Fits(d.type, Width32)
  BY <1>4, <1>7, FitsMonotone, PendingAssumption DEF FormsAreWritten
<1>9. /\ Fits(d.amount, Width64) /\ Fits(Len(EncodeText(d.text)), Width64)
      /\ Fits(Len(EncodeText(d.channel)), Width64)
  BY <1>1, PendingAssumption DEF FormsAreWritten
<1>10. /\ d.recipient \in DOMAIN AddressBytes \cup {None}
       /\ d.postId \in DOMAIN PostBytes \cup {None}
       /\ d.text \in Seq(DOMAIN Utf8) /\ d.channel \in Seq(DOMAIN Utf8) /\ d.amount \in Nat
  BY <1>2
<1> QED BY <1>3, <1>5, <1>6, <1>7, <1>8, <1>9, <1>10 DEF TxIs

\* The nine parts of what is signed
Part1(t) == WriteUint(FormData[t.form].type, Width32)
Part2(t) == WriteLenPrefixed(AddressBytes[t.sender])
Part3(t) == WriteLenPrefixed(Coded(FormData[t.form].recipient, AddressBytes, AddressLen))
Part4(t) == WriteLenPrefixed(Coded(FormData[t.form].postId, PostBytes, PostIdLen))
Part5(t) == WriteLenPrefixed(EncodeText(FormData[t.form].text))
Part6(t) == WriteLenPrefixed(EncodeText(FormData[t.form].channel))
Part7(t) == WriteUint(FormData[t.form].amount, Width64)
Part8(t) == WriteUint(t.nonce, Width64)
Part9(t) == WriteLenPrefixed(PublicKeyBytes[t.sender])

\* The names that the assumption is about
LEMMA NamesKnown ==
  /\ AddressLen \in Nat /\ IsNaming(AddressBytes, AddressLen)
  /\ PostIdLen \in Nat /\ IsNaming(PostBytes, PostIdLen)
  /\ \A a \in DOMAIN AddressBytes :
       AddressBytes[a] \in Bytes /\ Len(AddressBytes[a]) = AddressLen
  /\ \A a, b \in DOMAIN AddressBytes : AddressBytes[a] = AddressBytes[b] => a = b
  /\ \A a \in DOMAIN PublicKeyBytes : PublicKeyBytes[a] \in Bytes
BY EncodingAssumption DEF IsNaming, IsInjective, Bytes

\* The parts are bytes.
LEMMA PartsType ==
  ASSUME NEW t, TxIs(t)
  PROVE  /\ Part1(t) \in Bytes /\ Part2(t) \in Bytes /\ Part3(t) \in Bytes
         /\ Part4(t) \in Bytes /\ Part5(t) \in Bytes /\ Part6(t) \in Bytes
         /\ Part7(t) \in Bytes /\ Part8(t) \in Bytes /\ Part9(t) \in Bytes
<1> DEFINE d == FormData[t.form]
<1>1. Width32 \in Nat /\ Width64 \in Nat
  BY LengthType
<1>2. Part1(t) \in Bytes /\ Part7(t) \in Bytes /\ Part8(t) \in Bytes
  BY <1>1, WriteUintType DEF TxIs, Part1, Part7, Part8
<1>3. Part2(t) \in Bytes /\ Part9(t) \in Bytes
  BY NamesKnown, PrefixedType DEF TxIs, Part2, Part9
<1>4. Coded(d.recipient, AddressBytes, AddressLen) \in Bytes
  BY NamesKnown, CodedIs DEF TxIs
<1>5. Coded(d.postId, PostBytes, PostIdLen) \in Bytes
  BY NamesKnown, CodedIs DEF TxIs
<1>6. Part3(t) \in Bytes /\ Part4(t) \in Bytes
  BY <1>4, <1>5, PrefixedType DEF Part3, Part4
<1>7. Part5(t) \in Bytes /\ Part6(t) \in Bytes
  BY TextType, PrefixedType DEF TxIs, Part5, Part6
<1> QED BY <1>2, <1>3, <1>6, <1>7

\* What follows the parts
From8(t) == Then(Part8(t), Part9(t))
From7(t) == Then(Part7(t), From8(t))
From6(t) == Then(Part6(t), From7(t))
From5(t) == Then(Part5(t), From6(t))
From4(t) == Then(Part4(t), From5(t))
From3(t) == Then(Part3(t), From4(t))
From2(t) == Then(Part2(t), From3(t))
From1(t) == Then(Part1(t), From2(t))

\* And so is what follows.
LEMMA FromType ==
  ASSUME NEW t, TxIs(t)
  PROVE  /\ From1(t) \in Bytes /\ From2(t) \in Bytes /\ From3(t) \in Bytes
         /\ From4(t) \in Bytes /\ From5(t) \in Bytes /\ From6(t) \in Bytes
         /\ From7(t) \in Bytes /\ From8(t) \in Bytes
<1>1. From8(t) \in Bytes
  BY PartsType, ThenType DEF From8
<1>2. From7(t) \in Bytes /\ From6(t) \in Bytes /\ From5(t) \in Bytes /\ From4(t) \in Bytes
  BY <1>1, PartsType, ThenType DEF From7, From6, From5, From4
<1>3. From3(t) \in Bytes /\ From2(t) \in Bytes /\ From1(t) \in Bytes
  BY <1>2, PartsType, ThenType DEF From3, From2, From1
<1> QED BY <1>1, <1>2, <1>3

\* What is signed is the nine parts, one after the other.
LEMMA SignedIsParts == \A t \in Tx : SignedBytes[t] = From1(t)
<1> SUFFICES ASSUME NEW t \in Tx PROVE SignedBytes[t] = From1(t)
  OBVIOUS
<1>1. SignedBytes[t] = Part1(t) \o Part2(t) \o Part3(t) \o Part4(t) \o Part5(t) \o Part6(t)
                       \o Part7(t) \o Part8(t) \o Part9(t)
  BY DEF SignedBytes, ComputeSignableBytes, FullTx, WriteUint32, WriteUint64, Coded,
         Part1, Part2, Part3, Part4, Part5, Part6, Part7, Part8, Part9
<1>2. TxIs(t)
  BY TxKnown
<1>3. /\ Part1(t) \in Bytes /\ Part2(t) \in Bytes /\ Part3(t) \in Bytes
      /\ Part4(t) \in Bytes /\ Part5(t) \in Bytes /\ Part6(t) \in Bytes
      /\ Part7(t) \in Bytes /\ Part8(t) \in Bytes /\ Part9(t) \in Bytes
  BY <1>2, PartsType
<1>4. Part1(t) \o Part2(t) \o Part3(t) \o Part4(t) \o Part5(t) \o Part6(t)
        \o Part7(t) \o Part8(t) \o Part9(t) = From1(t)
  <2> DEFINE a == Part1(t)
             b == Part2(t)
             c == Part3(t)
             d == Part4(t)
             e == Part5(t)
             f == Part6(t)
             g == Part7(t)
             h == Part8(t)
             i == Part9(t)
  <2>1. From1(t) = Then(a, Then(b, Then(c, Then(d, Then(e, Then(f, Then(g, Then(h, i))))))))
    BY DEF From1, From2, From3, From4, From5, From6, From7, From8
  <2>0. /\ a \in Bytes /\ b \in Bytes /\ c \in Bytes /\ d \in Bytes /\ e \in Bytes
        /\ f \in Bytes /\ g \in Bytes /\ h \in Bytes /\ i \in Bytes
    BY <1>3
  <2> HIDE DEF a, b, c, d, e, f, g, h, i
  <2> DEFINE ab == Then(a, b)
             abc == Then(ab, c)
             abcd == Then(abc, d)
             abcde == Then(abcd, e)
             abcdef == Then(abcde, f)
             abcdefg == Then(abcdef, g)
             hi == Then(h, i)
             ghi == Then(g, hi)
             fghi == Then(f, ghi)
             efghi == Then(e, fghi)
             defghi == Then(d, efghi)
             cdefghi == Then(c, defghi)
  <2>A. /\ ab \in Bytes /\ abc \in Bytes /\ abcd \in Bytes /\ abcde \in Bytes
        /\ abcdef \in Bytes /\ abcdefg \in Bytes
    BY <2>0, ThenType
  <2>2. /\ hi \in Bytes /\ ghi \in Bytes /\ fghi \in Bytes /\ efghi \in Bytes
        /\ defghi \in Bytes /\ cdefghi \in Bytes
    BY <2>0, ThenType
  <2> HIDE DEF ab, abc, abcd, abcde, abcdef, abcdefg, hi, ghi, fghi, efghi, defghi, cdefghi
  <2>3. Then(Then(abcdefg, h), i) = Then(abcdefg, hi)
    BY <2>0, <2>A, Regroup DEF hi
  <2>4. Then(abcdefg, hi) = Then(abcdef, ghi)
    BY <2>0, <2>A, <2>2, Regroup DEF abcdefg, ghi
  <2>5. Then(abcdef, ghi) = Then(abcde, fghi)
    BY <2>0, <2>A, <2>2, Regroup DEF abcdef, fghi
  <2>6. Then(abcde, fghi) = Then(abcd, efghi)
    BY <2>0, <2>A, <2>2, Regroup DEF abcde, efghi
  <2>7. Then(abcd, efghi) = Then(abc, defghi)
    BY <2>0, <2>A, <2>2, Regroup DEF abcd, defghi
  <2>8. Then(abc, defghi) = Then(ab, cdefghi)
    BY <2>0, <2>A, <2>2, Regroup DEF abc, cdefghi
  <2>9. Then(ab, cdefghi) = Then(a, Then(b, cdefghi))
    BY <2>0, <2>A, <2>2, Regroup DEF ab
  <2>10. Then(Then(abcdefg, h), i) = Then(a, Then(b, cdefghi))
    BY <2>3, <2>4, <2>5, <2>6, <2>7, <2>8, <2>9
  <2> QED BY <2>1, <2>10 DEF Then, a, b, c, d, e, f, g, h, i, ab, abc, abcd, abcde, abcdef,
             abcdefg, hi, ghi, fghi, efghi, defghi, cdefghi
<1> QED BY <1>1, <1>4

\* The bytes that are signed tell every field.
LEMMA SignedBytesInjective ==
  \A t, u \in Tx : SignedBytes[t] = SignedBytes[u] => t = u
<1> SUFFICES ASSUME NEW t \in Tx, NEW u \in Tx, From1(t) = From1(u) PROVE t = u
  BY SignedIsParts
<1> DEFINE d == FormData[t.form]
           e == FormData[u.form]
<1> HIDE DEF d, e
<1>0. TxIs(t) /\ TxIs(u) /\ Width32 \in Nat /\ Width64 \in Nat
  BY TxKnown, LengthType
<1>a. /\ From2(t) \in Bytes /\ From3(t) \in Bytes /\ From4(t) \in Bytes /\ From5(t) \in Bytes
      /\ From6(t) \in Bytes /\ From7(t) \in Bytes /\ From8(t) \in Bytes /\ Part9(t) \in Bytes
  BY <1>0, FromType, PartsType
<1>b. /\ From2(u) \in Bytes /\ From3(u) \in Bytes /\ From4(u) \in Bytes /\ From5(u) \in Bytes
      /\ From6(u) \in Bytes /\ From7(u) \in Bytes /\ From8(u) \in Bytes /\ Part9(u) \in Bytes
  BY <1>0, FromType, PartsType
<1>c. /\ d.type \in Nat /\ e.type \in Nat /\ d.amount \in Nat /\ e.amount \in Nat
      /\ Fits(d.type, Width32) /\ Fits(e.type, Width32)
      /\ Fits(d.amount, Width64) /\ Fits(e.amount, Width64)
  BY <1>0 DEF TxIs, d, e
<1>d. /\ d.recipient \in DOMAIN AddressBytes \cup {None}
      /\ e.recipient \in DOMAIN AddressBytes \cup {None}
      /\ d.postId \in DOMAIN PostBytes \cup {None} /\ e.postId \in DOMAIN PostBytes \cup {None}
  BY <1>0 DEF TxIs, d, e
<1>e. /\ EncodeText(d.text) \in Bytes /\ EncodeText(e.text) \in Bytes
      /\ EncodeText(d.channel) \in Bytes /\ EncodeText(e.channel) \in Bytes
  BY <1>0, TextType DEF TxIs, d, e
<1>f. /\ Fits(Len(EncodeText(d.text)), Width64) /\ Fits(Len(EncodeText(e.text)), Width64)
      /\ Fits(Len(EncodeText(d.channel)), Width64) /\ Fits(Len(EncodeText(e.channel)), Width64)
  BY <1>0 DEF TxIs, d, e
<1>g. /\ AddressBytes[t.sender] \in Bytes /\ AddressBytes[u.sender] \in Bytes
      /\ Len(AddressBytes[t.sender]) = Len(AddressBytes[u.sender])
  BY <1>0, NamesKnown DEF TxIs
<1>1. d.type = e.type /\ From2(t) = From2(u)
  <2>1. Then(WriteUint(d.type, Width32), From2(t)) = Then(WriteUint(e.type, Width32), From2(u))
    BY DEF From1, Part1, d, e
  <2>2. From2(t) \in Bytes /\ From2(u) \in Bytes
    BY <1>a, <1>b
  <2>3. /\ d.type \in Nat /\ e.type \in Nat /\ Width32 \in Nat
        /\ Fits(d.type, Width32) /\ Fits(e.type, Width32)
    BY <1>0, <1>c
  <2> QED BY <2>1, <2>2, <2>3, SameUint
<1>2. AddressBytes[t.sender] = AddressBytes[u.sender] /\ From3(t) = From3(u)
  <2>1. Then(WriteLenPrefixed(AddressBytes[t.sender]), From3(t))
          = Then(WriteLenPrefixed(AddressBytes[u.sender]), From3(u))
    BY <1>1 DEF From2, Part2
  <2>2. From3(t) \in Bytes /\ From3(u) \in Bytes
    BY <1>a, <1>b
  <2> QED BY <2>1, <2>2, <1>g, SameBytes
<1>3. t.sender = u.sender
  BY <1>0, <1>2, NamesKnown DEF TxIs
<1>4. /\ Coded(d.recipient, AddressBytes, AddressLen) \in Bytes
      /\ Coded(e.recipient, AddressBytes, AddressLen) \in Bytes
      /\ Len(Coded(d.recipient, AddressBytes, AddressLen))
           = Len(Coded(e.recipient, AddressBytes, AddressLen))
      /\ Coded(d.recipient, AddressBytes, AddressLen)
           = Coded(e.recipient, AddressBytes, AddressLen) => d.recipient = e.recipient
  BY <1>d, NamesKnown, CodedIs
<1>5. d.recipient = e.recipient /\ From4(t) = From4(u)
  <2>1. Then(WriteLenPrefixed(Coded(d.recipient, AddressBytes, AddressLen)), From4(t))
          = Then(WriteLenPrefixed(Coded(e.recipient, AddressBytes, AddressLen)), From4(u))
    BY <1>2 DEF From3, Part3, d, e
  <2>2. From4(t) \in Bytes /\ From4(u) \in Bytes
    BY <1>a, <1>b
  <2> QED BY <2>1, <2>2, <1>4, SameBytes
<1>6. /\ Coded(d.postId, PostBytes, PostIdLen) \in Bytes
      /\ Coded(e.postId, PostBytes, PostIdLen) \in Bytes
      /\ Len(Coded(d.postId, PostBytes, PostIdLen)) = Len(Coded(e.postId, PostBytes, PostIdLen))
      /\ Coded(d.postId, PostBytes, PostIdLen) = Coded(e.postId, PostBytes, PostIdLen)
           => d.postId = e.postId
  BY <1>d, NamesKnown, CodedIs
<1>7. d.postId = e.postId /\ From5(t) = From5(u)
  <2>1. Then(WriteLenPrefixed(Coded(d.postId, PostBytes, PostIdLen)), From5(t))
          = Then(WriteLenPrefixed(Coded(e.postId, PostBytes, PostIdLen)), From5(u))
    BY <1>5 DEF From4, Part4, d, e
  <2>2. From5(t) \in Bytes /\ From5(u) \in Bytes
    BY <1>a, <1>b
  <2> QED BY <2>1, <2>2, <1>6, SameBytes
<1>8. EncodeText(d.text) = EncodeText(e.text) /\ From6(t) = From6(u)
  <2>1. Then(WriteLenPrefixed(EncodeText(d.text)), From6(t))
          = Then(WriteLenPrefixed(EncodeText(e.text)), From6(u))
    BY <1>7 DEF From5, Part5, d, e
  <2> DEFINE v == EncodeText(d.text)
             w == EncodeText(e.text)
  <2>2. v \in Bytes /\ w \in Bytes /\ Fits(Len(v), Width64) /\ Fits(Len(w), Width64)
    BY <1>e, <1>f
  <2> HIDE DEF v, w
  <2>3. Then(WriteLenPrefixed(v), From6(t)) = Then(WriteLenPrefixed(w), From6(u))
    BY <2>1 DEF v, w
  <2>4. From6(t) \in Bytes /\ From6(u) \in Bytes
    BY <1>a, <1>b
  <2>5. v = w /\ From6(t) = From6(u)
    BY <2>2, <2>3, <2>4, SameText
  <2> QED BY <2>5 DEF v, w
<1>9. EncodeText(d.channel) = EncodeText(e.channel) /\ From7(t) = From7(u)
  <2>1. Then(WriteLenPrefixed(EncodeText(d.channel)), From7(t))
          = Then(WriteLenPrefixed(EncodeText(e.channel)), From7(u))
    BY <1>8 DEF From6, Part6, d, e
  <2> DEFINE v == EncodeText(d.channel)
             w == EncodeText(e.channel)
  <2>2. v \in Bytes /\ w \in Bytes /\ Fits(Len(v), Width64) /\ Fits(Len(w), Width64)
    BY <1>e, <1>f
  <2> HIDE DEF v, w
  <2>3. Then(WriteLenPrefixed(v), From7(t)) = Then(WriteLenPrefixed(w), From7(u))
    BY <2>1 DEF v, w
  <2>4. From7(t) \in Bytes /\ From7(u) \in Bytes
    BY <1>a, <1>b
  <2>5. v = w /\ From7(t) = From7(u)
    BY <2>2, <2>3, <2>4, SameText
  <2> QED BY <2>5 DEF v, w
<1>10. d.text = e.text /\ d.channel = e.channel
  BY <1>0, <1>8, <1>9, TextIsRead DEF TxIs, d, e
<1>11. d.amount = e.amount /\ From8(t) = From8(u)
  <2>1. Then(WriteUint(d.amount, Width64), From8(t)) = Then(WriteUint(e.amount, Width64), From8(u))
    BY <1>9 DEF From7, Part7, d, e
  <2>2. From8(t) \in Bytes /\ From8(u) \in Bytes
    BY <1>a, <1>b
  <2>3. /\ d.amount \in Nat /\ e.amount \in Nat /\ Width64 \in Nat
        /\ Fits(d.amount, Width64) /\ Fits(e.amount, Width64)
    BY <1>0, <1>c
  <2> QED BY <2>1, <2>2, <2>3, SameUint
<1>12. t.nonce = u.nonce
  <2>1. Then(WriteUint(t.nonce, Width64), Part9(t)) = Then(WriteUint(u.nonce, Width64), Part9(u))
    BY <1>11 DEF From8, Part8
  <2>2. t.nonce \in Nat /\ u.nonce \in Nat /\ Fits(t.nonce, Width64) /\ Fits(u.nonce, Width64)
    BY <1>0 DEF TxIs
  <2>3. Part9(t) \in Bytes /\ Part9(u) \in Bytes /\ Width64 \in Nat
    BY <1>0, <1>a, <1>b
  <2> QED BY <2>1, <2>2, <2>3, SameUint
<1>13. t.form \in Form /\ u.form \in Form
  BY DEF Tx
<1>14. d = e
  <2>1. FormData \in [Form -> [type : {1, 2, 3, 7}, recipient : DOMAIN AddressBytes \cup {None},
                  postId : DOMAIN PostBytes \cup {None}, text : Seq(DOMAIN Utf8),
                  channel : Seq(DOMAIN Utf8), amount : Nat]]
    BY PendingAssumption
  <2>2. /\ d = [type |-> d.type, recipient |-> d.recipient, postId |-> d.postId,
               text |-> d.text, channel |-> d.channel, amount |-> d.amount]
        /\ e = [type |-> e.type, recipient |-> e.recipient, postId |-> e.postId,
               text |-> e.text, channel |-> e.channel, amount |-> e.amount]
    BY <2>1, <1>13 DEF d, e
  <2> QED BY <2>2, <1>1, <1>5, <1>7, <1>10, <1>11
<1>15. t.form = u.form
  <2>1. IsInjective(FormData) /\ DOMAIN FormData = Form
    BY PendingAssumption DEF FormsAreWritten
  <2> QED BY <2>1, <1>13, <1>14 DEF IsInjective, d, e
<1> QED BY <1>3, <1>12, <1>15 DEF Tx

\* The hash is taken of bytes that tell the transaction.
LEMMA TxHashBytesInjective ==
  \A t, u \in Tx :
     TxHashBytes(FullTx(t), << >>) = TxHashBytes(FullTx(u), << >>) => t = u
<1> SUFFICES ASSUME NEW t \in Tx, NEW u \in Tx,
                    TxHashBytes(FullTx(t), << >>) = TxHashBytes(FullTx(u), << >>)
             PROVE  t = u
  OBVIOUS
<1> DEFINE s == SignedBytes[t]
           r == SignedBytes[u]
           e == WriteLenPrefixed(<< >>)
<1>1. s \in Bytes /\ r \in Bytes /\ << >> \in Bytes
  <2>1. << >> \in Bytes
    BY DEF Bytes
  <2> QED BY <2>1, SignedIsParts, TxKnown, FromType
<1>2. e \in Bytes
  BY <1>1, PrefixedType
<1>3. /\ TxHashBytes(FullTx(t), << >>) = Then(WriteLenPrefixed(s), e)
      /\ TxHashBytes(FullTx(u), << >>) = Then(WriteLenPrefixed(r), e)
  BY DEF TxHashBytes, SignedBytes, Then
<1> HIDE DEF s, r, e
<1>4. WriteLenPrefixed(s) \in Bytes /\ WriteLenPrefixed(r) \in Bytes
  BY <1>1, PrefixedType
<1>5. Len(WriteLenPrefixed(s)) + Len(e) = Len(WriteLenPrefixed(r)) + Len(e)
  <2>1. Then(WriteLenPrefixed(s), e) = Then(WriteLenPrefixed(r), e)
    BY <1>3
  <2>2. /\ Len(Then(WriteLenPrefixed(s), e)) = Len(WriteLenPrefixed(s)) + Len(e)
        /\ Len(Then(WriteLenPrefixed(r), e)) = Len(WriteLenPrefixed(r)) + Len(e)
    BY <1>2, <1>4, ThenType
  <2> QED BY <2>1, <2>2
<1>6. /\ Len(WriteLenPrefixed(s)) = Width64 + Len(s) /\ Len(WriteLenPrefixed(r)) = Width64 + Len(r)
      /\ Len(s) \in Nat /\ Len(r) \in Nat /\ Len(e) \in Nat /\ Width64 \in Nat
  BY <1>1, <1>2, PrefixedType, LengthType
<1>7. Len(s) = Len(r)
  BY <1>5, <1>6
<1>8. s = r
  BY <1>1, <1>2, <1>3, <1>7, SameBytes
<1> QED BY <1>8, SignedBytesInjective DEF s, r

\* The identifier of a post is taken of bytes that tell its author and nonce.
LEMMA PostIdBytesInjective ==
  \A t, u \in Tx : PostIdBytes(t.sender, t.nonce) = PostIdBytes(u.sender, u.nonce)
                   => t.sender = u.sender /\ t.nonce = u.nonce
<1> SUFFICES ASSUME NEW t \in Tx, NEW u \in Tx,
                    PostIdBytes(t.sender, t.nonce) = PostIdBytes(u.sender, u.nonce)
             PROVE  t.sender = u.sender /\ t.nonce = u.nonce
  OBVIOUS
<1>0. TxIs(t) /\ TxIs(u) /\ Width64 \in Nat
  BY TxKnown, LengthType
<1>1. Then(Part2(t), Part8(t)) = Then(Part2(u), Part8(u))
  BY DEF PostIdBytes, Then, Part2, Part8, WriteUint64
<1>2. AddressBytes[t.sender] = AddressBytes[u.sender] /\ Part8(t) = Part8(u)
  <2>1. /\ AddressBytes[t.sender] \in Bytes /\ AddressBytes[u.sender] \in Bytes
        /\ Len(AddressBytes[t.sender]) = Len(AddressBytes[u.sender])
    BY <1>0, NamesKnown DEF TxIs
  <2>2. Part8(t) \in Bytes /\ Part8(u) \in Bytes
    BY <1>0, PartsType
  <2>3. Then(WriteLenPrefixed(AddressBytes[t.sender]), Part8(t))
          = Then(WriteLenPrefixed(AddressBytes[u.sender]), Part8(u))
    BY <1>1 DEF Part2
  <2> QED BY <2>1, <2>2, <2>3, SameBytes
<1>3. t.nonce = u.nonce
  BY <1>0, <1>2, WriteUintInjective DEF TxIs, Part8
<1> QED BY <1>0, <1>2, <1>3, NamesKnown DEF TxIs

\* Transactions under way differ in the bytes that are signed and in the bytes that
\* are hashed, and a post is identified by its author and nonce alone, for every
\* length of text and channel that the length prefix can hold (signableBytes.ts,
\* derivePostID).  A field cannot reach into the next one.
THEOREM SignaturesAreForOne == Spec => []EncodingsAreDistinct
<1>1. ASSUME PendingInv PROVE EncodingsAreDistinct
  <2>1. \A s \in submits : TxOf(s) \in Tx \/ ~ s.nonce > 0
    BY <1>1, SubmitKnown, TxOfType
  <2>2. Sent \cup mempool \subseteq Tx
    BY <1>1, <2>1 DEF Sent, PendingInv, NodeFits
  <2> QED BY <2>2, SignedBytesInjective, TxHashBytesInjective, PostIdBytesInjective
          DEF EncodingsAreDistinct
<1> QED BY <1>1, PendingInvAlways, PTL
=============================================================================
