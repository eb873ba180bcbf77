----------------------------- MODULE WalletProofs -----------------------------
(***************************************************************************)
(* The wallets of the web application keep what they promise for every set  *)
(* of key pairs and any number of handlers that wait.  The promises hold    *)
(* together with five facts about what waits and what is stored, which make  *)
(* the invariant inductive:                                                 *)
(*   the address in use is one of the list, unless the list is empty;       *)
(*   every key in the list, in memory and in a waiting handler's render has *)
(*     been created or imported;                                            *)
(*   a handler carries the wallet or the key it needs, and a name only of   *)
(*     its own wallet;                                                      *)
(*   a key that is being created exists nowhere else;                       *)
(*   a key on the screen is not confirmed, and no waiting handler is about it. *)
(***************************************************************************)
EXTENDS Wallet, SumTheorems

\* No address is listed twice.
Single(ws) == \A i, j \in DOMAIN ws : ws[i].address = ws[j].address => i = j

\* Keys that have been created or imported
Known == {w \in Wallet : backup[w] # "none"}

ActiveIsListed ==
  IF drana_wallets = << >> THEN drana_active_wallet = None
  ELSE drana_active_wallet \in Addresses(drana_wallets)

\* The wallet of the render in which the handler started
RenderFits(c) ==
  c.st # None => /\ c.st.address \in Known
                 /\ c.st.name \in AccountNames(c.st.address)

KeyFits(c) ==
  /\ c.op \in {"create", "import", "register"} => c.w \in Wallet
  /\ c.op = "create" => backup[c.w] = "none"
  /\ c.op = "import" => backup[c.w] \in {"none", "safe"}
  /\ c.op = "register" => c.w \in Known
  /\ c.op \in {"unlock", "refresh"} => c.w = None
  /\ c.op \in {"unlock", "register", "refresh"} => c.st # None

\* Two handlers are not about the same key if one of them creates it.
CreatesFresh ==
  \A c, d \in calls : c.op = "create" /\ d.w = c.w => d = c

CallsFit ==
  calls \subseteq CallType /\ CreatesFresh /\ \A c \in calls : RenderFits(c) /\ KeyFits(c)

\* The stored list and what is rendered of it
Store ==
  /\ drana_wallets \in Seq(StoredWallet) /\ Single(drana_wallets)
  /\ drana_active_wallet \in Opt(Wallet)
  /\ StorageIsShown /\ ActiveIsListed /\ NamesAreTheirs

\* The list against what the user did
Kept ==
  /\ Addresses(drana_wallets) \subseteq Known
  /\ WalletsAreKept /\ RevivedOnlyByName

\* A key that is shown is not confirmed yet, and no handler that waits is about it.
ShownIsNew ==
  \A w \in Wallet : BackupShown(w) => backup[w] = "due" /\ \A c \in calls : c.w # w

\* The dialog and the key
Dialog ==
  /\ modal \in [kind : {"none", "create", "backup", "unlock", "import",
                        "register-name"}, wait : Opt(Wallet)]
  /\ backup \in [Wallet -> {"none", "due", "safe"}]
  /\ overlapped \in BOOLEAN
  /\ ShownIsNew
  /\ privateKey \in Opt(Known)

Rest ==
  /\ balance \in Opt(Wallet) /\ postStakeBalance \in Opt(Wallet)
  /\ names \subseteq Wallet /\ removed \subseteq Wallet

WalletInv == Store /\ Kept /\ Dialog /\ CallsFit /\ Rest

-----------------------------------------------------------------------------
(* The list of wallets *)

\* In a list without duplicates Find finds the entry.
LEMMA FindIs ==
  ASSUME NEW ws \in Seq(StoredWallet), Single(ws), NEW i \in DOMAIN ws
  PROVE  Find(ws, ws[i].address) = ws[i]
<1> DEFINE k == CHOOSE j \in DOMAIN ws : ws[j].address = ws[i].address
<1>1. k \in DOMAIN ws /\ ws[k].address = ws[i].address
  OBVIOUS
<1>2. k = i
  <2> HIDE DEF k
  <2> QED BY <1>1 DEF Single
<1> QED BY <1>2 DEF Find

\* The list ss is ws with w in it.
HasSaved(ws, w, ss) ==
  /\ ss \in Seq(StoredWallet) /\ Single(ss) /\ ss # << >>
  /\ Addresses(ss) = Addresses(ws) \cup {w.address}
  /\ Find(ss, w.address) = w
  /\ \A i \in DOMAIN ss :
       \/ ss[i] = w
       \/ ss[i].address # w.address /\ \E j \in DOMAIN ws : ss[i] = ws[j]

\* saveWallet keeps all other entries, has the new one and none twice.
LEMMA SaveWalletList ==
  ASSUME NEW ws \in Seq(StoredWallet), Single(ws), NEW w \in StoredWallet
  PROVE  HasSaved(ws, w, SaveWallet(ws, w))
<1>0. PICK ss : ss = SaveWallet(ws, w)
  OBVIOUS
<1> SUFFICES HasSaved(ws, w, ss)
  BY <1>0
<1> USE DEF Single, Addresses
<1>1. CASE w.address \in Addresses(ws)
  <2>1. ss = [i \in DOMAIN ws |-> IF ws[i].address = w.address THEN w ELSE ws[i]]
    BY <1>0, <1>1 DEF SaveWallet
  <2>2. ss \in Seq(StoredWallet) /\ DOMAIN ss = DOMAIN ws
    <3> HIDE DEF Single, Addresses
    <3> QED BY <2>1
  <2>3. PICK k \in DOMAIN ws : ws[k].address = w.address
    BY <1>1
  <2>4. ss[k] = w /\ \A i \in DOMAIN ws : ss[i].address = ws[i].address
    BY <2>1, <2>3
  <2>5. Single(ss)
    BY <2>2, <2>4
  <2>6. Addresses(ss) = Addresses(ws) \cup {w.address}
    BY <2>2, <2>4, <2>3
  <2>7. Find(ss, ss[k].address) = ss[k]
    <3> HIDE DEF Single, Addresses
    <3> QED BY <2>2, <2>3, <2>5, FindIs
  <2>8. \A i \in DOMAIN ss :
           \/ ss[i] = w
           \/ ss[i].address # w.address /\ \E j \in DOMAIN ws : ss[i] = ws[j]
    BY <2>1, <2>2
  <2> HIDE DEF Single, Addresses
  <2> QED BY <2>2, <2>3, <2>4, <2>5, <2>6, <2>7, <2>8 DEF HasSaved
<1>2. CASE w.address \notin Addresses(ws)
  <2>1. ss = Append(ws, w)
    BY <1>0, <1>2 DEF SaveWallet
  <2>2. /\ ss \in Seq(StoredWallet) /\ Len(ws) \in Nat /\ DOMAIN ws = 1..Len(ws)
        /\ DOMAIN ss = 1..(Len(ws) + 1) /\ ss[Len(ws) + 1] = w
        /\ \A i \in DOMAIN ws : ss[i] = ws[i]
    <3> HIDE DEF Single, Addresses
    <3> QED BY <2>1
  <2>3. \A i \in DOMAIN ws : ws[i].address # w.address
    BY <1>2
  <2>4. DOMAIN ss = DOMAIN ws \cup {Len(ws) + 1} /\ Len(ws) + 1 \notin DOMAIN ws
    BY <2>2
  <2>5. Single(ss)
    BY <2>2, <2>3, <2>4
  <2>6. Addresses(ss) = Addresses(ws) \cup {w.address}
    BY <2>2, <2>4
  <2>7. Find(ss, ss[Len(ws) + 1].address) = ss[Len(ws) + 1]
    <3> HIDE DEF Single, Addresses
    <3> QED BY <2>2, <2>4, <2>5, FindIs
  <2>8. \A i \in DOMAIN ss :
           \/ ss[i] = w
           \/ ss[i].address # w.address /\ \E j \in DOMAIN ws : ss[i] = ws[j]
    BY <2>2, <2>3, <2>4
  <2>9. ss # << >>
    BY <2>2, <2>4
  <2> HIDE DEF Single, Addresses
  <2> QED BY <2>2, <2>5, <2>6, <2>7, <2>8, <2>9 DEF HasSaved
<1> QED BY <1>1, <1>2

\* The list left is ws without a.
HasRemoved(ws, a, left) ==
  /\ left \in Seq(StoredWallet) /\ Single(left)
  /\ Addresses(left) = Addresses(ws) \ {a}
  /\ \A i \in DOMAIN left : \E j \in DOMAIN ws : left[i] = ws[j]

\* removeWallet keeps exactly the entries of other addresses, none twice.
LEMMA RemoveWalletList ==
  ASSUME NEW ws \in Seq(StoredWallet), Single(ws), NEW a
  PROVE  HasRemoved(ws, a, RemoveWallet(ws, a))
<1> DEFINE S == {w \in StoredWallet : w.address # a}
<1>1. PICK left : left = Filter(ws, S)
  OBVIOUS
<1>2. PICK f : Places(ws, S, Len(ws), left, f)
  BY <1>1, FilterKeeps
<1>3. left \in Seq(StoredWallet) /\ DOMAIN ws = 1..Len(ws)
  BY <1>1, FilterKeeps
<1>4. /\ f \in [DOMAIN left -> DOMAIN ws]
      /\ \A i \in DOMAIN left : left[i] = ws[f[i]] /\ left[i].address # a
      /\ \A j \in DOMAIN ws : ws[j].address # a => \E i \in DOMAIN left : f[i] = j
  BY <1>2, <1>3 DEF Places
<1>5. ASSUME NEW i \in DOMAIN left, NEW j \in DOMAIN left, f[i] = f[j] PROVE i = j
  <2>1. /\ i \in Nat /\ j \in Nat /\ f[i] \in Nat /\ f[j] \in Nat
        /\ i < j => f[i] < f[j]
        /\ j < i => f[j] < f[i]
    BY <1>2, <1>3 DEF Places
  <2> QED BY <1>5, <2>1
<1>6. Single(left)
  BY <1>4, <1>5 DEF Single
<1>7. Addresses(left) = Addresses(ws) \ {a}
  <2>1. ASSUME NEW i \in DOMAIN left PROVE left[i].address \in Addresses(ws) \ {a}
    BY <1>4 DEF Addresses
  <2>2. ASSUME NEW j \in DOMAIN ws, ws[j].address # a
        PROVE  ws[j].address \in Addresses(left)
    BY <1>4, <2>2 DEF Addresses
  <2> QED BY <2>1, <2>2 DEF Addresses
<1>8. \A i \in DOMAIN left : \E j \in DOMAIN ws : left[i] = ws[j]
  BY <1>4
<1>9. HasRemoved(ws, a, left)
  BY <1>3, <1>6, <1>7, <1>8 DEF HasRemoved
<1> QED BY <1>1, <1>9 DEF RemoveWallet

-----------------------------------------------------------------------------
(* What a step does to the parts of the invariant *)

\* saveWallet with the rendered state brought up to date
Saving(w) ==
  SetStorage(SaveWallet(drana_wallets, w), w.address) /\ stored' = w

\* The wallet st is known, and so is its name.
Proper(st) ==
  st # None => /\ st \in StoredWallet /\ st.address \in Known
               /\ st.name \in AccountNames(st.address)

\* Wallets and None are different.
LEMMA NoneIsNoWallet == None \notin Wallet
BY WalletAssumption

\* The wallet in use is an entry of the list.
LEMMA StoredIsListed ==
  ASSUME Store
  PROVE  IF drana_wallets = << >> THEN stored = None
         ELSE \E i \in DOMAIN drana_wallets :
                stored = drana_wallets[i] /\ stored.address = drana_active_wallet
<1>1. CASE drana_wallets = << >>
  BY <1>1 DEF Store, StorageIsShown, LoadActiveWallet
<1>2. CASE drana_wallets # << >>
  <2>1. drana_active_wallet \in Addresses(drana_wallets)
    BY <1>2 DEF Store, ActiveIsListed
  <2>2. PICK i \in DOMAIN drana_wallets : drana_wallets[i].address = drana_active_wallet
    BY <2>1 DEF Addresses
  <2>3. drana_wallets[i] \in StoredWallet
    BY DEF Store
  <2>4. drana_active_wallet # None
    BY <2>2, <2>3, NoneIsNoWallet DEF StoredWallet
  <2>5. Find(drana_wallets, drana_active_wallet) = drana_wallets[i]
    BY <2>2, FindIs DEF Store
  <2>6. stored = Find(drana_wallets, drana_active_wallet)
    BY <1>2, <2>1, <2>4 DEF Store, StorageIsShown, LoadActiveWallet
  <2> QED BY <1>2, <2>2, <2>5, <2>6
<1> QED BY <1>1, <1>2

\* Its key and its name are known.
LEMMA StoredProper ==
  ASSUME Store, Kept
  PROVE  Proper(stored) /\ stored \in Opt(StoredWallet)
<1>1. CASE drana_wallets = << >>
  BY <1>1, StoredIsListed DEF Proper, Opt
<1>2. CASE drana_wallets # << >>
  <2>1. PICK i \in DOMAIN drana_wallets : stored = drana_wallets[i]
    BY <1>2, StoredIsListed
  <2>2. stored \in StoredWallet
    BY <2>1 DEF Store
  <2>3. stored.address \in Known
    BY <2>1 DEF Kept, Addresses
  <2>4. stored.name \in AccountNames(stored.address)
    BY <2>1 DEF Store, NamesAreTheirs, AccountNames
  <2> QED BY <2>2, <2>3, <2>4 DEF Proper, Opt
<1> QED BY <1>1, <1>2

\* A saved wallet is the one in use, and the list remains one of known names.
LEMMA SavingStore ==
  ASSUME Store, NEW w \in StoredWallet, Saving(w), names \subseteq names',
         w.name \in Opt({w.address} \cap names')
  PROVE  Store'
<1>0. PICK ss : ss = SaveWallet(drana_wallets, w)
  OBVIOUS
<1>1. drana_wallets' = ss /\ allWallets' = ss /\ drana_active_wallet' = w.address
      /\ stored' = w
  BY <1>0 DEF Saving, SetStorage
<1>2. drana_wallets \in Seq(StoredWallet) /\ Single(drana_wallets)
  BY DEF Store
<1>3. HasSaved(drana_wallets, w, ss)
  BY <1>0, <1>2, SaveWalletList
<1>4. w.address \in Wallet /\ w.address # None
  BY NoneIsNoWallet DEF StoredWallet
<1>5. StorageIsShown'
  BY <1>1, <1>3, <1>4 DEF StorageIsShown, LoadActiveWallet, HasSaved
<1>6. ActiveIsListed'
  BY <1>1, <1>3, ZenonT(30) DEF ActiveIsListed, HasSaved, Addresses
<1>7. NamesAreTheirs'
  BY <1>1, <1>3 DEF NamesAreTheirs, Store, Opt, HasSaved
<1>8. Single(drana_wallets)'
  BY <1>1, <1>3 DEF Single, HasSaved
<1> QED BY <1>1, <1>3, <1>4, <1>5, <1>6, <1>7, <1>8 DEF Store, Opt, HasSaved

\* Nothing is written.
LEMMA QuietStore ==
  ASSUME Store, UNCHANGED <<storage, stored, allWallets>>, names \subseteq names'
  PROVE  Store'
<1>1. UNCHANGED <<drana_wallets, drana_active_wallet, stored, allWallets>>
  BY DEF storage
<1>2. NamesAreTheirs'
  BY <1>1 DEF Store, NamesAreTheirs, Opt
<1> QED BY <1>1, <1>2
  DEF Store, Single, StorageIsShown, LoadActiveWallet, ActiveIsListed, Addresses, Find

\* No wallet is forgotten when none is removed and every new one is saved.
LEMMA SavingKept ==
  ASSUME Store, Kept, NEW w \in StoredWallet, Saving(w), Known \subseteq Known',
         Known' \subseteq Known \cup {w.address}, w.address \in Known',
         \/ removed' = removed /\ w.name # None
         \/ removed' = removed \ {w.address}
  PROVE  Kept'
<1>0. PICK ss : ss = SaveWallet(drana_wallets, w)
  OBVIOUS
<1>1. drana_wallets' = ss
  BY <1>0 DEF Saving, SetStorage
<1>2. drana_wallets \in Seq(StoredWallet) /\ Single(drana_wallets)
  BY DEF Store
<1>3. HasSaved(drana_wallets, w, ss)
  BY <1>0, <1>2, SaveWalletList
<1>4. Addresses(drana_wallets)' = Addresses(ss)
  BY <1>1 DEF Addresses
<1>5. Known \subseteq Addresses(drana_wallets) \cup removed
  BY DEF Kept, WalletsAreKept, Known
<1>6. WalletsAreKept'
  <2>1. Known' \subseteq Addresses(drana_wallets)' \cup removed'
    BY <1>3, <1>4, <1>5 DEF HasSaved
  <2> QED BY <2>1 DEF WalletsAreKept, Known
<1>7. RevivedOnlyByName'
  BY <1>1, <1>3 DEF Kept, RevivedOnlyByName, HasSaved
<1>8. Addresses(drana_wallets)' \subseteq Known'
  BY <1>3, <1>4 DEF Kept, HasSaved
<1> QED BY <1>6, <1>7, <1>8 DEF Kept

\* The same when the list rests.
LEMMA QuietKept ==
  ASSUME Kept, UNCHANGED <<drana_wallets, removed>>, Known' = Known
  PROVE  Kept'
<1>1. Addresses(drana_wallets)' = Addresses(drana_wallets)
  BY DEF Addresses
<1>2. WalletsAreKept'
  <2>1. Known' \subseteq Addresses(drana_wallets)' \cup removed'
    BY <1>1 DEF Kept, WalletsAreKept, Known
  <2> QED BY <2>1 DEF WalletsAreKept, Known
<1> QED BY <1>1, <1>2 DEF Kept, RevivedOnlyByName

\* A refresh that starts is a handler of the right kind.
LEMMA RefreshFits ==
  \A st : Proper(st) => \A x \in Refresh(st) :
     /\ x \in CallType /\ x.op = "refresh" /\ x.w = None
     /\ RenderFits(x) /\ KeyFits(x)
<1> SUFFICES ASSUME NEW st, Proper(st), NEW x \in Refresh(st)
             PROVE  /\ x \in CallType /\ x.op = "refresh" /\ x.w = None
                    /\ RenderFits(x) /\ KeyFits(x)
  OBVIOUS
<1>1. st # None /\ x = [op |-> "refresh", st |-> st, w |-> None]
  BY DEF Refresh, Call
<1>2. st \in StoredWallet
  BY <1>1 DEF Proper
<1>3. x \in CallType /\ x.op = "refresh" /\ x.w = None /\ x.st = st
  BY <1>1, <1>2 DEF CallType, Opt
<1>4. RenderFits(x)
  BY <1>1, <1>3 DEF RenderFits, Proper
<1>5. KeyFits(x)
  BY <1>1, <1>3 DEF KeyFits
<1> QED BY <1>3, <1>4, <1>5

\* The same after a step.
LEMMA RefreshFitsNext ==
  (\A st : Proper(st) => \A x \in Refresh(st) :
     /\ x \in CallType /\ x.op = "refresh" /\ x.w = None
     /\ RenderFits(x) /\ KeyFits(x))'
BY RefreshFits, PTL

\* Handlers that go on waiting, and refreshes that start
LEMMA CallsGoOn ==
  ASSUME CallsFit, NEW st, NEW st2, NEW R,
         R \subseteq calls, calls' \subseteq (R \cup Refresh(st)) \cup Refresh(st2),
         Proper(st)', Proper(st2)', names \subseteq names', Known \subseteq Known',
         \A c \in R : KeyFits(c)'
  PROVE  CallsFit'
<1>1. ASSUME NEW c \in R PROVE RenderFits(c)'
  <2>1. RenderFits(c)
    BY DEF CallsFit
  <2> QED BY <2>1 DEF RenderFits, AccountNames, Opt
<1>2. \A x \in Refresh(st) \cup Refresh(st2) :
         x \in CallType /\ x.op = "refresh" /\ x.w = None /\ RenderFits(x)' /\ KeyFits(x)'
  BY RefreshFitsNext
<1>3. \A x \in calls' : x \in R \/ x \in Refresh(st) \cup Refresh(st2)
  OBVIOUS
<1>4. CreatesFresh'
  <2> SUFFICES ASSUME NEW c \in calls', NEW d \in calls', c.op = "create", d.w = c.w
               PROVE  d = c
    BY DEF CreatesFresh
  <2>1. c \in R
    BY <1>2, <1>3
  <2>2. c.w \in Wallet
    BY <2>1 DEF CallsFit, KeyFits
  <2>3. d \in R
    BY <2>2, <1>2, <1>3, NoneIsNoWallet
  <2> QED BY <2>1, <2>3 DEF CallsFit, CreatesFresh
<1>5. calls' \subseteq CallType
  BY <1>2, <1>3 DEF CallsFit
<1> QED BY <1>1, <1>2, <1>3, <1>4, <1>5 DEF CallsFit

\* No key changes its state but one that is not confirmed yet.
LEMMA KeysStay ==
  ASSUME CallsFit, Known \subseteq Known',
         \A w \in Wallet : backup[w] # "due" => backup'[w] = backup[w]
  PROVE  \A c \in calls : KeyFits(c)'
<1> SUFFICES ASSUME NEW c \in calls PROVE KeyFits(c)'
  OBVIOUS
<1>1. KeyFits(c)
  BY DEF CallsFit
<1>2. c.w \in Wallet /\ backup[c.w] # "due" => backup'[c.w] = backup[c.w]
  OBVIOUS
<1> QED BY <1>1, <1>2 DEF KeyFits

\* Nothing waits that did not wait before.
LEMMA CallsWait ==
  ASSUME CallsFit, calls' \subseteq calls, names \subseteq names', Known \subseteq Known',
         \A w \in Wallet : backup[w] # "due" => backup'[w] = backup[w]
  PROVE  CallsFit'
<1>1. \A c \in calls : KeyFits(c)'
  BY KeysStay
<1>2. Proper(None)' /\ Refresh(None) = {}
  BY DEF Proper, Refresh
<1> QED BY <1>1, <1>2, CallsGoOn

-----------------------------------------------------------------------------
(* Steps that write neither the list nor the history *)

ModalType ==
  [kind : {"none", "create", "backup", "unlock", "import", "register-name"},
   wait : Opt(Wallet)]

\* No dialog that shows a key appears, and if there is one, no handler about a key
\* starts.
ShownStays ==
  \/ modal'.kind # "backup"
  \/ modal' = modal /\ \A c \in calls' : c \in calls \/ c.w = None

\* A step that leaves the stored wallets alone keeps the invariant.
LEMMA LightStep ==
  ASSUME WalletInv, UNCHANGED <<storage, stored, allWallets, backup, removed>>,
         names \subseteq names', names' \subseteq Wallet, overlapped' \in BOOLEAN,
         balance' \in Opt(Wallet), postStakeBalance' \in Opt(Wallet),
         modal' \in ModalType, ShownStays, privateKey' \in Opt(Known), CallsFit'
  PROVE  WalletInv'
<1>1. UNCHANGED <<drana_wallets, drana_active_wallet, stored, allWallets, backup, removed>>
  BY DEF storage
<1>2. Known' = Known
  BY <1>1 DEF Known
<1>3. Store'
  BY QuietStore DEF WalletInv
<1>4. Kept'
  BY <1>1, <1>2, QuietKept DEF WalletInv
<1>5. Dialog'
  <2>1. ShownIsNew'
    BY <1>1, NoneIsNoWallet DEF ShownIsNew, BackupShown, ShownStays, WalletInv, Dialog, Modal
  <2> QED BY <1>1, <1>2, <2>1 DEF Dialog, WalletInv, ModalType, Opt
<1>6. Rest'
  BY <1>1 DEF Rest, WalletInv
<1> QED BY <1>3, <1>4, <1>5, <1>6 DEF WalletInv

\* The handlers that wait go on waiting when nothing they depend on changes.
LEMMA SameCalls ==
  ASSUME WalletInv, calls' \subseteq calls, UNCHANGED backup, names \subseteq names'
  PROVE  CallsFit'
<1>1. Known' = Known
  BY DEF Known
<1> QED BY <1>1, CallsWait DEF WalletInv

\* OpenModal, SwitchModal, CloseModal, Lock
LEMMA DialogStep ==
  ASSUME WalletInv,
         \/ \E kind \in {"create", "unlock", "import", "register-name"} : OpenModal(kind)
         \/ \E kind \in {"create", "import"} : SwitchModal(kind)
         \/ CloseModal
         \/ Lock
  PROVE  WalletInv'
<1>1. /\ UNCHANGED <<storage, stored, allWallets, amounts, calls, names, backup, removed>>
      /\ overlapped' \in BOOLEAN
  BY DEF OpenModal, SwitchModal, CloseModal, Lock, context, history, WalletInv, Dialog
<1>2. UNCHANGED <<balance, postStakeBalance>>
  BY <1>1 DEF amounts
<1>3. CallsFit'
  BY <1>1, <1>2, SameCalls
<1>4. privateKey' \in Opt(Known)
  BY DEF OpenModal, SwitchModal, CloseModal, Lock, context, WalletInv, Dialog, Opt
<1>5. modal' \in ModalType
  BY DEF OpenModal, SwitchModal, CloseModal, Lock, Modal, Closed, ModalType,
         WalletInv, Dialog, Opt
<1>7. ShownStays
  BY DEF ShownStays, OpenModal, SwitchModal, CloseModal, Lock, Modal, Closed
<1>8. Rest
  BY DEF WalletInv
<1> QED BY <1>1, <1>2, <1>3, <1>4, <1>5, <1>7, <1>8, LightStep DEF Rest

\* One more handler waits.
LEMMA CallsAdded ==
  ASSUME WalletInv, NEW x \in CallType, calls' = calls \cup {x},
         UNCHANGED <<backup, names>>, RenderFits(x), KeyFits(x),
         \A d \in calls : (x.op = "create" \/ d.op = "create") => d.w # x.w
  PROVE  CallsFit'
<1>1. Known' = Known
  BY DEF Known
<1>2. \A c \in calls' : RenderFits(c) /\ KeyFits(c)
  BY DEF WalletInv, CallsFit
<1>3. \A c \in calls' : RenderFits(c)' /\ KeyFits(c)'
  BY <1>1, <1>2 DEF RenderFits, KeyFits, AccountNames
<1>4. CreatesFresh'
  BY DEF WalletInv, CallsFit, CreatesFresh
<1> QED BY <1>3, <1>4 DEF WalletInv, CallsFit

\* StartCreate, StartImport, StartUnlock, StartRegister, TimerRefresh
LEMMA StartStep ==
  ASSUME WalletInv,
         \/ \E w \in Wallet : StartCreate(w)
         \/ \E w \in Wallet : StartImport(w)
         \/ StartUnlock
         \/ StartRegister
         \/ TimerRefresh
  PROVE  WalletInv'
<1>1. /\ UNCHANGED <<storage, context, amounts, names, backup, removed>>
      /\ overlapped' \in BOOLEAN
  BY DEF StartCreate, StartImport, StartUnlock, StartRegister, TimerRefresh, history,
         CloserWaits, WalletInv, Dialog
<1>2. UNCHANGED <<stored, allWallets, privateKey, balance, postStakeBalance, backup>>
  BY <1>1 DEF amounts, context
<1>3. Proper(stored) /\ stored \in Opt(StoredWallet)
  BY StoredProper DEF WalletInv
<1>0. \A d \in calls : d.op = "create" => d.w \in Wallet /\ backup[d.w] = "none"
  BY DEF WalletInv, CallsFit, KeyFits
<1>4. CallsFit'
  <2>1. ASSUME NEW w \in Wallet, StartCreate(w) PROVE CallsFit'
    <3> DEFINE x == Call("create", None, w)
    <3>1. x \in CallType /\ x.op = "create" /\ x.w = w /\ x.st = None
      BY DEF Call, CallType, Opt
    <3>2. calls' = calls \cup {x} /\ backup[w] = "none" /\ \A c \in calls : c.w # w
      BY <2>1 DEF StartCreate
    <3> HIDE DEF x
    <3>3. RenderFits(x) /\ KeyFits(x)
      BY <3>1, <3>2 DEF RenderFits, KeyFits
    <3> QED BY <1>1, <1>2, <3>1, <3>2, <3>3, CallsAdded
  <2>2. ASSUME NEW w \in Wallet, StartImport(w) PROVE CallsFit'
    <3> DEFINE x == Call("import", stored, w)
    <3>1. x \in CallType /\ x.op = "import" /\ x.w = w /\ x.st = stored
      BY <1>3 DEF Call, CallType, Opt
    <3>2. /\ calls' = calls \cup {x} /\ backup[w] \in {"none", "safe"}
          /\ \A c \in calls : c.w # w
      BY <2>2 DEF StartImport
    <3> HIDE DEF x
    <3>3. RenderFits(x) /\ KeyFits(x)
      BY <1>3, <3>1, <3>2 DEF RenderFits, KeyFits, Proper
    <3> QED BY <1>1, <1>2, <3>1, <3>2, <3>3, CallsAdded
  <2>3. ASSUME StartUnlock PROVE CallsFit'
    <3> DEFINE x == Call("unlock", stored, None)
    <3>1. x \in CallType /\ x.op = "unlock" /\ x.w = None /\ x.st = stored
      BY <1>3 DEF Call, CallType, Opt
    <3>2. calls' = calls \cup {x} /\ stored # None
      BY <2>3 DEF StartUnlock
    <3> HIDE DEF x
    <3>3. RenderFits(x) /\ KeyFits(x)
      BY <1>3, <3>1, <3>2 DEF RenderFits, KeyFits, Proper
    <3>4. \A d \in calls : (x.op = "create" \/ d.op = "create") => d.w # x.w
      BY <1>0, <3>1, NoneIsNoWallet
    <3> QED BY <1>1, <1>2, <3>1, <3>2, <3>3, <3>4, CallsAdded
  <2>4. ASSUME StartRegister PROVE CallsFit'
    <3> DEFINE x == Call("register", stored, privateKey)
    <3>0. privateKey \in Known /\ privateKey \in Wallet
      BY <2>4 DEF StartRegister, WalletInv, Dialog, Opt, Known, Modal
    <3>1. x \in CallType /\ x.op = "register" /\ x.w = privateKey /\ x.st = stored
      BY <1>3, <3>0 DEF Call, CallType, Opt
    <3>2. calls' = calls \cup {x} /\ stored # None
      BY <2>4 DEF StartRegister
    <3>3. backup[privateKey] # "none"
      BY <3>0 DEF Known
    <3> HIDE DEF x
    <3>4. RenderFits(x) /\ KeyFits(x)
      BY <1>3, <3>0, <3>1, <3>2, <3>3 DEF RenderFits, KeyFits, Proper
    <3>5. \A d \in calls : (x.op = "create" \/ d.op = "create") => d.w # x.w
      BY <1>0, <3>1, <3>3
    <3> QED BY <1>1, <1>2, <3>1, <3>2, <3>4, <3>5, CallsAdded
  <2>5. ASSUME TimerRefresh PROVE CallsFit'
    <3>1. calls' = calls \cup Refresh(stored)
      BY <2>5 DEF TimerRefresh
    <3>2. PICK st : st = stored
      OBVIOUS
    <3>3. Known' = Known
      BY <1>2 DEF Known
    <3>4. Proper(st)'
      BY <1>1, <1>3, <3>2, <3>3 DEF Proper, AccountNames
    <3>5. \A c \in calls : KeyFits(c)'
      BY <1>2, <3>3, KeysStay DEF WalletInv
    <3>6. calls' \subseteq (calls \cup Refresh(st)) \cup Refresh(st) /\ CallsFit
      BY <3>1, <3>2 DEF WalletInv
    <3>7. calls \subseteq calls /\ names \subseteq names' /\ Known \subseteq Known'
      BY <1>1, <3>3
    <3> QED BY <3>4, <3>5, <3>6, <3>7, CallsGoOn
  <2> QED BY <2>1, <2>2, <2>3, <2>4, <2>5
<1>5. privateKey' \in Opt(Known) /\ privateKey \in Opt(Wallet)
  BY <1>2 DEF WalletInv, Dialog, Opt, Known
<1>6. modal' \in ModalType
  BY <1>5 DEF StartCreate, StartImport, StartUnlock, StartRegister, TimerRefresh, Modal,
         ModalType, WalletInv, Dialog, Opt
<1>8. ShownStays
  BY DEF ShownStays, StartCreate, StartImport, StartUnlock, StartRegister, TimerRefresh,
         Modal, Refresh, Call
<1>9. Rest
  BY DEF WalletInv
<1> QED BY <1>1, <1>2, <1>4, <1>5, <1>6, <1>8, <1>9, LightStep DEF Rest

\* The dialog of a handler that fails shows no key.
LEMMA AfterError ==
  ASSUME WalletInv, NEW c \in calls, modal' = ModalAfterError(c)
  PROVE  modal' \in ModalType /\ (modal'.kind # "backup" \/ modal' = modal)
<1>1. modal' \in ModalType
  BY DEF ModalAfterError, ModalType, WalletInv, Dialog, Opt
<1>2. ASSUME modal.kind = "backup", modal' # modal PROVE FALSE
  <2>1. c.w # None /\ modal.wait = c.w
    BY <1>2 DEF ModalAfterError
  <2>2. c.w \in Wallet
    BY <2>1 DEF WalletInv, CallsFit, CallType, Opt
  <2>3. modal = Modal("backup", c.w)
    BY <1>2, <2>1 DEF Modal, WalletInv, Dialog
  <2> QED BY <2>2, <2>3 DEF WalletInv, Dialog, ShownIsNew, BackupShown
<1>3. modal'.kind = modal.kind
  BY DEF ModalAfterError, WalletInv, Dialog
<1> QED BY <1>1, <1>2, <1>3

\* RegisterDone, CallFails
LEMMA AnswerStep ==
  ASSUME WalletInv, NEW c \in calls, RegisterDone(c) \/ CallFails(c)
  PROVE  WalletInv'
<1>1. UNCHANGED <<storage, context, amounts, history>>
  BY DEF RegisterDone, CallFails
<1>2. UNCHANGED <<stored, allWallets, privateKey, balance, postStakeBalance, backup>>
  BY <1>1 DEF amounts, history, context
<1>3. Known' = Known
  BY <1>2 DEF Known
<1>4. names \subseteq names' /\ names' \subseteq Wallet
  <2>1. CASE names' = names
    BY <2>1 DEF WalletInv, Rest
  <2>2. CASE c.op = "register" /\ names' = names \cup {c.w}
    BY <2>2 DEF WalletInv, Rest, CallsFit, KeyFits
  <2> QED BY <2>1, <2>2 DEF RegisterDone, CallFails
<1>5. modal' \in ModalType /\ ShownStays
  <2>1. modal' \in ModalType /\ (modal'.kind # "backup" \/ modal' = modal)
    <3>1. CASE modal' = modal
      BY <3>1 DEF WalletInv, Dialog, ModalType
    <3>2. CASE modal' = ModalAfterError(c)
      BY <3>2, AfterError
    <3> QED BY <3>1, <3>2 DEF RegisterDone, CallFails
  <2>2. \A d \in calls' : d \in calls \/ d.w = None
    BY DEF RegisterDone, CallFails, Refresh, Call
  <2> QED BY <2>1, <2>2 DEF ShownStays
<1>6. CallsFit'
  <2>1. PICK st : st = c.st
    OBVIOUS
  <2>2. c \in CallType /\ RenderFits(c)
    BY DEF WalletInv, CallsFit
  <2>3. Proper(st)'
    BY <1>3, <1>4, <2>1, <2>2 DEF Proper, RenderFits, AccountNames, CallType, Opt
  <2>4. calls' \subseteq ((calls \ {c}) \cup Refresh(st)) \cup Refresh(st) /\ CallsFit
    BY <2>1 DEF RegisterDone, CallFails, WalletInv
  <2>5. \A d \in calls \ {c} : KeyFits(d)'
    BY <1>2, <1>3, KeysStay DEF WalletInv
  <2>6. calls \ {c} \subseteq calls /\ Known \subseteq Known'
    BY <1>3
  <2> QED BY <1>4, <2>3, <2>4, <2>5, <2>6, CallsGoOn
<1>7. privateKey' \in Opt(Known) /\ Rest /\ overlapped' \in BOOLEAN /\ UNCHANGED removed
  BY <1>1, <1>2 DEF WalletInv, Dialog, history
<1> QED BY <1>1, <1>2, <1>4, <1>5, <1>6, <1>7, LightStep DEF Rest

-----------------------------------------------------------------------------
(* Steps that write the history or the list *)

\* A dialog is closed.
LEMMA ClosedDialog ==
  ASSUME backup' \in [Wallet -> {"none", "due", "safe"}], modal' = Closed,
         overlapped' \in BOOLEAN, privateKey' \in Opt(Known')
  PROVE  Dialog'
<1>1. Closed \in ModalType /\ Closed.kind = "none"
  BY DEF Closed, Modal, ModalType, Opt
<1>2. ShownIsNew'
  BY <1>1 DEF ShownIsNew, BackupShown, Modal
<1> QED BY <1>1, <1>2 DEF Dialog, ModalType, Opt

\* "I've Saved My Key"
LEMMA ConfirmStep ==
  ASSUME WalletInv, NEW w \in Wallet, ConfirmBackup(w)
  PROVE  WalletInv'
<1>1. /\ UNCHANGED <<storage, context, amounts, calls, names, removed>>
      /\ modal' = Closed /\ backup' = [backup EXCEPT ![w] = "safe"]
      /\ BackupShown(w) /\ overlapped' = FALSE
  BY DEF ConfirmBackup
<1>2. UNCHANGED <<drana_wallets, stored, allWallets, privateKey, balance, postStakeBalance>>
  BY <1>1 DEF storage, context, amounts
<1>3. backup \in [Wallet -> {"none", "due", "safe"}]
  BY DEF WalletInv, Dialog
<1>4. backup[w] = "due"
  BY <1>1 DEF WalletInv, Dialog, ShownIsNew
<1>5. /\ backup' \in [Wallet -> {"none", "due", "safe"}]
      /\ \A v \in Wallet : backup[v] # "due" => backup'[v] = backup[v]
  BY <1>1, <1>3, <1>4
<1>6. Known' = Known
  BY <1>1, <1>3, <1>4 DEF Known
<1>7. Dialog' /\ Known' = Known
  BY <1>1, <1>2, <1>5, <1>6, ClosedDialog DEF WalletInv, Dialog
<1>8. Store'
  BY <1>1, <1>2, QuietStore DEF WalletInv
<1>9. Kept'
  BY <1>1, <1>2, <1>7, QuietKept DEF WalletInv
<1>10. CallsFit'
  BY <1>1, <1>5, <1>7, CallsWait DEF WalletInv
<1>11. Rest'
  BY <1>1, <1>2 DEF Rest, WalletInv
<1> QED BY <1>7, <1>8, <1>9, <1>10, <1>11 DEF WalletInv

\* unlock ends
LEMMA UnlockStep ==
  ASSUME WalletInv, NEW c \in calls, UnlockDone(c)
  PROVE  WalletInv'
<1>1. /\ UNCHANGED <<storage, stored, allWallets, amounts, names, backup, removed>>
      /\ modal' = Closed /\ overlapped' = FALSE /\ c.op = "unlock"
      /\ privateKey' = c.st.address
      /\ calls' = (calls \ {c}) \cup Refresh(c.st)
  BY DEF UnlockDone
<1>2. UNCHANGED <<drana_wallets, balance, postStakeBalance>>
  BY <1>1 DEF storage, amounts
<1>3. c \in CallType /\ RenderFits(c) /\ KeyFits(c)
  BY DEF WalletInv, CallsFit
<1>4. c.st # None /\ c.st.address \in Known /\ Proper(c.st)
  BY <1>1, <1>3 DEF RenderFits, KeyFits, Proper, CallType, Opt
<1>5. Known' = Known
  BY <1>1 DEF Known
<1>6. privateKey' \in Opt(Known)
  BY <1>1, <1>4 DEF Opt
<1>7. Dialog' /\ Known' = Known
  BY <1>1, <1>5, <1>6, ClosedDialog DEF WalletInv, Dialog
<1>8. Store'
  BY <1>1, QuietStore DEF WalletInv
<1>9. Kept'
  BY <1>1, <1>2, <1>7, QuietKept DEF WalletInv
<1>10. CallsFit'
  <2>1. PICK st : st = c.st
    OBVIOUS
  <2>2. Proper(st)'
    BY <1>1, <1>4, <1>7, <2>1 DEF Proper, AccountNames
  <2>3. \A d \in calls \ {c} : KeyFits(d)'
    BY <1>1, <1>5, KeysStay DEF WalletInv
  <2>4. calls' \subseteq ((calls \ {c}) \cup Refresh(st)) \cup Refresh(st) /\ CallsFit
    BY <1>1, <2>1 DEF WalletInv
  <2>5. calls \ {c} \subseteq calls /\ Known \subseteq Known' /\ names \subseteq names'
    BY <1>1, <1>7
  <2> QED BY <2>2, <2>3, <2>4, <2>5, CallsGoOn
<1>11. Rest'
  BY <1>1, <1>2 DEF Rest, WalletInv
<1> QED BY <1>7, <1>8, <1>9, <1>10, <1>11 DEF WalletInv

\* The page is opened again: what was stored is what was shown.
LEMMA ReloadStep ==
  ASSUME WalletInv, Reload
  PROVE  WalletInv'
<1>1. /\ UNCHANGED <<storage, names, backup, removed>>
      /\ modal' = Closed /\ overlapped' = FALSE /\ privateKey' = None
      /\ stored' = LoadActiveWallet(drana_wallets, drana_active_wallet)
      /\ allWallets' = drana_wallets /\ balance' = None /\ postStakeBalance' = None
      /\ calls' = Refresh(stored')
  BY DEF Reload
<1>2. UNCHANGED <<drana_wallets, drana_active_wallet, stored, allWallets>>
  BY <1>1 DEF storage, WalletInv, Store, StorageIsShown
<1>3. Known' = Known
  BY <1>1 DEF Known
<1>4. privateKey' \in Opt(Known)
  BY <1>1 DEF Opt
<1>5. Dialog' /\ Known' = Known
  BY <1>1, <1>3, <1>4, ClosedDialog DEF WalletInv, Dialog
<1>6. Store'
  BY <1>1, <1>2, QuietStore DEF WalletInv
<1>7. Kept'
  BY <1>1, <1>2, <1>5, QuietKept DEF WalletInv
<1>8. CallsFit'
  <2>1. PICK st : st = stored
    OBVIOUS
  <2>2. Proper(st)
    BY <2>1, StoredProper DEF WalletInv
  <2>3. Proper(st)'
    BY <1>1, <1>5, <2>2 DEF Proper, AccountNames
  <2>4. PICK R : R = {}
    OBVIOUS
  <2>5. calls' \subseteq (R \cup Refresh(st)) \cup Refresh(st) /\ CallsFit
    BY <1>1, <1>2, <2>1 DEF WalletInv
  <2>6. R \subseteq calls /\ Known \subseteq Known' /\ names \subseteq names'
    BY <1>1, <1>5, <2>4
  <2>7. \A d \in R : KeyFits(d)'
    BY <2>4
  <2> QED BY <2>3, <2>5, <2>6, <2>7, CallsGoOn
<1>9. Rest'
  BY <1>1 DEF Rest, WalletInv, Opt
<1> QED BY <1>5, <1>6, <1>7, <1>8, <1>9 DEF WalletInv

\* What a step that saves a wallet known by then leaves of the invariant
LEMMA SavedStep ==
  ASSUME WalletInv, NEW w \in StoredWallet, NEW st, NEW c \in calls, Saving(w),
         calls' \subseteq ((calls \ {c}) \cup Refresh(st)) \cup Refresh(w),
         \A d \in calls \ {c} : KeyFits(d)',
         Known' = Known \cup {w.address}, w.name \in AccountNames(w.address),
         Proper(st), UNCHANGED names, Dialog', Rest',
         \/ removed' = removed /\ w.name # None
         \/ removed' = removed \ {w.address}
  PROVE  WalletInv'
<1>1. Store'
  BY SavingStore DEF WalletInv, AccountNames
<1>2. Kept'
  <2>1. Known \subseteq Known' /\ Known' \subseteq Known \cup {w.address} /\ w.address \in Known'
    OBVIOUS
  <2>2. Store /\ Kept
    BY DEF WalletInv
  <2> QED BY <2>1, <2>2, SavingKept
<1>3. CallsFit'
  <2>1. Proper(w)' /\ Proper(st)'
    BY DEF Proper, AccountNames
  <2>2. calls \ {c} \subseteq calls /\ Known \subseteq Known' /\ names \subseteq names' /\ CallsFit
    BY DEF WalletInv
  <2> QED BY <2>1, <2>2, CallsGoOn
<1> QED BY <1>1, <1>2, <1>3 DEF WalletInv

\* createWallet ends
LEMMA CreateStep ==
  ASSUME WalletInv, NEW c \in calls, CreateDone(c)
  PROVE  WalletInv'
<1>1. PICK w : w = [address |-> c.w, name |-> None]
  OBVIOUS
<1>2. /\ c.op = "create" /\ privateKey' = c.w /\ removed' = removed \ {c.w}
      /\ UNCHANGED <<amounts, names, overlapped>>
      /\ SetStorage(SaveWallet(drana_wallets, w), c.w) /\ SetStored(w, calls \ {c})
      /\ modal' = IF modal = Modal("create", c.w) THEN Modal("backup", c.w) ELSE modal
      /\ backup' = [backup EXCEPT ![c.w] = "due"]
  BY <1>1 DEF CreateDone
<1>3. c.w \in Wallet /\ backup[c.w] = "none"
  BY <1>2 DEF WalletInv, CallsFit, KeyFits
<1>4. /\ w \in StoredWallet /\ w.address = c.w /\ w.name = None
      /\ w.name \in AccountNames(w.address)
  BY <1>1, <1>3 DEF StoredWallet, AccountNames, Opt
<1>5. backup \in [Wallet -> {"none", "due", "safe"}]
  BY DEF WalletInv, Dialog
<1>6. /\ backup' \in [Wallet -> {"none", "due", "safe"}]
      /\ \A v \in Wallet : v # c.w => backup'[v] = backup[v]
      /\ backup'[c.w] = "due"
  BY <1>2, <1>3, <1>5
<1>7. Known' = Known \cup {w.address}
  BY <1>3, <1>4, <1>6 DEF Known
<1>8. Dialog'
  <2>1. modal' \in ModalType
    BY <1>2, <1>3 DEF Modal, ModalType, WalletInv, Dialog, Opt
  <2>2. \A d \in calls' : d.w = None \/ (d \in calls /\ d # c)
    BY <1>2 DEF SetStored, Refresh, Call
  <2>3. ASSUME NEW v \in Wallet, modal' = Modal("backup", v)
        PROVE  backup'[v] = "due" /\ \A d \in calls' : d.w # v
    <3>1. CASE v = c.w
      <4>1. \A d \in calls : d # c => d.w # c.w
        BY <1>2 DEF WalletInv, CallsFit, CreatesFresh
      <4> QED BY <1>6, <2>2, <3>1, <4>1, NoneIsNoWallet
    <3>2. CASE v # c.w
      <4>1. modal = Modal("backup", v)
        BY <1>2, <2>3, <3>2 DEF Modal
      <4>2. backup[v] = "due" /\ \A d \in calls : d.w # v
        BY <4>1 DEF WalletInv, Dialog, ShownIsNew, BackupShown
      <4> QED BY <1>6, <2>2, <3>2, <4>2, NoneIsNoWallet
    <3> QED BY <3>1, <3>2
  <2>4. ShownIsNew'
    BY <2>3 DEF ShownIsNew, BackupShown
  <2> QED BY <2>1, <2>4, <1>2, <1>4, <1>6, <1>7 DEF Dialog, Opt, ModalType, WalletInv
<1>9. Saving(w) /\ calls' = (calls \ {c}) \cup Refresh(w)
  BY <1>2, <1>4 DEF Saving, SetStored
<1>10. ASSUME NEW d \in calls \ {c} PROVE KeyFits(d)'
  <2>1. d.w # c.w /\ KeyFits(d)
    BY <1>2 DEF WalletInv, CallsFit, CreatesFresh
  <2> QED BY <2>1, <1>6, <1>7 DEF KeyFits
<1>11. Rest'
  BY <1>2, <1>3 DEF Rest, WalletInv, amounts
<1>12. Proper(None) /\ Refresh(None) = {}
  BY DEF Proper, Refresh
<1>13. calls' \subseteq ((calls \ {c}) \cup Refresh(None)) \cup Refresh(w)
  BY <1>9, <1>12
<1>14. removed' = removed \ {w.address} /\ UNCHANGED names
  BY <1>2, <1>4
<1> QED BY <1>4, <1>7, <1>8, <1>9, <1>10, <1>11, <1>12, <1>13, <1>14, SavedStep

\* importWallet ends
LEMMA ImportStep ==
  ASSUME WalletInv, NEW c \in calls, ImportDone(c)
  PROVE  WalletInv'
<1>1. PICK w : w = [address |-> c.w, name |-> None]
  OBVIOUS
<1>2. backup \in [Wallet -> {"none", "due", "safe"}]
  BY DEF WalletInv, Dialog
<1>3. /\ c.op = "import" /\ privateKey' = c.w /\ removed' = removed \ {c.w}
      /\ UNCHANGED <<amounts, names>>
      /\ SetStorage(SaveWallet(drana_wallets, w), c.w)
      /\ SetStored(w, (calls \ {c}) \cup Refresh(c.st))
      /\ modal' = Closed /\ overlapped' = FALSE
      /\ backup' = [backup EXCEPT ![c.w] = "safe"]
  BY <1>1 DEF ImportDone
<1>4. c \in CallType /\ RenderFits(c) /\ KeyFits(c)
  BY DEF WalletInv, CallsFit
<1>5. c.w \in Wallet /\ backup[c.w] \in {"none", "safe"} /\ Proper(c.st)
  BY <1>3, <1>4 DEF KeyFits, RenderFits, Proper, CallType, Opt
<1>6. /\ w \in StoredWallet /\ w.address = c.w /\ w.name = None
      /\ w.name \in AccountNames(w.address)
  BY <1>1, <1>5 DEF StoredWallet, AccountNames, Opt
<1>8. /\ backup' \in [Wallet -> {"none", "due", "safe"}]
      /\ backup'[c.w] = "safe"
      /\ \A v \in Wallet : v # c.w => backup'[v] = backup[v]
  BY <1>2, <1>3, <1>5
<1>9. Known' = Known \cup {w.address}
  BY <1>5, <1>6, <1>8 DEF Known
<1>10. Dialog'
  <2>1. privateKey' \in Opt(Known')
    BY <1>3, <1>6, <1>9 DEF Opt
  <2> QED BY <1>3, <1>8, <2>1, ClosedDialog
<1>11. Saving(w) /\ calls' = ((calls \ {c}) \cup Refresh(c.st)) \cup Refresh(w)
  BY <1>3, <1>6 DEF Saving, SetStored
<1>12. ASSUME NEW d \in calls \ {c} PROVE KeyFits(d)'
  <2>1. KeyFits(d) /\ (d.op = "create" => d.w # c.w)
    BY DEF WalletInv, CallsFit, CreatesFresh
  <2> QED BY <2>1, <1>5, <1>6, <1>8, <1>9 DEF KeyFits
<1>13. Rest'
  BY <1>3 DEF Rest, WalletInv, amounts
<1>14. removed' = removed \ {w.address} /\ UNCHANGED names
  BY <1>3, <1>6
<1>15. PICK st : st = c.st
  OBVIOUS
<1>16. Proper(st) /\ calls' \subseteq ((calls \ {c}) \cup Refresh(st)) \cup Refresh(w)
  BY <1>5, <1>11, <1>15
<1> QED BY <1>6, <1>9, <1>10, <1>11, <1>12, <1>13, <1>14, <1>16, SavedStep

\* refreshBalance ends
LEMMA RefreshStep ==
  ASSUME WalletInv, NEW c \in calls, NEW name, RefreshDone(c, name)
  PROVE  WalletInv'
<1>1. /\ c.op = "refresh" /\ name \in AccountNames(c.st.address)
      /\ balance' = c.st.address /\ postStakeBalance' = c.st.address
      /\ UNCHANGED <<privateKey, modal, names, history>>
  BY DEF RefreshDone
<1>2. UNCHANGED <<backup, overlapped, removed>>
  BY <1>1 DEF history
<1>3. c \in CallType /\ RenderFits(c) /\ KeyFits(c)
  BY DEF WalletInv, CallsFit
<1>4. c.st \in StoredWallet /\ c.st.address \in Known /\ c.st.address \in Wallet
  BY <1>1, <1>3 DEF KeyFits, RenderFits, CallType, Opt, Known
<1>5. Rest'
  BY <1>1, <1>2, <1>4 DEF Rest, WalletInv, Opt
<1>6. Known' = Known
  BY <1>2 DEF Known
<1>7. CASE NameIsNew(c, name)
  <2>1. PICK w : w = [c.st EXCEPT !.name = name]
    OBVIOUS
  <2>2. name \in Opt(Wallet) /\ name # None
    BY <1>1, <1>4, <1>7 DEF AccountNames, NameIsNew, Opt
  <2>3. w \in StoredWallet /\ w.address = c.st.address /\ w.name = name
    BY <1>4, <2>1, <2>2 DEF StoredWallet
  <2>4. Saving(w) /\ calls' = (calls \ {c}) \cup Refresh(w)
    BY <1>7, <2>1 DEF RefreshDone, Renamed, Saving, SetStored
  <2>5. Dialog'
    <3>1. \A d \in calls' : d \in calls \/ d.w = None
      BY <2>4 DEF Refresh, Call
    <3>2. ShownIsNew'
      BY <1>1, <1>2, <3>1, NoneIsNoWallet DEF ShownIsNew, BackupShown, WalletInv, Dialog
    <3> QED BY <1>1, <1>2, <1>6, <3>2 DEF Dialog, WalletInv
  <2>6. \A d \in calls \ {c} : KeyFits(d)'
    BY <1>2, <1>6, KeysStay DEF WalletInv
  <2>7. Proper(None) /\ Refresh(None) = {}
    BY DEF Proper, Refresh
  <2>8. calls' \subseteq ((calls \ {c}) \cup Refresh(None)) \cup Refresh(w)
    BY <2>4, <2>7
  <2>9. /\ Known' = Known \cup {w.address} /\ w.name \in AccountNames(w.address)
        /\ UNCHANGED names /\ removed' = removed /\ w.name # None
    BY <1>1, <1>2, <1>4, <1>6, <2>2, <2>3
  <2> QED BY <1>5, <2>3, <2>4, <2>5, <2>6, <2>7, <2>8, <2>9, SavedStep
<1>8. CASE ~ NameIsNew(c, name)
  <2>1. calls' = calls \ {c} /\ UNCHANGED <<storage, stored, allWallets>>
    BY <1>8 DEF RefreshDone
  <2>2. CallsFit'
    BY <1>1, <1>2, <2>1, SameCalls
  <2>3. modal' \in ModalType /\ ShownStays /\ privateKey' \in Opt(Known)
    BY <1>1, <2>1 DEF WalletInv, Dialog, ModalType, ShownStays
  <2>4. balance' \in Opt(Wallet) /\ postStakeBalance' \in Opt(Wallet) /\ names' \subseteq Wallet
    BY <1>5 DEF Rest
  <2>5. overlapped' \in BOOLEAN
    BY <1>2 DEF WalletInv, Dialog
  <2> QED BY <1>1, <1>2, <2>1, <2>2, <2>3, <2>4, <2>5, LightStep
<1> QED BY <1>7, <1>8

\* switchWallet
LEMMA SwitchStep ==
  ASSUME WalletInv, NEW a \in Wallet, SwitchWallet(a)
  PROVE  WalletInv'
<1>1. /\ a \in Addresses(allWallets)
      /\ privateKey' = None /\ drana_active_wallet' = a /\ balance' = None
      /\ SetStored(IF a \in Addresses(drana_wallets) THEN Find(drana_wallets, a)
                   ELSE None, calls)
      /\ UNCHANGED <<drana_wallets, allWallets, postStakeBalance, modal, names, history>>
  BY DEF SwitchWallet
<1>2. UNCHANGED <<backup, overlapped, removed>>
  BY <1>1 DEF history
<1>3. allWallets = drana_wallets /\ drana_wallets \in Seq(StoredWallet) /\ Single(drana_wallets)
  BY DEF WalletInv, Store, StorageIsShown
<1>4. PICK i \in DOMAIN drana_wallets : drana_wallets[i].address = a
  BY <1>1, <1>3 DEF Addresses
<1>5. Find(drana_wallets, a) = drana_wallets[i]
  BY <1>3, <1>4, FindIs
<1>6. a \in Addresses(drana_wallets)
  BY <1>1, <1>3
<1>7. stored' = Find(drana_wallets, a) /\ calls' = calls \cup Refresh(Find(drana_wallets, a))
  BY <1>1, <1>6 DEF SetStored
<1>8. drana_wallets # << >> /\ a # None
  BY <1>4, NoneIsNoWallet
<1>9. Known' = Known
  BY <1>2 DEF Known
<1>10. Store'
  <2>1. Addresses(drana_wallets)' = Addresses(drana_wallets)
    BY <1>1 DEF Addresses
  <2>2. StorageIsShown'
    BY <1>1, <1>3, <1>6, <1>7, <1>8 DEF StorageIsShown, LoadActiveWallet
  <2>3. ActiveIsListed'
    BY <1>1, <1>6, <1>8, <2>1 DEF ActiveIsListed
  <2>4. NamesAreTheirs' /\ Single(drana_wallets)'
    BY <1>1 DEF NamesAreTheirs, Single, WalletInv, Store
  <2> QED BY <1>1, <1>3, <2>2, <2>3, <2>4 DEF Store, Opt
<1>11. Kept'
  BY <1>1, <1>2, <1>9, QuietKept DEF WalletInv
<1>12. Dialog'
  <2>1. \A d \in calls' : d \in calls \/ d.w = None
    BY <1>7 DEF Refresh, Call
  <2>2. ShownIsNew'
    BY <1>1, <1>2, <2>1, NoneIsNoWallet DEF ShownIsNew, BackupShown, WalletInv, Dialog
  <2> QED BY <1>1, <1>2, <1>9, <2>2 DEF Dialog, WalletInv, Opt
<1>13. CallsFit'
  <2>1. PICK st : st = drana_wallets[i]
    OBVIOUS
  <2>2. st \in StoredWallet /\ st.address \in Known /\ st.name \in AccountNames(st.address)
    BY <1>3, <2>1 DEF WalletInv, Store, Kept, Addresses, NamesAreTheirs, AccountNames
  <2>3. Proper(st)'
    BY <1>1, <1>9, <2>2 DEF Proper, AccountNames
  <2>4. calls' \subseteq (calls \cup Refresh(st)) \cup Refresh(st) /\ CallsFit
    BY <1>5, <1>7, <2>1 DEF WalletInv
  <2>5. calls \subseteq calls /\ Known \subseteq Known' /\ names \subseteq names'
    BY <1>1, <1>9
  <2>6. \A d \in calls : KeyFits(d)'
    BY <1>2, <1>9, KeysStay DEF WalletInv
  <2> QED BY <2>3, <2>4, <2>5, <2>6, CallsGoOn
<1>14. Rest'
  BY <1>1, <1>2 DEF Rest, WalletInv, Opt
<1> QED BY <1>10, <1>11, <1>12, <1>13, <1>14 DEF WalletInv

\* removeWallet, of the wallet in use: the first of those that are left takes
\* its place.
LEMMA RemoveStep ==
  ASSUME WalletInv, RemoveCurrent
  PROVE  WalletInv'
<1>1. PICK a : a = stored.address
  OBVIOUS
<1>2. PICK left : left = RemoveWallet(drana_wallets, a)
  OBVIOUS
<1>3. PICK st : st = IF left = << >> THEN None ELSE left[1]
  OBVIOUS
<1>4. /\ stored # None /\ modal.kind = "unlock" /\ modal' = Closed
      /\ removed' = removed \cup {a} /\ UNCHANGED <<amounts, names, backup, overlapped>>
      /\ privateKey' = None
      /\ drana_wallets' = left /\ allWallets' = left
      /\ drana_active_wallet' = ActiveAfterRemove(left, drana_active_wallet, a)
      /\ stored' = st /\ calls' = calls \cup Refresh(st)
  BY <1>1, <1>2, <1>3 DEF RemoveCurrent, RemoveWalletFn, SetStorage, SetStored
<1>5. PICK i \in DOMAIN drana_wallets :
         stored = drana_wallets[i] /\ stored.address = drana_active_wallet
  BY <1>4, StoredIsListed DEF WalletInv
<1>6. drana_wallets \in Seq(StoredWallet) /\ Single(drana_wallets)
  BY DEF WalletInv, Store
<1>7. a \in Wallet /\ drana_active_wallet = a
  <2>1. drana_wallets[i] \in StoredWallet
    BY <1>6
  <2> QED BY <1>1, <1>5, <2>1 DEF StoredWallet
<1>8. HasRemoved(drana_wallets, a, left)
  BY <1>2, <1>6, RemoveWalletList
<1>9. left \in Seq(StoredWallet) /\ Single(left)
  BY <1>8 DEF HasRemoved
<1>10. \A k \in DOMAIN left : \E j \in DOMAIN drana_wallets : left[k] = drana_wallets[j]
  BY <1>8 DEF HasRemoved
<1>11. drana_active_wallet' = IF left = << >> THEN None ELSE left[1].address
  BY <1>4, <1>7 DEF ActiveAfterRemove
<1>12. left # << >> => /\ 1 \in DOMAIN left /\ left[1] \in StoredWallet
                       /\ left[1].address \in Addresses(left)
                       /\ left[1].address # None
                       /\ Find(left, left[1].address) = left[1]
  <2> SUFFICES ASSUME left # << >> PROVE
                    /\ 1 \in DOMAIN left /\ left[1] \in StoredWallet
                    /\ left[1].address \in Addresses(left)
                    /\ left[1].address # None
                    /\ Find(left, left[1].address) = left[1]
    OBVIOUS
  <2>1. 1 \in DOMAIN left /\ left[1] \in StoredWallet
    BY <1>9
  <2> QED BY <1>9, <2>1, FindIs, NoneIsNoWallet DEF Addresses, StoredWallet
<1>13. Store'
  <2>1. StorageIsShown'
    BY <1>3, <1>4, <1>11, <1>12 DEF StorageIsShown, LoadActiveWallet
  <2>2. ActiveIsListed'
    BY <1>4, <1>11, <1>12 DEF ActiveIsListed, Addresses
  <2>3. NamesAreTheirs'
    BY <1>4, <1>10 DEF NamesAreTheirs, WalletInv, Store
  <2>4. Single(drana_wallets)'
    BY <1>4, <1>9 DEF Single
  <2>5. drana_active_wallet' \in Opt(Wallet)
    BY <1>11, <1>12 DEF Opt, StoredWallet
  <2> QED BY <1>4, <1>9, <2>1, <2>2, <2>3, <2>4, <2>5 DEF Store
<1>14. Known' = Known
  BY <1>4 DEF Known
<1>15. Addresses(drana_wallets)' = Addresses(drana_wallets) \ {a}
  BY <1>4, <1>8 DEF HasRemoved, Addresses
<1>16. Kept'
  <2>1. Known \subseteq Addresses(drana_wallets) \cup removed
    BY DEF WalletInv, Kept, WalletsAreKept, Known
  <2>2. Known' \subseteq Addresses(drana_wallets)' \cup removed'
    BY <1>4, <1>14, <1>15, <2>1
  <2>3. WalletsAreKept'
    BY <2>2 DEF WalletsAreKept, Known
  <2>4. RevivedOnlyByName'
    <3> SUFFICES ASSUME NEW k \in DOMAIN left, left[k].address \in removed \cup {a}
                 PROVE  left[k].name # None
      BY <1>4 DEF RevivedOnlyByName
    <3>1. left[k].address # a
      BY <1>8 DEF HasRemoved, Addresses
    <3> QED BY <3>1, <1>10 DEF WalletInv, Kept, RevivedOnlyByName
  <2> QED BY <1>14, <1>15, <2>3, <2>4 DEF Kept, WalletInv
<1>17. Dialog'
  <2>1. privateKey' \in Opt(Known')
    BY <1>4 DEF Opt
  <2> QED BY <1>4, <2>1, ClosedDialog DEF WalletInv, Dialog
<1>18. CallsFit'
  <2>1. Proper(st)'
    <3> SUFFICES ASSUME left # << >> PROVE Proper(st)'
      BY <1>3 DEF Proper
    <3>1. st = left[1] /\ st \in StoredWallet /\ 1 \in DOMAIN left
      BY <1>3, <1>12
    <3>2. PICK j \in DOMAIN drana_wallets : st = drana_wallets[j]
      BY <3>1, <1>10
    <3>3. st.address \in Known /\ st.name \in AccountNames(st.address)
      BY <3>2 DEF WalletInv, Store, Kept, Addresses, NamesAreTheirs, AccountNames
    <3> QED BY <1>4, <1>14, <3>1, <3>3 DEF Proper, AccountNames
  <2>2. calls' \subseteq (calls \cup Refresh(st)) \cup Refresh(st) /\ CallsFit
    BY <1>4 DEF WalletInv
  <2>3. calls \subseteq calls /\ Known \subseteq Known' /\ names \subseteq names'
    BY <1>4, <1>14
  <2>4. \A d \in calls : KeyFits(d)'
    BY <1>4, <1>14, KeysStay DEF WalletInv
  <2> QED BY <2>1, <2>2, <2>3, <2>4, CallsGoOn
<1>19. Rest'
  BY <1>4, <1>7 DEF Rest, WalletInv, amounts
<1> QED BY <1>13, <1>16, <1>17, <1>18, <1>19 DEF WalletInv

-----------------------------------------------------------------------------
(* The invariant holds *)

\* The invariant holds when the page is opened.
LEMMA WalletInitially == Init => WalletInv
<1> SUFFICES ASSUME Init PROVE WalletInv
  OBVIOUS
<1>1. PICK legacy \in Opt([address : Wallet, name : {None}]) :
        /\ drana_wallets = IF legacy = None THEN << >> ELSE <<legacy>>
        /\ drana_active_wallet = IF legacy = None THEN None ELSE legacy.address
        /\ backup = [w \in Wallet |->
             IF legacy # None /\ w = legacy.address THEN "safe" ELSE "none"]
  BY DEF Init
<1>2. /\ stored = LoadActiveWallet(drana_wallets, drana_active_wallet)
      /\ allWallets = drana_wallets
      /\ privateKey = None
      /\ balance = None /\ postStakeBalance = None
      /\ modal = Closed
      /\ calls = Refresh(stored)
      /\ names = Named
      /\ removed = {} /\ overlapped = FALSE
  BY DEF Init
<1>3. ASSUME legacy = None PROVE Store /\ Kept
  <2>1. drana_wallets = << >> /\ drana_active_wallet = None
    BY <1>1, <1>3
  <2>2. DOMAIN drana_wallets = {} /\ drana_wallets \in Seq(StoredWallet)
    BY <2>1
  <2>3. \A w \in Wallet : backup[w] = "none"
    BY <1>1, <1>3
  <2>4. Store
    BY <1>2, <2>1, <2>2 DEF Store, Single, StorageIsShown, ActiveIsListed, NamesAreTheirs, Opt
  <2>5. Kept
    BY <2>2, <2>3 DEF Kept, Addresses, WalletsAreKept, RevivedOnlyByName
  <2> QED BY <2>4, <2>5
<1>4. ASSUME legacy # None PROVE Store /\ Kept
  <2>1. drana_wallets = <<legacy>> /\ drana_active_wallet = legacy.address
    BY <1>1, <1>4
  <2>2. legacy \in StoredWallet /\ legacy.address \in Wallet /\ legacy.name = None
    BY <1>1, <1>4 DEF Opt, StoredWallet
  <2>3. /\ DOMAIN drana_wallets = {1} /\ drana_wallets[1] = legacy
        /\ drana_wallets \in Seq(StoredWallet) /\ drana_wallets # << >>
    BY <2>1, <2>2
  <2>4. Known = {legacy.address}
    BY <1>1, <1>4, <2>2 DEF Known
  <2>5. Addresses(drana_wallets) = {legacy.address}
    BY <2>3 DEF Addresses
  <2>6. Store
    BY <1>2, <2>1, <2>2, <2>3, <2>5
       DEF Store, Single, StorageIsShown, ActiveIsListed, NamesAreTheirs, Opt
  <2>7. Kept
    BY <1>2, <2>3, <2>4, <2>5 DEF Kept, WalletsAreKept, RevivedOnlyByName, Known
  <2> QED BY <2>6, <2>7
<1>5. Store /\ Kept
  BY <1>3, <1>4
<1>6. backup \in [Wallet -> {"none", "due", "safe"}]
  BY <1>1
<1>7. Dialog
  BY <1>2, <1>6 DEF Dialog, Closed, Modal, Opt, ShownIsNew, BackupShown
<1>8. CallsFit
  <2>1. Proper(stored)
    BY <1>5, StoredProper
  <2>2. \A x \in calls : /\ x \in CallType /\ x.op = "refresh" /\ x.w = None
                         /\ RenderFits(x) /\ KeyFits(x)
    BY <1>2, <2>1, RefreshFits
  <2> QED BY <2>2 DEF CallsFit, CreatesFresh
<1>9. Rest
  BY <1>2, WalletAssumption DEF Rest, Opt
<1> QED BY <1>5, <1>7, <1>8, <1>9 DEF WalletInv

\* Every step keeps the invariant.
LEMMA WalletPreserved == WalletInv /\ [Next]_vars => WalletInv'
<1> SUFFICES ASSUME WalletInv, [Next]_vars PROVE WalletInv'
  OBVIOUS
<1>1. CASE UNCHANGED vars
  <2>1. UNCHANGED <<storage, context, amounts, modal, calls, names, history>>
    BY <1>1 DEF vars
  <2>2. UNCHANGED <<stored, allWallets, privateKey, balance, postStakeBalance, backup,
                   overlapped, removed>>
    BY <2>1 DEF context, amounts, history
  <2>3. CallsFit'
    BY <2>1, <2>2, SameCalls
  <2>4. /\ modal' \in ModalType /\ ShownStays /\ privateKey' \in Opt(Known) /\ Rest
        /\ overlapped' \in BOOLEAN
    BY <2>1, <2>2 DEF WalletInv, Dialog, ModalType, ShownStays
  <2> QED BY <2>1, <2>2, <2>3, <2>4, LightStep DEF Rest
<1>2. CASE User
  BY <1>2, DialogStep, ConfirmStep, StartStep, SwitchStep, RemoveStep, ReloadStep DEF User
<1>3. CASE Resume
  BY <1>3, CreateStep, ImportStep, UnlockStep, AnswerStep, RefreshStep DEF Resume
<1>4. CASE TimerRefresh
  BY <1>4, StartStep
<1> QED BY <1>1, <1>2, <1>3, <1>4 DEF Next

\* The invariant of the wallets holds in every reachable state.
THEOREM WalletInvAlways == Spec => []WalletInv
BY WalletInitially, WalletPreserved, PTL DEF Spec

\* Storage, rendered state, dialogs and waiting handlers keep their types, and no
\* address is listed twice, for every set of key pairs and any number of waiting
\* handlers.
THEOREM WalletTyping == Spec => []TypeOK
<1>1. WalletInv => TypeOK
  <2> SUFFICES ASSUME WalletInv PROVE TypeOK
    OBVIOUS
  <2>1. stored \in Opt(StoredWallet)
    BY StoredProper DEF WalletInv
  <2>2. allWallets \in Seq(StoredWallet)
    BY DEF WalletInv, Store, StorageIsShown
  <2>3. privateKey \in Opt(Wallet)
    BY DEF WalletInv, Dialog, Known, Opt
  <2> QED BY <2>1, <2>2, <2>3 DEF TypeOK, WalletInv, Store, Single, Dialog, Rest, CallsFit
<1> QED BY <1>1, WalletInvAlways, PTL

\* Whatever order creations, imports, switches, removals and late answers come
\* in, what the page shows is what a reload of the page would show.
THEOREM PageShowsStorage == Spec => []StorageIsShown
<1>1. WalletInv => StorageIsShown
  BY DEF WalletInv, Store
<1> QED BY <1>1, WalletInvAlways, PTL

\* saveWallet and removeWallet, which rewrite the whole list, lose no wallet that
\* the user did not remove.
THEOREM NoWalletIsLost == Spec => []WalletsAreKept
<1>1. WalletInv => WalletsAreKept
  BY DEF WalletInv, Kept
<1> QED BY <1>1, WalletInvAlways, PTL

\* A name that an answer brings is stored with the wallet it belongs to, however
\* late the answer is.
THEOREM NamesStayWithTheirWallet == Spec => []NamesAreTheirs
<1>1. WalletInv => NamesAreTheirs
  BY DEF WalletInv, Store
<1> QED BY <1>1, WalletInvAlways, PTL

\* Of the wallets the user removed only one whose name a late answer brought is
\* in the list again.
THEOREM RemovedStaysAway == Spec => []RevivedOnlyByName
<1>1. WalletInv => RevivedOnlyByName
  BY DEF WalletInv, Kept
<1> QED BY <1>1, WalletInvAlways, PTL

-----------------------------------------------------------------------------
(* The key and the wallet it belongs to *)

\* Steps of which the key and the wallet in use are no part
LEMMA KeyRests ==
  ASSUME KeyIsOfWallet, UNCHANGED <<privateKey, stored>>
  PROVE  KeyIsOfWallet'
BY DEF KeyIsOfWallet

\* What the user does leaves the two alone or locks the wallet.
LEMMA UserKeepsKey ==
  ASSUME KeyIsOfWallet, User
  PROVE  KeyIsOfWallet'
<1>1. ASSUME privateKey' = None PROVE KeyIsOfWallet'
  BY <1>1 DEF KeyIsOfWallet
<1>2. ASSUME NEW kind, OpenModal(kind) \/ SwitchModal(kind) PROVE KeyIsOfWallet'
  BY <1>2, KeyRests DEF OpenModal, SwitchModal, context
<1>3. ASSUME CloseModal \/ StartUnlock \/ StartRegister PROVE KeyIsOfWallet'
  BY <1>3, KeyRests DEF CloseModal, StartUnlock, StartRegister, context
<1>4. ASSUME NEW w, ConfirmBackup(w) \/ StartCreate(w) \/ StartImport(w)
      PROVE  KeyIsOfWallet'
  BY <1>4, KeyRests DEF ConfirmBackup, StartCreate, StartImport, context
<1>5. ASSUME Lock \/ RemoveCurrent \/ Reload PROVE KeyIsOfWallet'
  BY <1>1, <1>5 DEF Lock, RemoveCurrent, RemoveWalletFn, Reload
<1>6. ASSUME NEW a, SwitchWallet(a) PROVE KeyIsOfWallet'
  BY <1>1, <1>6 DEF SwitchWallet
<1> QED BY <1>2, <1>3, <1>4, <1>5, <1>6 DEF User

\* A new wallet is in use with its own key.
LEMMA NewWalletKeepsKey ==
  ASSUME WalletInv, NEW c \in calls, CreateDone(c) \/ ImportDone(c)
  PROVE  KeyIsOfWallet'
<1> DEFINE wallet == [address |-> c.w, name |-> None]
<1>1. stored' = wallet /\ privateKey' = c.w
  BY DEF CreateDone, ImportDone, SetStored
<1>2. c.w \in Wallet
  BY DEF WalletInv, CallsFit, KeyFits, CreateDone, ImportDone
<1>3. wallet \in StoredWallet /\ wallet.address = c.w
  BY <1>2 DEF StoredWallet, Opt
<1> QED BY <1>1, <1>3, WalletAssumption DEF KeyIsOfWallet

\* An unlocked key of the wallet in use
LEMMA UnlockKeepsKey ==
  ASSUME WalletInv, NEW c \in calls, UnlockDone(c), stored # None,
         stored.address = c.st.address
  PROVE  KeyIsOfWallet'
BY DEF UnlockDone, KeyIsOfWallet

\* An answer of the node brings no name, or a name for the wallet in use.
LEMMA RefreshKeepsKey ==
  ASSUME WalletInv, KeyIsOfWallet, NEW c \in calls, NEW name, RefreshDone(c, name),
         NameIsNew(c, name) => stored # None /\ stored.address = c.st.address
  PROVE  KeyIsOfWallet'
<1>1. privateKey' = privateKey
  BY DEF RefreshDone
<1>2. CASE ~ NameIsNew(c, name)
  <2>1. UNCHANGED stored
    BY <1>2 DEF RefreshDone
  <2> QED BY <1>1, <2>1, KeyRests
<1>3. CASE NameIsNew(c, name)
  <2>1. stored' = [c.st EXCEPT !.name = name]
    BY <1>3 DEF RefreshDone, SetStored, Renamed
  <2>2. c.st \in StoredWallet
    <3>1. c \in CallType /\ c.op = "refresh" /\ c.st # None
      BY DEF RefreshDone, WalletInv, CallsFit, KeyFits
    <3> QED BY <3>1 DEF CallType, Opt
  <2>3. name \in Opt(Wallet)
    <3>1. c.st.address \in Wallet
      BY <2>2 DEF StoredWallet
    <3> QED BY <3>1 DEF RefreshDone, AccountNames, Opt
  <2>4. stored' \in StoredWallet /\ stored'.address = c.st.address
    BY <2>1, <2>2, <2>3 DEF StoredWallet
  <2> QED BY <1>1, <1>3, <2>4, WalletAssumption DEF KeyIsOfWallet
<1> QED BY <1>2, <1>3

\* A step that takes the key apart from its wallet is a late answer.
LEMMA StrayStep ==
  ASSUME WalletInv, KeyIsOfWallet, [Next]_vars, ~ KeyIsOfWallet'
  PROVE  LateAnswer
<1>1. ~ UNCHANGED vars
  BY KeyRests DEF vars, context
<1>2. ~ User
  BY UserKeepsKey
<1>3. ~ TimerRefresh
  BY KeyRests DEF TimerRefresh, context
<1>4. Resume
  BY <1>1, <1>2, <1>3 DEF Next
<1>5. ASSUME NEW c \in calls PROVE ~ (RegisterDone(c) \/ CallFails(c))
  BY KeyRests DEF RegisterDone, CallFails, context
<1>6. ASSUME NEW c \in calls PROVE ~ (CreateDone(c) \/ ImportDone(c))
  BY NewWalletKeepsKey
<1>7. ASSUME NEW c \in calls, UnlockDone(c) PROVE LateAnswer
  <2>1. stored = None \/ stored.address # c.st.address
    BY <1>7, UnlockKeepsKey
  <2>2. c.op = "unlock"
    BY <1>7 DEF UnlockDone
  <2> QED BY <1>7, <2>1, <2>2 DEF LateAnswer
<1>8. ASSUME NEW c \in calls, NEW name \in Opt(Wallet), RefreshDone(c, name)
      PROVE  LateAnswer
  <2>1. NameIsNew(c, name) /\ (stored = None \/ stored.address # c.st.address)
    BY <1>8, RefreshKeepsKey
  <2>2. c.op = "refresh"
    BY <1>8 DEF RefreshDone
  <2> QED BY <1>8, <2>1, <2>2 DEF LateAnswer
<1> QED BY <1>4, <1>5, <1>6, <1>7, <1>8 DEF Resume

\* Whatever the order of creations, imports, switches, removals and answers, only an
\* unlock or a name that arrives for a wallet no longer in use parts the key in
\* memory from the wallet in use.
THEOREM KeyStraysByLateAnswer == Spec => KeyStraysOnlyByLateAnswer
<1>1. WalletInv /\ [Next]_vars => [KeyIsOfWallet /\ ~ KeyIsOfWallet' => LateAnswer]_vars
  BY StrayStep
<1>2. Spec => [][KeyIsOfWallet /\ ~ KeyIsOfWallet' => LateAnswer]_vars
  BY <1>1, WalletInvAlways, PTL DEF Spec
<1> QED BY <1>2 DEF KeyStraysOnlyByLateAnswer

\* The key in memory is always that of the wallet in use in a run without such late
\* answers: a handler that compared its wallet with the one in use before it stores
\* what it got would be enough.
THEOREM KeyStaysWithoutLateAnswers == Spec /\ [][~ LateAnswer]_vars => []KeyIsOfWallet
<1>1. Init => KeyIsOfWallet
  BY DEF Init, KeyIsOfWallet
<1>2. WalletInv /\ KeyIsOfWallet /\ [Next]_vars /\ [~ LateAnswer]_vars => KeyIsOfWallet'
  <2> SUFFICES ASSUME WalletInv, KeyIsOfWallet, [Next]_vars, [~ LateAnswer]_vars
               PROVE  KeyIsOfWallet'
    OBVIOUS
  <2>1. CASE UNCHANGED vars
    BY <2>1, KeyRests DEF vars, context
  <2>2. CASE ~ LateAnswer
    BY <2>2, StrayStep
  <2> QED BY <2>1, <2>2
<1> QED BY <1>1, <1>2, WalletInvAlways, PTL DEF Spec

-----------------------------------------------------------------------------
(* The screen with a new key.  While a dialog waits for a key or shows it, a *)
(* handler that is going to call onClose was there before.                  *)

AskedOrShown == modal.kind \in {"create", "backup"} /\ modal.wait # None

ClosersAreEarlier == AskedOrShown /\ CloserWaits => overlapped

\* No step starts an unlock or an import beside such a dialog, and handlers that
\* resume leave none behind.
LEMMA CloserStep ==
  ASSUME WalletInv, ClosersAreEarlier, [Next]_vars
  PROVE  ClosersAreEarlier'
<1>1. ASSUME ~ AskedOrShown' PROVE ClosersAreEarlier'
  BY <1>1 DEF ClosersAreEarlier
<1>2. ASSUME AskedOrShown' => AskedOrShown, UNCHANGED overlapped,
             \A d \in calls' : d \in calls \/ d.op \notin {"unlock", "import"}
      PROVE  ClosersAreEarlier'
  BY <1>2 DEF ClosersAreEarlier, CloserWaits
<1>3. \A kind : ~ (Modal(kind, None).kind \in {"create", "backup"} /\ Modal(kind, None).wait # None)
  BY DEF Modal
<1>4. Closed.kind = "none"
  BY DEF Closed, Modal
<1>5. CASE UNCHANGED vars
  BY <1>2, <1>5 DEF vars, history, AskedOrShown
<1>6. ASSUME NEW kind, OpenModal(kind) \/ SwitchModal(kind) PROVE ClosersAreEarlier'
  BY <1>1, <1>3, <1>6 DEF OpenModal, SwitchModal, AskedOrShown
<1>7. ASSUME NEW w, CloseModal \/ ConfirmBackup(w) \/ RemoveCurrent \/ Reload
      PROVE  ClosersAreEarlier'
  BY <1>1, <1>4, <1>7 DEF CloseModal, ConfirmBackup, RemoveCurrent, Reload, AskedOrShown
<1>8. ASSUME NEW c, ImportDone(c) \/ UnlockDone(c) PROVE ClosersAreEarlier'
  BY <1>1, <1>4, <1>8 DEF ImportDone, UnlockDone, AskedOrShown
<1>9. ASSUME NEW w \in Wallet, StartCreate(w) PROVE ClosersAreEarlier'
  <2>1. overlapped' = CloserWaits /\ calls' = calls \cup {Call("create", None, w)}
    BY <1>9 DEF StartCreate
  <2>2. Call("create", None, w).op = "create"
    BY DEF Call
  <2>3. CloserWaits' => CloserWaits
    BY <2>1, <2>2 DEF CloserWaits
  <2> QED BY <2>1, <2>3 DEF ClosersAreEarlier
<1>10. ASSUME NEW w, StartImport(w) \/ StartUnlock \/ StartRegister \/ Lock \/ SwitchWallet(w)
       PROVE  ClosersAreEarlier'
  <2>1. modal'.kind \notin {"create", "backup"}
    BY <1>4, <1>10 DEF StartImport, StartUnlock, StartRegister, Lock, SwitchWallet, Modal
  <2> QED BY <1>1, <2>1 DEF AskedOrShown
<1>11. CASE TimerRefresh
  BY <1>2, <1>11 DEF TimerRefresh, Refresh, Call, history, AskedOrShown
<1>12. ASSUME NEW c \in calls, CreateDone(c) PROVE ClosersAreEarlier'
  <2>1. AskedOrShown' => AskedOrShown
    BY <1>12 DEF CreateDone, AskedOrShown, Modal
  <2>2. UNCHANGED overlapped /\ \A d \in calls' : d \in calls \/ d.op = "refresh"
    BY <1>12 DEF CreateDone, SetStored, Refresh, Call
  <2> QED BY <1>2, <2>1, <2>2
<1>13. ASSUME NEW c \in calls, RegisterDone(c) \/ CallFails(c) PROVE ClosersAreEarlier'
  <2>1. AskedOrShown' => AskedOrShown
    BY <1>13 DEF RegisterDone, CallFails, ModalAfterError, AskedOrShown, WalletInv, Dialog
  <2>2. UNCHANGED overlapped /\ \A d \in calls' : d \in calls \/ d.op = "refresh"
    BY <1>13 DEF RegisterDone, CallFails, Refresh, Call, history
  <2> QED BY <1>2, <2>1, <2>2
<1>14. ASSUME NEW c \in calls, NEW name, RefreshDone(c, name) PROVE ClosersAreEarlier'
  <2>1. UNCHANGED <<modal, overlapped>>
    BY <1>14 DEF RefreshDone, history
  <2>2. \A d \in calls' : d \in calls \/ d.op = "refresh"
    BY <1>14 DEF RefreshDone, SetStored, Refresh, Call
  <2> QED BY <1>2, <2>1, <2>2 DEF AskedOrShown
<1>15. CASE User
  BY <1>6, <1>7, <1>9, <1>10, <1>15 DEF User
<1>16. CASE Resume
  BY <1>8, <1>12, <1>13, <1>14, <1>16 DEF Resume
<1> QED BY <1>5, <1>11, <1>15, <1>16 DEF Next

\* A step that takes a key from the screen
LEMMA HidingStep ==
  ASSUME WalletInv, ClosersAreEarlier, [Next]_vars, NEW w \in Wallet,
         BackupShown(w), ~ BackupShown(w)'
  PROVE  ConfirmBackup(w) \/ Reload \/ overlapped
<1>1. /\ modal = Modal("backup", w) /\ modal' # modal
      /\ modal.kind = "backup" /\ modal.wait = w /\ modal # Closed /\ w # None
  BY NoneIsNoWallet DEF BackupShown, Modal, Closed
<1>2. ASSUME NEW c \in calls, ImportDone(c) \/ UnlockDone(c) PROVE overlapped
  BY <1>1, <1>2 DEF ImportDone, UnlockDone, CloserWaits, AskedOrShown, ClosersAreEarlier
<1>3. ASSUME NEW c \in calls PROVE ~ (CreateDone(c) \/ RegisterDone(c) \/ CallFails(c))
  <2>1. c.w # w
    BY DEF WalletInv, Dialog, ShownIsNew
  <2> QED BY <1>1, <2>1 DEF CreateDone, RegisterDone, CallFails, ModalAfterError, Modal
<1>4. ASSUME NEW c, NEW name PROVE ~ RefreshDone(c, name)
  BY <1>1 DEF RefreshDone
<1>5. CASE Resume
  BY <1>2, <1>3, <1>4, <1>5 DEF Resume
<1>6. ASSUME NEW v, ConfirmBackup(v) PROVE ConfirmBackup(w)
  <2>1. v = w
    BY <1>1, <1>6 DEF ConfirmBackup, BackupShown, Modal
  <2> QED BY <1>6, <2>1
<1>7. ASSUME NEW v
      PROVE  ~ (StartCreate(v) \/ StartImport(v) \/ SwitchWallet(v) \/ OpenModal(v)
                \/ SwitchModal(v))
  BY <1>1 DEF StartCreate, StartImport, SwitchWallet, OpenModal, SwitchModal, Modal
<1>8. ~ (CloseModal \/ StartUnlock \/ StartRegister \/ Lock \/ RemoveCurrent)
  BY <1>1 DEF CloseModal, StartUnlock, StartRegister, Lock, RemoveCurrent, Modal
<1>9. CASE User
  BY <1>6, <1>7, <1>8, <1>9 DEF User
<1>10. ~ (UNCHANGED vars \/ TimerRefresh)
  BY <1>1 DEF vars, TimerRefresh
<1> QED BY <1>5, <1>9, <1>10 DEF Next

\* Handlers that wait beside a dialog with a key were there before it in every state.
LEMMA ClosersAreEarlierAlways == Spec => []ClosersAreEarlier
<1>1. Init => ClosersAreEarlier
  BY DEF Init, ClosersAreEarlier, AskedOrShown, Closed, Modal
<1>2. WalletInv /\ ClosersAreEarlier /\ [Next]_vars => ClosersAreEarlier'
  BY CloserStep
<1> QED BY <1>1, <1>2, WalletInvAlways, PTL DEF Spec

\* The only display of a new key ends when the user confirms it or leaves the page;
\* otherwise only by the onClose of a handler that was waiting when the creation
\* of the key was started (CreateWalletModal, handleUnlock, handleImport).
THEOREM NewKeyHiddenByEarlierHandler == Spec => KeyHiddenOnlyByEarlierHandler
<1> DEFINE Stays == \A w \in Wallet : BackupShown(w) /\ ~ BackupShown(w)' =>
                       ConfirmBackup(w) \/ Reload \/ overlapped
<1>1. WalletInv /\ ClosersAreEarlier /\ [Next]_vars => [Stays]_vars
  BY HidingStep
<1>2. Spec => [][Stays]_vars
  BY <1>1, WalletInvAlways, ClosersAreEarlierAlways, PTL DEF Spec
<1> QED BY <1>2 DEF KeyHiddenOnlyByEarlierHandler

\* A creation that is started while an unlock or an import waits
OverlappingStart == CloserWaits /\ \E w \in Wallet : StartCreate(w)

\* Where no creation is started while an unlock or an import waits, nothing but the
\* user takes a new key from the screen: it would be enough that the button of
\* CreateWalletModal, or the dialog, waits for them.
THEOREM KeyStaysWithoutOverlap ==
  Spec /\ [][~ OverlappingStart]_vars
    => [][\A w \in Wallet : BackupShown(w) /\ ~ BackupShown(w)' =>
             ConfirmBackup(w) \/ Reload]_vars
<1> DEFINE Stays == \A w \in Wallet : BackupShown(w) /\ ~ BackupShown(w)' =>
                       ConfirmBackup(w) \/ Reload
<1>1. Init => overlapped = FALSE
  BY DEF Init
<1>2. overlapped = FALSE /\ [Next]_vars /\ [~ OverlappingStart]_vars => (overlapped = FALSE)'
  <2> SUFFICES ASSUME overlapped = FALSE, [Next]_vars, [~ OverlappingStart]_vars
               PROVE  overlapped' = FALSE
    OBVIOUS
  <2>1. CASE UNCHANGED vars
    BY <2>1 DEF vars, history
  <2>2. ASSUME NEW w \in Wallet, StartCreate(w) PROVE overlapped' = FALSE
    <3>1. CASE UNCHANGED vars
      BY <3>1, <2>1
    <3>2. CASE ~ OverlappingStart
      <4>1. ~ CloserWaits
        BY <2>2, <3>2 DEF OverlappingStart
      <4> QED BY <2>2, <4>1 DEF StartCreate
    <3> QED BY <3>1, <3>2
  <2>3. ASSUME NEW v, \/ OpenModal(v) \/ SwitchModal(v) \/ CloseModal \/ ConfirmBackup(v)
                      \/ StartImport(v) \/ StartUnlock \/ StartRegister \/ Lock
                      \/ SwitchWallet(v) \/ RemoveCurrent \/ Reload \/ TimerRefresh
        PROVE  overlapped' = FALSE
    BY <2>3 DEF OpenModal, SwitchModal, CloseModal, ConfirmBackup, StartImport, StartUnlock,
       StartRegister, Lock, SwitchWallet, RemoveCurrent, Reload, TimerRefresh, history
  <2>4. ASSUME NEW c, \/ CreateDone(c) \/ ImportDone(c) \/ UnlockDone(c) \/ RegisterDone(c)
                      \/ CallFails(c) \/ \E name : RefreshDone(c, name)
        PROVE  overlapped' = FALSE
    BY <2>4 DEF CreateDone, ImportDone, UnlockDone, RegisterDone, CallFails, RefreshDone, history
  <2>5. CASE User
    BY <2>2, <2>3, <2>5 DEF User
  <2>6. CASE Resume
    BY <2>4, <2>6 DEF Resume
  <2> QED BY <2>1, <2>3, <2>5, <2>6 DEF Next
<1>3. WalletInv /\ ClosersAreEarlier /\ overlapped = FALSE /\ [Next]_vars => [Stays]_vars
  BY HidingStep
<1> QED BY <1>1, <1>2, <1>3, WalletInvAlways, ClosersAreEarlierAlways, PTL DEF Spec
=============================================================================
