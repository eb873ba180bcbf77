------------------------------- MODULE Wallet -------------------------------
(***************************************************************************)
(* The wallets of the web application: what is kept in localStorage         *)
(* (wallet/storage.ts), the state of the React context                      *)
(* (wallet/WalletContext.tsx) and the dialogs through which a user gets at  *)
(* both (wallet/WalletModals.tsx, opened by components/TopBar.tsx).         *)
(*                                                                         *)
(* JavaScript runs one handler at a time, but a handler that awaits a key   *)
(* derivation or an answer of the node goes on later, with the values of    *)
(* the render it was started in.  Such a handler is a record in calls that  *)
(* carries these values; everything else may happen before it resumes.     *)
(*                                                                         *)
(* A wallet is one key pair: the private key, the public key and the        *)
(* address of a wallet w are all written w, since each determines the       *)
(* others (crypto.ts).  A name belongs to one address for ever, so the name *)
(* of w is written w too.  Of an amount only the account it was read from   *)
(* is kept.                                                                 *)
(***************************************************************************)
EXTENDS Naturals, Sequences, FiniteSets, Lists

CONSTANTS
    Wallet,        \* the key pairs
    None,          \* JavaScript's null, an empty name, an amount of zero
    Named,         \* the wallets whose account had a name from the start
    MaxCalls       \* bound: handlers that wait at the same time

Opt(S) == S \cup {None}

StoredWallet == [address : Wallet, name : Opt(Wallet)]

ASSUME WalletAssumption == /\ IsFiniteSet(Wallet) /\ None \notin Wallet \cup StoredWallet
                           /\ Named \subseteq Wallet /\ MaxCalls \in Nat

VARIABLES
    drana_wallets,         \* localStorage: the list of wallets
    drana_active_wallet,   \* localStorage: the address in use
    stored,                \* the wallet in use, as rendered
    allWallets,            \* the list of wallets, as rendered
    privateKey,            \* the decrypted key, None while locked
    balance,               \* balance and stakedBalance
    postStakeBalance,
    modal,                 \* the dialog that is open and what it waits for
    calls,                 \* handlers that wait for an answer
    names,                 \* the node: the accounts that have a name
    backup,                \* history: whether the user has a copy of a key
    overlapped,            \* history: see StartCreate
    removed                \* history: wallets the user removed

storage == <<drana_wallets, drana_active_wallet>>
context == <<stored, allWallets, privateKey>>
amounts == <<balance, postStakeBalance>>
history == <<backup, overlapped, removed>>
vars == <<storage, context, amounts, modal, calls, names, history>>

-----------------------------------------------------------------------------
(* wallet/storage.ts *)

Addresses(ws) == {ws[i].address : i \in DOMAIN ws}

Find(ws, a) == ws[CHOOSE i \in DOMAIN ws : ws[i].address = a]

\* The active wallet, else the first one.
LoadActiveWallet(ws, active) ==
    IF active = None \/ ws = << >> THEN None
    ELSE IF active \in Addresses(ws) THEN Find(ws, active) ELSE ws[1]

\* Mistake: an imported wallet that is there already is listed twice.
SaveWalletAppends(ws, w) == Append(ws, w)

\* Mistake: only one wallet is kept, as in the old format.
SaveWalletSingle(ws, w) == <<w>>

\* Replaces the entry of the address or appends one.
SaveWallet(ws, w) ==
    IF w.address \in Addresses(ws)
      THEN [i \in DOMAIN ws |-> IF ws[i].address = w.address THEN w ELSE ws[i]]
      ELSE Append(ws, w)

RemoveWallet(ws, a) == Filter(ws, {w \in StoredWallet : w.address # a})

\* The address in use after removing a: the first of the wallets that are left.
ActiveAfterRemove(left, active, a) ==
    IF active # a THEN active ELSE IF left = << >> THEN None ELSE left[1].address

-----------------------------------------------------------------------------
(* Handlers that wait.  st is the wallet in use in the render that started   *)
(* the handler; w is the key a creation or an import is about.               *)

Call(op, st, w) == [op |-> op, st |-> st, w |-> w]

\* refreshBalance waits for getAccount.
Refresh(st) == IF st = None THEN {} ELSE {Call("refresh", st, None)}

CallType ==
    [op : {"create", "import", "unlock", "register", "refresh"},
     st : Opt(StoredWallet), w : Opt(Wallet)]

Modal(kind, wait) == [kind |-> kind, wait |-> wait]
Closed == Modal("none", None)

\* The dialog that waits for c, if it is still there, shows the error and can be
\* used again.
ModalAfterError(c) ==
    IF c.w # None /\ modal.wait = c.w THEN [modal EXCEPT !.wait = None] ELSE modal

\* The key is shown by a dialog that the user cannot close before confirming it.
BackupShown(w) == modal = Modal("backup", w)

\* An unlock or an import is waiting and will call onClose, which closes whatever
\* dialog is open by then.
CloserWaits == \E c \in calls : c.op \in {"unlock", "import"}

TypeOK ==
    /\ drana_wallets \in Seq(StoredWallet)
    /\ \A i, j \in DOMAIN drana_wallets :
          drana_wallets[i].address = drana_wallets[j].address => i = j
    /\ drana_active_wallet \in Opt(Wallet)
    /\ stored \in Opt(StoredWallet)
    /\ allWallets \in Seq(StoredWallet)
    /\ privateKey \in Opt(Wallet)
    /\ balance \in Opt(Wallet) /\ postStakeBalance \in Opt(Wallet)
    /\ modal \in [kind : {"none", "create", "backup", "unlock", "import",
                          "register-name"}, wait : Opt(Wallet)]
    /\ calls \subseteq CallType
    /\ names \subseteq Wallet
    /\ backup \in [Wallet -> {"none", "due", "safe"}]
    /\ overlapped \in BOOLEAN
    /\ removed \subseteq Wallet

\* The page is opened: the wallet of the old single-wallet format, if there is
\* one, becomes the list; otherwise there is none.
Init ==
    /\ \E legacy \in Opt([address : Wallet, name : {None}]) :
         /\ drana_wallets = IF legacy = None THEN << >> ELSE <<legacy>>
         /\ drana_active_wallet = IF legacy = None THEN None ELSE legacy.address
         /\ backup = [w \in Wallet |->
              IF legacy # None /\ w = legacy.address THEN "safe" ELSE "none"]
    /\ stored = LoadActiveWallet(drana_wallets, drana_active_wallet)
    /\ allWallets = drana_wallets
    /\ privateKey = None
    /\ balance = None /\ postStakeBalance = None
    /\ modal = Closed
    /\ calls = Refresh(stored)
    /\ names = Named
    /\ overlapped = FALSE
    /\ removed = {}

\* setStored: a new object makes a new refreshBalance, which an effect runs.
SetStored(st, others) ==
    /\ stored' = st
    /\ calls' = others \cup Refresh(st)
    /\ Cardinality(calls') <= MaxCalls

\* Mistake: no reloadWallets.
SetStorageQuietly(ws, active) ==
    /\ drana_wallets' = ws
    /\ drana_active_wallet' = active
    /\ UNCHANGED allWallets

\* A write to localStorage with reloadWallets after it
SetStorage(ws, active) ==
    /\ drana_wallets' = ws
    /\ drana_active_wallet' = active
    /\ allWallets' = ws

-----------------------------------------------------------------------------
(* The top bar and the dialogs.  An open dialog covers the page.             *)

OpenModal(kind) ==
    /\ modal = Closed
    /\ CASE kind = "unlock"        -> stored # None /\ privateKey = None
         [] kind = "register-name" -> privateKey # None
         [] OTHER                  -> TRUE
    /\ modal' = Modal(kind, None)
    /\ UNCHANGED <<storage, context, amounts, calls, names, history>>

\* "Forgot password?" leads from the unlock dialog to the other two.
SwitchModal(kind) ==
    /\ modal.kind = "unlock"
    /\ modal' = Modal(kind, None)
    /\ UNCHANGED <<storage, context, amounts, calls, names, history>>

\* Escape, a click beside the dialog, or its close button.  The dialog that
\* shows the key has no way out but its confirmation.
CloseModal ==
    /\ modal # Closed /\ modal.kind # "backup"
    /\ modal' = Closed
    /\ overlapped' = FALSE
    /\ UNCHANGED <<storage, context, amounts, calls, names, backup, removed>>

\* "I've Saved My Key"
ConfirmBackup(w) ==
    /\ BackupShown(w)
    /\ backup' = [backup EXCEPT ![w] = "safe"]
    /\ modal' = Closed
    /\ overlapped' = FALSE
    /\ UNCHANGED <<storage, context, amounts, calls, names, removed>>

\* handleCreate, up to the encryption of a key that did not exist before.
\* overlapped says of the dialog that asks for the key, and then shows it, that
\* a handler of another dialog was waiting already.
StartCreate(w) ==
    /\ modal = Modal("create", None)
    /\ backup[w] = "none"
    /\ \A c \in calls : c.w # w
    /\ Cardinality(calls) < MaxCalls
    /\ modal' = Modal("create", w)
    /\ calls' = calls \cup {Call("create", None, w)}
    /\ overlapped' = CloserWaits
    /\ UNCHANGED <<storage, context, amounts, names, backup, removed>>

\* handleImport, with a key the user has a copy of
StartImport(w) ==
    /\ modal = Modal("import", None)
    /\ backup[w] \in {"none", "safe"}
    /\ \A c \in calls : c.w # w
    /\ Cardinality(calls) < MaxCalls
    /\ modal' = Modal("import", w)
    /\ calls' = calls \cup {Call("import", stored, w)}
    /\ UNCHANGED <<storage, context, amounts, names, history>>

\* handleUnlock; the Enter key starts it whether or not one is running
StartUnlock ==
    /\ modal.kind = "unlock"
    /\ stored # None
    /\ Cardinality(calls) < MaxCalls
    /\ calls' = calls \cup {Call("unlock", stored, None)}
    /\ UNCHANGED <<storage, context, amounts, modal, names, history>>

\* handleRegister and signAndSubmit up to the answer of the node: the key and
\* the address are those of the render; w is the key that signs
StartRegister ==
    /\ modal = Modal("register-name", None)
    /\ balance # None /\ stored # None /\ stored.name = None
    /\ privateKey # None
    /\ Cardinality(calls) < MaxCalls
    /\ modal' = Modal("register-name", privateKey)
    /\ calls' = calls \cup {Call("register", stored, privateKey)}
    /\ UNCHANGED <<storage, context, amounts, names, history>>

Lock ==
    /\ modal = Closed
    /\ privateKey # None
    /\ privateKey' = None
    /\ UNCHANGED <<storage, stored, allWallets, amounts, modal, calls, names,
                   history>>

\* Mistake: the key of the wallet in use stays in memory.
SwitchWalletUnlocked(a) ==
    /\ modal.kind \in {"none", "unlock"}
    /\ a \in Addresses(allWallets)
    /\ stored # None => a # stored.address
    /\ drana_active_wallet' = a
    /\ SetStored(IF a \in Addresses(drana_wallets) THEN Find(drana_wallets, a)
                 ELSE None, calls)
    /\ balance' = None
    /\ UNCHANGED <<drana_wallets, allWallets, privateKey, postStakeBalance, modal,
                   names, history>>

\* From the list in the drop-down or in the unlock dialog.  The post stake
\* keeps its value.
SwitchWallet(a) ==
    /\ modal.kind \in {"none", "unlock"}
    /\ a \in Addresses(allWallets)
    /\ stored # None => a # stored.address
    /\ privateKey' = None
    /\ drana_active_wallet' = a
    /\ SetStored(IF a \in Addresses(drana_wallets) THEN Find(drana_wallets, a)
                 ELSE None, calls)
    /\ balance' = None
    /\ UNCHANGED <<drana_wallets, allWallets, postStakeBalance, modal, names,
                   history>>

RemoveWalletFn(a) ==
    LET left == RemoveWallet(drana_wallets, a)
    IN  /\ SetStorage(left, ActiveAfterRemove(left, drana_active_wallet, a))
        /\ SetStored(IF left = << >> THEN None ELSE left[1], calls)
        /\ privateKey' = None

\* handleRemove: the dialog asks for the address of the wallet in use
RemoveCurrent ==
    /\ modal.kind = "unlock"
    /\ stored # None
    /\ RemoveWalletFn(stored.address)
    /\ removed' = removed \cup {stored.address}
    /\ modal' = Closed
    /\ UNCHANGED <<amounts, names, backup, overlapped>>

-----------------------------------------------------------------------------
(* Handlers resume.                                                         *)

\* Mistake: the key is shown over whatever dialog is open by then.
CreateDoneAnyDialog(c) ==
    /\ c \in calls /\ c.op = "create"
    /\ LET wallet == [address |-> c.w, name |-> None]
       IN  /\ SetStorage(SaveWallet(drana_wallets, wallet), c.w)
           /\ SetStored(wallet, calls \ {c})
    /\ modal' = Modal("backup", c.w)
    /\ backup' = [backup EXCEPT ![c.w] = "due"]
    /\ privateKey' = c.w
    /\ removed' = removed \ {c.w}
    /\ UNCHANGED <<amounts, names, overlapped>>

\* createWallet and the rest of handleCreate: the key is shown by the dialog
\* that asked for it, if that is still there, and never otherwise
CreateDone(c) ==
    /\ c \in calls /\ c.op = "create"
    /\ LET wallet == [address |-> c.w, name |-> None]
       IN  /\ SetStorage(SaveWallet(drana_wallets, wallet), c.w)
           /\ SetStored(wallet, calls \ {c})
    /\ modal' = IF modal = Modal("create", c.w) THEN Modal("backup", c.w) ELSE modal
    /\ backup' = [backup EXCEPT ![c.w] = "due"]
    /\ privateKey' = c.w
    /\ removed' = removed \ {c.w}
    /\ UNCHANGED <<amounts, names, overlapped>>

\* importWallet and the rest of handleImport; refreshBalance is the one of the
\* render that started the import, and onClose closes whatever is open
ImportDone(c) ==
    /\ c \in calls /\ c.op = "import"
    /\ LET wallet == [address |-> c.w, name |-> None]
       IN  /\ SetStorage(SaveWallet(drana_wallets, wallet), c.w)
           /\ SetStored(wallet, (calls \ {c}) \cup Refresh(c.st))
    /\ privateKey' = c.w
    /\ modal' = Closed
    /\ overlapped' = FALSE
    /\ backup' = [backup EXCEPT ![c.w] = "safe"]
    /\ removed' = removed \ {c.w}
    /\ UNCHANGED <<amounts, names>>

\* unlock and the rest of handleUnlock
UnlockDone(c) ==
    /\ c \in calls /\ c.op = "unlock"
    /\ privateKey' = c.st.address
    /\ calls' = (calls \ {c}) \cup Refresh(c.st)
    /\ modal' = Closed
    /\ overlapped' = FALSE
    /\ UNCHANGED <<storage, stored, allWallets, amounts, names, backup, removed>>

\* The node checks the signature against the sender's key and takes the
\* transaction, which gives the account its name, or refuses it.  That the name
\* is registered by a later block is left to AccountNames.
RegisterDone(c) ==
    /\ c \in calls /\ c.op = "register"
    /\ \/ /\ c.w = c.st.address
          /\ names' = names \cup {c.w}
          /\ calls' = (calls \ {c}) \cup Refresh(c.st)
          /\ UNCHANGED modal
       \/ /\ calls' = calls \ {c}
          /\ modal' = ModalAfterError(c)
          /\ UNCHANGED names
    /\ UNCHANGED <<storage, context, amounts, history>>

\* Mistake: the timer stops while the wallet is locked.
TimerRefreshUnlocked ==
    /\ stored # None /\ privateKey # None
    /\ Cardinality(calls) < MaxCalls
    /\ ~ Refresh(stored) \subseteq calls
    /\ calls' = calls \cup Refresh(stored)
    /\ UNCHANGED <<storage, context, amounts, modal, names, history>>

\* The 15 second timer
TimerRefresh ==
    /\ stored # None
    /\ Cardinality(calls) < MaxCalls
    /\ ~ Refresh(stored) \subseteq calls
    /\ calls' = calls \cup Refresh(stored)
    /\ UNCHANGED <<storage, context, amounts, modal, names, history>>

\* What getAccount answers: the account's name, or none if the answer is older
\* than the block that registered it
AccountNames(w) == Opt({w} \cap names)

\* Mistake: the wallet is stored again after every answer without a name.
NameIsNewAlways(c, name) == name # c.st.name \/ name = None

\* Whether the answer brings a name that the wallet of the render has not
NameIsNew(c, name) == name # None /\ name # c.st.name

\* Mistake: the name goes to the wallet in use by now.
RenamedCurrent(c, name) ==
    [address |-> IF stored = None THEN c.st.address ELSE stored.address,
     name |-> name]

\* The wallet that refreshBalance stores: the one of its render
Renamed(c, name) == [c.st EXCEPT !.name = name]

\* refreshBalance after its await
RefreshDone(c, name) ==
    /\ c \in calls /\ c.op = "refresh"
    /\ name \in AccountNames(c.st.address)
    /\ balance' = c.st.address
    /\ postStakeBalance' = c.st.address
    /\ IF NameIsNew(c, name)
         THEN /\ SetStored(Renamed(c, name), calls \ {c})
              /\ SetStorage(SaveWallet(drana_wallets, Renamed(c, name)),
                            Renamed(c, name).address)
         ELSE /\ calls' = calls \ {c}
              /\ UNCHANGED <<storage, stored, allWallets>>
    /\ UNCHANGED <<privateKey, modal, names, history>>

\* A wrong password, an import that throws, or no answer from the node
CallFails(c) ==
    /\ c \in calls
    /\ c.op # "create"
    /\ calls' = calls \ {c}
    /\ modal' = ModalAfterError(c)
    \* the node may have taken a transaction whose answer is lost
    /\ \/ UNCHANGED names
       \/ /\ c.op = "register" /\ c.w = c.st.address
          /\ names' = names \cup {c.w}
    /\ UNCHANGED <<storage, context, amounts, history>>

-----------------------------------------------------------------------------
(* The page is left and opened again: what was awaited is lost.              *)

Reload ==
    /\ stored' = LoadActiveWallet(drana_wallets, drana_active_wallet)
    /\ allWallets' = drana_wallets
    /\ privateKey' = None
    /\ balance' = None /\ postStakeBalance' = None
    /\ modal' = Closed
    /\ calls' = Refresh(stored')
    /\ overlapped' = FALSE
    /\ UNCHANGED <<storage, names, backup, removed>>

User ==
    \/ \E kind \in {"create", "unlock", "import", "register-name"} : OpenModal(kind)
    \/ \E kind \in {"create", "import"} : SwitchModal(kind)
    \/ CloseModal
    \/ \E w \in Wallet : ConfirmBackup(w)
    \/ \E w \in Wallet : StartCreate(w)
    \/ \E w \in Wallet : StartImport(w)
    \/ StartUnlock
    \/ StartRegister
    \/ Lock
    \/ \E a \in Wallet : SwitchWallet(a)
    \/ RemoveCurrent
    \/ Reload

Resume ==
    \/ \E c \in calls : CreateDone(c)
    \/ \E c \in calls : ImportDone(c)
    \/ \E c \in calls : UnlockDone(c)
    \/ \E c \in calls : RegisterDone(c)
    \/ \E c \in calls, name \in Opt(Wallet) : RefreshDone(c, name)
    \/ \E c \in calls : CallFails(c)

Next ==
    \/ User
    \/ Resume
    \/ TimerRefresh

Spec == Init /\ [][Next]_vars

\* What is awaited ends, with or without success; the timer keeps running, and
\* again and again the node answers what it knows.
CurrentAnswered ==
    \E c \in calls : /\ c.op = "refresh" /\ c.st = stored
                     /\ \E name \in AccountNames(c.st.address) :
                           /\ c.st.address \in names => name # None
                           /\ RefreshDone(c, name)

Fairness ==
    WF_vars(Resume) /\ SF_vars(TimerRefresh) /\ SF_vars(CurrentAnswered)

FairSpec == Spec /\ Fairness

-----------------------------------------------------------------------------
(* Properties *)

\* Every writer of localStorage brings the rendered state up to date: after a
\* reload of the page (loadActiveWallet, loadAllWallets) the same wallet with
\* the same name is in use and the same list is offered.
StorageIsShown ==
    /\ stored = LoadActiveWallet(drana_wallets, drana_active_wallet)
    /\ allWallets = drana_wallets

\* saveWallet and removeWallet rewrite the whole list; no order of creations,
\* imports, refreshes and removals drops a wallet the user did not remove.
WalletsAreKept ==
    \A w \in Wallet : backup[w] # "none" =>
        w \in Addresses(drana_wallets) \cup removed

\* refreshBalance stores a name that the node gave for an address with the
\* wallet of that address, however often the wallet changed during the call.
NamesAreTheirs ==
    \A i \in DOMAIN drana_wallets :
        drana_wallets[i].name \in Opt({drana_wallets[i].address} \cap names)

\* A wallet the user removed comes back by itself in one case only: a
\* refreshBalance that was waiting when it was removed learns its name.
RevivedOnlyByName ==
    \A i \in DOMAIN drana_wallets :
        drana_wallets[i].address \in removed => drana_wallets[i].name # None

\* Balances of another wallet, which switchWallet and removeWallet leave in part
\* and an older refreshBalance brings back, do not stay, and a registered name
\* reaches the wallet in use: again and again the page shows the account of its
\* own wallet.
AccountArrives ==
    []<>(\/ stored = None
         \/ /\ balance = stored.address
            /\ postStakeBalance = stored.address
            /\ stored.address \in names => stored.name = stored.address)

\* The decrypted key in memory is the key of the wallet in use: whoever
\* switches has to enter the password of the new wallet.
KeyIsOfWallet == privateKey # None => stored # None /\ privateKey = stored.address

\* unlock or a refreshBalance that learns a name goes on after the wallet in use
\* has changed.
LateAnswer ==
    \E c \in {d \in calls : d.op \in {"unlock", "refresh"}} :
       /\ stored = None \/ stored.address # c.st.address
       /\ \/ UnlockDone(c)
          \/ \E name \in Opt(Wallet) : NameIsNew(c, name) /\ RefreshDone(c, name)

\* Nothing else takes the key apart from its wallet: creating, importing, switching,
\* removing, locking and answers that are in time keep the two together.
KeyStraysOnlyByLateAnswer ==
    [][KeyIsOfWallet /\ ~ KeyIsOfWallet' => LateAnswer]_vars

\* "Save this key now.  It will never be shown again."  A created key stays on the
\* screen until the user confirms or leaves the page, except in one case: the
\* onClose of an unlock or import that was waiting already when the creation was
\* started takes it away.  No dialog used before or after, and no handler
\* started later, does (CreateWalletModal, handleUnlock, handleImport).
KeyHiddenOnlyByEarlierHandler ==
    [][\A w \in Wallet : BackupShown(w) /\ ~ BackupShown(w)' =>
          ConfirmBackup(w) \/ Reload \/ overlapped]_vars
=============================================================================
