--------------------------- MODULE WalletManager ---------------------------
(***************************************************************************)
(* The wallet manager of the app: class AndroidCommands of                 *)
(* electrum_gui/android/console.py, the dictionary of open wallets of      *)
(* electrum/daemon.py and the three tables the manager keeps in the        *)
(* configuration file (all_wallet_type_info, derived_info, backupinfo).    *)
(*                                                                         *)
(* The screens of the app call the manager one call at a time.  A call     *)
(* makes several durable writes (wallet files, configuration); each write, *)
(* with the assignments up to the next one, is one step here, and the      *)
(* process can die between any two steps.                                  *)
(***************************************************************************)
EXTENDS Integers, FiniteSets

CONSTANTS
  Seeds,               \* mnemonics the app generates or the user imports
  Coins,               \* coins a wallet can be derived for
  Btc,                 \* the coin of the HD wallet itself
  RECOVERY_DERIVAT_NUM,\* accounts 0 .. RECOVERY_DERIVAT_NUM - 1 are managed
  Passwords,           \* passwords the user may type
  ImportNames,         \* addresses the user imports as a key or to watch
  NoName, NoWallet, NoPw, NoCheck, Attached

Accounts == 0 .. RECOVERY_DERIVAT_NUM - 1

\* A wallet file is named after the hash of its first address, which the
\* seed, the coin and the account determine.
Names == [seed : Seeds, coin : Coins, acct : Accounts]

ASSUME ConstantsAssumption ==
  /\ Btc \in Coins
  /\ RECOVERY_DERIVAT_NUM \in Nat \ {0}
  /\ ImportNames \subseteq Names
  /\ NoName \notin Names
  /\ NoPw \notin Passwords

KeyStores == {"seed", "priv", "watch"}
Wallet == [ks : KeyStores, pw : Passwords \cup {NoPw}]
ASSUME SentinelAssumption == NoWallet \notin Wallet /\ Attached \notin Wallet

\* check_pw_wallet: NoCheck, or an object.  While the object is the one the
\* daemon holds under its name it is Attached; afterwards it keeps its value.
CheckRef == [name : Names, obj : Wallet \cup {Attached}]
ASSUME CheckAssumption == NoCheck \notin CheckRef

Types == {"hd", "derived", "standard", "private", "watch"}
GroupTypes == {"hd", "derived"}      \* '-hd-' or '-derived-', never '-hw-'

VARIABLES
  files,       \* durable: wallet directory, name -> wallet or NoWallet
  info,        \* durable: all_wallet_type_info, name -> type or "none"
  derived,     \* durable: derived_info, <<seed, coin>> -> recorded accounts
  backup,      \* durable: backupinfo, wallets whose mnemonic is to be backed up
  running,     \* TRUE while the process lives
  wallets,     \* daemon._wallets
  hdWallet,    \* self.hd_wallet
  checkWallet, \* self.check_pw_wallet
  recovery,    \* self.recovery_wallets
  unsaved,     \* open wallets whose name another wallet's file has
  call,        \* the manager call in progress
  used,        \* history: seeds that exist (generated or typed in)
  unconfirmed  \* history: generated seeds the user has not proved to have

durable == <<files, info, derived, backup>>
volatile == <<wallets, hdWallet, checkWallet, recovery, unsaved>>
history == <<used, unconfirmed>>
vars == <<durable, running, volatile, call, history>>

PCs == {"idle", "encrypt", "register", "record", "flag", "scan",
        "awaitConfirm", "confirm", "confirmRecord", "confirmType",
        "forget", "unlink", "dropInfo", "rekey"}

Calls == [pc : PCs, name : Names \cup {NoName}, type : Types,
          ks : KeyStores, pw : Passwords \cup {NoPw},
          new : Passwords \cup {NoPw}, path : BOOLEAN, next : PCs,
          todo : SUBSET Names]

Idle == [pc |-> "idle", name |-> NoName, type |-> "standard", ks |-> "watch",
         pw |-> NoPw, new |-> NoPw, path |-> FALSE, next |-> "idle", todo |-> {}]

NoWallets == [n \in Names |-> NoWallet]
Keys == Seeds \X Coins
Key(n) == <<n.seed, n.coin>>
Present(f) == {n \in Names : f[n] # NoWallet}

\* list_wallets: the wallets of the directory with the type the table gives
Group == {n \in Names : info[n] \in GroupTypes}
NoGroupListed == \A n \in Group : files[n] = NoWallet

Init ==
  /\ files = NoWallets
  /\ info = [n \in Names |-> "none"]
  /\ derived = [k \in Keys |-> {}]
  /\ backup = {}
  /\ running = FALSE
  /\ wallets = NoWallets
  /\ hdWallet = NoName
  /\ checkWallet = NoCheck
  /\ recovery = NoWallets
  /\ unsaved = {}
  /\ call = Idle
  /\ used = {}
  /\ unconfirmed = {}

-----------------------------------------------------------------------------
(* Passwords *)

\* wallet.check_password: no check without keystore encryption
Opens(w, pw) == w.ks = "watch" \/ w.pw = NoPw \/ w.pw = pw

Obj(c) == IF c.obj = Attached THEN wallets[c.name] ELSE c.obj

\* check_password: the first software wallet of the daemon is kept and asked
\* from then on; with no wallet at all the error is swallowed.  Which is first
\* (by hash after a restart, by age otherwise) is left open.
GetCheckWallet(c) ==
  IF c # NoCheck THEN {c}
  ELSE IF Present(wallets) = {} THEN {NoCheck}
  ELSE [name : Present(wallets), obj : {Attached}]

\* What check_pw_wallet can be after check_password(pw) returns without raising
Checked(c0, pw) == {c \in GetCheckWallet(c0) : c = NoCheck \/ Opens(Obj(c), pw)}

\* The object leaves the daemon's table but check_pw_wallet may still hold it.
Detach(n) ==
  IF checkWallet # NoCheck /\ checkWallet.name = n /\ checkWallet.obj = Attached
  THEN [checkWallet EXCEPT !.obj = wallets[n]] ELSE checkWallet

Ready == running /\ call.pc = "idle"

CheckPassword ==
  /\ Ready
  /\ checkWallet' \in GetCheckWallet(checkWallet)
  /\ UNCHANGED <<durable, running, wallets, hdWallet, recovery, unsaved, call, history>>

-----------------------------------------------------------------------------
(* create and the calls that end in it *)

\* create starts by forgetting check_pw_wallet when no wallet is listed.
CheckAtCreate == IF Present(files) = {} THEN NoCheck ELSE checkWallet

\* create raises before it writes anything: a wrong password, an invalid
\* mnemonic or key, a wallet that exists.
CreateRefused ==
  /\ Ready
  /\ checkWallet' \in GetCheckWallet(CheckAtCreate) \cup {CheckAtCreate}
  /\ UNCHANGED <<durable, running, wallets, hdWallet, recovery, unsaved, call, history>>

\* create up to save_db: the name must be free, the wallet is first saved
\* without a password, then update_password encrypts and saves it again.
\* path: made along a derivation path; next: what the caller does afterwards.
BeginCreate(n, ks, type, pw, path, next) ==
  /\ checkWallet' \in IF ks = "watch" THEN {CheckAtCreate} ELSE Checked(CheckAtCreate, pw)
  /\ wallets[n] = NoWallet
  /\ files[n] = NoWallet
  /\ files' = [files EXCEPT ![n] = [ks |-> ks, pw |-> NoPw]]
  /\ call' = [Idle EXCEPT !.pc = "encrypt", !.name = n, !.type = type,
                          !.ks = ks, !.pw = pw, !.path = path, !.next = next]
  /\ UNCHANGED <<info, derived, backup, running, wallets, hdWallet, recovery, unsaved>>

\* create_hd_wallet without a seed: a new mnemonic.  The screens offer it only
\* while no HD or derived wallet is listed.
CreateHd(s, pw) ==
  /\ Ready /\ NoGroupListed
  /\ s \notin used
  /\ BeginCreate([seed |-> s, coin |-> Btc, acct |-> 0], "seed", "hd", pw, TRUE, "flag")
  /\ used' = used \cup {s}
  /\ unconfirmed' = unconfirmed \cup {s}

\* create_hd_wallet with the user's mnemonic
ImportHd(s, pw) ==
  /\ Ready /\ NoGroupListed
  /\ BeginCreate([seed |-> s, coin |-> Btc, acct |-> 0], "seed", "hd", pw, TRUE, "scan")
  /\ used' = used \cup {s}
  /\ unconfirmed' = unconfirmed \ {s}

\* create without a seed (a standalone wallet with a new mnemonic)
CreateStandalone(s, pw) ==
  /\ Ready
  /\ s \notin used
  /\ BeginCreate([seed |-> s, coin |-> Btc, acct |-> 0], "seed", "standard", pw, FALSE, "flag")
  /\ used' = used \cup {s}
  /\ unconfirmed' = unconfirmed \cup {s}

\* create(seed=...), create(privkeys=...) and create(addresses=...)
ImportSeed(s, pw) ==
  /\ Ready
  /\ BeginCreate([seed |-> s, coin |-> Btc, acct |-> 0], "seed", "standard", pw, FALSE, "idle")
  /\ used' = used \cup {s}
  /\ unconfirmed' = unconfirmed \ {s}

ImportPrivkey(n, pw) ==
  /\ Ready
  /\ BeginCreate(n, "priv", "private", pw, FALSE, "idle")
  /\ used' = used \cup {n.seed}
  /\ UNCHANGED unconfirmed

ImportAddress(n) ==
  /\ Ready
  /\ BeginCreate(n, "watch", "watch", NoPw, FALSE, "idle")
  /\ used' = used \cup {n.seed}
  /\ UNCHANGED unconfirmed

\* create_derived_wallet: the first account get_derived_list leaves
FreeAccounts(key) == Accounts \ derived[key]
HasHdType(coin) == \E n \in Present(files) : n.coin = coin /\ info[n] = "hd"

CreateDerived(coin, pw) ==
  /\ Ready
  /\ hdWallet # NoName
  /\ wallets[hdWallet] # NoWallet
  /\ wallets[hdWallet].pw = pw            \* get_seed
  /\ \E a \in FreeAccounts(<<hdWallet.seed, coin>>) :
       /\ \A b \in FreeAccounts(<<hdWallet.seed, coin>>) : a <= b
       /\ BeginCreate([seed |-> hdWallet.seed, coin |-> coin, acct |-> a], "seed",
                      IF ~HasHdType(coin) THEN "hd"
                      ELSE IF a # 0 THEN "derived" ELSE "standard", pw, TRUE, "idle")
  /\ UNCHANGED history

\* update_password inside create
Encrypt ==
  /\ running /\ call.pc = "encrypt"
  /\ files' = [files EXCEPT ![call.name] = [ks |-> call.ks, pw |-> call.pw]]
  /\ call' = [call EXCEPT !.pc = "register"]
  /\ UNCHANGED <<info, derived, backup, running, volatile, history>>

Created == IF call.next = "idle" THEN Idle ELSE [call EXCEPT !.pc = call.next]

\* daemon.add_wallet, set_hd_wallet and update_local_wallet_info; wallets made
\* along a derivation path go on to update_devired_wallet_info
Register ==
  /\ running /\ call.pc = "register"
  /\ wallets' = [wallets EXCEPT ![call.name] = files[call.name]]
  /\ hdWallet' = IF call.type = "hd" /\ hdWallet = NoName THEN call.name ELSE hdWallet
  /\ info' = [info EXCEPT ![call.name] = call.type]
  /\ call' = IF call.path THEN [call EXCEPT !.pc = "record"] ELSE Created
  /\ UNCHANGED <<files, derived, backup, running, checkWallet, recovery, unsaved, history>>

\* Mutant: the account id cut out of the path is off by one.
AddAccountOffByOne(key, a) == derived' = [derived EXCEPT ![key] = @ \cup {a + 1}]

\* update_devired_wallet_info
AddAccount(key, a) ==
  derived' = IF Cardinality(derived[key]) <= RECOVERY_DERIVAT_NUM
             THEN [derived EXCEPT ![key] = @ \cup {a}] ELSE derived

Record ==
  /\ running /\ call.pc = "record"
  /\ hdWallet # NoName
  /\ AddAccount(<<hdWallet.seed, call.name.coin>>, call.name.acct)
  /\ call' = Created
  /\ UNCHANGED <<files, info, backup, running, volatile, history>>

\* Mutant: a standalone mnemonic is flagged under the HD wallet, if there is one.
FlagHdBackup ==
  /\ running /\ call.pc = "flag"
  /\ backup' = backup \cup {IF hdWallet # NoName THEN hdWallet ELSE call.name}
  /\ call' = Idle
  /\ UNCHANGED <<files, info, derived, running, volatile, history>>

\* update_backup_info
FlagBackup ==
  /\ running /\ call.pc = "flag"
  /\ backup' = backup \cup
       {IF call.type = "hd" /\ hdWallet # NoName THEN hdWallet ELSE call.name}
  /\ call' = Idle
  /\ UNCHANGED <<files, info, derived, running, volatile, history>>

-----------------------------------------------------------------------------
(* Recovery of the derived wallets of an imported HD seed *)

\* What Scan opens: accounts of the imported mnemonic, under pw
Opened(accts, pw) == [n \in Names |->
  IF n.seed = call.name.seed /\ n.coin = Btc /\ n.acct \in accts
  THEN [ks |-> "seed", pw |-> pw] ELSE recovery[n]]

\* Mutant: update_password is not called.
ScannedUnencrypted == Opened(Accounts \ {0}, NoPw)
Scanned == Opened(Accounts \ {0}, call.pw)

\* recovery_wallet: every account but 0, recorded or not, is opened hidden
\* (hide_type), which keeps it off the disk until it is confirmed.
Scan ==
  /\ running /\ call.pc = "scan"
  /\ checkWallet' \in Checked(checkWallet, call.pw)
  /\ recovery' = Scanned
  /\ call' = [Idle EXCEPT !.pc = "awaitConfirm"]
  /\ UNCHANGED <<durable, running, wallets, hdWallet, unsaved, history>>

\* recovery_confirmed with the wallets the user picks; filter_wallet offers
\* those with a history, which the network decides.
RecoveryConfirmed(sel) ==
  /\ running /\ call.pc = "awaitConfirm"
  /\ sel \subseteq Present(recovery)
  /\ call' = [call EXCEPT !.pc = "confirm", !.todo = sel]
  /\ UNCHANGED <<durable, running, volatile, history>>

\* Mutant: the assertion of storage.write is missing.
ConfirmSaveOver(n) ==
  /\ running /\ call.pc = "confirm" /\ n \in call.todo
  /\ wallets' = [wallets EXCEPT ![n] = recovery[n]]
  /\ checkWallet' = Detach(n)
  /\ files' = [files EXCEPT ![n] = recovery[n]]
  /\ call' = [call EXCEPT !.pc = "confirmRecord", !.name = n, !.todo = @ \ {n}]
  /\ UNCHANGED <<info, derived, backup, running, hdWallet, recovery, unsaved, history>>

ConfirmSave(n) ==
  /\ running /\ call.pc = "confirm" /\ n \in call.todo
  /\ files[n] = NoWallet
  /\ wallets' = [wallets EXCEPT ![n] = recovery[n]]
  /\ checkWallet' = Detach(n)
  /\ files' = [files EXCEPT ![n] = recovery[n]]
  /\ call' = [call EXCEPT !.pc = "confirmRecord", !.name = n, !.todo = @ \ {n}]
  /\ UNCHANGED <<info, derived, backup, running, hdWallet, recovery, unsaved, history>>

\* The file already exists: the daemon's entry is replaced and then the
\* assertion of storage.write ends the call.
ConfirmAsserts(n) ==
  /\ running /\ call.pc = "confirm" /\ n \in call.todo
  /\ files[n] # NoWallet
  /\ wallets' = [wallets EXCEPT ![n] = recovery[n]]
  /\ checkWallet' = Detach(n)
  /\ unsaved' = unsaved \cup {n}
  /\ call' = Idle
  /\ UNCHANGED <<durable, running, hdWallet, recovery, history>>

\* Mutant: recovered accounts are not recorded.
ConfirmWithoutRecord ==
  /\ running /\ call.pc = "confirmRecord"
  /\ call' = [call EXCEPT !.pc = "confirmType"]
  /\ UNCHANGED <<durable, running, volatile, history>>

ConfirmRecord ==
  /\ running /\ call.pc = "confirmRecord"
  /\ AddAccount(Key(call.name), call.name.acct)
  /\ call' = [call EXCEPT !.pc = "confirmType"]
  /\ UNCHANGED <<files, info, backup, running, volatile, history>>

ConfirmType ==
  /\ running /\ call.pc = "confirmType"
  /\ info' = [info EXCEPT ![call.name] = "derived"]
  /\ call' = [call EXCEPT !.pc = "confirm"]
  /\ UNCHANGED <<files, derived, backup, running, volatile, history>>

\* Mutant: recovery_wallets.clear() is missing.
ConfirmDoneKeepsRecovery ==
  /\ running /\ call.pc = "confirm" /\ call.todo = {}
  /\ call' = Idle
  /\ UNCHANGED <<durable, running, volatile, history>>

ConfirmDone ==
  /\ running /\ call.pc = "confirm" /\ call.todo = {}
  /\ recovery' = NoWallets
  /\ call' = Idle
  /\ UNCHANGED <<durable, running, wallets, hdWallet, checkWallet, unsaved, history>>

-----------------------------------------------------------------------------
(* Backup and deletion *)

\* search_wallet_by_name: the HD wallet answers for its whole group
SearchWallet(n) == IF info[n] \in GroupTypes THEN hdWallet ELSE n

\* get_backup_info; it fails, which the screens read as "no", on a wallet
\* without a type or a group without its HD wallet
BackedUp(n) ==
  /\ info[n] # "none"
  /\ LET w == SearchWallet(n)
     IN  /\ w # NoName
         /\ wallets[w] # NoWallet
         /\ ~(wallets[w].ks = "seed" /\ w \in backup)

\* The user reads the words of wallet n and passes the word check, which
\* calls delete_backup_info.
ConfirmBackup(n) ==
  /\ Ready
  /\ wallets[n] # NoWallet /\ wallets[n].ks = "seed"
  /\ info[n] # "none"
  /\ SearchWallet(n) # NoName
  /\ backup' = backup \ {SearchWallet(n)}
  /\ unconfirmed' = unconfirmed \ {n.seed}
  /\ UNCHANGED <<files, info, derived, running, volatile, call, used>>

\* Mutant: the HD wallet is deleted like any other.
DoomedAlone(n) == {n}

\* The HD wallet takes its group with it (delete_derived_wallet).
Doomed(n) == IF info[n] = "hd" THEN Group \cap Present(files) ELSE {n}

\* delete_wallet, from a screen that first asks get_backup_info.  Whether a
\* derived wallet has a history, in which case its account stays recorded, the
\* network decides.
Delete(n, pw) ==
  /\ Ready
  /\ wallets[n] # NoWallet
  /\ BackedUp(n)
  /\ checkWallet' \in IF wallets[n].ks = "watch" THEN {checkWallet}
                      ELSE Checked(checkWallet, pw)
  /\ \E first \in IF info[n] = "derived" THEN {"forget", "unlink"} ELSE {"unlink"} :
       call' = [Idle EXCEPT !.pc = first, !.type = info[n], !.name = n,
                            !.todo = Doomed(n)]
  /\ UNCHANGED <<durable, running, wallets, hdWallet, recovery, unsaved, history>>

\* delete_devired_wallet_info
Forget ==
  /\ running /\ call.pc = "forget"
  /\ hdWallet # NoName
  /\ derived' = [derived EXCEPT ![<<hdWallet.seed, call.name.coin>>] =
                                  @ \ {call.name.acct}]
  /\ call' = [call EXCEPT !.pc = "unlink"]
  /\ UNCHANGED <<files, info, backup, running, volatile, history>>

\* delete_derived_wallet takes the wallets from list_wallets, newest first; the
\* HD wallet, which every other wallet of the group needed, is the oldest.
IsHead(n) == info[n] = "hd" /\ n.coin = Btc
\* Mutant: the directory order.
MayUnlinkInAnyOrder(n) == n \in call.todo
MayUnlink(n) == n \in call.todo /\ (IsHead(n) => call.todo = {n})

\* Mutant: the wallet stays in the daemon's table.
UnlinkStaysOpen(n) ==
  /\ running /\ call.pc = "unlink" /\ MayUnlink(n) /\ n \notin unsaved
  /\ files' = [files EXCEPT ![n] = NoWallet]
  /\ call' = [call EXCEPT !.pc = "dropInfo", !.name = n, !.todo = @ \ {n}]
  /\ UNCHANGED <<info, derived, backup, running, volatile, history>>

\* daemon.delete_wallet
Unlink(n) ==
  /\ running /\ call.pc = "unlink" /\ MayUnlink(n) /\ n \notin unsaved
  /\ files' = [files EXCEPT ![n] = NoWallet]
  /\ checkWallet' = Detach(n)
  /\ wallets' = [wallets EXCEPT ![n] = NoWallet]
  /\ call' = [call EXCEPT !.pc = "dropInfo", !.name = n, !.todo = @ \ {n}]
  /\ UNCHANGED <<info, derived, backup, running, hdWallet, recovery, unsaved, history>>

\* wallet.stop saves the wallet before its file goes: the same assertion ends
\* the deletion, and the file stays.
UnlinkAsserts(n) ==
  /\ running /\ call.pc = "unlink" /\ MayUnlink(n) /\ n \in unsaved
  /\ checkWallet' = Detach(n)
  /\ wallets' = [wallets EXCEPT ![n] = NoWallet]
  /\ unsaved' = unsaved \ {n}
  /\ call' = Idle
  /\ UNCHANGED <<durable, running, hdWallet, recovery, history>>

\* Mutant: self.hd_wallet = None is missing.
DropInfoKeepsHd ==
  /\ running /\ call.pc = "dropInfo"
  /\ info' = [info EXCEPT ![call.name] = "none"]
  /\ call' = IF call.todo # {} THEN [call EXCEPT !.pc = "unlink"] ELSE Idle
  /\ UNCHANGED <<files, derived, backup, running, volatile, history>>

\* local_wallet_info.pop and set_key; the HD wallet is forgotten with the last
DropInfo ==
  /\ running /\ call.pc = "dropInfo"
  /\ info' = [info EXCEPT ![call.name] = "none"]
  /\ IF call.todo # {}
     THEN /\ call' = [call EXCEPT !.pc = "unlink"]
          /\ UNCHANGED hdWallet
     ELSE /\ call' = Idle
          /\ hdWallet' = IF call.type = "hd" THEN NoName ELSE hdWallet
  /\ UNCHANGED <<files, derived, backup, running, wallets, checkWallet, recovery,
                 unsaved, history>>

-----------------------------------------------------------------------------
(* update_wallet_password: the wallets one after the other *)

UpdatePassword(old, new) ==
  /\ Ready
  /\ checkWallet' \in Checked(checkWallet, old)
  /\ call' = [Idle EXCEPT !.pc = "rekey", !.pw = old, !.new = new,
                          !.todo = Present(wallets)]
  /\ UNCHANGED <<durable, running, wallets, hdWallet, recovery, unsaved, history>>

CanRekey(w, old) == w.ks = "watch" \/ w.pw = old
Rekeyed(w, new) == IF w.ks = "watch" THEN w ELSE [w EXCEPT !.pw = new]

Rekey(n) ==
  /\ running /\ call.pc = "rekey" /\ n \in call.todo \ unsaved
  /\ CanRekey(wallets[n], call.pw)
  /\ wallets' = [wallets EXCEPT ![n] = Rekeyed(@, call.new)]
  /\ files' = [files EXCEPT ![n] = Rekeyed(wallets[n], call.new)]
  /\ call' = IF call.todo = {n} THEN Idle ELSE [call EXCEPT !.todo = @ \ {n}]
  /\ UNCHANGED <<info, derived, backup, running, hdWallet, checkWallet, recovery,
                 unsaved, history>>

\* InvalidPassword ends the loop; the wallets already done keep the new one
RekeyRaises(n) ==
  /\ running /\ call.pc = "rekey" /\ n \in call.todo
  /\ ~CanRekey(wallets[n], call.pw)
  /\ call' = Idle
  /\ UNCHANGED <<durable, running, volatile, history>>

\* The wallet has its new password when the assertion of storage.write ends the loop.
RekeyAsserts(n) ==
  /\ running /\ call.pc = "rekey" /\ n \in call.todo \cap unsaved
  /\ CanRekey(wallets[n], call.pw)
  /\ wallets' = [wallets EXCEPT ![n] = Rekeyed(@, call.new)]
  /\ call' = Idle
  /\ UNCHANGED <<durable, running, hdWallet, checkWallet, recovery, unsaved, history>>

RekeyNothing ==
  /\ running /\ call.pc = "rekey" /\ call.todo = {}
  /\ call' = Idle
  /\ UNCHANGED <<durable, running, volatile, history>>

-----------------------------------------------------------------------------
(* Process life *)

\* __init__ with init_local_wallet_info, then load_all_wallet
Start ==
  /\ ~running
  /\ running' = TRUE
  /\ info' = [n \in Names |-> IF files[n] # NoWallet THEN info[n] ELSE "none"]
  /\ wallets' = files
  /\ LET hds == {n \in Present(files) : IsHead(n)}
     IN  IF hds = {} THEN hdWallet' = NoName ELSE hdWallet' \in hds
  /\ UNCHANGED <<files, derived, backup, checkWallet, recovery, unsaved, call, history>>

Stop ==
  /\ running' = FALSE
  /\ wallets' = NoWallets
  /\ hdWallet' = NoName
  /\ checkWallet' = NoCheck
  /\ recovery' = NoWallets
  /\ unsaved' = {}
  /\ call' = Idle
  /\ UNCHANGED <<durable, history>>

Quit == running /\ call.pc \in {"idle", "awaitConfirm"} /\ Stop
Crash == running /\ call.pc \notin {"idle", "awaitConfirm"} /\ Stop

CallStep ==
  \/ Encrypt \/ Register \/ Record \/ FlagBackup \/ Scan
  \/ \E n \in Names : ConfirmSave(n) \/ ConfirmAsserts(n)
  \/ ConfirmRecord \/ ConfirmType \/ ConfirmDone
  \/ Forget \/ DropInfo
  \/ \E n \in Names : Unlink(n) \/ UnlinkAsserts(n)
  \/ \E n \in Names : Rekey(n) \/ RekeyRaises(n) \/ RekeyAsserts(n)
  \/ RekeyNothing

Request ==
  \/ CheckPassword \/ CreateRefused
  \/ \E s \in Seeds, pw \in Passwords :
       CreateHd(s, pw) \/ ImportHd(s, pw) \/ CreateStandalone(s, pw) \/ ImportSeed(s, pw)
  \/ \E n \in ImportNames, pw \in Passwords : ImportPrivkey(n, pw)
  \/ \E n \in ImportNames : ImportAddress(n)
  \/ \E coin \in Coins, pw \in Passwords : CreateDerived(coin, pw)
  \/ \E sel \in SUBSET Names : RecoveryConfirmed(sel)
  \/ \E n \in Names : ConfirmBackup(n)
  \/ \E n \in Names, pw \in Passwords : Delete(n, pw)
  \/ \E old, new \in Passwords : UpdatePassword(old, new)

\* An orderly life: the process is only left between calls.
Next == Start \/ Quit \/ Request \/ CallStep
\* iOS may also kill it inside a call.
NextCrash == Next \/ Crash

\* The thread of a call runs until the call returns.
Fairness == WF_vars(CallStep)

Spec == Init /\ [][Next]_vars /\ Fairness
SpecCrash == Init /\ [][NextCrash]_vars
-----------------------------------------------------------------------------
(* Properties *)

\* Every variable keeps to the values the program can give it.
TypeOK ==
  /\ files \in [Names -> Wallet \cup {NoWallet}]
  /\ info \in [Names -> Types \cup {"none"}]
  /\ derived \in [Keys -> SUBSET Accounts]
  /\ backup \in SUBSET Names
  /\ running \in BOOLEAN
  /\ wallets \in [Names -> Wallet \cup {NoWallet}]
  /\ hdWallet \in Names \cup {NoName}
  /\ checkWallet \in CheckRef \cup {NoCheck}
  /\ recovery \in [Names -> Wallet \cup {NoWallet}]
  /\ unsaved \subseteq Names
  /\ call \in Calls
  /\ used \in SUBSET Seeds
  /\ unconfirmed \in SUBSET Seeds

\* The call that deletes the HD group is under way.
DeletingGroup == call.pc \in {"unlink", "dropInfo"} /\ call.type = "hd"

Keyed(f) == {n \in Names : f[n] # NoWallet /\ f[n].ks # "watch"}

\* All the HD and derived wallets listed come from one mnemonic, through any
\* number of deletions, imports and recoveries: one HD wallet answers for the
\* backup, the derivation and the deletion of all of them (search_wallet_by_name).
GroupOneSeed == \A m, n \in Group : m.seed = n.seed

\* The HD wallet that derives, backs up and deletes for its group is one the
\* daemon has open, with its mnemonic, whenever the process died before.
HdLive ==
  hdWallet # NoName /\ ~DeletingGroup =>
    /\ wallets[hdWallet] # NoWallet
    /\ wallets[hdWallet].ks = "seed"
    /\ info[hdWallet] = "hd"

\* A group never loses its HD wallet, wherever the process died: while an HD or
\* derived wallet is listed, so is the one whose deletion the screens offer.
\* Without it the group could neither be deleted nor another HD wallet be made.
GroupHasHead == ~NoGroupListed => \E h \in Present(files) : IsHead(h)

\* What the daemon has open between calls is what a restart would load.
DaemonAgreesWithDisk == Ready => wallets = files

\* create_derived_wallet can always go on: the account it would take next does
\* not belong to a wallet that is already open (check_exist_file would raise, and
\* raise again on every later attempt).
NextDerivedIsFree ==
  Ready /\ hdWallet # NoName =>
    \A coin \in Coins : \A a \in FreeAccounts(<<hdWallet.seed, coin>>) :
      (\A b \in FreeAccounts(<<hdWallet.seed, coin>>) : a <= b) =>
        wallets[[seed |-> hdWallet.seed, coin |-> coin, acct |-> a]] = NoWallet

\* Between calls no mnemonic or key lies on the disk without a password,
\* although create first saves it plain.
EncryptedAtRest == Ready => \A n \in Keyed(files) : files[n].pw # NoPw

\* A generated mnemonic the user has not proved to have written down is still
\* flagged, so that deletion is refused, and a file with it still exists.
UnconfirmedKept ==
  Ready => \A s \in unconfirmed :
     \E n \in backup : n.seed = s /\ files[n] # NoWallet /\ files[n].ks = "seed"

\* "to prevent wallet corruption" (storage.write): a file never gets another
\* wallet, whatever was imported on its own before a recovery finds it again,
\* whatever the recovery, a change of the password or a deletion do with the
\* wallet opened over it, and wherever the process dies. It goes by its deletion.
WalletsAreNotReplaced ==
  [][\A n \in Names : files[n] # NoWallet =>
       \/ files'[n] # NoWallet /\ files'[n].ks = files[n].ks
       \/ files'[n] = NoWallet /\ call.pc = "unlink" /\ n \in call.todo \ unsaved]_vars

\* Each wallet recovery_confirmed saves is new: see the README.
RecoveredFileIsNew == call.pc = "confirm" => \A n \in call.todo : files[n] = NoWallet

\* check_password: "raise except if error".  Once it has chosen its wallet, a
\* password it lets pass is the password of some wallet, if any has a key.
CheckedPasswordOpens ==
  Ready /\ checkWallet # NoCheck /\ Keyed(wallets) # {} =>
    \A pw \in Passwords :
      Checked(checkWallet, pw) # {} => \E n \in Keyed(wallets) : Opens(wallets[n], pw)

\* Deleting the HD wallet comes to an end with no wallet of the group left on
\* the disk, none remembered as the HD wallet, and a new one allowed.
GroupDeletionCompletes == DeletingGroup ~> (NoGroupListed /\ hdWallet = NoName)
=============================================================================
