------------------------- MODULE WalletManagerProofs -------------------------
(***************************************************************************)
(* What is proved about WalletManager for every number of mnemonics,       *)
(* coins, accounts, passwords and imports.  With the process dying between *)
(* any two steps of a call (SpecCrash): the variables keep their types,    *)
(* the HD wallet is one the daemon has open, a group of wallets never      *)
(* loses its HD wallet, and no wallet file gets another wallet.  In an     *)
(* orderly life (Spec): nothing lies on the disk without a password        *)
(* between calls, and, from NoOverlap on, which says that no address of a  *)
(* derived wallet was imported on its own, all wallets of the HD group     *)
(* come from one mnemonic, the daemon has open what is on the disk,        *)
(* mnemonics nobody has written down keep their flag and their file, and   *)
(* the next account to derive is free.                                     *)
(***************************************************************************)
EXTENDS WalletManager, FiniteSetTheorems, TLAPS

\* Steps that know the wallet the call is about
NamedPCs == {"encrypt", "register", "record", "flag", "scan", "confirmRecord",
             "confirmType", "forget", "dropInfo"}

\* A process that does not live has no call and no volatile state.
Dead == ~running => call = Idle /\ checkWallet = NoCheck /\ hdWallet = NoName

AttachedOpen ==
  checkWallet # NoCheck /\ checkWallet.obj = Attached =>
    wallets[checkWallet.name] # NoWallet

\* Only wallets with a file are listed with a type, but for the one whose
\* entry the next step drops.
InfoHasFile ==
  running => \A n \in Names :
    info[n] # "none" =>
      files[n] # NoWallet \/ (call.pc = "dropInfo" /\ call.name = n)

\* An HD wallet has a mnemonic, on the disk and in the daemon; on Btc it is
\* account 0.
HdHasSeed ==
  \A n \in Names : info[n] = "hd" =>
    /\ files[n] # NoWallet => files[n].ks = "seed"
    /\ wallets[n] # NoWallet => wallets[n].ks = "seed"
    /\ n.coin = Btc => n.acct = 0

RecoveryDerived ==
  /\ \A n \in Names : recovery[n] # NoWallet => recovery[n].ks = "seed" /\ n.acct # 0
  /\ \A n \in unsaved : n.acct # 0

HdOnDisk ==
  hdWallet # NoName /\ ~DeletingGroup => files[hdWallet] # NoWallet /\ hdWallet.coin = Btc

\* create between its first save and the entry in the tables
Creating ==
  call.pc \in {"encrypt", "register"} =>
    /\ files[call.name] # NoWallet
    /\ wallets[call.name] = NoWallet
    /\ info[call.name] = "none"
    /\ call.type \in GroupTypes => call.ks = "seed"
    /\ call.type = "hd" => (hdWallet = NoName <=> call.name.coin = Btc)
    /\ call.type = "hd" /\ call.name.coin = Btc => call.name.acct = 0
    /\ call.type = "derived" => hdWallet # NoName
    /\ call.next = "scan" => call.path

Encrypted == call.pc = "register" => files[call.name].ks = call.ks

CallNext == call.next \in {"idle", "flag", "scan"}

Recovering ==
  /\ call.pc \in {"scan", "awaitConfirm", "confirm", "confirmRecord", "confirmType"} =>
       hdWallet # NoName
  /\ call.pc \in {"confirm", "confirmRecord", "confirmType"} =>
       call.todo \subseteq Present(recovery)
  /\ call.pc \in {"confirmRecord", "confirmType"} =>
       /\ files[call.name] # NoWallet
       /\ call.name.acct # 0

\* delete_wallet: what is still to be removed
Deleting ==
  /\ call.pc \in {"forget", "unlink", "dropInfo"} /\ call.type # "hd" =>
       \A n \in call.todo : info[n] # "hd"
  /\ call.pc = "dropInfo" /\ call.type # "hd" => info[call.name] # "hd"
  /\ call.pc = "dropInfo" => files[call.name] = NoWallet
  /\ call.pc = "forget" => call.type = "derived"
  /\ DeletingGroup => Group \cap Present(files) \subseteq call.todo
  /\ DeletingGroup /\ call.todo # {} =>     \* the HD wallet is the last one
       /\ hdWallet \in call.todo /\ hdWallet \in Names /\ hdWallet.coin = Btc
       /\ files[hdWallet] # NoWallet /\ info[hdWallet] = "hd"
       /\ wallets[hdWallet] # NoWallet /\ wallets[hdWallet].ks = "seed"

Rekeying == call.pc = "rekey" => call.todo \subseteq Present(wallets)

Named == call.pc \in NamedPCs => call.name \in Names

IInv ==
  /\ TypeOK /\ Named /\ Dead /\ AttachedOpen /\ InfoHasFile /\ HdHasSeed
  /\ RecoveryDerived /\ HdOnDisk /\ Creating /\ Encrypted /\ CallNext
  /\ Recovering /\ Deleting /\ Rekeying /\ HdLive /\ GroupHasHead

LEMMA IdleCall == Idle \in Calls
  BY DEF Idle, Calls, PCs, Types, KeyStores

\* What Detach leaves in check_pw_wallet does not point at the wallet that goes.
LEMMA DetachKeeps ==
  ASSUME TypeOK, AttachedOpen, NEW n \in Names
  PROVE  /\ Detach(n) \in CheckRef \cup {NoCheck}
         /\ Detach(n) # NoCheck /\ Detach(n).obj = Attached =>
              Detach(n) = checkWallet /\ Detach(n).name # n
  BY SentinelAssumption, CheckAssumption DEF TypeOK, AttachedOpen, Detach, CheckRef

LEMMA CheckPasswordStep ==
  ASSUME IInv, CheckPassword
  PROVE  IInv'
  <1> USE DEF IInv, TypeOK, Calls, CheckPassword, GetCheckWallet, Ready, history, durable
  <1>1. TypeOK'
    BY DEF PCs, CheckRef, Present
  <1>2. AttachedOpen'
    BY DEF AttachedOpen, Present, CheckRef
  <1>3. Named' /\ Dead' /\ CallNext' /\ InfoHasFile' /\ HdHasSeed' /\ RecoveryDerived' /\ HdOnDisk' /\ HdLive' /\ Creating' /\ Encrypted' /\ Recovering' /\ Deleting' /\ Rekeying' /\ GroupHasHead'
    BY DEF Named, NamedPCs, Dead, CallNext, InfoHasFile, HdHasSeed, RecoveryDerived, HdOnDisk, DeletingGroup, HdLive, Creating, Encrypted, Recovering, Present, Deleting, Group, Rekeying, GroupHasHead, NoGroupListed, IsHead
  <1> QED BY <1>1, <1>2, <1>3

LEMMA CreateRefusedStep ==
  ASSUME IInv, CreateRefused
  PROVE  IInv'
  <1> USE DEF IInv, TypeOK, Calls, CreateRefused, GetCheckWallet, CheckAtCreate, Ready, history, durable
  <1>1. TypeOK'
    BY DEF PCs, CheckRef, Present
  <1>2. AttachedOpen'
    BY DEF AttachedOpen, Present, CheckRef
  <1>3. Named' /\ Dead' /\ CallNext' /\ InfoHasFile' /\ HdHasSeed' /\ RecoveryDerived' /\ HdOnDisk' /\ HdLive' /\ Creating' /\ Encrypted' /\ Recovering' /\ Deleting' /\ Rekeying' /\ GroupHasHead'
    BY DEF Named, NamedPCs, Dead, CallNext, InfoHasFile, HdHasSeed, RecoveryDerived, HdOnDisk, DeletingGroup, HdLive, Creating, Encrypted, Recovering, Present, Deleting, Group, Rekeying, GroupHasHead, NoGroupListed, IsHead
  <1> QED BY <1>1, <1>2, <1>3

LEMMA EncryptStep ==
  ASSUME IInv, Encrypt
  PROVE  IInv'
  <1> USE SentinelAssumption DEF IInv, TypeOK, Calls, Encrypt, volatile, history, Named, NamedPCs, Wallet
  <1>1. TypeOK'
    BY DEF PCs, KeyStores
  <1>2. HdHasSeed'
    BY DEF HdHasSeed, Creating
  <1>3. Creating' /\ Encrypted'
    BY DEF Creating, Encrypted
  <1>4. Named' /\ Dead' /\ CallNext' /\ AttachedOpen' /\ InfoHasFile' /\ RecoveryDerived' /\ HdOnDisk' /\ HdLive' /\ Recovering' /\ Deleting' /\ Rekeying' /\ GroupHasHead'
    BY DEF Dead, CallNext, AttachedOpen, InfoHasFile, RecoveryDerived, HdOnDisk, DeletingGroup, HdLive, Recovering, Present, Deleting, Group, Rekeying, GroupHasHead, NoGroupListed, IsHead, Creating, GroupTypes
  <1> QED BY <1>1, <1>2, <1>3, <1>4

LEMMA RegisterStep ==
  ASSUME IInv, Register
  PROVE  IInv'
  <1> USE DEF IInv, TypeOK, Calls, Register, history, Named, NamedPCs, Creating, CallNext, Created, Idle
  <1>1. TypeOK'
    BY DEF PCs, Types, KeyStores
  <1>2. HdHasSeed'
    BY DEF HdHasSeed, Encrypted, GroupTypes
  <1>3. HdOnDisk' /\ HdLive'
    BY DEF HdOnDisk, DeletingGroup, HdLive, Encrypted, GroupTypes
  <1>4. GroupHasHead'
    BY <1>3 DEF GroupHasHead, NoGroupListed, Group, Present, IsHead, GroupTypes, HdLive, HdOnDisk, DeletingGroup
  <1>5. Named' /\ Dead' /\ CallNext' /\ AttachedOpen' /\ InfoHasFile' /\ RecoveryDerived' /\ Creating' /\ Encrypted' /\ Recovering' /\ Deleting' /\ Rekeying'
    BY DEF Dead, AttachedOpen, InfoHasFile, RecoveryDerived, Encrypted, Recovering, Present, Deleting, DeletingGroup, Group, Rekeying
  <1> QED BY <1>1, <1>2, <1>3, <1>4, <1>5

LEMMA RecordStep ==
  ASSUME IInv, Record
  PROVE  IInv'
  <1> USE DEF IInv, TypeOK, Calls, Record, history, volatile, Named, NamedPCs, CallNext, Created, Idle
  <1>1. TypeOK'
    BY DEF PCs, Types, KeyStores, AddAccount, Keys, Names
  <1>2. Named' /\ Dead' /\ CallNext' /\ AttachedOpen' /\ InfoHasFile' /\ HdHasSeed' /\ RecoveryDerived' /\ HdOnDisk' /\ HdLive' /\ Creating' /\ Encrypted' /\ Recovering' /\ Deleting' /\ Rekeying' /\ GroupHasHead'
    BY DEF Dead, AttachedOpen, InfoHasFile, HdHasSeed, RecoveryDerived, HdOnDisk, DeletingGroup, HdLive, Creating, Encrypted, Recovering, Present, Deleting, Group, Rekeying, GroupHasHead, NoGroupListed, IsHead
  <1> QED BY <1>1, <1>2

LEMMA FlagBackupStep ==
  ASSUME IInv, FlagBackup
  PROVE  IInv'
  <1> USE DEF IInv, TypeOK, Calls, FlagBackup, history, volatile, Named, NamedPCs, Idle
  <1>1. TypeOK'
    BY DEF PCs, Types, KeyStores
  <1>2. Named' /\ Dead' /\ CallNext' /\ AttachedOpen' /\ InfoHasFile' /\ HdHasSeed' /\ RecoveryDerived' /\ HdOnDisk' /\ HdLive' /\ Creating' /\ Encrypted' /\ Recovering' /\ Deleting' /\ Rekeying' /\ GroupHasHead'
    BY DEF Dead, CallNext, AttachedOpen, InfoHasFile, HdHasSeed, RecoveryDerived, HdOnDisk, DeletingGroup, HdLive, Creating, Encrypted, Recovering, Present, Deleting, Group, Rekeying, GroupHasHead, NoGroupListed, IsHead
  <1> QED BY <1>1, <1>2

LEMMA ScanStep ==
  ASSUME IInv, Scan
  PROVE  IInv'
  <1> USE SentinelAssumption DEF IInv, TypeOK, Calls, Scan, durable, history, Named, NamedPCs, Idle, Checked, GetCheckWallet
  <1>1. TypeOK'
    BY DEF PCs, Types, KeyStores, Wallet, CheckRef, Present, Scanned, Opened
  <1>2. AttachedOpen'
    BY DEF AttachedOpen, Present, CheckRef
  <1>3. RecoveryDerived'
    BY DEF RecoveryDerived, Scanned, Opened
  <1>4. Named' /\ Dead' /\ CallNext' /\ InfoHasFile' /\ HdHasSeed' /\ HdOnDisk' /\ HdLive' /\ Creating' /\ Encrypted' /\ Recovering' /\ Deleting' /\ Rekeying' /\ GroupHasHead'
    BY DEF Dead, CallNext, InfoHasFile, HdHasSeed, HdOnDisk, DeletingGroup, HdLive, Creating, Encrypted, Recovering, Present, Deleting, Group, Rekeying, GroupHasHead, NoGroupListed, IsHead
  <1> QED BY <1>1, <1>2, <1>3, <1>4

LEMMA RecoveryConfirmedStep ==
  ASSUME IInv, NEW sel \in SUBSET Names, RecoveryConfirmed(sel)
  PROVE  IInv'
  <1> USE DEF IInv, TypeOK, Calls, RecoveryConfirmed, durable, volatile, history, Present
  <1>1. TypeOK'
    BY DEF PCs, Names
  <1>2. Named' /\ Dead' /\ CallNext' /\ AttachedOpen' /\ InfoHasFile' /\ HdHasSeed' /\ RecoveryDerived' /\ HdOnDisk' /\ HdLive' /\ Creating' /\ Encrypted' /\ Recovering' /\ Deleting' /\ Rekeying' /\ GroupHasHead'
    BY DEF Named, NamedPCs, Dead, CallNext, AttachedOpen, InfoHasFile, HdHasSeed, RecoveryDerived, HdOnDisk, DeletingGroup, HdLive, Creating, Encrypted, Recovering, Deleting, Group, Rekeying, GroupHasHead, NoGroupListed, IsHead
  <1> QED BY <1>1, <1>2

LEMMA ConfirmSaveStep ==
  ASSUME IInv, NEW n \in Names, ConfirmSave(n)
  PROVE  IInv'
  <1> USE DEF IInv, TypeOK, Calls, ConfirmSave, history
  <1>1. TypeOK'
    BY DetachKeeps DEF PCs
  <1>2. AttachedOpen'
    BY DetachKeeps DEF AttachedOpen, CheckRef
  <1>3. HdHasSeed'
    BY DEF HdHasSeed, RecoveryDerived
  <1>4. HdOnDisk' /\ HdLive'
    BY DEF HdOnDisk, DeletingGroup, HdLive, RecoveryDerived, Recovering, Present
  <1>5. Recovering'
    BY DEF Recovering, Present, RecoveryDerived
  <1>6. GroupHasHead'
    BY DEF GroupHasHead, NoGroupListed, Group, Present, IsHead, InfoHasFile, GroupTypes, Dead, Idle
  <1>7. Named' /\ Dead' /\ CallNext' /\ InfoHasFile' /\ RecoveryDerived' /\ Creating' /\ Encrypted' /\ Deleting' /\ Rekeying'
    BY DEF Named, NamedPCs, Dead, CallNext, InfoHasFile, RecoveryDerived, Creating, Encrypted, Deleting, DeletingGroup, Group, Present, Rekeying
  <1> QED BY <1>1, <1>2, <1>3, <1>4, <1>5, <1>6, <1>7

LEMMA ConfirmAssertsStep ==
  ASSUME IInv, NEW n \in Names, ConfirmAsserts(n)
  PROVE  IInv'
  <1> USE DEF IInv, TypeOK, Calls, ConfirmAsserts, history, durable, Idle
  <1>1. TypeOK'
    BY DetachKeeps DEF PCs, Types, KeyStores
  <1>2. AttachedOpen'
    BY DetachKeeps DEF AttachedOpen, CheckRef
  <1>3. HdHasSeed'
    BY DEF HdHasSeed, RecoveryDerived
  <1>4. HdOnDisk' /\ HdLive'
    BY DEF HdOnDisk, DeletingGroup, HdLive, RecoveryDerived, Recovering, Present
  <1>5. Named' /\ Dead' /\ CallNext' /\ InfoHasFile' /\ RecoveryDerived' /\ Creating' /\ Encrypted' /\ Recovering' /\ Deleting' /\ Rekeying' /\ GroupHasHead'
    BY DEF Named, NamedPCs, Dead, CallNext, InfoHasFile, RecoveryDerived, Creating, Encrypted, Recovering, Present, Deleting, DeletingGroup, Group, Rekeying, GroupHasHead, NoGroupListed, IsHead
  <1> QED BY <1>1, <1>2, <1>3, <1>4, <1>5

LEMMA ConfirmRecordStep ==
  ASSUME IInv, ConfirmRecord
  PROVE  IInv'
  <1> USE DEF IInv, TypeOK, Calls, ConfirmRecord, history, volatile, Named, NamedPCs
  <1>1. TypeOK'
    BY DEF PCs, AddAccount, Key, Keys, Names
  <1>2. Named' /\ Dead' /\ CallNext' /\ AttachedOpen' /\ InfoHasFile' /\ HdHasSeed' /\ RecoveryDerived' /\ HdOnDisk' /\ HdLive' /\ Creating' /\ Encrypted' /\ Recovering' /\ Deleting' /\ Rekeying' /\ GroupHasHead'
    BY DEF Dead, CallNext, AttachedOpen, InfoHasFile, HdHasSeed, RecoveryDerived, HdOnDisk, DeletingGroup, HdLive, Creating, Encrypted, Recovering, Present, Deleting, Group, Rekeying, GroupHasHead, NoGroupListed, IsHead
  <1> QED BY <1>1, <1>2

LEMMA ConfirmTypeStep ==
  ASSUME IInv, ConfirmType
  PROVE  IInv'
  <1> USE DEF IInv, TypeOK, Calls, ConfirmType, history, volatile, Named, NamedPCs, Recovering, HdHasSeed, HdLive, HdOnDisk
  <1>1. TypeOK'
    BY DEF PCs, Types
  <1>2. HdOnDisk' /\ HdLive'
    BY DEF DeletingGroup
  <1>3. GroupHasHead'
    BY <1>2 DEF GroupHasHead, NoGroupListed, Group, Present, IsHead, DeletingGroup
  <1>4. Named' /\ Dead' /\ CallNext' /\ AttachedOpen' /\ InfoHasFile' /\ HdHasSeed' /\ RecoveryDerived' /\ Creating' /\ Encrypted' /\ Recovering' /\ Deleting' /\ Rekeying'
    BY DEF Dead, CallNext, AttachedOpen, InfoHasFile, RecoveryDerived, Creating, Encrypted, Present, Deleting, DeletingGroup, Group, Rekeying
  <1> QED BY <1>1, <1>2, <1>3, <1>4

LEMMA ConfirmDoneStep ==
  ASSUME IInv, ConfirmDone
  PROVE  IInv'
  <1> USE DEF IInv, TypeOK, Calls, ConfirmDone, history, durable, Idle, NoWallets
  <1>1. TypeOK'
    BY DEF PCs, Types, KeyStores
  <1>2. Named' /\ Dead' /\ CallNext' /\ AttachedOpen' /\ InfoHasFile' /\ HdHasSeed' /\ RecoveryDerived' /\ HdOnDisk' /\ HdLive' /\ Creating' /\ Encrypted' /\ Recovering' /\ Deleting' /\ Rekeying' /\ GroupHasHead'
    BY DEF Named, NamedPCs, Dead, CallNext, AttachedOpen, InfoHasFile, HdHasSeed, RecoveryDerived, HdOnDisk, DeletingGroup, HdLive, Creating, Encrypted, Recovering, Present, Deleting, Group, Rekeying, GroupHasHead, NoGroupListed, IsHead
  <1> QED BY <1>1, <1>2

LEMMA ConfirmBackupStep ==
  ASSUME IInv, NEW n \in Names, ConfirmBackup(n)
  PROVE  IInv'
  <1> USE DEF IInv, TypeOK, Calls, ConfirmBackup, history, volatile, Ready
  <1>1. TypeOK'
    BY DEF PCs
  <1>2. Named' /\ Dead' /\ CallNext' /\ AttachedOpen' /\ InfoHasFile' /\ HdHasSeed' /\ RecoveryDerived' /\ HdOnDisk' /\ HdLive' /\ Creating' /\ Encrypted' /\ Recovering' /\ Deleting' /\ Rekeying' /\ GroupHasHead'
    BY DEF Named, NamedPCs, Dead, CallNext, AttachedOpen, InfoHasFile, HdHasSeed, RecoveryDerived, HdOnDisk, DeletingGroup, HdLive, Creating, Encrypted, Recovering, Present, Deleting, Group, Rekeying, GroupHasHead, NoGroupListed, IsHead
  <1> QED BY <1>1, <1>2

LEMMA DeleteStep ==
  ASSUME IInv, NEW n \in Names, NEW pw \in Passwords, Delete(n, pw)
  PROVE  IInv'
  <1> USE DEF IInv, TypeOK, Calls, Delete, durable, history, Ready, Checked, GetCheckWallet
  <1>1. TypeOK'
    <2>1. info[n] \in Types BY DEF BackedUp
    <2>2. Doomed(n) \in SUBSET Names BY DEF Doomed, Group
    <2>3. PICK first \in {"forget", "unlink"} :
           call' = [Idle EXCEPT !.pc = first, !.type = info[n], !.name = n, !.todo = Doomed(n)]
      OBVIOUS
    <2>4. call' \in Calls BY <2>1, <2>2, <2>3, IdleCall DEF PCs
    <2>5. checkWallet' \in CheckRef \cup {NoCheck}
      BY DEF CheckRef, Present
    <2> QED BY <2>4, <2>5
  <1>2. AttachedOpen'
    BY DEF AttachedOpen, Present, CheckRef
  <1>3. Deleting'
    <2>1. info[n] = "hd" =>
            /\ hdWallet \in Doomed(n) /\ hdWallet \in Names /\ hdWallet.coin = Btc
            /\ files[hdWallet] # NoWallet /\ info[hdWallet] = "hd"
            /\ wallets[hdWallet] # NoWallet /\ wallets[hdWallet].ks = "seed"
      BY DEF BackedUp, SearchWallet, GroupTypes, Doomed, Group, Present, HdLive, HdOnDisk, DeletingGroup
    <2> QED BY <2>1 DEF Deleting, DeletingGroup, Group, Present, Doomed, Idle
  <1>4. HdOnDisk' /\ HdLive'
    BY DEF HdOnDisk, DeletingGroup, HdLive, Idle
  <1>5. Named' /\ Dead' /\ CallNext' /\ InfoHasFile' /\ HdHasSeed' /\ RecoveryDerived' /\ Creating' /\ Encrypted' /\ Recovering' /\ Rekeying' /\ GroupHasHead'
    BY DEF Named, NamedPCs, Dead, CallNext, InfoHasFile, HdHasSeed, RecoveryDerived, Creating, Encrypted, Recovering, Present, Rekeying, GroupHasHead, NoGroupListed, Group, IsHead, Idle
  <1> QED BY <1>1, <1>2, <1>3, <1>4, <1>5

LEMMA ForgetStep ==
  ASSUME IInv, Forget
  PROVE  IInv'
  <1> USE DEF IInv, TypeOK, Calls, Forget, volatile, history, Named, NamedPCs
  <1>1. TypeOK'
    BY DEF PCs, Keys, Names
  <1>2. Named' /\ Dead' /\ CallNext' /\ AttachedOpen' /\ InfoHasFile' /\ HdHasSeed' /\ RecoveryDerived' /\ HdOnDisk' /\ HdLive' /\ Creating' /\ Encrypted' /\ Recovering' /\ Deleting' /\ Rekeying' /\ GroupHasHead'
    BY DEF Dead, CallNext, AttachedOpen, InfoHasFile, HdHasSeed, RecoveryDerived, HdOnDisk, DeletingGroup, HdLive, Creating, Encrypted, Recovering, Present, Deleting, Group, Rekeying, GroupHasHead, NoGroupListed, IsHead
  <1> QED BY <1>1, <1>2

LEMMA UnlinkStep ==
  ASSUME IInv, NEW n \in Names, Unlink(n)
  PROVE  IInv'
  <1> USE DEF IInv, TypeOK, Calls, Unlink, history, MayUnlink, Deleting
  <1>1. TypeOK'
    BY DetachKeeps DEF PCs
  <1>2. AttachedOpen'
    BY DetachKeeps DEF AttachedOpen, CheckRef
  <1>3. InfoHasFile'
    BY DEF InfoHasFile
  <1>4. HdOnDisk' /\ HdLive'
    BY DEF HdOnDisk, DeletingGroup, HdLive
  <1>5. Deleting'
    <2>1. DeletingGroup' /\ call'.todo # {} => n # hdWallet
      BY DEF DeletingGroup, IsHead
    <2> QED BY <2>1 DEF DeletingGroup, Group, Present
  <1>6. GroupHasHead'
    BY DEF GroupHasHead, NoGroupListed, Group, Present, IsHead, DeletingGroup
  <1>7. Named' /\ Dead' /\ CallNext' /\ HdHasSeed' /\ RecoveryDerived' /\ Creating' /\ Encrypted' /\ Recovering' /\ Rekeying'
    BY DEF Named, NamedPCs, Dead, CallNext, HdHasSeed, RecoveryDerived, Creating, Encrypted, Recovering, Present, Rekeying
  <1> QED BY <1>1, <1>2, <1>3, <1>4, <1>5, <1>6, <1>7

LEMMA UnlinkAssertsStep ==
  ASSUME IInv, NEW n \in Names, UnlinkAsserts(n)
  PROVE  IInv'
  <1> USE DEF IInv, TypeOK, Calls, UnlinkAsserts, history, durable, Idle, MayUnlink, Deleting
  <1>1. TypeOK'
    BY DetachKeeps DEF PCs, Types, KeyStores
  <1>2. AttachedOpen'
    BY DetachKeeps DEF AttachedOpen, CheckRef
  <1>3. n # hdWallet
    <2>1. CASE call.type = "hd"
      BY <2>1 DEF DeletingGroup, RecoveryDerived, HdHasSeed
    <2>2. CASE call.type # "hd"
      BY <2>2, ConstantsAssumption DEF DeletingGroup, HdLive
    <2> QED BY <2>1, <2>2
  <1>4. HdOnDisk' /\ HdLive'
    BY <1>3 DEF HdOnDisk, DeletingGroup, HdLive
  <1>5. GroupHasHead'
    BY DEF GroupHasHead, NoGroupListed, Group, Present, IsHead
  <1>6. Named' /\ Dead' /\ CallNext' /\ InfoHasFile' /\ HdHasSeed' /\ RecoveryDerived' /\ Creating' /\ Encrypted' /\ Recovering' /\ Deleting' /\ Rekeying'
    BY DEF Named, NamedPCs, Dead, CallNext, InfoHasFile, HdHasSeed, RecoveryDerived, Creating, Encrypted, Recovering, Present, DeletingGroup, Group, Rekeying
  <1> QED BY <1>1, <1>2, <1>3, <1>4, <1>5, <1>6

LEMMA DropInfoStep ==
  ASSUME IInv, DropInfo
  PROVE  IInv'
  <1> USE DEF IInv, TypeOK, Calls, DropInfo, history, Deleting, Named, NamedPCs
  <1>1. TypeOK'
    <2>1. call' \in Calls BY IdleCall DEF PCs
    <2>2. info' \in [Names -> Types \cup {"none"}] OBVIOUS
    <2> QED BY <2>1, <2>2
  <1>2. InfoHasFile'
    BY DEF InfoHasFile, Idle
  <1>3. HdOnDisk' /\ HdLive'
    BY DEF HdOnDisk, DeletingGroup, HdLive, Idle
  <1>4. GroupHasHead'
    BY DEF GroupHasHead, NoGroupListed, Group, Present, IsHead, GroupTypes
  <1>5. Named' /\ Dead' /\ CallNext' /\ AttachedOpen' /\ HdHasSeed' /\ RecoveryDerived' /\ Creating' /\ Encrypted' /\ Recovering' /\ Deleting' /\ Rekeying'
    BY DEF Dead, CallNext, AttachedOpen, HdHasSeed, RecoveryDerived, Creating, Encrypted, Recovering, Present, DeletingGroup, Group, Rekeying, Idle
  <1> QED BY <1>1, <1>2, <1>3, <1>4, <1>5

LEMMA UpdatePasswordStep ==
  ASSUME IInv, NEW old \in Passwords, NEW new \in Passwords, UpdatePassword(old, new)
  PROVE  IInv'
  <1> USE DEF IInv, TypeOK, Calls, UpdatePassword, durable, history, Ready, Idle, Checked, GetCheckWallet
  <1>1. TypeOK'
    BY DEF PCs, CheckRef, Present, KeyStores, Types
  <1>2. AttachedOpen'
    BY DEF AttachedOpen, Present, CheckRef
  <1>3. Named' /\ Dead' /\ CallNext' /\ InfoHasFile' /\ HdHasSeed' /\ RecoveryDerived' /\ HdOnDisk' /\ HdLive' /\ Creating' /\ Encrypted' /\ Recovering' /\ Deleting' /\ Rekeying' /\ GroupHasHead'
    BY DEF Named, NamedPCs, Dead, CallNext, InfoHasFile, HdHasSeed, RecoveryDerived, HdOnDisk, DeletingGroup, HdLive, Creating, Encrypted, Recovering, Present, Deleting, Group, Rekeying, GroupHasHead, NoGroupListed, IsHead
  <1> QED BY <1>1, <1>2, <1>3

LEMMA RekeyStep ==
  ASSUME IInv, NEW n \in Names, Rekey(n)
  PROVE  IInv'
  <1> USE SentinelAssumption DEF IInv, TypeOK, Calls, Rekey, Rekeyed, history, Idle, Rekeying, Present, Wallet
  <1>1. TypeOK'
    BY DEF PCs, Types, KeyStores
  <1>2. AttachedOpen'
    BY DEF AttachedOpen, CheckRef
  <1>3. InfoHasFile'
    BY DEF InfoHasFile
  <1>4. HdHasSeed'
    BY DEF HdHasSeed
  <1>5. HdOnDisk' /\ HdLive'
    BY DEF HdOnDisk, DeletingGroup, HdLive
  <1>6. GroupHasHead'
    BY DEF GroupHasHead, NoGroupListed, Group, IsHead, InfoHasFile, GroupTypes
  <1>7. Named' /\ Dead' /\ CallNext' /\ RecoveryDerived' /\ Creating' /\ Encrypted' /\ Recovering' /\ Deleting' /\ Rekeying'
    BY DEF Named, NamedPCs, Dead, CallNext, RecoveryDerived, Creating, Encrypted, Recovering, Deleting, DeletingGroup, Group
  <1> QED BY <1>1, <1>2, <1>3, <1>4, <1>5, <1>6, <1>7

LEMMA RekeyRaisesStep ==
  ASSUME IInv, NEW n \in Names, RekeyRaises(n)
  PROVE  IInv'
  <1> USE DEF IInv, TypeOK, Calls, RekeyRaises, durable, volatile, history, Idle
  <1>1. TypeOK'
    BY DEF PCs, Types, KeyStores
  <1>2. Named' /\ Dead' /\ CallNext' /\ AttachedOpen' /\ InfoHasFile' /\ HdHasSeed' /\ RecoveryDerived' /\ HdOnDisk' /\ HdLive' /\ Creating' /\ Encrypted' /\ Recovering' /\ Deleting' /\ Rekeying' /\ GroupHasHead'
    BY DEF Named, NamedPCs, Dead, CallNext, AttachedOpen, InfoHasFile, HdHasSeed, RecoveryDerived, HdOnDisk, DeletingGroup, HdLive, Creating, Encrypted, Recovering, Present, Deleting, Group, Rekeying, GroupHasHead, NoGroupListed, IsHead
  <1> QED BY <1>1, <1>2

LEMMA RekeyAssertsStep ==
  ASSUME IInv, NEW n \in Names, RekeyAsserts(n)
  PROVE  IInv'
  <1> USE SentinelAssumption DEF IInv, TypeOK, Calls, RekeyAsserts, Rekeyed, durable, history, Idle, Rekeying, Present, Wallet
  <1>1. TypeOK'
    BY DEF PCs, Types, KeyStores
  <1>2. AttachedOpen'
    BY DEF AttachedOpen, CheckRef
  <1>3. HdHasSeed'
    BY DEF HdHasSeed
  <1>4. HdOnDisk' /\ HdLive'
    BY DEF HdOnDisk, DeletingGroup, HdLive
  <1>5. Named' /\ Dead' /\ CallNext' /\ InfoHasFile' /\ RecoveryDerived' /\ Creating' /\ Encrypted' /\ Recovering' /\ Deleting' /\ Rekeying' /\ GroupHasHead'
    BY DEF Named, NamedPCs, Dead, CallNext, InfoHasFile, RecoveryDerived, Creating, Encrypted, Recovering, Deleting, DeletingGroup, Group, GroupHasHead, NoGroupListed, IsHead
  <1> QED BY <1>1, <1>2, <1>3, <1>4, <1>5

LEMMA RekeyNothingStep ==
  ASSUME IInv, RekeyNothing
  PROVE  IInv'
  <1> USE DEF IInv, TypeOK, Calls, RekeyNothing, durable, volatile, history, Idle
  <1>1. TypeOK'
    BY DEF PCs, Types, KeyStores
  <1>2. Named' /\ Dead' /\ CallNext' /\ AttachedOpen' /\ InfoHasFile' /\ HdHasSeed' /\ RecoveryDerived' /\ HdOnDisk' /\ HdLive' /\ Creating' /\ Encrypted' /\ Recovering' /\ Deleting' /\ Rekeying' /\ GroupHasHead'
    BY DEF Named, NamedPCs, Dead, CallNext, AttachedOpen, InfoHasFile, HdHasSeed, RecoveryDerived, HdOnDisk, DeletingGroup, HdLive, Creating, Encrypted, Recovering, Present, Deleting, Group, Rekeying, GroupHasHead, NoGroupListed, IsHead
  <1> QED BY <1>1, <1>2

LEMMA StartStep ==
  ASSUME IInv, Start
  PROVE  IInv'
  <1> USE DEF IInv, TypeOK, Calls, Start, history, Dead, Idle, Present, IsHead, HdHasSeed
  <1>1. TypeOK'
    BY DEF PCs
  <1>2. HdOnDisk' /\ HdLive'
    BY DEF HdOnDisk, DeletingGroup, HdLive
  <1>3. GroupHasHead'
    BY DEF GroupHasHead, NoGroupListed, Group, GroupTypes
  <1>4. Named' /\ Dead' /\ CallNext' /\ AttachedOpen' /\ InfoHasFile' /\ HdHasSeed' /\ RecoveryDerived' /\ Creating' /\ Encrypted' /\ Recovering' /\ Deleting' /\ Rekeying'
    BY DEF Named, NamedPCs, CallNext, AttachedOpen, InfoHasFile, RecoveryDerived, Creating, Encrypted, Recovering, Deleting, DeletingGroup, Group, Rekeying
  <1> QED BY <1>1, <1>2, <1>3, <1>4

LEMMA StopStep ==
  ASSUME IInv, Stop
  PROVE  IInv'
  <1> USE DEF IInv, TypeOK, Calls, Stop, durable, history, Idle, NoWallets
  <1>1. TypeOK'
    BY DEF PCs, Types, KeyStores
  <1>2. Named' /\ Dead' /\ CallNext' /\ AttachedOpen' /\ InfoHasFile' /\ HdHasSeed' /\ RecoveryDerived' /\ HdOnDisk' /\ HdLive' /\ Creating' /\ Encrypted' /\ Recovering' /\ Deleting' /\ Rekeying' /\ GroupHasHead'
    BY DEF Named, NamedPCs, Dead, CallNext, AttachedOpen, InfoHasFile, HdHasSeed, RecoveryDerived, HdOnDisk, DeletingGroup, HdLive, Creating, Encrypted, Recovering, Present, Deleting, Group, Rekeying, GroupHasHead, NoGroupListed, IsHead
  <1> QED BY <1>1, <1>2

\* create up to its first save, for any of its callers
LEMMA BeginCreateStep ==
  ASSUME IInv, Ready,
         NEW n \in Names, NEW ks \in KeyStores, NEW type \in Types,
         NEW pw \in Passwords \cup {NoPw}, NEW path \in BOOLEAN,
         NEW next \in {"idle", "flag", "scan"},
         BeginCreate(n, ks, type, pw, path, next),
         used' \in SUBSET Seeds, unconfirmed' \in SUBSET Seeds,
         type \in GroupTypes => ks = "seed",
         type = "hd" => (hdWallet = NoName <=> n.coin = Btc),
         type = "hd" /\ n.coin = Btc => n.acct = 0,
         type = "derived" => hdWallet # NoName,
         next = "scan" => path
  PROVE  IInv'
  <1> USE SentinelAssumption DEF IInv, TypeOK, BeginCreate, Ready
  <1>1. /\ call' \in Calls
        /\ call'.pc = "encrypt" /\ call'.name = n /\ call'.type = type
        /\ call'.ks = ks /\ call'.path = path /\ call'.next = next
    BY IdleCall DEF Calls, PCs
  <1>2. [ks |-> ks, pw |-> NoPw] \in Wallet
    BY DEF Wallet
  <1>3. info[n] = "none"
    BY DEF InfoHasFile
  <1>4. TypeOK'
    BY <1>1, <1>2 DEF CheckAtCreate, Checked, GetCheckWallet, CheckRef, Present
  <1>5. AttachedOpen'
    BY DEF AttachedOpen, CheckAtCreate, Checked, GetCheckWallet, CheckRef, Present
  <1>6. Creating' /\ Encrypted'
    BY <1>1, <1>2, <1>3 DEF Creating, Encrypted
  <1>7. GroupHasHead'
    BY <1>3 DEF GroupHasHead, NoGroupListed, Group, Present, IsHead, GroupTypes
  <1>8. InfoHasFile' /\ HdHasSeed'
    BY <1>2, <1>3 DEF InfoHasFile, HdHasSeed
  <1>9. HdOnDisk' /\ HdLive'
    BY <1>1, <1>2 DEF HdOnDisk, HdLive, DeletingGroup
  <1>10. /\ Named' /\ Dead' /\ CallNext' /\ RecoveryDerived'
         /\ Recovering' /\ Deleting' /\ Rekeying'
    BY <1>1 DEF Named, NamedPCs, Dead, CallNext, RecoveryDerived, Recovering,
                Deleting, DeletingGroup, Rekeying
  <1> QED BY <1>4, <1>5, <1>6, <1>7, <1>8, <1>9, <1>10

\* A wallet of account 0 on Btc, the one every mnemonic starts with
LEMMA Account0 ==
  ASSUME NEW s \in Seeds
  PROVE  [seed |-> s, coin |-> Btc, acct |-> 0] \in Names
  BY ConstantsAssumption DEF Names, Accounts

\* While no group is listed there is no HD wallet.
LEMMA NoGroupNoHd ==
  ASSUME IInv, Ready, NoGroupListed PROVE hdWallet = NoName
  BY DEF IInv, TypeOK, Ready, NoGroupListed, Group, GroupTypes, HdLive, HdOnDisk, DeletingGroup

LEMMA CreateHdStep ==
  ASSUME IInv, NEW s \in Seeds, NEW pw \in Passwords,
         CreateHd(s, pw) \/ ImportHd(s, pw)
  PROVE  IInv'
  <1> DEFINE n == [seed |-> s, coin |-> Btc, acct |-> 0]
  <1>1. \E next \in {"flag", "scan"} : BeginCreate(n, "seed", "hd", pw, TRUE, next)
    BY DEF CreateHd, ImportHd
  <1>2. Ready /\ n \in Names /\ n.coin = Btc /\ n.acct = 0 /\ hdWallet = NoName
    BY Account0, NoGroupNoHd DEF CreateHd, ImportHd
  <1>3. used' \in SUBSET Seeds /\ unconfirmed' \in SUBSET Seeds
    BY DEF CreateHd, ImportHd, IInv, TypeOK
  <1> HIDE DEF n
  <1> QED BY <1>1, <1>2, <1>3, BeginCreateStep DEF KeyStores, Types, GroupTypes

LEMMA CreateStandaloneStep ==
  ASSUME IInv, NEW s \in Seeds, NEW pw \in Passwords,
         CreateStandalone(s, pw) \/ ImportSeed(s, pw)
  PROVE  IInv'
  <1> DEFINE n == [seed |-> s, coin |-> Btc, acct |-> 0]
  <1>1. \E next \in {"idle", "flag"} : BeginCreate(n, "seed", "standard", pw, FALSE, next)
    BY DEF CreateStandalone, ImportSeed
  <1>2. Ready /\ n \in Names
    BY Account0 DEF CreateStandalone, ImportSeed
  <1>3. used' \in SUBSET Seeds /\ unconfirmed' \in SUBSET Seeds
    BY DEF CreateStandalone, ImportSeed, IInv, TypeOK
  <1> HIDE DEF n
  <1> QED BY <1>1, <1>2, <1>3, BeginCreateStep DEF KeyStores, Types, GroupTypes

LEMMA ImportStep ==
  ASSUME IInv, NEW n \in ImportNames,
         (\E pw \in Passwords : ImportPrivkey(n, pw)) \/ ImportAddress(n)
  PROVE  IInv'
  <1>1. \/ \E pw \in Passwords : BeginCreate(n, "priv", "private", pw, FALSE, "idle")
        \/ BeginCreate(n, "watch", "watch", NoPw, FALSE, "idle")
    BY DEF ImportPrivkey, ImportAddress
  <1>2. Ready /\ n \in Names
    BY ConstantsAssumption DEF ImportPrivkey, ImportAddress
  <1>3. used' \in SUBSET Seeds /\ unconfirmed' \in SUBSET Seeds
    BY <1>2 DEF ImportPrivkey, ImportAddress, IInv, TypeOK, Names
  <1> QED BY <1>1, <1>2, <1>3, BeginCreateStep DEF KeyStores, Types, GroupTypes

LEMMA CreateDerivedStep ==
  ASSUME IInv, NEW coin \in Coins, NEW pw \in Passwords, CreateDerived(coin, pw)
  PROVE  IInv'
  <1> DEFINE n(a) == [seed |-> hdWallet.seed, coin |-> coin, acct |-> a]
             type(a) == IF ~HasHdType(coin) THEN "hd"
                        ELSE IF a # 0 THEN "derived" ELSE "standard"
  <1>1. PICK a \in Accounts : BeginCreate(n(a), "seed", type(a), pw, TRUE, "idle")
    BY DEF CreateDerived, FreeAccounts
  <1>2. Ready /\ hdWallet # NoName /\ hdWallet \in Names /\ n(a) \in Names /\ n(a).coin = coin
    BY DEF CreateDerived, IInv, TypeOK, Names
  <1>3. used' \in SUBSET Seeds /\ unconfirmed' \in SUBSET Seeds
    BY DEF CreateDerived, history, IInv, TypeOK
  <1>4. type(a) = "hd" => coin # Btc
    BY <1>2 DEF HasHdType, Present, IInv, HdLive, HdOnDisk, DeletingGroup, Ready
  <1>5. type(a) \in Types
    BY DEF Types
  <1> HIDE DEF n, type
  <1> QED BY <1>1, <1>2, <1>3, <1>4, <1>5, BeginCreateStep DEF KeyStores

LEMMA Initially == ASSUME Init PROVE IInv
  <1> USE DEF Init, IInv, NoWallets, Idle
  <1>1. TypeOK
    BY IdleCall DEF TypeOK
  <1>2. /\ Named /\ Dead /\ AttachedOpen /\ InfoHasFile /\ HdHasSeed /\ RecoveryDerived
        /\ HdOnDisk /\ Creating /\ Encrypted /\ CallNext /\ Recovering /\ Deleting
        /\ Rekeying /\ HdLive /\ GroupHasHead
    BY DEF Named, NamedPCs, Dead, AttachedOpen, InfoHasFile, HdHasSeed, RecoveryDerived,
           HdOnDisk, Creating, Encrypted, CallNext, Recovering, Deleting, DeletingGroup,
           Rekeying, HdLive, GroupHasHead, NoGroupListed, Group, GroupTypes
  <1> QED BY <1>1, <1>2

LEMMA Inductive == ASSUME IInv, [NextCrash]_vars PROVE IInv'
  <1>1. CASE UNCHANGED vars
    BY <1>1 DEF vars, durable, volatile, history, IInv, TypeOK, Named, NamedPCs, Dead,
      AttachedOpen, InfoHasFile, HdHasSeed, RecoveryDerived, HdOnDisk, Creating,
      Encrypted, CallNext, Recovering, Deleting, DeletingGroup, Rekeying, HdLive,
      GroupHasHead, NoGroupListed, Group, Present, IsHead
  <1>2. CASE Start
    BY <1>2, StartStep
  <1>3. CASE Quit \/ Crash
    BY <1>3, StopStep DEF Quit, Crash
  <1>4. CASE CallStep
    BY <1>4, EncryptStep, RegisterStep, RecordStep, FlagBackupStep, ScanStep,
       ConfirmSaveStep, ConfirmAssertsStep, ConfirmRecordStep, ConfirmTypeStep,
       ConfirmDoneStep, ForgetStep, DropInfoStep, UnlinkStep, UnlinkAssertsStep,
       RekeyStep, RekeyRaisesStep, RekeyAssertsStep, RekeyNothingStep DEF CallStep
  <1>5. CASE Request
    BY <1>5, CheckPasswordStep, CreateRefusedStep, CreateHdStep, CreateStandaloneStep,
       ImportStep, CreateDerivedStep, RecoveryConfirmedStep, ConfirmBackupStep,
       DeleteStep, UpdatePasswordStep DEF Request
  <1> QED BY <1>1, <1>2, <1>3, <1>4, <1>5 DEF NextCrash, Next

\* The inductive invariant holds in every life of the app, orderly or not.
THEOREM Invariance == SpecCrash => []IInv
  BY Initially, Inductive, PTL DEF SpecCrash

\* Every variable keeps its type, whenever the process is killed.
THEOREM TypeCorrect == SpecCrash => []TypeOK
  <1>1. IInv => TypeOK
    BY DEF IInv
  <1> QED BY <1>1, Invariance, PTL

\* The wallet self.hd_wallet points at is open in the daemon with its mnemonic
\* and listed as an HD wallet, except while its group is being deleted.
THEOREM HdWalletLive == SpecCrash => []HdLive
  <1>1. IInv => HdLive
    BY DEF IInv
  <1> QED BY <1>1, Invariance, PTL

\* While an HD or derived wallet is listed so is their HD wallet: killing the
\* app never leaves a group that can neither be deleted nor replaced.
THEOREM GroupKeepsHead == SpecCrash => []GroupHasHead
  <1>1. IInv => GroupHasHead
    BY DEF IInv
  <1> QED BY <1>1, Invariance, PTL

\* A wallet the daemon has open is of the kind its file says, but for those
\* that recovery_confirmed could not save; create encrypts what it saved.
Kinds ==
  /\ \A n \in Names \ unsaved : wallets[n] # NoWallet =>
       files[n] # NoWallet /\ files[n].ks = wallets[n].ks
  /\ call.pc = "encrypt" => files[call.name].ks = call.ks
  /\ call.pc = "unlink" => call.todo \subseteq Names

LEMMA KindsStep ==
  ASSUME IInv, Kinds, [NextCrash]_vars
  PROVE  Kinds' /\ (\A n \in Names : files[n] # NoWallet =>
                      \/ files'[n] # NoWallet /\ files'[n].ks = files[n].ks
                      \/ /\ files'[n] = NoWallet /\ call.pc = "unlink"
                         /\ n \in call.todo \ unsaved)
<1> USE SentinelAssumption DEF IInv, TypeOK, Calls, Kinds, durable, volatile, history, Idle, Present
<1>1. ASSUME NEW n, NEW ks \in KeyStores, NEW type, NEW pw, NEW path, NEW next, Ready,
             BeginCreate(n, ks, type, pw, path, next), n \in Names
      PROVE  Kinds' /\ \A m \in Names : files[m] # NoWallet => files'[m] = files[m]
  BY <1>1 DEF BeginCreate
<1>2. CASE Encrypt
  BY <1>2 DEF Encrypt, Named, NamedPCs, Creating, Wallet
<1>3. CASE Register
  BY <1>3 DEF Register, Created, CallNext, Named, NamedPCs, Creating
<1>4. CASE Record \/ FlagBackup \/ Scan
  BY <1>4 DEF Record, FlagBackup, Scan, Created, CallNext
<1>5. ASSUME NEW n \in Names, ConfirmSave(n)
      PROVE  Kinds' /\ \A m \in Names : files[m] # NoWallet => files'[m] = files[m]
  BY <1>5 DEF ConfirmSave, Recovering
<1>6. ASSUME NEW n \in Names, ConfirmAsserts(n) PROVE Kinds' /\ files' = files
  BY <1>6 DEF ConfirmAsserts
<1>7. CASE ConfirmRecord \/ ConfirmType \/ ConfirmDone
  BY <1>7 DEF ConfirmRecord, ConfirmType, ConfirmDone
<1>8. CASE Forget \/ DropInfo
  BY <1>8 DEF Forget, DropInfo
<1>9. ASSUME NEW n \in Names, Unlink(n)
      PROVE  /\ Kinds' /\ \A m \in Names : m # n => files'[m] = files[m]
             /\ files'[n] = NoWallet /\ call.pc = "unlink" /\ n \in call.todo \ unsaved
  BY <1>9 DEF Unlink, MayUnlink
<1>10. ASSUME NEW n \in Names, UnlinkAsserts(n) \/ RekeyRaises(n) \/ RekeyAsserts(n)
      PROVE  Kinds' /\ files' = files
  BY <1>10 DEF UnlinkAsserts, RekeyRaises, RekeyAsserts
<1>11. ASSUME NEW n \in Names, Rekey(n)
       PROVE  /\ Kinds' /\ files'[n] # NoWallet /\ files'[n].ks = files[n].ks
              /\ \A m \in Names : m # n => files'[m] = files[m]
  BY <1>11 DEF Rekey, Rekeyed, Rekeying, Wallet
<1>12. CASE RekeyNothing \/ UNCHANGED vars
  BY <1>12 DEF RekeyNothing, vars
<1>13. CASE Start \/ Quit \/ Crash
  BY <1>13 DEF Start, Quit, Crash, Stop, NoWallets, Dead
<1>14. CASE Request
  <2>1. ASSUME NEW s \in Seeds, NEW pw \in Passwords,
               CreateHd(s, pw) \/ ImportHd(s, pw) \/ CreateStandalone(s, pw) \/ ImportSeed(s, pw)
        PROVE  Kinds' /\ \A m \in Names : files[m] # NoWallet => files'[m] = files[m]
    BY <2>1, <1>1, Account0 DEF CreateHd, ImportHd, CreateStandalone, ImportSeed, KeyStores
  <2>2. ASSUME NEW n \in ImportNames,
               (\E pw \in Passwords : ImportPrivkey(n, pw)) \/ ImportAddress(n)
        PROVE  Kinds' /\ \A m \in Names : files[m] # NoWallet => files'[m] = files[m]
    BY <2>2, <1>1, ConstantsAssumption DEF ImportPrivkey, ImportAddress, KeyStores
  <2>3. ASSUME NEW coin \in Coins, NEW pw \in Passwords, CreateDerived(coin, pw)
        PROVE  Kinds' /\ \A m \in Names : files[m] # NoWallet => files'[m] = files[m]
    <3> DEFINE n(a) == [seed |-> hdWallet.seed, coin |-> coin, acct |-> a]
    <3>1. PICK a \in Accounts, type \in {"hd", "derived", "standard"} :
            Ready /\ BeginCreate(n(a), "seed", type, pw, TRUE, "idle")
      BY <2>3 DEF CreateDerived, FreeAccounts
    <3>2. n(a) \in Names
      BY <2>3 DEF CreateDerived, Names
    <3> HIDE DEF n
    <3> QED BY <3>1, <3>2, <1>1 DEF KeyStores
  <2>4. CASE CheckPassword \/ CreateRefused \/ \E n \in Names : ConfirmBackup(n)
    BY <2>4 DEF CheckPassword, CreateRefused, ConfirmBackup
  <2>5. CASE \E sel \in SUBSET Names : RecoveryConfirmed(sel)
    BY <2>5 DEF RecoveryConfirmed
  <2>6. CASE \E n \in Names, pw \in Passwords : Delete(n, pw)
    BY <2>6 DEF Delete, Doomed, Group
  <2>7. CASE \E old, new \in Passwords : UpdatePassword(old, new)
    BY <2>7 DEF UpdatePassword
  <2> QED BY <1>14, <2>1, <2>2, <2>3, <2>4, <2>5, <2>6, <2>7 DEF Request
<1> QED BY <1>2, <1>3, <1>4, <1>5, <1>6, <1>7, <1>8, <1>9, <1>10, <1>11, <1>12, <1>13,
           <1>14 DEF NextCrash, Next, CallStep

\* A wallet file never gets another wallet, whatever addresses of derived
\* accounts were imported and wherever the process is killed.
THEOREM NothingIsReplaced == SpecCrash => WalletsAreNotReplaced
  <1>1. Init => IInv
    BY Initially
  <1>2. Init => Kinds
    BY DEF Init, Kinds, NoWallets, Idle
  <1>3. IInv /\ Kinds /\ [NextCrash]_vars => (IInv /\ Kinds)'
    BY Inductive, KindsStep
  <1>4. IInv /\ Kinds /\ [NextCrash]_vars =>
          \A n \in Names : files[n] # NoWallet =>
            \/ files'[n] # NoWallet /\ files'[n].ks = files[n].ks
            \/ files'[n] = NoWallet /\ call.pc = "unlink" /\ n \in call.todo \ unsaved
    BY KindsStep
  <1> QED BY <1>1, <1>2, <1>3, <1>4, PTL DEF SpecCrash, WalletsAreNotReplaced
-----------------------------------------------------------------------------
NoOverlap == \A n \in ImportNames : n.acct = 0

Confirming == {"awaitConfirm", "confirm", "confirmRecord", "confirmType"}

\* Every typed entry has its file, whether the process lives or not.
InfoSound ==
  \A n \in Names : info[n] # "none" =>
    files[n] # NoWallet \/ (call.pc = "dropInfo" /\ call.name = n)

\* A wallet of an account other than 0 is in the group, or is about to be.
DerivedInGroup ==
  \A n \in Present(files) : n.acct # 0 =>
    \/ n \in Group
    \/ n = call.name /\ call.pc \in {"encrypt", "register"} /\ call.type \in GroupTypes
    \/ n = call.name /\ call.pc \in {"confirmRecord", "confirmType"}

\* The group has the mnemonic of the HD wallet, and is empty without one.
GroupOfHd ==
  /\ GroupOneSeed
  /\ running /\ hdWallet = NoName => Group = {}
  /\ hdWallet # NoName => \A n \in Group : n.seed = hdWallet.seed

\* A wallet on its way into the group has that mnemonic too.
Joining ==
  /\ call.pc \in {"encrypt", "register"} /\ call.type \in GroupTypes /\ hdWallet # NoName =>
       call.name.seed = hdWallet.seed
  /\ call.pc \in {"confirmRecord", "confirmType"} => call.name \in Present(recovery)

\* Importing an HD mnemonic: up to the scan no other wallet of it exists.
Importing ==
  call.pc \in {"encrypt", "register", "record", "scan"} /\ call.next = "scan" =>
    /\ call.type = "hd" /\ call.path /\ call.name.coin = Btc
    /\ call.pc \in {"record", "scan"} => hdWallet # NoName /\ call.name.seed = hdWallet.seed
    /\ \A n \in Present(files) : n.seed = call.name.seed /\ n.coin = Btc => n.acct = 0

\* The wallets to recover: of the HD wallet's mnemonic, and not yet on the disk
ToRecover ==
  /\ call.pc \notin Confirming => Present(recovery) = {}
  /\ call.pc \in Confirming => \A n \in Present(recovery) : n.seed = hdWallet.seed
  /\ call.pc = "awaitConfirm" => \A n \in Present(recovery) : files[n] = NoWallet
  /\ call.pc \in {"confirm", "confirmRecord", "confirmType"} =>
       \A n \in call.todo : files[n] = NoWallet

\* Only an import of an HD mnemonic goes on to a scan.
ScanIsImport == call.pc = "scan" => call.next = "scan"

\* The daemon opens no wallet that is not on the disk, in a file of its own.
OpenOnDisk ==
  /\ unsaved = {}
  /\ \A n \in Names : wallets[n] # NoWallet => files[n] # NoWallet

GInv ==
  /\ OpenOnDisk /\ InfoSound /\ DerivedInGroup /\ GroupOfHd /\ Joining /\ Importing /\ ToRecover
  /\ ScanIsImport

LEMMA EncryptKeeps ==
  ASSUME IInv, GInv, Encrypt
  PROVE  GInv'
  <1> USE SentinelAssumption DEF GInv, Encrypt, IInv, TypeOK, Calls, volatile, history, Named, NamedPCs, Creating
  <1>1. OpenOnDisk' /\ InfoSound' /\ DerivedInGroup' /\ GroupOfHd' /\ Joining' /\ Importing' /\ ToRecover' /\ ScanIsImport'
    BY DEF OpenOnDisk, InfoSound, DerivedInGroup, Present, Group, GroupOfHd, GroupOneSeed, Joining, Importing, ToRecover, Confirming, ScanIsImport, Wallet
  <1> QED BY <1>1

LEMMA RegisterKeeps ==
  ASSUME IInv, GInv, Register
  PROVE  GInv'
  <1> USE DEF GInv, Register, IInv, TypeOK, Calls, history, Named, NamedPCs, CallNext, Creating, Created, Idle
  <1>1. \A m \in Names : m # call.name => info'[m] = info[m]
    OBVIOUS
  <1>2. info'[call.name] = call.type
    OBVIOUS
  <1>3. Group' = IF call.type \in GroupTypes THEN Group \cup {call.name} ELSE Group
    BY <1>1, <1>2 DEF Group, GroupTypes
  <1>4. hdWallet = NoName => Group = {}
    BY DEF GroupOfHd
  <1>5. GroupOfHd'
    <2>1. CASE call.type \notin GroupTypes
      BY <2>1, <1>3, <1>4 DEF GroupOfHd, GroupOneSeed, GroupTypes
    <2>2. CASE call.type \in GroupTypes /\ hdWallet = NoName
      BY <2>2, <1>3, <1>4, ConstantsAssumption DEF GroupOfHd, GroupOneSeed, GroupTypes
    <2>3. CASE call.type \in GroupTypes /\ hdWallet # NoName
      BY <2>3, <1>3 DEF GroupOfHd, GroupOneSeed, Joining
    <2> QED BY <2>1, <2>2, <2>3
  <1>6. DerivedInGroup'
    BY <1>3 DEF DerivedInGroup, Present, Group
  <1>7. OpenOnDisk' /\ InfoSound'
    BY DEF OpenOnDisk, InfoSound
  <1>8. Joining' /\ ToRecover' /\ ScanIsImport'
    BY DEF Joining, Present, ToRecover, Confirming, ScanIsImport
  <1>9. Importing'
    <2>1. CASE call.next # "scan" BY <2>1 DEF Importing
    <2>2. CASE call.next = "scan"
      BY <2>2, ConstantsAssumption DEF Importing, Joining, Present
    <2> QED BY <2>1, <2>2
  <1> QED BY <1>5, <1>6, <1>7, <1>8, <1>9

LEMMA RecordKeeps ==
  ASSUME IInv, GInv, Record
  PROVE  GInv'
  <1> USE DEF GInv, Record, IInv, TypeOK, Calls, history, volatile, CallNext, Created, Idle
  <1>1. OpenOnDisk' /\ InfoSound' /\ DerivedInGroup' /\ GroupOfHd' /\ Joining' /\ Importing' /\ ToRecover' /\ ScanIsImport'
    BY DEF OpenOnDisk, InfoSound, DerivedInGroup, Present, Group, GroupOfHd, GroupOneSeed, Joining, Importing, ToRecover, Confirming, ScanIsImport
  <1> QED BY <1>1

LEMMA FlagBackupKeeps ==
  ASSUME IInv, GInv, FlagBackup
  PROVE  GInv'
  <1> USE DEF GInv, FlagBackup, history, volatile, Idle
  <1>1. OpenOnDisk' /\ InfoSound' /\ DerivedInGroup' /\ GroupOfHd' /\ Joining' /\ Importing' /\ ToRecover' /\ ScanIsImport'
    BY DEF OpenOnDisk, InfoSound, DerivedInGroup, Present, Group, GroupOfHd, GroupOneSeed, Joining, Importing, ToRecover, Confirming, ScanIsImport
  <1> QED BY <1>1

LEMMA ScanKeeps ==
  ASSUME IInv, GInv, Scan
  PROVE  GInv'
  <1> USE SentinelAssumption DEF GInv, Scan, IInv, TypeOK, Calls, durable, history, Idle, Named, NamedPCs
  <1>1. ToRecover'
    BY DEF ToRecover, Confirming, Present, Scanned, Opened, Wallet, KeyStores, Importing, ScanIsImport
  <1>2. OpenOnDisk' /\ InfoSound' /\ DerivedInGroup' /\ GroupOfHd' /\ Joining' /\ Importing' /\ ScanIsImport'
    BY DEF OpenOnDisk, InfoSound, DerivedInGroup, Present, Group, GroupOfHd, GroupOneSeed, Joining, Importing, ScanIsImport
  <1> QED BY <1>1, <1>2

LEMMA RecoveryConfirmedKeeps ==
  ASSUME IInv, GInv, NEW sel \in SUBSET Names, RecoveryConfirmed(sel)
  PROVE  GInv'
  <1> USE DEF GInv, RecoveryConfirmed, IInv, TypeOK, Calls, durable, volatile, history
  <1>1. OpenOnDisk' /\ InfoSound' /\ DerivedInGroup' /\ GroupOfHd' /\ Joining' /\ Importing' /\ ToRecover' /\ ScanIsImport'
    BY DEF OpenOnDisk, InfoSound, DerivedInGroup, Present, Group, GroupOfHd, GroupOneSeed, Joining, Importing, ToRecover, Confirming, ScanIsImport
  <1> QED BY <1>1

LEMMA ConfirmSaveKeeps ==
  ASSUME IInv, GInv, NEW n \in Names, ConfirmSave(n)
  PROVE  GInv'
  <1> USE DEF GInv, ConfirmSave, IInv, TypeOK, Calls, history, Recovering, Present
  <1>1. OpenOnDisk' /\ InfoSound' /\ DerivedInGroup' /\ GroupOfHd' /\ Joining' /\ Importing' /\ ToRecover' /\ ScanIsImport'
    BY DEF OpenOnDisk, InfoSound, DerivedInGroup, Group, GroupOfHd, GroupOneSeed, Joining, Importing, ToRecover, Confirming, ScanIsImport
  <1> QED BY <1>1

LEMMA ConfirmRecordKeeps ==
  ASSUME IInv, GInv, ConfirmRecord
  PROVE  GInv'
  <1> USE DEF GInv, ConfirmRecord, IInv, TypeOK, Calls, history, volatile
  <1>1. OpenOnDisk' /\ InfoSound' /\ DerivedInGroup' /\ GroupOfHd' /\ Joining' /\ Importing' /\ ToRecover' /\ ScanIsImport'
    BY DEF OpenOnDisk, InfoSound, DerivedInGroup, Present, Group, GroupOfHd, GroupOneSeed, Joining, Importing, ToRecover, Confirming, ScanIsImport
  <1> QED BY <1>1

LEMMA ConfirmTypeKeeps ==
  ASSUME IInv, GInv, ConfirmType
  PROVE  GInv'
  <1> USE DEF GInv, ConfirmType, IInv, TypeOK, Calls, history, volatile, Recovering, Named, NamedPCs
  <1>1. GroupOfHd'
    BY DEF GroupOfHd, GroupOneSeed, Group, GroupTypes, Joining, ToRecover, Confirming, Present
  <1>2. OpenOnDisk' /\ InfoSound' /\ DerivedInGroup' /\ Joining' /\ Importing' /\ ToRecover' /\ ScanIsImport'
    BY DEF OpenOnDisk, InfoSound, DerivedInGroup, Present, Group, Joining, Importing, ToRecover, Confirming, ScanIsImport, GroupTypes
  <1> QED BY <1>1, <1>2

LEMMA ConfirmDoneKeeps ==
  ASSUME IInv, GInv, ConfirmDone
  PROVE  GInv'
  <1> USE DEF GInv, ConfirmDone, history, durable, Idle, NoWallets
  <1>1. OpenOnDisk' /\ InfoSound' /\ DerivedInGroup' /\ GroupOfHd' /\ Joining' /\ Importing' /\ ToRecover' /\ ScanIsImport'
    BY DEF OpenOnDisk, InfoSound, DerivedInGroup, Present, Group, GroupOfHd, GroupOneSeed, Joining, Importing, ToRecover, Confirming, ScanIsImport
  <1> QED BY <1>1

LEMMA DeleteKeeps ==
  ASSUME IInv, GInv, NEW n \in Names, NEW pw \in Passwords, Delete(n, pw)
  PROVE  GInv'
  <1> USE DEF GInv, Delete, IInv, TypeOK, Calls, durable, history, Ready, Idle
  <1>1. OpenOnDisk' /\ InfoSound' /\ DerivedInGroup' /\ GroupOfHd' /\ Joining' /\ Importing' /\ ToRecover' /\ ScanIsImport'
    BY DEF OpenOnDisk, InfoSound, DerivedInGroup, Present, Group, GroupOfHd, GroupOneSeed, Joining, Importing, ToRecover, Confirming, ScanIsImport
  <1> QED BY <1>1

LEMMA ForgetKeeps ==
  ASSUME IInv, GInv, Forget
  PROVE  GInv'
  <1> USE DEF GInv, Forget, IInv, TypeOK, Calls, volatile, history
  <1>1. OpenOnDisk' /\ InfoSound' /\ DerivedInGroup' /\ GroupOfHd' /\ Joining' /\ Importing' /\ ToRecover' /\ ScanIsImport'
    BY DEF OpenOnDisk, InfoSound, DerivedInGroup, Present, Group, GroupOfHd, GroupOneSeed, Joining, Importing, ToRecover, Confirming, ScanIsImport
  <1> QED BY <1>1

LEMMA UnlinkKeeps ==
  ASSUME IInv, GInv, NEW n \in Names, Unlink(n)
  PROVE  GInv'
  <1> USE DEF GInv, Unlink, IInv, TypeOK, Calls, history, Deleting
  <1>1. OpenOnDisk' /\ InfoSound' /\ DerivedInGroup' /\ GroupOfHd' /\ Joining' /\ Importing' /\ ToRecover' /\ ScanIsImport'
    BY DEF OpenOnDisk, InfoSound, DerivedInGroup, Present, Group, GroupOfHd, GroupOneSeed, Joining, Importing, ToRecover, Confirming, ScanIsImport
  <1> QED BY <1>1

LEMMA DropInfoKeeps ==
  ASSUME IInv, GInv, DropInfo
  PROVE  GInv'
  <1> USE DEF GInv, DropInfo, IInv, TypeOK, Calls, history, Deleting, Idle, Named, NamedPCs
  <1>1. GroupOfHd'
    BY DEF GroupOfHd, GroupOneSeed, Group, DeletingGroup, GroupTypes, InfoSound, Present
  <1>2. OpenOnDisk' /\ InfoSound' /\ DerivedInGroup' /\ Joining' /\ Importing' /\ ToRecover' /\ ScanIsImport'
    BY DEF OpenOnDisk, InfoSound, DerivedInGroup, Present, Group, Joining, Importing, ToRecover, Confirming, ScanIsImport, GroupTypes
  <1> QED BY <1>1, <1>2

LEMMA UpdatePasswordKeeps ==
  ASSUME IInv, GInv, NEW old \in Passwords, NEW new \in Passwords, UpdatePassword(old, new)
  PROVE  GInv'
  <1> USE DEF GInv, UpdatePassword, IInv, TypeOK, Calls, durable, history, Ready, Idle
  <1>1. OpenOnDisk' /\ InfoSound' /\ DerivedInGroup' /\ GroupOfHd' /\ Joining' /\ Importing' /\ ToRecover' /\ ScanIsImport'
    BY DEF OpenOnDisk, InfoSound, DerivedInGroup, Present, Group, GroupOfHd, GroupOneSeed, Joining, Importing, ToRecover, Confirming, ScanIsImport
  <1> QED BY <1>1

LEMMA RekeyKeeps ==
  ASSUME IInv, GInv, NEW n \in Names, Rekey(n)
  PROVE  GInv'
  <1> USE SentinelAssumption DEF GInv, Rekey, Rekeyed, IInv, TypeOK, Calls, history, Idle, Rekeying, Present, Wallet
  <1>1. OpenOnDisk' /\ InfoSound' /\ DerivedInGroup' /\ GroupOfHd' /\ Joining' /\ Importing' /\ ToRecover' /\ ScanIsImport'
    BY DEF OpenOnDisk, InfoSound, DerivedInGroup, Group, GroupOfHd, GroupOneSeed, Joining, Importing, ToRecover, Confirming, ScanIsImport
  <1> QED BY <1>1

LEMMA StartKeeps ==
  ASSUME IInv, GInv, Start
  PROVE  GInv'
  <1> USE DEF GInv, Start, IInv, TypeOK, history, Dead, Idle
  <1>1. Group' = Group \cap Present(files)
    BY DEF Group, Present, GroupTypes
  <1>2. hdWallet' = NoName => Group' = {}
    BY <1>1, ConstantsAssumption DEF GroupHasHead, NoGroupListed, Present, IsHead
  <1>3. hdWallet' # NoName => hdWallet' \in Group
    BY DEF Group, GroupTypes, Present, IsHead
  <1>4. GroupOfHd'
    BY <1>1, <1>2, <1>3 DEF GroupOfHd, GroupOneSeed, Group
  <1>5. OpenOnDisk' /\ InfoSound' /\ DerivedInGroup' /\ Joining' /\ Importing' /\ ToRecover' /\ ScanIsImport'
    BY DEF OpenOnDisk, InfoSound, DerivedInGroup, Present, Group, Joining, Importing, ToRecover, Confirming, ScanIsImport, GroupTypes
  <1> QED BY <1>4, <1>5

\* create up to its first save.  Only an import asks for the scan, and it is
\* offered while no group is listed: no file of a derived account exists then.
LEMMA BeginKeeps ==
  ASSUME IInv, GInv, Ready,
         NEW n \in Names, NEW ks \in KeyStores, NEW type \in Types,
         NEW pw \in Passwords \cup {NoPw}, NEW path \in BOOLEAN,
         NEW next \in {"idle", "flag", "scan"},
         BeginCreate(n, ks, type, pw, path, next),
         n.acct # 0 => type \in GroupTypes,
         type \in GroupTypes /\ hdWallet # NoName => n.seed = hdWallet.seed,
         next = "scan" => type = "hd" /\ path /\ n.coin = Btc /\ n.acct = 0 /\ NoGroupListed
  PROVE  GInv'
  <1> USE SentinelAssumption DEF IInv, GInv, TypeOK, BeginCreate, Ready
  <1>1. /\ call'.pc = "encrypt" /\ call'.name = n /\ call'.type = type
        /\ call'.path = path /\ call'.next = next
    BY IdleCall DEF Calls
  <1>2. /\ Present(files') = Present(files) \cup {n}
        /\ Group' = Group
    BY DEF Wallet, Present, Group
  <1>3. next = "scan" => \A m \in Present(files) : m.acct = 0
    BY DEF DerivedInGroup, NoGroupListed, Present
  <1>4. InfoSound' /\ OpenOnDisk'
    BY DEF InfoSound, OpenOnDisk, Wallet
  <1>5. DerivedInGroup'
    BY <1>1, <1>2 DEF DerivedInGroup
  <1>6. GroupOfHd'
    BY <1>1, <1>2 DEF GroupOfHd, GroupOneSeed
  <1>7. Joining' /\ ToRecover' /\ ScanIsImport'
    BY <1>1, <1>2 DEF Joining, ToRecover, ScanIsImport, Confirming, Present
  <1>8. Importing'
    BY <1>1, <1>2, <1>3 DEF Importing
  <1> QED BY <1>4, <1>5, <1>6, <1>7, <1>8

LEMMA CreateHdKeeps ==
  ASSUME IInv, GInv, NEW s \in Seeds, NEW pw \in Passwords,
         CreateHd(s, pw) \/ ImportHd(s, pw)
  PROVE  GInv'
  <1> DEFINE n == [seed |-> s, coin |-> Btc, acct |-> 0]
  <1>1. \E next \in {"flag", "scan"} : BeginCreate(n, "seed", "hd", pw, TRUE, next)
    BY DEF CreateHd, ImportHd
  <1>2. /\ Ready /\ NoGroupListed /\ hdWallet = NoName
        /\ n \in Names /\ n.coin = Btc /\ n.acct = 0
    BY Account0, NoGroupNoHd DEF CreateHd, ImportHd
  <1> HIDE DEF n
  <1> QED BY <1>1, <1>2, BeginKeeps DEF KeyStores, Types, GroupTypes

LEMMA CreateStandaloneKeeps ==
  ASSUME IInv, GInv, NEW s \in Seeds, NEW pw \in Passwords,
         CreateStandalone(s, pw) \/ ImportSeed(s, pw)
  PROVE  GInv'
  <1> DEFINE n == [seed |-> s, coin |-> Btc, acct |-> 0]
  <1>1. \E next \in {"idle", "flag"} : BeginCreate(n, "seed", "standard", pw, FALSE, next)
    BY DEF CreateStandalone, ImportSeed
  <1>2. Ready /\ n \in Names /\ n.acct = 0
    BY Account0 DEF CreateStandalone, ImportSeed
  <1> HIDE DEF n
  <1> QED BY <1>1, <1>2, BeginKeeps DEF KeyStores, Types, GroupTypes

LEMMA ImportKeeps ==
  ASSUME NoOverlap, IInv, GInv, NEW n \in ImportNames,
         (\E pw \in Passwords : ImportPrivkey(n, pw)) \/ ImportAddress(n)
  PROVE  GInv'
  <1>1. \/ \E pw \in Passwords : BeginCreate(n, "priv", "private", pw, FALSE, "idle")
        \/ BeginCreate(n, "watch", "watch", NoPw, FALSE, "idle")
    BY DEF ImportPrivkey, ImportAddress
  <1>2. Ready /\ n \in Names /\ n.acct = 0
    BY ConstantsAssumption DEF ImportPrivkey, ImportAddress, NoOverlap
  <1> QED BY <1>1, <1>2, BeginKeeps DEF KeyStores, Types, GroupTypes

LEMMA CreateDerivedKeeps ==
  ASSUME IInv, GInv, NEW coin \in Coins, NEW pw \in Passwords, CreateDerived(coin, pw)
  PROVE  GInv'
  <1> DEFINE n(a) == [seed |-> hdWallet.seed, coin |-> coin, acct |-> a]
             type(a) == IF ~HasHdType(coin) THEN "hd"
                        ELSE IF a # 0 THEN "derived" ELSE "standard"
  <1>1. PICK a \in Accounts : BeginCreate(n(a), "seed", type(a), pw, TRUE, "idle")
    BY DEF CreateDerived, FreeAccounts
  <1>2. /\ Ready /\ n(a) \in Names /\ n(a).seed = hdWallet.seed
        /\ n(a).acct # 0 => type(a) \in GroupTypes
    BY DEF CreateDerived, IInv, TypeOK, Names, GroupTypes
  <1>3. type(a) \in Types
    BY DEF Types
  <1> HIDE DEF n, type
  <1> QED BY <1>1, <1>2, <1>3, BeginKeeps DEF KeyStores

\* The assertion of storage.write is out of reach.
LEMMA NeverAsserts ==
  ASSUME GInv, NEW n \in Names
  PROVE  ~ConfirmAsserts(n) /\ ~UnlinkAsserts(n) /\ ~RekeyAsserts(n)
  BY DEF GInv, ToRecover, OpenOnDisk, ConfirmAsserts, UnlinkAsserts, RekeyAsserts

\* Steps that leave the group and the wallets to recover alone
LEMMA OtherKeep ==
  ASSUME IInv, GInv,
         \/ CheckPassword \/ CreateRefused \/ RekeyNothing
         \/ \E n \in Names : RekeyRaises(n) \/ ConfirmBackup(n)
  PROVE  GInv'
  <1>1. /\ UNCHANGED <<files, info, wallets, hdWallet, recovery, unsaved, running>>
        /\ UNCHANGED call \/ (call.pc = "rekey" /\ call' = Idle)
    BY DEF CheckPassword, CreateRefused, RekeyNothing, RekeyRaises, ConfirmBackup,
           durable, volatile, history
  <1> QED BY <1>1 DEF GInv, OpenOnDisk, InfoSound, DerivedInGroup, GroupOfHd, GroupOneSeed,
      Joining, Importing, ToRecover, ScanIsImport, Confirming, Present, Group, Idle

LEMMA QuitKeeps == ASSUME IInv, GInv, Quit PROVE GInv'
  BY DEF GInv, Quit, Stop, durable, history, Idle, NoWallets, OpenOnDisk, InfoSound,
         DerivedInGroup, GroupOfHd, GroupOneSeed, Joining, Importing, ToRecover,
         ScanIsImport, Confirming, Present, Group

LEMMA GroupInitially == ASSUME Init PROVE GInv
  BY DEF Init, GInv, Idle, NoWallets, OpenOnDisk, InfoSound, DerivedInGroup, GroupOfHd,
         GroupOneSeed, Joining, Importing, ToRecover, ScanIsImport, Confirming, Present,
         Group, GroupTypes

LEMMA GroupInductive == ASSUME NoOverlap, IInv, GInv, [Next]_vars PROVE GInv'
  <1>1. CASE UNCHANGED vars
    BY <1>1 DEF vars, durable, volatile, GInv, OpenOnDisk, InfoSound, DerivedInGroup,
      GroupOfHd, GroupOneSeed, Joining, Importing, ToRecover, ScanIsImport, Confirming,
      Present, Group
  <1>2. CASE Start \/ Quit
    BY <1>2, StartKeeps, QuitKeeps
  <1>3. CASE CallStep
    BY <1>3, EncryptKeeps, RegisterKeeps, RecordKeeps, FlagBackupKeeps, ScanKeeps,
       ConfirmSaveKeeps, NeverAsserts, ConfirmRecordKeeps, ConfirmTypeKeeps,
       ConfirmDoneKeeps, ForgetKeeps, UnlinkKeeps, DropInfoKeeps, RekeyKeeps, OtherKeep
       DEF CallStep
  <1>4. CASE Request
    BY <1>4, CreateHdKeeps, CreateStandaloneKeeps, ImportKeeps, CreateDerivedKeeps,
       RecoveryConfirmedKeeps, DeleteKeeps, UpdatePasswordKeeps, OtherKeep DEF Request
  <1> QED BY <1>1, <1>2, <1>3, <1>4 DEF Next

LEMMA GroupInvariance == ASSUME NoOverlap PROVE Spec => [](IInv /\ GInv)
  <1>1. Init => IInv /\ GInv
    BY Initially, GroupInitially
  <1>2. IInv /\ GInv /\ [Next]_vars => (IInv /\ GInv)'
    BY Inductive, GroupInductive DEF NextCrash
  <1> QED BY <1>1, <1>2, PTL DEF Spec

\* All wallets listed as HD or derived come from one mnemonic, through any
\* number of deletions, imports, recoveries and restarts.
THEOREM OneSeedPerGroup == ASSUME NoOverlap PROVE Spec => []GroupOneSeed
  <1>1. GInv => GroupOneSeed
    BY DEF GInv, GroupOfHd
  <1> QED BY <1>1, GroupInvariance, PTL

\* In an orderly life too, the HD wallet is live.
THEOREM HdWalletLiveInOrder == Spec => []HdLive
  <1>1. IInv /\ [Next]_vars => IInv'
    BY Inductive DEF NextCrash
  <1>2. IInv => HdLive
    BY DEF IInv
  <1> QED BY <1>1, <1>2, Initially, PTL DEF Spec

-----------------------------------------------------------------------------
(* Nothing is left without a password *)

Locked(w) == w.ks # "watch" => w.pw # NoPw

\* No key lies plain on the disk, in the daemon or among the wallets to recover,
\* but for the file create has just saved; the passwords the calls go on with are
\* passwords.
Shut ==
  /\ \A n \in Present(files) : Locked(files[n]) \/ (call.pc = "encrypt" /\ call.name = n)
  /\ \A n \in Present(wallets) : Locked(wallets[n])
  /\ \A n \in Present(recovery) : Locked(recovery[n])
  /\ call.pc = "encrypt" /\ call.ks # "watch" => call.pw # NoPw
  /\ call.pc \in {"encrypt", "register", "record", "scan"} /\ call.next = "scan" => call.pw # NoPw
  /\ call.pc = "rekey" => call.new # NoPw

RInv == Shut /\ ScanIsImport

LEMMA BeginShut ==
  ASSUME IInv, RInv, Ready, NEW n \in Names, NEW ks \in KeyStores, NEW type \in Types,
         NEW pw \in Passwords \cup {NoPw}, NEW path \in BOOLEAN, NEW next \in {"idle", "flag", "scan"},
         BeginCreate(n, ks, type, pw, path, next), (ks = "watch" /\ next = "idle") \/ pw # NoPw
  PROVE  RInv'
<1> USE SentinelAssumption DEF IInv, RInv, Shut, Locked, TypeOK, BeginCreate, Ready, Present, ScanIsImport
<1>1. /\ call'.pc = "encrypt" /\ call'.name = n /\ call'.ks = ks
      /\ call'.next = next /\ call'.pw = pw
  BY IdleCall DEF Calls
<1>2. \A m \in Names : m # n => files'[m] = files[m]
  OBVIOUS
<1>3. UNCHANGED <<wallets, recovery>>
  OBVIOUS
<1> QED BY <1>1, <1>2, <1>3

LEMMA CreatingShut ==
  ASSUME IInv, RInv,
         \/ \E s \in Seeds, pw \in Passwords :
              CreateHd(s, pw) \/ ImportHd(s, pw) \/ CreateStandalone(s, pw) \/ ImportSeed(s, pw)
         \/ \E n \in ImportNames : (\E pw \in Passwords : ImportPrivkey(n, pw)) \/ ImportAddress(n)
         \/ \E coin \in Coins, pw \in Passwords : CreateDerived(coin, pw)
  PROVE  RInv'
<1> USE ConstantsAssumption
<1>1. ASSUME NEW s \in Seeds, NEW pw \in Passwords,
             CreateHd(s, pw) \/ ImportHd(s, pw) \/ CreateStandalone(s, pw) \/ ImportSeed(s, pw)
      PROVE  RInv'
  <2> DEFINE n == [seed |-> s, coin |-> Btc, acct |-> 0]
  <2>1. \E type \in {"hd", "standard"}, path \in BOOLEAN, next \in {"idle", "flag", "scan"} :
          Ready /\ BeginCreate(n, "seed", type, pw, path, next)
    BY <1>1 DEF CreateHd, ImportHd, CreateStandalone, ImportSeed
  <2>2. n \in Names
    BY Account0
  <2> HIDE DEF n
  <2> QED BY <2>1, <2>2, BeginShut DEF KeyStores, Types
<1>2. ASSUME NEW n \in ImportNames,
             (\E pw \in Passwords : ImportPrivkey(n, pw)) \/ ImportAddress(n)
      PROVE  RInv'
  <2>1. n \in Names
    BY ConstantsAssumption
  <2>2. \/ \E pw \in Passwords : BeginCreate(n, "priv", "private", pw, FALSE, "idle")
        \/ BeginCreate(n, "watch", "watch", NoPw, FALSE, "idle")
    BY <1>2 DEF ImportPrivkey, ImportAddress
  <2>3. Ready
    BY <1>2 DEF ImportPrivkey, ImportAddress
  <2> QED BY <2>1, <2>2, <2>3, BeginShut DEF KeyStores, Types
<1>3. ASSUME NEW coin \in Coins, NEW pw \in Passwords, CreateDerived(coin, pw)
      PROVE  RInv'
  <2> DEFINE n(a) == [seed |-> hdWallet.seed, coin |-> coin, acct |-> a]
  <2>1. PICK a \in Accounts, type \in {"hd", "derived", "standard"} :
          Ready /\ BeginCreate(n(a), "seed", type, pw, TRUE, "idle")
    BY <1>3 DEF CreateDerived, FreeAccounts
  <2>2. n(a) \in Names
    BY <1>3 DEF CreateDerived, Names, IInv, TypeOK
  <2> HIDE DEF n
  <2> QED BY <2>1, <2>2, BeginShut DEF KeyStores, Types
<1> QED BY <1>1, <1>2, <1>3

LEMMA ShutStep == ASSUME IInv, RInv, [Next]_vars PROVE RInv'
<1> USE SentinelAssumption, ConstantsAssumption
    DEF IInv, RInv, Shut, Locked, TypeOK, Calls, Present, ScanIsImport, history, durable, volatile, Idle
<1>1. CASE UNCHANGED vars
  BY <1>1 DEF vars
<1>2. CASE Start
  BY <1>2 DEF Start, Dead
<1>3. CASE Quit
  BY <1>3 DEF Quit, Stop, NoWallets
<1>4. CASE CallStep
  <2>1. CASE Encrypt
    BY <2>1 DEF Encrypt, Wallet, Named, NamedPCs, Creating
  <2>2. CASE Register
    BY <2>2 DEF Register, Created, CallNext, Named, NamedPCs, Creating
  <2>3. CASE Record
    BY <2>3 DEF Record, Created, CallNext
  <2>4. CASE FlagBackup
    BY <2>4 DEF FlagBackup
  <2>5. CASE Scan
    BY <2>5 DEF Scan, Scanned, Opened
  <2>6. ASSUME NEW n \in Names, ConfirmSave(n) PROVE RInv'
    BY <2>6 DEF ConfirmSave, Recovering
  <2>7. ASSUME NEW n \in Names, ConfirmAsserts(n) PROVE RInv'
    BY <2>7 DEF ConfirmAsserts, Recovering
  <2>13. ASSUME NEW n \in Names, UnlinkAsserts(n) \/ RekeyAsserts(n) PROVE RInv'
    BY <2>13 DEF UnlinkAsserts, RekeyAsserts, Rekeyed, Wallet, Rekeying
  <2>8. CASE ConfirmRecord \/ ConfirmType \/ ConfirmDone
    BY <2>8 DEF ConfirmRecord, ConfirmType, ConfirmDone, NoWallets
  <2>9. CASE Forget \/ DropInfo
    BY <2>9 DEF Forget, DropInfo
  <2>10. ASSUME NEW n \in Names, Unlink(n) PROVE RInv'
    BY <2>10 DEF Unlink
  <2>11. ASSUME NEW n \in Names, Rekey(n) PROVE RInv'
    BY <2>11 DEF Rekey, Rekeyed, Wallet, Rekeying
  <2>12. CASE RekeyNothing \/ \E n \in Names : RekeyRaises(n)
    BY <2>12 DEF RekeyNothing, RekeyRaises
  <2> QED BY <1>4, <2>1, <2>2, <2>3, <2>4, <2>5, <2>6, <2>7, <2>8, <2>9, <2>10, <2>11, <2>12,
           <2>13 DEF CallStep
<1>5. CASE Request
  <2>1. CASE CheckPassword \/ CreateRefused \/ \E n \in Names : ConfirmBackup(n)
    BY <2>1 DEF CheckPassword, CreateRefused, ConfirmBackup
  <2>2. ASSUME NEW sel \in SUBSET Names, RecoveryConfirmed(sel) PROVE RInv'
    BY <2>2 DEF RecoveryConfirmed
  <2>3. ASSUME NEW n \in Names, NEW pw \in Passwords, Delete(n, pw) PROVE RInv'
    BY <2>3 DEF Delete, Ready
  <2>4. ASSUME NEW old \in Passwords, NEW new \in Passwords, UpdatePassword(old, new) PROVE RInv'
    BY <2>4 DEF UpdatePassword, Ready
  <2> QED BY <1>5, <2>1, <2>2, <2>3, <2>4, CreatingShut DEF Request
<1> QED BY <1>1, <1>2, <1>3, <1>4, <1>5 DEF Next

\* Between calls no mnemonic or key lies on the disk without a password, whatever
\* is created, imported, recovered or re-encrypted, and whichever call raises.
THEOREM NothingPlainAtRest == Spec => []EncryptedAtRest
<1>1. Init => IInv
  BY Initially
<1>2. Init => RInv
  BY DEF Init, RInv, Shut, ScanIsImport, Present, NoWallets, Idle
<1>3. IInv /\ RInv /\ [Next]_vars => (IInv /\ RInv)'
  BY Inductive, ShutStep DEF NextCrash
<1>4. RInv => EncryptedAtRest
  BY DEF RInv, Shut, EncryptedAtRest, Keyed, Locked, Present, Ready
<1> QED BY <1>1, <1>2, <1>3, <1>4, PTL DEF Spec

-----------------------------------------------------------------------------
(* The daemon and the disk *)

\* The daemon has open what is on the disk, but for the wallet in creation.
Mirrored ==
  running => \A n \in Names :
    wallets[n] = files[n] \/ (call.pc \in {"encrypt", "register"} /\ call.name = n)

Creation ==
  \/ \E s \in Seeds, pw \in Passwords :
       CreateHd(s, pw) \/ ImportHd(s, pw) \/ CreateStandalone(s, pw) \/ ImportSeed(s, pw)
  \/ \E n \in ImportNames : (\E pw \in Passwords : ImportPrivkey(n, pw)) \/ ImportAddress(n)
  \/ \E coin \in Coins, pw \in Passwords : CreateDerived(coin, pw)

LEMMA CreationBegins ==
  ASSUME Creation
  PROVE  Ready /\ \E n, ks, type, pw, path, next : BeginCreate(n, ks, type, pw, path, next)
<1>1. Ready
  BY DEF Creation, CreateHd, ImportHd, CreateStandalone, ImportSeed, ImportPrivkey, ImportAddress, CreateDerived
<1>2. \E n, ks, type, pw, path, next : BeginCreate(n, ks, type, pw, path, next)
  BY DEF Creation, CreateHd, ImportHd, CreateStandalone, ImportSeed, ImportPrivkey, ImportAddress, CreateDerived
<1> QED BY <1>1, <1>2

LEMMA MirrorStep == ASSUME IInv, GInv, Mirrored, [Next]_vars PROVE Mirrored'
<1> USE SentinelAssumption
    DEF IInv, TypeOK, Calls, Mirrored, history, durable, volatile, Idle
<1>1. CASE UNCHANGED vars
  BY <1>1 DEF vars
<1>2. CASE Start \/ Quit
  BY <1>2 DEF Start, Quit, Stop
<1>3. CASE CallStep
  <2>1. CASE Encrypt
    BY <2>1 DEF Encrypt
  <2>2. CASE Register
    BY <2>2 DEF Register
  <2>3. CASE Record \/ FlagBackup \/ Scan
    BY <2>3 DEF Record, FlagBackup, Scan
  <2>4. ASSUME NEW n \in Names, ConfirmSave(n) PROVE Mirrored'
    BY <2>4 DEF ConfirmSave
  <2>5. CASE ConfirmRecord \/ ConfirmType \/ ConfirmDone
    BY <2>5 DEF ConfirmRecord, ConfirmType, ConfirmDone
  <2>6. CASE Forget \/ DropInfo
    BY <2>6 DEF Forget, DropInfo
  <2>7. ASSUME NEW n \in Names, Unlink(n) PROVE Mirrored'
    BY <2>7 DEF Unlink
  <2>8. ASSUME NEW n \in Names, Rekey(n) PROVE Mirrored'
    BY <2>8 DEF Rekey, Rekeyed
  <2>9. CASE RekeyNothing \/ \E n \in Names : RekeyRaises(n)
    BY <2>9 DEF RekeyNothing, RekeyRaises
  <2> QED BY <1>3, <2>1, <2>2, <2>3, <2>4, <2>5, <2>6, <2>7, <2>8, <2>9, NeverAsserts DEF CallStep
<1>4. CASE Request
  <2>0. Request => \/ CheckPassword \/ CreateRefused \/ \E n \in Names : ConfirmBackup(n)
                   \/ \E sel \in SUBSET Names : RecoveryConfirmed(sel)
                   \/ \E n \in Names, pw \in Passwords : Delete(n, pw)
                   \/ \E old, new \in Passwords : UpdatePassword(old, new)
                   \/ Creation
    BY DEF Request, Creation
  <2>1. CASE CheckPassword \/ CreateRefused \/ \E n \in Names : ConfirmBackup(n)
    BY <2>1 DEF CheckPassword, CreateRefused, ConfirmBackup
  <2>2. CASE \E sel \in SUBSET Names : RecoveryConfirmed(sel)
    BY <2>2 DEF RecoveryConfirmed
  <2>3. CASE \E n \in Names, pw \in Passwords : Delete(n, pw)
    BY <2>3 DEF Delete, Ready
  <2>4. CASE \E old, new \in Passwords : UpdatePassword(old, new)
    BY <2>4 DEF UpdatePassword, Ready
  <2>5. CASE Creation
    <3>1. PICK n, ks, type, pw, path, next : BeginCreate(n, ks, type, pw, path, next)
      BY <2>5, CreationBegins
    <3>2. Ready
      BY <2>5, CreationBegins
    <3> QED BY <3>1, <3>2 DEF BeginCreate, Ready
  <2> QED BY <1>4, <2>1, <2>2, <2>3, <2>4, <2>5, <2>0
<1> QED BY <1>1, <1>2, <1>3, <1>4 DEF Next

-----------------------------------------------------------------------------
(* Mnemonics that are not written down yet *)

LEMMA RequestKinds ==
  ASSUME Request
  PROVE  \/ CheckPassword \/ CreateRefused
         \/ \E n \in Names : ConfirmBackup(n)
         \/ \E sel \in SUBSET Names : RecoveryConfirmed(sel)
         \/ \E n \in Names, pw \in Passwords : Delete(n, pw)
         \/ \E old, new \in Passwords : UpdatePassword(old, new)
         \/ Creation
BY DEF Request, Creation

ToFlag == call.pc \in {"encrypt", "register", "record", "flag"} /\ call.next = "flag"

\* What is flagged is the mnemonic of a wallet on the disk, of the HD wallet if
\* it is in the group, and of none that a call creates or deletes.
FlagSound ==
  \A n \in backup :
    /\ files[n] # NoWallet /\ files[n].ks = "seed" /\ n.acct = 0
    /\ n \in Group => IsHead(n)
    /\ call.pc \in {"encrypt", "register"} => n # call.name
    /\ call.pc \in {"forget", "unlink", "dropInfo"} => n \notin call.todo
    /\ call.pc = "dropInfo" => n # call.name

\* A new mnemonic on its way to be flagged
Flagging ==
  /\ call.pc = "flag" => call.next = "flag"
  /\ ToFlag =>
       /\ call.ks = "seed" /\ call.name \in Names /\ call.name.acct = 0
       /\ call.type \in {"hd", "standard"}
       /\ call.pc \in {"record", "flag"} =>
            /\ files[call.name] # NoWallet /\ files[call.name].ks = "seed"
            /\ info[call.name] = call.type
            /\ call.type = "hd" => hdWallet # NoName

Kept ==
  \A s \in unconfirmed : (ToFlag /\ call.name.seed = s) \/ \E n \in backup : n.seed = s

KInv == FlagSound /\ Flagging /\ Kept

\* What each way to create a wallet starts with
Begins(n, ks, type, pw, path, next) ==
  /\ BeginCreate(n, ks, type, pw, path, next)
  /\ next = "flag" =>
       /\ ks = "seed" /\ n.acct = 0 /\ type \in {"hd", "standard"}
       /\ unconfirmed' = unconfirmed \cup {n.seed}
  /\ next # "flag" => unconfirmed' \subseteq unconfirmed
  /\ path /\ hdWallet # NoName => n.seed = hdWallet.seed
  /\ path \/ (n.coin = Btc /\ n.acct = 0) \/ n \in ImportNames
  /\ ~path => type \notin GroupTypes
  /\ type = "derived" => n.acct # 0

LEMMA CreationKinds ==
  ASSUME IInv, Creation
  PROVE  /\ Ready
         /\ \E n \in Names, ks \in KeyStores, type \in Types, pw \in Passwords \cup {NoPw},
               path \in BOOLEAN, next \in {"idle", "flag", "scan"} :
              Begins(n, ks, type, pw, path, next)
<1> USE DEF KeyStores, Types, GroupTypes
<1>1. CASE \E s \in Seeds, pw \in Passwords :
             CreateHd(s, pw) \/ ImportHd(s, pw) \/ CreateStandalone(s, pw) \/ ImportSeed(s, pw)
  <2>1. PICK s \in Seeds, pw \in Passwords :
          CreateHd(s, pw) \/ ImportHd(s, pw) \/ CreateStandalone(s, pw) \/ ImportSeed(s, pw)
    BY <1>1
  <2> DEFINE n == [seed |-> s, coin |-> Btc, acct |-> 0]
  <2>2. Ready /\ n \in Names /\ n.acct = 0 /\ n.coin = Btc /\ n.seed = s
    BY <2>1, Account0 DEF CreateHd, ImportHd, CreateStandalone, ImportSeed
  <2>3. NoGroupListed => hdWallet = NoName
    BY NoGroupNoHd, <2>2
  <2>4. \/ CreateHd(s, pw) /\ Begins(n, "seed", "hd", pw, TRUE, "flag")
        \/ ImportHd(s, pw) /\ Begins(n, "seed", "hd", pw, TRUE, "scan")
        \/ CreateStandalone(s, pw) /\ Begins(n, "seed", "standard", pw, FALSE, "flag")
        \/ ImportSeed(s, pw) /\ Begins(n, "seed", "standard", pw, FALSE, "idle")
    BY <2>1, <2>2, <2>3 DEF CreateHd, ImportHd, CreateStandalone, ImportSeed, Begins
  <2> HIDE DEF n
  <2> QED BY <2>2, <2>4
<1>2. CASE \E n \in ImportNames : (\E pw \in Passwords : ImportPrivkey(n, pw)) \/ ImportAddress(n)
  <2>1. PICK n \in ImportNames : (\E pw \in Passwords : ImportPrivkey(n, pw)) \/ ImportAddress(n)
    BY <1>2
  <2>2. Ready /\ n \in Names
    BY <2>1, ConstantsAssumption DEF ImportPrivkey, ImportAddress
  <2>3. \/ \E pw \in Passwords : Begins(n, "priv", "private", pw, FALSE, "idle")
        \/ Begins(n, "watch", "watch", NoPw, FALSE, "idle")
    BY <2>1 DEF ImportPrivkey, ImportAddress, Begins, history
  <2> QED BY <2>2, <2>3
<1>3. CASE \E coin \in Coins, pw \in Passwords : CreateDerived(coin, pw)
  <2>1. PICK coin \in Coins, pw \in Passwords : CreateDerived(coin, pw)
    BY <1>3
  <2> DEFINE n(a) == [seed |-> hdWallet.seed, coin |-> coin, acct |-> a]
             type(a) == IF ~HasHdType(coin) THEN "hd"
                        ELSE IF a # 0 THEN "derived" ELSE "standard"
  <2>2. PICK a \in Accounts : BeginCreate(n(a), "seed", type(a), pw, TRUE, "idle")
    BY <2>1 DEF CreateDerived, FreeAccounts
  <2>3. Ready /\ n(a) \in Names /\ n(a).seed = hdWallet.seed /\ n(a).acct = a /\ unconfirmed' = unconfirmed
    BY <2>1 DEF CreateDerived, IInv, TypeOK, Names, history
  <2>4. type(a) \in Types /\ (type(a) = "derived" => a # 0)
    OBVIOUS
  <2> HIDE DEF n, type
  <2>5. Begins(n(a), "seed", type(a), pw, TRUE, "idle")
    BY <2>2, <2>3, <2>4 DEF Begins
  <2> QED BY <2>3, <2>4, <2>5
<1> QED BY <1>1, <1>2, <1>3 DEF Creation

\* An HD wallet of Btc in the group is the one of self.hd_wallet.
LEMMA HeadIsHd ==
  ASSUME IInv, GInv, hdWallet # NoName, ~DeletingGroup, NEW n \in Names, IsHead(n)
  PROVE  n = hdWallet
<1>1. n \in Group /\ hdWallet \in Group /\ hdWallet \in Names
  BY DEF IInv, HdLive, TypeOK, Group, GroupTypes, IsHead
<1>2. n.seed = hdWallet.seed
  BY <1>1 DEF GInv, GroupOfHd
<1>3. n.coin = Btc /\ n.acct = 0 /\ hdWallet.coin = Btc /\ hdWallet.acct = 0
  BY <1>1 DEF IInv, HdHasSeed, HdLive, HdOnDisk, IsHead
<1> QED BY <1>1, <1>2, <1>3 DEF Names

LEMMA CreationKeepsFlags ==
  ASSUME IInv, GInv, KInv, Creation PROVE KInv'
<1>1. Ready
  BY CreationKinds
<1>2. PICK n \in Names, ks \in KeyStores, type \in Types, pw \in Passwords \cup {NoPw},
           path \in BOOLEAN, next \in {"idle", "flag", "scan"} : Begins(n, ks, type, pw, path, next)
  BY CreationKinds
<1>3. BeginCreate(n, ks, type, pw, path, next)
  BY <1>2 DEF Begins
<1>4. /\ call'.pc = "encrypt" /\ call'.name = n /\ call'.type = type /\ call'.ks = ks
      /\ call'.path = path /\ call'.next = next
  BY <1>3, IdleCall DEF BeginCreate, Calls
<1>5. files[n] = NoWallet /\ \A m \in Names : m # n => files'[m] = files[m]
  BY <1>3 DEF BeginCreate, IInv, TypeOK
<1>6. UNCHANGED <<info, backup>>
  BY <1>3 DEF BeginCreate
<1>7. FlagSound'
  BY <1>4, <1>5, <1>6 DEF KInv, FlagSound, Group, IsHead, IInv, TypeOK
<1>8. Flagging'
  BY <1>2, <1>4 DEF Flagging, ToFlag, Begins
<1>9. Kept'
  BY <1>1, <1>2, <1>4, <1>6 DEF KInv, Kept, ToFlag, Begins, Ready
<1> QED BY <1>7, <1>8, <1>9 DEF KInv

\* delete_wallet is refused while the mnemonic is flagged, by way of the HD wallet
\* for the whole group.
LEMMA DeleteKeepsFlags ==
  ASSUME IInv, GInv, KInv, Mirrored, NEW n \in Names, NEW pw \in Passwords, Delete(n, pw)
  PROVE  KInv'
<1> USE DEF KInv
<1>1. /\ Ready /\ BackedUp(n) /\ wallets[n] # NoWallet
      /\ UNCHANGED <<files, info, backup, unconfirmed, hdWallet>>
      /\ call'.pc \in {"forget", "unlink"} /\ call'.todo = Doomed(n)
  BY IdleCall DEF Delete, durable, history, Calls
<1>2. wallets[n] = files[n]
  BY <1>1 DEF Mirrored, Ready
<1>3. \A m \in backup : m \notin Doomed(n)
  <2> SUFFICES ASSUME NEW m \in backup, m \in Doomed(n) PROVE FALSE
    OBVIOUS
  <2>1. m \in Names /\ files[m] # NoWallet /\ files[m].ks = "seed"
    BY DEF FlagSound, IInv, TypeOK
  <2>2. CASE n \in Group
    <3>1. SearchWallet(n) = hdWallet /\ hdWallet # NoName
      BY <1>1, <2>2 DEF BackedUp, SearchWallet, Group
    <3>2. ~DeletingGroup
      BY <1>1 DEF Ready, DeletingGroup
    <3>3. hdWallet \notin backup
      BY <1>1, <3>1, <3>2 DEF BackedUp, IInv, HdLive
    <3>4. m \in Group
      BY <2>2 DEF Doomed
    <3>5. m = hdWallet
      BY <2>1, <3>1, <3>2, <3>4, HeadIsHd DEF FlagSound
    <3> QED BY <3>3, <3>5
  <2>3. CASE n \notin Group
    <3>1. m = n /\ SearchWallet(n) = n
      BY <2>3 DEF Doomed, SearchWallet, Group, GroupTypes
    <3>2. wallets[n].ks = "seed"
      BY <1>2, <2>1, <3>1
    <3> QED BY <1>1, <3>1, <3>2 DEF BackedUp
  <2> QED BY <2>2, <2>3
<1>4. FlagSound'
  BY <1>1, <1>3 DEF FlagSound, Group, IsHead
<1>5. Flagging' /\ Kept'
  BY <1>1 DEF Flagging, Kept, ToFlag, Ready
<1> QED BY <1>4, <1>5

LEMMA ConfirmKeepsFlags ==
  ASSUME IInv, GInv, KInv, NEW n \in Names, ConfirmBackup(n)
  PROVE  KInv'
<1> USE DEF KInv
<1>1. /\ Ready /\ SearchWallet(n) # NoName
      /\ backup' = backup \ {SearchWallet(n)} /\ unconfirmed' = unconfirmed \ {n.seed}
      /\ UNCHANGED <<files, info, hdWallet, call>>
  BY DEF ConfirmBackup, volatile
<1>2. SearchWallet(n).seed = n.seed
  BY <1>1 DEF SearchWallet, GInv, GroupOfHd, Group
<1>3. FlagSound' /\ Flagging'
  BY <1>1 DEF FlagSound, Flagging, ToFlag, Group, IsHead
<1>4. Kept'
  BY <1>1, <1>2 DEF Kept, ToFlag, Ready
<1> QED BY <1>3, <1>4

LEMMA FlagKeepsFlags ==
  ASSUME IInv, GInv, KInv, FlagBackup PROVE KInv'
<1> USE DEF KInv
<1> DEFINE w == IF call.type = "hd" /\ hdWallet # NoName THEN hdWallet ELSE call.name
<1>1. /\ call.pc = "flag" /\ backup' = backup \cup {w} /\ call' = Idle
      /\ UNCHANGED <<files, info, unconfirmed, hdWallet>>
  BY DEF FlagBackup, volatile, history
<1>2. /\ ToFlag /\ call.name \in Names /\ call.name.acct = 0 /\ call.type \in {"hd", "standard"}
      /\ files[call.name] # NoWallet /\ files[call.name].ks = "seed" /\ info[call.name] = call.type
      /\ call.type = "hd" => hdWallet # NoName
  BY <1>1 DEF Flagging, ToFlag
<1>3. w \in Names /\ files[w] # NoWallet /\ files[w].ks = "seed" /\ w.acct = 0
      /\ (w \in Group => IsHead(w)) /\ w.seed = call.name.seed
  <2>1. CASE call.type = "hd"
    <3>1. /\ w = hdWallet /\ hdWallet \in Names /\ info[hdWallet] = "hd"
          /\ files[hdWallet] # NoWallet /\ hdWallet.coin = Btc
      BY <1>1, <1>2, <2>1 DEF IInv, TypeOK, HdLive, HdOnDisk, DeletingGroup
    <3>2. hdWallet.acct = 0 /\ files[hdWallet].ks = "seed"
      BY <3>1 DEF IInv, HdHasSeed
    <3>3. call.name \in Group
      BY <1>2, <2>1 DEF Group, GroupTypes
    <3>4. hdWallet.seed = call.name.seed
      BY <1>2, <2>1, <3>3 DEF GInv, GroupOfHd
    <3> QED BY <3>1, <3>2, <3>4 DEF IsHead
  <2>2. CASE call.type # "hd"
    BY <1>2, <2>2 DEF Group, GroupTypes
  <2> QED BY <2>1, <2>2
<1> HIDE DEF w
<1>4. FlagSound'
  BY <1>1, <1>3 DEF FlagSound, Group, IsHead, Idle
<1>5. Flagging'
  BY <1>1 DEF Flagging, ToFlag, Idle
<1>6. Kept'
  BY <1>1, <1>3 DEF Kept
<1> QED BY <1>4, <1>5, <1>6

LEMMA RegisterKeepsFlags ==
  ASSUME IInv, KInv, Register
  PROVE  KInv'
<1> USE DEF KInv
<1>1. /\ call.pc = "register" /\ call.name \in Names /\ UNCHANGED <<files, backup, unconfirmed>>
      /\ \A m \in Names : m # call.name => info'[m] = info[m]
      /\ info'[call.name] = call.type
      /\ call.type = "hd" => hdWallet' # NoName
  BY ConstantsAssumption DEF Register, history, IInv, TypeOK, Named, NamedPCs
<1>2. /\ call' = Idle \/ (call'.name = call.name /\ call'.type = call.type /\ call'.ks = call.ks
                            /\ call'.next = call.next /\ call'.pc \in {"record", "flag", "scan"})
      /\ call'.pc = "flag" => call.next = "flag"
      /\ call.next = "flag" => call'.pc \in {"record", "flag"} /\ call'.next = call.next /\ call'.name = call.name
  BY <1>1 DEF Register, Created, IInv, TypeOK, Calls, CallNext, Idle
<1>3. FlagSound'
  BY <1>1, <1>2 DEF FlagSound, Group, IsHead, Idle, IInv, TypeOK
<1>4. Flagging'
  BY <1>1, <1>2 DEF Flagging, ToFlag, Idle, IInv, Creating, Encrypted
<1>5. Kept'
  BY <1>1, <1>2 DEF Kept, ToFlag
<1> QED BY <1>3, <1>4, <1>5

LEMMA FlagsStep == ASSUME IInv, GInv, KInv, Mirrored, [Next]_vars PROVE KInv'
<1> USE SentinelAssumption, ConstantsAssumption
    DEF IInv, TypeOK, Calls, KInv, FlagSound, Flagging, Kept, ToFlag, Group, GroupTypes, IsHead,
        history, durable, volatile, Idle
<1>1. CASE UNCHANGED vars
  BY <1>1 DEF vars
<1>2. CASE Start
  BY <1>2 DEF Start, Dead
<1>3. CASE Quit
  BY <1>3 DEF Quit, Stop
<1>4. CASE CallStep
  <2>1. CASE Encrypt
    BY <2>1 DEF Encrypt, Wallet
  <2>3. CASE Record
    BY <2>3 DEF Record, Created, CallNext
  <2>4. CASE Scan
    BY <2>4 DEF Scan
  <2>5. ASSUME NEW n \in Names, ConfirmSave(n) PROVE KInv'
    BY <2>5 DEF ConfirmSave
  <2>6. CASE ConfirmRecord \/ ConfirmDone
    BY <2>6 DEF ConfirmRecord, ConfirmDone
  <2>7. CASE ConfirmType
    BY <2>7 DEF ConfirmType, Recovering
  <2>8. CASE Forget
    BY <2>8 DEF Forget
  <2>9. CASE DropInfo
    BY <2>9 DEF DropInfo
  <2>10. ASSUME NEW n \in Names, Unlink(n) PROVE KInv'
    BY <2>10 DEF Unlink, MayUnlink
  <2>11. ASSUME NEW n \in Names, Rekey(n) PROVE KInv'
    BY <2>11 DEF Rekey, Rekeyed, Wallet, Rekeying, Mirrored
  <2>12. CASE RekeyNothing \/ \E n \in Names : RekeyRaises(n)
    BY <2>12 DEF RekeyNothing, RekeyRaises
  <2> QED BY <1>4, <2>1, <2>3, <2>4, <2>5, <2>6, <2>7, <2>8, <2>9, <2>10, <2>11, <2>12,
             NeverAsserts, RegisterKeepsFlags, FlagKeepsFlags DEF CallStep
<1>5. CASE Request
  <2>1. CASE CheckPassword \/ CreateRefused
    BY <2>1 DEF CheckPassword, CreateRefused
  <2>2. CASE \E sel \in SUBSET Names : RecoveryConfirmed(sel)
    BY <2>2 DEF RecoveryConfirmed
  <2>3. CASE \E old, new \in Passwords : UpdatePassword(old, new)
    BY <2>3 DEF UpdatePassword, Ready
  <2> QED BY <1>5, <2>1, <2>2, <2>3, RequestKinds, CreationKeepsFlags, DeleteKeepsFlags, ConfirmKeepsFlags
<1> QED BY <1>1, <1>2, <1>3, <1>4, <1>5 DEF Next

LEMMA KeptInvariance == ASSUME NoOverlap PROVE Spec => [](IInv /\ GInv /\ Mirrored /\ KInv)
<1>1. Init => IInv /\ GInv /\ Mirrored /\ KInv
  <2> SUFFICES ASSUME Init PROVE Mirrored /\ KInv
    BY Initially, GroupInitially
  <2> QED BY DEF Init, Mirrored, KInv, FlagSound, Flagging, Kept, ToFlag, Idle
<1>2. IInv /\ GInv /\ Mirrored /\ KInv /\ [Next]_vars => (IInv /\ GInv /\ Mirrored /\ KInv)'
  BY Inductive, GroupInductive, MirrorStep, FlagsStep DEF NextCrash
<1> QED BY <1>1, <1>2, PTL DEF Spec

\* Between calls daemon._wallets is what load_all_wallet would read after a
\* restart: every create, recovery, deletion and change of password, finished or
\* ended by an exception, leaves the two in step.
THEOREM DaemonIsTheDisk == ASSUME NoOverlap PROVE Spec => []DaemonAgreesWithDisk
<1>1. IInv /\ Mirrored => DaemonAgreesWithDisk
  <2> SUFFICES ASSUME IInv, Mirrored, Ready PROVE wallets = files
    BY DEF DaemonAgreesWithDisk
  <2>1. \A n \in Names : wallets[n] = files[n]
    BY DEF Mirrored, Ready
  <2> QED BY <2>1 DEF IInv, TypeOK
<1> QED BY <1>1, KeptInvariance, PTL

\* A generated mnemonic the user has not proved to have keeps its flag in
\* backupinfo, under the name delete_wallet asks get_backup_info for, and a file.
THEOREM MnemonicsAreKept == ASSUME NoOverlap PROVE Spec => []UnconfirmedKept
<1>1. KInv => UnconfirmedKept
  BY DEF KInv, Kept, ToFlag, FlagSound, UnconfirmedKept, Ready
<1> QED BY <1>1, KeptInvariance, PTL

-----------------------------------------------------------------------------
(* The accounts of derived_info *)

\* What the user imports on its own is the first Btc address of a mnemonic.
BtcImports == \A n \in ImportNames : n.acct = 0 /\ n.coin = Btc

\* The wallet of the call in progress, before its account is recorded or after
\* delete_devired_wallet_info
Exempt(n) ==
  /\ n = call.name
  /\ \/ call.pc \in {"encrypt", "register", "record", "confirmRecord"}
     \/ call.pc = "unlink" /\ call.type = "derived"

\* derived_info has the account of every wallet made along a derivation path.
Recorded ==
  \A n \in Present(files) :
    n.acct # 0 \/ n.coin # Btc \/ info[n] = "hd" => n.acct \in derived[Key(n)] \/ Exempt(n)

\* What is made along a path comes from the HD wallet; the rest is a first Btc
\* address.
UnderHd ==
  call.pc \in {"encrypt", "register", "record"} =>
    /\ call.path /\ hdWallet # NoName => call.name.seed = hdWallet.seed
    /\ ~call.path => call.name.acct = 0 /\ call.name.coin = Btc /\ call.type # "hd"
    /\ call.pc = "record" => call.path

\* A derived wallet is not the HD wallet's own address, and is deleted alone.
Forgetting ==
  /\ call.pc \in {"forget", "unlink"} /\ call.type = "derived" =>
       /\ call.name \in Names /\ call.todo = {call.name} /\ info[call.name] = "derived"
  /\ call.pc = "dropInfo" /\ call.type = "derived" => call.todo = {}
  /\ \A n \in Names : info[n] = "derived" => n.acct # 0
  /\ call.pc \in {"encrypt", "register"} /\ call.type = "derived" => call.name.acct # 0

AInv == Recorded /\ UnderHd /\ Forgetting

\* The test of update_devired_wallet_info on the length of the list never fails.
LEMMA AccountAdded ==
  ASSUME TypeOK, NEW key \in Keys, NEW a, AddAccount(key, a)
  PROVE  derived' = [derived EXCEPT ![key] = @ \cup {a}]
<1>1. RECOVERY_DERIVAT_NUM \in Nat \ {0}
  BY ConstantsAssumption
<1>2. IsFiniteSet(Accounts) /\ Cardinality(Accounts) = RECOVERY_DERIVAT_NUM
  BY <1>1, FS_Interval DEF Accounts
<1>3. derived[key] \in SUBSET Accounts
  BY DEF TypeOK
<1>4. Cardinality(derived[key]) <= RECOVERY_DERIVAT_NUM
  BY <1>2, <1>3, FS_Subset
<1> QED BY <1>4 DEF AddAccount

LEMMA CreationRecords ==
  ASSUME BtcImports, IInv, GInv, AInv, Creation PROVE AInv'
<1>1. PICK n \in Names, ks \in KeyStores, type \in Types, pw \in Passwords \cup {NoPw},
           path \in BOOLEAN, next \in {"idle", "flag", "scan"} : Begins(n, ks, type, pw, path, next)
  BY CreationKinds
<1>2. BeginCreate(n, ks, type, pw, path, next) /\ Ready
  BY <1>1, CreationKinds DEF Begins
<1>3. /\ call'.pc = "encrypt" /\ call'.name = n /\ call'.type = type /\ call'.path = path
      /\ UNCHANGED <<info, derived, hdWallet>>
      /\ \A m \in Names : m # n => files'[m] = files[m]
  BY <1>2, IdleCall DEF BeginCreate, Calls, IInv, TypeOK
<1>4. Recorded'
  BY <1>2, <1>3 DEF AInv, Recorded, Exempt, Ready, Present
<1>5. UnderHd'
  BY <1>1, <1>3 DEF UnderHd, Begins, BtcImports, GroupTypes
<1>6. Forgetting'
  BY <1>1, <1>3 DEF AInv, Forgetting, Begins
<1> QED BY <1>4, <1>5, <1>6 DEF AInv

LEMMA RegisterRecords == ASSUME IInv, AInv, Register PROVE AInv'
<1> USE DEF AInv
<1>1. /\ call.pc = "register" /\ call.name \in Names /\ UNCHANGED <<files, derived>>
      /\ \A m \in Names : m # call.name => info'[m] = info[m]
      /\ info'[call.name] = call.type
      /\ hdWallet' = IF call.type = "hd" /\ hdWallet = NoName THEN call.name ELSE hdWallet
  BY DEF Register, IInv, TypeOK, Named, NamedPCs
<1>2. IF call.path THEN call' = [call EXCEPT !.pc = "record"]
      ELSE call' = Idle \/ (call'.pc \in {"flag", "scan"} /\ call'.type = call.type)
  BY <1>1 DEF Register, Created, IInv, TypeOK, Calls, CallNext
<1>3. call.path => call'.pc = "record" /\ call'.name = call.name /\ call'.path
  BY <1>2 DEF IInv, TypeOK, Calls
<1>4. ~call.path => call'.pc \in {"idle", "flag", "scan"}
  BY <1>2 DEF Idle
<1>5. Recorded'
  BY <1>1, <1>3, <1>4 DEF Recorded, Exempt, Present, UnderHd
<1>6. UnderHd'
  BY <1>1, <1>3, <1>4 DEF UnderHd
<1>7. Forgetting'
  BY <1>1, <1>3, <1>4 DEF Forgetting
<1> QED BY <1>5, <1>6, <1>7

LEMMA RecordRecords == ASSUME IInv, AInv, Record PROVE AInv'
<1> USE DEF AInv
<1>1. /\ call.pc = "record" /\ call.name \in Names /\ hdWallet # NoName
      /\ UNCHANGED <<files, info, hdWallet>>
      /\ call'.pc \in {"idle", "flag", "scan"}
  BY DEF Record, volatile, Created, Idle, IInv, TypeOK, Calls, CallNext, Named, NamedPCs
<1>2. Key(call.name) = <<hdWallet.seed, call.name.coin>> /\ Key(call.name) \in Keys
  BY <1>1 DEF UnderHd, Key, Keys, Names
<1>3. derived' = [derived EXCEPT ![Key(call.name)] = @ \cup {call.name.acct}]
  BY <1>2, AccountAdded DEF Record, IInv
<1>4. /\ call.name.acct \in derived'[Key(call.name)]
      /\ \A n \in Names : derived[Key(n)] \subseteq derived'[Key(n)]
  BY <1>2, <1>3 DEF IInv, TypeOK, Key, Keys, Names
<1>5. Recorded'
  BY <1>1, <1>4 DEF Recorded, Exempt, Present
<1>6. UnderHd' /\ Forgetting'
  BY <1>1 DEF UnderHd, Forgetting
<1> QED BY <1>5, <1>6

LEMMA ConfirmRecords == ASSUME IInv, AInv, ConfirmRecord PROVE AInv'
<1> USE DEF AInv
<1>1. /\ call.pc = "confirmRecord" /\ call.name \in Names /\ UNCHANGED <<files, info, hdWallet>>
      /\ call'.pc = "confirmType"
  BY DEF ConfirmRecord, volatile, IInv, TypeOK, Calls, Named, NamedPCs
<1>2. Key(call.name) \in Keys
  BY <1>1 DEF Key, Keys, Names
<1>3. derived' = [derived EXCEPT ![Key(call.name)] = @ \cup {call.name.acct}]
  BY <1>2, AccountAdded DEF ConfirmRecord, IInv
<1>4. /\ call.name.acct \in derived'[Key(call.name)]
      /\ \A n \in Names : derived[Key(n)] \subseteq derived'[Key(n)]
  BY <1>2, <1>3 DEF IInv, TypeOK, Key, Keys, Names
<1>5. Recorded'
  BY <1>1, <1>4 DEF Recorded, Exempt, Present
<1>6. UnderHd' /\ Forgetting'
  BY <1>1 DEF UnderHd, Forgetting
<1> QED BY <1>5, <1>6

LEMMA ForgetRecords == ASSUME IInv, GInv, AInv, Forget PROVE AInv'
<1> USE DEF AInv
<1>1. /\ call.pc = "forget" /\ call.type = "derived" /\ hdWallet # NoName
      /\ UNCHANGED <<files, info, hdWallet>>
      /\ derived' = [derived EXCEPT ![<<hdWallet.seed, call.name.coin>>] = @ \ {call.name.acct}]
      /\ call'.pc = "unlink" /\ call'.type = call.type /\ call'.name = call.name
      /\ call'.todo = call.todo
  BY DEF Forget, volatile, IInv, TypeOK, Calls, Deleting
<1>2. call.name \in Names /\ info[call.name] = "derived" /\ call.todo = {call.name}
  BY <1>1 DEF Forgetting
<1>3. call.name.seed = hdWallet.seed
  BY <1>1, <1>2 DEF GInv, GroupOfHd, Group, GroupTypes
<1>4. \A n \in Names : n # call.name /\ n.acct \in derived[Key(n)] => n.acct \in derived'[Key(n)]
  <2> SUFFICES ASSUME NEW n \in Names, n # call.name, n.acct \in derived[Key(n)]
               PROVE  n.acct \in derived'[Key(n)]
    OBVIOUS
  <2>1. n.seed # call.name.seed \/ n.coin # call.name.coin \/ n.acct # call.name.acct
    BY <1>2 DEF Names
  <2>2. Key(n) \in Keys
    BY DEF Key, Keys, Names
  <2> QED BY <1>1, <1>3, <2>1, <2>2 DEF IInv, TypeOK, Key
<1>5. Recorded'
  BY <1>1, <1>4 DEF Recorded, Exempt, Present
<1>6. UnderHd' /\ Forgetting'
  BY <1>1, <1>2 DEF UnderHd, Forgetting
<1> QED BY <1>5, <1>6

LEMMA UnlinkRecords == ASSUME IInv, AInv, NEW n \in Names, Unlink(n) PROVE AInv'
<1> USE DEF AInv
<1>1. /\ call.pc = "unlink" /\ n \in call.todo /\ UNCHANGED <<info, derived, hdWallet>>
      /\ files'[n] = NoWallet /\ \A m \in Names : m # n => files'[m] = files[m]
      /\ call'.pc = "dropInfo" /\ call'.type = call.type /\ call'.todo = call.todo \ {n}
  BY DEF Unlink, MayUnlink, IInv, TypeOK, Calls
<1>2. Recorded'
  BY <1>1 DEF Recorded, Exempt, Present, Forgetting
<1>3. UnderHd' /\ Forgetting'
  BY <1>1 DEF UnderHd, Forgetting
<1> QED BY <1>2, <1>3

LEMMA DeleteRecords ==
  ASSUME IInv, GInv, AInv, NEW n \in Names, NEW pw \in Passwords, Delete(n, pw) PROVE AInv'
<1> USE DEF AInv
<1>1. /\ Ready /\ UNCHANGED <<files, info, derived, hdWallet>>
      /\ call'.pc \in {"forget", "unlink"} /\ call'.type = info[n] /\ call'.name = n
      /\ call'.todo = Doomed(n)
  BY IdleCall DEF Delete, BackedUp, durable, IInv, TypeOK, Calls
<1>2. Recorded'
  BY <1>1 DEF Recorded, Exempt, Present, Ready
<1>3. UnderHd' /\ Forgetting'
  BY <1>1 DEF UnderHd, Forgetting, Doomed
<1> QED BY <1>2, <1>3

LEMMA RecordsStep ==
  ASSUME BtcImports, IInv, GInv, AInv, [Next]_vars PROVE AInv'
<1>1. CASE Start \/ Quit \/ UNCHANGED vars
  BY <1>1 DEF Start, Quit, Stop, vars, AInv, Recorded, UnderHd, Forgetting, Exempt, Present,
              durable, volatile, Idle, IInv, Dead
<1>2. CASE CallStep
  <2>1. CASE Encrypt
    BY <2>1 DEF Encrypt, AInv, Recorded, UnderHd, Forgetting, Exempt, Present, volatile, IInv, TypeOK, Calls,
                Named, NamedPCs, Creating
  <2>2. CASE FlagBackup \/ Scan
    BY <2>2 DEF FlagBackup, Scan, AInv, Recorded, UnderHd, Forgetting, Exempt, Present, durable, volatile, Idle
  <2>3. ASSUME NEW n \in Names, ConfirmSave(n) PROVE AInv'
    BY <2>3 DEF ConfirmSave, AInv, Recorded, UnderHd, Forgetting, Exempt, Present, IInv, TypeOK, Calls
  <2>4. CASE ConfirmType
    BY <2>4 DEF ConfirmType, AInv, Recorded, UnderHd, Forgetting, Exempt, Present, volatile, IInv, TypeOK, Calls,
                Named, NamedPCs, Recovering
  <2>5. CASE ConfirmDone \/ RekeyNothing \/ \E n \in Names : RekeyRaises(n)
    BY <2>5 DEF ConfirmDone, RekeyNothing, RekeyRaises, AInv, Recorded, UnderHd, Forgetting, Exempt, Present,
                durable, volatile, Idle
  <2>6. CASE DropInfo
    BY <2>6 DEF DropInfo, AInv, Recorded, UnderHd, Forgetting, Exempt, Present, Idle, IInv, TypeOK, Calls
  <2>7. ASSUME NEW n \in Names, Rekey(n) PROVE AInv'
    BY <2>7 DEF Rekey, Rekeyed, AInv, Recorded, UnderHd, Forgetting, Exempt, Present, Idle, IInv, TypeOK, Calls,
                GInv, OpenOnDisk, Rekeying
  <2> QED BY <1>2, <2>1, <2>2, <2>3, <2>4, <2>5, <2>6, <2>7, NeverAsserts, RegisterRecords,
             RecordRecords, ConfirmRecords, ForgetRecords, UnlinkRecords DEF CallStep
<1>3. CASE Request
  <2>1. CASE CheckPassword \/ CreateRefused \/ \E n \in Names : ConfirmBackup(n)
    BY <2>1 DEF CheckPassword, CreateRefused, ConfirmBackup, AInv, Recorded, UnderHd, Forgetting, Exempt, Present,
                durable, volatile
  <2>2. CASE \E sel \in SUBSET Names : RecoveryConfirmed(sel)
    BY <2>2 DEF RecoveryConfirmed, AInv, Recorded, UnderHd, Forgetting, Exempt, Present, durable, volatile,
                IInv, TypeOK, Calls
  <2>3. CASE \E old, new \in Passwords : UpdatePassword(old, new)
    BY <2>3 DEF UpdatePassword, Ready, AInv, Recorded, UnderHd, Forgetting, Exempt, Present, durable, Idle
  <2> QED BY <1>3, <2>1, <2>2, <2>3, RequestKinds, CreationRecords, DeleteRecords
<1> QED BY <1>1, <1>2, <1>3 DEF Next

\* create_derived_wallet never takes the account of a wallet that is open: the
\* bookkeeping of derived_info survives every deletion, recovery and restart.
THEOREM NextAccountIsFree == ASSUME BtcImports PROVE Spec => []NextDerivedIsFree
<1>1. Init => AInv
  BY DEF Init, AInv, Recorded, UnderHd, Forgetting, Present, Idle, NoWallets
<1>2. IInv /\ GInv /\ AInv /\ [Next]_vars => AInv'
  BY RecordsStep
<1>3. IInv /\ GInv /\ AInv => NextDerivedIsFree
  <2> SUFFICES ASSUME IInv, GInv, AInv, Ready, hdWallet # NoName, NEW coin \in Coins,
                      NEW a \in FreeAccounts(<<hdWallet.seed, coin>>)
               PROVE  wallets[[seed |-> hdWallet.seed, coin |-> coin, acct |-> a]] = NoWallet
    BY DEF NextDerivedIsFree
  <2> DEFINE n == [seed |-> hdWallet.seed, coin |-> coin, acct |-> a]
  <2>1. n \in Names /\ hdWallet \in Names /\ a \notin derived[Key(n)]
    BY DEF IInv, TypeOK, Names, FreeAccounts, Key
  <2>2. n.acct = 0 /\ n.coin = Btc => n = hdWallet /\ info[n] = "hd"
    BY <2>1 DEF Names, IInv, HdLive, HdOnDisk, HdHasSeed, DeletingGroup, Ready
  <2>3. files[n] = NoWallet
    <3>1. n.acct = a
      OBVIOUS
    <3> HIDE DEF n
    <3> QED BY <2>1, <2>2, <3>1 DEF AInv, Recorded, Exempt, Present, Ready
  <2> HIDE DEF n
  <2>4. wallets[n] = NoWallet
    BY <2>1, <2>3 DEF GInv, OpenOnDisk
  <2> QED BY <2>4 DEF n
<1>4. NoOverlap
  BY DEF BtcImports, NoOverlap
<1> QED BY <1>1, <1>2, <1>3, <1>4, GroupInvariance, PTL DEF Spec
=============================================================================
