# A TLA+ development of the OneKey iOS wallet

The repository is an iOS wallet. Its core is Python code run inside the app: a
copy of Electrum (`src/iOS/app/OneKey/electrum`), the wallet manager that the
screens call (`electrum_gui/android/console.py`, class `AndroidCommands`) and a
copy of the Trezor library (`trezorlib`). The screens are Objective-C
(`src/iOS/CustomCode`) and call the manager through `OKPyCommandsManager`.

This directory holds TLA+ modules of the parts of that core that keep state,
TLC configurations that check them on small instances, and proofs for TLAPS.

## 1. Inventory

Paths below are relative to `src/iOS/app/OneKey`.

| Part | State | Operations | Hard behaviour | What makes it correct |
| --- | --- | --- | --- | --- |
| **Wallet manager** `electrum_gui/android/console.py`, `derived_info.py`, `electrum/daemon.py` | open wallets (`daemon._wallets`), `hd_wallet`, `check_pw_wallet`, `recovery_wallets`; in the config file `all_wallet_type_info`, `derived_info`, `backupinfo`; the wallet directory | create, import, derive, recover, confirm, back up, delete, check and change the password, load everything at start | one call is several durable writes; the process dies between them; objects kept across calls | one mnemonic per HD group, an HD wallet for every group, the tables agree with the disk, no mnemonic lost or in plain text |
| **Wallet file** `electrum/storage.py`, `json_db.py`, `save_db`/`stop` of `wallet.py`, the synchronizer job of `util.py` | file, temporary file, dirty flag, lock | save, change, delete, load; start, stop and restart of the job | two threads save one file; full disk; death in a write; a deletion while the other thread saves | whole file, true dirty flag, hidden wallets stay hidden, deletions end |
| **User configuration** `electrum/simple_config.py` | `user_config` and the file `config` | `set_key`, read at start | rewritten in place; holds `ra_str`, a part of every wallet's storage password | what was saved is read again |
| **Header chains** `electrum/blockchain.py` | tree of chains, one file per chain | `fork`, `save_header`, `save_chunk`, `swap_with_parent`, `read_blockchains` | a fork overtakes its parent; two files are swapped; death in between | chains hold linked headers, the best has most work, names match contents |
| **Header synchronisation** `electrum/interface.py` | per interface: announced header, chain, interval of the search; the lock `bhi_lock` | header announced, `step`, backward and binary search, `sync_until`, `request_chunk` | every answer is an `await`; servers reorganise and connections break in between | the search ends on the fork, nothing known is lost, the announced header is found |
| **Network** `electrum/network.py` | connections, main interface, `default_server` | connect, switch, close, reconnect | coroutines interleave at every `await`, and a task may await the end of the connection it runs in | every open connection is a registered one, the main one is alive, ends connected |
| **Synchronizer, verifier** `electrum/synchronizer.py`, `verifier.py`, `address_synchronizer.py` | requested histories and transactions, verified and unverified ones | status, history, transaction, proof, undo, restart | answers out of order, reorganisations while waiting | `up_to_date` only with the server's histories; verified means in a block the wallet holds the header of |
| **Transactions** `electrum/address_synchronizer.py`, `wallet_db.py` (kept); `wallet.py`, `transaction.py`, `coinchooser.py` (made) | transactions, spent outpoints, inputs and outputs of the wallet's addresses, cached balances | receive, save, replace, remove; make, bump, sign, broadcast | parents after children, conflicts whose heights change, two threads | no two conflict, the coins are the server's, no stale balance |
| **Hardware sessions** `trezorlib/client.py`, `customer_ui.py`, `transport/bluetooth_ios.py` | the dialog flags, one response slot | call, PIN, passphrase, cancel | polled flags, time limits, cancellation | an answer belongs to its question |
| **Lightning** `electrum/ln*.py` | channels | | never started by the app | |

Interaction. The screens call the manager on the main thread, one call at a time. There
is one exception, `OKWordImportVC.m:124-125`, which runs `create_hd_wallet` on a global queue
and then `recovery_confirmed` on the main one, under an indicator view that covers the screen.
That no other call comes meanwhile is an assumption of `WalletManager`. The manager calls the daemon, wallets and storage directly. A
Bitcoin wallet registers jobs (synchronizer, verifier) with the network thread
(an asyncio loop); these change and save the wallet from there, under the lock of
its database. The network calls back on a change of the main interface, which
restarts the jobs. The hardware library is called by the manager and polls
answers that the screens store in flags.

## 2. Modules

| Module | What it is |
| --- | --- |
| `WalletManager` | the wallet manager, one action per durable write |
| `MCWalletManager` | its instances for TLC |
| `WalletManagerProofs` | proofs with the process dying anywhere (`SpecCrash`), and for an orderly life (`Spec`) |
| `AtomicFile` | what a wallet file promises: abstract |
| `WalletFile` | one wallet file, the two threads that write it, and process deaths |
| `MCWalletFile` | its instance for TLC |
| `WalletFileProofs` | its inductive invariant, and that it implements `AtomicFile` |
| `HeaderTree` | the headers servers may send, each mined on another |
| `HeaderTreeProofs` | lemmas about the branches of that tree and their work |
| `Blockchain` | the chains of headers, their dictionary and files, swaps and restarts |
| `MCBlockchain` | its trees of headers for TLC |
| `BlockchainProofs` | its inductive invariant through forks, swaps, deaths and starts, and every property of its run |
| `ChainSync` | several interfaces that search and catch up over the chains |
| `MCChainSync` | its trees of headers for TLC |
| `ChainSyncProofs` | that the lock keeps the searches apart, and that a search is sound |
| `TxTables` | what the wallet and the verifier note of one transaction |
| `Synchronizer` | subscriptions, statuses, histories and transactions, and the server |
| `WalletSync` | the synchronizer with the verifier, reorganisations and restarts |
| `MCWalletSync` | its instance for TLC |
| `WalletSyncProofs` | its types, what verified means, and that a wallet up to date has the server's histories |
| `TxHistory` | the transactions a wallet keeps, their conflicts, coins and balances |
| `MCTxHistory` | its three transactions for TLC |
| `TxHistoryProofs` | its types, its conflicts, the server's coins and the cached balances |
| `Network` | the connections and the choice of the main one |
| `NetworkProofs` | its types, and that no open connection is forgotten |

`WalletManager` and `WalletFile` meet in one step: every `files' = [files EXCEPT ...]` of
`WalletManager` is one save (`AtomicFile!Commit`) or removal
(`AtomicFile!Remove`) of a wallet file. `WalletFile` shows what such a step
consists of and that, apart from the deletion race of section 5, it may be taken
for atomic.

`Blockchain` and `ChainSync` share `HeaderTree`. A chain of `ChainSync` is its last
header: `Blockchain!InstancesKeepTheirHeaders` and `ChainsAreBranches` are what
makes that enough, since an object keeps its branch when a swap exchanges its file.

`WalletSync` is composed of `TxTables` (data), `Synchronizer` and the verifier. Its
`SyncHeaders` is a whole catch-up of `ChainSync`, its `Restart` the moment `Network`
changes the main interface. `TxHistory` takes histories and transactions in the order
`Synchronizer` may bring them and looks inside `receive_history_callback` and
`receive_tx_callback`, which are one step there.

### WalletManager

State and code: `files` is the wallet directory (name to content); `info`,
`derived`, `backup` are the three tables of the config file; `wallets` is
`daemon._wallets`; `hdWallet`, `checkWallet`, `recovery` are the fields
`hd_wallet`, `check_pw_wallet`, `recovery_wallets`; `unsaved` are the open wallets whose
file is another wallet's (section 5): to delete or encrypt one of them meets the assertion of
its storage (`UnlinkAsserts`, `RekeyAsserts`); `call` is the call in
progress: its place (`pc`), its arguments and what is left to do. `used` and
`unconfirmed` are history: mnemonics that exist, and generated ones that the user
has not proved to have written down.

A name is `[seed, coin, acct]`: `get_unique_path` hashes the first address, which
these three determine. A wallet is the kind of its key store and its password.
`Request` are the calls the screens can make, with the guards of the screens
(`OKHDWalletViewController.m` offers a new HD wallet only while no group is
listed, deletion asks `get_backup_info` first). `CallStep` are the steps of the
call in progress; each is one durable write with the assignments up to the next
one. `Start` is the constructor and `load_all_wallet`; `Quit` ends the process
between calls and `Crash` inside one.

Abstractions. Keys, addresses and encryption are values: a wallet opens with the
password it has. Wall clock order of creation is used in one place, the order of
`list_wallets`: the HD wallet is the oldest of its group because every other one
is made from it (`MayUnlink`). Which wallet `get_check_wallet` finds first is left
open. Whether an account has a history, which decides what a recovery offers and
what a deletion forgets, is left open.

### WalletFile

State and code: `disk`, `tmp`, `probe` are the files `<path>`, `<path>.tmp.<pid>`
and `<path>.tmptest.<pid>`; the document is a version number, `doc` the one in
memory; `modified` is the dirty flag, `fileExists` is `storage._file_exists`,
`hidden` is `hide_type`, `lock` the holder of the database lock; `pc` and `next`
say where each thread is. `job`, `registered` and `stopReq` are the synchronizer's
life: `default_server_changed` restarts it, `stop` is a coroutine that waits in the
event loop, and a restart under way is not cancelled by it (`util.py:1209-1225`).

A save is: take the lock, return if nothing is modified, open the temporary file,
write and sync it, compare with `_file_exists`, rename, clear the flag, give the
lock back. A full disk may end the write (`DiskFills`).

Abstractions. The lock is held for a whole save, so steps of the other thread that
need it wait. A name is used again only when no thread has an object of the
earlier wallet of that name (`NoObject`); the code does not wait for that.
Ethereum wallets have no job and are the case where it stays off. `StoredObject`
is left out (section 7). A process that dies without `Crash` being explicit does
not exist: `Crash` is enabled at every step.

### Blockchain

State and code: `files` are the files of the headers directory, named by forkpoint,
previous and first hash; `bc` is what each `Blockchain` object holds; `chains` is the
dictionary `blockchains` in its insertion order, which decides which chain
`check_header` and `can_connect` answer. `HashAt` is `get_hash`: below the
forkpoint it reads from the parent, so a wrong parent shows as a broken branch.
`SaveHeader`, `Fork` and `ConnectChunk` write and enter the loop of
`swap_with_parent`, whose steps are `WriteChild`, `WriteParent`, `Exchange` (the
parameters, the rename and the dictionary), `Adopt` (the former siblings) and
`SwapEnds` or `SwapRaises`. `Stop` ends the process between two of these,
`CrashInChild`, `CrashInParent`, `CrashInChunk` and `CrashInFork` between a truncation and
its write (with `Cuts`). `LoadMain`,
`LoadFork`, `DeleteFork` and `LoadEnds` are `read_blockchains`, file by file in the
order of the forkpoints (the order of files with the same forkpoint is left open).
A fork may meet a file of its own name, left by an earlier fork that was lost when its swap
raised (`Littered`). The constructor then takes its size from that file, `fork`
empties it, and `save_header` meets its assertion (`blockchain.py:458`): `ForkRaises`. The
next attempt finds the file empty and works.
`tip`, `crashes`, `clean` and `intact` are history: `clean` until a swap or a write is
cut short or a swap raises, `intact` until a death leaves a file that the next start keeps
shorter than its chain was. An emptied file is deleted at the start and leaves the rest
intact. `AfterCut` says whether headers arrive in a life after that; it is `FALSE` in the
run, which follows such a death to the end of the next start (section 5 says what happens
beyond).

Abstractions. A header is a node of `HeaderTree`, which passes `verify_header` on its
predecessor and no other; its work is a number. Height 0 is the last checkpoint. Every
header of the tree may come, in any order that its chain allows. All operations run on the network
thread, one at a time; a swap awaits nothing, so only a death comes between its steps.
A rename and the assignments around it are one step. `ConnectChunk` takes no chunk that ends
below the end of the chain it fits, which `save_chunk` would cut (`blockchain.py:361-362`,
`444-446`): `sync_until` asks for the chunk that goes on from the end of its chain, and a server
answers a shorter one only when it has left that chain meanwhile (next section).

### ChainSync

State and code: `target`, `chain` are `tip_header` and `blockchain` of each
interface; `lock` is `bhi_lock`; `pc` is the `await` it is at, or the step
without one that comes next; `at` and `last` are `height` and `last` of
`sync_until`, `probe`, `good`, `bad` the variables of the two searches; `server` is
the server's last header. Every request is one action at the moment of its answer,
which the server gives from the chain it has then (`ServerMoves` may come between any
two). `Step` is the part of `step` before a search; `Stepped` is what `sync_until` and
`_process_header_at_tip` do with its answer, including the assertion against an
infinite loop (`"stuck"`). An exception ends the connection (`Fail`), and a
new interface to the same server takes its place.

Abstractions. `check_header` may answer any chain that has the header. A chunk that
is shorter than the chain it fits truncates it (`Kept`, as in `save_chunk`); `Kept` cuts that
chain alone, and leaves whole the chains that fork from it above the cut, whose lower headers
are gone in the code. With `Stable` no such chunk comes, and the bounds of `sync_reorgs` do not
reach one. A new
connection always comes; one that does not is an interface that stays in `wait`. An
announcement that waits in the queue while another is processed is read as the latest.

### TxTables, Synchronizer, WalletSync

State and code: `wtx` is, for each transaction, its entry in `db.transactions`,
`unverified_tx`, `db.verified_tx`, `merkle_roots` and `requested_merkle`; `history` is
`db.history`; `tasks` are the `_on_address_status` tasks, each with the answer to its request
and the transactions it waits for; `requestedTx` are the requested transactions with the height
of their request, `txAnswers` what the server answered; `statuses` is the queue of notifications
by address; `main`, `toBoot` and `boot` say where `Synchronizer.main` is: it looks at one stored
history after the other and waits for what it asked for (`BootRequests`). `proofs` are the tasks
of the verifier, `spvBranch` its chain. The server is `branch`, `tip` and `pool`. A status is
the history it is the hash of. `AnswerHistory`, `AnswerTransaction` and `AnswerProof` are the
server, `OnHistory`, `OnTransaction` and `OnProof` the arrival of what it answered, any time
later: `OnHistory` is `receive_history_callback` with `_request_missing_txs`, `OnTransaction`
`receive_tx_callback` with `add_transaction`, which refuses a transaction or removes what
conflicts with it. `SpvRound` is one round of `SPV.main`, `Restart` `default_server_changed` for
both jobs. `SaveTransaction` and `RemoveTransaction` are the user's `do_save` and
`remove_local_tx`. What raises out of a job (`TransactionRefused`, `ProofRefused`) ends the
connection and comes to the same. `crossed`, `removed` and `refused` are history, of one
connection: the addresses whose last status came while a history of theirs was requested, the
transactions `remove_transaction` took out, and those that `add_transaction` or the server
refused.

Abstractions. `Block` says at which height each branch has a transaction, `Rivals` and `Heirs`
which spend a coin of it and which descend from it; headers are a height and a branch. The
wallet's chain of a branch grows to the server's tip in one step. `remove_local_tx` takes one
transaction at a time here and leaves its heirs; `TxHistory` has the whole of it.

### TxHistory

State and code: `store` holds `db.transactions`, `spent_outpoints`, `txi`, `txo`, the
level (local, mempool, confirmed) that `get_tx_height` gives, and
`_get_addr_balance_cache`; `counted` are the balances that `get_addr_balance` has computed
(`CountBalance`) and not yet cached (`CacheBalance`), which it does outside the locks; `mine` and `hist` are the keys and the values of `db.history`;
`receiving` and `todo` are inside `receive_history_callback`, `wanted` is `requested_tx`,
`removing` is inside `remove_local_tx`. `Added` and `Removed` are `add_transaction` and
`remove_transaction`, each of which holds both locks from its first to its last line.
`ReceiveHistory`, `ReceiveItem`, `RequestMissing` and `ReceiveTx` are the network thread;
`SaveLocal`, `RemoveLocal`, `RemoveNext`, `CountBalance` and `CacheBalance` the threads of the
screens, which come between any two of them.

Abstractions. Every coin is worth one and a balance counts coins. A transaction is asked
for and received whole. `Noted` leaves
open whether an unconfirmed height makes a verified transaction local for good, which
depends on whether the verifier had noted it: `TxTables` decides that.

### Network

State and code: `net` holds `interface`, `default_server`, `connection_status`,
`interfaces`, `_connecting` and the tasks `_run_new_interface` that have not started;
`state` says how far each `Interface` is, from `"connecting"` to `"down"`; `waiting`
are the calls of `switch_to_interface` that await the end of the session they leave, with the
task they run in. `SwitchTo` is the call up to that `await`, `Switched` the rest, which
`Resumes` runs when the session is closed: of several that wait for one session each goes on
in a turn of the event loop of its own, in the order they came. `Lost`
and `TasksCancelled` are `monitor_connection`; `ConnectionDown` is the end of
`Interface.run`, `connection_down`. `SetServer` is the user, `SwitchAway` an interface that
has processed a header, `EnsureMain`, `StartMore` and `CloseSpread` the maintenance.

Abstractions. When an interface lags or is on an unwanted fork is left open. A server may be
tried again at once. An interface object whose `run` has ended and that nobody refers to is
used again (`Unused`). Two short waits are left out: `BecomesReady` takes `ready.set_result`
and the registration of the interface, between which `_run_new_interface` awaits `ready`
(`network.py:756-771`), as one step, and `TimesOut` frees `_connecting` at once and not after
`interface.close()` (`network.py:759-767`).

## 3. What the runs check

| Run | Instance | Properties |
| --- | --- | --- |
| `wallets` | 2 mnemonics, 2 coins, 1 password, 2 accounts, the HD wallet's own address may also be imported | `TypeOK`, `GroupOneSeed`, `DaemonAgreesWithDisk`, `NextDerivedIsFree`, `UnconfirmedKept`, `EncryptedAtRest`, `GroupDeletionCompletes` |
| `wallets_crash` | 2 mnemonics, 1 coin, 1 password, 2 accounts, the address of a derived wallet may also be imported, death inside calls | `HdLive`, `GroupHasHead`, `WalletsAreNotReplaced` |
| `wallet_file` | 4 versions, 2 processes, the disk may fill | `TypeOK`, `DiskWhole`, `CleanMeansSaved`, `HiddenStaysOffDisk`, `ImplementsAtomicFile`, `DeleteEnds` |
| `chains` | 15 headers in 5 branches, one header worth three, 4 objects, chunks of 3, 1 death | `TypeOK`, `ChainsAreBranches`, `InstancesKeepTheirHeaders`, `BestChainAtKey`, `FilesAreChains`, `CleanStopLosesNoFork` |
| `sync_stable` | 2 interfaces, 2 branches of 3 and 6 headers, chunks of 3, 1 broken connection; servers only extend their chain during a search | `SearchSound`, `TipsApart`, `ChainsOnlyGrow`, `SyncedWhenDone` |
| `sync_reorgs` | 2 interfaces, 3 branches of at most 3 headers, 1 broken connection; servers may change branch at any time | `OneSearches`, `EventuallySynced` |
| `wallet_sync` | 2 addresses, one derived late, each with a transaction; the two spend one coin, and each of 2 branches that part at height 0 mines one of them; 3 changes of the server, broken connections or calls of the user | `TypeOK`, `RootsAreVerified`, `VerifiedHeadersHeld`, `SettledIsServers`, `EventuallySettled` |
| `tx_history` | 3 transactions (two conflict, one spends what another made), 4 coins, 2 addresses, one derived late, whose balance is read; 1 confirmed transaction may leave the chain; 2 calls of the user | `TypeOK`, `NoConflict`, `CoinsAreServers`, `CachedStaysRight` |
| `network` | 2 servers, 3 interface objects at once, 3 failures or choices of another server | `TypeOK`, `NoneLeaks`, `EventuallyConnected` |
| `fork_below`, `missing_tx`, `dead_main` | the smallest instances | the violations of section 5 |

Why the bounds are enough. Two mnemonics are what it takes to mix two groups; two
coins what it takes to have HD wallets that are not the group's head; two accounts
what it takes to have one wallet besides account 0 and to run out of accounts
(`RECOVERY_DERIVAT_NUM` is 20 in the code). Two passwords would tell the old from the
new, but take longer than is useful; the theorems of section 4 have any number of them. What
may be imported differs: `wallets_crash` has the address of a derived wallet, which a recovery
finds again and cannot save, and `wallets` the HD wallet's own, because three of its properties
do not hold with the other (section 5). In `wallet_file` one process leaves what the next one reads, so two suffice
for what one death can do (three were tried and add nothing), and four versions let
each thread change the document between two saves of the other. The proofs of
section 4 hold for every value of these constants.

In `chains` four objects give a fork of a fork and two siblings, the least in which a
swap changes the parent of a third chain, the order of the dictionary matters and a
second swap follows the first. A branch that is shorter and has more work separates work
from length. Chunks of three lie across a forkpoint. One death suffices to leave each
state of the files a swap goes through; the restart meets it and later swaps go on from
it (two deaths and five objects were tried and add nothing). `BlockchainProofs` has no
bound on any of these. In the sync runs a gap of 0
or 1 instead of 10 and chunks of 3 instead of 2016 make the catch-up take headers and
chunks on branches of six headers, and two interfaces are what it takes to find the
chains changed by another.

In `wallet_sync` the two transactions are the least in which one arriving removes the other
and a branch that is left brings back what it displaced; they are of different addresses, so
that the history of the one that is removed does not change with it. Three changes are what it
takes to announce, reorganise and interrupt, or to announce something twice with a change in
between while the first is asked for (`MaxEvents`). Refused transactions and proofs, which end connections
too, are not bounded. In `tx_history` three transactions are the least with a
conflict whose removal takes a descendant along, and in which a child can come before its
parent; an address that is derived late makes both known again, and it is the one whose
balance all three change. Two calls of the user let a balance be computed before something is
removed and cached after it. In `network` two servers are
what it takes to switch; a third object is a connection that is ending while its successor
and the other server's are there. Each failure or choice comes at any moment, and three of them
let a switch, a late end and a time-out meet.

`BestChainAtKey` is claimed while `clean`: no death and no
failed assertion has cut a swap short (section 5 says what happens then).
`SearchSound`, `TipsApart`, `ChainsOnlyGrow` and `SyncedWhenDone` assume servers that
keep their chain during a search (`Stable`). When one leaves its chain and comes back to
it in the middle of a catch-up, a chunk it sends can be the beginning of a longer chain
that is known, and `save_chunk` cuts that chain off above the chunk: the headers are
fetched again later.

Crashes. The properties of `wallets` are checked without deaths inside calls. Under
`SpecCrash` most of them do not hold, and the runs do not catch what goes wrong there: dying
between the save of a wallet and the entries in the tables leaves a
wallet that is not flagged (`UnconfirmedKept`), not encrypted (`EncryptedAtRest`:
between `console.py:2662` and `2663`), or not recorded (`NextDerivedIsFree`), and a
later deletion and import can then give one group two mnemonics (`GroupOneSeed`).
`HdLive` and `GroupHasHead` do survive, because a group is deleted newest first, and so does
`WalletsAreNotReplaced`.

Fairness. `WF(CallStep)`: the thread of a call runs until the call returns; nothing
is assumed of the user, of a start or of a death. In `WalletFile`, `WF(NetStep)` for
the event loop, and `SF(UiStep)` for the main thread: the network thread holds the
lock for one save and then sleeps for a tenth of a second
(`synchronizer.py:247`), so a thread that waits for the lock gets it. Changes,
failures and restarts are not fair. In `ChainSync`, `WF(Announce)` and `WF(Process)`:
a server answers while its connection lasts, and a request that is not answered times out
and is a `Drop`, which is bounded and not fair. `SF(Acquire \/ Skip)`: `asyncio.Lock`
wakes its waiters in the order they came. Servers move a bounded number of times, because
the work of their chain grows in a finite tree; `EventuallySynced` is about the header they
end at.

In `WalletSync`, weak fairness of the synchronizer's tasks, of the verifier, of the headers
and of what ends a connection: they are tasks of one event loop, and a server answers while
its connection lasts. The server and the screens owe nothing: their steps are not fair.
`EventuallySettled` can only be asked of a server that stops changing and a user who stops
calling, which `MaxEvents` makes them do. In
`Network`, weak fairness of the tasks and of the maintenance, which runs every tenth of a
second; that a server answers in time (`BecomesReady`) is the premise of
`EventuallyConnected`, and that it may not is bounded by `MaxEvents`. `EventuallyConnected` is
claimed without `auto_connect`: with it, `dead_main` stands against it.

Deadlock is checked in `WalletManager`. In `WalletFile` the process may be dead for
good once `MaxLives` is used up, so `CHECK_DEADLOCK FALSE` is set there; that no
thread waits for ever is `DeleteEnds`. In `Blockchain` and `ChainSync` nothing more
happens when every header of the finite tree has come, so it is set there too; that no
search waits for ever is `EventuallySynced`. In `WalletSync`, `TxHistory` and `Network` nothing
happens once the server is done and the wallet settled; that they get there is
`EventuallySettled` and `EventuallyConnected`.

## 4. What is proved

TLAPS checks every leaf of the proofs; they use only the named assumptions on
the constants and the premises given here, and hold for all values of the constants.

* `WalletManagerProofs`, under `SpecCrash`: `TypeCorrect`, `HdWalletLive`,
  `GroupKeepsHead`. The inductive invariant `IInv` adds what a half-done call
  has left behind: `Creating` (the wallet of `create` has a file and is nowhere
  else yet), `Deleting` (what is still to be removed contains the rest of the
  group), `Recovering`, `HdHasSeed`, `InfoHasFile`. `HdLive` alone is not
  inductive: a step of a deletion must know that its wallet is not the one
  `hd_wallet` points at.
  `NothingIsReplaced` has no premise on what was imported: a recovery that meets a file leaves
  a wallet open over it, and `Kinds` says that every other open wallet is of the kind of its
  file, so that no save of it and no encryption replaces another one.
* `WalletManagerProofs`, under `Spec`. Every invariant of the run `wallets` is a theorem:
  * `OneSeedPerGroup`, `DaemonIsTheDisk`, `MnemonicsAreKept`,
    with the premise `NoOverlap`: no address of an account other than 0 was
    imported on its own. The first two need it: section 5.
    `GInv` says which wallets are in the group (`DerivedInGroup`), that an import
    of a mnemonic finds no other account of it (`Importing`) and that what is to be
    recovered has no file (`ToRecover`). `Mirrored` says which wallet may be on the disk
    and not in the daemon, the one in creation. `KInv` follows a generated mnemonic from the
    file to its flag (`Flagging`) and says that a deletion never has a flagged one on its
    list (`FlagSound`).
  * `NothingPlainAtRest`, without a premise. `Shut` says it inside calls too: one file at
    most is plain, the one `create` encrypts next, and every password a call will
    encrypt with is one.
  * `NextAccountIsFree`, with the premise `BtcImports`: what is imported on its own is the
    first address of Bitcoin (section 5: another one does block the next account).
    `Recorded` says that `derived_info` has every account with a file, `Exempt` which wallet
    of the call in progress it may lack; `UnderHd` and `Forgetting` say that what is
    recorded and forgotten are derived wallets of the HD wallet.
* `WalletFileProofs`: `FileTypeCorrect`, `FileNeverTorn`, `FlagTellsTruth`,
  `HiddenOffDisk`, and `FileIsAtomic`: the detailed file implements `AtomicFile`,
  with `saved` mapped to the file at the path, `doc` to the document and `alive`
  to `state = "up"`. `FInv` says who holds the lock (`Locked`), that what is about
  to be renamed is the document (`Written`), that a hidden wallet is saved by
  nobody (`HiddenIdle`) and that the thread making a wallet is alone with it
  (`Alone`); `CleanMeansSaved` needs all of them.
* `HeaderTreeProofs`: what `OnBranch` and `HeaderAt` of a tree of headers give:
  `OnTrans` (a branch of a branch), `OnAt` and `AtOn` (a header is on a branch where the
  branch has it at its height), `OnSame` (one header per height). They rest on
  `BranchLength` and `AtType`, which are proved by a lowest counterexample (`Least`):
  the induction theorems of the library cannot be used here, the well-founded order of the
  naturals can. `OnTotal` and `ApartGrows` compare branches, `WorkGrows` their work.
* `BlockchainProofs`, for any tree of headers, any number of objects, deaths and starts,
  `Cuts` or not: every property of the run `chains`. `ChainTypeCorrect`,
  `EveryChainIsABranch`, `HeadersStayWithTheirChain`, `EveryChainHasItsFile` and
  `SwapLoopIsBounded` are said
  of states that are `Sound`: no file is short (`intact`), or no headers arrive after
  the death that left one short (`~AfterCut`). `BestChainIsBest` and `StartLosesNoFork`
  need no such premise, since `clean` is part of what they say.
  * None of them is inductive. A swap rewrites two files and renames one, and keeps the
    chains what they are only because of facts about all of them: the objects form a
    forest whatever has become whose parent (`Forest`, by a rank, since no order of
    heights holds: section 5), no header is in two files (`Once`), and no chain is a part
    of another (`Apart`). From `Once` follows that the first header of the demoted
    parent's file begins no other chain, so that `os.replace` overwrites nothing
    (`RenameOverwritesNothing`); that needs `Strays` too, what a swap that raised has left
    behind. From `Apart` follows that parent and child part above the fork, so that the
    parent has a header to name its new file after.
  * `Inv` has three parts. `Alive` is a life: the facts above, and which file holds what
    between the writes of a swap (`Contents`, `Swapping`, `Adopting`); `Grow` and the lemma
    of each action show that it is kept. `Durable` is what the files alone say between two
    lives: each is a piece of a branch or will be deleted (`Whole`, `Broken`), and while
    nothing failed each fork's parent is in a file with a lower number, and has the
    most work (`AllKept`). `Loading` is `read_blockchains` half done, each parent before its
    children. `DieBody` and `Leaves` lead from a life to the files at each point where the
    process may die, `LoadMainBody` to `LoadEndsBody` back.
  * `ReadAt` says what `get_hash` answers: the recursion along the parents ends because
    ranks fall, and gives the header of the object's own branch. `NextReadable` is the step
    of `StartLosesNoFork`: while nothing failed, the fork file with the lowest number finds
    its parent among the chains already read.
  * `SwapLoopIsBounded`: the count of swaps stays below the number of chains, so the
    exception "swapping fork with parent too many times" (`blockchain.py:376`) is never
    raised; of the two disjuncts of `SwapRaises` only the one on the forkpoints happens
    (section 5). `Limited` finds a set of objects that has every ancestor of the chain that
    swaps, and fits with the swaps already done into the objects there are; a swap takes
    the old parent out of it (`ExchangeLimited`), and no ancestor is a child of the
    old parent, so that `Adopt` adds none (`AdoptLimited`).
* `ChainSyncProofs`, for any number of servers and any tree of headers:
  * `OneSearchesAlways`. `LockInv` adds the types of the places; `Holder` says what a step
    may do to the lock, and every action is shown to be such a step.
  * `SearchIsSound`, `ChainsStayApart`, `ChainsNeverShrink`, `SyncedAtTheEnd`, with the
    premise `Stable`: a server does not leave the header an interface is after while it
    is after it. Section 3 says what happens without. `Searching` says where an interface is:
    everything it asks for lies on the way to the announced header; the bad header is
    known to nobody, although others run between any two answers, because only the holder
    of the lock saves headers; and in `sync_until` its chain ends one header below the one
    asked for, which makes a chunk that is shorter than the chain it fits impossible.
    `TipsApart` is part of the invariant: that no chain is a part of another is what
    makes a fork of the last good header a new chain. `NothingRaises` is the lemma that no
    assertion of `step` and `sync_until` fails on the way.
* `WalletSyncProofs`, for any addresses, transactions, branches and heights:
  * `WalletSyncTyped`, `VerifiedOrNot`, `VerifiedIsHeld`, with removals, refusals and answers
    that arrive at any time. `IInv` adds what is on its way: an answered proof is of a block
    that has the transaction (`ProofOK`), so that a header the wallet has when it checks the
    proof is the block's; and the chains the wallet holds only grow.
  * `UpToDateIsServers`, with no premise. `SettledIsServers` says nothing while anything is
    open, so `SInv` follows the server's history of an address: it is at the end of the queue of
    statuses, or in the wallet, or a task is about to store it, and if the last status crossed
    no request then every open task of the address is for that history and will be answered
    with it or has been (`Told`); every transaction of a stored history is here or requested,
    or was removed or refused (`Fetched`). Section 5 shows that both exceptions are needed.
* `TxHistoryProofs`, for any transactions, coins and addresses:
  * `HistoryTyped`, `NoConflictEver`, with any number of reorganisations. `Sound` says it of a
    store; that `add_transaction` removes every conflict before it enters a transaction, and
    that a removal frees every coin of what it removes, are the lemmas on `Added` and `Removed`.
  * `CoinsAlwaysServers`, with any number of reorganisations. `CoinsAreServers` says nothing
    while anything is under way, so `Linked` says of every store that `txi` and `txo` know
    nothing of a transaction that is gone, and that whoever spends a coin of `txo` has it in
    its `txi`, whichever came first; `Noticed`, that a transaction which the history of an
    address names gives it its coins or is still to be processed, which is how one that came
    before the address was derived gives them at all.
  * `CacheStaysRight`, with any number of reorganisations. `SameFor` says what a balance is
    computed from, so that no arithmetic is needed: the lemmas on `Removed`, `Entered` and
    `Noted` show that each leaves it alone for every address it leaves in the cache. It excepts
    the step that section 5 shows to be wrong, a received history that takes a transaction out
    of the chain, and it does not say that what is stored in the cache is right.
* `NetworkProofs`: `NetworkTyped`, `NoConnectionLeaks`, for any number of servers, objects and
  failures. `NoneLeaks` is not inductive: an object that connects must not find its server
  in `interfaces` when it is ready, so `Registry` adds that of the objects that connect
  there is one per server, that `_connecting` has it, and that `interfaces` has an entry for
  none of these and only entries of the right server. What follows an `await` in
  `switch_to_interface` chooses among the entries that are there then (`SwitchedNet`).

Each invariant was first checked by TLC on the instances above.

Only model-checked: the liveness properties (`GroupDeletionCompletes`, `DeleteEnds`,
`EventuallySynced`, `EventuallySettled`, `EventuallyConnected`), which are out of the reach of
TLAPS here. Every invariant and every action property of the passing runs is a theorem.

## 5. Disagreements found

With a run:

* **A fork below its parent** (`fork_below`). Swaps reorder the dictionary, and
  `check_header` then gives a new fork a parent that branches off above it; the
  assertion of `_swap_with_parent` fails when the fork gets more work, at that header and at
  every later one of the fork, and the best chain stays the weaker one as long as the process
  lives. A restart reads the main chain first and the forks by forkpoint, and gives the fork a
  parent that branches off below it.
* **A transaction the wallet removes and never asks for again** (`missing_tx`). `broadcast_tx`
  removes the transaction whose broadcast was refused, local or not. The server has it, its
  history is stored, no status changes: until the next connection the wallet lacks it and
  says it is up to date.
* **A main interface that is gone** (`dead_main`). The main interface calls
  `switch_to_interface` in its own task `run_fetch_blocks` and awaits the end of its own
  session, which cancels that task. `default_server` is the new server, `self.interface` the
  old connection, and `is_connected` stays true. It heals when another connection sees it
  lag by two blocks or the user chooses a server.

Without a run of their own; the definition named is in the module, and does not hold
on the instance given:

| Property | Instance | What happens |
| --- | --- | --- |
| `WalletManager!RecoveredFileIsNew` | 1 mnemonic, 1 coin, `ImportNames <- ImportAccount1` | A derived address was imported as a key or to watch and is then found by the recovery of its mnemonic: `recovery_confirmed` does not look whether a name exists and meets the assertion of `storage.write` (`storage.py:112-114`) after the daemon's entry has been replaced. The rest of the list stays unconfirmed, and until a restart the wallet that is open over the file can be neither saved nor encrypted anew nor deleted. `DaemonAgreesWithDisk` fails with it, and with 2 mnemonics `GroupOneSeed`: what the failed call has left on the list is confirmed with another mnemonic. No file is lost by it: `WalletsAreNotReplaced`, which `wallets_crash` checks on this input. |
| `WalletManager!NextDerivedIsFree` | 1 mnemonic, 2 coins, the first Ethereum address of the mnemonic in `ImportNames` | It was imported as a key. (With `ImportAccount1` the same happens to Bitcoin.) The first Ethereum wallet that `create_derived_wallet` derives has the same address: `check_exist_file` raises (`console.py:3121-3124`), the account is not recorded, and every later attempt derives it again. |
| `WalletManager!CheckedPasswordOpens` | 2 mnemonics, 2 passwords, `ImportNames <- NoImports` | `check_password` keeps the wallet it first chose. After that wallet is deleted and the password changed, the old password passes and the new one raises. With `ImportAccount0` the wallet chosen may only watch: every password passes, and `create` saves a wallet under a second one. |
| `WalletFile!DeletedStaysDeleted` | 3 versions, 2 processes | `wallet.stop` does not wait for the network thread, whose `os.replace` may follow the `os.unlink` of `delete_wallet`: the wallet is back at the next start. |
| `WalletFile!AllLoaded` | the same | A temporary file left by a process that died makes `load_all_wallet` raise; the wallets sorted after it are not loaded. |
| `Blockchain!ChainsAreBranches` | the tree `Forks`, `Heavy = {"b3"}`, `AfterCut = TRUE` | A death between the truncate and the write of a chunk, or of the parent in a swap, leaves a chain that ends on the branch of one of its forks. After the restart a chunk of a server that has reorganised meanwhile gives it that fork's headers too: they are in two files. The next swap of the two gives the demoted chain the name the fork's file has; `os.replace` overwrites it and the fork leaves the dictionary, against `blockchain.py:399` ("parent's new name will be something new") and `blockchain.py:384-386`. |
| `WalletSync!HeightsAgree` | that of `wallet_sync` | A transaction is requested while unconfirmed and mined before it arrives; `receive_tx_callback` writes the height of the request over the newer one of the history, and nothing corrects it, against `address_synchronizer.py:575-579` ("we should get a status update ... that will overwrite it"). A removal leaves the transaction local as well. |
| `WalletSync!UpToDateMeansServers` | that of `wallet_sync` | Two history requests for one address are open, for two statuses, and the answer that was made first is stored last (`synchronizer.py:176-203`). Or a status comes back that the address had before, and is skipped because the request for it is still open (its task waits for a transaction, `synchronizer.py:165-166`), although the history in between has been stored meanwhile. Either way the wallet reports up to date with the older history, until the next status or connection. `SettledIsServers` excepts the addresses whose last status came while a request was open (`crossed`), and the transactions that `missing_tx` is about or that were refused. |
| `WalletSync!RootsMeanVerified` | that of `wallet_sync` | `remove_transaction` drops the verification (`address_synchronizer.py:344-345`), and the verifier keeps the root, against `verifier.py:53` ("once it has been verified"). When the transaction comes back, `_request_proofs` skips it (`verifier.py:80-81`): it stays unverified until the next connection. `RootsAreVerified` excepts the transactions removed since the last one. |
| `TxHistory!CachedIsCurrent` | that of `tx_history`, `MaxReorgs = 0` | `get_addr_balance` stores its result outside the locks (`address_synchronizer.py:824`). A transaction that is received, saved or removed between the computation and the store forgets the cached balance too early: the one stored then is out of date, until something else of the address changes or the next block. |
| `TxHistory!CachedIsCurrent` | that of `tx_history` | A confirmed transaction leaves the chain; `receive_history_callback` makes it local and leaves the cached balance, against `address_synchronizer.py:822-823` ("Cache needs to be invalidated if a transaction is added to/removed from history"). `CachedStaysRight` excepts this step. |

And two that are why properties are worded as they are:

* **Swaps cut short by a death** (why `BestChainAtKey` says `clean`). A header is on the disk
  before the swap it calls for, and a restart compares no work: the weaker chain stays the
  best until another header of the fork arrives, against `blockchain.py:87`. And a main file
  that a death left cut at a forkpoint is accepted at the restart; the next swap of that fork
  finds nothing to exchange and enters an empty chain under the hash of no header, against
  `blockchain.py:86`.
* **A restart instead of an undo** (why `VerifiedHeadersHeld` says some branch). When the
  main interface changes together with the chain, the verifier starts on the new chain
  (`verifier.py:69`) and never compares it with the one before: what the old branch verified
  stays verified until a status of its address comes.

## 6. What could follow

1. `auto_connect` in `EventuallyConnected`, once a switch no longer runs in the task it
   ends; readers of the chains in other threads.
2. The construction of transactions from the coins of `TxHistory`: fee bumping, coin
   selection.
3. The dialogs of the hardware client and their time limits.

## 7. Not modelled

* Hardware and multi-signature wallets in the manager: no screen of the iOS app
  creates one.
* The proof of work, retargeting and the cache of chain work in `blockchain.py`:
  arithmetic on data that the models take as given (a header is valid, its work a number).
* Lightning: the app never calls `init_lightning`. `StoredObject.__setattr__`
  (`json_db.py:52-55`) raises the dirty flag before the value and outside the lock;
  only Lightning objects and invoices are concerned.
* Cryptography, key derivation, encodings, format upgrades: functions without state.
* Desktop interfaces and plugins of Electrum, vendored libraries: not run, or not
  part of this program.
* `update_wallet_password` when a wallet raises in the middle: modelled
  (`RekeyRaises`), but the mixed passwords it leaves are stated as no property,
  since no text of the repository promises otherwise.
* The restart of the whole network for a new proxy, the delays between two attempts at a
  server, and the requests of other parts in `network.py`.
* The construction, fee bumping and signing of transactions and coin selection: functions of
  the coins `TxHistory` keeps. Future transactions and coinbase maturity: not met in the app,
  or a comparison of heights.
* `simple_config.py`: a death while `save_user_config` rewrites the file in place leaves an
  empty config at the next start, and with it a new `ra_str` (`console.py:191-196`). It is
  described here and not modelled, as the rest of that file is a table of settings.
* The Trezor client (`trezorlib`): its dialogs are polled flags with a time limit; it belongs to
  the hardware wallets above.
* Ethereum: calls to a remote node without a protocol of their own.
