----------------------------- MODULE WalletFile -----------------------------
(***************************************************************************)
(* One wallet file and the threads that write it: WalletStorage of         *)
(* electrum/storage.py, the dirty flag and lock of electrum/json_db.py and *)
(* wallet_db.py, save_db, stop and set_up_to_date of electrum/wallet.py,   *)
(* daemon.delete_wallet, and the synchronizer job of the wallet on the     *)
(* network thread (NetworkJobOnDefaultServer of electrum/util.py).         *)
(*                                                                         *)
(* The document is a version number: every change makes a new version.     *)
(* A save writes <path>.tmp.<pid>, syncs it and renames it to <path>.      *)
(***************************************************************************)
EXTENDS Integers

CONSTANTS
  MaxChanges,  \* bound on the versions the threads make between two deletions
  MaxLives,    \* bound on the processes that work on the file
  DiskFills,   \* TRUE when a write may find no space
  Missing,     \* no file
  Torn,        \* a file that holds part of a document
  Free         \* nobody holds the lock

Threads == {"ui", "net"}
Lives == 1 .. MaxLives
Versions == Nat \ {0}
Contents == Versions \cup {Missing, Torn}

ASSUME BoundsAssumption == MaxChanges \in Nat /\ MaxLives \in Nat \ {0} /\ DiskFills \in BOOLEAN
ASSUME SentinelAssumption ==
  Missing \notin Nat /\ Torn \notin Nat /\ Missing # Torn /\ Free \notin Threads

VARIABLES
  disk,       \* durable: the file at path
  tmp,        \* durable: the file at path.tmp.<pid> of each process
  probe,      \* durable: processes whose path.tmptest.<pid> is still there
  life,       \* the process, 0 before the first
  state,      \* "down", "loading" or "up"
  laterLoaded,\* load_all_wallet reached the wallets that sort after this one
  doc,        \* wallet.db.data
  modified,   \* wallet.db._modified
  fileExists, \* wallet.storage._file_exists
  hidden,     \* wallet.hide_type, a wallet of recovery_wallets
  open,       \* the wallet is in daemon._wallets
  lock,       \* holder of wallet.db.lock
  pc, next,   \* where each thread is, and what follows its save
  job,        \* wallet.synchronizer: "off", "running" or "restarting"
  registered, \* its _restart is called back when the server changes
  stopReq,    \* its stop() waits in the event loop
  deleted     \* history: delete_wallet has returned

file == <<disk, tmp, probe>>
process == <<life, state, laterLoaded>>
object == <<doc, modified, fileExists, hidden, open, lock>>
network == <<job, registered, stopReq>>
vars == <<file, process, object, pc, next, network, deleted>>

PCs == {"idle", "probe", "save", "write", "check", "replace", "rekey", "added",
        "stop", "unlink"}

Quiet == [t \in Threads |-> "idle"]

Init ==
  /\ disk = Missing
  /\ tmp = [l \in Lives |-> Missing]
  /\ probe = {}
  /\ life = 0 /\ state = "down" /\ laterLoaded = FALSE
  /\ doc = 0 /\ modified = FALSE /\ fileExists = FALSE
  /\ hidden = FALSE /\ open = FALSE /\ lock = Free
  /\ pc = Quiet /\ next = Quiet
  /\ job = "off" /\ registered = FALSE /\ stopReq = FALSE
  /\ deleted = FALSE

At(t, p) == state = "up" /\ pc[t] = p
Go(t, p) == pc' = [pc EXCEPT ![t] = p]
-----------------------------------------------------------------------------
(* save_db: json_db._write under the lock, storage.write *)

\* save_db looks at hide_type; p is where the caller goes on
Save(t, p) ==
  /\ pc' = [pc EXCEPT ![t] = IF hidden' THEN p ELSE "save"]
  /\ next' = [next EXCEPT ![t] = p]

\* Nothing is written unless the document was modified.
SaveNothing(t) ==
  /\ At(t, "save") /\ lock = Free /\ ~modified
  /\ Go(t, next[t])
  /\ UNCHANGED <<file, process, object, next, network, deleted>>

\* Mutants: the file itself is opened for writing; the lock is not taken.
OpenInPlace(t) ==
  /\ At(t, "save") /\ lock = Free /\ modified
  /\ lock' = t
  /\ disk' = Torn
  /\ tmp' = [tmp EXCEPT ![life] = Torn]
  /\ Go(t, "write")
  /\ UNCHANGED <<probe, process, doc, modified, fileExists, hidden, open, next, network, deleted>>

OpenUnlocked(t) ==
  /\ At(t, "save") /\ lock = Free /\ modified
  /\ tmp' = [tmp EXCEPT ![life] = Torn]
  /\ Go(t, "write")
  /\ UNCHANGED <<disk, probe, process, object, next, network, deleted>>

\* The lock is taken and the temporary file opened, which empties it.
OpenTmp(t) ==
  /\ At(t, "save") /\ lock = Free /\ modified
  /\ lock' = t
  /\ tmp' = [tmp EXCEPT ![life] = Torn]
  /\ Go(t, "write")
  /\ UNCHANGED <<disk, probe, process, doc, modified, fileExists, hidden, open, next,
                 network, deleted>>

\* write, flush, fsync
WriteTmp(t) ==
  /\ At(t, "write")
  /\ tmp' = [tmp EXCEPT ![life] = doc]
  /\ Go(t, "check")
  /\ UNCHANGED <<disk, probe, process, object, next, network, deleted>>

\* Mutant: the lock stays taken.
RaiseLocked(t) ==
  /\ Go(t, "idle")
  /\ job' = IF t = "net" THEN "off" ELSE job
  /\ UNCHANGED <<file, process, object, next, registered, stopReq, deleted>>

\* A save that raises leaves the temporary file and the dirty flag, and gives
\* the lock back.  On the UI thread the call ends; on the network thread the
\* job dies, and starts again when the network next finds a server.
Raise(t) ==
  /\ lock' = Free
  /\ Go(t, "idle")
  /\ job' = IF t = "net" THEN "off" ELSE job
  /\ UNCHANGED <<file, process, doc, modified, fileExists, hidden, open, next,
                 registered, stopReq, deleted>>

\* No space left
WriteFails(t) == DiskFills /\ At(t, "write") /\ Raise(t)

\* os.stat of a file that was there, or the assertion that none is there
CheckOK(t) ==
  /\ At(t, "check") /\ fileExists = (disk # Missing)
  /\ Go(t, "replace")
  /\ UNCHANGED <<file, process, object, next, network, deleted>>

CheckFails(t) ==
  /\ At(t, "check") /\ fileExists # (disk # Missing)
  /\ Raise(t)

\* os.replace; set_modified(False)
Replace(t) ==
  /\ At(t, "replace")
  /\ disk' = tmp[life]
  /\ tmp' = [tmp EXCEPT ![life] = Missing]
  /\ fileExists' = TRUE
  /\ modified' = FALSE
  /\ lock' = Free
  /\ Go(t, next[t])
  /\ UNCHANGED <<probe, process, doc, hidden, open, next, network, deleted>>

SaveStep(t) ==
  SaveNothing(t) \/ OpenTmp(t) \/ WriteTmp(t) \/ CheckOK(t) \/ CheckFails(t) \/ Replace(t)
-----------------------------------------------------------------------------
(* Changes to the document *)

\* Mutant: the flag is forgotten.
ChangeClean ==
  /\ doc' = doc + 1
  /\ UNCHANGED modified

\* db.put and the stored dictionaries: the flag and the value under the lock
Change ==
  /\ doc' = doc + 1
  /\ modified' = TRUE

UiChange ==
  /\ At("ui", "idle") /\ open /\ lock = Free
  /\ doc < MaxChanges
  /\ Change
  /\ UNCHANGED <<file, process, fileExists, hidden, open, lock, pc, next, network, deleted>>

UiSave ==
  /\ At("ui", "idle") /\ open
  /\ UNCHANGED hidden
  /\ Save("ui", "idle")
  /\ UNCHANGED <<file, process, doc, modified, fileExists, open, lock, network, deleted>>

\* A history, a transaction or new addresses arrive.
NetChange ==
  /\ At("net", "idle") /\ job = "running" /\ lock = Free
  /\ doc < MaxChanges
  /\ Change
  /\ UNCHANGED <<file, process, fileExists, hidden, open, lock, pc, next, network, deleted>>

\* Mutant: set_up_to_date does not look at hide_type.
NetSaveHidden ==
  /\ At("net", "idle") /\ job = "running"
  /\ pc' = [pc EXCEPT !["net"] = "save"]
  /\ next' = [next EXCEPT !["net"] = "idle"]
  /\ UNCHANGED <<file, process, object, network, deleted>>

\* set_up_to_date(True)
NetSave ==
  /\ At("net", "idle") /\ job = "running"
  /\ UNCHANGED hidden
  /\ Save("net", "idle")
  /\ UNCHANGED <<file, process, doc, modified, fileExists, open, lock, network, deleted>>

\* default_server_changed: _restart stops the job, and starts it again
RestartBegin ==
  /\ At("net", "idle") /\ registered /\ job # "restarting"
  /\ job' = "restarting"
  /\ UNCHANGED <<file, process, object, pc, next, registered, stopReq, deleted>>

RestartEnd ==
  /\ At("net", "idle") /\ job = "restarting"
  /\ job' = "running"
  /\ UNCHANGED <<file, process, object, pc, next, registered, stopReq, deleted>>

\* synchronizer.stop(), which the event loop reaches when no task runs.  It
\* cancels the tasks of a running job, not a restart under way.
NetStop ==
  /\ At("net", "idle") /\ stopReq
  /\ stopReq' = FALSE /\ registered' = FALSE
  /\ job' = IF job = "running" THEN "off" ELSE job
  /\ UNCHANGED <<file, process, object, pc, next, deleted>>
-----------------------------------------------------------------------------
(* Calls of the wallet manager on this file *)

\* No object of an earlier wallet with this name works on the file.
NoObject == ~open /\ ~hidden /\ job = "off" /\ ~registered /\ ~stopReq /\ pc["net"] = "idle"

\* WalletStorage.__init__ writes and removes a probe file.
Prepare(p) ==
  /\ At("ui", "idle") /\ NoObject
  /\ probe' = probe \cup {life}
  /\ Go("ui", "probe")
  /\ next' = [next EXCEPT !["ui"] = p]
  /\ UNCHANGED <<disk, tmp, process, object, network, deleted>>

Create == Prepare("rekey")
Recover == Prepare("idle")

NewObject ==
  /\ probe' = probe \ {life}
  /\ doc' = 1 /\ modified' = TRUE /\ fileExists' = FALSE /\ deleted' = FALSE

\* create: the first save is plain
CreateSave ==
  /\ At("ui", "probe") /\ next["ui"] = "rekey"
  /\ NewObject
  /\ UNCHANGED hidden
  /\ Save("ui", "rekey")
  /\ UNCHANGED <<disk, tmp, process, open, lock, network>>

\* update_password encrypts and saves again
Rekey ==
  /\ At("ui", "rekey") /\ lock = Free
  /\ Change
  /\ UNCHANGED hidden
  /\ Save("ui", "added")
  /\ UNCHANGED <<file, process, fileExists, open, lock, network, deleted>>

\* daemon.add_wallet, start_network
Added ==
  /\ At("ui", "added")
  /\ open' = TRUE /\ registered' = TRUE
  /\ Go("ui", "idle")
  /\ UNCHANGED <<file, process, doc, modified, fileExists, hidden, lock, next, job,
                 stopReq, deleted>>

\* recovery_create: hide_type, start_network, a save that does nothing
RecoverHidden ==
  /\ At("ui", "probe") /\ next["ui"] = "idle"
  /\ NewObject
  /\ hidden' = TRUE
  /\ Save("ui", "idle")
  /\ registered' = TRUE
  /\ UNCHANGED <<disk, tmp, process, open, lock, job, stopReq>>

\* recovery_confirmed: add_wallet, hide_type = False, save_db
Reveal ==
  /\ At("ui", "idle") /\ hidden
  /\ open' = TRUE /\ hidden' = FALSE
  /\ Save("ui", "idle")
  /\ UNCHANGED <<file, process, doc, modified, fileExists, lock, network, deleted>>

\* daemon.delete_wallet: the wallet leaves the table and the job is asked to
\* stop, wherever it is;
Delete ==
  /\ At("ui", "idle") /\ open
  /\ open' = FALSE
  /\ stopReq' = TRUE
  /\ Go("ui", "stop")
  /\ UNCHANGED <<file, process, doc, modified, fileExists, hidden, lock, next, job,
                 registered, deleted>>

\* wallet.stop goes on with stored_height and a last save;
StopSave ==
  /\ At("ui", "stop") /\ lock = Free
  /\ Change
  /\ UNCHANGED hidden
  /\ Save("ui", "unlink")
  /\ UNCHANGED <<file, process, fileExists, open, lock, network, deleted>>

\* then the file is removed.
Unlink ==
  /\ At("ui", "unlink")
  /\ disk' = Missing
  /\ deleted' = TRUE
  /\ Go("ui", "idle")
  /\ UNCHANGED <<tmp, probe, process, object, next, network>>
-----------------------------------------------------------------------------
(* Process life *)

\* load_all_wallet comes to this file, if it is there: WalletStorage.__init__
\* probes.
StartLoading ==
  /\ state = "down" /\ life < MaxLives
  /\ life' = life + 1
  /\ state' = "loading"
  /\ probe' = IF disk = Missing THEN probe ELSE probe \cup {life + 1}
  /\ UNCHANGED <<disk, tmp, laterLoaded, object, pc, next, network, deleted>>

\* The probe of a new wallet has a random name.  One that sorts before this
\* wallet stops load_all_wallet before it comes here.
LoadStopsBefore ==
  /\ state = "down" /\ life < MaxLives
  /\ probe # {}
  /\ life' = life + 1
  /\ state' = "up"
  /\ UNCHANGED <<file, laterLoaded, object, pc, next, network, deleted>>

\* A name of the wallet directory that load_wallet cannot read
Unreadable == disk = Torn \/ (\E l \in Lives : tmp[l] = Torn) \/ probe \ {life} # {}

\* Mutant: a file that is not there is read.
LoadMissing ==
  /\ state = "loading"
  /\ state' = "up"
  /\ probe' = probe \ {life}
  /\ laterLoaded' = ~Unreadable
  /\ doc' = disk /\ open' = TRUE /\ fileExists' = TRUE /\ modified' \in BOOLEAN
  /\ registered' = TRUE
  /\ UNCHANGED <<disk, tmp, life, hidden, lock, pc, next, job, stopReq, deleted>>

\* It is loaded, then what lies beside it under longer names, then the rest.
\* Whether the constructor of the wallet already changes the document depends
\* on what was saved.
Load ==
  /\ state = "loading"
  /\ state' = "up"
  /\ probe' = probe \ {life}
  /\ laterLoaded' = ~Unreadable
  /\ IF disk \in {Missing, Torn}
     THEN /\ doc' = 0 /\ open' = FALSE /\ fileExists' = FALSE /\ modified' = FALSE
          /\ registered' = FALSE
     ELSE /\ doc' = disk /\ open' = TRUE /\ fileExists' = TRUE /\ modified' \in BOOLEAN
          /\ registered' = TRUE
  /\ UNCHANGED <<disk, tmp, life, hidden, lock, pc, next, job, stopReq, deleted>>

Crash ==
  /\ state # "down"
  /\ state' = "down" /\ laterLoaded' = FALSE
  /\ doc' = 0 /\ modified' = FALSE /\ fileExists' = FALSE
  /\ hidden' = FALSE /\ open' = FALSE /\ lock' = Free
  /\ pc' = Quiet /\ next' = Quiet
  /\ job' = "off" /\ registered' = FALSE /\ stopReq' = FALSE
  /\ UNCHANGED <<file, life, deleted>>

UiStep ==
  SaveStep("ui") \/ CreateSave \/ Rekey \/ Added \/ RecoverHidden \/ StopSave \/ Unlink
NetStep == SaveStep("net") \/ RestartEnd \/ NetStop

Next ==
  \/ UiStep \/ NetStep
  \/ \E t \in Threads : WriteFails(t)
  \/ UiChange \/ UiSave \/ NetChange \/ NetSave \/ RestartBegin
  \/ Create \/ Recover \/ Reveal \/ Delete
  \/ StartLoading \/ LoadStopsBefore \/ Load \/ Crash

\* Each thread goes on with what it is doing; nothing is due to change or to
\* fail.  The network thread holds the lock for one save and then sleeps for a
\* tenth of a second (Synchronizer.main), so the UI thread gets it in the end.
Fairness == SF_vars(UiStep) /\ WF_vars(NetStep)

Spec == Init /\ [][Next]_vars /\ Fairness
-----------------------------------------------------------------------------
(* Properties *)

\* Every variable keeps to the values the program can give it.
TypeOK ==
  /\ disk \in Contents
  /\ tmp \in [Lives -> Contents]
  /\ probe \in SUBSET Lives
  /\ life \in 0 .. MaxLives
  /\ state \in {"down", "loading", "up"}
  /\ laterLoaded \in BOOLEAN
  /\ doc \in Nat
  /\ modified \in BOOLEAN /\ fileExists \in BOOLEAN
  /\ hidden \in BOOLEAN /\ open \in BOOLEAN
  /\ lock \in Threads \cup {Free}
  /\ pc \in [Threads -> PCs]
  /\ next \in [Threads -> PCs]
  /\ job \in {"off", "running", "restarting"}
  /\ registered \in BOOLEAN /\ stopReq \in BOOLEAN
  /\ deleted \in BOOLEAN

\* The wallet file is never part of a document, wherever the process dies and
\* whichever threads save at once.
DiskWhole == disk # Torn

\* The dirty flag tells the truth: a wallet nobody is writing and whose flag is
\* down has its last change on the disk, so that dying now loses nothing.
CleanMeansSaved == open /\ lock = Free /\ ~modified => disk = doc

\* A wallet that waits in recovery_wallets for the user to confirm it does not
\* touch the disk, although its synchronizer already runs (hide_type).
HiddenStaysOffDisk == [][hidden /\ hidden' => disk' = disk]_vars

\* delete_wallet comes to an end: with the two threads and one lock nobody
\* waits for ever, whatever a save raises.
DeleteEnds == pc["ui"] = "stop" ~> pc["ui"] = "idle"

\* The file as the rest of the program sees it.
Atomic == INSTANCE AtomicFile WITH saved <- disk, alive <- (state = "up")

\* The steps above come to no more than whole saves, whole reads and removals.
ImplementsAtomicFile == Atomic!Spec

\* delete_wallet, "Delete a wallet": when it has returned the file is gone.
DeletedStaysDeleted == deleted => disk = Missing

\* load_all_wallet, "Load all wallet info": one that has come to this wallet
\* comes to the ones after it.
AllLoaded == state = "up" => laterLoaded
=============================================================================
