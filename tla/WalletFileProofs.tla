-------------------------- MODULE WalletFileProofs --------------------------
(***************************************************************************)
(* What is proved about WalletFile for every number of changes and of      *)
(* processes, whether or not the disk fills: the file is never torn, the   *)
(* dirty flag tells the truth, and the file, its temporary copies and its  *)
(* lock come to no more than AtomicFile.                                   *)
(***************************************************************************)
EXTENDS WalletFile, TLAPS

Writing == {"write", "check", "replace"}

\* The thread that writes, and only it, has the lock.
Locked == \A t \in Threads : pc[t] \in Writing <=> lock = t

\* Nothing is left of a process that does not live.
Dead ==
  /\ state # "up" => /\ pc = Quiet /\ next = Quiet /\ lock = Free
                     /\ ~hidden /\ ~open /\ job = "off" /\ ~registered /\ ~stopReq
                     /\ doc = 0 /\ ~modified
  /\ state # "down" => life \in Lives

\* What follows a save
Followed ==
  /\ next["net"] = "idle"
  /\ next["ui"] \in {"idle", "rekey", "added", "unlink"}
  /\ pc["net"] \in {"idle", "save"} \cup Writing
  /\ pc["ui"] = "probe" => next["ui"] \in {"idle", "rekey"}

\* A thread writes a version, under a flag that is up until it has replaced
\* the file.
Written ==
  \A t \in Threads :
    /\ pc[t] \in Writing => modified
    /\ pc[t] \in {"check", "replace"} => tmp[life] = doc

Changed == modified => doc # 0

\* create has saved its wallet and not yet given it to the daemon.
Making ==
  \/ pc["ui"] \in {"rekey", "added"}
  \/ pc["ui"] \in {"save"} \cup Writing /\ next["ui"] \in {"rekey", "added"}

\* While WalletStorage is made for a new wallet no thread has another object,
\* and while create makes one no job runs for it.
Alone ==
  pc["ui"] = "probe" \/ Making =>
    ~open /\ ~hidden /\ job = "off" /\ ~registered /\ ~stopReq /\ pc["net"] = "idle"

\* Nobody saves a hidden wallet.
HiddenIdle ==
  hidden => modified /\ ~open /\ pc["ui"] = "idle" /\ pc["net"] = "idle"

\* delete_wallet has taken the wallet out of the table.
Removing ==
  \/ pc["ui"] \in {"stop", "unlink"}
  \/ pc["ui"] \in {"save"} \cup Writing /\ next["ui"] = "unlink"
RemovingClosed == Removing => ~open /\ ~hidden

FlagTrue == (open \/ Making) /\ lock = Free /\ ~modified => disk = doc

FInv ==
  /\ TypeOK /\ Locked /\ Dead /\ Followed /\ Written /\ Changed /\ Alone
  /\ HiddenIdle /\ RemovingClosed /\ FlagTrue /\ DiskWhole

LEMMA SaveNothingStep ==
  ASSUME FInv, NEW t \in Threads, SaveNothing(t)
  PROVE  FInv'
  <1> USE SentinelAssumption, BoundsAssumption DEF FInv, TypeOK, SaveNothing, At, Go, Threads, PCs,
        Writing, file, process, object, network
  <1>1. TypeOK'
    BY DEF Contents, Versions
  <1>2. Locked'
    BY DEF Locked, Followed
  <1>3. Dead'
    BY DEF Dead, Quiet
  <1>4. Followed'
    BY DEF Followed
  <1>5. Written'
    BY DEF Written, Locked, Dead, Alone, HiddenIdle, Followed, Lives
  <1>6. Alone'
    BY DEF Alone, Making, Followed
  <1>7. HiddenIdle'
    BY DEF HiddenIdle
  <1>8. RemovingClosed'
    BY DEF RemovingClosed, Removing, Followed
  <1>9. FlagTrue'
    BY DEF FlagTrue, Making
  <1>10. Changed' /\ DiskWhole'
    BY DEF Changed, DiskWhole
  <1> QED BY <1>1, <1>2, <1>3, <1>4, <1>5, <1>6, <1>7, <1>8, <1>9, <1>10

LEMMA OpenTmpStep ==
  ASSUME FInv, NEW t \in Threads, OpenTmp(t)
  PROVE  FInv'
  <1> USE SentinelAssumption, BoundsAssumption DEF FInv, TypeOK, OpenTmp, At, Go, Threads, PCs,
        Writing, file, process, object, network
  <1>1. TypeOK'
    <2>1. tmp' \in [Lives -> Contents]
      BY DEF Contents
    <2>2. pc' \in [Threads -> PCs] /\ lock' \in Threads \cup {Free}
      OBVIOUS
    <2> QED BY <2>1, <2>2
  <1>2. Locked'
    BY DEF Locked
  <1>3. Dead'
    BY DEF Dead, Quiet
  <1>4. Followed'
    BY DEF Followed
  <1>5. Written'
    BY DEF Written, Locked
  <1>6. Alone'
    BY DEF Alone, Making
  <1>7. HiddenIdle'
    BY DEF HiddenIdle
  <1>8. RemovingClosed'
    BY DEF RemovingClosed, Removing
  <1>9. FlagTrue'
    BY DEF FlagTrue, Making
  <1>10. Changed' /\ DiskWhole'
    BY DEF Changed, DiskWhole
  <1> QED BY <1>1, <1>2, <1>3, <1>4, <1>5, <1>6, <1>7, <1>8, <1>9, <1>10

LEMMA WriteTmpStep ==
  ASSUME FInv, NEW t \in Threads, WriteTmp(t)
  PROVE  FInv'
  <1> USE SentinelAssumption, BoundsAssumption DEF FInv, TypeOK, WriteTmp, At, Go, Threads, PCs,
        Writing, file, process, object, network
  <1>1. TypeOK'
    BY DEF Contents, Versions, Lives, Written, Dead, Changed
  <1>2. Locked'
    BY DEF Locked
  <1>3. Dead'
    BY DEF Dead, Quiet
  <1>4. Followed'
    BY DEF Followed
  <1>5. Written'
    BY DEF Written, Locked, Dead, Alone, HiddenIdle, Followed, Lives
  <1>6. Alone'
    BY DEF Alone, Making
  <1>7. HiddenIdle'
    BY DEF HiddenIdle
  <1>8. RemovingClosed'
    BY DEF RemovingClosed, Removing
  <1>9. FlagTrue'
    BY DEF FlagTrue, Making
  <1>10. Changed' /\ DiskWhole'
    BY DEF Changed, DiskWhole
  <1> QED BY <1>1, <1>2, <1>3, <1>4, <1>5, <1>6, <1>7, <1>8, <1>9, <1>10

LEMMA WriteFailsStep ==
  ASSUME FInv, NEW t \in Threads, WriteFails(t)
  PROVE  FInv'
  <1> USE SentinelAssumption, BoundsAssumption DEF FInv, TypeOK, WriteFails, Raise, At, Go, Threads, PCs,
        Writing, file, process, object, network
  <1>1. TypeOK'
    BY DEF Contents, Versions
  <1>2. Locked'
    BY DEF Locked
  <1>3. Dead'
    BY DEF Dead, Quiet
  <1>4. Followed'
    BY DEF Followed
  <1>5. Written'
    BY DEF Written
  <1>6. Alone'
    BY DEF Alone, Making
  <1>7. HiddenIdle'
    BY DEF HiddenIdle
  <1>8. RemovingClosed'
    BY DEF RemovingClosed, Removing
  <1>9. FlagTrue'
    BY DEF FlagTrue, Making, Written
  <1>10. Changed' /\ DiskWhole'
    BY DEF Changed, DiskWhole
  <1> QED BY <1>1, <1>2, <1>3, <1>4, <1>5, <1>6, <1>7, <1>8, <1>9, <1>10

LEMMA CheckOKStep ==
  ASSUME FInv, NEW t \in Threads, CheckOK(t)
  PROVE  FInv'
  <1> USE SentinelAssumption, BoundsAssumption DEF FInv, TypeOK, CheckOK, At, Go, Threads, PCs,
        Writing, file, process, object, network
  <1>1. TypeOK'
    BY DEF Contents, Versions
  <1>2. Locked'
    BY DEF Locked
  <1>3. Dead'
    BY DEF Dead, Quiet
  <1>4. Followed'
    BY DEF Followed
  <1>5. Written'
    BY DEF Written
  <1>6. Alone'
    BY DEF Alone, Making
  <1>7. HiddenIdle'
    BY DEF HiddenIdle
  <1>8. RemovingClosed'
    BY DEF RemovingClosed, Removing
  <1>9. FlagTrue'
    BY DEF FlagTrue, Making
  <1>10. Changed' /\ DiskWhole'
    BY DEF Changed, DiskWhole
  <1> QED BY <1>1, <1>2, <1>3, <1>4, <1>5, <1>6, <1>7, <1>8, <1>9, <1>10

LEMMA CheckFailsStep ==
  ASSUME FInv, NEW t \in Threads, CheckFails(t)
  PROVE  FInv'
  <1> USE SentinelAssumption, BoundsAssumption DEF FInv, TypeOK, CheckFails, Raise, At, Go, Threads, PCs,
        Writing, file, process, object, network
  <1>1. TypeOK'
    BY DEF Contents, Versions
  <1>2. Locked'
    BY DEF Locked
  <1>3. Dead'
    BY DEF Dead, Quiet
  <1>4. Followed'
    BY DEF Followed
  <1>5. Written'
    BY DEF Written
  <1>6. Alone'
    BY DEF Alone, Making
  <1>7. HiddenIdle'
    BY DEF HiddenIdle
  <1>8. RemovingClosed'
    BY DEF RemovingClosed, Removing
  <1>9. FlagTrue'
    BY DEF FlagTrue, Making, Written
  <1>10. Changed' /\ DiskWhole'
    BY DEF Changed, DiskWhole
  <1> QED BY <1>1, <1>2, <1>3, <1>4, <1>5, <1>6, <1>7, <1>8, <1>9, <1>10

LEMMA ReplaceStep ==
  ASSUME FInv, NEW t \in Threads, Replace(t)
  PROVE  FInv'
  <1> USE SentinelAssumption, BoundsAssumption DEF FInv, TypeOK, Replace, At, Go, Threads, PCs,
        Writing, file, process, object, network
  <1>1. TypeOK'
    BY DEF Contents, Versions, Lives, Written, Dead, Changed
  <1>2. Locked'
    BY DEF Locked, Followed
  <1>3. Dead'
    BY DEF Dead, Quiet
  <1>4. Followed'
    BY DEF Followed
  <1>5. Written'
    BY DEF Written, Locked, Dead, Alone, HiddenIdle, Followed, Lives
  <1>6. Changed'
    BY DEF Changed
  <1>7. Alone'
    BY DEF Alone, Making, Followed
  <1>8. HiddenIdle'
    BY DEF HiddenIdle
  <1>9. RemovingClosed'
    BY DEF RemovingClosed, Removing, Followed
  <1>10. FlagTrue'
    BY DEF FlagTrue, Making, Written
  <1>11. DiskWhole'
    BY DEF DiskWhole, Written
  <1> QED BY <1>1, <1>2, <1>3, <1>4, <1>5, <1>6, <1>7, <1>8, <1>9, <1>10, <1>11

LEMMA UiChangeStep ==
  ASSUME FInv, UiChange
  PROVE  FInv'
  <1> USE SentinelAssumption, BoundsAssumption DEF FInv, TypeOK, UiChange, Change, At, Go, Threads, PCs,
        Writing, file, process, object, network
  <1>1. TypeOK'
    BY DEF Contents, Versions
  <1>2. Dead'
    BY DEF Dead, Quiet
  <1>3. Written'
    BY DEF Written, Locked
  <1>4. Changed'
    BY DEF Changed
  <1>5. HiddenIdle'
    BY DEF HiddenIdle
  <1>6. FlagTrue'
    BY DEF FlagTrue, Making
  <1>7. Locked' /\ Followed' /\ Alone' /\ RemovingClosed' /\ DiskWhole'
    BY DEF Locked, Followed, Alone, Making, RemovingClosed, Removing, DiskWhole
  <1> QED BY <1>1, <1>2, <1>3, <1>4, <1>5, <1>6, <1>7

LEMMA UiSaveStep ==
  ASSUME FInv, UiSave
  PROVE  FInv'
  <1> USE SentinelAssumption, BoundsAssumption DEF FInv, TypeOK, UiSave, Save, At, Go, Threads, PCs,
        Writing, file, process, object, network
  <1>1. TypeOK'
    BY DEF Contents, Versions
  <1>2. Locked'
    BY DEF Locked
  <1>3. Dead'
    BY DEF Dead, Quiet
  <1>4. Followed'
    BY DEF Followed
  <1>5. Written'
    BY DEF Written
  <1>6. Alone'
    BY DEF Alone, Making
  <1>7. HiddenIdle'
    BY DEF HiddenIdle
  <1>8. RemovingClosed'
    BY DEF RemovingClosed, Removing
  <1>9. FlagTrue'
    BY DEF FlagTrue, Making
  <1>10. Changed' /\ DiskWhole'
    BY DEF Changed, DiskWhole
  <1> QED BY <1>1, <1>2, <1>3, <1>4, <1>5, <1>6, <1>7, <1>8, <1>9, <1>10

LEMMA NetChangeStep ==
  ASSUME FInv, NetChange
  PROVE  FInv'
  <1> USE SentinelAssumption, BoundsAssumption DEF FInv, TypeOK, NetChange, Change, At, Go, Threads, PCs,
        Writing, file, process, object, network
  <1>1. TypeOK'
    BY DEF Contents, Versions
  <1>2. Dead'
    BY DEF Dead, Quiet
  <1>3. Written'
    BY DEF Written, Locked
  <1>4. Changed'
    BY DEF Changed
  <1>5. HiddenIdle'
    BY DEF HiddenIdle
  <1>6. FlagTrue'
    BY DEF FlagTrue, Making
  <1>7. Locked' /\ Followed' /\ Alone' /\ RemovingClosed' /\ DiskWhole'
    BY DEF Locked, Followed, Alone, Making, RemovingClosed, Removing, DiskWhole
  <1> QED BY <1>1, <1>2, <1>3, <1>4, <1>5, <1>6, <1>7

LEMMA NetSaveStep ==
  ASSUME FInv, NetSave
  PROVE  FInv'
  <1> USE SentinelAssumption, BoundsAssumption DEF FInv, TypeOK, NetSave, Save, At, Go, Threads, PCs,
        Writing, file, process, object, network
  <1>1. TypeOK'
    BY DEF Contents, Versions
  <1>2. Locked'
    BY DEF Locked
  <1>3. Dead'
    BY DEF Dead, Quiet
  <1>4. Followed'
    BY DEF Followed
  <1>5. Written'
    BY DEF Written
  <1>6. Alone'
    BY DEF Alone, Making
  <1>7. HiddenIdle'
    BY DEF HiddenIdle
  <1>8. RemovingClosed'
    BY DEF RemovingClosed, Removing
  <1>9. FlagTrue'
    BY DEF FlagTrue, Making
  <1>10. Changed' /\ DiskWhole'
    BY DEF Changed, DiskWhole
  <1> QED BY <1>1, <1>2, <1>3, <1>4, <1>5, <1>6, <1>7, <1>8, <1>9, <1>10

LEMMA RestartBeginStep ==
  ASSUME FInv, RestartBegin
  PROVE  FInv'
  <1> USE SentinelAssumption, BoundsAssumption DEF FInv, TypeOK, RestartBegin, At, Go, Threads, PCs,
        Writing, file, process, object, network
  <1>1. TypeOK'
    BY DEF Contents, Versions
  <1>2. Dead'
    BY DEF Dead, Quiet
  <1>3. Alone'
    BY DEF Alone, Making
  <1>4. Locked' /\ Followed' /\ Written' /\ Changed' /\ HiddenIdle' /\ RemovingClosed' /\ FlagTrue' /\ DiskWhole'
    BY DEF Locked, Followed, Written, Changed, HiddenIdle, RemovingClosed, Removing, FlagTrue, Making, DiskWhole
  <1> QED BY <1>1, <1>2, <1>3, <1>4

LEMMA RestartEndStep ==
  ASSUME FInv, RestartEnd
  PROVE  FInv'
  <1> USE SentinelAssumption, BoundsAssumption DEF FInv, TypeOK, RestartEnd, At, Go, Threads, PCs,
        Writing, file, process, object, network
  <1>1. TypeOK'
    BY DEF Contents, Versions
  <1>2. Dead'
    BY DEF Dead, Quiet
  <1>3. Alone'
    BY DEF Alone, Making
  <1>4. Locked' /\ Followed' /\ Written' /\ Changed' /\ HiddenIdle' /\ RemovingClosed' /\ FlagTrue' /\ DiskWhole'
    BY DEF Locked, Followed, Written, Changed, HiddenIdle, RemovingClosed, Removing, FlagTrue, Making, DiskWhole
  <1> QED BY <1>1, <1>2, <1>3, <1>4

LEMMA NetStopStep ==
  ASSUME FInv, NetStop
  PROVE  FInv'
  <1> USE SentinelAssumption, BoundsAssumption DEF FInv, TypeOK, NetStop, At, Go, Threads, PCs,
        Writing, file, process, object, network
  <1>1. TypeOK'
    BY DEF Contents, Versions
  <1>2. Dead'
    BY DEF Dead, Quiet
  <1>3. Alone'
    BY DEF Alone, Making
  <1>4. Locked' /\ Followed' /\ Written' /\ Changed' /\ HiddenIdle' /\ RemovingClosed' /\ FlagTrue' /\ DiskWhole'
    BY DEF Locked, Followed, Written, Changed, HiddenIdle, RemovingClosed, Removing, FlagTrue, Making, DiskWhole
  <1> QED BY <1>1, <1>2, <1>3, <1>4

LEMMA CreateStep ==
  ASSUME FInv, Create
  PROVE  FInv'
  <1> USE SentinelAssumption, BoundsAssumption DEF FInv, TypeOK, Create, Prepare, NoObject, At, Go, Threads, PCs,
        Writing, file, process, object, network
  <1>1. TypeOK'
    BY DEF Contents, Versions, Lives, Written, Dead, Changed
  <1>2. Locked'
    BY DEF Locked
  <1>3. Dead'
    BY DEF Dead, Quiet
  <1>4. Followed'
    BY DEF Followed
  <1>5. Written'
    BY DEF Written
  <1>6. Alone'
    BY DEF Alone, Making
  <1>7. HiddenIdle'
    BY DEF HiddenIdle
  <1>8. RemovingClosed'
    BY DEF RemovingClosed, Removing
  <1>9. FlagTrue'
    BY DEF FlagTrue, Making
  <1>10. Changed' /\ DiskWhole'
    BY DEF Changed, DiskWhole
  <1> QED BY <1>1, <1>2, <1>3, <1>4, <1>5, <1>6, <1>7, <1>8, <1>9, <1>10

LEMMA RecoverStep ==
  ASSUME FInv, Recover
  PROVE  FInv'
  <1> USE SentinelAssumption, BoundsAssumption DEF FInv, TypeOK, Recover, Prepare, NoObject, At, Go, Threads, PCs,
        Writing, file, process, object, network
  <1>1. TypeOK'
    BY DEF Contents, Versions, Lives, Written, Dead, Changed
  <1>2. Locked'
    BY DEF Locked
  <1>3. Dead'
    BY DEF Dead, Quiet
  <1>4. Followed'
    BY DEF Followed
  <1>5. Written'
    BY DEF Written
  <1>6. Alone'
    BY DEF Alone, Making
  <1>7. HiddenIdle'
    BY DEF HiddenIdle
  <1>8. RemovingClosed'
    BY DEF RemovingClosed, Removing
  <1>9. FlagTrue'
    BY DEF FlagTrue, Making
  <1>10. Changed' /\ DiskWhole'
    BY DEF Changed, DiskWhole
  <1> QED BY <1>1, <1>2, <1>3, <1>4, <1>5, <1>6, <1>7, <1>8, <1>9, <1>10

LEMMA CreateSaveStep ==
  ASSUME FInv, CreateSave
  PROVE  FInv'
  <1> USE SentinelAssumption, BoundsAssumption DEF FInv, TypeOK, CreateSave, Save, NewObject, At, Go, Threads, PCs,
        Writing, file, process, object, network
  <1>1. TypeOK'
    BY DEF Contents, Versions
  <1>2. Locked'
    BY DEF Locked
  <1>3. Dead'
    BY DEF Dead, Quiet
  <1>4. Followed'
    BY DEF Followed
  <1>5. Written'
    BY DEF Written, Locked, Dead, Alone, HiddenIdle, Followed, Lives
  <1>6. Changed'
    BY DEF Changed
  <1>7. Alone'
    BY DEF Alone, Making
  <1>8. HiddenIdle'
    BY DEF HiddenIdle
  <1>9. RemovingClosed'
    BY DEF RemovingClosed, Removing
  <1>10. FlagTrue'
    BY DEF FlagTrue, Making
  <1>11. DiskWhole'
    BY DEF DiskWhole
  <1> QED BY <1>1, <1>2, <1>3, <1>4, <1>5, <1>6, <1>7, <1>8, <1>9, <1>10, <1>11

LEMMA RekeyStep ==
  ASSUME FInv, Rekey
  PROVE  FInv'
  <1> USE SentinelAssumption, BoundsAssumption DEF FInv, TypeOK, Rekey, Change, Save, At, Go, Threads, PCs,
        Writing, file, process, object, network
  <1>1. TypeOK'
    BY DEF Contents, Versions
  <1>2. Locked'
    BY DEF Locked
  <1>3. Dead'
    BY DEF Dead, Quiet
  <1>4. Followed'
    BY DEF Followed
  <1>5. Written'
    BY DEF Written, Locked
  <1>6. Changed'
    BY DEF Changed
  <1>7. Alone'
    BY DEF Alone, Making
  <1>8. HiddenIdle'
    BY DEF HiddenIdle
  <1>9. RemovingClosed'
    BY DEF RemovingClosed, Removing
  <1>10. FlagTrue'
    BY DEF FlagTrue, Making
  <1>11. DiskWhole'
    BY DEF DiskWhole
  <1> QED BY <1>1, <1>2, <1>3, <1>4, <1>5, <1>6, <1>7, <1>8, <1>9, <1>10, <1>11

LEMMA AddedStep ==
  ASSUME FInv, Added
  PROVE  FInv'
  <1> USE SentinelAssumption, BoundsAssumption DEF FInv, TypeOK, Added, At, Go, Threads, PCs,
        Writing, file, process, object, network
  <1>1. TypeOK'
    BY DEF Contents, Versions
  <1>2. Locked'
    BY DEF Locked
  <1>3. Dead'
    BY DEF Dead, Quiet
  <1>4. Followed'
    BY DEF Followed
  <1>5. Written'
    BY DEF Written
  <1>6. Alone'
    BY DEF Alone, Making
  <1>7. HiddenIdle'
    BY DEF HiddenIdle
  <1>8. RemovingClosed'
    BY DEF RemovingClosed, Removing
  <1>9. FlagTrue'
    BY DEF FlagTrue, Making
  <1>10. Changed' /\ DiskWhole'
    BY DEF Changed, DiskWhole
  <1> QED BY <1>1, <1>2, <1>3, <1>4, <1>5, <1>6, <1>7, <1>8, <1>9, <1>10

LEMMA RecoverHiddenStep ==
  ASSUME FInv, RecoverHidden
  PROVE  FInv'
  <1> USE SentinelAssumption, BoundsAssumption DEF FInv, TypeOK, RecoverHidden, Save, NewObject, At, Go, Threads, PCs,
        Writing, file, process, object, network
  <1>1. TypeOK'
    BY DEF Contents, Versions
  <1>2. Locked'
    BY DEF Locked
  <1>3. Dead'
    BY DEF Dead, Quiet
  <1>4. Followed'
    BY DEF Followed
  <1>5. Written'
    BY DEF Written, Locked, Dead, Alone, HiddenIdle, Followed, Lives
  <1>6. Changed'
    BY DEF Changed
  <1>7. Alone'
    BY DEF Alone, Making
  <1>8. HiddenIdle'
    BY DEF HiddenIdle, Alone, Dead, Removing, RemovingClosed, Locked, Quiet
  <1>9. RemovingClosed'
    BY DEF RemovingClosed, Removing
  <1>10. FlagTrue'
    BY DEF FlagTrue, Making
  <1>11. DiskWhole'
    BY DEF DiskWhole
  <1> QED BY <1>1, <1>2, <1>3, <1>4, <1>5, <1>6, <1>7, <1>8, <1>9, <1>10, <1>11

LEMMA RevealStep ==
  ASSUME FInv, Reveal
  PROVE  FInv'
  <1> USE SentinelAssumption, BoundsAssumption DEF FInv, TypeOK, Reveal, Save, At, Go, Threads, PCs,
        Writing, file, process, object, network
  <1>1. TypeOK'
    BY DEF Contents, Versions
  <1>2. Locked'
    BY DEF Locked
  <1>3. Dead'
    BY DEF Dead, Quiet
  <1>4. Followed'
    BY DEF Followed
  <1>5. Written'
    BY DEF Written
  <1>6. Alone'
    BY DEF Alone, Making
  <1>7. HiddenIdle'
    BY DEF HiddenIdle
  <1>8. RemovingClosed'
    BY DEF RemovingClosed, Removing
  <1>9. FlagTrue'
    BY DEF FlagTrue, Making, Written, Locked, Alone, Followed, RemovingClosed, Removing, Changed, HiddenIdle, Dead, Quiet, Contents
  <1>10. Changed' /\ DiskWhole'
    BY DEF Changed, DiskWhole
  <1> QED BY <1>1, <1>2, <1>3, <1>4, <1>5, <1>6, <1>7, <1>8, <1>9, <1>10

LEMMA DeleteStep ==
  ASSUME FInv, Delete
  PROVE  FInv'
  <1> USE SentinelAssumption, BoundsAssumption DEF FInv, TypeOK, Delete, At, Go, Threads, PCs,
        Writing, file, process, object, network
  <1>1. TypeOK'
    BY DEF Contents, Versions
  <1>2. Locked'
    BY DEF Locked
  <1>3. Dead'
    BY DEF Dead, Quiet
  <1>4. Followed'
    BY DEF Followed
  <1>5. Written'
    BY DEF Written
  <1>6. Alone'
    BY DEF Alone, Making
  <1>7. HiddenIdle'
    BY DEF HiddenIdle
  <1>8. RemovingClosed'
    BY DEF RemovingClosed, Removing, Alone, HiddenIdle, Followed, Quiet, Making, Dead
  <1>9. FlagTrue'
    BY DEF FlagTrue, Making
  <1>10. Changed' /\ DiskWhole'
    BY DEF Changed, DiskWhole
  <1> QED BY <1>1, <1>2, <1>3, <1>4, <1>5, <1>6, <1>7, <1>8, <1>9, <1>10

LEMMA StopSaveStep ==
  ASSUME FInv, StopSave
  PROVE  FInv'
  <1> USE SentinelAssumption, BoundsAssumption DEF FInv, TypeOK, StopSave, Change, Save, At, Go, Threads, PCs,
        Writing, file, process, object, network
  <1>1. TypeOK'
    BY DEF Contents, Versions
  <1>2. Locked'
    BY DEF Locked
  <1>3. Dead'
    BY DEF Dead, Quiet
  <1>4. Followed'
    BY DEF Followed
  <1>5. Written'
    BY DEF Written, Locked
  <1>6. Changed'
    BY DEF Changed
  <1>7. Alone'
    BY DEF Alone, Making
  <1>8. HiddenIdle'
    BY DEF HiddenIdle
  <1>9. RemovingClosed'
    BY DEF RemovingClosed, Removing
  <1>10. FlagTrue'
    BY DEF FlagTrue, Making
  <1>11. DiskWhole'
    BY DEF DiskWhole
  <1> QED BY <1>1, <1>2, <1>3, <1>4, <1>5, <1>6, <1>7, <1>8, <1>9, <1>10, <1>11

LEMMA UnlinkStep ==
  ASSUME FInv, Unlink
  PROVE  FInv'
  <1> USE SentinelAssumption, BoundsAssumption DEF FInv, TypeOK, Unlink, At, Go, Threads, PCs,
        Writing, file, process, object, network
  <1>1. TypeOK'
    BY DEF Contents, Versions
  <1>2. Locked'
    BY DEF Locked
  <1>3. Dead'
    BY DEF Dead, Quiet
  <1>4. Followed'
    BY DEF Followed
  <1>5. Written'
    BY DEF Written
  <1>6. Alone'
    BY DEF Alone, Making
  <1>7. HiddenIdle'
    BY DEF HiddenIdle
  <1>8. RemovingClosed'
    BY DEF RemovingClosed, Removing
  <1>9. FlagTrue'
    BY DEF FlagTrue, Making, Written, Locked, Alone, Followed, RemovingClosed, Removing, Changed, HiddenIdle, Dead, Quiet, Contents
  <1>10. DiskWhole'
    BY DEF DiskWhole
  <1>11. Changed'
    BY DEF Changed
  <1> QED BY <1>1, <1>2, <1>3, <1>4, <1>5, <1>6, <1>7, <1>8, <1>9, <1>10, <1>11

LEMMA StartLoadingStep ==
  ASSUME FInv, StartLoading
  PROVE  FInv'
  <1> USE SentinelAssumption, BoundsAssumption DEF FInv, TypeOK, StartLoading, At, Go, Threads, PCs,
        Writing, file, process, object, network
  <1>1. TypeOK'
    BY DEF Contents, Versions, Lives, Changed
  <1>2. Dead'
    BY DEF Dead, Quiet, Lives
  <1>3. Written'
    BY DEF Written, Locked, Dead, Alone, HiddenIdle, Followed, Lives
  <1>4. Locked' /\ Followed' /\ Changed' /\ Alone' /\ HiddenIdle' /\ RemovingClosed' /\ FlagTrue' /\ DiskWhole'
    BY DEF Locked, Followed, Changed, Alone, Making, HiddenIdle, RemovingClosed, Removing, FlagTrue, DiskWhole
  <1> QED BY <1>1, <1>2, <1>3, <1>4

LEMMA LoadStopsBeforeStep ==
  ASSUME FInv, LoadStopsBefore
  PROVE  FInv'
  <1> USE SentinelAssumption, BoundsAssumption DEF FInv, TypeOK, LoadStopsBefore, At, Go, Threads, PCs,
        Writing, file, process, object, network
  <1>1. TypeOK'
    BY DEF Contents, Versions, Lives, Changed
  <1>2. Dead'
    BY DEF Dead, Quiet, Lives
  <1>3. Written'
    BY DEF Written, Locked, Dead, Alone, HiddenIdle, Followed, Lives
  <1>4. Locked' /\ Followed' /\ Changed' /\ Alone' /\ HiddenIdle' /\ RemovingClosed' /\ FlagTrue' /\ DiskWhole'
    BY DEF Locked, Followed, Changed, Alone, Making, HiddenIdle, RemovingClosed, Removing, FlagTrue, DiskWhole
  <1> QED BY <1>1, <1>2, <1>3, <1>4

LEMMA LoadStep ==
  ASSUME FInv, Load
  PROVE  FInv'
  <1> USE SentinelAssumption, BoundsAssumption DEF FInv, TypeOK, Load, Unreadable, At, Go, Threads, PCs,
        Writing, file, process, object, network
  <1>1. TypeOK'
    BY DEF Contents, Versions, Lives, Written, Dead, Changed
  <1>2. Dead'
    BY DEF Dead, Quiet
  <1>3. Written'
    BY DEF Written, Locked, Dead, Alone, HiddenIdle, Followed, Lives
  <1>4. Changed'
    BY DEF Changed, Contents, Versions
  <1>5. Alone'
    BY DEF Alone, Making, Followed, Dead, HiddenIdle, Quiet
  <1>6. HiddenIdle'
    BY DEF HiddenIdle, Alone, Dead, Removing, RemovingClosed, Locked, Quiet
  <1>7. RemovingClosed'
    BY DEF RemovingClosed, Removing, Alone, HiddenIdle, Followed, Quiet, Making, Dead
  <1>8. FlagTrue'
    BY DEF FlagTrue, Making, Written, Locked, Alone, Followed, RemovingClosed, Removing, Changed, HiddenIdle, Dead, Quiet, Contents
  <1>9. Locked' /\ Followed' /\ DiskWhole'
    BY DEF Locked, Followed, DiskWhole
  <1> QED BY <1>1, <1>2, <1>3, <1>4, <1>5, <1>6, <1>7, <1>8, <1>9

LEMMA CrashStep ==
  ASSUME FInv, Crash
  PROVE  FInv'
  <1> USE SentinelAssumption, BoundsAssumption DEF FInv, TypeOK, Crash, Quiet, At, Go, Threads, PCs,
        Writing, file, process, object, network
  <1>1. TypeOK'
    BY DEF Contents, Versions
  <1>2. Locked'
    BY DEF Locked
  <1>3. Dead'
    BY DEF Dead, Quiet
  <1>4. Followed'
    BY DEF Followed
  <1>5. Written'
    BY DEF Written
  <1>6. Changed'
    BY DEF Changed
  <1>7. Alone'
    BY DEF Alone, Making
  <1>8. HiddenIdle'
    BY DEF HiddenIdle
  <1>9. RemovingClosed'
    BY DEF RemovingClosed, Removing
  <1>10. FlagTrue'
    BY DEF FlagTrue, Making
  <1>11. DiskWhole'
    BY DEF DiskWhole
  <1> QED BY <1>1, <1>2, <1>3, <1>4, <1>5, <1>6, <1>7, <1>8, <1>9, <1>10, <1>11

LEMMA FInvInit == Init => FInv
  <1> SUFFICES ASSUME Init PROVE FInv
    OBVIOUS
  <1> USE SentinelAssumption, BoundsAssumption DEF Init, Quiet, Threads
  <1>1. TypeOK
    <2>1. tmp \in [Lives -> Contents] /\ disk \in Contents /\ doc \in Nat
      BY DEF Contents, Versions
    <2>2. life \in 0 .. MaxLives /\ probe \in SUBSET Lives /\ state \in {"down", "loading", "up"}
      OBVIOUS
    <2>3. pc \in [Threads -> PCs] /\ next \in [Threads -> PCs]
      BY DEF PCs
    <2>4. job \in {"off", "running", "restarting"} /\ lock \in Threads \cup {Free}
      OBVIOUS
    <2>5. /\ laterLoaded \in BOOLEAN /\ modified \in BOOLEAN /\ fileExists \in BOOLEAN
          /\ hidden \in BOOLEAN /\ open \in BOOLEAN /\ registered \in BOOLEAN
          /\ stopReq \in BOOLEAN /\ deleted \in BOOLEAN
      OBVIOUS
    <2> QED BY <2>1, <2>2, <2>3, <2>4, <2>5 DEF TypeOK
  <1>2. Locked /\ Written
    BY DEF Locked, Writing, Written
  <1>4. Dead /\ Followed /\ Changed
    BY DEF Writing, Dead, Followed, Changed
  <1>3. Alone /\ HiddenIdle /\ RemovingClosed /\ FlagTrue /\ DiskWhole
    BY DEF Alone, Making, HiddenIdle, RemovingClosed, Removing, FlagTrue, DiskWhole, Writing
  <1> QED BY <1>1, <1>2, <1>3, <1>4 DEF FInv

LEMMA FInvStutter ==
  ASSUME FInv, UNCHANGED vars
  PROVE  FInv'
  <1> USE DEF FInv, vars, file, process, object, network
  <1>1. TypeOK' /\ Dead'
    BY DEF TypeOK, Dead
  <1>2. Locked' /\ Followed' /\ Written' /\ Changed'
    BY DEF Locked, Followed, Written, Changed
  <1>3. Alone' /\ HiddenIdle' /\ RemovingClosed' /\ FlagTrue' /\ DiskWhole'
    BY DEF Alone, Making, HiddenIdle, RemovingClosed, Removing, FlagTrue, DiskWhole
  <1> QED BY <1>1, <1>2, <1>3

LEMMA FInvNext ==
  ASSUME FInv, Next
  PROVE  FInv'
  <1>1. ASSUME NEW t \in Threads, SaveStep(t)
        PROVE  FInv'
    BY <1>1, SaveNothingStep, OpenTmpStep, WriteTmpStep, CheckOKStep, CheckFailsStep, ReplaceStep
       DEF SaveStep
  <1>2. CASE UiStep
    BY <1>1, <1>2, CreateSaveStep, RekeyStep, AddedStep, RecoverHiddenStep, StopSaveStep, UnlinkStep
       DEF UiStep, Threads
  <1>3. CASE NetStep
    BY <1>1, <1>3, RestartEndStep, NetStopStep DEF NetStep, Threads
  <1>4. ASSUME NEW t \in Threads, WriteFails(t)
        PROVE  FInv'
    BY <1>4, WriteFailsStep
  <1>5. CASE UiChange \/ UiSave \/ NetChange \/ NetSave \/ RestartBegin
    BY <1>5, UiChangeStep, UiSaveStep, NetChangeStep, NetSaveStep, RestartBeginStep
  <1>6. CASE Create \/ Recover \/ Reveal \/ Delete
    BY <1>6, CreateStep, RecoverStep, RevealStep, DeleteStep
  <1>7. CASE StartLoading \/ LoadStopsBefore \/ Load \/ Crash
    BY <1>7, StartLoadingStep, LoadStopsBeforeStep, LoadStep, CrashStep
  <1> QED BY <1>2, <1>3, <1>4, <1>5, <1>6, <1>7 DEF Next

\* The inductive invariant, whatever dies, fails or interleaves.
THEOREM FileInvariance == Spec => []FInv
  <1>1. FInv /\ [Next]_vars => FInv'
    BY FInvNext, FInvStutter
  <1> QED BY FInvInit, <1>1, PTL DEF Spec

\* Every variable of the wallet file keeps its type.
THEOREM FileTypeCorrect == Spec => []TypeOK
  <1>1. FInv => TypeOK BY DEF FInv
  <1> QED BY FileInvariance, <1>1, PTL

\* storage.write never leaves part of a document at the path of the wallet.
THEOREM FileNeverTorn == Spec => []DiskWhole
  <1>1. FInv => DiskWhole BY DEF FInv
  <1> QED BY FileInvariance, <1>1, PTL

\* json_db's dirty flag is down only when the last change is on the disk.
THEOREM FlagTellsTruth == Spec => []CleanMeansSaved
  <1>1. FInv => CleanMeansSaved BY DEF FInv, FlagTrue, CleanMeansSaved
  <1> QED BY FileInvariance, <1>1, PTL

\* A wallet waiting to be recovered never reaches the disk.
THEOREM HiddenOffDisk == Spec => HiddenStaysOffDisk
  <1> DEFINE Kept == hidden /\ hidden' => disk' = disk
  <1>1. FInv /\ [Next]_vars => [Kept]_vars
    <2> SUFFICES ASSUME FInv, Next, hidden, hidden'
                 PROVE  disk' = disk
      BY DEF vars, file
    <2>1. pc["ui"] = "idle" /\ pc["net"] = "idle"
      BY DEF FInv, HiddenIdle
    <2>2. ASSUME NEW t \in Threads, SaveStep(t) \/ WriteFails(t)
          PROVE  FALSE
      BY <2>1, <2>2 DEF SaveStep, SaveNothing, OpenTmp, WriteTmp, CheckOK, CheckFails, Replace,
         WriteFails, At, Threads
    <2>3. ~Unlink
      BY <2>1 DEF Unlink, At
    <2> QED BY <2>2, <2>3 DEF Next, UiStep, NetStep, Threads, CreateSave, Rekey, Added,
           RecoverHidden, StopSave, RestartEnd, NetStop, UiChange, UiSave, NetChange, NetSave,
           RestartBegin, Create, Recover, Prepare, Reveal, Delete, StartLoading,
           LoadStopsBefore, Load, Crash, file
  <1> QED BY FileInvariance, <1>1, PTL DEF Spec, HiddenStaysOffDisk

LEMMA AtomicInit == Init => Atomic!Init
  BY DEF Init, Atomic!Init

\* Each step of the code is one of the abstract file, or none.
LEMMA AtomicStep ==
  ASSUME FInv, Next
  PROVE  Atomic!Next \/ UNCHANGED <<disk, doc, state = "up">>
  <1> DEFINE Stutter == UNCHANGED <<disk, doc, state = "up">>
  <1> USE DEF file, process, object, network
  <1>1. ASSUME NEW t \in Threads, Replace(t)
        PROVE  Atomic!Commit
    <2>1. state = "up" /\ disk' = doc
      BY <1>1 DEF Replace, At, FInv, Written
    <2> QED BY <1>1, <2>1 DEF Replace, Atomic!Commit
  <1>2. ASSUME NEW t \in Threads,
               SaveNothing(t) \/ OpenTmp(t) \/ WriteTmp(t) \/ CheckOK(t) \/ CheckFails(t) \/ WriteFails(t)
        PROVE  Stutter
    BY <1>2 DEF SaveNothing, OpenTmp, WriteTmp, CheckOK, CheckFails, WriteFails, Raise
  <1>3. CASE UiChange \/ NetChange \/ Rekey \/ StopSave
    BY <1>3 DEF UiChange, NetChange, Rekey, StopSave, Change, At, Atomic!Next, Atomic!Edit
  <1>4. CASE CreateSave \/ RecoverHidden
    BY <1>4 DEF CreateSave, RecoverHidden, NewObject, At, Atomic!Next, Atomic!New
  <1>5. CASE Unlink
    BY <1>5 DEF Unlink, At, Atomic!Next, Atomic!Remove
  <1>6. CASE Load \/ LoadStopsBefore
    BY <1>6, SentinelAssumption
       DEF Load, LoadStopsBefore, FInv, DiskWhole, Dead, TypeOK, Contents, Versions,
           Atomic!Next, Atomic!Read
  <1>7. CASE Crash
    BY <1>7 DEF Crash, FInv, Dead, Atomic!Next, Atomic!Die
  <1>8. CASE UiSave \/ NetSave \/ RestartBegin \/ RestartEnd \/ NetStop \/ Added \/ Reveal \/ Delete
    BY <1>8 DEF UiSave, NetSave, RestartBegin, RestartEnd, NetStop, Added, Reveal, Delete
  <1>9. CASE Create \/ Recover \/ StartLoading
    BY <1>9 DEF Create, Recover, Prepare, StartLoading
  <1>10. ASSUME NEW t \in Threads, SaveStep(t)
         PROVE  Atomic!Next \/ Stutter
    BY <1>1, <1>2, <1>10 DEF SaveStep, Atomic!Next
  <1> QED
    BY <1>2, <1>3, <1>4, <1>5, <1>6, <1>7, <1>8, <1>9, <1>10 DEF Next, UiStep, NetStep, Threads

\* The threads, temporary files and dirty flag come to no more than the file
\* the rest of the program relies on.
THEOREM FileIsAtomic == Spec => ImplementsAtomicFile
  <1>1. FInv /\ [Next]_vars => [Atomic!Next]_<<disk, doc, state = "up">>
    BY AtomicStep DEF vars, file, process, object
  <1> QED BY FileInvariance, AtomicInit, <1>1, PTL DEF Spec, ImplementsAtomicFile, Atomic!Spec
=============================================================================
