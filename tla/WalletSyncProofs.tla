-------------------------- MODULE WalletSyncProofs --------------------------
(***************************************************************************)
(* What every server, every set of transactions and every tree of blocks   *)
(* leave of the tables of the wallet's transactions, and what a wallet     *)
(* that says it is up to date has: that argument follows the server's      *)
(* history of an address from the notification to the wallet.              *)
(***************************************************************************)
EXTENDS WalletSync, TLAPS, SequenceTheorems

\* A header that holds transaction t and is among the headers of heights hs
Held(t, header, hs) ==
  \E b \in Branch : header = HeaderAt(b, Block[b][t]) /\ Block[b][t] \in 1 .. hs[b]

\* What holds of the entry e of t; R has the transactions removed since the
\* connection began.
Sound(t, e, hs, R) ==
  /\ e \in Entry
  /\ e.root => e.verified # None \/ t \in R
  /\ e.verified = None \/ e.unverified = None
  /\ e.verified # None => Held(t, e.verified, hs)

HeightsOK == heights \in [Branch -> ForkHeight .. MaxHeight]

\* What is on its way: a proof is of a block the transaction is in.
ProofOK(p) ==
  /\ p \in [tx: Tx, height: Height \ {0}, answer: Header \cup {None, NotThere}]
  /\ p.answer \notin {None, NotThere} =>
       \E b \in Branch : p.answer = HeaderAt(b, Block[b][p.tx]) /\ Block[b][p.tx] = p.height

ServerOK ==
  /\ branch \in Branch /\ tip \in ForkHeight .. MaxHeight /\ pool \subseteq Tx
  /\ events \in 0 .. MaxEvents

RequestsOK ==
  /\ subscribed \subseteq Addr /\ known \subseteq Addr /\ scheduled \subseteq Addr
  /\ requestedAddrs \subseteq Addr /\ crossed \subseteq Addr /\ toBoot \subseteq Addr
  /\ history \in [Addr -> History] /\ upToDate \in BOOLEAN
  /\ main \in {"boot", "loop"} /\ boot \subseteq Tx
  /\ statuses \in [Addr -> Seq(History)]
  /\ tasks \subseteq Task
  /\ requestedTx \in [Tx -> Height \cup {None}]
  /\ txAnswers \in [Tx -> {"found", "unknown", None}]
  /\ refused \subseteq Tx
  /\ \A t \in Tx : txAnswers[t] # None => requestedTx[t] # None

TablesOK ==
  /\ wtx \in [Tx -> Entry] /\ removed \subseteq Tx
  /\ \A t \in Tx : Sound(t, wtx[t], heights, removed)

VerifierOK ==
  /\ HeightsOK /\ netBranch \in Branch /\ spvBranch \in Branch
  /\ \A p \in proofs : ProofOK(p)

IInv == ServerOK /\ RequestsOK /\ TablesOK /\ VerifierOK

-----------------------------------------------------------------------------
(* The steps of one entry *)

LEMMA HeaderAtType == \A b \in Branch, h \in Height : HeaderAt(b, h) \in Header /\ HeaderAt(b, h)[1] = h
BY DEF HeaderAt, Header

LEMMA NoneIsNone == None \notin Height /\ None \notin Header /\ None # NotThere /\ NotThere \notin Header
<1>1. Height \subseteq Int BY TablesAssumption DEF Height
<1>2. ASSUME NEW header \in Header PROVE header \in Int \X Int
  <2>1. PICK h \in Height, b \in Branch \cup {0} : header = <<h, b>> BY <1>2 DEF Header
  <2>2. h \in Int /\ b \in Int BY <1>1, TablesAssumption
  <2> QED BY <2>1, <2>2
<1> QED BY <1>1, <1>2, TablesAssumption, WalletSyncAssumption

LEMMA UnprovedSound ==
  ASSUME NEW t, NEW e, NEW hs, NEW R, NEW R2, Sound(t, e, hs, R)
  PROVE  Sound(t, Unproved(e), hs, R2)
BY DEF Sound, Entry, Unproved

LEMMA MadeLocalSound ==
  ASSUME NEW t, NEW e, NEW hs, NEW R, Sound(t, e, hs, R)
  PROVE  Sound(t, MadeLocal(e), hs, R)
BY DEF Sound, Entry, Unproved, MadeLocal

LEMMA AddUnverifiedSound ==
  ASSUME NEW t, NEW e, NEW hs, NEW R, NEW h \in Height, Sound(t, e, hs, R)
  PROVE  Sound(t, AddUnverified(e, h), hs, R)
BY NoneIsNone DEF Sound, Entry, Unproved, AddUnverified

LEMMA RemoveUnverifiedSound ==
  ASSUME NEW t, NEW e, NEW hs, NEW R, NEW h \in Height, Sound(t, e, hs, R)
  PROVE  Sound(t, [RemoveUnverified(e, h) EXCEPT !.asked = FALSE], hs, R)
BY DEF Sound, Entry, RemoveUnverified

LEMMA AddVerifiedSound ==
  ASSUME NEW t, NEW e, NEW hs, NEW R, NEW header \in Header, Sound(t, e, hs, R),
         Held(t, header, hs)
  PROVE  Sound(t, AddVerified(e, header), hs, R)
BY NoneIsNone DEF Sound, Entry, AddVerified

LEMMA UndoneSound ==
  ASSUME NEW t, NEW e, NEW hs, NEW R, NEW b, NEW top, Sound(t, e, hs, R)
  PROVE  Sound(t, Undone(e, b, top), hs, R)
<1>1. e.verified # None => e.verified[1] \in Height BY DEF Sound, Entry, Header
<1> QED BY <1>1 DEF Sound, Entry, Unproved, Undone

\* A root may stay behind, and does so for a transaction that is noted as removed.
LEMMA RemovedSound ==
  ASSUME NEW t, NEW e, NEW hs, NEW R, NEW R2, Sound(t, e, hs, R), t \in R2
  PROVE  Sound(t, RemovedTx(e), hs, R2)
BY DEF Sound, Entry, RemovedTx

LEMMA AskedSound ==
  ASSUME NEW t, NEW e, NEW hs, NEW R, NEW have \in BOOLEAN, NEW asked1 \in BOOLEAN,
         Sound(t, e, hs, R)
  PROVE  /\ Sound(t, [e EXCEPT !.asked = asked1], hs, R)
         /\ Sound(t, [e EXCEPT !.have = have], hs, R)
BY DEF Sound, Entry

\* Headers and removed transactions are only added.
LEMMA HigherSound ==
  ASSUME NEW t, NEW e, NEW hs \in [Branch -> Int], NEW hs2 \in [Branch -> Int], NEW R, NEW R2,
         Sound(t, e, hs, R), R \subseteq R2,
         \A b \in Branch : hs[b] <= hs2[b], \A b \in Branch : Block[b][t] \in Int
  PROVE  Sound(t, e, hs2, R2)
BY DEF Sound, Held

LEMMA MoreRemoved ==
  ASSUME NEW t, NEW e, NEW hs, NEW R, NEW R2, Sound(t, e, hs, R), R \subseteq R2
  PROVE  Sound(t, e, hs, R2)
BY DEF Sound
-----------------------------------------------------------------------------
(* What the server sends *)

LEMMA HistoryType ==
  ASSUME NEW a \in Addr, NEW b \in Branch, NEW n, NEW p
  PROVE  HistoryOf(a, b, n, p) \in History
<1>1. 0 \in Height BY TablesAssumption DEF Height
<1>2. Involves[a] \subseteq Tx /\ \A t \in Tx : Block[b][t] \in Height BY SynchronizerAssumption
<1> QED BY <1>1, <1>2 DEF HistoryOf, History

LEMMA ServerHistoryType == IInv => \A a \in Addr : ServerHistory(a) \in History
BY HistoryType DEF IInv, ServerOK, ServerHistory

LEMMA HeightInType ==
  ASSUME NEW hist, NEW t, \E h \in Height : <<t, h>> \in hist
  PROVE  HeightIn(hist, t) \in Height
BY DEF HeightIn

\* One more event is within the bound.
LEMMA EventOK ==
  ASSUME ServerOK, Event, branch' \in Branch, tip' \in ForkHeight .. MaxHeight, pool' \subseteq Tx
  PROVE  ServerOK'
<1>1. MaxEvents \in Nat BY SynchronizerAssumption
<1> QED BY <1>1 DEF ServerOK, Event

LEMMA ServerBecomesOK ==
  ASSUME IInv, NEW b \in Branch, NEW n \in ForkHeight .. MaxHeight, NEW p \in SUBSET Tx,
         ServerBecomes(b, n, p), UNCHANGED <<chains, verifier>>
  PROVE  IInv'
<1>1. \A a \in Addr : HistoryOf(a, b, n, pool') \in History BY HistoryType
<1>2. ServerOK'
  <2>1. pool' \subseteq Tx BY DEF ServerBecomes, Without
  <2> QED BY <2>1, EventOK DEF ServerBecomes, IInv
<1>3. statuses' \in [Addr -> Seq(History)]
  <2>1. statuses \in [Addr -> Seq(History)] BY DEF IInv, RequestsOK
  <2>2. \A a \in Addr : Append(statuses[a], HistoryOf(a, b, n, pool')) \in Seq(History)
    BY <1>1, <2>1
  <2> QED BY <2>1, <2>2 DEF ServerBecomes
<1>4. RequestsOK' BY <1>3 DEF IInv, RequestsOK, ServerBecomes, wallet, starting, asked, past
<1>5. TablesOK' /\ VerifierOK'
  BY DEF IInv, TablesOK, VerifierOK, HeightsOK, ServerBecomes, wallet, past, chains, verifier
<1> QED BY <1>2, <1>4, <1>5 DEF IInv

LEMMA ServerStepOK ==
  ASSUME IInv, ServerStep, UNCHANGED <<chains, verifier>>
  PROVE  IInv'
<1> USE DEF IInv, ServerOK
<1>0. ForkHeight \in Nat /\ MaxHeight \in Nat BY TablesAssumption
<1>1. ASSUME NEW t \in Tx, Broadcast(t) PROVE IInv'
  BY <1>1, ServerBecomesOK DEF Broadcast
<1>2. ASSUME NEW t \in Tx, Evict(t) PROVE IInv'
  BY <1>2, ServerBecomesOK DEF Evict
<1>3. CASE Mine
  <2>1. tip + 1 \in ForkHeight .. MaxHeight BY <1>0, <1>3 DEF Mine
  <2> QED BY <1>3, <2>1, ServerBecomesOK DEF Mine
<1>4. ASSUME NEW b \in Branch, NEW n \in Height, Reorg(b, n) PROVE IInv'
  <2>1. n \in ForkHeight .. MaxHeight BY <1>0, <1>4 DEF Reorg, Height
  <2> QED BY <1>4, <2>1, ServerBecomesOK DEF Reorg
<1> QED BY <1>1, <1>2, <1>3, <1>4 DEF ServerStep
-----------------------------------------------------------------------------
(* Addresses and histories *)

LEMMA AddressesOK ==
  ASSUME IInv, NEW a \in Addr, UNCHANGED <<chains, verifier>>,
         AddScheduled(a) \/ Subscribe(a) \/ OnAddressStatus(a)
  PROVE  IInv'
<1> USE DEF IInv, ServerOK, TablesOK, VerifierOK, HeightsOK, server, wallet, starting, asked,
            past, chains, verifier
<1>0. ServerHistory(a) \in History BY ServerHistoryType
<1>1. CASE AddScheduled(a)
  BY <1>1 DEF AddScheduled, RequestsOK
<1>2. CASE Subscribe(a)
  <2>1. statuses' \in [Addr -> Seq(History)]
    <3>1. Append(statuses[a], ServerHistory(a)) \in Seq(History) BY <1>0 DEF RequestsOK
    <3> QED BY <1>2, <3>1 DEF Subscribe, RequestsOK
  <2> QED BY <1>2, <2>1 DEF Subscribe, RequestsOK
<1>3. CASE OnAddressStatus(a)
  <2>1. statuses[a] \in Seq(History) /\ statuses[a] # <<>> BY <1>3 DEF OnAddressStatus, RequestsOK
  <2>2. Head(statuses[a]) \in History /\ Tail(statuses[a]) \in Seq(History) BY <2>1
  <2>3. statuses' \in [Addr -> Seq(History)] BY <1>3, <2>2 DEF OnAddressStatus, RequestsOK
  <2>4. tasks' \subseteq Task BY <1>3, <2>2 DEF OnAddressStatus, RequestsOK, Task
  <2>5. crossed' \subseteq Addr BY <1>3 DEF OnAddressStatus, RequestsOK
  <2> QED BY <1>3, <2>3, <2>4, <2>5 DEF OnAddressStatus, RequestsOK
<1> QED BY <1>1, <1>2, <1>3

LEMMA AnswerHistoryOK ==
  ASSUME IInv, NEW k \in tasks, AnswerHistory(k), UNCHANGED <<chains, verifier>>
  PROVE  IInv'
<1> USE DEF IInv
<1>1. k \in Task BY DEF RequestsOK
<1>2. ServerHistory(k.addr) \in History BY <1>1, ServerHistoryType DEF Task
<1>3. [k EXCEPT !.answer = ServerHistory(k.addr)] \in Task BY <1>1, <1>2 DEF Task
<1>4. tasks' \subseteq Task BY <1>3 DEF AnswerHistory, RequestsOK
<1> QED BY <1>4 DEF AnswerHistory, RequestsOK, ServerOK, TablesOK, VerifierOK, HeightsOK,
                    server, wallet, starting, queues, asked, past, chains, verifier

\* Asking for what a history lacks keeps the types of the requests.
LEMMA RequestType ==
  ASSUME RequestsOK, NEW hist, Request(hist)
  PROVE  /\ requestedTx' \in [Tx -> Height \cup {None}]
         /\ txAnswers' \in [Tx -> {"found", "unknown", None}]
         /\ \A t \in Tx : txAnswers'[t] # None => requestedTx'[t] # None
         /\ Missing(hist) \subseteq Tx
<1>1. \A t \in Missing(hist) : HeightIn(hist, t) \in Height BY HeightInType DEF Missing
<1>2. Missing(hist) \subseteq Tx BY DEF Missing
<1> QED BY <1>1, <1>2, NoneIsNone DEF Request, RequestsOK

LEMMA OnHistoryOK ==
  ASSUME IInv, NEW k \in tasks, OnHistory(k), UNCHANGED <<chains, verifier>>
  PROVE  IInv'
<1> DEFINE hist == k.answer
<1> USE DEF IInv
<1>1. k \in Task BY DEF RequestsOK
<1>2. CASE hist # k.status
  <2>1. RequestsOK' BY <1>2 DEF OnHistory, RequestsOK, starting, queues, asked, past
  <2> QED BY <1>2, <2>1
        DEF OnHistory, ServerOK, TablesOK, VerifierOK, HeightsOK, server, past, chains, verifier
<1>3. CASE hist = k.status
  <2>1. hist \in History BY <1>1, <1>3 DEF Task
  <2>2. ASSUME NEW t \in Tx PROVE Sound(t, wtx'[t], heights', removed')
    <3> DEFINE kept == IF t \in Involves[k.addr] /\ wtx[t].have /\ <<t, TxHeight(wtx[t])>> \notin hist
                       THEN MadeLocal(wtx[t]) ELSE wtx[t]
    <3>1. Sound(t, kept, heights, removed) BY MadeLocalSound DEF TablesOK
    <3>2. wtx'[t] = IF \E h \in Height : <<t, h>> \in hist
                    THEN AddUnverified(kept, HeightIn(hist, t)) ELSE kept
      BY <1>3 DEF OnHistory, Received
    <3>3. heights' = heights /\ removed' = removed BY DEF OnHistory, chains, past
    <3> HIDE DEF kept, hist
    <3> QED BY <3>1, <3>2, <3>3, AddUnverifiedSound, HeightInType
  <2>3. TablesOK'
    <3>1. wtx' = [t \in Tx |-> wtx'[t]] BY <1>3 DEF OnHistory, Received
    <3>2. removed' \subseteq Tx BY DEF OnHistory, past, TablesOK
    <3> QED BY <2>2, <3>1, <3>2 DEF TablesOK, Sound
  <2>4. RequestsOK'
    <3>1. history' \in [Addr -> History] BY <1>1, <1>3, <2>1 DEF OnHistory, RequestsOK, Task
    <3>2. Request(hist) BY <1>3 DEF OnHistory
    <3> HIDE DEF hist
    <3>3. /\ requestedTx' \in [Tx -> Height \cup {None}]
          /\ txAnswers' \in [Tx -> {"found", "unknown", None}]
          /\ \A t \in Tx : txAnswers'[t] # None => requestedTx'[t] # None
          /\ Missing(hist) \subseteq Tx
      BY <3>2, RequestType
    <3>4. tasks' \subseteq Task
      <4> DEFINE M == Missing(hist)
      <4>1. tasks' = IF M = {} THEN tasks \ {k} ELSE (tasks \ {k}) \cup {[k EXCEPT !.missing = M]}
        BY <1>3 DEF OnHistory, hist
      <4> HIDE DEF M
      <4>2. [k EXCEPT !.missing = M] \in Task BY <1>1, <3>3 DEF Task, M
      <4> QED BY <4>1, <4>2 DEF RequestsOK
    <3> QED BY <3>1, <3>3, <3>4 DEF OnHistory, RequestsOK, starting, queues, past
  <2>5. ServerOK' /\ VerifierOK'
    BY DEF OnHistory, ServerOK, VerifierOK, HeightsOK, server, chains, verifier
  <2> QED BY <2>3, <2>4, <2>5
<1> QED BY <1>2, <1>3
-----------------------------------------------------------------------------
(* Transactions *)

\* What add_transaction leaves of the tables, for an entry noted soundly
LEMMA AddTransactionOK ==
  ASSUME TablesOK, NEW t \in Tx, NEW e, Sound(t, e, heights, removed), AddTransaction(t, e),
         heights' = heights
  PROVE  TablesOK'
<1>1. \A x \in Tx : Sound(x, wtx[x], heights, removed) /\ wtx[x] \in Entry BY DEF TablesOK
<1>2. wtx \in [Tx -> Entry] /\ removed \subseteq Tx BY DEF TablesOK
<1>3. CASE Conflicts(t, e)
  <2>1. wtx' = [wtx EXCEPT ![t] = e] /\ removed' = removed BY <1>3 DEF AddTransaction
  <2>2. \A x \in Tx : Sound(x, wtx'[x], heights', removed') BY <1>1, <1>2, <2>1
  <2> QED BY <1>2, <2>1, <2>2 DEF TablesOK, Sound
<1>4. CASE ~Conflicts(t, e)
  <2> DEFINE D == Displaced(t)
  <2>1. D \subseteq Tx BY SynchronizerAssumption DEF Displaced, Conflicting
  <2>2. /\ wtx' = [x \in Tx |-> IF x = t THEN [e EXCEPT !.have = TRUE]
                                ELSE IF x \in D THEN RemovedTx(wtx[x]) ELSE wtx[x]]
        /\ removed' = removed \cup D
    BY <1>4 DEF AddTransaction
  <2> HIDE DEF D
  <2>3. ASSUME NEW x \in Tx PROVE Sound(x, wtx'[x], heights, removed')
    <3>1. removed \subseteq removed' BY <2>2
    <3>2. CASE x = t
      <4>1. Sound(t, [e EXCEPT !.have = TRUE], heights, removed) BY AskedSound
      <4>2. wtx'[x] = [e EXCEPT !.have = TRUE] BY <2>2, <3>2
      <4> QED BY <3>1, <3>2, <4>1, <4>2, MoreRemoved
    <3>3. CASE x # t /\ x \in D
      <4>1. wtx'[x] = RemovedTx(wtx[x]) /\ x \in removed' BY <2>2, <3>3
      <4> QED BY <1>1, <4>1, RemovedSound
    <3>4. CASE x # t /\ x \notin D
      <4>1. wtx'[x] = wtx[x] BY <2>2, <3>4
      <4> QED BY <1>1, <3>1, <4>1, MoreRemoved
    <3> QED BY <3>2, <3>3, <3>4
  <2>4. wtx' = [x \in Tx |-> wtx'[x]] BY <2>2
  <2> QED BY <1>2, <2>1, <2>2, <2>3, <2>4 DEF TablesOK, Sound
<1> QED BY <1>3, <1>4

LEMMA OverOK ==
  ASSUME IInv, NEW t \in Tx, Over(t), TablesOK', refused' \subseteq Tx,
         UNCHANGED <<chains, verifier>>
  PROVE  IInv'
<1> USE DEF IInv
<1>1. ServerOK' /\ VerifierOK'
  BY DEF Over, ServerOK, VerifierOK, HeightsOK, server, chains, verifier
<1>2. tasks' \subseteq Task
  <2>1. \A k \in Task : [k EXCEPT !.missing = @ \ {t}] \in Task BY DEF Task
  <2> QED BY <2>1 DEF Over, RequestsOK
<1>3. /\ requestedTx' \in [Tx -> Height \cup {None}]
      /\ txAnswers' \in [Tx -> {"found", "unknown", None}]
      /\ \A x \in Tx : txAnswers'[x] # None => requestedTx'[x] # None
  BY DEF Over, RequestsOK
<1>4. RequestsOK' BY <1>2, <1>3 DEF Over, RequestsOK, queues
<1> QED BY <1>1, <1>4

LEMMA TransactionsOK ==
  ASSUME IInv, NEW t \in Tx,
         AnswerTransaction(t) \/ OnTransaction(t) \/ OnTransactionUnknown(t),
         UNCHANGED <<chains, verifier>>
  PROVE  IInv'
<1>0. refused \subseteq Tx /\ heights' = heights BY DEF IInv, RequestsOK, chains
<1>1. CASE AnswerTransaction(t)
  <2>1. txAnswers' \in [Tx -> {"found", "unknown", None}]
    BY <1>1 DEF AnswerTransaction, IInv, RequestsOK
  <2> QED BY <1>1, <2>1 DEF AnswerTransaction, IInv, RequestsOK, ServerOK, TablesOK, VerifierOK,
                   HeightsOK, server, wallet, starting, queues, past, chains, verifier
<1>2. CASE OnTransactionUnknown(t)
  <2>1. TablesOK' BY <1>2 DEF OnTransactionUnknown, IInv, TablesOK, chains
  <2>2. refused' \subseteq Tx BY <1>0, <1>2 DEF OnTransactionUnknown
  <2> QED BY <1>2, <2>1, <2>2, OverOK DEF OnTransactionUnknown
<1>3. CASE OnTransaction(t)
  <2> DEFINE e == AddUnverified(wtx[t], requestedTx[t])
  <2>1. CASE requestedTx[t] # None
    <3>1. requestedTx[t] \in Height BY <2>1 DEF IInv, RequestsOK
    <3>2. Sound(t, e, heights, removed) BY <3>1, AddUnverifiedSound DEF IInv, TablesOK
    <3>3. AddTransaction(t, e) BY <1>3 DEF OnTransaction
    <3> HIDE DEF e
    <3>4. TablesOK' BY <1>0, <3>2, <3>3, AddTransactionOK DEF IInv
    <3>5. refused' \subseteq Tx BY <1>0, <1>3 DEF OnTransaction
    <3> QED BY <1>3, <3>4, <3>5, OverOK DEF OnTransaction
  <2>2. requestedTx[t] # None
    <3>1. txAnswers[t] # None BY <1>3, SynchronizerAssumption DEF OnTransaction
    <3> QED BY <3>1 DEF IInv, RequestsOK
  <2> QED BY <2>1, <2>2
<1> QED BY <1>1, <1>2, <1>3

LEMMA UserStepOK ==
  ASSUME IInv, UserStep, UNCHANGED <<chains, verifier>>
  PROVE  IInv'
<1> USE DEF IInv
<1>0. heights' = heights BY DEF chains
<1>1. ASSUME NEW a \in Late, AddAddress(a) PROVE IInv'
  <2>1. a \in Addr BY SynchronizerAssumption
  <2>2. ServerOK' BY <1>1, EventOK DEF AddAddress, ServerOK
  <2>3. RequestsOK' BY <1>1, <2>1 DEF AddAddress, RequestsOK, starting, asked, past
  <2> QED BY <1>1, <2>2, <2>3
        DEF AddAddress, TablesOK, VerifierOK, HeightsOK, past, chains, verifier
<1>2. ASSUME NEW t \in Tx, SaveTransaction(t) PROVE IInv'
  <2>1. TablesOK' BY <1>0, <1>2, AddTransactionOK DEF SaveTransaction, TablesOK
  <2>2. ServerOK' BY <1>2, EventOK DEF SaveTransaction, ServerOK
  <2> QED BY <1>2, <2>1, <2>2
        DEF SaveTransaction, RequestsOK, VerifierOK, HeightsOK, starting, queues, asked, chains,
            verifier
<1>3. ASSUME NEW t \in Tx, RemoveTransaction(t) PROVE IInv'
  <2>1. TablesOK'
    <3>1. wtx' = [wtx EXCEPT ![t] = RemovedTx(wtx[t])] /\ removed' = removed \cup {t}
      BY <1>3 DEF RemoveTransaction
    <3>2. \A x \in Tx : Sound(x, wtx[x], heights, removed) BY DEF TablesOK
    <3>3. Sound(t, RemovedTx(wtx[t]), heights, removed') BY <3>1, <3>2, RemovedSound
    <3>4. \A x \in Tx : Sound(x, wtx[x], heights, removed') BY <3>1, <3>2, MoreRemoved
    <3> QED BY <1>0, <3>1, <3>3, <3>4 DEF TablesOK, Sound
  <2>2. ServerOK' BY <1>3, EventOK DEF RemoveTransaction, ServerOK
  <2> QED BY <1>3, <2>1, <2>2
        DEF RemoveTransaction, RequestsOK, VerifierOK, HeightsOK, starting, queues, asked, chains,
            verifier
<1> QED BY <1>1, <1>2, <1>3 DEF UserStep

LEMMA MainOK ==
  ASSUME IInv, UNCHANGED <<chains, verifier>>,
         (\E a \in Addr : BootRequests(a)) \/ AddAddresses \/ Poll
  PROVE  IInv'
<1> USE DEF IInv, ServerOK, TablesOK, VerifierOK, HeightsOK, server, wallet, queues, past, chains,
            verifier
<1>1. ASSUME NEW a \in Addr, BootRequests(a) PROVE IInv'
  <2>1. /\ requestedTx' \in [Tx -> Height \cup {None}]
        /\ txAnswers' \in [Tx -> {"found", "unknown", None}]
        /\ \A t \in Tx : txAnswers'[t] # None => requestedTx'[t] # None
        /\ Missing(history[a]) \subseteq Tx
    BY <1>1, RequestType DEF BootRequests
  <2> QED BY <1>1, <2>1 DEF BootRequests, RequestsOK
<1>2. CASE AddAddresses
  BY <1>2 DEF AddAddresses, RequestsOK, asked
<1>3. CASE Poll
  BY <1>3 DEF Poll, IsUpToDate, RequestsOK, requests, starting, asked
<1> QED BY <1>1, <1>2, <1>3

LEMMA SynchronizerStepOK ==
  ASSUME IInv, SynchronizerStep, UNCHANGED <<chains, verifier>>
  PROVE  IInv'
BY AddressesOK, AnswerHistoryOK, OnHistoryOK, TransactionsOK, MainOK DEF SynchronizerStep
-----------------------------------------------------------------------------
(* The verifier and the connection *)

LEMMA TipIsHeight == ServerOK => tip \in Height /\ ForkHeight \in Nat /\ MaxHeight \in Nat
<1>1. ForkHeight \in Nat /\ MaxHeight \in Nat BY TablesAssumption
<1> QED BY <1>1 DEF ServerOK, Height

LEMMA BlockType == \A b \in Branch, t \in Tx : Block[b][t] \in Height
<1>1. Block \in [Branch -> [Tx -> Height]] BY SynchronizerAssumption
<1> QED BY <1>1

\* Headers are only added, and what is verified stays so.
LEMMA HeadersOK ==
  ASSUME ServerOK, HeightsOK,
         heights' = [heights EXCEPT ![branch] = IF @ < tip THEN tip ELSE @]
  PROVE  HeightsOK' /\ \A b \in Branch : heights[b] <= heights'[b]
<1>1. ForkHeight \in Nat /\ MaxHeight \in Nat BY TablesAssumption
<1> QED BY <1>1 DEF ServerOK, HeightsOK

LEMMA TablesHigher ==
  ASSUME TablesOK, HeightsOK, HeightsOK', \A b \in Branch : heights[b] <= heights'[b]
  PROVE  \A t \in Tx : Sound(t, wtx[t], heights', removed)
<1>1. ForkHeight \in Nat /\ MaxHeight \in Nat BY TablesAssumption
<1>2. heights \in [Branch -> Int] /\ heights' \in [Branch -> Int] BY <1>1 DEF HeightsOK
<1>3. \A b \in Branch, t \in Tx : Block[b][t] \in Int BY BlockType, <1>1 DEF Height
<1> QED BY <1>2, <1>3, HigherSound DEF TablesOK

LEMMA SyncHeadersOK ==
  ASSUME IInv, SyncHeaders
  PROVE  IInv'
<1> USE DEF IInv
<1>1. HeightsOK' /\ \A b \in Branch : heights[b] <= heights'[b]
  BY HeadersOK DEF SyncHeaders, VerifierOK
<1>2. TablesOK'
  BY <1>1, TablesHigher DEF SyncHeaders, VerifierOK, TablesOK, wallet, requests, past
<1>3. VerifierOK' BY <1>1 DEF SyncHeaders, ServerOK, VerifierOK, verifier, ProofOK
<1>4. ServerOK' BY DEF SyncHeaders, ServerOK, server
<1>5. RequestsOK'
  BY DEF SyncHeaders, RequestsOK, wallet, requests, starting, queues, asked, past
<1> QED BY <1>2, <1>3, <1>4, <1>5

LEMMA RestartOK ==
  ASSUME IInv, Restart, ServerOK'
  PROVE  IInv'
<1> USE DEF IInv
<1>1. HeightsOK' /\ \A b \in Branch : heights[b] <= heights'[b]
  <2>1. CASE UNCHANGED chains
    <3>1. ForkHeight \in Nat /\ MaxHeight \in Nat BY TablesAssumption
    <3> QED BY <2>1, <3>1 DEF chains, VerifierOK, HeightsOK
  <2>2. CASE heights' = [heights EXCEPT ![branch] = IF @ < tip THEN tip ELSE @]
    BY <2>2, HeadersOK DEF VerifierOK
  <2> QED BY <2>1, <2>2 DEF Restart
<1>2. TablesOK'
  <2>1. \A t \in Tx : Sound(t, wtx[t], heights', removed) BY <1>1, TablesHigher DEF VerifierOK
  <2>2. \A t \in Tx : Sound(t, Unproved(wtx[t]), heights', removed') BY <2>1, UnprovedSound
  <2>3. wtx' = [t \in Tx |-> Unproved(wtx[t])] /\ removed' = {} BY DEF Restart, Started
  <2> QED BY <2>2, <2>3 DEF TablesOK, Sound
<1>3. netBranch' \in Branch /\ spvBranch' = netBranch' /\ proofs' = {}
  BY DEF Restart, VerifierOK, ServerOK, chains
<1>4. VerifierOK' BY <1>1, <1>3 DEF VerifierOK
<1>5. RequestsOK'
  <2>1. statuses' \in [Addr -> Seq(History)]
    <3>1. <<>> \in Seq(History) OBVIOUS
    <3> QED BY <3>1 DEF Restart, Started
  <2> QED BY <2>1 DEF Restart, Started, RequestsOK
<1> QED BY <1>2, <1>4, <1>5

LEMMA ConnectionsOK ==
  ASSUME IInv, ConnectionLost \/ Refused
  PROVE  IInv'
<1>1. CASE ConnectionLost
  <2>1. ServerOK' BY <1>1, EventOK DEF ConnectionLost, IInv, ServerOK
  <2> QED BY <1>1, <2>1, RestartOK DEF ConnectionLost
<1>2. CASE Refused
  <2>1. Restart /\ UNCHANGED server BY <1>2 DEF Refused, TransactionRefused, ProofRefused
  <2>2. ServerOK' BY <2>1 DEF server, IInv, ServerOK
  <2> QED BY <2>1, <2>2, RestartOK
<1> QED BY <1>1, <1>2

LEMMA SpvRoundOK ==
  ASSUME IInv, SpvRound
  PROVE  IInv'
<1> DEFINE undone == [t \in Tx |-> IF netBranch = spvBranch THEN wtx[t]
                                   ELSE Undone(wtx[t], netBranch, heights[netBranch])]
           due == {t \in Tx : /\ undone[t].unverified \in 1 .. heights[netBranch]
                              /\ ~undone[t].asked /\ ~undone[t].root}
<1>1. /\ spvBranch' = netBranch
      /\ wtx' = [t \in Tx |-> IF t \in due THEN [undone[t] EXCEPT !.asked = TRUE] ELSE undone[t]]
      /\ proofs' = proofs \cup {[tx |-> t, height |-> undone[t].unverified, answer |-> None] : t \in due}
      /\ UNCHANGED <<server, known, history, upToDate, requests, chains>>
  BY DEF SpvRound
<1>2. \A t \in Tx : Sound(t, undone[t], heights, removed) BY UndoneSound DEF IInv, TablesOK
<1>3. \A t \in due : undone[t].unverified \in Height \ {0}
  <2>1. ForkHeight \in Nat /\ MaxHeight \in Nat BY TablesAssumption
  <2>2. heights[netBranch] \in 0 .. MaxHeight BY <2>1 DEF IInv, VerifierOK, HeightsOK
  <2> QED BY <2>1, <2>2 DEF Height
<1>4. due \subseteq Tx OBVIOUS
<1> HIDE DEF undone, due
<1>5. TablesOK'
  <2>1. \A t \in Tx : Sound(t, [undone[t] EXCEPT !.asked = TRUE], heights, removed)
    BY <1>2, AskedSound
  <2>2. heights' = heights /\ removed' = removed BY <1>1 DEF chains, requests, past
  <2>3. \A t \in Tx : Sound(t, wtx'[t], heights', removed') BY <1>1, <1>2, <2>1, <2>2
  <2>4. wtx' = [t \in Tx |-> wtx'[t]] BY <1>1
  <2>5. removed' \subseteq Tx BY <2>2 DEF IInv, TablesOK
  <2> QED BY <2>3, <2>4, <2>5 DEF TablesOK, Sound
<1>6. VerifierOK'
  <2>1. ASSUME NEW p \in proofs' PROVE ProofOK(p)
    <3>1. CASE p \in proofs BY <3>1 DEF IInv, VerifierOK
    <3>2. CASE p \notin proofs
      <4>1. PICK t \in due : p = [tx |-> t, height |-> undone[t].unverified, answer |-> None]
        BY <1>1, <2>1, <3>2
      <4> QED BY <1>3, <1>4, <4>1 DEF ProofOK
    <3> QED BY <3>1, <3>2
  <2> QED BY <1>1, <2>1 DEF IInv, VerifierOK, HeightsOK, chains, ProofOK
<1>7. ServerOK' /\ RequestsOK'
  BY <1>1 DEF IInv, ServerOK, RequestsOK, server, requests, starting, queues, asked, past
<1> QED BY <1>5, <1>6, <1>7 DEF IInv

LEMMA AnswerProofOK ==
  ASSUME IInv, NEW p \in proofs, AnswerProof(p)
  PROVE  IInv'
<1> DEFINE q == [p EXCEPT !.answer = IF Block[branch][p.tx] = p.height /\ p.height <= tip
                                     THEN HeaderAt(branch, p.height) ELSE NotThere]
<1>1. proofs' = (proofs \ {p}) \cup {q} BY DEF AnswerProof
<1>2. ProofOK(q)
  <2>1. ProofOK(p) /\ branch \in Branch BY DEF IInv, VerifierOK, ServerOK
  <2>2. HeaderAt(branch, p.height) \in Header BY <2>1, HeaderAtType DEF ProofOK
  <2> QED BY <2>1, <2>2 DEF ProofOK
<1> HIDE DEF q
<1>3. VerifierOK'
  <2>1. \A r \in proofs' : ProofOK(r) BY <1>1, <1>2 DEF IInv, VerifierOK
  <2> QED BY <2>1 DEF AnswerProof, IInv, VerifierOK, HeightsOK, chains, ProofOK
<1>4. ServerOK' /\ RequestsOK' /\ TablesOK'
  BY DEF AnswerProof, IInv, ServerOK, RequestsOK, TablesOK, server, wallet, requests, starting,
         queues, asked, past, chains
<1> QED BY <1>3, <1>4 DEF IInv

\* The header of a proof is the wallet's own, or one below the fork.
LEMMA ProofHeld ==
  ASSUME IInv, NEW p \in proofs, p.answer \notin {None, NotThere}, HasHeader(p.answer)
  PROVE  p.answer \in Header /\ Held(p.tx, p.answer, heights)
<1>1. ProofOK(p) BY DEF IInv, VerifierOK
<1>2. PICK b \in Branch : p.answer = HeaderAt(b, Block[b][p.tx]) /\ Block[b][p.tx] = p.height
  BY <1>1 DEF ProofOK
<1> DEFINE h == p.height
<1>3. h \in Height /\ h # 0 BY <1>1 DEF ProofOK
<1>4. netBranch \in Branch /\ heights \in [Branch -> ForkHeight .. MaxHeight]
  BY DEF IInv, VerifierOK, HeightsOK
<1>5. p.answer = HeaderAt(b, h) /\ p.answer[1] = h BY <1>2, <1>3, HeaderAtType
<1>6. h <= heights[netBranch] /\ HeaderAt(b, h) = HeaderAt(netBranch, h)
  BY <1>5 DEF HasHeader
<1>7. ForkHeight \in Nat /\ MaxHeight \in Nat /\ 0 \notin Branch BY TablesAssumption
<1>8. h \in 1 .. heights[b]
  <2>1. h \in Nat /\ h >= 1 BY <1>3, <1>7 DEF Height
  <2>2. CASE h <= ForkHeight BY <1>4, <1>7, <2>1, <2>2
  <2>3. CASE ~(h <= ForkHeight)
    <3>1. b = netBranch BY <1>6, <2>3 DEF HeaderAt
    <3> QED BY <1>4, <1>6, <1>7, <2>1, <3>1
  <2> QED BY <2>2, <2>3
<1> HIDE DEF h
<1>9. p.answer \in Header BY <1>3, <1>5, HeaderAtType
<1> QED BY <1>2, <1>5, <1>8, <1>9 DEF Held, h

LEMMA OnProofOK ==
  ASSUME IInv, NEW p \in proofs, OnProof(p)
  PROVE  IInv'
<1>1. ProofOK(p) BY DEF IInv, VerifierOK
<1>2. p.tx \in Tx /\ p.height \in Height BY <1>1 DEF ProofOK
<1>3. Sound(p.tx, wtx[p.tx], heights, removed) /\ wtx \in [Tx -> Entry] BY <1>2 DEF IInv, TablesOK
<1>4. ASSUME NEW e, Sound(p.tx, e, heights, removed), wtx' = [wtx EXCEPT ![p.tx] = e],
             heights' = heights /\ removed' = removed
      PROVE  TablesOK'
  BY <1>3, <1>4 DEF IInv, TablesOK, Sound
<1>5. heights' = heights /\ removed' = removed BY DEF OnProof, chains, requests, past
<1>6. TablesOK'
  <2>1. CASE p.answer = NotThere
    <3>1. Sound(p.tx, [RemoveUnverified(wtx[p.tx], p.height) EXCEPT !.asked = FALSE], heights, removed)
      BY <1>2, <1>3, RemoveUnverifiedSound
    <3>2. wtx' = [wtx EXCEPT ![p.tx] =
                    [RemoveUnverified(wtx[p.tx], p.height) EXCEPT !.asked = FALSE]]
      BY <2>1 DEF OnProof
    <3> QED BY <1>4, <1>5, <3>1, <3>2
  <2>2. CASE p.answer # NotThere
    <3>1. p.answer # None /\ HasHeader(p.answer) BY <2>2 DEF OnProof
    <3>2. Sound(p.tx, AddVerified(wtx[p.tx], p.answer), heights, removed)
      BY <1>3, <2>2, <3>1, ProofHeld, AddVerifiedSound
    <3>3. wtx' = [wtx EXCEPT ![p.tx] = AddVerified(wtx[p.tx], p.answer)] BY <2>2 DEF OnProof
    <3> QED BY <1>4, <1>5, <3>2, <3>3
  <2> QED BY <2>1, <2>2
<1>7. VerifierOK' BY DEF OnProof, IInv, VerifierOK, HeightsOK, chains, ProofOK
<1>8. ServerOK' /\ RequestsOK'
  BY DEF OnProof, IInv, ServerOK, RequestsOK, server, requests, starting, queues, asked, past
<1> QED BY <1>6, <1>7, <1>8 DEF IInv
-----------------------------------------------------------------------------
LEMMA InitOK == Init => IInv
<1> SUFFICES ASSUME Init PROVE IInv OBVIOUS
<1> USE DEF Init, SynchronizerInit
<1>1. ForkHeight \in Nat /\ MaxHeight \in Nat /\ ForkHeight \in ForkHeight .. MaxHeight /\ 1 \in Branch
  BY TablesAssumption
<1>2. ServerOK
  <2>1. MaxEvents \in Nat BY SynchronizerAssumption
  <2> QED BY <1>1, <2>1 DEF ServerOK
<1>3. RequestsOK
  <2>1. <<>> \in Seq(History) /\ {} \in History BY DEF History
  <2>2. Late \subseteq Addr BY SynchronizerAssumption
  <2> QED BY <2>1, <2>2 DEF RequestsOK
<1>4. TablesOK
  <2>1. \A t : Sound(t, Unknown, heights, removed) BY DEF Sound, Unknown, Entry
  <2> QED BY <2>1 DEF TablesOK, Sound
<1>5. VerifierOK BY <1>1 DEF VerifierOK, HeightsOK
<1> QED BY <1>2, <1>3, <1>4, <1>5 DEF IInv

LEMMA StepOK == IInv /\ [Next]_vars => IInv'
<1> SUFFICES ASSUME IInv, [Next]_vars PROVE IInv' OBVIOUS
<1>1. CASE ServerStep /\ UNCHANGED <<chains, verifier>> BY <1>1, ServerStepOK
<1>2. CASE SynchronizerStep /\ UNCHANGED <<chains, verifier>> BY <1>2, SynchronizerStepOK
<1>3. CASE VerifierStep BY <1>3, SpvRoundOK, AnswerProofOK, OnProofOK DEF VerifierStep
<1>4. CASE SyncHeaders BY <1>4, SyncHeadersOK
<1>5. CASE ConnectionLost \/ Refused BY <1>5, ConnectionsOK
<1>6. CASE UserStep /\ UNCHANGED <<chains, verifier>> BY <1>6, UserStepOK
<1>7. CASE UNCHANGED vars
  BY <1>7 DEF vars, server, wallet, requests, starting, queues, asked, past, chains, verifier, IInv, ServerOK, RequestsOK,
              TablesOK, VerifierOK, HeightsOK, ProofOK
<1> QED BY <1>1, <1>2, <1>3, <1>4, <1>5, <1>6, <1>7 DEF Next

LEMMA IInvHolds == Spec => []IInv
BY InitOK, StepOK, PTL DEF Spec

\* The tables, the queues and the requests have their types whatever the
\* server does and however answers, restarts and reorganisations interleave.
THEOREM WalletSyncTyped == Spec => []TypeOK
<1>1. IInv => TypeOK
  <2> SUFFICES ASSUME IInv PROVE TypeOK OBVIOUS
  <2>1. ForkHeight \in Nat /\ MaxHeight \in Nat BY TablesAssumption
  <2>2. tip \in Height /\ heights \in [Branch -> Height]
    BY <2>1 DEF IInv, ServerOK, VerifierOK, HeightsOK, Height
  <2>3. proofs \subseteq [tx: Tx, height: Height, answer: Header \cup {None, NotThere}]
    BY DEF IInv, VerifierOK, ProofOK
  <2> QED BY <2>2, <2>3 DEF IInv, ServerOK, RequestsOK, TablesOK, VerifierOK, TypeOK
<1> QED BY <1>1, IInvHolds, PTL

\* No Merkle root outlives its verification but that of a transaction removed
\* since the connection began, and no transaction is verified and unverified
\* at once, for every tree of blocks and all conflicts and descents.
THEOREM VerifiedOrNot == Spec => []RootsAreVerified
<1>1. IInv => RootsAreVerified BY DEF IInv, TablesOK, Sound, RootsAreVerified
<1> QED BY <1>1, IInvHolds, PTL

\* A verified transaction is in a block whose header the wallet holds, for
\* every tree of blocks and every fork height.
THEOREM VerifiedIsHeld == Spec => []VerifiedHeadersHeld
<1>1. IInv => VerifiedHeadersHeld BY DEF IInv, TablesOK, Sound, Held, VerifiedHeadersHeld
<1> QED BY <1>1, IInvHolds, PTL

-----------------------------------------------------------------------------
(* The histories and transactions of a wallet that is up to date *)

Last(s) == s[Len(s)]

\* Only known addresses are asked about.
KnownOnly ==
  /\ scheduled \cup requestedAddrs \cup subscribed \subseteq known
  /\ \A a \in Addr : statuses[a] # <<>> => a \in subscribed
  /\ \A k \in tasks : k.addr \in known
  /\ \A a \in Addr \ known : history[a] = {}

Watched == main = "loop" => known \subseteq scheduled \cup requestedAddrs \cup subscribed

\* Where the server's history of an address is: at the end of the queue, or in
\* the wallet, or with a task that has to take it there. Without a status in
\* between, the task gets what was announced.
Told(a) ==
  a \in subscribed =>
    IF statuses[a] # <<>> THEN Last(statuses[a]) = ServerHistory(a)
    ELSE a \notin crossed =>
         /\ \A k \in tasks : k.addr = a =>
              k.status = ServerHistory(a) /\ k.answer \in {None, ServerHistory(a)}
         /\ \/ history[a] = ServerHistory(a)
            \/ \E k \in tasks : k.addr = a /\ k.missing = {}

\* Where a transaction of a history is, once main has looked at the history
Fetched(a) ==
  a \notin toBoot =>
    \A e \in history[a] : \/ wtx[e[1]].have \/ requestedTx[e[1]] # None
                          \/ e[1] \in removed \cup refused

SInv ==
  /\ KnownOnly /\ Watched
  /\ main = "loop" => toBoot = {}
  /\ \A a \in Addr : Told(a) /\ Fetched(a)
-----------------------------------------------------------------------------
LEMMA LastAppended ==
  ASSUME NEW S, NEW s \in Seq(S), NEW x \in S
  PROVE  Append(s, x) # <<>> /\ Last(Append(s, x)) = x
BY DEF Last

LEMMA LastOfTail ==
  ASSUME NEW S, NEW s \in Seq(S), s # <<>>
  PROVE  /\ Tail(s) # <<>> => Last(Tail(s)) = Last(s)
         /\ Tail(s) = <<>> => Head(s) = Last(s)
<1>1. Len(s) \in Nat /\ Len(s) # 0 OBVIOUS
<1>2. Tail(s) \in Seq(S) /\ Len(Tail(s)) = Len(s) - 1 OBVIOUS
<1>3. \A i \in 1 .. Len(s) - 1 : Tail(s)[i] = s[i + 1] OBVIOUS
<1>4. Tail(s) # <<>> => Last(Tail(s)) = Last(s)
  <2>1. Tail(s) # <<>> => Len(Tail(s)) # 0 BY <1>2, EmptySeq
  <2>2. Tail(s) # <<>> => Len(s) - 1 \in 1 .. Len(s) - 1 BY <1>1, <1>2, <2>1
  <2> QED BY <1>1, <1>2, <1>3, <2>2 DEF Last
<1>5. Tail(s) = <<>> => Len(s) = 1
  <2> DEFINE u == Tail(s)
  <2>1. Len(<<>>) = 0 BY EmptySeq
  <2>2. Len(u) = Len(s) - 1 BY <1>2
  <2> HIDE DEF u
  <2>3. u = <<>> => Len(u) = 0 BY <2>1
  <2>4. u = <<>> => Len(s) = 1 BY <1>1, <2>2, <2>3
  <2> QED BY <2>4 DEF u
<1>6. Head(s) = s[1] OBVIOUS
<1> QED BY <1>4, <1>5, <1>6 DEF Last

\* While the server stays as it is
LEMMA SameServer ==
  ASSUME UNCHANGED <<branch, tip, pool>>
  PROVE  \A a \in Addr : ServerHistory(a)' = ServerHistory(a)
BY DEF ServerHistory

LEMMA HistoryTx == IInv => \A a \in Addr : \A e \in history[a] : e[1] \in Tx
BY DEF IInv, RequestsOK, History

\* A step of the tables, of the verifier or of the headers: transactions get
\* lost only by removal.
LEMMA TablesSettle ==
  ASSUME SInv, IInv, UNCHANGED <<branch, tip, pool, known, history, starting, queues, tasks, asked, crossed>>,
         removed \subseteq removed', refused \subseteq refused',
         \A t \in Tx : wtx[t].have => wtx'[t].have \/ t \in removed'
  PROVE  SInv'
<1>1. \A a \in Addr : ServerHistory(a)' = ServerHistory(a) BY SameServer
<1>2. \A a \in Addr : Told(a)' BY <1>1 DEF SInv, Told, queues
<1>3. \A a \in Addr : Fetched(a)'
  <2>1. UNCHANGED <<history, toBoot, requestedTx>> BY DEF starting, asked
  <2> QED BY <2>1, HistoryTx DEF SInv, Fetched
<1>4. KnownOnly' /\ Watched' BY DEF SInv, KnownOnly, Watched, queues, starting
<1> QED BY <1>2, <1>3, <1>4 DEF SInv, starting

LEMMA ServerSettles ==
  ASSUME SInv, IInv, NEW b \in Branch, NEW n, NEW p, ServerBecomes(b, n, p)
  PROVE  SInv'
<1> DEFINE new(a) == HistoryOf(a, b, n, pool')
<1>1. \A a \in Addr : ServerHistory(a)' = new(a) BY DEF ServerBecomes, ServerHistory
<1>2. statuses' = [a \in Addr |-> IF a \in subscribed /\ new(a) # ServerHistory(a)
                                  THEN Append(statuses[a], new(a)) ELSE statuses[a]]
  BY DEF ServerBecomes
<1>3. \A a \in Addr : new(a) \in History BY HistoryType
<1>4. UNCHANGED <<subscribed, known, history, wtx, main, toBoot, scheduled, requestedAddrs, tasks,
                  requestedTx, crossed, removed, refused>>
  BY DEF ServerBecomes, wallet, starting, asked, past
<1>5. statuses \in [Addr -> Seq(History)] BY DEF IInv, RequestsOK
<1> HIDE DEF new
<1>6. \A a \in Addr : statuses'[a] # <<>> /\ statuses[a] = <<>> => a \in subscribed BY <1>2
<1>7. ASSUME NEW a \in Addr PROVE Told(a)'
  <2>1. CASE new(a) # ServerHistory(a)
    <3>1. Append(statuses[a], new(a)) # <<>> /\ Last(Append(statuses[a], new(a))) = new(a)
      BY <1>3, <1>5, LastAppended
    <3>2. a \in subscribed => statuses'[a] # <<>> /\ Last(statuses'[a]) = new(a)
      BY <1>2, <2>1, <3>1
    <3> QED BY <1>1, <1>4, <3>2 DEF Told
  <2>2. CASE new(a) = ServerHistory(a)
    <3>1. statuses'[a] = statuses[a] /\ ServerHistory(a)' = ServerHistory(a) BY <1>1, <1>2, <2>2
    <3>2. Told(a) BY DEF SInv
    <3> QED BY <1>4, <3>1, <3>2 DEF Told
  <2> QED BY <2>1, <2>2
<1>8. \A a \in Addr : Fetched(a)' BY <1>4 DEF SInv, Fetched
<1>9. KnownOnly' /\ Watched' BY <1>4, <1>6 DEF SInv, KnownOnly, Watched
<1> QED BY <1>4, <1>7, <1>8, <1>9 DEF SInv
-----------------------------------------------------------------------------
(* Addresses and statuses *)

LEMMA AddressSettles ==
  ASSUME SInv, IInv, NEW a \in Addr, AddAddress(a) \/ AddScheduled(a)
  PROVE  SInv'
<1>1. UNCHANGED <<branch, tip, pool, subscribed, history, wtx, main, toBoot, statuses, tasks,
                  requestedTx, crossed, removed, refused>>
  BY DEF AddAddress, AddScheduled, server, wallet, starting, asked, past
<1>2. \A x \in Addr : ServerHistory(x)' = ServerHistory(x) BY <1>1, SameServer
<1>3. \A x \in Addr : Told(x)' /\ Fetched(x)' BY <1>1, <1>2 DEF SInv, Told, Fetched
<1>4. KnownOnly' BY <1>1 DEF SInv, KnownOnly, AddAddress, AddScheduled, wallet
<1>5. Watched' BY <1>1 DEF SInv, Watched, AddAddress, AddScheduled, wallet
<1> QED BY <1>1, <1>3, <1>4, <1>5 DEF SInv

LEMMA SubscribeSettles ==
  ASSUME SInv, IInv, NEW a \in Addr, Subscribe(a)
  PROVE  SInv'
<1>1. UNCHANGED <<branch, tip, pool, known, history, wtx, main, toBoot, scheduled, tasks,
                  requestedTx, crossed, removed, refused>>
  BY DEF Subscribe, server, wallet, starting, asked, past
<1>2. \A x \in Addr : ServerHistory(x)' = ServerHistory(x) BY <1>1, SameServer
<1>3. statuses \in [Addr -> Seq(History)] BY DEF IInv, RequestsOK
<1>4. /\ Append(statuses[a], ServerHistory(a)) # <<>>
      /\ Last(Append(statuses[a], ServerHistory(a))) = ServerHistory(a)
  BY <1>3, ServerHistoryType, LastAppended
<1>5. statuses' = [statuses EXCEPT ![a] = Append(@, ServerHistory(a))] BY DEF Subscribe
<1>6. ASSUME NEW x \in Addr PROVE Told(x)'
  <2>1. CASE x = a
    <3>1. statuses'[a] # <<>> /\ Last(statuses'[a]) = ServerHistory(a) BY <1>3, <1>4, <1>5
    <3> QED BY <1>2, <2>1, <3>1 DEF Told
  <2>2. CASE x # a
    <3>1. statuses'[x] = statuses[x] /\ (x \in subscribed' => x \in subscribed)
      BY <1>3, <1>5, <2>2 DEF Subscribe
    <3> QED BY <1>1, <1>2, <3>1 DEF SInv, Told
  <2> QED BY <2>1, <2>2
<1>7. \A x \in Addr : Fetched(x)' BY <1>1 DEF SInv, Fetched
<1>8. KnownOnly'
  <2>1. \A x \in Addr : statuses'[x] # <<>> => x \in subscribed'
    BY <1>3, <1>5 DEF Subscribe, SInv, KnownOnly
  <2> QED BY <1>1, <2>1 DEF SInv, KnownOnly, Subscribe
<1>9. Watched' BY <1>1 DEF SInv, Watched, Subscribe
<1> QED BY <1>1, <1>6, <1>7, <1>8, <1>9 DEF SInv

LEMMA StatusSettles ==
  ASSUME SInv, IInv, NEW a \in Addr, OnAddressStatus(a)
  PROVE  SInv'
<1> DEFINE s == Head(statuses[a])
           open == {k \in tasks : k.addr = a}
           task == [addr |-> a, status |-> s, answer |-> None, missing |-> {}]
<1>1. /\ statuses[a] # <<>>
      /\ statuses' = [statuses EXCEPT ![a] = Tail(@)]
      /\ tasks' = IF s = history[a] \/ \E k \in open : k.status = s THEN tasks ELSE tasks \cup {task}
      /\ crossed' = IF open = {} THEN crossed \ {a} ELSE crossed \cup {a}
  BY DEF OnAddressStatus
<1>2. UNCHANGED <<branch, tip, pool, subscribed, known, history, wtx, main, toBoot, scheduled,
                  requestedAddrs, requestedTx, removed, refused>>
  BY DEF OnAddressStatus, server, wallet, starting, asked
<1>3. \A x \in Addr : ServerHistory(x)' = ServerHistory(x) BY <1>2, SameServer
<1>4. statuses \in [Addr -> Seq(History)] BY DEF IInv, RequestsOK
<1>5. a \in subscribed /\ a \in known BY <1>1 DEF SInv, KnownOnly
<1>6. task.addr = a /\ task.status = s /\ task.answer = None /\ task.missing = {} OBVIOUS
<1>7. ASSUME NEW x \in Addr PROVE Told(x)'
  <2>1. CASE x # a
    <3>1. statuses'[x] = statuses[x] BY <1>1, <1>4, <2>1
    <3>2. tasks \subseteq tasks' /\ \A k \in tasks' : k.addr = x => k \in tasks
      BY <1>1, <1>6, <2>1
    <3>3. x \notin crossed' => x \notin crossed BY <1>1, <2>1
    <3>4. Told(x) BY DEF SInv
    <3> HIDE DEF open, task, s
    <3> QED BY <1>2, <1>3, <3>1, <3>2, <3>3, <3>4 DEF Told
  <2>2. CASE x = a
    <3>2. x \notin crossed' => open = {} BY <1>1, <2>2
    <3>3. Last(statuses[a]) = ServerHistory(a) BY <1>1, <1>5 DEF SInv, Told
    <3>4. statuses'[a] = Tail(statuses[a]) BY <1>1, <1>4
    <3>5. CASE Tail(statuses[a]) # <<>>
      <4>1. Last(Tail(statuses[a])) = ServerHistory(a) BY <1>1, <1>4, <3>3, <3>5, LastOfTail
      <4> QED BY <1>3, <2>2, <3>4, <3>5, <4>1 DEF Told
    <3>6. CASE Tail(statuses[a]) = <<>>
      <4>1. s = ServerHistory(a) BY <1>1, <1>4, <3>3, <3>6, LastOfTail
      <4> SUFFICES ASSUME x \notin crossed' PROVE Told(x)' BY <1>2, <2>2, <3>4, <3>6 DEF Told
      <4>2. \A k \in tasks : k.addr # a BY <3>2
      <4>3. tasks' = IF s = history[a] THEN tasks ELSE tasks \cup {task} BY <1>1, <3>2
      <4> HIDE DEF task, s
      <4>4. \A k \in tasks' : k.addr = a => k = task /\ s # history[a] BY <4>2, <4>3
      <4>5. s # history[a] => task \in tasks' BY <4>3
      <4> QED BY <1>2, <1>3, <1>6, <2>2, <3>4, <3>6, <4>1, <4>4, <4>5 DEF Told
    <3> QED BY <3>5, <3>6
  <2> QED BY <2>1, <2>2
<1>8. \A x \in Addr : Fetched(x)' BY <1>2 DEF SInv, Fetched
<1>9. tasks' \subseteq tasks \cup {task} BY <1>1
<1> HIDE DEF task, s, open
<1>10. KnownOnly'
  <2>1. \A x \in Addr : statuses'[x] # <<>> => x \in subscribed BY <1>1, <1>4, <1>5 DEF SInv, KnownOnly
  <2> QED BY <1>2, <1>5, <1>6, <1>9, <2>1 DEF SInv, KnownOnly
<1>11. Watched' BY <1>2 DEF SInv, Watched
<1> QED BY <1>2, <1>7, <1>8, <1>10, <1>11 DEF SInv
-----------------------------------------------------------------------------
(* Histories and transactions *)

\* The server answers with its history, which is the announced one as long as
\* no other status is in the queue.
LEMMA AnswerSettles ==
  ASSUME SInv, IInv, NEW k \in tasks, AnswerHistory(k)
  PROVE  SInv'
<1> DEFINE q == [k EXCEPT !.answer = ServerHistory(k.addr)]
<1>1. tasks' = (tasks \ {k}) \cup {q} BY DEF AnswerHistory
<1>2. UNCHANGED <<branch, tip, pool, known, history, wtx, main, toBoot, subscribed, scheduled,
                  requestedAddrs, statuses, requestedTx, crossed, removed, refused>>
  BY DEF AnswerHistory, server, wallet, starting, queues, asked, past
<1>3. \A x \in Addr : ServerHistory(x)' = ServerHistory(x) BY <1>2, SameServer
<1>4. k \in Task BY DEF IInv, RequestsOK
<1>5. /\ q.addr = k.addr /\ q.status = k.status /\ q.missing = k.missing
      /\ q.answer = ServerHistory(k.addr)
  BY <1>4 DEF Task
<1> HIDE DEF q
<1>6. ASSUME NEW x \in Addr PROVE Told(x)'
  <2>1. Told(x) BY DEF SInv
  <2>2. SUFFICES ASSUME x \in subscribed, x \notin crossed, statuses[x] = <<>> PROVE Told(x)'
    BY <1>2, <1>3, <2>1 DEF Told
  <2>3. /\ \A j \in tasks : j.addr = x =>
             j.status = ServerHistory(x) /\ j.answer \in {None, ServerHistory(x)}
        /\ history[x] = ServerHistory(x) \/ \E j \in tasks : j.addr = x /\ j.missing = {}
    BY <2>1, <2>2 DEF Told
  <2>4. \A j \in tasks' : j.addr = x =>
             j.status = ServerHistory(x) /\ j.answer \in {None, ServerHistory(x)}
    BY <1>1, <1>5, <2>3
  <2>5. history[x] = ServerHistory(x) \/ \E j \in tasks' : j.addr = x /\ j.missing = {}
    BY <1>1, <1>5, <2>3
  <2> QED BY <1>2, <1>3, <2>2, <2>4, <2>5 DEF Told
<1>7. \A x \in Addr : Fetched(x)' BY <1>2 DEF SInv, Fetched
<1>8. KnownOnly' BY <1>1, <1>2, <1>5 DEF SInv, KnownOnly
<1>9. Watched' BY <1>2 DEF SInv, Watched
<1> QED BY <1>2, <1>6, <1>7, <1>8, <1>9 DEF SInv

\* A request leaves no transaction of the history out, and loses none.
LEMMA RequestFetches ==
  ASSUME IInv, NEW hist \in History, Request(hist)
  PROVE  /\ \A t \in Tx : requestedTx[t] # None => requestedTx'[t] # None
         /\ \A e \in hist : e[1] \in Tx /\ (wtx[e[1]].have \/ requestedTx'[e[1]] # None)
<1> DEFINE M == Missing(hist)
<1>1. \A t \in M : HeightIn(hist, t) \in Height BY HeightInType DEF Missing
<1>2. requestedTx' = [t \in Tx |-> IF t \in M THEN HeightIn(hist, t) ELSE requestedTx[t]]
  BY DEF Request
<1>3. \A e \in hist : e[1] \in Tx /\ \E h \in Height : <<e[1], h>> \in hist BY DEF History
<1>4. \A e \in hist : e[1] \in M \/ wtx[e[1]].have \/ requestedTx[e[1]] # None
  BY <1>3 DEF Missing
<1> HIDE DEF M
<1> QED BY <1>1, <1>2, <1>3, <1>4, NoneIsNone

LEMMA BootSettles ==
  ASSUME SInv, IInv, NEW a \in Addr, BootRequests(a)
  PROVE  SInv'
<1>1. /\ toBoot' = toBoot \ {a} /\ Request(history[a]) /\ main = "boot"
      /\ UNCHANGED <<branch, tip, pool, known, history, wtx, main, subscribed, scheduled,
                      requestedAddrs, statuses, tasks, crossed, removed, refused>>
  BY DEF BootRequests, server, wallet, queues, past
<1>2. \A x \in Addr : ServerHistory(x)' = ServerHistory(x) BY <1>1, SameServer
<1>3. history[a] \in History BY DEF IInv, RequestsOK
<1>4. /\ \A t \in Tx : requestedTx[t] # None => requestedTx'[t] # None
      /\ \A e \in history[a] : wtx[e[1]].have \/ requestedTx'[e[1]] # None
  BY <1>1, <1>3, RequestFetches
<1>5. \A x \in Addr : Fetched(x)'
  <2>1. \A x \in Addr : x # a => (x \notin toBoot' => x \notin toBoot) BY <1>1
  <2> QED BY <1>1, <1>4, <2>1, HistoryTx DEF SInv, Fetched
<1>6. \A x \in Addr : Told(x)' BY <1>1, <1>2 DEF SInv, Told
<1>7. KnownOnly' /\ Watched' BY <1>1 DEF SInv, KnownOnly, Watched
<1> QED BY <1>1, <1>5, <1>6, <1>7 DEF SInv

\* An announced history is stored with a request for what it lacks.
LEMMA HistorySettles ==
  ASSUME SInv, IInv, NEW k \in tasks, OnHistory(k)
  PROVE  SInv'
<1> DEFINE hist == k.answer
           M == Missing(hist)
<1>1. UNCHANGED <<branch, tip, pool, known, main, toBoot, subscribed, scheduled, requestedAddrs,
                  statuses, crossed, removed, refused>>
  BY DEF OnHistory, server, starting, queues, past
<1>2. \A x \in Addr : ServerHistory(x)' = ServerHistory(x) BY <1>1, SameServer
<1>3. k \in Task /\ k.addr \in Addr /\ k.addr \in known
  BY DEF IInv, RequestsOK, Task, SInv, KnownOnly
<1>4. hist # None /\ k.missing = {} BY DEF OnHistory
<1>5. history \in [Addr -> History] BY DEF IInv, RequestsOK
<1>6. ASSUME NEW x \in Addr, x \in subscribed, x \notin crossed, statuses[x] = <<>>
      PROVE  /\ \A j \in tasks : j.addr = x =>
                  j.status = ServerHistory(x) /\ j.answer \in {None, ServerHistory(x)}
             /\ history[x] = ServerHistory(x) \/ \E j \in tasks : j.addr = x /\ j.missing = {}
  BY <1>6 DEF SInv, Told
<1>7. CASE hist # k.status
  <2>1. tasks' = tasks \ {k} /\ UNCHANGED <<history, wtx, asked>> BY <1>7 DEF OnHistory
  <2> HIDE DEF hist
  <2>2. ASSUME NEW x \in Addr PROVE Told(x)'
    <3>1. SUFFICES ASSUME x \in subscribed, x \notin crossed, statuses[x] = <<>> PROVE Told(x)'
      <4>1. Told(x) BY DEF SInv
      <4> QED BY <1>1, <1>2, <4>1 DEF Told
    <3>2. k.addr # x BY <1>4, <1>6, <1>7, <3>1 DEF hist
    <3>3. /\ \A j \in tasks' : j.addr = x =>
               j.status = ServerHistory(x) /\ j.answer \in {None, ServerHistory(x)}
          /\ history[x] = ServerHistory(x) \/ \E j \in tasks' : j.addr = x /\ j.missing = {}
      BY <1>6, <2>1, <3>1, <3>2
    <3> QED BY <1>1, <1>2, <2>1, <3>1, <3>3 DEF Told
  <2>3. \A x \in Addr : Fetched(x)' BY <1>1, <2>1 DEF SInv, Fetched, asked
  <2>4. KnownOnly' /\ Watched' BY <1>1, <2>1 DEF SInv, KnownOnly, Watched
  <2> QED BY <1>1, <2>2, <2>3, <2>4 DEF SInv
<1>8. CASE hist = k.status
  <2>1. /\ history' = [history EXCEPT ![k.addr] = hist]
        /\ wtx' = Received(k.addr, hist)
        /\ Request(hist)
        /\ tasks' = IF M = {} THEN tasks \ {k} ELSE (tasks \ {k}) \cup {[k EXCEPT !.missing = M]}
    BY <1>8 DEF OnHistory
  <2>2. hist \in History BY <1>3, <1>8 DEF Task
  <2>3. ASSUME NEW t \in Tx PROVE wtx'[t].have = wtx[t].have
    <3>1. wtx[t] \in Entry BY DEF IInv, TablesOK
    <3>2. \A e \in Entry : MadeLocal(e) \in Entry /\ MadeLocal(e).have = e.have
      BY DEF Entry, MadeLocal, Unproved
    <3>3. \A e \in Entry : \A h : AddUnverified(e, h).have = e.have
      BY DEF Entry, AddUnverified, Unproved
    <3> DEFINE kept == IF t \in Involves[k.addr] /\ wtx[t].have /\ <<t, TxHeight(wtx[t])>> \notin hist
                       THEN MadeLocal(wtx[t]) ELSE wtx[t]
    <3>4. kept \in Entry /\ kept.have = wtx[t].have BY <3>1, <3>2
    <3>5. wtx'[t] = IF \E h \in Height : <<t, h>> \in hist
                    THEN AddUnverified(kept, HeightIn(hist, t)) ELSE kept
      BY <2>1 DEF Received
    <3> HIDE DEF kept, hist
    <3> QED BY <3>3, <3>4, <3>5
  <2> DEFINE later == [k EXCEPT !.missing = M]
  <2>4. later.addr = k.addr /\ later.status = k.status /\ later.answer = k.answer
    <3> HIDE DEF M
    <3> QED BY <1>3 DEF Task
  <2>5. tasks' \subseteq (tasks \ {k}) \cup {later} /\ tasks \ {k} \subseteq tasks' BY <2>1
  <2> HIDE DEF M, later
  <2>6. history'[k.addr] = hist /\ \A x \in Addr : x # k.addr => history'[x] = history[x]
    BY <1>3, <1>5, <2>1
  <2>7. /\ \A t \in Tx : requestedTx[t] # None => requestedTx'[t] # None
        /\ \A e \in hist : e[1] \in Tx /\ (wtx[e[1]].have \/ requestedTx'[e[1]] # None)
    BY <2>1, <2>2, RequestFetches
  <2> HIDE DEF hist
  <2>8. ASSUME NEW x \in Addr PROVE Told(x)'
    <3>1. SUFFICES ASSUME x \in subscribed, x \notin crossed, statuses[x] = <<>> PROVE Told(x)'
      <4>1. Told(x) BY DEF SInv
      <4> QED BY <1>1, <1>2, <4>1 DEF Told
    <3>2. \A j \in tasks' : j.addr = x =>
            j.status = ServerHistory(x) /\ j.answer \in {None, ServerHistory(x)}
      BY <1>6, <2>4, <2>5, <3>1
    <3>3. CASE x = k.addr
      <4>1. hist = ServerHistory(x) BY <1>4, <1>6, <3>1, <3>3 DEF hist
      <4> QED BY <1>1, <1>2, <2>6, <3>1, <3>2, <3>3, <4>1 DEF Told
    <3>4. CASE x # k.addr
      <4>1. history[x] = ServerHistory(x) \/ \E j \in tasks' : j.addr = x /\ j.missing = {}
        BY <1>6, <2>5, <3>1, <3>4
      <4> QED BY <1>1, <1>2, <2>6, <3>1, <3>2, <3>4, <4>1 DEF Told
    <3> QED BY <3>3, <3>4
  <2>9. ASSUME NEW x \in Addr PROVE Fetched(x)'
    <3>1. CASE x = k.addr BY <1>1, <2>3, <2>6, <2>7, <3>1 DEF Fetched
    <3>2. CASE x # k.addr
      <4>1. Fetched(x) /\ \A e \in history[x] : e[1] \in Tx BY HistoryTx DEF SInv
      <4> QED BY <1>1, <2>3, <2>6, <2>7, <3>2, <4>1 DEF Fetched
    <3> QED BY <3>1, <3>2
  <2>10. KnownOnly'
    <3>1. \A j \in tasks' : j.addr \in known BY <1>3, <2>4, <2>5 DEF SInv, KnownOnly
    <3> QED BY <1>1, <1>3, <2>6, <3>1 DEF SInv, KnownOnly
  <2>11. Watched' BY <1>1 DEF SInv, Watched
  <2> QED BY <1>1, <2>8, <2>9, <2>10, <2>11 DEF SInv
<1> QED BY <1>7, <1>8

\* What the server was asked for and does not answer; no table changes.
LEMMA AnswerTransactionSettles ==
  ASSUME SInv, IInv, NEW t \in Tx, AnswerTransaction(t)
  PROVE  SInv'
<1>1. UNCHANGED <<branch, tip, pool, known, history, wtx, main, toBoot, subscribed, scheduled,
                  requestedAddrs, statuses, tasks, requestedTx, crossed, removed, refused>>
  BY DEF AnswerTransaction, server, wallet, starting, queues, past
<1>2. \A x \in Addr : ServerHistory(x)' = ServerHistory(x) BY <1>1, SameServer
<1>3. \A x \in Addr : Told(x)' /\ Fetched(x)' BY <1>1, <1>2 DEF SInv, Told, Fetched
<1>4. KnownOnly' /\ Watched' BY <1>1 DEF SInv, KnownOnly, Watched
<1> QED BY <1>1, <1>3, <1>4 DEF SInv

\* add_transaction loses no transaction but those it removes.
LEMMA AddTransactionKeeps ==
  ASSUME IInv, NEW t \in Tx, NEW e \in Entry, e.have = wtx[t].have, AddTransaction(t, e)
  PROVE  /\ removed \subseteq removed'
         /\ \A x \in Tx : wtx[x].have => wtx'[x].have \/ x \in removed'
         /\ ~Conflicts(t, e) => wtx'[t].have
<1>1. wtx \in [Tx -> Entry] BY DEF IInv, TablesOK
<1>2. CASE Conflicts(t, e)
  <2>1. wtx' = [wtx EXCEPT ![t] = e] /\ removed' = removed BY <1>2 DEF AddTransaction
  <2> QED BY <1>1, <1>2, <2>1
<1>3. CASE ~Conflicts(t, e)
  <2> DEFINE D == Displaced(t)
  <2>1. /\ wtx' = [x \in Tx |-> IF x = t THEN [e EXCEPT !.have = TRUE]
                                ELSE IF x \in D THEN RemovedTx(wtx[x]) ELSE wtx[x]]
        /\ removed' = removed \cup D
    BY <1>3 DEF AddTransaction
  <2> HIDE DEF D
  <2>2. [e EXCEPT !.have = TRUE].have BY DEF Entry
  <2> QED BY <2>1, <2>2
<1> QED BY <1>2, <1>3

LEMMA TransactionSettles ==
  ASSUME SInv, IInv, NEW t \in Tx, OnTransaction(t) \/ OnTransactionUnknown(t)
  PROVE  SInv'
<1>1. /\ requestedTx' = [requestedTx EXCEPT ![t] = None]
      /\ tasks' = {[j EXCEPT !.missing = @ \ {t}] : j \in {x \in tasks : x.missing # {t}}}
      /\ UNCHANGED <<branch, tip, pool, subscribed, known, history, main, toBoot, scheduled,
                      requestedAddrs, statuses, crossed>>
  BY DEF OnTransaction, OnTransactionUnknown, Over, server, queues
<1>2. \A x \in Addr : ServerHistory(x)' = ServerHistory(x) BY <1>1, SameServer
<1>3. tasks \subseteq Task BY DEF IInv, RequestsOK
<1>4. \A j \in tasks : j.missing = {} => j \in tasks'
  <2>1. ASSUME NEW j \in tasks, j.missing = {} PROVE j \in tasks'
    <3>1. [j EXCEPT !.missing = @ \ {t}] = j BY <1>3, <2>1 DEF Task
    <3> QED BY <1>1, <2>1, <3>1
  <2> QED BY <2>1
<1>5. \A j \in tasks' : \E i \in tasks :
        j.addr = i.addr /\ j.status = i.status /\ j.answer = i.answer
  BY <1>1, <1>3 DEF Task
<1>6. ASSUME NEW x \in Addr PROVE Told(x)'
  <2>1. Told(x) BY DEF SInv
  <2> QED BY <1>1, <1>2, <1>4, <1>5, <2>1 DEF Told
<1>7. /\ removed \subseteq removed' /\ refused \subseteq refused'
      /\ \A x \in Tx : wtx[x].have => wtx'[x].have \/ x \in removed'
      /\ wtx'[t].have \/ t \in refused'
  <2>1. CASE OnTransaction(t)
    <3> DEFINE e == AddUnverified(wtx[t], requestedTx[t])
    <3>1. /\ AddTransaction(t, e)
          /\ refused' = IF Conflicts(t, e) THEN refused \cup {t} ELSE refused
      BY <2>1 DEF OnTransaction
    <3>2. requestedTx[t] \in Height
      <4>1. txAnswers[t] # None BY <2>1, SynchronizerAssumption DEF OnTransaction
      <4> QED BY <4>1 DEF IInv, RequestsOK
    <3>3. wtx[t] \in Entry BY DEF IInv, TablesOK
    <3>4. e \in Entry /\ e.have = wtx[t].have
      <4>1. e \in Entry BY <3>2, AddUnverifiedSound DEF IInv, TablesOK, Sound
      <4>2. e.have = wtx[t].have BY <3>3 DEF AddUnverified, Unproved, Entry
      <4> QED BY <4>1, <4>2
    <3> HIDE DEF e
    <3> QED BY <3>1, <3>4, AddTransactionKeeps
  <2>2. CASE OnTransactionUnknown(t) BY <2>2 DEF OnTransactionUnknown
  <2> QED BY <2>1, <2>2
<1>8. \A x \in Tx : x # t => requestedTx'[x] = requestedTx[x] BY <1>1 DEF IInv, RequestsOK
<1>9. \A x \in Addr : Fetched(x)' BY <1>1, <1>7, <1>8, HistoryTx DEF SInv, Fetched
<1>10. KnownOnly' /\ Watched'
  <2>1. \A j \in tasks' : j.addr \in known BY <1>5 DEF SInv, KnownOnly
  <2> QED BY <1>1, <2>1 DEF SInv, KnownOnly, Watched
<1> QED BY <1>1, <1>6, <1>9, <1>10 DEF SInv

LEMMA UserSettles ==
  ASSUME SInv, IInv, UserStep
  PROVE  SInv'
<1>1. wtx \in [Tx -> Entry] BY DEF IInv, TablesOK
<1>2. ASSUME NEW a \in Late, AddAddress(a) PROVE SInv'
  <2>1. a \in Addr BY SynchronizerAssumption
  <2> QED BY <1>2, <2>1, AddressSettles
<1>3. ASSUME NEW t \in Tx, SaveTransaction(t) PROVE SInv'
  <2>1. AddTransaction(t, wtx[t]) BY <1>3 DEF SaveTransaction
  <2>2. /\ removed \subseteq removed'
        /\ \A x \in Tx : wtx[x].have => wtx'[x].have \/ x \in removed'
    BY <1>1, <2>1, AddTransactionKeeps
  <2> QED BY <1>3, <2>2, TablesSettle DEF SaveTransaction
<1>4. ASSUME NEW t \in Tx, RemoveTransaction(t) PROVE SInv'
  <2>1. wtx' = [wtx EXCEPT ![t] = RemovedTx(@)] /\ removed' = removed \cup {t}
    BY <1>4 DEF RemoveTransaction
  <2>2. \A x \in Tx : wtx[x].have => wtx'[x].have \/ x \in removed' BY <1>1, <2>1
  <2> QED BY <1>4, <2>1, <2>2, TablesSettle DEF RemoveTransaction
<1> QED BY <1>2, <1>3, <1>4 DEF UserStep
-----------------------------------------------------------------------------
(* The main loop, the verifier and the connection *)

LEMMA MainSettles ==
  ASSUME SInv, IInv, AddAddresses \/ Poll
  PROVE  SInv'
<1>1. UNCHANGED <<branch, tip, pool, subscribed, known, history, wtx, scheduled, statuses, toBoot,
                  tasks, requestedTx, crossed, removed, refused>>
  BY DEF AddAddresses, Poll, server, wallet, requests, starting, queues, asked, past
<1>2. \A a \in Addr : ServerHistory(a)' = ServerHistory(a) BY <1>1, SameServer
<1>3. \A a \in Addr : Told(a)' /\ Fetched(a)' BY <1>1, <1>2 DEF SInv, Told, Fetched
<1>4. CASE AddAddresses
  <2>1. requestedAddrs' = requestedAddrs \cup known /\ toBoot = {} BY <1>4 DEF AddAddresses
  <2> QED BY <1>1, <1>3, <2>1 DEF SInv, KnownOnly, Watched
<1>5. CASE Poll
  <2>1. UNCHANGED <<requestedAddrs, main>> BY <1>5 DEF Poll, requests, queues, starting
  <2> QED BY <1>1, <1>3, <2>1 DEF SInv, KnownOnly, Watched
<1> QED BY <1>4, <1>5

LEMMA VerifierSettles ==
  ASSUME SInv, IInv, VerifierStep \/ SyncHeaders
  PROVE  SInv'
<1>0. wtx \in [Tx -> Entry] BY DEF IInv, TablesOK
<1> USE TablesSettle DEF server, wallet, requests, past
<1>1. CASE SyncHeaders
  BY <1>1 DEF SyncHeaders
<1>2. CASE SpvRound
  <2> DEFINE undone == [t \in Tx |-> IF netBranch = spvBranch THEN wtx[t]
                                     ELSE Undone(wtx[t], netBranch, heights[netBranch])]
             due == {t \in Tx : /\ undone[t].unverified \in 1 .. heights[netBranch]
                                /\ ~undone[t].asked /\ ~undone[t].root}
  <2>1. wtx' = [t \in Tx |-> IF t \in due THEN [undone[t] EXCEPT !.asked = TRUE] ELSE undone[t]]
    BY <1>2 DEF SpvRound
  <2>2. ASSUME NEW t \in Tx PROVE undone[t] \in Entry /\ undone[t].have = wtx[t].have
    <3>1. Sound(t, wtx[t], heights, removed) BY DEF IInv, TablesOK
    <3>2. Undone(wtx[t], netBranch, heights[netBranch]) \in Entry
      BY <3>1, UndoneSound DEF Sound
    <3>3. Undone(wtx[t], netBranch, heights[netBranch]).have = wtx[t].have
      BY <1>0 DEF Undone, Unproved, Entry
    <3> QED BY <1>0, <3>2, <3>3
  <2> HIDE DEF undone, due
  <2>3. \A t \in Tx : wtx'[t].have = wtx[t].have BY <2>1, <2>2 DEF Entry
  <2> QED BY <1>2, <2>3 DEF SpvRound
<1>3. ASSUME NEW p \in proofs, AnswerProof(p) PROVE SInv'
  BY <1>3 DEF AnswerProof
<1>4. ASSUME NEW p \in proofs, OnProof(p) PROVE SInv'
  <2>1. p.tx \in Tx BY DEF IInv, VerifierOK, ProofOK
  <2>2. \A e \in Entry : /\ [RemoveUnverified(e, p.height) EXCEPT !.asked = FALSE].have = e.have
                         /\ AddVerified(e, p.answer).have = e.have
    BY DEF Entry, RemoveUnverified, AddVerified
  <2>3. \/ wtx' = [wtx EXCEPT ![p.tx] = [RemoveUnverified(@, p.height) EXCEPT !.asked = FALSE]]
        \/ wtx' = [wtx EXCEPT ![p.tx] = AddVerified(@, p.answer)]
    BY <1>4 DEF OnProof
  <2>4. \A t \in Tx : wtx'[t].have = wtx[t].have BY <1>0, <2>1, <2>2, <2>3
  <2> QED BY <1>4, <2>4 DEF OnProof
<1> QED BY <1>1, <1>2, <1>3, <1>4 DEF VerifierStep

LEMMA RestartSettles ==
  ASSUME SInv, IInv, Restart, UNCHANGED <<branch, tip, pool>>
  PROVE  SInv'
<1>1. /\ subscribed' = {} /\ tasks' = {} /\ requestedAddrs' = {} /\ main' = "boot"
      /\ statuses' = [a \in Addr |-> <<>>]
      /\ toBoot' = known
      /\ UNCHANGED <<known, history, scheduled>>
  BY DEF Restart, Started
<1>2. \A a \in Addr : Fetched(a)' BY <1>1 DEF SInv, KnownOnly, Fetched
<1>3. \A a \in Addr : Told(a)' BY <1>1 DEF Told
<1>4. KnownOnly' /\ Watched' BY <1>1 DEF SInv, KnownOnly, Watched
<1> QED BY <1>1, <1>2, <1>3, <1>4 DEF SInv
-----------------------------------------------------------------------------
LEMMA SInitOK == Init => SInv
<1> SUFFICES ASSUME Init PROVE SInv OBVIOUS
<1> QED BY DEF Init, SynchronizerInit, SInv, KnownOnly, Watched, Told, Fetched

LEMMA SStepOK ==
  ASSUME SInv, IInv, [Next]_vars
  PROVE  SInv'
<1>1. CASE ServerStep
  BY <1>1, ServerSettles DEF ServerStep, Broadcast, Evict, Mine, Reorg, IInv, ServerOK
<1>2. CASE SynchronizerStep
  <2>1. CASE \E a \in Addr : AddScheduled(a) \/ Subscribe(a) \/ OnAddressStatus(a) \/ BootRequests(a)
    BY <2>1, AddressSettles, SubscribeSettles, StatusSettles, BootSettles
  <2>2. CASE \E k \in tasks : AnswerHistory(k) \/ OnHistory(k)
    BY <2>2, AnswerSettles, HistorySettles
  <2>3. CASE \E t \in Tx : AnswerTransaction(t) \/ OnTransaction(t) \/ OnTransactionUnknown(t)
    BY <2>3, AnswerTransactionSettles, TransactionSettles
  <2>4. CASE AddAddresses \/ Poll BY <2>4, MainSettles
  <2> QED BY <1>2, <2>1, <2>2, <2>3, <2>4 DEF SynchronizerStep
<1>3. CASE UserStep BY <1>3, UserSettles
<1>4. CASE VerifierStep \/ SyncHeaders BY <1>4, VerifierSettles
<1>5. CASE ConnectionLost \/ Refused
  BY <1>5, RestartSettles DEF ConnectionLost, Refused, TransactionRefused, ProofRefused, server
<1>6. CASE UNCHANGED vars
  BY <1>6, TablesSettle DEF vars, server, wallet, requests, past
<1> QED BY <1>1, <1>2, <1>3, <1>4, <1>5, <1>6 DEF Next

\* Whatever the server, the user and the connection do and however long its
\* answers take, a wallet that says it is up to date has the server's history
\* of every address no status of which crossed a request, and every
\* transaction that was not removed or refused.
THEOREM UpToDateIsServers == Spec => []SettledIsServers
<1>1. SInv /\ IInv => SettledIsServers
  <2> SUFFICES ASSUME SInv, IInv, Settled, NEW a \in known
               PROVE  /\ a \notin crossed => history[a] = ServerHistory(a)
                      /\ \A e \in history[a] : wtx[e[1]].have \/ e[1] \in removed \cup refused
    BY DEF SettledIsServers
  <2>1. a \in Addr BY DEF IInv, RequestsOK
  <2>2. a \in subscribed BY DEF Settled, IsUpToDate, SInv, Watched
  <2>3. a \notin crossed => history[a] = ServerHistory(a)
    <3>1. Told(a) /\ statuses[a] = <<>> /\ tasks = {} BY <2>1 DEF SInv, Settled, IsUpToDate
    <3> QED BY <2>2, <3>1 DEF Told
  <2>4. Fetched(a) /\ toBoot = {} BY <2>1 DEF SInv, Settled
  <2>5. \A e \in history[a] : e[1] \in Tx BY <2>1, HistoryTx
  <2> QED BY <2>3, <2>4, <2>5 DEF Fetched, Settled, IsUpToDate
<1>2. SInv /\ IInv /\ [Next]_vars => SInv' BY SStepOK
<1> QED BY <1>1, <1>2, SInitOK, IInvHolds, PTL DEF Spec
=============================================================================
