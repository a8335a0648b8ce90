---------------------------- MODULE Synchronizer ----------------------------
(***************************************************************************)
(* electrum/synchronizer.py: subscriptions, statuses, histories and        *)
(* transactions of the wallet's addresses, and the Electrum server they    *)
(* come from. The status of an address is its history; an answer is what   *)
(* the server held at some moment after the request.                       *)
(***************************************************************************)
EXTENDS TxTables, Sequences, FiniteSets

CONSTANTS
  Addr,        \* the addresses of the wallet
  Late,        \* the addresses the wallet derives while it runs
  Involves,    \* the transactions of each address
  Block,       \* Block[b][t]: the height of t on branch b, 0 if it is not there
  Rivals,      \* the transactions that spend a coin each transaction spends
  Heirs,       \* the transactions that descend from each transaction
  MaxEvents    \* bound on the changes of the server and the broken connections

ASSUME SynchronizerAssumption ==
  /\ Late \subseteq Addr
  /\ Involves \in [Addr -> SUBSET Tx]
  /\ Block \in [Branch -> [Tx -> Height]]
  /\ Rivals \in [Tx -> SUBSET Tx] /\ Heirs \in [Tx -> SUBSET Tx]
  /\ \A t, r \in Tx : r \in Rivals[t] => t # r /\ t \in Rivals[r]
  /\ MaxEvents \in Nat /\ None \notin {"found", "unknown"}

VARIABLES
  branch, tip, pool, \* the server: its chain and mempool
  events,         \* history: the changes of the server and broken connections so far
  subscribed,     \* the addresses the server sends notifications of
  known,          \* the addresses of the wallet's db
  history,        \* db.history
  wtx,            \* the tables of each transaction
  upToDate,       \* wallet.up_to_date
  main,           \* where Synchronizer.main is
  toBoot,         \* the addresses whose stored histories it has yet to look at
  boot,           \* the transactions of one of them it asked for and waits for
  scheduled,      \* addresses passed to synchronizer.add
  requestedAddrs, \* requested_addrs
  statuses,       \* status_queue and what is on its way to it, for each address
  tasks,          \* the _on_address_status tasks: requested_histories
  requestedTx,    \* requested_tx
  txAnswers,      \* what the server answered to each of them
  crossed,        \* history: the addresses whose last status in this connection came
                  \* while a history was requested
  removed,        \* history: the transactions removed in this connection
  refused         \* history: those the wallet or the server refused in this connection

server == <<branch, tip, pool, events>>
wallet == <<known, history, wtx, upToDate>>
starting == <<main, toBoot, boot>>
queues == <<subscribed, scheduled, requestedAddrs, statuses>>
asked == <<requestedTx, txAnswers>>
past == <<crossed, removed, refused>>
requests == <<starting, queues, tasks, asked, past>>

History == SUBSET (Tx \X Height)
Task == [addr: Addr, status: History, answer: History \cup {None}, missing: SUBSET Tx]

\* One more change of the server, broken connection or call of the user
Event == events < MaxEvents /\ events' = events + 1
-----------------------------------------------------------------------------
(* The server *)

Mined(b, n, t) == Block[b][t] \in 1 .. n

\* The history of an address with branch b up to height n and mempool p
HistoryOf(a, b, n, p) ==
  {<<t, Block[b][t]>> : t \in {x \in Involves[a] : Mined(b, n, x)}}
    \cup {<<t, 0>> : t \in {x \in Involves[a] \cap p : ~Mined(b, n, x)}}

ServerHistory(a) == HistoryOf(a, branch, tip, pool)
Serves(t) == t \in pool \/ Mined(branch, tip, t)

\* A server has no two rivals: what is mined stays, with what descends from it.
Without(b, n, p) ==
  LET mined == {t \in Tx : Mined(b, n, t)}
      beaten == UNION {Rivals[t] : t \in mined}
  IN p \ (mined \cup beaten \cup UNION {Heirs[t] : t \in beaten})

\* The server changes and notifies of every address it changes.
ServerBecomes(b, n, p) ==
  LET new(a) == HistoryOf(a, b, n, pool')
      changed(a) == new(a) # ServerHistory(a)
  IN /\ Event
     /\ branch' = b /\ tip' = n
     /\ pool' = Without(b, n, p)
     /\ statuses' = [a \in Addr |-> IF a \in subscribed /\ changed(a)
                                    THEN Append(statuses[a], new(a)) ELSE statuses[a]]
     /\ UNCHANGED <<wallet, starting, subscribed, scheduled, requestedAddrs, tasks, asked, past>>

\* A transaction takes the place of its rivals in the mempool.
Broadcast(t) ==
  /\ ~Serves(t) /\ \A r \in Rivals[t] : ~Mined(branch, tip, r)
  /\ \A p \in Tx : t \in Heirs[p] => Serves(p)
  /\ ServerBecomes(branch, tip,
       {t} \cup (pool \ (Rivals[t] \cup UNION {Heirs[r] : r \in Rivals[t]})))

Evict(t) ==
  /\ t \in pool
  /\ ServerBecomes(branch, tip, pool \ ({t} \cup Heirs[t]))

Mine ==
  /\ tip < MaxHeight
  /\ ServerBecomes(branch, tip + 1, pool)

\* What the old branch mined goes back to the mempool.
Reorg(b, n) ==
  /\ b # branch /\ n >= ForkHeight
  /\ ServerBecomes(b, n, pool \cup {t \in Tx : Mined(branch, tip, t)})

ServerStep ==
  \/ \E t \in Tx : Broadcast(t) \/ Evict(t)
  \/ Mine
  \/ \E b \in Branch, n \in Height : Reorg(b, n)
-----------------------------------------------------------------------------
(* Addresses and their statuses *)

\* The coroutine _add_address that synchronizer.add has scheduled
AddScheduled(a) ==
  /\ a \in scheduled
  /\ scheduled' = scheduled \ {a}
  /\ requestedAddrs' = requestedAddrs \cup {a}
  /\ UNCHANGED <<server, wallet, starting, subscribed, statuses, tasks, asked, past>>

\* subscribe_to_address: the status and the notifications after it arrive in
\* the order they are sent in.
Subscribe(a) ==
  /\ a \in requestedAddrs
  /\ subscribed' = subscribed \cup {a}
  /\ statuses' = [statuses EXCEPT ![a] = Append(@, ServerHistory(a))]
  /\ requestedAddrs' = requestedAddrs \ {a}
  /\ UNCHANGED <<server, wallet, starting, scheduled, tasks, asked, past>>

\* handle_status and the start of _on_address_status
OnAddressStatus(a) ==
  /\ statuses[a] # <<>>
  /\ statuses' = [statuses EXCEPT ![a] = Tail(@)]
  /\ LET s == Head(statuses[a])
         open == {k \in tasks : k.addr = a}
     IN /\ tasks' = IF s = history[a] \/ \E k \in open : k.status = s THEN tasks
                    ELSE tasks \cup {[addr |-> a, status |-> s, answer |-> None, missing |-> {}]}
        /\ crossed' = IF open = {} THEN crossed \ {a} ELSE crossed \cup {a}
  /\ UNCHANGED <<server, wallet, starting, subscribed, scheduled, requestedAddrs, asked, removed,
                 refused>>
-----------------------------------------------------------------------------
(* Histories *)

\* The server sees the request: its answer may arrive much later.
AnswerHistory(k) ==
  /\ k \in tasks /\ k.answer = None
  /\ tasks' = (tasks \ {k}) \cup {[k EXCEPT !.answer = ServerHistory(k.addr)]}
  /\ UNCHANGED <<server, wallet, starting, queues, asked, past>>

HeightIn(hist, t) == CHOOSE h \in Height : <<t, h>> \in hist

\* The tables after receive_history_callback(a, hist): what the local history
\* of the address has and hist has not, at this height, becomes local. What it
\* adds again has no rival here.
Received(a, hist) ==
  LET left(t) == t \in Involves[a] /\ wtx[t].have /\ <<t, TxHeight(wtx[t])>> \notin hist
      kept(t) == IF left(t) THEN MadeLocal(wtx[t]) ELSE wtx[t]
  IN [t \in Tx |-> IF \E h \in Height : <<t, h>> \in hist
                   THEN AddUnverified(kept(t), HeightIn(hist, t)) ELSE kept(t)]

\* What _request_missing_txs(hist) asks for
Missing(hist) == {t \in Tx : ~wtx[t].have /\ requestedTx[t] = None
                               /\ \E h \in Height : <<t, h>> \in hist}

Request(hist) ==
  /\ requestedTx' = [t \in Tx |->
       IF t \in Missing(hist) THEN HeightIn(hist, t) ELSE requestedTx[t]]
  /\ UNCHANGED txAnswers

\* The rest of _on_address_status: a history that is not the announced one is
\* dropped; the task waits for the transactions it asked for.
OnHistory(k) ==
  /\ k \in tasks /\ k.answer # None /\ k.missing = {}
  /\ IF k.answer # k.status
     THEN tasks' = tasks \ {k} /\ UNCHANGED <<history, wtx, asked>>
     ELSE /\ history' = [history EXCEPT ![k.addr] = k.answer]
          /\ wtx' = Received(k.addr, k.answer)
          /\ Request(k.answer)
          /\ tasks' = IF Missing(k.answer) = {} THEN tasks \ {k}
                      ELSE (tasks \ {k}) \cup {[k EXCEPT !.missing = Missing(k.answer)]}
  /\ UNCHANGED <<server, known, upToDate, starting, queues, past>>
-----------------------------------------------------------------------------
(* Transactions *)

\* get_conflicting_transactions
Conflicting(t) == {r \in Rivals[t] : wtx[r].have}

\* add_transaction for t with entry e: confirmed > mempool > local, and the new
\* one before those there are
Conflicts(t, e) ==
  \E r \in Conflicting(t) :
    \/ TxHeight(wtx[r]) > 0 /\ TxHeight(e) <= 0
    \/ TxHeight(wtx[r]) = 0 /\ TxHeight(e) = LocalHeight

\* What is removed with them
Displaced(t) ==
  Conflicting(t) \cup {x \in UNION {Heirs[r] : r \in Conflicting(t)} \ {t} : wtx[x].have}

\* add_transaction for t, which is noted as e
AddTransaction(t, e) ==
  IF Conflicts(t, e)
  THEN wtx' = [wtx EXCEPT ![t] = e] /\ UNCHANGED removed
  ELSE /\ wtx' = [x \in Tx |-> IF x = t THEN [e EXCEPT !.have = TRUE]
                               ELSE IF x \in Displaced(t) THEN RemovedTx(wtx[x]) ELSE wtx[x]]
       /\ removed' = removed \cup Displaced(t)

\* The server sees the request.
AnswerTransaction(t) ==
  /\ requestedTx[t] # None /\ txAnswers[t] = None
  /\ txAnswers' = [txAnswers EXCEPT ![t] = IF Serves(t) THEN "found" ELSE "unknown"]
  /\ UNCHANGED <<server, wallet, starting, queues, tasks, requestedTx, past>>

\* The request of t is over, and so is each task that waited for it alone.
Over(t) ==
  /\ requestedTx' = [requestedTx EXCEPT ![t] = None]
  /\ txAnswers' = [txAnswers EXCEPT ![t] = None]
  /\ boot' = boot \ {t}
  /\ tasks' = {[k EXCEPT !.missing = @ \ {t}] : k \in {x \in tasks : x.missing # {t}}}
  /\ UNCHANGED <<server, known, history, upToDate, main, toBoot, queues, crossed>>

\* _get_transaction and receive_tx_callback, with the height of the request
OnTransaction(t) ==
  /\ txAnswers[t] = "found"
  /\ LET e == AddUnverified(wtx[t], requestedTx[t])
     IN /\ AddTransaction(t, e)
        /\ refused' = IF Conflicts(t, e) THEN refused \cup {t} ELSE refused
  /\ Over(t)

\* Mutant: the request is not popped.
OnTransactionUnknownKept(t) ==
  /\ txAnswers[t] = "unknown" /\ t \in boot
  /\ boot' = boot \ {t}
  /\ UNCHANGED <<server, wallet, main, toBoot, queues, tasks, asked, past>>

\* The server does not find it: no matter for the requests main starts with
OnTransactionUnknown(t) ==
  /\ txAnswers[t] = "unknown" /\ t \in boot
  /\ refused' = refused \cup {t}
  /\ Over(t)
  /\ UNCHANGED <<wtx, removed>>
-----------------------------------------------------------------------------
(* The user interface *)

\* wallet.add_address: from any thread, for an address just derived
AddAddress(a) ==
  /\ a \in Late \ known /\ Event
  /\ known' = known \cup {a}
  /\ upToDate' = FALSE
  /\ scheduled' = scheduled \cup {a}
  /\ UNCHANGED <<branch, tip, pool, history, wtx, starting, subscribed, requestedAddrs, statuses, tasks,
                 asked, past>>

\* do_save, of a transaction the wallet has signed
SaveTransaction(t) ==
  /\ ~wtx[t].have /\ Event
  /\ AddTransaction(t, wtx[t])
  /\ UNCHANGED <<branch, tip, pool, known, history, upToDate, starting, queues, tasks, asked, crossed,
                 refused>>

\* remove_transaction, for one of those remove_local_tx removes: local or not
RemoveTransaction(t) ==
  /\ wtx[t].have /\ Event
  /\ wtx' = [wtx EXCEPT ![t] = RemovedTx(@)]
  /\ removed' = removed \cup {t}
  /\ UNCHANGED <<branch, tip, pool, known, history, upToDate, starting, queues, tasks, asked, crossed,
                 refused>>
-----------------------------------------------------------------------------
(* Synchronizer.main *)

\* main looks at one stored history after the other and waits for what it
\* asked for.
BootRequests(a) ==
  /\ main = "boot" /\ a \in toBoot /\ boot = {}
  /\ toBoot' = toBoot \ {a}
  /\ boot' = Missing(history[a])
  /\ Request(history[a])
  /\ UNCHANGED <<server, wallet, main, queues, tasks, past>>

\* main has it all and adds the addresses.
AddAddresses ==
  /\ main = "boot" /\ toBoot = {} /\ boot = {}
  /\ main' = "loop"
  /\ requestedAddrs' = requestedAddrs \cup known
  /\ UNCHANGED <<server, wallet, toBoot, boot, subscribed, scheduled, statuses, tasks, asked, past>>

\* Mutant: the requested histories do not count.
IsUpToDateEarly == requestedAddrs = {} /\ \A t \in Tx : requestedTx[t] = None

IsUpToDate == requestedAddrs = {} /\ tasks = {} /\ \A t \in Tx : requestedTx[t] = None

\* One round of the main loop
Poll ==
  /\ main = "loop" /\ upToDate # IsUpToDate
  /\ upToDate' = IsUpToDate
  /\ UNCHANGED <<server, known, history, wtx, requests>>

\* What a _reset and the first step of main leave
Started ==
  /\ subscribed' = {} /\ statuses' = [a \in Addr |-> <<>>]
  /\ tasks' = {} /\ requestedAddrs' = {}
  /\ requestedTx' = [t \in Tx |-> None] /\ txAnswers' = requestedTx'
  /\ upToDate' = FALSE
  /\ main' = "boot" /\ toBoot' = known /\ boot' = {}
  /\ crossed' = {} /\ removed' = {} /\ refused' = {}
  /\ UNCHANGED <<known, history, scheduled>>

SynchronizerInit ==
  /\ branch = 1 /\ tip = ForkHeight /\ pool = {} /\ events = 0
  /\ known = Addr \ Late
  /\ history = [a \in Addr |-> {}]
  /\ wtx = [t \in Tx |-> Unknown]
  /\ upToDate = FALSE
  /\ main = "boot" /\ toBoot = known /\ boot = {}
  /\ subscribed = {} /\ scheduled = {} /\ requestedAddrs = {}
  /\ statuses = [a \in Addr |-> <<>>]
  /\ tasks = {}
  /\ requestedTx = [t \in Tx |-> None] /\ txAnswers = requestedTx
  /\ crossed = {} /\ removed = {} /\ refused = {}

SynchronizerStep ==
  \/ \E a \in Addr : AddScheduled(a) \/ Subscribe(a) \/ OnAddressStatus(a) \/ BootRequests(a)
  \/ \E k \in tasks : AnswerHistory(k) \/ OnHistory(k)
  \/ \E t \in Tx : AnswerTransaction(t) \/ OnTransaction(t) \/ OnTransactionUnknown(t)
  \/ AddAddresses
  \/ Poll

UserStep ==
  \/ \E a \in Late : AddAddress(a)
  \/ \E t \in Tx : SaveTransaction(t) \/ RemoveTransaction(t)
=============================================================================
