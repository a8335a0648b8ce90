----------------------------- MODULE TxHistory ------------------------------
(***************************************************************************)
(* The transactions a wallet keeps: electrum/address_synchronizer.py with  *)
(* the tables of electrum/wallet_db.py. The network thread receives        *)
(* histories and transactions while the threads of the user interface save *)
(* and remove transactions and read balances. A transaction is local, in   *)
(* the mempool or confirmed: conflicts and balances tell no more of its    *)
(* height.                                                                 *)
(***************************************************************************)
EXTENDS Integers, FiniteSets

CONSTANTS
  Tx,          \* transactions
  Outpoint,    \* coins
  Addr,        \* the addresses of the wallet
  Late,        \* the addresses it derives while it runs
  Shown,       \* the addresses whose balances are read
  In,          \* the coins each transaction spends
  Source,      \* the transaction of each coin, None for one nobody here makes
  Owner,       \* the address of each coin, None for one of somebody else
  None,
  MaxReorgs,   \* bound on confirmed transactions that leave the chain
  MaxActs      \* bound on transactions the user saves and removes and balances read

ASSUME HistoryAssumption ==
  /\ None \notin Tx \cup Addr /\ None \notin {"mempool", "confirmed"} /\ None \notin Int \X Int
  /\ IsFiniteSet(Tx) /\ IsFiniteSet(Outpoint)
  /\ Late \subseteq Addr /\ Shown \subseteq Addr
  /\ In \in [Tx -> SUBSET Outpoint]
  /\ Source \in [Outpoint -> Tx \cup {None}]
  /\ Owner \in [Outpoint -> Addr \cup {None}]
  /\ \A t \in Tx : \A o \in In[t] : Source[o] # t
  /\ MaxReorgs \in Nat /\ MaxActs \in Nat

VARIABLES
  chain,    \* the server: "mempool" or "confirmed", "unseen" before and "gone" after
  reorgs,   \* history: confirmed transactions that left the chain
  mine,     \* the addresses of db.history
  hist,     \* db.history
  store,    \* the tables of transactions: see Store
  receiving, \* the address whose new history is being processed
  todo,     \* what receive_history_callback has not processed yet
  wanted,   \* synchronizer.requested_tx
  removing, \* what remove_local_tx has not removed yet
  counted,  \* the balances of addresses that get_addr_balance has computed and not cached
  acts      \* history: transactions saved and removed and balances computed

vars == <<chain, reorgs, mine, hist, store, receiving, todo, wanted, removing, counted, acts>>

Level == {"local", "mempool", "confirmed"}
Seen == {"mempool", "confirmed"}

\* db.transactions, spent_outpoints, txi, txo, the heights of get_tx_height
\* and _get_addr_balance_cache. The local history of an address holds the
\* transactions with a coin of it in txi or txo.
Store ==
  [txs: SUBSET Tx, spent: [Outpoint -> Tx \cup {None}], txi: [Tx -> SUBSET Outpoint],
   txo: [Tx -> SUBSET Outpoint], level: [Tx -> Level], cached: [Addr -> (Int \X Int) \cup {None}]]

Outputs(t) == {o \in Outpoint : Source[o] = t}
Owners(coins) == {Owner[o] : o \in coins}
LocalHistory(s, a) == {t \in Tx : a \in Owners(s.txi[t] \cup s.txo[t])}

Received(s, a) == {o \in UNION {s.txo[t] : t \in Tx} : Owner[o] = a}
Sent(s, T) == UNION {s.txi[t] : t \in T}

\* get_addr_utxo: what the address received and did not send
Coins(s, a) == Received(s, a) \ Sent(s, Tx)

\* get_addr_balance, confirmed and unconfirmed: every coin is worth one.
Balance(s, a) ==
  LET confirmed == {t \in Tx : s.level[t] = "confirmed"}
      Sum(T) == Cardinality({o \in Received(s, a) : Source[o] \in T})
                - Cardinality(Received(s, a) \cap Sent(s, T))
  IN <<Sum(confirmed), Sum(Tx \ confirmed)>>

\* The cache without the balances of A
Forgotten(cached, A) == [a \in Addr |-> IF a \in A THEN None ELSE cached[a]]
-----------------------------------------------------------------------------
(* add_transaction and remove_transaction *)

\* Mutant of Removed: the balances of its addresses stay cached.
RemovedQuietly(s, R) ==
  LET kept == s.txs \ R
      Erased(f) == [t \in Tx |-> IF t \in R THEN {} ELSE f[t]]
  IN [s EXCEPT !.txs = kept, !.txi = Erased(@), !.txo = Erased(@),
               !.spent = [o \in Outpoint |-> IF @[o] \in kept THEN @[o] ELSE None],
               !.level = [t \in Tx |-> IF t \in R THEN "local" ELSE @[t]]]

\* remove_transaction, for a set of transactions
Removed(s, R) ==
  LET freed == UNION {In[t] : t \in R \cap s.txs}
  IN [txs   |-> s.txs \ R,
      spent |-> [o \in Outpoint |->
                   IF o \in freed \/ s.spent[o] \in R \ s.txs THEN None ELSE s.spent[o]],
      txi   |-> [t \in Tx |-> IF t \in R THEN {} ELSE s.txi[t]],
      txo   |-> [t \in Tx |-> IF t \in R THEN {} ELSE s.txo[t]],
      level |-> [t \in Tx |-> IF t \in R THEN "local" ELSE s.level[t]],
      cached |-> Forgotten(s.cached, UNION {Owners(s.txi[t] \cup s.txo[t]) : t \in R})]

Children(s, T) == {s.spent[o] : o \in UNION {Outputs(t) : t \in T}} \ {None}

\* get_depending_transactions: the least set with the children of t and of its own
Depending(s, t) ==
  {u \in Tx : \A D \in SUBSET Tx : Children(s, {t} \cup D) \subseteq D => u \in D}

\* get_conflicting_transactions
Conflicting(s, t) == {s.spent[o] : o \in In[t]} \ {None, t}

\* confirmed > mempool > local, and the new one before those there are
Refused(s, t) ==
  \E c \in Conflicting(s, t) :
    \/ s.level[c] = "confirmed" /\ s.level[t] # "confirmed"
    \/ s.level[c] = "mempool" /\ s.level[t] = "local"

\* get_txin_address: the coins it spends that the wallet knows the owner of
Known(s, t) == {o \in In[t] : Source[o] # None /\ o \in s.txo[Source[o]]}

\* Mutant of Entered: a parent that comes after its child tells it nothing.
EnteredForward(s, t) ==
  LET sends == {o \in Known(s, t) : Owner[o] \in mine}
      gets == {o \in Outputs(t) : Owner[o] \in mine}
  IN [s EXCEPT !.txs = @ \cup {t}, !.txi[t] = @ \cup sends, !.txo[t] = @ \cup gets,
               !.spent = [o \in Outpoint |-> IF o \in In[t] THEN t ELSE @[o]],
               !.cached = Forgotten(@, Owners(sends \cup gets))]

\* The rest of add_transaction, with no conflict left: the coins it spends, and
\* those it makes, which a transaction that is here already may spend.
Entered(s, t) ==
  LET spent == [o \in Outpoint |-> IF o \in In[t] THEN t ELSE s.spent[o]]
      sends == {o \in Known(s, t) : Owner[o] \in mine}
      gets == {o \in Outputs(t) : Owner[o] \in mine}
  IN [txs   |-> s.txs \cup {t},
      spent |-> spent,
      txi   |-> [x \in Tx |-> s.txi[x] \cup {o \in gets : spent[o] = x}
                                     \cup (IF x = t THEN sends ELSE {})],
      txo   |-> [s.txo EXCEPT ![t] = @ \cup gets],
      level |-> s.level,
      cached |-> Forgotten(s.cached, Owners(sends \cup gets))]

\* Mutant of Added: what conflicts with it is not removed.
AddedBeside(s, t) == IF Refused(s, t) THEN s ELSE Entered(s, t)

Added(s, t) ==
  IF Refused(s, t) THEN s
  ELSE Entered(Removed(s, Conflicting(s, t) \cup
                          UNION {Depending(s, c) : c \in Conflicting(s, t)}), t)

\* add_unverified_tx: an unconfirmed height takes the place of a verified one
\* by making the transaction local.
Noted(s, t, l) ==
  {[s EXCEPT !.level[t] = k] :
     k \in IF s.level[t] = "confirmed" /\ l = "mempool" THEN {"mempool", "local"} ELSE {l}}
-----------------------------------------------------------------------------
(* The server *)

Serves(t) == chain[t] \in Seen
Conflicts(t, u) == t # u /\ In[t] \cap In[u] # {}
Parents(t) == {Source[o] : o \in In[t]} \ {None}

\* T and all that descends from it
Descendants(T) ==
  {u \in Tx : \A D \in SUBSET Tx :
     T \cup {t \in Tx : Parents(t) \cap D # {}} \subseteq D => u \in D}

Involved(a) == {t \in Tx : a \in Owners(In[t] \cup Outputs(t))}
ServerHistory(a) == {<<t, chain[t]>> : t \in {x \in Involved(a) : Serves(x)}}

\* A transaction reaches the server and replaces what it conflicts with:
\* confirmed ones when the chain is reorganised.
Broadcast(t) ==
  LET out == Descendants({u \in Tx : Conflicts(t, u) /\ Serves(u)})
  IN /\ chain[t] = "unseen"
     /\ \A p \in Parents(t) : Serves(p) /\ p \notin out
     /\ reorgs' = IF \E u \in out : chain[u] = "confirmed" THEN reorgs + 1 ELSE reorgs
     /\ reorgs' <= MaxReorgs
     /\ chain' = [u \in Tx |-> IF u = t THEN "mempool" ELSE IF u \in out THEN "gone" ELSE chain[u]]
  /\ UNCHANGED <<mine, hist, store, receiving, todo, wanted, removing, counted, acts>>

Mine(t) ==
  /\ chain[t] = "mempool" /\ \A p \in Parents(t) : chain[p] = "confirmed"
  /\ chain' = [chain EXCEPT ![t] = "confirmed"]
  /\ UNCHANGED <<reorgs, mine, hist, store, receiving, todo, wanted, removing, counted, acts>>
-----------------------------------------------------------------------------
(* The network thread *)

\* The gap limit moves on: add_address.
DeriveAddress(a) ==
  /\ a \in Late \ mine
  /\ mine' = mine \cup {a}
  /\ UNCHANGED <<chain, reorgs, hist, store, receiving, todo, wanted, removing, counted, acts>>

\* receive_history_callback, for a status that is news: what is not in the
\* new history, at this height, becomes local.
ReceiveHistory(a) ==
  /\ a \in mine /\ receiving = None /\ hist[a] # ServerHistory(a)
  /\ hist' = [hist EXCEPT ![a] = ServerHistory(a)]
  /\ store' = [store EXCEPT !.level = [t \in Tx |->
       IF t \in LocalHistory(store, a) /\ <<t, @[t]>> \notin ServerHistory(a)
       THEN "local" ELSE @[t]]]
  /\ receiving' = a /\ todo' = ServerHistory(a)
  /\ UNCHANGED <<chain, reorgs, mine, wanted, removing, counted, acts>>

\* One transaction of the history: it is noted, and added again in case the
\* address is new.
ReceiveItem(t, l) ==
  /\ <<t, l>> \in todo
  /\ todo' = todo \ {<<t, l>>}
  /\ \E s \in Noted(store, t, l) : store' = IF t \in s.txs THEN Added(s, t) ELSE s
  /\ UNCHANGED <<chain, reorgs, mine, hist, receiving, wanted, removing, counted, acts>>

\* _request_missing_txs, after the whole history
RequestMissing ==
  /\ receiving # None /\ todo = {}
  /\ LET Missing(t, l) == /\ <<t, l>> \in hist[receiving]
                          /\ t \notin store.txs /\ wanted[t] = None
     IN wanted' = [t \in Tx |-> IF Missing(t, "mempool") THEN "mempool"
                                ELSE IF Missing(t, "confirmed") THEN "confirmed" ELSE wanted[t]]
  /\ receiving' = None
  /\ UNCHANGED <<chain, reorgs, mine, hist, store, todo, removing, counted, acts>>

\* receive_tx_callback, with the height of the request: the answer may have
\* left before the transaction was replaced.
ReceiveTx(t) ==
  /\ receiving = None /\ wanted[t] # None
  /\ \E s \in Noted(store, t, wanted[t]) : store' = Added(s, t)
  /\ wanted' = [wanted EXCEPT ![t] = None]
  /\ UNCHANGED <<chain, reorgs, mine, hist, receiving, todo, removing, counted, acts>>

\* The server does not have it any more: a new connection asks for what the
\* stored histories lack, and goes on without it.
TxUnknown(t) ==
  /\ receiving = None /\ wanted[t] # None /\ ~Serves(t)
  /\ \E w \in [Tx -> Seen \cup {None}] :
       /\ \A u \in Tx :
            LET levels == {l \in Seen : \E a \in mine : <<u, l>> \in hist[a]}
                missing == u \notin store.txs \cup {t} /\ levels # {}
            IN w[u] \in IF missing THEN levels ELSE {None}
       /\ wanted' = w
  /\ UNCHANGED <<chain, reorgs, mine, hist, store, receiving, todo, removing, counted, acts>>
-----------------------------------------------------------------------------
(* The user interface *)

Act == acts < MaxActs /\ acts' = acts + 1

\* do_save: a signed transaction that concerns the wallet
SaveLocal(t) ==
  /\ Act
  /\ removing = {} /\ t \notin store.txs
  /\ Owners(Known(store, t) \cup Outputs(t)) \cap mine # {}
  /\ store' = Added(store, t)
  /\ UNCHANGED <<chain, reorgs, mine, hist, receiving, todo, wanted, removing, counted>>

\* remove_local_tx, of a local transaction or of any whose broadcast the
\* server refused: it goes with all that depends on it, each under the lock on
\* its own.
RemoveLocal(t) ==
  /\ Act
  /\ removing = {} /\ t \in store.txs
  /\ LET all == {t} \cup Depending(store, t)
     IN removing' = all
  /\ UNCHANGED <<chain, reorgs, mine, hist, store, receiving, todo, wanted, counted>>

RemoveNext(t) ==
  /\ t \in removing
  /\ removing' = removing \ {t}
  /\ store' = Removed(store, {t})
  /\ UNCHANGED <<chain, reorgs, mine, hist, receiving, todo, wanted, counted, acts>>

\* get_addr_balance, of what is not cached: it reads the coins under the locks,
CountBalance(a) ==
  /\ Act
  /\ a \in mine \cap Shown /\ store.cached[a] = None
  /\ counted' = counted \cup {<<a, Balance(store, a)>>}
  /\ UNCHANGED <<chain, reorgs, mine, hist, store, receiving, todo, wanted, removing>>

\* and caches the result without them.
CacheBalance(a, balance) ==
  /\ store' = [store EXCEPT !.cached[a] = balance]
  /\ counted' = counted \ {<<a, balance>>}
  /\ UNCHANGED <<chain, reorgs, mine, hist, receiving, todo, wanted, removing, acts>>

\* Mutant of ForgetBalances: no cache instead of an empty one
ForgetBalancesAll ==
  /\ store' = [store EXCEPT !.cached = None]
  /\ UNCHANGED <<chain, reorgs, mine, hist, receiving, todo, wanted, removing, counted, acts>>

\* on_blockchain_updated
ForgetBalances ==
  /\ store' = [store EXCEPT !.cached = [a \in Addr |-> None]]
  /\ UNCHANGED <<chain, reorgs, mine, hist, receiving, todo, wanted, removing, counted, acts>>
-----------------------------------------------------------------------------
Init ==
  /\ chain = [t \in Tx |-> "unseen"] /\ reorgs = 0
  /\ mine = Addr \ Late
  /\ hist = [a \in Addr |-> {}]
  /\ store = [txs |-> {}, spent |-> [o \in Outpoint |-> None], txi |-> [t \in Tx |-> {}],
              txo |-> [t \in Tx |-> {}], level |-> [t \in Tx |-> "local"],
              cached |-> [a \in Addr |-> None]]
  /\ receiving = None /\ todo = {} /\ wanted = [t \in Tx |-> None]
  /\ removing = {} /\ counted = {} /\ acts = 0

Network ==
  \/ \E a \in Addr : DeriveAddress(a) \/ ReceiveHistory(a)
  \/ \E t \in Tx, l \in Seen : ReceiveItem(t, l)
  \/ RequestMissing
  \/ \E t \in Tx : ReceiveTx(t) \/ TxUnknown(t)
  \/ ForgetBalances

Interface ==
  \/ \E t \in Tx : SaveLocal(t) \/ RemoveLocal(t) \/ RemoveNext(t)
  \/ \E a \in Addr : CountBalance(a)
  \/ \E c \in counted : CacheBalance(c[1], c[2])

Next ==
  \/ \E t \in Tx : Broadcast(t) \/ Mine(t)
  \/ Network
  \/ Interface

Spec == Init /\ [][Next]_vars
-----------------------------------------------------------------------------
\* The type of every table
TypeOK ==
  /\ chain \in [Tx -> {"unseen", "mempool", "confirmed", "gone"}] /\ reorgs \in 0 .. MaxReorgs
  /\ mine \subseteq Addr /\ hist \in [Addr -> SUBSET (Tx \X Seen)]
  /\ store \in Store
  /\ receiving \in Addr \cup {None} /\ todo \subseteq Tx \X Seen
  /\ wanted \in [Tx -> Seen \cup {None}] /\ removing \subseteq Tx
  /\ counted \subseteq Addr \X (Int \X Int) /\ acts \in 0 .. MaxActs

\* "When this method exits, there must NOT be any conflict": no two of the
\* wallet's transactions spend the same coin, whatever the network brings and
\* the user saves and removes, and the spender of a coin is in the wallet
\* (get_conflicting_transactions asserts it).
NoConflict ==
  \A o \in Outpoint :
    LET spender == store.spent[o]
    IN /\ spender # None => spender \in store.txs /\ o \in In[spender]
       /\ \A t \in store.txs : o \in In[t] => spender = t

\* Nothing is under way, and every history is the server's.
Settled ==
  /\ receiving = None /\ removing = {} /\ \A t \in Tx : wanted[t] = None
  /\ \A a \in mine : hist[a] = ServerHistory(a)

\* A wallet that has settled and holds the server's transactions, no more and
\* no less, sees the coins the server sees: in whatever order add_transaction
\* met parents and children, what it removed meanwhile, and whenever the
\* address was derived.
CoinsAreServers ==
  Settled /\ store.txs = {t \in Tx : Serves(t)} =>
    \A a \in mine :
      Coins(store, a) = {o \in Outpoint : /\ Owner[o] = a /\ Source[o] \in store.txs
                                         /\ \A t \in store.txs : o \notin In[t]}

\* receive_history_callback for a history that lacks, at that height, a
\* confirmed transaction of the wallet
Unconfirms(a) ==
  /\ receiving = None /\ receiving' = a
  /\ \E t \in LocalHistory(store, a) :
       store.level[t] = "confirmed" /\ <<t, "confirmed">> \notin hist'[a]

\* "Cache needs to be invalidated if a transaction is added to/removed from
\* history": a cached balance that is right stays right for as long as it is
\* kept, through conflicts, removals, late parents and late addresses, unless a
\* received history takes a transaction out of the chain.
CachedStaysRight ==
  [][\A a \in Addr :
       /\ store.cached[a] = Balance(store, a) /\ store'.cached[a] = store.cached[a]
       /\ ~\E b \in Addr : Unconfirms(b)
       => store'.cached[a] = Balance(store', a)]_vars

\* Without the exceptions: see the README.
CachedIsCurrent == \A a \in Addr : store.cached[a] \in {None, Balance(store, a)}

\* The synchronizer "requests binary transaction data of any transactions the
\* wallet doesn't have": a wallet that has settled holds every transaction of
\* its histories.
HistoryIsThere == Settled => \A a \in mine : \A e \in hist[a] : e[1] \in store.txs
=============================================================================
