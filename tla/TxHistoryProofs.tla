-------------------------- MODULE TxHistoryProofs ---------------------------
(***************************************************************************)
(* The tables of transactions keep their types, no two transactions of the *)
(* wallet spend the same coin, a settled wallet sees the coins the server  *)
(* sees, and a cached balance that is right stays so while it is kept,     *)
(* unless a history takes a transaction out of the chain.                  *)
(***************************************************************************)
EXTENDS TxHistory, TLAPS, FiniteSetTheorems

\* NoConflict, of any store
Sound(s) ==
  \A o \in Outpoint :
    /\ s.spent[o] # None => s.spent[o] \in s.txs /\ o \in In[s.spent[o]]
    /\ \A t \in s.txs : o \in In[t] => s.spent[o] = t

LEMMA ForgottenTyped ==
  ASSUME NEW V, NEW f \in [Addr -> V \cup {None}], NEW A
  PROVE  Forgotten(f, A) \in [Addr -> V \cup {None}]
BY DEF Forgotten

LEMMA RemovedTyped ==
  ASSUME NEW s \in Store, NEW R PROVE Removed(s, R) \in Store
<1> DEFINE r == Removed(s, R)
<1>1. /\ r.txs = s.txs \ R
      /\ \A o \in Outpoint : r.spent[o] \in {None, s.spent[o]}
      /\ \A t \in Tx : r.txi[t] \in {{}, s.txi[t]} /\ r.txo[t] \in {{}, s.txo[t]}
      /\ \A t \in Tx : r.level[t] \in {"local", s.level[t]}
  BY DEF Removed, Store
<1>2. /\ r.spent = [o \in Outpoint |-> r.spent[o]]
      /\ r.txi = [t \in Tx |-> r.txi[t]] /\ r.txo = [t \in Tx |-> r.txo[t]]
      /\ r.level = [t \in Tx |-> r.level[t]]
  BY DEF Removed
<1>3. /\ r.spent \in [Outpoint -> Tx \cup {None}] /\ r.txi \in [Tx -> SUBSET Outpoint]
      /\ r.txo \in [Tx -> SUBSET Outpoint] /\ r.level \in [Tx -> Level]
      /\ r.txs \subseteq Tx
  <2> HIDE DEF r
  <2> QED BY <1>1, <1>2 DEF Store, Level
<1>4. r.cached \in [Addr -> (Int \X Int) \cup {None}] BY ForgottenTyped DEF Removed, Store
<1>5. r = [txs |-> r.txs, spent |-> r.spent, txi |-> r.txi, txo |-> r.txo,
           level |-> r.level, cached |-> r.cached]
  BY DEF Removed
<1>6. r \in Store
  <2> HIDE DEF r
  <2> QED BY <1>3, <1>5, <1>4 DEF Store
<1> QED BY <1>6

\* What is left after a removal still owns every coin it spends.
LEMMA RemovedSound ==
  ASSUME NEW s \in Store, Sound(s), NEW R PROVE Sound(Removed(s, R))
<1> DEFINE r == Removed(s, R)
<1> SUFFICES ASSUME NEW o \in Outpoint
    PROVE /\ r.spent[o] # None => r.spent[o] \in r.txs /\ o \in In[r.spent[o]]
          /\ \A t \in r.txs : o \in In[t] => r.spent[o] = t
  BY DEF Sound
<1>1. r.txs = s.txs \ R
  BY DEF Removed
<1>2. r.spent[o] = IF o \in UNION {In[t] : t \in R \cap s.txs} \/ s.spent[o] \in R \ s.txs
                   THEN None ELSE s.spent[o]
  BY DEF Removed
<1>3. ASSUME r.spent[o] # None PROVE r.spent[o] \in r.txs /\ o \in In[r.spent[o]]
  <2>1. r.spent[o] = s.spent[o] /\ o \notin UNION {In[t] : t \in R \cap s.txs}
    BY <1>2, <1>3
  <2>2. s.spent[o] \in s.txs /\ o \in In[s.spent[o]]
    BY <1>3, <2>1 DEF Sound
  <2> QED BY <1>1, <2>1, <2>2
<1>4. ASSUME NEW t \in r.txs, o \in In[t] PROVE r.spent[o] = t
  <2>1. t \in s.txs /\ t \notin R /\ s.spent[o] = t
    BY <1>1, <1>4 DEF Sound
  <2>2. \A u \in R \cap s.txs : o \notin In[u]
    BY <2>1 DEF Sound
  <2> QED BY <1>2, <2>1, <2>2
<1> QED BY <1>3, <1>4

LEMMA EnteredTyped ==
  ASSUME HistoryAssumption, mine \subseteq Addr, NEW s \in Store, NEW t \in Tx
  PROVE  Entered(s, t) \in Store
<1> DEFINE e == Entered(s, t)
<1>1. /\ e.txs = s.txs \cup {t}
      /\ e.spent = [o \in Outpoint |-> IF o \in In[t] THEN t ELSE s.spent[o]]
      /\ e.level = s.level
  BY DEF Entered, Store
<1>2. e.txi \in [Tx -> SUBSET Outpoint]
  <2>1. Known(s, t) \subseteq Outpoint /\ Outputs(t) \subseteq Outpoint
    BY DEF Known, Outputs, HistoryAssumption
  <2> QED BY <2>1 DEF Entered, Store
<1>3. e.txo \in [Tx -> SUBSET Outpoint]
  BY DEF Entered, Store, Outputs
<1>4. e = [txs |-> e.txs, spent |-> e.spent, txi |-> e.txi, txo |-> e.txo,
           level |-> e.level, cached |-> e.cached]
  BY DEF Entered, Store
<1>5. e.cached \in [Addr -> (Int \X Int) \cup {None}] BY ForgottenTyped DEF Entered, Store
<1>6. /\ e.txs \subseteq Tx /\ e.level \in [Tx -> Level]
      /\ e.spent \in [Outpoint -> Tx \cup {None}]
  BY <1>1 DEF Store
<1>7. e \in Store
  <2> HIDE DEF e
  <2> QED BY <1>2, <1>3, <1>4, <1>6, <1>5 DEF Store
<1> QED BY <1>7

\* A transaction enters beside those that share no coin with it.
LEMMA EnteredSound ==
  ASSUME HistoryAssumption, NEW s \in Store, Sound(s), NEW t \in Tx,
         \A u \in s.txs \ {t} : In[u] \cap In[t] = {}
  PROVE  Sound(Entered(s, t))
<1> DEFINE e == Entered(s, t)
<1>1. e.txs = s.txs \cup {t}
  BY DEF Entered, Store
<1>2. \A o \in Outpoint : e.spent[o] = IF o \in In[t] THEN t ELSE s.spent[o]
  BY DEF Entered, Store
<1> SUFFICES ASSUME NEW o \in Outpoint
    PROVE /\ e.spent[o] # None => e.spent[o] \in e.txs /\ o \in In[e.spent[o]]
          /\ \A u \in e.txs : o \in In[u] => e.spent[o] = u
  BY DEF Sound
<1> HIDE DEF e
<1>3. CASE o \in In[t]
  BY <1>1, <1>2, <1>3
<1>4. CASE o \notin In[t]
  BY <1>1, <1>2, <1>4 DEF Sound
<1> QED BY <1>3, <1>4

LEMMA AddedTyped ==
  ASSUME HistoryAssumption, mine \subseteq Addr, NEW s \in Store, NEW t \in Tx
  PROVE  Added(s, t) \in Store
BY RemovedTyped, EnteredTyped DEF Added

\* add_transaction leaves no conflict: either the new one is dropped, or all
\* that spend one of its coins are among those it removes.
LEMMA AddedSound ==
  ASSUME HistoryAssumption, NEW s \in Store, Sound(s), NEW t \in Tx
  PROVE  Sound(Added(s, t))
<1> DEFINE R == Conflicting(s, t) \cup UNION {Depending(s, c) : c \in Conflicting(s, t)}
           r == Removed(s, R)
<1>1. r \in Store /\ Sound(r)
  BY RemovedTyped, RemovedSound
<1>2. ASSUME NEW u \in r.txs \ {t} PROVE In[u] \cap In[t] = {}
  <2>1. u \in s.txs /\ u \notin R
    BY DEF Removed
  <2> SUFFICES ASSUME NEW o \in In[u] \cap In[t] PROVE FALSE
    OBVIOUS
  <2>2. o \in Outpoint /\ u # None
    BY <2>1 DEF HistoryAssumption, Store
  <2>3. s.spent[o] = u
    BY <2>1, <2>2 DEF Sound
  <2>4. u \in Conflicting(s, t)
    BY <2>2, <2>3 DEF Conflicting
  <2> QED BY <2>1, <2>4
<1> HIDE DEF r
<1>3. Sound(Entered(r, t))
  BY <1>1, <1>2, EnteredSound
<1> QED BY <1>3 DEF Added, r

\* add_unverified_tx and the other changes of a height touch no other table.
LEMMA LevelOnly ==
  ASSUME NEW s \in Store, NEW f \in [Tx -> Level]
  PROVE  [s EXCEPT !.level = f] \in Store /\ (Sound(s) => Sound([s EXCEPT !.level = f]))
BY DEF Store, Sound

LEMMA NotedSame ==
  ASSUME NEW s \in Store, NEW t \in Tx, NEW l \in Seen, NEW n \in Noted(s, t, l)
  PROVE  n \in Store /\ (Sound(s) => Sound(n))
<1>1. PICK k \in Level : n = [s EXCEPT !.level[t] = k]
  BY DEF Noted, Seen, Level
<1>2. n = [s EXCEPT !.level = [s.level EXCEPT ![t] = k]]
  BY <1>1 DEF Store
<1>3. [s.level EXCEPT ![t] = k] \in [Tx -> Level]
  BY DEF Store
<1> QED BY <1>2, <1>3, LevelOnly

\* A balance is a pair of numbers.
LEMMA BalanceType ==
  ASSUME HistoryAssumption, NEW s \in Store, NEW a
  PROVE  Balance(s, a) \in Int \X Int
<1>1. Received(s, a) \subseteq Outpoint BY DEF Received, Store
<1>2. ASSUME NEW S \in SUBSET Outpoint PROVE Cardinality(S) \in Nat
  BY <1>2, FS_Subset, FS_CardinalityType DEF HistoryAssumption
<1>3. ASSUME NEW T
      PROVE  /\ Cardinality({o \in Received(s, a) : Source[o] \in T}) \in Nat
             /\ Cardinality(Received(s, a) \cap Sent(s, T)) \in Nat
  <2>1. {o \in Received(s, a) : Source[o] \in T} \subseteq Outpoint BY <1>1
  <2>2. Received(s, a) \cap Sent(s, T) \subseteq Outpoint BY <1>1
  <2> QED BY <1>2, <2>1, <2>2
<1> DEFINE confirmed == {t \in Tx : s.level[t] = "confirmed"}
           In1(T) == Cardinality({o \in Received(s, a) : Source[o] \in T})
           Out1(T) == Cardinality(Received(s, a) \cap Sent(s, T))
           i == In1(confirmed)  j == Out1(confirmed)
           k == In1(Tx \ confirmed)  l == Out1(Tx \ confirmed)
<1>4. i \in Nat /\ j \in Nat /\ k \in Nat /\ l \in Nat
  BY <1>3
<1>5. Balance(s, a) = <<i - j, k - l>>
  BY DEF Balance
<1> HIDE DEF i, j, k, l
<1> QED BY <1>4, <1>5

HInv == TypeOK /\ Sound(store)

LEMMA HistoryInit == HistoryAssumption /\ Init => HInv
BY DEF HistoryAssumption, Init, HInv, TypeOK, Sound, Store, Level

LEMMA HistoryStep == HistoryAssumption /\ HInv /\ [Next]_vars => HInv'
<1> SUFFICES ASSUME HistoryAssumption, HInv, [Next]_vars PROVE HInv'
  OBVIOUS
<1> USE DEF HInv
<1>1. ASSUME NEW t \in Tx, Broadcast(t) PROVE HInv'
  BY <1>1 DEF Broadcast, TypeOK, Sound, HistoryAssumption
<1>2. ASSUME NEW t \in Tx, Mine(t) PROVE HInv'
  BY <1>2 DEF Mine, TypeOK, Sound
<1>3. ASSUME NEW a \in Addr, DeriveAddress(a) PROVE HInv'
  BY <1>3 DEF DeriveAddress, TypeOK, Sound
<1>4. ASSUME NEW a \in Addr, ReceiveHistory(a) PROVE HInv'
  <2>1. ServerHistory(a) \subseteq Tx \X Seen
    <3>1. \A h \in ServerHistory(a) : \E t \in Tx : chain[t] \in Seen /\ h = <<t, chain[t]>>
      BY DEF ServerHistory, Involved, Serves
    <3> QED BY <3>1
  <2>2. PICK f : f = [t \in Tx |->
           IF t \in LocalHistory(store, a) /\ <<t, store.level[t]>> \notin ServerHistory(a)
           THEN "local" ELSE store.level[t]]
    OBVIOUS
  <2>3. f \in [Tx -> Level] /\ store' = [store EXCEPT !.level = f]
    BY <1>4, <2>2 DEF ReceiveHistory, TypeOK, Store, Level
  <2>4. store' \in Store /\ Sound(store')
    BY <2>3, LevelOnly DEF TypeOK
  <2> QED BY <1>4, <2>1, <2>4 DEF ReceiveHistory, TypeOK, Sound
<1>5. ASSUME NEW t \in Tx, NEW l \in Seen, ReceiveItem(t, l) PROVE HInv'
  <2>1. PICK s \in Noted(store, t, l) : store' = IF t \in s.txs THEN Added(s, t) ELSE s
    BY <1>5 DEF ReceiveItem
  <2>2. s \in Store /\ Sound(s)
    BY NotedSame DEF TypeOK
  <2>3. store' \in Store /\ Sound(store')
    BY <2>1, <2>2, AddedTyped, AddedSound DEF TypeOK
  <2> QED BY <1>5, <2>3 DEF ReceiveItem, TypeOK, Sound
<1>6. CASE RequestMissing
  BY <1>6 DEF RequestMissing, TypeOK, Sound, Seen
<1>7. MaxActs \in Nat /\ (Act => acts' \in 0 .. MaxActs)
  BY DEF HistoryAssumption, Act, TypeOK
<1>8. ASSUME NEW t \in Tx, ReceiveTx(t) PROVE HInv'
  <2>1. wanted[t] \in Seen
    BY <1>8 DEF ReceiveTx, TypeOK
  <2>2. PICK s \in Noted(store, t, wanted[t]) : store' = Added(s, t)
    BY <1>8 DEF ReceiveTx
  <2>3. s \in Store /\ Sound(s)
    BY <2>1, NotedSame DEF TypeOK
  <2>4. store' \in Store /\ Sound(store')
    BY <2>2, <2>3, AddedTyped, AddedSound DEF TypeOK
  <2> QED BY <1>8, <2>4 DEF ReceiveTx, TypeOK, Sound
<1>9. ASSUME NEW t \in Tx, TxUnknown(t) PROVE HInv'
  BY <1>9 DEF TxUnknown, TypeOK, Sound
<1>10. ASSUME NEW t \in Tx, SaveLocal(t) PROVE HInv'
  <2>1. store' \in Store /\ Sound(store')
    BY <1>10, AddedTyped, AddedSound DEF SaveLocal, TypeOK
  <2> QED BY <1>7, <1>10, <2>1 DEF SaveLocal, TypeOK, Sound
<1>11. ASSUME NEW t \in Tx, RemoveLocal(t) PROVE HInv'
  BY <1>7, <1>11 DEF RemoveLocal, Depending, TypeOK, Sound
<1>12. ASSUME NEW t \in Tx, RemoveNext(t) PROVE HInv'
  <2>1. store' \in Store /\ Sound(store')
    BY <1>12, RemovedTyped, RemovedSound DEF RemoveNext, TypeOK
  <2> QED BY <1>12, <2>1 DEF RemoveNext, TypeOK, Sound
<1>13. ASSUME NEW a \in Addr, CountBalance(a) PROVE HInv'
  <2>1. Balance(store, a) \in Int \X Int BY BalanceType DEF TypeOK
  <2> QED BY <1>7, <1>13, <2>1 DEF CountBalance, TypeOK, Sound
<1>14. ASSUME NEW c \in counted, CacheBalance(c[1], c[2]) PROVE HInv'
  <2>1. c[1] \in Addr /\ c[2] \in Int \X Int BY DEF TypeOK
  <2>2. store' \in Store /\ Sound(store')
    BY <1>14, <2>1 DEF CacheBalance, TypeOK, Sound, Store
  <2> QED BY <1>14, <2>2 DEF CacheBalance, TypeOK, Sound
<1>15. CASE ForgetBalances
  <2>1. store' \in Store /\ Sound(store')
    BY <1>15 DEF ForgetBalances, TypeOK, Sound, Store
  <2> QED BY <1>15, <2>1 DEF ForgetBalances, TypeOK, Sound
<1>16. CASE UNCHANGED vars
  BY <1>16 DEF vars, TypeOK, Sound
<1> QED BY <1>1, <1>2, <1>3, <1>4, <1>5, <1>6, <1>8, <1>9, <1>10, <1>11, <1>12, <1>13,
           <1>15, <1>16, <1>14 DEF Next, Network, Interface

LEMMA HistoryInv == ASSUME HistoryAssumption PROVE Spec => []HInv
BY HistoryInit, HistoryStep, PTL DEF Spec

\* The tables of the wallet's transactions hold what they may.
THEOREM HistoryTyped == ASSUME HistoryAssumption PROVE Spec => []TypeOK
<1>1. HInv => TypeOK
  BY DEF HInv
<1> QED BY <1>1, HistoryInv, PTL

\* However many transactions, coins and threads: no two transactions of the
\* wallet spend the same coin, and a spender is never missing from the wallet,
\* so that neither the assertion of get_conflicting_transactions nor its
\* exception can be met.
THEOREM NoConflictEver == ASSUME HistoryAssumption PROVE Spec => []NoConflict
<1>1. HInv => NoConflict
  BY DEF HInv, Sound, NoConflict
<1> QED BY <1>1, HistoryInv, PTL
-----------------------------------------------------------------------------
(* The coins of the wallet *)

\* txo has coins of the wallet's addresses, under the transaction that makes
\* them; txi has coins a transaction spends; both know nothing of a transaction
\* that is not here; and who spends a coin of txo has it in its txi.
Linked(s) ==
  /\ \A t \in Tx : \A o \in s.txo[t] : Source[o] = t /\ Owner[o] \in mine
  /\ \A t \in Tx : s.txi[t] \subseteq In[t]
  /\ \A t \in Tx \ s.txs : s.txi[t] = {} /\ s.txo[t] = {}
  /\ \A t \in Tx : \A o \in s.txo[t] : s.spent[o] # None => o \in s.txi[s.spent[o]]

\* txo has all that t makes for a.
Gives(s, t, a) == \A o \in Outputs(t) : Owner[o] = a => o \in s.txo[t]

\* A transaction that the history of an address names gives it its coins, or
\* is about to: also one that came before the address was derived.
Noticed ==
  \A a \in Addr, t \in store.txs, l \in Seen :
    <<t, l>> \in hist[a] => Gives(store, t, a) \/ (receiving = a /\ <<t, l>> \in todo)

CInv == HInv /\ Linked(store) /\ Noticed /\ \A a \in Addr \ mine : hist[a] = {}

LEMMA RemovedLinked ==
  ASSUME NEW s \in Store, Sound(s), Linked(s), NEW R
  PROVE  /\ Linked(Removed(s, R))
         /\ Removed(s, R).txs = s.txs \ R
         /\ \A t \in Removed(s, R).txs : Removed(s, R).txo[t] = s.txo[t]
<1> DEFINE r == Removed(s, R)
<1>1. r.txs = s.txs \ R
  BY DEF Removed
<1>2. \A t \in Tx : /\ r.txi[t] = IF t \in R THEN {} ELSE s.txi[t]
                    /\ r.txo[t] = IF t \in R THEN {} ELSE s.txo[t]
  BY DEF Removed
<1>3. \A o \in Outpoint : r.spent[o] # None =>
        r.spent[o] = s.spent[o] /\ s.spent[o] \in s.txs /\ s.spent[o] \notin R
  <2> SUFFICES ASSUME NEW o \in Outpoint, r.spent[o] # None
               PROVE  r.spent[o] = s.spent[o] /\ s.spent[o] \in s.txs /\ s.spent[o] \notin R
    OBVIOUS
  <2>1. r.spent[o] = s.spent[o] /\ o \notin UNION {In[t] : t \in R \cap s.txs}
    BY DEF Removed
  <2>2. s.spent[o] \in s.txs /\ o \in In[s.spent[o]]
    BY <2>1 DEF Sound
  <2> QED BY <2>1, <2>2
<1>4. s.txs \subseteq Tx /\ \A t \in Tx : s.txo[t] \subseteq Outpoint
  BY DEF Store
<1> HIDE DEF r
<1>5. \A t \in Tx : \A o \in r.txo[t] : r.spent[o] # None => o \in r.txi[r.spent[o]]
  BY <1>2, <1>3, <1>4 DEF Linked
<1>6. Linked(r)
  BY <1>1, <1>2, <1>5 DEF Linked
<1> QED BY <1>1, <1>2, <1>4, <1>6 DEF r

\* What add_transaction enters: the coins it makes, with their spender if it is
\* here already, and the coins it spends whose owner is known.
LEMMA EnteredLinked ==
  ASSUME HistoryAssumption, NEW s \in Store, Sound(s), Linked(s), NEW t \in Tx
  PROVE  /\ Linked(Entered(s, t))
         /\ Entered(s, t).txs = s.txs \cup {t}
         /\ \A x \in Tx : s.txo[x] \subseteq Entered(s, t).txo[x]
         /\ \A a \in mine : Gives(Entered(s, t), t, a)
<1> DEFINE e == Entered(s, t)
           sends == {o \in Known(s, t) : Owner[o] \in mine}
           gets == {o \in Outputs(t) : Owner[o] \in mine}
<1>1. e.txs = s.txs \cup {t}
  BY DEF Entered
<1>2. \A o \in Outpoint : e.spent[o] = IF o \in In[t] THEN t ELSE s.spent[o]
  BY DEF Entered
<1>3. \A x \in Tx : e.txo[x] = IF x = t THEN s.txo[x] \cup gets ELSE s.txo[x]
  BY DEF Entered, Store
<1>4. \A x \in Tx : e.txi[x] = s.txi[x] \cup {o \in gets : e.spent[o] = x}
                                        \cup (IF x = t THEN sends ELSE {})
  <2>1. \A o \in gets : e.spent[o] = [y \in Outpoint |-> IF y \in In[t] THEN t ELSE s.spent[y]][o]
    BY DEF Entered, Outputs
  <2> QED BY <2>1 DEF Entered
<1>5. /\ sends \subseteq In[t]
      /\ \A o \in gets : o \in Outpoint /\ Source[o] = t /\ Owner[o] \in mine
      /\ \A o \in In[t] : Source[o] # None /\ o \in s.txo[Source[o]] /\ Owner[o] \in mine
           => o \in sends
  BY DEF Known, Outputs
<1>6. /\ s.txs \subseteq Tx /\ None \notin Tx
      /\ \A x \in Tx : s.txo[x] \subseteq Outpoint /\ s.txi[x] \subseteq Outpoint
      /\ In[t] \subseteq Outpoint
      /\ \A o \in Outpoint : s.spent[o] \in Tx \cup {None}
  BY DEF Store, HistoryAssumption
<1>7. \A a \in mine : Gives(e, t, a)
  BY <1>3 DEF Gives
<1> HIDE DEF e, sends, gets
<1>8. \A x \in Tx : \A o \in e.txo[x] : Source[o] = x /\ Owner[o] \in mine
  <2> SUFFICES ASSUME NEW x \in Tx, NEW o \in e.txo[x] PROVE Source[o] = x /\ Owner[o] \in mine
    OBVIOUS
  <2>1. CASE o \in s.txo[x]
    BY <2>1 DEF Linked
  <2>2. CASE o \notin s.txo[x]
    <3>1. x = t /\ o \in gets
      BY <1>3, <2>2
    <3> QED BY <1>5, <3>1
  <2> QED BY <2>1, <2>2
<1>9. \A x \in Tx : e.txi[x] \subseteq In[x]
  <2> SUFFICES ASSUME NEW x \in Tx, NEW o \in e.txi[x] PROVE o \in In[x]
    OBVIOUS
  <2>1. CASE o \in s.txi[x]
    BY <2>1 DEF Linked
  <2>2. CASE o \in gets /\ e.spent[o] = x
    BY <1>2, <1>5, <1>6, <2>2 DEF Sound
  <2>3. CASE x = t /\ o \in sends
    BY <1>5, <2>3
  <2> QED BY <1>4, <2>1, <2>2, <2>3
<1>10. \A x \in Tx \ e.txs : e.txi[x] = {} /\ e.txo[x] = {}
  <2> SUFFICES ASSUME NEW x \in Tx, x \notin s.txs, x # t PROVE e.txi[x] = {} /\ e.txo[x] = {}
    BY <1>1
  <2>1. s.txi[x] = {} /\ s.txo[x] = {}
    BY DEF Linked
  <2>2. \A o \in gets : e.spent[o] # x
    BY <1>2, <1>5, <1>6 DEF Sound
  <2> QED BY <1>3, <1>4, <2>1, <2>2
<1>11. \A x \in Tx : \A o \in e.txo[x] : e.spent[o] # None => o \in e.txi[e.spent[o]]
  <2> SUFFICES ASSUME NEW x \in Tx, NEW o \in e.txo[x], e.spent[o] # None
               PROVE  o \in e.txi[e.spent[o]]
    OBVIOUS
  <2>1. o \in Outpoint
    BY <1>3, <1>5, <1>6
  <2>2. e.spent[o] \in Tx
    BY <1>2, <1>6, <2>1
  <2>3. CASE o \in gets
    BY <1>4, <2>2, <2>3
  <2>4. CASE o \notin gets
    <3>1. o \in s.txo[x] /\ Source[o] = x /\ Owner[o] \in mine
      <4>1. o \in s.txo[x]
        BY <1>3, <2>4
      <4> QED BY <1>8, <4>1
    <3>2. CASE o \in In[t]
      BY <1>2, <1>4, <1>5, <1>6, <2>1, <3>1, <3>2
    <3>3. CASE o \notin In[t]
      BY <1>2, <1>4, <2>1, <2>2, <3>1, <3>3 DEF Linked
    <3> QED BY <3>2, <3>3
  <2> QED BY <2>3, <2>4
<1>12. Linked(e)
  BY <1>8, <1>9, <1>10, <1>11 DEF Linked
<1>13. \A x \in Tx : s.txo[x] \subseteq e.txo[x]
  BY <1>3
<1> QED BY <1>1, <1>7, <1>12, <1>13 DEF e

\* What a transaction of the store gives is kept or told anew.
Tells(s, r, x) ==
  \/ x \in s.txs /\ s.txo[x] \subseteq r.txo[x]
  \/ \A a \in mine : Gives(r, x, a)

\* add_transaction, also of one that is here: nothing conflicts with it then.
LEMMA AddedLinked ==
  ASSUME HistoryAssumption, NEW s \in Store, Sound(s), Linked(s), NEW t \in Tx
  PROVE  /\ Linked(Added(s, t))
         /\ \A x \in Added(s, t).txs : Tells(s, Added(s, t), x)
         /\ t \in s.txs => \A a \in mine : Gives(Added(s, t), t, a)
<1>1. PICK R : R = Conflicting(s, t) \cup UNION {Depending(s, c) : c \in Conflicting(s, t)}
  OBVIOUS
<1>2. PICK r : r = Removed(s, R)
  OBVIOUS
<1>3. /\ r \in Store /\ Sound(r) /\ Linked(r) /\ r.txs = s.txs \ R
      /\ \A x \in r.txs : r.txo[x] = s.txo[x]
  BY <1>2, RemovedTyped, RemovedSound, RemovedLinked
<1>4. /\ Linked(Entered(r, t)) /\ Entered(r, t).txs = r.txs \cup {t}
      /\ \A x \in Tx : r.txo[x] \subseteq Entered(r, t).txo[x]
      /\ \A a \in mine : Gives(Entered(r, t), t, a)
  BY <1>3, EnteredLinked
<1>5. Added(s, t) = IF Refused(s, t) THEN s ELSE Entered(r, t)
  BY <1>1, <1>2 DEF Added
<1>6. t \in s.txs => ~Refused(s, t)
  BY DEF Refused, Conflicting, Sound, HistoryAssumption
<1>7. r.txs \subseteq Tx
  BY <1>3 DEF Store
<1>8. CASE Refused(s, t)
  BY <1>5, <1>6, <1>8 DEF Tells
<1>9. CASE ~Refused(s, t)
  BY <1>3, <1>4, <1>5, <1>7, <1>9 DEF Tells
<1> QED BY <1>8, <1>9

\* A height is of no other table.
LEMMA LevelLinked ==
  ASSUME NEW s \in Store, NEW f
  PROVE  LET n == [s EXCEPT !.level = f]
         IN n.txs = s.txs /\ n.txo = s.txo /\ n.txi = s.txi /\ n.spent = s.spent
BY DEF Store

LEMMA NotedLinked ==
  ASSUME NEW s \in Store, NEW t \in Tx, NEW l \in Seen, NEW n \in Noted(s, t, l)
  PROVE  n.txs = s.txs /\ n.txo = s.txo /\ n.txi = s.txi /\ n.spent = s.spent
<1>1. PICK k \in Level : n = [s EXCEPT !.level[t] = k]
  BY DEF Noted, Seen, Level
<1> QED BY <1>1 DEF Store

\* A step that brings no history and ends none.
LEMMA KeepsCoins ==
  ASSUME CInv, HInv', UNCHANGED <<mine, hist, receiving, todo>>, Linked(store'),
         \A x \in store'.txs : Tells(store, store', x)
  PROVE  CInv'
<1>1. Linked(store)'
  BY DEF Linked
<1>2. Noticed'
  <2> SUFFICES ASSUME NEW a \in Addr, NEW x \in store'.txs, NEW l \in Seen, <<x, l>> \in hist[a]
               PROVE  Gives(store', x, a) \/ (receiving = a /\ <<x, l>> \in todo)
    BY DEF Noticed, Gives
  <2>1. a \in mine
    BY DEF CInv
  <2>2. CASE x \in store.txs /\ store.txo[x] \subseteq store'.txo[x]
    BY <2>2 DEF CInv, Noticed, Gives
  <2>3. CASE \A b \in mine : Gives(store', x, b)
    BY <2>1, <2>3
  <2> QED BY <2>2, <2>3 DEF Tells
<1> QED BY <1>1, <1>2 DEF CInv

LEMMA CoinsStep == HistoryAssumption /\ CInv /\ [Next]_vars => CInv'
<1> SUFFICES ASSUME HistoryAssumption, CInv, [Next]_vars PROVE CInv'
  OBVIOUS
<1>1. HInv' /\ HInv /\ store \in Store /\ Sound(store) /\ Linked(store)
  BY HistoryStep DEF CInv, HInv, TypeOK
<1>2. ASSUME NEW a \in Addr, DeriveAddress(a) PROVE CInv'
  <2>1. Linked(store)'
    BY <1>1, <1>2 DEF DeriveAddress, Linked
  <2>2. Noticed' /\ \A b \in Addr \ mine' : hist'[b] = {}
    BY <1>2 DEF DeriveAddress, CInv, Noticed, Gives
  <2> QED BY <1>1, <2>1, <2>2 DEF CInv
<1>3. ASSUME NEW a \in Addr, ReceiveHistory(a) PROVE CInv'
  <2>1. /\ a \in mine /\ receiving = None /\ mine' = mine
        /\ hist' = [hist EXCEPT ![a] = ServerHistory(a)]
        /\ receiving' = a /\ todo' = ServerHistory(a)
    BY <1>3 DEF ReceiveHistory
  <2>2. store'.txs = store.txs /\ store'.txo = store.txo /\ store'.txi = store.txi
        /\ store'.spent = store.spent
    BY <1>1, <1>3, LevelLinked DEF ReceiveHistory
  <2>3. Linked(store)'
    BY <1>1, <2>1, <2>2 DEF Linked
  <2>4. \A b \in Addr : hist'[b] = IF b = a THEN todo' ELSE hist[b]
    BY <1>1, <2>1 DEF HInv, TypeOK
  <2>5. None \notin Addr
    BY DEF HistoryAssumption
  <2>6. Noticed'
    BY <2>1, <2>2, <2>4, <2>5 DEF CInv, Noticed, Gives
  <2>7. \A b \in Addr \ mine' : hist'[b] = {}
    BY <2>1, <2>4 DEF CInv
  <2> QED BY <1>1, <2>3, <2>6, <2>7 DEF CInv
<1>4. ASSUME NEW t \in Tx, NEW l \in Seen, ReceiveItem(t, l) PROVE CInv'
  <2>1. PICK s \in Noted(store, t, l) : store' = IF t \in s.txs THEN Added(s, t) ELSE s
    BY <1>4 DEF ReceiveItem
  <2>2. todo' = todo \ {<<t, l>>} /\ UNCHANGED <<mine, hist, receiving>>
    BY <1>4 DEF ReceiveItem
  <2>3. /\ s \in Store /\ Sound(s) /\ s.txs = store.txs /\ s.txo = store.txo
        /\ s.txi = store.txi /\ s.spent = store.spent
    BY <1>1, NotedSame, NotedLinked
  <2>4. Linked(s)
    BY <1>1, <2>3 DEF Linked
  <2>5. /\ Linked(store') /\ \A x \in store'.txs : Tells(s, store', x)
        /\ t \in store'.txs => t \in s.txs /\ \A a \in mine : Gives(store', t, a)
    BY <2>1, <2>3, <2>4, AddedLinked DEF Tells
  <2>6. Linked(store)'
    BY <2>2, <2>5 DEF Linked
  <2>7. Noticed'
    <3> SUFFICES ASSUME NEW a \in Addr, NEW x \in store'.txs, NEW k \in Seen, <<x, k>> \in hist[a]
                 PROVE  Gives(store', x, a) \/ (receiving = a /\ <<x, k>> \in todo')
      BY <2>2 DEF Noticed, Gives
    <3>1. a \in mine
      BY DEF CInv
    <3>2. CASE x = t
      BY <2>5, <3>1, <3>2
    <3>3. CASE x # t /\ x \in s.txs /\ s.txo[x] \subseteq store'.txo[x]
      BY <2>2, <2>3, <3>3 DEF CInv, Noticed, Gives
    <3>4. CASE \A b \in mine : Gives(store', x, b)
      BY <3>1, <3>4
    <3> QED BY <2>5, <3>2, <3>3, <3>4 DEF Tells
  <2> QED BY <1>1, <2>2, <2>6, <2>7 DEF CInv
<1>5. CASE RequestMissing
  BY <1>1, <1>5 DEF RequestMissing, CInv, Linked, Noticed, Gives
<1>6. ASSUME NEW t \in Tx, ReceiveTx(t) PROVE CInv'
  <2>1. wanted[t] \in Seen
    BY <1>1, <1>6 DEF ReceiveTx, HInv, TypeOK
  <2>2. PICK s \in Noted(store, t, wanted[t]) : store' = Added(s, t)
    BY <1>6 DEF ReceiveTx
  <2>3. /\ s \in Store /\ Sound(s) /\ s.txs = store.txs /\ s.txo = store.txo
        /\ s.txi = store.txi /\ s.spent = store.spent
    BY <1>1, <2>1, NotedSame, NotedLinked
  <2>4. Linked(s)
    BY <1>1, <2>3 DEF Linked
  <2>5. Linked(store') /\ \A x \in store'.txs : Tells(s, store', x)
    BY <2>2, <2>3, <2>4, AddedLinked
  <2>6. \A x \in store'.txs : Tells(store, store', x)
    BY <2>3, <2>5 DEF Tells
  <2> QED BY <1>1, <1>6, <2>5, <2>6, KeepsCoins DEF ReceiveTx
<1>7. ASSUME NEW t \in Tx, SaveLocal(t) PROVE CInv'
  <2>1. Linked(store') /\ \A x \in store'.txs : Tells(store, store', x)
    BY <1>1, <1>7, AddedLinked DEF SaveLocal
  <2> QED BY <1>1, <1>7, <2>1, KeepsCoins DEF SaveLocal
<1>8. ASSUME NEW t \in Tx, RemoveNext(t) PROVE CInv'
  <2>1. Linked(store') /\ \A x \in store'.txs : Tells(store, store', x)
    BY <1>1, <1>8, RemovedLinked DEF RemoveNext, Tells
  <2> QED BY <1>1, <1>8, <2>1, KeepsCoins DEF RemoveNext
<1>9. ASSUME UNCHANGED <<mine, hist, receiving, todo>>, store'.txs = store.txs,
             store'.txo = store.txo, store'.txi = store.txi, store'.spent = store.spent
      PROVE  CInv'
  <2>1. Linked(store') /\ \A x \in store'.txs : Tells(store, store', x)
    BY <1>1, <1>9 DEF Linked, Tells
  <2> QED BY <1>1, <1>9, <2>1, KeepsCoins
<1>10. ASSUME NEW t \in Tx, Broadcast(t) \/ Mine(t) \/ TxUnknown(t) \/ RemoveLocal(t) PROVE CInv'
  BY <1>9, <1>10 DEF Broadcast, Mine, TxUnknown, RemoveLocal
<1>11. ASSUME NEW a, NEW c, CountBalance(a) \/ CacheBalance(a, c) PROVE CInv'
  BY <1>1, <1>9, <1>11 DEF CountBalance, CacheBalance, Store
<1>12. CASE ForgetBalances
  BY <1>1, <1>9, <1>12 DEF ForgetBalances, Store
<1>13. CASE UNCHANGED vars
  BY <1>9, <1>13 DEF vars
<1> QED BY <1>2, <1>3, <1>4, <1>5, <1>6, <1>7, <1>8, <1>10, <1>11, <1>12, <1>13
        DEF Next, Network, Interface

\* A settled wallet with the server's transactions has the server's coins, for
\* any transactions and addresses: in whatever order parents and children came,
\* whatever was removed in between, and whenever an address was derived.
THEOREM CoinsAlwaysServers == ASSUME HistoryAssumption PROVE Spec => []CoinsAreServers
<1>1. Init => CInv
  BY HistoryInit DEF Init, CInv, Linked, Noticed
<1>2. CInv /\ [Next]_vars => CInv'
  BY CoinsStep
<1>3. CInv => CoinsAreServers
  <2> SUFFICES ASSUME CInv, Settled, store.txs = {t \in Tx : Serves(t)}, NEW a \in mine
               PROVE  Coins(store, a) = {o \in Outpoint :
                        /\ Owner[o] = a /\ Source[o] \in store.txs
                        /\ \A t \in store.txs : o \notin In[t]}
    BY DEF CoinsAreServers
  <2>1. /\ Linked(store) /\ Sound(store) /\ store \in Store /\ a \in Addr
        /\ receiving = None /\ hist[a] = ServerHistory(a) /\ None \notin Addr
    BY DEF CInv, HInv, TypeOK, Settled, HistoryAssumption
  <2>2. ASSUME NEW o \in Coins(store, a)
        PROVE  /\ o \in Outpoint /\ Owner[o] = a /\ Source[o] \in store.txs
               /\ \A t \in store.txs : o \notin In[t]
    <3>1. PICK x \in Tx : o \in store.txo[x] /\ Owner[o] = a
      BY <2>2 DEF Coins, Received
    <3>2. \A t \in Tx : o \notin store.txi[t]
      BY <2>2 DEF Coins, Sent
    <3>3. o \in Outpoint /\ Source[o] = x /\ x \in store.txs
      BY <2>1, <3>1 DEF Linked, Store
    <3>4. ASSUME NEW t \in store.txs, o \in In[t] PROVE FALSE
      <4>1. store.spent[o] = t /\ t \in Tx /\ t # None
        BY <2>1, <3>3, <3>4 DEF Sound, Store, HistoryAssumption
      <4> QED BY <2>1, <3>1, <3>2, <4>1 DEF Linked
    <3> QED BY <3>1, <3>3, <3>4
  <2>3. ASSUME NEW o \in Outpoint, Owner[o] = a, Source[o] \in store.txs,
               \A t \in store.txs : o \notin In[t]
        PROVE  o \in Coins(store, a)
    <3>1. PICK x \in store.txs : x = Source[o]
      BY <2>3
    <3>2. x \in Tx /\ Serves(x) /\ o \in Outputs(x)
      BY <2>3, <3>1 DEF Outputs
    <3>3. <<x, chain[x]>> \in hist[a] /\ chain[x] \in Seen
      BY <2>1, <2>3, <3>2 DEF ServerHistory, Involved, Owners, Serves
    <3>4. o \in store.txo[x]
      BY <2>1, <2>3, <3>2, <3>3 DEF CInv, Noticed, Gives
    <3>5. \A t \in Tx : o \notin store.txi[t]
      BY <2>1, <2>3 DEF Linked
    <3> QED BY <2>3, <3>2, <3>4, <3>5 DEF Coins, Received, Sent
  <2> QED BY <2>2, <2>3
<1> QED BY <1>1, <1>2, <1>3, PTL DEF Spec
-----------------------------------------------------------------------------
(* The cached balances *)

\* What the balance of a is computed from is the same in s and r: its coins, who
\* spends them, and which of these transactions are confirmed.
SameFor(s, r, a) ==
  /\ \A t \in Tx, o \in Outpoint : Owner[o] = a => (o \in s.txo[t] <=> o \in r.txo[t])
  /\ \A t \in Tx, o \in Received(s, a) : o \in s.txi[t] <=> o \in r.txi[t]
  /\ \A t \in Tx, o \in Received(s, a) :
       o \in s.txo[t] \cup s.txi[t] => (s.level[t] = "confirmed" <=> r.level[t] = "confirmed")

LEMMA ReceivedIs ==
  ASSUME NEW s \in Store, NEW a
  PROVE  \A o : o \in Received(s, a) <=>
                  o \in Outpoint /\ Owner[o] = a /\ \E t \in Tx : o \in s.txo[t]
BY DEF Received, Store

LEMMA SameReceived ==
  ASSUME NEW s \in Store, NEW r \in Store, NEW a, SameFor(s, r, a)
  PROVE  Received(s, a) = Received(r, a)
<1>1. \A o : o \in Received(s, a) <=> o \in Received(r, a)
  BY ReceivedIs DEF SameFor
<1> QED BY <1>1

LEMMA SameTrans ==
  ASSUME NEW s \in Store, NEW r \in Store, NEW q \in Store, NEW a,
         SameFor(s, r, a), SameFor(r, q, a)
  PROVE  SameFor(s, q, a)
<1>1. Received(s, a) = Received(r, a)
  BY SameReceived
<1>2. \A o \in Received(s, a) : o \in Outpoint /\ Owner[o] = a
  BY ReceivedIs
<1> QED BY <1>1, <1>2 DEF SameFor

\* The sets that get_addr_balance counts are the same then.
LEMMA SameBalance ==
  ASSUME NEW s \in Store, NEW r \in Store, Linked(s), NEW a, SameFor(s, r, a)
  PROVE  Balance(r, a) = Balance(s, a)
<1>1. Received(r, a) = Received(s, a)
  BY SameReceived
<1>2. PICK C, D : C = {t \in Tx : s.level[t] = "confirmed"} /\ D = {t \in Tx : r.level[t] = "confirmed"}
  OBVIOUS
<1>3. \A o \in Received(s, a) : Source[o] \in Tx /\ o \in s.txo[Source[o]]
  BY ReceivedIs DEF Linked
<1>4. \A o \in Received(s, a) : Source[o] \in C <=> Source[o] \in D
  BY <1>2, <1>3 DEF SameFor
<1>5. \A o \in Received(s, a), t \in Tx : /\ o \in s.txi[t] <=> o \in r.txi[t]
                                          /\ o \in s.txi[t] => (t \in C <=> t \in D)
  BY <1>2 DEF SameFor
<1>6. /\ {o \in Received(s, a) : Source[o] \in C} = {o \in Received(s, a) : Source[o] \in D}
      /\ {o \in Received(s, a) : Source[o] \in Tx \ C} = {o \in Received(s, a) : Source[o] \in Tx \ D}
  BY <1>4
<1>7. C \subseteq Tx /\ D \subseteq Tx
  BY <1>2
<1>8. Received(s, a) \cap Sent(s, C) = Received(s, a) \cap Sent(r, D)
  BY <1>5, <1>7 DEF Sent
<1>9. Received(s, a) \cap Sent(s, Tx \ C) = Received(s, a) \cap Sent(r, Tx \ D)
  BY <1>5, <1>7 DEF Sent
<1> QED BY <1>1, <1>2, <1>6, <1>8, <1>9 DEF Balance

\* remove_transaction forgets the balances of all whose coins it removes.
LEMMA RemovedSame ==
  ASSUME NEW s \in Store, NEW R, NEW a \in Addr, Removed(s, R).cached[a] # None
  PROVE  SameFor(s, Removed(s, R), a) /\ s.cached[a] # None
<1>1. \A t \in R : a \notin Owners(s.txi[t] \cup s.txo[t])
  BY DEF Removed, Forgotten
<1>2. \A t \in Tx : /\ Removed(s, R).txi[t] = IF t \in R THEN {} ELSE s.txi[t]
                    /\ Removed(s, R).txo[t] = IF t \in R THEN {} ELSE s.txo[t]
                    /\ Removed(s, R).level[t] = IF t \in R THEN "local" ELSE s.level[t]
  BY DEF Removed
<1>3. \A t \in R : \A o \in s.txi[t] \cup s.txo[t] : Owner[o] # a
  BY <1>1 DEF Owners
<1>4. \A o \in Received(s, a) : Owner[o] = a
  BY ReceivedIs
<1>5. s.cached[a] # None
  BY DEF Removed, Forgotten
<1> QED BY <1>2, <1>3, <1>4, <1>5 DEF SameFor

\* The rest of add_transaction those of all whose coins it enters.
LEMMA EnteredSame ==
  ASSUME NEW s \in Store, NEW t \in Tx, NEW a \in Addr, Entered(s, t).cached[a] # None
  PROVE  /\ SameFor(s, Entered(s, t), a) /\ s.cached[a] # None
         /\ \A o \in Known(s, t) \cup Outputs(t) : Owner[o] \in mine => Owner[o] # a
<1> DEFINE sends == {o \in Known(s, t) : Owner[o] \in mine}
           gets == {o \in Outputs(t) : Owner[o] \in mine}
           e == Entered(s, t)
<1>1. s.cached[a] # None /\ a \notin Owners(sends \cup gets)
  BY DEF Entered, Forgotten
<1>2. \A o \in sends \cup gets : Owner[o] # a
  BY <1>1 DEF Owners
<1>3. \A x \in Tx : e.txo[x] = IF x = t THEN s.txo[x] \cup gets ELSE s.txo[x]
  BY DEF Entered, Store
<1>4. \A x \in Tx : s.txi[x] \subseteq e.txi[x] /\ e.txi[x] \subseteq s.txi[x] \cup gets \cup sends
  BY DEF Entered
<1>5. e.level = s.level
  BY DEF Entered
<1>6. \A o \in Received(s, a) : Owner[o] = a
  BY ReceivedIs
<1>7. \A o \in Known(s, t) \cup Outputs(t) : Owner[o] \in mine => Owner[o] # a
  BY <1>2
<1> HIDE DEF e, sends, gets
<1>8. SameFor(s, e, a)
  BY <1>2, <1>3, <1>4, <1>5, <1>6 DEF SameFor
<1> QED BY <1>1, <1>7, <1>8 DEF e

LEMMA AddedSame ==
  ASSUME HistoryAssumption, mine \subseteq Addr, NEW s \in Store, NEW t \in Tx,
         NEW a \in Addr, Added(s, t).cached[a] # None
  PROVE  SameFor(s, Added(s, t), a) /\ s.cached[a] # None
<1>1. PICK R : R = Conflicting(s, t) \cup UNION {Depending(s, c) : c \in Conflicting(s, t)}
  OBVIOUS
<1>2. PICK r : r = Removed(s, R)
  OBVIOUS
<1>3. r \in Store /\ Entered(r, t) \in Store
  BY <1>2, RemovedTyped, EnteredTyped
<1>4. Added(s, t) = IF Refused(s, t) THEN s ELSE Entered(r, t)
  BY <1>1, <1>2 DEF Added
<1>5. CASE Refused(s, t)
  BY <1>4, <1>5 DEF SameFor
<1>6. CASE ~Refused(s, t)
  <2>1. SameFor(r, Entered(r, t), a) /\ r.cached[a] # None
    BY <1>3, <1>4, <1>6, EnteredSame
  <2>2. SameFor(s, r, a) /\ s.cached[a] # None
    BY <1>2, <2>1, RemovedSame
  <2> QED BY <1>3, <1>4, <1>6, <2>1, <2>2, SameTrans
<1> QED BY <1>5, <1>6

\* A height that changes is followed by add_transaction if the transaction is
\* here, which forgets the balances of all that have a coin of it.
LEMMA NotedSameFor ==
  ASSUME HistoryAssumption, mine \subseteq Addr, NEW s \in Store, Sound(s), Linked(s),
         NEW t \in Tx, NEW l \in Seen, NEW n \in Noted(s, t, l), NEW a \in Addr,
         t \in s.txs => Added(n, t).cached[a] # None
  PROVE  SameFor(s, n, a)
<1>1. /\ n \in Store /\ Sound(n)
      /\ n.txs = s.txs /\ n.txo = s.txo /\ n.txi = s.txi /\ n.spent = s.spent
  BY NotedSame, NotedLinked
<1>2. \A x \in Tx : x # t => n.level[x] = s.level[x]
  BY DEF Noted, Store
<1>3. \A o \in Received(s, a) : o \notin s.txo[t] \cup s.txi[t]
  <2>1. CASE t \notin s.txs
    BY <2>1 DEF Linked
  <2>2. CASE t \in s.txs
    <3>1. Conflicting(n, t) = {}
      BY <1>1, <2>2 DEF Conflicting, Sound, HistoryAssumption
    <3>2. PICK R : R = Conflicting(n, t) \cup UNION {Depending(n, c) : c \in Conflicting(n, t)}
      OBVIOUS
    <3>3. R = {}
      BY <3>1, <3>2
    <3>4. PICK r : r = Removed(n, R)
      OBVIOUS
    <3>5. Added(n, t) = Entered(r, t)
      BY <3>1, <3>2, <3>4 DEF Added, Refused
    <3>6. r \in Store /\ \A x \in Tx : r.txo[x] = s.txo[x]
      <4>1. \A x \in Tx : r.txo[x] = IF x \in R THEN {} ELSE n.txo[x]
        BY <3>4 DEF Removed
      <4> QED BY <1>1, <3>3, <3>4, <4>1, RemovedTyped
    <3>7. \A o \in Known(r, t) \cup Outputs(t) : Owner[o] \in mine => Owner[o] # a
      BY <2>2, <3>5, <3>6, EnteredSame
    <3> SUFFICES ASSUME NEW o \in Received(s, a), o \in s.txo[t] \cup s.txi[t] PROVE FALSE
      OBVIOUS
    <3>8. PICK x \in Tx : o \in s.txo[x] /\ o \in Outpoint /\ Owner[o] = a
      BY ReceivedIs
    <3>9. Source[o] = x /\ Owner[o] \in mine /\ x # None
      BY <3>8 DEF Linked, HistoryAssumption
    <3>10. CASE o \in s.txo[t]
      <4>1. o \in Outputs(t)
        BY <3>8, <3>10 DEF Outputs, Linked
      <4> QED BY <3>7, <3>8, <3>9, <4>1
    <3>11. CASE o \in s.txi[t]
      <4>1. o \in Known(r, t)
        BY <3>6, <3>8, <3>9, <3>11 DEF Known, Linked
      <4> QED BY <3>7, <3>8, <3>9, <4>1
    <3> QED BY <3>10, <3>11
  <2> QED BY <2>1, <2>2
<1> QED BY <1>1, <1>2, <1>3 DEF SameFor

LEMMA NotedAdded ==
  ASSUME HistoryAssumption, mine \subseteq Addr, NEW s \in Store, Sound(s), Linked(s),
         NEW t \in Tx, NEW l \in Seen, NEW n \in Noted(s, t, l), NEW a \in Addr,
         Added(n, t).cached[a] # None
  PROVE  SameFor(s, Added(n, t), a)
<1>1. n \in Store /\ Added(n, t) \in Store
  BY NotedSame, AddedTyped
<1>2. SameFor(s, n, a)
  BY NotedSameFor
<1>3. SameFor(n, Added(n, t), a)
  BY <1>1, AddedSame
<1> QED BY <1>1, <1>2, <1>3, SameTrans

\* A step that takes no transaction out of the chain keeps what it is computed
\* from for every balance it leaves cached.
LEMMA StepSame ==
  ASSUME HistoryAssumption, CInv, [Next]_vars, NEW a \in Addr, store'.cached[a] # None,
         ~\E b \in Addr : Unconfirms(b)
  PROVE  SameFor(store, store', a)
<1>1. HInv /\ store \in Store /\ Sound(store) /\ Linked(store) /\ mine \subseteq Addr
  BY DEF CInv, HInv, TypeOK
<1>2. ASSUME store'.txo = store.txo, store'.txi = store.txi, store'.level = store.level
      PROVE  SameFor(store, store', a)
  BY <1>2 DEF SameFor
<1>3. CASE \E t \in Tx : Broadcast(t) \/ Mine(t) \/ TxUnknown(t) \/ RemoveLocal(t)
  BY <1>2, <1>3 DEF Broadcast, Mine, TxUnknown, RemoveLocal
<1>4. ASSUME NEW b, NEW c, \/ DeriveAddress(b) \/ CountBalance(b) \/ CacheBalance(b, c)
                           \/ RequestMissing \/ ForgetBalances
      PROVE  SameFor(store, store', a)
  BY <1>1, <1>2, <1>4
     DEF DeriveAddress, CountBalance, CacheBalance, RequestMissing, ForgetBalances, Store
<1>5. ASSUME NEW b \in Addr, ReceiveHistory(b) PROVE SameFor(store, store', a)
  <2>1. store'.txo = store.txo /\ store'.txi = store.txi
    BY <1>1, <1>5, LevelLinked DEF ReceiveHistory
  <2>2. \A t \in Tx : store'.level[t] = IF /\ t \in LocalHistory(store, b)
                                           /\ <<t, store.level[t]>> \notin ServerHistory(b)
                                        THEN "local" ELSE store.level[t]
    BY <1>1, <1>5 DEF ReceiveHistory, Store
  <2>3. ASSUME NEW t \in Tx, t \in LocalHistory(store, b), store.level[t] = "confirmed"
        PROVE  <<t, "confirmed">> \in ServerHistory(b)
    <3>1. /\ hist'[b] = ServerHistory(b) /\ receiving = None /\ receiving' = b
      BY <1>1, <1>5 DEF ReceiveHistory, HInv, TypeOK
    <3>2. ~Unconfirms(b) OBVIOUS
    <3> QED BY <2>3, <3>1, <3>2 DEF Unconfirms
  <2>4. \A t \in Tx : store'.level[t] = "confirmed" <=> store.level[t] = "confirmed"
    BY <2>2, <2>3
  <2> QED BY <2>1, <2>4 DEF SameFor
<1>6. ASSUME NEW t \in Tx, NEW l \in Seen, ReceiveItem(t, l) PROVE SameFor(store, store', a)
  <2>1. PICK n \in Noted(store, t, l) : store' = IF t \in n.txs THEN Added(n, t) ELSE n
    BY <1>6 DEF ReceiveItem
  <2>2. n.txs = store.txs
    BY <1>1, NotedLinked
  <2>3. CASE t \in n.txs
    BY <1>1, <2>1, <2>3, NotedAdded
  <2>4. CASE t \notin n.txs
    BY <1>1, <2>1, <2>2, <2>4, NotedSameFor
  <2> QED BY <2>3, <2>4
<1>7. ASSUME NEW t \in Tx, ReceiveTx(t) PROVE SameFor(store, store', a)
  <2>1. wanted[t] \in Seen
    BY <1>1, <1>7 DEF ReceiveTx, HInv, TypeOK
  <2>2. PICK n \in Noted(store, t, wanted[t]) : store' = Added(n, t)
    BY <1>7 DEF ReceiveTx
  <2> QED BY <1>1, <2>1, <2>2, NotedAdded
<1>8. ASSUME NEW t \in Tx, SaveLocal(t) PROVE SameFor(store, store', a)
  BY <1>1, <1>8, AddedSame DEF SaveLocal
<1>9. ASSUME NEW t \in Tx, RemoveNext(t) PROVE SameFor(store, store', a)
  BY <1>1, <1>9, RemovedSame DEF RemoveNext
<1>10. CASE UNCHANGED vars
  BY <1>2, <1>10 DEF vars
<1> QED BY <1>3, <1>4, <1>5, <1>6, <1>7, <1>8, <1>9, <1>10 DEF Next, Network, Interface

\* Whatever changes the balance of an address forgets the cached one, for all
\* transactions and addresses: every way in and out of the wallet, a parent that
\* comes after its child and a change of height included; but for a history
\* that takes a transaction out of the chain.
THEOREM CacheStaysRight == ASSUME HistoryAssumption PROVE Spec => CachedStaysRight
<1>1. Init => CInv
  BY HistoryInit DEF Init, CInv, Linked, Noticed
<1>2. CInv /\ [Next]_vars => CInv'
  BY CoinsStep
<1>3. CInv /\ CInv' /\ [Next]_vars =>
        [\A a \in Addr :
           /\ store.cached[a] = Balance(store, a) /\ store'.cached[a] = store.cached[a]
           /\ ~\E b \in Addr : Unconfirms(b)
           => store'.cached[a] = Balance(store', a)]_vars
  <2> SUFFICES ASSUME CInv, CInv', [Next]_vars, NEW a \in Addr,
                      store.cached[a] = Balance(store, a), store'.cached[a] = store.cached[a],
                      ~\E b \in Addr : Unconfirms(b)
               PROVE  Balance(store', a) = Balance(store, a)
    OBVIOUS
  <2>1. store \in Store /\ store' \in Store /\ Linked(store)
    BY DEF CInv, HInv, TypeOK
  <2>2. store'.cached[a] # None
    BY <2>1, BalanceType DEF HistoryAssumption
  <2> QED BY <2>1, <2>2, StepSame, SameBalance
<1> QED BY <1>1, <1>2, <1>3, PTL DEF Spec, CachedStaysRight
=============================================================================
