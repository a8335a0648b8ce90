-------------------------- MODULE ChainSyncProofs ---------------------------
(***************************************************************************)
(* What holds for every number of servers and every tree of headers.  The  *)
(* lock is proved of any servers; the searches, the chains and the end of  *)
(* the catch-up of servers that only extend their chain while an interface *)
(* works on it (Stable).                                                   *)
(***************************************************************************)
EXTENDS ChainSync, HeaderTreeProofs, SequenceTheorems

Places == {"wait", "lock", "first", "backward", "binary", "resolve", "sync", "one", "stuck"}
PcType == pc \in [Interface -> Places]

\* The lock is needed with the places: giving it back moves its holder alone.
LockInv == PcType /\ OneSearches

\* What a step of interface i may do to the lock and the places: take the
\* lock when it is free, keep it while it works, or give it back.
Holder(i) ==
  \E p \in Places :
    /\ pc' = [pc EXCEPT ![i] = p]
    /\ \/ lock' = lock /\ (p \in {"wait", "lock"} \/ lock = i)
       \/ lock = Nobody /\ lock' = i
       \/ lock = i /\ lock' = Nobody /\ p = "wait"

LEMMA HolderKeeps ==
  ASSUME NEW i \in Interface, LockInv, Holder(i)
  PROVE  LockInv'
<1> USE SyncAssumption DEF LockInv, PcType, OneSearches
<1>1. PICK p \in Places :
        /\ pc' = [pc EXCEPT ![i] = p]
        /\ \/ lock' = lock /\ (p \in {"wait", "lock"} \/ lock = i)
           \/ lock = Nobody /\ lock' = i
           \/ lock = i /\ lock' = Nobody /\ p = "wait"
  BY DEF Holder
<1>2. PcType' BY <1>1
<1>3. ASSUME NEW j \in Interface, pc'[j] \notin {"wait", "lock"} PROVE lock' = j
  <2>1. CASE j = i BY <1>1, <1>3, <2>1
  <2>2. CASE j # i
    <3>1. pc'[j] = pc[j] BY <1>1, <2>2
    <3>2. lock = j BY <3>1, <1>3
    <3> QED BY <1>1, <3>2, <2>2
  <2> QED BY <2>1, <2>2
<1> QED BY <1>2, <1>3

\* Every way out of step: the holder keeps the lock or gives it back.
LEMMA SteppedHolds ==
  ASSUME NEW i \in Interface, LockInv, lock = i, NEW what, NEW height, Stepped(i, what, height)
  PROVE  Holder(i)
BY DEF Stepped, Release, Set, Holder, Places

LEMMA StepHolds ==
  ASSUME NEW i \in Interface, LockInv, lock = i, NEW h, Step(i, h)
  PROVE  Holder(i)
<1>1. CASE \E c \in Having(h) : Stepped(i, "catchup", Height[h] + 1)
  BY <1>1, SteppedHolds
<1>2. CASE \E c \in Below(h) : Save(i, c, h)
  BY <1>2, SteppedHolds DEF Save
<1>3. CASE pc' = Set(pc, i, "backward") /\ lock' = lock
  BY <1>3 DEF Holder, Places, Set
<1> QED BY <1>1, <1>2, <1>3 DEF Step

\* A step of Process belongs to the holder of the lock.
LEMMA ProcessHolds ==
  ASSUME NEW i \in Interface, LockInv, Process(i)
  PROVE  Holder(i)
<1> USE DEF LockInv, OneSearches
<1>1. CASE FirstStep(i) BY <1>1, StepHolds DEF FirstStep
<1>2. CASE Backward(i)
  <2> DEFINE h == Answer(i, IF probe[i] <= 0 THEN 0 ELSE probe[i])
  <2>1. lock = i BY <1>2 DEF Backward
  <2>2. CASE \E c \in Below(h) : Save(i, c, h)
    BY <2>1, <2>2, SteppedHolds DEF Save
  <2>3. CASE pc' = Set(pc, i, "binary") /\ lock' = lock
    BY <2>1, <2>3 DEF Holder, Places, Set
  <2>4. CASE pc' = pc /\ lock' = lock
    BY <1>2, <2>1, <2>4 DEF Holder, Places, PcType, Backward
  <2> QED BY <1>2, <2>2, <2>3, <2>4 DEF Backward
<1>3. CASE Binary(i) BY <1>3 DEF Binary, Holder, Places, Set
<1>4. CASE NoFork(i) BY <1>4, SteppedHolds DEF NoFork
<1>5. CASE ForkChain(i) BY <1>5, SteppedHolds DEF ForkChain
<1>6. CASE SearchRaises(i)
  <2>1. lock = i BY <1>6 DEF SearchRaises
  <2> QED BY <1>6, <2>1 DEF SearchRaises, Fail, Release, Holder, Places, Set
<1>7. CASE SyncHeader(i) BY <1>7, StepHolds DEF SyncHeader
<1>8. CASE SyncChunk(i)
  <2>1. lock = i BY <1>8 DEF SyncChunk
  <2>2. CASE Stepped(i, "catchup", Height[Answer(i, ChunkEnd(i))] + 1)
    BY <2>1, <2>2, SteppedHolds
  <2>3. CASE pc' = Set(pc, i, "one") /\ lock' = lock
    BY <2>1, <2>3 DEF Holder, Places, Set
  <2> QED BY <1>8, <2>2, <2>3 DEF SyncChunk
<1>9. CASE Refused(i)
  <2>1. lock = i BY <1>9 DEF Refused, Asking
  <2> QED BY <1>9, <2>1 DEF Refused, Fail, Release, Holder, Places, Set
<1> QED BY <1>1, <1>2, <1>3, <1>4, <1>5, <1>6, <1>7, <1>8, <1>9 DEF Process

\* One step keeps the invariant.
LEMMA LockStep == LockInv /\ [Next]_vars => LockInv'
<1> SUFFICES ASSUME LockInv, [Next]_vars PROVE LockInv'
  OBVIOUS
<1>1. CASE UNCHANGED vars
  BY <1>1 DEF vars, LockInv, PcType, OneSearches
<1>2. ASSUME NEW i \in Interface, ServerMoves(i) PROVE LockInv'
  BY <1>2 DEF ServerMoves, LockInv, PcType, OneSearches
<1>3. ASSUME NEW i \in Interface, Announce(i) PROVE LockInv'
  <2>1. Holder(i) BY <1>3 DEF Announce, Holder, Places, Set
  <2> QED BY <2>1, HolderKeeps
<1>4. ASSUME NEW i \in Interface, Skip(i) PROVE LockInv'
  <2>1. Holder(i) BY <1>4 DEF Skip, Holder, Places, Set
  <2> QED BY <2>1, HolderKeeps
<1>5. ASSUME NEW i \in Interface, Acquire(i) PROVE LockInv'
  <2>1. Holder(i) BY <1>5 DEF Acquire, Free, Holder, Places, Set
  <2> QED BY <2>1, HolderKeeps
<1>6. ASSUME NEW i \in Interface, Process(i) PROVE LockInv'
  BY <1>6, ProcessHolds, HolderKeeps
<1>7. ASSUME NEW i \in Interface, Drop(i) PROVE LockInv'
  <2>1. lock = i BY <1>7 DEF Drop, Asking, LockInv, OneSearches
  <2>2. Holder(i) BY <1>7, <2>1 DEF Drop, Release, Holder, Places, Set
  <2> QED BY <2>2, HolderKeeps
<1> QED BY <1>1, <1>2, <1>3, <1>4, <1>5, <1>6, <1>7 DEF Next

\* At any time one interface at most searches for headers or saves them, and
\* it is the one that holds bhi_lock (_process_header_at_tip).
THEOREM OneSearchesAlways == Spec => []OneSearches
<1>1. Init => LockInv
  BY DEF Init, Each, LockInv, PcType, Places, OneSearches
<1>2. LockInv => OneSearches
  BY DEF LockInv
<1> QED BY <1>1, <1>2, LockStep, PTL DEF Spec

-----------------------------------------------------------------------------
(* The state of a search, and what keeps the chains apart *)

Lasts == {"none", "first", "catchup", "fork", "no_fork"}

SyncTypes ==
  /\ tips \in Seq(Header) /\ Len(tips) >= 1
  /\ server \in [Interface -> Header] /\ target \in [Interface -> Header]
  /\ chain \in [Interface -> Nat] /\ at \in [Interface -> Nat] /\ last \in [Interface -> Lasts]
  /\ probe \in [Interface -> Int] /\ good \in [Interface -> Nat] /\ bad \in [Interface -> Header]

\* Where an interface is in its search.  Everything it asks for lies on the way
\* to the announced header, which its server keeps; the catch-up is one header
\* above the tip of its chain.
Searching(i) ==
  /\ chain[i] <= Len(tips)
  /\ pc[i] # "wait" => chain[i] # 0 /\ OnBranch(target[i], server[i])
  /\ pc[i] \notin {"wait", "lock"} => target[i] # Genesis
  /\ pc[i] \in {"first", "backward", "binary", "resolve"} => last[i] = "first"
  /\ pc[i] \in {"backward", "binary", "resolve"} => ~Known(bad[i]) /\ OnBranch(bad[i], target[i])
  /\ pc[i] = "backward" => probe[i] < Height[bad[i]]
  /\ pc[i] \in {"binary", "resolve"} =>
       good[i] < Height[bad[i]] /\ OnBranch(HeaderAt(bad[i], good[i]), tips[chain[i]])
  /\ pc[i] = "resolve" => good[i] + 1 = Height[bad[i]]
  /\ pc[i] \in {"sync", "one"} =>
       /\ at[i] \in 1 .. Height[target[i]]
       /\ tips[chain[i]] = HeaderAt(target[i], at[i] - 1)
  /\ pc[i] # "stuck"

SInv == LockInv /\ SyncTypes /\ TipsApart /\ \A i \in Interface : Searching(i)

\* What a step of the holder i does to the chains and to its own search
Grow == Len(tips) <= Len(tips') /\ \A c \in Chains : OnBranch(tips[c], tips'[c])
Done(i) == lock' # i => OnBranch(target[i], tips'[chain'[i]])
Good(i) == SyncTypes' /\ TipsApart' /\ Grow /\ Searching(i)' /\ Done(i)
Alone(i) ==
  /\ UNCHANGED server
  /\ \A j \in Interface : j # i => pc'[j] = pc[j] /\ chain'[j] = chain[j] /\ target'[j] = target[j]

LEMMA TipType == ASSUME SyncTypes, NEW c \in Chains PROVE tips[c] \in Header
BY DEF SyncTypes, Chains

\* Above the tip of a chain nothing is known.
LEMMA AboveUnknown ==
  ASSUME SyncTypes, TipsApart, NEW c \in Chains, NEW h \in Header,
         OnBranch(tips[c], h), tips[c] # h
  PROVE  ~Known(h)
<1> SUFFICES ASSUME NEW d \in Chains, OnBranch(h, tips[d]) PROVE FALSE
  BY DEF Known, Having
<1>1. tips[c] \in Header /\ tips[d] \in Header
  BY TipType
<1>2. OnBranch(tips[c], tips[d])
  BY <1>1, OnTrans
<1>3. d = c
  BY <1>2 DEF TipsApart
<1>4. Height[h] <= Height[tips[c]]
  BY <1>3 DEF OnBranch
<1>5. tips[c] = h
  BY <1>1, <1>4, OnSame, HeaderAssumption
<1> QED BY <1>5

LEMMA BelowOn ==
  ASSUME SyncTypes, TipsApart, NEW h \in Header, NEW c \in Below(h)
  PROVE  c \in Chains /\ OnBranch(tips[c], h) /\ tips[c] # h /\ tips[c] = Prev[h] /\ h # Genesis /\ ~Known(h)
<1>1. c \in Chains /\ h # Genesis /\ tips[c] = Prev[h]
  BY DEF Below
<1>2. OnBranch(tips[c], h) /\ tips[c] # h
  BY <1>1, OnPrev, OnSelf
<1> QED BY <1>1, <1>2, AboveUnknown

\* save_header and save_chunk keep the chains apart.
LEMMA ExtendApart ==
  ASSUME SyncTypes, TipsApart, NEW c \in Chains, NEW h \in Header,
         OnBranch(tips[c], h), tips[c] # h, tips' = [tips EXCEPT ![c] = h]
  PROVE  TipsApart' /\ Grow /\ tips' \in Seq(Header) /\ Len(tips') = Len(tips) /\ tips'[c] = h
<1>1. /\ tips' \in Seq(Header) /\ Len(tips') = Len(tips) /\ Chains' = Chains
      /\ tips'[c] = h /\ \A d \in Chains : d # c => tips'[d] = tips[d]
  BY DEF SyncTypes, Chains
<1>2. ~Known(h)
  BY AboveUnknown
<1>3. ASSUME NEW d \in Chains, d # c PROVE ~OnBranch(h, tips[d]) /\ ~OnBranch(tips[d], h)
  <2>1. ~OnBranch(h, tips[d])
    BY <1>2 DEF Known, Having
  <2>2. SUFFICES ASSUME OnBranch(tips[d], h) PROVE FALSE
    BY <2>1
  <2>3. tips[c] \in Header /\ tips[d] \in Header
    BY TipType
  <2>4. Height[tips[c]] <= Height[tips[d]] \/ Height[tips[d]] <= Height[tips[c]]
    BY <2>3, HeaderAssumption
  <2>5. OnBranch(tips[c], tips[d]) \/ OnBranch(tips[d], tips[c])
    BY <2>2, <2>3, <2>4, OnCompare
  <2> QED BY <1>3, <2>5 DEF TipsApart
<1>4. TipsApart'
  BY <1>1, <1>3 DEF TipsApart
<1>5. Grow
  BY <1>1, TipType, OnSelf DEF Grow, SyncTypes
<1> QED BY <1>1, <1>4, <1>5

\* A fork off the middle of a chain leaves them apart.
LEMMA ForkApart ==
  ASSUME SyncTypes, TipsApart, NEW c \in Chains, NEW b \in Header, b # Genesis, ~Known(b),
         OnBranch(Prev[b], tips[c]), tips[c] # Prev[b], tips' = Append(tips, b)
  PROVE  /\ TipsApart' /\ Grow /\ tips' \in Seq(Header) /\ Len(tips') = Len(tips) + 1
         /\ tips'[Len(tips')] = b
<1>1. /\ tips' \in Seq(Header) /\ Len(tips') = Len(tips) + 1 /\ Chains' = Chains \cup {Len(tips')}
      /\ tips'[Len(tips')] = b /\ \A d \in Chains : tips'[d] = tips[d]
      /\ Len(tips') \notin Chains /\ Len(tips) <= Len(tips')
  BY DEF SyncTypes, Chains
<1>2. Prev[b] \in Header
  BY PrevBelow
<1>3. ASSUME NEW d \in Chains PROVE ~OnBranch(b, tips[d]) /\ ~OnBranch(tips[d], b)
  <2>1. ~OnBranch(b, tips[d])
    BY DEF Known, Having
  <2>2. SUFFICES ASSUME OnBranch(tips[d], b) PROVE FALSE
    BY <2>1
  <2>3. tips[c] \in Header /\ tips[d] \in Header
    BY TipType
  <2>4. tips[d] # b
    BY <2>1, OnSelf
  <2>5. OnBranch(tips[d], Prev[b])
    BY <2>2, <2>3, <2>4, OnPrev
  <2>6. OnBranch(tips[d], tips[c])
    BY <1>2, <2>3, <2>5, OnTrans
  <2>7. d = c
    BY <2>6 DEF TipsApart
  <2>8. OnBranch(tips[c], Prev[b]) /\ OnBranch(Prev[b], tips[c])
    BY <2>5, <2>7
  <2>9. Height[tips[c]] <= Height[Prev[b]]
    BY <2>8 DEF OnBranch
  <2>10. Height[Prev[b]] >= Height[tips[c]]
    BY <1>2, <2>3, <2>9, HeaderAssumption
  <2>11. tips[c] = Prev[b]
    BY <1>2, <2>3, <2>8, <2>10, OnSame
  <2> QED BY <2>11
<1>4. TipsApart'
  <2> SUFFICES ASSUME NEW d \in Chains', NEW e \in Chains', d # e PROVE ~OnBranch(tips'[d], tips'[e])
    BY DEF TipsApart
  <2>1. CASE d \in Chains /\ e \in Chains
    BY <1>1, <2>1 DEF TipsApart
  <2>2. CASE d \in Chains /\ e = Len(tips')
    BY <1>1, <1>3, <2>2
  <2>3. CASE e \in Chains /\ d = Len(tips')
    BY <1>1, <1>3, <2>3
  <2> QED BY <1>1, <2>1, <2>2, <2>3
<1>5. Grow
  <2>1. \A d \in Chains : tips[d] \in Header
    BY TipType
  <2> QED BY <1>1, <2>1, OnSelf DEF Grow
<1> QED BY <1>1, <1>4, <1>5

-----------------------------------------------------------------------------
(* One header or chunk further *)

\* A step of sync_until at height k: the chain has the header there, and goes on
\* with the next one or is done.
LEMMA CatchUp ==
  ASSUME LockInv, SyncTypes, NEW i \in Interface, Searching(i), lock = i, pc[i] \notin {"wait", "lock"},
         NEW k \in 0 .. Height[target[i]], NEW what \in Lasts, Stepped(i, what, k + 1),
         last[i] # what \/ at[i] # k + 1,
         tips' \in Seq(Header), NEW c \in 1 .. Len(tips'), chain' = [chain EXCEPT ![i] = c],
         \/ tips'[c] = HeaderAt(target[i], k)
         \/ k = Height[target[i]] /\ OnBranch(target[i], tips'[c]),
         UNCHANGED <<server, target>>
  PROVE  SyncTypes' /\ Searching(i)' /\ Done(i) /\ Alone(i)
<1>1. /\ target[i] \in Header /\ Height[target[i]] \in Nat /\ k \in Nat
      /\ Len(tips') \in Nat /\ Len(tips') >= 1 /\ c \in Nat /\ c # 0 /\ c <= Len(tips')
  <2>1. target[i] \in Header
    BY DEF SyncTypes
  <2>2. Height[target[i]] \in Nat
    BY <2>1, HeaderTypes
  <2>3. Len(tips') \in Nat
    BY LenProperties
  <2> QED BY <2>1, <2>2, <2>3
<1>2. chain' \in [Interface -> Nat] /\ chain'[i] = c /\ \A j \in Interface : j # i => chain'[j] = chain[j]
  BY <1>1 DEF SyncTypes
<1>3. CASE k + 1 > Height[target[i]] /\ Release(i)
  <2>1. k = Height[target[i]]
    BY <1>1, <1>3
  <2>2. OnBranch(target[i], tips'[c])
    BY <1>1, <2>1, AtTop, OnSelf
  <2>3. SyncTypes'
    BY <1>1, <1>2, <1>3, HeaderTypes DEF SyncTypes, Release, Set, Lasts
  <2>4. pc'[i] = "wait"
    BY <1>3 DEF Release, Set, LockInv, PcType
  <2>5. Searching(i)'
    BY <1>1, <1>2, <2>4 DEF Searching
  <2>6. Alone(i)
    BY <1>2, <1>3 DEF Release, Set, LockInv, PcType, Alone
  <2> QED BY <1>2, <2>2, <2>3, <2>5, <2>6 DEF Done
<1>4. CASE /\ k + 1 <= Height[target[i]]
           /\ pc' = Set(pc, i, "sync") /\ at' = Set(at, i, k + 1)
           /\ last' = Set(last, i, IF last[i] = "first" THEN "none" ELSE what)
           /\ probe' = Set(probe, i, 0) /\ good' = Set(good, i, 0) /\ bad' = Set(bad, i, Genesis)
           /\ UNCHANGED lock
  <2>1. tips'[c] = HeaderAt(target[i], k)
    BY <1>1, <1>4
  <2>2. SyncTypes'
    BY <1>1, <1>2, <1>4, HeaderTypes DEF SyncTypes, Set, Lasts
  <2>3. pc'[i] = "sync" /\ at'[i] = k + 1
    BY <1>4 DEF Set, LockInv, PcType, SyncTypes
  <2>4. at'[i] \in 1 .. Height[target[i]] /\ at'[i] - 1 = k
    BY <1>1, <1>4, <2>3
  <2>5. Searching(i)'
    BY <1>1, <1>2, <2>1, <2>3, <2>4 DEF Searching
  <2>6. Alone(i)
    BY <1>2, <1>4 DEF Set, LockInv, PcType, Alone
  <2> QED BY <1>4, <2>2, <2>5, <2>6 DEF Done
<1>5. Reached(i, k + 1) <=> k + 1 > Height[target[i]]
  BY DEF Reached
<1> QED BY <1>1, <1>3, <1>4, <1>5 DEF Stepped

\* save_header of the header at height k of the announced branch
LEMMA SaveGood ==
  ASSUME SInv, NEW i \in Interface, lock = i, pc[i] \notin {"wait", "lock"},
         NEW k \in 0 .. Height[target[i]], NEW c \in Below(HeaderAt(target[i], k)),
         last[i] # "catchup" \/ at[i] # k + 1,
         Save(i, c, HeaderAt(target[i], k)), UNCHANGED <<server, target>>
  PROVE  Good(i) /\ Alone(i)
<1> DEFINE h == HeaderAt(target[i], k)
<1>1. h \in Header /\ Height[h] = k
  BY AtType DEF SInv, SyncTypes
<1> HIDE DEF h
<1>2. /\ c \in Chains /\ OnBranch(tips[c], h) /\ tips[c] # h
      /\ tips' = [tips EXCEPT ![c] = h] /\ chain' = [chain EXCEPT ![i] = c]
      /\ Stepped(i, "catchup", k + 1)
  BY <1>1, BelowOn DEF SInv, Save, Set, h
<1>3. TipsApart' /\ Grow /\ tips' \in Seq(Header) /\ Len(tips') = Len(tips) /\ tips'[c] = h
  BY <1>1, <1>2, ExtendApart DEF SInv
<1>4. c \in 1 .. Len(tips') /\ "catchup" \in Lasts
  BY <1>2, <1>3 DEF Chains, Lasts
<1>5. SyncTypes' /\ Searching(i)' /\ Done(i) /\ Alone(i)
  BY <1>2, <1>3, <1>4, CatchUp DEF SInv, h
<1> QED BY <1>3, <1>5 DEF Good

\* network.get_local_height: one of the chains is the longest.
LEMMA LongestChain ==
  ASSUME SyncTypes
  PROVE  LocalMax \in Nat /\ \A c \in Chains : Height[tips[c]] <= LocalMax
<1> DEFINE H(c) == Height[tips[c]]
           Top(n) == \E c \in 1 .. n : \A d \in 1 .. n : H(d) <= H(c)
           Bad == {n \in Chains : ~Top(n)}
<1>1. Len(tips) \in Nat /\ Len(tips) >= 1 /\ Chains = 1 .. Len(tips)
  BY DEF SyncTypes, Chains
<1>2. \A c \in Chains : H(c) \in Nat
  BY TipType, HeaderTypes
<1> HIDE DEF H
<1> HIDE DEF Top
<1>3. Bad = {}
  <2> SUFFICES ASSUME Bad # {} PROVE FALSE
    OBVIOUS
  <2>1. Bad \in SUBSET Nat
    BY <1>1
  <2>2. PICK m \in Bad : \A n \in Bad : m <= n
    <3> HIDE DEF Bad
    <3> QED BY <2>1, Least
  <2>3. m \in Nat /\ m >= 1 /\ m <= Len(tips) /\ ~Top(m)
    BY <1>1
  <2>4. m # 1
    <3> SUFFICES Top(1)
      BY <2>3
    <3>1. 1 \in Chains
      BY <1>1
    <3> QED BY <1>2, <3>1 DEF Top
  <2>5. m - 1 \in Chains /\ m - 1 \in Nat /\ ~(m <= m - 1)
    BY <1>1, <2>3, <2>4
  <2>6. Top(m - 1)
    BY <2>2, <2>5
  <2>7. PICK c \in 1 .. (m - 1) : \A d \in 1 .. (m - 1) : H(d) <= H(c)
    BY <2>6 DEF Top
  <2>8. \A d \in 1 .. m : d \in Chains /\ (d = m \/ d \in 1 .. (m - 1))
    BY <1>1, <2>3
  <2>9. c \in 1 .. m /\ m \in 1 .. m
    BY <2>3, <2>5
  <2>10. H(m) \in Nat /\ H(c) \in Nat
    BY <1>2, <2>8, <2>9
  <2>11. CASE H(m) <= H(c)
    <3>1. \A d \in 1 .. m : H(d) <= H(c)
      BY <2>7, <2>8, <2>11
    <3> QED BY <2>3, <2>9, <3>1 DEF Top
  <2>12. CASE H(c) <= H(m)
    <3>1. \A d \in 1 .. m : H(d) <= H(m)
      BY <1>2, <2>7, <2>8, <2>10, <2>12
    <3> QED BY <2>3, <2>9, <3>1 DEF Top
  <2> QED BY <2>10, <2>11, <2>12
<1>4. PICK c \in Chains : \A d \in Chains : H(d) <= H(c)
  <2>1. Len(tips) \in Chains /\ Top(Len(tips))
    BY <1>1, <1>3
  <2> QED BY <1>1, <2>1 DEF Top
<1>5. \E m \in {Height[tips[d]] : d \in Chains} : \A d \in Chains : Height[tips[d]] <= m
  <2>1. Height[tips[c]] \in {Height[tips[d]] : d \in Chains}
    OBVIOUS
  <2> QED BY <1>4, <2>1 DEF H
<1>6. /\ LocalMax \in {Height[tips[d]] : d \in Chains}
      /\ \A d \in Chains : Height[tips[d]] <= LocalMax
  BY <1>5 DEF LocalMax
<1> QED BY <1>2, <1>6 DEF H

\* step on the announced header itself
LEMMA FirstGood ==
  ASSUME SInv, NEW i \in Interface, FirstStep(i)
  PROVE  Good(i) /\ Alone(i)
<1>1. /\ pc[i] = "first" /\ lock = i /\ Step(i, target[i]) /\ UNCHANGED <<server, target>>
      /\ last[i] = "first" /\ Searching(i)
  BY DEF FirstStep, SInv, LockInv, OneSearches, Searching
<1>2. /\ target[i] \in Header /\ target[i] # Genesis /\ Height[target[i]] \in Nat
      /\ HeaderAt(target[i], Height[target[i]]) = target[i]
  BY <1>1, AtTop, HeaderTypes DEF SInv, SyncTypes, Searching
<1>3. ASSUME NEW c \in Having(target[i]), chain' = Set(chain, i, c),
             Stepped(i, "catchup", Height[target[i]] + 1), UNCHANGED tips
      PROVE  Good(i) /\ Alone(i)
  <2>1. c \in Chains /\ OnBranch(target[i], tips'[c])
    BY <1>3 DEF Having
  <2>2. TipsApart' /\ Grow /\ tips' \in Seq(Header) /\ c \in 1 .. Len(tips') /\ "catchup" \in Lasts
    BY <1>3, <2>1, TipType, OnSelf DEF SInv, TipsApart, Grow, SyncTypes, Chains, Lasts
  <2>3. /\ chain' = [chain EXCEPT ![i] = c] /\ last[i] # "catchup" /\ pc[i] \notin {"wait", "lock"}
        /\ Height[target[i]] \in 0 .. Height[target[i]]
    BY <1>1, <1>2, <1>3 DEF Set
  <2>4. SyncTypes' /\ Searching(i)' /\ Done(i) /\ Alone(i)
    BY <1>1, <1>3, <2>1, <2>2, <2>3, CatchUp DEF SInv
  <2> QED BY <2>2, <2>4 DEF Good
<1>4. ASSUME NEW c \in Below(target[i]), Save(i, c, target[i])
      PROVE  Good(i) /\ Alone(i)
  <2>1. Height[target[i]] \in 0 .. Height[target[i]]
    BY <1>2
  <2> QED BY <1>1, <1>2, <1>4, <2>1, SaveGood
<1>5. ASSUME ~Known(target[i]), bad' = Set(bad, i, target[i]), probe' = Set(probe, i, FirstProbe(target[i])),
             pc' = Set(pc, i, "backward"), UNCHANGED <<tips, lock, chain, at, last, good>>
      PROVE  Good(i) /\ Alone(i)
  <2>1. FirstProbe(target[i]) \in Int /\ FirstProbe(target[i]) < Height[target[i]]
    BY <1>2, LongestChain DEF FirstProbe, SInv
  <2>2. TipsApart' /\ Grow /\ Alone(i) /\ Done(i)
    BY <1>1, <1>5, TipType, OnSelf DEF SInv, TipsApart, Grow, SyncTypes, Chains, Alone, Done, Set, LockInv, PcType
  <2>3. SyncTypes'
    BY <1>1, <1>2, <1>5, <2>1 DEF SInv, SyncTypes, Set
  <2>4. pc'[i] = "backward" /\ bad'[i] = target[i] /\ probe'[i] < Height[target[i]]
    BY <1>5, <2>1 DEF SInv, SyncTypes, Set, LockInv, PcType
  <2>5. OnBranch(target[i], target[i])
    BY <1>2, OnSelf
  <2>6. ~Known(target[i])'
    BY <1>1, <1>5 DEF Known, Having, Chains
  <2>7. Searching(i)'
    BY <1>1, <1>2, <1>5, <2>4, <2>5, <2>6 DEF Searching, Known, Having, Chains
  <2> QED BY <2>2, <2>3, <2>7 DEF Good
<1> QED BY <1>1, <1>3, <1>4, <1>5 DEF Step

-----------------------------------------------------------------------------
(* The searches *)

LEMMA SameTips ==
  ASSUME SInv, UNCHANGED tips
  PROVE  /\ TipsApart' /\ Grow /\ tips' \in Seq(Header) /\ Chains' = Chains
         /\ Chains = 1 .. Len(tips') /\ \A h : Known(h)' <=> Known(h)
BY TipType, OnSelf DEF SInv, TipsApart, Grow, SyncTypes, Chains, Known, Having

\* Every chain starts at the checkpoint.
LEMMA GenesisKnown == ASSUME SyncTypes PROVE Known(Genesis)
<1>1. 1 \in Chains
  BY DEF SyncTypes, Chains
<1> QED BY <1>1, TipType, OnGenesis DEF Known, Having

\* What a server answers while an interface works is on the announced branch.
LEMMA AnswerOn ==
  ASSUME SInv, NEW i \in Interface, pc[i] # "wait", NEW k \in 0 .. Height[target[i]]
  PROVE  /\ Answers(i, k) /\ Answer(i, k) = HeaderAt(target[i], k)
         /\ Answer(i, k) \in Header /\ Height[Answer(i, k)] = k /\ OnBranch(Answer(i, k), target[i])
<1>1. target[i] \in Header /\ server[i] \in Header /\ OnBranch(target[i], server[i])
  BY DEF SInv, SyncTypes, Searching
<1>2. HeaderAt(server[i], k) = HeaderAt(target[i], k)
  BY <1>1, AtOn
<1>3. Height[target[i]] <= Height[server[i]] /\ Height[target[i]] \in Nat /\ Height[server[i]] \in Nat
  BY <1>1, HeaderTypes DEF OnBranch
<1> QED BY <1>1, <1>2, <1>3, AtType, OnAt DEF Answer, Answers

\* What holds of the search of the holder while it looks for the fork
LEMMA BadHeader ==
  ASSUME SInv, NEW i \in Interface, pc[i] \in {"backward", "binary", "resolve"}
  PROVE  /\ lock = i /\ last[i] = "first" /\ ~Known(bad[i]) /\ OnBranch(bad[i], target[i])
         /\ bad[i] \in Header /\ bad[i] # Genesis /\ Height[bad[i]] \in Nat /\ Height[bad[i]] >= 1
         /\ target[i] \in Header /\ Height[target[i]] \in Nat /\ Height[bad[i]] <= Height[target[i]]
<1>1. /\ lock = i /\ last[i] = "first" /\ ~Known(bad[i]) /\ OnBranch(bad[i], target[i])
      /\ bad[i] \in Header /\ target[i] \in Header
  BY DEF SInv, LockInv, OneSearches, Searching, SyncTypes
<1>2. bad[i] # Genesis
  BY <1>1, GenesisKnown DEF SInv
<1>3. Height[bad[i]] \in Nat /\ Height[target[i]] \in Nat /\ Height[bad[i]] # 0
  BY <1>1, <1>2, HeaderTypes, GenesisLow
<1> QED BY <1>1, <1>2, <1>3 DEF OnBranch

LEMMA BackwardGood ==
  ASSUME SInv, NEW i \in Interface, Backward(i)
  PROVE  Good(i) /\ Alone(i)
<1>0. PICK k : k = IF probe[i] <= 0 THEN 0 ELSE probe[i]
  OBVIOUS
<1>8. PICK h : h = Answer(i, k)
  OBVIOUS
<1>1. pc[i] = "backward" /\ UNCHANGED <<server, target>> /\ Searching(i) /\ pc \in [Interface -> Places]
  BY DEF Backward, SInv, LockInv, PcType
<1>2. k \in Nat /\ k < Height[bad[i]] /\ k \in 0 .. Height[target[i]]
  BY <1>0, <1>1, BadHeader DEF Searching, SInv, SyncTypes
<1>3. /\ h = HeaderAt(target[i], k) /\ h \in Header /\ Height[h] = k /\ OnBranch(h, target[i])
      /\ Height[h] \in 0 .. Height[target[i]]
  BY <1>8, <1>1, <1>2, AnswerOn
<1>4. \/ \E c \in Below(h) : Save(i, c, h)
      \/ /\ \E c \in Having(h) : chain' = Set(chain, i, c)
         /\ good' = Set(good, i, k) /\ pc' = Set(pc, i, "binary")
         /\ UNCHANGED <<tips, lock, at, last, probe, bad>>
      \/ /\ ~Known(h) /\ bad' = Set(bad, i, h)
         /\ probe' = Set(probe, i, Height[target[i]] - 2 * (Height[target[i]] - k))
         /\ UNCHANGED <<tips, lock, pc, chain, at, last, good>>
  BY <1>0, <1>8 DEF Backward
<1>5. CASE \E c \in Below(h) : Save(i, c, h)
  BY <1>1, <1>2, <1>3, <1>5, BadHeader, SaveGood
<1>6. ASSUME NEW c \in Having(h), chain' = Set(chain, i, c), good' = Set(good, i, k),
             pc' = Set(pc, i, "binary"), UNCHANGED <<tips, lock, at, last, probe, bad>>
      PROVE  Good(i) /\ Alone(i)
  <2>1. c \in Chains /\ OnBranch(h, tips[c])
    BY DEF Having
  <2>2. c \in Nat /\ c # 0 /\ c <= Len(tips)
    BY <2>1 DEF Chains, SInv, SyncTypes
  <2>3. HeaderAt(bad[i], k) = h
    <3>1. k \in 0 .. Height[bad[i]]
      BY <1>1, <1>2, BadHeader
    <3> QED BY <1>1, <1>3, <3>1, BadHeader, AtOn
  <2>4. SyncTypes' /\ Alone(i)
    BY <1>1, <1>2, <1>6, <2>2 DEF SInv, SyncTypes, Set, Alone
  <2>5. pc'[i] = "binary" /\ chain'[i] = c /\ good'[i] = k
    BY <1>1, <1>6 DEF Set, SInv, SyncTypes
  <2>6. Searching(i)'
    BY <1>1, <1>2, <1>6, <2>1, <2>2, <2>3, <2>5, SameTips DEF Searching
  <2> QED BY <1>1, <1>6, <2>4, <2>6, SameTips, BadHeader DEF Good, Done
<1>7. ASSUME ~Known(h), bad' = Set(bad, i, h),
             probe' = Set(probe, i, Height[target[i]] - 2 * (Height[target[i]] - k)),
             UNCHANGED <<tips, lock, pc, chain, at, last, good>>
      PROVE  Good(i) /\ Alone(i)
  <2>1. Height[target[i]] \in Nat /\ k < Height[target[i]]
    BY <1>1, <1>2, BadHeader
  <2>2. /\ Height[target[i]] - 2 * (Height[target[i]] - k) \in Int
        /\ Height[target[i]] - 2 * (Height[target[i]] - k) < k
    BY <1>2, <2>1
  <2>3. SyncTypes' /\ Alone(i)
    BY <1>1, <1>3, <1>7, <2>2 DEF SInv, SyncTypes, Set, Alone
  <2>4. bad'[i] = h /\ probe'[i] < k
    BY <1>7, <2>2 DEF Set, SInv, SyncTypes
  <2>5. ~Known(h)'
    BY <1>7, SameTips
  <2>6. ~Known(bad[i])'
    BY <2>4, <2>5
  <2>7. Searching(i)'
    BY <1>1, <1>3, <1>7, <2>4, <2>5, <2>6 DEF Searching
  <2> QED BY <1>1, <1>7, <2>3, <2>7, SameTips, BadHeader DEF Good, Done
<1> QED BY <1>4, <1>5, <1>6, <1>7

LEMMA BinaryGood ==
  ASSUME SInv, NEW i \in Interface, Binary(i)
  PROVE  Good(i) /\ Alone(i)
<1>1. /\ pc[i] = "binary" /\ UNCHANGED <<tips, server, lock, target, at, last, probe>>
      /\ Searching(i) /\ pc \in [Interface -> Places] /\ lock = i
  BY DEF Binary, SInv, LockInv, PcType, OneSearches
<1>2. /\ good[i] \in Nat /\ good[i] < Height[bad[i]] /\ bad[i] \in Header /\ OnBranch(bad[i], target[i])
      /\ Height[bad[i]] \in Nat /\ Height[target[i]] \in Nat /\ Height[bad[i]] <= Height[target[i]]
      /\ target[i] \in Header /\ ~Known(bad[i])
  BY <1>1, BadHeader DEF Searching, SInv, SyncTypes
<1>3. PICK m : m = Middle(i)
  OBVIOUS
<1>4. m \in Nat /\ good[i] <= m /\ m < Height[bad[i]]
  BY <1>2, <1>3 DEF Middle
<1>5. PICK h : h = Answer(i, m)
  OBVIOUS
<1>6. /\ h = HeaderAt(target[i], m) /\ h \in Header /\ Height[h] = m /\ OnBranch(h, target[i])
      /\ h = HeaderAt(bad[i], m) /\ HeaderAt(h, good[i]) = HeaderAt(bad[i], good[i])
  <2>1. m \in 0 .. Height[target[i]] /\ m \in 0 .. Height[bad[i]] /\ good[i] \in 0 .. m
    BY <1>2, <1>4
  <2>2. /\ h = HeaderAt(target[i], m) /\ h \in Header /\ Height[h] = m /\ OnBranch(h, target[i])
    BY <1>1, <1>5, <2>1, AnswerOn
  <2>3. h = HeaderAt(bad[i], m)
    BY <1>2, <2>1, <2>2, AtOn
  <2>4. HeaderAt(h, good[i]) = HeaderAt(bad[i], good[i])
    BY <1>2, <2>1, <2>3, AtAt
  <2> QED BY <2>2, <2>3, <2>4
<1>7. /\ \/ (\E c \in Having(h) : chain' = Set(chain, i, c)) /\ good' = Set(good, i, m) /\ UNCHANGED bad
         \/ ~Known(h) /\ bad' = Set(bad, i, h) /\ UNCHANGED <<good, chain>>
      /\ pc' = Set(pc, i, IF Closed(good'[i], bad'[i]) THEN "resolve" ELSE "binary")
  BY <1>3, <1>5 DEF Binary
<1>8. /\ pc'[i] \in {"binary", "resolve"} /\ \A j \in Interface : j # i => pc'[j] = pc[j]
      /\ pc'[i] = "resolve" => good'[i] + 1 = Height[bad'[i]]
  BY <1>1, <1>7 DEF Set, Closed
<1>9. ASSUME NEW c \in Having(h), chain' = Set(chain, i, c), good' = Set(good, i, m), UNCHANGED bad
      PROVE  Good(i) /\ Alone(i)
  <2>1. c \in Chains /\ OnBranch(h, tips[c])
    BY DEF Having
  <2>2. c \in Nat /\ c # 0 /\ c <= Len(tips)
    BY <2>1 DEF Chains, SInv, SyncTypes
  <2>3. SyncTypes' /\ Alone(i) /\ chain'[i] = c /\ good'[i] = m
    BY <1>1, <1>4, <1>8, <1>9, <2>2 DEF SInv, SyncTypes, Set, Alone
  <2>4. ~Known(bad[i])'
    BY <1>1, <1>2, <1>9, SameTips
  <2>5. Searching(i)'
    BY <1>1, <1>2, <1>4, <1>6, <1>8, <1>9, <2>1, <2>2, <2>3, <2>4 DEF Searching
  <2> QED BY <1>1, <2>3, <2>5, SameTips DEF Good, Done
<1>10. ASSUME ~Known(h), bad' = Set(bad, i, h), UNCHANGED <<good, chain>>
      PROVE  Good(i) /\ Alone(i)
  <2>1. SyncTypes' /\ Alone(i) /\ bad'[i] = h
    BY <1>1, <1>6, <1>8, <1>10 DEF SInv, SyncTypes, Set, Alone
  <2>2. ~Known(bad[i])'
    BY <1>1, <1>10, <2>1, SameTips
  <2>3. OnBranch(HeaderAt(h, good[i]), tips[chain[i]]) /\ chain[i] \in Chains
    BY <1>1, <1>6 DEF Searching, Chains, SInv, SyncTypes
  <2>4. good[i] # m
    <3> SUFFICES ASSUME good[i] = m PROVE FALSE
      OBVIOUS
    <3>1. HeaderAt(h, m) = h
      BY <1>6, AtTop
    <3> QED BY <1>10, <2>3, <3>1 DEF Known, Having
  <2>5. good[i] < m
    BY <1>2, <1>4, <2>4
  <2>6. Searching(i)'
    BY <1>1, <1>2, <1>6, <1>8, <1>10, <2>1, <2>2, <2>3, <2>5 DEF Searching
  <2> QED BY <1>1, <2>1, <2>6, SameTips DEF Good, Done
<1> QED BY <1>7, <1>9, <1>10

\* Once the interval is closed, the assertions of the fork resolution hold.
LEMMA ClosedResolves ==
  ASSUME SInv, NEW i \in Interface, pc[i] = "resolve"
  PROVE  Resolvable(i) /\ chain[i] \in Chains
<1>1. /\ bad[i] \in Header /\ bad[i] # Genesis /\ ~Known(bad[i]) /\ good[i] \in Nat
      /\ good[i] + 1 = Height[bad[i]] /\ OnBranch(HeaderAt(bad[i], good[i]), tips[chain[i]])
      /\ chain[i] \in Nat /\ chain[i] # 0 /\ chain[i] <= Len(tips)
  BY BadHeader DEF SInv, Searching, SyncTypes
<1>2. Prev[bad[i]] = HeaderAt(bad[i], good[i])
  BY <1>1, OnPrev
<1>3. chain[i] \in Chains
  BY <1>1 DEF Chains, SInv, SyncTypes
<1> QED BY <1>1, <1>2, <1>3 DEF Resolvable

LEMMA NoForkGood ==
  ASSUME SInv, NEW i \in Interface, NoFork(i)
  PROVE  Good(i) /\ Alone(i)
<1>1. /\ pc[i] = "resolve" /\ AtTip(i) /\ Stepped(i, "no_fork", Height[bad[i]])
      /\ UNCHANGED <<tips, server, target, chain>> /\ Searching(i)
  BY DEF NoFork, SInv
<1>2. PICK k : k = Height[bad[i]] - 1
  OBVIOUS
<1>3. k \in 0 .. Height[target[i]] /\ Height[bad[i]] = k + 1 /\ k \in 0 .. Height[bad[i]]
  BY <1>1, <1>2, BadHeader
<1>4. tips'[chain[i]] = HeaderAt(target[i], k)
  <2>1. tips[chain[i]] = HeaderAt(bad[i], k)
    BY <1>1, <1>2, BadHeader, OnPrev DEF AtTip
  <2>2. HeaderAt(bad[i], k) = HeaderAt(target[i], k)
    BY <1>1, <1>3, BadHeader, AtOn
  <2> QED BY <1>1, <2>1, <2>2
<1>5. /\ chain[i] \in 1 .. Len(tips') /\ chain' = [chain EXCEPT ![i] = chain[i]]
      /\ "no_fork" \in Lasts /\ last[i] # "no_fork" /\ lock = i
  BY <1>1, ClosedResolves, BadHeader DEF Chains, SInv, SyncTypes, Lasts
<1>6. TipsApart' /\ Grow /\ tips' \in Seq(Header)
  BY <1>1, SameTips
<1>7. SyncTypes' /\ Searching(i)' /\ Done(i) /\ Alone(i)
  BY <1>1, <1>3, <1>4, <1>5, <1>6, CatchUp DEF SInv
<1> QED BY <1>6, <1>7 DEF Good

LEMMA ForkGood ==
  ASSUME SInv, NEW i \in Interface, ForkChain(i)
  PROVE  Good(i) /\ Alone(i)
<1>1. /\ pc[i] = "resolve" /\ ~AtTip(i) /\ Stepped(i, "fork", Height[bad[i]] + 1)
      /\ tips' = Append(tips, bad[i]) /\ chain' = [chain EXCEPT ![i] = Len(tips')]
      /\ UNCHANGED <<server, target>> /\ Searching(i)
  BY DEF ForkChain, SInv, Set
<1>2. /\ chain[i] \in Chains /\ OnBranch(Prev[bad[i]], tips[chain[i]]) /\ tips[chain[i]] # Prev[bad[i]]
  BY <1>1, ClosedResolves DEF Resolvable, AtTip
<1>3. /\ TipsApart' /\ Grow /\ tips' \in Seq(Header) /\ Len(tips') = Len(tips) + 1
      /\ tips'[Len(tips')] = bad[i]
  BY <1>1, <1>2, BadHeader, ForkApart DEF SInv
<1>4. Height[bad[i]] \in 0 .. Height[target[i]] /\ HeaderAt(target[i], Height[bad[i]]) = bad[i]
  BY <1>1, BadHeader DEF OnBranch
<1>5. Len(tips') \in 1 .. Len(tips') /\ "fork" \in Lasts /\ last[i] # "fork" /\ lock = i
  BY <1>1, <1>3, BadHeader DEF SInv, SyncTypes, Lasts
<1>6. SyncTypes' /\ Searching(i)' /\ Done(i) /\ Alone(i)
  BY <1>1, <1>3, <1>4, <1>5, CatchUp DEF SInv
<1> QED BY <1>3, <1>6 DEF Good

-----------------------------------------------------------------------------
(* sync_until *)

\* sync_until asks for the header above the tip of its chain, or a chunk with it.
LEMMA CatchUpAt ==
  ASSUME SInv, NEW i \in Interface, pc[i] \in {"sync", "one"}
  PROVE  /\ lock = i /\ chain[i] \in Chains /\ at[i] \in 0 .. Height[target[i]] /\ at[i] >= 1
         /\ at[i] \in Nat /\ Height[target[i]] \in Nat /\ target[i] \in Header
         /\ tips[chain[i]] = HeaderAt(target[i], at[i] - 1) /\ tips[chain[i]] \in Header
         /\ Height[tips[chain[i]]] = at[i] - 1 /\ OnBranch(tips[chain[i]], target[i])
<1>1. /\ lock = i /\ chain[i] \in Nat /\ chain[i] # 0 /\ chain[i] <= Len(tips)
      /\ at[i] \in 1 .. Height[target[i]] /\ target[i] \in Header
      /\ tips[chain[i]] = HeaderAt(target[i], at[i] - 1)
  BY DEF SInv, LockInv, OneSearches, Searching, SyncTypes
<1>2. Height[target[i]] \in Nat
  BY <1>1, HeaderTypes
<1>3. at[i] - 1 \in 0 .. Height[target[i]]
  BY <1>1, <1>2
<1>4. chain[i] \in Chains
  BY <1>1 DEF Chains, SInv, SyncTypes
<1> QED BY <1>1, <1>2, <1>3, <1>4, AtType, OnAt

LEMMA SyncHeaderGood ==
  ASSUME SInv, NEW i \in Interface, SyncHeader(i)
  PROVE  Good(i) /\ Alone(i)
<1>1. /\ pc[i] \in {"sync", "one"} /\ Step(i, Answer(i, at[i])) /\ UNCHANGED <<server, target>>
  BY DEF SyncHeader
<1>2. PICK h : h = Answer(i, at[i])
  OBVIOUS
<1>3. h = HeaderAt(target[i], at[i]) /\ h \in Header /\ Height[h] = at[i] /\ OnBranch(h, target[i])
  BY <1>1, <1>2, CatchUpAt, AnswerOn
<1>4. h # Genesis /\ Prev[h] = tips[chain[i]] /\ chain[i] \in Below(h)
  <2>1. h # Genesis
    BY <1>1, <1>3, CatchUpAt, HeaderTypes
  <2>2. Prev[h] = HeaderAt(h, at[i] - 1)
    BY <1>3, <2>1, OnPrev
  <2>3. at[i] - 1 \in 0 .. at[i]
    BY <1>1, CatchUpAt
  <2>4. HeaderAt(h, at[i] - 1) = HeaderAt(target[i], at[i] - 1)
    BY <1>1, <1>3, <2>3, CatchUpAt, AtOn
  <2> QED BY <1>1, <2>1, <2>2, <2>4, CatchUpAt DEF Below
<1>5. ~Known(h) /\ Connects(h)
  BY <1>3, <1>4, BelowOn DEF SInv, Connects
<1>6. PICK c \in Below(h) : Save(i, c, h)
  BY <1>1, <1>2, <1>5 DEF Step, Known
<1>7. at[i] # at[i] + 1
  BY <1>1, CatchUpAt
<1> QED BY <1>1, <1>3, <1>6, <1>7, CatchUpAt, SaveGood

\* A chunk that starts below height k ends at k or above.
LEMMA ChunkReaches ==
  ASSUME NEW k \in Nat, k >= 1
  PROVE  ChunkBase(k) + ChunkLen >= k /\ ChunkBase(k) + ChunkLen \in Nat
<1>1. ChunkLen \in Nat /\ ChunkLen >= 1 /\ k - 1 \in Nat
  BY SyncAssumption
<1>2. /\ (k - 1) \div ChunkLen \in Nat
      /\ k - 1 = ChunkLen * ((k - 1) \div ChunkLen) + ((k - 1) % ChunkLen)
      /\ (k - 1) % ChunkLen \in 0 .. (ChunkLen - 1)
  BY <1>1
<1> QED BY <1>1, <1>2 DEF ChunkBase

LEMMA SyncChunkGood ==
  ASSUME SInv, NEW i \in Interface, SyncChunk(i)
  PROVE  Good(i) /\ Alone(i)
<1>1. pc[i] = "sync" /\ ~Near(i) /\ UNCHANGED <<server, target>> /\ Searching(i) /\ pc \in [Interface -> Places]
  BY DEF SyncChunk, SInv, LockInv, PcType
<1>2. PICK k : k = ChunkEnd(i)
  OBVIOUS
<1>3. k \in 0 .. Height[target[i]] /\ at[i] <= k /\ k \in Nat
  BY <1>1, <1>2, CatchUpAt, ChunkReaches DEF ChunkEnd
<1>4. PICK h : h = Answer(i, k)
  OBVIOUS
<1>5. h = HeaderAt(target[i], k) /\ h \in Header /\ Height[h] = k /\ OnBranch(h, target[i])
  BY <1>1, <1>3, <1>4, AnswerOn
<1>6. \/ /\ \E x \in Kept(tips[chain[i]], h) : tips' = Set(tips, chain[i], x)
         /\ Stepped(i, "catchup", k + 1)
         /\ UNCHANGED chain
      \/ /\ pc' = Set(pc, i, "one") /\ last' = Set(last, i, "none")
         /\ UNCHANGED <<tips, lock, chain, at, probe, good, bad>>
  BY <1>2, <1>4, <1>5 DEF SyncChunk
<1>7. ASSUME NEW x \in Kept(tips[chain[i]], h), tips' = Set(tips, chain[i], x),
             Stepped(i, "catchup", k + 1), UNCHANGED chain
      PROVE  Good(i) /\ Alone(i)
  <2>1. Height[tips[chain[i]]] < k
    BY <1>1, <1>3, CatchUpAt
  <2>2. ~OnBranch(h, tips[chain[i]]) /\ tips[chain[i]] # h
    BY <1>1, <1>3, <1>5, <2>1, CatchUpAt DEF OnBranch
  <2>3. x = h
    BY <2>2 DEF Kept
  <2>4. OnBranch(tips[chain[i]], h)
    BY <1>1, <1>3, <1>5, <2>1, CatchUpAt, OnCompare
  <2>5. tips' = [tips EXCEPT ![chain[i]] = h]
    BY <1>7, <2>3 DEF Set
  <2>6. /\ TipsApart' /\ Grow /\ tips' \in Seq(Header) /\ Len(tips') = Len(tips) /\ tips'[chain[i]] = h
    BY <1>1, <1>5, <2>2, <2>4, <2>5, CatchUpAt, ExtendApart DEF SInv
  <2>7. /\ chain[i] \in 1 .. Len(tips') /\ chain' = [chain EXCEPT ![i] = chain[i]]
        /\ "catchup" \in Lasts /\ at[i] # k + 1
    BY <1>1, <1>3, <1>7, <2>6, CatchUpAt DEF Chains, SInv, SyncTypes, Lasts
  <2>8. SyncTypes' /\ Searching(i)' /\ Done(i) /\ Alone(i)
    BY <1>1, <1>3, <1>5, <1>7, <2>6, <2>7, CatchUpAt, CatchUp DEF SInv
  <2> QED BY <2>6, <2>8 DEF Good
<1>8. ASSUME pc' = Set(pc, i, "one"), last' = Set(last, i, "none"),
             UNCHANGED <<tips, lock, chain, at, probe, good, bad>>
      PROVE  Good(i) /\ Alone(i)
  <2>1. SyncTypes' /\ Alone(i) /\ pc'[i] = "one"
    BY <1>1, <1>8 DEF SInv, SyncTypes, Set, Alone, Lasts
  <2>2. Searching(i)'
    BY <1>1, <1>8, <2>1 DEF Searching
  <2> QED BY <1>1, <1>8, <2>1, <2>2, SameTips, CatchUpAt DEF Good, Done
<1> QED BY <1>6, <1>7, <1>8

\* No assertion fails, and no server has fewer headers than it is asked for.
LEMMA NothingRaises ==
  ASSUME SInv, NEW i \in Interface
  PROVE  ~SearchRaises(i) /\ ~Refused(i)
<1>1. Searching(i)
  BY DEF SInv
<1>2. ASSUME pc[i] = "binary" PROVE good[i] < Height[bad[i]] /\ Middle(i) \in 0 .. Height[target[i]]
  <2>1. good[i] \in Nat /\ good[i] < Height[bad[i]] /\ Height[bad[i]] \in Nat
        /\ Height[target[i]] \in Nat /\ Height[bad[i]] <= Height[target[i]]
    BY <1>1, <1>2, BadHeader DEF Searching, SInv, SyncTypes
  <2> QED BY <2>1 DEF Middle
<1>3. ~SearchRaises(i)
  <2>1. pc[i] = "binary" => good[i] \in Nat /\ Height[bad[i]] \in Nat
    BY <1>2, BadHeader DEF SInv, SyncTypes
  <2> QED BY <1>1, <1>2, <2>1, ClosedResolves DEF SearchRaises, Searching
<1>4. ASSUME Asking(i) PROVE Answers(i, Wanted(i))
  <2>1. CASE pc[i] = "backward"
    <3>1. probe[i] \in Int /\ probe[i] < Height[target[i]]
      BY <1>1, <2>1, BadHeader DEF Searching, SInv, SyncTypes
    <3>2. (IF probe[i] <= 0 THEN 0 ELSE probe[i]) \in 0 .. Height[target[i]]
      BY <2>1, <3>1, BadHeader
    <3> QED BY <2>1, <3>2, AnswerOn DEF Wanted
  <2>2. CASE pc[i] = "binary"
    BY <1>2, <2>2, AnswerOn DEF Wanted
  <2>3. CASE pc[i] \in {"sync", "one"}
    <3>1. ChunkEnd(i) \in 0 .. Height[target[i]]
      BY <2>3, CatchUpAt, ChunkReaches DEF ChunkEnd
    <3>2. at[i] \in 0 .. Height[target[i]]
      BY <2>3, CatchUpAt
    <3>3. Wanted(i) = ChunkEnd(i) \/ Wanted(i) = at[i]
      BY <2>3 DEF Wanted
    <3> QED BY <2>3, <3>1, <3>2, <3>3, AnswerOn
  <2> QED BY <1>4, <2>1, <2>2, <2>3 DEF Asking
<1> QED BY <1>3, <1>4 DEF Refused

LEMMA ProcessGood ==
  ASSUME SInv, NEW i \in Interface, Process(i)
  PROVE  Good(i) /\ Alone(i) /\ lock = i
<1>1. Good(i) /\ Alone(i)
  BY FirstGood, BackwardGood, BinaryGood, NoForkGood, ForkGood, SyncHeaderGood, SyncChunkGood, NothingRaises
     DEF Process
<1>2. lock = i
  <2>1. pc[i] \notin {"wait", "lock"}
    BY DEF Process, FirstStep, Backward, Binary, NoFork, ForkChain, SearchRaises, SyncHeader, SyncChunk,
           Refused, Asking
  <2> QED BY <2>1 DEF SInv, LockInv, OneSearches
<1> QED BY <1>1, <1>2

-----------------------------------------------------------------------------
(* The whole *)

\* The others wait meanwhile: what they know of the chains stays true.
LEMMA OthersKeep ==
  ASSUME SInv, NEW i \in Interface, lock = i, Alone(i), Len(tips) <= Len(tips'), tips' \in Seq(Header),
         NEW j \in Interface, j # i
  PROVE  Searching(j)'
<1>1. pc[j] \in {"wait", "lock"} /\ Searching(j) /\ chain[j] \in Nat
  BY DEF SInv, LockInv, OneSearches, SyncTypes
<1>2. pc'[j] = pc[j] /\ chain'[j] = chain[j] /\ target'[j] = target[j] /\ server' = server
  BY DEF Alone
<1>3. Len(tips) \in Nat /\ Len(tips') \in Nat
  BY LenProperties DEF SInv, SyncTypes
<1> QED BY <1>1, <1>2, <1>3 DEF Searching

LEMMA ServerMovesKeeps ==
  ASSUME Stable = TRUE, SInv, NEW i \in Interface, ServerMoves(i)
  PROVE  SyncTypes' /\ TipsApart' /\ \A j \in Interface : Searching(j)'
<1>1. PICK h \in Header : (pc[i] # "wait" => OnBranch(server[i], h)) /\ server' = Set(server, i, h)
  BY DEF ServerMoves
<1>2. UNCHANGED <<tips, pc, target, chain, at, last, probe, good, bad>>
  BY DEF ServerMoves, search
<1>3. SyncTypes' /\ TipsApart'
  BY <1>1, <1>2, SameTips DEF SInv, SyncTypes, Set
<1>4. ASSUME NEW j \in Interface PROVE Searching(j)'
  <2>1. target[j] \in Header /\ server[j] \in Header /\ Searching(j)
    BY DEF SInv, SyncTypes
  <2>2. pc[j] # "wait" => OnBranch(target[j], server'[j])
    <3>1. CASE j = i
      BY <1>1, <2>1, <3>1, OnTrans DEF Searching, Set, SInv, SyncTypes
    <3>2. CASE j # i
      BY <1>1, <2>1, <3>2 DEF Searching, Set, SInv, SyncTypes
    <3> QED BY <3>1, <3>2
  <2>3. ~Known(bad[j])' <=> ~Known(bad[j])
    BY <1>2 DEF Known, Having, Chains
  <2> QED BY <1>2, <2>1, <2>2, <2>3 DEF Searching
<1> QED BY <1>3, <1>4

\* The steps at the lock: they leave the chains and the searches alone.
LEMMA WaitingKeeps ==
  ASSUME SInv, NEW i \in Interface, Announce(i) \/ Skip(i) \/ Acquire(i)
  PROVE  SyncTypes' /\ TipsApart' /\ \A j \in Interface : Searching(j)'
<1>1. UNCHANGED <<tips, server, at, probe, good, bad>>
  BY DEF Announce, Skip, Acquire, search
<1>2. pc \in [Interface -> Places] /\ SyncTypes /\ Searching(i)
  BY DEF SInv, LockInv, PcType
<1>3. CASE Announce(i)
  <2>1. /\ pc'[i] = "lock" /\ target'[i] = server[i] /\ target' \in [Interface -> Header] /\ last' = last
        /\ \A j \in Interface : j # i => pc'[j] = pc[j] /\ target'[j] = target[j]
    BY <1>2, <1>3 DEF Announce, Set, search, SyncTypes
  <2>2. \/ UNCHANGED chain /\ chain[i] # 0
        \/ \E c \in Chains : chain' = [chain EXCEPT ![i] = c]
    BY <1>3 DEF Announce, MarkReady, Having, Set
  <2>3. /\ chain' \in [Interface -> Nat] /\ chain'[i] # 0 /\ chain'[i] <= Len(tips)
        /\ \A j \in Interface : j # i => chain'[j] = chain[j]
    BY <1>2, <2>2 DEF SyncTypes, Chains, Searching
  <2>4. OnBranch(server[i], server[i])
    BY <1>2, OnSelf DEF SyncTypes
  <2>5. SyncTypes' /\ TipsApart'
    BY <1>1, <1>2, <2>1, <2>3, SameTips DEF SyncTypes
  <2>6. Searching(i)'
    BY <1>1, <2>1, <2>3, <2>4 DEF Searching
  <2>7. ASSUME NEW j \in Interface, j # i PROVE Searching(j)'
    BY <1>1, <2>1, <2>3, <2>7 DEF Searching, SInv, Known, Having, Chains
  <2> QED BY <2>5, <2>6, <2>7
<1>4. CASE Skip(i)
  <2>1. UNCHANGED <<target, chain, last>> /\ pc'[i] = "wait" /\ \A j \in Interface : j # i => pc'[j] = pc[j]
    BY <1>2, <1>4 DEF Skip, search, Set
  <2>2. SyncTypes' /\ TipsApart'
    BY <1>1, <1>2, <2>1, SameTips DEF SyncTypes
  <2>3. Searching(i)'
    BY <1>1, <1>2, <2>1 DEF Searching
  <2>4. ASSUME NEW j \in Interface, j # i PROVE Searching(j)'
    BY <1>1, <2>1, <2>4 DEF Searching, SInv, Known, Having, Chains
  <2> QED BY <2>2, <2>3, <2>4
<1>5. CASE Acquire(i)
  <2>1. /\ UNCHANGED <<target, chain>> /\ pc[i] = "lock" /\ pc'[i] = "first" /\ last'[i] = "first"
        /\ last' \in [Interface -> Lasts]
        /\ \A j \in Interface : j # i => pc'[j] = pc[j] /\ last'[j] = last[j]
    BY <1>2, <1>5 DEF Acquire, Set, SyncTypes, Lasts
  <2>2. target[i] # Genesis
    <3>1. chain[i] \in Chains
      BY <1>2, <2>1 DEF Searching, SyncTypes, Chains
    <3> QED BY <1>2, <1>5, <3>1, TipType, OnGenesis DEF Acquire, Amended
  <2>3. SyncTypes' /\ TipsApart'
    BY <1>1, <1>2, <2>1, SameTips DEF SyncTypes
  <2>4. Searching(i)'
    BY <1>1, <1>2, <2>1, <2>2 DEF Searching
  <2>5. ASSUME NEW j \in Interface, j # i PROVE Searching(j)'
    BY <1>1, <2>1, <2>5 DEF Searching, SInv, Known, Having, Chains
  <2> QED BY <2>3, <2>4, <2>5
<1> QED BY <1>3, <1>4, <1>5

LEMMA DropKeeps ==
  ASSUME SInv, NEW i \in Interface, Drop(i)
  PROVE  SyncTypes' /\ TipsApart' /\ \A j \in Interface : Searching(j)'
<1>1. pc \in [Interface -> Places] /\ SyncTypes /\ UNCHANGED <<tips, server>>
  BY DEF Drop, SInv, LockInv, PcType
<1>2. SyncTypes' /\ TipsApart'
  BY <1>1, SameTips, HeaderTypes DEF Drop, Release, Set, SyncTypes, Lasts
<1>3. Searching(i)'
  BY <1>1 DEF Drop, Release, Set, Searching, SyncTypes
<1>4. ASSUME NEW j \in Interface, j # i PROVE Searching(j)'
  <2>1. /\ pc'[j] = pc[j] /\ target'[j] = target[j] /\ chain'[j] = chain[j] /\ last'[j] = last[j]
        /\ at'[j] = at[j] /\ probe'[j] = probe[j] /\ good'[j] = good[j] /\ bad'[j] = bad[j]
    BY <1>1, <1>4 DEF Drop, Release, Set, SyncTypes
  <2> QED BY <1>1, <2>1 DEF Searching, SInv, Known, Having, Chains
<1> QED BY <1>2, <1>3, <1>4

LEMMA SyncStep ==
  ASSUME Stable = TRUE, SInv, [Next]_vars
  PROVE  SInv'
<1>1. LockInv'
  BY LockStep DEF SInv
<1>2. CASE UNCHANGED vars
  <2>1. UNCHANGED <<tips, server, pc, target, chain, at, last, probe, good, bad>>
    BY <1>2 DEF vars, search
  <2> QED BY <1>1, <2>1, SameTips DEF SInv, SyncTypes, Searching, Known, Having, Chains
<1>3. ASSUME NEW i \in Interface, Process(i) PROVE SInv'
  <2>1. Good(i) /\ Alone(i) /\ lock = i
    BY <1>3, ProcessGood
  <2>2. \A j \in Interface : Searching(j)'
    BY <2>1, OthersKeep DEF Good, Grow, SyncTypes
  <2> QED BY <1>1, <2>1, <2>2 DEF Good, SInv
<1> QED BY <1>1, <1>2, <1>3, ServerMovesKeeps, WaitingKeeps, DropKeeps DEF Next, SInv

LEMMA SyncInitially == ASSUME Init PROVE SInv
<1> USE DEF Init, Each
<1>1. LockInv
  BY DEF LockInv, PcType, Places, OneSearches
<1>2. SyncTypes
  BY HeaderTypes DEF SyncTypes, Lasts
<1>3. TipsApart
  BY DEF TipsApart, Chains
<1>4. \A i \in Interface : Searching(i)
  BY DEF Searching
<1> QED BY <1>1, <1>2, <1>3, <1>4 DEF SInv

LEMMA SyncInvariance == ASSUME Stable = TRUE PROVE Spec => []SInv
<1> QED BY SyncInitially, SyncStep, PTL DEF Spec

\* With servers that only extend their chains during a search, the backward and
\* the binary search close in on the fork and no assertion of interface.py fails,
\* for any number of servers that search in turn and any tree of headers.
THEOREM SearchIsSound == ASSUME Stable = TRUE PROVE Spec => []SearchSound
<1>1. SInv => SearchSound
  <2> SUFFICES ASSUME SInv, NEW i \in Interface
               PROVE  /\ pc[i] \in {"backward", "binary", "resolve"} => ~Known(bad[i])
                      /\ pc[i] \in {"binary", "resolve"} =>
                           good[i] < Height[bad[i]] /\ OnBranch(HeaderAt(bad[i], good[i]), tips[chain[i]])
                      /\ pc[i] = "resolve" => Resolvable(i)
                      /\ pc[i] # "stuck"
    BY DEF SearchSound
  <2> QED BY ClosedResolves DEF SInv, Searching
<1> QED BY <1>1, SyncInvariance, PTL

\* step and sync_until extend chains and fork them where they part: none ever
\* becomes a part of another.
THEOREM ChainsStayApart == ASSUME Stable = TRUE PROVE Spec => []TipsApart
<1>1. SInv => TipsApart
  BY DEF SInv
<1> QED BY <1>1, SyncInvariance, PTL

\* No step of a search, no chunk and no other interface takes a header away from
\* a chain: the truncation of save_chunk never bites.
THEOREM ChainsNeverShrink == ASSUME Stable = TRUE PROVE Spec => ChainsOnlyGrow
<1>1. ASSUME SInv, [Next]_vars PROVE [\A c \in Chains : OnBranch(tips[c], tips'[c])]_vars
  <2>1. ASSUME NEW i \in Interface, Process(i) PROVE \A c \in Chains : OnBranch(tips[c], tips'[c])
    BY <1>1, <2>1, ProcessGood DEF Good, Grow
  <2>2. CASE UNCHANGED tips
    BY <1>1, <2>2, SameTips DEF Grow
  <2> QED BY <1>1, <2>1, <2>2 DEF Next, ServerMoves, Announce, Skip, Acquire, Drop
<1> QED BY <1>1, SyncInvariance, PTL DEF Spec, ChainsOnlyGrow

\* When an interface gives bhi_lock back without an error, its chain has the
\* header it was after.
THEOREM SyncedAtTheEnd == ASSUME Stable = TRUE PROVE Spec => SyncedWhenDone
<1>1. ASSUME SInv, [Next]_vars
      PROVE  [\A i \in Interface : lock = i /\ lock' # i /\ target'[i] = target[i] =>
                OnBranch(target[i], tips'[chain'[i]])]_vars
  <2> SUFFICES ASSUME Next, NEW i \in Interface, lock = i, lock' # i, target'[i] = target[i]
               PROVE  OnBranch(target[i], tips'[chain'[i]])
    BY <1>1
  <2>1. PICK j \in Interface : \/ ServerMoves(j) \/ Announce(j) \/ Skip(j) \/ Acquire(j) \/ Process(j) \/ Drop(j)
    BY DEF Next
  <2>2. CASE Process(j)
    BY <1>1, <2>2, ProcessGood DEF Good, Done
  <2>3. CASE Drop(j)
    <3>1. j = i /\ target[i] # Genesis
      BY <1>1, <2>3 DEF Drop, Asking, SInv, LockInv, OneSearches, Searching
    <3>2. target'[i] = Genesis
      BY <1>1, <2>3, <3>1 DEF Drop, Set, SInv, SyncTypes
    <3> QED BY <3>1, <3>2
  <2>4. CASE ServerMoves(j) \/ Announce(j) \/ Skip(j) \/ Acquire(j)
    BY <2>4, SyncAssumption DEF ServerMoves, Announce, Skip, Acquire, Free
  <2> QED BY <2>1, <2>2, <2>3, <2>4
<1> QED BY <1>1, SyncInvariance, PTL DEF Spec, SyncedWhenDone
=============================================================================
