----------------------------- MODULE ChainSync ------------------------------
(***************************************************************************)
(* How the interfaces of electrum/interface.py find the headers they lack: *)
(* run_fetch_blocks, _process_header_at_tip under network.bhi_lock, step,  *)
(* the backward and the binary search, sync_until and request_chunk.       *)
(*                                                                         *)
(* A chain is its last header: module Blockchain shows that the objects    *)
(* keep the headers they were given through the swaps of their files.      *)
(* Every request of a header or chunk is one action, at the answer.        *)
(***************************************************************************)
EXTENDS HeaderTree, FiniteSets

CONSTANTS
  Interface, \* the connected servers
  Nobody,    \* bhi_lock is free
  ChunkLen,  \* headers in a chunk (2016)
  Gap,       \* headers fetched one at a time near the tip (10)
  Stable,    \* TRUE when a server only extends its chain during a search
  MaxDrops   \* bound on the connections that break

ASSUME SyncAssumption ==
  /\ Nobody \notin Interface
  /\ ChunkLen \in Nat \ {0} /\ Gap \in Nat /\ Stable \in BOOLEAN /\ MaxDrops \in Nat

VARIABLES
  tips,    \* the last header of each chain
  server,  \* the last header of each server
  lock,    \* holder of network.bhi_lock
  pc,      \* what each interface waits for
  target,  \* interface.tip_header
  chain,   \* interface.blockchain, 0 before _mark_ready
  at,      \* height of sync_until
  last,    \* last of sync_until
  probe,   \* height of the backward search
  good,    \* good of the binary search
  bad,     \* bad_header of both searches
  drops    \* history: connections that broke

search == <<at, last, probe, good, bad>>
vars == <<tips, server, lock, pc, target, chain, search, drops>>

Each(x) == [i \in Interface |-> x]

Init ==
  /\ tips = <<Genesis>>
  /\ server \in [Interface -> Header]
  /\ lock = Nobody
  /\ pc = Each("wait") /\ target = Each(Genesis) /\ chain = Each(0)
  /\ at = Each(0) /\ last = Each("none") /\ probe = Each(0) /\ good = Each(0)
  /\ bad = Each(Genesis)
  /\ drops = 0
-----------------------------------------------------------------------------
(* What the chains contain *)

Chains == 1 .. Len(tips)
Having(h) == {c \in Chains : OnBranch(h, tips[c])}
Below(h) == {c \in Chains : h # Genesis /\ tips[c] = Prev[h]}

\* check_header and can_connect, over all chains
Known(h) == Having(h) # {}
Connects(h) == Below(h) # {}

LocalMax == CHOOSE m \in {Height[tips[c]] : c \in Chains} : \A c \in Chains : Height[tips[c]] <= m

\* The answer to a request of the header at height k
Answer(i, k) == HeaderAt(server[i], k)
Answers(i, k) == k <= Height[server[i]]
-----------------------------------------------------------------------------
(* The lock *)

Set(f, i, x) == [f EXCEPT ![i] = x]

\* The lock goes back; the search is over.
Release(i) ==
  /\ lock' = Nobody
  /\ at' = Set(at, i, 0) /\ last' = Set(last, i, "none") /\ probe' = Set(probe, i, 0)
  /\ good' = Set(good, i, 0) /\ bad' = Set(bad, i, Genesis)
  /\ pc' = Set(pc, i, "wait")

\* An exception ends the connection; a new interface takes its place.
Fail(i) ==
  /\ Release(i)
  /\ target' = Set(target, i, Genesis) /\ chain' = Set(chain, i, 0)
  /\ UNCHANGED <<tips, server, drops>>

\* Mutant: the header at the tip is left out.
ReachedEarly(i, height) == height >= Height[target[i]]

Reached(i, height) == height > Height[target[i]]

\* step returned (what, height): sync_until goes on below the target, and must
\* not get the same answer twice.  last is "first" in the step on the announced
\* header.
Stepped(i, what, height) ==
  \/ /\ Reached(i, height)
     /\ Release(i)
  \/ /\ ~Reached(i, height)
     /\ last[i] = what /\ at[i] = height
     /\ pc' = Set(pc, i, "stuck")
     /\ UNCHANGED <<lock, search>>
  \/ /\ ~Reached(i, height)
     /\ ~(last[i] = what /\ at[i] = height)
     /\ pc' = Set(pc, i, "sync")
     /\ at' = Set(at, i, height)
     /\ last' = Set(last, i, IF last[i] = "first" THEN "none" ELSE what)
     /\ probe' = Set(probe, i, 0) /\ good' = Set(good, i, 0) /\ bad' = Set(bad, i, Genesis)
     /\ UNCHANGED lock

\* The header continues chain c: save_header
Save(i, c, h) ==
  /\ tips' = Set(tips, c, h) /\ chain' = Set(chain, i, c)
  /\ Stepped(i, "catchup", Height[h] + 1)

\* _search_headers_backwards, its first height
FirstProbe(h) == IF LocalMax + 1 < Height[h] - 1 THEN LocalMax + 1 ELSE Height[h] - 1

Step(i, h) ==
  \/ \E c \in Having(h) :
       /\ chain' = Set(chain, i, c)
       /\ Stepped(i, "catchup", Height[h] + 1)
       /\ UNCHANGED tips
  \/ ~Known(h) /\ \E c \in Below(h) : Save(i, c, h)
  \/ /\ ~Known(h) /\ ~Connects(h)
     /\ bad' = Set(bad, i, h)
     /\ probe' = Set(probe, i, FirstProbe(h))
     /\ pc' = Set(pc, i, "backward")
     /\ UNCHANGED <<tips, lock, chain, at, last, good>>
-----------------------------------------------------------------------------
(* run_fetch_blocks *)

\* The server's chain grows, or another branch overtakes it.
ServerMoves(i) ==
  /\ \E h \in Header :
       /\ Work[h] > Work[server[i]]
       /\ Stable /\ pc[i] # "wait" => OnBranch(server[i], h)
       /\ server' = Set(server, i, h)
  /\ UNCHANGED <<tips, lock, pc, target, chain, search, drops>>

\* The chain that has the header, or the best one
MarkReady(i) ==
  IF chain[i] # 0 THEN UNCHANGED chain
  ELSE \E c \in IF Known(server[i]) THEN Having(server[i]) ELSE Chains :
         chain' = Set(chain, i, c)

\* A header is announced.
Announce(i) ==
  /\ pc[i] = "wait" /\ target[i] # server[i]
  /\ target' = Set(target, i, server[i])
  /\ MarkReady(i)
  /\ pc' = Set(pc, i, "lock")
  /\ UNCHANGED <<tips, server, lock, search, drops>>

\* Mutant: the height alone counts.
AmendedInHeight(i) == Height[target[i]] <= Height[tips[chain[i]]]

\* The interface's chain has the announced header.
Amended(i) == OnBranch(target[i], tips[chain[i]])

\* Mutant: the lock does not exclude.
Shared == TRUE

\* asyncio.Lock
Free == lock = Nobody

\* Another interface amended the blockchain.
Skip(i) ==
  /\ pc[i] = "lock" /\ Free /\ Amended(i)
  /\ pc' = Set(pc, i, "wait")
  /\ UNCHANGED <<tips, server, lock, target, chain, search, drops>>

\* _process_header_at_tip takes the lock: the step on the announced header
\* follows without a request.
Acquire(i) ==
  /\ pc[i] = "lock" /\ Free /\ ~Amended(i)
  /\ lock' = i /\ last' = Set(last, i, "first") /\ pc' = Set(pc, i, "first")
  /\ UNCHANGED <<tips, server, target, chain, at, probe, good, bad, drops>>

FirstStep(i) ==
  /\ pc[i] = "first"
  /\ Step(i, target[i])
  /\ UNCHANGED <<server, target, drops>>
-----------------------------------------------------------------------------
(* The searches *)

\* get_block_header(height, 'backward'): the checkpoint is known to every
\* chain, so the search stops there at the latest.
Backward(i) ==
  LET k == IF probe[i] <= 0 THEN 0 ELSE probe[i]
      h == Answer(i, k)
  IN
  /\ pc[i] = "backward" /\ Answers(i, k)
  /\ \/ \E c \in Below(h) : Save(i, c, h)
     \/ /\ ~Connects(h)
        /\ \E c \in Having(h) : chain' = Set(chain, i, c)
        /\ good' = Set(good, i, k)
        /\ pc' = Set(pc, i, "binary")
        /\ UNCHANGED <<tips, lock, at, last, probe, bad>>
     \/ /\ ~Connects(h) /\ ~Known(h)
        /\ bad' = Set(bad, i, h)
        /\ probe' = Set(probe, i, Height[target[i]] - 2 * (Height[target[i]] - k))
        /\ UNCHANGED <<tips, lock, pc, chain, at, last, good>>
  /\ UNCHANGED <<server, target, drops>>

Middle(i) == (good[i] + Height[bad[i]]) \div 2

\* Mutant: the interval closes too early.
ClosesEarly(g, b) == g + 2 >= Height[b]

Closed(g, b) == g + 1 = Height[b]

\* get_block_header(height, 'binary')
Binary(i) ==
  LET h == Answer(i, Middle(i)) IN
  /\ pc[i] = "binary" /\ good[i] < Height[bad[i]] /\ Answers(i, Middle(i))
  /\ \/ /\ \E c \in Having(h) : chain' = Set(chain, i, c)
        /\ good' = Set(good, i, Middle(i))
        /\ UNCHANGED bad
     \/ /\ ~Known(h)
        /\ bad' = Set(bad, i, h)
        /\ UNCHANGED <<good, chain>>
  /\ pc' = Set(pc, i, IF Closed(good'[i], bad'[i]) THEN "resolve" ELSE "binary")
  /\ UNCHANGED <<tips, server, lock, target, at, last, probe, drops>>

\* What the code asserts once the interval is closed
Resolvable(i) ==
  /\ ~Known(bad[i])
  /\ OnBranch(Prev[bad[i]], tips[chain[i]])

\* Mutant: every search ends in a fork.
NeverAtTip(i) == FALSE

\* bh = good
AtTip(i) == tips[chain[i]] = Prev[bad[i]]

\* _resolve_potential_chain_fork_given_forkpoint
NoFork(i) ==
  /\ pc[i] = "resolve" /\ Resolvable(i) /\ AtTip(i)
  /\ Stepped(i, "no_fork", Height[bad[i]])
  /\ UNCHANGED <<tips, server, target, chain, drops>>

ForkChain(i) ==
  /\ pc[i] = "resolve" /\ Resolvable(i) /\ ~AtTip(i)
  /\ tips' = Append(tips, bad[i]) /\ chain' = Set(chain, i, Len(tips'))
  /\ Stepped(i, "fork", Height[bad[i]] + 1)
  /\ UNCHANGED <<server, target, drops>>

\* An assertion of the searches fails.
SearchRaises(i) ==
  /\ \/ pc[i] = "binary" /\ good[i] >= Height[bad[i]]
     \/ pc[i] = "resolve" /\ ~Resolvable(i)
     \/ pc[i] = "stuck"
  /\ Fail(i)
-----------------------------------------------------------------------------
(* sync_until *)

Near(i) == Height[target[i]] <= at[i] + Gap

\* One header; after a chunk that did not connect, whatever the distance.
SyncHeader(i) ==
  /\ pc[i] = "one" \/ (pc[i] = "sync" /\ Near(i))
  /\ Answers(i, at[i])
  /\ Step(i, Answer(i, at[i]))
  /\ UNCHANGED <<server, target, drops>>

ChunkBase(k) == ((k - 1) \div ChunkLen) * ChunkLen
ChunkEnd(i) ==
  LET end == ChunkBase(at[i]) + ChunkLen
  IN IF end < Height[target[i]] THEN end ELSE Height[target[i]]

\* verify_chunk
Fits(i, h) ==
  LET tip == tips[chain[i]] IN
  /\ Height[tip] >= ChunkBase(Height[h])
  /\ \A k \in ChunkBase(Height[h]) .. Height[h] :
       k <= Height[tip] => HeaderAt(tip, k) = HeaderAt(h, k)

\* save_chunk: a chain that goes on above the chunk is cut, at the end of the
\* chunk or, when it forks off above that, below its first header.
Kept(tip, h) ==
  {h} \cup {x \in Header : OnBranch(h, tip) /\ OnBranch(x, tip) /\ OnBranch(h, x) /\ x # tip}

SyncChunk(i) ==
  LET h == Answer(i, ChunkEnd(i)) IN
  /\ pc[i] = "sync" /\ ~Near(i) /\ Answers(i, ChunkEnd(i))
  /\ \/ /\ Fits(i, h)
        /\ \E x \in Kept(tips[chain[i]], h) : tips' = Set(tips, chain[i], x)
        /\ Stepped(i, "catchup", Height[h] + 1)
        /\ UNCHANGED chain
     \/ /\ ~Fits(i, h)
        /\ pc' = Set(pc, i, "one") /\ last' = Set(last, i, "none")
        /\ UNCHANGED <<tips, lock, chain, at, probe, good, bad>>
  /\ UNCHANGED <<server, target, drops>>

Asking(i) ==
  pc[i] \in {"backward", "sync", "one"} \/ (pc[i] = "binary" /\ good[i] < Height[bad[i]])

\* The height the answer must reach
Wanted(i) ==
  CASE pc[i] = "backward" -> IF probe[i] <= 0 THEN 0 ELSE probe[i]
    [] pc[i] = "binary" -> Middle(i)
    [] pc[i] = "sync" /\ ~Near(i) -> ChunkEnd(i)
    [] OTHER -> at[i]

\* The server's new chain is shorter: an error, or fewer headers than asked for
Refused(i) == Asking(i) /\ ~Answers(i, Wanted(i)) /\ Fail(i)

\* A request times out or the connection breaks.
Drop(i) ==
  /\ Asking(i) /\ drops < MaxDrops
  /\ Release(i)
  /\ target' = Set(target, i, Genesis) /\ chain' = Set(chain, i, 0)
  /\ drops' = drops + 1
  /\ UNCHANGED <<tips, server>>
-----------------------------------------------------------------------------
Process(i) ==
  \/ FirstStep(i) \/ Backward(i) \/ Binary(i) \/ NoFork(i) \/ ForkChain(i)
  \/ SearchRaises(i) \/ SyncHeader(i) \/ SyncChunk(i) \/ Refused(i)

Next == \E i \in Interface :
  \/ ServerMoves(i) \/ Announce(i) \/ Skip(i) \/ Acquire(i) \/ Process(i) \/ Drop(i)

\* Servers answer while their connection lasts; asyncio.Lock wakes its waiters
\* in the order they came.
Fairness == \A i \in Interface :
  /\ WF_vars(Announce(i)) /\ WF_vars(Process(i))
  /\ SF_vars(Acquire(i) \/ Skip(i))

Spec == Init /\ [][Next]_vars /\ Fairness
-----------------------------------------------------------------------------
\* The lock is held through a search and the catch-up, from the first step to
\* the last answer: nobody else looks for or saves headers meanwhile.
OneSearches == \A i \in Interface : pc[i] \notin {"wait", "lock"} => lock = i

\* While a server keeps its chain, the searches close in on the fork: the
\* header at good is on the interface's chain, the bad one on none although
\* other interfaces work too, and no assertion of step or sync_until fails.
SearchSound == \A i \in Interface :
  /\ pc[i] \in {"backward", "binary", "resolve"} => ~Known(bad[i])
  /\ pc[i] \in {"binary", "resolve"} =>
       good[i] < Height[bad[i]] /\ OnBranch(HeaderAt(bad[i], good[i]), tips[chain[i]])
  /\ pc[i] = "resolve" => Resolvable(i)
  /\ pc[i] # "stuck"

\* No chain is a part of another: step extends and forks where the chains part.
TipsApart == \A c, d \in Chains : c # d => ~OnBranch(tips[c], tips[d])

\* While servers keep their chains, no search or chunk takes a header away
\* from a chain (the truncation of save_chunk, the lock).
ChainsOnlyGrow == [][\A c \in Chains : OnBranch(tips[c], tips'[c])]_vars

\* When sync_until ends and the lock is given back, the interface's chain has
\* the header that was announced.
SyncedWhenDone ==
  [][\A i \in Interface : lock = i /\ lock' # i /\ target'[i] = target[i] =>
       OnBranch(target[i], tips'[chain'[i]])]_vars

\* Each server's last header ends up in some chain, through reorganisations
\* during a search, failed assertions and broken connections.
EventuallySynced == \A i \in Interface : <>[]Known(server[i])
=============================================================================
