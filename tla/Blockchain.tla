----------------------------- MODULE Blockchain -----------------------------
(***************************************************************************)
(* The header chains of electrum/blockchain.py: the Blockchain objects,    *)
(* the dictionary blockchains, and the files that hold the headers.  The   *)
(* event loop of the network runs every operation; the swap of a fork with *)
(* its parent is cut into its file writes, between which the process may   *)
(* die, and read_blockchains into its files.                               *)
(***************************************************************************)
EXTENDS HeaderTree, FiniteSets

CONSTANTS
  Chain,      \* identities of Blockchain objects
  NoChain,    \* None, as a parent
  ChunkLen,   \* headers in a chunk (2016)
  MaxCrashes, \* bound on the times the process stops
  Cuts,       \* TRUE when it may die between a truncate and the write after it
  AfterCut    \* TRUE when headers arrive once such a death has left a file short

ASSUME ChainAssumption ==
  /\ Chain # {} /\ NoChain \notin Chain
  /\ ChunkLen \in Nat \ {0} /\ MaxCrashes \in Nat
  /\ Cuts \in BOOLEAN /\ AfterCut \in BOOLEAN

VARIABLES
  files,    \* durable: the headers in each file of the headers directory
  bc,       \* forkpoint, hash, prev, parent and size of each object
  chains,   \* the dictionary blockchains, in insertion order
  pc,       \* where the event loop is
  cur,      \* the chain that saves headers
  forking,  \* cur comes from fork and is not in chains yet
  swaps,    \* cnt of swap_with_parent
  mine,     \* my_data of _swap_with_parent
  old,      \* old_parent of swap_with_parent
  tip,      \* history: the last header saved in each object
  crashes,  \* history: times the process stopped
  clean,    \* history: no swap and no write was cut short
  intact    \* history: no file that the next start keeps was cut short

objects == <<bc, chains>>
op == <<cur, forking, swaps>>
exchange == <<mine, old>>
history == <<tip, crashes, clean, intact>>
vars == <<files, objects, pc, op, exchange, history>>

Hash == Header \cup {NoHeader}
MainFile == <<0, NoHeader, Genesis>>
Blank == [forkpoint |-> 0, hash |-> Genesis, prev |-> NoHeader, parent |-> NoChain, size |-> 0]

Init ==
  /\ files = [p \in {MainFile} |-> <<Genesis>>]
  /\ bc = [c \in Chain |-> Blank]
  /\ chains = <<>>
  /\ pc = "down" /\ cur = NoChain /\ forking = FALSE /\ swaps = 0 /\ mine = <<>> /\ old = NoChain
  /\ tip = [c \in Chain |-> Genesis] /\ crashes = 0 /\ clean = TRUE
  /\ intact = TRUE
-----------------------------------------------------------------------------
(* What a chain contains *)

Loaded == {chains[i].chain : i \in 1 .. Len(chains)}

\* fork2_{forkpoint}_{prev_hash}_{first_hash}, or blockchain_headers
FileOf(b) == IF b.parent = NoChain THEN MainFile ELSE <<b.forkpoint, b.prev, b.hash>>

HeightOf(c) == bc[c].forkpoint + bc[c].size - 1

\* get_hash: headers below the forkpoint are read from the parent
HashAt(c, k) ==
  LET Read[d \in Chain] ==
        IF k < bc[d].forkpoint THEN Read[bc[d].parent]
        ELSE IF k > HeightOf(d) \/ k - bc[d].forkpoint >= Len(files[FileOf(bc[d])]) THEN NoHeader
        ELSE files[FileOf(bc[d])][k - bc[d].forkpoint + 1]
  IN IF k = 0 THEN Genesis ELSE Read[c]

TipOf(c) == HashAt(c, HeightOf(c))
WorkOf(c) == IF TipOf(c) = NoHeader THEN 0 ELSE Work[TipOf(c)]

Contains(c, h) == HashAt(c, Height[h]) = h
Known(h) == \E c \in Loaded : Contains(c, h)

\* can_connect
TipConnects(c, h) == HeightOf(c) = Height[h] - 1 /\ HashAt(c, Height[h] - 1) = Prev[h]

\* The loop over blockchains.values() stops at the first chain of S.
First(S) ==
  chains[CHOOSE i \in 1 .. Len(chains) :
           chains[i].chain \in S /\ \A j \in 1 .. i - 1 : chains[j].chain \notin S].chain

\* Mutant: nothing is cut off.
OverwriteInPlace(file, offset, data) ==
  SubSeq(file, 1, offset) \o data \o SubSeq(file, offset + Len(data) + 1, Len(file))

\* write: what follows the offset is cut off first
Overwrite(file, offset, data) == SubSeq(file, 1, offset) \o data

\* The dictionary: pop(id, None) and [id] = c
Drop(d, id) ==
  IF \E i \in 1 .. Len(d) : d[i].id = id
  THEN LET i == CHOOSE j \in 1 .. Len(d) : d[j].id = id
       IN SubSeq(d, 1, i - 1) \o SubSeq(d, i + 1, Len(d))
  ELSE d
Put(d, id, c) ==
  IF \E i \in 1 .. Len(d) : d[i].id = id
  THEN [i \in 1 .. Len(d) |-> IF d[i].id = id THEN [id |-> id, chain |-> c] ELSE d[i]]
  ELSE Append(d, [id |-> id, chain |-> c])
-----------------------------------------------------------------------------
(* Headers arrive *)

\* write, then update_size
Store(c, data, offset) ==
  LET file == Overwrite(files[FileOf(bc[c])], offset, data)
  IN /\ files' = [files EXCEPT ![FileOf(bc[c])] = file]
     /\ bc' = [bc EXCEPT ![c].size = Len(file)]

\* swap_with_parent follows every write of headers
Swap(c, new) ==
  /\ pc' = "swap" /\ cur' = c /\ forking' = new /\ swaps' = 0

\* Interface.step: the header is new and continues the tip of a chain
SaveHeader(h) ==
  LET c == First({d \in Loaded : TipConnects(d, h)}) IN
  /\ pc = "idle"
  /\ ~Known(h) /\ \E d \in Loaded : TipConnects(d, h)
  /\ Store(c, <<h>>, bc[c].size)
  /\ Swap(c, FALSE)
  /\ tip' = [tip EXCEPT ![c] = h]
  /\ UNCHANGED <<chains, exchange, crashes, clean, intact>>

\* The file of a fork that begins with h
NameOf(h) == <<Height[h], Prev[h], h>>

\* The search of Interface.step ended at a new header h whose predecessor a
\* chain contains, the first such chain goes on above it.
BeginsFork(h) ==
  /\ pc = "idle" /\ Loaded # Chain
  /\ ~Known(h) /\ Known(Prev[h])
  /\ HeightOf(First({d \in Loaded : Contains(d, Prev[h])})) # Height[Prev[h]]

\* A fork that was lost when its swap raised has left headers in that file.
Littered(h) == NameOf(h) \in DOMAIN files /\ files[NameOf(h)] # <<>>

\* The files once fork has opened that one to hold s
Opened(h, s) == [p \in DOMAIN files \cup {NameOf(h)} |-> IF p = NameOf(h) THEN s ELSE files[p]]

\* fork makes the file, saves h and, once the swaps are done, enters the new
\* chain.
Fork(h) ==
  LET c == CHOOSE d \in Chain : d \notin Loaded IN
  /\ BeginsFork(h) /\ ~Littered(h)
  /\ bc' = [bc EXCEPT ![c] = [forkpoint |-> Height[h], hash |-> h, prev |-> Prev[h],
                              parent |-> First({d \in Loaded : Contains(d, Prev[h])}), size |-> 1]]
  /\ files' = Opened(h, <<h>>)
  /\ Swap(c, TRUE)
  /\ tip' = [tip EXCEPT ![c] = h]
  /\ UNCHANGED <<chains, exchange, crashes, clean, intact>>

\* The constructor has taken its size from the file that fork empties then: the
\* assertion of save_header fails.
ForkRaises(h) ==
  /\ BeginsFork(h) /\ Littered(h)
  /\ files' = Opened(h, <<>>)
  /\ UNCHANGED <<objects, pc, op, exchange, history>>

\* verify_chunk: the headers after height from, up to h, link to the chain and
\* agree with every header it has
Fits(c, from, h) ==
  /\ HashAt(c, from) = HeaderAt(h, from)
  /\ \A k \in from + 1 .. Height[h] : HashAt(c, k) \in {NoHeader, Branch[h][k]}

ChunkBase(k) == ((k - 1) \div ChunkLen) * ChunkLen

\* save_chunk: the part at and above the forkpoint
ChunkStart(c, h) ==
  IF ChunkBase(Height[h]) + 1 < bc[c].forkpoint THEN bc[c].forkpoint
  ELSE ChunkBase(Height[h]) + 1

\* connect_chunk, for a chain whose tip lies in the chunk and below its end:
\* Interface.sync_until asks for the chunk that continues the tip
Continues(c, h) ==
  /\ pc = "idle" /\ c \in Loaded
  /\ HeightOf(c) \in ChunkBase(Height[h]) .. Height[h] - 1
  /\ Fits(c, ChunkBase(Height[h]), h)

ConnectChunk(c, h) ==
  /\ Continues(c, h)
  /\ Store(c, SubSeq(Branch[h], ChunkStart(c, h), Height[h]), ChunkStart(c, h) - bc[c].forkpoint)
  /\ Swap(c, FALSE)
  /\ tip' = [tip EXCEPT ![c] = h]
  /\ UNCHANGED <<chains, exchange, crashes, clean, intact>>
-----------------------------------------------------------------------------
(* swap_with_parent, run by cur *)

P == bc[cur].parent
ForkOffset == bc[cur].forkpoint - bc[P].forkpoint

\* Mutant: the length decides, not the work.
ParentShorter == P # NoChain /\ HeightOf(P) < HeightOf(cur)

\* get_chainwork of the two
ParentWeaker == P # NoChain /\ WorkOf(P) < WorkOf(cur)

\* The loop ends; a fork enters the dictionary.
SwapEnds ==
  /\ pc = "swap" /\ ~ParentWeaker
  /\ chains' = IF forking THEN Put(chains, bc[cur].hash, cur) ELSE chains
  /\ pc' = "idle" /\ cur' = NoChain /\ forking' = FALSE /\ swaps' = 0
  /\ UNCHANGED <<files, bc, exchange, history>>

\* The assertion on the forkpoints fails, or the count of swaps: a new fork is
\* lost, its file stays.
SwapRaises ==
  /\ \/ pc = "swap" /\ ParentWeaker /\ ForkOffset <= 0
     \/ pc = "adopt" /\ swaps > Len(chains)
  /\ pc' = "idle" /\ cur' = NoChain /\ forking' = FALSE /\ swaps' = 0
  /\ mine' = <<>> /\ old' = NoChain /\ clean' = FALSE
  /\ UNCHANGED <<files, objects, tip, crashes, intact>>

\* The parent's headers from the forkpoint on
ParentData ==
  SubSeq(files[FileOf(bc[P])], ForkOffset + 1, bc[P].size)

\* The child's file is read, and overwritten with the parent's headers from
\* the forkpoint on.
WriteChild ==
  /\ pc = "swap" /\ ParentWeaker /\ ForkOffset > 0
  /\ mine' = files[FileOf(bc[cur])] /\ old' = P
  /\ Store(cur, ParentData, 0)
  /\ pc' = "parent"
  /\ UNCHANGED <<chains, op, history>>

\* The child's headers take their place in the parent's file.
WriteParent ==
  /\ pc = "parent"
  /\ Store(P, mine, ForkOffset)
  /\ pc' = "rename"
  /\ UNCHANGED <<chains, op, exchange, history>>

\* The file the parent takes over
Moved == files[FileOf(bc[cur])]
MovedHash == IF Moved = <<>> THEN NoHeader ELSE Moved[1]

\* Mutant: _prev_hash is not exchanged.
DemotedKeepsPrev ==
  [bc[P] EXCEPT !.parent = cur, !.forkpoint = bc[cur].forkpoint,
                !.hash = MovedHash, !.size = Len(Moved)]

\* What the two become
Demoted == [bc[P] EXCEPT !.parent = cur, !.forkpoint = bc[cur].forkpoint,
                         !.hash = MovedHash, !.prev = bc[cur].prev, !.size = Len(Moved)]
Promoted == [bc[P] EXCEPT !.size = Len(files[FileOf(bc[P])])]

\* Mutant: the file is copied, not renamed.
Copy(from, to) == [p \in DOMAIN files \cup {to} |-> IF p = to THEN files[from] ELSE files[p]]

\* os.replace
Rename(from, to) ==
  [p \in (DOMAIN files \ {from}) \cup {to} |-> IF p = to THEN files[from] ELSE files[p]]

\* The two objects exchange their parameters, the child's file is renamed after
\* its new first header, and both enter the dictionary under their new ids.
Exchange ==
  /\ pc = "rename"
  /\ bc' = [bc EXCEPT ![cur] = Promoted, ![P] = Demoted]
  /\ files' = Rename(FileOf(bc[cur]), FileOf(Demoted))
  /\ chains' = Put(Put(Drop(Drop(chains, bc[cur].hash), bc[P].hash), bc[P].hash, cur),
                   MovedHash, P)
  /\ pc' = "adopt" /\ swaps' = swaps + 1
  /\ UNCHANGED <<cur, forking, exchange, history>>

\* Mutant: every child changes parent.
AdoptedUnchecked(c) == c \in Loaded /\ bc[c].parent = old

\* A child of the old parent that branches off below the fork: check_hash
Adopted(c) ==
  /\ c \in Loaded /\ bc[c].parent = old
  /\ HashAt(cur, bc[c].forkpoint - 1) = bc[c].prev

\* Such children get the new parent, and the loop goes on.
Adopt ==
  /\ pc = "adopt" /\ swaps <= Len(chains)
  /\ bc' = [c \in Chain |-> IF Adopted(c) THEN [bc[c] EXCEPT !.parent = cur] ELSE bc[c]]
  /\ pc' = "swap" /\ mine' = <<>> /\ old' = NoChain
  /\ UNCHANGED <<files, chains, op, history>>
-----------------------------------------------------------------------------
(* The process stops and starts *)

\* Only the files are left, one of them cut short unless whole.
Die(left, swapped, whole) ==
  /\ crashes < MaxCrashes
  /\ files' = left
  /\ bc' = [c \in Chain |-> Blank] /\ chains' = <<>>
  /\ pc' = "down" /\ cur' = NoChain /\ forking' = FALSE /\ swaps' = 0
  /\ mine' = <<>> /\ old' = NoChain
  /\ tip' = [c \in Chain |-> Genesis]
  /\ crashes' = crashes + 1 /\ clean' = (clean /\ swapped /\ whole) /\ intact' = (intact /\ whole)

Stop == pc \notin {"down", "load"} /\ Die(files, pc = "idle", TRUE)

CutAt(c, offset) ==
  [files EXCEPT ![FileOf(bc[c])] = SubSeq(@, 1, offset)]

\* truncate was written out, the headers were not: the next start deletes an
\* empty file, and keeps the others.
CrashInChild ==
  /\ Cuts /\ pc = "swap" /\ ParentWeaker /\ ForkOffset > 0
  /\ Die(CutAt(cur, 0), FALSE, TRUE)

CrashInFork(h) ==
  /\ Cuts /\ BeginsFork(h)
  /\ Die(Opened(h, <<>>), FALSE, TRUE)

CrashInParent ==
  /\ Cuts /\ pc = "parent"
  /\ Die(CutAt(P, ForkOffset), FALSE, FALSE)

\* A chunk is written over headers the file has, from its own first on.
CrashInChunk(c, h) ==
  /\ Cuts /\ Continues(c, h)
  /\ ChunkStart(c, h) - bc[c].forkpoint # bc[c].size
  /\ Die(CutAt(c, ChunkStart(c, h) - bc[c].forkpoint), TRUE, FALSE)

\* The main chain of read_blockchains; init_headers_file_for_best_chain sets
\* the checkpoint region up again when the file was deleted.
LoadMain ==
  LET c == CHOOSE d \in Chain : TRUE
      file == files[MainFile]
      good == Len(file) = 1 \/ Prev[file[2]] = Genesis
  IN
  /\ pc = "down"
  /\ files' = [files EXCEPT ![MainFile] = IF good THEN file ELSE <<Genesis>>]
  /\ bc' = [bc EXCEPT ![c].size = Len(files'[MainFile])]
  /\ chains' = <<[id |-> Genesis, chain |-> c]>>
  /\ tip' = [tip EXCEPT ![c] = files'[MainFile][Len(files'[MainFile])]]
  /\ pc' = "load"
  /\ UNCHANGED <<op, exchange, crashes, clean, intact>>

\* Files of forks that were not read yet
Unread == DOMAIN files \ {FileOf(bc[c]) : c \in Loaded}

\* Mutant: the files are not sorted.
AnyUnread(p) == p \in Unread

\* sorted by forkpoint
Lowest(p) == p \in Unread /\ \A q \in Unread : p[1] <= q[1]

\* instantiate_chain, its conditions for a file it keeps
Readable(p) ==
  /\ \E d \in Loaded : HashAt(d, p[1] - 1) = p[2]
  /\ files[p] # <<>> /\ files[p][1] = p[3]
  /\ Prev[p[3]] = p[2]

LoadFork(p) ==
  LET c == CHOOSE d \in Chain : d \notin Loaded IN
  /\ pc = "load" /\ Lowest(p) /\ Readable(p) /\ Loaded # Chain
  /\ bc' = [bc EXCEPT ![c] = [forkpoint |-> p[1], hash |-> p[3], prev |-> p[2],
                              parent |-> First({d \in Loaded : HashAt(d, p[1] - 1) = p[2]}),
                              size |-> Len(files[p])]]
  /\ chains' = Put(chains, p[3], c)
  /\ tip' = [tip EXCEPT ![c] = files[p][Len(files[p])]]
  /\ UNCHANGED <<files, pc, op, exchange, crashes, clean, intact>>

\* delete_chain
DeleteFork(p) ==
  /\ pc = "load" /\ Lowest(p) /\ ~Readable(p)
  /\ files' = [q \in DOMAIN files \ {p} |-> files[q]]
  /\ UNCHANGED <<objects, pc, op, exchange, history>>

LoadEnds ==
  /\ pc = "load" /\ Unread = {}
  /\ pc' = "idle"
  /\ UNCHANGED <<files, objects, op, exchange, history>>
-----------------------------------------------------------------------------
Headers == Header \ {Genesis}

Receive ==
  /\ intact \/ AfterCut
  /\ \E h \in Headers : SaveHeader(h) \/ Fork(h) \/ ForkRaises(h) \/ \E c \in Chain : ConnectChunk(c, h)
SwapStep == SwapEnds \/ SwapRaises \/ WriteChild \/ WriteParent \/ Exchange \/ Adopt
Load == LoadMain \/ LoadEnds \/ \E p \in DOMAIN files : LoadFork(p) \/ DeleteFork(p)
Crash == \/ Stop \/ CrashInChild \/ CrashInParent
         \/ \E h \in Headers : CrashInFork(h) \/ \E c \in Chain : CrashInChunk(c, h)

Next == Receive \/ SwapStep \/ Load \/ Crash

Spec == Init /\ [][Next]_vars
-----------------------------------------------------------------------------
\* Types; a fork's file is named after two headers or the hash of none.
TypeOK ==
  /\ MainFile \in DOMAIN files
  /\ DOMAIN files \ {MainFile} \subseteq (Nat \ {0}) \X Header \X Hash
  /\ \A p \in DOMAIN files : files[p] \in Seq(Header)
  /\ bc \in [Chain -> [forkpoint : Nat, hash : Hash, prev : Hash,
                       parent : Chain \cup {NoChain}, size : Nat]]
  /\ chains \in Seq([id : Hash, chain : Chain])
  /\ pc \in {"down", "load", "idle", "swap", "parent", "rename", "adopt"}
  /\ cur \in Chain \cup {NoChain} /\ forking \in BOOLEAN /\ swaps \in Nat
  /\ mine \in Seq(Header) /\ old \in Chain \cup {NoChain}
  /\ tip \in [Chain -> Header] /\ crashes \in 0 .. MaxCrashes
  /\ clean \in BOOLEAN /\ intact \in BOOLEAN

Settled == pc = "idle"
IdHeight(i) == bc[chains[i].chain].forkpoint

\* Whatever swaps, adoptions and restarts came before, every object reads one
\* unbroken branch from the checkpoint to its tip (read_header, fork, Adopt).
ChainsAreBranches ==
  Settled => \A c \in Loaded : \A k \in 1 .. HeightOf(c) :
    /\ HashAt(c, k) # NoHeader
    /\ Height[HashAt(c, k)] = k /\ Prev[HashAt(c, k)] = HashAt(c, k - 1)

\* A swap exchanges files and parameters of two objects, and each goes on
\* containing the headers an interface saved in it (_swap_with_parent).
InstancesKeepTheirHeaders ==
  Settled => \A c \in Loaded : TipOf(c) = tip[c]

\* The chain at a key has the most work of all that contain that hash; the one
\* at the checkpoint is the best chain (get_best_chain).
BestChainAtKey ==
  Settled /\ clean => \A i \in 1 .. Len(chains) : \A c \in Loaded :
    HashAt(c, IdHeight(i)) = chains[i].id => WorkOf(chains[i].chain) >= WorkOf(c)

\* Each loaded chain has a file of its own, of the size the object believes, and
\* no other file is left, unless a swap was cut short (write, os.replace).
FilesAreChains ==
  LET own == {FileOf(bc[c]) : c \in Loaded} IN
  Settled => /\ Cardinality(own) = Len(chains)
             /\ \A c \in Loaded : /\ FileOf(bc[c]) \in DOMAIN files
                                  /\ Len(files[FileOf(bc[c])]) = bc[c].size
             /\ clean => DOMAIN files = own

\* The assertion of _swap_with_parent: a fork branches off above its parent's
\* own first header.
ForkpointAssertion == pc = "swap" /\ ParentWeaker => ForkOffset > 0

\* While no swap was cut short, read_blockchains finds a parent for every fork
\* and deletes none.
CleanStopLosesNoFork ==
  [][clean /\ pc = "load" => DOMAIN files' = DOMAIN files]_vars
=============================================================================
