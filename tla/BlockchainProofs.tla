-------------------------- MODULE BlockchainProofs --------------------------
(***************************************************************************)
(* What is proved about Blockchain for every tree of headers, any number   *)
(* of objects and of deaths: the chains are branches, an object keeps the  *)
(* headers saved in it, every chain has a file of its own, the chain at a  *)
(* key has the most work, a restart finds every fork again, and the loop   *)
(* of swaps ends before its limit.                                         *)
(***************************************************************************)
EXTENDS Blockchain, HeaderTreeProofs, FiniteSetTheorems, SequenceTheorems

\* No file is short, or no headers arrive after the death that left one short.
Sound == intact \/ ~AfterCut

Live == Loaded \cup ({cur} \ {NoChain})

\* The headers of the branch of t from height f on
Seg(f, t) == [i \in 1 .. Height[t] - f + 1 |-> HeaderAt(t, f + i - 1)]

-----------------------------------------------------------------------------
(* The tree of the objects *)

\* c begins with its hash, and goes on from a header its parent has.
Node(c) ==
  /\ bc[c].hash \in Header /\ tip[c] \in Header
  /\ bc[c].forkpoint = Height[bc[c].hash] /\ OnBranch(bc[c].hash, tip[c])
  /\ bc[c].parent = NoChain => bc[c].hash = Genesis
  /\ bc[c].parent # NoChain =>
       /\ bc[c].parent \in Loaded /\ bc[c].hash # Genesis
       /\ bc[c].prev = Prev[bc[c].hash] /\ OnBranch(bc[c].prev, tip[bc[c].parent])

\* Parents have the lower rank: no object is its own ancestor.
Ranked(r) == \A c \in Live : bc[c].parent # NoChain => r[bc[c].parent] < r[c]

Forest ==
  /\ \A c \in Live : Node(c)
  /\ \E c \in Loaded : bc[c].parent = NoChain
  /\ \E r \in [Chain -> Nat] : Ranked(r)

\* The headers in the file of c, once no swap is under way
Stores(c, x) == OnBranch(bc[c].hash, x) /\ OnBranch(x, tip[c])

\* No header is in two files ...
Once == \A c, d \in Live : c # d => \A x \in Header : ~(Stores(c, x) /\ Stores(d, x))

\* ... and no chain is a part of another.
Apart == \A c, d \in Live : c # d => ~OnBranch(tip[c], tip[d])

\* Each id is the hash of its chain.
Dict ==
  /\ \A i \in 1 .. Len(chains) : chains[i].id = bc[chains[i].chain].hash
  /\ \A i, j \in 1 .. Len(chains) : chains[i].id = chains[j].id => i = j

\* Objects of no use: their parent, if they have one, is in the dictionary.
Idle == \A c \in Chain \ Live : bc[c].forkpoint = 0 \/ bc[c].parent \in Loaded

\* A fork that is not in the dictionary yet has one header.
New == cur \notin Loaded /\ cur # NoChain => tip[cur] = bc[cur].hash /\ bc[cur].parent # NoChain

\* The chain that grew may have more work than its parent, no other.
ParentsBest ==
  \A c \in Live \ {cur} : bc[c].parent # NoChain => Work[tip[c]] <= Work[tip[bc[c].parent]]

-----------------------------------------------------------------------------
(* The files of a life *)

Filed(c) ==
  /\ FileOf(bc[c]) \in DOMAIN files
  /\ files[FileOf(bc[c])] = Seg(bc[c].forkpoint, tip[c])
  /\ bc[c].size = Height[tip[c]] - bc[c].forkpoint + 1

\* The file of a fork that was lost when its swap raised, where none reads; a
\* fork that raised over it has emptied it.
Lost(q) ==
  \E x \in Headers :
    /\ q = NameOf(x) /\ files[q] \in {<<>>, <<x>>}
    /\ \E c \in Loaded : OnBranch(Prev[x], tip[c])
    /\ \A c \in Live : ~OnBranch(x, tip[c]) /\ ~OnBranch(tip[c], x)

Strays == \A q \in DOMAIN files \ {FileOf(bc[c]) : c \in Live} : Lost(q)
NoStrays == DOMAIN files = {FileOf(bc[c]) : c \in Live}

\* Which files hold what, at each step of a swap
Contents ==
  /\ \A c \in Live : FileOf(bc[c]) \in DOMAIN files
  /\ \A c \in Live : c \notin (IF pc = "parent" THEN {cur} ELSE IF pc = "rename" THEN {cur, P} ELSE {})
                       => Filed(c)

\* Between the writes of a swap, P holds what cur will give back
Swapping ==
  /\ P \in Loaded /\ bc[P].forkpoint < bc[cur].forkpoint /\ Work[tip[P]] < Work[tip[cur]]
  /\ mine = Seg(bc[cur].forkpoint, tip[cur]) /\ old = P
  /\ files[FileOf(bc[cur])] = Seg(bc[cur].forkpoint, tip[P])
  /\ pc = "rename" => files[FileOf(bc[P])] = Seg(bc[P].forkpoint, tip[cur])

Adopting ==
  /\ cur \in Loaded /\ old \in Loaded /\ old # cur
  /\ bc[old].parent = cur /\ Work[tip[old]] < Work[tip[cur]]

Alive ==
  /\ Forest /\ Once /\ (intact => Apart) /\ Dict /\ Idle /\ New
  /\ Strays /\ Contents
  /\ clean => ParentsBest /\ NoStrays
  /\ IF pc = "idle" THEN cur = NoChain ELSE cur \in Chain /\ intact
  /\ ~forking => cur \in Loaded \cup {NoChain}
  /\ pc \in {"parent", "rename"} => Swapping
  /\ pc = "adopt" => Adopting

-----------------------------------------------------------------------------
(* The files between two lives *)

Top(p) == files[p][Len(files[p])]
Keeps(p, x) == OnBranch(p[3], x) /\ OnBranch(x, Top(p))

\* A file that the next start keeps, if it finds its parent
Whole(p) ==
  /\ files[p] # <<>> /\ p[3] \in Header /\ Top(p) \in Header /\ OnBranch(p[3], Top(p))
  /\ p = MainFile \/ (p = NameOf(p[3]) /\ p[3] # Genesis)
  /\ files[p] = Seg(Height[p[3]], Top(p))

\* A file that it deletes
Broken(p) == p # MainFile /\ (files[p] = <<>> \/ files[p][1] # p[3])

Wholes == {p \in DOMAIN files : Whole(p)}

Kept ==
  /\ Whole(MainFile) /\ \A p \in DOMAIN files : Whole(p) \/ Broken(p)
  /\ \A p, q \in Wholes : p # q => \A x \in Header : ~(Keeps(p, x) /\ Keeps(q, x))
  /\ intact => \A p, q \in Wholes : p # q => ~OnBranch(Top(p), Top(q))

\* Every fork finds its parent, and the chain it begins in has the most work.
AllKept ==
  /\ Wholes = DOMAIN files
  /\ \A p, q \in Wholes : OnBranch(p[3], Top(q)) => Work[Top(q)] <= Work[Top(p)]
  /\ \A q \in Wholes \ {MainFile} : \E p \in Wholes : p[1] < q[1] /\ Keeps(p, q[2])

Durable == Kept /\ (clean => AllKept)

Down ==
  /\ chains = <<>> /\ cur = NoChain /\ ~forking
  /\ bc = [c \in Chain |-> Blank] /\ tip = [c \in Chain |-> Genesis]

\* Every parent was read before its children, the lower files before the others.
Loading ==
  /\ cur = NoChain /\ ~forking
  /\ \A c \in Chain \ Loaded : bc[c] = Blank
  /\ Forest /\ Dict
  /\ \A c \in Loaded : Filed(c)
  /\ \A j \in 1 .. Len(chains) :
       LET c == chains[j].chain IN
       bc[c].parent # NoChain =>
         /\ bc[bc[c].parent].forkpoint < bc[c].forkpoint
         /\ \E i \in 1 .. j - 1 : chains[i].chain = bc[c].parent
  /\ \A c \in Loaded, q \in Unread : bc[c].forkpoint <= q[1]
  /\ clean => ParentsBest

Body ==
  /\ TypeOK
  /\ pc = "down" => Durable /\ Down
  /\ pc = "load" => Durable /\ Loading
  /\ pc \notin {"down", "load"} => Alive

Inv == (clean => intact) /\ (Sound => Body)
-----------------------------------------------------------------------------
(* Pieces of a branch *)

LEMMA SegType ==
  ASSUME NEW t \in Header, NEW f \in Nat, f <= Height[t] + 1
  PROVE  /\ Seg(f, t) \in Seq(Header) /\ Len(Seg(f, t)) = Height[t] - f + 1
         /\ \A i \in 1 .. Height[t] - f + 1 : Seg(f, t)[i] = HeaderAt(t, f + i - 1)
<1>1. Height[t] \in Nat /\ Height[t] - f + 1 \in Nat
  BY HeaderTypes
<1>2. \A i \in 1 .. Height[t] - f + 1 : HeaderAt(t, f + i - 1) \in Header
  <2>1. \A i \in 1 .. Height[t] - f + 1 : f + i - 1 \in 0 .. Height[t]
    BY <1>1
  <2> QED BY <2>1, AtType
<1> QED BY <1>1, <1>2 DEF Seg

\* A sequence with the headers of a piece is the piece.
LEMMA SegIs ==
  ASSUME NEW t \in Header, NEW f \in Nat, f <= Height[t] + 1,
         NEW s \in Seq(Header), Len(s) = Height[t] - f + 1,
         \A i \in 1 .. Len(s) : s[i] = HeaderAt(t, f + i - 1)
  PROVE  s = Seg(f, t)
<1>1. /\ Seg(f, t) \in Seq(Header) /\ Len(Seg(f, t)) = Height[t] - f + 1
      /\ \A i \in 1 .. Height[t] - f + 1 : Seg(f, t)[i] = HeaderAt(t, f + i - 1)
  BY SegType
<1> HIDE DEF Seg
<1> QED BY <1>1, SeqEqual

\* What a piece holds from height g on
LEMMA SegFrom ==
  ASSUME NEW t \in Header, NEW f \in Nat, NEW g \in Nat, f <= g, g <= Height[t] + 1
  PROVE  SubSeq(Seg(f, t), g - f + 1, Height[t] - f + 1) = Seg(g, t)
<1> DEFINE s == SubSeq(Seg(f, t), g - f + 1, Height[t] - f + 1)
<1>1. Height[t] \in Nat
  BY HeaderTypes
<1>2. /\ Seg(f, t) \in Seq(Header) /\ Len(Seg(f, t)) = Height[t] - f + 1
      /\ \A i \in 1 .. Height[t] - f + 1 : Seg(f, t)[i] = HeaderAt(t, f + i - 1)
  BY <1>1, SegType
<1>3. /\ s \in Seq(Header) /\ Len(s) = Height[t] - g + 1
      /\ \A i \in 1 .. Len(s) : s[i] = HeaderAt(t, g + i - 1)
  <2> HIDE DEF Seg
  <2>1. /\ s \in Seq(Header) /\ Len(s) = Height[t] - g + 1
        /\ \A i \in 1 .. Len(s) : s[i] = Seg(f, t)[g - f + 1 + i - 1]
    <3> DEFINE m == g - f + 1
               n == Height[t] - f + 1
    <3>1. m \in Int /\ n \in Int /\ (\A i \in m .. n : i \in 1 .. n) /\ m <= n + 1 /\ n - m + 1 = Height[t] - g + 1
      BY <1>1
    <3>2. \A i \in m .. n : Seg(f, t)[i] \in Header
      BY <1>2, <3>1
    <3> HIDE DEF m, n
    <3>3. /\ SubSeq(Seg(f, t), m, n) \in Seq(Header)
          /\ Len(SubSeq(Seg(f, t), m, n)) = IF m <= n THEN n - m + 1 ELSE 0
          /\ \A i \in 1 .. n - m + 1 : SubSeq(Seg(f, t), m, n)[i] = Seg(f, t)[m + i - 1]
      BY <3>1, <3>2, SubSeqProperties
    <3>4. s = SubSeq(Seg(f, t), m, n)
      BY DEF m, n
    <3> HIDE DEF s
    <3>5. Len(s) = n - m + 1
      BY <3>1, <3>3, <3>4
    <3> QED BY <3>1, <3>3, <3>4, <3>5 DEF m
  <2>2. \A i \in 1 .. Len(s) : g - f + 1 + i - 1 \in 1 .. Height[t] - f + 1
    BY <1>1, <2>1
  <2>3. \A i \in 1 .. Len(s) : s[i] = HeaderAt(t, f + (g - f + 1 + i - 1) - 1)
    BY <1>2, <2>1, <2>2
  <2>4. \A i \in 1 .. Len(s) : f + (g - f + 1 + i - 1) - 1 = g + i - 1
    BY <2>1
  <2> QED BY <2>1, <2>3, <2>4
<1> HIDE DEF s
<1> QED BY <1>1, <1>3, SegIs DEF s

\* A piece of one branch below g, with what another that is the same there
\* holds from g on
LEMMA SegJoin ==
  ASSUME NEW s \in Header, NEW t \in Header, NEW f \in Nat, NEW g \in Nat,
         f <= g, g <= Height[s] + 1, g <= Height[t] + 1,
         \A k \in 0 .. g - 1 : HeaderAt(s, k) = HeaderAt(t, k)
  PROVE  SubSeq(Seg(f, s), 1, g - f) \o Seg(g, t) = Seg(f, t)
<1> DEFINE low == SubSeq(Seg(f, s), 1, g - f)
           all == low \o Seg(g, t)
<1>1. Height[s] \in Nat /\ Height[t] \in Nat
  BY HeaderTypes
<1>2. /\ Seg(f, s) \in Seq(Header) /\ Len(Seg(f, s)) = Height[s] - f + 1
      /\ \A i \in 1 .. Height[s] - f + 1 : Seg(f, s)[i] = HeaderAt(s, f + i - 1)
  BY <1>1, SegType, SMTT(30)
<1>3. /\ Seg(g, t) \in Seq(Header) /\ Len(Seg(g, t)) = Height[t] - g + 1
      /\ \A i \in 1 .. Height[t] - g + 1 : Seg(g, t)[i] = HeaderAt(t, g + i - 1)
  BY <1>1, SegType
<1>4. /\ low \in Seq(Header) /\ Len(low) = g - f
      /\ \A i \in 1 .. g - f : low[i] = HeaderAt(t, f + i - 1)
  <2> HIDE DEF Seg
  <2>1. low \in Seq(Header) /\ Len(low) = g - f /\ \A i \in 1 .. g - f : low[i] = Seg(f, s)[i]
    <3>1. 1 \in Int /\ g - f \in Int /\ g - f >= 0 /\ g - f <= Len(Seg(f, s))
      BY <1>1, <1>2
    <3>2. \A i \in 1 .. g - f : Seg(f, s)[i] \in Header
      BY <1>2, <3>1
    <3>3. /\ low \in Seq(Header) /\ Len(low) = IF 1 <= g - f THEN g - f - 1 + 1 ELSE 0
          /\ \A i \in 1 .. g - f - 1 + 1 : low[i] = Seg(f, s)[1 + i - 1]
      BY <3>1, <3>2, SubSeqProperties
    <3> HIDE DEF low
    <3>4. Len(low) = g - f
      BY <3>1, <3>3
    <3>5. ASSUME NEW i \in 1 .. g - f PROVE low[i] = Seg(f, s)[i]
      <4>1. i \in 1 .. g - f - 1 + 1 /\ 1 + i - 1 = i
        BY <3>1
      <4>2. low[i] = Seg(f, s)[1 + i - 1]
        BY <3>3, <4>1
      <4> QED BY <4>1, <4>2
    <3> QED BY <3>3, <3>4, <3>5
  <2>2. \A i \in 1 .. g - f : i \in 1 .. Height[s] - f + 1 /\ f + i - 1 \in 0 .. g - 1
    BY <1>1
  <2> QED BY <1>2, <2>1, <2>2
<1>5. /\ all \in Seq(Header) /\ Len(all) = Height[t] - f + 1
      /\ \A i \in 1 .. Len(all) : all[i] = HeaderAt(t, f + i - 1)
  <2> HIDE DEF Seg, low
  <2>1. /\ all \in Seq(Header) /\ Len(all) = Height[t] - f + 1
        /\ \A i \in 1 .. Len(all) : all[i] = IF i <= g - f THEN low[i] ELSE Seg(g, t)[i - (g - f)]
    <3>1. /\ all \in Seq(Header) /\ Len(all) = Len(low) + Len(Seg(g, t))
          /\ \A i \in 1 .. Len(low) + Len(Seg(g, t)) : all[i] = IF i <= Len(low) THEN low[i] ELSE Seg(g, t)[i - Len(low)]
      BY <1>3, <1>4, ConcatProperties
    <3>2. (g - f) + (Height[t] - g + 1) = Height[t] - f + 1
      BY <1>1
    <3>3. \A i \in 1 .. Len(all) : all[i] = IF i <= g - f THEN low[i] ELSE Seg(g, t)[i - (g - f)]
      BY <1>3, <1>4, <3>1
    <3>4. Len(all) = Height[t] - f + 1
      BY <1>3, <1>4, <3>1, <3>2
    <3> QED BY <3>1, <3>3, <3>4
  <2>2. SUFFICES ASSUME NEW i \in 1 .. Len(all) PROVE all[i] = HeaderAt(t, f + i - 1)
    BY <2>1
  <2>3. CASE i <= g - f
    BY <1>4, <2>1, <2>3
  <2>4. CASE ~(i <= g - f)
    <3> HIDE DEF all
    <3>3. Len(all) = Height[t] - f + 1
      BY <2>1
    <3>4. i \in Int /\ i <= Height[t] - f + 1 /\ i > g - f
      BY <1>1, <2>4, <3>3
    <3>1. i - (g - f) \in 1 .. Height[t] - g + 1 /\ g + (i - (g - f)) - 1 = f + i - 1
      BY <1>1, <3>4
    <3>2. Seg(g, t)[i - (g - f)] = HeaderAt(t, g + (i - (g - f)) - 1)
      BY <1>3, <3>1
    <3> QED BY <2>1, <2>4, <3>1, <3>2
  <2> QED BY <2>3, <2>4
<1> HIDE DEF all
<1>6. f <= Height[t] + 1
  BY <1>1
<1>7. all = Seg(f, t)
  BY <1>5, <1>6, SegIs
<1> QED BY <1>7 DEF all

LEMMA SegBranch ==
  ASSUME NEW h \in Header, NEW g \in Nat, g >= 1, g <= Height[h] + 1
  PROVE  SubSeq(Branch[h], g, Height[h]) = Seg(g, h)
<1> DEFINE s == SubSeq(Branch[h], g, Height[h])
<1>1. Height[h] \in Nat /\ Branch[h] \in Seq(Header) /\ Len(Branch[h]) = Height[h]
  BY HeaderTypes, HeaderAssumption, BranchLength
<1>2. /\ s \in Seq(Header) /\ Len(s) = Height[h] - g + 1
      /\ \A i \in 1 .. Len(s) : s[i] = Branch[h][g + i - 1]
  BY <1>1
<1>3. \A i \in 1 .. Len(s) : s[i] = HeaderAt(h, g + i - 1)
  BY <1>1, <1>2 DEF HeaderAt
<1> HIDE DEF s
<1>4. s = Seg(g, h)
  BY <1>1, <1>2, <1>3, SegIs
<1> QED BY <1>4 DEF s

\* A piece that is cut short is the piece of a lower header.
LEMMA SegCut ==
  ASSUME NEW t \in Header, NEW f \in Nat, f <= Height[t], NEW n \in 1 .. Height[t] - f + 1
  PROVE  /\ f + n - 1 \in 0 .. Height[t] /\ HeaderAt(t, f + n - 1) \in Header
         /\ SubSeq(Seg(f, t), 1, n) = Seg(f, HeaderAt(t, f + n - 1))
<1> DEFINE u == HeaderAt(t, f + n - 1)
           s == SubSeq(Seg(f, t), 1, n)
<1>1. Height[t] \in Nat /\ f + n - 1 \in 0 .. Height[t]
  BY HeaderTypes
<1>2. u \in Header /\ Height[u] = f + n - 1
  BY <1>1, AtType
<1>3. /\ Seg(f, t) \in Seq(Header) /\ Len(Seg(f, t)) = Height[t] - f + 1
      /\ \A i \in 1 .. Height[t] - f + 1 : Seg(f, t)[i] = HeaderAt(t, f + i - 1)
  BY <1>1, SegType
<1>4. \A i \in 1 .. n : HeaderAt(u, f + i - 1) = HeaderAt(t, f + i - 1)
  <2>1. \A i \in 1 .. n : f + i - 1 \in 0 .. f + n - 1
    OBVIOUS
  <2> QED BY <1>1, <2>1, AtAt
<1>5. /\ s \in Seq(Header) /\ Len(s) = n
      /\ \A i \in 1 .. Len(s) : s[i] = HeaderAt(u, f + i - 1)
  <2> HIDE DEF Seg, u
  <2>1. s \in Seq(Header) /\ Len(s) = n /\ \A i \in 1 .. Len(s) : s[i] = Seg(f, t)[i]
    BY <1>1, <1>3
  <2>2. \A i \in 1 .. Len(s) : i \in 1 .. Height[t] - f + 1
    BY <1>1, <2>1
  <2> QED BY <1>3, <1>4, <2>1, <2>2
<1> HIDE DEF s, u
<1>6. f <= Height[u] + 1 /\ n = Height[u] - f + 1
  BY <1>1, <1>2
<1>7. s = Seg(f, u)
  BY <1>2, <1>5, <1>6, SegIs
<1> QED BY <1>1, <1>2, <1>7 DEF s, u

\* The first and the last header of a piece
LEMMA SegEnds ==
  ASSUME NEW t \in Header, NEW f \in Nat, f <= Height[t]
  PROVE  /\ Seg(f, t) # <<>> /\ Seg(f, t)[1] = HeaderAt(t, f)
         /\ Seg(f, t)[Len(Seg(f, t))] = t
<1>1. Height[t] \in Nat /\ 1 \in 1 .. Height[t] - f + 1 /\ Height[t] - f + 1 \in 1 .. Height[t] - f + 1
  BY HeaderTypes
<1>2. /\ Seg(f, t) \in Seq(Header) /\ Len(Seg(f, t)) = Height[t] - f + 1
      /\ \A i \in 1 .. Height[t] - f + 1 : Seg(f, t)[i] = HeaderAt(t, f + i - 1)
  BY <1>1, SegType
<1>3. f + 1 - 1 = f /\ f + (Height[t] - f + 1) - 1 = Height[t]
  BY <1>1
<1> HIDE DEF Seg
<1>4. Seg(f, t)[1] = HeaderAt(t, f) /\ Seg(f, t)[Len(Seg(f, t))] = HeaderAt(t, Height[t])
  BY <1>1, <1>2, <1>3
<1>5. Seg(f, t) # <<>>
  BY <1>1, <1>2
<1> QED BY <1>4, <1>5, AtTop

LEMMA SegOne == ASSUME NEW h \in Header PROVE Seg(Height[h], h) = <<h>>
<1>1. Height[h] \in Nat /\ Height[h] - Height[h] + 1 = 1 /\ Height[h] <= Height[h] + 1 /\ Height[h] <= Height[h]
  BY HeaderTypes
<1>2. Len(Seg(Height[h], h)) = 1 /\ Seg(Height[h], h) \in Seq(Header)
  BY <1>1, SegType
<1>3. Seg(Height[h], h)[1] = h
  BY <1>1, SegEnds, AtTop
<1> HIDE DEF Seg
<1> QED BY <1>2, <1>3

-----------------------------------------------------------------------------
(* Names and chains *)

LEMMA NameDiffer ==
  /\ \A x, y \in Headers : NameOf(x) = NameOf(y) => x = y
  /\ \A x \in Headers : NameOf(x) # MainFile
<1>1. \A x \in Headers : Height[x] # 0
  BY GenesisLow DEF Headers
<1> QED BY <1>1 DEF NameOf, MainFile

LEMMA NodeName ==
  ASSUME NEW c, Node(c)
  PROVE  /\ bc[c].parent = NoChain => FileOf(bc[c]) = MainFile /\ bc[c].hash = Genesis
         /\ bc[c].parent # NoChain => FileOf(bc[c]) = NameOf(bc[c].hash) /\ bc[c].hash \in Headers
BY DEF Node, FileOf, NameOf, Headers

LEMMA StoresEnds ==
  ASSUME NEW c, Node(c)
  PROVE  Stores(c, bc[c].hash) /\ Stores(c, tip[c])
BY OnSelf DEF Node, Stores

LEMMA FilesDiffer ==
  ASSUME NEW c \in Live, NEW d \in Live, c # d, Node(c), Node(d), Once
  PROVE  FileOf(bc[c]) # FileOf(bc[d]) /\ bc[c].hash # bc[d].hash
<1>1. bc[c].hash \in Header /\ bc[d].hash \in Header
  BY DEF Node
<1>2. bc[c].hash # bc[d].hash
  BY <1>1, StoresEnds DEF Once
<1> QED BY <1>2, NodeName, NameDiffer

\* Two chains are both main only when they are the same.
LEMMA OneMain ==
  ASSUME NEW c \in Live, NEW d \in Live, Node(c), Node(d), Once,
         bc[c].parent = NoChain, bc[d].parent = NoChain
  PROVE  c = d
BY FilesDiffer, NodeName

\* The height of an object is that of its last header.
LEMMA Sizes ==
  ASSUME NEW c, Node(c), Filed(c)
  PROVE  /\ bc[c].forkpoint \in Nat /\ bc[c].forkpoint <= Height[tip[c]] /\ Height[tip[c]] \in Nat
         /\ HeightOf(c) = Height[tip[c]] /\ Len(files[FileOf(bc[c])]) = bc[c].size
         /\ bc[c].size \in Nat \ {0}
<1>1. /\ Height[bc[c].hash] \in Nat /\ Height[tip[c]] \in Nat /\ tip[c] \in Header
      /\ Height[bc[c].hash] <= Height[tip[c]] /\ bc[c].forkpoint = Height[bc[c].hash]
  BY HeaderTypes DEF Node, OnBranch
<1>2. Len(Seg(bc[c].forkpoint, tip[c])) = Height[tip[c]] - bc[c].forkpoint + 1
  BY <1>1, SegType
<1> QED BY <1>1, <1>2 DEF Filed, HeightOf
-----------------------------------------------------------------------------
(* What get_hash reads *)

Reading ==
  /\ Forest /\ Idle
  /\ \A c \in Live : Filed(c)

At(c, k) == IF k <= Height[tip[c]] THEN HeaderAt(tip[c], k) ELSE NoHeader

\* Below its forkpoint an object has the headers of its parent.
LEMMA ReadBelow ==
  ASSUME Reading, NEW c \in Live, NEW k \in Nat, k < bc[c].forkpoint
  PROVE  bc[c].parent \in Loaded /\ At(c, k) = At(bc[c].parent, k)
<1> DEFINE x == bc[c].hash
           p == bc[c].parent
<1>1. /\ Node(c) /\ x \in Header /\ tip[c] \in Header /\ bc[c].forkpoint = Height[x]
      /\ OnBranch(x, tip[c])
  BY DEF Reading, Forest, Node
<1>2. x # Genesis
  BY <1>1, HeaderTypes
<1>3. p \in Loaded /\ OnBranch(Prev[x], tip[p])
  BY <1>1, <1>2 DEF Node
<1>4. tip[p] \in Header
  BY <1>3 DEF Reading, Forest, Node, Live
<1>5. Prev[x] \in Header /\ OnBranch(Prev[x], x) /\ Height[x] = Height[Prev[x]] + 1 /\ Height[Prev[x]] \in Nat
  BY <1>1, <1>2, OnPrev, PrevBelow
<1>6. OnBranch(Prev[x], tip[c])
  BY <1>1, <1>5, OnTrans
<1>7. k \in 0 .. Height[Prev[x]] /\ k <= Height[tip[c]] /\ k <= Height[tip[p]]
  BY <1>1, <1>3, <1>4, <1>5, <1>6, HeaderTypes DEF OnBranch
<1>8. HeaderAt(tip[c], k) = HeaderAt(Prev[x], k) /\ HeaderAt(tip[p], k) = HeaderAt(Prev[x], k)
  BY <1>1, <1>3, <1>4, <1>5, <1>6, <1>7, AtOn
<1> QED BY <1>3, <1>7, <1>8 DEF At

LEMMA ReadOwn ==
  ASSUME Reading, NEW c \in Live, NEW k \in Nat, k >= bc[c].forkpoint
  PROVE  At(c, k) = IF k > HeightOf(c) \/ k - bc[c].forkpoint >= Len(files[FileOf(bc[c])])
                    THEN NoHeader ELSE files[FileOf(bc[c])][k - bc[c].forkpoint + 1]
<1>1. /\ bc[c].forkpoint \in Nat /\ bc[c].forkpoint <= Height[tip[c]] /\ Height[tip[c]] \in Nat
      /\ HeightOf(c) = Height[tip[c]] /\ Len(files[FileOf(bc[c])]) = bc[c].size
      /\ bc[c].size = Height[tip[c]] - bc[c].forkpoint + 1 /\ tip[c] \in Header
      /\ files[FileOf(bc[c])] = Seg(bc[c].forkpoint, tip[c])
  BY Sizes DEF Reading, Forest, Filed, Node
<1>2. CASE k <= Height[tip[c]]
  <2> DEFINE i == k - bc[c].forkpoint + 1
  <2>1. i \in 1 .. Height[tip[c]] - bc[c].forkpoint + 1 /\ bc[c].forkpoint + i - 1 = k
    BY <1>1, <1>2
  <2>2. bc[c].forkpoint <= Height[tip[c]] + 1
    BY <1>1
  <2> HIDE DEF i
  <2>3. Seg(bc[c].forkpoint, tip[c])[i] = HeaderAt(tip[c], k)
    BY <1>1, <2>1, <2>2, SegType
  <2>4. ~(k > HeightOf(c) \/ k - bc[c].forkpoint >= Len(files[FileOf(bc[c])]))
    BY <1>1, <1>2
  <2> QED BY <1>1, <1>2, <2>3, <2>4 DEF At, i
<1>3. CASE ~(k <= Height[tip[c]])
  BY <1>1, <1>3 DEF At
<1> QED BY <1>2, <1>3

LEMMA ReadAt ==
  ASSUME Reading, NEW c \in Live, Live \subseteq Chain, NEW k \in Nat
  PROVE  HashAt(c, k) = At(c, k)
<1> DEFINE Own(d) == IF k > HeightOf(d) \/ k - bc[d].forkpoint >= Len(files[FileOf(bc[d])]) THEN NoHeader
                     ELSE files[FileOf(bc[d])][k - bc[d].forkpoint + 1]
           Def(f) == f = [d \in Chain |->
                       IF k < bc[d].forkpoint THEN f[bc[d].parent]
                       ELSE IF k > HeightOf(d) \/ k - bc[d].forkpoint >= Len(files[FileOf(bc[d])]) THEN NoHeader
                       ELSE files[FileOf(bc[d])][k - bc[d].forkpoint + 1]]
           G == [d \in Chain |-> IF d \in Live THEN At(d, k)
                                 ELSE IF k < bc[d].forkpoint THEN At(bc[d].parent, k) ELSE Own(d)]
           R == CHOOSE f : Def(f)
<1>1. Loaded \subseteq Live
  BY DEF Live
<1>a. \A d \in Live : bc[d].forkpoint \in Nat
  BY HeaderTypes DEF Reading, Forest, Node
<1>2. \E f : Def(f)
  <2>1. \A d \in Chain : G[d] = IF k < bc[d].forkpoint THEN G[bc[d].parent] ELSE Own(d)
    <3> SUFFICES ASSUME NEW d \in Chain
                 PROVE  G[d] = IF k < bc[d].forkpoint THEN G[bc[d].parent] ELSE Own(d)
      OBVIOUS
    <3>1. CASE d \in Live /\ k < bc[d].forkpoint
      <4>1. bc[d].parent \in Loaded /\ At(d, k) = At(bc[d].parent, k)
        BY <3>1, ReadBelow
      <4>2. G[bc[d].parent] = At(bc[d].parent, k) /\ G[d] = At(d, k)
        BY <1>1, <3>1, <4>1
      <4> QED BY <3>1, <4>1, <4>2
    <3>2. CASE d \in Live /\ ~(k < bc[d].forkpoint)
      <4>1. k >= bc[d].forkpoint
        BY <3>2, <1>a
      <4> QED BY <3>2, <4>1, ReadOwn
    <3>3. CASE d \notin Live /\ k < bc[d].forkpoint
      <4>1. bc[d].parent \in Loaded
        BY <3>3 DEF Reading, Idle
      <4> QED BY <1>1, <3>3, <4>1
    <3>4. CASE d \notin Live /\ ~(k < bc[d].forkpoint)
      BY <3>4
    <3> QED BY <3>1, <3>2, <3>3, <3>4
  <2>2. G = [d \in Chain |-> G[d]]
    OBVIOUS
  <2>3. Def(G)
    <3> HIDE DEF G
    <3> QED BY <2>1, <2>2
  <2> QED BY <2>3
<1>3. Def(R)
  <2> HIDE DEF Def
  <2> QED BY <1>2
<1>4. \A d \in Chain : R[d] = IF k < bc[d].forkpoint THEN R[bc[d].parent] ELSE Own(d)
  <2> HIDE DEF R
  <2> QED BY <1>3
<1>5. HashAt(c, k) = IF k = 0 THEN Genesis ELSE R[c]
  BY DEF HashAt
<1> HIDE DEF R
<1>6. R[c] = At(c, k)
  <2>1. PICK r \in [Chain -> Nat] : Ranked(r)
    BY DEF Reading, Forest
  <2> DEFINE T == {r[d] : d \in {e \in Live : R[e] # At(e, k)}}
  <2>2. SUFFICES ASSUME R[c] # At(c, k) PROVE FALSE
    OBVIOUS
  <2>3. T \in SUBSET Nat /\ T # {}
    BY <2>1, <2>2
  <2>4. PICK m \in T : \A n \in T : m <= n
    <3> HIDE DEF T
    <3> QED BY <2>3, Least
  <2>5. PICK d \in Live : R[d] # At(d, k) /\ r[d] = m
    BY <2>4
  <2>6. CASE k < bc[d].forkpoint
    <3>1. bc[d].parent \in Loaded /\ At(d, k) = At(bc[d].parent, k)
      BY <2>6, ReadBelow
    <3>2. R[d] = R[bc[d].parent]
      BY <1>4, <2>6
    <3>3. r[bc[d].parent] \in T
      BY <1>1, <2>5, <3>1, <3>2
    <3>4. m <= r[bc[d].parent]
      BY <2>4, <3>3
    <3>5. bc[d].parent # NoChain
      BY <3>1, <1>1, ChainAssumption
    <3>6. r[bc[d].parent] < r[d] /\ r[d] \in Nat /\ r[bc[d].parent] \in Nat
      BY <1>1, <2>1, <3>1, <3>5 DEF Ranked
    <3> QED BY <2>5, <3>4, <3>6
  <2>7. CASE ~(k < bc[d].forkpoint)
    <3>1. k >= bc[d].forkpoint
      BY <2>7, <1>a
    <3>2. At(d, k) = Own(d)
      BY <3>1, ReadOwn
    <3> QED BY <1>4, <2>5, <2>7, <3>2
  <2> QED BY <2>6, <2>7
<1>7. k = 0 => At(c, k) = Genesis
  <2>1. tip[c] \in Header /\ 0 <= Height[tip[c]]
    BY HeaderTypes DEF Reading, Forest, Node
  <2> QED BY <2>1 DEF At, HeaderAt
<1> QED BY <1>5, <1>6, <1>7

-----------------------------------------------------------------------------
(* The dictionary *)

Entry == [id : Hash, chain : Chain]
Entries(d) == {d[i] : i \in 1 .. Len(d)}
Distinct(d) == \A i, j \in 1 .. Len(d) : d[i].id = d[j].id => i = j

\* The loop over the dictionary finds the first chain of a set.
LEMMA FirstOf ==
  ASSUME chains \in Seq(Entry), NEW S, NEW e \in Loaded, e \in S
  PROVE  \E i \in 1 .. Len(chains) :
           /\ chains[i].chain = First(S) /\ First(S) \in S /\ First(S) \in Loaded
           /\ \A j \in 1 .. i - 1 : chains[j].chain \notin S
<1> DEFINE T == {i \in 1 .. Len(chains) : chains[i].chain \in S}
           Q(i) == chains[i].chain \in S /\ \A j \in 1 .. i - 1 : chains[j].chain \notin S
<1>1. T \in SUBSET Nat /\ T # {}
  BY DEF Loaded
<1>2. PICK m \in T : \A n \in T : m <= n
  <2> HIDE DEF T
  <2> QED BY <1>1, Least
<1>3. m \in 1 .. Len(chains) /\ Q(m)
  BY <1>2
<1>4. First(S) = chains[CHOOSE i \in 1 .. Len(chains) : Q(i)].chain
  BY DEF First
<1>5. PICK n \in 1 .. Len(chains) : Q(n) /\ First(S) = chains[n].chain
  <2> HIDE DEF Q
  <2> QED BY <1>3, <1>4
<1> QED BY <1>5 DEF Loaded

LEMMA PutDict ==
  ASSUME NEW d \in Seq(Entry), Distinct(d), NEW id \in Hash, NEW c \in Chain
  PROVE  /\ Put(d, id, c) \in Seq(Entry) /\ Distinct(Put(d, id, c))
         /\ Entries(Put(d, id, c)) = {e \in Entries(d) : e.id # id} \cup {[id |-> id, chain |-> c]}
<1> DEFINE new == [id |-> id, chain |-> c]
<1>1. new \in Entry /\ new.id = id /\ new.chain = c
  BY DEF Entry
<1>2. CASE \E i \in 1 .. Len(d) : d[i].id = id
  <2>1. PICK k \in 1 .. Len(d) : d[k].id = id
    BY <1>2
  <2> DEFINE q == [i \in 1 .. Len(d) |-> IF d[i].id = id THEN new ELSE d[i]]
  <2>2. Put(d, id, c) = q
    BY <1>2 DEF Put
  <2>3. \A i \in 1 .. Len(d) : d[i] \in Entry /\ (d[i].id = id <=> i = k)
    BY <2>1 DEF Distinct
  <2>4. q \in Seq(Entry) /\ Len(q) = Len(d) /\ \A i \in 1 .. Len(d) : q[i] = IF i = k THEN new ELSE d[i]
    BY <1>1, <2>3
  <2> HIDE DEF q, new
  <2>5. Distinct(q)
    BY <1>1, <2>3, <2>4 DEF Distinct
  <2>6. Entries(q) = {e \in Entries(d) : e.id # id} \cup {new}
    BY <1>1, <2>3, <2>4 DEF Entries
  <2> QED BY <2>2, <2>4, <2>5, <2>6 DEF new
<1>3. CASE ~\E i \in 1 .. Len(d) : d[i].id = id
  <2> DEFINE q == Append(d, new)
  <2>2. Put(d, id, c) = q
    BY <1>3 DEF Put
  <2>4. /\ q \in Seq(Entry) /\ Len(q) = Len(d) + 1 /\ q[Len(d) + 1] = new
        /\ \A i \in 1 .. Len(d) : q[i] = d[i]
    <3> HIDE DEF new
    <3> QED BY <1>1
  <2> HIDE DEF q, new
  <2>5. Distinct(q)
    BY <1>1, <1>3, <2>4 DEF Distinct
  <2>6. Entries(q) = {e \in Entries(d) : e.id # id} \cup {new}
    BY <1>1, <1>3, <2>4 DEF Entries
  <2> QED BY <2>2, <2>4, <2>5, <2>6 DEF new
<1> QED BY <1>2, <1>3

LEMMA DropDict ==
  ASSUME NEW d \in Seq(Entry), Distinct(d), NEW id
  PROVE  /\ Drop(d, id) \in Seq(Entry) /\ Distinct(Drop(d, id))
         /\ Entries(Drop(d, id)) = {e \in Entries(d) : e.id # id}
<1>1. CASE \E i \in 1 .. Len(d) : d[i].id = id
  <2> DEFINE k == CHOOSE j \in 1 .. Len(d) : d[j].id = id
             low == SubSeq(d, 1, k - 1)
             high == SubSeq(d, k + 1, Len(d))
             q == low \o high
  <2>1. k \in 1 .. Len(d) /\ d[k].id = id
    BY <1>1
  <2>2. Drop(d, id) = q
    BY <1>1 DEF Drop
  <2> HIDE DEF k
  <2>3. \A i \in 1 .. Len(d) : d[i] \in Entry /\ (d[i].id = id <=> i = k)
    BY <2>1 DEF Distinct
  <2>4. /\ low \in Seq(Entry) /\ Len(low) = k - 1 /\ \A i \in 1 .. k - 1 : low[i] = d[i]
        /\ high \in Seq(Entry) /\ Len(high) = Len(d) - k
        /\ \A i \in 1 .. Len(d) - k : high[i] = d[k + i]
    BY <2>1
  <2> HIDE DEF low, high
  <2>5. /\ q \in Seq(Entry) /\ Len(q) = Len(d) - 1
        /\ \A i \in 1 .. Len(d) - 1 : q[i] = IF i < k THEN d[i] ELSE d[i + 1]
    <3>1. /\ q \in Seq(Entry) /\ Len(q) = Len(low) + Len(high)
          /\ \A i \in 1 .. Len(low) + Len(high) : q[i] = IF i <= Len(low) THEN low[i] ELSE high[i - Len(low)]
      BY <2>4, ConcatProperties
    <3>2. Len(low) + Len(high) = Len(d) - 1
      BY <2>1, <2>4
    <3>3. SUFFICES ASSUME NEW i \in 1 .. Len(d) - 1 PROVE q[i] = IF i < k THEN d[i] ELSE d[i + 1]
      BY <3>1, <3>2
    <3> HIDE DEF q
    <3>4. CASE i < k
      <4>1. i <= Len(low) /\ i \in 1 .. k - 1
        BY <2>1, <2>4, <3>4
      <4> QED BY <2>4, <3>1, <3>2, <3>4, <4>1
    <3>5. CASE ~(i < k)
      <4>1. ~(i <= Len(low)) /\ i - Len(low) \in 1 .. Len(d) - k /\ k + (i - Len(low)) = i + 1
        BY <2>1, <2>4, <3>5
      <4>2. high[i - Len(low)] = d[i + 1]
        BY <2>4, <4>1
      <4> QED BY <3>1, <3>2, <3>5, <4>1, <4>2
    <3> QED BY <3>4, <3>5
  <2> HIDE DEF q
  <2>6. \A i \in 1 .. Len(d) - 1 : \E j \in 1 .. Len(d) : q[i] = d[j] /\ j # k /\ j = IF i < k THEN i ELSE i + 1
    BY <2>1, <2>5
  <2>7. Distinct(q)
    <3> SUFFICES ASSUME NEW i \in 1 .. Len(d) - 1, NEW j \in 1 .. Len(d) - 1, q[i].id = q[j].id
                 PROVE  i = j
      BY <2>5 DEF Distinct
    <3>1. PICK m \in 1 .. Len(d) : q[i] = d[m] /\ m = IF i < k THEN i ELSE i + 1
      BY <2>6
    <3>2. PICK n \in 1 .. Len(d) : q[j] = d[n] /\ n = IF j < k THEN j ELSE j + 1
      BY <2>6
    <3>3. m = n
      BY <3>1, <3>2 DEF Distinct
    <3> QED BY <2>1, <3>1, <3>2, <3>3
  <2>8. Entries(q) = {e \in Entries(d) : e.id # id}
    <3>1. ASSUME NEW e \in Entries(q) PROVE e \in Entries(d) /\ e.id # id
      <4>1. PICK i \in 1 .. Len(d) - 1 : e = q[i]
        BY <2>5, <3>1 DEF Entries
      <4> QED BY <2>3, <2>6, <4>1 DEF Entries
    <3>2. ASSUME NEW e \in Entries(d), e.id # id PROVE e \in Entries(q)
      <4>1. PICK j \in 1 .. Len(d) : e = d[j]
        BY <3>2 DEF Entries
      <4>2. j # k
        BY <2>1, <3>2, <4>1
      <4>3. CASE j < k
        <5>1. j \in 1 .. Len(d) - 1 /\ q[j] = d[j]
          BY <2>1, <2>5, <4>3
        <5> QED BY <2>5, <4>1, <5>1 DEF Entries
      <4>4. CASE ~(j < k)
        <5>1. j - 1 \in 1 .. Len(d) - 1 /\ ~(j - 1 < k) /\ j - 1 + 1 = j
          BY <2>1, <4>2, <4>4
        <5>2. q[j - 1] = d[j]
          BY <2>5, <5>1
        <5> QED BY <2>5, <4>1, <5>1, <5>2 DEF Entries
      <4> QED BY <4>3, <4>4
    <3> QED BY <3>1, <3>2
  <2> QED BY <2>2, <2>5, <2>7, <2>8
<1>2. CASE ~\E i \in 1 .. Len(d) : d[i].id = id
  BY <1>2 DEF Drop, Entries
<1> QED BY <1>1, <1>2

-----------------------------------------------------------------------------
(* Headers arrive *)

LEMMA EntryTypes ==
  ASSUME chains \in Seq(Entry)
  PROVE  \A i \in 1 .. Len(chains) : chains[i].chain \in Chain /\ chains[i].id \in Hash
<1>1. \A i \in 1 .. Len(chains) : chains[i] \in Entry
  OBVIOUS
<1> QED BY <1>1 DEF Entry

LEMMA AliveBasics ==
  ASSUME TypeOK, Forest, cur \in Chain \cup {NoChain}
  PROVE  /\ Loaded \subseteq Live /\ Live \subseteq Chain /\ NoChain \notin Live
         /\ Live = Loaded \cup (IF cur = NoChain THEN {} ELSE {cur})
         /\ \A c \in Live : /\ Node(c) /\ tip[c] \in Header /\ bc[c].hash \in Header
                            /\ bc[c].forkpoint = Height[bc[c].hash]
                            /\ OnBranch(bc[c].hash, tip[c])
                            /\ bc[c].forkpoint \in Nat /\ Height[tip[c]] \in Nat
                            /\ bc[c].forkpoint <= Height[tip[c]]
<1>1. Loaded \subseteq Chain
  BY EntryTypes DEF TypeOK, Loaded, Entry
<1>2. Live \subseteq Chain /\ NoChain \notin Live
  BY <1>1, ChainAssumption DEF Live
<1>3. \A c \in Live : Node(c)
  BY DEF Forest
<1> QED BY <1>1, <1>2, <1>3, HeaderTypes DEF Node, OnBranch, Live

\* An object whose branch goes on, with its file
LEMMA Grow ==
  ASSUME TypeOK, Alive, pc = "idle", intact, NEW c \in Loaded, NEW h \in Header,
         OnBranch(tip[c], h),
         files' = [files EXCEPT ![FileOf(bc[c])] = Seg(bc[c].forkpoint, h)],
         bc' = [bc EXCEPT ![c].size = Height[h] - bc[c].forkpoint + 1],
         tip' = [tip EXCEPT ![c] = h],
         Swap(c, FALSE), UNCHANGED <<chains, exchange, crashes, clean, intact>>
  PROVE  Body'
<1>1. /\ Loaded \subseteq Chain /\ Live = Loaded /\ Live' = Loaded /\ Loaded' = Loaded /\ c \in Live
      /\ cur' = c /\ c \in Chain /\ pc' = "swap" /\ forking' = FALSE /\ swaps' = 0 /\ cur = NoChain
  <2>1. Loaded \subseteq Chain
    BY EntryTypes DEF TypeOK, Loaded, Entry
  <2>2. cur = NoChain /\ Loaded' = Loaded /\ cur' = c /\ pc' = "swap" /\ forking' = FALSE /\ swaps' = 0
    BY DEF Loaded, Swap, Alive
  <2>3. Live = Loaded /\ Live' = Loaded
    BY <2>1, <2>2, ChainAssumption DEF Live
  <2> QED BY <2>1, <2>2, <2>3
<1>2. \A d \in Live : /\ Node(d) /\ tip[d] \in Header /\ bc[d].hash \in Header
                      /\ bc[d].forkpoint = Height[bc[d].hash] /\ bc[d].forkpoint \in Nat
                      /\ OnBranch(bc[d].hash, tip[d]) /\ Filed(d) /\ FileOf(bc[d]) \in DOMAIN files
  BY AliveBasics DEF Alive, Contents, TypeOK
<1>3. /\ \A d \in Chain : /\ bc'[d].forkpoint = bc[d].forkpoint /\ bc'[d].hash = bc[d].hash
                          /\ bc'[d].prev = bc[d].prev /\ bc'[d].parent = bc[d].parent
                          /\ FileOf(bc'[d]) = FileOf(bc[d])
                          /\ d # c => bc'[d] = bc[d]
      /\ bc'[c].size = Height[h] - bc[c].forkpoint + 1
  BY <1>1 DEF TypeOK, FileOf
<1>4. /\ tip' \in [Chain -> Header] /\ \A d \in Chain : tip'[d] = IF d = c THEN h ELSE tip[d]
  BY <1>1 DEF TypeOK
<1>5. \A d \in Live : tip'[d] \in Header /\ OnBranch(tip[d], tip'[d])
  BY <1>1, <1>2, <1>4, OnSelf
<1>6. bc[c].forkpoint <= Height[h] /\ Height[h] \in Nat /\ bc[c].forkpoint \in Nat
  BY <1>1, <1>2, OnTrans, HeaderTypes DEF OnBranch
<1>7. /\ DOMAIN files' = DOMAIN files /\ files'[FileOf(bc[c])] = Seg(bc[c].forkpoint, h)
      /\ \A q \in DOMAIN files : q # FileOf(bc[c]) => files'[q] = files[q]
  BY <1>1, <1>2
<1>8. Seg(bc[c].forkpoint, h) \in Seq(Header)
  BY <1>6, SegType
<1>9. TypeOK'
  <2>1. /\ MainFile \in DOMAIN files' /\ DOMAIN files' \ {MainFile} \subseteq (Nat \ {0}) \X Header \X Hash
        /\ \A q \in DOMAIN files' : files'[q] \in Seq(Header)
    BY <1>7, <1>8 DEF TypeOK
  <2>2. bc' \in [Chain -> [forkpoint : Nat, hash : Hash, prev : Hash, parent : Chain \cup {NoChain}, size : Nat]]
    <3>1. Height[h] - bc[c].forkpoint + 1 \in Nat
      BY <1>6
    <3> QED BY <3>1 DEF TypeOK
  <2>3. /\ chains' = chains /\ mine' = mine /\ old' = old /\ crashes' = crashes /\ clean' = clean
        /\ intact' = intact
    BY DEF exchange
  <2>4. /\ chains \in Seq([id : Hash, chain : Chain]) /\ mine \in Seq(Header) /\ old \in Chain \cup {NoChain}
        /\ crashes \in 0 .. MaxCrashes /\ clean \in BOOLEAN /\ intact \in BOOLEAN
    BY DEF TypeOK
  <2> QED BY <1>1, <1>4, <2>1, <2>2, <2>3, <2>4 DEF TypeOK
<1>10. \A d \in Live' : Node(d)'
  <2> SUFFICES ASSUME NEW d \in Live PROVE Node(d)'
    BY <1>1
  <2>1. OnBranch(bc[d].hash, tip'[d])
    BY <1>2, <1>5, OnTrans
  <2>2. ASSUME bc[d].parent # NoChain
        PROVE  /\ bc[d].parent \in Loaded /\ bc[d].hash # Genesis /\ bc[d].prev = Prev[bc[d].hash]
               /\ OnBranch(bc[d].prev, tip'[bc[d].parent])
    <3>1. /\ bc[d].parent \in Loaded /\ bc[d].hash # Genesis /\ bc[d].prev = Prev[bc[d].hash]
          /\ OnBranch(bc[d].prev, tip[bc[d].parent])
      BY <1>2, <2>2 DEF Node
    <3>2. bc[d].prev \in Header
      BY <1>2, <3>1, PrevBelow
    <3> QED BY <1>1, <1>2, <1>5, <3>1, <3>2, OnTrans
  <2> QED BY <1>1, <1>2, <1>3, <1>5, <2>1, <2>2 DEF Node
<1>11. Forest'
  <2>1. \E d \in Loaded' : bc'[d].parent = NoChain
    BY <1>1, <1>3 DEF Alive, Forest
  <2>2. PICK r \in [Chain -> Nat] : Ranked(r)
    BY DEF Alive, Forest
  <2>3. Ranked(r)'
    BY <1>1, <1>3, <2>2 DEF Ranked
  <2> QED BY <1>10, <2>1, <2>3 DEF Forest
<1>12. \A d, e \in Live : d # e => ~OnBranch(tip[d], tip[e])
  BY DEF Alive, Apart
<1>13. Apart'
  <2> SUFFICES ASSUME NEW d \in Live, NEW e \in Live, d # e PROVE ~OnBranch(tip'[d], tip'[e])
    BY <1>1 DEF Apart
  <2> QED BY <1>1, <1>2, <1>4, <1>12, ApartGrows
<1>14. Once'
  <2>1. \A d, e \in Live : d # e => \A x \in Header : ~(Stores(d, x) /\ Stores(e, x))
    BY DEF Alive, Once
  <2>2. ASSUME NEW e \in Live, e # c, NEW x \in Header, Stores(c, x)', Stores(e, x) PROVE FALSE
    <3>1. OnBranch(bc[c].hash, x) /\ OnBranch(x, h) /\ OnBranch(x, tip[e])
      BY <1>1, <1>3, <1>4, <2>2 DEF Stores
    <3>2. OnBranch(x, tip[c]) \/ OnBranch(tip[c], x)
      BY <1>1, <1>2, <3>1, OnTotal
    <3>3. CASE OnBranch(x, tip[c])
      BY <1>1, <2>1, <2>2, <3>1, <3>3 DEF Stores
    <3>4. CASE OnBranch(tip[c], x)
      <4>1. OnBranch(tip[c], tip[e])
        BY <1>1, <1>2, <3>1, <3>4, OnTrans
      <4> QED BY <1>1, <1>12, <2>2, <4>1
    <3> QED BY <3>2, <3>3, <3>4
  <2>3. \A e \in Live, x \in Header : e # c => (Stores(e, x)' <=> Stores(e, x))
    BY <1>1, <1>3, <1>4 DEF Stores
  <2> SUFFICES ASSUME NEW d \in Live, NEW e \in Live, d # e, NEW x \in Header, Stores(d, x)', Stores(e, x)'
               PROVE  FALSE
    BY <1>1 DEF Once
  <2> QED BY <2>1, <2>2, <2>3
<1>15. Dict' /\ Idle' /\ New'
  <2>1. \A i \in 1 .. Len(chains) : chains[i].chain \in Chain
    BY EntryTypes DEF TypeOK, Entry
  <2> QED BY <1>1, <1>3, <2>1 DEF Alive, Dict, Idle, New
<1>16. \A d \in Live : d # c => FileOf(bc[d]) # FileOf(bc[c])
  BY <1>1, <1>2, FilesDiffer DEF Alive
<1>17. {FileOf(bc'[d]) : d \in Live'} = {FileOf(bc[d]) : d \in Live}
  BY <1>1, <1>3
<1>18. Strays'
  <2> SUFFICES ASSUME NEW q \in DOMAIN files \ {FileOf(bc[d]) : d \in Live} PROVE Lost(q)'
    BY <1>7, <1>17 DEF Strays
  <2>1. PICK x \in Headers : /\ q = NameOf(x) /\ files[q] \in {<<>>, <<x>>}
                             /\ \E d \in Loaded : OnBranch(Prev[x], tip[d])
                             /\ \A d \in Live : ~OnBranch(x, tip[d]) /\ ~OnBranch(tip[d], x)
    BY DEF Alive, Strays, Lost
  <2>2. x \in Header /\ Prev[x] \in Header
    BY PrevBelow DEF Headers
  <2>3. \E d \in Loaded : OnBranch(Prev[x], tip'[d])
    BY <1>1, <1>2, <1>5, <2>1, <2>2, OnTrans
  <2>4. \A d \in Live : ~OnBranch(x, tip'[d]) /\ ~OnBranch(tip'[d], x)
    BY <1>2, <1>5, <2>1, <2>2, ApartGrows
  <2>5. files'[q] = files[q]
    BY <1>1, <1>7
  <2> QED BY <1>1, <2>1, <2>3, <2>4, <2>5 DEF Lost
<1>19. \A d \in Live' : Filed(d)'
  <2> SUFFICES ASSUME NEW d \in Live PROVE Filed(d)'
    BY <1>1
  <2>1. CASE d = c
    BY <1>1, <1>2, <1>3, <1>4, <1>7, <2>1 DEF Filed
  <2>2. CASE d # c
    BY <1>1, <1>2, <1>3, <1>4, <1>7, <1>16, <2>2 DEF Filed
  <2> QED BY <2>1, <2>2
<1>20. ASSUME clean PROVE ParentsBest' /\ NoStrays'
  <2>1. \A d \in Live : bc[d].parent # NoChain => Work[tip[d]] <= Work[tip[bc[d].parent]]
    <3>1. cur \notin Live
      BY <1>1, ChainAssumption
    <3> QED BY <1>20, <3>1 DEF Alive, ParentsBest
  <2>2. NoStrays'
    BY <1>7, <1>17, <1>20 DEF Alive, NoStrays
  <2>3. ASSUME NEW d \in Live, d # c, bc[d].parent # NoChain
        PROVE  Work[tip'[d]] <= Work[tip'[bc[d].parent]]
    <3>1. bc[d].parent \in Live
      BY <1>1, <1>2, <2>3 DEF Node
    <3>2. tip'[d] = tip[d] /\ OnBranch(tip[bc[d].parent], tip'[bc[d].parent])
      BY <1>1, <1>4, <1>5, <2>3, <3>1
    <3>3. Work[tip[bc[d].parent]] <= Work[tip'[bc[d].parent]] /\ Work[tip[bc[d].parent]] \in Nat
          /\ Work[tip'[bc[d].parent]] \in Nat
      BY <1>2, <1>5, <3>1, <3>2, WorkGrows
    <3>4. Work[tip[d]] \in Nat
      BY <1>2, HeaderAssumption
    <3> QED BY <2>1, <2>3, <3>2, <3>3, <3>4
  <2>4. ParentsBest'
    BY <1>1, <1>3, <2>3 DEF ParentsBest
  <2> QED BY <2>2, <2>4
<1>21. Contents'
  BY <1>1, <1>19 DEF Contents, Filed
<1>22. Alive'
  BY <1>1, <1>11, <1>13, <1>14, <1>15, <1>18, <1>20, <1>21 DEF Alive
<1> QED BY <1>1, <1>9, <1>22 DEF Body

\* What the code reads of the objects while no file is half written
LEMMA Quiet ==
  ASSUME TypeOK, Alive, pc \notin {"parent", "rename"}
  PROVE  /\ Reading /\ Loaded \subseteq Live /\ Live \subseteq Chain /\ NoChain \notin Live
         /\ Live = Loaded \cup (IF cur = NoChain THEN {} ELSE {cur})
         /\ chains \in Seq(Entry)
         /\ \A c \in Live : /\ Node(c) /\ Filed(c) /\ HeightOf(c) = Height[tip[c]]
                            /\ \A k \in Nat : HashAt(c, k) = At(c, k)
<1>1. cur \in Chain \cup {NoChain}
  BY DEF Alive
<1>2. /\ Loaded \subseteq Live /\ Live \subseteq Chain /\ NoChain \notin Live
      /\ Live = Loaded \cup (IF cur = NoChain THEN {} ELSE {cur})
      /\ \A c \in Live : Node(c)
  BY <1>1, AliveBasics DEF Alive
<1>3. \A c \in Live : Filed(c)
  BY DEF Alive, Contents
<1>4. Reading
  BY <1>3 DEF Reading, Alive
<1> QED BY <1>2, <1>3, <1>4, Sizes, ReadAt DEF TypeOK, Entry

LEMMA ReadTip ==
  ASSUME NEW c, tip[c] \in Header, \A k \in Nat : HashAt(c, k) = At(c, k), HeightOf(c) = Height[tip[c]]
  PROVE  /\ TipOf(c) = tip[c] /\ WorkOf(c) = Work[tip[c]]
         /\ \A h \in Header : Contains(c, h) <=> OnBranch(h, tip[c])
<1>1. TipOf(c) = tip[c]
  BY HeaderTypes, AtTop DEF TipOf, At
<1>2. WorkOf(c) = Work[tip[c]]
  BY <1>1, HeaderAssumption DEF WorkOf
<1>3. ASSUME NEW h \in Header PROVE Contains(c, h) <=> OnBranch(h, tip[c])
  BY HeaderTypes, HeaderAssumption DEF Contains, At, OnBranch
<1> QED BY <1>1, <1>2, <1>3

LEMMA SaveHeaderBody ==
  ASSUME TypeOK, Alive, intact, NEW h \in Headers, SaveHeader(h)
  PROVE  Body'
<1> DEFINE S == {d \in Loaded : TipConnects(d, h)}
           c == First(S)
           f == bc[c].forkpoint
<1>1. pc = "idle" /\ S # {}
  BY DEF SaveHeader
<1>2. /\ Reading /\ Loaded \subseteq Live /\ chains \in Seq(Entry)
      /\ \A d \in Live : /\ Node(d) /\ Filed(d) /\ HeightOf(d) = Height[tip[d]]
                         /\ \A k \in Nat : HashAt(d, k) = At(d, k)
  BY <1>1, Quiet
<1>3. c \in Loaded /\ TipConnects(c, h)
  <2>1. c \in S
    <3>1. PICK e \in Loaded : e \in S
      BY <1>1
    <3> HIDE DEF S
    <3> QED BY <1>2, <3>1, FirstOf
  <2> QED BY <2>1
<1> HIDE DEF c
<1>4. /\ tip[c] \in Header /\ Height[tip[c]] \in Nat /\ h \in Header /\ h # Genesis
      /\ Prev[h] \in Header /\ Height[h] = Height[Prev[h]] + 1 /\ Height[Prev[h]] \in Nat
  BY <1>2, <1>3, HeaderTypes, PrevBelow DEF Headers, Node
<1>5. tip[c] = Prev[h]
  <2>1. Height[tip[c]] = Height[Prev[h]] /\ At(c, Height[tip[c]]) = Prev[h]
    BY <1>2, <1>3, <1>4 DEF TipConnects
  <2> QED BY <1>4, <2>1, AtTop DEF At
<1>6. /\ f \in Nat /\ f <= Height[tip[c]] /\ bc[c].size = Height[h] - f
      /\ files[FileOf(bc[c])] = Seg(f, tip[c])
  BY <1>2, <1>3, <1>4, <1>5, Sizes DEF Filed
<1>7. Overwrite(files[FileOf(bc[c])], bc[c].size, <<h>>) = Seg(f, h)
  <2>1. <<h>> = Seg(Height[h], h)
    BY <1>4, SegOne
  <2>2. \A k \in 0 .. Height[h] - 1 : HeaderAt(tip[c], k) = HeaderAt(h, k)
    BY <1>4, <1>5, AtPrev
  <2>3. /\ f <= Height[h] /\ Height[h] \in Nat /\ Height[h] <= Height[tip[c]] + 1 /\ Height[h] <= Height[h] + 1
    BY <1>4, <1>5, <1>6
  <2>4. SubSeq(Seg(f, tip[c]), 1, Height[h] - f) \o Seg(Height[h], h) = Seg(f, h)
    <3>1. f \in Nat
      BY <1>6
    <3> HIDE DEF f
    <3> QED BY <1>4, <2>2, <2>3, <3>1, SegJoin, ZenonT(60)
  <2> HIDE DEF Seg
  <2> QED BY <1>6, <2>1, <2>4 DEF Overwrite
<1>8. Len(Seg(f, h)) = Height[h] - f + 1
  BY <1>4, <1>5, <1>6, SegType
<1>9. OnBranch(tip[c], h)
  BY <1>4, <1>5, OnPrev
<1>10. /\ Store(c, <<h>>, bc[c].size) /\ Swap(c, FALSE) /\ tip' = [tip EXCEPT ![c] = h]
       /\ UNCHANGED <<chains, exchange, crashes, clean, intact>>
  BY DEF SaveHeader, c
<1>11. /\ files' = [files EXCEPT ![FileOf(bc[c])] = Seg(f, h)]
       /\ bc' = [bc EXCEPT ![c].size = Height[h] - f + 1]
  BY <1>7, <1>8, <1>10 DEF Store
<1> QED BY <1>1, <1>3, <1>4, <1>9, <1>10, <1>11, Grow

LEMMA ChunkBaseNat == \A k \in Nat \ {0} : ChunkBase(k) \in Nat
<1> SUFFICES ASSUME NEW k \in Nat \ {0} PROVE ChunkBase(k) \in Nat
  OBVIOUS
<1> DEFINE q == (k - 1) \div ChunkLen
<1>1. ChunkLen \in Nat /\ ChunkLen > 0
  BY ChainAssumption
<1>2. q \in Nat
  BY <1>1
<1> HIDE DEF q
<1>3. q * ChunkLen \in Nat
  BY <1>1, <1>2
<1> QED BY <1>3 DEF ChunkBase, q

\* A chunk continues the branch of its chain.
LEMMA ChunkFits ==
  ASSUME TypeOK, Alive, NEW h \in Headers, NEW c \in Loaded, Continues(c, h)
  PROVE  /\ OnBranch(tip[c], h) /\ ChunkStart(c, h) \in Nat /\ ChunkStart(c, h) >= 1
         /\ bc[c].forkpoint <= ChunkStart(c, h) /\ ChunkStart(c, h) <= Height[tip[c]] + 1
         /\ Height[tip[c]] < Height[h]
<1> DEFINE b == ChunkBase(Height[h])
           T == Height[tip[c]]
<1>1. pc = "idle"
  BY DEF Continues
<1>2. /\ Loaded \subseteq Live /\ Node(c) /\ Filed(c) /\ HeightOf(c) = T
      /\ \A k \in Nat : HashAt(c, k) = At(c, k)
  BY <1>1, Quiet
<1>3. /\ h \in Header /\ h # Genesis /\ Height[h] \in Nat \ {0} /\ tip[c] \in Header /\ T \in Nat
      /\ bc[c].forkpoint \in Nat /\ bc[c].forkpoint <= T
  BY <1>2, HeaderTypes, GenesisLow, Sizes DEF Headers, Node
<1>4. b \in Nat /\ T \in b .. Height[h] - 1
  BY <1>2, <1>3, ChunkBaseNat DEF Continues
<1>5. /\ HashAt(c, b) = HeaderAt(h, b)
      /\ \A k \in b + 1 .. Height[h] : HashAt(c, k) \in {NoHeader, Branch[h][k]}
  BY DEF Continues, Fits
<1> HIDE DEF b
<1>6. At(c, T) = tip[c] /\ HashAt(c, T) = tip[c]
  BY <1>2, <1>3, AtTop DEF At
<1>7. HeaderAt(h, T) = tip[c]
  <2>1. CASE T = b
    BY <1>5, <1>6, <2>1
  <2>2. CASE T # b
    <3>1. T \in b + 1 .. Height[h] /\ T # 0
      BY <1>3, <1>4, <2>2
    <3>2. tip[c] \in {NoHeader, Branch[h][T]}
      BY <1>5, <1>6, <3>1
    <3>3. tip[c] # NoHeader
      BY <1>3, HeaderAssumption
    <3> QED BY <3>1, <3>2, <3>3 DEF HeaderAt
  <2> QED BY <2>1, <2>2
<1>8. OnBranch(tip[c], h)
  BY <1>3, <1>4, <1>7 DEF OnBranch
<1>9. /\ ChunkStart(c, h) \in Nat /\ ChunkStart(c, h) >= 1
      /\ bc[c].forkpoint <= ChunkStart(c, h) /\ ChunkStart(c, h) <= T + 1
  BY <1>3, <1>4 DEF ChunkStart, b
<1> QED BY <1>3, <1>4, <1>8, <1>9

LEMMA ConnectChunkBody ==
  ASSUME TypeOK, Alive, intact, NEW h \in Headers, NEW c \in Chain, ConnectChunk(c, h)
  PROVE  Body'
<1> DEFINE g == ChunkStart(c, h)
           f == bc[c].forkpoint
<1>1. pc = "idle" /\ c \in Loaded /\ Continues(c, h)
  BY DEF ConnectChunk, Continues
<1>2. /\ OnBranch(tip[c], h) /\ g \in Nat /\ g >= 1 /\ f <= g /\ g <= Height[tip[c]] + 1
      /\ Height[tip[c]] < Height[h]
  BY <1>1, ChunkFits
<1>3. c \in Live /\ Node(c) /\ Filed(c) /\ h \in Header /\ tip[c] \in Header /\ Height[h] \in Nat
  BY <1>1, Quiet, HeaderTypes DEF Node, Headers
<1>4. f \in Nat /\ f <= Height[tip[c]] /\ Height[tip[c]] \in Nat /\ files[FileOf(bc[c])] = Seg(f, tip[c])
  BY <1>3, Sizes DEF Filed
<1>5. ConnectChunk(c, h)
  OBVIOUS
<1>6. /\ Store(c, SubSeq(Branch[h], g, Height[h]), g - f) /\ Swap(c, FALSE)
      /\ tip' = [tip EXCEPT ![c] = h] /\ UNCHANGED <<chains, exchange, crashes, clean, intact>>
  BY DEF ConnectChunk
<1> HIDE DEF g, f
<1>7. SubSeq(Branch[h], g, Height[h]) = Seg(g, h)
  <2>1. g <= Height[h] + 1
    BY <1>2, <1>3, <1>4
  <2> QED BY <1>2, <1>3, <2>1, SegBranch
<1>8. \A k \in 0 .. g - 1 : HeaderAt(tip[c], k) = HeaderAt(h, k)
  <2>1. \A k \in 0 .. g - 1 : k \in 0 .. Height[tip[c]]
    BY <1>2, <1>4
  <2> QED BY <1>2, <1>3, <2>1, AtOn
<1>9. SubSeq(Seg(f, tip[c]), 1, g - f) \o Seg(g, h) = Seg(f, h)
  <2>1. g <= Height[h] + 1
    BY <1>2, <1>3, <1>4
  <2> QED BY <1>2, <1>3, <1>4, <1>8, <2>1, SegJoin, ZenonT(60)
<1>10. Len(Seg(f, h)) = Height[h] - f + 1
  <2>1. f <= Height[h] + 1
    BY <1>2, <1>3, <1>4
  <2> QED BY <1>3, <1>4, <2>1, SegType
<1>11. /\ files' = [files EXCEPT ![FileOf(bc[c])] = Seg(f, h)]
       /\ bc' = [bc EXCEPT ![c].size = Height[h] - f + 1]
  <2> HIDE DEF Seg
  <2> QED BY <1>4, <1>6, <1>7, <1>9, <1>10 DEF Store, Overwrite
<1> QED BY <1>1, <1>2, <1>3, <1>6, <1>11, Grow DEF f

\* The file of the next fork is that of no chain.
LEMMA ForkName ==
  ASSUME TypeOK, Alive, NEW h \in Headers, BeginsFork(h)
  PROVE  /\ pc = "idle" /\ NameOf(h) # MainFile /\ NameOf(h) \in (Nat \ {0}) \X Header \X Hash
         /\ \A d \in Live : FileOf(bc[d]) # NameOf(h)
<1>1. pc = "idle" /\ ~Known(h)
  BY DEF BeginsFork
<1>2. /\ Live = Loaded /\ NameOf(h) # MainFile
      /\ \A d \in Live : Node(d) /\ HeightOf(d) = Height[tip[d]] /\ \A k \in Nat : HashAt(d, k) = At(d, k)
  BY <1>1, Quiet, NameDiffer DEF Alive
<1>3. NameOf(h) \in (Nat \ {0}) \X Header \X Hash
  <2>1. h \in Header /\ Prev[h] \in Header /\ Height[h] \in Nat \ {0}
    BY PrevBelow, HeaderTypes, GenesisLow DEF Headers
  <2> QED BY <2>1 DEF NameOf, Hash
<1>4. ASSUME NEW d \in Live, FileOf(bc[d]) = NameOf(h) PROVE FALSE
  <2>1. bc[d].hash = h
    <3>1. bc[d].hash \in Headers /\ FileOf(bc[d]) = NameOf(bc[d].hash)
      BY <1>2, <1>4, NodeName
    <3> QED BY <1>4, <3>1, NameDiffer
  <2>2. ~OnBranch(h, tip[d])
    <3>1. tip[d] \in Header /\ h \in Header
      BY <1>2 DEF Node, Headers
    <3> QED BY <1>1, <1>2, <3>1, ReadTip DEF Known
  <2> QED BY <1>2, <2>1, <2>2 DEF Node
<1> QED BY <1>1, <1>2, <1>3, <1>4

LEMMA ForkBody ==
  ASSUME TypeOK, Alive, intact, NEW h \in Headers, Fork(h)
  PROVE  Body'
<1> DEFINE S == {d \in Loaded : Contains(d, Prev[h])}
           name == NameOf(h)
<1>2. /\ Loaded \subseteq Live /\ Live \subseteq Chain /\ chains \in Seq(Entry) /\ cur = NoChain
      /\ Live = Loaded
      /\ \A d \in Live : /\ Node(d) /\ Filed(d) /\ HeightOf(d) = Height[tip[d]]
                         /\ \A k \in Nat : HashAt(d, k) = At(d, k)
  <2>1. pc = "idle"
    BY DEF Fork, BeginsFork
  <2> QED BY <2>1, Quiet DEF Alive
<1>3. PICK p \in Loaded : p = First(S) /\ Contains(p, Prev[h])
  <2>1. PICK e \in Loaded : e \in S
    BY DEF Fork, BeginsFork, Known
  <2>2. First(S) \in S
    <3> HIDE DEF S
    <3> QED BY <1>2, <2>1, FirstOf
  <2> QED BY <2>2
<1>4. PICK c \in Chain : c \notin Loaded /\ c = CHOOSE d \in Chain : d \notin Loaded
  <2>1. \E d \in Chain : d \notin Loaded
    BY <1>2 DEF Fork, BeginsFork
  <2> QED BY <2>1
<1> DEFINE b == [forkpoint |-> Height[h], hash |-> h, prev |-> Prev[h], parent |-> p, size |-> 1]
<1>1. /\ pc = "idle" /\ ~Known(h) /\ HeightOf(p) # Height[Prev[h]]
      /\ bc' = [bc EXCEPT ![c] = b]
      /\ files' = Opened(h, <<h>>)
      /\ Swap(c, TRUE) /\ tip' = [tip EXCEPT ![c] = h]
      /\ UNCHANGED <<chains, exchange, crashes, clean, intact>>
  BY <1>3, <1>4 DEF Fork, BeginsFork
<1>5. /\ h \in Header /\ h # Genesis /\ Prev[h] \in Header /\ Height[h] = Height[Prev[h]] + 1
      /\ Height[Prev[h]] \in Nat /\ Height[h] \in Nat \ {0}
  BY PrevBelow, HeaderTypes, GenesisLow DEF Headers
<1>6. \A d \in Live : /\ tip[d] \in Header /\ bc[d].hash \in Header
                      /\ \A x \in Header : Contains(d, x) <=> OnBranch(x, tip[d])
  BY <1>2, ReadTip DEF Node
<1>7. /\ OnBranch(Prev[h], tip[p]) /\ tip[p] # Prev[h]
      /\ \A d \in Live : ~OnBranch(h, tip[d])
  BY <1>1, <1>2, <1>3, <1>5, <1>6 DEF Known
<1>8. /\ Loaded' = Loaded /\ cur' = c /\ pc' = "swap" /\ forking' = TRUE /\ swaps' = 0
      /\ Live' = Live \cup {c} /\ c # NoChain /\ p \in Chain /\ p # NoChain
  BY <1>1, <1>2, <1>3, <1>4, ChainAssumption DEF Loaded, Live, Swap
<1>9. /\ \A d \in Chain : d # c => bc'[d] = bc[d] /\ tip'[d] = tip[d]
      /\ bc'[c] = b /\ tip'[c] = h
  BY <1>1, <1>4 DEF TypeOK
<1>10. FileOf(bc'[c]) = name /\ name # MainFile
  BY <1>8, <1>9, NameDiffer DEF FileOf, NameOf
<1>11. /\ DOMAIN files' = DOMAIN files \cup {name} /\ files'[name] = <<h>>
       /\ \A q \in DOMAIN files : q # name => files'[q] = files[q]
  BY <1>1 DEF Opened
<1>12. \A d \in Live : FileOf(bc[d]) # name
  BY ForkName DEF Fork
<1>13. TypeOK'
  <2>1. name \in (Nat \ {0}) \X Header \X Hash
    BY <1>5 DEF NameOf, Hash
  <2>2. <<h>> \in Seq(Header)
    BY <1>5
  <2>3. /\ MainFile \in DOMAIN files' /\ DOMAIN files' \ {MainFile} \subseteq (Nat \ {0}) \X Header \X Hash
        /\ \A q \in DOMAIN files' : files'[q] \in Seq(Header)
    BY <1>11, <2>1, <2>2 DEF TypeOK
  <2>4. b \in [forkpoint : Nat, hash : Hash, prev : Hash, parent : Chain \cup {NoChain}, size : Nat]
    BY <1>5, <1>8 DEF Hash
  <2>5. bc' \in [Chain -> [forkpoint : Nat, hash : Hash, prev : Hash, parent : Chain \cup {NoChain}, size : Nat]]
    <3> HIDE DEF b
    <3> QED BY <1>1, <2>4 DEF TypeOK
  <2>6. /\ chains' = chains /\ mine' = mine /\ old' = old /\ crashes' = crashes /\ clean' = clean
        /\ intact' = intact /\ tip' \in [Chain -> Header]
    BY <1>1, <1>5 DEF exchange, TypeOK
  <2>7. /\ chains \in Seq([id : Hash, chain : Chain]) /\ mine \in Seq(Header) /\ old \in Chain \cup {NoChain}
        /\ crashes \in 0 .. MaxCrashes /\ clean \in BOOLEAN /\ intact \in BOOLEAN
    BY DEF TypeOK
  <2> QED BY <1>4, <1>8, <2>3, <2>5, <2>6, <2>7 DEF TypeOK
<1>14. Node(c)'
  <2>1. tip'[p] = tip[p]
    BY <1>3, <1>4, <1>8, <1>9
  <2> QED BY <1>3, <1>5, <1>7, <1>8, <1>9, <2>1, OnSelf DEF Node
<1>15. ASSUME NEW d \in Live PROVE Node(d)' /\ Filed(d)' /\ bc'[d] = bc[d] /\ tip'[d] = tip[d]
  <2>1. d # c /\ bc'[d] = bc[d] /\ tip'[d] = tip[d] /\ Node(d) /\ Filed(d)
    BY <1>2, <1>4, <1>9
  <2>2. bc[d].parent \in Loaded => tip'[bc[d].parent] = tip[bc[d].parent]
    BY <1>2, <1>4, <1>9
  <2>3. Node(d)'
    BY <1>8, <2>1, <2>2 DEF Node
  <2>4. Filed(d)'
    BY <1>11, <1>12, <2>1 DEF Filed
  <2> QED BY <2>1, <2>3, <2>4
<1>16. Forest'
  <2>1. \E d \in Loaded' : bc'[d].parent = NoChain
    BY <1>2, <1>8, <1>15 DEF Alive, Forest
  <2>2. PICK r \in [Chain -> Nat] : Ranked(r)
    BY DEF Alive, Forest
  <2> DEFINE s == [r EXCEPT ![c] = r[p] + 1]
  <2>3. s \in [Chain -> Nat] /\ s[c] = r[p] + 1 /\ \A d \in Chain : d # c => s[d] = r[d]
    BY <1>4, <1>8
  <2> HIDE DEF s
  <2>4. Ranked(s)'
    <3> SUFFICES ASSUME NEW d \in Live', bc'[d].parent # NoChain PROVE s[bc'[d].parent] < s[d]
      BY DEF Ranked
    <3>1. CASE d = c
      <4>1. r[p] \in Nat
        BY <1>8
      <4>2. bc'[d].parent = p
        BY <1>9, <3>1
      <4>3. p # c
        BY <1>4
      <4> QED BY <1>8, <2>3, <3>1, <4>1, <4>2, <4>3
    <3>2. CASE d # c
      <4>1. d \in Live /\ bc'[d] = bc[d] /\ bc[d].parent \in Loaded /\ d \in Chain
        BY <1>2, <1>8, <1>15, <3>2 DEF Node
      <4>2. r[bc[d].parent] < r[d] /\ bc[d].parent # c /\ bc[d].parent \in Chain
        BY <1>2, <1>4, <2>2, <4>1 DEF Ranked
      <4> QED BY <2>3, <3>2, <4>1, <4>2
    <3> QED BY <3>1, <3>2
  <2> QED BY <1>8, <1>14, <1>15, <2>1, <2>3, <2>4 DEF Forest
<1>17. \A d, e \in Live : d # e => ~OnBranch(tip[d], tip[e])
  BY DEF Alive, Apart
<1>18. \A d \in Live : ~OnBranch(tip[d], h)
  <2> SUFFICES ASSUME NEW d \in Live, OnBranch(tip[d], h) PROVE FALSE
    OBVIOUS
  <2>1. tip[d] # h
    BY <1>5, <1>7, OnSelf
  <2>2. OnBranch(tip[d], Prev[h])
    BY <1>5, <1>6, <2>1, OnPrev
  <2>3. OnBranch(tip[d], tip[p])
    BY <1>2, <1>3, <1>5, <1>6, <1>7, <2>2, OnTrans
  <2>4. d = p
    BY <1>2, <1>3, <1>17, <2>3
  <2> QED BY <1>5, <1>6, <1>7, <2>2, <2>4, OnBoth
<1>19. Apart'
  <2> SUFFICES ASSUME NEW d \in Live', NEW e \in Live', d # e PROVE ~OnBranch(tip'[d], tip'[e])
    BY DEF Apart
  <2> QED BY <1>7, <1>8, <1>9, <1>15, <1>17, <1>18
<1>20. Once'
  <2>1. \A d, e \in Live : d # e => \A x \in Header : ~(Stores(d, x) /\ Stores(e, x))
    BY DEF Alive, Once
  <2>2. \A e \in Live, x \in Header : Stores(e, x)' <=> Stores(e, x)
    BY <1>15 DEF Stores
  <2>3. ASSUME NEW e \in Live, NEW x \in Header, Stores(c, x)', Stores(e, x) PROVE FALSE
    <3>1. OnBranch(h, x) /\ OnBranch(x, h) /\ OnBranch(x, tip[e])
      BY <1>9, <2>3 DEF Stores
    <3>2. x = h
      BY <1>5, <3>1, OnBoth
    <3> QED BY <1>7, <3>1, <3>2
  <2> SUFFICES ASSUME NEW d \in Live', NEW e \in Live', d # e, NEW x \in Header, Stores(d, x)', Stores(e, x)'
               PROVE  FALSE
    BY DEF Once
  <2> QED BY <1>8, <2>1, <2>2, <2>3
<1>21. Dict' /\ Idle' /\ New'
  <2>1. \A i \in 1 .. Len(chains) : chains[i].chain \in Live
    BY <1>2 DEF Loaded
  <2>2. Dict'
    BY <1>1, <1>15, <2>1 DEF Alive, Dict
  <2>3. Idle'
    BY <1>2, <1>8, <1>9 DEF Alive, Idle
  <2> QED BY <1>4, <1>8, <1>9, <2>2, <2>3 DEF New
<1>22. {FileOf(bc'[d]) : d \in Live'} = {FileOf(bc[d]) : d \in Live} \cup {name}
  BY <1>8, <1>10, <1>15
<1>23. Strays'
  <2> SUFFICES ASSUME NEW q \in DOMAIN files \ {FileOf(bc[d]) : d \in Live}, q # name PROVE Lost(q)'
    BY <1>11, <1>22 DEF Strays
  <2>1. PICK x \in Headers : /\ q = NameOf(x) /\ files[q] \in {<<>>, <<x>>}
                             /\ \E d \in Loaded : OnBranch(Prev[x], tip[d])
                             /\ \A d \in Live : ~OnBranch(x, tip[d]) /\ ~OnBranch(tip[d], x)
    BY DEF Alive, Strays, Lost
  <2>2. x \in Header /\ x # Genesis /\ Prev[x] \in Header /\ x # h
    BY <2>1, PrevBelow DEF Headers
  <2>3. PICK e \in Loaded : OnBranch(Prev[x], tip[e])
    BY <2>1
  <2>4. ~OnBranch(x, h)
    <3> SUFFICES ASSUME OnBranch(x, h) PROVE FALSE
      OBVIOUS
    <3>1. OnBranch(x, Prev[h])
      BY <1>5, <2>2, OnPrev
    <3>2. OnBranch(x, tip[p])
      BY <1>2, <1>3, <1>5, <1>6, <1>7, <2>2, <3>1, OnTrans
    <3> QED BY <1>2, <1>3, <2>1, <3>2
  <2>5. ~OnBranch(h, x)
    <3> SUFFICES ASSUME OnBranch(h, x) PROVE FALSE
      OBVIOUS
    <3>1. OnBranch(h, Prev[x])
      BY <1>5, <2>2, OnPrev
    <3>2. OnBranch(h, tip[e])
      BY <1>2, <1>5, <1>6, <2>2, <2>3, <3>1, OnTrans
    <3> QED BY <1>2, <1>7, <3>2
  <2>6. \A d \in Live' : ~OnBranch(x, tip'[d]) /\ ~OnBranch(tip'[d], x)
    BY <1>8, <1>9, <1>15, <2>1, <2>4, <2>5
  <2>7. \E d \in Loaded' : OnBranch(Prev[x], tip'[d])
    BY <1>2, <1>8, <1>15, <2>3
  <2>8. files'[q] = files[q]
    BY <1>11
  <2> QED BY <2>1, <2>6, <2>7, <2>8 DEF Lost
<1>24. Filed(c)'
  BY <1>5, <1>9, <1>10, <1>11, SegOne DEF Filed
<1>25. Contents'
  BY <1>8, <1>15, <1>24 DEF Contents, Filed
<1>26. ASSUME clean PROVE ParentsBest' /\ NoStrays'
  <2>1. NoStrays'
    BY <1>11, <1>22, <1>26 DEF Alive, NoStrays
  <2>2. ASSUME NEW d \in Live, bc[d].parent # NoChain
        PROVE  Work[tip'[d]] <= Work[tip'[bc[d].parent]]
    <3>1. bc[d].parent \in Live /\ d # cur
      BY <1>2, <2>2, ChainAssumption DEF Node
    <3> QED BY <1>15, <1>26, <2>2, <3>1 DEF Alive, ParentsBest
  <2>3. ParentsBest'
    BY <1>8, <1>15, <2>2 DEF ParentsBest
  <2> QED BY <2>1, <2>3
<1>27. Alive'
  BY <1>1, <1>4, <1>8, <1>16, <1>19, <1>20, <1>21, <1>23, <1>25, <1>26 DEF Alive
<1> QED BY <1>8, <1>13, <1>27 DEF Body

\* A fork that raises empties the file of a lost one.
LEMMA ForkRaisesBody ==
  ASSUME TypeOK, Alive, NEW h \in Headers, ForkRaises(h)
  PROVE  Body' /\ pc' = "idle"
<1> DEFINE name == NameOf(h)
<1>1. /\ BeginsFork(h) /\ name \in DOMAIN files
      /\ bc' = bc /\ chains' = chains /\ pc' = pc /\ cur' = cur /\ forking' = forking /\ swaps' = swaps
      /\ mine' = mine /\ old' = old /\ tip' = tip /\ crashes' = crashes /\ clean' = clean
      /\ intact' = intact
  BY DEF ForkRaises, Littered, objects, op, exchange, history
<1>2. pc = "idle" /\ name # MainFile /\ \A d \in Live : FileOf(bc[d]) # name
  BY <1>1, ForkName
<1>3. /\ DOMAIN files' = DOMAIN files /\ files'[name] = <<>>
      /\ \A q \in DOMAIN files : q # name => files'[q] = files[q]
  <2>1. files' = Opened(h, <<>>)
    BY DEF ForkRaises
  <2> QED BY <1>1, <2>1 DEF Opened
<1>4. Loaded' = Loaded /\ Live' = Live
  BY <1>1 DEF Loaded, Live
<1>5. TypeOK'
  <2>1. ASSUME NEW q \in DOMAIN files PROVE files'[q] \in Seq(Header)
    <3>1. files[q] \in Seq(Header) /\ <<>> \in Seq(Header)
      BY DEF TypeOK
    <3> QED BY <1>3, <3>1
  <2>2. /\ MainFile \in DOMAIN files' /\ DOMAIN files' \ {MainFile} \subseteq (Nat \ {0}) \X Header \X Hash
        /\ \A q \in DOMAIN files' : files'[q] \in Seq(Header)
    BY <1>3, <2>1 DEF TypeOK
  <2> HIDE DEF name
  <2> QED BY <1>1, <2>2 DEF TypeOK
<1>6. Forest'
  <2>1. \A c \in Live : Node(c)'
    BY <1>1, <1>4 DEF Alive, Forest, Node
  <2>2. PICK r \in [Chain -> Nat] : Ranked(r)
    BY DEF Alive, Forest
  <2>3. Ranked(r)'
    BY <1>1, <1>4, <2>2 DEF Ranked
  <2> QED BY <1>1, <1>4, <2>1, <2>3 DEF Alive, Forest
<1>7. Once' /\ (intact' => Apart')
  BY <1>1, <1>4 DEF Alive, Once, Apart, Stores
<1>8. Dict' /\ Idle' /\ New'
  BY <1>1, <1>4 DEF Alive, Dict, Idle, New
<1>9. {FileOf(bc'[c]) : c \in Live'} = {FileOf(bc[c]) : c \in Live}
  BY <1>1, <1>4
<1>10. Strays'
  <2> SUFFICES ASSUME NEW q \in DOMAIN files \ {FileOf(bc[c]) : c \in Live} PROVE Lost(q)'
    BY <1>3, <1>9 DEF Strays
  <2>1. PICK x \in Headers : /\ q = NameOf(x) /\ files[q] \in {<<>>, <<x>>}
                             /\ \E d \in Loaded : OnBranch(Prev[x], tip[d])
                             /\ \A d \in Live : ~OnBranch(x, tip[d]) /\ ~OnBranch(tip[d], x)
    BY DEF Alive, Strays, Lost
  <2>2. files'[q] \in {<<>>, <<x>>}
    BY <1>3, <2>1
  <2> QED BY <1>1, <1>4, <2>1, <2>2 DEF Lost
<1>11. Contents'
  <2>1. \A c \in Live : Filed(c)'
    <3>1. \A c \in Live : Filed(c)
      BY <1>2 DEF Alive, Contents
    <3> QED BY <1>1, <1>2, <1>3, <3>1 DEF Filed
  <2> QED BY <1>4, <2>1 DEF Contents, Filed
<1>12. clean' => ParentsBest' /\ NoStrays'
  <2>1. clean => ParentsBest /\ NoStrays
    BY DEF Alive
  <2> QED BY <1>1, <1>3, <1>4, <1>9, <2>1 DEF ParentsBest, NoStrays
<1>13. Alive'
  BY <1>1, <1>2, <1>4, <1>6, <1>7, <1>8, <1>10, <1>11, <1>12 DEF Alive
<1> QED BY <1>1, <1>2, <1>5, <1>13 DEF Body

-----------------------------------------------------------------------------
(* swap_with_parent *)

\* What a swap compares, and where P branches off
LEMMA SwapBasics ==
  ASSUME TypeOK, Alive, pc = "swap"
  PROVE  /\ cur \in Chain /\ cur # NoChain /\ intact /\ cur \in Live
         /\ P # NoChain => /\ P \in Loaded /\ P \in Live /\ P # cur
                           /\ WorkOf(P) = Work[tip[P]] /\ WorkOf(cur) = Work[tip[cur]]
         /\ ParentWeaker <=> P # NoChain /\ Work[tip[P]] < Work[tip[cur]]
<1>1. cur \in Chain /\ cur # NoChain /\ intact
  BY ChainAssumption DEF Alive
<1>2. /\ Loaded \subseteq Live
      /\ \A d \in Live : /\ Node(d) /\ Filed(d) /\ HeightOf(d) = Height[tip[d]]
                         /\ \A k \in Nat : HashAt(d, k) = At(d, k)
  BY Quiet
<1>3. cur \in Live
  BY <1>1 DEF Live
<1>4. \A d \in Live : tip[d] \in Header /\ WorkOf(d) = Work[tip[d]]
  BY <1>2, ReadTip DEF Node
<1>5. P # NoChain => P \in Loaded /\ P \in Live
  BY <1>2, <1>3 DEF Node, P
<1>6. PICK r \in [Chain -> Nat] : Ranked(r)
  BY DEF Alive, Forest
<1>7. P # NoChain => P # cur
  <2> SUFFICES ASSUME P # NoChain, P = cur PROVE FALSE
    OBVIOUS
  <2>1. r[cur] < r[cur] /\ r[cur] \in Nat
    BY <1>1, <1>3, <1>6 DEF Ranked, P
  <2> QED BY <2>1
<1> QED BY <1>1, <1>3, <1>4, <1>5, <1>7 DEF ParentWeaker

LEMMA SwapEndsBody ==
  ASSUME TypeOK, Alive, SwapEnds
  PROVE  Body'
<1>1. /\ pc = "swap" /\ ~ParentWeaker /\ pc' = "idle" /\ cur' = NoChain /\ forking' = FALSE /\ swaps' = 0
      /\ chains' = IF forking THEN Put(chains, bc[cur].hash, cur) ELSE chains
      /\ files' = files /\ bc' = bc /\ mine' = mine /\ old' = old
      /\ tip' = tip /\ crashes' = crashes /\ clean' = clean /\ intact' = intact
  BY DEF SwapEnds, exchange, history
<1>2. /\ cur \in Chain /\ cur \in Live /\ intact /\ cur # NoChain
  BY <1>1, SwapBasics
<1>3. /\ chains \in Seq(Entry) /\ Loaded \subseteq Live /\ Live \subseteq Chain
      /\ \A c \in Live : Node(c) /\ Filed(c)
      /\ Live = Loaded \cup {cur}
  BY <1>1, <1>2, Quiet
<1>4. Distinct(chains) /\ \A i \in 1 .. Len(chains) : chains[i].id = bc[chains[i].chain].hash
  BY DEF Alive, Dict, Distinct
<1>5. Once
  BY DEF Alive
<1>6. /\ chains' \in Seq(Entry) /\ Distinct(chains') /\ Loaded' = Loaded \cup {cur}
      /\ \A i \in 1 .. Len(chains') : chains'[i].id = bc[chains'[i].chain].hash
  <2>1. CASE ~forking
    <3>1. cur \in Loaded
      BY <1>2, <2>1 DEF Alive
    <3> QED BY <1>1, <1>3, <1>4, <2>1, <3>1 DEF Loaded
  <2>2. CASE forking
    <3> DEFINE e == [id |-> bc[cur].hash, chain |-> cur]
               q == Put(chains, bc[cur].hash, cur)
    <3>1. bc[cur].hash \in Hash
      BY <1>2, <1>3 DEF Node, Hash
    <3>2. q \in Seq(Entry) /\ Distinct(q) /\ Entries(q) = {x \in Entries(chains) : x.id # bc[cur].hash} \cup {e}
      BY <1>2, <1>3, <1>4, <3>1, PutDict
    <3>3. chains' = q
      BY <1>1, <2>2
    <3> HIDE DEF q
    <3>4. \A x \in Entries(chains) : x.chain \in Loaded /\ x.id = bc[x.chain].hash
      BY <1>4 DEF Entries, Loaded
    <3>5. \A x \in Entries(chains) : x.id = bc[cur].hash => x.chain = cur
      BY <1>2, <1>3, <1>5, <3>4, FilesDiffer
    <3>6. \A x \in Entries(q) : x.chain \in Loaded \cup {cur} /\ x.id = bc[x.chain].hash
      BY <3>2, <3>4
    <3>7. \A c \in Loaded \cup {cur} : \E x \in Entries(q) : x.chain = c
      <4>0. e \in Entries(q) /\ e.chain = cur
        BY <3>2
      <4> HIDE DEF e
      <4> SUFFICES ASSUME NEW c \in Loaded, c # cur PROVE \E x \in Entries(q) : x.chain = c
        BY <4>0
      <4>1. PICK x \in Entries(chains) : x.chain = c
        BY DEF Entries, Loaded
      <4> QED BY <3>2, <3>5, <4>1
    <3>8. Loaded' = {x.chain : x \in Entries(q)}
      BY <3>3 DEF Loaded, Entries
    <3>9. Loaded' = Loaded \cup {cur}
      BY <3>6, <3>7, <3>8
    <3>10. \A i \in 1 .. Len(q) : q[i] \in Entries(q)
      BY DEF Entries
    <3> QED BY <3>2, <3>3, <3>6, <3>9, <3>10
  <2> QED BY <2>1, <2>2
<1>7. Loaded' = Live /\ Live' = Live /\ NoChain \notin Live
  <2>1. NoChain \notin Live
    BY <1>3, ChainAssumption
  <2> QED BY <1>1, <1>3, <1>6, <2>1 DEF Live
<1>8. TypeOK'
  BY <1>1, <1>6 DEF TypeOK, Entry
<1>9. Forest'
  <2>1. \A c \in Live : Node(c)'
    BY <1>1, <1>3, <1>7 DEF Node
  <2>2. \E c \in Loaded' : bc'[c].parent = NoChain
    BY <1>1, <1>3, <1>7 DEF Alive, Forest
  <2>3. PICK r \in [Chain -> Nat] : Ranked(r)
    BY DEF Alive, Forest
  <2>4. Ranked(r)'
    BY <1>1, <1>7, <2>3 DEF Ranked
  <2> QED BY <1>7, <2>1, <2>2, <2>4 DEF Forest
<1>10. Once' /\ Apart'
  BY <1>1, <1>2, <1>7 DEF Alive, Once, Apart, Stores
<1>11. Dict' /\ Idle' /\ New'
  <2>1. Dict'
    BY <1>1, <1>6 DEF Dict, Distinct
  <2>2. Idle'
    BY <1>1, <1>3, <1>7 DEF Alive, Idle
  <2> QED BY <1>1, <2>1, <2>2 DEF New
<1>12. Strays'
  BY <1>1, <1>3, <1>7 DEF Alive, Strays, Lost
<1>13. Contents'
  BY <1>1, <1>3, <1>7 DEF Contents, Filed
<1>14. ASSUME clean PROVE ParentsBest' /\ NoStrays'
  <2>1. NoStrays'
    BY <1>1, <1>7, <1>14 DEF Alive, NoStrays
  <2>2. \A c \in Live \ {cur} : bc[c].parent # NoChain => Work[tip[c]] <= Work[tip[bc[c].parent]]
    BY <1>14 DEF Alive, ParentsBest
  <2>3. bc[cur].parent # NoChain => Work[tip[cur]] <= Work[tip[bc[cur].parent]]
    <3> SUFFICES ASSUME P # NoChain PROVE Work[tip[cur]] <= Work[tip[P]]
      BY DEF P
    <3>1. ~(Work[tip[P]] < Work[tip[cur]]) /\ P \in Live
      BY <1>1, SwapBasics
    <3>2. Work[tip[P]] \in Nat /\ Work[tip[cur]] \in Nat
      BY <1>2, <1>3, <3>1, HeaderAssumption DEF Node
    <3> QED BY <3>1, <3>2
  <2> QED BY <1>1, <1>7, <2>1, <2>2, <2>3 DEF ParentsBest
<1>15. Alive'
  BY <1>1, <1>9, <1>10, <1>11, <1>12, <1>13, <1>14 DEF Alive
<1> QED BY <1>1, <1>8, <1>15 DEF Body

LEMMA SwapRaisesBody ==
  ASSUME TypeOK, Alive, SwapRaises
  PROVE  Body'
<1>1. /\ pc \in {"swap", "adopt"} /\ pc' = "idle" /\ cur' = NoChain /\ forking' = FALSE /\ swaps' = 0
      /\ chains' = chains /\ files' = files /\ bc' = bc /\ mine' = <<>> /\ old' = NoChain
      /\ tip' = tip /\ crashes' = crashes /\ clean' = FALSE /\ intact' = intact
  BY DEF SwapRaises, objects
<1>2. cur \in Chain /\ intact /\ cur # NoChain
  BY <1>1, ChainAssumption DEF Alive
<1>3. /\ chains \in Seq(Entry) /\ Loaded \subseteq Live /\ Live \subseteq Chain
      /\ \A c \in Live : Node(c) /\ Filed(c)
      /\ Live = Loaded \cup {cur}
  BY <1>1, <1>2, Quiet
<1>4. Loaded' = Loaded /\ Live' = Loaded /\ NoChain \notin Live
  <2>1. NoChain \notin Live
    BY <1>3, ChainAssumption
  <2> QED BY <1>1, <1>3, <2>1 DEF Live, Loaded
<1>5. TypeOK'
  <2>1. /\ MainFile \in DOMAIN files /\ DOMAIN files \ {MainFile} \subseteq (Nat \ {0}) \X Header \X Hash
        /\ \A p \in DOMAIN files : files[p] \in Seq(Header)
        /\ chains \in Seq([id : Hash, chain : Chain]) /\ tip \in [Chain -> Header]
        /\ crashes \in 0 .. MaxCrashes /\ intact \in BOOLEAN
    BY DEF TypeOK
  <2>2. bc \in [Chain -> [forkpoint : Nat, hash : Hash, prev : Hash, parent : Chain \cup {NoChain}, size : Nat]]
    BY DEF TypeOK
  <2>3. <<>> \in Seq(Header)
    OBVIOUS
  <2>4. crashes' = crashes
    BY <1>1
  <2> QED BY <1>1, <2>1, <2>2, <2>3, <2>4 DEF TypeOK
<1>6. Forest'
  <2>1. \A c \in Live' : Node(c)'
    BY <1>1, <1>3, <1>4 DEF Node
  <2>2. \E c \in Loaded' : bc'[c].parent = NoChain
    BY <1>1, <1>4 DEF Alive, Forest
  <2>3. PICK r \in [Chain -> Nat] : Ranked(r)
    BY DEF Alive, Forest
  <2>4. Ranked(r)'
    BY <1>1, <1>3, <1>4, <2>3 DEF Ranked
  <2> QED BY <2>1, <2>2, <2>4 DEF Forest
<1>7. Once' /\ Apart'
  BY <1>1, <1>2, <1>3, <1>4 DEF Alive, Once, Apart, Stores
<1>8. Dict' /\ New'
  BY <1>1 DEF Alive, Dict, New
<1>9. Idle'
  <2>1. cur \in Loaded \/ bc[cur].forkpoint = 0 \/ bc[cur].parent \in Loaded
    <3>1. Node(cur)
      BY <1>3
    <3> QED BY <3>1, HeaderTypes DEF Node
  <2> QED BY <1>1, <1>3, <1>4, <2>1 DEF Alive, Idle
<1>10. Strays'
  <2> SUFFICES ASSUME NEW q \in DOMAIN files \ {FileOf(bc[c]) : c \in Loaded} PROVE Lost(q)'
    BY <1>1, <1>4 DEF Strays
  <2>1. CASE q \notin {FileOf(bc[c]) : c \in Live}
    BY <1>1, <1>3, <1>4, <2>1 DEF Alive, Strays, Lost
  <2>2. CASE q \in {FileOf(bc[c]) : c \in Live}
    <3> DEFINE x == bc[cur].hash
    <3>1. q = FileOf(bc[cur]) /\ cur \notin Loaded
      BY <1>3, <2>2
    <3>2. tip[cur] = x /\ bc[cur].parent # NoChain
      BY <1>2, <3>1 DEF Alive, New
    <3>3. q = NameOf(x) /\ x \in Headers
      BY <1>3, <3>1, <3>2, NodeName
    <3>4. files[q] = <<x>>
      BY <1>3, <3>1, <3>2, SegOne DEF Filed, Node
    <3>5. bc[cur].parent \in Loaded /\ OnBranch(Prev[x], tip[bc[cur].parent])
      BY <1>3, <3>2 DEF Node
    <3>6. \A c \in Loaded : ~OnBranch(x, tip[c]) /\ ~OnBranch(tip[c], x)
      BY <1>2, <1>3, <3>1, <3>2 DEF Alive, Apart
    <3> QED BY <1>1, <1>4, <3>3, <3>4, <3>5, <3>6 DEF Lost
  <2> QED BY <2>1, <2>2
<1>11. Contents'
  BY <1>1, <1>3, <1>4 DEF Contents, Filed
<1>12. Alive'
  BY <1>1, <1>6, <1>7, <1>8, <1>9, <1>10, <1>11 DEF Alive
<1> QED BY <1>1, <1>5, <1>12 DEF Body

\* A step that changes the sizes of objects, and no more of them
LEMMA SameObjects ==
  ASSUME TypeOK, Alive,
         \A c \in Chain : /\ bc'[c].forkpoint = bc[c].forkpoint /\ bc'[c].hash = bc[c].hash
                          /\ bc'[c].prev = bc[c].prev /\ bc'[c].parent = bc[c].parent,
         chains' = chains, cur' = cur, tip' = tip, intact' = intact
  PROVE  /\ Loaded' = Loaded /\ Live' = Live
         /\ Forest' /\ Once' /\ (intact' => Apart') /\ Dict' /\ Idle' /\ New'
         /\ ParentsBest => ParentsBest'
         /\ \A c \in Live : FileOf(bc'[c]) = FileOf(bc[c])
<1>1. Loaded' = Loaded /\ Live' = Live
  BY DEF Loaded, Live
<1>2. cur \in Chain \cup {NoChain}
  BY DEF Alive
<1>3. Loaded \subseteq Live /\ Live \subseteq Chain /\ \A c \in Live : Node(c)
  BY <1>2, AliveBasics DEF Alive
<1>4. Forest'
  <2>1. \A c \in Live' : Node(c)'
    BY <1>1, <1>3 DEF Node
  <2>2. \E c \in Loaded' : bc'[c].parent = NoChain
    BY <1>1, <1>3 DEF Alive, Forest
  <2>3. PICK r \in [Chain -> Nat] : Ranked(r)
    BY DEF Alive, Forest
  <2>4. Ranked(r)'
    BY <1>1, <1>3, <2>3 DEF Ranked
  <2> QED BY <2>1, <2>2, <2>4 DEF Forest
<1>5. Once' /\ (intact' => Apart')
  BY <1>1, <1>3 DEF Alive, Once, Apart, Stores
<1>6. Dict' /\ Idle' /\ New'
  <2>1. \A i \in 1 .. Len(chains) : chains[i].chain \in Chain
    BY EntryTypes DEF TypeOK, Entry
  <2>2. cur \in Chain \cup {NoChain}
    BY <1>2
  <2>3. Dict'
    BY <2>1 DEF Alive, Dict
  <2>4. Idle'
    BY <1>1 DEF Alive, Idle
  <2>5. New'
    BY <1>1, <2>2 DEF Alive, New
  <2> QED BY <2>3, <2>4, <2>5
<1>7. ParentsBest => ParentsBest'
  BY <1>1, <1>3 DEF ParentsBest
<1>8. \A c \in Live : FileOf(bc'[c]) = FileOf(bc[c])
  BY <1>3 DEF FileOf
<1> QED BY <1>1, <1>4, <1>5, <1>6, <1>7, <1>8

\* The header both of cur and of P have, below the fork
LEMMA SwapHeights ==
  ASSUME Forest, Once, NEW c \in Live, NEW p \in Live, bc[c].parent = p, p # NoChain, c # p,
         ~OnBranch(tip[p], tip[c])
  PROVE  LET f == bc[c].forkpoint IN
         /\ f \in Nat \ {0} /\ f <= Height[tip[p]] /\ f <= Height[tip[c]]
         /\ Height[tip[p]] \in Nat /\ Height[tip[c]] \in Nat /\ bc[p].forkpoint \in Nat
         /\ bc[p].forkpoint <= Height[tip[p]]
         /\ \A k \in 0 .. f - 1 : HeaderAt(tip[p], k) = HeaderAt(tip[c], k)
<1> DEFINE x == bc[c].hash
<1>1. /\ Node(c) /\ Node(p)
  BY DEF Forest
<1>2. /\ x \in Header /\ x # Genesis /\ bc[c].forkpoint = Height[x] /\ OnBranch(x, tip[c])
      /\ tip[c] \in Header /\ tip[p] \in Header /\ OnBranch(Prev[x], tip[p])
      /\ Height[tip[p]] \in Nat /\ Height[tip[c]] \in Nat
      /\ bc[p].forkpoint \in Nat /\ bc[p].forkpoint <= Height[tip[p]]
  BY <1>1, HeaderTypes DEF Node, OnBranch
<1>3. Prev[x] \in Header /\ Height[x] = Height[Prev[x]] + 1 /\ Height[Prev[x]] \in Nat /\ OnBranch(Prev[x], x)
  BY <1>2, PrevBelow, OnPrev
<1>4. OnBranch(Prev[x], tip[c])
  BY <1>2, <1>3, OnTrans
<1>5. Height[x] <= Height[tip[p]]
  <2> SUFFICES ASSUME ~(Height[x] <= Height[tip[p]]) PROVE FALSE
    OBVIOUS
  <2>1. Height[Prev[x]] >= Height[tip[p]]
    BY <1>2, <1>3
  <2>2. Prev[x] = tip[p]
    BY <1>2, <1>3, <2>1, OnSame
  <2> QED BY <1>4, <2>2
<1>6. \A k \in 0 .. Height[x] - 1 : HeaderAt(tip[p], k) = HeaderAt(tip[c], k)
  <2>1. \A k \in 0 .. Height[x] - 1 : k \in 0 .. Height[Prev[x]]
    BY <1>3
  <2>2. \A k \in 0 .. Height[Prev[x]] :
          HeaderAt(tip[p], k) = HeaderAt(Prev[x], k) /\ HeaderAt(tip[c], k) = HeaderAt(Prev[x], k)
    BY <1>2, <1>3, <1>4, AtOn
  <2> QED BY <2>1, <2>2
<1>7. Height[x] <= Height[tip[c]]
  BY <1>2 DEF OnBranch
<1> QED BY <1>2, <1>3, <1>5, <1>6, <1>7

LEMMA WriteChildBody ==
  ASSUME TypeOK, Alive, WriteChild
  PROVE  Body'
<1>1. /\ pc = "swap" /\ ParentWeaker /\ ForkOffset > 0 /\ pc' = "parent"
      /\ mine' = files[FileOf(bc[cur])] /\ old' = P /\ Store(cur, ParentData, 0)
      /\ chains' = chains /\ cur' = cur /\ forking' = forking /\ swaps' = swaps
      /\ tip' = tip /\ crashes' = crashes /\ clean' = clean /\ intact' = intact
  BY DEF WriteChild, op, history
<1>2. /\ cur \in Chain /\ cur # NoChain /\ intact /\ cur \in Live /\ P # NoChain
      /\ P \in Loaded /\ P \in Live /\ P # cur /\ Work[tip[P]] < Work[tip[cur]]
  BY <1>1, SwapBasics
<1>3. /\ Loaded \subseteq Live /\ Live \subseteq Chain /\ \A c \in Live : Node(c) /\ Filed(c)
  BY <1>1, Quiet
<1> DEFINE f == bc[cur].forkpoint
           g == bc[P].forkpoint
           data == Seg(f, tip[P])
           n == FileOf(bc[cur])
<1>4. /\ f \in Nat \ {0} /\ f <= Height[tip[P]] /\ f <= Height[tip[cur]] /\ g \in Nat /\ g < f
      /\ Height[tip[P]] \in Nat /\ Height[tip[cur]] \in Nat /\ tip[P] \in Header /\ tip[cur] \in Header
  <2>1. ~OnBranch(tip[P], tip[cur]) /\ bc[cur].parent = P
    BY <1>2 DEF Alive, Apart, P
  <2>2. /\ f \in Nat \ {0} /\ f <= Height[tip[P]] /\ f <= Height[tip[cur]] /\ g \in Nat
        /\ Height[tip[P]] \in Nat /\ Height[tip[cur]] \in Nat
    BY <1>2, <2>1, SwapHeights DEF Alive
  <2> QED BY <1>1, <1>2, <1>3, <2>2 DEF ForkOffset, Node
<1>5. ParentData = data
  <2>1. files[FileOf(bc[P])] = Seg(g, tip[P]) /\ bc[P].size = Height[tip[P]] - g + 1
    BY <1>2, <1>3 DEF Filed
  <2>2. g <= f /\ f <= Height[tip[P]] + 1
    BY <1>4
  <2>3. SubSeq(Seg(g, tip[P]), f - g + 1, Height[tip[P]] - g + 1) = Seg(f, tip[P])
    BY <1>4, <2>2, SegFrom
  <2> QED BY <2>1, <2>3 DEF ParentData, ForkOffset
<1>6. data \in Seq(Header) /\ Len(data) \in Nat
  <2>1. f <= Height[tip[P]] + 1
    BY <1>4
  <2>2. data \in Seq(Header)
    BY <1>4, <2>1, SegType
  <2> HIDE DEF data
  <2> QED BY <2>2
<1>7. files' = [files EXCEPT ![n] = data] /\ bc' = [bc EXCEPT ![cur].size = Len(data)]
  <2>1. Overwrite(files[n], 0, data) = data
    <3>1. files[n] \in Seq(Header)
      BY <1>2 DEF Alive, Contents, TypeOK
    <3>2. SubSeq(files[n], 1, 0) = <<>>
      BY <3>1
    <3> HIDE DEF data
    <3> QED BY <1>6, <3>2 DEF Overwrite
  <2> HIDE DEF data
  <2> QED BY <1>1, <1>5, <2>1 DEF Store
<1> HIDE DEF data
<1>8. \A c \in Chain : /\ bc'[c].forkpoint = bc[c].forkpoint /\ bc'[c].hash = bc[c].hash
                       /\ bc'[c].prev = bc[c].prev /\ bc'[c].parent = bc[c].parent
                       /\ c # cur => bc'[c] = bc[c]
  BY <1>7 DEF TypeOK
<1>9. /\ Loaded' = Loaded /\ Live' = Live
      /\ Forest' /\ Once' /\ (intact' => Apart') /\ Dict' /\ Idle' /\ New'
      /\ ParentsBest => ParentsBest'
      /\ \A c \in Live : FileOf(bc'[c]) = FileOf(bc[c])
  BY <1>1, <1>8, SameObjects
<1>10. \A c \in Live : FileOf(bc[c]) \in DOMAIN files
  BY DEF Alive, Contents
<1>11. \A c \in Live : c # cur => FileOf(bc[c]) # n
  BY <1>2, <1>3, FilesDiffer DEF Alive
<1>12. /\ DOMAIN files' = DOMAIN files /\ files'[n] = data
       /\ \A q \in DOMAIN files : q # n => files'[q] = files[q]
  BY <1>2, <1>7, <1>10
<1>13. TypeOK'
  <2>1. /\ MainFile \in DOMAIN files' /\ DOMAIN files' \ {MainFile} \subseteq (Nat \ {0}) \X Header \X Hash
        /\ \A q \in DOMAIN files' : files'[q] \in Seq(Header)
    BY <1>6, <1>12 DEF TypeOK
  <2>2. bc' \in [Chain -> [forkpoint : Nat, hash : Hash, prev : Hash, parent : Chain \cup {NoChain}, size : Nat]]
    BY <1>6, <1>7 DEF TypeOK
  <2>3. mine' \in Seq(Header) /\ old' \in Chain
    BY <1>1, <1>2, <1>3, <1>10 DEF TypeOK
  <2> QED BY <1>1, <2>1, <2>2, <2>3 DEF TypeOK
<1>14. P' = P
  BY <1>1, <1>2, <1>8 DEF P
<1>15. {FileOf(bc'[c]) : c \in Live'} = {FileOf(bc[c]) : c \in Live}
  BY <1>9
<1>16. Strays'
  <2>1. \A q \in DOMAIN files \ {FileOf(bc[c]) : c \in Live} : files'[q] = files[q]
    BY <1>2, <1>12
  <2> QED BY <1>1, <1>9, <1>12, <1>15, <2>1 DEF Alive, Strays, Lost
<1>17. \A c \in Live : c # cur => Filed(c)'
  BY <1>1, <1>3, <1>8, <1>9, <1>10, <1>11, <1>12 DEF Filed
<1>18. Contents'
  BY <1>1, <1>9, <1>10, <1>12, <1>17 DEF Contents
<1>19. Swapping'
  <2>1. mine' = Seg(f, tip[cur])
    BY <1>1, <1>2, <1>3 DEF Filed
  <2>2. files'[FileOf(bc'[cur])] = Seg(f, tip[P])
    BY <1>2, <1>9, <1>12 DEF data
  <2> QED BY <1>1, <1>2, <1>3, <1>4, <1>8, <1>9, <1>14, <2>1, <2>2 DEF Swapping
<1>20. clean' => ParentsBest' /\ NoStrays'
  BY <1>1, <1>9, <1>12, <1>15 DEF Alive, NoStrays
<1>21. Alive'
  BY <1>1, <1>2, <1>9, <1>16, <1>18, <1>19, <1>20 DEF Alive
<1> QED BY <1>1, <1>13, <1>21 DEF Body

LEMMA WriteParentBody ==
  ASSUME TypeOK, Alive, WriteParent
  PROVE  Body'
<1>1. /\ pc = "parent" /\ pc' = "rename" /\ Store(P, mine, ForkOffset)
      /\ mine' = mine /\ old' = old
      /\ chains' = chains /\ cur' = cur /\ forking' = forking /\ swaps' = swaps
      /\ tip' = tip /\ crashes' = crashes /\ clean' = clean /\ intact' = intact
  BY DEF WriteParent, op, history, exchange
<1>2. cur \in Chain /\ intact /\ Swapping /\ cur # NoChain
  BY <1>1, ChainAssumption DEF Alive
<1>3. /\ Loaded \subseteq Live /\ Live \subseteq Chain /\ NoChain \notin Live
      /\ \A c \in Live : Node(c) /\ FileOf(bc[c]) \in DOMAIN files
  BY <1>2, AliveBasics DEF Alive, Contents
<1>4. cur \in Live /\ P \in Loaded /\ P \in Live /\ P # cur /\ bc[cur].parent = P /\ P # NoChain
  <2>1. cur \in Live /\ P \in Loaded
    BY <1>2 DEF Live, Swapping
  <2>2. P # cur
    BY <1>2, <1>3, HeaderTypes, <2>1 DEF Swapping, Node
  <2> QED BY <1>3, <2>1, <2>2 DEF P
<1> DEFINE f == bc[cur].forkpoint
           g == bc[P].forkpoint
           data == Seg(g, tip[cur])
           n == FileOf(bc[P])
<1>5. /\ f \in Nat \ {0} /\ f <= Height[tip[P]] /\ f <= Height[tip[cur]] /\ g \in Nat /\ g < f
      /\ Height[tip[P]] \in Nat /\ Height[tip[cur]] \in Nat /\ tip[P] \in Header /\ tip[cur] \in Header
      /\ \A k \in 0 .. f - 1 : HeaderAt(tip[P], k) = HeaderAt(tip[cur], k)
  <2>1. ~OnBranch(tip[P], tip[cur])
    BY <1>2, <1>4 DEF Alive, Apart
  <2>2. /\ f \in Nat \ {0} /\ f <= Height[tip[P]] /\ f <= Height[tip[cur]] /\ g \in Nat
        /\ Height[tip[P]] \in Nat /\ Height[tip[cur]] \in Nat
        /\ \A k \in 0 .. f - 1 : HeaderAt(tip[P], k) = HeaderAt(tip[cur], k)
    BY <1>4, <2>1, SwapHeights DEF Alive
  <2> QED BY <1>2, <1>3, <1>4, <2>2 DEF Swapping, Node
<1>6. data \in Seq(Header) /\ Len(data) \in Nat
  <2>1. g <= Height[tip[cur]] + 1
    BY <1>5
  <2>2. data \in Seq(Header)
    BY <1>5, <2>1, SegType
  <2> HIDE DEF data
  <2> QED BY <2>2
<1>7. files' = [files EXCEPT ![n] = data] /\ bc' = [bc EXCEPT ![P].size = Len(data)]
  <2>1. files[n] = Seg(g, tip[P]) /\ mine = Seg(f, tip[cur])
    BY <1>1, <1>2, <1>4 DEF Alive, Contents, Filed, Swapping
  <2>2. g <= f /\ f <= Height[tip[P]] + 1 /\ f <= Height[tip[cur]] + 1 /\ f \in Nat
    BY <1>5
  <2>3. SubSeq(Seg(g, tip[P]), 1, f - g) \o Seg(f, tip[cur]) = Seg(g, tip[cur])
    <3> HIDE DEF f, g
    <3> QED BY <1>5, <2>2, SegJoin, ZenonT(60)
  <2>4. Overwrite(files[n], ForkOffset, mine) = data
    <3> HIDE DEF Seg
    <3> QED BY <2>1, <2>3 DEF Overwrite, ForkOffset
  <2> HIDE DEF data
  <2> QED BY <1>1, <2>4 DEF Store
<1> HIDE DEF data
<1>8. \A c \in Chain : /\ bc'[c].forkpoint = bc[c].forkpoint /\ bc'[c].hash = bc[c].hash
                       /\ bc'[c].prev = bc[c].prev /\ bc'[c].parent = bc[c].parent
                       /\ c # P => bc'[c] = bc[c]
  BY <1>7 DEF TypeOK
<1>9. /\ Loaded' = Loaded /\ Live' = Live
      /\ Forest' /\ Once' /\ (intact' => Apart') /\ Dict' /\ Idle' /\ New'
      /\ ParentsBest => ParentsBest'
      /\ \A c \in Live : FileOf(bc'[c]) = FileOf(bc[c])
  BY <1>1, <1>8, SameObjects
<1>11. \A c \in Live : c # P => FileOf(bc[c]) # n
  BY <1>3, <1>4, FilesDiffer DEF Alive
<1>12. /\ DOMAIN files' = DOMAIN files /\ files'[n] = data
       /\ \A q \in DOMAIN files : q # n => files'[q] = files[q]
  BY <1>3, <1>4, <1>7
<1>13. TypeOK'
  <2>1. /\ MainFile \in DOMAIN files' /\ DOMAIN files' \ {MainFile} \subseteq (Nat \ {0}) \X Header \X Hash
        /\ \A q \in DOMAIN files' : files'[q] \in Seq(Header)
    BY <1>6, <1>12 DEF TypeOK
  <2>2. bc' \in [Chain -> [forkpoint : Nat, hash : Hash, prev : Hash, parent : Chain \cup {NoChain}, size : Nat]]
    BY <1>6, <1>7 DEF TypeOK
  <2> QED BY <1>1, <2>1, <2>2 DEF TypeOK
<1>14. P' = P
  BY <1>1, <1>2, <1>8 DEF P
<1>15. {FileOf(bc'[c]) : c \in Live'} = {FileOf(bc[c]) : c \in Live}
  BY <1>9
<1>16. Strays'
  <2>1. \A q \in DOMAIN files \ {FileOf(bc[c]) : c \in Live} : files'[q] = files[q]
    BY <1>4, <1>12
  <2> QED BY <1>1, <1>9, <1>12, <1>15, <2>1 DEF Alive, Strays, Lost
<1>17. \A c \in Live : c \notin {cur, P} => Filed(c)'
  <2>1. \A c \in Live : c # cur => Filed(c)
    BY <1>1 DEF Alive, Contents
  <2> QED BY <1>1, <1>3, <1>8, <1>9, <1>11, <1>12, <2>1 DEF Filed
<1>18. Contents'
  <2>1. \A c \in Live' : FileOf(bc'[c]) \in DOMAIN files'
    BY <1>3, <1>9, <1>12
  <2> QED BY <1>1, <1>9, <1>14, <1>17, <2>1 DEF Contents
<1>19. Swapping'
  <2>1. files'[FileOf(bc'[cur])] = files[FileOf(bc[cur])]
    BY <1>3, <1>4, <1>9, <1>11, <1>12
  <2>2. files'[FileOf(bc'[P])] = Seg(g, tip[cur])
    BY <1>4, <1>9, <1>12 DEF data
  <2>3. bc'[cur].forkpoint = bc[cur].forkpoint /\ bc'[P].forkpoint = bc[P].forkpoint
    BY <1>2, <1>3, <1>4, <1>8
  <2> QED BY <1>1, <1>2, <1>9, <1>14, <2>1, <2>2, <2>3 DEF Swapping
<1>20. clean' => ParentsBest' /\ NoStrays'
  BY <1>1, <1>9, <1>12, <1>15 DEF Alive, NoStrays
<1>21. Alive'
  BY <1>1, <1>2, <1>9, <1>16, <1>18, <1>19, <1>20 DEF Alive
<1> QED BY <1>1, <1>13, <1>21 DEF Body

\* What the exchange renames and where: the parent's header at the fork is the
\* first of its new file.
LEMMA MovedIs ==
  ASSUME TypeOK, Alive, pc \in {"parent", "rename"}
  PROVE  /\ cur \in Chain /\ cur # NoChain /\ intact /\ cur \in Live /\ bc[cur].parent = P /\ P # NoChain
         /\ P \in Loaded /\ P \in Live /\ P # cur /\ Work[tip[P]] < Work[tip[cur]]
         /\ bc[P].forkpoint \in Nat /\ bc[cur].forkpoint \in Nat /\ bc[P].forkpoint < bc[cur].forkpoint
         /\ bc[cur].forkpoint <= Height[tip[P]] /\ bc[cur].forkpoint <= Height[tip[cur]]
         /\ tip[P] \in Header /\ tip[cur] \in Header
         /\ \A k \in 0 .. bc[cur].forkpoint - 1 : HeaderAt(tip[P], k) = HeaderAt(tip[cur], k)
         /\ FileOf(bc[cur]) = NameOf(bc[cur].hash) /\ bc[cur].hash \in Headers
         /\ Moved = Seg(bc[cur].forkpoint, tip[P])
         /\ pc = "rename" => files[FileOf(bc[P])] = Seg(bc[P].forkpoint, tip[cur])
         /\ MovedHash \in Headers /\ MovedHash = HeaderAt(tip[P], bc[cur].forkpoint)
         /\ Height[MovedHash] = bc[cur].forkpoint /\ OnBranch(MovedHash, tip[P])
         /\ Prev[MovedHash] = bc[cur].prev /\ OnBranch(bc[cur].prev, tip[cur])
         /\ OnBranch(bc[P].hash, MovedHash) /\ OnBranch(bc[P].hash, tip[cur])
<1> DEFINE f == bc[cur].forkpoint
           g == bc[P].forkpoint
           m == HeaderAt(tip[P], f)
           x == bc[cur].hash
<1>1. cur \in Chain /\ cur # NoChain /\ intact /\ Swapping
  BY ChainAssumption DEF Alive
<1>2. /\ Loaded \subseteq Live /\ Live \subseteq Chain /\ NoChain \notin Live
      /\ \A c \in Live : Node(c)
  BY <1>1, AliveBasics DEF Alive
<1>3. /\ cur \in Live /\ P \in Loaded /\ P \in Live /\ P # NoChain /\ bc[cur].parent = P
  BY <1>1, <1>2 DEF Live, Swapping, P
<1>4. P # cur /\ g < f
  BY <1>1, <1>2, <1>3, HeaderTypes DEF Swapping, Node
<1>5. /\ f \in Nat \ {0} /\ f <= Height[tip[P]] /\ f <= Height[tip[cur]] /\ g \in Nat
      /\ Height[tip[P]] \in Nat /\ Height[tip[cur]] \in Nat /\ tip[P] \in Header /\ tip[cur] \in Header
      /\ \A k \in 0 .. f - 1 : HeaderAt(tip[P], k) = HeaderAt(tip[cur], k)
  <2>1. ~OnBranch(tip[P], tip[cur])
    BY <1>1, <1>3, <1>4 DEF Alive, Apart
  <2>2. /\ f \in Nat \ {0} /\ f <= Height[tip[P]] /\ f <= Height[tip[cur]] /\ g \in Nat
        /\ Height[tip[P]] \in Nat /\ Height[tip[cur]] \in Nat
        /\ \A k \in 0 .. f - 1 : HeaderAt(tip[P], k) = HeaderAt(tip[cur], k)
    BY <1>3, <1>4, <2>1, SwapHeights DEF Alive
  <2> QED BY <1>2, <1>3, <2>2 DEF Node
<1>6. FileOf(bc[cur]) = NameOf(x) /\ x \in Headers
  BY <1>2, <1>3, NodeName
<1>7. Moved = Seg(f, tip[P]) /\ (pc = "rename" => files[FileOf(bc[P])] = Seg(g, tip[cur]))
  BY <1>1 DEF Swapping, Moved
<1>8. m \in Header /\ Height[m] = f /\ OnBranch(m, tip[P])
  BY <1>5, AtType, OnAt
<1>9. MovedHash = m
  <2> HIDE DEF f
  <2>1. Seg(f, tip[P]) # <<>> /\ Seg(f, tip[P])[1] = HeaderAt(tip[P], f)
    BY <1>5, SegEnds
  <2> HIDE DEF Seg
  <2> QED BY <1>7, <2>1 DEF MovedHash
<1>10. m \in Headers
  BY <1>5, <1>8, HeaderTypes DEF Headers
<1>11. /\ x \in Header /\ x # Genesis /\ Height[x] = f /\ bc[cur].prev = Prev[x] /\ OnBranch(x, tip[cur])
  BY <1>2, <1>3, <1>6 DEF Node, Headers
<1>12. Prev[m] = Prev[x] /\ OnBranch(Prev[x], tip[cur])
  <2>1. Prev[m] = HeaderAt(m, f - 1) /\ Prev[x] = HeaderAt(x, f - 1)
    BY <1>8, <1>10, <1>11, OnPrev DEF Headers
  <2>2. f - 1 \in 0 .. f /\ f - 1 \in 0 .. f - 1
    BY <1>5
  <2>3. HeaderAt(tip[P], f - 1) = HeaderAt(m, f - 1) /\ HeaderAt(tip[cur], f - 1) = HeaderAt(x, f - 1)
    BY <1>5, <1>8, <1>11, <2>2, AtOn
  <2>4. OnBranch(Prev[x], x) /\ Prev[x] \in Header
    BY <1>11, OnPrev, PrevBelow
  <2> QED BY <1>5, <1>11, <2>1, <2>2, <2>3, <2>4, OnTrans
<1>13. /\ bc[P].hash \in Header /\ Height[bc[P].hash] = g /\ OnBranch(bc[P].hash, tip[P])
  BY <1>2, <1>3 DEF Node
<1>14. OnBranch(bc[P].hash, m)
  <2>1. Height[bc[P].hash] <= Height[m]
    BY <1>4, <1>5, <1>8, <1>13
  <2> QED BY <1>5, <1>8, <1>13, <2>1, OnCompare
<1>15. OnBranch(bc[P].hash, tip[cur])
  <2>1. g \in 0 .. f - 1 /\ g <= Height[tip[cur]]
    BY <1>4, <1>5
  <2> QED BY <1>5, <1>13, <2>1 DEF OnBranch
<1>16. Work[tip[P]] < Work[tip[cur]]
  BY <1>1 DEF Swapping
<1> QED BY <1>1, <1>3, <1>4, <1>5, <1>6, <1>7, <1>8, <1>9, <1>10, <1>11, <1>12, <1>14, <1>15, <1>16

\* os.replace overwrites no file: "parent's new name will be something new".
LEMMA NewName ==
  ASSUME TypeOK, Alive, pc \in {"parent", "rename"}
  PROVE  /\ \A c \in Live : bc[c].hash # MovedHash
         /\ NameOf(MovedHash) \notin DOMAIN files
<1> DEFINE m == MovedHash
<1>1. /\ P \in Live /\ m \in Headers /\ OnBranch(m, tip[P]) /\ OnBranch(bc[P].hash, m)
      /\ bc[P].forkpoint < bc[cur].forkpoint /\ Height[m] = bc[cur].forkpoint /\ cur \in Chain
      /\ bc[P].forkpoint \in Nat
  BY MovedIs
<1>2. \A c \in Live : Node(c)
  BY <1>1, AliveBasics DEF Alive
<1>3. m \in Header
  BY <1>1 DEF Headers
<1> HIDE DEF m
<1>4. ASSUME NEW c \in Live, bc[c].hash = m PROVE FALSE
  <2>1. Stores(c, m) /\ Stores(P, m)
    BY <1>1, <1>2, <1>4, StoresEnds DEF Stores
  <2>2. c = P
    BY <1>1, <1>3, <2>1 DEF Alive, Once
  <2>3. Height[m] = bc[P].forkpoint
    BY <1>2, <1>4, <2>2 DEF Node
  <2> QED BY <1>1, <2>3
<1>5. ASSUME NameOf(m) \in DOMAIN files PROVE FALSE
  <2>1. CASE \E c \in Live : NameOf(m) = FileOf(bc[c])
    <3>1. PICK c \in Live : NameOf(m) = FileOf(bc[c])
      BY <2>1
    <3>2. bc[c].hash \in Headers /\ FileOf(bc[c]) = NameOf(bc[c].hash)
      BY <1>1, <1>2, <3>1, NodeName, NameDiffer
    <3> QED BY <1>1, <1>4, <3>1, <3>2, NameDiffer
  <2>2. CASE ~\E c \in Live : NameOf(m) = FileOf(bc[c])
    <3>1. Lost(NameOf(m))
      BY <1>5, <2>2 DEF Alive, Strays
    <3>2. PICK x \in Headers : NameOf(m) = NameOf(x) /\ \A c \in Live : ~OnBranch(x, tip[c])
      BY <3>1 DEF Lost
    <3> QED BY <1>1, <3>2, NameDiffer
  <2> QED BY <2>1, <2>2
<1> QED BY <1>4, <1>5 DEF m

LEMMA ExchangeBody ==
  ASSUME TypeOK, Alive, Exchange
  PROVE  Body' /\ Live' = Live
<1>1. pc = "rename"
  BY DEF Exchange
<1>2. PICK c \in Live : c = cur
  BY <1>1, MovedIs
<1>3. PICK p \in Loaded : p = P
  BY <1>1, MovedIs
<1>4. PICK m \in Headers : m = MovedHash
  BY <1>1, MovedIs
<1> DEFINE f == bc[c].forkpoint
           g == bc[p].forkpoint
           x == bc[c].hash
           y == bc[p].hash
           name == NameOf(m)
           gone == NameOf(x)
           home == FileOf(bc[p])
<1>5. /\ c \in Chain /\ c # NoChain /\ intact /\ bc[c].parent = p /\ p # NoChain /\ p \in Live /\ p # c
      /\ Work[tip[p]] < Work[tip[c]] /\ g \in Nat /\ f \in Nat /\ g < f
      /\ f <= Height[tip[p]] /\ f <= Height[tip[c]] /\ tip[p] \in Header /\ tip[c] \in Header
      /\ \A k \in 0 .. f - 1 : HeaderAt(tip[p], k) = HeaderAt(tip[c], k)
      /\ FileOf(bc[c]) = gone /\ x \in Headers
      /\ Moved = Seg(f, tip[p]) /\ files[home] = Seg(g, tip[c])
      /\ Height[m] = f /\ OnBranch(m, tip[p])
      /\ Prev[m] = bc[c].prev /\ OnBranch(bc[c].prev, tip[c])
      /\ OnBranch(y, m) /\ OnBranch(y, tip[c])
  BY <1>1, <1>2, <1>3, <1>4, MovedIs
<1>6. /\ Loaded \subseteq Live /\ Live \subseteq Chain /\ NoChain \notin Live /\ Live = Loaded \cup {c}
      /\ \A d \in Live : Node(d)
      /\ \A d \in Live : FileOf(bc[d]) \in DOMAIN files /\ (d \notin {c, p} => Filed(d))
  <2>1. /\ Loaded \subseteq Live /\ Live \subseteq Chain /\ NoChain \notin Live /\ \A d \in Live : Node(d)
        /\ Live = Loaded \cup (IF cur = NoChain THEN {} ELSE {cur})
    BY <1>2, <1>5, AliveBasics DEF Alive
  <2> QED BY <1>1, <1>2, <1>3, <1>5, <2>1 DEF Alive, Contents
<1>7. /\ \A d \in Live : bc[d].hash # m
      /\ name \notin DOMAIN files
  BY <1>1, <1>4, NewName
<1>8. m \in Header /\ m # Genesis /\ Prev[m] \in Header /\ x \in Header /\ y \in Header
  BY <1>3, <1>5, <1>6, PrevBelow DEF Headers, Node
<1> DEFINE new == [bc[p] EXCEPT !.parent = c, !.forkpoint = f, !.hash = m, !.prev = bc[c].prev,
                                !.size = Len(Moved)]
           best == [bc[p] EXCEPT !.size = Len(files[home])]
           dict == Put(Put(Drop(Drop(chains, x), y), y, c), m, p)
<1>9. /\ bc' = [bc EXCEPT ![c] = best, ![p] = new] /\ chains' = dict
      /\ files' = Rename(FileOf(bc[c]), FileOf(Demoted)) /\ Demoted = new
      /\ pc' = "adopt" /\ swaps' = swaps + 1 /\ cur' = c /\ forking' = forking
      /\ mine' = mine /\ old' = old
      /\ tip' = tip /\ crashes' = crashes /\ clean' = clean /\ intact' = intact
  <2>1. Promoted = best /\ Demoted = new
    BY <1>2, <1>3, <1>4 DEF Promoted, Demoted, Moved
  <2> HIDE DEF best, new
  <2> QED BY <1>2, <1>3, <1>4, <2>1 DEF Exchange, exchange, history
<1>10. Moved \in Seq(Header) /\ Len(Moved) \in Nat /\ Len(Moved) = Height[tip[p]] - f + 1
       /\ Len(files[home]) \in Nat /\ Len(files[home]) = Height[tip[c]] - g + 1
  <2>1. f <= Height[tip[p]] + 1 /\ g <= Height[tip[c]] + 1
    BY <1>5, HeaderTypes
  <2>2. Moved \in Seq(Header) /\ Len(Moved) = Height[tip[p]] - f + 1
    BY <1>5, <2>1, SegType
  <2>3. files[home] \in Seq(Header) /\ Len(files[home]) = Height[tip[c]] - g + 1
    BY <1>5, <2>1, SegType
  <2> HIDE DEF home
  <2> QED BY <2>2, <2>3
<1>11. bc \in [Chain -> [forkpoint : Nat, hash : Hash, prev : Hash, parent : Chain \cup {NoChain}, size : Nat]]
  BY DEF TypeOK
<1>12. /\ new.parent = c /\ new.forkpoint = f /\ new.hash = m /\ new.prev = bc[c].prev /\ new.size = Len(Moved)
       /\ best.parent = bc[p].parent /\ best.forkpoint = g /\ best.hash = y /\ best.prev = bc[p].prev
       /\ best.size = Len(files[home])
       /\ new \in [forkpoint : Nat, hash : Hash, prev : Hash, parent : Chain \cup {NoChain}, size : Nat]
       /\ best \in [forkpoint : Nat, hash : Hash, prev : Hash, parent : Chain \cup {NoChain}, size : Nat]
  <2>1. p \in Chain /\ m \in Hash
    BY <1>3, <1>6, <1>8 DEF Hash
  <2>2. bc[p] \in [forkpoint : Nat, hash : Hash, prev : Hash, parent : Chain \cup {NoChain}, size : Nat]
        /\ bc[c] \in [forkpoint : Nat, hash : Hash, prev : Hash, parent : Chain \cup {NoChain}, size : Nat]
    BY <1>5, <1>11, <2>1
  <2> HIDE DEF home
  <2> QED BY <1>5, <1>10, <2>1, <2>2
<1> HIDE DEF new, best, dict
<1>13. /\ bc'[c] = best /\ bc'[p] = new /\ \A d \in Chain : d \notin {c, p} => bc'[d] = bc[d]
       /\ bc' \in [Chain -> [forkpoint : Nat, hash : Hash, prev : Hash, parent : Chain \cup {NoChain}, size : Nat]]
  BY <1>5, <1>6, <1>9, <1>11, <1>12
<1>14. FileOf(bc'[c]) = home /\ FileOf(bc'[p]) = name
  BY <1>5, <1>12, <1>13 DEF FileOf, NameOf
<1>15. /\ DOMAIN files' = (DOMAIN files \ {gone}) \cup {name}
       /\ files'[name] = Moved /\ \A q \in DOMAIN files : q # gone => files'[q] = files[q]
  <2>1. FileOf(Demoted) = name
    BY <1>9, <1>13, <1>14
  <2>2. files' = [q \in (DOMAIN files \ {gone}) \cup {name} |-> IF q = name THEN files[gone] ELSE files[q]]
    BY <1>5, <1>9, <2>1 DEF Rename
  <2>3. files[gone] = Moved
    BY <1>2, <1>5 DEF Moved
  <2> QED BY <1>7, <2>2, <2>3
<1>16. \A d, e \in Live : d # e => \A z \in Header : ~(Stores(d, z) /\ Stores(e, z))
  BY DEF Alive, Once
<1>17. \A d, e \in Live : d # e => FileOf(bc[d]) # FileOf(bc[e]) /\ bc[d].hash # bc[e].hash
  BY <1>6, FilesDiffer DEF Alive
<1>18. /\ dict \in Seq(Entry) /\ Distinct(dict) /\ Loaded' = Live
       /\ \A i \in 1 .. Len(dict) : dict[i].id = bc'[dict[i].chain].hash
  <2> DEFINE d1 == Drop(chains, x)
             d2 == Drop(d1, y)
             d3 == Put(d2, y, c)
             e3 == [id |-> y, chain |-> c]
             e4 == [id |-> m, chain |-> p]
  <2>1. chains \in Seq(Entry) /\ Distinct(chains)
        /\ \A e \in Entries(chains) : e.chain \in Loaded /\ e.id = bc[e.chain].hash
    BY DEF TypeOK, Entry, Alive, Dict, Distinct, Entries, Loaded
  <2>2. y \in Hash /\ m \in Hash /\ p \in Chain
    BY <1>5, <1>6, <1>8 DEF Hash
  <2>3. d1 \in Seq(Entry) /\ Distinct(d1) /\ Entries(d1) = {e \in Entries(chains) : e.id # x}
    BY <2>1, DropDict
  <2> HIDE DEF d1
  <2>4. d2 \in Seq(Entry) /\ Distinct(d2) /\ Entries(d2) = {e \in Entries(d1) : e.id # y}
    BY <2>3, DropDict
  <2> HIDE DEF d2
  <2>5. d3 \in Seq(Entry) /\ Distinct(d3) /\ Entries(d3) = {e \in Entries(d2) : e.id # y} \cup {e3}
    BY <1>5, <2>2, <2>4, PutDict
  <2> HIDE DEF d3
  <2>6. dict \in Seq(Entry) /\ Distinct(dict) /\ Entries(dict) = {e \in Entries(d3) : e.id # m} \cup {e4}
    <3>1. dict = Put(d3, m, p)
      BY DEF dict, d3, d2, d1
    <3> QED BY <2>2, <2>5, <3>1, PutDict
  <2>7. e3.id = y /\ e3.chain = c /\ e4.id = m /\ e4.chain = p
    OBVIOUS
  <2> HIDE DEF e3, e4
  <2>8. y # m
    BY <1>5, <1>7
  <2>9. \A e \in Entries(chains) : /\ e.id = x <=> e.chain = c
                                   /\ e.id = y <=> e.chain = p
                                   /\ e.id # m /\ e.chain \in Live
    BY <1>2, <1>5, <1>6, <1>7, <1>17, <2>1
  <2>10. \A e \in Entries(dict) : e = e3 \/ e = e4 \/ (e \in Entries(chains) /\ e.chain \notin {c, p})
    BY <2>3, <2>4, <2>5, <2>6, <2>9
  <2>11. \A e \in Entries(dict) : e.chain \in Live /\ e.id = bc'[e.chain].hash
    BY <1>5, <1>6, <1>12, <1>13, <2>1, <2>7, <2>10, SMTT(30)
  <2>12. \A d \in Live : \E e \in Entries(dict) : e.chain = d
    <3> SUFFICES ASSUME NEW d \in Live PROVE \E e \in Entries(dict) : e.chain = d
      OBVIOUS
    <3>1. CASE d = c
      BY <2>5, <2>6, <2>7, <2>8, <3>1
    <3>2. CASE d = p
      BY <2>6, <2>7, <3>2
    <3>3. CASE d \notin {c, p}
      <4>1. PICK e \in Entries(chains) : e.chain = d
        BY <1>6, <3>3 DEF Entries, Loaded
      <4>2. e \in Entries(dict)
        BY <2>3, <2>4, <2>5, <2>6, <2>9, <3>3, <4>1
      <4> QED BY <4>1, <4>2
    <3> QED BY <3>1, <3>2, <3>3
  <2>13. Loaded' = {e.chain : e \in Entries(dict)}
    BY <1>9 DEF Loaded, Entries
  <2>14. Loaded' = Live
    BY <2>11, <2>12, <2>13
  <2>15. \A i \in 1 .. Len(dict) : dict[i] \in Entries(dict)
    BY DEF Entries
  <2> QED BY <2>6, <2>11, <2>14, <2>15
<1>19. Live' = Live
  BY <1>5, <1>6, <1>9, <1>18 DEF Live
<1>20. TypeOK'
  <2>1. name \in (Nat \ {0}) \X Header \X Hash
    BY <1>5, <1>8, HeaderTypes, GenesisLow DEF NameOf, Hash
  <2>2. gone # MainFile
    BY <1>5, NameDiffer
  <2>3. /\ MainFile \in DOMAIN files' /\ DOMAIN files' \ {MainFile} \subseteq (Nat \ {0}) \X Header \X Hash
        /\ \A q \in DOMAIN files' : files'[q] \in Seq(Header)
    BY <1>10, <1>15, <2>1, <2>2 DEF TypeOK
  <2>4. /\ tip \in [Chain -> Header] /\ mine \in Seq(Header) /\ old \in Chain \cup {NoChain}
        /\ crashes \in 0 .. MaxCrashes /\ clean \in BOOLEAN /\ intact \in BOOLEAN /\ forking \in BOOLEAN
        /\ swaps \in Nat
    BY DEF TypeOK
  <2>5. /\ tip' = tip /\ mine' = mine /\ old' = old /\ crashes' = crashes /\ clean' = clean /\ intact' = intact
        /\ forking' = forking /\ cur' \in Chain /\ pc' = "adopt"
    BY <1>5, <1>9
  <2>6. swaps' \in Nat
    BY <1>9, <2>4
  <2>7. chains' \in Seq([id : Hash, chain : Chain])
    BY <1>9, <1>18 DEF Entry
  <2>8. bc' \in [Chain -> [forkpoint : Nat, hash : Hash, prev : Hash, parent : Chain \cup {NoChain}, size : Nat]]
    BY <1>13
  <2> QED BY <2>3, <2>4, <2>5, <2>6, <2>7, <2>8 DEF TypeOK
<1>21. ASSUME NEW d \in Live PROVE Node(d)'
  <2>1. CASE d = p
    BY <1>5, <1>6, <1>8, <1>9, <1>12, <1>13, <1>18, <2>1, OnSelf DEF Node
  <2>2. CASE d = c
    <3>1. Node(p) /\ p \in Live
      BY <1>5, <1>6
    <3> QED BY <1>5, <1>6, <1>9, <1>12, <1>13, <1>18, <2>2, <3>1 DEF Node
  <2>3. CASE d \notin {c, p}
    <3>1. Node(d) /\ bc'[d] = bc[d]
      BY <1>6, <1>13, <2>3
    <3> QED BY <1>6, <1>9, <1>18, <3>1 DEF Node
  <2> QED BY <2>1, <2>2, <2>3
<1>22. Forest'
  <2>1. \E d \in Loaded' : bc'[d].parent = NoChain
    <3>1. PICK d \in Loaded : bc[d].parent = NoChain
      BY DEF Alive, Forest
    <3>2. CASE d = p
      BY <1>12, <1>13, <1>18, <3>1, <3>2
    <3>3. CASE d # p
      <4>1. d # c
        BY <1>5, <3>1
      <4> QED BY <1>6, <1>13, <1>18, <3>1, <3>3, <4>1
    <3> QED BY <3>2, <3>3
  <2>2. PICK r \in [Chain -> Nat] : Ranked(r)
    BY DEF Alive, Forest
  <2> DEFINE s == [d \in Chain |-> IF d = c THEN 2 * r[p] ELSE IF d = p THEN 2 * r[p] + 1 ELSE 2 * r[d]]
  <2>3. p \in Chain /\ r[p] \in Nat /\ r[p] < r[c] /\ r[c] \in Nat
    BY <1>5, <1>6, <2>2 DEF Ranked
  <2>4. s \in [Chain -> Nat]
    BY <2>3
  <2>5. s[c] = 2 * r[p] /\ s[p] = 2 * r[p] + 1 /\ \A d \in Chain \ {c, p} : s[d] = 2 * r[d]
    BY <1>5, <2>3
  <2> HIDE DEF s
  <2>6. Ranked(s)'
    <3> SUFFICES ASSUME NEW d \in Live, bc'[d].parent # NoChain PROVE s[bc'[d].parent] < s[d]
      BY <1>19 DEF Ranked
    <3>1. CASE d = p
      BY <1>12, <1>13, <2>3, <2>5, <3>1
    <3>2. CASE d = c
      <4> DEFINE q == bc[p].parent
      <4>1. bc'[d].parent = q /\ q # NoChain
        BY <1>12, <1>13, <3>2
      <4>2. q \in Chain /\ r[q] < r[p] /\ r[q] \in Nat
        BY <1>5, <1>6, <2>2, <4>1 DEF Ranked, Node
      <4>3. q \notin {c, p}
        BY <2>3, <4>2
      <4>4. s[q] = 2 * r[q]
        BY <2>5, <4>2, <4>3
      <4> HIDE DEF q
      <4> QED BY <2>3, <2>5, <3>2, <4>1, <4>2, <4>4
    <3>3. CASE d \notin {c, p}
      <4> DEFINE q == bc[d].parent
      <4>1. bc'[d].parent = q /\ q # NoChain /\ d \in Chain /\ s[d] = 2 * r[d]
        BY <1>6, <1>13, <2>5, <3>3
      <4>2. q \in Chain /\ r[q] < r[d] /\ r[q] \in Nat /\ r[d] \in Nat
        BY <1>6, <2>2, <4>1 DEF Ranked, Node
      <4> HIDE DEF q
      <4>3. CASE q = c
        BY <2>3, <2>5, <4>1, <4>2, <4>3
      <4>4. CASE q = p
        BY <2>3, <2>5, <4>1, <4>2, <4>4
      <4>5. CASE q \notin {c, p}
        <5>1. s[q] = 2 * r[q]
          BY <2>5, <4>2, <4>5
        <5> QED BY <4>1, <4>2, <5>1
      <4> QED BY <4>3, <4>4, <4>5
    <3> QED BY <3>1, <3>2, <3>3
  <2> QED BY <1>19, <1>21, <2>1, <2>4, <2>6 DEF Forest
<1>23. Once' /\ Apart'
  <2>1. ASSUME NEW z \in Header, Stores(p, z)' PROVE Stores(p, z) /\ Height[z] >= f
    <3>1. OnBranch(m, z) /\ OnBranch(z, tip[p])
      BY <1>9, <1>12, <1>13, <2>1 DEF Stores
    <3>2. OnBranch(y, z) /\ Height[z] >= Height[m]
      BY <1>5, <1>8, <3>1, OnTrans, HeaderTypes DEF OnBranch
    <3> QED BY <1>5, <3>1, <3>2 DEF Stores
  <2>2. ASSUME NEW z \in Header, Stores(c, z)' PROVE Stores(c, z) \/ (Stores(p, z) /\ Height[z] < f)
    <3>1. OnBranch(y, z) /\ OnBranch(z, tip[c])
      BY <1>9, <1>12, <1>13, <2>2 DEF Stores
    <3>2. CASE OnBranch(x, z)
      BY <3>1, <3>2 DEF Stores
    <3>3. CASE ~OnBranch(x, z)
      <4>1. OnBranch(x, tip[c]) /\ Height[x] = f
        BY <1>6 DEF Node
      <4>2. ~(Height[x] <= Height[z])
        BY <1>5, <1>8, <3>1, <3>3, <4>1, OnCompare
      <4>3. Height[z] \in Nat /\ Height[z] < f /\ Height[z] \in 0 .. f - 1
        BY <1>5, <4>1, <4>2, HeaderTypes
      <4>4. HeaderAt(tip[p], Height[z]) = z /\ Height[z] <= Height[tip[p]]
        BY <1>5, <3>1, <4>3, HeaderTypes DEF OnBranch
      <4> QED BY <3>1, <4>3, <4>4 DEF Stores, OnBranch
    <3> QED BY <3>2, <3>3
  <2>3. ASSUME NEW d \in Live, d \notin {c, p}, NEW z \in Header PROVE Stores(d, z)' <=> Stores(d, z)
    BY <1>6, <1>9, <1>13, <2>3 DEF Stores
  <2>4. Once'
    <3> SUFFICES ASSUME NEW d \in Live, NEW e \in Live, d # e, NEW z \in Header, Stores(d, z)', Stores(e, z)'
                 PROVE  FALSE
      BY <1>19 DEF Once
    <3>1. Height[z] \in Nat /\ f \in Nat /\ c \in Live /\ p \in Live /\ c # p
      BY <1>5, HeaderTypes
    <3>2. \A a \in Live : Stores(a, z)' => \/ Stores(a, z) /\ (a = p => Height[z] >= f)
                                           \/ a = c /\ Stores(p, z) /\ Height[z] < f
      BY <2>1, <2>2, <2>3
    <3>3. \A a, b \in Live : Stores(a, z) /\ Stores(b, z) => a = b
      BY <1>16
    <3>4. ~(Height[z] < f /\ Height[z] >= f)
      BY <3>1
    <3> QED BY <3>1, <3>2, <3>3, <3>4, Zenon
  <2> QED BY <1>5, <1>9, <1>19, <2>4 DEF Alive, Apart
<1>24. Dict' /\ Idle' /\ New'
  <2>1. Dict'
    BY <1>9, <1>18 DEF Dict, Distinct
  <2>2. Idle'
    <3>1. \A d \in Chain \ Live : bc'[d] = bc[d]
      BY <1>5, <1>13
    <3> QED BY <1>6, <1>18, <1>19, <3>1 DEF Alive, Idle
  <2>3. New'
    BY <1>9, <1>18 DEF New
  <2> QED BY <2>1, <2>2, <2>3
<1>25. {FileOf(bc'[d]) : d \in Live'} = ({FileOf(bc[d]) : d \in Live} \ {gone}) \cup {name}
  <2> DEFINE G(d) == FileOf(bc[d])
             H(d) == FileOf(bc'[d])
  <2>1. H(c) = G(p) /\ H(p) = name /\ G(c) = gone /\ \A d \in Live \ {c, p} : H(d) = G(d)
    BY <1>5, <1>6, <1>13, <1>14
  <2>2. \A d \in Live : d # c => G(d) # gone
    BY <1>5, <1>17
  <2>3. c \in Live /\ p \in Live /\ c # p
    BY <1>5
  <2> HIDE DEF G, H, home, gone, name
  <2>4. {H(d) : d \in Live} = ({G(d) : d \in Live} \ {gone}) \cup {name}
    BY <2>1, <2>2, <2>3
  <2> QED BY <1>19, <2>4 DEF G, H
<1>26. Strays'
  <2>1. \A q \in DOMAIN files' \ {FileOf(bc'[d]) : d \in Live'} :
          q \in DOMAIN files \ {FileOf(bc[d]) : d \in Live} /\ files'[q] = files[q]
    BY <1>15, <1>25
  <2> SUFFICES ASSUME NEW q \in DOMAIN files \ {FileOf(bc[d]) : d \in Live}, files'[q] = files[q]
               PROVE  Lost(q)'
    BY <2>1 DEF Strays
  <2>2. PICK z \in Headers : /\ q = NameOf(z) /\ files[q] \in {<<>>, <<z>>}
                             /\ \E d \in Loaded : OnBranch(Prev[z], tip[d])
                             /\ \A d \in Live : ~OnBranch(z, tip[d]) /\ ~OnBranch(tip[d], z)
    BY DEF Alive, Strays, Lost
  <2> QED BY <1>6, <1>9, <1>18, <1>19, <2>2 DEF Lost
<1>27. ASSUME NEW d \in Live PROVE Filed(d)'
  <2>1. CASE d = c
    <3>1. home # gone /\ home \in DOMAIN files
      BY <1>5, <1>6, <1>17
    <3> QED BY <1>5, <1>9, <1>10, <1>12, <1>13, <1>14, <1>15, <2>1, <3>1 DEF Filed
  <2>2. CASE d = p
    BY <1>5, <1>9, <1>10, <1>12, <1>13, <1>14, <1>15, <2>2 DEF Filed
  <2>3. CASE d \notin {c, p}
    <3>1. Filed(d) /\ bc'[d] = bc[d] /\ FileOf(bc[d]) # gone /\ FileOf(bc[d]) \in DOMAIN files
      BY <1>5, <1>6, <1>13, <1>17, <2>3
    <3> QED BY <1>9, <1>15, <3>1 DEF Filed
  <2> QED BY <2>1, <2>2, <2>3
<1>28. Contents'
  BY <1>19, <1>27 DEF Contents, Filed
<1>29. ASSUME clean PROVE ParentsBest' /\ NoStrays'
  <2>1. NoStrays'
    <3>1. DOMAIN files = {FileOf(bc[d]) : d \in Live}
      BY <1>29 DEF Alive, NoStrays
    <3> HIDE DEF gone, name
    <3> QED BY <1>15, <1>25, <3>1 DEF NoStrays
  <2>2. \A d \in Live \ {c} : bc[d].parent # NoChain => Work[tip[d]] <= Work[tip[bc[d].parent]]
    BY <1>2, <1>29 DEF Alive, ParentsBest
  <2>3. Work[tip[p]] <= Work[tip[c]]
    BY <1>5, HeaderAssumption
  <2>4. ASSUME NEW d \in Live \ {c}, bc'[d].parent # NoChain PROVE Work[tip[d]] <= Work[tip[bc'[d].parent]]
    <3>1. CASE d = p
      BY <1>12, <1>13, <2>3, <3>1
    <3>2. CASE d # p
      BY <1>6, <1>13, <2>2, <2>4, <3>2
    <3> QED BY <3>1, <3>2
  <2> QED BY <1>9, <1>19, <2>1, <2>4 DEF ParentsBest
<1>30. Adopting'
  <2>1. old = p /\ p \in Live /\ c \in Live /\ bc'[p].parent = c
    BY <1>1, <1>3, <1>5, <1>12, <1>13 DEF Alive, Swapping
  <2> QED BY <1>5, <1>9, <1>18, <2>1 DEF Adopting
<1>31. Alive'
  <2>1. c \in Loaded'
    BY <1>18
  <2> QED BY <1>5, <1>9, <1>22, <1>23, <1>24, <1>26, <1>28, <1>29, <1>30, <2>1 DEF Alive
<1> QED BY <1>9, <1>19, <1>20, <1>31 DEF Body

LEMMA AdoptBody ==
  ASSUME TypeOK, Alive, Adopt
  PROVE  Body'
<1>1. /\ pc = "adopt" /\ pc' = "swap" /\ mine' = <<>> /\ old' = NoChain
      /\ bc' = [c \in Chain |-> IF Adopted(c) THEN [bc[c] EXCEPT !.parent = cur] ELSE bc[c]]
      /\ files' = files /\ chains' = chains /\ cur' = cur /\ forking' = forking /\ swaps' = swaps
      /\ tip' = tip /\ crashes' = crashes /\ clean' = clean /\ intact' = intact
  BY DEF Adopt, op, history
<1>2. cur \in Chain /\ cur # NoChain /\ intact /\ Adopting
  BY <1>1, ChainAssumption DEF Alive
<1>3. /\ Loaded \subseteq Live /\ Live \subseteq Chain /\ NoChain \notin Live
      /\ \A c \in Live : /\ Node(c) /\ Filed(c)
                         /\ \A k \in Nat : HashAt(c, k) = At(c, k)
  BY <1>1, Quiet
<1>4. /\ cur \in Loaded /\ old \in Loaded /\ old # cur /\ old # NoChain /\ bc[old].parent = cur
      /\ Work[tip[old]] < Work[tip[cur]]
  BY <1>2, <1>3 DEF Adopting
<1>5. Loaded' = Loaded /\ Live' = Live
  BY <1>1 DEF Loaded, Live
<1>6. bc \in [Chain -> [forkpoint : Nat, hash : Hash, prev : Hash, parent : Chain \cup {NoChain}, size : Nat]]
  BY DEF TypeOK
<1>7. /\ \A c \in Chain : /\ bc'[c].forkpoint = bc[c].forkpoint /\ bc'[c].hash = bc[c].hash
                          /\ bc'[c].prev = bc[c].prev /\ bc'[c].size = bc[c].size
                          /\ bc'[c].parent = IF Adopted(c) THEN cur ELSE bc[c].parent
      /\ bc' \in [Chain -> [forkpoint : Nat, hash : Hash, prev : Hash, parent : Chain \cup {NoChain}, size : Nat]]
  BY <1>1, <1>2, <1>6
<1>8. ASSUME NEW c \in Chain, Adopted(c)
      PROVE  /\ c \in Live /\ bc[c].parent = old /\ OnBranch(bc[c].prev, tip[cur])
             /\ bc[c].prev = Prev[bc[c].hash] /\ bc[c].hash # Genesis
  <2>1. c \in Live /\ bc[c].parent = old /\ HashAt(cur, bc[c].forkpoint - 1) = bc[c].prev
    BY <1>3, <1>8 DEF Adopted
  <2>2. /\ bc[c].hash \in Header /\ bc[c].hash # Genesis /\ bc[c].prev = Prev[bc[c].hash]
        /\ bc[c].forkpoint = Height[bc[c].hash]
    BY <1>3, <1>4, <2>1 DEF Node
  <2>3. /\ bc[c].prev \in Header /\ Height[bc[c].prev] = bc[c].forkpoint - 1
        /\ Height[bc[c].prev] \in Nat
    BY <2>2, PrevBelow
  <2>4. At(cur, Height[bc[c].prev]) = bc[c].prev
    BY <1>3, <1>4, <2>1, <2>3
  <2>5. OnBranch(bc[c].prev, tip[cur])
    BY <2>3, <2>4, HeaderAssumption DEF At, OnBranch
  <2> QED BY <2>1, <2>2, <2>5
<1>9. \A c \in Chain : FileOf(bc'[c]) = FileOf(bc[c])
  BY <1>2, <1>4, <1>7, <1>8 DEF FileOf
<1>10. TypeOK'
  <2>1. <<>> \in Seq(Header)
    OBVIOUS
  <2>2. /\ MainFile \in DOMAIN files /\ DOMAIN files \ {MainFile} \subseteq (Nat \ {0}) \X Header \X Hash
        /\ \A p \in DOMAIN files : files[p] \in Seq(Header)
        /\ chains \in Seq([id : Hash, chain : Chain])
        /\ tip \in [Chain -> Header] /\ crashes \in 0 .. MaxCrashes
        /\ clean \in BOOLEAN /\ intact \in BOOLEAN /\ forking \in BOOLEAN /\ swaps \in Nat
    BY DEF TypeOK
  <2>3. /\ files' = files /\ chains' = chains /\ tip' = tip /\ crashes' = crashes /\ clean' = clean
        /\ intact' = intact /\ forking' = forking /\ swaps' = swaps /\ cur' \in Chain
    BY <1>1, <1>2
  <2> QED BY <1>1, <1>7, <2>1, <2>2, <2>3 DEF TypeOK
<1>11. Forest'
  <2>1. ASSUME NEW c \in Live PROVE Node(c)'
    <3>1. CASE Adopted(c)
      BY <1>1, <1>3, <1>4, <1>5, <1>7, <1>8, <3>1 DEF Node
    <3>2. CASE ~Adopted(c)
      BY <1>1, <1>3, <1>5, <1>7, <3>2 DEF Node
    <3> QED BY <3>1, <3>2
  <2>2. \E c \in Loaded' : bc'[c].parent = NoChain
    <3>1. PICK c \in Loaded : bc[c].parent = NoChain
      BY DEF Alive, Forest
    <3>2. ~Adopted(c)
      BY <1>4, <3>1 DEF Adopted
    <3> QED BY <1>3, <1>5, <1>7, <3>1, <3>2
  <2>3. PICK r \in [Chain -> Nat] : Ranked(r)
    BY DEF Alive, Forest
  <2>4. ASSUME NEW c \in Live, bc'[c].parent # NoChain PROVE r[bc'[c].parent] < r[c]
    <3>1. CASE Adopted(c)
      <4>1. bc[c].parent = old /\ bc'[c].parent = cur
        BY <1>3, <1>7, <1>8, <3>1
      <4>2. r[old] < r[c] /\ r[cur] < r[old]
        BY <1>2, <1>3, <1>4, <2>3, <4>1 DEF Ranked
      <4>3. r[old] \in Nat /\ r[c] \in Nat /\ r[cur] \in Nat
        BY <1>2, <1>3, <1>4
      <4> QED BY <4>1, <4>2, <4>3
    <3>2. CASE ~Adopted(c)
      BY <1>3, <1>7, <2>3, <2>4, <3>2 DEF Ranked
    <3> QED BY <3>1, <3>2
  <2>5. Ranked(r)'
    BY <1>5, <2>4 DEF Ranked
  <2> QED BY <1>5, <2>1, <2>2, <2>5 DEF Forest
<1>12. Once' /\ Apart'
  BY <1>1, <1>2, <1>3, <1>5, <1>7 DEF Alive, Once, Apart, Stores
<1>13. Dict' /\ Idle' /\ New'
  <2>1. \A i \in 1 .. Len(chains) : chains[i].chain \in Chain
    BY EntryTypes DEF TypeOK, Entry
  <2>2. Dict'
    BY <1>1, <1>7, <2>1 DEF Alive, Dict
  <2>3. Idle'
    BY <1>5, <1>7, <1>8 DEF Alive, Idle
  <2>4. New'
    BY <1>1, <1>4, <1>5 DEF New
  <2> QED BY <2>2, <2>3, <2>4
<1>14. {FileOf(bc'[c]) : c \in Live'} = {FileOf(bc[c]) : c \in Live}
  BY <1>3, <1>5, <1>9
<1>15. Strays'
  BY <1>1, <1>5, <1>14 DEF Alive, Strays, Lost
<1>16. Contents'
  BY <1>1, <1>3, <1>5, <1>7, <1>9 DEF Contents, Filed
<1>17. ASSUME clean PROVE ParentsBest' /\ NoStrays'
  <2>1. NoStrays'
    BY <1>1, <1>14, <1>17 DEF Alive, NoStrays
  <2>2. \A c \in Live \ {cur} : bc[c].parent # NoChain => Work[tip[c]] <= Work[tip[bc[c].parent]]
    BY <1>17 DEF Alive, ParentsBest
  <2>3. ASSUME NEW c \in Live \ {cur}, bc'[c].parent # NoChain
        PROVE  Work[tip[c]] <= Work[tip[bc'[c].parent]]
    <3>1. CASE Adopted(c)
      <4>1. bc[c].parent = old /\ bc'[c].parent = cur
        BY <1>3, <1>7, <1>8, <3>1
      <4>2. Work[tip[c]] <= Work[tip[old]]
        BY <1>4, <1>3, <2>2, <4>1
      <4>3. Work[tip[c]] \in Nat /\ Work[tip[old]] \in Nat /\ Work[tip[cur]] \in Nat
        BY <1>3, <1>4, HeaderAssumption DEF Node
      <4> QED BY <1>4, <4>1, <4>2, <4>3
    <3>2. CASE ~Adopted(c)
      BY <1>3, <1>7, <2>2, <2>3, <3>2
    <3> QED BY <3>1, <3>2
  <2> QED BY <1>1, <1>5, <2>1, <2>3 DEF ParentsBest
<1>18. Alive'
  BY <1>1, <1>2, <1>4, <1>5, <1>11, <1>12, <1>13, <1>15, <1>16, <1>17 DEF Alive
<1> QED BY <1>1, <1>10, <1>18 DEF Body

-----------------------------------------------------------------------------
(* What the chains of a key have *)

LEMMA NodeFile ==
  ASSUME NEW c, Node(c)
  PROVE  /\ FileOf(bc[c])[1] = bc[c].forkpoint /\ FileOf(bc[c])[3] = bc[c].hash
         /\ FileOf(bc[c]) = MainFile \/ (FileOf(bc[c]) = NameOf(bc[c].hash) /\ bc[c].hash # Genesis)
         /\ bc[c].parent # NoChain => FileOf(bc[c]) # MainFile /\ FileOf(bc[c])[2] = bc[c].prev
<1>1. CASE bc[c].parent = NoChain
  <2>1. bc[c].forkpoint = 0 /\ bc[c].hash = Genesis /\ FileOf(bc[c]) = MainFile
    BY <1>1, HeaderTypes DEF Node, FileOf
  <2> QED BY <1>1, <2>1 DEF MainFile
<1>2. CASE bc[c].parent # NoChain
  <2>1. /\ bc[c].hash \in Headers /\ bc[c].forkpoint = Height[bc[c].hash] /\ bc[c].prev = Prev[bc[c].hash]
        /\ FileOf(bc[c]) = NameOf(bc[c].hash)
    BY <1>2, NodeName DEF Node
  <2>2. NameOf(bc[c].hash) # MainFile
    BY <2>1, NameDiffer
  <2> QED BY <2>1, <2>2 DEF NameOf, Headers
<1> QED BY <1>1, <1>2

\* Each header that a chain contains is in the file of the chain or of one it
\* descends from.
LEMMA Storer ==
  ASSUME Forest, Live \subseteq Chain, NEW x \in Header, NEW c \in Live, OnBranch(x, tip[c])
  PROVE  \E e \in Live : Stores(e, x)
<1>1. PICK r \in [Chain -> Nat] : Ranked(r)
  BY DEF Forest
<1> DEFINE T == {r[d] : d \in {e \in Live : OnBranch(x, tip[e])}}
<1>2. T \in SUBSET Nat /\ T # {}
  OBVIOUS
<1>3. PICK n \in T : \A k \in T : n <= k
  <2> HIDE DEF T
  <2> QED BY <1>2, Least
<1>4. PICK e \in Live : OnBranch(x, tip[e]) /\ r[e] = n
  OBVIOUS
<1>5. Node(e) /\ bc[e].hash \in Header /\ tip[e] \in Header /\ OnBranch(bc[e].hash, tip[e])
  BY DEF Forest, Node
<1>6. CASE OnBranch(bc[e].hash, x)
  BY <1>4, <1>6 DEF Stores
<1>7. CASE ~OnBranch(bc[e].hash, x)
  <2>1. OnBranch(x, bc[e].hash)
    BY <1>4, <1>5, <1>7, OnTotal
  <2>2. bc[e].hash # Genesis /\ x # bc[e].hash
    BY <1>7, OnGenesis, OnSelf
  <2>3. bc[e].parent # NoChain
    BY <1>5, <2>2 DEF Node
  <2>4. /\ bc[e].parent \in Loaded /\ OnBranch(Prev[bc[e].hash], tip[bc[e].parent])
        /\ tip[bc[e].parent] \in Header /\ bc[e].parent \in Live
    BY <1>5, <2>3 DEF Node, Forest, Live
  <2>5. OnBranch(x, Prev[bc[e].hash]) /\ Prev[bc[e].hash] \in Header
    BY <1>5, <2>1, <2>2, OnPrev, PrevBelow
  <2>6. OnBranch(x, tip[bc[e].parent])
    BY <2>4, <2>5, OnTrans
  <2>7. r[bc[e].parent] < r[e] /\ r[bc[e].parent] \in T /\ r[e] \in Nat /\ r[bc[e].parent] \in Nat
    BY <1>1, <2>3, <2>4, <2>6 DEF Ranked
  <2> QED BY <1>3, <1>4, <2>7, SMTT(30)
<1> QED BY <1>6, <1>7

\* Every chain that contains the first header of another descends from it, and
\* has no more work.
LEMMA FirstHasMost ==
  ASSUME Forest, Once, Live \subseteq Chain, NEW c \in Live,
         \A d \in Live : bc[d].parent # NoChain => Work[tip[d]] <= Work[tip[bc[d].parent]]
  PROVE  \A d \in Live : OnBranch(bc[c].hash, tip[d]) => Work[tip[d]] <= Work[tip[c]]
<1> DEFINE Bad == {d \in Live : OnBranch(bc[c].hash, tip[d]) /\ ~(Work[tip[d]] <= Work[tip[c]])}
<1>1. PICK r \in [Chain -> Nat] : Ranked(r)
  BY DEF Forest
<1> SUFFICES ASSUME Bad # {} PROVE FALSE
  OBVIOUS
<1> DEFINE T == {r[d] : d \in Bad}
<1>2. T \in SUBSET Nat /\ T # {}
  OBVIOUS
<1>3. PICK n \in T : \A k \in T : n <= k
  <2> HIDE DEF T
  <2> QED BY <1>2, Least
<1>4. PICK e \in Bad : r[e] = n
  OBVIOUS
<1>5. /\ Node(e) /\ bc[e].hash \in Header /\ tip[e] \in Header /\ OnBranch(bc[e].hash, tip[e])
      /\ Node(c) /\ bc[c].hash \in Header /\ tip[c] \in Header
  BY DEF Forest, Node
<1>6. Work[tip[e]] \in Nat /\ Work[tip[c]] \in Nat
  BY <1>5, HeaderAssumption
<1>7. e # c
  BY <1>6
<1>8. ~OnBranch(bc[e].hash, bc[c].hash)
  <2> SUFFICES ASSUME OnBranch(bc[e].hash, bc[c].hash) PROVE FALSE
    OBVIOUS
  <2>1. Stores(e, bc[c].hash) /\ Stores(c, bc[c].hash)
    BY <1>5, StoresEnds DEF Stores
  <2> QED BY <1>5, <1>7, <2>1 DEF Once
<1>9. OnBranch(bc[c].hash, bc[e].hash)
  BY <1>5, <1>8, OnTotal
<1>10. bc[e].hash # Genesis /\ bc[c].hash # bc[e].hash
  BY <1>5, <1>8, OnGenesis, OnSelf
<1>11. /\ bc[e].parent # NoChain /\ bc[e].parent \in Loaded /\ bc[e].parent \in Live
       /\ OnBranch(Prev[bc[e].hash], tip[bc[e].parent]) /\ tip[bc[e].parent] \in Header
  BY <1>5, <1>10 DEF Node, Forest, Live
<1>12. OnBranch(bc[c].hash, Prev[bc[e].hash]) /\ Prev[bc[e].hash] \in Header
  BY <1>5, <1>9, <1>10, OnPrev, PrevBelow
<1>13. OnBranch(bc[c].hash, tip[bc[e].parent])
  BY <1>5, <1>11, <1>12, OnTrans
<1>14. Work[tip[e]] <= Work[tip[bc[e].parent]] /\ Work[tip[bc[e].parent]] \in Nat
  BY <1>11, HeaderAssumption
<1>15. bc[e].parent \in Bad
  BY <1>6, <1>11, <1>13, <1>14
<1>16. r[bc[e].parent] < r[e] /\ r[e] \in Nat /\ r[bc[e].parent] \in Nat
  BY <1>1, <1>11 DEF Ranked
<1>17. r[bc[e].parent] \in T
  BY <1>15
<1> HIDE DEF T
<1>18. n <= r[bc[e].parent]
  BY <1>3, <1>17
<1> QED BY <1>4, <1>16, <1>18

-----------------------------------------------------------------------------
(* The process stops *)

LEMMA DieBody ==
  ASSUME TypeOK, NEW left, NEW swapped \in BOOLEAN, NEW whole \in BOOLEAN, Die(left, swapped, whole),
         DOMAIN files \subseteq DOMAIN left, DOMAIN left \ DOMAIN files \subseteq (Nat \ {0}) \X Header \X Hash,
         \A q \in DOMAIN left : left[q] \in Seq(Header),
         Durable'
  PROVE  Body'
<1>1. /\ crashes < MaxCrashes /\ files' = left
      /\ bc' = [c \in Chain |-> Blank] /\ chains' = <<>>
      /\ pc' = "down" /\ cur' = NoChain /\ forking' = FALSE /\ swaps' = 0
      /\ mine' = <<>> /\ old' = NoChain /\ tip' = [c \in Chain |-> Genesis]
      /\ crashes' = crashes + 1 /\ clean' = (clean /\ swapped /\ whole) /\ intact' = (intact /\ whole)
  BY DEF Die
<1>2. Down'
  BY <1>1 DEF Down
<1>3. TypeOK'
  <2>1. Blank \in [forkpoint : Nat, hash : Hash, prev : Hash, parent : Chain \cup {NoChain}, size : Nat]
    BY HeaderTypes DEF Blank, Hash
  <2>2. bc' \in [Chain -> [forkpoint : Nat, hash : Hash, prev : Hash, parent : Chain \cup {NoChain}, size : Nat]]
    <3> HIDE DEF Blank
    <3> QED BY <1>1, <2>1
  <2>3. tip' \in [Chain -> Header]
    BY <1>1, HeaderTypes
  <2>4. crashes' \in 0 .. MaxCrashes
    BY <1>1, ChainAssumption DEF TypeOK
  <2>5. clean' \in BOOLEAN /\ intact' \in BOOLEAN
    BY <1>1 DEF TypeOK
  <2>6. chains' \in Seq([id : Hash, chain : Chain]) /\ mine' \in Seq(Header)
    BY <1>1
  <2>7. /\ MainFile \in DOMAIN files' /\ DOMAIN files' \ {MainFile} \subseteq (Nat \ {0}) \X Header \X Hash
        /\ \A q \in DOMAIN files' : files'[q] \in Seq(Header)
    BY <1>1 DEF TypeOK
  <2> QED BY <1>1, <2>2, <2>3, <2>4, <2>5, <2>6, <2>7 DEF TypeOK
<1> QED BY <1>1, <1>2, <1>3 DEF Body

\* D: the objects whose files the next start keeps, t: where those end
LEMMA Leaves ==
  ASSUME TypeOK, Alive, NEW D \in SUBSET Live, NEW t \in [D -> Header],
         DOMAIN files \subseteq DOMAIN files', \A q \in DOMAIN files' \ DOMAIN files : Broken(q)',
         \A q \in DOMAIN files \ {FileOf(bc[c]) : c \in Live} : files'[q] = files[q] \/ files'[q] = <<>>,
         \A c \in D : /\ files'[FileOf(bc[c])] = Seg(bc[c].forkpoint, t[c])
                      /\ OnBranch(bc[c].hash, t[c]) /\ \E d \in Live : OnBranch(t[c], tip[d]),
         \A q \in DOMAIN files : (\E c \in Live \ D : q = FileOf(bc[c])) => Broken(q)',
         \A c, d \in D : c # d => \A x \in Header :
           ~(OnBranch(bc[c].hash, x) /\ OnBranch(x, t[c]) /\ OnBranch(bc[d].hash, x) /\ OnBranch(x, t[d])),
         intact' => /\ \A c \in D : \E d \in Live : t[c] = tip[d]
                    /\ \A c, d \in D : c # d => ~OnBranch(t[c], t[d])
  PROVE  /\ Kept'
         /\ \A q \in Wholes' : \/ q \notin {FileOf(bc[c]) : c \in Live}
                               \/ \E c \in D : q = FileOf(bc[c]) /\ Top(q)' = t[c] /\ q[3] = bc[c].hash
         /\ \A c \in D, q \in DOMAIN files : q = FileOf(bc[c]) => q \in Wholes'
<1> DEFINE Own == {FileOf(bc[c]) : c \in Live}
<1>1. cur \in Chain \cup {NoChain}
  BY DEF Alive
<1>2. /\ Loaded \subseteq Live /\ Live \subseteq Chain
      /\ \A c \in Live : Node(c) /\ tip[c] \in Header /\ bc[c].hash \in Header
                         /\ bc[c].forkpoint = Height[bc[c].hash] /\ FileOf(bc[c]) \in DOMAIN files
  BY <1>1, AliveBasics DEF Alive, Contents
<1>3. \A c, d \in Live : c # d => FileOf(bc[c]) # FileOf(bc[d])
  BY <1>2, FilesDiffer DEF Alive
\* The files of D
<1>4. ASSUME NEW c \in D, NEW q \in DOMAIN files, q = FileOf(bc[c])
      PROVE  Whole(q)' /\ Top(q)' = t[c] /\ q[3] = bc[c].hash
  <2> DEFINE f == bc[c].forkpoint
  <2>1. q[3] = bc[c].hash /\ (q = MainFile \/ (q = NameOf(bc[c].hash) /\ bc[c].hash # Genesis))
    BY <1>2, <1>4, NodeFile
  <2>2. /\ f \in Nat /\ f <= Height[t[c]] /\ t[c] \in Header /\ f = Height[bc[c].hash]
    BY <1>2, HeaderTypes DEF OnBranch
  <2>3. Seg(f, t[c]) # <<>> /\ Seg(f, t[c])[Len(Seg(f, t[c]))] = t[c]
    BY <2>2, SegEnds
  <2>4. files'[q] = Seg(f, t[c])
    BY <1>4
  <2>5. Top(q)' = t[c]
    <3> HIDE DEF f, Seg
    <3>1. Top(q)' = files'[q][Len(files'[q])]
      BY DEF Top
    <3> QED BY <2>3, <2>4, <3>1
  <2>6. bc[c].hash \in Header
    BY <1>2
  <2> QED BY <2>1, <2>2, <2>3, <2>4, <2>5, <2>6 DEF Whole
\* The lost ones
<1>a. ASSUME NEW q \in DOMAIN files \ Own PROVE q # MainFile
  BY NameDiffer DEF Alive, Strays, Lost
<1>b. \A q : ~(Whole(q)' /\ Broken(q)')
  <2> SUFFICES ASSUME NEW q, Whole(q)', Broken(q)' PROVE FALSE
    OBVIOUS
  <2>1. files'[q] # <<>> /\ files'[q] = Seg(Height[q[3]], Top(q)') /\ OnBranch(q[3], Top(q)') /\ Top(q)' \in Header
        /\ q[3] \in Header
    BY DEF Whole
  <2>2. Seg(Height[q[3]], Top(q)')[1] = HeaderAt(Top(q)', Height[q[3]])
    BY <2>1, SegEnds, HeaderTypes DEF OnBranch
  <2>3. files'[q][1] = q[3]
    <3> HIDE DEF Seg
    <3> QED BY <2>1, <2>2 DEF OnBranch
  <2> QED BY <2>1, <2>3 DEF Broken
<1>5. ASSUME NEW q \in DOMAIN files \ Own, files'[q] # <<>>
      PROVE  \E x \in Headers : /\ q = NameOf(x) /\ q[3] = x /\ Top(q)' = x /\ Whole(q)'
                                /\ \E d \in Loaded : OnBranch(Prev[x], tip[d])
                                /\ \A d \in Live : ~OnBranch(x, tip[d]) /\ ~OnBranch(tip[d], x)
  <2>1. PICK x \in Headers : /\ q = NameOf(x) /\ files[q] \in {<<>>, <<x>>}
                             /\ \E d \in Loaded : OnBranch(Prev[x], tip[d])
                             /\ \A d \in Live : ~OnBranch(x, tip[d]) /\ ~OnBranch(tip[d], x)
    BY DEF Alive, Strays, Lost
  <2>2. files'[q] = <<x>> /\ q[3] = x /\ x \in Header /\ x # Genesis
    BY <1>5, <2>1 DEF NameOf, Headers
  <2>3. Top(q)' = x
    BY <2>2 DEF Top
  <2>4. Whole(q)'
    <3>1. Seg(Height[x], x) = <<x>> /\ OnBranch(x, x)
      BY <2>2, SegOne, OnSelf
    <3> QED BY <2>1, <2>2, <2>3, <3>1 DEF Whole
  <2> QED BY <2>1, <2>2, <2>3, <2>4
<1>6. \A q \in DOMAIN files : \/ \E c \in D : q = FileOf(bc[c])
                              \/ q \notin Own
                              \/ \E c \in Live \ D : q = FileOf(bc[c])
  OBVIOUS
<1> DEFINE Stray == {q \in DOMAIN files \ Own : files'[q] # <<>>}
<1>7. \A q \in DOMAIN files' : Whole(q)' \/ Broken(q)'
  <2> SUFFICES ASSUME NEW q \in DOMAIN files PROVE Whole(q)' \/ Broken(q)'
    OBVIOUS
  <2>1. CASE q \notin Own /\ files'[q] = <<>>
    BY <1>a, <2>1 DEF Broken
  <2>2. CASE ~(q \notin Own /\ files'[q] = <<>>)
    BY <1>4, <1>5, <1>6, <2>2
  <2> QED BY <2>1, <2>2
<1>8. Whole(MainFile)'
  <2>1. MainFile \in DOMAIN files'
    BY DEF TypeOK
  <2>2. ~Broken(MainFile)'
    BY DEF Broken
  <2> QED BY <1>7, <2>1, <2>2
<1> DEFINE Of(q, c) == q = FileOf(bc[c]) /\ Top(q)' = t[c] /\ q[3] = bc[c].hash
<1>9. \A q \in Wholes' : (\E c \in D : Of(q, c)) \/ q \in Stray
  <2> SUFFICES ASSUME NEW q \in DOMAIN files', Whole(q)' PROVE (\E c \in D : Of(q, c)) \/ q \in Stray
    BY DEF Wholes
  <2>1. q \in DOMAIN files /\ files'[q] # <<>>
    BY <1>b DEF Whole
  <2>2. ~\E c \in Live \ D : q = FileOf(bc[c])
    BY <1>b, <2>1
  <2> QED BY <1>4, <1>6, <2>1, <2>2
<1>10. ASSUME NEW q \in Stray, NEW c \in D
       PROVE  q[3] \in Header /\ ~OnBranch(q[3], t[c]) /\ (intact' => ~OnBranch(t[c], q[3]))
  <2>1. PICK x \in Headers : q[3] = x /\ \A d \in Live : ~OnBranch(x, tip[d]) /\ ~OnBranch(tip[d], x)
    BY <1>5
  <2>2. x \in Header
    BY DEF Headers
  <2> QED BY <1>2, <2>1, <2>2, OnTrans
<1>11. \A p, q \in Wholes' : p # q => \A x \in Header : ~(Keeps(p, x)' /\ Keeps(q, x)')
  <2> SUFFICES ASSUME NEW p \in Wholes', NEW q \in Wholes', p # q, NEW x \in Header, Keeps(p, x)', Keeps(q, x)'
               PROVE  FALSE
    OBVIOUS
  <2>1. OnBranch(p[3], x) /\ OnBranch(x, Top(p)') /\ OnBranch(q[3], x) /\ OnBranch(x, Top(q)')
    BY DEF Keeps
  <2>2. ASSUME NEW v \in Stray, NEW c \in D, OnBranch(v[3], x), OnBranch(x, Top(v)'),
               OnBranch(bc[c].hash, x), OnBranch(x, t[c])
        PROVE  FALSE
    <3>1. v[3] \in Header /\ ~OnBranch(v[3], t[c])
      BY <1>10
    <3> QED BY <2>2, <3>1, OnTrans
  <2>3. CASE p \in Stray /\ q \in Stray
    <3>1. Top(p)' = p[3] /\ Top(q)' = q[3] /\ p[3] \in Header /\ q[3] \in Header
          /\ p = NameOf(p[3]) /\ q = NameOf(q[3])
      BY <1>5, <2>3 DEF Headers
    <3> QED BY <2>1, <3>1, OnBoth
  <2>4. CASE p \in Stray /\ \E c \in D : Of(q, c)
    BY <1>4, <2>1, <2>2, <2>4
  <2>5. CASE q \in Stray /\ \E c \in D : Of(p, c)
    BY <1>4, <2>1, <2>2, <2>5
  <2>6. CASE (\E c \in D : Of(p, c)) /\ (\E c \in D : Of(q, c))
    BY <1>4, <2>1, <2>6
  <2> QED BY <1>9, <2>3, <2>4, <2>5, <2>6
<1>12. ASSUME intact' PROVE \A p, q \in Wholes' : p # q => ~OnBranch(Top(p)', Top(q)')
  <2> SUFFICES ASSUME NEW p \in Wholes', NEW q \in Wholes', p # q, OnBranch(Top(p)', Top(q)') PROVE FALSE
    OBVIOUS
  <2>1. CASE p \in Stray /\ q \in Stray
    <3>1. PICK x \in Headers : p = NameOf(x) /\ Top(p)' = x /\ \A d \in Live : ~OnBranch(x, tip[d])
      BY <1>5, <2>1
    <3>2. PICK y \in Headers : q = NameOf(y) /\ Top(q)' = y /\ \E d \in Loaded : OnBranch(Prev[y], tip[d])
      BY <1>5, <2>1
    <3>3. x # y /\ x \in Header /\ y \in Header /\ y # Genesis
      BY <3>1, <3>2 DEF Headers
    <3>4. OnBranch(x, Prev[y]) /\ Prev[y] \in Header
      BY <3>1, <3>2, <3>3, OnPrev, PrevBelow
    <3> QED BY <1>2, <3>1, <3>2, <3>3, <3>4, OnTrans
  <2>2. CASE p \in Stray /\ \E c \in D : Of(q, c)
    BY <1>4, <1>5, <1>10, <2>2
  <2>3. CASE q \in Stray /\ \E c \in D : Of(p, c)
    BY <1>4, <1>5, <1>10, <1>12, <2>3
  <2>4. CASE (\E c \in D : Of(p, c)) /\ (\E c \in D : Of(q, c))
    BY <1>4, <1>12, <2>4
  <2> QED BY <1>9, <2>1, <2>2, <2>3, <2>4
<1>13. Kept' <=> /\ Whole(MainFile)' /\ \A p \in DOMAIN files' : Whole(p)' \/ Broken(p)'
                 /\ \A p, q \in Wholes' : p # q => \A x \in Header : ~(Keeps(p, x)' /\ Keeps(q, x)')
                 /\ intact' => \A p, q \in Wholes' : p # q => ~OnBranch(Top(p)', Top(q)')
  BY DEF Kept
<1>14. \A c \in D, q \in DOMAIN files : q = FileOf(bc[c]) => q \in Wholes'
  BY <1>4 DEF Wholes
<1> QED BY <1>7, <1>8, <1>9, <1>11, <1>12, <1>13, <1>14

\* Where the files end that hold the start of a branch of their own
LEMMA LeavesBelow ==
  ASSUME TypeOK, Alive, NEW D \in SUBSET Live, NEW t \in [D -> Header],
         \A c \in D : OnBranch(t[c], tip[c])
  PROVE  \A c, d \in D : c # d => \A x \in Header :
           ~(OnBranch(bc[c].hash, x) /\ OnBranch(x, t[c]) /\ OnBranch(bc[d].hash, x) /\ OnBranch(x, t[d]))
<1> SUFFICES ASSUME NEW c \in D, NEW d \in D, c # d, NEW x \in Header,
                    OnBranch(bc[c].hash, x), OnBranch(x, t[c]), OnBranch(bc[d].hash, x), OnBranch(x, t[d])
             PROVE  FALSE
  OBVIOUS
<1>1. cur \in Chain \cup {NoChain}
  BY DEF Alive
<1>2. tip[c] \in Header /\ tip[d] \in Header
  BY <1>1, AliveBasics DEF Alive
<1>3. OnBranch(x, tip[c]) /\ OnBranch(x, tip[d])
  BY <1>2, OnTrans
<1> QED BY <1>3 DEF Alive, Once, Stores

LEMMA StopBody ==
  ASSUME TypeOK, Alive, Stop
  PROVE  Body'
<1> DEFINE Own == {FileOf(bc[c]) : c \in Live}
<1>1. /\ Die(files, pc = "idle", TRUE) /\ files' = files /\ intact' = intact
      /\ clean' = (clean /\ pc = "idle")
  BY DEF Stop, Die, TypeOK
<1>2. cur \in Chain \cup {NoChain}
  BY DEF Alive
<1>3. /\ Loaded \subseteq Live /\ Live \subseteq Chain
      /\ \A c \in Live : /\ Node(c) /\ tip[c] \in Header /\ OnBranch(bc[c].hash, tip[c])
                         /\ FileOf(bc[c]) \in DOMAIN files
  BY <1>2, AliveBasics DEF Alive, Contents
<1>4. intact => \A c, d \in Live : c # d => ~OnBranch(tip[c], tip[d])
  BY DEF Alive, Apart
<1>5. CASE pc \notin {"parent", "rename"}
  <2> DEFINE t == [c \in Live |-> tip[c]]
  <2>1. t \in [Live -> Header] /\ \A c \in Live : t[c] = tip[c]
    BY <1>3
  <2>2. \A c \in Live : Filed(c)
    BY <1>5 DEF Alive, Contents
  <2> HIDE DEF t
  <2>3. \A c \in Live : /\ files'[FileOf(bc[c])] = Seg(bc[c].forkpoint, t[c])
                        /\ OnBranch(bc[c].hash, t[c]) /\ OnBranch(t[c], tip[c])
    BY <1>1, <1>3, <2>1, <2>2, OnSelf DEF Filed
  <2>4. \A c, d \in Live : c # d => \A x \in Header :
          ~(OnBranch(bc[c].hash, x) /\ OnBranch(x, t[c]) /\ OnBranch(bc[d].hash, x) /\ OnBranch(x, t[d]))
    BY <2>1, <2>3, LeavesBelow
  <2>5. /\ Kept'
        /\ \A q \in Wholes' : \/ q \notin Own
                              \/ \E c \in Live : q = FileOf(bc[c]) /\ Top(q)' = t[c] /\ q[3] = bc[c].hash
        /\ \A c \in Live, q \in DOMAIN files : q = FileOf(bc[c]) => q \in Wholes'
    <3>1. /\ Live \in SUBSET Live /\ DOMAIN files \subseteq DOMAIN files'
          /\ \A q \in DOMAIN files' \ DOMAIN files : Broken(q)'
      BY <1>1
    <3>2. \A q \in DOMAIN files \ Own : files'[q] = files[q] \/ files'[q] = <<>>
      BY <1>1
    <3>3. \A q \in DOMAIN files : (\E c \in Live \ Live : q = FileOf(bc[c])) => Broken(q)'
      OBVIOUS
    <3>4. intact' => /\ \A c \in Live : \E d \in Live : t[c] = tip[d]
                     /\ \A c, d \in Live : c # d => ~OnBranch(t[c], t[d])
      BY <1>1, <1>4, <2>1
    <3> QED BY <2>1, <2>3, <2>4, <3>1, <3>2, <3>3, <3>4, Leaves, ZenonT(60)
  <2>6. ASSUME clean' PROVE AllKept'
    <3>1. /\ pc = "idle" /\ clean /\ DOMAIN files = Own /\ ParentsBest /\ cur = NoChain
      BY <1>1, <2>6 DEF Alive, NoStrays
    <3>2. \A d \in Live : bc[d].parent # NoChain => Work[tip[d]] <= Work[tip[bc[d].parent]]
      BY <1>3, <3>1, ChainAssumption DEF ParentsBest
    <3>3. Wholes' = DOMAIN files'
      <4>1. \A q \in DOMAIN files' : q \in Wholes'
        BY <1>1, <2>5, <3>1
      <4> QED BY <4>1 DEF Wholes
    <3>4. \A q \in Wholes' : \E c \in Live : q = FileOf(bc[c]) /\ Top(q)' = tip[c] /\ q[3] = bc[c].hash
      BY <1>1, <2>1, <2>5, <3>1, <3>3
    <3>5. \A p, q \in Wholes' : OnBranch(p[3], Top(q)') => Work[Top(q)'] <= Work[Top(p)']
      <4> SUFFICES ASSUME NEW p \in Wholes', NEW q \in Wholes', OnBranch(p[3], Top(q)')
                   PROVE  Work[Top(q)'] <= Work[Top(p)']
        OBVIOUS
      <4>1. PICK c \in Live : Top(p)' = tip[c] /\ p[3] = bc[c].hash
        BY <3>4
      <4>2. PICK d \in Live : Top(q)' = tip[d]
        BY <3>4
      <4>3. Work[tip[d]] <= Work[tip[c]]
        BY <1>3, <3>2, <4>1, <4>2, FirstHasMost DEF Alive
      <4> QED BY <4>1, <4>2, <4>3
    <3>6. \A q \in Wholes' \ {MainFile} : \E p \in Wholes' : p[1] < q[1] /\ Keeps(p, q[2])'
      <4> SUFFICES ASSUME NEW q \in Wholes', q # MainFile
                   PROVE  \E p \in Wholes' : p[1] < q[1] /\ Keeps(p, q[2])'
        OBVIOUS
      <4>1. PICK d \in Live : q = FileOf(bc[d])
        BY <3>4
      <4>2. bc[d].parent # NoChain
        BY <1>3, <4>1 DEF FileOf
      <4>a. PICK z : z = Prev[bc[d].hash]
        OBVIOUS
      <4>3. /\ q[1] = bc[d].forkpoint /\ q[2] = z /\ z \in Header /\ OnBranch(z, tip[bc[d].parent])
            /\ bc[d].parent \in Live /\ bc[d].forkpoint = Height[z] + 1 /\ Height[z] \in Nat
        BY <1>3, <4>a, <4>1, <4>2, NodeFile, PrevBelow DEF Node
      <4>4. PICK e \in Live : Stores(e, z)
        BY <1>3, <4>3, Storer DEF Alive
      <4>5. PICK p \in DOMAIN files' : p = FileOf(bc[e])
        BY <1>1, <1>3
      <4>6. p[1] = bc[e].forkpoint /\ p[3] = bc[e].hash
        BY <1>3, <4>5, NodeFile
      <4>7. PICK c \in Live : p = FileOf(bc[c]) /\ Top(p)' = tip[c] /\ p[3] = bc[c].hash
        BY <3>3, <3>4, <4>5
      <4>8. c = e
        BY <1>3, <4>5, <4>7, FilesDiffer DEF Alive
      <4>9. Keeps(p, z)'
        BY <4>4, <4>6, <4>7, <4>8 DEF Stores, Keeps
      <4>10. p[1] < q[1]
        BY <1>3, <4>3, <4>4, <4>6, HeaderTypes DEF Stores, OnBranch, Node
      <4> QED BY <3>3, <4>3, <4>5, <4>9, <4>10
    <3> QED BY <3>3, <3>5, <3>6 DEF AllKept
  <2>7. Durable'
    BY <2>5, <2>6 DEF Durable
  <2> QED BY <1>1, <2>7, DieBody DEF TypeOK
<1>6. CASE pc \in {"parent", "rename"}
  <2>1. PICK c \in Live : c = cur
    BY <1>6, MovedIs
  <2>2. PICK p \in Live : p = P
    BY <1>6, MovedIs
  <2>3. /\ intact /\ p # c /\ c \in Chain /\ bc[c].parent = p
        /\ FileOf(bc[c]) = NameOf(bc[c].hash) /\ bc[c].hash \in Headers
        /\ OnBranch(bc[p].hash, tip[c]) /\ bc[c].forkpoint \in Nat /\ bc[c].forkpoint <= Height[tip[p]]
        /\ tip[p] \in Header /\ tip[c] \in Header
        /\ files[FileOf(bc[c])] = Seg(bc[c].forkpoint, tip[p])
        /\ pc = "rename" => files[FileOf(bc[p])] = Seg(bc[p].forkpoint, tip[c])
        /\ MovedHash = HeaderAt(tip[p], bc[c].forkpoint)
        /\ \A k \in 0 .. bc[c].forkpoint - 1 : HeaderAt(tip[p], k) = HeaderAt(tip[c], k)
    BY <1>6, <2>1, <2>2, MovedIs DEF Moved
  <2> DEFINE D == Live \ {c}
             t == [d \in D |-> IF d = p /\ pc = "rename" THEN tip[c] ELSE tip[d]]
  <2>4. PICK E : E = D
    OBVIOUS
  <2>5. PICK u : u = t
    OBVIOUS
  <2>6. u \in [E -> Header] /\ \A d \in E : u[d] = IF d = p /\ pc = "rename" THEN tip[c] ELSE tip[d]
    BY <1>3, <2>4, <2>5
  <2>7. E \in SUBSET Live /\ c \notin E /\ p \in E /\ \A d \in Live : d # c => d \in E
    BY <2>3, <2>4
  <2> HIDE DEF D, t
  <2>8. \A d \in E : /\ files'[FileOf(bc[d])] = Seg(bc[d].forkpoint, u[d])
                     /\ OnBranch(bc[d].hash, u[d]) /\ \E e \in Live : u[d] = tip[e]
    <3> SUFFICES ASSUME NEW d \in E
                 PROVE  /\ files'[FileOf(bc[d])] = Seg(bc[d].forkpoint, u[d])
                        /\ OnBranch(bc[d].hash, u[d]) /\ \E e \in Live : u[d] = tip[e]
      OBVIOUS
    <3>1. CASE d = p /\ pc = "rename"
      BY <1>1, <2>3, <2>6, <3>1
    <3>2. CASE ~(d = p /\ pc = "rename")
      <4>1. Filed(d)
        BY <1>6, <2>1, <2>2, <2>7, <3>2 DEF Alive, Contents
      <4> QED BY <1>1, <1>3, <2>6, <2>7, <3>2, <4>1 DEF Filed
    <3> QED BY <3>1, <3>2
  <2>9. \A q \in DOMAIN files : (\E d \in Live \ E : q = FileOf(bc[d])) => Broken(q)'
    <3> SUFFICES ASSUME NEW q \in DOMAIN files, q = FileOf(bc[c]) PROVE Broken(q)'
      BY <2>7
    <3>1. q # MainFile /\ q[3] = bc[c].hash
      BY <2>3, NameDiffer DEF NameOf
    <3>2. Seg(bc[c].forkpoint, tip[p])[1] = MovedHash
      BY <2>3, SegEnds
    <3>3. files'[q][1] = MovedHash
      <4> HIDE DEF Seg
      <4> QED BY <1>1, <2>3, <3>2
    <3>4. MovedHash # bc[c].hash
      BY <1>6, NewName
    <3> QED BY <3>1, <3>3, <3>4 DEF Broken
  <2>10. ASSUME NEW d \in E, NEW x \in Header, OnBranch(bc[d].hash, x), OnBranch(x, u[d])
         PROVE  Stores(d, x) \/ (d = p /\ pc = "rename" /\ Stores(c, x))
    <3>1. CASE ~(d = p /\ pc = "rename")
      BY <2>6, <2>10, <3>1 DEF Stores
    <3>2. CASE d = p /\ pc = "rename" /\ OnBranch(bc[c].hash, x)
      BY <2>6, <2>10, <3>2 DEF Stores
    <3>3. CASE d = p /\ pc = "rename" /\ ~OnBranch(bc[c].hash, x)
      <4>1. OnBranch(x, tip[c]) /\ OnBranch(bc[p].hash, x)
        BY <2>6, <2>10, <3>3
      <4>2. /\ OnBranch(bc[c].hash, tip[c]) /\ Height[bc[c].hash] = bc[c].forkpoint /\ bc[c].hash \in Header
        BY <1>3 DEF Node
      <4>3. ~(Height[bc[c].hash] <= Height[x])
        BY <2>3, <3>3, <4>1, <4>2, OnCompare
      <4>4. Height[x] \in Nat /\ Height[x] \in 0 .. bc[c].forkpoint - 1 /\ Height[x] <= Height[tip[p]]
        BY <2>3, <4>2, <4>3, HeaderTypes
      <4>5. HeaderAt(tip[p], Height[x]) = x
        BY <2>3, <4>1, <4>4 DEF OnBranch
      <4> QED BY <3>3, <4>1, <4>4, <4>5 DEF Stores, OnBranch
    <3> QED BY <3>1, <3>2, <3>3
  <2>11. \A d, e \in E : d # e => \A x \in Header :
           ~(OnBranch(bc[d].hash, x) /\ OnBranch(x, u[d]) /\ OnBranch(bc[e].hash, x) /\ OnBranch(x, u[e]))
    <3> SUFFICES ASSUME NEW d \in E, NEW e \in E, d # e, NEW x \in Header,
                        OnBranch(bc[d].hash, x), OnBranch(x, u[d]), OnBranch(bc[e].hash, x), OnBranch(x, u[e])
                 PROVE  FALSE
      OBVIOUS
    <3>1. Stores(d, x) \/ (d = p /\ Stores(c, x))
      BY <2>10
    <3>2. Stores(e, x) \/ (e = p /\ Stores(c, x))
      BY <2>10
    <3>3. \A a, b \in Live : a # b => ~(Stores(a, x) /\ Stores(b, x))
      BY DEF Alive, Once
    <3> QED BY <2>7, <3>1, <3>2, <3>3
  <2>12. /\ \A d \in E : \E e \in Live : u[d] = tip[e]
         /\ \A d, e \in E : d # e => ~OnBranch(u[d], u[e])
    <3>1. \A d \in E : \E a \in Live : u[d] = tip[a] /\ a = IF d = p /\ pc = "rename" THEN c ELSE d
      BY <2>6, <2>7
    <3>2. \A a, b \in Live : a # b => ~OnBranch(tip[a], tip[b])
      BY <1>4, <2>3
    <3>3. ASSUME NEW d \in E, NEW e \in E, d # e PROVE ~OnBranch(u[d], u[e])
      <4>1. PICK a \in Live : u[d] = tip[a] /\ a = IF d = p /\ pc = "rename" THEN c ELSE d
        BY <3>1
      <4>2. PICK b \in Live : u[e] = tip[b] /\ b = IF e = p /\ pc = "rename" THEN c ELSE e
        BY <3>1
      <4>3. a # b
        BY <2>7, <3>3, <4>1, <4>2
      <4> QED BY <3>2, <4>1, <4>2, <4>3
    <3> QED BY <3>1, <3>3
  <2>13. \A d \in E : \E e \in Live : OnBranch(u[d], tip[e])
    <3>1. \A e \in Live : OnBranch(tip[e], tip[e])
      BY <1>3, OnSelf
    <3> QED BY <2>12, <3>1
  <2>14. Kept'
    <3>1. /\ DOMAIN files \subseteq DOMAIN files' /\ \A q \in DOMAIN files' \ DOMAIN files : Broken(q)'
          /\ \A q \in DOMAIN files \ Own : files'[q] = files[q] \/ files'[q] = <<>>
      BY <1>1
    <3>2. \A d \in E : /\ files'[FileOf(bc[d])] = Seg(bc[d].forkpoint, u[d])
                       /\ OnBranch(bc[d].hash, u[d]) /\ \E e \in Live : OnBranch(u[d], tip[e])
      BY <2>8, <2>13
    <3> QED BY <2>6, <2>7, <2>9, <2>11, <2>12, <3>1, <3>2, Leaves
  <2>15. ~clean'
    BY <1>1, <1>6
  <2>16. Durable'
    BY <2>14, <2>15 DEF Durable
  <2> QED BY <1>1, <2>16, DieBody DEF TypeOK
<1> QED BY <1>5, <1>6

\* One file is cut short; D and t as above
LEMMA CutBody ==
  ASSUME TypeOK, Alive, NEW c \in Live, NEW n \in Nat, NEW swapped \in BOOLEAN, NEW whole \in BOOLEAN,
         ~(swapped /\ whole), Die(CutAt(c, n), swapped, whole), n <= Len(files[FileOf(bc[c])]),
         NEW D \in SUBSET Live, NEW t \in [D -> Header],
         \A d \in D : /\ files'[FileOf(bc[d])] = Seg(bc[d].forkpoint, t[d])
                      /\ OnBranch(bc[d].hash, t[d]) /\ OnBranch(t[d], tip[d]),
         \A q \in DOMAIN files : (\E d \in Live \ D : q = FileOf(bc[d])) => Broken(q)',
         whole => \A d \in D : t[d] = tip[d]
  PROVE  Body'
<1>1. cur \in Chain \cup {NoChain}
  BY DEF Alive
<1>2. \A d \in Live : FileOf(bc[d]) \in DOMAIN files /\ tip[d] \in Header
  BY <1>1, AliveBasics DEF Alive, Contents
<1>3. /\ files' = CutAt(c, n) /\ clean' = (clean /\ swapped /\ whole) /\ intact' = (intact /\ whole)
  BY DEF Die
<1>4. DOMAIN files' = DOMAIN files
  BY <1>3 DEF CutAt
<1>5. \A q \in DOMAIN files : q # FileOf(bc[c]) => files'[q] = files[q]
  BY <1>3 DEF CutAt
<1>6. \A q \in DOMAIN files : files'[q] \in Seq(Header)
  <2>1. files[FileOf(bc[c])] \in Seq(Header) /\ FileOf(bc[c]) \in DOMAIN files
    BY <1>2 DEF TypeOK
  <2>2. files'[FileOf(bc[c])] = SubSeq(files[FileOf(bc[c])], 1, n)
    BY <1>3, <2>1 DEF CutAt
  <2>3. files'[FileOf(bc[c])] \in Seq(Header)
    <3> DEFINE s == files[FileOf(bc[c])]
    <3>1. s \in Seq(Header)
      BY <2>1
    <3> HIDE DEF s
    <3>2. n <= Len(s)
      BY DEF s
    <3> QED BY <2>2, <3>1, <3>2 DEF s
  <2> QED BY <1>5, <2>3 DEF TypeOK
<1>7. \A d, e \in D : d # e => \A x \in Header :
        ~(OnBranch(bc[d].hash, x) /\ OnBranch(x, t[d]) /\ OnBranch(bc[e].hash, x) /\ OnBranch(x, t[e]))
  BY LeavesBelow
<1>8. Kept'
  <2>1. /\ DOMAIN files \subseteq DOMAIN files' /\ \A q \in DOMAIN files' \ DOMAIN files : Broken(q)'
        /\ \A q \in DOMAIN files \ {FileOf(bc[d]) : d \in Live} : files'[q] = files[q] \/ files'[q] = <<>>
    BY <1>4, <1>5
  <2>2. \A d \in D : /\ files'[FileOf(bc[d])] = Seg(bc[d].forkpoint, t[d])
                     /\ OnBranch(bc[d].hash, t[d]) /\ \E e \in Live : OnBranch(t[d], tip[e])
    OBVIOUS
  <2>3. intact' => /\ \A d \in D : \E e \in Live : t[d] = tip[e]
                   /\ \A d, e \in D : d # e => ~OnBranch(t[d], t[e])
    BY <1>3 DEF Alive, Apart
  <2> QED BY <1>4, <1>7, <2>1, <2>2, <2>3, Leaves
<1>9. Durable'
  BY <1>3, <1>8 DEF Durable
<1> QED BY <1>3, <1>4, <1>6, <1>9, DieBody

LEMMA CrashInChildBody ==
  ASSUME TypeOK, Alive, CrashInChild
  PROVE  Body'
<1>1. pc = "swap" /\ ParentWeaker /\ Die(CutAt(cur, 0), FALSE, TRUE)
  BY DEF CrashInChild
<1>2. PICK c \in Live : c = cur /\ bc[c].parent # NoChain
  BY <1>1, SwapBasics DEF P
<1>3. /\ \A d \in Live : /\ Node(d) /\ Filed(d) /\ tip[d] \in Header /\ FileOf(bc[d]) \in DOMAIN files
                         /\ OnBranch(bc[d].hash, tip[d])
  BY <1>1, Quiet DEF Node, Filed
<1>4. PICK D : D = Live \ {c}
  OBVIOUS
<1>5. PICK t : t = [d \in D |-> tip[d]]
  OBVIOUS
<1>6. D \in SUBSET Live /\ t \in [D -> Header] /\ \A d \in D : t[d] = tip[d] /\ d # c
  BY <1>3, <1>4, <1>5
<1>7. files' = [files EXCEPT ![FileOf(bc[c])] = SubSeq(@, 1, 0)]
  BY <1>1, <1>2 DEF Die, CutAt
<1>8. \A d \in D : /\ files'[FileOf(bc[d])] = Seg(bc[d].forkpoint, t[d])
                   /\ OnBranch(bc[d].hash, t[d]) /\ OnBranch(t[d], tip[d])
  <2> SUFFICES ASSUME NEW d \in D
               PROVE  /\ files'[FileOf(bc[d])] = Seg(bc[d].forkpoint, t[d])
                      /\ OnBranch(bc[d].hash, t[d]) /\ OnBranch(t[d], tip[d])
    OBVIOUS
  <2>1. FileOf(bc[d]) # FileOf(bc[c])
    BY <1>3, <1>6, FilesDiffer DEF Alive
  <2> QED BY <1>3, <1>6, <1>7, <2>1, OnSelf DEF Filed
<1>9. \A q \in DOMAIN files : (\E d \in Live \ D : q = FileOf(bc[d])) => Broken(q)'
  <2> SUFFICES ASSUME NEW q \in DOMAIN files, q = FileOf(bc[c]) PROVE Broken(q)'
    BY <1>4
  <2>1. q # MainFile
    BY <1>2, <1>3, NodeFile
  <2>2. files[q] \in Seq(Header)
    BY DEF TypeOK
  <2>3. SubSeq(files[q], 1, 0) = <<>>
    BY <2>2
  <2>4. files'[q] = <<>>
    BY <1>7, <2>3
  <2> QED BY <2>1, <2>4 DEF Broken
<1>10. Die(CutAt(c, 0), FALSE, TRUE) /\ 0 <= Len(files[FileOf(bc[c])])
  <2>1. files[FileOf(bc[c])] \in Seq(Header)
    BY <1>3 DEF TypeOK
  <2>2. 0 <= Len(files[FileOf(bc[c])])
    BY <2>1
  <2>3. Die(CutAt(c, 0), FALSE, TRUE)
    BY <1>1, <1>2
  <2> QED BY <2>2, <2>3
<1> QED BY <1>6, <1>8, <1>9, <1>10, CutBody

LEMMA CrashInParentBody ==
  ASSUME TypeOK, Alive, CrashInParent
  PROVE  Body'
<1>1. pc = "parent" /\ Die(CutAt(P, ForkOffset), FALSE, FALSE)
  BY DEF CrashInParent
<1>2. PICK c \in Live : c = cur
  BY <1>1, MovedIs
<1>3. PICK p \in Live : p = P
  BY <1>1, MovedIs
<1> DEFINE f == bc[c].forkpoint
           g == bc[p].forkpoint
           v == HeaderAt(tip[p], f - 1)
<1>4. /\ p # c /\ f \in Nat /\ g \in Nat /\ g < f /\ f <= Height[tip[p]]
      /\ FileOf(bc[c]) = NameOf(bc[c].hash) /\ bc[c].hash \in Headers
      /\ files[FileOf(bc[c])] = Seg(f, tip[p]) /\ MovedHash = HeaderAt(tip[p], f)
  BY <1>1, <1>2, <1>3, MovedIs DEF Moved
<1>5. /\ \A d \in Live : /\ Node(d) /\ tip[d] \in Header /\ FileOf(bc[d]) \in DOMAIN files
                         /\ OnBranch(bc[d].hash, tip[d]) /\ bc[d].hash \in Header
                         /\ bc[d].forkpoint = Height[bc[d].hash] /\ (d # c => Filed(d))
  <2>1. cur \in Chain
    BY <1>1 DEF Alive
  <2> QED BY <1>1, <1>2, <2>1, AliveBasics DEF Alive, Contents
<1>6. /\ v \in Header /\ OnBranch(v, tip[p]) /\ OnBranch(bc[p].hash, v)
      /\ SubSeq(Seg(g, tip[p]), 1, f - g) = Seg(g, v)
  <2>1. /\ f - 1 \in 0 .. Height[tip[p]] /\ f - g \in 1 .. Height[tip[p]] - g + 1
        /\ g <= Height[tip[p]] /\ g + (f - g) - 1 = f - 1 /\ Height[tip[p]] \in Nat
    BY <1>4, <1>5, HeaderTypes
  <2>2. v \in Header /\ OnBranch(v, tip[p]) /\ Height[v] = f - 1
    BY <1>5, <2>1, AtType, OnAt
  <2>3. Height[bc[p].hash] <= Height[v]
    BY <1>4, <1>5, <2>2
  <2>4. OnBranch(bc[p].hash, v)
    BY <1>5, <2>2, <2>3, OnCompare
  <2>5. SubSeq(Seg(g, tip[p]), 1, f - g) = Seg(g, HeaderAt(tip[p], g + (f - g) - 1))
    <3> HIDE DEF f, g
    <3> QED BY <1>4, <1>5, <2>1, SegCut
  <2> QED BY <2>1, <2>2, <2>4, <2>5
<1>7. PICK D : D = Live \ {c}
  OBVIOUS
<1>8. PICK w \in Header : w = v
  BY <1>6
<1>9. PICK t : t = [d \in D |-> IF d = p THEN w ELSE tip[d]]
  OBVIOUS
<1>10. /\ D \in SUBSET Live /\ t \in [D -> Header]
       /\ \A d \in D : d # c /\ t[d] = IF d = p THEN w ELSE tip[d]
  BY <1>5, <1>7, <1>9
<1>11. files' = [files EXCEPT ![FileOf(bc[p])] = SubSeq(@, 1, f - g)]
  BY <1>1, <1>2, <1>3 DEF Die, CutAt, ForkOffset
<1>12. \A d \in D : /\ files'[FileOf(bc[d])] = Seg(bc[d].forkpoint, t[d])
                    /\ OnBranch(bc[d].hash, t[d]) /\ OnBranch(t[d], tip[d])
  <2> SUFFICES ASSUME NEW d \in D
               PROVE  /\ files'[FileOf(bc[d])] = Seg(bc[d].forkpoint, t[d])
                      /\ OnBranch(bc[d].hash, t[d]) /\ OnBranch(t[d], tip[d])
    OBVIOUS
  <2>1. CASE d = p
    <3>1. files[FileOf(bc[p])] = Seg(g, tip[p])
      BY <1>4, <1>5 DEF Filed
    <3> QED BY <1>5, <1>6, <1>8, <1>10, <1>11, <2>1, <3>1
  <2>2. CASE d # p
    <3>1. FileOf(bc[d]) # FileOf(bc[p])
      BY <1>5, <1>10, <2>2, FilesDiffer DEF Alive
    <3> QED BY <1>5, <1>10, <1>11, <2>2, <3>1, OnSelf DEF Filed
  <2> QED BY <2>1, <2>2
<1>13. \A q \in DOMAIN files : (\E d \in Live \ D : q = FileOf(bc[d])) => Broken(q)'
  <2> SUFFICES ASSUME NEW q \in DOMAIN files, q = FileOf(bc[c]) PROVE Broken(q)'
    BY <1>7
  <2>1. q # MainFile /\ q[3] = bc[c].hash
    BY <1>4, NameDiffer DEF NameOf
  <2>2. Seg(f, tip[p])[1] = MovedHash
    BY <1>4, <1>5, SegEnds
  <2>3. q # FileOf(bc[p])
    BY <1>4, <1>5, FilesDiffer DEF Alive
  <2>4. files'[q][1] = MovedHash
    <3> HIDE DEF Seg
    <3> QED BY <1>4, <1>11, <2>2, <2>3
  <2>5. MovedHash # bc[c].hash
    BY <1>1, NewName
  <2> QED BY <2>1, <2>4, <2>5 DEF Broken
<1>14. PICK n \in Nat : n = f - g
  BY <1>4
<1>15. Die(CutAt(p, n), FALSE, FALSE) /\ n <= Len(files[FileOf(bc[p])])
  <2>1. Len(files[FileOf(bc[p])]) = bc[p].size /\ bc[p].size = Height[tip[p]] - g + 1
    BY <1>4, <1>5, Sizes DEF Filed
  <2>2. Height[tip[p]] \in Nat
    BY <1>5, HeaderTypes
  <2>3. f - g <= Height[tip[p]] - g + 1
    BY <1>4, <2>2
  <2>4. n <= Len(files[FileOf(bc[p])])
    BY <1>14, <2>1, <2>3
  <2>5. ForkOffset = n
    BY <1>2, <1>3, <1>14 DEF ForkOffset
  <2>6. Die(CutAt(p, n), FALSE, FALSE)
    BY <1>1, <1>3, <2>5
  <2> QED BY <2>4, <2>6
<1> QED BY <1>10, <1>12, <1>13, <1>15, CutBody

LEMMA CrashInChunkBody ==
  ASSUME TypeOK, Alive, NEW h \in Headers, NEW c \in Chain, CrashInChunk(c, h)
  PROVE  Body'
<1> DEFINE f == bc[c].forkpoint
           g == ChunkStart(c, h)
           v == HeaderAt(tip[c], g - 1)
           q == FileOf(bc[c])
<1>1. /\ pc = "idle" /\ Continues(c, h) /\ c \in Loaded /\ Die(CutAt(c, g - f), TRUE, FALSE)
  BY DEF CrashInChunk, Continues
<1>2. /\ g \in Nat /\ g >= 1 /\ f <= g /\ g <= Height[tip[c]] + 1
  BY <1>1, ChunkFits
<1>3. /\ c \in Live
      /\ \A d \in Live : /\ Node(d) /\ Filed(d) /\ tip[d] \in Header /\ FileOf(bc[d]) \in DOMAIN files
                         /\ OnBranch(bc[d].hash, tip[d]) /\ bc[d].hash \in Header
                         /\ bc[d].forkpoint = Height[bc[d].hash]
  BY <1>1, Quiet DEF Node, Filed
<1>4. /\ f \in Nat /\ f <= Height[tip[c]] /\ Height[tip[c]] \in Nat /\ files[q] = Seg(f, tip[c])
      /\ Len(files[q]) = Height[tip[c]] - f + 1
  BY <1>3, Sizes DEF Filed
<1>5. PICK n \in Nat : n = g - f
  BY <1>2, <1>4
<1>6. Die(CutAt(c, n), TRUE, FALSE) /\ n <= Len(files[q])
  <2>1. Die(CutAt(c, n), TRUE, FALSE)
    BY <1>1, <1>5
  <2> HIDE DEF f, g, q
  <2>2. n <= Height[tip[c]] - f + 1
    BY <1>2, <1>4, <1>5
  <2> QED BY <1>4, <2>1, <2>2
<1>7. files' = [files EXCEPT ![q] = SubSeq(@, 1, n)]
  BY <1>6 DEF Die, CutAt
<1>8. \A d \in Live : d # c => FileOf(bc[d]) # q
  BY <1>3, FilesDiffer DEF Alive
<1>9. CASE n = 0
  <2>1. PICK D : D = Live \ {c}
    OBVIOUS
  <2>2. PICK t : t = [d \in D |-> tip[d]]
    OBVIOUS
  <2>3. D \in SUBSET Live /\ t \in [D -> Header] /\ \A d \in D : t[d] = tip[d] /\ d # c
    BY <1>3, <2>1, <2>2
  <2>4. \A d \in D : /\ files'[FileOf(bc[d])] = Seg(bc[d].forkpoint, t[d])
                     /\ OnBranch(bc[d].hash, t[d]) /\ OnBranch(t[d], tip[d])
    BY <1>3, <1>7, <1>8, <2>3, OnSelf DEF Filed
  <2>5. \A s \in DOMAIN files : (\E d \in Live \ D : s = FileOf(bc[d])) => Broken(s)'
    <3> SUFFICES ASSUME NEW s \in DOMAIN files, s = q PROVE Broken(s)'
      BY <2>1
    <3>1. s # MainFile
      <4>1. bc[c].parent # NoChain
        BY <1>2, <1>3, <1>4, <1>5, <1>9, HeaderTypes DEF Node
      <4> QED BY <1>3, <4>1, NodeFile
    <3>2. files[s] \in Seq(Header)
      BY DEF TypeOK
    <3>3. SubSeq(files[s], 1, 0) = <<>>
      BY <3>2
    <3>4. files'[s] = <<>>
      BY <1>7, <1>9, <3>3
    <3> QED BY <3>1, <3>4 DEF Broken
  <2> QED BY <1>3, <1>6, <2>3, <2>4, <2>5, CutBody
<1>10. CASE n # 0
  <2>1. n \in 1 .. Height[tip[c]] - f + 1 /\ f + n - 1 = g - 1
    <3> HIDE DEF f, g
    <3> QED BY <1>2, <1>4, <1>5, <1>10
  <2>2. /\ v \in Header /\ SubSeq(Seg(f, tip[c]), 1, n) = Seg(f, v)
        /\ g - 1 \in 0 .. Height[tip[c]]
    <3> HIDE DEF f
    <3>1. /\ f + n - 1 \in 0 .. Height[tip[c]] /\ HeaderAt(tip[c], f + n - 1) \in Header
          /\ SubSeq(Seg(f, tip[c]), 1, n) = Seg(f, HeaderAt(tip[c], f + n - 1))
      BY <1>3, <1>4, <2>1, SegCut
    <3> QED BY <2>1, <3>1
  <2>3. Height[v] = g - 1 /\ OnBranch(v, tip[c])
    BY <1>3, <2>2, AtType, OnAt
  <2>4. OnBranch(bc[c].hash, v)
    <3>1. Height[bc[c].hash] <= Height[v]
      BY <1>2, <1>3, <1>4, <1>5, <1>10, <2>3
    <3> QED BY <1>3, <2>2, <2>3, <3>1, OnCompare
  <2>5. PICK w \in Header : w = v
    BY <2>2
  <2>6. PICK D : D = Live
    OBVIOUS
  <2>7. PICK t : t = [d \in D |-> IF d = c THEN w ELSE tip[d]]
    OBVIOUS
  <2>8. D \in SUBSET Live /\ t \in [D -> Header] /\ \A d \in D : t[d] = IF d = c THEN w ELSE tip[d]
    BY <1>3, <2>6, <2>7
  <2>9. \A d \in D : /\ files'[FileOf(bc[d])] = Seg(bc[d].forkpoint, t[d])
                     /\ OnBranch(bc[d].hash, t[d]) /\ OnBranch(t[d], tip[d])
    <3> SUFFICES ASSUME NEW d \in D
                 PROVE  /\ files'[FileOf(bc[d])] = Seg(bc[d].forkpoint, t[d])
                        /\ OnBranch(bc[d].hash, t[d]) /\ OnBranch(t[d], tip[d])
      OBVIOUS
    <3>1. CASE d = c
      BY <1>3, <1>4, <1>7, <2>2, <2>3, <2>4, <2>5, <2>8, <3>1
    <3>2. CASE d # c
      BY <1>3, <1>7, <1>8, <2>8, <3>2, OnSelf DEF Filed
    <3> QED BY <3>1, <3>2
  <2>10. \A s \in DOMAIN files : (\E d \in Live \ D : s = FileOf(bc[d])) => Broken(s)'
    BY <2>6
  <2> QED BY <1>3, <1>6, <2>8, <2>9, <2>10, CutBody
<1> QED BY <1>9, <1>10

\* The file of a fork is made, or emptied, and not written.
LEMMA CrashInForkBody ==
  ASSUME TypeOK, Alive, NEW h \in Headers, CrashInFork(h)
  PROVE  Body'
<1> DEFINE name == NameOf(h)
           Own == {FileOf(bc[c]) : c \in Live}
<1>1. BeginsFork(h) /\ Die(Opened(h, <<>>), FALSE, TRUE)
  BY DEF CrashInFork
<1>2. /\ pc = "idle" /\ name # MainFile /\ name \in (Nat \ {0}) \X Header \X Hash
      /\ \A d \in Live : FileOf(bc[d]) # name
  BY <1>1, ForkName
<1>3. files' = Opened(h, <<>>) /\ ~clean' /\ intact' = intact
  BY <1>1 DEF Die, TypeOK
<1>4. /\ DOMAIN files' = DOMAIN files \cup {name} /\ files'[name] = <<>>
      /\ \A q \in DOMAIN files : q # name => files'[q] = files[q]
  BY <1>3 DEF Opened
<1>5. \A c \in Live : /\ Filed(c) /\ tip[c] \in Header /\ OnBranch(bc[c].hash, tip[c])
                      /\ FileOf(bc[c]) \in DOMAIN files
  BY <1>2, Quiet DEF Node, Filed
<1>6. PICK t : t = [c \in Live |-> tip[c]]
  OBVIOUS
<1>7. t \in [Live -> Header] /\ \A c \in Live : t[c] = tip[c]
  BY <1>5, <1>6
<1>8. \A c \in Live : /\ files'[FileOf(bc[c])] = Seg(bc[c].forkpoint, t[c])
                      /\ OnBranch(bc[c].hash, t[c]) /\ OnBranch(t[c], tip[c])
  BY <1>2, <1>4, <1>5, <1>7, OnSelf DEF Filed
<1>9. \A c, d \in Live : c # d => \A x \in Header :
        ~(OnBranch(bc[c].hash, x) /\ OnBranch(x, t[c]) /\ OnBranch(bc[d].hash, x) /\ OnBranch(x, t[d]))
  BY <1>7, <1>8, LeavesBelow
<1>10. Kept'
  <2>1. Live \in SUBSET Live /\ DOMAIN files \subseteq DOMAIN files'
    BY <1>4
  <2>2. \A q \in DOMAIN files' \ DOMAIN files : Broken(q)'
    BY <1>2, <1>4 DEF Broken
  <2>3. \A q \in DOMAIN files \ Own : files'[q] = files[q] \/ files'[q] = <<>>
    BY <1>4
  <2>4. \A q \in DOMAIN files : (\E c \in Live \ Live : q = FileOf(bc[c])) => Broken(q)'
    OBVIOUS
  <2>5. intact' => /\ \A c \in Live : \E d \in Live : t[c] = tip[d]
                   /\ \A c, d \in Live : c # d => ~OnBranch(t[c], t[d])
    BY <1>3, <1>7 DEF Alive, Apart
  <2>6. \A c \in Live : /\ files'[FileOf(bc[c])] = Seg(bc[c].forkpoint, t[c])
                        /\ OnBranch(bc[c].hash, t[c]) /\ \E d \in Live : OnBranch(t[c], tip[d])
    BY <1>8
  <2> QED BY <1>7, <1>9, <2>1, <2>2, <2>3, <2>4, <2>5, <2>6, Leaves
<1>11. Durable'
  BY <1>3, <1>10 DEF Durable
<1>12. /\ DOMAIN files \subseteq DOMAIN Opened(h, <<>>)
       /\ DOMAIN Opened(h, <<>>) \ DOMAIN files \subseteq (Nat \ {0}) \X Header \X Hash
       /\ \A q \in DOMAIN Opened(h, <<>>) : Opened(h, <<>>)[q] \in Seq(Header)
  <2>1. ASSUME NEW q \in DOMAIN files' PROVE files'[q] \in Seq(Header)
    <3>1. q = name \/ files[q] \in Seq(Header)
      BY <1>4 DEF TypeOK
    <3>2. <<>> \in Seq(Header)
      OBVIOUS
    <3> QED BY <1>4, <3>1, <3>2
  <2>2. DOMAIN files' \ DOMAIN files \subseteq (Nat \ {0}) \X Header \X Hash
    <3> HIDE DEF name
    <3> QED BY <1>2, <1>4
  <2>3. DOMAIN files \subseteq DOMAIN files'
    BY <1>4
  <2> QED BY <1>3, <2>1, <2>2, <2>3
<1> QED BY <1>1, <1>11, <1>12, DieBody

-----------------------------------------------------------------------------
(* The next start *)

LEMMA SameFiles ==
  ASSUME Durable, MainFile \in DOMAIN files,
         DOMAIN files' = DOMAIN files, \A q \in DOMAIN files : files'[q] = files[q],
         intact' = intact, clean' = clean
  PROVE  Durable'
<1>1. \A q \in DOMAIN files : /\ Top(q)' = Top(q) /\ Whole(q)' = Whole(q) /\ Broken(q)' = Broken(q)
                              /\ \A x : Keeps(q, x)' = Keeps(q, x)
  BY DEF Whole, Broken, Keeps, Top
<1>2. Wholes' = Wholes
  BY <1>1 DEF Wholes
<1>3. \A q \in Wholes : q \in DOMAIN files
  BY DEF Wholes
<1>4. Kept'
  BY <1>1, <1>2, <1>3 DEF Durable, Kept
<1>5. clean => AllKept'
  BY <1>1, <1>2, <1>3 DEF Durable, AllKept
<1> QED BY <1>4, <1>5 DEF Durable

LEMMA LoadingBasics ==
  ASSUME TypeOK, Loading
  PROVE  /\ Live = Loaded /\ Loaded \subseteq Chain /\ Reading /\ NoChain \notin Loaded
         /\ chains \in Seq(Entry) /\ Distinct(chains) /\ MainFile \notin Unread
         /\ \A c \in Loaded :
              /\ Node(c) /\ Filed(c) /\ tip[c] \in Header /\ bc[c].hash \in Header
              /\ bc[c].forkpoint = Height[bc[c].hash] /\ OnBranch(bc[c].hash, tip[c])
              /\ \A k \in Nat : HashAt(c, k) = At(c, k)
              /\ FileOf(bc[c]) \in DOMAIN files /\ Whole(FileOf(bc[c])) /\ Top(FileOf(bc[c])) = tip[c]
              /\ FileOf(bc[c])[3] = bc[c].hash /\ FileOf(bc[c])[1] = bc[c].forkpoint
         /\ \A c, d \in Loaded : c # d => FileOf(bc[c]) # FileOf(bc[d]) /\ bc[c].hash # bc[d].hash
<1>1. Loaded \subseteq Chain /\ chains \in Seq(Entry)
  BY EntryTypes DEF TypeOK, Loaded, Entry
<1>2. Live = Loaded /\ NoChain \notin Loaded
  BY <1>1, ChainAssumption DEF Live, Loading
<1>3. \A c \in Loaded : Node(c) /\ Filed(c)
  BY <1>2 DEF Loading, Forest
<1>4. Idle
  BY <1>2 DEF Idle, Loading, Blank
<1>5. Reading
  BY <1>2, <1>3, <1>4 DEF Reading, Loading
<1>6. \A c \in Loaded, k \in Nat : HashAt(c, k) = At(c, k)
  BY <1>1, <1>2, <1>5, ReadAt
<1>7. ASSUME NEW c \in Loaded
      PROVE  /\ tip[c] \in Header /\ bc[c].hash \in Header
             /\ bc[c].forkpoint = Height[bc[c].hash] /\ OnBranch(bc[c].hash, tip[c])
             /\ FileOf(bc[c]) \in DOMAIN files /\ Whole(FileOf(bc[c])) /\ Top(FileOf(bc[c])) = tip[c]
             /\ FileOf(bc[c])[3] = bc[c].hash /\ FileOf(bc[c])[1] = bc[c].forkpoint
  <2> DEFINE f == bc[c].forkpoint
             q == FileOf(bc[c])
  <2>1. tip[c] \in Header /\ bc[c].hash \in Header /\ f = Height[bc[c].hash] /\ OnBranch(bc[c].hash, tip[c])
    BY <1>3 DEF Node
  <2>2. /\ q[3] = bc[c].hash /\ q[1] = f
        /\ q = MainFile \/ (q = NameOf(bc[c].hash) /\ bc[c].hash # Genesis)
    BY <1>3, NodeFile
  <2>3. q \in DOMAIN files /\ files[q] = Seg(f, tip[c])
    BY <1>3 DEF Filed
  <2>4. f \in Nat /\ f <= Height[tip[c]]
    BY <2>1, HeaderTypes DEF OnBranch
  <2>5. Seg(f, tip[c]) # <<>> /\ Seg(f, tip[c])[Len(Seg(f, tip[c]))] = tip[c]
    BY <2>1, <2>4, SegEnds
  <2>6. Top(q) = tip[c]
    <3> HIDE DEF f, q, Seg
    <3> QED BY <2>3, <2>5 DEF Top
  <2> QED BY <2>1, <2>2, <2>3, <2>5, <2>6 DEF Whole
<1>8. ASSUME NEW c \in Loaded, NEW d \in Loaded, c # d
      PROVE  FileOf(bc[c]) # FileOf(bc[d]) /\ bc[c].hash # bc[d].hash
  <2>1. PICK i \in 1 .. Len(chains) : chains[i].chain = c
    BY DEF Loaded
  <2>2. PICK j \in 1 .. Len(chains) : chains[j].chain = d
    BY DEF Loaded
  <2>3. bc[c].hash # bc[d].hash
    BY <1>8, <2>1, <2>2 DEF Loading, Dict
  <2> QED BY <1>7, <2>3
<1>9. MainFile \notin Unread
  <2>1. PICK c \in Loaded : bc[c].parent = NoChain
    BY DEF Loading, Forest
  <2> QED BY <2>1 DEF Unread, FileOf
<1> QED BY <1>1, <1>2, <1>3, <1>5, <1>6, <1>7, <1>8, <1>9 DEF Loading, Dict, Distinct

LEMMA LoadMainBody ==
  ASSUME TypeOK, Durable, Down, LoadMain
  PROVE  Body'
<1> DEFINE file == files[MainFile]
           t == Top(MainFile)
<1>1. /\ t \in Header /\ file = Seg(0, t) /\ file # <<>> /\ MainFile \in DOMAIN files /\ file \in Seq(Header)
  <2>1. Whole(MainFile) /\ MainFile[3] = Genesis
    BY DEF Durable, Kept, MainFile
  <2> QED BY <2>1, HeaderTypes DEF Whole, TypeOK
<1>2. Len(file) = 1 \/ Prev[file[2]] = Genesis
  <2> SUFFICES ASSUME Len(file) # 1 PROVE Prev[file[2]] = Genesis
    OBVIOUS
  <2>1. Height[t] \in Nat /\ 0 <= Height[t] + 1
    BY <1>1, HeaderTypes
  <2>2. Len(Seg(0, t)) = Height[t] - 0 + 1 /\ \A i \in 1 .. Height[t] - 0 + 1 : Seg(0, t)[i] = HeaderAt(t, 0 + i - 1)
    BY <1>1, <2>1, SegType
  <2>3. Height[t] >= 1
    <3>1. Len(file) = Height[t] - 0 + 1
      BY <1>1, <2>2
    <3> HIDE DEF file, t
    <3> QED BY <2>1, <3>1
  <2>4. file[2] = HeaderAt(t, 1)
    <3>1. 2 \in 1 .. Height[t] - 0 + 1 /\ 0 + 2 - 1 = 1
      BY <2>1, <2>3
    <3> HIDE DEF file, t, Seg
    <3> QED BY <1>1, <2>2, <3>1
  <2>5. HeaderAt(t, 1) \in Header /\ Height[HeaderAt(t, 1)] = 1
    BY <1>1, <2>1, <2>3, AtType
  <2>6. HeaderAt(t, 1) # Genesis
    BY <2>5, HeaderTypes
  <2>7. Prev[HeaderAt(t, 1)] \in Header /\ Height[Prev[HeaderAt(t, 1)]] = 0
    BY <2>5, <2>6, PrevBelow
  <2> QED BY <2>4, <2>7, GenesisLow
<1>3. PICK c \in Chain : c = CHOOSE d \in Chain : TRUE
  BY ChainAssumption
<1>4. /\ DOMAIN files' = DOMAIN files /\ \A q \in DOMAIN files : files'[q] = files[q]
      /\ bc' = [bc EXCEPT ![c].size = Len(file)]
      /\ chains' = <<[id |-> Genesis, chain |-> c]>> /\ tip' = [tip EXCEPT ![c] = t]
      /\ pc' = "load" /\ cur' = cur /\ forking' = forking /\ swaps' = swaps /\ mine' = mine /\ old' = old
      /\ crashes' = crashes /\ clean' = clean /\ intact' = intact
  <2>1. files' = [files EXCEPT ![MainFile] = file]
    BY <1>2 DEF LoadMain
  <2>2. /\ DOMAIN files' = DOMAIN files /\ \A q \in DOMAIN files : files'[q] = files[q]
    BY <2>1
  <2>3. files'[MainFile] = file
    BY <1>1, <2>2
  <2>4. bc' = [bc EXCEPT ![c].size = Len(file)] /\ tip' = [tip EXCEPT ![c] = file[Len(file)]]
    BY <1>3, <2>3 DEF LoadMain
  <2>5. file[Len(file)] = t
    BY DEF Top
  <2> QED BY <1>3, <2>2, <2>4, <2>5 DEF LoadMain, op, exchange
<1>5. /\ chains = <<>> /\ cur = NoChain /\ ~forking
      /\ \A d \in Chain : bc[d] = Blank /\ tip[d] = Genesis
  BY DEF Down
<1>6. /\ bc'[c] = [Blank EXCEPT !.size = Len(file)] /\ tip'[c] = t
      /\ \A d \in Chain : d # c => bc'[d] = Blank
      /\ tip' \in [Chain -> Header]
  BY <1>1, <1>4, <1>5 DEF TypeOK
<1>7. /\ bc'[c].forkpoint = 0 /\ bc'[c].hash = Genesis /\ bc'[c].parent = NoChain
      /\ bc'[c].size = Len(file)
  BY <1>6 DEF Blank
<1>8. /\ Loaded' = {c} /\ Live' = {c} /\ Len(chains') = 1
      /\ \A i \in 1 .. Len(chains') : i = 1 /\ chains'[i].id = Genesis /\ chains'[i].chain = c
      /\ chains' \in Seq(Entry)
  <2>1. [id |-> Genesis, chain |-> c] \in Entry
    BY HeaderTypes DEF Entry, Hash
  <2>2. /\ Len(chains') = 1 /\ chains'[1].id = Genesis /\ chains'[1].chain = c /\ chains' \in Seq(Entry)
    BY <1>4, <2>1
  <2>3. \A i \in 1 .. Len(chains') : i = 1
    BY <2>2
  <2>4. 1 \in 1 .. Len(chains')
    BY <2>2
  <2>5. Loaded' = {c}
    BY <2>2, <2>3, <2>4 DEF Loaded
  <2>6. Live' = {c}
    BY <1>4, <1>5, <2>5 DEF Live
  <2> QED BY <2>2, <2>3, <2>5, <2>6
<1>9. Len(file) \in Nat /\ Len(file) = Height[t] - 0 + 1 /\ Height[t] \in Nat
  <2>1. Height[t] \in Nat /\ 0 <= Height[t] + 1
    BY <1>1, HeaderTypes
  <2>2. Len(Seg(0, t)) = Height[t] - 0 + 1
    BY <1>1, <2>1, SegType
  <2> HIDE DEF file, t, Seg
  <2> QED BY <1>1, <2>1, <2>2
<1> HIDE DEF file
<1>10. TypeOK'
  <2>1. [Blank EXCEPT !.size = Len(file)] \in [forkpoint : Nat, hash : Hash, prev : Hash,
                                               parent : Chain \cup {NoChain}, size : Nat]
    BY <1>9, HeaderTypes DEF Blank, Hash
  <2>2. bc' \in [Chain -> [forkpoint : Nat, hash : Hash, prev : Hash, parent : Chain \cup {NoChain}, size : Nat]]
    BY <1>4, <1>9 DEF TypeOK
  <2>3. /\ MainFile \in DOMAIN files' /\ DOMAIN files' \ {MainFile} \subseteq (Nat \ {0}) \X Header \X Hash
        /\ \A p \in DOMAIN files' : files'[p] \in Seq(Header)
    BY <1>4 DEF TypeOK
  <2>4. chains' \in Seq([id : Hash, chain : Chain])
    BY <1>8 DEF Entry
  <2> QED BY <1>4, <1>5, <1>6, <2>2, <2>3, <2>4 DEF TypeOK
<1>11. Durable'
  BY <1>1, <1>4, SameFiles
<1>12. FileOf(bc'[c]) = MainFile
  BY <1>7 DEF FileOf
<1>13. Forest'
  <2>1. Node(c)'
    BY <1>1, <1>6, <1>7, HeaderTypes, OnGenesis DEF Node
  <2>2. [d \in Chain |-> 0] \in [Chain -> Nat]
    OBVIOUS
  <2>3. Ranked([d \in Chain |-> 0])'
    BY <1>7, <1>8 DEF Ranked
  <2>4. \E r \in [Chain -> Nat] : Ranked(r)'
    BY <2>2, <2>3
  <2> QED BY <1>7, <1>8, <2>1, <2>4 DEF Forest
<1>14. Filed(c)'
  BY <1>1, <1>4, <1>6, <1>7, <1>9, <1>12 DEF Filed, file
<1>15. Loading'
  <2>1. cur' = NoChain /\ ~forking'
    BY <1>4, <1>5
  <2>2. \A d \in Chain \ Loaded' : bc'[d] = Blank
    BY <1>6, <1>8
  <2>3. Dict'
    BY <1>7, <1>8 DEF Dict
  <2>4. \A d \in Loaded', q \in Unread' : bc'[d].forkpoint <= q[1]
    <3>1. \A q \in Unread' : q \in DOMAIN files /\ q # MainFile
      BY <1>4, <1>8, <1>12 DEF Unread
    <3>2. \A q \in Unread' : 0 <= q[1]
      BY <3>1 DEF TypeOK
    <3> QED BY <1>7, <1>8, <3>2
  <2>5. ParentsBest'
    BY <1>7, <1>8 DEF ParentsBest
  <2>6. \A j \in 1 .. Len(chains') : bc'[chains'[j].chain].parent = NoChain
    BY <1>7, <1>8
  <2> QED BY <1>8, <1>13, <1>14, <2>1, <2>2, <2>3, <2>4, <2>5, <2>6 DEF Loading
<1> QED BY <1>4, <1>10, <1>11, <1>15 DEF Body

\* A fork's file that is not read yet
LEMMA UnreadFile ==
  ASSUME TypeOK, Durable, Loading, NEW p \in Unread
  PROVE  /\ p \in DOMAIN files /\ p # MainFile
         /\ Readable(p) => Whole(p)
         /\ Whole(p) =>
              /\ p[3] \in Headers /\ p = NameOf(p[3]) /\ p[1] = Height[p[3]] /\ p[2] = Prev[p[3]]
              /\ p[1] \in Nat \ {0} /\ p[2] \in Header /\ Height[p[2]] \in Nat /\ p[1] = Height[p[2]] + 1
              /\ Top(p) \in Header /\ OnBranch(p[3], Top(p)) /\ files[p] = Seg(p[1], Top(p))
              /\ files[p] # <<>> /\ files[p][1] = p[3]
              /\ Len(files[p]) = Height[Top(p)] - p[1] + 1
              /\ \A d \in Loaded : HashAt(d, p[1] - 1) = p[2] <=> OnBranch(p[2], tip[d])
<1>1. p \in DOMAIN files /\ p # MainFile
  BY LoadingBasics DEF Unread
<1>2. Readable(p) => Whole(p)
  BY <1>1 DEF Readable, Durable, Kept, Broken
<1>3. ASSUME Whole(p)
      PROVE  /\ p[3] \in Headers /\ p = NameOf(p[3]) /\ p[1] = Height[p[3]] /\ p[2] = Prev[p[3]]
             /\ p[1] \in Nat \ {0} /\ p[2] \in Header /\ Height[p[2]] \in Nat /\ p[1] = Height[p[2]] + 1
             /\ Top(p) \in Header /\ OnBranch(p[3], Top(p)) /\ files[p] = Seg(p[1], Top(p))
             /\ files[p] # <<>> /\ files[p][1] = p[3]
             /\ Len(files[p]) = Height[Top(p)] - p[1] + 1
             /\ \A d \in Loaded : HashAt(d, p[1] - 1) = p[2] <=> OnBranch(p[2], tip[d])
  <2>1. /\ p[3] \in Headers /\ p[3] \in Header /\ p[3] # Genesis /\ p = NameOf(p[3])
        /\ Top(p) \in Header /\ OnBranch(p[3], Top(p)) /\ files[p] # <<>>
        /\ files[p] = Seg(Height[p[3]], Top(p))
    BY <1>1, <1>3 DEF Whole, Headers
  <2>2. p[1] = Height[p[3]] /\ p[2] = Prev[p[3]]
    BY <2>1 DEF NameOf
  <2>3. /\ p[1] \in Nat \ {0} /\ p[2] \in Header /\ Height[p[2]] \in Nat /\ p[1] = Height[p[2]] + 1
    BY <2>1, <2>2, PrevBelow
  <2>4. p[1] <= Height[Top(p)] /\ p[1] <= Height[Top(p)] + 1 /\ HeaderAt(Top(p), p[1]) = p[3]
    BY <2>1, <2>2, <2>3, HeaderTypes DEF OnBranch
  <2>5. Seg(p[1], Top(p))[1] = p[3]
    BY <2>1, <2>3, <2>4, SegEnds
  <2>6. Len(Seg(p[1], Top(p))) = Height[Top(p)] - p[1] + 1
    BY <2>1, <2>3, <2>4, SegType
  <2>7. ASSUME NEW d \in Loaded PROVE HashAt(d, p[1] - 1) = p[2] <=> OnBranch(p[2], tip[d])
    <3>1. p[1] - 1 = Height[p[2]]
      BY <2>3
    <3>2. HashAt(d, Height[p[2]]) = At(d, Height[p[2]])
      BY <2>3, LoadingBasics
    <3> QED BY <2>3, <3>1, <3>2, HeaderAssumption DEF At, OnBranch
  <2> QED BY <2>1, <2>2, <2>3, <2>5, <2>6, <2>7
<1> QED BY <1>1, <1>2, <1>3

LEMMA LoadForkBody ==
  ASSUME TypeOK, Durable, Loading, pc = "load", NEW p \in DOMAIN files, LoadFork(p)
  PROVE  Body'
<1> DEFINE S == {d \in Loaded : HashAt(d, p[1] - 1) = p[2]}
           x == p[3]
<1>1. p \in Unread /\ Readable(p) /\ \A q \in Unread : p[1] <= q[1]
  BY DEF LoadFork, Lowest
<1>2. /\ p # MainFile /\ Whole(p) /\ x \in Headers /\ p = NameOf(x) /\ p[1] = Height[x] /\ p[2] = Prev[x]
      /\ p[1] \in Nat \ {0} /\ p[2] \in Header /\ Height[p[2]] \in Nat /\ p[1] = Height[p[2]] + 1
      /\ files[p] # <<>>
      /\ Len(files[p]) = Height[Top(p)] - p[1] + 1
      /\ \A d \in Loaded : HashAt(d, p[1] - 1) = p[2] <=> OnBranch(p[2], tip[d])
  BY <1>1, UnreadFile
<1>3. PICK t \in Header : /\ t = Top(p) /\ OnBranch(x, t) /\ files[p] = Seg(p[1], t)
                          /\ Len(files[p]) = Height[t] - p[1] + 1
  BY <1>1, <1>2, UnreadFile
<1>4. PICK n : n = Len(files[p])
  OBVIOUS
<1>5. x \in Header /\ x # Genesis
  BY <1>2 DEF Headers
<1>6. /\ Live = Loaded /\ Loaded \subseteq Chain /\ NoChain \notin Loaded
      /\ chains \in Seq(Entry) /\ Distinct(chains)
      /\ \A c \in Loaded :
           /\ Node(c) /\ Filed(c) /\ tip[c] \in Header /\ bc[c].hash \in Header
           /\ bc[c].forkpoint = Height[bc[c].hash] /\ OnBranch(bc[c].hash, tip[c])
           /\ FileOf(bc[c]) \in DOMAIN files /\ Whole(FileOf(bc[c])) /\ Top(FileOf(bc[c])) = tip[c]
           /\ FileOf(bc[c])[3] = bc[c].hash /\ FileOf(bc[c])[1] = bc[c].forkpoint
  BY LoadingBasics
<1>7. PICK i \in 1 .. Len(chains) : /\ chains[i].chain = First(S) /\ First(S) \in S
                                    /\ \A j \in 1 .. i - 1 : chains[j].chain \notin S
  <2>1. PICK e \in Loaded : e \in S
    BY <1>1 DEF Readable
  <2> HIDE DEF S
  <2> QED BY <1>6, <2>1, FirstOf
<1>8. PICK d0 \in Loaded : d0 = First(S) /\ OnBranch(Prev[x], tip[d0])
  BY <1>2, <1>7
<1>9. PICK c \in Chain : c \notin Loaded /\ c = CHOOSE d \in Chain : d \notin Loaded
  <2>1. \E d \in Chain : d \notin Loaded
    BY <1>6 DEF LoadFork
  <2> QED BY <2>1
<1> DEFINE b == [forkpoint |-> p[1], hash |-> x, prev |-> p[2], parent |-> d0, size |-> n]
           e == [id |-> x, chain |-> c]
<1>10. \A j \in 1 .. Len(chains) : chains[j].id # x
  <2> SUFFICES ASSUME NEW j \in 1 .. Len(chains), chains[j].id = x PROVE FALSE
    OBVIOUS
  <2>1. PICK d \in Loaded : d = chains[j].chain /\ bc[d].hash = x
    BY DEF Loading, Dict, Loaded
  <2>2. FileOf(bc[d]) = p
    BY <1>2, <1>5, <1>6, <2>1, NodeFile DEF MainFile
  <2> QED BY <1>1, <2>1, <2>2 DEF Unread
<1>11. /\ bc' = [bc EXCEPT ![c] = b] /\ chains' = Append(chains, e) /\ tip' = [tip EXCEPT ![c] = t]
       /\ files' = files /\ pc' = pc /\ cur' = cur /\ forking' = forking /\ swaps' = swaps
       /\ mine' = mine /\ old' = old /\ crashes' = crashes /\ clean' = clean /\ intact' = intact
  <2>1. Put(chains, x, c) = Append(chains, e)
    BY <1>10 DEF Put
  <2> QED BY <1>3, <1>4, <1>8, <1>9, <2>1 DEF LoadFork, op, exchange, Top
<1>12. e \in Entry /\ e.id = x /\ e.chain = c
  BY <1>5 DEF Entry, Hash
<1> HIDE DEF e
<1>13. /\ Len(chains) \in Nat /\ Len(chains') = Len(chains) + 1 /\ chains' \in Seq(Entry)
       /\ chains'[Len(chains) + 1] = e
       /\ \A j \in 1 .. Len(chains) : chains'[j] = chains[j]
  BY <1>6, <1>11, <1>12
<1>14. Loaded' = Loaded \cup {c}
  <2>1. 1 .. Len(chains') = (1 .. Len(chains)) \cup {Len(chains) + 1}
    BY <1>13
  <2>2. Loaded' = {chains'[j].chain : j \in 1 .. Len(chains')}
    BY DEF Loaded
  <2> HIDE DEF e
  <2>3. ASSUME NEW d \in Loaded' PROVE d \in Loaded \cup {c}
    BY <1>12, <1>13, <2>1, <2>2 DEF Loaded
  <2>4. ASSUME NEW d \in Loaded PROVE d \in Loaded'
    <3>1. PICK j \in 1 .. Len(chains) : chains[j].chain = d
      BY DEF Loaded
    <3>2. j \in 1 .. Len(chains') /\ chains'[j].chain = d
      BY <1>13, <2>1, <3>1
    <3> QED BY <2>2, <3>2
  <2>5. c \in Loaded'
    <3>1. Len(chains) + 1 \in 1 .. Len(chains')
      BY <1>13
    <3> QED BY <1>12, <1>13, <2>2, <3>1
  <2> QED BY <2>3, <2>4, <2>5
<1>15. /\ cur' = NoChain /\ ~forking' /\ Live' = Loaded' /\ cur = NoChain
  BY <1>11 DEF Loading, Live
<1>16. /\ bc'[c] = b /\ tip'[c] = t /\ d0 # c /\ d0 # NoChain
       /\ \A d \in Chain : d # c => bc'[d] = bc[d] /\ tip'[d] = tip[d]
  BY <1>6, <1>9, <1>11 DEF TypeOK
<1>17. FileOf(bc'[c]) = p
  BY <1>2, <1>16 DEF FileOf, NameOf
<1>18. bc[d0].forkpoint < p[1]
  <2>1. bc[d0].forkpoint <= p[1] /\ bc[d0].forkpoint \in Nat
    BY <1>1, <1>6, HeaderTypes DEF Loading
  <2> SUFFICES ASSUME bc[d0].forkpoint = p[1] PROVE FALSE
    BY <1>2, <2>1
  <2> DEFINE y == bc[d0].hash
  <2>2. /\ y \in Header /\ Height[y] = Height[x] /\ y # Genesis /\ OnBranch(y, tip[d0]) /\ tip[d0] \in Header
    BY <1>2, <1>6, HeaderTypes
  <2>3. PICK k \in Loaded : /\ bc[d0].parent = k /\ k # NoChain /\ OnBranch(Prev[y], tip[k])
    BY <1>6, <2>2 DEF Node
  <2>4. Prev[y] \in Header /\ Height[Prev[y]] = Height[Prev[x]] /\ OnBranch(Prev[y], y)
    <3>1. Prev[y] \in Header /\ Height[y] = Height[Prev[y]] + 1 /\ Height[Prev[y]] \in Nat /\ OnBranch(Prev[y], y)
      BY <2>2, PrevBelow, OnPrev
    <3>2. Height[x] = Height[Prev[x]] + 1 /\ Height[Prev[x]] \in Nat
      BY <1>2
    <3>3. Height[y] = Height[x]
      BY <2>2
    <3> HIDE DEF x, y
    <3>4. Height[Prev[y]] = Height[Prev[x]]
      BY <3>1, <3>2, <3>3, SMTT(30)
    <3> QED BY <3>1, <3>4
  <2>5. OnBranch(Prev[y], tip[d0])
    BY <2>2, <2>4, OnTrans, SMTT(30)
  <2>6. Prev[y] = Prev[x]
    BY <1>8, <2>4, <2>5 DEF OnBranch
  <2>7. k \in S
    BY <1>2, <2>3, <2>6
  <2>8. \E j \in 1 .. i - 1 : chains[j].chain = k
    BY <1>7, <1>8, <2>3 DEF Loading
  <2> QED BY <1>7, <2>7, <2>8
<1>19. OnBranch(bc[d0].hash, t)
  <2>1. Height[bc[d0].hash] <= Height[p[2]]
    BY <1>2, <1>6, <1>18, HeaderTypes, SMTT(30)
  <2>2. OnBranch(bc[d0].hash, p[2])
    BY <1>2, <1>6, <1>8, <2>1, OnCompare
  <2>3. OnBranch(p[2], x)
    BY <1>2, <1>5, OnPrev
  <2> QED BY <1>2, <1>3, <1>5, <1>6, <2>2, <2>3, OnTrans
<1>20. n \in Nat /\ n = Height[t] - p[1] + 1
  <2>1. Height[t] \in Nat /\ p[1] <= Height[t]
    BY <1>2, <1>3, HeaderTypes DEF OnBranch
  <2> QED BY <1>2, <1>3, <1>4, <2>1
<1>21. Node(c)'
  <2>1. tip'[d0] = tip[d0]
    BY <1>6, <1>16
  <2>2. /\ bc'[c].hash = x /\ bc'[c].prev = Prev[x] /\ bc'[c].parent = d0 /\ bc'[c].forkpoint = Height[x]
        /\ tip'[c] = t
    BY <1>2, <1>16
  <2> HIDE DEF x, b
  <2> QED BY <1>3, <1>5, <1>8, <1>14, <1>16, <2>1, <2>2 DEF Node
<1>22. ASSUME NEW d \in Loaded PROVE Node(d)' /\ Filed(d)' /\ bc'[d] = bc[d] /\ tip'[d] = tip[d]
  <2>1. d # c /\ bc'[d] = bc[d] /\ tip'[d] = tip[d] /\ Node(d) /\ Filed(d)
    BY <1>6, <1>9, <1>16
  <2>2. bc[d].parent \in Loaded => tip'[bc[d].parent] = tip[bc[d].parent]
    BY <1>6, <1>9, <1>16
  <2>3. Node(d)'
    BY <1>14, <2>1, <2>2 DEF Node
  <2> QED BY <1>11, <2>1, <2>3 DEF Filed
<1>23. Filed(c)'
  BY <1>1, <1>3, <1>11, <1>16, <1>17, <1>20 DEF Filed, Unread
<1>24. Forest'
  <2>1. \E d \in Loaded' : bc'[d].parent = NoChain
    BY <1>14, <1>22 DEF Loading, Forest
  <2>2. PICK r \in [Chain -> Nat] : Ranked(r)
    BY DEF Loading, Forest
  <2> DEFINE s == [r EXCEPT ![c] = r[d0] + 1]
  <2>3. s \in [Chain -> Nat] /\ s[c] = r[d0] + 1 /\ \A d \in Chain : d # c => s[d] = r[d]
    BY <1>6, <1>9
  <2> HIDE DEF s
  <2>4. Ranked(s)'
    <3> SUFFICES ASSUME NEW d \in Loaded', bc'[d].parent # NoChain PROVE s[bc'[d].parent] < s[d]
      BY <1>15 DEF Ranked
    <3>1. CASE d = c
      <4>1. r[d0] \in Nat /\ s[d0] = r[d0]
        BY <1>6, <1>16, <2>3
      <4>2. bc'[d].parent = d0
        BY <1>16, <3>1
      <4> QED BY <2>3, <3>1, <4>1, <4>2
    <3>2. CASE d # c
      <4>1. d \in Loaded /\ bc'[d] = bc[d] /\ bc[d].parent \in Loaded /\ d \in Chain
        BY <1>6, <1>14, <1>22, <3>2 DEF Node
      <4>2. r[bc[d].parent] < r[d] /\ bc[d].parent # c /\ bc[d].parent \in Chain
        BY <1>6, <1>9, <2>2, <3>2, <4>1 DEF Ranked
      <4> QED BY <2>3, <3>2, <4>1, <4>2
    <3> QED BY <3>1, <3>2
  <2> QED BY <1>14, <1>15, <1>21, <1>22, <2>1, <2>3, <2>4 DEF Forest
<1>25. Dict'
  <2>1. ASSUME NEW j \in 1 .. Len(chains) PROVE chains[j].chain \in Loaded
    BY DEF Loaded
  <2>2. ASSUME NEW j \in 1 .. Len(chains') PROVE chains'[j].id = bc'[chains'[j].chain].hash
    <3>1. CASE j = Len(chains) + 1
      BY <1>12, <1>13, <1>16, <3>1
    <3>2. CASE j # Len(chains) + 1
      <4>1. j \in 1 .. Len(chains)
        BY <1>13, <3>2
      <4> QED BY <1>13, <1>22, <2>1, <4>1 DEF Loading, Dict
    <3> QED BY <3>1, <3>2
  <2>3. \A j, k \in 1 .. Len(chains') : chains'[j].id = chains'[k].id => j = k
    <3>1. \A j \in 1 .. Len(chains') : j = Len(chains) + 1 \/ j \in 1 .. Len(chains)
      BY <1>13
    <3> QED BY <1>6, <1>10, <1>12, <1>13, <3>1 DEF Distinct
  <2> QED BY <2>2, <2>3 DEF Dict
<1>26. ASSUME NEW j \in 1 .. Len(chains'), NEW k, k = chains'[j].chain, bc'[k].parent # NoChain
       PROVE  /\ bc'[bc'[k].parent].forkpoint < bc'[k].forkpoint
              /\ \E m \in 1 .. j - 1 : chains'[m].chain = bc'[k].parent
  <2>1. CASE j = Len(chains) + 1
    <3>1. k = c /\ bc'[k] = b
      BY <1>12, <1>13, <1>16, <1>26, <2>1
    <3>2. i \in 1 .. j - 1 /\ chains'[i].chain = d0
      BY <1>7, <1>8, <1>13, <2>1
    <3>3. bc'[d0] = bc[d0]
      BY <1>22
    <3> QED BY <1>18, <3>1, <3>2, <3>3
  <2>2. CASE j # Len(chains) + 1
    <3>1. j \in 1 .. Len(chains)
      BY <1>13, <2>2
    <3>2. k \in Loaded /\ k = chains[j].chain /\ bc'[k] = bc[k]
      BY <1>13, <1>22, <1>26, <3>1 DEF Loaded
    <3>3. /\ bc[bc[k].parent].forkpoint < bc[k].forkpoint
          /\ \E m \in 1 .. j - 1 : chains[m].chain = bc[k].parent
      BY <1>26, <3>1, <3>2 DEF Loading
    <3>4. bc[k].parent \in Loaded /\ bc'[bc[k].parent] = bc[bc[k].parent]
      BY <1>6, <1>22, <1>26, <3>2 DEF Node
    <3>5. \A m \in 1 .. j - 1 : m \in 1 .. Len(chains)
      BY <1>13, <3>1
    <3> QED BY <1>13, <3>2, <3>3, <3>4, <3>5
  <2> QED BY <2>1, <2>2
<1>27. ASSUME NEW d \in Loaded', NEW q \in Unread' PROVE bc'[d].forkpoint <= q[1]
  <2>1. q \in Unread
    BY <1>11, <1>14, <1>22 DEF Unread
  <2> QED BY <1>1, <1>14, <1>16, <1>22, <2>1 DEF Loading
<1>28. ASSUME clean PROVE ParentsBest'
  <2>1. Work[t] <= Work[tip[d0]]
    <3>1. FileOf(bc[d0]) \in Wholes /\ p \in Wholes
      BY <1>1, <1>2, <1>6 DEF Wholes, Unread
    <3>2. FileOf(bc[d0])[3] = bc[d0].hash /\ Top(FileOf(bc[d0])) = tip[d0]
      BY <1>6
    <3>3. \A r, q \in Wholes : OnBranch(r[3], Top(q)) => Work[Top(q)] <= Work[Top(r)]
      BY <1>28 DEF Durable, AllKept
    <3> QED BY <1>3, <1>19, <3>1, <3>2, <3>3
  <2>2. ASSUME NEW d \in Loaded, bc[d].parent # NoChain
        PROVE  Work[tip'[d]] <= Work[tip'[bc[d].parent]]
    <3>1. bc[d].parent \in Loaded /\ d # cur
      BY <1>6, <1>15, <2>2 DEF Node
    <3>2. Work[tip[d]] <= Work[tip[bc[d].parent]]
      BY <1>6, <1>28, <2>2, <3>1 DEF Loading, ParentsBest
    <3> QED BY <1>22, <3>1, <3>2
  <2>3. tip'[d0] = tip[d0] /\ bc'[c].parent = d0
    BY <1>16, <1>22
  <2> QED BY <1>14, <1>15, <1>16, <1>22, <2>1, <2>2, <2>3 DEF ParentsBest
<1>29. Loading'
  <2>1. \A d \in Chain \ Loaded' : bc'[d] = Blank
    BY <1>14, <1>16 DEF Loading
  <2> QED BY <1>11, <1>14, <1>15, <1>22, <1>23, <1>24, <1>25, <1>26, <1>27, <1>28, <2>1 DEF Loading
<1>30. Durable'
  BY <1>11, SameFiles DEF TypeOK
<1>31. TypeOK'
  <2>1. b \in [forkpoint : Nat, hash : Hash, prev : Hash, parent : Chain \cup {NoChain}, size : Nat]
    BY <1>2, <1>5, <1>6, <1>20 DEF Hash
  <2>2. bc' \in [Chain -> [forkpoint : Nat, hash : Hash, prev : Hash, parent : Chain \cup {NoChain}, size : Nat]]
    <3> HIDE DEF b
    <3> QED BY <1>11, <2>1 DEF TypeOK
  <2>3. tip' \in [Chain -> Header]
    BY <1>3, <1>11 DEF TypeOK
  <2>4. chains' \in Seq([id : Hash, chain : Chain])
    BY <1>13 DEF Entry
  <2>5. /\ MainFile \in DOMAIN files' /\ DOMAIN files' \ {MainFile} \subseteq (Nat \ {0}) \X Header \X Hash
        /\ \A q \in DOMAIN files' : files'[q] \in Seq(Header)
    BY <1>11 DEF TypeOK
  <2>6. /\ pc \in {"down", "load", "idle", "swap", "parent", "rename", "adopt"}
        /\ cur \in Chain \cup {NoChain} /\ forking \in BOOLEAN /\ swaps \in Nat
        /\ mine \in Seq(Header) /\ old \in Chain \cup {NoChain}
        /\ crashes \in 0 .. MaxCrashes /\ clean \in BOOLEAN /\ intact \in BOOLEAN
    BY DEF TypeOK
  <2> QED BY <1>11, <2>2, <2>3, <2>4, <2>5, <2>6 DEF TypeOK
<1> QED BY <1>11, <1>29, <1>30, <1>31 DEF Body

\* While no swap and no write was cut short, the next file has its parent in
\* the dictionary.
LEMMA NextReadable ==
  ASSUME TypeOK, Durable, Loading, clean, NEW p, Lowest(p)
  PROVE  Readable(p)
<1>1. p \in Unread /\ p \in DOMAIN files /\ p # MainFile /\ \A q \in Unread : p[1] <= q[1]
  BY UnreadFile DEF Lowest
<1>2. Whole(p) /\ p \in Wholes
  BY <1>1 DEF Durable, AllKept, Wholes
<1>3. PICK q \in Wholes : q[1] < p[1] /\ Keeps(q, p[2])
  BY <1>1, <1>2 DEF Durable, AllKept
<1>4. q \notin Unread
  <2> SUFFICES ASSUME q \in Unread PROVE FALSE
    OBVIOUS
  <2>1. p[1] <= q[1] /\ p[1] \in Nat
    BY <1>1, <1>2, UnreadFile
  <2>2. q[1] \in Nat
    BY <1>3, UnreadFile DEF Wholes
  <2> QED BY <1>3, <2>1, <2>2
<1>5. PICK d \in Loaded : q = FileOf(bc[d])
  BY <1>4 DEF Unread, Wholes
<1>6. OnBranch(p[2], tip[d])
  BY <1>3, <1>5, LoadingBasics DEF Keeps
<1>7. HashAt(d, p[1] - 1) = p[2] /\ files[p] # <<>> /\ files[p][1] = p[3] /\ Prev[p[3]] = p[2]
  BY <1>1, <1>2, <1>6, UnreadFile
<1> QED BY <1>7 DEF Readable

LEMMA DeleteForkBody ==
  ASSUME TypeOK, Durable, Loading, pc = "load", NEW p \in DOMAIN files, DeleteFork(p)
  PROVE  Body'
<1>1. /\ ~clean /\ p \in Unread /\ p # MainFile
      /\ files' = [q \in DOMAIN files \ {p} |-> files[q]]
      /\ bc' = bc /\ chains' = chains /\ pc' = pc /\ cur' = cur /\ forking' = forking /\ swaps' = swaps
      /\ mine' = mine /\ old' = old /\ tip' = tip
      /\ crashes' = crashes /\ clean' = clean /\ intact' = intact
  BY NextReadable, LoadingBasics DEF DeleteFork, Lowest, objects, op, exchange, history
<1>2. DOMAIN files' = DOMAIN files \ {p} /\ \A q \in DOMAIN files' : q \in DOMAIN files /\ files'[q] = files[q]
  BY <1>1
<1>3. TypeOK'
  <2>1. /\ MainFile \in DOMAIN files' /\ DOMAIN files' \ {MainFile} \subseteq (Nat \ {0}) \X Header \X Hash
        /\ \A q \in DOMAIN files' : files'[q] \in Seq(Header)
    BY <1>1, <1>2 DEF TypeOK
  <2> QED BY <1>1, <2>1 DEF TypeOK
<1>4. Durable'
  <2>1. \A q \in DOMAIN files' : /\ Top(q)' = Top(q) /\ Whole(q)' = Whole(q) /\ Broken(q)' = Broken(q)
                                 /\ \A x : Keeps(q, x)' = Keeps(q, x)
    BY <1>2 DEF Whole, Broken, Keeps, Top
  <2>2. Wholes' = Wholes \ {p}
    BY <1>2, <2>1 DEF Wholes
  <2>3. \A q \in Wholes' : q \in DOMAIN files' /\ q \in Wholes
    BY <1>2, <2>1 DEF Wholes
  <2>4. MainFile \in DOMAIN files'
    BY <1>1, <1>2 DEF TypeOK
  <2>5. Kept'
    BY <1>1, <1>2, <2>1, <2>3, <2>4 DEF Durable, Kept
  <2> QED BY <1>1, <2>5 DEF Durable
<1>5. Loading'
  <2>1. Loaded' = Loaded /\ Live' = Live
    BY <1>1 DEF Loaded, Live
  <2>2. Forest'
    <3>1. \A c \in Live : Node(c)'
      BY <1>1, <2>1 DEF Loading, Forest, Node
    <3>2. PICK r \in [Chain -> Nat] : Ranked(r)
      BY DEF Loading, Forest
    <3>3. Ranked(r)'
      BY <1>1, <2>1, <3>2 DEF Ranked
    <3>4. \E c \in Loaded' : bc'[c].parent = NoChain
      BY <1>1, <2>1 DEF Loading, Forest
    <3> QED BY <2>1, <3>1, <3>3, <3>4 DEF Forest
  <2>3. Dict'
    BY <1>1 DEF Loading, Dict
  <2>4. ASSUME NEW c \in Loaded PROVE Filed(c)'
    <3>1. Filed(c) /\ FileOf(bc[c]) # p
      BY <1>1 DEF Loading, Unread
    <3> QED BY <1>1, <1>2, <3>1 DEF Filed
  <2>5. \A q \in Unread' : q \in Unread
    BY <1>1, <1>2, <2>1 DEF Unread
  <2> QED BY <1>1, <2>1, <2>2, <2>3, <2>4, <2>5 DEF Loading
<1> QED BY <1>1, <1>3, <1>4, <1>5 DEF Body

LEMMA LoadEndsBody ==
  ASSUME TypeOK, Durable, Loading, LoadEnds
  PROVE  Body'
<1>1. /\ Unread = {} /\ pc' = "idle" /\ files' = files
      /\ bc' = bc /\ chains' = chains /\ cur' = cur /\ forking' = forking /\ swaps' = swaps
      /\ mine' = mine /\ old' = old /\ tip' = tip
      /\ crashes' = crashes /\ clean' = clean /\ intact' = intact
  BY DEF LoadEnds, objects, op, exchange, history
<1>2. /\ Live = Loaded /\ Loaded \subseteq Chain
      /\ \A c \in Loaded :
           /\ Node(c) /\ Filed(c) /\ tip[c] \in Header /\ bc[c].hash \in Header
           /\ FileOf(bc[c]) \in DOMAIN files /\ Whole(FileOf(bc[c])) /\ Top(FileOf(bc[c])) = tip[c]
           /\ FileOf(bc[c])[3] = bc[c].hash
      /\ \A c, d \in Loaded : c # d => FileOf(bc[c]) # FileOf(bc[d])
  BY LoadingBasics
<1>3. Loaded' = Loaded /\ Live' = Live /\ cur = NoChain /\ ~forking
  BY <1>1 DEF Loaded, Live, Loading
<1>4. \A c \in Loaded : FileOf(bc[c]) \in Wholes
  BY <1>2 DEF Wholes
<1>5. Once'
  <2> SUFFICES ASSUME NEW c \in Loaded, NEW d \in Loaded, c # d, NEW x \in Header,
                      Stores(c, x), Stores(d, x)
               PROVE  FALSE
    BY <1>1, <1>2, <1>3 DEF Once, Stores
  <2>1. Keeps(FileOf(bc[c]), x) /\ Keeps(FileOf(bc[d]), x)
    BY <1>2 DEF Keeps, Stores
  <2>2. \A p, q \in Wholes : p # q => \A y \in Header : ~(Keeps(p, y) /\ Keeps(q, y))
    BY DEF Durable, Kept
  <2> QED BY <1>2, <1>4, <2>1, <2>2
<1>6. ASSUME intact PROVE Apart'
  <2> SUFFICES ASSUME NEW c \in Loaded, NEW d \in Loaded, c # d, OnBranch(tip[c], tip[d])
               PROVE  FALSE
    BY <1>1, <1>2, <1>3 DEF Apart
  <2>1. \A p, q \in Wholes : p # q => ~OnBranch(Top(p), Top(q))
    BY <1>6 DEF Durable, Kept
  <2> QED BY <1>2, <1>4, <2>1
<1>7. Forest'
  <2>1. \A c \in Live : Node(c)'
    BY <1>1, <1>2, <1>3 DEF Node
  <2>2. PICK r \in [Chain -> Nat] : Ranked(r)
    BY DEF Loading, Forest
  <2>3. Ranked(r)'
    BY <1>1, <1>3, <2>2 DEF Ranked
  <2>4. \E c \in Loaded' : bc'[c].parent = NoChain
    BY <1>1, <1>3 DEF Loading, Forest
  <2> QED BY <1>3, <2>1, <2>3, <2>4 DEF Forest
<1>8. Dict' /\ Idle' /\ New'
  <2>1. Dict'
    BY <1>1 DEF Loading, Dict
  <2>2. Idle'
    BY <1>1, <1>2, <1>3 DEF Loading, Idle, Blank
  <2>3. New'
    BY <1>1, <1>3 DEF New
  <2> QED BY <2>1, <2>2, <2>3
<1>9. NoStrays' /\ Strays'
  <2>1. DOMAIN files = {FileOf(bc[c]) : c \in Loaded}
    BY <1>1, <1>2 DEF Unread
  <2>2. DOMAIN files' = {FileOf(bc'[c]) : c \in Live'}
    BY <1>1, <1>2, <1>3, <2>1
  <2> QED BY <2>2 DEF NoStrays, Strays
<1>10. Contents'
  BY <1>1, <1>2, <1>3 DEF Contents, Filed
<1>11. clean => ParentsBest'
  BY <1>1, <1>3 DEF Loading, ParentsBest
<1>12. Alive'
  BY <1>1, <1>3, <1>5, <1>6, <1>7, <1>8, <1>9, <1>10, <1>11 DEF Alive
<1>13. TypeOK'
  BY <1>1 DEF TypeOK
<1> QED BY <1>1, <1>12, <1>13 DEF Body

-----------------------------------------------------------------------------
(* Every reachable state *)

LEMMA InitInv == Init => Inv
<1> SUFFICES ASSUME Init PROVE Inv
  OBVIOUS
<1>1. /\ files = [p \in {MainFile} |-> <<Genesis>>]
      /\ bc = [c \in Chain |-> Blank] /\ chains = <<>>
      /\ pc = "down" /\ cur = NoChain /\ forking = FALSE /\ swaps = 0 /\ mine = <<>> /\ old = NoChain
      /\ tip = [c \in Chain |-> Genesis] /\ crashes = 0 /\ clean = TRUE /\ intact = TRUE
  BY DEF Init
<1>2. Genesis \in Header /\ Height[Genesis] = 0
  BY HeaderAssumption
<1>3. DOMAIN files = {MainFile} /\ files[MainFile] = <<Genesis>>
  BY <1>1
<1>4. TypeOK
  <2>1. Blank \in [forkpoint : Nat, hash : Hash, prev : Hash, parent : Chain \cup {NoChain}, size : Nat]
    BY <1>2 DEF Blank, Hash
  <2>2. bc \in [Chain -> [forkpoint : Nat, hash : Hash, prev : Hash, parent : Chain \cup {NoChain}, size : Nat]]
    <3> HIDE DEF Blank
    <3> QED BY <1>1, <2>1
  <2>3. tip \in [Chain -> Header]
    BY <1>1, <1>2
  <2>4. crashes \in 0 .. MaxCrashes
    BY <1>1, ChainAssumption
  <2>5. chains \in Seq([id : Hash, chain : Chain]) /\ mine \in Seq(Header)
    BY <1>1
  <2>6. <<Genesis>> \in Seq(Header)
    BY <1>2
  <2>7. /\ MainFile \in DOMAIN files /\ DOMAIN files \ {MainFile} \subseteq (Nat \ {0}) \X Header \X Hash
        /\ \A p \in DOMAIN files : files[p] \in Seq(Header)
    BY <1>3, <2>6
  <2> QED BY <1>1, <2>2, <2>3, <2>4, <2>5, <2>7 DEF TypeOK
<1>5. Whole(MainFile) /\ Top(MainFile) = Genesis
  <2>1. Top(MainFile) = Genesis /\ <<Genesis>> # <<>>
    BY <1>3 DEF Top
  <2>2. MainFile[3] = Genesis
    BY DEF MainFile
  <2>3. Seg(Height[Genesis], Genesis) = <<Genesis>>
    BY <1>2, SegOne
  <2> HIDE DEF Seg
  <2> QED BY <1>2, <1>3, <2>1, <2>2, <2>3, OnSelf DEF Whole
<1>6. Wholes = {MainFile}
  BY <1>3, <1>5 DEF Wholes
<1>7. Kept
  BY <1>3, <1>5, <1>6 DEF Kept
<1>8. AllKept
  <2>1. Work[Genesis] \in Nat
    BY <1>2, HeaderAssumption
  <2> QED BY <1>3, <1>5, <1>6, <2>1 DEF AllKept
<1>9. Down
  BY <1>1 DEF Down
<1> QED BY <1>1, <1>4, <1>7, <1>8, <1>9 DEF Inv, Body, Durable

LEMMA StutterInv == Inv /\ UNCHANGED vars => Inv'
<1> SUFFICES ASSUME Inv, UNCHANGED vars PROVE Inv'
  OBVIOUS
<1>1. /\ files' = files /\ bc' = bc /\ chains' = chains /\ pc' = pc /\ cur' = cur
      /\ forking' = forking /\ swaps' = swaps /\ mine' = mine /\ old' = old
      /\ tip' = tip /\ crashes' = crashes /\ clean' = clean /\ intact' = intact
  BY DEF vars, objects, op, exchange, history
<1>2. Sound' <=> Sound
  BY <1>1 DEF Sound
<1>3. ASSUME Body PROVE Body'
  <2>1. TypeOK /\ TypeOK'
    BY <1>1, <1>3 DEF Body, TypeOK
  <2>2. Durable => Durable'
    BY <1>1, <2>1, SameFiles DEF TypeOK
  <2>3. Down => Down'
    BY <1>1 DEF Down
  <2>4. Loaded' = Loaded /\ Live' = Live /\ Unread' = Unread
    BY <1>1 DEF Loaded, Live, Unread, FileOf
  <2>5. Forest => Forest'
    <3> SUFFICES ASSUME Forest PROVE Forest'
      OBVIOUS
    <3>1. \A c \in Live : Node(c)'
      BY <1>1, <2>4 DEF Forest, Node
    <3>2. PICK r \in [Chain -> Nat] : Ranked(r)
      BY DEF Forest
    <3>3. Ranked(r)'
      BY <1>1, <2>4, <3>2 DEF Ranked
    <3> QED BY <1>1, <2>4, <3>1, <3>3 DEF Forest
  <2>6. /\ Dict => Dict'
        /\ ParentsBest => ParentsBest'
        /\ \A c : Filed(c)' = Filed(c)
    BY <1>1, <2>4 DEF Dict, ParentsBest, Filed, FileOf
  <2>7. Loading => Loading'
    <3> SUFFICES ASSUME Loading PROVE Loading'
      OBVIOUS
    <3>1. Forest' /\ Dict' /\ (clean' => ParentsBest') /\ \A c \in Loaded' : Filed(c)'
      BY <1>1, <2>4, <2>5, <2>6 DEF Loading
    <3> QED BY <1>1, <2>4, <3>1 DEF Loading
  <2>8. Alive => Alive'
    <3> SUFFICES ASSUME Alive PROVE Alive'
      OBVIOUS
    <3>1. Once' /\ (intact' => Apart')
      BY <1>1, <2>4 DEF Alive, Once, Apart, Stores
    <3>2. Idle' /\ New'
      BY <1>1, <2>4 DEF Alive, Idle, New
    <3>3. Strays' /\ (clean' => NoStrays')
      BY <1>1, <2>4 DEF Alive, Strays, NoStrays, Lost, FileOf
    <3>4. Contents'
      BY <1>1, <2>4, <2>6 DEF Alive, Contents, FileOf, P
    <3>5. (Swapping => Swapping') /\ (Adopting => Adopting')
      BY <1>1, <2>4 DEF Swapping, Adopting, P, FileOf
    <3> QED BY <1>1, <2>4, <2>5, <2>6, <3>1, <3>2, <3>3, <3>4, <3>5 DEF Alive
  <2> QED BY <1>1, <1>3, <2>1, <2>2, <2>3, <2>7, <2>8 DEF Body
<1> QED BY <1>1, <1>2, <1>3 DEF Inv

\* A death is never undone: what was cut short stays so.
LEMMA Flags ==
  ASSUME Next
  PROVE  (intact' => intact) /\ (clean' => clean) /\ (clean' => intact' \/ ~intact)
<1>1. CASE Receive
  <2>1. \A h : SaveHeader(h) => clean' = clean /\ intact' = intact
    BY DEF SaveHeader
  <2>2. \A h : Fork(h) => clean' = clean /\ intact' = intact
    BY DEF Fork
  <2>3. \A h, c : ConnectChunk(c, h) => clean' = clean /\ intact' = intact
    BY DEF ConnectChunk
  <2>4. \A h : ForkRaises(h) => clean' = clean /\ intact' = intact
    BY DEF ForkRaises, history
  <2> QED BY <1>1, <2>1, <2>2, <2>3, <2>4 DEF Receive
<1>2. CASE SwapStep
  BY <1>2 DEF SwapStep, SwapEnds, SwapRaises, WriteChild, WriteParent, Exchange, Adopt, history
<1>3. CASE Load
  <2>1. LoadMain \/ LoadEnds => clean' = clean /\ intact' = intact
    BY DEF LoadMain, LoadEnds, history
  <2>2. \A p : LoadFork(p) => clean' = clean /\ intact' = intact
    BY DEF LoadFork
  <2>3. \A p : DeleteFork(p) => clean' = clean /\ intact' = intact
    BY DEF DeleteFork, history
  <2> QED BY <1>3, <2>1, <2>2, <2>3 DEF Load
<1>4. CASE Crash
  BY <1>4 DEF Crash, Stop, CrashInChild, CrashInFork, CrashInParent, CrashInChunk, Die
<1> QED BY <1>1, <1>2, <1>3, <1>4 DEF Next

LEMMA NextInv == Inv /\ Next => Inv'
<1> SUFFICES ASSUME Inv, Next PROVE Inv'
  OBVIOUS
<1>1. clean' => intact'
  BY Flags DEF Inv
<1>2. SUFFICES ASSUME Sound' PROVE Body'
  BY <1>1 DEF Inv
<1>3. Sound
  BY <1>2, Flags DEF Sound
<1>4. /\ TypeOK
      /\ pc = "down" => Durable /\ Down
      /\ pc = "load" => Durable /\ Loading
      /\ pc \notin {"down", "load"} => Alive
  BY <1>3 DEF Inv, Body
<1>5. CASE Receive
  <2>1. intact
    BY <1>3, <1>5 DEF Receive, Sound
  <2>2. PICK h \in Headers : SaveHeader(h) \/ Fork(h) \/ ForkRaises(h) \/ \E c \in Chain : ConnectChunk(c, h)
    BY <1>5 DEF Receive
  <2>3. pc = "idle"
    BY <2>2 DEF SaveHeader, Fork, ForkRaises, BeginsFork, ConnectChunk, Continues
  <2>4. CASE SaveHeader(h)
    BY <1>4, <2>1, <2>3, <2>4, SaveHeaderBody
  <2>5. CASE Fork(h)
    BY <1>4, <2>1, <2>3, <2>5, ForkBody
  <2>6. ASSUME NEW c \in Chain, ConnectChunk(c, h) PROVE Body'
    BY <1>4, <2>1, <2>3, <2>6, ConnectChunkBody
  <2>7. CASE ForkRaises(h)
    BY <1>4, <2>3, <2>7, ForkRaisesBody
  <2> QED BY <2>2, <2>4, <2>5, <2>6, <2>7
<1>6. CASE SwapStep
  <2>1. pc \notin {"down", "load"}
    BY <1>6 DEF SwapStep, SwapEnds, SwapRaises, WriteChild, WriteParent, Exchange, Adopt
  <2>2. TypeOK /\ Alive
    BY <1>4, <2>1
  <2> QED BY <1>6, <2>2, SwapEndsBody, SwapRaisesBody, WriteChildBody, WriteParentBody, ExchangeBody,
             AdoptBody DEF SwapStep
<1>7. CASE Load
  <2>1. CASE LoadMain
    <3>1. pc = "down"
      BY <2>1 DEF LoadMain
    <3> QED BY <1>4, <2>1, <3>1, LoadMainBody
  <2>2. CASE LoadEnds
    <3>1. pc = "load"
      BY <2>2 DEF LoadEnds
    <3> QED BY <1>4, <2>2, <3>1, LoadEndsBody
  <2>3. ASSUME NEW p \in DOMAIN files, LoadFork(p) PROVE Body'
    <3>1. pc = "load"
      BY <2>3 DEF LoadFork
    <3> QED BY <1>4, <2>3, <3>1, LoadForkBody
  <2>4. ASSUME NEW p \in DOMAIN files, DeleteFork(p) PROVE Body'
    <3>1. pc = "load"
      BY <2>4 DEF DeleteFork
    <3> QED BY <1>4, <2>4, <3>1, DeleteForkBody
  <2> QED BY <1>7, <2>1, <2>2, <2>3, <2>4 DEF Load
<1>8. CASE Crash
  <2>1. CASE Stop
    BY <1>4, <2>1, StopBody DEF Stop
  <2>2. CASE CrashInChild
    <3>1. pc = "swap"
      BY <2>2 DEF CrashInChild
    <3> QED BY <1>4, <2>2, <3>1, CrashInChildBody
  <2>3. CASE CrashInParent
    <3>1. pc = "parent"
      BY <2>3 DEF CrashInParent
    <3> QED BY <1>4, <2>3, <3>1, CrashInParentBody
  <2>4. ASSUME NEW h \in Headers, NEW c \in Chain, CrashInChunk(c, h) PROVE Body'
    <3>1. pc = "idle"
      BY <2>4 DEF CrashInChunk, Continues
    <3> QED BY <1>4, <2>4, <3>1, CrashInChunkBody
  <2>5. ASSUME NEW h \in Headers, CrashInFork(h) PROVE Body'
    <3>1. pc = "idle"
      BY <2>5 DEF CrashInFork, BeginsFork
    <3> QED BY <1>4, <2>5, <3>1, CrashInForkBody
  <2> QED BY <1>8, <2>1, <2>2, <2>3, <2>4, <2>5 DEF Crash
<1> QED BY <1>5, <1>6, <1>7, <1>8 DEF Next

\* The invariant of blockchain.py: between two lives the files are pieces of
\* branches, while they are read the chains form a tree, and in a life each
\* header has one file, through every swap.
THEOREM ChainsInvariance == Spec => []Inv
<1>1. Inv /\ [Next]_vars => Inv'
  BY NextInv, StutterInv
<1> QED BY InitInv, <1>1, PTL DEF Spec

LEMMA SettledBasics ==
  ASSUME TypeOK, Alive, Settled
  PROVE  /\ Live = Loaded /\ Loaded \subseteq Chain /\ cur = NoChain
         /\ \A c \in Loaded : /\ Node(c) /\ Filed(c) /\ tip[c] \in Header /\ HeightOf(c) = Height[tip[c]]
                              /\ \A k \in Nat : HashAt(c, k) = At(c, k)
                              /\ TipOf(c) = tip[c] /\ WorkOf(c) = Work[tip[c]]
                              /\ \A h \in Header : Contains(c, h) <=> OnBranch(h, tip[c])
<1>1. /\ Live = Loaded /\ Loaded \subseteq Chain /\ cur = NoChain
      /\ \A c \in Loaded : /\ Node(c) /\ Filed(c) /\ HeightOf(c) = Height[tip[c]]
                           /\ \A k \in Nat : HashAt(c, k) = At(c, k)
  BY Quiet DEF Settled, Alive
<1>2. \A c \in Loaded : tip[c] \in Header
  BY <1>1 DEF Node
<1> QED BY <1>1, <1>2, ReadTip

LEMMA SettledBranches == TypeOK /\ (Settled => Alive) => ChainsAreBranches
<1> SUFFICES ASSUME TypeOK, Settled, Alive, NEW c \in Loaded, NEW k \in 1 .. HeightOf(c)
             PROVE  /\ HashAt(c, k) # NoHeader
                    /\ Height[HashAt(c, k)] = k /\ Prev[HashAt(c, k)] = HashAt(c, k - 1)
  BY DEF ChainsAreBranches
<1> DEFINE t == tip[c]
           x == HeaderAt(t, k)
<1>1. t \in Header /\ HeightOf(c) = Height[t] /\ Height[t] \in Nat /\ \A j \in Nat : HashAt(c, j) = At(c, j)
  BY SettledBasics, HeaderTypes
<1>2. k \in 0 .. Height[t] /\ k \in Nat \ {0} /\ k - 1 \in 0 .. k /\ k - 1 \in Nat /\ k <= Height[t] /\ k - 1 <= Height[t]
  BY <1>1
<1>3. HashAt(c, k) = x /\ HashAt(c, k - 1) = HeaderAt(t, k - 1)
  BY <1>1, <1>2 DEF At
<1>4. x \in Header /\ Height[x] = k /\ x # NoHeader
  <2>1. x \in Header /\ Height[x] = k
    BY <1>1, <1>2, AtType
  <2> HIDE DEF x
  <2> QED BY <2>1, HeaderAssumption
<1>5. Prev[x] = HeaderAt(x, k - 1)
  <2>1. x # Genesis
    BY <1>2, <1>4, HeaderTypes
  <2> HIDE DEF x
  <2> QED BY <1>4, <2>1, OnPrev
<1>6. HeaderAt(x, k - 1) = HeaderAt(t, k - 1)
  BY <1>1, <1>2, AtAt
<1> QED BY <1>3, <1>4, <1>5, <1>6

LEMMA SettledBest ==
  ASSUME TypeOK, clean, Settled => Alive
  PROVE  BestChainAtKey
<1> SUFFICES ASSUME Settled, Alive, NEW i \in 1 .. Len(chains), NEW c \in Loaded,
                    HashAt(c, IdHeight(i)) = chains[i].id
             PROVE  WorkOf(chains[i].chain) >= WorkOf(c)
  BY DEF BestChainAtKey
<1> DEFINE d == chains[i].chain
<1>1. d \in Loaded
  BY DEF Loaded
<1>2. /\ Live = Loaded /\ Loaded \subseteq Chain /\ cur = NoChain /\ Node(d)
      /\ tip[c] \in Header /\ tip[d] \in Header
      /\ WorkOf(c) = Work[tip[c]] /\ WorkOf(d) = Work[tip[d]]
      /\ \A h \in Header : Contains(c, h) <=> OnBranch(h, tip[c])
  BY <1>1, SettledBasics
<1>3. bc[d].hash \in Header /\ bc[d].forkpoint = Height[bc[d].hash] /\ chains[i].id = bc[d].hash
  BY <1>2 DEF Node, Alive, Dict
<1>4. OnBranch(bc[d].hash, tip[c])
  BY <1>2, <1>3 DEF Contains, IdHeight
<1>5. \A e \in Live : bc[e].parent # NoChain => Work[tip[e]] <= Work[tip[bc[e].parent]]
  <2>1. Live \ {cur} = Live
    BY <1>2, ChainAssumption
  <2> QED BY <2>1 DEF Alive, ParentsBest
<1>6. Forest /\ Once
  BY DEF Alive
<1>7. Work[tip[c]] <= Work[tip[d]]
  <2> HIDE DEF d
  <2> QED BY <1>1, <1>2, <1>4, <1>5, <1>6, FirstHasMost
<1>8. Work[tip[c]] \in Nat /\ Work[tip[d]] \in Nat
  BY <1>2, HeaderAssumption
<1> QED BY <1>2, <1>7, <1>8

LEMMA SettledFiles == TypeOK /\ (Settled => Alive) => FilesAreChains
<1> DEFINE own == {FileOf(bc[c]) : c \in Loaded}
<1> SUFFICES ASSUME TypeOK, Settled, Alive
             PROVE  /\ Cardinality(own) = Len(chains)
                    /\ \A c \in Loaded : /\ FileOf(bc[c]) \in DOMAIN files
                                         /\ Len(files[FileOf(bc[c])]) = bc[c].size
                    /\ clean => DOMAIN files = own
  BY DEF FilesAreChains
<1>1. Live = Loaded /\ \A c \in Loaded : Node(c) /\ Filed(c)
  BY SettledBasics
<1>2. Cardinality(own) = Len(chains)
  <2> DEFINE n == Len(chains)
             f == [i \in 1 .. n |-> FileOf(bc[chains[i].chain])]
  <2>1. n \in Nat
    BY DEF TypeOK
  <2>2. f \in [1 .. n -> own]
    BY DEF Loaded
  <2>3. \A q \in own : \E i \in 1 .. n : f[i] = q
    <3>1. \A c \in Loaded : \E i \in 1 .. n : chains[i].chain = c
      BY DEF Loaded
    <3> QED BY <3>1
  <2>4. ASSUME NEW i \in 1 .. n, NEW j \in 1 .. n, f[i] = f[j] PROVE i = j
    <3>1. chains[i].chain \in Loaded /\ chains[j].chain \in Loaded
      BY DEF Loaded
    <3>2. FileOf(bc[chains[i].chain]) = FileOf(bc[chains[j].chain])
      BY <2>4
    <3>3. chains[i].chain = chains[j].chain
      BY <1>1, <3>1, <3>2, FilesDiffer DEF Alive
    <3> QED BY <3>3 DEF Alive, Dict
  <2> HIDE DEF f, own, n
  <2>5. f \in Bijection(1 .. n, own)
    BY <2>2, <2>3, <2>4 DEF Bijection, Injection, Surjection, IsInjective
  <2>6. ExistsBijection(1 .. n, own)
    BY <2>5 DEF ExistsBijection
  <2>7. Cardinality(own) = n
    BY <2>1, <2>6, FS_CountingElements
  <2> QED BY <2>7 DEF n
<1>3. \A c \in Loaded : FileOf(bc[c]) \in DOMAIN files /\ Len(files[FileOf(bc[c])]) = bc[c].size
  BY <1>1, Sizes DEF Filed
<1>4. clean => DOMAIN files = own
  BY <1>1 DEF Alive, NoStrays
<1> QED BY <1>2, <1>3, <1>4

-----------------------------------------------------------------------------
(* The count of swaps *)

\* A set of live objects that has every ancestor of cur, and not cur itself
Above(S) ==
  /\ S \subseteq Live /\ cur \notin S
  /\ \A c \in S \cup {cur} : bc[c].parent # NoChain => bc[c].parent \in S

\* Each swap leaves cur fewer ancestors to swap with.
Limited ==
  pc \in {"swap", "parent", "rename", "adopt"} =>
    \E S \in SUBSET Live : Above(S) /\ swaps + Cardinality(S) < Cardinality(Live)

LEMMA LoadedFinite ==
  ASSUME TypeOK
  PROVE  IsFiniteSet(Loaded) /\ Cardinality(Loaded) <= Len(chains)
<1> DEFINE f == [i \in 1 .. Len(chains) |-> chains[i].chain]
<1>1. Len(chains) \in Nat
  BY DEF TypeOK
<1>2. f \in [1 .. Len(chains) -> Loaded] /\ \A c \in Loaded : \E i \in 1 .. Len(chains) : f[i] = c
  BY DEF Loaded
<1> HIDE DEF f
<1>3. ExistsSurjection(1 .. Len(chains), Loaded)
  BY <1>2 DEF ExistsSurjection, Surjection
<1> QED BY <1>1, <1>3, FS_SurjCardinalityBound, FS_NatSurjection

LEMMA LiveFinite ==
  ASSUME TypeOK
  PROVE  IsFiniteSet(Live)
<1>1. IsFiniteSet(Loaded)
  BY LoadedFinite
<1>2. IsFiniteSet({cur} \ {NoChain})
  BY FS_Singleton, FS_Subset
<1> QED BY <1>1, <1>2, FS_Union DEF Live

\* When the loop begins, the objects of lower rank are above cur.
LEMMA LoopBegins == TypeOK /\ Alive /\ pc = "swap" /\ swaps = 0 => Limited
<1> SUFFICES ASSUME TypeOK, Alive, pc = "swap", swaps = 0 PROVE Limited
  OBVIOUS
<1>1. cur \in Live /\ Live \subseteq Chain /\ Loaded \subseteq Live /\ \A c \in Live : Node(c)
  BY SwapBasics, AliveBasics DEF Alive
<1>2. PICK r \in [Chain -> Nat] : Ranked(r)
  BY DEF Alive, Forest
<1> DEFINE S == {d \in Live : r[d] < r[cur]}
<1>3. \A d \in Live : r[d] \in Nat
  BY <1>1
<1>4. Above(S)
  <2>1. S \subseteq Live /\ cur \notin S
    BY <1>1, <1>3
  <2>2. ASSUME NEW c \in S \cup {cur}, bc[c].parent # NoChain PROVE bc[c].parent \in S
    <3>1. c \in Live /\ (c = cur \/ r[c] < r[cur])
      BY <1>1, <2>2
    <3>2. bc[c].parent \in Live /\ r[bc[c].parent] < r[c]
      BY <1>1, <1>2, <2>2, <3>1 DEF Node, Ranked
    <3> QED BY <1>1, <1>3, <3>1, <3>2
  <2> HIDE DEF S
  <2> QED BY <2>1, <2>2 DEF Above
<1>5. Cardinality(S) < Cardinality(Live) /\ Cardinality(S) \in Nat
  <2>1. IsFiniteSet(Live) /\ IsFiniteSet(Live \ {cur}) /\ Cardinality(Live \ {cur}) = Cardinality(Live) - 1
    BY <1>1, LiveFinite, FS_RemoveElement
  <2>2. S \in SUBSET (Live \ {cur})
    BY <1>4 DEF Above
  <2> HIDE DEF S
  <2>3. IsFiniteSet(S) /\ Cardinality(S) <= Cardinality(Live \ {cur})
    BY <2>1, <2>2, FS_Subset
  <2> QED BY <2>1, <2>3, FS_CardinalityType
<1>6. S \in SUBSET Live
  OBVIOUS
<1> HIDE DEF S
<1> QED BY <1>4, <1>5, <1>6 DEF Limited

LEMMA LoopBeginsNext == (TypeOK /\ Alive /\ pc = "swap" /\ swaps = 0 => Limited)'
BY LoopBegins, PTL

\* The writes of a swap change the sizes of two objects.
LEMMA WritesLimited ==
  ASSUME TypeOK, Alive, Limited, WriteChild \/ WriteParent
  PROVE  Limited'
<1>1. pc \in {"swap", "parent"} /\ cur' = cur /\ chains' = chains /\ swaps' = swaps
  BY DEF WriteChild, WriteParent, op
<1>2. \A c \in Chain : bc'[c].parent = bc[c].parent
  <2>1. \A d, data, k : Store(d, data, k) => \A c \in Chain : bc'[c].parent = bc[c].parent
    BY DEF Store, TypeOK
  <2> QED BY <2>1 DEF WriteChild, WriteParent
<1>3. Live' = Live /\ Live \subseteq Chain /\ cur \in Chain
  BY <1>1, AliveBasics DEF Live, Loaded, Alive
<1>4. PICK S \in SUBSET Live : Above(S) /\ swaps + Cardinality(S) < Cardinality(Live)
  BY <1>1 DEF Limited
<1>5. Above(S)'
  BY <1>1, <1>2, <1>3, <1>4 DEF Above
<1> QED BY <1>1, <1>3, <1>4, <1>5 DEF Limited

\* The old parent is no longer above cur.
LEMMA ExchangeLimited ==
  ASSUME TypeOK, Alive, Limited, Exchange
  PROVE  Limited'
<1>1. pc = "rename" /\ cur' = cur /\ swaps' = swaps + 1 /\ Live' = Live
  BY ExchangeBody DEF Exchange
<1>2. /\ cur \in Live /\ P \in Live /\ P # cur /\ bc[cur].parent = P /\ P # NoChain
      /\ Live \subseteq Chain /\ Loaded \subseteq Live
  BY <1>1, MovedIs, AliveBasics DEF Alive
<1>3. PICK S \in SUBSET Live : Above(S) /\ swaps + Cardinality(S) < Cardinality(Live)
  BY <1>1 DEF Limited
<1>4. PICK r \in [Chain -> Nat] : Ranked(r)
  BY DEF Alive, Forest
<1>5. P \in S
  BY <1>2, <1>3 DEF Above
<1>6. bc'[cur].parent = bc[P].parent /\ \A d \in Chain \ {cur, P} : bc'[d].parent = bc[d].parent
  <2>1. Promoted.parent = bc[P].parent
    BY <1>2 DEF Promoted, TypeOK
  <2> QED BY <1>2, <2>1 DEF Exchange, TypeOK
<1>7. PICK T \in SUBSET S : T = {d \in S : r[d] < r[P]}
  OBVIOUS
<1>8. P \notin T /\ cur \notin S /\ \A d \in Live : r[d] \in Nat
  BY <1>2, <1>3, <1>7 DEF Above
<1>9. ASSUME NEW d \in T \cup {P}, bc[d].parent # NoChain PROVE bc[d].parent \in T
  <2>1. d \in S /\ d \in Live /\ (d = P \/ r[d] < r[P])
    BY <1>5, <1>7
  <2>2. bc[d].parent \in S /\ r[bc[d].parent] < r[d]
    BY <1>3, <1>4, <1>9, <2>1 DEF Above, Ranked
  <2> QED BY <1>2, <1>3, <1>7, <1>8, <2>1, <2>2
<1>10. Above(T)'
  <2>1. ASSUME NEW d \in T \cup {cur}, bc'[d].parent # NoChain PROVE bc'[d].parent \in T
    <3>1. CASE d = cur
      BY <1>6, <1>9, <2>1, <3>1
    <3>2. CASE d # cur
      <4>1. d \in T /\ d \in Chain \ {cur, P}
        BY <1>2, <1>3, <1>8, <2>1, <3>2
      <4> QED BY <1>6, <1>9, <2>1, <4>1
    <3> QED BY <3>1, <3>2
  <2> QED BY <1>1, <1>3, <1>8, <2>1 DEF Above
<1>11. Cardinality(T) + 1 <= Cardinality(S) /\ Cardinality(T) \in Nat /\ Cardinality(S) \in Nat
       /\ Cardinality(Live) \in Nat
  <2>1. IsFiniteSet(Live) /\ IsFiniteSet(S)
    BY LiveFinite, FS_Subset
  <2>2. IsFiniteSet(S \ {P}) /\ Cardinality(S \ {P}) = Cardinality(S) - 1
    BY <1>5, <2>1, FS_RemoveElement
  <2>3. IsFiniteSet(T) /\ Cardinality(T) <= Cardinality(S \ {P})
    BY <1>8, <2>2, FS_Subset
  <2> QED BY <2>1, <2>2, <2>3, FS_CardinalityType
<1>12. swaps' + Cardinality(T) < Cardinality(Live)
  BY <1>1, <1>3, <1>11 DEF TypeOK
<1> QED BY <1>1, <1>3, <1>7, <1>10, <1>12 DEF Limited

\* No ancestor of cur was a child of the old parent.
LEMMA AdoptLimited ==
  ASSUME TypeOK, Alive, Limited, Adopt
  PROVE  Limited'
<1>1. /\ pc = "adopt" /\ cur' = cur /\ swaps' = swaps /\ chains' = chains
      /\ bc' = [c \in Chain |-> IF Adopted(c) THEN [bc[c] EXCEPT !.parent = cur] ELSE bc[c]]
  BY DEF Adopt, op
<1>2. cur \in Loaded /\ old \in Loaded /\ bc[old].parent = cur /\ cur # NoChain
  <2>1. Adopting /\ cur \in Chain
    BY <1>1 DEF Alive
  <2> QED BY <2>1, ChainAssumption DEF Adopting
<1>3. Live' = Live /\ Live \subseteq Chain /\ cur \in Chain /\ NoChain \notin Live /\ Loaded \subseteq Live
  BY <1>1, <1>2, AliveBasics DEF Live, Loaded, Alive
<1>4. PICK S \in SUBSET Live : Above(S) /\ swaps + Cardinality(S) < Cardinality(Live)
  BY <1>1 DEF Limited
<1>5. old \notin S /\ old # NoChain
  BY <1>2, <1>3, <1>4 DEF Above
<1>6. \A c \in S \cup {cur} : bc'[c] = bc[c]
  <2>1. ASSUME NEW c \in S \cup {cur} PROVE ~Adopted(c)
    BY <1>4, <1>5 DEF Above, Adopted
  <2> QED BY <1>1, <1>3, <2>1
<1>7. Above(S)'
  BY <1>1, <1>3, <1>4, <1>6 DEF Above
<1> QED BY <1>1, <1>3, <1>4, <1>7 DEF Limited

LEMMA NextLimited == Inv /\ (Sound => Limited) /\ Next => (Sound => Limited)'
<1> SUFFICES ASSUME Inv, Sound => Limited, Next, Sound' PROVE Limited'
  OBVIOUS
<1>1. Body' /\ Sound
  BY NextInv, Flags DEF Inv, Sound
<1>2. /\ Limited
      /\ pc \notin {"down", "load"} => TypeOK /\ Alive
      /\ pc' = "swap" => TypeOK' /\ Alive'
  BY <1>1 DEF Inv, Body
<1>3. CASE Receive
  <2>1. \A h, c : SaveHeader(h) \/ Fork(h) \/ ConnectChunk(c, h) => pc' = "swap" /\ swaps' = 0
    BY DEF SaveHeader, Fork, ConnectChunk, Swap
  <2>2. \A h : ForkRaises(h) => pc' = "idle"
    BY DEF ForkRaises, BeginsFork
  <2>3. (pc' = "swap" /\ swaps' = 0) \/ pc' = "idle"
    BY <1>3, <2>1, <2>2 DEF Receive
  <2>4. CASE pc' = "swap" /\ swaps' = 0
    BY <1>2, <2>4, LoopBeginsNext
  <2>5. CASE pc' = "idle"
    BY <2>5 DEF Limited
  <2> QED BY <2>3, <2>4, <2>5
<1>4. CASE SwapStep
  <2>1. TypeOK /\ Alive
    BY <1>2, <1>4 DEF SwapStep, SwapEnds, SwapRaises, WriteChild, WriteParent, Exchange, Adopt
  <2>2. CASE SwapEnds \/ SwapRaises
    BY <2>2 DEF SwapEnds, SwapRaises, Limited
  <2> QED BY <1>2, <1>4, <2>1, <2>2, WritesLimited, ExchangeLimited, AdoptLimited DEF SwapStep
<1>5. CASE Load
  <2>1. pc' \in {"load", "idle"}
    BY <1>5 DEF Load, LoadMain, LoadEnds, LoadFork, DeleteFork
  <2> QED BY <2>1 DEF Limited
<1>6. CASE Crash
  <2>1. pc' = "down"
    BY <1>6 DEF Crash, Stop, CrashInChild, CrashInFork, CrashInParent, CrashInChunk, Die
  <2> QED BY <2>1 DEF Limited
<1> QED BY <1>3, <1>4, <1>5, <1>6 DEF Next

LEMMA SwapsLimited == Spec => [](Inv /\ (Sound => Limited))
<1>1. Init => Inv /\ (Sound => Limited)
  BY InitInv DEF Init, Limited
<1>2. Inv /\ (Sound => Limited) /\ [Next]_vars => (Inv /\ (Sound => Limited))'
  <2>1. ASSUME UNCHANGED vars, Sound => Limited PROVE (Sound => Limited)'
    <3>1. /\ bc' = bc /\ chains' = chains /\ pc' = pc /\ cur' = cur /\ swaps' = swaps
          /\ intact' = intact
      BY <2>1 DEF vars, objects, op, exchange, history
    <3>2. Live' = Live /\ Sound' = Sound
      BY <3>1 DEF Live, Loaded, Sound
    <3>3. \A S : Above(S)' <=> Above(S)
      BY <3>1, <3>2 DEF Above
    <3> QED BY <2>1, <3>1, <3>2, <3>3 DEF Limited
  <2> QED BY <2>1, NextLimited, NextInv, StutterInv
<1> QED BY <1>1, <1>2, PTL DEF Spec

-----------------------------------------------------------------------------
(* The properties *)

\* Every variable of the chains and of their files keeps its type.
THEOREM ChainTypeCorrect == Spec => [](Sound => TypeOK)
<1>1. Inv => (Sound => TypeOK) BY DEF Inv, Body
<1> QED BY ChainsInvariance, <1>1, PTL

\* read_header and get_hash: whatever forks, swaps, deaths and starts came
\* before, a chain reads one unbroken branch from the checkpoint to its tip.
THEOREM EveryChainIsABranch == Spec => [](Sound => ChainsAreBranches)
<1>1. Inv => (Sound => ChainsAreBranches)
  BY SettledBranches DEF Inv, Body, Settled
<1> QED BY ChainsInvariance, <1>1, PTL

\* _swap_with_parent exchanges files and parameters, and each object goes on
\* containing the headers that an interface saved in it.
THEOREM HeadersStayWithTheirChain == Spec => [](Sound => InstancesKeepTheirHeaders)
<1>1. Inv => (Sound => InstancesKeepTheirHeaders)
  BY SettledBasics DEF Inv, Body, Settled, InstancesKeepTheirHeaders
<1> QED BY ChainsInvariance, <1>1, PTL

\* write and os.replace: two chains never share a file, a chain's file has the
\* size the object believes, and no file is left behind while nothing failed.
THEOREM EveryChainHasItsFile == Spec => [](Sound => FilesAreChains)
<1>1. Inv => (Sound => FilesAreChains)
  BY SettledFiles DEF Inv, Body, Settled
<1> QED BY ChainsInvariance, <1>1, PTL

\* get_best_chain: while no swap and no write was cut short, the chain at a key
\* has the most work of all chains that contain the header of that key.
THEOREM BestChainIsBest == Spec => []BestChainAtKey
<1>1. Inv => BestChainAtKey
  <2> SUFFICES ASSUME Inv, clean PROVE BestChainAtKey
    BY DEF BestChainAtKey
  <2>1. TypeOK /\ (Settled => Alive)
    BY DEF Inv, Sound, Body, Settled
  <2> QED BY <2>1, SettledBest
<1> QED BY ChainsInvariance, <1>1, PTL

\* _swap_with_parent takes the name of the demoted parent's file to be new, and
\* it is: os.replace overwrites no headers.
THEOREM RenameOverwritesNothing ==
  Spec => [](Sound /\ pc = "rename" => FileOf(Demoted) \notin DOMAIN files)
<1>1. Inv => (Sound /\ pc = "rename" => FileOf(Demoted) \notin DOMAIN files)
  <2> SUFFICES ASSUME Inv, Sound, pc = "rename" PROVE FileOf(Demoted) \notin DOMAIN files
    OBVIOUS
  <2>1. TypeOK /\ Alive
    BY DEF Inv, Body
  <2>2. /\ cur # NoChain /\ P \in Chain /\ Height[MovedHash] = bc[cur].forkpoint
        /\ Prev[MovedHash] = bc[cur].prev
    BY <2>1, MovedIs, ChainAssumption DEF TypeOK, P
  <2>3. /\ Demoted.parent = cur /\ Demoted.forkpoint = bc[cur].forkpoint
        /\ Demoted.hash = MovedHash /\ Demoted.prev = bc[cur].prev
    BY <2>2 DEF Demoted, TypeOK
  <2>4. FileOf(Demoted) = NameOf(MovedHash)
    BY <2>2, <2>3 DEF FileOf, NameOf
  <2> QED BY <2>1, <2>4, NewName
<1> QED BY ChainsInvariance, <1>1, PTL

\* read_blockchains: while no swap and no write was cut short, a start finds
\* the parent of every fork and deletes no file.
THEOREM StartLosesNoFork == Spec => CleanStopLosesNoFork
<1> DEFINE Same == clean /\ pc = "load" => DOMAIN files' = DOMAIN files
<1>1. Inv /\ [Next]_vars => [Same]_vars
  <2> SUFFICES ASSUME Inv, Next, clean, pc = "load" PROVE DOMAIN files' = DOMAIN files
    OBVIOUS
  <2>1. TypeOK /\ Durable /\ Loading
    BY DEF Inv, Sound, Body
  <2>2. ~Receive
    BY DEF Receive, SaveHeader, Fork, ForkRaises, BeginsFork, ConnectChunk, Continues
  <2>3. ~SwapStep
    BY DEF SwapStep, SwapEnds, SwapRaises, WriteChild, WriteParent, Exchange, Adopt
  <2>4. ~Crash
    BY DEF Crash, Stop, CrashInChild, CrashInFork, BeginsFork, CrashInParent, CrashInChunk, Continues
  <2>5. ~LoadMain /\ (LoadEnds => files' = files)
    BY DEF LoadMain, LoadEnds
  <2>6. \A p \in DOMAIN files : LoadFork(p) => files' = files
    BY DEF LoadFork
  <2>7. \A p \in DOMAIN files : ~DeleteFork(p)
    BY <2>1, NextReadable DEF DeleteFork
  <2> QED BY <2>2, <2>3, <2>4, <2>5, <2>6, <2>7 DEF Next, Load
<1> QED BY ChainsInvariance, <1>1, PTL DEF Spec, CleanStopLosesNoFork

\* swap_with_parent: every swap leaves the chain fewer ancestors to swap with,
\* and it began with fewer than there are chains: the exception "swapping fork
\* with parent too many times" is never raised.
THEOREM SwapLoopIsBounded ==
  Spec => [](Sound /\ pc = "adopt" => swaps < Len(chains))
<1>1. Inv /\ (Sound => Limited) => (Sound /\ pc = "adopt" => swaps < Len(chains))
  <2> SUFFICES ASSUME Inv, Limited, Sound, pc = "adopt" PROVE swaps < Len(chains)
    OBVIOUS
  <2>1. TypeOK /\ Alive
    BY DEF Inv, Body
  <2>2. Live = Loaded
    BY <2>1 DEF Alive, Adopting, Live
  <2>3. PICK S \in SUBSET Live : swaps + Cardinality(S) < Cardinality(Live)
    BY DEF Limited
  <2>4. /\ IsFiniteSet(Loaded) /\ Cardinality(Loaded) <= Len(chains)
        /\ Cardinality(Loaded) \in Nat /\ Cardinality(S) \in Nat
    BY <2>1, <2>2, LoadedFinite, FS_Subset, FS_CardinalityType
  <2>5. swaps \in Nat /\ Len(chains) \in Nat
    BY <2>1 DEF TypeOK
  <2> QED BY <2>2, <2>3, <2>4, <2>5
<1> QED BY SwapsLimited, <1>1, PTL
=============================================================================
