-------------------------- MODULE HeaderTreeProofs --------------------------
(***************************************************************************)
(* The order of the headers that HeaderTree's assumption gives: what lies  *)
(* on the way to a header.  Each fact by induction along Prev is proved    *)
(* from a lowest counterexample.                                           *)
(***************************************************************************)
EXTENDS HeaderTree, WellFoundedInduction, TLAPS

\* A non-empty set of numbers has a least one: what takes the place of induction.
LEMMA Least ==
  ASSUME NEW T \in SUBSET Nat, T # {}
  PROVE  \E m \in T : \A n \in T : m <= n
<1>1. IsWellFoundedOn(OpToRel(<, Nat), Nat)
  BY NatLessThanWellFounded
<1>2. PICK m \in T : \A n \in T : ~ (<<n, m>> \in OpToRel(<, Nat))
  BY <1>1, WFMin, Zenon
<1>3. \A n \in T : n \in Nat /\ m \in Nat /\ ~(n < m)
  BY <1>2 DEF OpToRel
<1> QED BY <1>3

\* A set of headers with all their predecessors has Genesis, or is empty.
LEMMA NoneLowest ==
  ASSUME NEW Bad \in SUBSET Header, Genesis \notin Bad,
         \A h \in Bad : Prev[h] \in Bad
  PROVE  Bad = {}
<1> SUFFICES ASSUME Bad # {} PROVE FALSE
  OBVIOUS
<1> DEFINE T == {Height[h] : h \in Bad}
<1>1. T \in SUBSET Nat /\ T # {}
  BY HeaderAssumption
<1>2. PICK m \in T : \A n \in T : m <= n
  <2> HIDE DEF T
  <2> QED BY <1>1, Least
<1>3. PICK h \in Bad : Height[h] = m
  OBVIOUS
<1>4. Height[h] = Height[Prev[h]] + 1 /\ Prev[h] \in Bad /\ Height[Prev[h]] \in Nat
  BY <1>3, HeaderAssumption
<1>5. Height[Prev[h]] \in T
  BY <1>4
<1>6. m <= Height[Prev[h]]
  BY <1>2, <1>5
<1> QED BY <1>3, <1>4, <1>6

LEMMA HeaderTypes ==
  Genesis \in Header /\ Height[Genesis] = 0 /\ \A h \in Header : Height[h] \in Nat
BY HeaderAssumption

LEMMA BranchLength == \A h \in Header : Len(Branch[h]) = Height[h]
<1> DEFINE Bad == {h \in Header : Len(Branch[h]) # Height[h]}
<1>1. Genesis \notin Bad
  BY HeaderAssumption
<1>2. ASSUME NEW h \in Bad PROVE Prev[h] \in Bad
  <2>1. /\ Height[h] = Height[Prev[h]] + 1 /\ Prev[h] \in Header /\ Height[Prev[h]] \in Nat
        /\ Branch[h] = Append(Branch[Prev[h]], h) /\ Branch[Prev[h]] \in Seq(Header)
    BY <1>1, <1>2, HeaderAssumption
  <2>2. Len(Branch[h]) = Len(Branch[Prev[h]]) + 1
    BY <2>1
  <2> QED BY <1>2, <2>1, <2>2
<1> HIDE DEF Bad
<1>3. Bad \in SUBSET Header
  BY DEF Bad
<1> QED BY <1>1, <1>2, <1>3, NoneLowest DEF Bad

LEMMA PrevBelow ==
  ASSUME NEW h \in Header, h # Genesis
  PROVE  /\ Prev[h] \in Header /\ Height[h] = Height[Prev[h]] + 1
         /\ Height[Prev[h]] \in Nat /\ Height[h] \in Nat
BY HeaderAssumption

LEMMA GenesisLow == \A h \in Header : Height[h] = 0 <=> h = Genesis
<1> SUFFICES ASSUME NEW h \in Header PROVE Height[h] = 0 <=> h = Genesis
  OBVIOUS
<1>1. CASE h = Genesis
  BY <1>1, HeaderAssumption
<1>2. CASE h # Genesis
  <2>1. Height[h] = Height[Prev[h]] + 1 /\ Height[Prev[h]] \in Nat
    BY <1>2, PrevBelow
  <2> QED BY <1>2, <2>1
<1> QED BY <1>1, <1>2

\* The way to a header ends with it ...
LEMMA AtTop ==
  ASSUME NEW h \in Header
  PROVE  HeaderAt(h, Height[h]) = h
<1>1. CASE h = Genesis
  BY <1>1, HeaderAssumption DEF HeaderAt
<1>2. CASE h # Genesis
  <2>1. /\ Branch[h] = Append(Branch[Prev[h]], h) /\ Branch[Prev[h]] \in Seq(Header)
    BY <1>2, HeaderAssumption
  <2>2. Len(Branch[Prev[h]]) + 1 = Height[h] /\ Height[h] # 0
    <3>1. Prev[h] \in Header /\ Height[h] = Height[Prev[h]] + 1 /\ Height[Prev[h]] \in Nat
      BY <1>2, PrevBelow
    <3> QED BY <3>1, BranchLength
  <2>3. Append(Branch[Prev[h]], h)[Len(Branch[Prev[h]]) + 1] = h
    BY <2>1
  <2> QED BY <2>1, <2>2, <2>3 DEF HeaderAt
<1> QED BY <1>1, <1>2

\* ... and goes on from the way to its predecessor.
LEMMA AtPrev ==
  ASSUME NEW h \in Header, h # Genesis, NEW k \in 0 .. Height[Prev[h]]
  PROVE  HeaderAt(h, k) = HeaderAt(Prev[h], k)
<1>1. /\ Branch[h] = Append(Branch[Prev[h]], h) /\ Branch[Prev[h]] \in Seq(Header)
      /\ Len(Branch[Prev[h]]) = Height[Prev[h]]
  BY PrevBelow, BranchLength, HeaderAssumption
<1> QED BY <1>1 DEF HeaderAt

LEMMA AtType ==
  ASSUME NEW h \in Header, NEW k \in 0 .. Height[h]
  PROVE  HeaderAt(h, k) \in Header /\ Height[HeaderAt(h, k)] = k
<1> DEFINE Fine(x) == \A j \in 0 .. Height[x] : HeaderAt(x, j) \in Header /\ Height[HeaderAt(x, j)] = j
           Bad == {x \in Header : ~Fine(x)}
<1>1. Genesis \notin Bad
  BY HeaderAssumption DEF HeaderAt
<1>2. ASSUME NEW x \in Bad PROVE Prev[x] \in Bad
  <2>1. x \in Header /\ x # Genesis
    BY <1>1
  <2>2. SUFFICES ASSUME Fine(Prev[x]) PROVE Fine(x)
    BY <2>1, PrevBelow
  <2>3. SUFFICES ASSUME NEW j \in 0 .. Height[x]
                 PROVE  HeaderAt(x, j) \in Header /\ Height[HeaderAt(x, j)] = j
    OBVIOUS
  <2>4. CASE j = Height[x]
    BY <2>1, <2>4, AtTop
  <2>5. CASE j # Height[x]
    <3>1. j \in 0 .. Height[Prev[x]]
      BY <2>1, <2>5, PrevBelow
    <3> QED BY <2>1, <2>2, <3>1, AtPrev
  <2> QED BY <2>4, <2>5
<1>3. Bad = {}
  <2> HIDE DEF Bad
  <2>1. Bad \in SUBSET Header
    BY DEF Bad
  <2> QED BY <1>1, <1>2, <2>1, NoneLowest
<1> QED BY <1>3

\* What is below a header on the way to h is on the way to h.
LEMMA AtAt ==
  ASSUME NEW h \in Header, NEW k \in 0 .. Height[h], NEW j \in 0 .. k
  PROVE  HeaderAt(HeaderAt(h, k), j) = HeaderAt(h, j)
<1> DEFINE Fine(x) == \A m \in 0 .. Height[x] : \A n \in 0 .. m :
                        HeaderAt(HeaderAt(x, m), n) = HeaderAt(x, n)
           Bad == {x \in Header : ~Fine(x)}
<1>1. Genesis \notin Bad
  BY HeaderAssumption DEF HeaderAt
<1>2. ASSUME NEW x \in Bad PROVE Prev[x] \in Bad
  <2>1. x \in Header /\ x # Genesis
    BY <1>1
  <2>2. SUFFICES ASSUME Fine(Prev[x]) PROVE Fine(x)
    BY <2>1, PrevBelow
  <2>3. SUFFICES ASSUME NEW m \in 0 .. Height[x], NEW n \in 0 .. m
                 PROVE  HeaderAt(HeaderAt(x, m), n) = HeaderAt(x, n)
    OBVIOUS
  <2>4. CASE m = Height[x]
    BY <2>1, <2>4, AtTop
  <2>5. CASE m # Height[x]
    <3>1. m \in 0 .. Height[Prev[x]] /\ n \in 0 .. Height[Prev[x]]
      BY <2>1, <2>5, PrevBelow
    <3>2. HeaderAt(x, m) = HeaderAt(Prev[x], m) /\ HeaderAt(x, n) = HeaderAt(Prev[x], n)
      BY <2>1, <3>1, AtPrev
    <3> QED BY <2>2, <3>1, <3>2
  <2> QED BY <2>4, <2>5
<1>3. Bad = {}
  <2> HIDE DEF Bad
  <2>1. Bad \in SUBSET Header
    BY DEF Bad
  <2> QED BY <1>1, <1>2, <2>1, NoneLowest
<1> QED BY <1>3

LEMMA OnSelf == ASSUME NEW h \in Header PROVE OnBranch(h, h)
BY AtTop, HeaderAssumption DEF OnBranch

LEMMA OnGenesis == ASSUME NEW h \in Header PROVE OnBranch(Genesis, h)
BY HeaderAssumption DEF OnBranch, HeaderAt

LEMMA OnAt ==
  ASSUME NEW h \in Header, NEW k \in 0 .. Height[h]
  PROVE  OnBranch(HeaderAt(h, k), h)
BY AtType, HeaderAssumption DEF OnBranch

\* Two branches with a common header are the same up to it.
LEMMA AtOn ==
  ASSUME NEW a \in Header, NEW h \in Header, OnBranch(a, h), NEW k \in 0 .. Height[a]
  PROVE  HeaderAt(h, k) = HeaderAt(a, k)
<1>1. Height[a] \in 0 .. Height[h] /\ HeaderAt(h, Height[a]) = a
  BY HeaderAssumption DEF OnBranch
<1> QED BY <1>1, AtAt

LEMMA OnTrans ==
  ASSUME NEW a \in Header, NEW b \in Header, NEW c \in Header, OnBranch(a, b), OnBranch(b, c)
  PROVE  OnBranch(a, c)
<1>1. /\ Height[a] \in 0 .. Height[b] /\ HeaderAt(b, Height[a]) = a
      /\ Height[b] <= Height[c] /\ Height[a] <= Height[c]
  BY HeaderAssumption DEF OnBranch
<1>2. HeaderAt(c, Height[a]) = a
  BY <1>1, AtOn
<1> QED BY <1>1, <1>2 DEF OnBranch

LEMMA OnSame ==
  ASSUME NEW a \in Header, NEW b \in Header, OnBranch(a, b), Height[a] >= Height[b]
  PROVE  a = b
<1>1. Height[a] = Height[b]
  BY HeaderAssumption DEF OnBranch
<1> QED BY <1>1, AtTop DEF OnBranch

\* Of two headers on the way to a third, the lower is on the way to the other.
LEMMA OnCompare ==
  ASSUME NEW a \in Header, NEW b \in Header, NEW c \in Header,
         OnBranch(a, c), OnBranch(b, c), Height[a] <= Height[b]
  PROVE  OnBranch(a, b)
<1>1. Height[a] \in 0 .. Height[b] /\ HeaderAt(c, Height[a]) = a
  BY HeaderAssumption DEF OnBranch
<1>2. HeaderAt(c, Height[a]) = HeaderAt(b, Height[a])
  BY <1>1, AtOn
<1> QED BY <1>1, <1>2 DEF OnBranch

LEMMA OnPrev ==
  ASSUME NEW h \in Header, h # Genesis
  PROVE  /\ OnBranch(Prev[h], h) /\ ~OnBranch(h, Prev[h])
         /\ Prev[h] = HeaderAt(h, Height[h] - 1)
         /\ \A x \in Header : OnBranch(x, h) /\ x # h => OnBranch(x, Prev[h])
<1>1. /\ Prev[h] \in Header /\ Height[h] = Height[Prev[h]] + 1 /\ Height[Prev[h]] \in Nat
  BY PrevBelow
<1>2. HeaderAt(h, Height[Prev[h]]) = Prev[h]
  BY <1>1, AtPrev, AtTop
<1>3. OnBranch(Prev[h], h)
  BY <1>1, <1>2 DEF OnBranch
<1>4. ASSUME NEW x \in Header, OnBranch(x, h), x # h PROVE OnBranch(x, Prev[h])
  <2>1. Height[x] \in Nat /\ Height[x] < Height[h]
    BY <1>1, <1>4, OnSame, HeaderAssumption
  <2> QED BY <1>1, <1>3, <1>4, <2>1, OnCompare
<1> QED BY <1>1, <1>2, <1>3, <1>4 DEF OnBranch

\* Of two headers on the way to a third, one is on the way to the other.
LEMMA OnTotal ==
  ASSUME NEW a \in Header, NEW b \in Header, NEW c \in Header, OnBranch(a, c), OnBranch(b, c)
  PROVE  OnBranch(a, b) \/ OnBranch(b, a)
<1>1. Height[a] \in Nat /\ Height[b] \in Nat
  BY HeaderTypes
<1>2. CASE Height[a] <= Height[b]
  BY <1>2, OnCompare
<1>3. CASE Height[b] <= Height[a]
  BY <1>3, OnCompare
<1> QED BY <1>1, <1>2, <1>3

LEMMA OnBoth ==
  ASSUME NEW a \in Header, NEW b \in Header, OnBranch(a, b), OnBranch(b, a)
  PROVE  a = b
<1>1. Height[a] \in Nat /\ Height[b] \in Nat /\ Height[b] <= Height[a]
  BY HeaderTypes DEF OnBranch
<1> QED BY <1>1, OnSame

\* Branches that went apart stay apart as they grow.
LEMMA ApartGrows ==
  ASSUME NEW t \in Header, NEW u \in Header, NEW h \in Header, OnBranch(t, h),
         ~OnBranch(t, u), ~OnBranch(u, t)
  PROVE  ~OnBranch(h, u) /\ ~OnBranch(u, h)
BY OnTrans, OnTotal

\* Work grows along a branch.
LEMMA WorkGrows ==
  ASSUME NEW a \in Header, NEW b \in Header, OnBranch(a, b)
  PROVE  Work[a] \in Nat /\ Work[b] \in Nat /\ Work[a] <= Work[b]
<1> DEFINE Bad == {h \in Header : OnBranch(a, h) /\ ~(Work[a] <= Work[h])}
<1>1. \A h \in Header : Work[h] \in Nat
  BY HeaderAssumption
<1>2. Genesis \notin Bad
  <2>1. SUFFICES ASSUME OnBranch(a, Genesis) PROVE a = Genesis
    BY <1>1, HeaderTypes
  <2> QED BY <2>1, OnGenesis, OnBoth, HeaderTypes
<1>3. ASSUME NEW h \in Bad PROVE Prev[h] \in Bad
  <2>1. h \in Header /\ h # Genesis /\ h # a /\ OnBranch(a, h)
    BY <1>1, <1>2, <1>3
  <2>2. Prev[h] \in Header /\ OnBranch(a, Prev[h]) /\ Work[h] > Work[Prev[h]]
    BY <2>1, OnPrev, PrevBelow, HeaderAssumption
  <2> QED BY <1>1, <1>3, <2>2
<1>4. Bad = {}
  <2> HIDE DEF Bad
  <2>1. Bad \in SUBSET Header
    BY DEF Bad
  <2> QED BY <1>2, <1>3, <2>1, NoneLowest
<1> QED BY <1>1, <1>4
=============================================================================
