--------------------------- MODULE FreeListOpsProofs ---------------------------
(***************************************************************************)
(* What the operators of FreeListOps return, for every list and every      *)
(* request: the lemmas that the proofs about FreeList and Runtime cite.    *)
(***************************************************************************)
EXTENDS FreeListOps, SequenceTheorems, TLAPS

\* The blocks of a region lo .. hi - 1 that can hold a FreeBlock.
BlocksOf(lo, hi) ==
    {b \in [addr : Nat, size : Nat] :
        /\ b.addr >= lo
        /\ b.size >= FreeBlockWords
        /\ b.addr + b.size <= hi}

LEMMA BlocksOfFacts ==
    ASSUME NEW lo, NEW hi, NEW b \in BlocksOf(lo, hi)
    PROVE  /\ b.addr \in Nat /\ b.size \in Nat
           /\ b.addr >= lo /\ b.size >= 3 /\ b.addr + b.size <= hi
BY DEF BlocksOf, FreeBlockWords

\* Unlinking entry i shifts what follows it.
LEMMA RemoveAtFacts ==
    ASSUME NEW S, NEW s \in Seq(S), NEW i \in 1..Len(s)
    PROVE  /\ RemoveAt(s, i) \in Seq(S)
           /\ Len(RemoveAt(s, i)) = Len(s) - 1
           /\ \A j \in 1..(Len(s) - 1) :
                RemoveAt(s, i)[j] = IF j < i THEN s[j] ELSE s[j + 1]
<1> DEFINE a == SubSeq(s, 1, i - 1)
           b == SubSeq(s, i + 1, Len(s))
<1>1. Len(s) \in Nat /\ \A j \in 1..Len(s) : s[j] \in S
  OBVIOUS
<1>2. a \in Seq(S) /\ Len(a) = i - 1 /\ \A j \in 1..(i - 1) : a[j] = s[j]
  OBVIOUS
<1>3. /\ b \in Seq(S) /\ Len(b) = Len(s) - i
      /\ \A j \in 1..(Len(s) - i) : b[j] = s[i + j]
  OBVIOUS
<1>4. RemoveAt(s, i) = a \o b
  BY DEF RemoveAt
<1> HIDE DEF a, b
<1>5. /\ a \o b \in Seq(S)
      /\ Len(a \o b) = (i - 1) + (Len(s) - i)
      /\ \A j \in 1..((i - 1) + (Len(s) - i)) :
           (a \o b)[j] = IF j <= i - 1 THEN a[j] ELSE b[j - (i - 1)]
  <2>1. /\ a \o b \in Seq(S)
        /\ Len(a \o b) = Len(a) + Len(b)
        /\ \A j \in 1..(Len(a) + Len(b)) :
             (a \o b)[j] = IF j <= Len(a) THEN a[j] ELSE b[j - Len(a)]
    <3>1. a \in Seq(S) /\ b \in Seq(S)
      BY <1>2, <1>3
    <3> QED BY <3>1, ConcatProperties
  <2> QED BY <1>2, <1>3, <2>1
<1>6. (i - 1) + (Len(s) - i) = Len(s) - 1
  BY <1>1
<1>7. ASSUME NEW j \in 1..(Len(s) - 1)
      PROVE  (a \o b)[j] = IF j < i THEN s[j] ELSE s[j + 1]
  <2>1. CASE j < i
    BY <1>1, <1>2, <1>5, <1>6, <2>1
  <2>2. CASE ~(j < i)
    <3>1. (a \o b)[j] = b[j - (i - 1)]
      BY <1>1, <1>5, <1>6, <2>2
    <3>2. j - (i - 1) \in 1..(Len(s) - i) /\ i + (j - (i - 1)) = j + 1
      BY <1>1, <2>2
    <3> QED BY <1>3, <2>2, <3>1, <3>2
  <2> QED BY <2>1, <2>2
<1> QED BY <1>4, <1>5, <1>6, <1>7

\* Linking e in front of entry i shifts what follows it.
LEMMA InsertAtFacts ==
    ASSUME NEW S, NEW s \in Seq(S), NEW i \in 1..(Len(s) + 1), NEW e \in S
    PROVE  /\ InsertAt(s, i, e) \in Seq(S)
           /\ Len(InsertAt(s, i, e)) = Len(s) + 1
           /\ \A j \in 1..(i - 1) : InsertAt(s, i, e)[j] = s[j]
           /\ InsertAt(s, i, e)[i] = e
           /\ \A j \in (i + 1)..(Len(s) + 1) : InsertAt(s, i, e)[j] = s[j - 1]
<1> DEFINE a == SubSeq(s, 1, i - 1)
           b == SubSeq(s, i, Len(s))
           ae == a \o <<e>>
<1>1. Len(s) \in Nat /\ \A j \in 1..Len(s) : s[j] \in S
  OBVIOUS
<1>2. a \in Seq(S) /\ Len(a) = i - 1 /\ \A j \in 1..(i - 1) : a[j] = s[j]
  OBVIOUS
<1>3. /\ b \in Seq(S) /\ Len(b) = Len(s) - i + 1
      /\ \A j \in 1..(Len(s) - i + 1) : b[j] = s[i + j - 1]
  OBVIOUS
<1>4. InsertAt(s, i, e) = ae \o b
  BY DEF InsertAt
<1> HIDE DEF a, b
<1>5. /\ ae \in Seq(S) /\ Len(ae) = i
      /\ \A j \in 1..i : ae[j] = IF j < i THEN s[j] ELSE e
  BY <1>1, <1>2
<1> HIDE DEF ae
<1>6. /\ ae \o b \in Seq(S)
      /\ Len(ae \o b) = i + (Len(s) - i + 1)
      /\ \A j \in 1..(i + (Len(s) - i + 1)) :
           (ae \o b)[j] = IF j <= i THEN ae[j] ELSE b[j - i]
  <2>1. /\ ae \o b \in Seq(S)
        /\ Len(ae \o b) = Len(ae) + Len(b)
        /\ \A j \in 1..(Len(ae) + Len(b)) :
             (ae \o b)[j] = IF j <= Len(ae) THEN ae[j] ELSE b[j - Len(ae)]
    <3>1. ae \in Seq(S) /\ b \in Seq(S)
      BY <1>3, <1>5
    <3> QED BY <3>1, ConcatProperties
  <2> QED BY <1>3, <1>5, <2>1
<1>7. i + (Len(s) - i + 1) = Len(s) + 1
  BY <1>1
<1>8. (ae \o b)[i] = e /\ \A j \in 1..(i - 1) : (ae \o b)[j] = s[j]
  BY <1>1, <1>5, <1>6, <1>7
<1>9. ASSUME NEW j \in (i + 1)..(Len(s) + 1)
      PROVE  (ae \o b)[j] = s[j - 1]
  <2>1. (ae \o b)[j] = b[j - i]
    BY <1>1, <1>6, <1>7
  <2>2. j - i \in 1..(Len(s) - i + 1) /\ i + (j - i) - 1 = j - 1
    BY <1>1
  <2> QED BY <1>3, <2>1, <2>2
<1> QED BY <1>4, <1>6, <1>7, <1>8, <1>9

\* An aligned address is not below the one it was asked for.
LEMMA AlignUpFacts ==
    ASSUME NEW a \in Nat, NEW align \in Nat \ {0}
    PROVE  AlignUp(a, align) \in Nat /\ AlignUp(a, align) >= a
<1> DEFINE q == (a + align - 1) \div align
           r == (a + align - 1) % align
<1>1. q \in Int /\ r \in 0..(align - 1)
  OBVIOUS
<1>2. a + align - 1 = align * q + r
  OBVIOUS
<1>3. AlignUp(a, align) = align * q
  BY <1>1 DEF AlignUp
<1>4. align * q \in Int
  BY <1>1
<1> HIDE DEF q, r
<1> QED BY <1>1, <1>2, <1>3, <1>4
\* An entry in front of a list.
LEMMA PrependFacts ==
    ASSUME NEW S, NEW s \in Seq(S), NEW e \in S
    PROVE  /\ <<e>> \o s \in Seq(S)
           /\ Len(<<e>> \o s) = Len(s) + 1
           /\ \A j \in 1..(Len(s) + 1) :
                (<<e>> \o s)[j] = IF j = 1 THEN e ELSE s[j - 1]
<1> DEFINE h == <<e>>
<1>1. h \in Seq(S) /\ Len(h) = 1 /\ h[1] = e
  OBVIOUS
<1> HIDE DEF h
<1>2. /\ h \o s \in Seq(S)
      /\ Len(h \o s) = Len(h) + Len(s)
      /\ \A j \in 1..(Len(h) + Len(s)) :
           (h \o s)[j] = IF j <= Len(h) THEN h[j] ELSE s[j - Len(h)]
  BY <1>1, ConcatProperties
<1>3. Len(s) \in Nat
  OBVIOUS
<1>4. \A j \in 1..(Len(s) + 1) : (h \o s)[j] = IF j = 1 THEN e ELSE s[j - 1]
  BY <1>1, <1>2, <1>3
<1>5. h \o s \in Seq(S) /\ Len(h \o s) = Len(s) + 1
  BY <1>1, <1>2, <1>3
<1> QED BY <1>4, <1>5 DEF h

\* Where alloc puts the object, and the remainder it lists, lie in the block.
LEMMA AllocFacts ==
    ASSUME NEW lo \in Nat, NEW hi \in Nat, NEW b \in BlocksOf(lo, hi),
           NEW n \in Nat, NEW align \in Nat \ {0}, Fits(b, n, align)
    PROVE  /\ AllocAddr(b, align) \in Nat
           /\ AllocAddr(b, align) >= b.addr
           /\ AllocAddr(b, align) + n <= b.addr + b.size
           /\ Leftover(b, n, align) \in Nat
           /\ AllocAddr(b, align) + n + Leftover(b, n, align) = b.addr + b.size
<1>1. b.addr \in Nat /\ b.size \in Nat
  BY BlocksOfFacts
<1>2. AllocAddr(b, align) \in Nat /\ AllocAddr(b, align) >= b.addr
  BY <1>1, AlignUpFacts DEF AllocAddr
<1> QED BY <1>1, <1>2 DEF Fits, Needed, Leftover

\* The remainder that alloc puts back on the list.
Remainder(b, n, align) == Block(AllocAddr(b, align) + n, Leftover(b, n, align))

LEMMA RemainderFacts ==
    ASSUME NEW lo \in Nat, NEW hi \in Nat, NEW b \in BlocksOf(lo, hi),
           NEW n \in Nat, NEW align \in Nat \ {0}, Fits(b, n, align),
           Leftover(b, n, align) >= FreeBlockWords
    PROVE  /\ Remainder(b, n, align) \in BlocksOf(lo, hi)
           /\ Remainder(b, n, align).addr = AllocAddr(b, align) + n
           /\ Remainder(b, n, align).addr + Remainder(b, n, align).size = b.addr + b.size
BY AllocFacts, BlocksOfFacts DEF Remainder, Block, BlocksOf, FreeBlockWords

\* alloc leaves a list of blocks of the region.
LEMMA AllocListType ==
    ASSUME NEW lo \in Nat, NEW hi \in Nat, NEW s \in Seq(BlocksOf(lo, hi)),
           NEW i \in 1..Len(s), NEW n \in Nat, NEW align \in Nat \ {0},
           Fits(s[i], n, align)
    PROVE  AllocList(s, i, n, align) \in Seq(BlocksOf(lo, hi))
<1>1. s[i] \in BlocksOf(lo, hi)
  OBVIOUS
<1>2. RemoveAt(s, i) \in Seq(BlocksOf(lo, hi))
  BY RemoveAtFacts
<1>3. CASE Leftover(s[i], n, align) >= FreeBlockWords
  <2>1. Remainder(s[i], n, align) \in BlocksOf(lo, hi)
    BY <1>1, <1>3, RemainderFacts
  <2>2. <<Remainder(s[i], n, align)>> \o RemoveAt(s, i) \in Seq(BlocksOf(lo, hi))
    BY <1>2, <2>1, PrependFacts
  <2> QED BY <1>3, <2>2 DEF AllocList, Remainder
<1>4. CASE ~(Leftover(s[i], n, align) >= FreeBlockWords)
  BY <1>2, <1>4 DEF AllocList
<1> QED BY <1>3, <1>4

\* The block coalesce makes of two neighbours.
Merged(b, c) == [b EXCEPT !.size = @ + c.size]

\* A merge leaves a list of blocks of the region: the widened entry, and the
\* others where RemoveAt leaves them.
LEMMA MergeAtFacts ==
    ASSUME NEW lo \in Nat, NEW hi \in Nat, NEW s \in Seq(BlocksOf(lo, hi)),
           NEW i \in 1..Len(s), i < Len(s), AdjacentAt(s, i)
    PROVE  /\ Merged(s[i], s[i + 1]) \in BlocksOf(lo, hi)
           /\ Merged(s[i], s[i + 1]).addr = s[i].addr
           /\ Merged(s[i], s[i + 1]).size = s[i].size + s[i + 1].size
           /\ MergeAt(s, i) \in Seq(BlocksOf(lo, hi))
           /\ Len(MergeAt(s, i)) = Len(s) - 1
           /\ \A j \in 1..(Len(s) - 1) :
                MergeAt(s, i)[j] = IF j < i THEN s[j]
                                   ELSE IF j = i THEN Merged(s[i], s[i + 1])
                                   ELSE s[j + 1]
<1> DEFINE m == Merged(s[i], s[i + 1])
           w == [s EXCEPT ![i] = m]
<1>1. s[i] \in BlocksOf(lo, hi) /\ s[i + 1] \in BlocksOf(lo, hi)
  OBVIOUS
<1>2. /\ m \in BlocksOf(lo, hi) /\ m.addr = s[i].addr
      /\ m.size = s[i].size + s[i + 1].size
  <2>1. /\ s[i].addr \in Nat /\ s[i].size \in Nat
        /\ s[i + 1].addr \in Nat /\ s[i + 1].size \in Nat
        /\ s[i].addr >= lo /\ s[i].size >= 3
        /\ s[i + 1].addr + s[i + 1].size <= hi
        /\ s[i].addr + s[i].size = s[i + 1].addr
    BY <1>1, BlocksOfFacts DEF AdjacentAt
  <2>2. s[i] \in [addr : Nat, size : Nat]
    BY <1>1 DEF BlocksOf
  <2>3. m = [addr |-> s[i].addr, size |-> s[i].size + s[i + 1].size]
    BY <2>2 DEF Merged
  <2> HIDE DEF m
  <2>4. m.addr = s[i].addr /\ m.size = s[i].size + s[i + 1].size
    BY <2>3
  <2>5. m \in [addr : Nat, size : Nat]
    BY <2>1, <2>3
  <2>6. m.addr >= lo /\ m.size >= 3 /\ m.addr + m.size <= hi
    BY <2>1, <2>4
  <2> QED BY <2>4, <2>5, <2>6 DEF BlocksOf, FreeBlockWords
<1> HIDE DEF m
<1>3. /\ w \in Seq(BlocksOf(lo, hi)) /\ Len(w) = Len(s)
      /\ \A j \in 1..Len(s) : w[j] = IF j = i THEN m ELSE s[j]
  BY <1>2, ExceptSeq
<1>4. MergeAt(s, i) = RemoveAt(w, i + 1)
  BY DEF MergeAt, m, Merged
<1> HIDE DEF w
<1>5. i + 1 \in 1..Len(w) /\ Len(s) \in Nat
  BY <1>3
<1>6. /\ RemoveAt(w, i + 1) \in Seq(BlocksOf(lo, hi))
      /\ Len(RemoveAt(w, i + 1)) = Len(s) - 1
      /\ \A j \in 1..(Len(s) - 1) :
           RemoveAt(w, i + 1)[j] = IF j < i + 1 THEN w[j] ELSE w[j + 1]
  BY <1>3, <1>5, RemoveAtFacts
<1>7. ASSUME NEW j \in 1..(Len(s) - 1)
      PROVE  RemoveAt(w, i + 1)[j] = IF j < i THEN s[j] ELSE IF j = i THEN m ELSE s[j + 1]
  BY <1>3, <1>5, <1>6
<1> QED BY <1>2, <1>4, <1>6, <1>7 DEF m

-------------------------------------------------------------------------------
(* Disjointness *)

\* What is apart from a block is apart from any part of it.
LEMMA PartApart ==
    ASSUME NEW b, NEW c, NEW d,
           b.addr \in Nat, b.size \in Nat, c.addr \in Nat, c.size \in Nat,
           d.addr \in Nat, d.size \in Nat,
           d.addr >= b.addr, d.addr + d.size <= b.addr + b.size,
           Apart(b, c)
    PROVE  Apart(d, c) /\ Apart(c, d)
BY DEF Apart

\* What is apart from two neighbours is apart from the block they make.
LEMMA UnionApart ==
    ASSUME NEW b, NEW c, NEW d, NEW m,
           b.addr \in Nat, b.size \in Nat, c.addr \in Nat, c.size \in Nat,
           d.addr \in Nat, d.size \in Nat \ {0},
           b.addr + b.size = c.addr,
           m.addr = b.addr, m.size = b.size + c.size,
           Apart(b, d), Apart(c, d)
    PROVE  Apart(m, d) /\ Apart(d, m)
BY DEF Apart

\* A list stays pairwise disjoint when an entry is unlinked, and what remains
\* is apart from that entry.
LEMMA RemoveApart ==
    ASSUME NEW lo \in Nat, NEW hi \in Nat, NEW s \in Seq(BlocksOf(lo, hi)),
           NEW i \in 1..Len(s), PairwiseApart(s)
    PROVE  /\ PairwiseApart(RemoveAt(s, i))
           /\ \A j \in DOMAIN RemoveAt(s, i) :
                /\ Apart(s[i], RemoveAt(s, i)[j])
                /\ \E k \in DOMAIN s : RemoveAt(s, i)[j] = s[k]
<1> DEFINE r == RemoveAt(s, i)
           src(j) == IF j < i THEN j ELSE j + 1
<1>1. /\ r \in Seq(BlocksOf(lo, hi)) /\ Len(r) = Len(s) - 1 /\ Len(s) \in Nat
      /\ \A j \in 1..(Len(s) - 1) : r[j] = IF j < i THEN s[j] ELSE s[j + 1]
  BY RemoveAtFacts
<1> HIDE DEF r
<1>2. DOMAIN r = 1..(Len(s) - 1) /\ DOMAIN s = 1..Len(s)
  BY <1>1
<1>3. \A j \in DOMAIN r : src(j) \in DOMAIN s /\ src(j) # i /\ r[j] = s[src(j)]
  BY <1>1, <1>2
<1>4. \A j, k \in DOMAIN r : j # k => src(j) # src(k)
  BY <1>1, <1>2
<1> HIDE DEF src
<1>5. PairwiseApart(r)
  BY <1>3, <1>4 DEF PairwiseApart
<1>6. \A j \in DOMAIN r : Apart(s[i], r[j]) /\ \E k \in DOMAIN s : r[j] = s[k]
  BY <1>2, <1>3 DEF PairwiseApart
<1> QED BY <1>5, <1>6 DEF r

\* It stays so when a block apart from every entry is linked anywhere.
LEMMA InsertApart ==
    ASSUME NEW lo \in Nat, NEW hi \in Nat, NEW s \in Seq(BlocksOf(lo, hi)),
           NEW i \in 1..(Len(s) + 1), NEW e \in BlocksOf(lo, hi),
           PairwiseApart(s), \A j \in DOMAIN s : Apart(e, s[j])
    PROVE  /\ PairwiseApart(InsertAt(s, i, e))
           /\ \A j \in DOMAIN InsertAt(s, i, e) :
                InsertAt(s, i, e)[j] = e \/ \E k \in DOMAIN s : InsertAt(s, i, e)[j] = s[k]
<1> DEFINE r == InsertAt(s, i, e)
           src(j) == IF j < i THEN j ELSE j - 1
<1>1. /\ r \in Seq(BlocksOf(lo, hi)) /\ Len(r) = Len(s) + 1 /\ Len(s) \in Nat
      /\ \A j \in 1..(i - 1) : r[j] = s[j]
      /\ r[i] = e
      /\ \A j \in (i + 1)..(Len(s) + 1) : r[j] = s[j - 1]
  BY InsertAtFacts
<1> HIDE DEF r
<1>2. DOMAIN r = 1..(Len(s) + 1) /\ DOMAIN s = 1..Len(s)
  BY <1>1
<1>3. /\ \A j \in DOMAIN r : j # i => src(j) \in DOMAIN s /\ r[j] = s[src(j)]
      /\ \A j \in DOMAIN r : j = i => r[j] = e
  BY <1>1, <1>2
<1>4. \A j, k \in DOMAIN r : j # k /\ j # i /\ k # i => src(j) # src(k)
  BY <1>1, <1>2
<1> HIDE DEF src
<1>5. \A j \in DOMAIN s : Apart(e, s[j]) /\ Apart(s[j], e)
  BY DEF Apart
<1>6. PairwiseApart(r)
  BY <1>3, <1>4, <1>5 DEF PairwiseApart
<1>7. \A j \in DOMAIN r : r[j] = e \/ \E k \in DOMAIN s : r[j] = s[k]
  BY <1>3
<1> QED BY <1>6, <1>7 DEF r

\* The same for an entry in front.
LEMMA PrependApart ==
    ASSUME NEW lo \in Nat, NEW hi \in Nat, NEW s \in Seq(BlocksOf(lo, hi)),
           NEW e \in BlocksOf(lo, hi),
           PairwiseApart(s), \A j \in DOMAIN s : Apart(e, s[j])
    PROVE  /\ PairwiseApart(<<e>> \o s)
           /\ \A j \in DOMAIN (<<e>> \o s) :
                (<<e>> \o s)[j] = e \/ \E k \in DOMAIN s : (<<e>> \o s)[j] = s[k]
<1> DEFINE r == <<e>> \o s
<1>1. /\ r \in Seq(BlocksOf(lo, hi)) /\ Len(r) = Len(s) + 1 /\ Len(s) \in Nat
      /\ \A j \in 1..(Len(s) + 1) : r[j] = IF j = 1 THEN e ELSE s[j - 1]
  BY PrependFacts
<1> HIDE DEF r
<1>2. DOMAIN r = 1..(Len(s) + 1) /\ DOMAIN s = 1..Len(s)
  BY <1>1
<1>3. \A j \in DOMAIN s : Apart(e, s[j]) /\ Apart(s[j], e)
  BY DEF Apart
<1>4. \A j \in DOMAIN r : j # 1 => j - 1 \in DOMAIN s /\ r[j] = s[j - 1]
  BY <1>1, <1>2
<1>5. \A j \in DOMAIN r : j = 1 => r[j] = e
  BY <1>1, <1>2
<1>6. \A j, k \in DOMAIN r : j # k => Apart(r[j], r[k])
  <2> SUFFICES ASSUME NEW j \in DOMAIN r, NEW k \in DOMAIN r, j # k
               PROVE  Apart(r[j], r[k])
    OBVIOUS
  <2>1. CASE j = 1
    BY <1>3, <1>4, <1>5, <2>1
  <2>2. CASE k = 1
    BY <1>3, <1>4, <1>5, <2>2
  <2>3. CASE j # 1 /\ k # 1
    <3>1. j - 1 # k - 1
      BY <1>1, <1>2
    <3> QED BY <1>4, <2>3, <3>1 DEF PairwiseApart
  <2> QED BY <2>1, <2>2, <2>3
<1>7. \A j \in DOMAIN r : r[j] = e \/ \E k \in DOMAIN s : r[j] = s[k]
  BY <1>4, <1>5
<1> QED BY <1>6, <1>7 DEF r, PairwiseApart

\* alloc keeps the list disjoint, takes its block out of it, and lists nothing
\* that was not listed before.
LEMMA AllocApart ==
    ASSUME NEW lo \in Nat, NEW hi \in Nat, NEW s \in Seq(BlocksOf(lo, hi)),
           NEW i \in 1..Len(s), NEW n \in Nat, NEW align \in Nat \ {0},
           Fits(s[i], n, align), PairwiseApart(s)
    PROVE  /\ PairwiseApart(AllocList(s, i, n, align))
           /\ \A j \in DOMAIN AllocList(s, i, n, align) :
                /\ Apart(AllocList(s, i, n, align)[j], Block(AllocAddr(s[i], align), n))
                /\ \A c \in BlocksOf(lo, hi) :
                     (\A k \in DOMAIN s : Apart(s[k], c))
                        => Apart(AllocList(s, i, n, align)[j], c)
<1> DEFINE b    == s[i]
           rest == RemoveAt(s, i)
           e    == Remainder(b, n, align)
           got  == Block(AllocAddr(b, align), n)
           Good(l) == /\ PairwiseApart(l)
                      /\ \A j \in DOMAIN l :
                           /\ Apart(l[j], got)
                           /\ \A c \in BlocksOf(lo, hi) :
                                (\A k \in DOMAIN s : Apart(s[k], c)) => Apart(l[j], c)
<1>1. b \in BlocksOf(lo, hi) /\ i \in DOMAIN s
  OBVIOUS
<1>2. /\ b.addr \in Nat /\ b.size \in Nat
      /\ got.addr \in Nat /\ got.size = n
      /\ got.addr >= b.addr /\ got.addr + n <= b.addr + b.size
  BY <1>1, AllocFacts, BlocksOfFacts DEF Block
<1>3. rest \in Seq(BlocksOf(lo, hi)) /\ PairwiseApart(rest)
  BY RemoveAtFacts, RemoveApart
<1>4. ASSUME NEW j \in DOMAIN rest
      PROVE  /\ rest[j] \in BlocksOf(lo, hi) /\ Apart(b, rest[j])
             /\ \E k \in DOMAIN s : rest[j] = s[k]
  BY <1>3, RemoveApart
<1> HIDE DEF b, rest, e, got
<1>5. Good(rest)
  <2>1. ASSUME NEW j \in DOMAIN rest PROVE Apart(rest[j], got)
    <3>1. rest[j].addr \in Nat /\ rest[j].size \in Nat
      BY <1>4, BlocksOfFacts
    <3> QED BY <1>2, <1>4, <3>1, PartApart
  <2>2. ASSUME NEW j \in DOMAIN rest, NEW c \in BlocksOf(lo, hi),
               \A k \in DOMAIN s : Apart(s[k], c)
        PROVE  Apart(rest[j], c)
    BY <1>4, <2>2
  <2> QED BY <1>3, <2>1, <2>2
<1>6. CASE ~(Leftover(b, n, align) >= FreeBlockWords)
  <2>1. AllocList(s, i, n, align) = rest
    BY <1>6 DEF AllocList, b, rest
  <2> QED BY <1>5, <2>1 DEF got, b
<1>7. CASE Leftover(b, n, align) >= FreeBlockWords
  <2>1. AllocList(s, i, n, align) = <<e>> \o rest
    BY <1>7 DEF AllocList, b, rest, e, Remainder
  <2>2. /\ e \in BlocksOf(lo, hi)
        /\ e.addr \in Nat /\ e.size \in Nat
        /\ e.addr = got.addr + n /\ e.addr + e.size = b.addr + b.size
    <3>1. Fits(b, n, align)
      BY DEF b
    <3> QED BY <1>1, <1>7, <3>1, RemainderFacts, BlocksOfFacts DEF e, got, Block
  <2>3. \A j \in DOMAIN rest : Apart(e, rest[j])
    <3> SUFFICES ASSUME NEW j \in DOMAIN rest PROVE Apart(e, rest[j])
      OBVIOUS
    <3>1. rest[j].addr \in Nat /\ rest[j].size \in Nat
      BY <1>4, BlocksOfFacts
    <3>2. e.addr >= b.addr /\ e.addr + e.size <= b.addr + b.size
      BY <1>2, <2>2
    <3> QED BY <1>2, <1>4, <2>2, <3>1, <3>2, PartApart
  <2>4. /\ PairwiseApart(<<e>> \o rest)
        /\ \A j \in DOMAIN (<<e>> \o rest) :
             (<<e>> \o rest)[j] = e \/ \E k \in DOMAIN rest : (<<e>> \o rest)[j] = rest[k]
    BY <1>3, <2>2, <2>3, PrependApart
  <2>5. Apart(e, got)
    BY <1>2, <2>2 DEF Apart
  <2>6. e.addr >= b.addr /\ e.addr + e.size <= b.addr + b.size
    BY <1>2, <2>2
  <2>7. ASSUME NEW c \in BlocksOf(lo, hi), \A k \in DOMAIN s : Apart(s[k], c)
        PROVE  Apart(e, c)
    <3>1. Apart(b, c)
      BY <1>1, <2>7 DEF b
    <3>2. c.addr \in Nat /\ c.size \in Nat
      BY BlocksOfFacts
    <3> QED BY <1>2, <2>6, <2>2, <3>1, <3>2, PartApart
  <2>8. Good(<<e>> \o rest)
    BY <1>5, <2>4, <2>5, <2>7
  <2> QED BY <2>1, <2>8 DEF got, b
<1> QED BY <1>6, <1>7

\* A merge keeps the list disjoint and covers the same words.
LEMMA MergeApart ==
    ASSUME NEW lo \in Nat, NEW hi \in Nat, NEW s \in Seq(BlocksOf(lo, hi)),
           NEW i \in 1..Len(s), i < Len(s), AdjacentAt(s, i), PairwiseApart(s)
    PROVE  /\ PairwiseApart(MergeAt(s, i))
           /\ \A j \in DOMAIN MergeAt(s, i) : \A c \in BlocksOf(lo, hi) :
                (\A k \in DOMAIN s : Apart(s[k], c)) => Apart(MergeAt(s, i)[j], c)
<1> DEFINE m == Merged(s[i], s[i + 1])
           r == MergeAt(s, i)
           src(j) == IF j < i THEN j ELSE j + 1
<1>1. /\ m \in BlocksOf(lo, hi)
      /\ m.addr = s[i].addr /\ m.size = s[i].size + s[i + 1].size
      /\ r \in Seq(BlocksOf(lo, hi)) /\ Len(r) = Len(s) - 1
      /\ \A j \in 1..(Len(s) - 1) :
           r[j] = IF j < i THEN s[j] ELSE IF j = i THEN m ELSE s[j + 1]
  BY MergeAtFacts
<1> HIDE DEF r, m
<1>2. DOMAIN r = 1..(Len(s) - 1) /\ DOMAIN s = 1..Len(s) /\ Len(s) \in Nat
  BY <1>1
<1>3. i \in DOMAIN s /\ i + 1 \in DOMAIN s
  BY <1>2
<1>4. /\ s[i].addr \in Nat /\ s[i].size \in Nat /\ s[i + 1].addr \in Nat
      /\ s[i + 1].size >= 3 /\ s[i + 1].size \in Nat /\ s[i].size >= 3
      /\ s[i].addr + s[i].size = s[i + 1].addr
  BY <1>3, BlocksOfFacts DEF AdjacentAt
\* What is apart from both halves is apart from the merged block.
<1>5. ASSUME NEW c \in BlocksOf(lo, hi), Apart(s[i], c), Apart(s[i + 1], c)
      PROVE  Apart(m, c) /\ Apart(c, m)
  <2>1. c.addr \in Nat /\ c.size \in Nat /\ c.size >= 3
    BY BlocksOfFacts
  <2>2. c.size \in Nat \ {0}
    BY <2>1
  <2> QED BY <1>1, <1>4, <1>5, <2>1, <2>2, UnionApart
<1>6. \A j \in DOMAIN r : j # i =>
        /\ src(j) \in DOMAIN s /\ src(j) # i /\ src(j) # i + 1 /\ r[j] = s[src(j)]
  BY <1>1, <1>2
<1>7. \A j, k \in DOMAIN r : j # k => src(j) # src(k)
  BY <1>2
<1>8. \A j \in DOMAIN r : j = i => r[j] = m
  BY <1>1, <1>2
<1> HIDE DEF src
<1>9. ASSUME NEW j \in DOMAIN r, j # i
      PROVE  r[j] \in BlocksOf(lo, hi) /\ Apart(m, r[j]) /\ Apart(r[j], m)
  <2>1. Apart(s[i], r[j]) /\ Apart(s[i + 1], r[j])
    BY <1>3, <1>6, <1>9 DEF PairwiseApart
  <2>2. r[j] \in BlocksOf(lo, hi)
    BY <1>1
  <2> QED BY <1>5, <2>1, <2>2
<1>10. PairwiseApart(r)
  <2> SUFFICES ASSUME NEW j \in DOMAIN r, NEW k \in DOMAIN r, j # k
               PROVE  Apart(r[j], r[k])
    BY DEF PairwiseApart
  <2>1. CASE j = i
    BY <1>8, <1>9, <2>1
  <2>2. CASE k = i
    BY <1>8, <1>9, <2>2
  <2>3. CASE j # i /\ k # i
    BY <1>6, <1>7, <2>3 DEF PairwiseApart
  <2> QED BY <2>1, <2>2, <2>3
<1>11. ASSUME NEW j \in DOMAIN r, NEW c \in BlocksOf(lo, hi),
              \A k \in DOMAIN s : Apart(s[k], c)
       PROVE  Apart(r[j], c)
  BY <1>3, <1>5, <1>6, <1>8, <1>11
<1> QED BY <1>10, <1>11 DEF r
-------------------------------------------------------------------------------
(* Words *)

\* Word w belongs to an entry of list l.
Listed(l, w) == \E i \in DOMAIN l : w \in WordsOf(l[i])

\* Blocks that are apart share no word.
LEMMA ApartWords ==
    ASSUME NEW b, NEW c, NEW w,
           b.addr \in Nat, b.size \in Nat, c.addr \in Nat, c.size \in Nat,
           Apart(b, c), w \in WordsOf(b)
    PROVE  w \notin WordsOf(c)
BY DEF Apart, WordsOf

\* Membership as inequalities.
LEMMA InWords ==
    ASSUME NEW b, b.addr \in Nat, b.size \in Nat, NEW w \in Int
    PROVE  w \in WordsOf(b) <=> b.addr <= w /\ w < b.addr + b.size
BY DEF WordsOf

LEMMA InLostWords ==
    ASSUME NEW b, b.addr \in Nat, b.size \in Nat, NEW w \in Int,
           NEW n \in Nat, NEW align, AllocAddr(b, align) \in Nat
    PROVE  w \in LostWords(b, n, align)
             <=> \/ b.addr <= w /\ w < AllocAddr(b, align)
                 \/ /\ ~(Leftover(b, n, align) >= FreeBlockWords)
                    /\ AllocAddr(b, align) + n <= w /\ w < b.addr + b.size
BY DEF LostWords

\* Unlinking an entry removes its words and no others.
LEMMA RemoveWords ==
    ASSUME NEW lo \in Nat, NEW hi \in Nat, NEW s \in Seq(BlocksOf(lo, hi)),
           NEW i \in 1..Len(s), PairwiseApart(s), NEW w
    PROVE  Listed(RemoveAt(s, i), w) <=> Listed(s, w) /\ w \notin WordsOf(s[i])
<1> DEFINE r == RemoveAt(s, i)
<1>1. /\ r \in Seq(BlocksOf(lo, hi)) /\ Len(r) = Len(s) - 1 /\ Len(s) \in Nat
      /\ \A j \in 1..(Len(s) - 1) : r[j] = IF j < i THEN s[j] ELSE s[j + 1]
  BY RemoveAtFacts
<1>2. \A j \in DOMAIN r : Apart(s[i], r[j]) /\ \E k \in DOMAIN s : r[j] = s[k]
  BY RemoveApart
<1> HIDE DEF r
<1>3. DOMAIN r = 1..(Len(s) - 1) /\ DOMAIN s = 1..Len(s)
  BY <1>1
<1>4. ASSUME Listed(r, w) PROVE Listed(s, w) /\ w \notin WordsOf(s[i])
  <2>1. PICK j \in DOMAIN r : w \in WordsOf(r[j])
    BY <1>4 DEF Listed
  <2>2. Apart(s[i], r[j]) /\ s[i] \in BlocksOf(lo, hi) /\ r[j] \in BlocksOf(lo, hi)
    BY <1>1, <1>2
  <2>3. w \notin WordsOf(s[i])
    BY <2>1, <2>2, ApartWords, BlocksOfFacts
  <2> QED BY <1>2, <2>1, <2>3 DEF Listed
<1>5. ASSUME Listed(s, w), w \notin WordsOf(s[i]) PROVE Listed(r, w)
  <2>1. PICK k \in DOMAIN s : w \in WordsOf(s[k])
    BY <1>5 DEF Listed
  <2>2. k # i
    BY <1>5, <2>1
  <2>3. PICK j \in DOMAIN r : r[j] = s[k]
    <3>1. CASE k < i
      BY <1>1, <1>3, <3>1
    <3>2. CASE k > i
      <4>1. k - 1 \in DOMAIN r /\ r[k - 1] = s[k]
        BY <1>1, <1>3, <3>2
      <4> QED BY <4>1
    <3> QED BY <1>3, <2>2, <3>1, <3>2
  <2> QED BY <2>1, <2>3 DEF Listed
<1> QED BY <1>4, <1>5 DEF r

\* Linking an entry adds its words.
LEMMA InsertWords ==
    ASSUME NEW lo \in Nat, NEW hi \in Nat, NEW s \in Seq(BlocksOf(lo, hi)),
           NEW i \in 1..(Len(s) + 1), NEW e \in BlocksOf(lo, hi), NEW w
    PROVE  Listed(InsertAt(s, i, e), w) <=> Listed(s, w) \/ w \in WordsOf(e)
<1> DEFINE r == InsertAt(s, i, e)
<1>1. /\ r \in Seq(BlocksOf(lo, hi)) /\ Len(r) = Len(s) + 1 /\ Len(s) \in Nat
      /\ \A j \in 1..(i - 1) : r[j] = s[j]
      /\ r[i] = e
      /\ \A j \in (i + 1)..(Len(s) + 1) : r[j] = s[j - 1]
  BY InsertAtFacts
<1> HIDE DEF r
<1>2. DOMAIN r = 1..(Len(s) + 1) /\ DOMAIN s = 1..Len(s)
  BY <1>1
<1>3. \A j \in DOMAIN r : r[j] = e \/ \E k \in DOMAIN s : r[j] = s[k]
  <2> SUFFICES ASSUME NEW j \in DOMAIN r, j # i PROVE \E k \in DOMAIN s : r[j] = s[k]
    BY <1>1
  <2>1. CASE j < i
    <3>1. j \in DOMAIN s /\ r[j] = s[j]
      BY <1>1, <1>2, <2>1
    <3> QED BY <3>1
  <2>2. CASE j > i
    <3>1. j - 1 \in DOMAIN s /\ r[j] = s[j - 1]
      BY <1>1, <1>2, <2>2
    <3> QED BY <3>1
  <2> QED BY <1>2, <2>1, <2>2
<1>4. \A k \in DOMAIN s : \E j \in DOMAIN r : r[j] = s[k]
  <2> SUFFICES ASSUME NEW k \in DOMAIN s PROVE \E j \in DOMAIN r : r[j] = s[k]
    OBVIOUS
  <2>1. CASE k < i
    BY <1>1, <1>2, <2>1
  <2>2. CASE k >= i
    <3>1. k + 1 \in DOMAIN r /\ r[k + 1] = s[k]
      BY <1>1, <1>2, <2>2
    <3> QED BY <3>1
  <2> QED BY <1>2, <2>1, <2>2
<1>5. \E j \in DOMAIN r : r[j] = e
  BY <1>1, <1>2
<1> QED BY <1>3, <1>4, <1>5 DEF Listed, r

LEMMA PrependWords ==
    ASSUME NEW S, NEW s \in Seq(S), NEW e \in S, NEW w
    PROVE  Listed(<<e>> \o s, w) <=> Listed(s, w) \/ w \in WordsOf(e)
<1> DEFINE r == <<e>> \o s
<1>1. /\ r \in Seq(S) /\ Len(r) = Len(s) + 1 /\ Len(s) \in Nat
      /\ \A j \in 1..(Len(s) + 1) : r[j] = IF j = 1 THEN e ELSE s[j - 1]
  BY PrependFacts
<1> HIDE DEF r
<1>2. DOMAIN r = 1..(Len(s) + 1) /\ DOMAIN s = 1..Len(s)
  BY <1>1
<1>3. \A j \in DOMAIN r : r[j] = e \/ \E k \in DOMAIN s : r[j] = s[k]
  BY <1>1, <1>2
<1>4. ASSUME NEW k \in DOMAIN s PROVE \E j \in DOMAIN r : r[j] = s[k]
  <2>1. k + 1 \in DOMAIN r /\ r[k + 1] = s[k]
    BY <1>1, <1>2
  <2> QED BY <2>1
<1>5. \E j \in DOMAIN r : r[j] = e
  BY <1>1, <1>2
<1> QED BY <1>3, <1>4, <1>5 DEF Listed, r

\* alloc parts the words of the list: what it hands out, what it drops and
\* what stays listed are all of them, and no two of these meet.
LEMMA AllocWords ==
    ASSUME NEW lo \in Nat, NEW hi \in Nat, NEW s \in Seq(BlocksOf(lo, hi)),
           NEW i \in 1..Len(s), NEW n \in Nat, NEW align \in Nat \ {0},
           Fits(s[i], n, align), PairwiseApart(s), NEW w \in Int
    PROVE  LET got == w \in WordsOf(Block(AllocAddr(s[i], align), n))
               gone == w \in LostWords(s[i], n, align)
               stays == Listed(AllocList(s, i, n, align), w)
           IN  /\ Listed(s, w) <=> got \/ gone \/ stays
               /\ ~(got /\ gone) /\ ~(gone /\ stays)
<1> DEFINE b    == s[i]
           rest == RemoveAt(s, i)
           e    == Remainder(b, n, align)
           at   == AllocAddr(b, align)
           list == AllocList(s, i, n, align)
<1>1. b \in BlocksOf(lo, hi) /\ i \in DOMAIN s /\ Fits(b, n, align)
  OBVIOUS
<1>2. rest \in Seq(BlocksOf(lo, hi))
  BY RemoveAtFacts
<1>3. Listed(rest, w) <=> Listed(s, w) /\ w \notin WordsOf(b)
  BY RemoveWords
<1>4. w \in WordsOf(b) => Listed(s, w)
  BY <1>1 DEF Listed
<1> HIDE DEF b, rest, e, list
<1>5. /\ b.addr \in Nat /\ b.size \in Nat
      /\ at \in Nat /\ at >= b.addr /\ at + n <= b.addr + b.size
      /\ Leftover(b, n, align) \in Nat
      /\ at + n + Leftover(b, n, align) = b.addr + b.size
  BY <1>1, AllocFacts, BlocksOfFacts
<1> HIDE DEF at
<1>6. w \in WordsOf(Block(at, n)) <=> at <= w /\ w < at + n
  <2>1. Block(at, n).addr = at /\ Block(at, n).size = n
    BY DEF Block
  <2> QED BY <1>5, <2>1, InWords
<1>7. w \in WordsOf(b) <=> b.addr <= w /\ w < b.addr + b.size
  BY <1>5, InWords
<1>8. w \in LostWords(b, n, align)
        <=> \/ b.addr <= w /\ w < at
            \/ /\ ~(Leftover(b, n, align) >= FreeBlockWords)
               /\ at + n <= w /\ w < b.addr + b.size
  BY <1>5, InLostWords DEF at
<1>9. CASE ~(Leftover(b, n, align) >= FreeBlockWords)
  <2>1. list = rest
    BY <1>9 DEF AllocList, b, rest, list
  <2>2. /\ w \in WordsOf(b)
             <=> w \in WordsOf(Block(at, n)) \/ w \in LostWords(b, n, align)
        /\ ~(w \in WordsOf(Block(at, n)) /\ w \in LostWords(b, n, align))
    BY <1>5, <1>6, <1>7, <1>8, <1>9
  <2> QED BY <1>3, <1>4, <2>1, <2>2 DEF b, at, list
<1>10. CASE Leftover(b, n, align) >= FreeBlockWords
  <2>1. list = <<e>> \o rest
    BY <1>10 DEF AllocList, b, rest, e, list, Remainder
  <2>2. /\ e \in BlocksOf(lo, hi) /\ e.addr = at + n
        /\ e.addr + e.size = b.addr + b.size
    BY <1>1, <1>10, RemainderFacts DEF e, at
  <2>3. w \in WordsOf(e) <=> at + n <= w /\ w < b.addr + b.size
    BY <2>2, InWords, BlocksOfFacts
  <2>4. /\ w \in WordsOf(b)
             <=> \/ w \in WordsOf(Block(at, n))
                 \/ w \in LostWords(b, n, align)
                 \/ w \in WordsOf(e)
        /\ ~(w \in WordsOf(Block(at, n)) /\ w \in LostWords(b, n, align))
        /\ ~(w \in WordsOf(e) /\ w \in LostWords(b, n, align))
    BY <1>5, <1>6, <1>7, <1>8, <1>10, <2>3
  <2>5. Listed(list, w) <=> Listed(rest, w) \/ w \in WordsOf(e)
    BY <1>2, <2>1, <2>2, PrependWords
  <2> QED BY <1>3, <1>4, <2>4, <2>5 DEF b, at, list
<1> QED BY <1>9, <1>10

\* The words of two neighbours.
LEMMA UnionWords ==
    ASSUME NEW b, NEW c, NEW m, NEW w \in Int,
           b.addr \in Nat, b.size \in Nat, c.addr \in Nat, c.size \in Nat,
           b.addr + b.size = c.addr, m.addr = b.addr, m.size = b.size + c.size
    PROVE  w \in WordsOf(m) <=> w \in WordsOf(b) \/ w \in WordsOf(c)
<1>1. m.addr \in Nat /\ m.size \in Nat
  OBVIOUS
<1>2. /\ w \in WordsOf(m) <=> m.addr <= w /\ w < m.addr + m.size
      /\ w \in WordsOf(b) <=> b.addr <= w /\ w < b.addr + b.size
      /\ w \in WordsOf(c) <=> c.addr <= w /\ w < c.addr + c.size
  BY <1>1, InWords
<1> QED BY <1>2

\* A merge changes nobody's words.
LEMMA MergeWords ==
    ASSUME NEW lo \in Nat, NEW hi \in Nat, NEW s \in Seq(BlocksOf(lo, hi)),
           NEW i \in 1..Len(s), i < Len(s), AdjacentAt(s, i), NEW w \in Int
    PROVE  Listed(MergeAt(s, i), w) <=> Listed(s, w)
<1> DEFINE m == Merged(s[i], s[i + 1])
           r == MergeAt(s, i)
<1>1. /\ m.addr = s[i].addr /\ m.size = s[i].size + s[i + 1].size
      /\ r \in Seq(BlocksOf(lo, hi)) /\ Len(r) = Len(s) - 1 /\ Len(s) \in Nat
      /\ \A j \in 1..(Len(s) - 1) :
           r[j] = IF j < i THEN s[j] ELSE IF j = i THEN m ELSE s[j + 1]
  BY MergeAtFacts
<1> HIDE DEF r, m
<1>2. DOMAIN r = 1..(Len(s) - 1) /\ DOMAIN s = 1..Len(s)
  BY <1>1
<1>3. w \in WordsOf(m) <=> w \in WordsOf(s[i]) \/ w \in WordsOf(s[i + 1])
  <2>1. s[i] \in BlocksOf(lo, hi) /\ s[i + 1] \in BlocksOf(lo, hi)
    BY <1>1
  <2>2. /\ s[i].addr \in Nat /\ s[i].size \in Nat /\ s[i + 1].addr \in Nat
        /\ s[i + 1].size \in Nat /\ s[i].addr + s[i].size = s[i + 1].addr
    BY <2>1, BlocksOfFacts DEF AdjacentAt
  <2> QED BY <1>1, <2>2, UnionWords
<1>4. i \in DOMAIN r /\ r[i] = m /\ i \in DOMAIN s /\ i + 1 \in DOMAIN s
  BY <1>1, <1>2
<1>5. \A j \in DOMAIN r : j = i \/ \E k \in DOMAIN s : r[j] = s[k]
  <2> SUFFICES ASSUME NEW j \in DOMAIN r, j # i PROVE \E k \in DOMAIN s : r[j] = s[k]
    OBVIOUS
  <2>1. j \in DOMAIN s /\ j + 1 \in DOMAIN s /\ (r[j] = s[j] \/ r[j] = s[j + 1])
    BY <1>1, <1>2
  <2> QED BY <2>1
<1>6. \A k \in DOMAIN s : k = i \/ k = i + 1 \/ \E j \in DOMAIN r : r[j] = s[k]
  <2> SUFFICES ASSUME NEW k \in DOMAIN s, k # i, k # i + 1
               PROVE  \E j \in DOMAIN r : r[j] = s[k]
    OBVIOUS
  <2>1. CASE k < i
    BY <1>1, <1>2, <2>1
  <2>2. CASE k > i + 1
    <3>1. k - 1 \in DOMAIN r /\ r[k - 1] = s[k]
      BY <1>1, <1>2, <2>2
    <3> QED BY <3>1
  <2> QED BY <1>2, <2>1, <2>2
<1> QED BY <1>3, <1>4, <1>5, <1>6 DEF Listed, r
================================================================================
