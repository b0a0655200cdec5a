----------------------------- MODULE FreeListProofs -----------------------------
(***************************************************************************)
(* For every region, every set of sizes and alignments and any order of    *)
(* calls: no word of the old generation ever has two owners, and every     *)
(* word of it is accounted for.  The argument needs the types (blocks are  *)
(* at least a FreeBlock long and lie in the region) and nothing else: the  *)
(* list need not be sorted.  What free_bytes() adds up follows: the sum    *)
(* over the list is the number of words it covers, as no two of its blocks *)
(* share one.                                                              *)
(***************************************************************************)
EXTENDS FreeList, FreeListOpsProofs, FiniteSetTheorems, WellFoundedInduction

IInv == TypeOK /\ Exclusive /\ Accounted

LEMMA RegionFacts == Base \in Nat /\ End \in Nat /\ BlockIn = BlocksOf(Base, End)
BY FreeListAssumption DEF End, BlockIn, BlocksOf

LEMMA InitIInv == ASSUME Init PROVE IInv
<1>1. Block(Base, Words) \in BlockIn
  BY FreeListAssumption DEF Block, BlockIn, End
<1>2. list \in Seq(BlockIn) /\ DOMAIN list = {1}
  BY <1>1 DEF Init
<1>3. TypeOK
  BY <1>2 DEF Init, TypeOK
<1>4. Exclusive
  BY <1>2 DEF Init, Exclusive, PairwiseApart
<1>5. Accounted
  <2>1. list[1].addr = Base /\ list[1].size = Words
    BY DEF Init, Block
  <2>2. \A w \in Region : w \in WordsOf(list[1])
    BY <2>1, FreeListAssumption DEF WordsOf, Region, End
  <2> QED BY <1>2, <2>2 DEF Init, Accounted
<1> QED BY <1>3, <1>4, <1>5 DEF IInv

\* Accounted in the terms of the lemmas about lists.
LEMMA AccountedMeans ==
    Accounted <=>
      /\ \A w \in Region : Listed(list, w) \/ (\E b \in held : w \in WordsOf(b)) \/ w \in lost
      /\ \A w \in lost : ~Listed(list, w) /\ \A b \in held : w \notin WordsOf(b)
BY DEF Accounted, Listed

LEMMA AccountedMeansPrime ==
    Accounted' <=>
      /\ \A w \in Region : Listed(list', w) \/ (\E b \in held' : w \in WordsOf(b)) \/ w \in lost'
      /\ \A w \in lost' : ~Listed(list', w) /\ \A b \in held' : w \notin WordsOf(b)
BY DEF Accounted, Listed

\* An entry of the list and a block that a caller holds share no word.
LEMMA HeldNotListed ==
    ASSUME TypeOK, Exclusive, NEW b \in held, NEW w \in WordsOf(b)
    PROVE  ~Listed(list, w)
<1> SUFFICES ASSUME NEW i \in DOMAIN list PROVE w \notin WordsOf(list[i])
  BY DEF Listed
<1>1. Apart(list[i], b) /\ Apart(b, list[i])
  BY DEF Exclusive, Apart
<1>2. list[i] \in BlocksOf(Base, End) /\ b \in BlocksOf(Base, End)
  BY RegionFacts DEF TypeOK
<1> QED BY <1>1, <1>2, ApartWords, BlocksOfFacts

LEMMA AllocIInv ==
    ASSUME IInv, NEW n \in Sizes, NEW align \in Aligns, Alloc(n, align)
    PROVE  IInv'
<1> USE DEF IInv
<1>1. n \in Nat /\ n >= FreeBlockWords /\ align \in Nat \ {0}
  BY FreeListAssumption
<1>2. PICK i \in DOMAIN list :
         /\ FirstFit(list, i, n, align)
         /\ list' = AllocList(list, i, n, align)
         /\ held' = held \cup {Block(AllocAddr(list[i], align), n)}
         /\ lost' = lost \cup LostWords(list[i], n, align)
  BY DEF Alloc
<1> DEFINE b   == list[i]
           got == Block(AllocAddr(b, align), n)
<1>3. list \in Seq(BlocksOf(Base, End)) /\ i \in 1..Len(list) /\ Fits(b, n, align)
  BY <1>2, RegionFacts DEF TypeOK, FirstFit
<1>4. b \in BlocksOf(Base, End) /\ i \in DOMAIN list
  BY <1>3
<1>5. /\ b.addr \in Nat /\ b.size \in Nat /\ b.addr >= Base
      /\ b.addr + b.size <= End
      /\ AllocAddr(b, align) \in Nat /\ AllocAddr(b, align) >= b.addr
      /\ AllocAddr(b, align) + n <= b.addr + b.size
  BY <1>1, <1>3, <1>4, AllocFacts, BlocksOfFacts, RegionFacts
<1>6. /\ got.addr \in Nat /\ got.size \in Nat
      /\ got.addr >= b.addr /\ got.addr + got.size <= b.addr + b.size
  BY <1>1, <1>5 DEF Block
<1>7. got \in BlockIn
  BY <1>1, <1>5, RegionFacts DEF Block, BlockIn
<1> HIDE DEF b, got
<1>8. TypeOK'
  <2>1. list' \in Seq(BlockIn)
    BY <1>1, <1>2, <1>3, AllocListType, RegionFacts DEF b
  <2>2. held' \subseteq BlockIn
    BY <1>2, <1>7 DEF TypeOK, got, b
  <2>3. lost' \subseteq Region
    <3>1. LostWords(b, n, align) \subseteq Region
      BY <1>1, <1>5, FreeListAssumption DEF LostWords, Region, End
    <3> QED BY <1>2, <3>1 DEF TypeOK, b
  <2> QED BY <2>1, <2>2, <2>3 DEF TypeOK, Alloc
<1>9. Exclusive'
  <2>1. \A c \in held : c \in BlocksOf(Base, End) /\ c.addr \in Nat /\ c.size \in Nat
    BY RegionFacts, BlocksOfFacts DEF TypeOK
  <2>2. \A c \in held : \A k \in DOMAIN list : Apart(list[k], c)
    BY DEF Exclusive
  <2>3. /\ PairwiseApart(list')
        /\ \A j \in DOMAIN list' :
             /\ Apart(list'[j], got)
             /\ \A c \in BlocksOf(Base, End) :
                  (\A k \in DOMAIN list : Apart(list[k], c)) => Apart(list'[j], c)
    BY <1>1, <1>2, <1>3, AllocApart, RegionFacts DEF Exclusive, got, b
  <2>4. \A j \in DOMAIN list' : \A c \in held : Apart(list'[j], c)
    BY <2>1, <2>2, <2>3
  <2>5. ASSUME NEW c \in held PROVE Apart(got, c) /\ Apart(c, got)
    <3>1. Apart(b, c)
      BY <1>4, <2>2 DEF b
    <3> QED BY <1>5, <1>6, <2>1, <3>1, PartApart
  <2>6. held' = held \cup {got}
    BY <1>2 DEF got, b
  <2>7. \A j \in DOMAIN list' : \A c \in held' : Apart(list'[j], c)
    BY <2>3, <2>4, <2>6
  <2>8. \A c, d \in held' : c # d => Apart(c, d)
    BY <2>5, <2>6 DEF Exclusive
  <2> QED BY <2>3, <2>7, <2>8 DEF Exclusive
<1>10. Accounted'
  <2>1. \A w \in Region \cup lost : w \in Int
    BY FreeListAssumption DEF Region, End, TypeOK
  <2>2. ASSUME NEW w \in Int
        PROVE  /\ Listed(list, w)
                    <=> \/ w \in WordsOf(got)
                        \/ w \in LostWords(b, n, align)
                        \/ Listed(list', w)
               /\ ~(w \in WordsOf(got) /\ w \in LostWords(b, n, align))
               /\ ~(w \in LostWords(b, n, align) /\ Listed(list', w))
    BY <1>1, <1>2, <1>3, AllocWords, RegionFacts DEF Exclusive, got, b
  <2>3. held' = held \cup {got} /\ lost' = lost \cup LostWords(b, n, align)
    BY <1>2 DEF got, b
  <2>4. \A w \in LostWords(b, n, align) : w \in Int
    BY <1>5 DEF LostWords
  <2>5. ASSUME NEW w \in Region
        PROVE  Listed(list', w) \/ (\E c \in held' : w \in WordsOf(c)) \/ w \in lost'
    BY <2>1, <2>2, <2>3, AccountedMeans
  <2>6. ASSUME NEW w \in lost'
        PROVE  ~Listed(list', w) /\ \A c \in held' : w \notin WordsOf(c)
    <3>1. CASE w \in lost
      BY <2>1, <2>2, <2>3, <3>1, AccountedMeans
    <3>2. CASE w \in LostWords(b, n, align)
      BY <2>2, <2>3, <2>4, <3>2, HeldNotListed
    <3> QED BY <2>3, <3>1, <3>2
  <2> QED BY <2>5, <2>6, AccountedMeansPrime
<1> QED BY <1>8, <1>9, <1>10

LEMMA FreeIInv ==
    ASSUME IInv, NEW b \in held, Free(b)
    PROVE  IInv'
<1> USE DEF IInv
<1>1. PICK i \in 1..(Len(list) + 1) : list' = InsertAt(list, i, b)
  BY DEF Free, FreeInsert
<1>2. b \in BlocksOf(Base, End) /\ list \in Seq(BlocksOf(Base, End))
  BY RegionFacts DEF TypeOK
<1>3. TypeOK'
  <2>1. list' \in Seq(BlockIn)
    BY <1>1, <1>2, InsertAtFacts, RegionFacts
  <2> QED BY <2>1 DEF TypeOK, Free
<1>4. Exclusive'
  <2>1. \A j \in DOMAIN list : Apart(list[j], b) /\ Apart(b, list[j])
    BY DEF Exclusive, Apart
  <2>2. /\ PairwiseApart(list')
        /\ \A j \in DOMAIN list' : list'[j] = b \/ \E k \in DOMAIN list : list'[j] = list[k]
    BY <1>1, <1>2, <2>1, InsertApart, RegionFacts DEF Exclusive
  <2>3. held' = held \ {b}
    BY DEF Free
  <2>4. \A j \in DOMAIN list' : \A c \in held' : Apart(list'[j], c)
    BY <2>2, <2>3 DEF Exclusive
  <2>5. \A c, d \in held' : c # d => Apart(c, d)
    BY <2>3 DEF Exclusive
  <2> QED BY <2>2, <2>4, <2>5 DEF Exclusive
<1>5. Accounted'
  <2>1. \A w : Listed(list', w) <=> Listed(list, w) \/ w \in WordsOf(b)
    BY <1>1, <1>2, InsertWords, RegionFacts
  <2>2. held' = held \ {b} /\ lost' = lost
    BY DEF Free
  <2> QED BY <2>1, <2>2, AccountedMeans, AccountedMeansPrime
<1> QED BY <1>3, <1>4, <1>5

LEMMA MergeIInv == ASSUME IInv, CoalesceMerge PROVE IInv'
<1> USE DEF IInv
<1>1. /\ list \in Seq(BlocksOf(Base, End)) /\ walk \in 1..Len(list)
      /\ walk < Len(list) /\ AdjacentAt(list, walk) /\ list' = MergeAt(list, walk)
      /\ UNCHANGED <<held, lost, walk>>
  BY RegionFacts DEF CoalesceMerge, TypeOK
<1>2. TypeOK'
  <2>1. list' \in Seq(BlockIn)
    BY <1>1, MergeAtFacts, RegionFacts
  <2> QED BY <1>1, <2>1 DEF TypeOK
<1>3. Exclusive'
  <2>1. /\ PairwiseApart(list')
        /\ \A j \in DOMAIN list' : \A c \in BlocksOf(Base, End) :
             (\A k \in DOMAIN list : Apart(list[k], c)) => Apart(list'[j], c)
    BY <1>1, MergeApart, RegionFacts DEF Exclusive
  <2>2. \A c \in held : c \in BlocksOf(Base, End) /\ \A k \in DOMAIN list : Apart(list[k], c)
    BY RegionFacts DEF TypeOK, Exclusive
  <2> QED BY <1>1, <2>1, <2>2 DEF Exclusive
<1>4. Accounted'
  <2>1. \A w \in Int : Listed(list', w) <=> Listed(list, w)
    BY <1>1, MergeWords, RegionFacts
  <2>2. \A w \in Region \cup lost : w \in Int
    BY FreeListAssumption DEF Region, End, TypeOK
  <2> QED BY <1>1, <2>1, <2>2, AccountedMeans, AccountedMeansPrime
<1> QED BY <1>2, <1>3, <1>4

LEMMA StepIInv == ASSUME IInv, [Next]_vars PROVE IInv'
<1>1. CASE UNCHANGED vars
  BY <1>1 DEF vars, IInv, TypeOK, Exclusive, Accounted
<1>2. ASSUME NEW n \in Sizes, NEW align \in Aligns, Alloc(n, align) PROVE IInv'
  BY <1>2, AllocIInv
<1>3. ASSUME NEW b \in held, Free(b) PROVE IInv'
  BY <1>3, FreeIInv
<1>4. CASE CoalesceMerge
  BY <1>4, MergeIInv
<1>5. CASE CoalesceStart
  BY <1>5 DEF CoalesceStart, IInv, TypeOK, Exclusive, Accounted
<1>6. CASE CoalesceSkip
  BY <1>6 DEF CoalesceSkip, IInv, TypeOK, Exclusive, Accounted
<1>7. CASE CoalesceEnd
  BY <1>7 DEF CoalesceEnd, IInv, TypeOK, Exclusive, Accounted
<1> QED BY <1>1, <1>2, <1>3, <1>4, <1>5, <1>6, <1>7 DEF Next

\* Types and CoalescedBehind are inductive: a merge at prev changes the length
\* of block prev only, which no pair behind prev looks at.
LEMMA StepBehind ==
    ASSUME TypeOK, CoalescedBehind, [Next]_vars PROVE CoalescedBehind'
<1>1. CASE UNCHANGED vars
  BY <1>1 DEF vars, CoalescedBehind
<1>2. CASE walk' = 0 \/ walk' = 1
  <2>1. ASSUME NEW i \in 1..(walk' - 1) PROVE FALSE
    BY <1>2
  <2> QED BY <2>1 DEF CoalescedBehind
<1>3. CASE CoalesceMerge
  <2>1. /\ list \in Seq(BlocksOf(Base, End)) /\ walk \in 1..Len(list)
        /\ walk < Len(list) /\ AdjacentAt(list, walk) /\ list' = MergeAt(list, walk)
        /\ walk' = walk
    BY <1>3, RegionFacts DEF CoalesceMerge, TypeOK
  <2>2. /\ Len(list') = Len(list) - 1 /\ Len(list) \in Nat
        /\ \A j \in 1..(Len(list) - 1) : j < walk => list'[j] = list[j]
        /\ list'[walk].addr = list[walk].addr
    <3>1. walk \in 1..(Len(list) - 1) /\ Len(list) \in Nat
      BY <2>1
    <3>2. Base \in Nat /\ End \in Nat
      BY RegionFacts
    <3> DEFINE m == MergeAt(list, walk)
               b == Merged(list[walk], list[walk + 1])
    <3>3. /\ Len(m) = Len(list) - 1
          /\ b.addr = list[walk].addr
          /\ \A j \in 1..(Len(list) - 1) :
               m[j] = IF j < walk THEN list[j] ELSE IF j = walk THEN b ELSE list[j + 1]
      <4>1. /\ list \in Seq(BlocksOf(Base, End)) /\ walk \in 1..Len(list)
            /\ walk < Len(list) /\ AdjacentAt(list, walk)
        BY <2>1
      <4> QED BY <4>1, <3>2, MergeAtFacts
    <3> HIDE DEF m, b
    <3>4. m[walk] = b /\ \A j \in 1..(Len(list) - 1) : j < walk => m[j] = list[j]
      BY <3>1, <3>3
    <3>5. list' = m
      BY <2>1 DEF m
    <3> QED BY <3>1, <3>3, <3>4, <3>5
  <2> SUFFICES ASSUME NEW i \in 1..(walk - 1) PROVE ~AdjacentAt(list', i)
    BY <2>1 DEF CoalescedBehind
  <2>3. ~AdjacentAt(list, i)
    BY <2>1, <2>2 DEF CoalescedBehind
  <2>4. list'[i] = list[i] /\ list'[i + 1].addr = list[i + 1].addr
    <3>1. list'[i] = list[i]
      BY <2>1, <2>2
    <3>2. i + 1 < walk \/ i + 1 = walk
      BY <2>1
    <3>3. list'[i + 1].addr = list[i + 1].addr
      BY <2>1, <2>2, <3>2
    <3> QED BY <3>1, <3>3
  <2> QED BY <2>3, <2>4 DEF AdjacentAt
<1>4. CASE CoalesceSkip
  <2>1. /\ walk \in Nat /\ walk > 0 /\ walk' = walk + 1 /\ list' = list
        /\ ~AdjacentAt(list, walk)
    BY <1>4 DEF CoalesceSkip, TypeOK
  <2> SUFFICES ASSUME NEW i \in 1..walk, i < Len(list) PROVE ~AdjacentAt(list, i)
    BY <2>1 DEF CoalescedBehind
  <2> QED BY <2>1 DEF CoalescedBehind
<1>5. CASE CoalesceStart \/ CoalesceEnd
  BY <1>2, <1>5 DEF CoalesceStart, CoalesceEnd
<1>6. ASSUME NEW n \in Sizes, NEW align \in Aligns, Alloc(n, align) PROVE CoalescedBehind'
  BY <1>2, <1>6 DEF Alloc
<1>7. ASSUME NEW b \in held, Free(b) PROVE CoalescedBehind'
  BY <1>2, <1>7 DEF Free
<1> QED BY <1>1, <1>3, <1>4, <1>5, <1>6, <1>7 DEF Next

\* A sorted list of blocks that are pairwise apart, cover the region and do not
\* touch is the region as one block: the word behind the first block would
\* have to be in a later one, and the second block starts behind that word.
LEMMA Recovers ==
    ASSUME IInv, CoalescedBehind PROVE SortedRecovers
<1> SUFFICES ASSUME walk > 0, walk >= Len(list), Sorted, held = {}, lost = {}
             PROVE  list = <<Block(Base, Words)>>
  BY DEF SortedRecovers
<1>1. /\ list \in Seq(BlockIn) /\ Len(list) \in Nat /\ walk \in Nat /\ DOMAIN list = 1..Len(list)
      /\ Base \in Nat /\ End \in Nat /\ End = Base + Words /\ Words \in Nat /\ Words >= 3
  BY FreeListAssumption DEF IInv, TypeOK, End, FreeBlockWords
<1>2. \A i \in 1..Len(list) :
         /\ list[i].addr \in Nat /\ list[i].size \in Nat /\ list[i].size >= 3
         /\ list[i].addr >= Base /\ list[i].addr + list[i].size <= End
  BY <1>1, RegionFacts, BlocksOfFacts
<1>3. \A w \in Base..(End - 1) : \E i \in 1..Len(list) :
         list[i].addr <= w /\ w < list[i].addr + list[i].size
  <2>1. \A w \in Base..(End - 1) : \E i \in 1..Len(list) : w \in WordsOf(list[i])
    BY <1>1 DEF IInv, Accounted, Region
  <2> SUFFICES ASSUME NEW w \in Base..(End - 1)
               PROVE  \E i \in 1..Len(list) :
                         list[i].addr <= w /\ w < list[i].addr + list[i].size
    OBVIOUS
  <2>2. PICK i \in 1..Len(list) : w \in WordsOf(list[i])
    BY <2>1
  <2> QED BY <1>1, <1>2, <2>2 DEF WordsOf
<1>4. \A i, j \in 1..Len(list) : i < j => list[i].addr < list[j].addr
  BY <1>1 DEF Sorted
<1>5. \A i, j \in 1..Len(list) : i # j =>
         \/ list[i].addr + list[i].size <= list[j].addr
         \/ list[j].addr + list[j].size <= list[i].addr
  BY <1>1 DEF IInv, Exclusive, PairwiseApart, Apart
<1>6. \A i \in 1..(Len(list) - 1) : list[i].addr + list[i].size # list[i + 1].addr
  BY <1>1 DEF CoalescedBehind, AdjacentAt
<1>7. Len(list) >= 1 /\ list[1].addr = Base
  <2>1. PICK i \in 1..Len(list) : list[i].addr <= Base
    BY <1>1, <1>3
  <2>2. list[i].addr = Base
    BY <1>1, <1>2, <2>1
  <2>3. 1 \in 1..Len(list)
    BY <1>1
  <2>4. i = 1
    BY <1>2, <1>4, <2>2, <2>3
  <2> QED BY <2>2, <2>4, <1>1
<1>8. 1 \in 1..Len(list)
  BY <1>1, <1>7
<1>9. list[1].addr + list[1].size = End
  <2>0. /\ list[1].addr \in Nat /\ list[1].size \in Nat
        /\ list[1].addr + list[1].size <= End
    BY <1>2, <1>8
  <2> SUFFICES ASSUME list[1].addr + list[1].size < End PROVE FALSE
    BY <1>1, <2>0
  <2> DEFINE w == list[1].addr + list[1].size
  <2>1. w \in Base..(End - 1)
    <3>1. list[1].addr = Base /\ list[1].size \in Nat
      BY <1>2, <1>7, <1>8
    <3> QED BY <1>1, <3>1
  <2> HIDE DEF w
  <2>2. PICK k \in 1..Len(list) : list[k].addr <= w /\ w < list[k].addr + list[k].size
    BY <1>3, <2>1
  <2>3. k # 1
    <3>1. ~(w < list[1].addr + list[1].size)
      BY <2>0 DEF w
    <3> QED BY <2>2, <3>1
  <2>4. 2 \in 1..Len(list) /\ 1 \in 1..(Len(list) - 1) /\ (k = 2 \/ 2 < k)
    BY <1>1, <2>3
  <2>5. list[2].addr > w
    <3>1. w # list[2].addr
      BY <1>6, <2>4 DEF w
    <3>2. list[1].addr < list[2].addr
      BY <1>4, <1>8, <2>4
    <3>3. w <= list[2].addr \/ list[2].addr + list[2].size <= list[1].addr
      BY <1>5, <1>8, <2>4 DEF w
    <3>4. /\ list[1].addr \in Nat /\ list[2].addr \in Nat /\ list[2].size \in Nat /\ w \in Int
      BY <1>1, <1>2, <1>8, <2>1, <2>4
    <3> QED BY <3>1, <3>2, <3>3, <3>4
  <2>6. list[k].addr >= list[2].addr
    BY <1>2, <1>4, <2>4
  <2>7. list[2].addr \in Nat /\ list[k].addr \in Nat /\ w \in Int
    BY <1>1, <1>2, <2>1, <2>4
  <2> QED BY <2>2, <2>5, <2>6, <2>7
<1>10. Len(list) = 1
  <2> SUFFICES ASSUME 2 \in 1..Len(list) PROVE FALSE
    BY <1>1, <1>7
  <2>1. End <= list[2].addr \/ list[2].addr + list[2].size <= Base
    BY <1>5, <1>7, <1>8, <1>9
  <2> QED BY <1>1, <1>2, <2>1
<1>11. list[1] = Block(Base, Words)
  <2>1. list[1] \in BlockIn /\ list[1].size = Words
    BY <1>1, <1>2, <1>7, <1>8, <1>9
  <2> QED BY <1>7, <2>1 DEF BlockIn, Block
<1> QED BY <1>1, <1>10, <1>11

\* Every block on the list and every block a caller holds lies in the region
\* and can hold a FreeBlock (freelist.rs:48-156).
THEOREM FreeListType == Spec => []TypeOK
<1>1. IInv => TypeOK
  BY DEF IInv
<1> QED BY <1>1, InitIInv, StepIInv, PTL DEF Spec

\* No word has two owners, in whatever order alloc, free and coalesce are
\* called and however the list is ordered (freelist.rs:48-156).
THEOREM FreeListExclusive == Spec => []Exclusive
<1>1. IInv => Exclusive
  BY DEF IInv
<1> QED BY <1>1, InitIInv, StepIInv, PTL DEF Spec

\* No word is leaked but as an alignment gap or a remainder too short to list,
\* and a dropped word never comes back (freelist.rs:48-156).
THEOREM FreeListAccounted == Spec => []Accounted
<1>1. IInv => Accounted
  BY DEF IInv
<1> QED BY <1>1, InitIInv, StepIInv, PTL DEF Spec

\* Behind coalesce's `prev' no two neighbours of the list are mergeable, although
\* each merge changes the block that later comparisons start from, and
\* whatever the order of the list (freelist.rs:133-156).
THEOREM CoalesceComplete == Spec => []CoalescedBehind
<1>1. IInv /\ CoalescedBehind /\ [Next]_vars => IInv' /\ CoalescedBehind'
  BY StepIInv, StepBehind DEF IInv
<1>2. Init => IInv /\ CoalescedBehind
  BY InitIInv DEF Init, CoalescedBehind
<1> QED BY <1>1, <1>2, PTL DEF Spec

\* Once everything is freed a coalesced list in address order is one block, the
\* whole region, unless alloc dropped words (freelist.rs:48-156): the old
\* generation does not stay fragmented.
THEOREM FreeListRecovers == Spec => []SortedRecovers
<1>1. IInv /\ CoalescedBehind /\ [Next]_vars => IInv' /\ CoalescedBehind'
  BY StepIInv, StepBehind DEF IInv
<1>2. Init => IInv /\ CoalescedBehind
  BY InitIInv DEF Init, CoalescedBehind
<1>3. IInv /\ CoalescedBehind => SortedRecovers
  BY Recovers
<1> QED BY <1>1, <1>2, <1>3, PTL DEF Spec

-------------------------------------------------------------------------------
(* The sum over the list *)

Below == {ss \in Nat \X Nat : ss[1] < ss[2]}

LEMMA BelowWellFounded == IsWellFoundedOn(Below, Nat)
BY NatLessThanWellFounded DEF OpToRel, Below

\* A set of natural numbers has a least one: induction by the least
\* counterexample.
LEMMA Least ==
    ASSUME NEW S, S \subseteq Nat, S # {}
    PROVE  \E n \in S : \A m \in S : n <= m
<1>1. PICK n \in S : \A m \in S : ~ (<<m, n>> \in Below)
  BY BelowWellFounded, WFMin
<1>2. \A m \in Nat : \A k \in Nat : m < k => <<m, k>> \in Below
  BY DEF Below
<1>3. n \in Nat
  BY <1>1
<1>4. ASSUME NEW m \in S PROVE n <= m
  <2>1. m \in Nat
    OBVIOUS
  <2>2. ~(m < n)
    BY <1>1, <1>2, <1>3, <2>1
  <2> QED BY <1>3, <2>1, <2>2
<1> QED BY <1>1, <1>4

\* The loop of free_bytes: total[I] is the sum over the entries in set I, the
\* last one added last.
SumsOf(total, s) ==
    total = [I \in SUBSET DOMAIN s |->
               IF I = {} THEN 0 ELSE total[I \ {Max(I)}] + s[Max(I)].size]

LEMMA FreeWordsSum ==
    ASSUME NEW s PROVE FreeWords(s) = (CHOOSE total : SumsOf(total, s))[DOMAIN s]
BY DEF FreeWords, FoldLeft, MapThenFoldSet, SumsOf

\* The words of the entries in I.
Cover(s, I) == UNION {WordsOf(s[i]) : i \in I}

Without(I, m) == I \ {m}

\* m is one of the entries I of a list whose blocks are apart.
EntryIn(lo, hi, s, I, m) ==
    /\ s \in Seq(BlocksOf(lo, hi)) /\ PairwiseApart(s)
    /\ I \subseteq DOMAIN s /\ m \in I

LEMMA LargestEntry ==
    ASSUME NEW n \in Nat, NEW I \in SUBSET (1..n), I # {}
    PROVE  Max(I) \in I /\ \A i \in I : i <= Max(I)
<1> DEFINE S == {n - i : i \in I}
<1>1. S \subseteq Nat /\ S # {}
  <2>1. ASSUME NEW i \in I PROVE n - i \in Nat
    <3>1. i \in 1..n
      OBVIOUS
    <3> QED BY <3>1
  <2> QED BY <2>1
<1>2. PICK d \in S : \A e \in S : d <= e
  <2> HIDE DEF S
  <2> QED BY <1>1, Least
<1>3. PICK m \in I : d = n - m
  BY <1>2
<1>4. \A i \in I : m >= i
  <2>1. ASSUME NEW i \in I PROVE m >= i
    <3>1. n - m <= n - i
      BY <1>2, <1>3
    <3> QED BY <1>3, <3>1
  <2> QED BY <2>1
<1>5. Max(I) \in I /\ \A i \in I : Max(I) >= i
  BY <1>3, <1>4 DEF Max
<1> QED BY <1>5

\* One entry's words come on top of those of the others.
LEMMA CoverMore ==
    ASSUME NEW lo \in Nat, NEW hi \in Nat, NEW s, NEW I, NEW m, EntryIn(lo, hi, s, I, m)
    PROVE  /\ IsFiniteSet(Cover(s, I)) /\ Cover(s, I) \subseteq lo..(hi - 1)
           /\ Cardinality(Cover(s, Without(I, m))) \in Nat
           /\ Cardinality(Cover(s, I)) = Cardinality(Cover(s, Without(I, m))) + s[m].size
<1> USE DEF EntryIn, Without
<1>1. \A i \in DOMAIN s : /\ s[i] \in BlocksOf(lo, hi) /\ s[i].addr \in Nat /\ s[i].size \in Nat
                          /\ lo <= s[i].addr /\ s[i].addr + s[i].size <= hi
  BY BlocksOfFacts DEF BlocksOf
<1>2. \A i \in DOMAIN s : WordsOf(s[i]) \subseteq lo..(hi - 1)
  BY <1>1 DEF WordsOf
<1>3. IsFiniteSet(lo..(hi - 1))
  BY FS_Interval
<1>4. Cover(s, I) \subseteq lo..(hi - 1) /\ Cover(s, Without(I, m)) \subseteq lo..(hi - 1)
  BY <1>2 DEF Cover
<1>5. IsFiniteSet(Cover(s, I)) /\ IsFiniteSet(Cover(s, Without(I, m)))
  BY <1>3, <1>4, FS_Subset
<1>6. Cover(s, I) = Cover(s, Without(I, m)) \cup WordsOf(s[m])
  BY DEF Cover
<1>7. Cover(s, Without(I, m)) \cap WordsOf(s[m]) = {}
  <2>1. ASSUME NEW i \in I \ {m}, NEW w \in WordsOf(s[i]) PROVE w \notin WordsOf(s[m])
    <3>1. Apart(s[i], s[m])
      BY DEF PairwiseApart
    <3> QED BY <1>1, <2>1, <3>1, ApartWords
  <2> QED BY <2>1 DEF Cover
<1>8. IsFiniteSet(WordsOf(s[m])) /\ Cardinality(WordsOf(s[m])) = s[m].size
  <2>1. PICK a \in Nat, n \in Nat : a = s[m].addr /\ n = s[m].size
    BY <1>1
  <2>2. a \in Int /\ a + n - 1 \in Int /\ (IF a > a + n - 1 THEN 0 ELSE (a + n - 1) - a + 1) = n
    OBVIOUS
  <2>3. IsFiniteSet(a..(a + n - 1)) /\ Cardinality(a..(a + n - 1)) = n
    BY ONLY <2>2, FS_Interval
  <2>4. WordsOf(s[m]) = a..(a + n - 1)
    BY <2>1 DEF WordsOf
  <2> QED BY <2>1, <2>3, <2>4
<1>9. Cardinality(Cover(s, Without(I, m))) \in Nat
  BY <1>5, FS_CardinalityType
<1>10. Cardinality(Cover(s, I)) =
         Cardinality(Cover(s, Without(I, m))) + Cardinality(WordsOf(s[m])) - Cardinality({})
  BY <1>5, <1>6, <1>7, <1>8, FS_Union
<1>11. Cardinality({}) = 0
  BY FS_EmptySet
<1>12. s[m].size \in Nat
  BY <1>1
<1> QED BY <1>4, <1>5, <1>8, <1>9, <1>10, <1>11, <1>12

\* The sum free_bytes computes is the number of words listed.
LEMMA FreeWordsCount ==
    ASSUME NEW lo \in Nat, NEW hi \in Nat, NEW s \in Seq(BlocksOf(lo, hi)), PairwiseApart(s)
    PROVE  FreeWords(s) = Cardinality(Cover(s, DOMAIN s))
<1> DEFINE g == [I \in SUBSET DOMAIN s |-> Cardinality(Cover(s, I))]
           t == CHOOSE total : SumsOf(total, s)
<1>1. Cardinality(Cover(s, {})) = 0
  <2>1. Cover(s, {}) = {}
    BY DEF Cover
  <2> QED BY <2>1, FS_EmptySet
<1>2. DOMAIN s = 1..Len(s) /\ Len(s) \in Nat
  OBVIOUS
<1>3. ASSUME NEW I \in SUBSET DOMAIN s, I # {}
      PROVE  /\ Max(I) \in I
             /\ Cardinality(Cover(s, I)) = Cardinality(Cover(s, I \ {Max(I)})) + s[Max(I)].size
  <2>1. Max(I) \in I
    BY <1>2, <1>3, LargestEntry
  <2>2. PICK m : m = Max(I) /\ EntryIn(lo, hi, s, I, m)
    BY <2>1 DEF EntryIn
  <2>3. Cardinality(Cover(s, I)) = Cardinality(Cover(s, Without(I, m))) + s[m].size
    BY <2>2, CoverMore
  <2> QED BY <2>1, <2>2, <2>3 DEF Without
<1>4. SumsOf(g, s)
  <2>1. ASSUME NEW I \in SUBSET DOMAIN s
        PROVE  g[I] = IF I = {} THEN 0 ELSE g[I \ {Max(I)}] + s[Max(I)].size
    <3>1. CASE I = {}
      BY <1>1, <3>1
    <3>2. CASE I # {}
      <4>1. I \ {Max(I)} \in SUBSET DOMAIN s
        OBVIOUS
      <4> QED BY <1>3, <3>2, <4>1
    <3> QED BY <3>1, <3>2
  <2> QED BY <2>1 DEF SumsOf
<1>5. SumsOf(t, s)
  <2> HIDE DEF g
  <2> QED BY <1>4
<1> HIDE DEF t
<1>6. \A I \in SUBSET DOMAIN s : t[I] = IF I = {} THEN 0 ELSE t[I \ {Max(I)}] + s[Max(I)].size
  BY <1>5 DEF SumsOf
<1> DEFINE S == {Cardinality(I) : I \in {J \in SUBSET DOMAIN s : t[J] # g[J]}}
<1>7. \A I \in SUBSET DOMAIN s : IsFiniteSet(I) /\ Cardinality(I) \in Nat
  <2>1. IsFiniteSet(DOMAIN s)
    <3>1. IsFiniteSet(1..Len(s))
      BY FS_Interval
    <3> QED BY <1>2, <3>1
  <2> QED BY <2>1, FS_Subset, FS_CardinalityType
<1>8. S = {}
  <2>1. SUFFICES ASSUME S # {} PROVE FALSE
    OBVIOUS
  <2>2. S \subseteq Nat
    BY <1>7
  <2>3. PICK n \in S : \A m \in S : n <= m
    <3> HIDE DEF S
    <3> QED BY <2>1, <2>2, Least
  <2>4. PICK I \in SUBSET DOMAIN s : n = Cardinality(I) /\ t[I] # g[I]
    BY <2>3
  <2>5. I # {}
    BY <1>1, <1>6, <2>4
  <2> DEFINE J == I \ {Max(I)}
  <2>6. J \in SUBSET DOMAIN s /\ Max(I) \in I
    BY <1>3, <2>5
  <2>7. Cardinality(J) = Cardinality(I) - 1
    BY <1>7, <2>6, FS_RemoveElement
  <2>8. t[J] = g[J]
    <3>1. ~(n <= Cardinality(J))
      BY <1>7, <2>4, <2>7
    <3>2. Cardinality(J) \notin S
      BY <2>3, <3>1
    <3> QED BY <2>6, <3>2
  <2>9. t[I] = g[J] + s[Max(I)].size
    BY <1>6, <2>5, <2>8
  <2>10. g[I] = g[J] + s[Max(I)].size
    BY <1>3, <2>5, <2>6
  <2> QED BY <2>4, <2>9, <2>10
<1>9. DOMAIN s \in SUBSET DOMAIN s
  OBVIOUS
<1>10. t[DOMAIN s] = g[DOMAIN s]
  BY <1>8, <1>9
<1> QED BY <1>9, <1>10, FreeWordsSum DEF t

HeldWords == UNION {WordsOf(b) : b \in held}

\* Every word is counted once: listed, held or dropped.
Conserved ==
    /\ FreeWords(list) \in Nat /\ Cardinality(HeldWords) \in Nat /\ Cardinality(lost) \in Nat
    /\ FreeWords(list) + Cardinality(HeldWords) + Cardinality(lost) = Cardinality(Region)

ConservedLaw == IInv => Conserved

LEMMA IInvConserved == ConservedLaw
<1> SUFFICES ASSUME IInv PROVE Conserved
  BY DEF ConservedLaw
<1> DEFINE L == Cover(list, DOMAIN list)
<1>1. Base \in Nat /\ End \in Nat /\ list \in Seq(BlocksOf(Base, End)) /\ PairwiseApart(list)
  BY RegionFacts DEF IInv, TypeOK, Exclusive
<1>2. FreeWords(list) = Cardinality(L)
  BY <1>1, FreeWordsCount
<1>3. \A w : w \in L <=> \E i \in DOMAIN list : w \in WordsOf(list[i])
  BY DEF Cover
<1>4. \A w : w \in HeldWords <=> \E b \in held : w \in WordsOf(b)
  BY DEF HeldWords
<1>5. IsFiniteSet(Region) /\ lost \subseteq Region
  BY <1>1, FS_Interval DEF Region, IInv, TypeOK
<1>6. ASSUME NEW b \in BlockIn
      PROVE  b.addr \in Nat /\ b.size \in Nat /\ WordsOf(b) \subseteq Region
  <2>1. b.addr \in Nat /\ b.size \in Nat /\ b.addr >= Base /\ b.addr + b.size <= End
    BY DEF BlockIn
  <2> QED BY <1>1, <2>1 DEF WordsOf, Region
<1>7. (\A i \in DOMAIN list : list[i] \in BlockIn) /\ held \subseteq BlockIn
  BY DEF IInv, TypeOK
<1>8. L \subseteq Region /\ HeldWords \subseteq Region
  BY <1>3, <1>4, <1>6, <1>7
<1>9. L \cap HeldWords = {}
  <2>1. ASSUME NEW i \in DOMAIN list, NEW b \in held, NEW w \in WordsOf(list[i])
        PROVE  w \notin WordsOf(b)
    <3>1. Apart(list[i], b) /\ list[i] \in BlockIn /\ b \in BlockIn
      BY <1>7 DEF IInv, Exclusive
    <3> QED BY <1>6, <2>1, <3>1, ApartWords
  <2> QED BY <1>3, <1>4, <2>1
<1>10. L \cap lost = {} /\ HeldWords \cap lost = {} /\ Region \subseteq L \cup HeldWords \cup lost
  BY <1>3, <1>4 DEF IInv, Accounted
<1> HIDE DEF L
<1>11. IsFiniteSet(L) /\ IsFiniteSet(HeldWords) /\ IsFiniteSet(lost)
  BY <1>5, <1>8, FS_Subset
<1>12. /\ Cardinality(L) \in Nat /\ Cardinality(HeldWords) \in Nat /\ Cardinality(lost) \in Nat
       /\ Cardinality({}) = 0
  BY <1>11, FS_CardinalityType, FS_EmptySet
<1>13. /\ IsFiniteSet(L \cup HeldWords)
       /\ Cardinality(L \cup HeldWords) = Cardinality(L) + Cardinality(HeldWords) - Cardinality({})
  BY <1>9, <1>11, FS_Union
<1>14. (L \cup HeldWords) \cap lost = {} /\ Region = (L \cup HeldWords) \cup lost
  BY <1>5, <1>8, <1>10
<1>15. Cardinality(Region) = Cardinality(L \cup HeldWords) + Cardinality(lost) - Cardinality({})
  BY <1>11, <1>13, <1>14, FS_Union
<1> QED BY <1>2, <1>12, <1>13, <1>15 DEF Conserved

LEMMA IInvConservedPrime == ConservedLaw'
BY IInvConserved, PTL

\* For any region and any requests, free_bytes() reports after alloc, free and
\* every iteration of coalesce exactly what was handed out, given back or dropped
\* (freelist.rs:20-105, 190-200).
THEOREM FreeListSum == Spec => FreeBytesExact
<1>1. ASSUME IInv, IInv'
      PROVE  FreeWords(list') - FreeWords(list)
               = Cardinality(UNION {WordsOf(b) : b \in held}) + Cardinality(lost)
                   - Cardinality(UNION {WordsOf(b) : b \in held'}) - Cardinality(lost')
  <2>1. Conserved /\ Conserved'
    BY <1>1, IInvConserved, IInvConservedPrime DEF ConservedLaw
  <2>2. /\ FreeWords(list) \in Nat /\ Cardinality(HeldWords) \in Nat /\ Cardinality(lost) \in Nat
        /\ FreeWords(list') \in Nat /\ Cardinality(HeldWords') \in Nat /\ Cardinality(lost') \in Nat
        /\ FreeWords(list) + Cardinality(HeldWords) + Cardinality(lost)
             = FreeWords(list') + Cardinality(HeldWords') + Cardinality(lost')
    BY <2>1 DEF Conserved, Region, End
  <2> QED BY <2>2 DEF HeldWords
<1>2. Spec => []IInv
  BY InitIInv, StepIInv, PTL DEF Spec
<1> QED BY <1>1, <1>2, PTL DEF FreeBytesExact
=================================================================================
