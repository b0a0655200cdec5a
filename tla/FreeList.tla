------------------------------- MODULE FreeList -------------------------------
(***************************************************************************)
(* FreeListAllocator (src/heap/freelist.rs) as a state machine: alloc,     *)
(* free and coalesce on one region, called in any order, which is what     *)
(* Promoter::promote and Sweeper::sweep_old do.  The calls exclude each    *)
(* other (the collector borrows the allocator mutably), so alloc and free  *)
(* are single actions; coalesce takes one action per iteration of its      *)
(* loop, and nothing else runs until it ends.                              *)
(*                                                                         *)
(* `held' and `lost' are ghosts: what the callers own, and the words that  *)
(* no list entry and no caller accounts for any more.                      *)
(***************************************************************************)
EXTENDS FreeListOps, FiniteSets

CONSTANTS
    Base,    \* first word of the region
    Words,   \* its length in words
    Sizes,   \* the lengths callers ask for
    Aligns   \* the alignments callers ask for, in words

ASSUME FreeListAssumption ==
    /\ Base \in Nat
    /\ Words \in Nat
    /\ Words >= FreeBlockWords
    /\ Sizes \subseteq Nat
    /\ \A n \in Sizes : n >= FreeBlockWords  \* every object has a GcHeader
    /\ Aligns \subseteq Nat \ {0}

VARIABLES
    list,    \* free_list, in link order
    held,    \* blocks handed out by alloc and not yet freed
    lost,    \* words dropped by alloc
    walk     \* index of coalesce's `prev'; 0 when coalesce is not running

vars == <<list, held, lost, walk>>

End == Base + Words
Region == Base .. (End - 1)

\* A block that lies in the region and can hold a FreeBlock.
BlockIn ==
    {b \in [addr : Nat, size : Nat] :
        /\ b.addr >= Base
        /\ b.size >= FreeBlockWords
        /\ b.addr + b.size <= End}

TypeOK ==
    /\ list \in Seq(BlockIn)
    /\ held \subseteq BlockIn
    /\ lost \subseteq Region
    /\ walk \in Nat

\* Collector::new seeds the list with the whole region.
Init ==
    /\ list = <<Block(Base, Words)>>
    /\ held = {}
    /\ lost = {}
    /\ walk = 0

Alloc(n, align) ==
    /\ walk = 0
    /\ \E i \in DOMAIN list :
         /\ FirstFit(list, i, n, align)
         /\ list' = AllocList(list, i, n, align)
         /\ held' = held \cup {Block(AllocAddr(list[i], align), n)}
         /\ lost' = lost \cup LostWords(list[i], n, align)
    /\ UNCHANGED walk

Free(b) ==
    /\ walk = 0
    /\ \E i \in 1..(Len(list) + 1) :
         /\ InsertPos(list, i, b.addr)
         /\ list' = FreeInsert(list, i, b)
    /\ held' = held \ {b}
    /\ UNCHANGED <<lost, walk>>

CoalesceStart ==
    /\ walk = 0
    /\ walk' = 1
    /\ UNCHANGED <<list, held, lost>>

\* Advances prev after a merge.
FaultyCoalesceMerge ==
    /\ walk > 0
    /\ walk < Len(list)
    /\ AdjacentAt(list, walk)
    /\ list' = MergeAt(list, walk)
    /\ walk' = walk + 1
    /\ UNCHANGED <<held, lost>>

\* prev touches curr: merge, keep prev.
CoalesceMerge ==
    /\ walk > 0
    /\ walk < Len(list)
    /\ AdjacentAt(list, walk)
    /\ list' = MergeAt(list, walk)
    /\ UNCHANGED <<held, lost, walk>>

\* Never advances prev.
FaultyCoalesceSkip ==
    /\ walk > 0
    /\ walk < Len(list)
    /\ ~AdjacentAt(list, walk)
    /\ UNCHANGED vars

\* prev does not touch curr: advance prev.
CoalesceSkip ==
    /\ walk > 0
    /\ walk < Len(list)
    /\ ~AdjacentAt(list, walk)
    /\ walk' = walk + 1
    /\ UNCHANGED <<list, held, lost>>

CoalesceEnd ==
    /\ walk > 0
    /\ walk >= Len(list)
    /\ walk' = 0
    /\ UNCHANGED <<list, held, lost>>

Next ==
    \/ \E n \in Sizes, align \in Aligns : Alloc(n, align)
    \/ \E b \in held : Free(b)
    \/ CoalesceStart
    \/ CoalesceMerge
    \/ CoalesceSkip
    \/ CoalesceEnd

\* A running coalesce is never abandoned.
Spec ==
    /\ Init
    /\ [][Next]_vars
    /\ WF_vars(CoalesceMerge \/ CoalesceSkip \/ CoalesceEnd)

-------------------------------------------------------------------------------
\* No two owners of one word: a listed block never overlaps another listed
\* block or a block a caller holds, and two callers never hold the same word
\* (freelist.rs alloc, free and coalesce together).
Exclusive ==
    /\ PairwiseApart(list)
    /\ \A i \in DOMAIN list, b \in held : Apart(list[i], b)
    /\ \A b, c \in held : b # c => Apart(b, c)

\* No word disappears but by the two ways alloc drops one: every word of the
\* region is listed, held, or was an alignment gap or a remainder too short
\* to list, and a dropped word is never handed out again.
Accounted ==
    /\ \A w \in Region :
         \/ \E i \in DOMAIN list : w \in WordsOf(list[i])
         \/ \E b \in held : w \in WordsOf(b)
         \/ w \in lost
    /\ \A w \in lost :
         /\ \A i \in DOMAIN list : w \notin WordsOf(list[i])
         /\ \A b \in held : w \notin WordsOf(b)

\* coalesce leaves no mergeable pair behind its `prev' pointer, although each
\* merge changes the block that later comparisons start from.
CoalescedBehind ==
    \A i \in 1..(walk - 1) : i < Len(list) => ~AdjacentAt(list, i)

Sorted == \A i, j \in DOMAIN list : i < j => list[i].addr < list[j].addr

\* Nothing is fragmented for good as long as the list is in address order: when
\* coalesce has walked a sorted list and every caller has freed its blocks,
\* the words not dropped are one block per gap, the whole region if none was.
SortedRecovers ==
    (walk > 0 /\ walk >= Len(list) /\ Sorted /\ held = {} /\ lost = {})
        => list = <<Block(Base, Words)>>

\* alloc and free say what they do to the sum free_bytes() reports, on which
\* Collector::old_gen_used and the 80% trigger of collect_minor depend: the
\* sum changes by exactly what is handed out, dropped or given back, and
\* coalesce leaves it alone.
FreeBytesExact ==
    [][ FreeWords(list') - FreeWords(list)
          = Cardinality(UNION {WordsOf(b) : b \in held})
              + Cardinality(lost)
              - Cardinality(UNION {WordsOf(b) : b \in held'})
              - Cardinality(lost') ]_vars

\* coalesce's loop ends: each iteration either shortens the list or moves on.
CoalesceTerminates == (walk > 0) ~> (walk = 0)
===============================================================================
