----------------------------- MODULE FreeListOps -----------------------------
(***************************************************************************)
(* The old generation's free list (src/heap/freelist.rs) as a sequence of  *)
(* blocks in LINK order, the head first.  Addresses and sizes are counted  *)
(* in 8-byte words: every caller asks for a multiple of the alignment of   *)
(* GcHeader, and both GcHeader and FreeBlock are 24 bytes long.            *)
(*                                                                         *)
(* No operator is recursive: a loop of the code that searches the list is  *)
(* a predicate that names the index the loop stops at, and the loop of     *)
(* `coalesce', which rewrites the list, is one step per iteration in the   *)
(* modules that use this one (MergeAt).                                    *)
(*                                                                         *)
(* In this module and the others, a definition named Faulty... is one that *)
(* no specification uses: it is the definition below it with a plausible   *)
(* mistake, and shows that a property would notice.                        *)
(***************************************************************************)
EXTENDS Integers, Sequences, SequencesExt

\* size_of::<FreeBlock>() in words: a smaller remainder cannot be listed.
FreeBlockWords == 3

Block(a, n) == [addr |-> a, size |-> n]

\* The words a block covers.
WordsOf(b) == b.addr .. (b.addr + b.size - 1)

\* Two blocks share no word.
Apart(b, c) == b.addr + b.size <= c.addr \/ c.addr + c.size <= b.addr

\* No two entries of the list share a word.
PairwiseApart(list) == \A i, j \in DOMAIN list : i # j => Apart(list[i], list[j])

\* First address at or after a that is a multiple of align.
AlignUp(a, align) == ((a + align - 1) \div align) * align

AllocAddr(b, align) == AlignUp(b.addr, align)

\* alignment_wasted + size
Needed(b, n, align) == AllocAddr(b, align) - b.addr + n

Fits(b, n, align) == b.size >= Needed(b, n, align)

\* alloc's search stops at block i: the first one in link order that fits.
FirstFit(list, i, n, align) ==
    /\ i \in DOMAIN list
    /\ Fits(list[i], n, align)
    /\ \A j \in 1..(i - 1) : ~Fits(list[j], n, align)

\* alloc's search runs off the end of the list: it returns None.
NoFit(list, n, align) == \A i \in DOMAIN list : ~Fits(list[i], n, align)

\* Forgets the alignment gap.
FaultyLeftover(b, n, align) == b.size - n

Leftover(b, n, align) == b.size - Needed(b, n, align)

\* Lists remainders that cannot hold a FreeBlock.
FaultyAllocListSmall(list, i, n, align) ==
    LET b == list[i]
    IN  IF Leftover(b, n, align) > 0
        THEN <<Block(AllocAddr(b, align) + n, Leftover(b, n, align))>> \o RemoveAt(list, i)
        ELSE RemoveAt(list, i)

\* Leaves the remainder where the allocation is.
FaultyAllocListAt(list, i, n, align) ==
    LET b == list[i]
    IN  IF Leftover(b, n, align) >= FreeBlockWords
        THEN <<Block(AllocAddr(b, align), Leftover(b, n, align))>> \o RemoveAt(list, i)
        ELSE RemoveAt(list, i)

\* The list after block i served n words: the block is unlinked, and what is
\* left behind the allocation is PREPENDED when it can hold a FreeBlock and
\* dropped when it cannot.
AllocList(list, i, n, align) ==
    LET b    == list[i]
        rest == RemoveAt(list, i)
    IN  IF Leftover(b, n, align) >= FreeBlockWords
        THEN <<Block(AllocAddr(b, align) + n, Leftover(b, n, align))>> \o rest
        ELSE rest

\* The words of block i that alloc neither hands out nor lists again: the
\* alignment gap in front, and a remainder shorter than a FreeBlock.
LostWords(b, n, align) ==
    LET end == AllocAddr(b, align) + n
    IN  (b.addr .. (AllocAddr(b, align) - 1))
            \cup (IF Leftover(b, n, align) >= FreeBlockWords
                  THEN {} ELSE end .. (b.addr + b.size - 1))

\* free's search stops before position i: the first block above address a.
InsertPos(list, i, a) ==
    /\ i \in 1..(Len(list) + 1)
    /\ \A j \in 1..(i - 1) : list[j].addr <= a
    /\ i <= Len(list) => list[i].addr > a

FreeInsert(list, i, b) == InsertAt(list, i, b)

\* An off-by-one in the end of block i.
FaultyAdjacentAt(list, i) == list[i].addr + list[i].size + 1 = list[i + 1].addr

\* Merges blocks with something between them.
FaultyAdjacentAtLoose(list, i) == list[i].addr + list[i].size <= list[i + 1].addr

\* Block i ends where its successor in the list begins.
AdjacentAt(list, i) == list[i].addr + list[i].size = list[i + 1].addr

\* Unlinks curr and does not widen prev.
FaultyMergeAt(list, i) == RemoveAt(list, i + 1)

\* coalesce with `prev' at i merges i + 1 into it and leaves prev in place.
MergeAt(list, i) ==
    RemoveAt([list EXCEPT ![i].size = @ + list[i + 1].size], i + 1)

\* free_bytes(), in words.
FreeWords(list) == FoldLeft(LAMBDA acc, b : acc + b.size, 0, list)
==============================================================================
