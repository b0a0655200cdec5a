------------------------------- MODULE Collector -------------------------------
(***************************************************************************)
(* Collector::collect_minor and collect_major (gc/collector.rs) with the   *)
(* marker, the promoter and the sweeper they drive.  A loop of the code is *)
(* one action per iteration and a phase of `pc'; the marker's worklist is  *)
(* a set, since no result depends on the order it is emptied in (an object *)
(* is pushed once, when it turns grey).                                    *)
(*                                                                         *)
(* Only one mutator is registered here, so neither collection stops the    *)
(* world (do_stw is false); module Safepoint models that protocol.         *)
(*                                                                         *)
(* Three phases end a behaviour: "panic" is the failed debug_assert,       *)
(* "hung" a loop over a cyclic free list, "wild" the use of what a         *)
(* reference to no object leads to.  What comes after "wild" depends on    *)
(* stale bytes, which the model does not keep.                             *)
(*                                                                         *)
(* `risk' is a ghost: the causes, named where they arise, for which this   *)
(* collector does not keep the object graph.  The properties say that it   *)
(* keeps the graph whenever none of them has occurred.                     *)
(***************************************************************************)
EXTENDS Heap

CONSTANT DebugBuild   \* debug assertions are compiled in

ASSUME CollectorAssumption == DebugBuild \in BOOLEAN

VARIABLES
    pc,       \* phase of the interpreter thread
    work,     \* Marker::worklist
    cursor,   \* cursor of sweep_young and sweep_old
    fwd,      \* Promoter::forwarding, Null where it has no entry
    walk,     \* coalesce's `prev', an index of the free list
    risk      \* ghost

gcVars == <<pc, work, cursor, fwd, walk, risk>>

Risks == {"operand", "static", "oldyoung", "flush", "full", "blackparent", "sliver"}

MinorPhases == {"mark", "drain", "sweep", "fixobjs", "fixroots", "reset"}
MajorPhases == {"markmajor", "drainmajor", "sweepold", "coalesce"}
Dead == {"panic", "hung", "wild"}
Phases == {"run", "alloc", "retry"} \cup MinorPhases \cup MajorPhases \cup Dead

GcInit ==
    /\ pc = "run"
    /\ work = {}
    /\ cursor = YoungBase
    /\ fwd = [a \in Addr |-> Null]
    /\ walk = 0
    /\ risk = {}

GcTypeOK ==
    /\ pc \in Phases
    /\ work \subseteq Addr
    /\ cursor \in Nat
    /\ fwd \in [Addr -> Ref]
    /\ walk \in Nat
    /\ risk \subseteq Risks

-------------------------------------------------------------------------------
(* mark_minor *)

\* References into eden the marker does not follow and the promoter does not
\* rewrite: operand stacks, static fields, and fields of old objects.
UntracedEden ==
    (IF \E r \in OperandRefs : r \in Young THEN {"operand"} ELSE {})
      \cup (IF \E r \in StaticRefs : r \in Young THEN {"static"} ELSE {})
      \cup (IF \E a \in Old : IsObject(a) /\ \E c \in Children(a) : c \in Young
            THEN {"oldyoung"} ELSE {})

\* The root loop: white objects of eden the locals refer to turn grey.
MarkMinor ==
    /\ pc = "mark"
    /\ \E hit \in UnmarkedIn({r \in Roots : InYoung(r)}) :
         /\ \A r \in hit : IsObject(r)
         /\ mem' = Paint(hit, "Grey")
         /\ work' = hit
    /\ pc' = "drain"
    /\ UNCHANGED <<top, free, cards, frames, statics, cursor, fwd, walk, risk>>

\* A root to no object reads as white: set_mark overwrites what lies there.
MarkMinorWild ==
    /\ pc = "mark"
    /\ \E hit \in UnmarkedIn({r \in Roots : InYoung(r)}) : \E r \in hit : ~IsObject(r)
    /\ pc' = "wild"
    /\ UNCHANGED <<heapVars, work, cursor, fwd, walk, risk>>

\* drain pops a: its white children in the region turn grey, then a is black.
\* (The worklist holds objects only.)
Blacken(a, followed) ==
    /\ IsObject(a)
    /\ \E hit \in UnmarkedIn(Children(a) \cap followed) :
         /\ \A c \in hit : IsObject(c)
         /\ mem' = [Paint(hit, "Grey") EXCEPT ![a].mark = "Black"]
         /\ work' = (work \ {a}) \cup hit
    /\ UNCHANGED pc

\* A child that is no object reads as white.
DrainWild(a, followed) ==
    /\ IsObject(a)
    /\ \E hit \in UnmarkedIn(Children(a) \cap followed) : \E c \in hit : ~IsObject(c)
    /\ pc' = "wild"
    /\ UNCHANGED <<mem, work>>

\* Blackens without tracing.
FaultyDrainMinor ==
    /\ pc = "drain"
    /\ \E a \in work :
         /\ IsObject(a)
         /\ mem' = [mem EXCEPT ![a].mark = "Black"]
         /\ work' = work \ {a}
    /\ UNCHANGED <<top, free, cards, frames, statics, pc, cursor, fwd, walk, risk>>

DrainMinor ==
    /\ pc = "drain"
    /\ \E a \in work :
         LET followed == {r \in Addr : InYoung(r)}
         IN  Blacken(a, followed) \/ DrainWild(a, followed)
    /\ UNCHANGED <<top, free, cards, frames, statics, cursor, fwd, walk, risk>>

MarkMinorEnd ==
    /\ pc = "drain"
    /\ work = {}
    /\ pc' = "sweep"
    /\ cursor' = YoungBase
    /\ UNCHANGED <<mem, top, free, cards, frames, statics, work, fwd, walk, risk>>

-------------------------------------------------------------------------------
(* sweep_young *)

\* GcHeader::size of the object at a.
SizeAt(a) == Size[mem[a].cls]

\* A header that ends where its region ends: the region does not contain its
\* object_start, so the marker never follows a reference to it.
Flush(a, n) == n = HeaderWords /\ a + n \in {YoungEnd, OldEnd}

\* The walk reads a header at the cursor; on a word without one it would read
\* size 0 and never advance, so no step is possible there (EdenTiled).
\* White: dead, left for the reset.
SweepWhite ==
    /\ pc = "sweep"
    /\ cursor < top
    /\ IsObject(cursor)
    /\ mem[cursor].mark = "White"
    /\ cursor' = cursor + SizeAt(cursor)
    /\ UNCHANGED <<mem, top, free, cards, frames, statics, pc, work, fwd, walk, risk>>

\* Black, and the old generation has room: Promoter::promote copies the object
\* verbatim, its black mark included.
SweepPromote ==
    /\ pc = "sweep"
    /\ cursor < top
    /\ IsObject(cursor)
    /\ mem[cursor].mark = "Black"
    /\ \E i \in DOMAIN free :
         LET n  == SizeAt(cursor)
             to == AllocAddr(free[i], 1)
         IN  /\ FirstFit(free, i, n, 1)
             /\ free' = AllocList(free, i, n, 1)
             /\ mem' = [mem EXCEPT ![to] = mem[cursor]]
             /\ fwd' = [fwd EXCEPT ![cursor] = to]
             /\ risk' = risk
                  \cup (IF LostWords(free[i], n, 1) # {} THEN {"sliver"} ELSE {})
                  \cup (IF Flush(to, n) THEN {"flush"} ELSE {})
    /\ cursor' = cursor + SizeAt(cursor)
    /\ UNCHANGED <<top, cards, frames, statics, pc, work, walk>>

\* Black, and no block fits: the survivor stays in eden, which is reset below.
SweepFull ==
    /\ pc = "sweep"
    /\ cursor < top
    /\ IsObject(cursor)
    /\ mem[cursor].mark = "Black"
    /\ NoFit(free, SizeAt(cursor), 1)
    /\ cursor' = cursor + SizeAt(cursor)
    /\ risk' = risk \cup {"full"}
    /\ UNCHANGED <<mem, top, free, cards, frames, statics, pc, work, fwd, walk>>

SweepEnd ==
    /\ pc = "sweep"
    /\ cursor >= top
    /\ pc' = "fixobjs"
    /\ cursor' = YoungBase
    /\ UNCHANGED <<heapVars, work, fwd, walk, risk>>

\* No forwarding address is ever found.
FaultyForward(r) == r

Forward(r) == IF r \in Addr /\ fwd[r] # Null THEN fwd[r] ELSE r

\* The copies keep their eden addresses.
FaultyFixObjects ==
    /\ pc = "fixobjs"
    /\ pc' = "fixroots"
    /\ UNCHANGED <<heapVars, work, cursor, fwd, walk, risk>>

\* fixup_promoted_objects: every pointer field of every copy is forwarded.
FixObjects ==
    /\ pc = "fixobjs"
    /\ LET copies == {fwd[a] : a \in Addr} \ {Null}
       IN  mem' = [a \in Addr |->
                     IF a \in copies /\ IsObject(a)
                     THEN [mem[a] EXCEPT !.fields =
                             [k \in FieldIds |->
                                IF k \in Pointers[mem[a].cls]
                                THEN Forward(@[k]) ELSE @[k]]]
                     ELSE mem[a]]
    /\ pc' = "fixroots"
    /\ UNCHANGED <<top, free, cards, frames, statics, work, cursor, fwd, walk, risk>>

FixFrame(f) == [f EXCEPT !.loc = [j \in 1..Locals |-> Forward(@[j])]]

\* Forwards the topmost frame only.
FaultyFixRoots ==
    /\ pc = "fixroots"
    /\ frames' = [i \in DOMAIN frames |->
                    IF i = Len(frames) THEN FixFrame(frames[i]) ELSE frames[i]]
    /\ pc' = "reset"
    /\ UNCHANGED <<mem, top, free, cards, statics, work, cursor, fwd, walk, risk>>

\* fixup_roots: the registered slots are forwarded; operand stacks are not
\* registered, and the dirty-card pass is skipped.
FixRoots ==
    /\ pc = "fixroots"
    /\ frames' = [i \in DOMAIN frames |-> FixFrame(frames[i])]
    /\ pc' = "reset"
    /\ UNCHANGED <<mem, top, free, cards, statics, work, cursor, fwd, walk, risk>>

OldUsed == OldWords - FreeWords(free)

\* old_gen_used() > size * 8 / 10, in bytes.
OverTrigger == 8 * OldUsed > (64 * OldWords) \div 10

\* Zeroes eden and leaves the bump cursor at its end.
FaultyReset ==
    /\ pc = "reset"
    /\ mem' = [a \in Addr |-> IF a \in Young THEN NoObject ELSE mem[a]]
    /\ fwd' = [a \in Addr |-> Null]
    /\ pc' = IF OverTrigger THEN "markmajor" ELSE "retry"
    /\ UNCHANGED <<top, free, cards, frames, statics, work, cursor, walk, risk>>

\* bump.reset() zeroes eden, promoter.reset() empties the forwarding table, and
\* collect_minor ends by testing the old generation's occupancy.
Reset ==
    /\ pc = "reset"
    /\ mem' = [a \in Addr |-> IF a \in Young THEN NoObject ELSE mem[a]]
    /\ top' = YoungBase
    /\ fwd' = [a \in Addr |-> Null]
    /\ pc' = IF OverTrigger THEN "markmajor" ELSE "retry"
    /\ UNCHANGED <<free, cards, frames, statics, work, cursor, walk, risk>>

-------------------------------------------------------------------------------
(* mark_major *)

\* References the major marker never sees, and black objects it does not
\* trace although a child of theirs is white.
UntracedOld ==
    (IF OperandRefs # {} THEN {"operand"} ELSE {})
      \cup (IF StaticRefs # {} THEN {"static"} ELSE {})
      \cup (IF \E a \in Old : /\ IsObject(a)
                              /\ mem[a].mark = "Black"
                              /\ \E c \in Children(a) : ~Marked(c)
            THEN {"blackparent"} ELSE {})

\* Asks for roots in eden, as mark_minor does.
FaultyMarkMajor ==
    /\ pc = "markmajor"
    /\ \E hit \in UnmarkedIn({r \in Roots : InYoung(r)}) :
         /\ \A r \in hit : IsObject(r)
         /\ mem' = Paint(hit, "Grey")
         /\ work' = hit
    /\ risk' = risk \cup UntracedOld
    /\ pc' = "drainmajor"
    /\ UNCHANGED <<top, free, cards, frames, statics, cursor, fwd, walk>>

\* The root loop, which does not ask what region a root is in and skips a
\* root that is already marked.
MarkMajor ==
    /\ pc = "markmajor"
    /\ \E hit \in UnmarkedIn(Roots) :
         /\ \A r \in hit : IsObject(r)
         /\ mem' = Paint(hit, "Grey")
         /\ work' = hit
    /\ risk' = risk \cup UntracedOld
    /\ pc' = "drainmajor"
    /\ UNCHANGED <<top, free, cards, frames, statics, cursor, fwd, walk>>

\* As MarkMinorWild.
MarkMajorWild ==
    /\ pc = "markmajor"
    /\ \E hit \in UnmarkedIn(Roots) : \E r \in hit : ~IsObject(r)
    /\ pc' = "wild"
    /\ UNCHANGED <<heapVars, work, cursor, fwd, walk, risk>>

DrainMajor ==
    /\ pc = "drainmajor"
    /\ \E a \in work :
         LET followed == {r \in Addr : InOld(r)}
         IN  Blacken(a, followed) \/ DrainWild(a, followed)
    /\ UNCHANGED <<top, free, cards, frames, statics, cursor, fwd, walk, risk>>

MarkMajorEnd ==
    /\ pc = "drainmajor"
    /\ work = {}
    /\ pc' = "sweepold"
    /\ cursor' = OldBase
    /\ UNCHANGED <<heapVars, work, fwd, walk, risk>>

-------------------------------------------------------------------------------
(* sweep_old *)

\* A dead object becomes a free block and its header is overwritten.
SweepOldWhite ==
    /\ pc = "sweepold"
    /\ cursor < OldEnd
    /\ IsObject(cursor)
    /\ mem[cursor].mark = "White"
    /\ \E i \in 1..(Len(free) + 1) :
         /\ InsertPos(free, i, cursor)
         /\ free' = FreeInsert(free, i, Block(cursor, SizeAt(cursor)))
    /\ mem' = [mem EXCEPT ![cursor] = NoObject]
    /\ cursor' = cursor + SizeAt(cursor)
    /\ UNCHANGED <<top, cards, frames, statics, pc, work, fwd, walk, risk>>

\* A live object is white again for the next cycle.
SweepOldBlack ==
    /\ pc = "sweepold"
    /\ cursor < OldEnd
    /\ IsObject(cursor)
    /\ mem[cursor].mark = "Black"
    /\ mem' = [mem EXCEPT ![cursor].mark = "White"]
    /\ cursor' = cursor + SizeAt(cursor)
    /\ UNCHANGED <<top, free, cards, frames, statics, pc, work, fwd, walk, risk>>

\* A free block {base, size, next} is read as a header {mark, .., size}: its
\* colour byte is the low byte of an aligned address, white, and its size is
\* the low half of `next'.  The last block of the list has size 0: the debug
\* assertion fails, or the walk stops short.
SweepOldLastBlock ==
    /\ pc = "sweepold"
    /\ Len(free) > 0
    /\ free[Len(free)].addr = cursor
    /\ pc' = IF DebugBuild THEN "panic" ELSE "coalesce"
    /\ walk' = 1
    /\ cursor' = YoungBase
    /\ UNCHANGED <<heapVars, work, fwd, risk>>

\* Any other block reads as a dead object and is freed a second time while it
\* is on the list: the list becomes cyclic and the loops over it never end.
\* (What the walk reads between this step and that loop is not modelled.)
SweepOldListedBlock ==
    /\ pc = "sweepold"
    /\ \E i \in 1..(Len(free) - 1) : free[i].addr = cursor
    /\ pc' = "hung"
    /\ UNCHANGED <<heapVars, work, cursor, fwd, walk, risk>>

\* The walk is on a word that is neither.
SweepOldWild ==
    /\ pc = "sweepold"
    /\ cursor < OldEnd
    /\ ~IsObject(cursor)
    /\ \A i \in DOMAIN free : free[i].addr # cursor
    /\ pc' = "wild"
    /\ UNCHANGED <<heapVars, work, cursor, fwd, walk, risk>>

SweepOldEnd ==
    /\ pc = "sweepold"
    /\ cursor >= OldEnd
    /\ pc' = "coalesce"
    /\ walk' = 1
    /\ cursor' = YoungBase
    /\ UNCHANGED <<heapVars, work, fwd, risk>>

CoalesceMerge ==
    /\ pc = "coalesce"
    /\ walk < Len(free)
    /\ AdjacentAt(free, walk)
    /\ free' = MergeAt(free, walk)
    /\ UNCHANGED <<mem, top, cards, frames, statics, pc, work, cursor, fwd, walk, risk>>

\* Never advances prev.
FaultyCoalesceSkip ==
    /\ pc = "coalesce"
    /\ walk < Len(free)
    /\ ~AdjacentAt(free, walk)
    /\ UNCHANGED <<heapVars, gcVars>>

CoalesceSkip ==
    /\ pc = "coalesce"
    /\ walk < Len(free)
    /\ ~AdjacentAt(free, walk)
    /\ walk' = walk + 1
    /\ UNCHANGED <<heapVars, pc, work, cursor, fwd, risk>>

CoalesceEnd ==
    /\ pc = "coalesce"
    /\ walk >= Len(free)
    /\ pc' = "retry"
    /\ walk' = 0
    /\ UNCHANGED <<heapVars, work, cursor, fwd, risk>>

Minor ==
    \/ MarkMinor \/ MarkMinorWild \/ DrainMinor \/ MarkMinorEnd
    \/ SweepWhite \/ SweepPromote \/ SweepFull \/ SweepEnd
    \/ FixObjects \/ FixRoots \/ Reset

Major ==
    \/ MarkMajor \/ MarkMajorWild \/ DrainMajor \/ MarkMajorEnd
    \/ SweepOldWhite \/ SweepOldBlack \/ SweepOldLastBlock
    \/ SweepOldListedBlock \/ SweepOldWild \/ SweepOldEnd
    \/ CoalesceMerge \/ CoalesceSkip \/ CoalesceEnd
===============================================================================
