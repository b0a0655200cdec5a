--------------------------------- MODULE Heap ---------------------------------
(***************************************************************************)
(* The managed heap the interpreter and the collector share: two regions   *)
(* (heap/region.rs), objects behind a GcHeader (object/header.rs) laid out *)
(* by a TypeDescriptor (object/descriptor.rs), the bump cursor of the      *)
(* young region (heap/bump.rs), the free list of the old one               *)
(* (FreeListOps), the card table, and the slots references live in: frame  *)
(* locals, operand stacks and static fields.                               *)
(*                                                                         *)
(* Addresses are counted in 8-byte words.  An object is recorded at the    *)
(* address of its header, which is what every reference holds; the words   *)
(* behind the header belong to it by its size.  A word without an entry    *)
(* holds whatever the last owner left: zeros in a reset young region, a    *)
(* FreeBlock or stale bytes in the old one.                                *)
(***************************************************************************)
EXTENDS FreeListOps, FiniteSets

CONSTANTS
    YoungBase, YoungWords,   \* the young region
    OldBase, OldWords,       \* the old region
    CardWords,               \* CARD_SIZE in words
    Classes,                 \* loaded classes
    Size,                    \* Size[c]: header and payload of an instance, in words
    FieldIds,                \* reference fields of any class
    Pointers,                \* Pointers[c]: the reference fields of class c
    Locals,                  \* max_locals of every method
    Statics,                 \* static fields of reference type
    NoObject                 \* "no header at this address"

Null == 0

\* size_of::<GcHeader>() in words.
HeaderWords == 3

YoungEnd == YoungBase + YoungWords
OldEnd == OldBase + OldWords
Young == YoungBase .. (YoungEnd - 1)
Old == OldBase .. (OldEnd - 1)
Addr == Young \cup Old
Ref == Addr \cup {Null}

Color == {"White", "Grey", "Black"}

Object == [cls : Classes, mark : Color, fields : [FieldIds -> Ref], id : Nat]

ASSUME HeapAssumption ==
    /\ YoungBase \in Nat \ {0} /\ YoungWords \in Nat
    /\ OldBase \in Nat \ {0} /\ OldWords \in Nat /\ OldWords >= FreeBlockWords
    /\ YoungEnd <= OldBase \/ OldEnd <= YoungBase   \* two mappings
    /\ CardWords \in Nat \ {0}
    /\ Size \in [Classes -> Nat]
    /\ \A c \in Classes : Size[c] >= HeaderWords
    /\ Pointers \in [Classes -> SUBSET FieldIds]
    /\ Locals \in Nat
    /\ NoObject \notin Object

VARIABLES
    mem,      \* mem[a]: the object whose header is at a, or NoObject
    top,      \* BumpAllocator::cursor
    free,     \* FreeListAllocator::free_list
    cards,    \* indices of the dirty cards
    frames,   \* call_stack: locals and operand stack of each frame
    statics   \* Interpreter::static_fields

heapVars == <<mem, top, free, cards, frames, statics>>

Frame == [loc : [1..Locals -> Ref], stk : Seq(Ref)]

IsObject(a) == a \in Addr /\ mem[a] # NoObject

\* Region::contains(header.object_start()): the regions are asked about the
\* word BEHIND the header.
InYoung(a) == a + HeaderWords \in Young
InOld(a) == a + HeaderWords \in Old

Marked(a) == IsObject(a) /\ mem[a].mark # "White"

\* The addresses in S for which is_marked() may answer false.  Where there is no
\* header the mark byte is whatever the last owner left, but zero in eden
\* above the bump cursor.
UnmarkedIn(S) ==
    {U \in SUBSET S : \A a \in S :
        /\ IsObject(a) => (a \in U <=> mem[a].mark = "White")
        /\ (~IsObject(a) /\ a \in Young /\ a >= top) => a \in U}

\* TypeDescriptor::trace: the children of the object at a.
Children(a) == {mem[a].fields[k] : k \in Pointers[mem[a].cls]} \ {Null}

\* Paint(S, c): the memory after set_mark(c) on the objects S.  Where there is
\* no header set_mark writes its byte into whatever is there: the steps that
\* may do so are actions of their own and end in the phase "wild".
Paint(S, c) ==
    [a \in Addr |-> IF a \in S THEN [mem[a] EXCEPT !.mark = c] ELSE mem[a]]

\* RootRegistry::iter_roots: no global is ever registered, and a frame
\* registers its locals only (Frame::reference_slots).
Roots ==
    (UNION {{frames[i].loc[j] : j \in 1..Locals} : i \in DOMAIN frames}) \ {Null}

OperandRefs == (UNION {ToSet(frames[i].stk) : i \in DOMAIN frames}) \ {Null}
StaticRefs == {statics[s] : s \in Statics} \ {Null}

\* CardTable::card_index of an address in the old region.
CardIndex(a) == (a - OldBase) \div CardWords

\* A freshly constructed collector and interpreter.
HeapInit ==
    /\ mem = [a \in Addr |-> NoObject]
    /\ top = YoungBase
    /\ free = <<Block(OldBase, OldWords)>>
    /\ cards = {}
    /\ frames = <<>>
    /\ statics = [s \in Statics |-> Null]

\* A free block the allocator can have written: it lies in the old region.
OldBlock ==
    {b \in [addr : Nat, size : Nat] :
        /\ b.addr >= OldBase
        /\ b.size >= FreeBlockWords
        /\ b.addr + b.size <= OldEnd}

HeapTypeOK ==
    /\ mem \in [Addr -> Object \cup {NoObject}]
    /\ top \in YoungBase .. YoungEnd
    /\ free \in Seq(OldBlock)
    /\ cards \subseteq Nat
    /\ frames \in Seq(Frame)
    /\ statics \in [Statics -> Ref]
===============================================================================
