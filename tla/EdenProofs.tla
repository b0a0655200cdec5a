------------------------------- MODULE EdenProofs -------------------------------
(***************************************************************************)
(* Eden, for regions of any size, any classes and any program: its objects *)
(* tile it up to the bump cursor, the marking of a minor collection keeps  *)
(* the tri-colour invariant and marks what the locals reach in eden and no *)
(* more, and one collection is enough for NEW.                             *)
(***************************************************************************)
EXTENDS RuntimeProofs

\* The program runs, and a minor collection starts, with no mark in eden.
EdenWhite ==
    pc \in {"run", "alloc", "mark"} =>
      \A a \in Young : IsObject(a) => mem[a].mark = "White"

\* Eden is empty from its reset to the next attempt to allocate.
EdenEmpty ==
    pc \in MajorPhases \cup {"retry"} =>
      top = YoungBase /\ \A a \in Young : ~IsObject(a)

\* The worklist is empty outside the two loops that drain it.
WorkDone == pc \notin {"drain", "drainmajor"} \cup Dead => work = {}

\* A second attempt of NEW finds eden empty, and only what an empty eden cannot
\* hold starts a second collection.
Retrying ==
    /\ pc = "alloc" /\ retries > 0 => top = YoungBase
    /\ pc \in MinorPhases \cup MajorPhases \cup {"retry"} /\ retries > 0
         => Size[want] > YoungWords

\* Every header has its object_start in its own region.
NoFlush ==
    "flush" \notin risk => \A a \in Addr : IsObject(a) => ~Flush(a, SizeAt(a))

\* What is on the worklist or marked is reached from the locals inside eden.
OnlyReached ==
    (pc = "drain" /\ "flush" \notin risk) =>
      \A a \in Addr : IsObject(a) /\ (a \in work \/ (a \in Young /\ Marked(a)))
                        => a \in ReachFrom(Roots, Young)

EdenInv ==
    /\ IInv
    /\ EdenTiled /\ EdenWhite /\ EdenEmpty /\ WorkDone /\ Retrying
    /\ EdenMarked /\ NoFlush /\ OnlyReached /\ MarkExact
-------------------------------------------------------------------------------
(* What a step does to the memory *)

\* The objects are where they were, with their class, fields and identity.
Remarked ==
    \A a \in Addr :
      /\ IsObject(a)' <=> IsObject(a)
      /\ IsObject(a) => /\ mem'[a].cls = mem[a].cls
                        /\ mem'[a].fields = mem[a].fields
                        /\ mem'[a].id = mem[a].id

\* The objects are where they were, with their class, mark and identity.
Refielded ==
    \A a \in Addr :
      /\ IsObject(a)' <=> IsObject(a)
      /\ IsObject(a) => /\ mem'[a].cls = mem[a].cls
                        /\ mem'[a].mark = mem[a].mark
                        /\ mem'[a].id = mem[a].id

LEMMA SameMem ==
    ASSUME mem' = mem
    PROVE  /\ Remarked /\ Refielded
           /\ \A a \in Addr : IsObject(a) => mem'[a] = mem[a]
BY DEF Remarked, Refielded, IsObject

LEMMA Recoloured ==
    ASSUME NEW o \in Object, NEW c
    PROVE  /\ [o EXCEPT !.mark = c].mark = c
           /\ [o EXCEPT !.mark = c].cls = o.cls
           /\ [o EXCEPT !.mark = c].fields = o.fields
           /\ [o EXCEPT !.mark = c].id = o.id
BY DEF Object

\* The root loop paints the objects it hits and changes nothing else.
LEMMA RootsMem ==
    ASSUME TypeOK, NEW hit, \A r \in hit : IsObject(r), mem' = Paint(hit, "Grey")
    PROVE  /\ Remarked
           /\ \A a \in Addr : IsObject(a) =>
                mem'[a].mark = IF a \in hit THEN "Grey" ELSE mem[a].mark
<1>1. "Grey" \in Color
  BY DEF Color
<1>2. \A a \in Addr : IsObject(a)' <=> IsObject(a)
  BY <1>1, PaintFacts DEF IsObject
<1> SUFFICES ASSUME NEW a \in Addr, IsObject(a)
             PROVE  /\ mem'[a].cls = mem[a].cls
                    /\ mem'[a].fields = mem[a].fields
                    /\ mem'[a].id = mem[a].id
                    /\ mem'[a].mark = IF a \in hit THEN "Grey" ELSE mem[a].mark
  BY <1>2 DEF Remarked
<1>3. CASE a \in hit
  <2>1. mem'[a] = [mem[a] EXCEPT !.mark = "Grey"] /\ mem[a] \in Object
    BY <1>3, ObjectFacts DEF Paint
  <2> QED BY <1>3, <2>1 DEF Object
<1>4. CASE a \notin hit
  <2>1. mem'[a] = mem[a]
    BY <1>4 DEF Paint
  <2> QED BY <1>4, <2>1
<1> QED BY <1>3, <1>4

\* So does one iteration of drain, which blackens the object it popped.
LEMMA BlackenMem ==
    ASSUME TypeOK, NEW hit, \A c \in hit : IsObject(c), NEW a, IsObject(a),
           mem' = [Paint(hit, "Grey") EXCEPT ![a].mark = "Black"]
    PROVE  /\ Remarked
           /\ \A c \in Addr : IsObject(c) =>
                mem'[c].mark = IF c = a THEN "Black"
                               ELSE IF c \in hit THEN "Grey" ELSE mem[c].mark
<1> DEFINE m == Paint(hit, "Grey")
           o == [m[a] EXCEPT !.mark = "Black"]
<1>1. /\ m \in Memory
      /\ \A c \in Addr : m[c] # NoObject <=> IsObject(c)
  BY PaintFacts DEF Color
<1>2. \A c \in Addr : c # a /\ IsObject(c) =>
         /\ m[c].cls = mem[c].cls
         /\ m[c].fields = mem[c].fields
         /\ m[c].id = mem[c].id
         /\ m[c].mark = IF c \in hit THEN "Grey" ELSE mem[c].mark
  <2> SUFFICES ASSUME NEW c \in Addr, IsObject(c)
               PROVE  /\ m[c].cls = mem[c].cls
                      /\ m[c].fields = mem[c].fields
                      /\ m[c].id = mem[c].id
                      /\ m[c].mark = IF c \in hit THEN "Grey" ELSE mem[c].mark
    OBVIOUS
  <2>1. CASE c \in hit
    <3>1. m[c] = [mem[c] EXCEPT !.mark = "Grey"] /\ mem[c] \in Object
      BY <2>1, ObjectFacts DEF Paint
    <3> QED BY <2>1, <3>1 DEF Object
  <2>2. CASE c \notin hit
    <3>1. m[c] = mem[c]
      BY <2>2 DEF Paint
    <3> QED BY <2>2, <3>1
  <2> QED BY <2>1, <2>2
<1>3. a \in Addr
  BY DEF IsObject
<1>4. /\ m[a] \in Object /\ m[a].cls = mem[a].cls
      /\ m[a].fields = mem[a].fields /\ m[a].id = mem[a].id
  <2>1. m[a] \in Object
    BY <1>1, <1>3 DEF Memory
  <2>2. CASE a \in hit
    <3>1. m[a] = [mem[a] EXCEPT !.mark = "Grey"] /\ mem[a] \in Object
      BY <2>2, <1>3, ObjectFacts DEF Paint
    <3> QED BY <2>1, <2>2, <3>1 DEF Object
  <2>3. CASE a \notin hit
    <3>1. m[a] = mem[a]
      BY <2>3, <1>3 DEF Paint
    <3> QED BY <2>1, <3>1
  <2> QED BY <2>2, <2>3
<1>5. /\ o.mark = "Black" /\ o.cls = mem[a].cls /\ o.fields = mem[a].fields
      /\ o.id = mem[a].id /\ o # NoObject
  BY <1>4, Recoloured, Recolour DEF Color
<1>6. mem' = [m EXCEPT ![a] = o]
  OBVIOUS
<1> HIDE DEF m, o
<1>7. mem'[a] = o /\ \A c \in Addr : c # a => mem'[c] = m[c]
  BY <1>1, <1>3, <1>6 DEF Memory
<1>8. \A c \in Addr : IsObject(c)' <=> IsObject(c)
  BY <1>1, <1>5, <1>7 DEF IsObject
<1> QED BY <1>2, <1>3, <1>5, <1>7, <1>8 DEF Remarked

\* A bytecode keeps the objects where they are; PUTFIELD alone writes one.
LEMMA BytecodeMem ==
    ASSUME IInv, Bytecode
    PROVE  /\ pc = "run" /\ pc' \in {"run", "wild", "alloc"}
           /\ pc' = "alloc" => retries' = 0
           /\ UNCHANGED <<top, free, work, cursor, fwd, walk, risk, next>>
           /\ Refielded
<1>1. CASE UNCHANGED mem
  BY <1>1, SameMem, BytecodeQuiet
<1>2. ASSUME NEW obj, NEW value, NEW k \in FieldIds, Stores(obj, k, value)
      PROVE  Refielded
  <2>1. /\ obj \in Addr /\ IsObject(obj) /\ mem'[obj] # NoObject
        /\ mem'[obj].cls = mem[obj].cls /\ mem'[obj].mark = mem[obj].mark
        /\ mem'[obj].id = mem[obj].id
    BY <1>2, StoresFacts DEF IInv
  <2>2. \A a \in Addr : a # obj => mem'[a] = mem[a]
    BY <1>2, StoresElsewhere DEF IInv
  <2> QED BY <2>1, <2>2 DEF Refielded, IsObject
<1> QED BY <1>1, <1>2, BytecodeQuiet

\* One entry of the memory is replaced.
LEMMA OtherMem ==
    ASSUME TypeOK, NEW at \in Addr, NEW o, mem' = [mem EXCEPT ![at] = o]
    PROVE  mem'[at] = o /\ \A a \in Addr : a # at => mem'[a] = mem[a]
BY DEF TypeOK, HeapTypeOK

\* Promotion copies the object at the cursor to an address of the old
\* generation where there is none.
LEMMA PromoteMem ==
    ASSUME IInv, SweepPromote
    PROVE  \E i \in DOMAIN free, one \in Nat \ {0}, to \in Old :
             /\ IsObject(cursor) /\ cursor < top /\ mem[cursor].mark = "Black"
             /\ one = 1 /\ to = AllocAddr(free[i], one)
             /\ Fits(free[i], SizeAt(cursor), one)
             /\ free' = AllocList(free, i, SizeAt(cursor), one)
             /\ ~IsObject(to) /\ to + SizeAt(cursor) <= OldEnd
             /\ mem' = [mem EXCEPT ![to] = mem[cursor]]
             /\ fwd' = [fwd EXCEPT ![cursor] = to]
             /\ risk' = risk
                  \cup (IF LostWords(free[i], SizeAt(cursor), one) # {} THEN {"sliver"} ELSE {})
                  \cup (IF Flush(to, SizeAt(cursor)) THEN {"flush"} ELSE {})
<1> USE DEF IInv
<1>1. IsObject(cursor) /\ cursor < top /\ mem[cursor].mark = "Black"
  BY DEF SweepPromote
<1>2. PICK i \in DOMAIN free :
         /\ FirstFit(free, i, SizeAt(cursor), 1)
         /\ free' = AllocList(free, i, SizeAt(cursor), 1)
         /\ mem' = [mem EXCEPT ![AllocAddr(free[i], 1)] = mem[cursor]]
         /\ fwd' = [fwd EXCEPT ![cursor] = AllocAddr(free[i], 1)]
         /\ risk' = risk
              \cup (IF LostWords(free[i], SizeAt(cursor), 1) # {} THEN {"sliver"} ELSE {})
              \cup (IF Flush(AllocAddr(free[i], 1), SizeAt(cursor)) THEN {"flush"} ELSE {})
  BY DEF SweepPromote
<1>3. PICK n : n = SizeAt(cursor)
  OBVIOUS
<1>4. PICK one \in Nat \ {0} : one = 1
  OBVIOUS
<1>5. PICK to : to = AllocAddr(free[i], one)
  OBVIOUS
<1>6. n \in Nat /\ n >= 3 /\ free[i] \in BlocksOf(OldBase, OldEnd)
  BY <1>1, <1>3, ObjectFacts, RegionFacts DEF TypeOK, HeapTypeOK
<1>7. Fits(free[i], n, one)
  BY <1>2, <1>3, <1>4 DEF FirstFit
<1>8. /\ free[i].addr \in Nat /\ free[i].size \in Nat /\ free[i].addr >= OldBase
      /\ free[i].addr + free[i].size <= OldEnd
      /\ to \in Nat /\ to >= free[i].addr /\ to + n <= free[i].addr + free[i].size
  BY <1>4, <1>5, <1>6, <1>7, AllocFacts, BlocksOfFacts, RegionFacts
<1>9. to \in Old /\ to + n <= OldEnd
  BY <1>6, <1>8, RegionFacts DEF Old
<1>10. ~IsObject(to)
  <2> SUFFICES ASSUME IsObject(to) PROVE FALSE
    OBVIOUS
  <2>1. Apart(free[i], Live(to))
    BY <1>9 DEF OldApart
  <2>2. Live(to).addr = to /\ Live(to).size = SizeAt(to) /\ SizeAt(to) \in Nat /\ SizeAt(to) >= 3
    BY ObjectFacts
  <2> QED BY <1>6, <1>8, <2>1, <2>2 DEF Apart
<1> QED BY <1>1, <1>2, <1>3, <1>4, <1>5, <1>7, <1>9, <1>10

\* The promoted copies, and the fields of the object at a forwarded.
Copies == {fwd[a] : a \in Addr} \ {Null}

Forwarded(a) ==
    [k \in FieldIds |-> IF k \in Pointers[mem[a].cls] THEN Forward(mem[a].fields[k])
                                                      ELSE mem[a].fields[k]]

LEMMA FixObjectsMem ==
    ASSUME TypeOK, FixObjects
    PROVE  /\ Refielded
           /\ \A a \in Addr : IsObject(a) =>
                mem'[a].fields = IF a \in Copies THEN Forwarded(a) ELSE mem[a].fields
<1>1. mem' = [a \in Addr |-> IF a \in Copies /\ IsObject(a)
                            THEN [mem[a] EXCEPT !.fields = Forwarded(a)] ELSE mem[a]]
  BY DEF FixObjects, Copies, Forwarded
<1>2. \A a \in Addr : IsObject(a) => Forwarded(a) \in [FieldIds -> Ref]
  BY ForwardType, ObjectFacts DEF Forwarded
<1>3. ASSUME NEW a \in Addr
      PROVE  /\ mem'[a] # NoObject <=> IsObject(a)
             /\ IsObject(a) =>
                  /\ mem'[a].cls = mem[a].cls
                  /\ mem'[a].mark = mem[a].mark
                  /\ mem'[a].id = mem[a].id
                  /\ mem'[a].fields = IF a \in Copies THEN Forwarded(a) ELSE mem[a].fields
  <2>1. CASE a \in Copies /\ IsObject(a)
    <3>1. mem'[a] = [mem[a] EXCEPT !.fields = Forwarded(a)] /\ mem[a] \in Object
      BY <1>1, <2>1, ObjectFacts
    <3>2. mem'[a] # NoObject
      BY <1>2, <2>1, <3>1, Refield
    <3> QED BY <2>1, <3>1, <3>2 DEF Object
  <2>2. CASE ~(a \in Copies /\ IsObject(a))
    <3>1. mem'[a] = mem[a]
      BY <1>1, <2>2
    <3> QED BY <2>2, <3>1 DEF IsObject
  <2> QED BY <2>1, <2>2
<1> QED BY <1>3 DEF Refielded, IsObject

-------------------------------------------------------------------------------
(* The tiles of eden *)

\* A step that leaves eden's objects and the bump cursor where they are.
YoungSame ==
    /\ top' = top
    /\ \A a \in Young : /\ IsObject(a)' <=> IsObject(a)
                        /\ IsObject(a) => mem'[a].cls = mem[a].cls

\* EdenTiled with a name for the end of each tile.
Tiled ==
    /\ top > YoungBase => IsObject(YoungBase)
    /\ \A a \in Young : IsObject(a) => \A end : end = a + SizeAt(a) =>
         /\ end = top \/ (end < top /\ IsObject(end))
         /\ \A b \in (a + 1)..(end - 1) : ~IsObject(b)
    /\ pc = "sweep" => cursor = top \/ (cursor < top /\ IsObject(cursor))

LEMMA TiledMeans == EdenTiled <=> Tiled
BY DEF EdenTiled, Tiled

LEMMA TiledMeansPrime == EdenTiled' <=> Tiled'
BY TiledMeans, PTL

LEMMA EdenObject ==
    ASSUME TypeOK, EdenTiled, NEW a \in Young, IsObject(a)
    PROVE  /\ a \in Nat /\ YoungBase \in Nat /\ YoungBase <= a
           /\ SizeAt(a) \in Nat /\ SizeAt(a) >= 3
           /\ top \in Nat /\ a + SizeAt(a) <= top
           /\ YoungEnd \in Nat /\ top <= YoungEnd
<1>1. /\ a \in Nat /\ YoungBase \in Nat /\ YoungBase <= a
      /\ SizeAt(a) \in Nat /\ SizeAt(a) >= 3
      /\ YoungEnd \in Nat
  BY ObjectFacts, RegionFacts DEF Young
<1>2. top \in YoungBase .. YoungEnd
  BY DEF TypeOK, HeapTypeOK
<1>3. a + SizeAt(a) = top \/ a + SizeAt(a) < top
  BY DEF EdenTiled
<1> QED BY <1>1, <1>2, <1>3

LEMMA TiledKept ==
    ASSUME TypeOK, EdenTiled, YoungSame,
           pc' = "sweep" => cursor' = top \/ (cursor' < top /\ IsObject(cursor)')
    PROVE  EdenTiled'
<1>1. top \in Nat /\ YoungBase \in Nat /\ YoungEnd \in Nat /\ YoungBase <= top /\ top <= YoungEnd
  BY RegionFacts DEF TypeOK, HeapTypeOK
<1>2. top' > YoungBase => IsObject(YoungBase)'
  <2>1. top > YoungBase => YoungBase \in Young
    BY <1>1 DEF Young
  <2> QED BY <2>1 DEF EdenTiled, YoungSame
<1>3. ASSUME NEW a \in Young, IsObject(a)', NEW end, end = a + SizeAt(a)'
      PROVE  /\ end = top' \/ (end < top' /\ IsObject(end)')
             /\ \A b \in (a + 1)..(end - 1) : ~IsObject(b)'
  <2>1. IsObject(a) /\ end = a + SizeAt(a)
    BY <1>3 DEF YoungSame, SizeAt
  <2>2. /\ a \in Nat /\ YoungBase <= a /\ SizeAt(a) \in Nat /\ SizeAt(a) >= 3
        /\ end \in Nat /\ a < end /\ end <= top
    BY <2>1, EdenObject
  <2>3. end < top => end \in Young
    BY <1>1, <2>2 DEF Young
  <2>4. \A b \in (a + 1)..(end - 1) : b \in Young
    BY <1>1, <2>2 DEF Young
  <2>5. /\ end = top \/ (end < top /\ IsObject(end))
        /\ \A b \in (a + 1)..(end - 1) : ~IsObject(b)
    BY <2>1, TiledMeans DEF Tiled
  <2> QED BY <2>3, <2>4, <2>5 DEF YoungSame
<1>4. pc' = "sweep" => cursor' = top' \/ (cursor' < top' /\ IsObject(cursor)')
  BY DEF YoungSame
<1>5. Tiled'
  BY <1>2, <1>3, <1>4 DEF Tiled
<1> QED BY <1>5, TiledMeansPrime

\* The object at the cursor is a tile, and the next tile, or the bump cursor,
\* is behind it.
LEMMA NextTile ==
    ASSUME IInv, EdenTiled, pc = "sweep", cursor < top, IsObject(cursor)
    PROVE  LET end == cursor + SizeAt(cursor)
           IN  /\ cursor \in Young /\ end \in Nat /\ end > YoungBase /\ end > cursor
               /\ end <= top
               /\ end = top \/ (end < top /\ end \in Young /\ IsObject(end))
<1>1. /\ YoungBase \in Nat /\ YoungEnd \in Nat /\ top \in Nat /\ top <= YoungEnd
      /\ cursor \in Nat /\ cursor >= YoungBase
  BY RegionFacts DEF IInv, TypeOK, HeapTypeOK, GcTypeOK, CursorAbove
<1>2. cursor \in Young
  BY <1>1 DEF Young
<1>3. /\ SizeAt(cursor) \in Nat /\ SizeAt(cursor) >= 3
      /\ cursor + SizeAt(cursor) <= top
  BY <1>2, EdenObject DEF IInv
<1>4. \/ cursor + SizeAt(cursor) = top
      \/ cursor + SizeAt(cursor) < top /\ IsObject(cursor + SizeAt(cursor))
  BY <1>2 DEF EdenTiled
<1>5. cursor + SizeAt(cursor) < top => cursor + SizeAt(cursor) \in Young
  BY <1>1, <1>3 DEF Young
<1> QED BY <1>1, <1>2, <1>3, <1>4, <1>5

\* No step of a collection but the reset touches eden's layout.
LEMMA CollectYoung ==
    ASSUME IInv, Minor \/ Major, ~Reset
    PROVE  YoungSame
<1> USE DEF IInv
<1>1. \A a \in Young : a \in Addr /\ a \notin Old
  BY RegionFacts DEF Addr
<1>2. ASSUME mem' = mem, top' = top PROVE YoungSame
  BY <1>2 DEF YoungSame, IsObject
<1>3. ASSUME Remarked, top' = top PROVE YoungSame
  BY <1>1, <1>3 DEF YoungSame, Remarked
<1>4. CASE MarkMinor \/ MarkMajor
  <2>1. top' = top /\ \E hit : (\A r \in hit : IsObject(r)) /\ mem' = Paint(hit, "Grey")
    BY <1>4 DEF MarkMinor, MarkMajor
  <2> QED BY <1>3, <2>1, RootsMem
<1>5. CASE DrainMinor \/ DrainMajor
  <2>1. PICK a, followed : Blacken(a, followed) \/ DrainWild(a, followed)
    BY <1>5 DEF DrainMinor, DrainMajor
  <2>2. top' = top
    BY <1>5 DEF DrainMinor, DrainMajor
  <2>3. CASE Blacken(a, followed)
    <3>1. /\ IsObject(a)
          /\ \E hit : /\ \A c \in hit : IsObject(c)
                      /\ mem' = [Paint(hit, "Grey") EXCEPT ![a].mark = "Black"]
      BY <2>3 DEF Blacken
    <3> QED BY <1>3, <2>2, <3>1, BlackenMem
  <2>4. CASE DrainWild(a, followed)
    BY <1>2, <2>2, <2>4 DEF DrainWild
  <2> QED BY <2>1, <2>3, <2>4
<1>6. CASE SweepPromote
  <2>1. PICK to \in Old : \E o : mem' = [mem EXCEPT ![to] = o]
    BY <1>6, PromoteMem
  <2>2. to \in Addr
    BY DEF Addr
  <2>3. \A a \in Young : mem'[a] = mem[a]
    BY <1>1, <2>1, <2>2, OtherMem
  <2> QED BY <1>6, <2>3 DEF SweepPromote, YoungSame, IsObject
<1>7. CASE FixObjects
  <2>1. Refielded /\ top' = top
    BY <1>7, FixObjectsMem DEF FixObjects
  <2> QED BY <1>1, <2>1 DEF YoungSame, Refielded
<1>8. CASE SweepOldWhite
  <2>1. /\ cursor \in Old /\ cursor \in Addr /\ mem' = [mem EXCEPT ![cursor] = NoObject]
        /\ top' = top
    BY <1>8, RegionFacts DEF SweepOldWhite, CursorAbove, TypeOK, GcTypeOK, Old, Addr
  <2>2. \A a \in Young : mem'[a] = mem[a]
    BY <1>1, <2>1, OtherMem
  <2> QED BY <2>1, <2>2 DEF YoungSame, IsObject
<1>9. CASE SweepOldBlack
  <2>1. /\ cursor \in Old /\ cursor \in Addr /\ top' = top
        /\ mem' = [mem EXCEPT ![cursor] = [mem[cursor] EXCEPT !.mark = "White"]]
    BY <1>9, RegionFacts DEF SweepOldBlack, CursorAbove, TypeOK, GcTypeOK, Old, Addr
  <2>2. \A a \in Young : mem'[a] = mem[a]
    BY <1>1, <2>1, OtherMem
  <2> QED BY <2>1, <2>2 DEF YoungSame, IsObject
<1>10. CASE \/ MarkMinorEnd \/ SweepWhite \/ SweepFull \/ SweepEnd \/ FixRoots
            \/ MarkMajorEnd \/ SweepOldLastBlock \/ SweepOldListedBlock \/ SweepOldWild
            \/ SweepOldEnd \/ CoalesceMerge \/ CoalesceSkip \/ CoalesceEnd
            \/ MarkMinorWild \/ MarkMajorWild
  <2>1. mem' = mem /\ top' = top
    BY <1>10
    DEF MarkMinorWild, MarkMajorWild, MarkMinorEnd, SweepWhite, SweepFull, SweepEnd,
        FixRoots, MarkMajorEnd,
        SweepOldLastBlock, SweepOldListedBlock, SweepOldWild, SweepOldEnd,
        CoalesceMerge, CoalesceSkip, CoalesceEnd, heapVars
  <2> QED BY <1>2, <2>1
<1> QED BY <1>4, <1>5, <1>6, <1>7, <1>8, <1>9, <1>10 DEF Minor, Major

\* Only these steps of a collection lead to the marking or the sweep of eden.
LEMMA IntoSweep ==
    ASSUME IInv, [Next]_vars, pc' \in {"drain", "sweep"}
    PROVE  \/ pc' = "drain" /\ (MarkMinor \/ DrainMinor)
           \/ pc' = "sweep" /\ (MarkMinorEnd \/ SweepWhite \/ SweepPromote \/ SweepFull)
           \/ UNCHANGED vars
<1>1. CASE Bytecode
  BY <1>1, BytecodeMem
<1>2. CASE AllocStep
  BY <1>2 DEF AllocStep, AllocOk, AllocFull, Retry, GiveUp
<1>3. CASE Collect
  <2>1. CASE Minor
    <3>1. CASE MarkMinor \/ DrainMinor
      <4>1. DrainMinor => pc' \in {"drain", "wild"}
        BY DEF DrainMinor, Blacken, DrainWild
      <4> QED BY <3>1, <4>1 DEF MarkMinor
    <3>2. CASE MarkMinorEnd \/ SweepWhite \/ SweepPromote \/ SweepFull
      BY <3>2 DEF MarkMinorEnd, SweepWhite, SweepPromote, SweepFull
    <3>3. CASE MarkMinorWild \/ SweepEnd \/ FixObjects \/ FixRoots \/ Reset
      BY <3>3 DEF MarkMinorWild, SweepEnd, FixObjects, FixRoots, Reset
    <3> QED BY <2>1, <3>1, <3>2, <3>3 DEF Minor
  <2>2. CASE Major
    <3>1. CASE DrainMajor
      <4>1. pc' \in {"drainmajor", "wild"}
        BY <3>1 DEF DrainMajor, Blacken, DrainWild
      <4> QED BY <4>1
    <3>2. CASE MarkMajor \/ MarkMajorEnd \/ SweepOldWhite \/ SweepOldBlack \/ SweepOldLastBlock
      BY <3>2 DEF MarkMajor, MarkMajorEnd, SweepOldWhite, SweepOldBlack, SweepOldLastBlock
    <3>3. CASE \/ MarkMajorWild \/ SweepOldListedBlock \/ SweepOldWild \/ SweepOldEnd
               \/ CoalesceMerge \/ CoalesceSkip \/ CoalesceEnd
      BY <3>3 DEF MarkMajorWild, SweepOldListedBlock, SweepOldWild, SweepOldEnd,
                  CoalesceMerge, CoalesceSkip, CoalesceEnd
    <3> QED BY <2>2, <3>1, <3>2, <3>3 DEF Major
  <2> QED BY <1>3, <2>1, <2>2 DEF Collect
<1> QED BY <1>1, <1>2, <1>3 DEF Next

\* A new object lies above every object of eden, and is a tile.
LEMMA AllocMem ==
    ASSUME IInv, AllocOk
    PROVE  /\ top \in Young /\ top \notin Old /\ top' = top + Size[want] /\ top' <= YoungEnd
           /\ Size[want] \in Nat /\ Size[want] >= 3
           /\ mem'[top] = Fresh(want) /\ mem'[top] # NoObject
           /\ Fresh(want) \in Object
           /\ \A a \in Addr : a # top => mem'[a] = mem[a]
<1>1. /\ TypeOK /\ want \in Classes /\ top \in YoungBase .. YoungEnd
      /\ Size[want] \in Nat /\ Size[want] >= 3
  BY HeapAssumption DEF IInv, TypeOK, HeapTypeOK, HeaderWords
<1>2. top' = top + Size[want] /\ top + Size[want] <= YoungEnd
  BY DEF AllocOk, FitsEden
<1>3. top \in Young /\ top \notin Old /\ top \in Addr
  <2>1. top \in YoungBase .. (YoungEnd - 1)
    BY <1>1, <1>2, RegionFacts
  <2> QED BY <2>1, RegionFacts DEF Young, Addr
<1>4. Fresh(want) \in Object
  BY <1>1, RegionFacts DEF Fresh, Object, Color, TypeOK
<1>5. mem' = [mem EXCEPT ![top] = Fresh(want)]
  BY DEF AllocOk
<1>6. mem'[top] = Fresh(want) /\ \A a \in Addr : a # top => mem'[a] = mem[a]
  BY <1>1, <1>3, <1>5, OtherMem
<1> QED BY <1>1, <1>2, <1>3, <1>4, <1>6, HeapAssumption

LEMMA AllocTiled ==
    ASSUME IInv, EdenTiled, AllocOk
    PROVE  EdenTiled'
<1>1. PICK old : old = top
  OBVIOUS
<1>2. PICK e : e = top'
  OBVIOUS
<1>3. /\ old \in Young /\ old \in Nat /\ e = old + Size[want]
      /\ e \in Nat /\ old < e /\ e <= YoungEnd /\ YoungEnd \in Nat
      /\ YoungBase \in Nat /\ YoungBase <= old
      /\ Young = YoungBase .. (YoungEnd - 1)
  <2>1. /\ top \in Young /\ top' = top + Size[want] /\ top' <= YoungEnd
        /\ Size[want] \in Nat /\ Size[want] >= 3
    BY AllocMem
  <2> QED BY <1>1, <1>2, <2>1, RegionFacts DEF Young
<1>4. /\ \A a \in Young : a # old => mem'[a] = mem[a]
      /\ \A a \in Young : a \in Addr
      /\ mem'[old] # NoObject /\ mem'[old].cls = want
  <2>1. /\ mem'[old] # NoObject /\ mem'[old] = Fresh(want)
        /\ \A a \in Addr : a # old => mem'[a] = mem[a]
    BY <1>1, AllocMem
  <2> QED BY <2>1 DEF Fresh, Addr
<1>5. IsObject(old)' /\ SizeAt(old)' = Size[want]
  BY <1>3, <1>4 DEF IsObject, SizeAt, AllocOk
<1>6. \A a \in Young : a # old => /\ IsObject(a)' <=> IsObject(a)
                                 /\ SizeAt(a)' = SizeAt(a)
  BY <1>4 DEF IsObject, SizeAt
<1>7. \A a \in Young : IsObject(a) => a < old
  BY <1>1, <1>3, EdenObject DEF IInv
<1>8. ASSUME NEW a \in Young, IsObject(a)', NEW end, end = a + SizeAt(a)'
      PROVE  /\ end = e \/ (end < e /\ IsObject(end)')
             /\ \A b \in (a + 1)..(end - 1) : ~IsObject(b)'
  <2>1. CASE a = old
    <3>1. end = e
      BY <1>3, <1>5, <1>8, <2>1
    <3>2. \A b \in (a + 1)..(end - 1) : b # old /\ b \in Young /\ ~(b < old)
      BY <1>3, <2>1, <3>1
    <3>3. \A b \in (a + 1)..(end - 1) : ~IsObject(b)'
      BY <1>6, <1>7, <3>2
    <3> QED BY <3>1, <3>3
  <2>2. CASE a # old
    <3>1. IsObject(a) /\ end = a + SizeAt(a)
      BY <1>6, <1>8, <2>2
    <3>2. /\ a \in Nat /\ YoungBase <= a /\ SizeAt(a) \in Nat /\ SizeAt(a) >= 3
          /\ a + SizeAt(a) <= old
      BY <1>1, <3>1, EdenObject DEF IInv
    <3>3. end \in Nat /\ end <= old /\ YoungBase <= end
      BY <1>3, <3>1, <3>2
    <3>4. /\ end = old \/ (end < old /\ IsObject(end))
          /\ \A b \in (a + 1)..(end - 1) : ~IsObject(b)
      BY <1>1, <3>1, TiledMeans DEF Tiled
    <3>5. end < old => end \in Young /\ end # old
      BY <1>3, <3>3
    <3>6. end < e
      BY <1>3, <3>3
    <3>7. IsObject(end)'
      BY <1>5, <1>6, <3>4, <3>5
    <3>8. \A b \in (a + 1)..(end - 1) : b \in Young /\ b # old
      BY <1>3, <3>2, <3>3
    <3> QED BY <1>6, <3>4, <3>6, <3>7, <3>8
  <2> QED BY <2>1, <2>2
<1>9. IsObject(YoungBase)'
  <2>1. CASE old = YoungBase
    BY <1>5, <2>1
  <2>2. CASE old # YoungBase
    <3>1. top > YoungBase /\ YoungBase \in Young
      BY <1>1, <1>3, <2>2
    <3> QED BY <1>6, <2>2, <3>1 DEF EdenTiled
  <2> QED BY <2>1, <2>2
<1>10. Tiled'
  BY <1>2, <1>8, <1>9 DEF Tiled, AllocOk
<1> QED BY <1>10, TiledMeansPrime

LEMMA StepTiled ==
    ASSUME IInv, EdenTiled, [Next]_vars
    PROVE  EdenTiled'
<1> USE DEF IInv
<1>1. CASE pc' = "sweep" /\ (MarkMinorEnd \/ SweepWhite \/ SweepPromote \/ SweepFull)
  <2>1. YoungSame
    <3>1. Minor /\ ~Reset
      BY <1>1 DEF Minor, MarkMinorEnd, SweepWhite, SweepPromote, SweepFull, Reset
    <3> QED BY <3>1, CollectYoung
  <2>2. cursor' = top \/ (cursor' < top /\ IsObject(cursor)')
    <3>1. CASE MarkMinorEnd
      <4>1. cursor' = YoungBase
        BY <3>1 DEF MarkMinorEnd
      <4>2. top \in YoungBase .. YoungEnd /\ YoungBase \in Nat /\ YoungEnd \in Nat
        BY RegionFacts DEF TypeOK, HeapTypeOK
      <4>3. CASE top > YoungBase
        <5>1. IsObject(YoungBase) /\ YoungBase \in Young
          BY <4>2, <4>3 DEF EdenTiled, Young
        <5> QED BY <2>1, <4>1, <4>2, <4>3, <5>1 DEF YoungSame, IsObject
      <4> QED BY <4>1, <4>2, <4>3
    <3>2. CASE SweepWhite \/ SweepPromote \/ SweepFull
      <4>1. /\ pc = "sweep" /\ cursor < top /\ IsObject(cursor)
            /\ cursor' = cursor + SizeAt(cursor)
        BY <3>2 DEF SweepWhite, SweepPromote, SweepFull
      <4>2. PICK end : end = cursor + SizeAt(cursor)
        OBVIOUS
      <4>3. end = top \/ (end < top /\ end \in Young /\ IsObject(end))
        BY <4>1, <4>2, NextTile
      <4>4. end \in Young /\ IsObject(end) => IsObject(end)'
        BY <2>1 DEF YoungSame
      <4> QED BY <4>1, <4>2, <4>3, <4>4 DEF IsObject
    <3> QED BY <1>1, <3>1, <3>2
  <2> QED BY <2>1, <2>2, TiledKept
<1>2. CASE pc' # "sweep"
  <2>1. CASE Bytecode
    <3>1. YoungSame
      BY <2>1, BytecodeMem DEF YoungSame, Refielded, Addr
    <3> QED BY <1>2, <3>1, TiledKept
  <2>2. CASE (Minor \/ Major) /\ ~Reset
    BY <1>2, <2>2, CollectYoung, TiledKept
  <2>3. CASE Reset
    <3>1. top' = YoungBase /\ \A a \in Young : mem'[a] = NoObject
      BY <2>3 DEF Reset, Addr
    <3> QED BY <1>2, <3>1, RegionFacts DEF EdenTiled, IsObject
  <2>4. CASE AllocOk
    BY <2>4, AllocTiled
  <2>5. CASE AllocFull \/ Retry \/ GiveUp \/ UNCHANGED vars
    <3>1. YoungSame
      BY <2>5 DEF AllocFull, Retry, GiveUp, vars, heapVars, YoungSame, IsObject
    <3> QED BY <1>2, <3>1, TiledKept
  <2> QED BY <2>1, <2>2, <2>3, <2>4, <2>5 DEF Next, Collect, AllocStep
<1>3. CASE UNCHANGED vars
  <2>1. YoungSame /\ cursor' = cursor /\ pc' = pc
    BY <1>3 DEF vars, heapVars, gcVars, YoungSame, IsObject
  <2>2. IsObject(cursor)' <=> IsObject(cursor)
    BY <1>3 DEF vars, heapVars, gcVars, IsObject
  <2>3. pc' = "sweep" => cursor' = top \/ (cursor' < top /\ IsObject(cursor)')
    BY <2>1, <2>2 DEF EdenTiled
  <2> QED BY <2>1, <2>3, TiledKept
<1> QED BY <1>1, <1>2, <1>3, IntoSweep

-------------------------------------------------------------------------------
(* The phases of a collection *)

\* A collection leads neither to the program nor to NEW nor back to its start,
\* and only the reset of eden leads into a collection of the old generation.
LEMMA CollectPhases ==
    ASSUME Minor \/ Major
    PROVE  /\ pc \in MinorPhases \cup MajorPhases
           /\ pc' \notin {"run", "alloc", "mark"}
           /\ Minor /\ ~Reset => pc' \notin MajorPhases \cup {"retry"}
           /\ Major => pc \in MajorPhases
<1>1. CASE DrainMinor
  <2>1. pc = "drain" /\ pc' \in {"drain", "wild"}
    BY <1>1 DEF DrainMinor, Blacken, DrainWild
  <2> QED BY <1>1, <2>1 DEF MinorPhases, MajorPhases, Major, MarkMajor, MarkMajorWild, DrainMajor,
             MarkMajorEnd, SweepOldWhite, SweepOldBlack, SweepOldLastBlock,
             SweepOldListedBlock, SweepOldWild, SweepOldEnd, CoalesceMerge,
             CoalesceSkip, CoalesceEnd
<1>2. CASE DrainMajor
  <2>1. pc = "drainmajor" /\ pc' \in {"drainmajor", "wild"}
    BY <1>2 DEF DrainMajor, Blacken, DrainWild
  <2> QED BY <1>2, <2>1 DEF MinorPhases, MajorPhases, Minor, MarkMinor, MarkMinorWild, DrainMinor,
             MarkMinorEnd, SweepWhite, SweepPromote, SweepFull, SweepEnd, FixObjects, FixRoots,
             Reset
<1>3. CASE \/ MarkMinor \/ MarkMinorWild \/ MarkMinorEnd \/ SweepWhite \/ SweepPromote
           \/ SweepFull \/ SweepEnd \/ FixObjects \/ FixRoots \/ Reset
  <2>1. /\ pc \in MinorPhases
        /\ Reset \/ pc' \in {"wild", "drain", "sweep", "fixobjs", "fixroots", "reset"}
        /\ pc' \notin {"run", "alloc", "mark"}
    BY <1>3 DEF MinorPhases, MarkMinor, MarkMinorWild, MarkMinorEnd, SweepWhite, SweepPromote,
                SweepFull, SweepEnd, FixObjects, FixRoots, Reset
  <2>2. ~Major
    BY <2>1 DEF MinorPhases, Major, MarkMajor, MarkMajorWild, DrainMajor,
             MarkMajorEnd, SweepOldWhite, SweepOldBlack, SweepOldLastBlock,
             SweepOldListedBlock, SweepOldWild, SweepOldEnd, CoalesceMerge,
             CoalesceSkip, CoalesceEnd
  <2> QED BY <2>1, <2>2 DEF MajorPhases
<1>4. CASE \/ MarkMajor \/ MarkMajorWild \/ MarkMajorEnd \/ SweepOldWhite
           \/ SweepOldBlack \/ SweepOldLastBlock \/ SweepOldListedBlock \/ SweepOldWild \/ SweepOldEnd
           \/ CoalesceMerge \/ CoalesceSkip \/ CoalesceEnd
  <2>1. pc \in MajorPhases /\ pc' \notin {"run", "alloc", "mark"}
    BY <1>4 DEF MajorPhases, MarkMajor, MarkMajorWild, MarkMajorEnd, SweepOldWhite, SweepOldBlack,
                SweepOldLastBlock, SweepOldListedBlock, SweepOldWild, SweepOldEnd,
                CoalesceMerge, CoalesceSkip, CoalesceEnd
  <2>2. ~Minor
    BY <2>1 DEF MajorPhases, Minor, MarkMinor, MarkMinorWild, DrainMinor,
             MarkMinorEnd, SweepWhite, SweepPromote, SweepFull, SweepEnd, FixObjects, FixRoots,
             Reset
  <2> QED BY <2>1, <2>2
<1> QED BY <1>1, <1>2, <1>3, <1>4 DEF Minor, Major

LEMMA StepWhite ==
    ASSUME IInv, EdenWhite, EdenEmpty, [Next]_vars
    PROVE  EdenWhite'
<1> SUFFICES ASSUME pc' \in {"run", "alloc", "mark"}, NEW a \in Young, IsObject(a)'
             PROVE  mem'[a].mark = "White"
  BY DEF EdenWhite
<1>1. a \in Addr
  BY DEF Addr
<1>2. CASE Bytecode
  <2>1. pc = "run" /\ Refielded
    BY <1>2, BytecodeMem
  <2> QED BY <1>1, <2>1 DEF EdenWhite, Refielded
<1>3. CASE Collect
  BY <1>3, CollectPhases DEF Collect
<1>4. CASE AllocOk
  <2>1. mem'[top].mark = "White" /\ (a # top => mem'[a] = mem[a])
    BY <1>1, <1>4, AllocMem DEF Fresh
  <2> QED BY <1>1, <1>4, <2>1 DEF EdenWhite, IsObject, AllocOk
<1>5. CASE AllocFull \/ UNCHANGED vars
  BY <1>1, <1>5 DEF AllocFull, vars, heapVars, gcVars, EdenWhite, IsObject
<1>6. CASE Retry \/ GiveUp
  BY <1>1, <1>6 DEF Retry, GiveUp, heapVars, EdenEmpty, IsObject
<1> QED BY <1>2, <1>3, <1>4, <1>5, <1>6 DEF Next, AllocStep

LEMMA StepEmpty ==
    ASSUME IInv, EdenEmpty, [Next]_vars
    PROVE  EdenEmpty'
<1> SUFFICES ASSUME pc' \in MajorPhases \cup {"retry"}
             PROVE  top' = YoungBase /\ \A a \in Young : ~IsObject(a)'
  BY DEF EdenEmpty
<1>1. CASE Bytecode
  BY <1>1, BytecodeMem DEF MajorPhases
<1>2. CASE Reset
  <2>1. top' = YoungBase /\ \A a \in Young : mem'[a] = NoObject
    BY <1>2 DEF Reset, Addr
  <2> QED BY <2>1 DEF IsObject
<1>3. CASE Minor /\ ~Reset
  BY <1>3, CollectPhases
<1>4. CASE Major
  <2>1. pc \in MajorPhases
    BY <1>4, CollectPhases
  <2>2. ~Reset
    BY <2>1 DEF MajorPhases, Reset
  <2>3. YoungSame
    BY <1>4, <2>2, CollectYoung
  <2> QED BY <2>1, <2>3 DEF EdenEmpty, YoungSame
<1>5. CASE AllocStep
  BY <1>5 DEF AllocStep, AllocOk, AllocFull, Retry, GiveUp, MajorPhases
<1>6. CASE UNCHANGED vars
  BY <1>6 DEF vars, heapVars, gcVars, EdenEmpty, IsObject
<1> QED BY <1>1, <1>2, <1>3, <1>4, <1>5, <1>6 DEF Next, Collect

LEMMA StepWork ==
    ASSUME IInv, WorkDone, [Next]_vars
    PROVE  WorkDone'
<1> USE DEF WorkDone
<1>1. CASE Bytecode
  BY <1>1, BytecodeMem DEF Dead
<1>2. CASE AllocStep
  BY <1>2 DEF AllocStep, AllocOk, AllocFull, Retry, GiveUp, Unwind, heapVars, Dead
<1>3. CASE DrainMinor \/ DrainMajor
  <2>1. pc' \in {"drain", "drainmajor", "wild"}
    BY <1>3 DEF DrainMinor, DrainMajor, Blacken, DrainWild
  <2> QED BY <2>1 DEF Dead
<1>4. CASE \/ MarkMinor \/ MarkMajor \/ MarkMinorEnd \/ MarkMajorEnd
           \/ MarkMinorWild \/ MarkMajorWild
  BY <1>4 DEF MarkMinor, MarkMajor, MarkMinorEnd, MarkMajorEnd, MarkMinorWild, MarkMajorWild, Dead
<1>5. CASE SweepWhite \/ SweepPromote \/ SweepFull \/ SweepEnd \/ FixObjects \/ FixRoots \/ Reset
  BY <1>5 DEF SweepWhite, SweepPromote, SweepFull, SweepEnd, FixObjects, FixRoots, Reset, Dead
<1>6. CASE \/ SweepOldWhite \/ SweepOldBlack \/ SweepOldLastBlock \/ SweepOldListedBlock
           \/ SweepOldWild \/ SweepOldEnd \/ CoalesceMerge \/ CoalesceSkip \/ CoalesceEnd
  BY <1>6 DEF SweepOldWhite, SweepOldBlack, SweepOldLastBlock, SweepOldListedBlock,
              SweepOldWild, SweepOldEnd, CoalesceMerge, CoalesceSkip, CoalesceEnd, Dead
<1>7. CASE UNCHANGED vars
  BY <1>7 DEF vars, gcVars
<1> QED BY <1>1, <1>2, <1>3, <1>4, <1>5, <1>6, <1>7 DEF Next, Collect, Minor, Major

LEMMA StepRetrying ==
    ASSUME IInv, EdenEmpty, Retrying, [Next]_vars
    PROVE  Retrying'
<1>1. CASE Bytecode
  BY <1>1, BytecodeMem DEF Retrying, MinorPhases, MajorPhases, IInv, TypeOK
<1>2. CASE Collect
  <2>1. pc \in MinorPhases \cup MajorPhases /\ pc' # "alloc" /\ UNCHANGED mutVars
    BY <1>2, CollectPhases DEF Collect
  <2> QED BY <2>1 DEF Retrying, mutVars
<1>3. CASE AllocFull
  <2>1. retries > 0 => top = YoungBase
    BY <1>3 DEF AllocFull, Retrying
  <2>2. ~(top + Size[want] <= YoungEnd)
    BY <1>3 DEF AllocFull, FitsEden
  <2>3. Size[want] \in Nat /\ YoungBase \in Nat /\ YoungWords \in Nat
    BY HeapAssumption DEF IInv, TypeOK
  <2>4. retries > 0 => Size[want] > YoungWords
    BY <2>1, <2>2, <2>3 DEF YoungEnd
  <2>5. pc' = "mark" /\ UNCHANGED mutVars
    BY <1>3 DEF AllocFull
  <2> QED BY <2>4, <2>5 DEF Retrying, mutVars
<1>4. CASE Retry
  BY <1>4 DEF Retry, EdenEmpty, Retrying, heapVars, MinorPhases, MajorPhases
<1>5. CASE AllocOk \/ GiveUp
  BY <1>5 DEF AllocOk, GiveUp, Retrying, MinorPhases, MajorPhases
<1>6. CASE UNCHANGED vars
  BY <1>6 DEF vars, heapVars, gcVars, mutVars, Retrying
<1> QED BY <1>1, <1>2, <1>3, <1>4, <1>5, <1>6 DEF Next, AllocStep

\* A collection creates objects by promotion only, and changes no class.
LEMMA CollectObjects ==
    ASSUME IInv, Minor \/ Major, ~SweepPromote
    PROVE  /\ \A a \in Addr : IsObject(a)' => IsObject(a) /\ mem'[a].cls = mem[a].cls
           /\ risk \subseteq risk'
<1> USE DEF IInv
<1>1. ASSUME mem' = mem
      PROVE  \A a \in Addr : IsObject(a)' => IsObject(a) /\ mem'[a].cls = mem[a].cls
  BY <1>1 DEF IsObject
<1>2. CASE MarkMinor \/ MarkMajor
  <2>1. risk \subseteq risk' /\ \E hit : (\A r \in hit : IsObject(r)) /\ mem' = Paint(hit, "Grey")
    BY <1>2 DEF MarkMinor, MarkMajor
  <2> QED BY <2>1, RootsMem DEF Remarked
<1>3. CASE DrainMinor \/ DrainMajor
  <2>1. PICK a, followed : Blacken(a, followed) \/ DrainWild(a, followed)
    BY <1>3 DEF DrainMinor, DrainMajor
  <2>2. risk' = risk
    BY <1>3 DEF DrainMinor, DrainMajor
  <2>3. CASE Blacken(a, followed)
    <3>1. /\ IsObject(a)
          /\ \E hit : /\ \A c \in hit : IsObject(c)
                      /\ mem' = [Paint(hit, "Grey") EXCEPT ![a].mark = "Black"]
      BY <2>3 DEF Blacken
    <3> QED BY <2>2, <3>1, BlackenMem DEF Remarked
  <2>4. CASE DrainWild(a, followed)
    BY <1>1, <2>2, <2>4 DEF DrainWild
  <2> QED BY <2>1, <2>3, <2>4
<1>4. CASE FixObjects
  BY <1>4, FixObjectsMem DEF FixObjects, Refielded
<1>5. CASE Reset
  BY <1>5 DEF Reset, IsObject
<1>6. CASE SweepOldWhite
  <2>1. /\ cursor \in Addr /\ mem' = [mem EXCEPT ![cursor] = NoObject] /\ risk' = risk
    BY <1>6 DEF SweepOldWhite, IsObject
  <2>2. mem'[cursor] = NoObject /\ \A a \in Addr : a # cursor => mem'[a] = mem[a]
    BY <2>1, OtherMem
  <2> QED BY <2>1, <2>2 DEF IsObject
<1>7. CASE SweepOldBlack
  <2>1. /\ cursor \in Addr /\ mem[cursor] \in Object /\ IsObject(cursor) /\ risk' = risk
        /\ mem' = [mem EXCEPT ![cursor] = [mem[cursor] EXCEPT !.mark = "White"]]
    BY <1>7, ObjectFacts DEF SweepOldBlack
  <2>2. /\ mem'[cursor] = [mem[cursor] EXCEPT !.mark = "White"]
        /\ \A a \in Addr : a # cursor => mem'[a] = mem[a]
    BY <2>1, OtherMem
  <2>3. mem'[cursor].cls = mem[cursor].cls
    BY <2>1, <2>2 DEF Object
  <2> QED BY <2>1, <2>2, <2>3 DEF IsObject
<1>8. CASE \/ MarkMinorWild \/ MarkMajorWild
           \/ MarkMinorEnd \/ SweepWhite \/ SweepFull \/ SweepEnd \/ FixRoots
           \/ MarkMajorEnd \/ SweepOldLastBlock \/ SweepOldListedBlock \/ SweepOldWild
           \/ SweepOldEnd \/ CoalesceMerge \/ CoalesceSkip \/ CoalesceEnd
  <2>1. mem' = mem /\ risk \subseteq risk'
    BY <1>8
    DEF MarkMinorWild, MarkMajorWild, MarkMinorEnd, SweepWhite, SweepFull, SweepEnd,
        FixRoots, MarkMajorEnd,
        SweepOldLastBlock, SweepOldListedBlock, SweepOldWild, SweepOldEnd,
        CoalesceMerge, CoalesceSkip, CoalesceEnd, heapVars
  <2> QED BY <1>1, <2>1
<1> QED BY <1>2, <1>3, <1>4, <1>5, <1>6, <1>7, <1>8 DEF Minor, Major

LEMMA StepFlush ==
    ASSUME IInv, NoFlush, [Next]_vars
    PROVE  NoFlush'
<1> SUFFICES ASSUME "flush" \notin risk', NEW a \in Addr, IsObject(a)'
             PROVE  ~Flush(a, SizeAt(a)')
  BY DEF NoFlush, Flush
<1>1. ASSUME "flush" \notin risk, IsObject(a), mem'[a].cls = mem[a].cls
      PROVE  ~Flush(a, SizeAt(a)')
  BY <1>1 DEF NoFlush, SizeAt
<1>2. CASE Bytecode
  BY <1>1, <1>2, BytecodeMem DEF Refielded
<1>3. CASE (Minor \/ Major) /\ ~SweepPromote
  BY <1>1, <1>3, CollectObjects
<1>4. CASE SweepPromote
  <2>1. PICK i \in DOMAIN free, to \in Old :
           /\ mem' = [mem EXCEPT ![to] = mem[cursor]]
           /\ risk \subseteq risk'
           /\ Flush(to, SizeAt(cursor)) => "flush" \in risk'
    BY <1>4, PromoteMem
  <2>2. mem'[to] = mem[cursor] /\ (a # to => mem'[a] = mem[a])
    BY <2>1, OtherMem DEF IInv, Addr
  <2>3. CASE a = to
    BY <2>1, <2>2, <2>3 DEF SizeAt
  <2>4. CASE a # to
    BY <1>1, <2>1, <2>2, <2>4 DEF IsObject
  <2> QED BY <2>3, <2>4
<1>5. CASE AllocOk
  <2>1. mem'[top].cls = want /\ (a # top => mem'[a] = mem[a])
    BY <1>5, AllocMem DEF Fresh
  <2>2. risk \subseteq risk' /\ ~Flush(top, Size[want])
    BY <1>5 DEF AllocOk
  <2>3. CASE a = top
    BY <2>1, <2>2, <2>3 DEF SizeAt
  <2>4. CASE a # top
    BY <1>1, <2>1, <2>2, <2>4 DEF IsObject
  <2> QED BY <2>3, <2>4
<1>6. CASE AllocFull \/ Retry \/ GiveUp \/ UNCHANGED vars
  <2>1. mem' = mem /\ risk \subseteq risk'
    BY <1>6 DEF AllocFull, Retry, GiveUp, vars, heapVars, gcVars
  <2> QED BY <1>1, <2>1 DEF IsObject
<1> QED BY <1>2, <1>3, <1>4, <1>5, <1>6 DEF Next, Collect, AllocStep

-------------------------------------------------------------------------------
(* The marking of eden *)

LEMMA RootsSame == ASSUME UNCHANGED frames PROVE Roots' = Roots
BY DEF Roots

LEMMA ChildrenSame ==
    ASSUME Remarked
    PROVE  \A a \in Addr : IsObject(a) => Children(a)' = Children(a)
BY DEF Remarked, Children

LEMMA StepMarked ==
    ASSUME IInv, EdenWhite, EdenMarked, [Next]_vars
    PROVE  EdenMarked'
<1> USE DEF IInv
<1>1. \A a \in Young : a \in Addr
  BY DEF Addr
<1>2. ASSUME Remarked, frames' = frames,
             \A a \in Addr : IsObject(a) /\ mem[a].mark # "White" => mem'[a].mark # "White",
             \A r \in Roots : InYoung(r) /\ IsObject(r) => mem'[r].mark # "White",
             \A a \in Young : IsObject(a) =>
               /\ mem'[a].mark = "Grey" => a \in work'
               /\ mem'[a].mark = "Black" =>
                    \A c \in Children(a) : InYoung(c) /\ IsObject(c) => mem'[c].mark # "White"
      PROVE  EdenMarked'
  <2>1. Roots' = Roots
    BY <1>2, RootsSame
  <2>2. \A a \in Addr : (IsObject(a)' <=> IsObject(a)) /\ (IsObject(a) => Children(a)' = Children(a))
    BY <1>2, ChildrenSame DEF Remarked
  <2>3. \A a : IsObject(a)' => a \in Addr
    BY DEF IsObject
  <2> QED BY <1>1, <1>2, <2>1, <2>2, <2>3 DEF EdenMarked, Marked, InYoung
<1>3. CASE MarkMinor
  <2>1. PICK hit \in UnmarkedIn({r \in Roots : InYoung(r)}) :
           (\A r \in hit : IsObject(r)) /\ mem' = Paint(hit, "Grey") /\ work' = hit
    BY <1>3 DEF MarkMinor
  <2>2. /\ Remarked
        /\ \A a \in Addr : IsObject(a) =>
             mem'[a].mark = IF a \in hit THEN "Grey" ELSE mem[a].mark
    BY <2>1, RootsMem
  <2>3. \A r \in Roots : InYoung(r) /\ IsObject(r) => (r \in hit <=> mem[r].mark = "White")
    BY <2>1 DEF UnmarkedIn
  <2>4. \A r \in Roots : InYoung(r) /\ IsObject(r) => mem'[r].mark # "White"
    BY <2>2, <2>3 DEF IsObject
  <2>5. \A a \in Young : IsObject(a) => mem'[a].mark = IF a \in hit THEN "Grey" ELSE "White"
    BY <1>1, <1>3, <2>2 DEF EdenWhite, MarkMinor
  <2>6. \A a \in Addr : IsObject(a) /\ mem[a].mark # "White" => mem'[a].mark # "White"
    BY <2>2
  <2>7. frames' = frames
    BY <1>3 DEF MarkMinor
  <2> QED BY <1>2, <2>1, <2>2, <2>4, <2>5, <2>6, <2>7
<1>4. CASE pc' = "drain" /\ DrainMinor
  <2>1. PICK a \in work : Blacken(a, {r \in Addr : InYoung(r)})
    BY <1>4 DEF DrainMinor, DrainWild
  <2>2. PICK hit \in UnmarkedIn(Children(a) \cap {r \in Addr : InYoung(r)}) :
           /\ \A c \in hit : IsObject(c)
           /\ mem' = [Paint(hit, "Grey") EXCEPT ![a].mark = "Black"]
           /\ work' = (work \ {a}) \cup hit
    BY <2>1 DEF Blacken
  <2>3. IsObject(a) /\ a \in Addr
    BY <2>1 DEF Blacken, IsObject
  <2>4. /\ Remarked
        /\ \A c \in Addr : IsObject(c) =>
             mem'[c].mark = IF c = a THEN "Black" ELSE IF c \in hit THEN "Grey" ELSE mem[c].mark
    BY <2>2, <2>3, BlackenMem
  <2>5. \A c \in Children(a) : InYoung(c) /\ IsObject(c) => (c \in hit <=> mem[c].mark = "White")
    BY <2>2 DEF UnmarkedIn, IsObject
  <2>6. \A c \in Children(a) : InYoung(c) /\ IsObject(c) => mem'[c].mark # "White"
    BY <2>4, <2>5 DEF IsObject
  <2>7. /\ \A c \in Addr : IsObject(c) /\ mem[c].mark # "White" => mem'[c].mark # "White"
        /\ pc = "drain" /\ frames' = frames
    BY <1>4, <2>4 DEF DrainMinor
  <2>8. /\ \A r \in Roots : InYoung(r) /\ IsObject(r) => mem[r].mark # "White"
        /\ \A c \in Young : IsObject(c) =>
             /\ mem[c].mark = "Grey" => c \in work
             /\ mem[c].mark = "Black" =>
                  \A d \in Children(c) : InYoung(d) /\ IsObject(d) => mem[d].mark # "White"
    BY <2>7 DEF EdenMarked, Marked
  <2>9. \A r \in Roots : InYoung(r) /\ IsObject(r) => mem'[r].mark # "White"
    BY <2>7, <2>8 DEF IsObject
  <2>10. ASSUME NEW c \in Young, IsObject(c)
         PROVE  /\ mem'[c].mark = "Grey" => c \in work'
                /\ mem'[c].mark = "Black" =>
                     \A d \in Children(c) : InYoung(d) /\ IsObject(d) => mem'[d].mark # "White"
    <3>1. CASE c = a
      BY <1>1, <2>4, <2>6, <2>10, <3>1
    <3>2. CASE c # a
      <4>1. mem'[c].mark = IF c \in hit THEN "Grey" ELSE mem[c].mark
        BY <1>1, <2>4, <2>10, <3>2
      <4>2. mem'[c].mark = "Grey" => c \in work'
        BY <2>2, <2>8, <2>10, <3>2, <4>1
      <4>3. mem'[c].mark = "Black" =>
              \A d \in Children(c) : InYoung(d) /\ IsObject(d) => mem'[d].mark # "White"
        BY <2>7, <2>8, <2>10, <4>1 DEF IsObject
      <4> QED BY <4>2, <4>3
    <3> QED BY <3>1, <3>2
  <2> QED BY <1>2, <2>4, <2>7, <2>9, <2>10
<1>5. ASSUME UNCHANGED <<mem, frames, work>>, pc \in {"drain", "sweep"}
      PROVE  EdenMarked'
  <2>1. Roots' = Roots
    BY <1>5, RootsSame
  <2> QED BY <1>5, <2>1 DEF EdenMarked, Marked, IsObject, InYoung, Children
<1>6. CASE SweepPromote
  <2>1. PICK to \in Old :
           /\ mem' = [mem EXCEPT ![to] = mem[cursor]] /\ mem[cursor].mark = "Black"
           /\ IsObject(cursor) /\ ~IsObject(to)
    BY <1>6, PromoteMem
  <2>2. /\ to \in Addr /\ mem'[to] = mem[cursor]
        /\ \A a \in Addr : a # to => mem'[a] = mem[a]
    BY <2>1, OtherMem DEF Addr
  <2>3. \A a \in Young : mem'[a] = mem[a]
    BY <1>1, <2>2, RegionFacts
  <2>4. mem'[to].mark = "Black"
    BY <2>1, <2>2
  <2>5. Roots' = Roots /\ work' = work /\ pc = "sweep"
    BY <1>6, RootsSame DEF SweepPromote
  <2>6. \A r : IsObject(r)' => Marked(r)' \/ IsObject(r)
    BY <2>2, <2>4 DEF IsObject, Marked
  <2>7. \A r : Marked(r) => Marked(r)'
    BY <2>1, <2>2 DEF IsObject, Marked
  <2>8. \A a \in Young : (IsObject(a)' <=> IsObject(a)) /\ Children(a)' = Children(a)
    BY <2>3 DEF IsObject, Children
  <2> QED BY <2>3, <2>5, <2>6, <2>7, <2>8 DEF EdenMarked, InYoung
<1>7. CASE MarkMinorEnd \/ SweepWhite \/ SweepFull
  BY <1>5, <1>7 DEF MarkMinorEnd, SweepWhite, SweepFull
<1>8. CASE UNCHANGED vars
  <2>1. CASE pc \in {"drain", "sweep"}
    BY <1>5, <1>8, <2>1 DEF vars, heapVars, gcVars
  <2>2. CASE pc \notin {"drain", "sweep"}
    BY <1>8, <2>2 DEF vars, gcVars, EdenMarked
  <2> QED BY <2>1, <2>2
<1>9. CASE pc' \notin {"drain", "sweep"}
  BY <1>9 DEF EdenMarked
<1> QED BY <1>3, <1>4, <1>6, <1>7, <1>8, <1>9, IntoSweep

-------------------------------------------------------------------------------
(* Reachability *)

\* What is reached from S in F holds the objects of S, and the children of its
\* members, that are in F ...
LEMMA ReachClosed ==
    ASSUME NEW S, NEW F
    PROVE  /\ \A a \in ReachFrom(S, F) : a \in F /\ IsObject(a)
           /\ \A a \in S \cap F : IsObject(a) => a \in ReachFrom(S, F)
           /\ \A a \in ReachFrom(S, F) : \A c \in Children(a) \cap F :
                IsObject(c) => c \in ReachFrom(S, F)
<1> DEFINE objs == {a \in F : IsObject(a)}
           Unnamed(U) == \A u \in U : /\ u \notin S
                                      /\ \A a \in objs \ U : u \notin Children(a)
<1>1. ReachFrom(S, F) = {a \in objs : \A U \in SUBSET objs : Unnamed(U) => a \notin U}
  BY DEF ReachFrom
<1>2. \A a \in ReachFrom(S, F) : a \in F /\ IsObject(a)
  BY <1>1
<1>3. \A a \in S \cap F : IsObject(a) => a \in ReachFrom(S, F)
  BY <1>1
<1>4. ASSUME NEW a \in ReachFrom(S, F), NEW c \in Children(a) \cap F, IsObject(c)
      PROVE  c \in ReachFrom(S, F)
  <2>1. c \in objs /\ a \in objs
    BY <1>1, <1>4
  <2>2. ASSUME NEW U \in SUBSET objs, Unnamed(U), c \in U PROVE FALSE
    <3>1. a \in objs \ U
      BY <1>1, <2>1, <2>2
    <3> QED BY <1>4, <2>2, <3>1
  <2> QED BY <1>1, <2>1, <2>2
<1> QED BY <1>2, <1>3, <1>4

\* ... and is the least such set.
LEMMA ReachLeast ==
    ASSUME NEW S, NEW F, NEW C,
           \A a \in S \cap F : IsObject(a) => a \in C,
           \A a \in C \cap F : IsObject(a) =>
             \A c \in Children(a) \cap F : IsObject(c) => c \in C
    PROVE  ReachFrom(S, F) \subseteq C
<1> DEFINE objs == {a \in F : IsObject(a)}
           U    == objs \ C
<1>1. /\ U \in SUBSET objs
      /\ \A u \in U : u \notin S /\ \A a \in objs \ U : u \notin Children(a)
  OBVIOUS
<1>2. \A a \in ReachFrom(S, F) : a \in objs /\ a \notin U
  BY <1>1 DEF ReachFrom
<1> QED BY <1>2

\* It depends on the objects of F and their fields only.
LEMMA SameReach ==
    ASSUME NEW S, NEW F,
           \A a \in F : /\ IsObject(a)' <=> IsObject(a)
                        /\ IsObject(a) => Children(a)' = Children(a)
    PROVE  ReachFrom(S, F)' = ReachFrom(S, F)
<1> DEFINE objs == {a \in F : IsObject(a)}
           Unnamed(U) == \A u \in U : /\ u \notin S
                                      /\ \A a \in objs \ U : u \notin Children(a)
<1>1. objs' = objs
  OBVIOUS
<1>2. \A U : Unnamed(U)' <=> Unnamed(U)
  BY <1>1
<1>3. ReachFrom(S, F) = {a \in objs : \A U \in SUBSET objs : Unnamed(U) => a \notin U}
  BY DEF ReachFrom
<1>4. ReachFrom(S, F)' = {a \in objs' : \A U \in SUBSET (objs') : Unnamed(U)' => a \notin U}
  BY DEF ReachFrom
<1> HIDE DEF objs, Unnamed
<1> QED BY <1>1, <1>2, <1>3, <1>4

\* What the locals reach inside eden does not depend on the marks.
LEMMA SameRootsReach ==
    ASSUME UNCHANGED frames, Remarked
    PROVE  ReachFrom(Roots, Young)' = ReachFrom(Roots, Young)
<1>1. PICK S : S = Roots
  OBVIOUS
<1>2. Roots' = S
  BY <1>1, RootsSame
<1>3. ReachFrom(S, Young)' = ReachFrom(S, Young)
  <2>1. \A a \in Young : /\ IsObject(a)' <=> IsObject(a)
                         /\ IsObject(a) => Children(a)' = Children(a)
    BY ChildrenSame DEF Remarked, Addr
  <2> QED BY <2>1, SameReach
<1>4. ReachFrom(Roots, Young)' = ReachFrom(S, Young)'
  BY <1>2 DEF ReachFrom
<1> QED BY <1>1, <1>3, <1>4

\* The marker asks about the word behind the header: unless an object is flush
\* against the end of its region, that is the region it is in.
LEMMA InYoungMeans ==
    ASSUME IInv, EdenTiled, NoFlush, "flush" \notin risk, NEW a, IsObject(a)
    PROVE  InYoung(a) <=> a \in Young
<1>1. PICK n : n = SizeAt(a)
  OBVIOUS
<1>2. a \in Addr /\ n \in Nat /\ n >= 3 /\ ~Flush(a, n)
  BY <1>1, ObjectFacts DEF IInv, NoFlush
<1>3. /\ YoungBase \in Nat /\ YoungEnd \in Nat /\ OldBase \in Nat /\ OldEnd \in Nat
      /\ YoungEnd <= OldBase \/ OldEnd <= YoungBase
  BY RegionFacts, HeapAssumption
<1>4. n = 3 => a + 3 # YoungEnd /\ a + 3 # OldEnd
  BY <1>2 DEF Flush, HeaderWords
<1>5. CASE a \in Young
  <2>1. a + n <= top /\ top <= YoungEnd /\ top \in Nat /\ a \in Nat /\ YoungBase <= a
    BY <1>1, <1>5, EdenObject DEF IInv
  <2>2. a + 3 <= YoungEnd - 1
    BY <1>2, <1>3, <1>4, <2>1
  <2> QED BY <1>3, <1>5, <2>1, <2>2 DEF InYoung, Young, HeaderWords
<1>6. CASE a \in Old
  <2>1. a + n <= OldEnd /\ a \in Nat /\ OldBase <= a
    BY <1>1, <1>3, <1>6 DEF IInv, OldApart, Old
  <2>2. a + 3 \notin Young
    BY <1>2, <1>3, <1>4, <2>1 DEF Young
  <2> QED BY <1>6, <2>2, RegionFacts DEF InYoung, HeaderWords
<1> QED BY <1>2, <1>5, <1>6 DEF Addr

LEMMA StepReached ==
    ASSUME IInv, EdenTiled, EdenWhite, NoFlush, OnlyReached, [Next]_vars
    PROVE  OnlyReached'
<1> USE DEF IInv
<1> SUFFICES ASSUME pc' = "drain", "flush" \notin risk'
             PROVE  \A a \in Addr :
                      IsObject(a)' /\ (a \in work' \/ (a \in Young /\ Marked(a)'))
                        => a \in ReachFrom(Roots, Young)'
  BY DEF OnlyReached
<1>1. CASE MarkMinor
  <2>1. PICK hit \in UnmarkedIn({r \in Roots : InYoung(r)}) :
           (\A r \in hit : IsObject(r)) /\ mem' = Paint(hit, "Grey") /\ work' = hit
    BY <1>1 DEF MarkMinor
  <2>2. /\ Remarked
        /\ \A a \in Addr : IsObject(a) =>
             mem'[a].mark = IF a \in hit THEN "Grey" ELSE mem[a].mark
    BY <2>1, RootsMem
  <2>3. frames' = frames /\ "flush" \notin risk /\ pc = "mark"
    BY <1>1 DEF MarkMinor
  <2>4. ReachFrom(Roots, Young)' = ReachFrom(Roots, Young)
    BY <2>2, <2>3, SameRootsReach
  <2>5. \A a \in hit : IsObject(a) => a \in ReachFrom(Roots, Young)
    <3>1. \A a \in hit : a \in Roots /\ InYoung(a)
      BY <2>1 DEF UnmarkedIn
    <3>2. \A a \in hit : IsObject(a) => a \in Young
      BY <2>3, <3>1, InYoungMeans
    <3> QED BY <3>1, <3>2, ReachClosed
  <2>6. \A a \in Young : IsObject(a) /\ Marked(a)' => a \in hit
    BY <2>2, <2>3 DEF EdenWhite, Marked, Addr
  <2> QED BY <2>1, <2>2, <2>4, <2>5, <2>6 DEF Remarked
<1>2. CASE DrainMinor
  <2>1. PICK a \in work : Blacken(a, {r \in Addr : InYoung(r)})
    BY <1>2 DEF DrainMinor, DrainWild
  <2>2. PICK hit \in UnmarkedIn(Children(a) \cap {r \in Addr : InYoung(r)}) :
           /\ \A c \in hit : IsObject(c)
           /\ mem' = [Paint(hit, "Grey") EXCEPT ![a].mark = "Black"]
           /\ work' = (work \ {a}) \cup hit
    BY <2>1 DEF Blacken
  <2>3. IsObject(a) /\ a \in Addr
    BY <2>1 DEF Blacken, IsObject
  <2>4. /\ Remarked
        /\ \A c \in Addr : IsObject(c) =>
             mem'[c].mark = IF c = a THEN "Black" ELSE IF c \in hit THEN "Grey" ELSE mem[c].mark
    BY <2>2, <2>3, BlackenMem
  <2>5. frames' = frames /\ "flush" \notin risk /\ pc = "drain"
    BY <1>2 DEF DrainMinor
  <2>6. ReachFrom(Roots, Young)' = ReachFrom(Roots, Young)
    BY <2>4, <2>5, SameRootsReach
  <2>7. \A c \in Addr : IsObject(c) /\ (c \in work \/ (c \in Young /\ Marked(c)))
                          => c \in ReachFrom(Roots, Young)
    BY <2>5 DEF OnlyReached
  <2>8. a \in ReachFrom(Roots, Young)
    BY <2>3, <2>7
  <2>9. \A c \in hit : IsObject(c) => c \in ReachFrom(Roots, Young)
    <3>1. \A c \in hit : c \in Children(a) /\ InYoung(c)
      BY <2>2 DEF UnmarkedIn
    <3>2. \A c \in hit : IsObject(c) => c \in Young
      BY <2>5, <3>1, InYoungMeans
    <3> QED BY <2>8, <3>1, <3>2, ReachClosed
  <2>10. ASSUME NEW c \in Addr, IsObject(c), c \in work' \/ (c \in Young /\ Marked(c)')
         PROVE  c \in ReachFrom(Roots, Young)
    <3>1. CASE c = a \/ c \in hit
      BY <2>8, <2>9, <2>10, <3>1
    <3>2. CASE c # a /\ c \notin hit
      <4>1. mem'[c].mark = mem[c].mark
        BY <2>4, <2>10, <3>2
      <4>2. c \in work \/ (c \in Young /\ Marked(c))
        BY <2>2, <2>10, <3>2, <4>1 DEF Marked
      <4> QED BY <2>7, <2>10, <4>2
    <3> QED BY <3>1, <3>2
  <2> QED BY <2>4, <2>6, <2>10 DEF Remarked
<1>3. CASE UNCHANGED vars
  <2>1. /\ frames' = frames /\ mem' = mem /\ work' = work
        /\ pc = "drain" /\ "flush" \notin risk
    BY <1>3 DEF vars, heapVars, gcVars
  <2>2. ReachFrom(Roots, Young)' = ReachFrom(Roots, Young)
    BY <2>1, SameMem, SameRootsReach
  <2> QED BY <2>1, <2>2 DEF OnlyReached, IsObject, Marked
<1> QED BY <1>1, <1>2, <1>3, IntoSweep

LEMMA StepExact ==
    ASSUME IInv, EdenTiled, WorkDone, EdenMarked, NoFlush, OnlyReached, MarkExact, [Next]_vars
    PROVE  MarkExact'
<1> USE DEF IInv
<1> SUFFICES ASSUME pc' = "sweep", cursor' = YoungBase, "flush" \notin risk'
             PROVE  {a \in Young : Marked(a)'} = ReachFrom(Roots, Young)'
  BY DEF MarkExact
<1>1. CASE MarkMinorEnd
  <2>1. /\ mem' = mem /\ frames' = frames /\ work = {} /\ pc = "drain"
        /\ "flush" \notin risk
    BY <1>1 DEF MarkMinorEnd
  <2>2. ReachFrom(Roots, Young)' = ReachFrom(Roots, Young)
    BY <2>1, SameMem, SameRootsReach
  <2> DEFINE C == {a \in Young : Marked(a)}
  <2>3. C \subseteq ReachFrom(Roots, Young)
    BY <2>1 DEF OnlyReached, Marked, Addr
  <2>4. \A a \in Roots \cap Young : IsObject(a) => a \in C
    BY <2>1, InYoungMeans DEF EdenMarked
  <2>5. ASSUME NEW a \in C, NEW c \in Children(a) \cap Young, IsObject(c)
        PROVE  c \in C
    <3>1. IsObject(a) /\ mem[a].mark # "White" /\ mem[a] \in Object
      BY ObjectFacts DEF Marked
    <3>2. mem[a].mark = "Grey" \/ mem[a].mark = "Black"
      BY <3>1 DEF Object, Color
    <3>3. mem[a].mark = "Black"
      BY <2>1, <3>1, <3>2 DEF EdenMarked
    <3>4. InYoung(c)
      BY <2>1, <2>5, InYoungMeans
    <3> QED BY <2>1, <2>5, <3>1, <3>3, <3>4 DEF EdenMarked
  <2>6. ReachFrom(Roots, Young) \subseteq C
    BY <2>4, <2>5, ReachLeast
  <2> QED BY <2>1, <2>2, <2>3, <2>6 DEF Marked, IsObject
<1>2. CASE SweepWhite \/ SweepPromote \/ SweepFull
  <2>1. /\ pc = "sweep" /\ cursor < top /\ IsObject(cursor)
        /\ cursor' = cursor + SizeAt(cursor)
    BY <1>2 DEF SweepWhite, SweepPromote, SweepFull
  <2>2. cursor' > YoungBase /\ cursor' \in Nat
    BY <2>1, NextTile
  <2> QED BY <2>2, RegionFacts
<1>3. CASE UNCHANGED vars
  <2>1. /\ frames' = frames /\ mem' = mem
        /\ pc = "sweep" /\ cursor = YoungBase /\ "flush" \notin risk
    BY <1>3 DEF vars, heapVars, gcVars
  <2>2. ReachFrom(Roots, Young)' = ReachFrom(Roots, Young)
    BY <2>1, SameMem, SameRootsReach
  <2> QED BY <2>1, <2>2 DEF MarkExact, IsObject, Marked
<1> QED BY <1>1, <1>2, <1>3, IntoSweep

-------------------------------------------------------------------------------
(* The theorems *)

LEMMA InitEdenInv == ASSUME Init PROVE EdenInv
<1>1. IInv
  BY InitIInv
<1>2. /\ pc = "run" /\ top = YoungBase /\ work = {} /\ retries = 0
      /\ \A a : ~IsObject(a)
  BY DEF Init, HeapInit, GcInit, RuntimeInit, IsObject
<1>3. EdenTiled
  BY <1>2, RegionFacts DEF EdenTiled
<1>4. /\ EdenWhite /\ EdenEmpty /\ WorkDone /\ EdenMarked /\ NoFlush /\ OnlyReached
      /\ MarkExact
  BY <1>2 DEF EdenWhite, EdenEmpty, WorkDone, EdenMarked, NoFlush, OnlyReached, MarkExact,
              MajorPhases
<1>5. Retrying
  BY <1>2 DEF Retrying
<1> QED BY <1>1, <1>3, <1>4, <1>5 DEF EdenInv

LEMMA StepEdenInv == EdenInv /\ [Next]_vars => EdenInv'
<1> SUFFICES ASSUME EdenInv, [Next]_vars PROVE EdenInv'
  OBVIOUS
<1>1. IInv' /\ EdenTiled' /\ EdenWhite' /\ EdenEmpty' /\ WorkDone' /\ Retrying'
  BY StepIInv, StepTiled, StepWhite, StepEmpty, StepWork, StepRetrying DEF EdenInv
<1>2. EdenMarked' /\ NoFlush' /\ OnlyReached' /\ MarkExact'
  BY StepMarked, StepFlush, StepReached, StepExact DEF EdenInv
<1> QED BY <1>1, <1>2 DEF EdenInv

\* Objects tile eden from its base to the bump cursor at every moment, so the
\* linear walk of sweep_young always stands on a header (heap/bump.rs,
\* sweeper.rs:30-83), for classes of any size and a region of any size.
THEOREM EdenIsTiled == Spec => []EdenTiled
<1>1. EdenInv => EdenTiled
  BY DEF EdenInv
<1> QED BY <1>1, InitEdenInv, StepEdenInv, PTL DEF Spec

\* The tri-colour invariant of mark_minor and drain (marker.rs:16-84): while
\* eden is marked and swept, no root and no child of a black object is white,
\* and every grey object waits in the worklist.
THEOREM TriColour == Spec => []EdenMarked
<1>1. EdenInv => EdenMarked
  BY DEF EdenInv
<1> QED BY <1>1, InitEdenInv, StepEdenInv, PTL DEF Spec

\* mark_minor marks what the locals reach inside eden, all of it and nothing
\* else, whatever the shape of the graph, its cycles included (marker.rs:16-84),
\* as long as no object is flush against the end of its region.
THEOREM MarkingExact == Spec => []MarkExact
<1>1. EdenInv => MarkExact
  BY DEF EdenInv
<1> QED BY <1>1, InitEdenInv, StepEdenInv, PTL DEF Spec

\* A second collection for one NEW is only ever started for a class that an
\* empty eden cannot hold (mod.rs:538-559): the other seven retries never help.
THEOREM OneCollection == Spec => []OneCollectionEnough
<1>1. EdenInv => OneCollectionEnough
  BY DEF EdenInv, Retrying, OneCollectionEnough
<1> QED BY <1>1, InitEdenInv, StepEdenInv, PTL DEF Spec
===============================================================================
