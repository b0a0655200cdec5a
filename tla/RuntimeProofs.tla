----------------------------- MODULE RuntimeProofs -----------------------------
(***************************************************************************)
(* For regions of any size, any classes and any program, with any number   *)
(* of frames, locals, statics and objects: types, and the old generation   *)
(* never has two owners of one word, whatever the collector promotes,      *)
(* frees and merges and in whatever order its free list is, until the walk *)
(* of the old generation frees a block that is already listed, where the   *)
(* model stops (phase "hung").                                             *)
(***************************************************************************)
EXTENDS Runtime, FreeListOpsProofs

\* OldExclusive in terms of addresses: the objects of the old generation lie in
\* it, and no two owners of its words overlap.
Live(a) == Block(a, SizeAt(a))

OldApart ==
    /\ \A a \in Old : IsObject(a) => a + SizeAt(a) <= OldEnd
    /\ \A a, c \in Old : IsObject(a) /\ IsObject(c) /\ a # c => Apart(Live(a), Live(c))
    /\ \A i \in DOMAIN free : \A a \in Old : IsObject(a) => Apart(free[i], Live(a))
    /\ PairwiseApart(free)

\* A sweep's cursor never leaves its region downwards, and coalesce's is on
\* the list.
CursorAbove ==
    /\ pc = "sweep" => cursor >= YoungBase
    /\ pc = "sweepold" => cursor >= OldBase
    /\ pc = "coalesce" => walk >= 1

\* NEW, and a collection, run on behalf of a frame.
HasFrame == pc # "run" => frames # <<>>

IInv == TypeOK /\ OldApart /\ CursorAbove /\ HasFrame

\* The regions do not meet, and no address is null.
LEMMA RegionFacts ==
    /\ YoungBase \in Nat /\ YoungEnd \in Nat /\ OldBase \in Nat /\ OldEnd \in Nat
    /\ YoungBase <= YoungEnd /\ OldBase <= OldEnd
    /\ Young \cap Old = {}
    /\ Addr \subseteq Nat /\ 0 \notin Addr /\ Addr \subseteq Ref /\ Null \in Ref
    /\ Ref \subseteq Nat
    /\ OldBlock = BlocksOf(OldBase, OldEnd)
BY HeapAssumption
DEF Young, Old, YoungEnd, OldEnd, Addr, Ref, Null, OldBlock, BlocksOf

\* The object at an address that has one.
LEMMA ObjectFacts ==
    ASSUME TypeOK, NEW a, IsObject(a)
    PROVE  /\ a \in Addr /\ a \in Nat /\ mem[a] \in Object
           /\ SizeAt(a) \in Nat /\ SizeAt(a) >= 3
           /\ mem[a].fields \in [FieldIds -> Ref]
           /\ mem[a].cls \in Classes
           /\ Live(a).addr = a /\ Live(a).size = SizeAt(a)
           /\ Children(a) \subseteq Addr
<1>1. a \in Addr /\ mem[a] \in Object
  BY DEF IsObject, TypeOK, HeapTypeOK
<1>2. mem[a].cls \in Classes /\ mem[a].fields \in [FieldIds -> Ref]
  BY <1>1 DEF Object
<1>3. SizeAt(a) \in Nat /\ SizeAt(a) >= 3
  BY <1>2, HeapAssumption DEF SizeAt, HeaderWords
<1>4. Children(a) \subseteq Addr
  BY <1>2, HeapAssumption DEF Children, Ref, Null
<1>5. Live(a).addr = a /\ Live(a).size = SizeAt(a)
  BY DEF Live, Block
<1> QED BY <1>1, <1>2, <1>3, <1>4, <1>5, RegionFacts

\* The old generation is unchanged but for marks and fields.
SameOld ==
    /\ \A a \in Old : (mem'[a] # NoObject) => IsObject(a) /\ mem'[a].cls = mem[a].cls
    /\ free' = free

LEMMA SameOldApart == ASSUME OldApart, SameOld PROVE OldApart'
<1>1. \A a \in Old : IsObject(a)' => IsObject(a) /\ SizeAt(a)' = SizeAt(a) /\ Live(a)' = Live(a)
  BY DEF SameOld, IsObject, SizeAt, Live
<1> QED BY <1>1 DEF OldApart, SameOld

LEMMA OldExclusiveMeans == ASSUME TypeOK, OldApart PROVE OldExclusive
<1> DEFINE objs == {Block(a, SizeAt(a)) : a \in {b \in Old : IsObject(b)}}
<1>1. \A b \in objs : \E a \in Old : IsObject(a) /\ b = Live(a)
  BY DEF Live
<1>2. \A a \in Old : IsObject(a) => Live(a).addr = a /\ Live(a).size = SizeAt(a)
  BY ObjectFacts
<1> HIDE DEF objs
<1>3. \A b \in objs : b.addr + b.size <= OldEnd
  BY <1>1, <1>2 DEF OldApart
<1>4. \A b, c \in objs : b # c => Apart(b, c)
  BY <1>1 DEF OldApart
<1>5. \A i \in DOMAIN free : \A b \in objs : Apart(free[i], b)
  BY <1>1 DEF OldApart
<1> QED BY <1>3, <1>4, <1>5 DEF OldExclusive, objs, OldApart

LEMMA InitIInv == ASSUME Init PROVE IInv
<1> USE DEF Init, HeapInit, GcInit, RuntimeInit
<1>1. Block(OldBase, OldWords) \in OldBlock
  BY HeapAssumption DEF Block, OldBlock, OldEnd
<1>2. free \in Seq(OldBlock) /\ DOMAIN free = {1}
  BY <1>1
<1>3. HeapTypeOK
  <2>1. mem \in [Addr -> Object \cup {NoObject}]
    OBVIOUS
  <2>2. top \in YoungBase .. YoungEnd
    BY RegionFacts
  <2>3. cards \subseteq Nat /\ frames \in Seq(Frame) /\ statics \in [Statics -> Ref]
    BY RegionFacts
  <2> HIDE DEF Init, HeapInit
  <2> QED BY <1>2, <2>1, <2>2, <2>3 DEF HeapTypeOK
<1>4. GcTypeOK
  BY RegionFacts DEF GcTypeOK, Phases
<1>5. want \in Classes /\ retries \in 0..MaxRetries /\ next \in Nat \ {0}
  BY DEF MaxRetries
<1>6. OldApart
  BY <1>2 DEF OldApart, IsObject, PairwiseApart
<1>7. CursorAbove /\ HasFrame
  BY DEF CursorAbove, HasFrame
<1> HIDE DEF Init
<1> QED BY <1>3, <1>4, <1>5, <1>6, <1>7 DEF IInv, TypeOK
-------------------------------------------------------------------------------
(* Updates of the memory *)

Memory == [Addr -> Object \cup {NoObject}]

\* An object with another mark, or with other fields, is an object.
LEMMA Recolour ==
    ASSUME NEW o \in Object, NEW c \in Color
    PROVE  /\ [o EXCEPT !.mark = c] \in Object
           /\ [o EXCEPT !.mark = c].cls = o.cls
           /\ [o EXCEPT !.mark = c] # NoObject
BY HeapAssumption DEF Object

LEMMA Refield ==
    ASSUME NEW o \in Object, NEW f \in [FieldIds -> Ref]
    PROVE  /\ [o EXCEPT !.fields = f] \in Object
           /\ [o EXCEPT !.fields = f].cls = o.cls
           /\ [o EXCEPT !.fields = f] # NoObject
BY HeapAssumption DEF Object

LEMMA PaintFacts ==
    ASSUME TypeOK, NEW S, \A a \in S : IsObject(a), NEW c \in Color
    PROVE  /\ Paint(S, c) \in Memory
           /\ \A a \in Addr :
                /\ Paint(S, c)[a] # NoObject <=> IsObject(a)
                /\ IsObject(a) => Paint(S, c)[a].cls = mem[a].cls
<1>1. ASSUME NEW a \in Addr
      PROVE  /\ Paint(S, c)[a] \in Object \cup {NoObject}
             /\ Paint(S, c)[a] # NoObject <=> IsObject(a)
             /\ IsObject(a) => Paint(S, c)[a].cls = mem[a].cls
  <2>1. CASE a \in S
    BY <2>1, ObjectFacts, Recolour DEF Paint
  <2>2. CASE a \notin S
    <3>1. Paint(S, c)[a] = mem[a]
      BY <2>2 DEF Paint
    <3> QED BY <3>1 DEF IsObject, TypeOK, HeapTypeOK
  <2> QED BY <2>1, <2>2
<1>2. Paint(S, c) \in Memory
  BY <1>1 DEF Paint, Memory
<1> QED BY <1>1, <1>2

\* One object is replaced by one of the same class.
LEMMA UpdateFacts ==
    ASSUME TypeOK, NEW a, IsObject(a), NEW o \in Object, o.cls = mem[a].cls,
           mem' = [mem EXCEPT ![a] = o]
    PROVE  /\ mem' \in Memory
           /\ \A c \in Old : mem'[c] # NoObject => IsObject(c) /\ mem'[c].cls = mem[c].cls
BY ObjectFacts DEF TypeOK, HeapTypeOK, Memory, IsObject, Addr

-------------------------------------------------------------------------------
(* The marker *)

\* What the marking steps have in common.
LEMMA MarkStep ==
    ASSUME IInv, mem' \in Memory, work' \subseteq Addr,
           \A c \in Old : mem'[c] # NoObject => IsObject(c) /\ mem'[c].cls = mem[c].cls,
           pc # "run", pc' \in Phases \ {"sweep", "sweepold", "coalesce"}, risk' \subseteq Risks,
           UNCHANGED <<top, free, cards, frames, statics, cursor, fwd, walk, mutVars>>
    PROVE  IInv'
<1>1. TypeOK'
  BY DEF IInv, TypeOK, HeapTypeOK, GcTypeOK, Memory, mutVars
<1>2. OldApart'
  BY SameOldApart DEF SameOld, IInv
<1> QED BY <1>1, <1>2 DEF IInv, CursorAbove, HasFrame

LEMMA RootsType == ASSUME TypeOK PROVE Roots \subseteq Addr
<1>1. ASSUME NEW r \in Roots PROVE r \in Addr
  <2>1. PICK i \in DOMAIN frames, j \in 1..Locals : r = frames[i].loc[j] /\ r # Null
    BY DEF Roots
  <2>2. frames[i] \in Frame
    BY DEF TypeOK, HeapTypeOK
  <2> QED BY <2>1, <2>2 DEF Frame, Ref
<1> QED BY <1>1

LEMMA MarkRootsIInv ==
    ASSUME IInv, NEW S \in SUBSET Addr, NEW hit \in UnmarkedIn(S),
           \A r \in hit : IsObject(r), pc # "run", mem' = Paint(hit, "Grey"), work' = hit,
           pc' \in {"drain", "drainmajor"}, risk' \subseteq Risks,
           UNCHANGED <<top, free, cards, frames, statics, cursor, fwd, walk, mutVars>>
    PROVE  IInv'
<1>1. hit \subseteq Addr
  BY DEF UnmarkedIn
<1>2. /\ mem' \in Memory
      /\ \A c \in Old : mem'[c] # NoObject => IsObject(c) /\ mem'[c].cls = mem[c].cls
  BY PaintFacts DEF IInv, Color, Addr
<1>3. pc' \in Phases \ {"sweep", "sweepold", "coalesce"}
  BY DEF Phases, MinorPhases, MajorPhases
<1> QED BY <1>1, <1>2, <1>3, MarkStep

LEMMA BlackenIInv ==
    ASSUME IInv, NEW a, NEW followed, Blacken(a, followed) \/ DrainWild(a, followed),
           pc \in {"drain", "drainmajor"},
           UNCHANGED <<top, free, cards, frames, statics, cursor, fwd, walk, risk, mutVars>>
    PROVE  IInv'
<1> USE DEF IInv
<1>1. CASE Blacken(a, followed)
  <2>1. IsObject(a) /\ pc' = pc
    BY <1>1 DEF Blacken
  <2>2. PICK hit \in UnmarkedIn(Children(a) \cap followed) :
           /\ \A c \in hit : IsObject(c)
           /\ mem' = [Paint(hit, "Grey") EXCEPT ![a].mark = "Black"]
           /\ work' = (work \ {a}) \cup hit
    BY <1>1 DEF Blacken
  <2>3. hit \subseteq Addr
    BY <2>1, ObjectFacts DEF UnmarkedIn
  <2>4. /\ Paint(hit, "Grey") \in Memory
        /\ \A c \in Addr :
             /\ Paint(hit, "Grey")[c] # NoObject <=> IsObject(c)
             /\ IsObject(c) => Paint(hit, "Grey")[c].cls = mem[c].cls
    BY <2>2, PaintFacts DEF Color
  <2> DEFINE m == Paint(hit, "Grey")
             o == [m[a] EXCEPT !.mark = "Black"]
  <2> HIDE DEF m
  <2>5. a \in Addr /\ m[a] \in Object /\ m[a].cls = mem[a].cls
    BY <2>1, <2>4, ObjectFacts DEF Memory, m
  <2>6. o \in Object /\ o.cls = mem[a].cls /\ o # NoObject
    BY <2>5, Recolour DEF Color
  <2>7. mem' = [m EXCEPT ![a] = o]
    BY <2>2 DEF m
  <2> HIDE DEF o
  <2>8. mem' \in Memory
    BY <2>4, <2>5, <2>6, <2>7 DEF Memory, m
  <2>9. \A c \in Old : mem'[c] # NoObject => IsObject(c) /\ mem'[c].cls = mem[c].cls
    BY <2>1, <2>4, <2>5, <2>6, <2>7 DEF Addr, Memory, m
  <2>10. work' \subseteq Addr /\ risk' \subseteq Risks
    BY <2>2, <2>3 DEF TypeOK, GcTypeOK
  <2>11. pc' \in Phases \ {"sweep", "sweepold", "coalesce"}
    BY <2>1 DEF Phases, MinorPhases, MajorPhases
  <2> QED BY <2>8, <2>9, <2>10, <2>11, MarkStep
<1>2. CASE DrainWild(a, followed)
  <2>1. mem' \in Memory /\ work' \subseteq Addr /\ risk' \subseteq Risks
    BY <1>2 DEF DrainWild, TypeOK, HeapTypeOK, GcTypeOK, Memory
  <2>2. \A c \in Old : mem'[c] # NoObject => IsObject(c) /\ mem'[c].cls = mem[c].cls
    BY <1>2 DEF DrainWild, IsObject, Addr
  <2>3. pc' \in Phases \ {"sweep", "sweepold", "coalesce"}
    BY <1>2 DEF DrainWild, Phases, Dead
  <2> QED BY <2>1, <2>2, <2>3, MarkStep
<1> QED BY <1>1, <1>2
-------------------------------------------------------------------------------
(* The sweeper and the promoter *)

\* Promotion: the copy takes words of a free block that no object owns.
LEMMA PromoteIInv ==
    ASSUME IInv, SweepPromote, UNCHANGED mutVars
    PROVE  IInv'
<1> USE DEF IInv
<1>1. pc = "sweep" /\ IsObject(cursor) /\ cursor < top
  BY DEF SweepPromote
<1>2. PICK i \in DOMAIN free :
         /\ FirstFit(free, i, SizeAt(cursor), 1)
         /\ free' = AllocList(free, i, SizeAt(cursor), 1)
         /\ mem' = [mem EXCEPT ![AllocAddr(free[i], 1)] = mem[cursor]]
         /\ fwd' = [fwd EXCEPT ![cursor] = AllocAddr(free[i], 1)]
         /\ risk' = risk
              \cup (IF LostWords(free[i], SizeAt(cursor), 1) # {} THEN {"sliver"} ELSE {})
              \cup (IF Flush(AllocAddr(free[i], 1), SizeAt(cursor)) THEN {"flush"} ELSE {})
  BY DEF SweepPromote
<1>3. PICK n : n = SizeAt(cursor)
  OBVIOUS
<1>4. PICK one \in Nat \ {0} : one = 1
  OBVIOUS
<1>5. PICK to : to = AllocAddr(free[i], one)
  OBVIOUS
<1> DEFINE b   == free[i]
           got == Block(to, n)
<1>6. /\ free \in Seq(BlocksOf(OldBase, OldEnd)) /\ i \in 1..Len(free)
      /\ n \in Nat /\ n >= 3
      /\ mem[cursor] \in Object /\ cursor \in Addr /\ cursor \in Nat
      /\ mem[cursor].cls \in Classes
  BY <1>1, <1>3, RegionFacts, ObjectFacts DEF TypeOK, HeapTypeOK
<1>7. b \in BlocksOf(OldBase, OldEnd) /\ i \in DOMAIN free
  BY <1>6
<1>8. /\ b.addr \in Nat /\ b.size \in Nat /\ b.addr >= OldBase
      /\ b.addr + b.size <= OldEnd
      /\ to \in Nat /\ to >= b.addr /\ to + n <= b.addr + b.size
  BY <1>2, <1>6, <1>7, <1>3, <1>4, <1>5, AllocFacts, BlocksOfFacts, RegionFacts DEF FirstFit
<1>9. to \in Old /\ to \in Ref /\ to + n <= OldEnd
  BY <1>6, <1>8, RegionFacts DEF Old, Ref, Addr
<1>10. got.addr = to /\ got.size = n
  BY DEF Block
<1>11. mem[cursor] # NoObject /\ n = Size[mem[cursor].cls]
  BY <1>1, <1>3 DEF IsObject, SizeAt
<1>12. /\ mem' = [mem EXCEPT ![to] = mem[cursor]] /\ free' = AllocList(free, i, n, one)
      /\ fwd' = [fwd EXCEPT ![cursor] = to]
      /\ to = AllocAddr(free[i], one) /\ Fits(free[i], n, one)
  BY <1>2, <1>3, <1>4, <1>5 DEF FirstFit
<1> HIDE DEF b, got
<1>13. free' \in Seq(OldBlock)
  BY <1>6, <1>12, AllocListType, RegionFacts
<1>14. TypeOK'
  <2>1. mem' \in [Addr -> Object \cup {NoObject}]
    BY <1>6, <1>12 DEF TypeOK, HeapTypeOK
  <2>2. HeapTypeOK'
    BY <1>13, <2>1 DEF SweepPromote, TypeOK, HeapTypeOK
  <2>3. fwd' \in [Addr -> Ref]
    BY <1>9, <1>12 DEF TypeOK, GcTypeOK
  <2>4. cursor' \in Nat
    BY <1>6, <1>3 DEF SweepPromote
  <2>5. risk' \subseteq Risks
    BY <1>2 DEF TypeOK, GcTypeOK, Risks
  <2>6. GcTypeOK'
    BY <2>3, <2>4, <2>5 DEF SweepPromote, TypeOK, GcTypeOK
  <2> QED BY <2>2, <2>6 DEF TypeOK, mutVars
<1>15. ASSUME NEW a \in Old, IsObject(a)', a # to
       PROVE  /\ IsObject(a) /\ Live(a)' = Live(a) /\ SizeAt(a)' = SizeAt(a)
              /\ Live(a) \in BlocksOf(OldBase, OldEnd)
  <2>1. mem'[a] = mem[a] /\ a \in Addr
    BY <1>12, <1>15 DEF TypeOK, HeapTypeOK, Addr
  <2>2. IsObject(a) /\ SizeAt(a)' = SizeAt(a)
    BY <1>15, <2>1 DEF IsObject, SizeAt
  <2>3. Live(a) \in BlocksOf(OldBase, OldEnd)
    <3>1. /\ SizeAt(a) \in Nat /\ SizeAt(a) >= 3 /\ a \in Nat /\ a >= OldBase
          /\ a + SizeAt(a) <= OldEnd
      BY <2>2, ObjectFacts, RegionFacts DEF OldApart, Old
    <3> QED BY <3>1 DEF Live, Block, BlocksOf, FreeBlockWords
  <2> QED BY <2>2, <2>3 DEF Live
<1>16. IsObject(to)' /\ Live(to)' = got /\ SizeAt(to)' = n
  <2>1. mem'[to] = mem[cursor]
    BY <1>9, <1>12 DEF TypeOK, HeapTypeOK, Addr
  <2> QED BY <1>9, <1>11, <2>1 DEF IsObject, SizeAt, Live, got, Addr
<1>17. ASSUME NEW a \in Old, IsObject(a)', a # to
       PROVE  Apart(got, Live(a)) /\ Apart(Live(a), got)
  <2>1. Apart(b, Live(a))
    BY <1>7, <1>15, <1>17 DEF OldApart, b
  <2>2. Live(a).addr \in Nat /\ Live(a).size \in Nat
    BY <1>15, <1>17, BlocksOfFacts
  <2> QED BY <1>6, <1>8, <1>10, <2>1, <2>2, PartApart
<1>18. OldApart'
  <2>1. \A a \in Old : IsObject(a)' => a + SizeAt(a)' <= OldEnd
    BY <1>9, <1>15, <1>16 DEF OldApart
  <2>2. \A a, c \in Old : IsObject(a)' /\ IsObject(c)' /\ a # c => Apart(Live(a)', Live(c)')
    <3> SUFFICES ASSUME NEW a \in Old, NEW c \in Old, IsObject(a)', IsObject(c)', a # c
                 PROVE  Apart(Live(a)', Live(c)')
      OBVIOUS
    <3>1. CASE a = to
      BY <1>15, <1>16, <1>17, <3>1
    <3>2. CASE c = to
      BY <1>15, <1>16, <1>17, <3>2
    <3>3. CASE a # to /\ c # to
      BY <1>15, <3>3 DEF OldApart
    <3> QED BY <3>1, <3>2, <3>3
  <2>3. /\ PairwiseApart(free')
        /\ \A j \in DOMAIN free' :
             /\ Apart(free'[j], got)
             /\ \A c \in BlocksOf(OldBase, OldEnd) :
                  (\A k \in DOMAIN free : Apart(free[k], c)) => Apart(free'[j], c)
    BY <1>6, <1>12, AllocApart, RegionFacts DEF OldApart, got
  <2>4. \A j \in DOMAIN free' : \A a \in Old : IsObject(a)' => Apart(free'[j], Live(a)')
    <3> SUFFICES ASSUME NEW j \in DOMAIN free', NEW a \in Old, IsObject(a)'
                 PROVE  Apart(free'[j], Live(a)')
      OBVIOUS
    <3>1. CASE a = to
      BY <1>16, <2>3, <3>1
    <3>2. CASE a # to
      <4>1. \A k \in DOMAIN free : Apart(free[k], Live(a))
        BY <1>15, <3>2 DEF OldApart
      <4> QED BY <1>15, <2>3, <3>2, <4>1
    <3> QED BY <3>1, <3>2
  <2> QED BY <2>1, <2>2, <2>3, <2>4 DEF OldApart
<1>19. CursorAbove' /\ HasFrame'
  <2>1. cursor >= YoungBase /\ cursor' = cursor + n
    BY <1>1, <1>3 DEF CursorAbove, SweepPromote
  <2>2. cursor' >= YoungBase
    BY <1>6, <2>1, RegionFacts
  <2> QED BY <1>1, <2>2 DEF CursorAbove, HasFrame, SweepPromote
<1> QED BY <1>14, <1>18, <1>19
\* An object of the old generation occupies a block of it.
LEMMA LiveBlock ==
    ASSUME TypeOK, OldApart, NEW a \in Old, IsObject(a)
    PROVE  Live(a) \in BlocksOf(OldBase, OldEnd)
<1>1. /\ SizeAt(a) \in Nat /\ SizeAt(a) >= 3 /\ a \in Nat /\ a >= OldBase
      /\ a + SizeAt(a) <= OldEnd
  BY ObjectFacts, RegionFacts DEF OldApart, Old
<1> QED BY <1>1 DEF Live, Block, BlocksOf, FreeBlockWords

\* Freeing a dead object hands its words, and no others, to the list.
LEMMA SweepOldWhiteIInv ==
    ASSUME IInv, SweepOldWhite, UNCHANGED mutVars
    PROVE  IInv'
<1> USE DEF IInv
<1>1. pc = "sweepold" /\ pc' = pc /\ IsObject(cursor) /\ cursor < OldEnd /\ cursor >= OldBase
  BY DEF SweepOldWhite, CursorAbove
<1>2. PICK at : at = cursor
  OBVIOUS
<1>3. PICK b : b = Live(cursor)
  OBVIOUS
<1>4. PICK i \in 1..(Len(free) + 1) : free' = InsertAt(free, i, b)
  BY <1>3 DEF SweepOldWhite, FreeInsert, Live
<1>5. /\ mem' = [mem EXCEPT ![at] = NoObject] /\ cursor' = cursor + SizeAt(cursor)
      /\ UNCHANGED <<top, cards, frames, statics, work, fwd, walk, risk>>
  BY <1>2 DEF SweepOldWhite
<1>6. at \in Old /\ at \in Addr /\ IsObject(at) /\ b = Live(at)
  BY <1>1, <1>2, <1>3, RegionFacts DEF IsObject, Addr, Old
<1>7. /\ b \in BlocksOf(OldBase, OldEnd)
      /\ free \in Seq(BlocksOf(OldBase, OldEnd))
  BY <1>6, LiveBlock, RegionFacts DEF TypeOK, HeapTypeOK
<1>8. \A j \in DOMAIN free : Apart(b, free[j])
  BY <1>6 DEF OldApart, Apart
<1>9. free' \in Seq(OldBlock)
  BY <1>4, <1>7, InsertAtFacts, RegionFacts
<1>10. /\ PairwiseApart(free')
       /\ \A j \in DOMAIN free' : free'[j] = b \/ \E k \in DOMAIN free : free'[j] = free[k]
  <2>1. PairwiseApart(free) /\ OldBase \in Nat /\ OldEnd \in Nat
    BY RegionFacts DEF OldApart
  <2> QED BY <1>4, <1>7, <1>8, <2>1, InsertApart
<1>11. TypeOK'
  <2>1. mem' \in [Addr -> Object \cup {NoObject}]
    BY <1>5 DEF TypeOK, HeapTypeOK
  <2>2. cursor' \in Nat
    BY <1>1, <1>5, ObjectFacts
  <2> QED BY <1>1, <1>5, <1>9, <2>1, <2>2 DEF TypeOK, HeapTypeOK, GcTypeOK, mutVars
<1>12. ASSUME NEW a \in Old, IsObject(a)'
       PROVE  a # at /\ IsObject(a) /\ SizeAt(a)' = SizeAt(a) /\ Live(a)' = Live(a)
  <2>1. a # at /\ mem'[a] = mem[a] /\ a \in Addr
    BY <1>5, <1>12 DEF TypeOK, HeapTypeOK, IsObject, Addr
  <2> QED BY <1>12, <2>1 DEF IsObject, SizeAt, Live
<1>13. OldApart'
  <2>1. ASSUME NEW j \in DOMAIN free', NEW a \in Old, IsObject(a)'
        PROVE  Apart(free'[j], Live(a)')
    BY <1>6, <1>10, <1>12, <2>1 DEF OldApart
  <2> QED BY <1>10, <1>12, <2>1 DEF OldApart
<1>14. CursorAbove' /\ HasFrame'
  <2>1. cursor' >= OldBase
    BY <1>1, <1>5, ObjectFacts, RegionFacts
  <2> QED BY <1>1, <1>5, <2>1 DEF CursorAbove, HasFrame
<1> QED BY <1>11, <1>13, <1>14

\* Steps that change marks and fields of old objects at most.
LEMMA QuietStep ==
    ASSUME IInv, TypeOK', SameOld, CursorAbove', HasFrame'
    PROVE  IInv'
BY SameOldApart DEF IInv

LEMMA SameMemory == ASSUME TypeOK, UNCHANGED <<mem, free>> PROVE SameOld
BY DEF SameOld, IsObject, Addr

LEMMA SweepOldBlackIInv ==
    ASSUME IInv, SweepOldBlack, UNCHANGED mutVars
    PROVE  IInv'
<1> USE DEF IInv
<1>1. /\ pc = "sweepold" /\ pc' = pc /\ IsObject(cursor) /\ cursor >= OldBase
      /\ cursor' = cursor + SizeAt(cursor)
      /\ UNCHANGED <<top, free, cards, frames, statics, work, fwd, walk, risk>>
  BY DEF SweepOldBlack, CursorAbove
<1>2. PICK o \in Object : o = [mem[cursor] EXCEPT !.mark = "White"]
  BY <1>1, ObjectFacts, Recolour DEF Color
<1>3. o.cls = mem[cursor].cls
  BY <1>1, <1>2, ObjectFacts, Recolour DEF Color
<1>4. mem' = [mem EXCEPT ![cursor] = o]
  BY <1>2 DEF SweepOldBlack
<1>5. mem' \in Memory /\ SameOld
  BY <1>1, <1>3, <1>4, UpdateFacts DEF SameOld
<1>6. cursor' \in Nat /\ cursor' >= OldBase
  BY <1>1, ObjectFacts, RegionFacts
<1>7. TypeOK'
  BY <1>1, <1>5, <1>6 DEF TypeOK, HeapTypeOK, GcTypeOK, Memory, mutVars
<1> QED BY <1>1, <1>5, <1>6, <1>7, QuietStep DEF CursorAbove, HasFrame

LEMMA CoalesceMergeIInv ==
    ASSUME IInv, CoalesceMerge, UNCHANGED mutVars
    PROVE  IInv'
<1> USE DEF IInv
<1>1. /\ pc = "coalesce" /\ walk < Len(free) /\ AdjacentAt(free, walk)
      /\ free' = MergeAt(free, walk)
      /\ UNCHANGED <<mem, top, cards, frames, statics, gcVars>>
  BY DEF CoalesceMerge, gcVars
<1>2. walk \in 1..Len(free) /\ free \in Seq(BlocksOf(OldBase, OldEnd))
  BY <1>1, RegionFacts DEF CursorAbove, TypeOK, HeapTypeOK, GcTypeOK
<1>3. free' \in Seq(OldBlock)
  BY <1>1, <1>2, MergeAtFacts, RegionFacts
<1>4. /\ PairwiseApart(free')
      /\ \A j \in DOMAIN free' : \A c \in BlocksOf(OldBase, OldEnd) :
           (\A k \in DOMAIN free : Apart(free[k], c)) => Apart(free'[j], c)
  BY <1>1, <1>2, MergeApart, RegionFacts DEF OldApart
<1>5. TypeOK'
  BY <1>1, <1>3 DEF TypeOK, HeapTypeOK, GcTypeOK, gcVars, mutVars
<1>6. \A a \in Old : IsObject(a)' = IsObject(a) /\ SizeAt(a)' = SizeAt(a) /\ Live(a)' = Live(a)
  BY <1>1 DEF IsObject, SizeAt, Live
<1>7. \A j \in DOMAIN free' : \A a \in Old : IsObject(a) => Apart(free'[j], Live(a))
  BY <1>4, LiveBlock DEF OldApart
<1>8. OldApart'
  BY <1>4, <1>6, <1>7 DEF OldApart
<1> QED BY <1>1, <1>5, <1>8 DEF CursorAbove, HasFrame, gcVars
-------------------------------------------------------------------------------
(* The rest of a collection *)

LEMMA ForwardType == ASSUME TypeOK, NEW r \in Ref PROVE Forward(r) \in Ref
BY DEF Forward, TypeOK, GcTypeOK

\* Forwarding every pointer field of an object keeps its type and its class.
LEMMA FixObjectsIInv ==
    ASSUME IInv, FixObjects, UNCHANGED mutVars
    PROVE  IInv'
<1> USE DEF IInv
<1> DEFINE F(a) == [k \in FieldIds |-> IF k \in Pointers[mem[a].cls]
                                       THEN Forward(mem[a].fields[k])
                                       ELSE mem[a].fields[k]]
           copies == {fwd[a] : a \in Addr} \ {Null}
<1>1. \A a \in Addr : IsObject(a) => F(a) \in [FieldIds -> Ref]
  BY ForwardType, ObjectFacts
<1> HIDE DEF copies
<1>2. mem' = [a \in Addr |-> IF a \in copies /\ IsObject(a)
                            THEN [mem[a] EXCEPT !.fields = F(a)] ELSE mem[a]]
  BY DEF FixObjects, copies
<1> HIDE DEF F
<1>3. ASSUME NEW a \in Addr
      PROVE  /\ mem'[a] \in Object \cup {NoObject}
             /\ mem'[a] # NoObject => IsObject(a) /\ mem'[a].cls = mem[a].cls
  <2>1. CASE a \in copies /\ IsObject(a)
    BY <1>1, <1>2, <2>1, ObjectFacts, Refield
  <2>2. CASE ~(a \in copies /\ IsObject(a))
    <3>1. mem'[a] = mem[a]
      BY <1>2, <2>2
    <3> QED BY <3>1 DEF IsObject, TypeOK, HeapTypeOK
  <2> QED BY <2>1, <2>2
<1>4. mem' \in [Addr -> Object \cup {NoObject}]
  BY <1>2, <1>3
<1>5. SameOld
  BY <1>3 DEF FixObjects, SameOld, Addr
<1>6. TypeOK'
  BY <1>4 DEF FixObjects, TypeOK, HeapTypeOK, GcTypeOK, mutVars, Phases, MinorPhases
<1> QED BY <1>5, <1>6, QuietStep DEF FixObjects, CursorAbove, HasFrame

LEMMA FixRootsIInv ==
    ASSUME IInv, FixRoots, UNCHANGED mutVars
    PROVE  IInv'
<1> USE DEF IInv
<1>1. ASSUME NEW i \in DOMAIN frames PROVE FixFrame(frames[i]) \in Frame
  <2>1. frames[i] \in Frame
    BY DEF TypeOK, HeapTypeOK
  <2>2. [j \in 1..Locals |-> Forward(frames[i].loc[j])] \in [1..Locals -> Ref]
    BY <2>1, ForwardType DEF Frame
  <2> QED BY <2>1, <2>2 DEF FixFrame, Frame
<1>2. frames' = [i \in DOMAIN frames |-> FixFrame(frames[i])]
  BY DEF FixRoots
<1>3. frames \in Seq(Frame) /\ DOMAIN frames = 1..Len(frames) /\ Len(frames) \in Nat
  BY DEF TypeOK, HeapTypeOK
<1>4. frames' \in Seq(Frame) /\ (frames # <<>> => frames' # <<>>)
  BY <1>1, <1>2, <1>3
<1>5. SameOld
  BY SameMemory DEF FixRoots
<1>6. TypeOK'
  BY <1>4 DEF FixRoots, TypeOK, HeapTypeOK, GcTypeOK, mutVars, Phases, MinorPhases
<1> QED BY <1>4, <1>5, <1>6, QuietStep DEF FixRoots, CursorAbove, HasFrame

LEMMA ResetIInv ==
    ASSUME IInv, Reset, UNCHANGED mutVars
    PROVE  IInv'
<1> USE DEF IInv
<1>1. mem' \in [Addr -> Object \cup {NoObject}] /\ fwd' \in [Addr -> Ref]
  BY RegionFacts DEF Reset, TypeOK, HeapTypeOK
<1>2. SameOld
  BY DEF Reset, SameOld, IsObject, Addr
<1>3. top' \in YoungBase .. YoungEnd
  BY RegionFacts DEF Reset
<1>4. pc' \in {"markmajor", "retry"}
  BY DEF Reset
<1>5. TypeOK'
  BY <1>1, <1>3, <1>4 DEF Reset, TypeOK, HeapTypeOK, GcTypeOK, mutVars, Phases, MajorPhases
<1> QED BY <1>2, <1>4, <1>5, QuietStep DEF Reset, CursorAbove, HasFrame

\* Steps that move a cursor or change the phase and leave the heap alone.
LEMMA CursorStep ==
    ASSUME IInv, UNCHANGED <<heapVars, fwd, work, mutVars>>,
           pc # "run", pc' \in Phases, cursor' \in Nat, walk' \in Nat, risk' \subseteq Risks,
           CursorAbove'
    PROVE  IInv'
<1>1. TypeOK'
  BY DEF IInv, heapVars, mutVars, TypeOK, HeapTypeOK, GcTypeOK
<1>2. SameOld
  BY SameMemory DEF IInv, heapVars
<1> QED BY <1>1, <1>2, QuietStep DEF IInv, HasFrame, heapVars

LEMMA UntracedTypes == UntracedEden \subseteq Risks /\ UntracedOld \subseteq Risks
BY DEF UntracedEden, UntracedOld, Risks

LEMMA MinorIInv == ASSUME IInv, Minor, UNCHANGED mutVars PROVE IInv'
<1> USE DEF IInv
<1>1. CASE MarkMinor
  <2>1. {r \in Roots : InYoung(r)} \in SUBSET Addr
    BY RootsType
  <2> QED BY <1>1, <2>1, MarkRootsIInv DEF MarkMinor, TypeOK, GcTypeOK
<1>2. CASE DrainMinor
  BY <1>2, BlackenIInv DEF DrainMinor
<1>3. CASE MarkMinorEnd
  BY <1>3, CursorStep, RegionFacts
  DEF MarkMinorEnd, heapVars, TypeOK, GcTypeOK, Phases, MinorPhases, CursorAbove
<1>4. CASE SweepWhite
  <2>1. cursor' \in Nat /\ cursor' >= YoungBase
    BY <1>4, ObjectFacts, RegionFacts DEF SweepWhite, CursorAbove
  <2> QED BY <1>4, <2>1, CursorStep DEF SweepWhite, heapVars, TypeOK, GcTypeOK, CursorAbove
<1>5. CASE SweepPromote
  BY <1>5, PromoteIInv
<1>6. CASE SweepFull
  <2>1. cursor' \in Nat /\ cursor' >= YoungBase
    BY <1>6, ObjectFacts, RegionFacts DEF SweepFull, CursorAbove
  <2> QED BY <1>6, <2>1, CursorStep
          DEF SweepFull, heapVars, TypeOK, GcTypeOK, Risks, CursorAbove
<1>7. CASE SweepEnd
  BY <1>7, CursorStep, RegionFacts
  DEF SweepEnd, heapVars, TypeOK, GcTypeOK, Phases, MinorPhases, CursorAbove
<1>8. CASE FixObjects
  BY <1>8, FixObjectsIInv
<1>9. CASE FixRoots
  BY <1>9, FixRootsIInv
<1>10. CASE Reset
  BY <1>10, ResetIInv
<1>11. CASE MarkMinorWild
  BY <1>11, CursorStep DEF MarkMinorWild, TypeOK, GcTypeOK, Phases, Dead, CursorAbove
<1> QED BY <1>1, <1>2, <1>3, <1>4, <1>5, <1>6, <1>7, <1>8, <1>9, <1>10, <1>11 DEF Minor

LEMMA MajorIInv == ASSUME IInv, Major, UNCHANGED mutVars PROVE IInv'
<1> USE DEF IInv
<1>1. CASE MarkMajor
  <2>1. risk' \subseteq Risks
    BY <1>1, UntracedTypes DEF MarkMajor, TypeOK, GcTypeOK
  <2> QED BY <1>1, <2>1, RootsType, MarkRootsIInv DEF MarkMajor
<1>2. CASE DrainMajor
  BY <1>2, BlackenIInv DEF DrainMajor
<1>3. CASE MarkMajorEnd
  BY <1>3, CursorStep, RegionFacts
  DEF MarkMajorEnd, TypeOK, GcTypeOK, Phases, MajorPhases, CursorAbove
<1>4. CASE SweepOldWhite
  BY <1>4, SweepOldWhiteIInv
<1>5. CASE SweepOldBlack
  BY <1>5, SweepOldBlackIInv
<1>6. CASE SweepOldLastBlock
  BY <1>6, CursorStep, RegionFacts
  DEF SweepOldLastBlock, TypeOK, GcTypeOK, Phases, MajorPhases, Dead, CursorAbove
<1>7. CASE SweepOldListedBlock
  BY <1>7, CursorStep DEF SweepOldListedBlock, TypeOK, GcTypeOK, Phases, Dead, CursorAbove
<1>8. CASE SweepOldWild
  BY <1>8, CursorStep DEF SweepOldWild, TypeOK, GcTypeOK, Phases, Dead, CursorAbove
<1>9. CASE SweepOldEnd
  BY <1>9, CursorStep, RegionFacts
  DEF SweepOldEnd, TypeOK, GcTypeOK, Phases, MajorPhases, CursorAbove
<1>10. CASE CoalesceMerge
  BY <1>10, CoalesceMergeIInv
<1>11. CASE CoalesceSkip
  BY <1>11, CursorStep DEF CoalesceSkip, TypeOK, GcTypeOK, CursorAbove
<1>12. CASE CoalesceEnd
  BY <1>12, CursorStep DEF CoalesceEnd, TypeOK, GcTypeOK, Phases, CursorAbove
<1>13. CASE MarkMajorWild
  BY <1>13, CursorStep DEF MarkMajorWild, TypeOK, GcTypeOK, Phases, Dead, CursorAbove
<1> QED BY <1>1, <1>2, <1>3, <1>4, <1>5, <1>6, <1>7, <1>8, <1>9, <1>10, <1>11, <1>12, <1>13
        DEF Major
-------------------------------------------------------------------------------
(* The interpreter *)

\* The call stack and the statics hold values of R.
FrameOf(R) == [loc : [1..Locals -> R], stk : Seq(R)]
SlotsIn(R) == frames \in Seq(FrameOf(R)) /\ statics \in [Statics -> R]

LEMMA TypeSlots == ASSUME TypeOK PROVE SlotsIn(Ref) /\ FrameOf(Ref) = Frame
BY DEF TypeOK, HeapTypeOK, SlotsIn, FrameOf, Frame

LEMMA StackFacts ==
    ASSUME NEW R, SlotsIn(R), frames # <<>>
    PROVE  /\ Len(frames) \in Nat /\ Len(frames) >= 1
           /\ Stack \in Seq(R)
           /\ Current.loc \in [1..Locals -> R]
<1>1. frames \in Seq(FrameOf(R)) /\ Len(frames) \in Nat /\ Len(frames) >= 1
  BY DEF SlotsIn
<1>2. Current \in FrameOf(R)
  BY <1>1 DEF Current
<1> QED BY <1>1, <1>2 DEF FrameOf, Stack

LEMMA WithStackType ==
    ASSUME NEW R, SlotsIn(R), frames # <<>>, NEW s \in Seq(R)
    PROVE  WithStack(s) \in Seq(FrameOf(R)) /\ WithStack(s) # <<>>
<1>1. frames \in Seq(FrameOf(R)) /\ Len(frames) \in Nat /\ Len(frames) >= 1
  BY StackFacts DEF SlotsIn
<1>2. frames[Len(frames)] \in FrameOf(R)
  BY <1>1
<1> DEFINE f == [frames[Len(frames)] EXCEPT !.stk = s]
<1>3. f \in FrameOf(R)
  BY <1>2 DEF FrameOf
<1>4. WithStack(s) = [frames EXCEPT ![Len(frames)] = f]
  BY DEF WithStack
<1> HIDE DEF f
<1> QED BY <1>1, <1>3, <1>4

\* The values a bytecode takes from the operand stack.
LEMMA PopFacts ==
    ASSUME NEW R, SlotsIn(R), frames # <<>>, NEW n \in Nat, n <= Len(Stack)
    PROVE  /\ Drop(n) \in Seq(R)
           /\ SubSeq(Stack, Len(Stack) - n + 1, Len(Stack)) \in Seq(R)
           /\ \A i \in 1..Len(Stack) : Stack[i] \in R
<1>1. Stack \in Seq(R) /\ Len(Stack) \in Nat
  BY StackFacts
<1> QED BY <1>1 DEF Drop

LEMMA LastType ==
    ASSUME NEW R, SlotsIn(R), frames # <<>>, Stack # <<>>
    PROVE  Last(Stack) \in R /\ Drop(1) \in Seq(R)
<1>1. Stack \in Seq(R) /\ Len(Stack) \in Nat /\ Len(Stack) >= 1
  BY StackFacts
<1>2. 1 \in Nat
  OBVIOUS
<1> QED BY <1>1, <1>2, PopFacts DEF Last

LEMMA NewFrameType ==
    ASSUME NEW R, Null \in R, NEW args \in Seq(R) PROVE NewFrame(args) \in FrameOf(R)
<1>1. \A j \in 1..Locals : (IF j <= Len(args) THEN args[j] ELSE Null) \in R
  BY HeapAssumption
<1>2. <<>> \in Seq(R)
  OBVIOUS
<1> QED BY <1>1, <1>2 DEF NewFrame, FrameOf

LEMMA PushSlots ==
    ASSUME NEW R, SlotsIn(R), Executing, NEW v \in R, Push(v) PROVE SlotsIn(R)'
<1>1. frames # <<>>
  BY DEF Executing
<1>2. Append(Stack, v) \in Seq(R)
  BY <1>1, StackFacts
<1>3. frames' \in Seq(FrameOf(R))
  BY <1>1, <1>2, WithStackType DEF Push
<1> QED BY <1>3 DEF SlotsIn, Push

\* The bytecodes that move values between the slots of the call stack.
LEMMA MoveSlots ==
    ASSUME NEW R, SlotsIn(R), Executing,
           Dup \/ Pop \/ Return \/ Areturn \/ \E j \in 1..Locals : Astore(j)
    PROVE  SlotsIn(R)'
<1>1. /\ frames # <<>> /\ frames \in Seq(FrameOf(R)) /\ statics \in [Statics -> R]
      /\ Len(frames) \in Nat /\ Len(frames) >= 1
  BY StackFacts DEF Executing, SlotsIn
<1> SUFFICES frames' \in Seq(FrameOf(R))
  BY <1>1 DEF SlotsIn, Dup, Push, Pop, Return, Areturn, Astore
<1>2. CASE Dup
  BY <1>1, <1>2, LastType, PushSlots DEF Dup, SlotsIn
<1>3. CASE Pop
  BY <1>1, <1>3, LastType, WithStackType DEF Pop
<1>4. Front(frames) \in Seq(FrameOf(R))
  BY <1>1 DEF Front
<1>5. CASE Return
  BY <1>4, <1>5 DEF Return
<1>6. CASE Areturn
  <2>1. CASE Len(frames) = 1
    BY <1>6, <2>1 DEF Areturn
  <2>2. CASE Len(frames) # 1
    <3>1. PICK k \in Nat : k = Len(frames) - 1
      BY <1>1
    <3>2. /\ k \in 1..Len(Front(frames)) /\ Front(frames)[k] = frames[k]
          /\ frames[k] \in FrameOf(R)
      BY <1>1, <2>2, <3>1 DEF Front
    <3> DEFINE s == Append(frames[k].stk, Last(Stack))
               f == [frames[k] EXCEPT !.stk = s]
    <3>3. s \in Seq(R)
      BY <1>1, <1>6, <3>2, LastType DEF Areturn, FrameOf
    <3>4. f \in FrameOf(R)
      BY <3>2, <3>3 DEF FrameOf
    <3>5. frames' = [Front(frames) EXCEPT ![k] = f]
      BY <1>1, <1>6, <2>2, <3>1, <3>2 DEF Areturn
    <3> HIDE DEF s, f
    <3> QED BY <1>4, <3>2, <3>4, <3>5
  <2> QED BY <2>1, <2>2
<1>7. ASSUME NEW j \in 1..Locals, Astore(j) PROVE frames' \in Seq(FrameOf(R))
  <2>1. Last(Stack) \in R /\ Drop(1) \in Seq(R)
    BY <1>1, <1>7, LastType DEF Astore
  <2>2. Current.loc \in [1..Locals -> R]
    BY <1>1, StackFacts
  <2> DEFINE f == [loc |-> [Current.loc EXCEPT ![j] = Last(Stack)], stk |-> Drop(1)]
  <2>3. f \in FrameOf(R)
    BY <2>1, <2>2 DEF FrameOf
  <2>4. frames' = [frames EXCEPT ![Len(frames)] = f]
    BY <1>7, <1>1 DEF Astore, Current
  <2> HIDE DEF f
  <2> QED BY <1>1, <2>3, <2>4
<1> QED BY <1>2, <1>3, <1>5, <1>6, <1>7

\* A bytecode leaves nothing in a slot but null, what a slot held, and what a
\* field of an object it names held.
LEMMA BytecodeSlots ==
    ASSUME NEW R, SlotsIn(R), Null \in R,
           \A a \in R : IsObject(a) => \A k \in Pointers[mem[a].cls] : mem[a].fields[k] \in R,
           Bytecode
    PROVE  SlotsIn(R)'
<1>1. ASSUME Unwind, statics' = statics PROVE SlotsIn(R)'
  BY <1>1 DEF Unwind, SlotsIn
<1>2. ASSUME UNCHANGED <<frames, statics>> PROVE SlotsIn(R)'
  BY <1>2 DEF SlotsIn
<1>3. ASSUME NEW s \in Seq(R), frames # <<>>, frames' = WithStack(s), statics' = statics
      PROVE  SlotsIn(R)'
  BY <1>3, WithStackType DEF SlotsIn
<1>4. CASE Enter
  <2>1. <<>> \in Seq(R)
    OBVIOUS
  <2>2. PICK f \in FrameOf(R) : f = NewFrame(<<>>)
    BY <2>1, NewFrameType
  <2> QED BY <1>4, <2>2 DEF Enter, SlotsIn
<1>5. CASE AconstNull
  BY <1>5, PushSlots DEF AconstNull
<1>6. CASE Dup \/ Pop \/ Return \/ Areturn \/ \E j \in 1..Locals : Astore(j)
  <2>1. Executing
    BY <1>6 DEF Dup, Pop, Return, Areturn, Astore
  <2> QED BY <1>6, <2>1, MoveSlots
<1>7. CASE Exception \/ Throw
  BY <1>1, <1>2, <1>7 DEF Exception, Throw
<1>8. ASSUME NEW j \in 1..Locals, Aload(j) PROVE SlotsIn(R)'
  <2>1. Executing /\ Push(Current.loc[j])
    BY <1>8 DEF Aload
  <2>2. Current.loc[j] \in R
    BY <2>1, StackFacts DEF Executing
  <2> QED BY <2>1, <2>2, PushSlots
<1>9. ASSUME NEW s \in Statics, GetStatic(s) \/ PutStatic(s) PROVE SlotsIn(R)'
  <2>1. CASE GetStatic(s)
    BY <2>1, PushSlots DEF GetStatic, SlotsIn
  <2>2. CASE PutStatic(s)
    <3>1. frames # <<>> /\ Last(Stack) \in R /\ Drop(1) \in Seq(R)
      BY <2>2, LastType DEF Executing, PutStatic
    <3>2. statics' \in [Statics -> R]
      BY <2>2, <3>1 DEF PutStatic, SlotsIn
    <3> QED BY <2>2, <3>1, <3>2, WithStackType DEF PutStatic, SlotsIn
  <2> QED BY <1>9, <2>1, <2>2
<1>10. ASSUME NEW k \in FieldIds, GetField(k) PROVE SlotsIn(R)'
  <2>1. frames # <<>> /\ Last(Stack) \in R /\ Drop(1) \in Seq(R) /\ statics' = statics
    BY <1>10, LastType DEF Executing, GetField
  <2>2. PICK obj : obj = Last(Stack)
    OBVIOUS
  <2>3. CASE Unwind \/ frames' = frames
    BY <1>1, <1>2, <2>1, <2>3
  <2>4. CASE /\ IsObject(obj) /\ k \in Pointers[mem[obj].cls]
             /\ frames' = WithStack(Append(Drop(1), mem[obj].fields[k]))
    <3>1. Append(Drop(1), mem[obj].fields[k]) \in Seq(R)
      BY <2>1, <2>2, <2>4
    <3> QED BY <1>3, <2>1, <2>4, <3>1
  <2> QED BY <1>10, <2>2, <2>3, <2>4 DEF GetField
<1>11. ASSUME NEW k \in FieldIds, PutField(k) PROVE SlotsIn(R)'
  <2>1. frames # <<>> /\ 2 \in Nat /\ 2 <= Len(Stack) /\ statics' = statics
    <3>1. frames # <<>> /\ Len(Stack) >= 2 /\ statics' = statics
      BY <1>11 DEF Executing, PutField
    <3>2. Len(Stack) \in Nat
      BY <3>1, StackFacts
    <3> QED BY <3>1, <3>2
  <2>2. Drop(2) \in Seq(R)
    BY <2>1, PopFacts
  <2>3. Unwind \/ frames' = frames \/ frames' = WithStack(Drop(2))
    BY <1>11 DEF PutField
  <2> QED BY <1>1, <1>2, <1>3, <2>1, <2>2, <2>3
<1>12. ASSUME NEW n \in 0..(Locals + 1), NEW r \in BOOLEAN, Invoke(n, r) PROVE SlotsIn(R)'
  <2> DEFINE args   == SubSeq(Stack, Len(Stack) - n + 1, Len(Stack))
             caller == WithStack(Drop(n))
  <2>1. frames # <<>> /\ n \in Nat /\ n <= Len(Stack) /\ statics' = statics
    <3>1. frames # <<>> /\ Len(Stack) >= n /\ statics' = statics /\ n \in Nat
      BY <1>12, HeapAssumption DEF Executing, Invoke
    <3>2. Len(Stack) \in Nat
      BY <3>1, StackFacts
    <3> QED BY <3>1, <3>2
  <2>2. Drop(n) \in Seq(R) /\ args \in Seq(R)
    BY <2>1, PopFacts
  <2>3. caller \in Seq(FrameOf(R)) /\ NewFrame(args) \in FrameOf(R)
    BY <2>1, <2>2, WithStackType, NewFrameType
  <2>4. \/ Unwind \/ frames' = frames \/ frames' = caller
        \/ frames' = Append(caller, NewFrame(args))
    BY <1>12 DEF Invoke
  <2> HIDE DEF args, caller
  <2>5. Append(caller, NewFrame(args)) \in Seq(FrameOf(R))
    BY <2>3
  <2> QED BY <1>1, <1>2, <2>1, <2>3, <2>4, <2>5 DEF SlotsIn
<1>13. ASSUME NEW c \in Classes, New(c) PROVE SlotsIn(R)'
  BY <1>2, <1>13 DEF New, heapVars
<1> QED BY <1>4, <1>5, <1>6, <1>7, <1>8, <1>9, <1>10, <1>11, <1>12, <1>13 DEF Bytecode

\* PUTFIELD writes the topmost operand to a field of the object below it, ...
Stores(obj, k, value) ==
    /\ Executing /\ Len(Stack) >= 2
    /\ value = Last(Stack) /\ obj = Stack[Len(Stack) - 1]
    /\ IsObject(obj) /\ k \in Pointers[mem[obj].cls]
    /\ mem' = [mem EXCEPT ![obj].fields[k] = value]
    /\ cards' = Dirtied(obj, value)
    /\ frames' = WithStack(Drop(2))
    /\ UNCHANGED <<top, free, statics, gcVars, mutVars>>

\* ... and no other bytecode writes to the heap.
LEMMA BytecodeQuiet ==
    ASSUME Bytecode
    PROVE  /\ pc = "run" /\ pc' \in {"run", "wild", "alloc"}
           /\ pc' = "alloc" => want' \in Classes /\ retries' = 0
           /\ pc' # "alloc" => UNCHANGED <<want, retries>>
           /\ pc' # "run" => frames # <<>> /\ frames' = frames
           /\ UNCHANGED <<top, free, work, cursor, fwd, walk, risk, next>>
           /\ \/ UNCHANGED <<mem, cards>>
              \/ \E obj, value : \E k \in FieldIds : Stores(obj, k, value)
<1>1. ASSUME UNCHANGED <<mem, top, free, cards, gcVars, mutVars>>, pc = "run"
      PROVE  /\ pc' = "run"
             /\ UNCHANGED <<want, retries>>
             /\ UNCHANGED <<mem, cards, top, free, work, cursor, fwd, walk, risk, next>>
  BY <1>1 DEF gcVars, mutVars
<1>2. ASSUME UNCHANGED <<mem, top, free, cards, frames, mutVars>>, Wild, Executing
      PROVE  /\ pc = "run" /\ pc' = "wild"
             /\ UNCHANGED <<want, retries>>
             /\ frames # <<>> /\ frames' = frames
             /\ UNCHANGED <<mem, cards, top, free, work, cursor, fwd, walk, risk, next>>
  BY <1>2 DEF Wild, mutVars, Executing
<1>3. ASSUME NEW v, Push(v), Executing
      PROVE  pc = "run" /\ UNCHANGED <<mem, top, free, cards, gcVars, mutVars>>
  BY <1>3 DEF Push, Executing
<1>4. CASE \/ Enter \/ AconstNull \/ Dup \/ Pop \/ Return \/ Areturn \/ Exception
  BY <1>1, <1>3, <1>4
  DEF Enter, AconstNull, Dup, Pop, Return, Areturn, Exception, Executing
<1>5. CASE Throw
  BY <1>1, <1>2, <1>5 DEF Throw, Executing
<1>6. CASE \E j \in 1..Locals : Aload(j) \/ Astore(j)
  BY <1>1, <1>3, <1>6 DEF Aload, Astore, Executing
<1>7. CASE \E s \in Statics : GetStatic(s) \/ PutStatic(s)
  BY <1>1, <1>3, <1>7 DEF GetStatic, PutStatic, Executing
<1>8. ASSUME NEW k \in FieldIds, GetField(k)
      PROVE  /\ Executing /\ UNCHANGED <<mem, top, free, cards, mutVars>>
             /\ UNCHANGED gcVars \/ (Wild /\ frames' = frames)
  BY <1>8 DEF GetField
<1>9. ASSUME NEW n \in 0..(Locals + 1), NEW r \in BOOLEAN, Invoke(n, r)
      PROVE  /\ Executing /\ UNCHANGED <<mem, top, free, cards, mutVars>>
             /\ UNCHANGED gcVars \/ (Wild /\ frames' = frames)
  BY <1>9 DEF Invoke
<1>10. ASSUME NEW k \in FieldIds, PutField(k)
       PROVE  \/ /\ Executing /\ UNCHANGED <<mem, top, free, cards, mutVars>>
                 /\ UNCHANGED gcVars \/ (Wild /\ frames' = frames)
              \/ \E obj, value : Stores(obj, k, value)
  <2>1. PICK value, obj : value = Last(Stack) /\ obj = Stack[Len(Stack) - 1]
    OBVIOUS
  <2> QED BY <1>10, <2>1 DEF PutField, Stores
<1>11. ASSUME NEW c \in Classes, New(c)
       PROVE  /\ Executing /\ pc' = "alloc" /\ want' = c /\ retries' = 0
              /\ UNCHANGED <<mem, cards, frames, top, free, work, cursor, fwd, walk, risk, next>>
  BY <1>11 DEF New, heapVars
<1>12. ASSUME NEW obj, NEW value, NEW k, Stores(obj, k, value)
       PROVE  /\ pc = "run" /\ pc' = "run"
              /\ UNCHANGED <<want, retries>>
              /\ UNCHANGED <<top, free, work, cursor, fwd, walk, risk, next>>
  BY <1>12 DEF Stores, Executing, gcVars, mutVars
<1> QED
  BY <1>1, <1>2, <1>4, <1>5, <1>6, <1>7, <1>8, <1>9, <1>10, <1>11, <1>12
  DEF Bytecode, Executing

LEMMA StoresFacts ==
    ASSUME TypeOK, NEW obj, NEW value, NEW k \in FieldIds, Stores(obj, k, value)
    PROVE  /\ IsObject(obj) /\ obj \in Addr /\ value \in Ref /\ obj \in Ref
           /\ mem'[obj] \in Object /\ mem'[obj] # NoObject
           /\ mem'[obj].cls = mem[obj].cls
           /\ mem'[obj].mark = mem[obj].mark
           /\ mem'[obj].id = mem[obj].id
           /\ mem'[obj].fields = [mem[obj].fields EXCEPT ![k] = value]
<1>1. frames # <<>> /\ Len(Stack) >= 2 /\ IsObject(obj)
  BY DEF Stores, Executing
<1>2. Stack \in Seq(Ref) /\ Len(Stack) \in Nat
  BY <1>1, TypeSlots, StackFacts
<1>3. value \in Ref /\ obj \in Ref
  BY <1>1, <1>2 DEF Last, Stores
<1>4. obj \in Addr /\ mem[obj] \in Object /\ mem[obj].fields \in [FieldIds -> Ref]
  BY <1>1, ObjectFacts
<1> DEFINE f == [mem[obj].fields EXCEPT ![k] = value]
           o == [mem[obj] EXCEPT !.fields = f]
<1>5. f \in [FieldIds -> Ref]
  BY <1>3, <1>4
<1>6. mem' = [mem EXCEPT ![obj] = o]
  BY DEF Stores
<1>7. o.fields = f /\ o.mark = mem[obj].mark /\ o.id = mem[obj].id
  BY <1>4 DEF Object
<1> HIDE DEF f
<1>8. o \in Object /\ o # NoObject /\ o.cls = mem[obj].cls
  BY <1>4, <1>5, Refield
<1> HIDE DEF o
<1>9. mem'[obj] = o
  BY <1>4, <1>6 DEF TypeOK, HeapTypeOK
<1> QED BY <1>1, <1>3, <1>4, <1>7, <1>8, <1>9 DEF f

LEMMA StoresElsewhere ==
    ASSUME TypeOK, NEW obj, NEW value, NEW k \in FieldIds, Stores(obj, k, value)
    PROVE  \A a \in Addr : a # obj => mem'[a] = mem[a]
BY DEF TypeOK, HeapTypeOK, Stores

LEMMA BytecodeIInv == ASSUME IInv, Bytecode PROVE IInv'
<1>1. TypeOK
  BY DEF IInv
<1>2. /\ frames' \in Seq(Frame) /\ statics' \in [Statics -> Ref]
  <2>1. SlotsIn(Ref) /\ FrameOf(Ref) = Frame
    BY <1>1, TypeSlots
  <2>2. \A a \in Ref : IsObject(a) => \A k \in Pointers[mem[a].cls] : mem[a].fields[k] \in Ref
    BY <1>1, ObjectFacts, HeapAssumption
  <2>3. SlotsIn(Ref)'
    BY <2>1, <2>2, RegionFacts, BytecodeSlots
  <2>4. frames' \in Seq(FrameOf(Ref)) /\ statics' \in [Statics -> Ref]
    BY <2>3 DEF SlotsIn, FrameOf, Ref, Addr, Young, Old
  <2> QED BY <2>1, <2>4
<1>3. /\ mem' \in Memory /\ cards' \subseteq Nat
      /\ \A c \in Old : mem'[c] # NoObject => IsObject(c) /\ mem'[c].cls = mem[c].cls
  <2>1. CASE UNCHANGED <<mem, cards>>
    BY <1>1, <2>1 DEF TypeOK, HeapTypeOK, Memory, IsObject, Addr
  <2>2. ASSUME NEW obj, NEW value, NEW k \in FieldIds, Stores(obj, k, value)
        PROVE  /\ mem' \in Memory /\ cards' \subseteq Nat
               /\ \A c \in Old : mem'[c] # NoObject => IsObject(c) /\ mem'[c].cls = mem[c].cls
    <3>7. /\ obj \in Addr /\ IsObject(obj) /\ mem'[obj] \in Object
          /\ mem'[obj].cls = mem[obj].cls
      BY <1>1, <2>2, StoresFacts
    <3>8. \A a \in Addr : a # obj => mem'[a] = mem[a]
      BY <1>1, <2>2, StoresElsewhere
    <3>1. mem' \in Memory
      <4>1. \A a \in Addr : mem'[a] \in Object \cup {NoObject}
        BY <1>1, <3>7, <3>8 DEF TypeOK, HeapTypeOK
      <4>2. mem' = [a \in Addr |-> mem'[a]]
        BY <1>1, <2>2 DEF Stores, TypeOK, HeapTypeOK
      <4> QED BY <4>1, <4>2 DEF Memory
    <3>2. \A c \in Old : mem'[c] # NoObject => IsObject(c) /\ mem'[c].cls = mem[c].cls
      BY <3>7, <3>8 DEF IsObject, Addr
    <3>3. cards \subseteq Nat /\ obj \in Nat
      BY <1>1, <2>2, ObjectFacts DEF TypeOK, HeapTypeOK, Stores
    <3>4. ASSUME InOld(obj) PROVE CardIndex(obj + HeaderWords) \in Nat
      BY <3>3, <3>4, RegionFacts, HeapAssumption DEF InOld, Old, CardIndex
    <3>5. cards' \subseteq Nat
      BY <2>2, <3>3, <3>4 DEF Stores, Dirtied
    <3> QED BY <3>1, <3>2, <3>5
  <2> QED BY <2>1, <2>2, BytecodeQuiet
<1>4. /\ pc = "run" /\ pc' \in {"run", "wild", "alloc"}
      /\ want' \in Classes /\ retries' \in 0..MaxRetries
      /\ pc' # "run" => frames' # <<>>
      /\ UNCHANGED <<top, free, work, cursor, fwd, walk, risk, next>>
  BY <1>1, BytecodeQuiet DEF TypeOK, MaxRetries
<1>5. TypeOK'
  BY <1>1, <1>2, <1>3, <1>4 DEF TypeOK, HeapTypeOK, GcTypeOK, Memory, Phases, Dead
<1>6. SameOld
  BY <1>3, <1>4 DEF SameOld
<1> QED BY <1>4, <1>5, <1>6, QuietStep DEF CursorAbove, HasFrame

-------------------------------------------------------------------------------
(* NEW *)

LEMMA AllocOkIInv == ASSUME IInv, AllocOk PROVE IInv'
<1>1. /\ TypeOK /\ frames # <<>> /\ pc = "alloc" /\ want \in Classes
      /\ top \in YoungBase .. YoungEnd
      /\ Size[want] \in Nat /\ Size[want] >= 3
  BY HeapAssumption DEF IInv, HasFrame, AllocOk, TypeOK, HeapTypeOK, HeaderWords
<1>2. top \in Young /\ top \notin Old /\ top' \in YoungBase .. YoungEnd
  <2>1. YoungBase \in Nat /\ YoungEnd \in Nat /\ Young \cap Old = {}
    BY RegionFacts
  <2>2. top' = top + Size[want] /\ top + Size[want] <= YoungEnd
    BY DEF AllocOk, FitsEden
  <2>3. top \in YoungBase .. (YoungEnd - 1) /\ top' \in YoungBase .. YoungEnd
    BY <1>1, <2>1, <2>2
  <2> QED BY <2>1, <2>3 DEF Young
<1>3. Fresh(want) \in Object
  BY <1>1, RegionFacts DEF Fresh, Object, Color, TypeOK
<1>4. mem' = [mem EXCEPT ![top] = Fresh(want)]
  BY DEF AllocOk
<1>5. mem' \in Memory
  BY <1>1, <1>3, <1>4 DEF TypeOK, HeapTypeOK, Memory
<1>6. SameOld
  BY <1>1, <1>2, <1>4 DEF AllocOk, SameOld, IsObject, Addr, TypeOK, HeapTypeOK
<1>7. Append(Stack, top) \in Seq(Ref)
  BY <1>1, <1>2, TypeSlots, StackFacts DEF Ref, Addr
<1>8. frames' \in Seq(Frame)
  BY <1>1, <1>7, TypeSlots, WithStackType DEF AllocOk
<1>9. TypeOK'
  BY <1>1, <1>2, <1>5, <1>8
  DEF AllocOk, TypeOK, HeapTypeOK, GcTypeOK, Memory, Phases, Risks
<1> QED BY <1>6, <1>9, QuietStep DEF AllocOk, CursorAbove, HasFrame

LEMMA AllocFullIInv == ASSUME IInv, AllocFull PROVE IInv'
<1>1. risk' \subseteq Risks
  BY UntracedTypes DEF AllocFull, IInv, TypeOK, GcTypeOK
<1> QED BY <1>1, CursorStep
        DEF AllocFull, IInv, TypeOK, GcTypeOK, Phases, MinorPhases, CursorAbove

LEMMA RetryIInv == ASSUME IInv, Retry PROVE IInv'
<1>1. SameOld
  BY SameMemory DEF IInv, Retry, heapVars
<1>2. TypeOK'
  BY DEF Retry, IInv, TypeOK, HeapTypeOK, GcTypeOK, Phases, heapVars, MaxRetries
<1> QED BY <1>1, <1>2, QuietStep DEF Retry, IInv, CursorAbove, HasFrame, heapVars

LEMMA GiveUpIInv == ASSUME IInv, GiveUp PROVE IInv'
<1>1. SameOld
  BY SameMemory DEF IInv, GiveUp
<1>2. TypeOK'
  BY DEF GiveUp, Unwind, IInv, TypeOK, HeapTypeOK, GcTypeOK, Phases, mutVars
<1> QED BY <1>1, <1>2, QuietStep DEF GiveUp, CursorAbove, HasFrame

LEMMA StepIInv == IInv /\ [Next]_vars => IInv'
<1> SUFFICES ASSUME IInv, [Next]_vars PROVE IInv'
  OBVIOUS
<1>1. CASE Bytecode
  BY <1>1, BytecodeIInv
<1>2. CASE Collect
  BY <1>2, MinorIInv, MajorIInv DEF Collect
<1>3. CASE AllocStep
  BY <1>3, AllocOkIInv, AllocFullIInv, RetryIInv, GiveUpIInv DEF AllocStep
<1>4. CASE UNCHANGED vars
  <2>1. SameOld
    BY <1>4, SameMemory DEF IInv, vars, heapVars
  <2>2. TypeOK'
    BY <1>4 DEF vars, heapVars, gcVars, mutVars, IInv, TypeOK, HeapTypeOK, GcTypeOK
  <2> QED BY <1>4, <2>1, <2>2, QuietStep
          DEF vars, heapVars, gcVars, IInv, CursorAbove, HasFrame
<1> QED BY <1>1, <1>2, <1>3, <1>4 DEF Next

-------------------------------------------------------------------------------
(* The theorems *)

\* Every slot holds null or an address of the heap, the bump cursor stays in
\* eden, and every listed block lies in the old generation and can hold a
\* FreeBlock, through every bytecode and every step of a collection
\* (interpreter/mod.rs, collector.rs, freelist.rs).
THEOREM RuntimeType == Spec => []TypeOK
<1>1. IInv => TypeOK
  BY DEF IInv
<1> QED BY <1>1, InitIInv, StepIInv, PTL DEF Spec

\* promote never copies an object over another one or over a free block, and
\* sweep_old never lists a word of a live object, however the free list is
\* ordered (promoter.rs:34-53, freelist.rs:48-156, sweeper.rs:119-166), in any
\* execution up to the free of a listed block that makes the list cyclic.
THEOREM OldGenerationExclusive == Spec => []OldExclusive
<1>1. IInv => OldExclusive
  BY OldExclusiveMeans DEF IInv
<1> QED BY <1>1, InitIInv, StepIInv, PTL DEF Spec
================================================================================
