------------------------------ MODULE GraphProofs ------------------------------
(***************************************************************************)
(* The object graph the program sees, for regions of any size, any classes *)
(* and any program: as long as none of the named risks has occurred, no    *)
(* step reads through a stale reference, a collection moves the survivors  *)
(* of eden and frees what is dead without changing what any slot denotes,  *)
(* and the card table covers the references from old to young.             *)
(***************************************************************************)
EXTENDS EdenProofs, RuntimeRefinement

\* The objects the program can reach.
Graph == ReachFrom(Slots, Addr)

\* Every reference the program can reach refers to an object.
Closed == Slots \subseteq Graph /\ \A a \in Graph : Children(a) \subseteq Graph

Sound == Kept /\ pc \notin Dead => Closed

\* Only the reference fields of a class are ever written.
PlainNull ==
    \A a \in Addr : IsObject(a) =>
      \A k \in FieldIds \ Pointers[mem[a].cls] : mem[a].fields[k] = Null

Evacuating == {"sweep", "fixobjs", "fixroots", "reset"}

\* The forwarding table is empty but while eden is evacuated.
FwdEmpty == pc \notin Evacuating \cup Dead => \A a \in Addr : fwd[a] = Null

\* Only locals, and promoted copies until they are fixed, refer to an eden that
\* is collected.
EdenFromLocals ==
    Kept /\ pc \in MinorPhases =>
      OperandRefs \cap Young = {} /\ StaticRefs \cap Young = {}

OldClosed ==
    Kept /\ pc \in MinorPhases \cup MajorPhases \cup {"retry"} =>
      \A a \in Old : (IsObject(a) /\ (pc \in {"sweep", "fixobjs"} => a \notin Copies))
                       => Children(a) \cap Young = {}

\* The marker works on what the program can reach.
WorkInGraph == Kept /\ pc \in {"drain", "drainmajor"} => work \subseteq Graph

\* The sweep of eden finds black what the program can reach.
BlackIsGraph ==
    Kept /\ pc = "sweep" =>
      \A a \in Young : (IsObject(a) /\ mem[a].mark = "Black") <=> a \in Graph

\* A forwarded object has one copy outside the graph, equal to it until the
\* fields of the copies are forwarded.
Forwarding ==
    Kept /\ pc \in {"sweep", "fixobjs", "fixroots"} =>
      \A a \in Addr : fwd[a] # Null =>
        /\ a \in Young /\ a \in Graph /\ (pc = "sweep" => a < cursor)
        /\ fwd[a] \notin Graph
        /\ mem[fwd[a]].cls = mem[a].cls /\ mem[fwd[a]].id = mem[a].id
        /\ pc # "fixroots" => mem[fwd[a]].fields = mem[a].fields
        /\ pc = "fixroots" => mem[fwd[a]].fields = Forwarded(a)

CopiesOld ==
    pc \in Evacuating => \A c \in Copies : c \in Old /\ IsObject(c)

\* Every survivor behind the cursor of the sweep is forwarded.
AllForwarded ==
    Kept /\ pc \in {"sweep", "fixobjs", "fixroots"} =>
      \A a \in Graph \cap Young : (pc = "sweep" => a < cursor) => fwd[a] # Null

\* Nothing in eden is reachable when it is reset.
Evacuated == Kept /\ pc = "reset" => Graph \subseteq Old

\* No mark is left half way in the old generation.
NoOldGrey ==
    Kept /\ pc \notin {"drainmajor"} \cup Dead =>
      \A a \in Old : IsObject(a) => mem[a].mark # "Grey"

\* The tri-colour invariant of mark_major.
OldMarked ==
    Kept /\ pc = "drainmajor" =>
      /\ Slots = Roots
      /\ \A r \in Roots : Marked(r)
      /\ \A a \in Old : IsObject(a) =>
           /\ mem[a].mark = "Grey" => a \in work
           /\ mem[a].mark = "Black" => \A c \in Children(a) : Marked(c)

\* The sweep of the old generation has what the program can reach black ahead.
LiveBlack ==
    Kept /\ pc = "sweepold" => \A a \in Graph : a >= cursor => mem[a].mark = "Black"

\* Every word of the old generation is an object's or listed, unless a remainder
\* too short for a FreeBlock has been dropped.
OldCovered ==
    ("sliver" \notin risk /\ pc \notin Dead) =>
      \A w \in Old : Listed(free, w) \/ \E a \in Old : IsObject(a) /\ w \in WordsOf(Live(a))

\* The sweep of the old generation stands on the start of an owner's words.
OnTile ==
    pc = "sweepold" =>
      /\ \A a \in Old : IsObject(a) /\ cursor \in WordsOf(Live(a)) => cursor = a
      /\ \A i \in DOMAIN free : cursor \in WordsOf(free[i]) => cursor = free[i].addr

GraphInv ==
    /\ EdenInv
    /\ Sound /\ PlainNull /\ FwdEmpty /\ EdenFromLocals /\ OldClosed /\ WorkInGraph
    /\ BlackIsGraph /\ Forwarding /\ CopiesOld /\ AllForwarded /\ Evacuated
    /\ NoOldGrey /\ OldMarked /\ LiveBlack /\ OldCovered /\ OnTile
    /\ CardsCover /\ NoWildRead

-------------------------------------------------------------------------------
(* The graph *)

\* The graph holds the objects the slots refer to and the children of its
\* members that are objects, and is the least such set.
GraphLaw ==
    /\ \A a \in Graph : a \in Addr /\ IsObject(a)
    /\ \A a \in Slots : IsObject(a) => a \in Graph
    /\ \A a \in Graph : \A c \in Children(a) : IsObject(c) => c \in Graph
    /\ \A C : (/\ \A a \in Slots : IsObject(a) => a \in C
               /\ \A a \in C : IsObject(a) =>
                    \A c \in Children(a) : IsObject(c) => c \in C)
                => Graph \subseteq C

LEMMA GraphLaws == GraphLaw
<1>1. \A a : IsObject(a) => a \in Addr
  BY DEF IsObject
<1>2. /\ \A a \in Graph : a \in Addr /\ IsObject(a)
      /\ \A a \in Slots : IsObject(a) => a \in Graph
      /\ \A a \in Graph : \A c \in Children(a) : IsObject(c) => c \in Graph
  BY <1>1, ReachClosed DEF Graph
<1>3. ASSUME NEW C,
             \A a \in Slots : IsObject(a) => a \in C,
             \A a \in C : IsObject(a) => \A c \in Children(a) : IsObject(c) => c \in C
      PROVE  Graph \subseteq C
  <2>1. \A a \in Slots \cap Addr : IsObject(a) => a \in C
    BY <1>3
  <2>2. \A a \in C \cap Addr : IsObject(a) =>
          \A c \in Children(a) \cap Addr : IsObject(c) => c \in C
    BY <1>3
  <2> QED BY <2>1, <2>2, ReachLeast DEF Graph
<1> QED BY <1>2, <1>3 DEF GraphLaw

LEMMA GraphLawsPrime == GraphLaw'
BY GraphLaws, PTL

\* A set of objects that holds the new slots and their children bounds the new
\* graph.
LEMMA GraphWithin ==
    ASSUME NEW C, Slots' \subseteq C,
           \A a \in C : IsObject(a)' /\ Children(a)' \subseteq C
    PROVE  Graph' \subseteq C /\ Closed'
<1>1. Graph' \subseteq C
  BY GraphLawsPrime DEF GraphLaw
<1> QED BY <1>1, GraphLawsPrime DEF GraphLaw, Closed

\* The graph is the same if its objects and the slots are.
LEMMA GraphSame ==
    ASSUME Closed, Slots' = Slots,
           \A a \in Graph : IsObject(a)' /\ Children(a)' = Children(a)
    PROVE  Graph' = Graph /\ Closed'
<1>1. Graph' \subseteq Graph /\ Closed'
  <2>1. PICK C : C = Graph
    OBVIOUS
  <2>2. Slots' \subseteq C /\ \A a \in C : IsObject(a)' /\ Children(a)' \subseteq C
    BY <2>1 DEF Closed
  <2>3. Graph' \subseteq C /\ Closed'
    BY <2>2, GraphWithin
  <2> QED BY <2>1, <2>3
<1>2. Graph \subseteq Graph'
  <2> DEFINE C == Graph \cap Graph'
  <2>1. \A a \in Slots : a \in C
    BY <1>1 DEF Closed
  <2>2. \A a \in C : \A c \in Children(a) : c \in C
    BY <1>1 DEF Closed
  <2>3. Graph \subseteq C
    BY <2>1, <2>2, GraphLaws DEF GraphLaw
  <2> QED BY <2>3
<1> QED BY <1>1, <1>2

\* Slots as values of the call stack and the statics.
LEMMA SlotsMeans ==
    ASSUME TypeOK, NEW C
    PROVE  Slots \subseteq C => SlotsIn(C \cup {Null})
<1> SUFFICES ASSUME Slots \subseteq C PROVE SlotsIn(C \cup {Null})
  OBVIOUS
<1> DEFINE R == C \cup {Null}
<1>1. frames \in Seq(Frame) /\ statics \in [Statics -> Ref]
  BY DEF TypeOK, HeapTypeOK
<1>2. ASSUME NEW i \in DOMAIN frames PROVE frames[i] \in FrameOf(R)
  <2>1. frames[i] \in Frame
    BY <1>1
  <2>2. \A j \in 1..Locals : frames[i].loc[j] \in R
    BY DEF Slots, Roots
  <2>3. \A j \in 1..Len(frames[i].stk) : frames[i].stk[j] \in R
    <3>1. \A j \in 1..Len(frames[i].stk) : frames[i].stk[j] \in ToSet(frames[i].stk)
      BY <2>1 DEF ToSet, Frame
    <3> QED BY <3>1 DEF Slots, OperandRefs
  <2>4. frames[i].stk \in Seq(Ref)
    BY <2>1 DEF Frame
  <2>5. frames[i].stk \in Seq(R)
    BY <2>3, <2>4
  <2>6. frames[i].loc \in [1..Locals -> R]
    BY <2>1, <2>2 DEF Frame
  <2> QED BY <2>1, <2>5, <2>6 DEF Frame, FrameOf
<1>3. statics \in [Statics -> R]
  BY <1>1 DEF Slots, StaticRefs
<1> HIDE DEF R
<1>4. frames \in Seq(FrameOf(R))
  BY <1>1, <1>2
<1> QED BY <1>3, <1>4 DEF SlotsIn, R

SlotsWithin(C) == SlotsIn(C \cup {Null}) => Slots \subseteq C

LEMMA SlotsBack == \A C : SlotsWithin(C)
<1> SUFFICES ASSUME NEW C, SlotsIn(C \cup {Null}) PROVE Slots \subseteq C
  BY DEF SlotsWithin
<1> DEFINE R == C \cup {Null}
<1>1. frames \in Seq(FrameOf(R)) /\ statics \in [Statics -> R]
  BY DEF SlotsIn
<1>2. \A i \in DOMAIN frames : frames[i] \in FrameOf(R)
  BY <1>1
<1>3. Roots \subseteq C
  <2>1. \A i \in DOMAIN frames : frames[i].loc \in [1..Locals -> R]
    BY <1>2 DEF FrameOf
  <2>2. \A i \in DOMAIN frames : \A j \in 1..Locals : frames[i].loc[j] \in R
    BY <2>1
  <2> HIDE DEF R
  <2>3. \A r \in Roots : r \in R /\ r # Null
    BY <2>2 DEF Roots
  <2> QED BY <2>3 DEF R
<1>4. OperandRefs \subseteq C
  <2>1. \A i \in DOMAIN frames : ToSet(frames[i].stk) \subseteq R
    BY <1>2 DEF ToSet, FrameOf
  <2> QED BY <2>1 DEF OperandRefs
<1>5. StaticRefs \subseteq C
  BY <1>1 DEF StaticRefs
<1> QED BY <1>3, <1>4, <1>5 DEF Slots

LEMMA SlotsBackPrime == \A C : SlotsWithin(C)'
<1>1. (\A C : SlotsWithin(C))'
  BY SlotsBack, PTL
<1> QED BY <1>1

-------------------------------------------------------------------------------
(* The program *)

\* The operands of a bytecode.
LEMMA OperandFacts ==
    ASSUME TypeOK, Closed, frames # <<>>
    PROVE  /\ Stack # <<>> => Last(Stack) \in Graph \cup {Null}
           /\ \A i \in 1..Len(Stack) : Stack[i] \in Graph \cup {Null}
<1>1. SlotsIn(Graph \cup {Null})
  BY SlotsMeans DEF Closed
<1>2. Stack \in Seq(Graph \cup {Null})
  BY <1>1, StackFacts
<1> QED BY <1>2 DEF Last

\* No bytecode finds a reference to no object.
LEMMA BytecodeTame ==
    ASSUME TypeOK, Closed, Bytecode
    PROVE  pc' # "wild"
<1>1. \A a \in Graph \cup {Null} : a = Null \/ IsObject(a)
  BY GraphLaws DEF GraphLaw
<1>2. ASSUME UNCHANGED gcVars, pc = "run" PROVE pc' # "wild"
  BY <1>2 DEF gcVars
<1>3. ASSUME NEW k \in FieldIds, GetField(k) PROVE pc' # "wild"
  <2>1. Last(Stack) = Null \/ IsObject(Last(Stack))
    BY <1>1, <1>3, OperandFacts DEF GetField, Executing
  <2> QED BY <1>2, <1>3, <2>1 DEF GetField, Executing
<1>4. ASSUME NEW k \in FieldIds, PutField(k) PROVE pc' # "wild"
  <2>1. frames # <<>> /\ Len(Stack) >= 2 /\ Len(Stack) \in Nat
    <3>1. SlotsIn(Ref)
      BY TypeSlots
    <3> QED BY <1>4, <3>1, StackFacts DEF PutField, Executing
  <2>2. PICK value, obj : value = Last(Stack) /\ obj = Stack[Len(Stack) - 1]
    OBVIOUS
  <2>3. obj = Null \/ IsObject(obj)
    BY <1>1, <2>1, <2>2, OperandFacts
  <2> QED BY <1>2, <1>4, <2>2, <2>3 DEF PutField, Executing
<1>5. ASSUME NEW n \in 0..(Locals + 1), NEW r \in BOOLEAN, Invoke(n, r) PROVE pc' # "wild"
  <2> DEFINE args == SubSeq(Stack, Len(Stack) - n + 1, Len(Stack))
  <2>1. frames # <<>> /\ n \in Nat /\ n <= Len(Stack)
    <3>1. frames # <<>> /\ Len(Stack) >= n /\ n \in Nat
      BY <1>5, HeapAssumption DEF Executing, Invoke
    <3>2. Len(Stack) \in Nat
      <4>1. SlotsIn(Ref)
        BY TypeSlots
      <4> QED BY <3>1, <4>1, StackFacts
    <3> QED BY <3>1, <3>2
  <2>2. args \in Seq(Graph \cup {Null})
    <3>1. SlotsIn(Graph \cup {Null})
      BY SlotsMeans DEF Closed
    <3> QED BY <2>1, <3>1, PopFacts
  <2>3. \A i \in DOMAIN args : args[i] = Null \/ IsObject(args[i])
    BY <1>1, <2>2
  <2> HIDE DEF args
  <2> QED BY <1>2, <1>5, <2>3 DEF Invoke, Executing, args
<1>6. CASE Throw
  <2>1. Last(Stack) = Null \/ IsObject(Last(Stack))
    BY <1>1, <1>6, OperandFacts DEF Throw, Executing
  <2> QED BY <1>2, <1>6, <2>1 DEF Throw, Executing
<1>7. ASSUME NEW v, Push(v), Executing PROVE pc' # "wild"
  BY <1>2, <1>7 DEF Push, Executing
<1>8. CASE \/ Enter \/ AconstNull \/ Dup \/ Pop \/ Return \/ Areturn \/ Exception
           \/ \E j \in 1..Locals : Aload(j) \/ Astore(j)
           \/ \E s \in Statics : GetStatic(s) \/ PutStatic(s)
           \/ \E c \in Classes : New(c)
  BY <1>2, <1>7, <1>8
  DEF Enter, AconstNull, Dup, Pop, Return, Areturn, Exception, Aload, Astore, GetStatic,
      PutStatic, New, Executing
<1> QED BY <1>3, <1>4, <1>5, <1>6, <1>8 DEF Bytecode

\* What a bytecode stores, the program could reach.
LEMMA StoredFacts ==
    ASSUME TypeOK, Closed, NEW obj, NEW value, NEW k \in FieldIds, Stores(obj, k, value)
    PROVE  /\ obj \in Graph /\ value \in Graph \cup {Null}
           /\ Children(obj)' \subseteq Children(obj) \cup ({value} \ {Null})
<1>1. obj \in Graph /\ value \in Graph \cup {Null}
  <2>1. frames # <<>> /\ Len(Stack) >= 2 /\ Len(Stack) \in Nat
    <3>1. SlotsIn(Ref)
      BY TypeSlots
    <3> QED BY <3>1, StackFacts DEF Stores, Executing
  <2>2. Stack[Len(Stack) - 1] \in Graph \cup {Null} /\ Last(Stack) \in Graph \cup {Null}
    BY <2>1, OperandFacts
  <2> QED BY <2>2, RegionFacts DEF Stores, IsObject, Null
<1>2. /\ mem'[obj].cls = mem[obj].cls
      /\ mem'[obj].fields = [mem[obj].fields EXCEPT ![k] = value]
      /\ IsObject(obj)
  BY StoresFacts
<1>3. mem[obj].fields \in [FieldIds -> Ref] /\ Pointers[mem[obj].cls] \subseteq FieldIds
  BY <1>2, ObjectFacts, HeapAssumption
<1>4. \A i \in Pointers[mem[obj].cls] :
        mem'[obj].fields[i] = value \/ mem'[obj].fields[i] = mem[obj].fields[i]
  BY <1>2, <1>3
<1> QED BY <1>1, <1>2, <1>4 DEF Children

LEMMA BytecodeGraph ==
    ASSUME IInv, Closed, Bytecode
    PROVE  Graph' \subseteq Graph /\ Closed'
<1>0. TypeOK
  BY DEF IInv
<1>1. PICK C : C = Graph
  OBVIOUS
<1>2. Slots' \subseteq C
  <2>1. SlotsIn(C \cup {Null})
    BY <1>0, <1>1, SlotsMeans DEF Closed
  <2>2. \A a \in C : IsObject(a) =>
          \A k \in Pointers[mem[a].cls] : mem[a].fields[k] \in C \cup {Null}
    BY <1>1 DEF Closed, Children
  <2>3. ~IsObject(Null)
    BY RegionFacts DEF IsObject, Null
  <2>4. SlotsIn(C \cup {Null})'
    BY <2>1, <2>2, <2>3, BytecodeSlots
  <2> QED BY <2>4, SlotsBackPrime DEF SlotsWithin
<1>3. ASSUME NEW a \in C PROVE IsObject(a)' /\ Children(a)' \subseteq C
  <2>1. a \in Addr /\ IsObject(a) /\ Children(a) \subseteq C
    BY <1>1, GraphLaws DEF GraphLaw, Closed
  <2>2. CASE UNCHANGED mem
    BY <2>1, <2>2 DEF IsObject, Children
  <2>3. ASSUME NEW obj, NEW value, NEW k \in FieldIds, Stores(obj, k, value)
        PROVE  IsObject(a)' /\ Children(a)' \subseteq C
    <3>1. CASE a = obj
      <4>1. IsObject(a)'
        BY <2>1, <2>3, <3>1, <1>0, StoresFacts DEF IsObject
      <4>2. Children(a)' \subseteq Children(a) \cup ({value} \ {Null})
        BY <2>3, <3>1, <1>0, StoredFacts
      <4> QED BY <1>1, <2>1, <2>3, <4>1, <4>2, <1>0, StoredFacts
    <3>2. CASE a # obj
      <4>1. \A c \in Addr : c # obj => mem'[c] = mem[c]
        BY <2>3, <1>0, StoresElsewhere
      <4>2. mem'[a] = mem[a]
        BY <2>1, <3>2, <4>1
      <4> QED BY <2>1, <4>2 DEF IsObject, Children
    <3> QED BY <3>1, <3>2
  <2> QED BY <2>2, <2>3, BytecodeQuiet
<1> QED BY <1>1, <1>2, <1>3, GraphWithin

\* NEW adds the new object.
LEMMA AllocGraph ==
    ASSUME IInv, Closed, AllocOk
    PROVE  Graph' \subseteq Graph \cup {top} /\ Closed'
<1> USE DEF IInv
<1>1. PICK old : old = top
  OBVIOUS
<1>2. /\ old \in Young /\ old \in Addr /\ mem'[old] = Fresh(want) /\ mem'[old] # NoObject
      /\ \A a \in Addr : a # old => mem'[a] = mem[a]
  BY <1>1, AllocMem DEF Addr
<1>3. PICK C : C = Graph \cup {old}
  OBVIOUS
<1>4. Slots' \subseteq C
  <2>1. SlotsIn(C \cup {Null}) /\ frames # <<>> /\ statics' = statics
    BY <1>3, SlotsMeans DEF Closed, HasFrame, AllocOk
  <2>2. Append(Stack, old) \in Seq(C \cup {Null})
    BY <1>3, <2>1, StackFacts
  <2>3. frames' = WithStack(Append(Stack, old))
    BY <1>1 DEF AllocOk
  <2>4. frames' \in Seq(FrameOf(C \cup {Null}))
    BY <2>1, <2>2, <2>3, WithStackType
  <2>5. SlotsIn(C \cup {Null})'
    BY <2>1, <2>4 DEF SlotsIn
  <2> QED BY <2>5, SlotsBackPrime DEF SlotsWithin
<1>5. ASSUME NEW a \in C PROVE IsObject(a)' /\ Children(a)' \subseteq C
  <2>1. CASE a = old
    <3>1. mem'[old].cls = want /\ \A k \in FieldIds : mem'[old].fields[k] = Null
      BY <1>2 DEF Fresh
    <3>2. want \in Classes /\ Pointers[want] \subseteq FieldIds
      BY HeapAssumption DEF TypeOK
    <3>3. Children(old)' = {}
      BY <3>1, <3>2 DEF Children
    <3> QED BY <1>2, <2>1, <3>3 DEF IsObject
  <2>2. CASE a # old
    <3>1. a \in Addr /\ IsObject(a) /\ Children(a) \subseteq C
      BY <1>3, <2>2, GraphLaws DEF GraphLaw, Closed
    <3> QED BY <1>2, <2>2, <3>1 DEF IsObject, Children
  <2> QED BY <2>1, <2>2
<1> QED BY <1>1, <1>3, <1>4, <1>5, GraphWithin

\* Nothing is stored, and the call stack stays or goes.
LEMMA RestGraph ==
    ASSUME Closed, UNCHANGED <<mem, statics>>, UNCHANGED frames \/ frames' = <<>>
    PROVE  Graph' \subseteq Graph /\ Closed'
<1>1. Slots' \subseteq Slots
  <2>1. CASE UNCHANGED frames
    BY <2>1 DEF Slots, Roots, OperandRefs, StaticRefs
  <2>2. CASE frames' = <<>>
    <3>1. Roots' = {} /\ OperandRefs' = {} /\ StaticRefs' = StaticRefs
      BY <2>2 DEF Roots, OperandRefs, StaticRefs
    <3> QED BY <3>1 DEF Slots
  <2> QED BY <2>1, <2>2
<1>2. PICK C : C = Graph
  OBVIOUS
<1>3. Slots' \subseteq C
  BY <1>1, <1>2 DEF Closed
<1>4. \A a \in C : IsObject(a)' /\ Children(a)' \subseteq C
  BY <1>2, GraphLaws DEF GraphLaw, Closed, IsObject, Children
<1> QED BY <1>2, <1>3, <1>4, GraphWithin

-------------------------------------------------------------------------------
(* The collector keeps the graph *)

\* A risk that has occurred has occurred for ever.
LEMMA RisksStay == ASSUME IInv, [Next]_vars PROVE risk \subseteq risk' /\ (Kept' => Kept)
<1>1. CASE Bytecode
  BY <1>1, BytecodeMem DEF Kept
<1>2. CASE AllocStep
  BY <1>2 DEF AllocStep, AllocOk, AllocFull, Retry, GiveUp, Kept
<1>3. CASE Collect
  <2>1. CASE SweepPromote
    BY <2>1, PromoteMem DEF Kept
  <2>2. CASE ~SweepPromote
    BY <1>3, <2>2, CollectObjects DEF Collect, Kept
  <2> QED BY <2>1, <2>2
<1>4. CASE UNCHANGED vars
  BY <1>4 DEF vars, gcVars, Kept
<1> QED BY <1>1, <1>2, <1>3, <1>4 DEF Next

\* The objects of the graph keep their place, class, fields and identity.
GraphKept ==
    /\ Slots' = Slots
    /\ \A a \in Graph : IsObject(a)' /\ mem'[a].cls = mem[a].cls
                        /\ mem'[a].fields = mem[a].fields /\ mem'[a].id = mem[a].id

LEMMA SlotsSame == ASSUME UNCHANGED <<frames, statics>> PROVE Slots' = Slots
BY DEF Slots, Roots, OperandRefs, StaticRefs

LEMMA RemarkedKeeps ==
    ASSUME Remarked, UNCHANGED <<frames, statics>>
    PROVE  GraphKept
BY GraphLaws, SlotsSame DEF GraphKept, GraphLaw, Remarked

LEMMA SweepOldBlackMem ==
    ASSUME IInv, SweepOldBlack
    PROVE  /\ Remarked /\ cursor \in Old /\ IsObject(cursor) /\ mem'[cursor].mark = "White"
           /\ \A a \in Addr : a # cursor => mem'[a] = mem[a]
<1>1. PICK at : at = cursor
  OBVIOUS
<1>2. /\ at \in Nat /\ at >= OldBase /\ at < OldEnd /\ IsObject(at)
      /\ mem' = [mem EXCEPT ![at].mark = "White"]
  BY <1>1, ObjectFacts DEF SweepOldBlack, CursorAbove, IInv
<1>3. at \in Old /\ at \in Addr /\ mem[at] \in Object
  BY <1>2, RegionFacts, ObjectFacts DEF Old, IInv, IsObject
<1>4. PICK o : o = [mem[at] EXCEPT !.mark = "White"]
  OBVIOUS
<1>5. o.mark = "White" /\ o.cls = mem[at].cls /\ o.fields = mem[at].fields /\ o.id = mem[at].id
      /\ o # NoObject
  <2>1. "White" \in Color
    BY DEF Color
  <2> QED BY <1>3, <1>4, <2>1, Recoloured, Recolour
<1>6. mem'[at] = o /\ \A a \in Addr : a # at => mem'[a] = mem[a]
  BY <1>2, <1>3, <1>4, OtherMem DEF IInv
<1>7. Remarked
  <2>1. ASSUME NEW a \in Addr
        PROVE  /\ IsObject(a)' <=> IsObject(a)
               /\ IsObject(a) => /\ mem'[a].cls = mem[a].cls
                                 /\ mem'[a].fields = mem[a].fields
                                 /\ mem'[a].id = mem[a].id
    <3>1. CASE a = at
      BY <1>2, <1>3, <1>5, <1>6, <3>1 DEF IsObject
    <3>2. CASE a # at
      BY <1>6, <3>2 DEF IsObject
    <3> QED BY <3>1, <3>2
  <2> QED BY <2>1 DEF Remarked
<1> QED BY <1>1, <1>2, <1>3, <1>5, <1>6, <1>7

LEMMA MarkMem ==
    ASSUME TypeOK, MarkMinor \/ DrainMinor \/ MarkMajor \/ DrainMajor
    PROVE  Remarked /\ UNCHANGED <<frames, statics>>
<1>1. UNCHANGED <<frames, statics>>
  BY DEF MarkMinor, DrainMinor, MarkMajor, DrainMajor
<1>2. CASE MarkMinor \/ MarkMajor
  <2>1. PICK hit : (\A r \in hit : IsObject(r)) /\ mem' = Paint(hit, "Grey")
    BY <1>2 DEF MarkMinor, MarkMajor
  <2> QED BY <1>1, <2>1, RootsMem
<1>3. ASSUME NEW a, NEW F, Blacken(a, F) PROVE Remarked
  <2>1. PICK hit : /\ IsObject(a) /\ \A c \in hit : IsObject(c)
                   /\ mem' = [Paint(hit, "Grey") EXCEPT ![a].mark = "Black"]
    BY <1>3 DEF Blacken
  <2> QED BY <2>1, BlackenMem
<1>4. CASE DrainMinor \/ DrainMajor
  <2>1. \/ \E a, F : Blacken(a, F)
        \/ \E a, F : DrainWild(a, F)
    BY <1>4 DEF DrainMinor, DrainMajor
  <2> QED BY <1>1, <1>3, <2>1, SameMem DEF DrainWild
<1> QED BY <1>1, <1>2, <1>4

LEMMA CollectKeeps ==
    ASSUME GraphInv, Minor \/ Major, ~FixRoots, Kept'
    PROVE  GraphKept
<1>0. IInv /\ TypeOK /\ Kept
  <2>1. IInv /\ TypeOK
    BY DEF GraphInv, EdenInv, IInv
  <2>2. CASE SweepPromote
    BY <2>1, <2>2, PromoteMem DEF Kept
  <2>3. CASE ~SweepPromote
    BY <2>1, <2>3, CollectObjects DEF Kept
  <2> QED BY <2>1, <2>2, <2>3
<1>1. UNCHANGED <<frames, statics>>
  BY DEF Minor, Major, MarkMinor, DrainMinor, MarkMinorEnd, SweepWhite, SweepPromote, SweepFull,
         SweepEnd, FixObjects, Reset, MarkMajor, DrainMajor, MarkMajorEnd, SweepOldWhite,
         SweepOldBlack, SweepOldLastBlock, SweepOldListedBlock, SweepOldWild, SweepOldEnd,
         CoalesceMerge, CoalesceSkip, CoalesceEnd, MarkMinorWild, MarkMajorWild, heapVars
<1>2. Slots' = Slots
  BY <1>1, SlotsSame
<1>3. \A a \in Graph : a \in Addr /\ IsObject(a)
  BY GraphLaws DEF GraphLaw
<1>4. CASE MarkMinor \/ DrainMinor \/ MarkMajor \/ DrainMajor
  BY <1>0, <1>4, MarkMem, RemarkedKeeps
<1>5. CASE SweepOldBlack
  BY <1>0, <1>1, <1>5, SweepOldBlackMem, RemarkedKeeps
<1>6. CASE SweepPromote
  <2>1. PICK to \in Old : ~IsObject(to) /\ mem' = [mem EXCEPT ![to] = mem[cursor]]
    BY <1>0, <1>6, PromoteMem
  <2>2. PICK o : o = mem[cursor]
    OBVIOUS
  <2>3. to \in Addr /\ mem' = [mem EXCEPT ![to] = o]
    BY <2>1, <2>2 DEF Addr
  <2>4. \A a \in Addr : a # to => mem'[a] = mem[a]
    BY <1>0, <2>3, OtherMem
  <2> QED BY <1>2, <1>3, <2>1, <2>4 DEF GraphKept, IsObject
<1>7. CASE FixObjects
  <2>1. Graph \cap Copies = {}
    BY <1>0, <1>7 DEF FixObjects, GraphInv, Forwarding, Copies
  <2> QED BY <1>0, <1>2, <1>3, <1>7, <2>1, FixObjectsMem DEF GraphKept, Refielded
<1>8. CASE Reset
  <2>1. Graph \subseteq Old
    BY <1>0, <1>8 DEF Reset, GraphInv, Evacuated
  <2>2. \A a \in Graph : mem'[a] = mem[a]
    BY <1>3, <1>8, <2>1, RegionFacts DEF Reset
  <2> QED BY <1>2, <1>3, <2>2 DEF GraphKept, IsObject
<1>9. CASE SweepOldWhite
  <2>1. PICK at : at = cursor
    OBVIOUS
  <2>2. at \notin Graph
    <3>1. IsObject(cursor) /\ mem[cursor].mark = "White" /\ pc = "sweepold"
      BY <1>9 DEF SweepOldWhite
    <3>2. cursor \in Nat
      BY <1>0, <3>1, ObjectFacts
    <3> QED BY <1>0, <2>1, <3>1, <3>2 DEF GraphInv, LiveBlack
  <2>3. at \in Addr /\ mem' = [mem EXCEPT ![at] = NoObject]
    BY <1>9, <2>1 DEF SweepOldWhite, IsObject
  <2>4. \A a \in Addr : a # at => mem'[a] = mem[a]
    BY <1>0, <2>3, OtherMem
  <2> QED BY <1>2, <1>3, <2>2, <2>4 DEF GraphKept, IsObject
<1>10. CASE UNCHANGED mem
  BY <1>2, <1>3, <1>10 DEF GraphKept, IsObject
<1>11. \/ UNCHANGED mem \/ MarkMinor \/ DrainMinor \/ MarkMajor \/ DrainMajor \/ SweepOldBlack
       \/ SweepPromote \/ FixObjects \/ Reset \/ SweepOldWhite
  BY DEF Minor, Major, MarkMinorEnd, SweepWhite, SweepFull, SweepEnd, MarkMajorEnd,
         SweepOldLastBlock, SweepOldListedBlock, SweepOldWild, SweepOldEnd, CoalesceMerge,
         CoalesceSkip, CoalesceEnd, MarkMinorWild, MarkMajorWild, heapVars
<1> QED BY <1>4, <1>5, <1>6, <1>7, <1>8, <1>9, <1>10, <1>11

LEMMA KeptGraph ==
    ASSUME Closed, GraphKept
    PROVE  Graph' = Graph /\ Closed' /\ \A a \in Graph : Children(a)' = Children(a)
<1>1. \A a \in Graph : Children(a)' = Children(a)
  BY DEF GraphKept, Children
<1> QED BY <1>1, GraphSame DEF GraphKept

\* fixup_roots: what the slots hold is forwarded, ...
LEMMA FixRootsSlots ==
    ASSUME TypeOK, FixRoots,
           \A a \in OperandRefs \cup StaticRefs : Forward(a) = a,
           \A a \in Slots : Forward(a) # Null
    PROVE  /\ Slots' = {Forward(a) : a \in Slots}
           /\ DOMAIN frames' = DOMAIN frames
           /\ \A i \in DOMAIN frames :
                /\ frames'[i].stk = frames[i].stk
                /\ \A j \in 1..Locals : frames'[i].loc[j] = Forward(frames[i].loc[j])
<1>1. frames \in Seq(Frame) /\ statics' = statics
      /\ frames' = [i \in DOMAIN frames |-> FixFrame(frames[i])]
  BY DEF TypeOK, HeapTypeOK, FixRoots
<1>2. ASSUME NEW f \in Frame
      PROVE  /\ FixFrame(f).stk = f.stk
             /\ \A j \in 1..Locals : FixFrame(f).loc[j] = Forward(f.loc[j])
  BY DEF FixFrame, Frame
<1>3. /\ DOMAIN frames' = DOMAIN frames
      /\ \A i \in DOMAIN frames :
           /\ frames'[i].stk = frames[i].stk
           /\ \A j \in 1..Locals : frames'[i].loc[j] = Forward(frames[i].loc[j])
  BY <1>1, <1>2
<1>4. OperandRefs' = OperandRefs /\ StaticRefs' = StaticRefs
  BY <1>1, <1>3 DEF OperandRefs, StaticRefs
<1>5. \A r : r \in Roots <=> r # Null /\ \E i \in DOMAIN frames : \E j \in 1..Locals :
                                           r = frames[i].loc[j]
  BY DEF Roots
<1>6. \A r : r \in Roots' <=> r # Null /\ \E i \in DOMAIN frames : \E j \in 1..Locals :
                                            r = Forward(frames[i].loc[j])
  BY <1>3 DEF Roots
<1>7. Forward(Null) = Null
  BY RegionFacts DEF Forward, Null
<1>8. \A a \in Roots : Forward(a) # Null
  BY DEF Slots
<1>9. \A r : r \in Roots' <=> \E a \in Roots : r = Forward(a)
  BY <1>5, <1>6, <1>7, <1>8
<1> QED BY <1>3, <1>4, <1>9 DEF Slots

\* ... and the graph is the forwarded graph.
LEMMA FixRootsGraph ==
    ASSUME GraphInv, Kept, FixRoots
    PROVE  /\ \A a \in Graph : /\ Forward(a) \in Old /\ IsObject(Forward(a))
                               /\ mem[Forward(a)].cls = mem[a].cls
                               /\ mem[Forward(a)].id = mem[a].id
                               /\ \A k \in Pointers[mem[a].cls] :
                                    mem[Forward(a)].fields[k] = Forward(mem[a].fields[k])
                               /\ Children(Forward(a)) = {Forward(c) : c \in Children(a)}
           /\ Slots' = {Forward(a) : a \in Slots}
           /\ Graph' = {Forward(a) : a \in Graph}
           /\ Closed'
<1>0. /\ IInv /\ TypeOK /\ pc = "fixroots" /\ Closed /\ UNCHANGED <<mem, fwd>>
  BY DEF GraphInv, EdenInv, IInv, FixRoots, Sound, Dead
<1>1. ASSUME NEW a \in Graph
      PROVE  /\ a \in Addr /\ IsObject(a) /\ Children(a) \subseteq Graph
             /\ mem[a].cls \in Classes /\ Pointers[mem[a].cls] \subseteq FieldIds
  BY <1>0, GraphLaws, ObjectFacts, HeapAssumption DEF GraphLaw, Closed
<1>2. ASSUME NEW a \in Graph
      PROVE  /\ a \in Young => Forward(a) = fwd[a] /\ fwd[a] # Null /\ fwd[a] \in Copies
             /\ a \notin Young => Forward(a) = a /\ a \in Old
             /\ Forward(a) # Null
  <2>1. a \in Addr
    BY <1>1
  <2>2. a \in Young => fwd[a] # Null
    BY <1>0 DEF GraphInv, AllForwarded
  <2>3. a \notin Young => fwd[a] = Null
    BY <1>0, <2>1 DEF GraphInv, Forwarding
  <2>4. a # Null
    BY <2>1, RegionFacts DEF Null
  <2> QED BY <2>1, <2>2, <2>3, <2>4 DEF Forward, Copies, Addr
<1>3. ASSUME NEW a \in Graph
      PROVE  /\ Forward(a) \in Old /\ IsObject(Forward(a))
             /\ mem[Forward(a)].cls = mem[a].cls
             /\ mem[Forward(a)].id = mem[a].id
             /\ \A k \in Pointers[mem[a].cls] :
                  mem[Forward(a)].fields[k] = Forward(mem[a].fields[k])
  <2>1. CASE a \in Young
    <3>1. fwd[a] # Null /\ Forward(a) = fwd[a] /\ fwd[a] \in Copies /\ a \in Addr
      BY <1>1, <1>2, <2>1
    <3>2. /\ mem[fwd[a]].cls = mem[a].cls /\ mem[fwd[a]].id = mem[a].id
          /\ mem[fwd[a]].fields = Forwarded(a)
      BY <1>0, <3>1 DEF GraphInv, Forwarding
    <3>3. fwd[a] \in Old /\ IsObject(fwd[a])
      BY <1>0, <3>1 DEF GraphInv, CopiesOld, Evacuating
    <3>4. \A k \in Pointers[mem[a].cls] : Forwarded(a)[k] = Forward(mem[a].fields[k])
      BY <1>1 DEF Forwarded
    <3> QED BY <3>1, <3>2, <3>3, <3>4
  <2>2. CASE a \notin Young
    <3>1. Forward(a) = a /\ a \in Old /\ IsObject(a)
      BY <1>1, <1>2, <2>2
    <3>2. Children(a) \cap Young = {}
      BY <1>0, <3>1 DEF GraphInv, OldClosed, MinorPhases
    <3>3. \A k \in Pointers[mem[a].cls] : Forward(mem[a].fields[k]) = mem[a].fields[k]
      <4>1. \A c \in Children(a) : Forward(c) = c
        BY <1>1, <1>2, <3>2
      <4>2. Forward(Null) = Null
        BY RegionFacts DEF Forward, Null
      <4> QED BY <4>1, <4>2 DEF Children
    <3> QED BY <3>1, <3>3
  <2> QED BY <2>1, <2>2
<1>4. ASSUME NEW a \in Graph
      PROVE  Children(Forward(a)) = {Forward(c) : c \in Children(a)}
  <2>1. PICK to : to = Forward(a)
    OBVIOUS
  <2>2. PICK P : P = Pointers[mem[a].cls]
    OBVIOUS
  <2>3. Children(to) = {mem[to].fields[k] : k \in P} \ {Null}
    BY <1>3, <2>1, <2>2 DEF Children
  <2>4. \A k \in P : mem[to].fields[k] = Forward(mem[a].fields[k])
    BY <1>3, <2>1, <2>2
  <2>5. Children(a) = {mem[a].fields[k] : k \in P} \ {Null}
    BY <2>2 DEF Children
  <2>6. Forward(Null) = Null /\ \A c \in Children(a) : Forward(c) # Null
    BY <1>1, <1>2, RegionFacts DEF Forward, Null
  <2> QED BY <2>1, <2>3, <2>4, <2>5, <2>6
<1>5. Slots' = {Forward(a) : a \in Slots}
  <2>1. \A a \in OperandRefs \cup StaticRefs : a \in Graph /\ a \notin Young
    BY <1>0 DEF Closed, Slots, GraphInv, EdenFromLocals, MinorPhases
  <2>2. \A a \in Slots : Forward(a) # Null
    BY <1>0, <1>2 DEF Closed
  <2> QED BY <1>0, <1>2, <2>1, <2>2, FixRootsSlots
<1>6. PICK C : C = {Forward(a) : a \in Graph}
  OBVIOUS
<1>7. Graph' \subseteq C /\ Closed'
  <2>1. Slots' \subseteq C
    BY <1>0, <1>5, <1>6 DEF Closed
  <2>2. ASSUME NEW c \in C PROVE IsObject(c)' /\ Children(c)' \subseteq C
    <3>1. PICK a \in Graph : c = Forward(a)
      BY <1>6
    <3>2. IsObject(c) /\ Children(c) \subseteq C
      BY <1>1, <1>3, <1>4, <1>6, <3>1
    <3> QED BY <1>0, <3>2 DEF IsObject, Children
  <2> QED BY <2>1, <2>2, GraphWithin
<1>8. C \subseteq Graph'
  <2>1. PICK D : D = {a \in Graph : Forward(a) \in Graph'}
    OBVIOUS
  <2>2. \A a \in Slots : IsObject(a) => a \in D
    BY <1>0, <1>5, <1>7, <2>1, GraphLaws DEF GraphLaw, Closed
  <2>3. ASSUME NEW a \in D, NEW c \in Children(a) PROVE c \in D
    <3>1. PICK to : to = Forward(a)
      OBVIOUS
    <3>2. to \in Graph' /\ Children(to)' = Children(to)
      BY <1>0, <2>1, <3>1 DEF Children
    <3>3. Forward(c) \in Children(to)
      BY <1>4, <2>1, <3>1
    <3>4. Forward(c) \in Graph'
      BY <1>7, <3>2, <3>3 DEF Closed
    <3> QED BY <1>1, <2>1, <3>4
  <2>4. Graph \subseteq D
    BY <2>2, <2>3, GraphLaws DEF GraphLaw
  <2> QED BY <1>6, <2>1, <2>4
<1> QED BY <1>3, <1>4, <1>5, <1>6, <1>7, <1>8

-------------------------------------------------------------------------------
(* The invariants, step by step *)

\* The phases a step leads from and to.
LEMMA Steps ==
    ASSUME Next
    PROVE  \/ Bytecode /\ pc = "run" /\ pc' \in {"run", "wild", "alloc"}
           \/ AllocOk /\ pc = "alloc" /\ pc' = "run"
           \/ AllocFull /\ pc = "alloc" /\ pc' = "mark"
           \/ Retry /\ pc = "retry" /\ pc' = "alloc"
           \/ GiveUp /\ pc = "retry" /\ pc' = "run"
           \/ MarkMinor /\ pc = "mark" /\ pc' = "drain"
           \/ MarkMinorWild /\ pc = "mark" /\ pc' = "wild"
           \/ DrainMinor /\ pc = "drain" /\ pc' \in {"drain", "wild"}
           \/ MarkMinorEnd /\ pc = "drain" /\ pc' = "sweep"
           \/ (SweepWhite \/ SweepPromote \/ SweepFull) /\ pc = "sweep" /\ pc' = "sweep"
           \/ SweepEnd /\ pc = "sweep" /\ pc' = "fixobjs"
           \/ FixObjects /\ pc = "fixobjs" /\ pc' = "fixroots"
           \/ FixRoots /\ pc = "fixroots" /\ pc' = "reset"
           \/ Reset /\ pc = "reset" /\ pc' \in {"markmajor", "retry"}
           \/ MarkMajor /\ pc = "markmajor" /\ pc' = "drainmajor"
           \/ MarkMajorWild /\ pc = "markmajor" /\ pc' = "wild"
           \/ DrainMajor /\ pc = "drainmajor" /\ pc' \in {"drainmajor", "wild"}
           \/ MarkMajorEnd /\ pc = "drainmajor" /\ pc' = "sweepold"
           \/ (SweepOldWhite \/ SweepOldBlack) /\ pc = "sweepold" /\ pc' = "sweepold"
           \/ SweepOldLastBlock /\ pc = "sweepold" /\ pc' \in {"panic", "coalesce"}
           \/ SweepOldListedBlock /\ pc = "sweepold" /\ pc' = "hung"
           \/ SweepOldWild /\ pc = "sweepold" /\ pc' = "wild"
           \/ SweepOldEnd /\ pc = "sweepold" /\ pc' = "coalesce"
           \/ (CoalesceMerge \/ CoalesceSkip) /\ pc = "coalesce" /\ pc' = "coalesce"
           \/ CoalesceEnd /\ pc = "coalesce" /\ pc' = "retry"
<1>1. CASE Bytecode
  BY <1>1, BytecodeQuiet
<1>2. CASE AllocStep
  BY <1>2 DEF AllocStep, AllocOk, AllocFull, Retry, GiveUp
<1>3. CASE DrainMinor \/ DrainMajor
  BY <1>3 DEF DrainMinor, DrainMajor, Blacken, DrainWild
<1>4. CASE \/ MarkMinor \/ MarkMinorEnd \/ SweepWhite \/ SweepPromote \/ SweepFull \/ SweepEnd
           \/ FixObjects \/ FixRoots \/ Reset
  BY <1>4 DEF MarkMinor, MarkMinorEnd, SweepWhite, SweepPromote, SweepFull, SweepEnd,
              FixObjects, FixRoots, Reset
<1>5. CASE \/ MarkMajor \/ MarkMajorEnd \/ SweepOldWhite \/ SweepOldBlack \/ SweepOldLastBlock
           \/ SweepOldListedBlock \/ SweepOldWild \/ SweepOldEnd
           \/ CoalesceMerge \/ CoalesceSkip \/ CoalesceEnd
  BY <1>5 DEF MarkMajor, MarkMajorEnd, SweepOldWhite, SweepOldBlack, SweepOldLastBlock,
              SweepOldListedBlock, SweepOldWild, SweepOldEnd, CoalesceMerge, CoalesceSkip,
              CoalesceEnd
<1>6. CASE MarkMinorWild \/ MarkMajorWild
  BY <1>6 DEF MarkMinorWild, MarkMajorWild
<1> QED BY <1>1, <1>2, <1>3, <1>4, <1>5, <1>6 DEF Next, Collect, Minor, Major

\* The objects there are, were there, with their class, fields and identity.
Survived ==
    \A a \in Addr : IsObject(a)' => /\ IsObject(a) /\ mem'[a].cls = mem[a].cls
                                    /\ mem'[a].fields = mem[a].fields
                                    /\ mem'[a].id = mem[a].id

\* The rest of a collection moves a cursor or the free list.
LEMMA CollectQuiet ==
    ASSUME Minor \/ Major
    PROVE  \/ UNCHANGED mem \/ MarkMinor \/ DrainMinor \/ MarkMajor \/ DrainMajor
           \/ SweepOldBlack \/ SweepPromote \/ FixObjects \/ Reset \/ SweepOldWhite
BY DEF Minor, Major, MarkMinorEnd, SweepWhite, SweepFull, SweepEnd, FixRoots, MarkMajorEnd,
       SweepOldLastBlock, SweepOldListedBlock, SweepOldWild, SweepOldEnd, CoalesceMerge,
       CoalesceSkip, CoalesceEnd, MarkMinorWild, MarkMajorWild, heapVars

LEMMA CollectSurvived ==
    ASSUME IInv, Minor \/ Major, ~SweepPromote, ~FixObjects
    PROVE  Survived
<1>0. TypeOK
  BY DEF IInv
<1>1. CASE Remarked
  BY <1>1 DEF Remarked, Survived
<1>2. CASE Reset
  BY <1>2 DEF Reset, Survived, IsObject
<1>3. CASE SweepOldWhite
  <2>1. PICK at : at = cursor
    OBVIOUS
  <2>2. at \in Addr /\ mem' = [mem EXCEPT ![at] = NoObject]
    BY <1>3, <2>1 DEF SweepOldWhite, IsObject
  <2>3. mem'[at] = NoObject /\ \A a \in Addr : a # at => mem'[a] = mem[a]
    BY <1>0, <2>2, OtherMem
  <2> QED BY <2>3 DEF Survived, IsObject
<1> QED BY <1>0, <1>1, <1>2, <1>3, CollectQuiet, SameMem, MarkMem, SweepOldBlackMem

\* Nothing changes the slots of the call stack during a collection but fixup_roots.
LEMMA CollectSlots ==
    ASSUME Minor \/ Major, ~FixRoots
    PROVE  UNCHANGED <<frames, statics>>
BY DEF Minor, Major, MarkMinor, DrainMinor, MarkMinorEnd, SweepWhite, SweepPromote, SweepFull,
       SweepEnd, FixObjects, Reset, MarkMajor, DrainMajor, MarkMajorEnd, SweepOldWhite,
       SweepOldBlack, SweepOldLastBlock, SweepOldListedBlock, SweepOldWild, SweepOldEnd,
       CoalesceMerge, CoalesceSkip, CoalesceEnd, MarkMinorWild, MarkMajorWild, heapVars

\* Nor the forwarding table but promotion and the reset.
LEMMA SameFwd ==
    ASSUME Next, ~SweepPromote, ~Reset
    PROVE  fwd' = fwd
<1>1. CASE Bytecode
  BY <1>1, BytecodeQuiet
<1>2. CASE AllocStep
  BY <1>2 DEF AllocStep, AllocOk, AllocFull, Retry, GiveUp
<1>3. CASE Collect
  BY <1>3
  DEF Collect, Minor, Major, MarkMinor, DrainMinor, MarkMinorEnd, SweepWhite, SweepFull,
      SweepEnd, FixObjects, FixRoots, MarkMajor, DrainMajor, MarkMajorEnd, SweepOldWhite,
      SweepOldBlack, SweepOldLastBlock, SweepOldListedBlock, SweepOldWild, SweepOldEnd,
      CoalesceMerge, CoalesceSkip, CoalesceEnd, MarkMinorWild, MarkMajorWild
<1> QED BY <1>1, <1>2, <1>3 DEF Next

\* NEW without a collection leaves the old generation alone.
LEMMA AllocSurvived ==
    ASSUME IInv, AllocStep
    PROVE  /\ \A a \in Old : mem'[a] = mem[a]
           /\ UNCHANGED <<free, cards, statics, work, cursor, fwd, walk>>
<1>1. CASE AllocOk
  BY <1>1, AllocMem DEF AllocOk, Addr
<1>2. CASE AllocFull \/ Retry \/ GiveUp
  BY <1>2 DEF AllocFull, Retry, GiveUp, heapVars
<1> QED BY <1>1, <1>2 DEF AllocStep, AllocOk

LEMMA InOldMeans ==
    ASSUME IInv, EdenTiled, NoFlush, "flush" \notin risk, NEW a, IsObject(a)
    PROVE  InOld(a) <=> a \in Old
<1>1. PICK n : n = SizeAt(a)
  OBVIOUS
<1>2. a \in Addr /\ n \in Nat /\ n >= 3 /\ ~Flush(a, n)
  BY <1>1, ObjectFacts DEF IInv, NoFlush
<1>3. /\ YoungBase \in Nat /\ YoungEnd \in Nat /\ OldBase \in Nat /\ OldEnd \in Nat
      /\ YoungEnd <= OldBase \/ OldEnd <= YoungBase
  BY RegionFacts, HeapAssumption
<1>4. n = 3 => a + 3 # YoungEnd /\ a + 3 # OldEnd
  BY <1>2 DEF Flush, HeaderWords
<1>5. CASE a \in Young
  <2>1. a + n <= top /\ top <= YoungEnd /\ top \in Nat /\ a \in Nat /\ YoungBase <= a
    BY <1>1, <1>5, EdenObject DEF IInv
  <2>2. a + 3 \notin Old
    BY <1>2, <1>3, <1>4, <2>1 DEF Old
  <2> QED BY <1>5, <2>2, RegionFacts DEF InOld, HeaderWords
<1>6. CASE a \in Old
  <2>1. a + n <= OldEnd /\ a \in Nat /\ OldBase <= a
    BY <1>1, <1>3, <1>6 DEF IInv, OldApart, Old
  <2>2. a + 3 <= OldEnd - 1
    BY <1>2, <1>3, <1>4, <2>1
  <2> QED BY <1>3, <1>6, <2>1, <2>2 DEF InOld, Old, HeaderWords
<1> QED BY <1>2, <1>5, <1>6 DEF Addr

\* The graph during a step of the collector but fixup_roots.
LEMMA CollectGraph ==
    ASSUME GraphInv, Minor \/ Major, ~FixRoots, Kept'
    PROVE  /\ Graph' = Graph /\ Closed /\ Closed' /\ Slots' = Slots
           /\ \A a \in Graph : /\ a \in Addr /\ IsObject(a) /\ IsObject(a)'
                               /\ Children(a)' = Children(a)
                               /\ mem'[a].cls = mem[a].cls /\ mem'[a].id = mem[a].id
                               /\ mem'[a].fields = mem[a].fields
<1>1. IInv
  BY DEF GraphInv, EdenInv
<1>2. Kept
  <2>1. CASE SweepPromote
    BY <1>1, <2>1, PromoteMem DEF Kept
  <2>2. CASE ~SweepPromote
    BY <1>1, <2>2, CollectObjects DEF Kept
  <2> QED BY <2>1, <2>2
<1>3. pc \in MinorPhases \cup MajorPhases
  BY CollectPhases
<1>4. pc \notin Dead
  BY <1>3 DEF MinorPhases, MajorPhases, Dead
<1>5. Closed
  BY <1>2, <1>4 DEF GraphInv, Sound
<1>6. GraphKept
  BY CollectKeeps
<1> QED BY <1>5, <1>6, KeptGraph, GraphLaws DEF GraphLaw, GraphKept

LEMMA StepSound ==
    ASSUME GraphInv, Next
    PROVE  Sound'
<1> SUFFICES ASSUME Kept', pc' \notin Dead PROVE Closed'
  BY DEF Sound
<1>1. IInv /\ Kept
  BY RisksStay DEF GraphInv, EdenInv
<1>2. pc \notin Dead
  BY Steps DEF Dead
<1>3. Closed
  BY <1>1, <1>2 DEF GraphInv, Sound
<1>4. CASE Bytecode
  BY <1>1, <1>3, <1>4, BytecodeGraph
<1>5. CASE AllocOk
  BY <1>1, <1>3, <1>5, AllocGraph
<1>6. CASE AllocFull \/ Retry \/ GiveUp
  <2>1. UNCHANGED <<mem, statics>> /\ (UNCHANGED frames \/ frames' = <<>>)
    BY <1>6 DEF AllocFull, Retry, GiveUp, Unwind, heapVars
  <2> QED BY <1>3, <2>1, RestGraph
<1>7. CASE Collect
  <2>1. CASE FixRoots
    BY <1>1, <2>1, FixRootsGraph
  <2>2. CASE ~FixRoots
    BY <1>7, <2>2, CollectGraph DEF Collect
  <2> QED BY <2>1, <2>2
<1> QED BY <1>4, <1>5, <1>6, <1>7 DEF Next, AllocStep

LEMMA StepPlain ==
    ASSUME GraphInv, Next
    PROVE  PlainNull'
<1>1. IInv /\ TypeOK /\ PlainNull
  BY DEF GraphInv, EdenInv, IInv
<1>2. CASE Survived
  BY <1>1, <1>2 DEF PlainNull, Survived
<1>3. ASSUME NEW to \in Addr, NEW o, mem' = [mem EXCEPT ![to] = o],
             \A k \in FieldIds \ Pointers[o.cls] : o.fields[k] = Null
      PROVE  PlainNull'
  <2>1. mem'[to] = o /\ \A a \in Addr : a # to => mem'[a] = mem[a]
    BY <1>1, <1>3, OtherMem
  <2>2. ASSUME NEW a \in Addr, IsObject(a)', NEW k \in FieldIds \ Pointers[mem'[a].cls]
        PROVE  mem'[a].fields[k] = Null
    <3>1. CASE a = to
      BY <1>3, <2>1, <2>2, <3>1
    <3>2. CASE a # to
      BY <1>1, <2>1, <2>2, <3>2 DEF PlainNull, IsObject
    <3> QED BY <3>1, <3>2
  <2> QED BY <2>2 DEF PlainNull
<1>4. CASE Bytecode
  <2>1. CASE UNCHANGED mem
    BY <1>2, <2>1 DEF Survived, IsObject
  <2>2. ASSUME NEW obj, NEW value, NEW k \in FieldIds, Stores(obj, k, value)
        PROVE  PlainNull'
    <3>1. obj \in Addr /\ IsObject(obj) /\ k \in Pointers[mem[obj].cls]
      BY <1>1, <2>2 DEF Stores, IsObject
    <3>2. /\ mem'[obj].cls = mem[obj].cls
          /\ mem'[obj].fields = [mem[obj].fields EXCEPT ![k] = value]
      BY <1>1, <2>2, StoresFacts
    <3>3. mem[obj].fields \in [FieldIds -> Ref]
      BY <1>1, <3>1, ObjectFacts
    <3>4. \A i \in FieldIds : i # k => mem'[obj].fields[i] = mem[obj].fields[i]
      BY <3>2, <3>3
    <3>5. \A c \in Addr : c # obj => mem'[c] = mem[c]
      BY <1>1, <2>2, StoresElsewhere
    <3>6. ASSUME NEW a \in Addr, IsObject(a)', NEW i \in FieldIds \ Pointers[mem'[a].cls]
          PROVE  mem'[a].fields[i] = Null
      <4>1. CASE a = obj
        BY <1>1, <3>1, <3>2, <3>4, <3>6, <4>1 DEF PlainNull
      <4>2. CASE a # obj
        BY <1>1, <3>5, <3>6, <4>2 DEF PlainNull, IsObject
      <4> QED BY <4>1, <4>2
    <3> QED BY <3>6 DEF PlainNull
  <2> QED BY <1>4, <2>1, <2>2, BytecodeQuiet
<1>5. CASE AllocOk
  <2>1. PICK to, o : to = top /\ o = Fresh(want)
    OBVIOUS
  <2>2. to \in Addr /\ mem' = [mem EXCEPT ![to] = o]
    BY <1>1, <1>5, <2>1, AllocMem DEF AllocOk, Addr
  <2>3. \A k \in FieldIds : o.fields[k] = Null
    BY <2>1 DEF Fresh
  <2> QED BY <1>3, <2>2, <2>3
<1>6. CASE AllocFull \/ Retry \/ GiveUp
  <2>1. UNCHANGED mem
    BY <1>6 DEF AllocFull, Retry, GiveUp, heapVars
  <2> QED BY <1>2, <2>1 DEF Survived, IsObject
<1>7. CASE SweepPromote
  <2>1. PICK to \in Old : IsObject(cursor) /\ mem' = [mem EXCEPT ![to] = mem[cursor]]
    BY <1>1, <1>7, PromoteMem
  <2>2. PICK o : o = mem[cursor]
    OBVIOUS
  <2>3. to \in Addr /\ mem' = [mem EXCEPT ![to] = o]
    BY <2>1, <2>2 DEF Addr
  <2>4. \A k \in FieldIds \ Pointers[o.cls] : o.fields[k] = Null
    BY <1>1, <2>1, <2>2 DEF PlainNull, IsObject
  <2> QED BY <1>3, <2>3, <2>4
<1>8. CASE FixObjects
  <2>1. /\ Refielded
        /\ \A a \in Addr : IsObject(a) =>
             mem'[a].fields = IF a \in Copies THEN Forwarded(a) ELSE mem[a].fields
    BY <1>1, <1>8, FixObjectsMem
  <2>2. ASSUME NEW a \in Addr, IsObject(a)', NEW k \in FieldIds \ Pointers[mem'[a].cls]
        PROVE  mem'[a].fields[k] = Null
    <3>1. IsObject(a) /\ mem'[a].cls = mem[a].cls /\ mem[a].fields[k] = Null
      BY <1>1, <2>1, <2>2 DEF Refielded, PlainNull
    <3>2. Forwarded(a)[k] = Null
      BY <2>2, <3>1 DEF Forwarded
    <3> QED BY <2>1, <2>2, <3>1, <3>2
  <2> QED BY <2>2 DEF PlainNull
<1>9. CASE Collect /\ ~SweepPromote /\ ~FixObjects
  BY <1>1, <1>2, <1>9, CollectSurvived DEF Collect
<1> QED BY <1>4, <1>5, <1>6, <1>7, <1>8, <1>9 DEF Next, AllocStep

LEMMA StepFwdEmpty ==
    ASSUME GraphInv, Next
    PROVE  FwdEmpty'
<1> SUFFICES ASSUME pc' \notin Evacuating \cup Dead PROVE \A a \in Addr : fwd'[a] = Null
  BY DEF FwdEmpty
<1>1. CASE Reset
  BY <1>1 DEF Reset
<1>2. CASE ~Reset
  <2>1. pc \notin Evacuating \cup Dead /\ ~SweepPromote
    <3>1. pc \notin Evacuating
      BY <1>2, Steps DEF Evacuating
    <3>2. pc \notin Dead
      BY Steps DEF Dead
    <3> QED BY <3>1, <3>2 DEF SweepPromote, Evacuating
  <2> QED BY <1>2, <2>1, SameFwd DEF GraphInv, FwdEmpty
<1> QED BY <1>1, <1>2

LEMMA StepFromLocals ==
    ASSUME GraphInv, Next
    PROVE  EdenFromLocals'
<1> SUFFICES ASSUME Kept', pc' \in MinorPhases
             PROVE  OperandRefs' \cap Young = {} /\ StaticRefs' \cap Young = {}
  BY DEF EdenFromLocals
<1>1. IInv /\ TypeOK /\ Kept
  BY RisksStay DEF GraphInv, EdenInv, IInv
<1>2. CASE AllocFull
  <2>1. UNCHANGED <<frames, statics>> /\ UntracedEden = {}
    BY <1>2 DEF AllocFull, heapVars, Kept
  <2>2. OperandRefs' = OperandRefs /\ StaticRefs' = StaticRefs
    BY <2>1 DEF OperandRefs, StaticRefs
  <2> QED BY <2>1, <2>2 DEF UntracedEden
<1>3. CASE Minor /\ ~Reset /\ UNCHANGED mutVars
  <2>1. pc \in MinorPhases
    BY <1>3, CollectPhases DEF Minor, MinorPhases, MarkMinor, DrainMinor, MarkMinorEnd,
       SweepWhite, SweepPromote, SweepFull, SweepEnd, FixObjects, FixRoots, MarkMinorWild
  <2>2. OperandRefs' = OperandRefs /\ StaticRefs' = StaticRefs
    <3>1. CASE FixRoots
      <4>1. frames \in Seq(Frame) /\ statics' = statics
            /\ frames' = [i \in DOMAIN frames |-> FixFrame(frames[i])]
        BY <1>1, <3>1 DEF TypeOK, HeapTypeOK, FixRoots
      <4>2. \A f \in Frame : FixFrame(f).stk = f.stk
        BY DEF FixFrame, Frame
      <4>3. DOMAIN frames' = DOMAIN frames
            /\ \A i \in DOMAIN frames : frames'[i].stk = frames[i].stk
        BY <4>1, <4>2
      <4> QED BY <4>1, <4>3 DEF OperandRefs, StaticRefs
    <3>2. CASE ~FixRoots
      BY <1>3, <3>2, CollectSlots DEF OperandRefs, StaticRefs
    <3> QED BY <3>1, <3>2
  <2> QED BY <1>1, <2>1, <2>2 DEF GraphInv, EdenFromLocals
<1>4. AllocFull \/ (Minor /\ ~Reset /\ UNCHANGED mutVars)
  <2>1. ~Bytecode
    BY BytecodeQuiet DEF MinorPhases
  <2>2. ~AllocOk /\ ~Retry /\ ~GiveUp
    BY DEF MinorPhases, AllocOk, Retry, GiveUp
  <2>3. ~Major /\ ~Reset
    <3>1. ~Reset /\ ~DrainMajor
      BY DEF MinorPhases, Reset, DrainMajor, Blacken, DrainWild
    <3> QED BY <3>1 DEF MinorPhases, Major, MarkMajor, MarkMajorWild, MarkMajorEnd, SweepOldWhite, SweepOldBlack,
               SweepOldLastBlock, SweepOldListedBlock, SweepOldWild, SweepOldEnd, CoalesceMerge,
               CoalesceSkip, CoalesceEnd
  <2> QED BY <2>1, <2>2, <2>3 DEF Next, Collect, AllocStep
<1> QED BY <1>2, <1>3, <1>4

\* Promotion, with names for what it copies where.
LEMMA PromoteFacts ==
    ASSUME GraphInv, SweepPromote
    PROVE  \E from \in Young, to \in Old :
             /\ from = cursor /\ from < cursor' /\ IsObject(from) /\ mem[from].mark = "Black"
             /\ ~IsObject(to) /\ IsObject(to)'
             /\ mem'[to] = mem[from] /\ \A a \in Addr : a # to => mem'[a] = mem[a]
             /\ fwd'[from] = to /\ \A a \in Addr : a # from => fwd'[a] = fwd[a]
<1>0. IInv /\ TypeOK /\ EdenTiled
  BY DEF GraphInv, EdenInv, IInv
<1>1. PICK to \in Old : /\ ~IsObject(to) /\ mem' = [mem EXCEPT ![to] = mem[cursor]]
                        /\ fwd' = [fwd EXCEPT ![cursor] = to]
  BY <1>0, PromoteMem
<1>2. PICK from : from = cursor
  OBVIOUS
<1>3. pc = "sweep" /\ IsObject(from) /\ cursor < top /\ cursor' = cursor + SizeAt(cursor)
      /\ mem[from].mark = "Black"
  BY <1>2 DEF SweepPromote
<1>4. from \in Young /\ from < cursor'
  BY <1>0, <1>2, <1>3, NextTile
<1>5. PICK o : o = mem[from]
  OBVIOUS
<1>6. to \in Addr /\ mem' = [mem EXCEPT ![to] = o]
  BY <1>1, <1>2, <1>5 DEF Addr
<1>7. mem'[to] = o /\ \A a \in Addr : a # to => mem'[a] = mem[a]
  BY <1>0, <1>6, OtherMem
<1>8. fwd'[from] = to /\ \A a \in Addr : a # from => fwd'[a] = fwd[a]
  BY <1>0, <1>1, <1>2, <1>3 DEF TypeOK, GcTypeOK, IsObject
<1>9. IsObject(to)'
  BY <1>3, <1>5, <1>6, <1>7 DEF IsObject
<1> QED BY <1>1, <1>2, <1>3, <1>4, <1>5, <1>7, <1>8, <1>9

LEMMA StepOldClosed ==
    ASSUME GraphInv, Next
    PROVE  OldClosed'
<1> SUFFICES ASSUME Kept', pc' \in MinorPhases \cup MajorPhases \cup {"retry"},
                    NEW a \in Old, IsObject(a)',
                    pc' \in {"sweep", "fixobjs"} => a \notin Copies'
             PROVE  Children(a)' \cap Young = {}
  BY DEF OldClosed
<1>0. IInv /\ TypeOK /\ Kept /\ a \in Addr
  BY RisksStay DEF GraphInv, EdenInv, IInv, Addr
<1>1. CASE AllocFull
  <2>1. UNCHANGED mem /\ UntracedEden = {}
    BY <1>1 DEF AllocFull, heapVars, Kept
  <2>2. IsObject(a) /\ Children(a)' = Children(a)
    BY <2>1 DEF IsObject, Children
  <2> QED BY <2>1, <2>2 DEF UntracedEden
<1>2. CASE SweepPromote
  <2>1. PICK from \in Young, to \in Old :
             /\ from = cursor /\ IsObject(from) /\ ~IsObject(to)
             /\ \A x \in Addr : x # to => mem'[x] = mem[x]
             /\ fwd'[from] = to /\ \A x \in Addr : x # from => fwd'[x] = fwd[x]
    BY <1>2, PromoteFacts
  <2>2. pc = "sweep" /\ pc' = "sweep" /\ cursor \in Nat
    BY <1>0, <1>2 DEF SweepPromote, TypeOK, GcTypeOK
  <2>3. from \in Addr /\ fwd[from] = Null
    BY <1>0, <2>1, <2>2 DEF GraphInv, Forwarding, Addr
  <2>4. Copies \subseteq Copies' /\ to \in Copies'
    <3>1. to # Null
      BY RegionFacts DEF Null, Addr
    <3> QED BY <2>1, <2>3, <3>1 DEF Copies
  <2>5. a # to /\ a \notin Copies
    BY <2>2, <2>4
  <2>6. IsObject(a) /\ Children(a)' = Children(a)
    BY <1>0, <2>1, <2>5 DEF IsObject, Children
  <2> QED BY <1>0, <2>2, <2>5, <2>6 DEF GraphInv, OldClosed, MinorPhases
<1>3. CASE FixObjects
  <2>1. /\ Refielded /\ pc = "fixobjs"
        /\ \A x \in Addr : IsObject(x) =>
             mem'[x].fields = IF x \in Copies THEN Forwarded(x) ELSE mem[x].fields
    BY <1>0, <1>3, FixObjectsMem DEF FixObjects
  <2>2. IsObject(a) /\ mem'[a].cls = mem[a].cls
    BY <1>0, <2>1 DEF Refielded
  <2>3. CASE a \notin Copies
    <3>1. Children(a)' = Children(a)
      BY <1>0, <2>1, <2>2, <2>3 DEF Children
    <3> QED BY <1>0, <2>1, <2>2, <2>3, <3>1 DEF GraphInv, OldClosed, MinorPhases
  <2>4. CASE a \in Copies
    <3>1. PICK b \in Addr : a = fwd[b] /\ fwd[b] # Null
      BY <2>4 DEF Copies
    <3>2. b \in Graph /\ mem[a].cls = mem[b].cls /\ mem[a].fields = mem[b].fields
      BY <1>0, <2>1, <3>1 DEF GraphInv, Forwarding
    <3>3. Children(a) = Children(b) /\ Closed
      BY <1>0, <2>1, <3>2 DEF Children, GraphInv, Sound, Dead
    <3>4. \A c \in Children(a) : c \in Graph /\ c \in Addr
      BY <3>2, <3>3, GraphLaws DEF Closed, GraphLaw
    <3>5. ASSUME NEW c \in Children(a) PROVE Forward(c) \notin Young
      <4>1. CASE c \in Young
        <5>1. fwd[c] # Null
          BY <1>0, <2>1, <3>4, <4>1 DEF GraphInv, AllForwarded
        <5>2. fwd[c] \in Old
          BY <2>1, <3>4, <5>1 DEF GraphInv, CopiesOld, Evacuating, Copies
        <5> QED BY <3>4, <5>1, <5>2, RegionFacts DEF Forward
      <4>2. CASE c \notin Young
        <5>1. fwd[c] = Null
          BY <1>0, <2>1, <3>4, <4>2 DEF GraphInv, Forwarding
        <5> QED BY <4>2, <5>1 DEF Forward
      <4> QED BY <4>1, <4>2
    <3>6. Forward(Null) = Null
      BY RegionFacts DEF Forward, Null
    <3>7. Pointers[mem[a].cls] \subseteq FieldIds
      BY <1>0, <2>2, ObjectFacts, HeapAssumption
    <3>8. ASSUME NEW c \in Children(a)' PROVE c \notin Young
      <4>1. PICK k \in Pointers[mem[a].cls] : c = mem'[a].fields[k] /\ c # Null
        BY <2>2, <3>8 DEF Children
      <4>2. c = Forward(mem[a].fields[k])
        BY <1>0, <2>1, <2>2, <2>4, <3>7, <4>1 DEF Forwarded
      <4>3. mem[a].fields[k] \in Children(a)
        BY <3>6, <4>1, <4>2 DEF Children
      <4> QED BY <3>5, <4>2, <4>3
    <3> QED BY <3>8
  <2> QED BY <2>3, <2>4
<1>4. CASE Collect /\ ~SweepPromote /\ ~FixObjects
  <2>1. IsObject(a) /\ Children(a)' = Children(a)
    BY <1>0, <1>4, CollectSurvived DEF Collect, Survived, Children
  <2>2. pc \in MinorPhases \cup MajorPhases
    BY <1>4, CollectPhases DEF Collect
  <2>3. pc \in {"sweep", "fixobjs"} => pc' \in {"sweep", "fixobjs"} /\ ~Reset
    BY <1>4, Steps DEF Reset
  <2>4. pc \in {"sweep", "fixobjs"} => Copies' = Copies
    BY <1>4, <2>3, SameFwd DEF Copies
  <2> QED BY <1>0, <2>1, <2>2, <2>3, <2>4 DEF GraphInv, OldClosed
<1>5. AllocFull \/ Collect
  <2>1. ~Bytecode
    BY BytecodeQuiet DEF MinorPhases, MajorPhases
  <2>2. ~AllocOk /\ ~Retry /\ ~GiveUp
    BY DEF MinorPhases, MajorPhases, AllocOk, Retry, GiveUp
  <2> QED BY <2>1, <2>2 DEF Next, AllocStep
<1> QED BY <1>1, <1>2, <1>3, <1>4, <1>5

LEMMA StepWorkInGraph ==
    ASSUME GraphInv, Next
    PROVE  WorkInGraph'
<1> SUFFICES ASSUME Kept', pc' \in {"drain", "drainmajor"} PROVE work' \subseteq Graph'
  BY DEF WorkInGraph
<1>0. Kept
  BY RisksStay DEF GraphInv, EdenInv
<1>1. CASE MarkMinor \/ MarkMajor
  <2>1. work' \subseteq Roots
    BY <1>1 DEF MarkMinor, MarkMajor, UnmarkedIn
  <2>2. Graph' = Graph /\ Closed
    BY <1>1, CollectGraph DEF Minor, Major, MarkMinor, MarkMajor, FixRoots
  <2> QED BY <2>1, <2>2 DEF Closed, Slots
<1>2. CASE DrainMinor \/ DrainMajor
  <2>1. PICK a, F : a \in work /\ Blacken(a, F)
    BY <1>2 DEF DrainMinor, DrainMajor, DrainWild
  <2>2. work' \subseteq work \cup Children(a)
    BY <2>1 DEF Blacken, UnmarkedIn
  <2>3. Graph' = Graph /\ Closed
    BY <1>2, CollectGraph DEF Minor, Major, DrainMinor, DrainMajor, FixRoots
  <2>4. work \subseteq Graph
    BY <1>0, <1>2 DEF GraphInv, WorkInGraph, DrainMinor, DrainMajor
  <2> QED BY <2>1, <2>2, <2>3, <2>4 DEF Closed
<1> QED BY <1>1, <1>2, Steps

\* During marking, what is reachable in eden is reached inside eden.
LEMMA EdenGraph ==
    ASSUME GraphInv, Kept, pc = "drain"
    PROVE  Graph \cap Young = ReachFrom(Roots, Young)
<1>1. Closed
  BY DEF GraphInv, Sound, Dead
<1>2. \A a \in Old : IsObject(a) => Children(a) \cap Young = {}
  BY DEF GraphInv, OldClosed, MinorPhases
<1>3. OperandRefs \cap Young = {} /\ StaticRefs \cap Young = {}
  BY DEF GraphInv, EdenFromLocals, MinorPhases
<1>4. PICK R : R = ReachFrom(Roots, Young)
  OBVIOUS
<1>5. R \subseteq Graph
  <2>1. PICK G : G = Graph
    OBVIOUS
  <2>2. \A a \in Roots \cap Young : IsObject(a) => a \in G
    BY <1>1, <2>1 DEF Closed, Slots
  <2>3. \A a \in G \cap Young : IsObject(a) =>
          \A c \in Children(a) \cap Young : IsObject(c) => c \in G
    BY <1>1, <2>1 DEF Closed
  <2> QED BY <1>4, <2>1, <2>2, <2>3, ReachLeast
<1>6. /\ \A a \in R : a \in Young /\ IsObject(a)
      /\ \A a \in Roots \cap Young : IsObject(a) => a \in R
      /\ \A a \in R : \A c \in Children(a) \cap Young : IsObject(c) => c \in R
  BY <1>4, ReachClosed
<1>7. PICK C : C = R \cup Old
  OBVIOUS
<1>8. \A a : IsObject(a) => a \in Young \/ a \in Old
  BY DEF IsObject, Addr
<1>9. \A a \in Slots : IsObject(a) => a \in C
  BY <1>3, <1>6, <1>7, <1>8 DEF Slots
<1>10. \A a \in C : IsObject(a) => \A c \in Children(a) : IsObject(c) => c \in C
  BY <1>2, <1>6, <1>7, <1>8
<1>11. Graph \subseteq C
  BY <1>9, <1>10, GraphLaws DEF GraphLaw
<1> QED BY <1>4, <1>5, <1>6, <1>7, <1>11, RegionFacts

LEMMA StepBlackIsGraph ==
    ASSUME GraphInv, MarkExact', Next
    PROVE  BlackIsGraph'
<1> SUFFICES ASSUME Kept', pc' = "sweep"
             PROVE  \A a \in Young : (IsObject(a)' /\ mem'[a].mark = "Black") <=> a \in Graph'
  BY DEF BlackIsGraph
<1>0. IInv /\ Kept
  BY RisksStay DEF GraphInv, EdenInv
<1>1. CASE MarkMinorEnd
  <2>1. Graph' = Graph
    BY <1>1, CollectGraph DEF Minor, MarkMinorEnd, FixRoots
  <2>2. /\ pc = "drain" /\ work = {} /\ cursor' = YoungBase
        /\ UNCHANGED <<mem, frames, statics>>
    BY <1>1 DEF MarkMinorEnd
  <2>3. ReachFrom(Roots, Young)' = ReachFrom(Roots, Young)
    BY <2>2, SameMem, SameRootsReach
  <2>4. {a \in Young : Marked(a)}' = ReachFrom(Roots, Young)'
    BY <2>2 DEF MarkExact, Kept
  <2>5. {a \in Young : Marked(a)}' = {a \in Young : Marked(a)}
    BY <2>2 DEF Marked, IsObject
  <2>6. Graph \cap Young = {a \in Young : Marked(a)}
    BY <1>0, <2>2, <2>3, <2>4, <2>5, EdenGraph
  <2>7. \A a \in Young : IsObject(a) => mem[a].mark # "Grey" /\ mem[a].mark \in Color
    BY <1>0, <2>2, ObjectFacts DEF GraphInv, EdenInv, EdenMarked, IInv, Object
  <2>8. \A a \in Young : Marked(a) <=> IsObject(a) /\ mem[a].mark = "Black"
    BY <2>7 DEF Marked, Color
  <2> QED BY <2>1, <2>2, <2>6, <2>8 DEF IsObject
<1>2. CASE SweepWhite \/ SweepPromote \/ SweepFull
  <2>1. Graph' = Graph
    BY <1>2, CollectGraph DEF Minor, SweepWhite, SweepPromote, SweepFull, FixRoots
  <2>2. \A a \in Young : mem'[a] = mem[a]
    <3>1. CASE SweepPromote
      BY <3>1, PromoteFacts, RegionFacts DEF Addr
    <3>2. CASE SweepWhite \/ SweepFull
      BY <3>2 DEF SweepWhite, SweepFull
    <3> QED BY <1>2, <3>1, <3>2
  <2>3. pc = "sweep"
    BY <1>2 DEF SweepWhite, SweepPromote, SweepFull
  <2> QED BY <1>0, <2>1, <2>2, <2>3 DEF GraphInv, BlackIsGraph, IsObject
<1> QED BY <1>1, <1>2, Steps

LEMMA StepForwarding ==
    ASSUME GraphInv, Next
    PROVE  Forwarding'
<1> SUFFICES ASSUME Kept', pc' \in {"sweep", "fixobjs", "fixroots"},
                    NEW a \in Addr, fwd'[a] # Null
             PROVE  /\ a \in Young /\ a \in Graph' /\ (pc' = "sweep" => a < cursor')
                    /\ fwd'[a] \notin Graph'
                    /\ mem'[fwd'[a]].cls = mem'[a].cls /\ mem'[fwd'[a]].id = mem'[a].id
                    /\ pc' # "fixroots" => mem'[fwd'[a]].fields = mem'[a].fields
                    /\ pc' = "fixroots" => mem'[fwd'[a]].fields = Forwarded(a)'
  BY DEF Forwarding
<1>0. IInv /\ TypeOK /\ Kept
  BY RisksStay DEF GraphInv, EdenInv, IInv
<1>1. CASE MarkMinorEnd
  BY <1>1 DEF MarkMinorEnd, GraphInv, FwdEmpty, Evacuating, Dead
<1>2. CASE SweepWhite \/ SweepFull \/ SweepEnd
  <2>1. UNCHANGED <<mem, fwd>> /\ pc = "sweep"
    BY <1>2 DEF SweepWhite, SweepFull, SweepEnd, heapVars
  <2>2. Graph' = Graph
    BY <1>2, CollectGraph DEF Minor, SweepWhite, SweepFull, SweepEnd, FixRoots
  <2>3. pc' = "sweep" => cursor < cursor' /\ cursor \in Nat /\ cursor' \in Nat
    <3>1. SweepEnd => pc' = "fixobjs"
      BY DEF SweepEnd
    <3>2. SweepWhite \/ SweepFull => IsObject(cursor) /\ cursor' = cursor + SizeAt(cursor)
      BY DEF SweepWhite, SweepFull
    <3> QED BY <1>0, <1>2, <3>1, <3>2, ObjectFacts
  <2>4. pc' # "fixroots"
    BY <1>2 DEF SweepWhite, SweepFull, SweepEnd
  <2>5. /\ a \in Young /\ a \in Graph /\ a < cursor
        /\ fwd[a] \notin Graph
        /\ mem[fwd[a]].cls = mem[a].cls /\ mem[fwd[a]].id = mem[a].id
        /\ mem[fwd[a]].fields = mem[a].fields
    BY <1>0, <2>1 DEF GraphInv, Forwarding
  <2>6. a \in Nat
    BY RegionFacts
  <2> QED BY <2>1, <2>2, <2>3, <2>4, <2>5, <2>6
<1>3. CASE SweepPromote
  <2>1. PICK from \in Young, to \in Old :
             /\ from = cursor /\ from < cursor' /\ IsObject(from) /\ mem[from].mark = "Black"
             /\ ~IsObject(to)
             /\ mem'[to] = mem[from] /\ \A x \in Addr : x # to => mem'[x] = mem[x]
             /\ fwd'[from] = to /\ \A x \in Addr : x # from => fwd'[x] = fwd[x]
    BY <1>3, PromoteFacts
  <2>2. Graph' = Graph /\ pc = "sweep" /\ pc' = "sweep"
    BY <1>3, CollectGraph DEF Minor, SweepPromote, FixRoots
  <2>3. \A x \in Graph : IsObject(x)
    BY GraphLaws DEF GraphLaw
  <2>4. CASE a = from
    <3>1. from \in Graph
      BY <1>0, <2>1, <2>2 DEF GraphInv, BlackIsGraph
    <3>2. mem'[from] = mem[from] /\ to \notin Graph
      BY <2>1, <2>3, <2>4
    <3> QED BY <2>1, <2>2, <2>4, <3>1, <3>2
  <2>5. CASE a # from
    <3>1. fwd'[a] = fwd[a] /\ fwd[a] # Null
      BY <2>1, <2>5
    <3>2. /\ a \in Young /\ a \in Graph /\ a < cursor
          /\ fwd[a] \notin Graph
          /\ mem[fwd[a]].cls = mem[a].cls /\ mem[fwd[a]].id = mem[a].id
          /\ mem[fwd[a]].fields = mem[a].fields
      BY <1>0, <2>2, <3>1 DEF GraphInv, Forwarding
    <3>3. fwd[a] \in Old /\ IsObject(fwd[a]) /\ fwd[a] \in Addr
      BY <2>2, <3>1 DEF GraphInv, CopiesOld, Evacuating, Copies, Addr
    <3>4. mem'[a] = mem[a] /\ mem'[fwd[a]] = mem[fwd[a]]
      BY <2>1, <2>3, <3>2, <3>3
    <3>5. a < cursor'
      <4>1. a \in Nat /\ cursor \in Nat /\ cursor' \in Int
        BY <1>0, <1>3, RegionFacts, ObjectFacts DEF TypeOK, GcTypeOK, SweepPromote
      <4> QED BY <2>1, <3>2, <4>1
    <3> QED BY <2>2, <3>1, <3>2, <3>4, <3>5
  <2> QED BY <2>4, <2>5
<1>4. CASE FixObjects
  <2>1. /\ Refielded /\ pc = "fixobjs" /\ pc' = "fixroots" /\ fwd' = fwd
        /\ \A x \in Addr : IsObject(x) =>
             mem'[x].fields = IF x \in Copies THEN Forwarded(x) ELSE mem[x].fields
    BY <1>0, <1>4, FixObjectsMem DEF FixObjects
  <2>2. Graph' = Graph /\ (mem'[a].fields = mem[a].fields \/ a \notin Graph)
    BY <1>4, CollectGraph DEF Minor, FixObjects, FixRoots
  <2>3. /\ a \in Young /\ a \in Graph
        /\ fwd[a] \notin Graph
        /\ mem[fwd[a]].cls = mem[a].cls /\ mem[fwd[a]].id = mem[a].id
        /\ mem[fwd[a]].fields = mem[a].fields
    BY <1>0, <2>1 DEF GraphInv, Forwarding
  <2>4. PICK to : to = fwd[a]
    OBVIOUS
  <2>5. to \in Copies /\ IsObject(to) /\ to \in Addr
    BY <2>1, <2>4 DEF GraphInv, CopiesOld, Evacuating, Copies, Addr
  <2>6. /\ mem'[to].cls = mem[to].cls /\ mem'[to].id = mem[to].id
        /\ mem'[a].cls = mem[a].cls /\ mem'[a].id = mem[a].id
    BY <2>1, <2>3, <2>5, GraphLaws DEF Refielded, GraphLaw
  <2>7. Graph' = Graph /\ mem'[a].fields = mem[a].fields
    BY <2>2, <2>3
  <2>8. Forwarded(to) = Forwarded(a)
    BY <2>3, <2>4 DEF Forwarded
  <2>9. Forwarded(a)' = Forwarded(a)
    BY <2>1, <2>6, <2>7 DEF Forwarded, Forward
  <2>10. mem'[to].fields = Forwarded(to)
    BY <2>1, <2>5
  <2> QED BY <2>1, <2>3, <2>4, <2>6, <2>7, <2>8, <2>9, <2>10
<1> QED BY <1>1, <1>2, <1>3, <1>4, Steps

LEMMA StepCopiesOld ==
    ASSUME GraphInv, Next
    PROVE  CopiesOld'
<1> SUFFICES ASSUME pc' \in Evacuating, NEW c \in Copies' PROVE c \in Old /\ IsObject(c)'
  BY DEF CopiesOld
<1>0. IInv /\ TypeOK
  BY DEF GraphInv, EdenInv, IInv
<1>1. PICK a \in Addr : c = fwd'[a] /\ c # Null
  BY DEF Copies
<1>2. CASE MarkMinorEnd
  BY <1>1, <1>2 DEF MarkMinorEnd, GraphInv, FwdEmpty, Evacuating, Dead
<1>3. CASE SweepPromote
  <2>1. PICK from \in Young, to \in Old :
             /\ IsObject(to)'
             /\ \A x \in Addr : x # to => mem'[x] = mem[x]
             /\ fwd'[from] = to /\ \A x \in Addr : x # from => fwd'[x] = fwd[x]
    BY <1>3, PromoteFacts
  <2>2. CASE c = to
    BY <2>1, <2>2
  <2>3. CASE c # to
    <3>1. c = fwd[a]
      BY <1>1, <2>1, <2>3
    <3>2. pc = "sweep" /\ c \in Copies
      BY <1>1, <1>3, <3>1 DEF Copies, SweepPromote
    <3>3. c \in Old /\ IsObject(c)
      BY <3>2 DEF GraphInv, CopiesOld, Evacuating
    <3> QED BY <2>1, <2>3, <3>3 DEF IsObject
  <2> QED BY <2>2, <2>3
<1>4. CASE SweepWhite \/ SweepFull \/ SweepEnd \/ FixObjects \/ FixRoots
  <2>1. pc \in Evacuating /\ fwd' = fwd
    BY <1>4 DEF SweepWhite, SweepFull, SweepEnd, FixObjects, FixRoots, Evacuating
  <2>2. c \in Old /\ IsObject(c)
    BY <1>1, <2>1 DEF GraphInv, CopiesOld, Copies
  <2>3. IsObject(c) <=> IsObject(c)'
    <3>1. CASE FixObjects
      BY <1>0, <2>2, <3>1, FixObjectsMem DEF Refielded, Addr
    <3>2. CASE ~FixObjects
      BY <1>4, <3>2 DEF SweepWhite, SweepFull, SweepEnd, FixRoots, IsObject, heapVars
    <3> QED BY <3>1, <3>2
  <2> QED BY <2>2, <2>3
<1> QED BY <1>2, <1>3, <1>4, Steps DEF Evacuating

LEMMA StepAllForwarded ==
    ASSUME GraphInv, Next
    PROVE  AllForwarded'
<1> SUFFICES ASSUME Kept', pc' \in {"sweep", "fixobjs", "fixroots"},
                    NEW a \in Graph' \cap Young, pc' = "sweep" => a < cursor'
             PROVE  fwd'[a] # Null
  BY DEF AllForwarded
<1>0. IInv /\ TypeOK /\ Kept /\ EdenTiled
  BY RisksStay DEF GraphInv, EdenInv, IInv
<1>1. a \in Nat /\ YoungBase \in Nat /\ a >= YoungBase
  BY RegionFacts DEF Young
<1>2. CASE MarkMinorEnd
  BY <1>1, <1>2 DEF MarkMinorEnd
<1>3. CASE SweepWhite \/ SweepPromote
  <2>1. /\ pc = "sweep" /\ pc' = "sweep" /\ cursor < top /\ IsObject(cursor)
        /\ cursor' = cursor + SizeAt(cursor) /\ cursor \in Nat
    BY <1>0, <1>3, ObjectFacts DEF SweepWhite, SweepPromote
  <2>2. Graph' = Graph
    BY <1>3, CollectGraph DEF Minor, SweepWhite, SweepPromote, FixRoots
  <2>3. IsObject(a) /\ a \in Addr
    BY <2>2, GraphLaws DEF GraphLaw
  <2>4. CASE a < cursor
    <3>1. fwd[a] # Null
      BY <1>0, <2>1, <2>2, <2>4 DEF GraphInv, AllForwarded
    <3>2. CASE SweepWhite
      BY <3>1, <3>2 DEF SweepWhite
    <3>3. CASE SweepPromote
      <4>1. a # cursor
        BY <2>1, <2>4
      <4> QED BY <2>3, <3>1, <3>3, <4>1, PromoteFacts
    <3> QED BY <1>3, <3>2, <3>3
  <2>5. CASE a = cursor
    <3>1. mem[a].mark = "Black"
      BY <1>0, <2>1, <2>2 DEF GraphInv, BlackIsGraph
    <3>2. SweepPromote
      BY <1>3, <2>5, <3>1 DEF SweepWhite
    <3>3. fwd'[a] \in Old
      BY <2>5, <3>2, PromoteFacts
    <3> QED BY <3>3, RegionFacts DEF Addr, Null
  <2>6. CASE a > cursor
    <3>1. PICK end : end = cursor + SizeAt(cursor)
      OBVIOUS
    <3>2. cursor \in Young /\ SizeAt(cursor) \in Nat
      BY <1>0, <2>1, NextTile, ObjectFacts
    <3>3. a \in (cursor + 1)..(end - 1)
      BY <1>1, <2>1, <2>6, <3>1, <3>2
    <3>4. Tiled
      BY <1>0, TiledMeans
    <3> QED BY <2>1, <2>3, <3>1, <3>2, <3>3, <3>4 DEF Tiled
  <2> QED BY <1>1, <2>1, <2>4, <2>5, <2>6
<1>4. CASE SweepFull
  BY <1>4 DEF SweepFull, Kept
<1>5. CASE SweepEnd
  <2>1. pc = "sweep" /\ cursor >= top /\ fwd' = fwd
    BY <1>5 DEF SweepEnd
  <2>2. Graph' = Graph
    BY <1>5, CollectGraph DEF Minor, SweepEnd, FixRoots
  <2>3. IsObject(a)
    BY <2>2, GraphLaws DEF GraphLaw
  <2>4. a + SizeAt(a) <= top /\ SizeAt(a) \in Nat /\ SizeAt(a) >= 3 /\ top \in Nat
    BY <1>0, <2>3, EdenObject
  <2>5. a < cursor
    BY <1>0, <1>1, <2>1, <2>4 DEF TypeOK, GcTypeOK
  <2> QED BY <1>0, <2>1, <2>2, <2>5 DEF GraphInv, AllForwarded
<1>6. CASE FixObjects
  <2>1. pc = "fixobjs" /\ fwd' = fwd
    BY <1>6 DEF FixObjects
  <2>2. Graph' = Graph
    BY <1>6, CollectGraph DEF Minor, FixObjects, FixRoots
  <2> QED BY <1>0, <2>1, <2>2 DEF GraphInv, AllForwarded
<1> QED BY <1>2, <1>3, <1>4, <1>5, <1>6, Steps

LEMMA StepEvacuated ==
    ASSUME GraphInv, Next
    PROVE  Evacuated'
<1> SUFFICES ASSUME Kept', pc' = "reset" PROVE Graph' \subseteq Old
  BY DEF Evacuated
<1>1. IInv /\ Kept
  BY RisksStay DEF GraphInv, EdenInv
<1>2. FixRoots
  BY Steps
<1> QED BY <1>1, <1>2, FixRootsGraph

\* The marker paints eden only, ...
LEMMA MarkMinorOld ==
    ASSUME GraphInv, Kept, MarkMinor \/ DrainMinor
    PROVE  \A a \in Old : IsObject(a) => mem'[a].mark = mem[a].mark \/ mem'[a].mark = "Black"
<1>0. IInv /\ TypeOK /\ EdenTiled /\ NoFlush /\ "flush" \notin risk
  BY DEF GraphInv, EdenInv, IInv, Kept
<1>1. \A a \in Old : IsObject(a) => ~InYoung(a) /\ a \in Addr
  BY <1>0, InYoungMeans, RegionFacts DEF Addr
<1>2. CASE MarkMinor
  <2>1. PICK hit \in UnmarkedIn({r \in Roots : InYoung(r)}) :
           (\A r \in hit : IsObject(r)) /\ mem' = Paint(hit, "Grey")
    BY <1>2 DEF MarkMinor
  <2>2. \A a \in hit : InYoung(a)
    BY <2>1 DEF UnmarkedIn
  <2> QED BY <1>0, <1>1, <2>1, <2>2, RootsMem
<1>3. CASE DrainMinor
  <2>1. CASE \E a \in work : Blacken(a, {r \in Addr : InYoung(r)})
    <3>0. PICK a : Blacken(a, {r \in Addr : InYoung(r)})
      BY <2>1
    <3>1. PICK hit \in UnmarkedIn(Children(a) \cap {r \in Addr : InYoung(r)}) :
             /\ IsObject(a) /\ \A c \in hit : IsObject(c)
             /\ mem' = [Paint(hit, "Grey") EXCEPT ![a].mark = "Black"]
      BY <3>0 DEF Blacken
    <3>2. \A x \in hit : InYoung(x)
      BY <3>1 DEF UnmarkedIn
    <3> QED BY <1>0, <1>1, <3>1, <3>2, BlackenMem
  <2>2. CASE \E a \in work : DrainWild(a, {r \in Addr : InYoung(r)})
    BY <2>2 DEF DrainWild
  <2> QED BY <1>3, <2>1, <2>2 DEF DrainMinor
<1> QED BY <1>2, <1>3

LEMMA StepNoOldGrey ==
    ASSUME GraphInv, Next
    PROVE  NoOldGrey'
<1> SUFFICES ASSUME Kept', pc' \notin {"drainmajor"} \cup Dead, NEW a \in Old, IsObject(a)'
             PROVE  mem'[a].mark # "Grey"
  BY DEF NoOldGrey
<1>0. IInv /\ TypeOK /\ Kept /\ a \in Addr
  BY RisksStay DEF GraphInv, EdenInv, IInv, Addr
<1>1. ASSUME pc # "drainmajor", IsObject(a), mem'[a].mark = mem[a].mark \/ mem'[a].mark = "Black"
      PROVE  mem'[a].mark # "Grey"
  <2>1. pc \notin Dead
    BY Steps DEF Dead
  <2> QED BY <1>0, <1>1, <2>1 DEF GraphInv, NoOldGrey
<1>2. CASE Bytecode \/ FixObjects
  <2>1. Refielded /\ pc # "drainmajor"
    BY <1>0, <1>2, BytecodeMem, FixObjectsMem DEF FixObjects
  <2> QED BY <1>0, <1>1, <2>1 DEF Refielded
<1>3. CASE AllocStep
  <2>1. mem'[a] = mem[a] /\ pc # "drainmajor"
    BY <1>0, <1>3, AllocSurvived DEF AllocStep, AllocOk, AllocFull, Retry, GiveUp
  <2> QED BY <1>1, <2>1 DEF IsObject
<1>4. CASE MarkMinor \/ DrainMinor
  <2>1. IsObject(a)
    BY <1>0, <1>4, MarkMem DEF Remarked
  <2> QED BY <1>0, <1>1, <1>4, <2>1, MarkMinorOld DEF MarkMinor, DrainMinor
<1>5. CASE SweepPromote
  <2>1. PICK from \in Young, to \in Old :
             /\ mem[from].mark = "Black"
             /\ mem'[to] = mem[from] /\ \A x \in Addr : x # to => mem'[x] = mem[x]
    BY <1>5, PromoteFacts
  <2>2. pc = "sweep"
    BY <1>5 DEF SweepPromote
  <2>3. CASE a # to
    BY <1>0, <1>1, <2>1, <2>2, <2>3 DEF IsObject
  <2> QED BY <2>1, <2>3
<1>6. CASE Reset
  BY <1>0, <1>1, <1>6, RegionFacts DEF Reset, IsObject
<1>7. CASE MarkMajorEnd
  <2>1. pc = "drainmajor" /\ work = {} /\ mem' = mem
    BY <1>7 DEF MarkMajorEnd, heapVars
  <2> QED BY <1>0, <2>1 DEF GraphInv, OldMarked, IsObject
<1>8. CASE SweepOldBlack
  <2>1. CASE a # cursor
    <3>1. mem'[a] = mem[a] /\ pc = "sweepold"
      BY <1>0, <1>8, <2>1, SweepOldBlackMem DEF SweepOldBlack
    <3> QED BY <1>1, <3>1 DEF IsObject
  <2> QED BY <1>0, <1>8, <2>1, SweepOldBlackMem
<1>9. CASE SweepOldWhite
  <2>1. PICK at : at = cursor
    OBVIOUS
  <2>2. at \in Addr /\ mem' = [mem EXCEPT ![at] = NoObject] /\ pc = "sweepold"
    BY <1>9, <2>1 DEF SweepOldWhite, IsObject
  <2>3. mem'[at] = NoObject /\ \A x \in Addr : x # at => mem'[x] = mem[x]
    BY <1>0, <2>2, OtherMem
  <2> QED BY <1>0, <1>1, <2>2, <2>3 DEF IsObject
<1>10. CASE UNCHANGED mem /\ pc # "drainmajor"
  BY <1>1, <1>10 DEF IsObject
<1>11. Collect => \/ UNCHANGED mem /\ pc # "drainmajor"
                  \/ MarkMinor \/ DrainMinor \/ SweepOldBlack \/ SweepPromote \/ FixObjects
                  \/ Reset \/ SweepOldWhite \/ MarkMajorEnd
  <2>1. ~MarkMajor /\ ~DrainMajor
    BY DEF MarkMajor, DrainMajor, Blacken, DrainWild, Dead
  <2>2. Collect => MarkMajorEnd \/ pc # "drainmajor"
    BY Steps, <2>1 DEF Dead
  <2> QED BY <2>1, <2>2, CollectQuiet DEF Collect
<1> QED BY <1>2, <1>3, <1>4, <1>5, <1>6, <1>7, <1>8, <1>9, <1>10, <1>11 DEF Next

LEMMA StepOldMarked ==
    ASSUME GraphInv, Next
    PROVE  OldMarked'
<1> SUFFICES ASSUME Kept', pc' = "drainmajor"
             PROVE  /\ Slots' = Roots'
                    /\ \A r \in Roots' : Marked(r)'
                    /\ \A a \in Old : IsObject(a)' =>
                         /\ mem'[a].mark = "Grey" => a \in work'
                         /\ mem'[a].mark = "Black" => \A c \in Children(a)' : Marked(c)'
  BY DEF OldMarked
<1>0. IInv /\ TypeOK /\ Kept
  BY RisksStay DEF GraphInv, EdenInv, IInv
<1>1. CASE MarkMajor
  <2>1. PICK hit \in UnmarkedIn(Roots) :
           (\A r \in hit : IsObject(r)) /\ mem' = Paint(hit, "Grey") /\ work' = hit
    BY <1>1 DEF MarkMajor
  <2>2. /\ Remarked
        /\ \A a \in Addr : IsObject(a) =>
             mem'[a].mark = IF a \in hit THEN "Grey" ELSE mem[a].mark
    BY <1>0, <2>1, RootsMem
  <2>3. pc = "markmajor" /\ UNCHANGED <<frames, statics>> /\ UntracedOld = {}
    BY <1>1 DEF MarkMajor, Kept
  <2>4. OperandRefs = {} /\ StaticRefs = {}
        /\ \A a \in Old : IsObject(a) /\ mem[a].mark = "Black" => \A c \in Children(a) : Marked(c)
    BY <2>3 DEF UntracedOld
  <2>5. Slots = Roots /\ Slots' = Slots /\ Roots' = Roots
    BY <2>3, <2>4, SlotsSame, RootsSame DEF Slots
  <2>6. \A r \in Roots : IsObject(r) /\ r \in Addr
    BY <1>0, <2>3, <2>5, GraphLaws DEF GraphInv, Sound, Closed, Dead, GraphLaw
  <2>7. \A x \in Addr : Marked(x) => Marked(x)'
    BY <2>2 DEF Marked, Remarked
  <2>8. ASSUME NEW r \in Roots PROVE Marked(r)'
    <3>1. r \in hit \/ Marked(r)
      BY <2>1, <2>6 DEF UnmarkedIn, Marked
    <3>2. r \in hit => mem'[r].mark = "Grey" /\ IsObject(r)'
      BY <2>2, <2>6 DEF Remarked
    <3> QED BY <2>6, <2>7, <3>1, <3>2 DEF Marked
  <2>9. ASSUME NEW a \in Old, IsObject(a)'
        PROVE  /\ mem'[a].mark = "Grey" => a \in work'
               /\ mem'[a].mark = "Black" => \A c \in Children(a)' : Marked(c)'
    <3>1. a \in Addr /\ IsObject(a) /\ Children(a)' = Children(a)
      BY <2>2, <2>9, ChildrenSame DEF Remarked, Addr
    <3>2. mem[a].mark # "Grey"
      BY <1>0, <2>3, <3>1 DEF GraphInv, NoOldGrey, Dead
    <3>3. Children(a) \subseteq Addr
      BY <1>0, <3>1, ObjectFacts
    <3> QED BY <2>1, <2>2, <2>4, <2>7, <3>1, <3>2, <3>3
  <2> QED BY <2>5, <2>8, <2>9
<1>2. CASE DrainMajor
  <2>0. pc = "drainmajor" /\ UNCHANGED <<frames, statics>>
    BY <1>2 DEF DrainMajor
  <2>1. PICK a \in work : Blacken(a, {r \in Addr : InOld(r)})
    BY <1>2 DEF DrainMajor, DrainWild
  <2>2. PICK hit \in UnmarkedIn(Children(a) \cap {r \in Addr : InOld(r)}) :
             /\ IsObject(a) /\ \A c \in hit : IsObject(c)
             /\ mem' = [Paint(hit, "Grey") EXCEPT ![a].mark = "Black"]
             /\ work' = (work \ {a}) \cup hit
    BY <2>1 DEF Blacken
  <2>3. /\ Remarked
        /\ \A c \in Addr : IsObject(c) =>
             mem'[c].mark = IF c = a THEN "Black"
                            ELSE IF c \in hit THEN "Grey" ELSE mem[c].mark
    BY <1>0, <2>2, BlackenMem
  <2>4. /\ Slots = Roots
        /\ \A r \in Roots : Marked(r)
        /\ \A x \in Old : IsObject(x) =>
             /\ mem[x].mark = "Grey" => x \in work
             /\ mem[x].mark = "Black" => \A c \in Children(x) : Marked(c)
    BY <1>0, <2>0 DEF GraphInv, OldMarked
  <2>5. Slots' = Slots /\ Roots' = Roots
    BY <2>0, SlotsSame, RootsSame
  <2>6. \A x \in Addr : Marked(x) => Marked(x)'
    BY <2>3 DEF Marked, Remarked
  <2>7. \A r \in Roots : Marked(r)'
    BY <2>4, <2>6 DEF Marked, IsObject
  <2>8. Closed /\ a \in Graph
    BY <1>0, <2>0, <2>1 DEF GraphInv, Sound, WorkInGraph, Dead
  <2>9. ASSUME NEW c \in Children(a) PROVE Marked(c)'
    <3>1. c \in Addr /\ IsObject(c)
      BY <2>8, GraphLaws DEF Closed, GraphLaw
    <3>2. c \in Old
      <4>1. c \notin Young
        BY <2>0, <3>1 DEF GraphInv, EdenInv, EdenEmpty, MajorPhases
      <4> QED BY <3>1, <4>1 DEF Addr
    <3>3. InOld(c)
      BY <1>0, <3>1, <3>2, InOldMeans DEF GraphInv, EdenInv, Kept
    <3>4. c \in hit \/ Marked(c)
      BY <2>2, <3>1, <3>3 DEF UnmarkedIn, Marked
    <3>5. c \in hit => mem'[c].mark \in {"Grey", "Black"} /\ IsObject(c)'
      BY <2>3, <3>1 DEF Remarked
    <3> QED BY <2>6, <3>1, <3>4, <3>5 DEF Marked
  <2>10. ASSUME NEW x \in Old, IsObject(x)'
         PROVE  /\ mem'[x].mark = "Grey" => x \in work'
                /\ mem'[x].mark = "Black" => \A c \in Children(x)' : Marked(c)'
    <3>1. x \in Addr /\ IsObject(x) /\ Children(x)' = Children(x)
      BY <2>3, <2>10, ChildrenSame DEF Remarked, Addr
    <3>2. Children(x) \subseteq Addr
      BY <1>0, <3>1, ObjectFacts
    <3>3. CASE x = a
      BY <2>3, <2>9, <3>1, <3>3
    <3>4. CASE x # a
      BY <2>2, <2>3, <2>4, <2>6, <3>1, <3>2, <3>4
    <3> QED BY <3>3, <3>4
  <2> QED BY <2>4, <2>5, <2>7, <2>10
<1> QED BY <1>1, <1>2, Steps

LEMMA StepLiveBlack ==
    ASSUME GraphInv, Next
    PROVE  LiveBlack'
<1> SUFFICES ASSUME Kept', pc' = "sweepold", NEW a \in Graph', a >= cursor'
             PROVE  mem'[a].mark = "Black"
  BY DEF LiveBlack
<1>0. IInv /\ TypeOK /\ Kept
  BY RisksStay DEF GraphInv, EdenInv, IInv
<1>1. CASE MarkMajorEnd
  <2>1. pc = "drainmajor" /\ work = {} /\ mem' = mem
    BY <1>1 DEF MarkMajorEnd, heapVars
  <2>2. Graph' = Graph
    BY <1>1, CollectGraph DEF Major, MarkMajorEnd, FixRoots
  <2>3. /\ Slots = Roots
        /\ \A r \in Roots : Marked(r)
        /\ \A x \in Old : IsObject(x) =>
             /\ mem[x].mark = "Grey" => x \in work
             /\ mem[x].mark = "Black" => \A c \in Children(x) : Marked(c)
    BY <1>0, <2>1 DEF GraphInv, OldMarked
  <2>4. \A x : IsObject(x) => x \in Old /\ mem[x].mark \in Color
    <3>1. \A x \in Young : ~IsObject(x)
      BY <2>1 DEF GraphInv, EdenInv, EdenEmpty, MajorPhases
    <3> QED BY <1>0, <3>1, ObjectFacts DEF IsObject, Addr, Object
  <2>5. \A x : Marked(x) => IsObject(x) /\ mem[x].mark = "Black"
    BY <2>1, <2>3, <2>4 DEF Marked, Color
  <2>6. PICK C : C = {x \in Addr : Marked(x)}
    OBVIOUS
  <2>7. \A x \in Slots : IsObject(x) => x \in C
    BY <2>3, <2>6 DEF IsObject
  <2>8. \A x \in C : IsObject(x) => \A c \in Children(x) : IsObject(c) => c \in C
    BY <2>3, <2>4, <2>5, <2>6 DEF IsObject
  <2>9. Graph \subseteq C
    BY <2>7, <2>8, GraphLaws DEF GraphLaw
  <2> QED BY <2>1, <2>2, <2>5, <2>6, <2>9
<1>2. CASE SweepOldWhite \/ SweepOldBlack
  <2>1. PICK at : at = cursor
    OBVIOUS
  <2>2. /\ pc = "sweepold" /\ IsObject(at) /\ cursor' = at + SizeAt(at)
        /\ at \in Nat /\ SizeAt(at) \in Nat /\ SizeAt(at) >= 3 /\ at \in Addr
    BY <1>0, <1>2, <2>1, ObjectFacts DEF SweepOldWhite, SweepOldBlack
  <2>3. Graph' = Graph
    BY <1>2, CollectGraph DEF Major, SweepOldWhite, SweepOldBlack, FixRoots
  <2>4. a \in Addr /\ a \in Nat /\ a >= cursor /\ a # at
    <3>1. a \in Addr
      BY <2>3, GraphLaws DEF GraphLaw
    <3> QED BY <2>1, <2>2, <3>1, RegionFacts
  <2>5. mem'[a] = mem[a]
    <3>1. CASE SweepOldWhite
      <4>1. mem' = [mem EXCEPT ![at] = NoObject]
        BY <2>1, <3>1 DEF SweepOldWhite
      <4> QED BY <1>0, <2>2, <2>4, <4>1, OtherMem
    <3>2. CASE SweepOldBlack
      BY <1>0, <2>1, <2>4, <3>2, SweepOldBlackMem
    <3> QED BY <1>2, <3>1, <3>2
  <2> QED BY <1>0, <2>2, <2>3, <2>4, <2>5 DEF GraphInv, LiveBlack
<1> QED BY <1>1, <1>2, Steps

\* But for promotion, sweeping and merging, the words of the old generation keep
\* their owners.
LEMMA OldKept ==
    ASSUME IInv, Next, ~SweepPromote, ~SweepOldWhite, ~CoalesceMerge
    PROVE  free' = free /\ \A a \in Old : IsObject(a) => IsObject(a)' /\ mem'[a].cls = mem[a].cls
<1>0. TypeOK /\ \A a \in Old : a \in Addr
  BY DEF IInv, Addr
<1>1. CASE Bytecode
  BY <1>0, <1>1, BytecodeMem DEF Refielded
<1>2. CASE AllocStep
  BY <1>2, AllocSurvived DEF IsObject
<1>3. CASE Collect
  <2>1. free' = free
    BY <1>3
    DEF Collect, Minor, Major, MarkMinor, DrainMinor, MarkMinorEnd, SweepWhite, SweepFull,
        SweepEnd, FixObjects, FixRoots, Reset, MarkMajor, DrainMajor, MarkMajorEnd,
        SweepOldBlack, SweepOldLastBlock, SweepOldListedBlock, SweepOldWild, SweepOldEnd,
        CoalesceSkip, CoalesceEnd, MarkMinorWild, MarkMajorWild, heapVars
  <2>2. CASE Remarked \/ Refielded
    BY <1>0, <2>1, <2>2 DEF Remarked, Refielded
  <2>3. CASE Reset
    BY <1>0, <2>1, <2>3, RegionFacts DEF Reset, IsObject
  <2> QED BY <1>0, <1>3, <2>2, <2>3, CollectQuiet, SameMem, MarkMem, SweepOldBlackMem, FixObjectsMem
          DEF Collect
<1> QED BY <1>1, <1>2, <1>3 DEF Next

LEMMA StepOldCovered ==
    ASSUME GraphInv, Next
    PROVE  OldCovered'
<1> SUFFICES ASSUME "sliver" \notin risk', pc' \notin Dead, NEW w \in Old
             PROVE  Listed(free', w) \/ \E a \in Old : IsObject(a)' /\ w \in WordsOf(Live(a)')
  BY DEF OldCovered
<1>0. IInv /\ TypeOK /\ OldApart /\ "sliver" \notin risk
  BY RisksStay DEF GraphInv, EdenInv, IInv
<1>1. Listed(free, w) \/ \E a \in Old : IsObject(a) /\ w \in WordsOf(Live(a))
  <2>1. pc \notin Dead
    BY Steps DEF Dead
  <2> QED BY <1>0, <2>1 DEF GraphInv, OldCovered
<1>2. ASSUME NEW a \in Old, IsObject(a), w \in WordsOf(Live(a)),
             IsObject(a)', mem'[a].cls = mem[a].cls
      PROVE  \E x \in Old : IsObject(x)' /\ w \in WordsOf(Live(x)')
  <2>1. Live(a)' = Live(a)
    BY <1>2 DEF Live, SizeAt
  <2> QED BY <1>2, <2>1
<1>3. w \in Int /\ OldBase \in Nat /\ OldEnd \in Nat /\ free \in Seq(BlocksOf(OldBase, OldEnd))
      /\ PairwiseApart(free)
  BY <1>0, RegionFacts DEF TypeOK, HeapTypeOK, OldApart, Old
<1>4. CASE SweepPromote
  <2>1. PICK i \in DOMAIN free, one \in Nat \ {0}, to \in Old :
             /\ IsObject(cursor)
             /\ to = AllocAddr(free[i], one)
             /\ Fits(free[i], SizeAt(cursor), one)
             /\ free' = AllocList(free, i, SizeAt(cursor), one)
             /\ ~IsObject(to) /\ mem' = [mem EXCEPT ![to] = mem[cursor]]
             /\ risk' = risk
                  \cup (IF LostWords(free[i], SizeAt(cursor), one) # {} THEN {"sliver"} ELSE {})
                  \cup (IF Flush(to, SizeAt(cursor)) THEN {"flush"} ELSE {})
    BY <1>0, <1>4, PromoteMem
  <2>2. LostWords(free[i], SizeAt(cursor), one) = {}
    BY <2>1
  <2>3. PICK o : o = mem[cursor]
    OBVIOUS
  <2>4. mem'[to] = o /\ \A a \in Addr : a # to => mem'[a] = mem[a]
    <3>1. to \in Addr /\ mem' = [mem EXCEPT ![to] = o]
      BY <2>1, <2>3 DEF Addr
    <3> QED BY <1>0, <3>1, OtherMem
  <2>5. PICK n \in Nat : n = SizeAt(cursor)
    BY <1>0, <2>1, ObjectFacts
  <2>6. Listed(free, w) => w \in WordsOf(Block(to, n)) \/ Listed(free', w)
    <3>1. i \in 1..Len(free)
      BY <1>3
    <3> QED BY <1>3, <2>1, <2>2, <2>5, <3>1, AllocWords
  <2>7. Live(to)' = Block(to, n) /\ IsObject(to)'
    BY <2>1, <2>3, <2>4, <2>5 DEF Live, SizeAt, IsObject, Addr
  <2>8. \A a \in Old : IsObject(a) => IsObject(a)' /\ mem'[a].cls = mem[a].cls
    BY <2>1, <2>4 DEF IsObject, Addr
  <2> QED BY <1>1, <1>2, <2>1, <2>6, <2>7, <2>8
<1>5. CASE SweepOldWhite
  <2>1. PICK at : at = cursor
    OBVIOUS
  <2>2. PICK b : b = Live(at)
    OBVIOUS
  <2>3. at \in Old /\ at \in Addr /\ IsObject(at) /\ mem' = [mem EXCEPT ![at] = NoObject]
    BY <1>0, <1>5, <2>1, ObjectFacts, RegionFacts DEF SweepOldWhite, IsObject, IInv, CursorAbove, Old, Addr
  <2>4. PICK i \in 1..(Len(free) + 1) : free' = InsertAt(free, i, b)
    BY <1>5, <2>1, <2>2 DEF SweepOldWhite, FreeInsert, Live
  <2>5. b \in BlocksOf(OldBase, OldEnd)
    BY <1>0, <2>2, <2>3, LiveBlock, RegionFacts
  <2>6. Listed(free', w) <=> Listed(free, w) \/ w \in WordsOf(b)
    BY <1>3, <2>4, <2>5, InsertWords
  <2>7. \A a \in Addr : a # at => mem'[a] = mem[a]
    BY <1>0, <2>3, OtherMem
  <2>8. \A a \in Old : IsObject(a) /\ a # at => IsObject(a)' /\ mem'[a].cls = mem[a].cls
    BY <2>7 DEF IsObject, Addr
  <2> QED BY <1>1, <1>2, <2>2, <2>6, <2>8
<1>6. CASE CoalesceMerge
  <2>1. /\ free' = MergeAt(free, walk) /\ AdjacentAt(free, walk) /\ walk < Len(free)
        /\ mem' = mem /\ pc = "coalesce"
    BY <1>6 DEF CoalesceMerge
  <2>2. walk \in 1..Len(free)
    BY <1>0, <1>3, <2>1 DEF IInv, CursorAbove, TypeOK, GcTypeOK
  <2>3. Listed(free', w) <=> Listed(free, w)
    BY <1>3, <2>1, <2>2, MergeWords
  <2>4. \A a \in Old : IsObject(a) => IsObject(a)' /\ mem'[a].cls = mem[a].cls
    BY <2>1 DEF IsObject
  <2> QED BY <1>1, <1>2, <2>3, <2>4
<1>7. CASE ~SweepPromote /\ ~SweepOldWhite /\ ~CoalesceMerge
  <2>1. free' = free /\ \A a \in Old : IsObject(a) => IsObject(a)' /\ mem'[a].cls = mem[a].cls
    BY <1>0, <1>7, OldKept
  <2> QED BY <1>1, <1>2, <2>1
<1> QED BY <1>4, <1>5, <1>6, <1>7

LEMMA StepOnTile ==
    ASSUME GraphInv, Next
    PROVE  OnTile'
<1> SUFFICES ASSUME pc' = "sweepold"
             PROVE  /\ \A a \in Old : IsObject(a)' /\ cursor' \in WordsOf(Live(a)') => cursor' = a
                    /\ \A i \in DOMAIN free' : cursor' \in WordsOf(free'[i])
                                                 => cursor' = free'[i].addr
  BY DEF OnTile
<1>0. IInv /\ TypeOK /\ OldApart
  BY DEF GraphInv, EdenInv, IInv
<1>1. OldBase \in Nat /\ OldEnd \in Nat /\ free \in Seq(BlocksOf(OldBase, OldEnd))
  BY <1>0, RegionFacts DEF TypeOK, HeapTypeOK
<1>2. \A i \in DOMAIN free : /\ free[i].addr \in Nat /\ free[i].size \in Nat
                             /\ free[i].addr >= OldBase
  BY <1>1 DEF BlocksOf
<1>3. CASE MarkMajorEnd
  <2>1. cursor' = OldBase /\ UNCHANGED <<mem, free>>
    BY <1>3 DEF MarkMajorEnd, heapVars
  <2>2. ASSUME NEW a \in Old, IsObject(a), OldBase \in WordsOf(Live(a)) PROVE OldBase = a
    <3>1. a \in Nat /\ a >= OldBase /\ Live(a).addr = a
      BY <1>0, <1>1, <2>2, ObjectFacts DEF Old
    <3> QED BY <1>1, <2>2, <3>1 DEF WordsOf
  <2>3. ASSUME NEW i \in DOMAIN free, OldBase \in WordsOf(free[i]) PROVE OldBase = free[i].addr
    BY <1>1, <1>2, <2>3 DEF WordsOf
  <2>4. \A a : (IsObject(a)' <=> IsObject(a)) /\ Live(a)' = Live(a)
    BY <2>1 DEF IsObject, Live, SizeAt
  <2> QED BY <2>1, <2>2, <2>3, <2>4
<1>4. CASE SweepOldWhite \/ SweepOldBlack
  <2>1. PICK at : at = cursor
    OBVIOUS
  <2>2. PICK end : end = at + SizeAt(at)
    OBVIOUS
  <2>3. /\ IsObject(at) /\ cursor' = end /\ at \in Nat /\ SizeAt(at) \in Nat /\ SizeAt(at) >= 3
        /\ at \in Addr /\ end \in Nat /\ pc = "sweepold" /\ at < OldEnd
    BY <1>0, <1>4, <2>1, <2>2, ObjectFacts DEF SweepOldWhite, SweepOldBlack
  <2>4. at \in Old
    BY <1>0, <1>1, <2>1, <2>3, RegionFacts DEF IInv, CursorAbove, Old
  <2>5. Live(at).addr = at /\ Live(at).size = SizeAt(at)
    BY <1>0, <2>3, ObjectFacts
  <2>6. ASSUME NEW b, b.addr \in Nat, b.size \in Nat, Apart(b, Live(at)) \/ b = Live(at),
               end \in WordsOf(b)
        PROVE  end = b.addr
    BY <2>2, <2>3, <2>5, <2>6 DEF Apart, WordsOf
  <2>7. ASSUME NEW a \in Old, IsObject(a)', end \in WordsOf(Live(a)') PROVE end = a
    <3>1. IsObject(a) /\ Live(a)' = Live(a)
      <4>1. Survived /\ a \in Addr
        BY <1>0, <1>4, CollectSurvived DEF Major, SweepOldWhite, SweepOldBlack, SweepPromote,
           FixObjects, Addr
      <4> QED BY <2>7, <4>1 DEF Survived, Live, SizeAt
    <3>2. Live(a).addr = a /\ Live(a).addr \in Nat /\ Live(a).size \in Nat
      BY <1>0, <3>1, ObjectFacts
    <3>3. Apart(Live(a), Live(at)) \/ Live(a) = Live(at)
      BY <1>0, <2>3, <2>4, <3>1 DEF OldApart
    <3>4. PICK b : b = Live(a)
      OBVIOUS
    <3> QED BY <2>6, <2>7, <3>1, <3>2, <3>3, <3>4
  <2>8. ASSUME NEW i \in DOMAIN free' PROVE
               /\ free'[i].addr \in Nat /\ free'[i].size \in Nat
               /\ Apart(free'[i], Live(at)) \/ free'[i] = Live(at)
    <3>1. \A j \in DOMAIN free : Apart(free[j], Live(at))
      BY <1>0, <2>3, <2>4 DEF OldApart
    <3>2. CASE SweepOldBlack
      BY <1>2, <2>8, <3>1, <3>2 DEF SweepOldBlack
    <3>3. CASE SweepOldWhite
      <4>1. PICK e : e = Live(at)
        OBVIOUS
      <4>2. PICK k \in 1..(Len(free) + 1) : free' = InsertAt(free, k, e)
        BY <2>1, <3>3, <4>1 DEF SweepOldWhite, FreeInsert, Live
      <4>3. e \in BlocksOf(OldBase, OldEnd)
        BY <1>0, <2>3, <2>4, <4>1, LiveBlock, RegionFacts
      <4>4. PairwiseApart(free) /\ \A j \in DOMAIN free : Apart(e, free[j])
        BY <1>0, <3>1, <4>1 DEF OldApart, Apart
      <4>5. \A j \in DOMAIN free' : free'[j] = e \/ \E m \in DOMAIN free : free'[j] = free[m]
        BY <1>1, <4>2, <4>3, <4>4, InsertApart
      <4>6. e.addr \in Nat /\ e.size \in Nat
        BY <4>3 DEF BlocksOf
      <4> QED BY <1>2, <2>8, <3>1, <4>1, <4>5, <4>6
    <3> QED BY <1>4, <3>2, <3>3
  <2> QED BY <2>3, <2>6, <2>7, <2>8
<1> QED BY <1>3, <1>4, Steps

LEMMA StepCardsCover ==
    ASSUME GraphInv, Next
    PROVE  CardsCover'
<1> SUFFICES ASSUME pc' \in {"run", "alloc"}, risk' = {}, NEW a \in Old,
                    IsObject(a)', Children(a)' \cap Young # {}
             PROVE  CardIndex(a + HeaderWords) \in cards'
  BY DEF CardsCover
<1>0. IInv /\ TypeOK /\ Kept /\ risk = {} /\ a \in Addr
  BY RisksStay DEF GraphInv, EdenInv, IInv, Kept, Addr
<1>1. ASSUME pc \in {"run", "alloc"}, IsObject(a), Children(a) \cap Young # {},
             cards \subseteq cards'
      PROVE  CardIndex(a + HeaderWords) \in cards'
  BY <1>0, <1>1 DEF GraphInv, CardsCover
<1>2. CASE Bytecode
  <2>1. pc = "run"
    BY <1>2, BytecodeQuiet
  <2>2. CASE UNCHANGED <<mem, cards>>
    <3>1. IsObject(a) /\ Children(a)' = Children(a)
      BY <2>2 DEF IsObject, Children
    <3> QED BY <1>1, <2>1, <2>2, <3>1
  <2>3. ASSUME NEW obj, NEW value, NEW k \in FieldIds, Stores(obj, k, value)
        PROVE  CardIndex(a + HeaderWords) \in cards'
    <3>1. cards' = Dirtied(obj, value)
      BY <2>3 DEF Stores
    <3>2. cards \subseteq cards'
      BY <3>1 DEF Dirtied
    <3>3. CASE a # obj
      <4>1. \A c \in Addr : c # obj => mem'[c] = mem[c]
        BY <1>0, <2>3, StoresElsewhere
      <4>2. mem'[a] = mem[a]
        BY <1>0, <3>3, <4>1
      <4>3. IsObject(a) /\ Children(a)' = Children(a)
        BY <4>2 DEF IsObject, Children
      <4> QED BY <1>1, <2>1, <3>2, <4>3
    <3>4. CASE a = obj
      <4>1. Closed
        BY <1>0, <2>1 DEF GraphInv, Sound, Dead
      <4>2. /\ obj \in Graph /\ value \in Graph \cup {Null}
            /\ Children(obj)' \subseteq Children(obj) \cup ({value} \ {Null})
        BY <1>0, <2>3, <4>1, StoredFacts
      <4>3. IsObject(a) /\ Children(a)' \subseteq Children(a) \cup ({value} \ {Null})
        BY <3>4, <4>2, GraphLaws DEF GraphLaw
      <4>4. CASE Children(a) \cap Young # {}
        BY <1>1, <2>1, <3>2, <4>3, <4>4
      <4>5. CASE Children(a) \cap Young = {}
        <5>1. value \in Young /\ value # Null /\ IsObject(value)
          BY <4>2, <4>3, <4>5, GraphLaws DEF GraphLaw
        <5>2. EdenTiled /\ NoFlush /\ "flush" \notin risk
          BY <1>0 DEF GraphInv, EdenInv
        <5>3. InYoung(value)
          BY <1>0, <5>1, <5>2, InYoungMeans
        <5>4. InOld(obj)
          BY <1>0, <3>4, <4>3, <5>2, InOldMeans
        <5> QED BY <3>1, <3>4, <5>1, <5>3, <5>4 DEF Dirtied
      <4> QED BY <4>4, <4>5
    <3> QED BY <3>3, <3>4
  <2>4. \/ UNCHANGED <<mem, cards>>
        \/ \E obj, value : \E k \in FieldIds : Stores(obj, k, value)
    BY <1>2, BytecodeQuiet
  <2> QED BY <2>2, <2>3, <2>4
<1>3. CASE AllocStep
  <2>1. mem'[a] = mem[a] /\ cards' = cards
    BY <1>0, <1>3, AllocSurvived
  <2>2. IsObject(a) /\ Children(a)' = Children(a)
    BY <2>1 DEF IsObject, Children
  <2>3. pc \in {"alloc", "retry"}
    BY <1>3 DEF AllocStep, AllocOk, AllocFull, Retry, GiveUp
  <2>4. pc # "retry"
    BY <1>0, <2>2 DEF GraphInv, OldClosed
  <2> QED BY <1>1, <2>1, <2>2, <2>3, <2>4
<1>4. CASE Collect
  BY <1>4, CollectPhases DEF Collect
<1> QED BY <1>2, <1>3, <1>4 DEF Next

LEMMA StepNoWild ==
    ASSUME GraphInv, Next
    PROVE  NoWildRead'
<1> SUFFICES ASSUME Kept', pc' = "wild" PROVE FALSE
  BY DEF NoWildRead, Kept
<1>0. IInv /\ TypeOK /\ Kept
  BY RisksStay DEF GraphInv, EdenInv, IInv
<1>1. CASE Bytecode
  <2>1. pc = "run"
    BY <1>1, BytecodeQuiet
  <2>2. Closed
    BY <1>0, <2>1 DEF GraphInv, Sound, Dead
  <2> QED BY <1>0, <1>1, <2>2, BytecodeTame
<1>2. CASE DrainMinor \/ DrainMajor
  <2>1. pc \in {"drain", "drainmajor"} /\ \E a \in work : \E F : DrainWild(a, F)
    BY <1>2 DEF DrainMinor, DrainMajor, Blacken
  <2>2. PICK a \in work : \E c \in Children(a) : ~IsObject(c)
    BY <2>1 DEF DrainWild, UnmarkedIn
  <2>3. Closed /\ a \in Graph
    BY <1>0, <2>1 DEF GraphInv, WorkInGraph, Sound, Dead
  <2>4. Children(a) \subseteq Graph
    BY <2>3 DEF Closed
  <2> QED BY <2>2, <2>4, GraphLaws DEF GraphLaw
<1>3. CASE SweepOldWild
  <2>1. /\ pc = "sweepold" /\ cursor < OldEnd /\ ~IsObject(cursor)
        /\ \A i \in DOMAIN free : free[i].addr # cursor
    BY <1>3 DEF SweepOldWild
  <2>2. cursor \in Old
    BY <1>0, <2>1, RegionFacts DEF IInv, CursorAbove, TypeOK, GcTypeOK, Old
  <2>3. Listed(free, cursor) \/ \E a \in Old : IsObject(a) /\ cursor \in WordsOf(Live(a))
    BY <1>0, <2>1, <2>2 DEF GraphInv, OldCovered, Kept, Dead
  <2> QED BY <2>1, <2>3 DEF GraphInv, OnTile, Listed
<1>4. CASE MarkMinorWild \/ MarkMajorWild
  <2>1. pc \in {"mark", "markmajor"} /\ \E r \in Roots : ~IsObject(r)
    BY <1>4 DEF MarkMinorWild, MarkMajorWild, UnmarkedIn
  <2>2. Closed
    BY <1>0, <2>1 DEF GraphInv, Sound, Dead
  <2> QED BY <2>1, <2>2, GraphLaws DEF Closed, Slots, GraphLaw
<1> QED BY <1>1, <1>2, <1>3, <1>4, Steps

-------------------------------------------------------------------------------
(* The invariant *)

LEMMA InitGraphInv == ASSUME Init PROVE GraphInv
<1>1. EdenInv
  BY InitEdenInv
<1>2. /\ frames = <<>> /\ \A s \in Statics : statics[s] = Null
      /\ pc = "run" /\ work = {} /\ \A a \in Addr : fwd[a] = Null /\ mem[a] = NoObject
      /\ free = <<Block(OldBase, OldWords)>> /\ cursor = YoungBase /\ risk = {}
  BY DEF Init, HeapInit, GcInit
<1>3. \A a : ~IsObject(a)
  BY <1>2 DEF IsObject
<1>4. Slots = {}
  BY <1>2 DEF Slots, Roots, OperandRefs, StaticRefs
<1>5. Graph = {}
  BY <1>3, GraphLaws DEF GraphLaw
<1>6. Sound /\ PlainNull /\ FwdEmpty /\ EdenFromLocals /\ OldClosed /\ WorkInGraph
  BY <1>2, <1>3, <1>4, <1>5
  DEF Sound, Closed, PlainNull, FwdEmpty, EdenFromLocals, OldClosed, WorkInGraph, MinorPhases,
      MajorPhases
<1>7. BlackIsGraph /\ Forwarding /\ CopiesOld /\ AllForwarded /\ Evacuated /\ NoOldGrey
      /\ OldMarked /\ LiveBlack /\ OnTile /\ CardsCover /\ NoWildRead
  BY <1>2, <1>3
  DEF BlackIsGraph, Forwarding, CopiesOld, AllForwarded, Evacuated, NoOldGrey, OldMarked,
      LiveBlack, OnTile, CardsCover, NoWildRead, Evacuating
<1>8. OldCovered
  <2>1. \A w \in Old : w \in WordsOf(free[1])
    BY <1>2, HeapAssumption DEF WordsOf, Block, Old, OldEnd
  <2> QED BY <1>2, <2>1 DEF OldCovered, Listed
<1> QED BY <1>1, <1>6, <1>7, <1>8 DEF GraphInv

LEMMA StutterGraphInv ==
    ASSUME GraphInv, UNCHANGED vars
    PROVE  GraphInv'
<1>1. EdenInv'
  BY StepEdenInv DEF GraphInv
<1>2. UNCHANGED <<mem, top, free, cards, frames, statics, pc, work, cursor, fwd, walk, risk>>
  BY DEF vars, heapVars, gcVars
<1>3. /\ \A a : IsObject(a)' <=> IsObject(a)
      /\ \A a : Children(a)' = Children(a) /\ Live(a)' = Live(a) /\ Forwarded(a)' = Forwarded(a)
      /\ \A a : Marked(a)' <=> Marked(a)
      /\ Copies' = Copies /\ Kept' = Kept
  BY <1>2 DEF IsObject, Children, Live, SizeAt, Forwarded, Forward, Marked, Copies, Kept
<1>4. /\ Roots' = Roots /\ OperandRefs' = OperandRefs /\ StaticRefs' = StaticRefs
      /\ Slots' = Slots
  BY <1>2 DEF Roots, OperandRefs, StaticRefs, Slots
<1>5. Graph' = Graph
  <2>1. PICK S : S = Slots
    OBVIOUS
  <2>2. ReachFrom(S, Addr)' = ReachFrom(S, Addr)
    BY <1>3, SameReach
  <2> QED BY <1>4, <2>1, <2>2 DEF Graph
<1> USE <1>2, <1>3, <1>4, <1>5 DEF GraphInv
<1>6. Sound' /\ PlainNull' /\ FwdEmpty' /\ EdenFromLocals' /\ WorkInGraph'
  BY DEF Sound, Closed, PlainNull, FwdEmpty, EdenFromLocals, WorkInGraph
<1>7. OldClosed' /\ BlackIsGraph' /\ CopiesOld' /\ AllForwarded' /\ Evacuated'
  BY DEF OldClosed, BlackIsGraph, CopiesOld, AllForwarded, Evacuated
<1>8. Forwarding' /\ NoOldGrey' /\ LiveBlack'
  BY DEF Forwarding, NoOldGrey, LiveBlack
<1>9. OldMarked' /\ OldCovered' /\ OnTile' /\ CardsCover' /\ NoWildRead'
  BY DEF OldMarked, OldCovered, Listed, OnTile, CardsCover, NoWildRead
<1> QED BY <1>1, <1>6, <1>7, <1>8, <1>9

LEMMA StepGraphInv == GraphInv /\ [Next]_vars => GraphInv'
<1> SUFFICES ASSUME GraphInv, Next PROVE GraphInv'
  BY StutterGraphInv
<1>1. EdenInv' /\ MarkExact'
  BY StepEdenInv DEF GraphInv, EdenInv
<1>2. Sound' /\ PlainNull' /\ FwdEmpty' /\ EdenFromLocals' /\ OldClosed' /\ WorkInGraph'
  BY StepSound, StepPlain, StepFwdEmpty, StepFromLocals, StepOldClosed, StepWorkInGraph
<1>3. BlackIsGraph' /\ Forwarding' /\ CopiesOld' /\ AllForwarded' /\ Evacuated' /\ NoOldGrey'
  BY <1>1, StepBlackIsGraph, StepForwarding, StepCopiesOld, StepAllForwarded, StepEvacuated,
     StepNoOldGrey
<1>4. OldMarked' /\ LiveBlack' /\ OldCovered' /\ OnTile' /\ CardsCover' /\ NoWildRead'
  BY StepOldMarked, StepLiveBlack, StepOldCovered, StepOnTile, StepCardsCover, StepNoWild
<1> QED BY <1>1, <1>2, <1>3, <1>4 DEF GraphInv

-------------------------------------------------------------------------------
(* What the program sees *)

\* The object at a as the program sees it.
Seen(a) == [id     |-> mem[a].id,
            cls    |-> mem[a].cls,
            fields |-> [k \in FieldIds |-> Denote(mem[a].fields[k])]]

\* F takes each reference to one that is seen alike after the step.
Moved(F) ==
    /\ F[Null] = Null
    /\ \A a \in Graph :
         /\ F[a] # Null /\ IsObject(F[a])'
         /\ mem'[F[a]].id = mem[a].id /\ mem'[F[a]].cls = mem[a].cls
         /\ \A k \in FieldIds : mem'[F[a]].fields[k] = F[mem[a].fields[k]]
    /\ Graph' = {F[a] : a \in Graph}

LEMMA FrameFacts ==
    ASSUME NEW R, frames \in Seq(FrameOf(R)), NEW i \in DOMAIN frames
    PROVE  /\ \A j \in 1..Locals : frames[i].loc[j] \in R
           /\ \A j \in DOMAIN frames[i].stk : frames[i].stk[j] \in R
           /\ DOMAIN frames[i].stk = 1..Len(frames[i].stk)
<1>1. PICK f : f = frames[i]
  OBVIOUS
<1>2. f \in FrameOf(R)
  BY <1>1
<1>3. f.loc \in [1..Locals -> R] /\ f.stk \in Seq(R)
  BY <1>2 DEF FrameOf
<1>4. /\ \A j \in 1..Locals : f.loc[j] \in R
      /\ \A j \in DOMAIN f.stk : f.stk[j] \in R
      /\ DOMAIN f.stk = 1..Len(f.stk)
  <2>1. \A j \in 1..Locals : f.loc[j] \in R
    BY <1>3
  <2>2. PICK s \in Seq(R) : s = f.stk
    BY <1>3
  <2>3. DOMAIN s = 1..Len(s) /\ \A j \in DOMAIN s : s[j] \in R
    OBVIOUS
  <2> QED BY <2>1, <2>2, <2>3
<1> QED BY <1>1, <1>4

\* Every value of a slot or of a field of a reachable object is null or reachable.
LEMMA SeenValues ==
    ASSUME TypeOK, Closed, PlainNull
    PROVE  /\ \A i \in DOMAIN frames :
                /\ \A j \in 1..Locals : frames[i].loc[j] \in Graph \cup {Null}
                /\ \A j \in DOMAIN frames[i].stk : frames[i].stk[j] \in Graph \cup {Null}
           /\ \A s \in Statics : statics[s] \in Graph \cup {Null}
           /\ \A a \in Graph : \A k \in FieldIds : mem[a].fields[k] \in Graph \cup {Null}
<1>1. frames \in Seq(FrameOf(Graph \cup {Null})) /\ statics \in [Statics -> Graph \cup {Null}]
  BY SlotsMeans DEF Closed, SlotsIn
<1>2. PICK R : R = Graph \cup {Null}
  OBVIOUS
<1>3. frames \in Seq(FrameOf(R))
  BY <1>1, <1>2
<1>4. ASSUME NEW i \in DOMAIN frames
      PROVE  /\ \A j \in 1..Locals : frames[i].loc[j] \in R
             /\ \A j \in DOMAIN frames[i].stk : frames[i].stk[j] \in R
  BY <1>3, FrameFacts
<1>5. ASSUME NEW a \in Graph, NEW k \in FieldIds PROVE mem[a].fields[k] \in R
  <2>1. a \in Addr /\ IsObject(a) /\ Children(a) \subseteq Graph
    BY GraphLaws DEF Closed, GraphLaw
  <2>2. CASE k \in Pointers[mem[a].cls]
    BY <1>2, <2>1, <2>2 DEF Children
  <2>3. CASE k \notin Pointers[mem[a].cls]
    BY <1>2, <2>1, <2>3 DEF PlainNull
  <2> QED BY <2>2, <2>3
<1> QED BY <1>1, <1>2, <1>4, <1>5

LEMMA MovedDenotes ==
    ASSUME NEW F, Moved(F)
    PROVE  \A r \in Graph \cup {Null} : Denote(F[r])' = Denote(r)
<1> SUFFICES ASSUME NEW r \in Graph \cup {Null} PROVE Denote(F[r])' = Denote(r)
  OBVIOUS
<1>1. CASE r = Null
  BY <1>1 DEF Moved, Denote
<1>2. CASE r # Null
  <2>1. PICK to : to = F[r]
    OBVIOUS
  <2>2. r \in Graph /\ IsObject(r)
    BY <1>2, GraphLaws DEF GraphLaw
  <2>3. to # Null /\ IsObject(to)' /\ mem'[to].id = mem[r].id
    BY <2>1, <2>2 DEF Moved
  <2> QED BY <1>2, <2>1, <2>2, <2>3 DEF Denote
<1> QED BY <1>1, <1>2

LEMMA MovedGraph ==
    ASSUME TypeOK, Closed, PlainNull, NEW F, Moved(F)
    PROVE  GraphSeen' = GraphSeen
<1>1. GraphSeen = {Seen(a) : a \in Graph}
  BY DEF GraphSeen, Seen, Graph
<1>2. GraphSeen' = {Seen(a)' : a \in Graph'}
  BY DEF GraphSeen, Seen, Graph
<1>3. ASSUME NEW a \in Graph, NEW to, to = F[a] PROVE Seen(to)' = Seen(a)
  <2>1. mem'[to].id = mem[a].id /\ mem'[to].cls = mem[a].cls
    BY <1>3 DEF Moved
  <2>2. ASSUME NEW k \in FieldIds
        PROVE  Denote(mem[to].fields[k])' = Denote(mem[a].fields[k])
    <3>1. PICK v : v = mem[a].fields[k]
      OBVIOUS
    <3>2. v \in Graph \cup {Null}
      BY <3>1, SeenValues
    <3>3. mem'[to].fields[k] = F[v]
      BY <1>3, <3>1 DEF Moved
    <3>4. Denote(F[v])' = Denote(v)
      BY <3>2, MovedDenotes
    <3> QED BY <3>1, <3>3, <3>4 DEF Denote
  <2> QED BY <2>1, <2>2 DEF Seen
<1>4. Graph' = {F[a] : a \in Graph}
  BY DEF Moved
<1> QED BY <1>1, <1>2, <1>3, <1>4

\* If the slots move along, the program sees nothing of it.
LEMMA MovedView ==
    ASSUME TypeOK, Closed, PlainNull, NEW F, Moved(F),
           DOMAIN frames' = DOMAIN frames,
           \A i \in DOMAIN frames :
             /\ DOMAIN frames'[i].stk = DOMAIN frames[i].stk
             /\ \A j \in 1..Locals : frames'[i].loc[j] = F[frames[i].loc[j]]
             /\ \A j \in DOMAIN frames[i].stk : frames'[i].stk[j] = F[frames[i].stk[j]],
           \A s \in Statics : statics'[s] = F[statics[s]]
    PROVE  View' = View
<1>1. GraphSeen' = GraphSeen
  BY MovedGraph
<1>2. ASSUME NEW r \in Graph \cup {Null}, NEW v, v = F[r] PROVE Denote(v)' = Denote(r)
  BY <1>2, MovedDenotes
<1>3. ASSUME NEW i \in DOMAIN frames
      PROVE  /\ \A j \in 1..Locals : Denote(frames[i].loc[j])' = Denote(frames[i].loc[j])
             /\ \A j \in DOMAIN frames[i].stk :
                  Denote(frames[i].stk[j])' = Denote(frames[i].stk[j])
  <2>2. ASSUME NEW j \in 1..Locals
        PROVE  Denote(frames[i].loc[j])' = Denote(frames[i].loc[j])
    <3>1. PICK r, v : r = frames[i].loc[j] /\ v = F[r]
      OBVIOUS
    <3>2. r \in Graph \cup {Null} /\ frames'[i].loc[j] = v
      BY <3>1, SeenValues
    <3>3. Denote(v)' = Denote(r)
      BY <1>2, <3>1, <3>2
    <3> QED BY <3>1, <3>2, <3>3 DEF Denote
  <2>3. ASSUME NEW j \in DOMAIN frames[i].stk
        PROVE  Denote(frames[i].stk[j])' = Denote(frames[i].stk[j])
    <3>1. PICK r, v : r = frames[i].stk[j] /\ v = F[r]
      OBVIOUS
    <3>2. r \in Graph \cup {Null} /\ frames'[i].stk[j] = v
      BY <3>1, SeenValues
    <3>3. Denote(v)' = Denote(r)
      BY <1>2, <3>1, <3>2
    <3> QED BY <3>1, <3>2, <3>3 DEF Denote
  <2> QED BY <2>2, <2>3
<1>4. CallsSeen' = CallsSeen
  <2>1. ASSUME NEW i \in DOMAIN frames
        PROVE  /\ [j \in 1..Locals |-> Denote(frames[i].loc[j])]'
                    = [j \in 1..Locals |-> Denote(frames[i].loc[j])]
               /\ [j \in DOMAIN frames[i].stk |-> Denote(frames[i].stk[j])]'
                    = [j \in DOMAIN frames[i].stk |-> Denote(frames[i].stk[j])]
    BY <1>3
  <2> QED BY <2>1 DEF CallsSeen
<1>5. ASSUME NEW s \in Statics PROVE Denote(statics[s])' = Denote(statics[s])
  <2>1. PICK r, v : r = statics[s] /\ v = F[r]
    OBVIOUS
  <2>2. r \in Graph \cup {Null} /\ statics'[s] = v
    BY <2>1, SeenValues
  <2>3. Denote(v)' = Denote(r)
    BY <1>2, <2>1, <2>2
  <2> QED BY <2>1, <2>2, <2>3 DEF Denote
<1>6. StaticsSeen' = StaticsSeen
  BY <1>5 DEF StaticsSeen
<1> QED BY <1>1, <1>4, <1>6 DEF View

\* No step of a collection can be seen.
LEMMA CollectView ==
    ASSUME GraphInv, Minor \/ Major, Kept'
    PROVE  View' = View
<1>0. IInv /\ TypeOK /\ PlainNull
  BY DEF GraphInv, EdenInv, IInv
<1>1. CASE ~FixRoots
  <2>1. /\ Graph' = Graph /\ Closed /\ UNCHANGED <<frames, statics>>
        /\ \A a \in Graph : /\ a \in Addr /\ IsObject(a) /\ IsObject(a)'
                            /\ mem'[a].cls = mem[a].cls /\ mem'[a].id = mem[a].id
                            /\ mem'[a].fields = mem[a].fields
    BY <1>1, CollectGraph, CollectSlots
  <2>2. PICK F : F = [r \in Ref |-> r]
    OBVIOUS
  <2>3. \A r \in Graph \cup {Null} : F[r] = r
    BY <2>1, <2>2, RegionFacts
  <2>4. \A a \in Graph : a # Null
    BY <2>1, RegionFacts DEF Null
  <2>5. Moved(F)
    <3>1. \A a \in Graph : \A k \in FieldIds : mem[a].fields[k] \in Graph \cup {Null}
      BY <1>0, <2>1, SeenValues
    <3> QED BY <2>1, <2>3, <2>4, <3>1 DEF Moved
  <2>6. /\ DOMAIN frames' = DOMAIN frames
        /\ \A i \in DOMAIN frames :
             /\ DOMAIN frames'[i].stk = DOMAIN frames[i].stk
             /\ \A j \in 1..Locals : frames'[i].loc[j] = F[frames[i].loc[j]]
             /\ \A j \in DOMAIN frames[i].stk : frames'[i].stk[j] = F[frames[i].stk[j]]
        /\ \A s \in Statics : statics'[s] = F[statics[s]]
    BY <1>0, <2>1, <2>3, SeenValues
  <2> QED BY <1>0, <2>1, <2>5, <2>6, MovedView
<1>2. CASE FixRoots
  <2>0. pc = "fixroots" /\ Kept /\ Closed /\ UNCHANGED <<mem, fwd, statics>>
    BY <1>2 DEF FixRoots, Kept, GraphInv, Sound, Dead
  <2>1. /\ \A a \in Graph : /\ Forward(a) \in Old /\ IsObject(Forward(a))
                            /\ mem[Forward(a)].cls = mem[a].cls
                            /\ mem[Forward(a)].id = mem[a].id
                            /\ \A k \in Pointers[mem[a].cls] :
                                 mem[Forward(a)].fields[k] = Forward(mem[a].fields[k])
        /\ Graph' = {Forward(a) : a \in Graph}
    BY <1>2, <2>0, FixRootsGraph
  <2>2. PICK F : F = [r \in Ref |-> Forward(r)]
    OBVIOUS
  <2>3. Graph \subseteq Addr /\ \A r \in Graph \cup {Null} : F[r] = Forward(r)
    BY <2>2, GraphLaws, RegionFacts DEF GraphLaw
  <2>4. Forward(Null) = Null /\ \A a \in Old : a # Null
    BY RegionFacts DEF Forward, Null, Addr
  <2>5. \A r \in OperandRefs \cup StaticRefs : Forward(r) = r
    <3>1. \A a \in OperandRefs \cup StaticRefs : a \in Graph /\ a \notin Young
      BY <2>0 DEF Closed, Slots, GraphInv, EdenFromLocals, MinorPhases
    <3>2. \A a \in Addr : a \notin Young => fwd[a] = Null
      BY <2>0 DEF GraphInv, Forwarding
    <3> QED BY <2>3, <3>1, <3>2 DEF Forward
  <2>6. Moved(F)
    <3>1. ASSUME NEW a \in Graph, NEW to, to = Forward(a), NEW k \in FieldIds
          PROVE  mem[to].fields[k] = F[mem[a].fields[k]]
      <4>1. mem[a].fields[k] \in Graph \cup {Null}
        BY <1>0, <2>0, <3>1, SeenValues
      <4>2. CASE k \in Pointers[mem[a].cls]
        BY <2>1, <2>3, <3>1, <4>1, <4>2
      <4>3. CASE k \notin Pointers[mem[a].cls]
        <5>1. IsObject(a) /\ a \in Addr /\ IsObject(to) /\ to \in Addr /\ mem[to].cls = mem[a].cls
          BY <2>1, <3>1, GraphLaws DEF GraphLaw, Addr
        <5>2. mem[a].fields[k] = Null /\ mem[to].fields[k] = Null
          BY <1>0, <4>3, <5>1 DEF PlainNull
        <5> QED BY <2>3, <2>4, <5>2
      <4> QED BY <4>2, <4>3
    <3>2. ASSUME NEW a \in Graph, NEW to, to = F[a]
          PROVE  /\ to # Null /\ IsObject(to)'
                 /\ mem'[to].id = mem[a].id /\ mem'[to].cls = mem[a].cls
                 /\ \A k \in FieldIds : mem'[to].fields[k] = F[mem[a].fields[k]]
      <4>1. to = Forward(a)
        BY <2>3, <3>2
      <4>2. to \in Old /\ IsObject(to) /\ mem[to].cls = mem[a].cls /\ mem[to].id = mem[a].id
        BY <2>1, <4>1
      <4> QED BY <2>0, <2>4, <3>1, <4>1, <4>2 DEF IsObject
    <3>3. \A a \in Graph : IsObject(F[a])'
      BY <3>2 DEF IsObject
    <3> QED BY <2>1, <2>3, <2>4, <3>2, <3>3 DEF Moved
  <2>7. /\ DOMAIN frames' = DOMAIN frames
        /\ \A i \in DOMAIN frames :
             /\ frames'[i].stk = frames[i].stk
             /\ \A j \in 1..Locals : frames'[i].loc[j] = Forward(frames[i].loc[j])
    <3>1. \A a \in Slots : Forward(a) # Null
      BY <2>0, <2>1, <2>4 DEF Closed
    <3> QED BY <1>0, <1>2, <2>5, <3>1, FixRootsSlots
  <2>8. \A i \in DOMAIN frames : \A j \in DOMAIN frames[i].stk :
          F[frames[i].stk[j]] = frames[i].stk[j]
    <3>1. ASSUME NEW i \in DOMAIN frames, NEW j \in DOMAIN frames[i].stk
          PROVE  F[frames[i].stk[j]] = frames[i].stk[j]
      <4>1. frames[i].stk[j] \in Graph \cup {Null}
        BY <1>0, <2>0, SeenValues
      <4>2. frames \in Seq(FrameOf(Ref))
        BY <1>0, TypeSlots DEF SlotsIn
      <4>3. frames[i].stk[j] \in OperandRefs \cup {Null}
        BY <4>2, FrameFacts DEF OperandRefs, ToSet
      <4> QED BY <2>3, <2>4, <2>5, <4>1, <4>3
    <3> QED BY <3>1
  <2>9. \A s \in Statics : statics'[s] = F[statics[s]]
    <3>1. \A s \in Statics : statics[s] \in StaticRefs \cup {Null}
      BY DEF StaticRefs
    <3> QED BY <1>0, <2>0, <2>3, <2>4, <2>5, <3>1, SeenValues
  <2>10. \A i \in DOMAIN frames : \A j \in 1..Locals :
           frames'[i].loc[j] = F[frames[i].loc[j]]
    BY <1>0, <2>0, <2>3, <2>7, SeenValues
  <2> QED BY <1>0, <2>0, <2>6, <2>7, <2>8, <2>9, <2>10, MovedView
<1> QED BY <1>1, <1>2

-------------------------------------------------------------------------------
(* The theorems *)

LEMMA AlwaysGraphInv == Spec => []GraphInv
<1>1. Init => GraphInv
  BY InitGraphInv
<1>2. GraphInv /\ [Next]_vars => GraphInv'
  BY StepGraphInv
<1> QED BY <1>1, <1>2, PTL DEF Spec

\* The ordering sweep_young insists on (sweeper.rs:85-101): when eden is wiped,
\* no registered root and no field of a promoted object refers to it, as long as
\* none of the named risks has occurred, for a graph of any shape.
THEOREM NothingLeftInEden == Spec => []EvacuationComplete
<1>1. GraphInv => EvacuationComplete
  <2> SUFFICES ASSUME GraphInv, pc = "reset", risk = {}
               PROVE  /\ Roots \cap Young = {}
                      /\ \A a \in Addr : fwd[a] # Null => Children(fwd[a]) \cap Young = {}
    BY DEF EvacuationComplete
  <2>1. Roots \subseteq Old
    BY DEF GraphInv, Sound, Evacuated, Closed, Slots, Kept, Dead
  <2>2. ASSUME NEW a \in Addr, fwd[a] # Null PROVE Children(fwd[a]) \cap Young = {}
    <3>1. fwd[a] \in Old /\ IsObject(fwd[a])
      BY <2>2 DEF GraphInv, CopiesOld, Copies, Evacuating
    <3> QED BY <3>1 DEF GraphInv, OldClosed, Kept, MinorPhases
  <2> QED BY <2>1, <2>2, RegionFacts
<1> QED BY <1>1, AlwaysGraphInv, PTL

\* While the program runs, the card of every old object that refers to eden is
\* dirty (mutator.rs:142-165, card_table.rs:12-23), as long as none of the named
\* risks has occurred, for cards and objects of any size.
THEOREM CardsAreDirty == Spec => []CardsCover
<1>1. GraphInv => CardsCover
  BY DEF GraphInv
<1> QED BY <1>1, AlwaysGraphInv, PTL

\* Whatever the program does, no bytecode and no step of the collector reads
\* through a stale reference, and the walk of the old generation is never off a
\* header, unless one of the named risks has occurred (mod.rs:162-937,
\* marker.rs:62-84, sweeper.rs:119-166).
THEOREM NoStaleRead == Spec => []NoWildRead
<1>1. GraphInv => NoWildRead
  BY DEF GraphInv
<1> QED BY <1>1, AlwaysGraphInv, PTL

\* A collection is invisible to the program, for regions, classes and graphs of
\* any size: no step of the marker, promoter or sweeper changes what a slot
\* denotes or the class or a field of an object the program can reach, although
\* every survivor of eden moves (collector.rs collect_minor and collect_major),
\* as long as none of the named risks has occurred.
THEOREM CollectionIsInvisible == Spec => GraphPreserved
<1>1. ASSUME GraphInv, Next, pc \in MinorPhases \cup MajorPhases, risk' = {}
      PROVE  View' = View
  <2>1. ~Bytecode
    BY <1>1, BytecodeQuiet DEF MinorPhases, MajorPhases
  <2>2. ~AllocStep
    BY <1>1 DEF AllocStep, AllocOk, AllocFull, Retry, GiveUp, MinorPhases, MajorPhases
  <2> QED BY <1>1, <2>1, <2>2, CollectView DEF Next, Collect, Kept
<1>2. GraphInv /\ [Next]_vars
        => [(pc \in MinorPhases \cup MajorPhases /\ risk' = {}) => View' = View]_vars
  BY <1>1
<1> QED BY <1>2, AlwaysGraphInv, PTL DEF Spec, GraphPreserved
================================================================================
