-------------------------------- MODULE Runtime --------------------------------
(***************************************************************************)
(* The interpreter (interpreter/mod.rs) on one Mutator (mutator.rs) over   *)
(* the collector: the bytecodes that move references between locals,       *)
(* operand stack, fields and statics, calls and returns, and NEW with the  *)
(* collections it triggers.  Values that are not references behave like    *)
(* null here; arithmetic, branches and I/O move no reference and are left  *)
(* out.  A collection runs between two bytecodes of this one thread.       *)
(*                                                                         *)
(* Bounds: MaxNew objects, MaxDepth frames, MaxStack operands.             *)
(***************************************************************************)
EXTENDS Collector

CONSTANTS MaxNew, MaxDepth, MaxStack

ASSUME RuntimeAssumption ==
    MaxNew \in Nat /\ MaxDepth \in Nat \ {0} /\ MaxStack \in Nat

VARIABLES
    want,     \* class NEW is allocating
    retries,  \* NEW's gc_retries
    next      \* ghost: identity of the next object

mutVars == <<want, retries, next>>
vars == <<heapVars, gcVars, mutVars>>

MaxRetries == 8

RuntimeInit ==
    /\ want \in Classes
    /\ retries = 0
    /\ next = 1

Init == HeapInit /\ GcInit /\ RuntimeInit

TypeOK ==
    /\ HeapTypeOK
    /\ GcTypeOK
    /\ want \in Classes
    /\ retries \in 0..MaxRetries
    /\ next \in Nat \ {0}

-------------------------------------------------------------------------------
(* Bytecodes *)

Executing == pc = "run" /\ frames # <<>>

Current == frames[Len(frames)]
Stack == Current.stk

\* The call stack with the current frame's operand stack replaced.
WithStack(s) == [frames EXCEPT ![Len(frames)].stk = s]

\* The operand stack without its topmost n values.
Drop(n) == SubSeq(Stack, 1, Len(Stack) - n)

Push(v) ==
    /\ Len(Stack) < MaxStack
    /\ frames' = WithStack(Append(Stack, v))
    /\ UNCHANGED <<mem, top, free, cards, statics, gcVars, mutVars>>

\* Interpreter::execute called by the host on an empty call stack, and the
\* frame it builds: every local is Void.
NewFrame(args) ==
    [loc |-> [j \in 1..Locals |-> IF j <= Len(args) THEN args[j] ELSE Null],
     stk |-> <<>>]

Enter ==
    /\ pc = "run"
    /\ frames = <<>>
    /\ frames' = <<NewFrame(<<>>)>>
    /\ UNCHANGED <<mem, top, free, cards, statics, gcVars, mutVars>>

\* A result that is not a return: every execute() on the stack passes it up
\* and pops its frame (exception tables are not consulted).
Unwind == frames' = <<>>

Wild == pc' = "wild" /\ UNCHANGED <<work, cursor, fwd, walk, risk>>

AconstNull == Executing /\ Push(Null)

Aload(j) == Executing /\ Push(Current.loc[j])

Dup == Executing /\ Stack # <<>> /\ Push(Last(Stack))

\* Leaves the value on the operand stack.
FaultyAstore(j) ==
    /\ Executing
    /\ Stack # <<>>
    /\ frames' = [frames EXCEPT ![Len(frames)].loc[j] = Last(Stack)]
    /\ UNCHANGED <<mem, top, free, cards, statics, gcVars, mutVars>>

Astore(j) ==
    /\ Executing
    /\ Stack # <<>>
    /\ frames' = [frames EXCEPT ![Len(frames)] =
                    [loc |-> [@.loc EXCEPT ![j] = Last(Stack)], stk |-> Drop(1)]]
    /\ UNCHANGED <<mem, top, free, cards, statics, gcVars, mutVars>>

Pop ==
    /\ Executing
    /\ Stack # <<>>
    /\ frames' = WithStack(Drop(1))
    /\ UNCHANGED <<mem, top, free, cards, statics, gcVars, mutVars>>

\* The bytecodes that end in self.exception(..) for a reason of their own: a
\* constant of the wrong kind, an unknown field, method or opcode, / by zero.
Exception ==
    /\ Executing
    /\ Unwind
    /\ UNCHANGED <<mem, top, free, cards, statics, gcVars, mutVars>>

\* GETFIELD: null throws; a reference to no object reads whatever is there.
GetField(k) ==
    /\ Executing
    /\ Stack # <<>>
    /\ LET obj == Last(Stack)
       IN  \/ obj = Null /\ Unwind /\ UNCHANGED gcVars
           \/ /\ IsObject(obj)
              /\ k \in Pointers[mem[obj].cls]
              /\ frames' = WithStack(Append(Drop(1), mem[obj].fields[k]))
              /\ UNCHANGED gcVars
           \/ obj # Null /\ ~IsObject(obj) /\ Wild /\ UNCHANGED frames
    /\ UNCHANGED <<mem, top, free, cards, statics, mutVars>>

\* Takes the generations the wrong way round.
FaultyDirtied(obj, value) ==
    IF value # Null /\ InYoung(obj) /\ InOld(value)
    THEN cards \cup {CardIndex(obj + HeaderWords)}
    ELSE cards

\* The card of an old holder that now refers to a young value.
Dirtied(obj, value) ==
    IF value # Null /\ InOld(obj) /\ InYoung(value)
    THEN cards \cup {CardIndex(obj + HeaderWords)}
    ELSE cards

\* PUTFIELD: Mutator::write_barrier stores the value and dirties the card.
PutField(k) ==
    /\ Executing
    /\ Len(Stack) >= 2
    /\ LET value == Last(Stack)
           obj   == Stack[Len(Stack) - 1]
       IN  \/ obj = Null /\ Unwind /\ UNCHANGED <<mem, cards, gcVars>>
           \/ /\ IsObject(obj)
              /\ k \in Pointers[mem[obj].cls]
              /\ mem' = [mem EXCEPT ![obj].fields[k] = value]
              /\ cards' = Dirtied(obj, value)
              /\ frames' = WithStack(Drop(2))
              /\ UNCHANGED gcVars
           \/ obj # Null /\ ~IsObject(obj) /\ Wild /\ UNCHANGED <<mem, cards, frames>>
    /\ UNCHANGED <<top, free, statics, mutVars>>

GetStatic(s) == Executing /\ Push(statics[s])

PutStatic(s) ==
    /\ Executing
    /\ Stack # <<>>
    /\ statics' = [statics EXCEPT ![s] = Last(Stack)]
    /\ frames' = WithStack(Drop(1))
    /\ UNCHANGED <<mem, top, free, cards, gcVars, mutVars>>

\* INVOKE*: n values are popped; a null receiver throws, and so does a callee
\* with fewer locals than arguments.  Object.<init> and natives push no frame.
\* INVOKEVIRTUAL reads the receiver's header, and println the one of args[1].
Invoke(n, hasReceiver) ==
    /\ Executing
    /\ Len(Stack) >= n
    /\ hasReceiver => n > 0
    /\ LET args   == SubSeq(Stack, Len(Stack) - n + 1, Len(Stack))
           caller == WithStack(Drop(n))
       IN  \/ hasReceiver /\ args[1] = Null /\ Unwind /\ UNCHANGED gcVars
           \/ n > Locals /\ Unwind /\ UNCHANGED gcVars
           \/ /\ hasReceiver => args[1] # Null
              /\ \/ frames' = caller
                 \/ n <= Locals /\ Len(frames) < MaxDepth
                      /\ frames' = Append(caller, NewFrame(args))
              /\ UNCHANGED gcVars
           \/ /\ \E i \in DOMAIN args \cap (IF hasReceiver THEN {1, 2} ELSE {2}) :
                   args[i] # Null /\ ~IsObject(args[i])
              /\ hasReceiver => args[1] # Null
              /\ Wild /\ UNCHANGED frames
    /\ UNCHANGED <<mem, top, free, cards, statics, mutVars>>

Return ==
    /\ Executing
    /\ frames' = Front(frames)
    /\ UNCHANGED <<mem, top, free, cards, statics, gcVars, mutVars>>

\* The result goes to the caller's operand stack, or to the host.
Areturn ==
    /\ Executing
    /\ Stack # <<>>
    /\ Len(frames) > 1 => Len(frames[Len(frames) - 1].stk) < MaxStack
    /\ frames' = IF Len(frames) = 1 THEN <<>>
                 ELSE [Front(frames) EXCEPT ![Len(frames) - 1].stk = Append(@, Last(Stack))]
    /\ UNCHANGED <<mem, top, free, cards, statics, gcVars, mutVars>>

\* ATHROW formats the thrown object, which reads its header.
Throw ==
    /\ Executing
    /\ Stack # <<>>
    /\ \/ (Last(Stack) = Null \/ IsObject(Last(Stack))) /\ Unwind /\ UNCHANGED gcVars
       \/ Last(Stack) # Null /\ ~IsObject(Last(Stack)) /\ Wild /\ UNCHANGED frames
    /\ UNCHANGED <<mem, top, free, cards, statics, mutVars>>

-------------------------------------------------------------------------------
(* NEW *)

New(c) ==
    /\ Executing
    /\ next <= MaxNew
    /\ Len(Stack) < MaxStack
    /\ want' = c
    /\ retries' = 0
    /\ pc' = "alloc"
    /\ UNCHANGED <<heapVars, work, cursor, fwd, walk, risk, next>>

\* Tests the cursor before the object instead of behind it.
FaultyFitsEdenLoose(c) == top < YoungEnd

\* Leaves the last word of eden unused.
FaultyFitsEdenStrict(c) == top + Size[c] < YoungEnd

\* BumpAllocator::alloc
FitsEden(c) == top + Size[c] <= YoungEnd

\* Allocates black.
FaultyFresh(c) == [cls    |-> c,
                   mark   |-> "Black",
                   fields |-> [k \in FieldIds |-> Null],
                   id     |-> next]

Fresh(c) == [cls    |-> c,
             mark   |-> "White",
             fields |-> [k \in FieldIds |-> Null],
             id     |-> next]

\* Mutator::alloc returns Ok: header written, payload zeroed, reference pushed.
AllocOk ==
    /\ pc = "alloc"
    /\ FitsEden(want)
    /\ mem' = [mem EXCEPT ![top] = Fresh(want)]
    /\ top' = top + Size[want]
    /\ frames' = WithStack(Append(Stack, top))
    /\ next' = next + 1
    /\ pc' = "run"
    /\ risk' = IF Flush(top, Size[want]) THEN risk \cup {"flush"} ELSE risk
    /\ UNCHANGED <<free, cards, statics, work, cursor, fwd, walk, want, retries>>

\* It returns NeedMinorGC: collect_minor is called.
AllocFull ==
    /\ pc = "alloc"
    /\ ~FitsEden(want)
    /\ pc' = "mark"
    /\ risk' = risk \cup UntracedEden
    /\ UNCHANGED <<heapVars, work, cursor, fwd, walk, mutVars>>

Retry ==
    /\ pc = "retry"
    /\ retries < MaxRetries
    /\ retries' = retries + 1
    /\ pc' = "alloc"
    /\ UNCHANGED <<heapVars, work, cursor, fwd, walk, risk, want, next>>

\* gc_retries > 8: OutOfMemory unwinds the call stack.
GiveUp ==
    /\ pc = "retry"
    /\ retries = MaxRetries
    /\ Unwind
    /\ pc' = "run"
    /\ UNCHANGED <<mem, top, free, cards, statics, work, cursor, fwd, walk, risk, mutVars>>

-------------------------------------------------------------------------------
Bytecode ==
    \/ Enter \/ AconstNull \/ Dup \/ Pop \/ Return \/ Areturn \/ Throw \/ Exception
    \/ \E j \in 1..Locals : Aload(j) \/ Astore(j)
    \/ \E k \in FieldIds : GetField(k) \/ PutField(k)
    \/ \E s \in Statics : GetStatic(s) \/ PutStatic(s)
    \/ \E n \in 0..(Locals + 1), r \in BOOLEAN : Invoke(n, r)
    \/ \E c \in Classes : New(c)

Collect == /\ Minor \/ Major
           /\ UNCHANGED mutVars

AllocStep == AllocOk \/ AllocFull \/ Retry \/ GiveUp

Next == Bytecode \/ Collect \/ AllocStep

\* The thread that entered NEW is not descheduled for ever.
Spec == Init /\ [][Next]_vars /\ WF_vars(Collect \/ AllocStep)

-------------------------------------------------------------------------------
(* The object graph as the program sees it *)

Slots == Roots \cup OperandRefs \cup StaticRefs

\* The objects of F that a chain of children in F leads to from S: all but those
\* in a set that neither S nor a field of an object outside it names.
ReachFrom(S, F) ==
    LET objs == {a \in F : IsObject(a)}
        Unnamed(U) == \A u \in U :
                        /\ u \notin S
                        /\ \A a \in objs \ U : u \notin Children(a)
    IN  {a \in objs : \A U \in SUBSET objs : Unnamed(U) => a \notin U}

Dangling == 0 - 1

\* The object a reference denotes, whatever its address is.
Denote(r) == IF r = Null THEN Null ELSE IF IsObject(r) THEN mem[r].id ELSE Dangling

CallsSeen ==
    [i \in DOMAIN frames |->
       [loc |-> [j \in 1..Locals |-> Denote(frames[i].loc[j])],
        stk |-> [j \in DOMAIN frames[i].stk |-> Denote(frames[i].stk[j])]]]

StaticsSeen == [s \in Statics |-> Denote(statics[s])]

GraphSeen ==
    {[id     |-> mem[a].id,
      cls    |-> mem[a].cls,
      fields |-> [k \in FieldIds |-> Denote(mem[a].fields[k])]] :
        a \in ReachFrom(Slots, Addr)}

View == <<CallsSeen, StaticsSeen, GraphSeen>>

-------------------------------------------------------------------------------
(* Properties *)

\* A collection is invisible to the program: no step of the marker, promoter or
\* sweeper changes what any slot denotes or any reachable object's class and
\* fields, although every survivor moves (collector.rs collect_minor and
\* collect_major), provided none of the named risks has occurred.
GraphPreserved ==
    [][ (pc \in MinorPhases \cup MajorPhases /\ risk' = {}) => View' = View ]_vars

\* The tri-colour invariant of mark_minor and drain (marker.rs:16-84): no root
\* in eden and no child in eden of a black object is still white, and every
\* grey object waits in the worklist.
EdenMarked ==
    pc \in {"drain", "sweep"} =>
      /\ \A r \in Roots : InYoung(r) /\ IsObject(r) => Marked(r)
      /\ \A a \in Young : IsObject(a) =>
           /\ mem[a].mark = "Grey" => a \in work
           /\ mem[a].mark = "Black" =>
                \A c \in Children(a) : InYoung(c) /\ IsObject(c) => Marked(c)

\* mark_minor is exact: when the sweep starts, black is what the locals reach
\* inside eden, no more (garbage is not promoted) and no less (marker.rs,
\* sweeper.rs:41-57).  An object flush against eden's end escapes it.
MarkExact ==
    (pc = "sweep" /\ cursor = YoungBase /\ "flush" \notin risk) =>
      {a \in Young : Marked(a)} = ReachFrom(Roots, Young)

\* The linear walk of sweep_young (sweeper.rs:30-83) always stands on a header:
\* objects tile eden from its base to the bump cursor.
EdenTiled ==
    /\ top > YoungBase => IsObject(YoungBase)
    /\ \A a \in Young : IsObject(a) =>
         LET end == a + SizeAt(a)
         IN  /\ end = top \/ (end < top /\ IsObject(end))
             /\ \A b \in (a + 1)..(end - 1) : ~IsObject(b)
    /\ pc = "sweep" => cursor = top \/ (cursor < top /\ IsObject(cursor))

\* promote never copies an object over another one or over a free block, and
\* sweep_old never lists a word of a live object (promoter.rs:34-53,
\* freelist.rs, sweeper.rs:119-166).
OldExclusive ==
    LET objs == {Block(a, SizeAt(a)) : a \in {b \in Old : IsObject(b)}}
    IN  /\ \A b \in objs : b.addr + b.size <= OldEnd
        /\ \A b, c \in objs : b # c => Apart(b, c)
        /\ \A i \in DOMAIN free : \A b \in objs : Apart(free[i], b)
        /\ PairwiseApart(free)

\* The ordering sweep_young insists on (sweeper.rs:85-101): before eden is wiped
\* no registered root and no field of a promoted object still refers to it.
EvacuationComplete ==
    (pc = "reset" /\ risk = {}) =>
      /\ Roots \cap Young = {}
      /\ \A a \in Addr : fwd[a] # Null => Children(fwd[a]) \cap Young = {}

\* The card table covers every reference the write barrier and promotion leave
\* from old to young (mutator.rs:142-165, card_table.rs:12-23): while the
\* program runs, an old object that refers to eden has a dirty card.
CardsCover ==
    (pc \in {"run", "alloc"} /\ risk = {}) =>
      \A a \in Old : (IsObject(a) /\ Children(a) \cap Young # {}) =>
        CardIndex(a + HeaderWords) \in cards

\* Without one of the named risks nothing reads or marks through a stale
\* reference (marker.rs:30, 46, 75 write before anything is checked), and the
\* walk of the old generation is never off a header.
NoWildRead == pc = "wild" => risk # {}

\* One minor collection is enough for NEW (mod.rs:538-559): a second one is
\* only ever started for a class that an empty eden cannot hold, so the program
\* dies of OutOfMemory for no other reason.
OneCollectionEnough ==
    (pc = "retry" /\ retries > 0) => Size[want] > YoungWords

\* NEW always comes back: with an object, with OutOfMemory, or because the
\* program ended in one of the three dead phases.
AllocationReturns == (pc = "alloc") ~> (pc \in {"run"} \cup Dead)

-------------------------------------------------------------------------------
(* What the repository says and the code does not do *)

\* "frame.slots must contain *mut *mut GcHeader for every local variable slot and
\* operand stack slot in this frame that can hold an object ref" (mutator.rs:
\* 178-179): a reference on an operand stack survives every collection.
OperandRefsLive == \A r \in OperandRefs : IsObject(r)

\* "Black = 2, // fully scanned" (header.rs:10): when the marking of the old
\* generation is over, no child of a black object is white.
BlackMeansScanned ==
    (pc = "sweepold" /\ cursor = OldBase) =>
      \A a \in Old : (IsObject(a) /\ mem[a].mark = "Black") =>
        \A c \in Children(a) : IsObject(c) => mem[c].mark # "White"

\* "safe-guard ... A zero-size allocation" (sweeper.rs:130-132): the walk of the
\* old generation never meets a header of size zero.
NoZeroSize == pc # "panic"
===============================================================================
