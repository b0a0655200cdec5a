------------------------------- MODULE ManagedHeap -------------------------------
(***************************************************************************)
(* What a garbage-collected heap promises the program that runs on it,     *)
(* stated without addresses, regions, marks or collections.  An object is  *)
(* an identity that no other object ever has; a value is an identity or    *)
(* Null.  There is one action per kind of bytecode, and no action in which *)
(* anything happens to an object nobody touched: a collection is a         *)
(* stuttering step.                                                        *)
(*                                                                         *)
(* `kept' ends the promise: an implementation may give it up (Forfeit), of *)
(* its own accord and once for all, and owes nothing afterwards.           *)
(***************************************************************************)
EXTENDS Naturals, SequencesExt

CONSTANTS
    Null,      \* no object
    Classes,
    FieldIds,  \* reference fields of any class
    Pointers,  \* Pointers[c]: the reference fields of class c
    Locals,    \* locals of a frame
    Statics    \* static fields

VARIABLES
    calls,     \* call stack: locals and operand stack of each frame
    statics,   \* static fields
    graph,     \* the objects the program can still reach
    next,      \* the next identity
    kept       \* the promise stands

vars == <<calls, statics, graph, next, kept>>

Init ==
    /\ calls = <<>>
    /\ statics = [s \in Statics |-> Null]
    /\ graph = {}
    /\ next = 1
    /\ kept = TRUE

-------------------------------------------------------------------------------
\* What is named by the slots of call stack c and statics s.
Named(c, s) ==
    (UNION {ToSet(c[i].loc) \cup ToSet(c[i].stk) : i \in DOMAIN c})
      \cup {s[x] : x \in Statics}

\* The objects of set objs that a chain of fields leads to from `ids': all but
\* those in a set that neither ids nor a field of an object outside it names.
Reachable(ids, objs) ==
    LET Unnamed(U) == \A u \in U :
                        /\ u.id \notin ids
                        /\ \A o \in objs \ U : \A k \in Pointers[o.cls] : o.fields[k] # u.id
    IN  {o \in objs : \A U \in SUBSET objs : Unnamed(U) => o \notin U}

\* A step to call stack c, statics s and objects objs; what can no longer be
\* reached is gone.
Become(c, s, objs) ==
    /\ kept /\ kept' = TRUE
    /\ calls' = c
    /\ statics' = s
    /\ graph' = Reachable(Named(c, s), objs)

Running == calls # <<>>

Frame == Last(calls)
Top == Last(Frame.stk)
Under(n) == SubSeq(Frame.stk, 1, Len(Frame.stk) - n)
WithStack(s) == [calls EXCEPT ![Len(calls)].stk = s]

Depth(n) == Running /\ Len(Frame.stk) >= n

\* A frame whose first locals are the arguments.
Entry(args) ==
    [loc |-> [j \in 1..Locals |-> IF j <= Len(args) THEN args[j] ELSE Null],
     stk |-> <<>>]

-------------------------------------------------------------------------------
Enter == ~Running /\ Become(<<Entry(<<>>)>>, statics, graph) /\ UNCHANGED next

\* The values a bytecode can push: constants, locals, statics, the topmost operand.
Pushable ==
    {Null} \cup ToSet(Frame.loc) \cup {statics[s] : s \in Statics}
      \cup (IF Frame.stk = <<>> THEN {} ELSE {Top})

Push ==
    /\ Running
    /\ \E v \in Pushable : Become(WithStack(Append(Frame.stk, v)), statics, graph)
    /\ UNCHANGED next

Pop == Depth(1) /\ Become(WithStack(Under(1)), statics, graph) /\ UNCHANGED next

Store ==
    /\ Depth(1)
    /\ \E j \in 1..Locals :
         Become([calls EXCEPT ![Len(calls)] =
                   [loc |-> [@.loc EXCEPT ![j] = Top], stk |-> Under(1)]],
                statics, graph)
    /\ UNCHANGED next

PutStatic ==
    /\ Depth(1)
    /\ \E s \in Statics :
         Become(WithStack(Under(1)), [statics EXCEPT ![s] = Top], graph)
    /\ UNCHANGED next

\* Reading a field gives what was last written to it.
GetField ==
    /\ Depth(1)
    /\ \E o \in graph : o.id = Top /\ \E k \in Pointers[o.cls] :
         Become(WithStack(Append(Under(1), o.fields[k])), statics, graph)
    /\ UNCHANGED next

\* Writing a field changes that field of that object.
PutField ==
    /\ Depth(2)
    /\ \E o \in graph : o.id = Frame.stk[Len(Frame.stk) - 1] /\ \E k \in Pointers[o.cls] :
         Become(WithStack(Under(2)), statics,
                (graph \ {o}) \cup {[o EXCEPT !.fields[k] = Top]})
    /\ UNCHANGED next

\* A new object: an identity of its own, every field null.
New ==
    /\ Running
    /\ \E c \in Classes :
         Become(WithStack(Append(Frame.stk, next)), statics,
                graph \cup {[id |-> next, cls |-> c, fields |-> [k \in FieldIds |-> Null]]})
    /\ next' = next + 1

\* The arguments leave the caller's stack, and are the callee's first locals if
\* there is a callee.
Call ==
    /\ Running
    /\ \E n \in 0..Len(Frame.stk) :
         \/ Become(WithStack(Under(n)), statics, graph)
         \/ /\ n <= Locals
            /\ Become(Append(WithStack(Under(n)),
                             Entry(SubSeq(Frame.stk, Len(Frame.stk) - n + 1, Len(Frame.stk)))),
                      statics, graph)
    /\ UNCHANGED next

Return ==
    /\ Running
    /\ \/ Become(Front(calls), statics, graph)
       \/ /\ Depth(1)
          /\ Len(calls) > 1
          /\ Become([Front(calls) EXCEPT ![Len(calls) - 1].stk = Append(@, Top)],
                    statics, graph)
    /\ UNCHANGED next

\* An exception or OutOfMemory: the whole call stack goes, the statics stay.
Unwind == Running /\ Become(<<>>, statics, graph) /\ UNCHANGED next

Forfeit ==
    /\ kept /\ ~kept'
    /\ calls' = <<>> /\ graph' = {}
    /\ statics' = [s \in Statics |-> Null]
    /\ next' = 1

Next ==
    \/ Enter \/ Push \/ Pop \/ Store \/ PutStatic \/ GetField \/ PutField
    \/ New \/ Call \/ Return \/ Unwind \/ Forfeit

Spec == Init /\ [][Next]_vars
===============================================================================
