---------------------------- MODULE RuntimeRefinement ----------------------------
(***************************************************************************)
(* The interpreter on its two-generation collector implements a managed    *)
(* heap.  Addresses are mapped to identities, colours, regions, cards and  *)
(* the free list to nothing, and the promise stands until one of the named *)
(* risks of module Collector occurs.                                       *)
(***************************************************************************)
EXTENDS Runtime

Kept == risk = {}

Managed == INSTANCE ManagedHeap WITH
    calls   <- IF Kept THEN CallsSeen ELSE <<>>,
    statics <- IF Kept THEN StaticsSeen ELSE [s \in Statics |-> Null],
    graph   <- IF Kept THEN GraphSeen ELSE {},
    next    <- IF Kept THEN next ELSE 1,
    kept    <- Kept

\* Every step of the interpreter, the allocator and the collector (mod.rs
\* 162-937, mutator.rs, collector.rs) is the managed heap's step for that
\* bytecode or invisible to the program: objects keep their identity, class
\* and fields through every copy, a field reads as last written, a new object
\* is new and null, and a frame gets its arguments and its result.
ImplementsManagedHeap == Managed!Spec
===============================================================================
