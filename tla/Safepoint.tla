------------------------------- MODULE Safepoint -------------------------------
(***************************************************************************)
(* SafepointCoordinator (gc/safepoint.rs) and the do_stw brackets that     *)
(* Collector::collect_minor and collect_major put around a collection      *)
(* (gc/collector.rs): mutator threads that register, poll, park, resume    *)
(* and unregister, and one thread that stops them.  The coordinator is the *)
(* one part of the collector that is shared between threads (an Arc).      *)
(*                                                                         *)
(* One action per atomic operation or critical section.  A mutex is held   *)
(* only inside one action, so none is modelled.  The atomics interleave    *)
(* sequentially: the Relaxed operations are read-modify-writes and loads   *)
(* of one variable each, and a load that returns an old flag is the same   *)
(* poll made earlier.                                                      *)
(*                                                                         *)
(* Gc is the thread that collects.  In the code it is a mutator (NEW calls *)
(* collect_minor on the interpreter's own thread); the comments of         *)
(* safepoint.rs speak of a collector beside the mutators.  Both are        *)
(* instances: Gc is in Threads or it is not.                               *)
(***************************************************************************)
EXTENDS Integers, FiniteSets

CONSTANTS
    Threads,    \* mutator threads
    Joiners,    \* those that are created while the others run
    Leavers,    \* those that may exit
    Gc,         \* the collecting thread
    MaxCycles   \* bound on the collections

ASSUME SafepointAssumption ==
    /\ IsFiniteSet(Threads)
    /\ Joiners \subseteq Threads
    /\ Leavers \subseteq Threads
    /\ MaxCycles \in Nat

VARIABLES
    requested,     \* AtomicBool requested
    threadCount,   \* AtomicUsize thread_count
    parkedCount,   \* AtomicUsize parked_count
    released,      \* resume_barrier.0
    at,            \* at[t]: where thread t is
    gc,            \* where the collection is
    prev,          \* prev[t]: what park's fetch_add returned
    woken,         \* sleeping threads that a notify_all has reached
    cycles,        \* collections begun
    risk           \* ghost: the causes of known departures that have occurred

vars == <<requested, threadCount, parkedCount, released, at, gc, prev, woken, cycles, risk>>

\* "out": not registered.  "exec": running bytecode.  Inside park: "add" before
\* the fetch_add, "load" before the load of thread_count, "last" before the
\* notification, "gate" before the resume mutex, "asleep" in its wait_while.
\* "collect": this thread runs the collection.
Places == {"out", "exec", "add", "load", "last", "gate", "asleep", "collect"}

\* "late": a thread registers in a stopped world.  "exit": a thread exits, and
\* the collector sleeps and has nobody left to wait for.  "again": a stop begins
\* while a thread is still on its way out of the one before.
Risks == {"late", "exit", "again"}

\* Each place is named for the step just taken.  "begun", "closed", "raised":
\* request_safepoint; "raised", "asleep": wait_for_all_threads; "stopped": the
\* world is stopped; "lowered", "opened", "notified": release_threads.
\* "alone": do_stw was false and nothing is stopped.
GcPlaces == {"idle", "begun", "closed", "raised", "asleep", "stopped",
             "lowered", "opened", "notified", "alone"}

\* Threads between park's fetch_add and their next bytecode.
InPark == {t \in Threads : at[t] \in {"load", "last", "gate", "asleep"}}

Registered == {t \in Threads : at[t] # "out"}

TypeOK ==
    /\ requested \in BOOLEAN
    /\ threadCount \in Nat
    /\ parkedCount \in Nat
    /\ released \in BOOLEAN
    /\ at \in [Threads -> Places]
    /\ gc \in GcPlaces
    /\ prev \in [Threads -> Nat]
    /\ woken \subseteq Threads \cup {Gc}
    /\ cycles \in 0..MaxCycles
    /\ risk \subseteq Risks

Init ==
    /\ requested = FALSE
    /\ threadCount = Cardinality(Threads \ Joiners)
    /\ parkedCount = 0
    /\ released = FALSE
    /\ at = [t \in Threads |-> IF t \in Joiners THEN "out" ELSE "exec"]
    /\ gc = "idle"
    /\ prev = [t \in Threads |-> 0]
    /\ woken = {}
    /\ cycles = 0
    /\ risk = {}

-------------------------------------------------------------------------------
(* Mutator threads *)

\* Mutator::new
Register(t) ==
    /\ t \in Joiners
    /\ at[t] = "out"
    /\ threadCount' = threadCount + 1
    /\ at' = [at EXCEPT ![t] = "exec"]
    /\ risk' = IF gc \in {"stopped", "lowered"} THEN risk \cup {"late"} ELSE risk
    /\ UNCHANGED <<requested, parkedCount, released, gc, prev, woken, cycles>>

\* A mutator dropped twice.
FaultyUnregister(t) ==
    /\ t \in Leavers
    /\ at[t] \in {"exec", "out"}
    /\ threadCount' = threadCount - 1
    /\ at' = [at EXCEPT ![t] = "out"]
    /\ UNCHANGED <<requested, parkedCount, released, gc, prev, woken, cycles, risk>>

\* Drop for Mutator: nobody is notified.
Unregister(t) ==
    /\ t \in Leavers
    /\ at[t] = "exec"
    /\ threadCount' = threadCount - 1
    /\ at' = [at EXCEPT ![t] = "out"]
    /\ risk' = IF gc = "asleep" /\ parkedCount >= threadCount' THEN risk \cup {"exit"} ELSE risk
    /\ UNCHANGED <<requested, parkedCount, released, gc, prev, woken, cycles>>

\* poll_and_park reads the flag; only a set flag leads anywhere.
Poll(t) ==
    /\ at[t] = "exec"
    /\ requested
    /\ at' = [at EXCEPT ![t] = "add"]
    /\ UNCHANGED <<requested, threadCount, parkedCount, released, gc, prev, woken, cycles, risk>>

ParkAdd(t) ==
    /\ at[t] = "add"
    /\ prev' = [prev EXCEPT ![t] = parkedCount]
    /\ parkedCount' = parkedCount + 1
    /\ at' = [at EXCEPT ![t] = "load"]
    /\ UNCHANGED <<requested, threadCount, released, gc, woken, cycles, risk>>

ParkLoad(t) ==
    /\ at[t] = "load"
    /\ at' = [at EXCEPT ![t] = IF prev[t] + 1 = threadCount THEN "last" ELSE "gate"]
    /\ UNCHANGED <<requested, threadCount, parkedCount, released, gc, prev, woken, cycles, risk>>

\* Sets the boolean and notifies nobody.
FaultyParkNotify(t) ==
    /\ at[t] = "last"
    /\ at' = [at EXCEPT ![t] = "gate"]
    /\ UNCHANGED <<requested, threadCount, parkedCount, released, gc, prev, woken, cycles, risk>>

\* The last thread wakes the collector, under the mutex it sleeps on.
ParkNotify(t) ==
    /\ at[t] = "last"
    /\ woken' = IF gc = "asleep" THEN woken \cup {Gc} ELSE woken
    /\ at' = [at EXCEPT ![t] = "gate"]
    /\ UNCHANGED <<requested, threadCount, parkedCount, released, gc, prev, cycles, risk>>

\* The resume mutex: through an open gate, or to sleep before a closed one.
ParkGate(t) ==
    /\ at[t] = "gate"
    /\ at' = [at EXCEPT ![t] = IF released THEN "exec" ELSE "asleep"]
    /\ UNCHANGED <<requested, threadCount, parkedCount, released, gc, prev, woken, cycles, risk>>

\* wait_while tests the gate again, after a notification or spuriously.
Recheck(t) ==
    /\ at[t] = "asleep"
    /\ at' = [at EXCEPT ![t] = IF released THEN "exec" ELSE "asleep"]
    /\ woken' = woken \ {t}
    /\ UNCHANGED <<requested, threadCount, parkedCount, released, gc, prev, cycles, risk>>

-------------------------------------------------------------------------------
(* The collection *)

GcStep(from, to) == gc = from /\ gc' = to

\* collect_minor or collect_major: do_stw is thread_count() > 1.
Begin ==
    /\ cycles < MaxCycles
    /\ cycles' = cycles + 1
    /\ Gc \in Threads => at[Gc] = "exec"
    /\ at' = IF Gc \in Threads THEN [at EXCEPT ![Gc] = "collect"] ELSE at
    /\ GcStep("idle", IF threadCount > 1 THEN "begun" ELSE "alone")
    /\ UNCHANGED <<requested, threadCount, parkedCount, released, prev, woken, risk>>

Close ==
    /\ GcStep("begun", "closed")
    /\ released' = FALSE
    /\ risk' = IF InPark = {} THEN risk ELSE risk \cup {"again"}
    /\ UNCHANGED <<requested, threadCount, parkedCount, at, prev, woken, cycles>>

Raise ==
    /\ GcStep("closed", "raised")
    /\ requested' = TRUE
    /\ UNCHANGED <<threadCount, parkedCount, released, at, prev, woken, cycles, risk>>

\* Does not wait for the last thread.
FaultyAllParked == parkedCount + 1 >= threadCount

\* wait_while's condition, tested on entry and after each wake-up.
AllParked == parkedCount >= threadCount

Wait ==
    /\ GcStep("raised", IF AllParked THEN "stopped" ELSE "asleep")
    /\ UNCHANGED <<requested, threadCount, parkedCount, released, at, prev, woken, cycles, risk>>

GcRecheck ==
    /\ GcStep("asleep", IF AllParked THEN "stopped" ELSE "asleep")
    /\ woken' = woken \ {Gc}
    /\ UNCHANGED <<requested, threadCount, parkedCount, released, at, prev, cycles, risk>>

Lower ==
    /\ GcStep("stopped", "lowered")
    /\ requested' = FALSE
    /\ UNCHANGED <<threadCount, parkedCount, released, at, prev, woken, cycles, risk>>

\* Notifies before a gate that is still closed.
FaultyOpen ==
    /\ GcStep("lowered", "opened")
    /\ UNCHANGED <<requested, threadCount, parkedCount, released, at, prev, woken, cycles, risk>>

Open ==
    /\ GcStep("lowered", "opened")
    /\ released' = TRUE
    /\ UNCHANGED <<requested, threadCount, parkedCount, at, prev, woken, cycles, risk>>

Notify ==
    /\ GcStep("opened", "notified")
    /\ woken' = woken \cup {t \in Threads : at[t] = "asleep"}
    /\ UNCHANGED <<requested, threadCount, parkedCount, released, at, prev, cycles, risk>>

BackToBytecode ==
    at' = IF Gc \in Threads THEN [at EXCEPT ![Gc] = "exec"] ELSE at

\* Keeps the count for the next cycle.
FaultyZero ==
    /\ GcStep("notified", "idle")
    /\ BackToBytecode
    /\ UNCHANGED <<requested, threadCount, parkedCount, released, prev, woken, cycles, risk>>

Zero ==
    /\ GcStep("notified", "idle")
    /\ parkedCount' = 0
    /\ BackToBytecode
    /\ UNCHANGED <<requested, threadCount, released, prev, woken, cycles, risk>>

EndAlone ==
    /\ GcStep("alone", "idle")
    /\ BackToBytecode
    /\ UNCHANGED <<requested, threadCount, parkedCount, released, prev, woken, cycles, risk>>

MutatorStep(t) ==
    \/ Poll(t) \/ ParkAdd(t) \/ ParkLoad(t) \/ ParkNotify(t) \/ ParkGate(t)
    \/ Recheck(t)

Collection ==
    Close \/ Raise \/ Wait \/ GcRecheck \/ Lower \/ Open \/ Notify \/ Zero \/ EndAlone

Next ==
    \/ \E t \in Threads : Register(t) \/ Unregister(t) \/ MutatorStep(t)
    \/ Begin
    \/ Collection

\* A thread keeps reaching safepoints and leaves park once it can; a sleeper
\* runs again only after a notification; a collection once begun is carried on.
\* Threads need not be created or exit, and no collection need ever begin.
Fairness ==
    /\ \A t \in Threads :
         /\ WF_vars(Poll(t) \/ ParkAdd(t) \/ ParkLoad(t) \/ ParkNotify(t) \/ ParkGate(t))
         /\ WF_vars(t \in woken /\ Recheck(t))
    /\ WF_vars(Close \/ Raise \/ Wait \/ Lower \/ Open \/ Notify \/ Zero \/ EndAlone)
    /\ WF_vars(Gc \in woken /\ GcRecheck)

Spec == Init /\ [][Next]_vars /\ Fairness

-------------------------------------------------------------------------------
\* While the collector owns the heap no registered mutator executes bytecode:
\* each has counted itself in and is held at the gate, whoever registers or
\* exits before or after, unless one registers just then (safepoint.rs:64-77).
WorldStopped ==
    (gc \in {"stopped", "lowered"} /\ "late" \notin risk) =>
      /\ \A t \in Registered \ {Gc} : t \in InPark
      /\ ~released

\* parked_count never runs ahead of the threads that are in park when the
\* collector compares it with thread_count, whatever stragglers of the last
\* cycle are still on their way out (safepoint.rs:88-89, 99-100).
NeverOvercounted ==
    (gc \in {"idle", "begun", "closed", "raised", "asleep", "stopped"} /\ "late" \notin risk) =>
      parkedCount <= Cardinality(InPark)

Stuck == risk \cap {"exit", "again"} # {}

\* A collection that was begun ends, unless it sleeps through an exit or the
\* gate was shut on a thread it waits for (collector.rs:70-123).
GcReturns == (gc = "begun") ~> (gc = "idle" \/ Stuck)

\* With the same exceptions a thread that parked executes bytecode again.
ParkedResume == \A t \in Threads : (at[t] = "load") ~> (at[t] = "exec" \/ Stuck)

\* A thread that parked executes bytecode again: "mutator threads wait here
\* until GC releases them" (safepoint.rs:18).
WaitUntilReleased == \A t \in Threads : (at[t] = "load") ~> (at[t] = "exec")
===============================================================================
