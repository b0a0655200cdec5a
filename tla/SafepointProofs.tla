---------------------------- MODULE SafepointProofs ----------------------------
(***************************************************************************)
(* For every number of mutator threads, which may register and exit at any *)
(* time: while the collector owns the heap every registered mutator is     *)
(* held at the gate, as long as no thread registers in a stopped world     *)
(* (one that does is not held: README.md, known departures).               *)
(***************************************************************************)
EXTENDS Safepoint, FiniteSetTheorems, TLAPS

\* thread_count counts the registered threads.
CountExact == threadCount = Cardinality(Registered)

\* Outside a stop nobody is counted as parked, and while the collector waits
\* the count is at most the number of threads in park.
ParkedBounded ==
    /\ gc \in {"idle", "begun", "closed", "alone"} => parkedCount = 0
    /\ gc \in {"raised", "asleep", "stopped"} => parkedCount <= Cardinality(InPark)

\* The gate is shut from request_safepoint until release_threads opens it.
GateShut == gc \in {"closed", "raised", "asleep", "stopped", "lowered"} => ~released

\* The flag is up, and threads are on their way into park, only while the
\* collector waits for them.
FlagUp ==
    /\ requested => gc \in {"raised", "asleep", "stopped"}
    /\ \A t \in Threads : at[t] = "add" => gc \in {"raised", "asleep"}

AllInPark == gc \in {"stopped", "lowered"} => Registered \subseteq InPark

\* A mutator that collects does nothing else.
Collecting == (gc # "idle" /\ Gc \in Threads) => at[Gc] = "collect"

\* What holds whenever threads register.
Base == TypeOK /\ CountExact /\ Collecting

\* What holds until one registers in a stopped world.
IInv ==
    /\ TypeOK /\ CountExact /\ ParkedBounded /\ GateShut
    /\ FlagUp /\ AllInPark /\ Collecting

Late == "late" \in risk

Inductive == Base /\ (~Late => IInv)

LEMMA Finite ==
    ASSUME TypeOK
    PROVE  /\ IsFiniteSet(Registered) /\ Cardinality(Registered) \in Nat
           /\ IsFiniteSet(InPark) /\ Cardinality(InPark) \in Nat
           /\ InPark \subseteq Registered
<1>1. IsFiniteSet(Registered) /\ IsFiniteSet(InPark)
  BY SafepointAssumption, FS_Subset DEF Registered, InPark
<1>2. Cardinality(Registered) \in Nat /\ Cardinality(InPark) \in Nat
  BY <1>1, FS_CardinalityType
<1>3. InPark \subseteq Registered
  BY DEF InPark, Registered
<1> QED BY <1>1, <1>2, <1>3

LEMMA InitIInv == ASSUME Init PROVE IInv
<1> USE SafepointAssumption DEF Init
<1>1. Registered = Threads \ Joiners /\ InPark = {} /\ IsFiniteSet(Threads \ Joiners)
  BY FS_Difference DEF Registered, InPark
<1>2. Cardinality(Threads \ Joiners) \in Nat
  BY <1>1, FS_CardinalityType
<1>3. TypeOK
  <2>1. threadCount \in Nat
    BY <1>2
  <2>2. at \in [Threads -> Places]
    BY DEF Places
  <2>3. prev \in [Threads -> Nat]
    OBVIOUS
  <2>4. /\ gc \in GcPlaces /\ cycles \in 0..MaxCycles /\ woken \subseteq Threads \cup {Gc}
        /\ risk \subseteq Risks
    BY DEF GcPlaces
  <2>5. requested \in BOOLEAN /\ released \in BOOLEAN /\ parkedCount \in Nat
    OBVIOUS
  <2> HIDE DEF Init
  <2> QED BY <2>1, <2>2, <2>3, <2>4, <2>5 DEF TypeOK
<1>4. CountExact
  BY <1>1 DEF CountExact
<1> QED BY <1>1, <1>3, <1>4 DEF IInv, ParkedBounded, GateShut, FlagUp, AllInPark, Collecting

\* wait_while ends only when nobody registered is outside park.
LEMMA AllParkedSuffices ==
    ASSUME IInv, gc \in {"raised", "asleep"}, AllParked
    PROVE  Registered \subseteq InPark
<1>1. threadCount = Cardinality(Registered) /\ parkedCount <= Cardinality(InPark)
  BY DEF IInv, CountExact, ParkedBounded
<1>2. Cardinality(Registered) <= Cardinality(InPark)
  BY <1>1, Finite DEF AllParked, IInv, TypeOK
<1> QED BY <1>2, Finite, FS_Subset DEF IInv

LEMMA MutatorStepIInv ==
    ASSUME IInv, NEW t \in Threads, MutatorStep(t)
    PROVE  IInv'
<1> USE DEF IInv
<1>1. CASE Poll(t)
  <2>1. TypeOK'
    BY <1>1 DEF Poll, TypeOK, Places
  <2>2. Registered' = Registered /\ InPark' = InPark
    BY <1>1 DEF Poll, TypeOK, Registered, InPark
  <2>3. gc \in {"raised", "asleep"}
    BY <1>1 DEF Poll, FlagUp, AllInPark, Registered, InPark
  <2>4. FlagUp' /\ Collecting'
    BY <1>1, <2>3 DEF Poll, TypeOK, FlagUp, Collecting
  <2> QED BY <1>1, <2>1, <2>2, <2>4
          DEF Poll, CountExact, ParkedBounded, GateShut, AllInPark
<1>2. CASE ParkAdd(t)
  <2>1. TypeOK'
    BY <1>2 DEF ParkAdd, TypeOK, Places
  <2>2. gc \in {"raised", "asleep"}
    BY <1>2 DEF ParkAdd, FlagUp
  <2>3. Registered' = Registered
    BY <1>2 DEF ParkAdd, TypeOK, Registered
  <2>4. InPark' = InPark \cup {t} /\ t \notin InPark
    BY <1>2 DEF ParkAdd, TypeOK, InPark
  <2>5. Cardinality(InPark') = Cardinality(InPark) + 1
    BY <2>4, Finite, FS_AddElement
  <2>6. ParkedBounded'
    BY <1>2, <2>2, <2>5, Finite DEF ParkAdd, ParkedBounded, TypeOK
  <2>7. FlagUp' /\ Collecting'
    BY <1>2, <2>2 DEF ParkAdd, TypeOK, FlagUp, Collecting
  <2> QED BY <1>2, <2>1, <2>2, <2>3, <2>6, <2>7
          DEF ParkAdd, CountExact, GateShut, AllInPark
<1>3. CASE ParkLoad(t)
  <2>1. TypeOK'
    BY <1>3 DEF ParkLoad, TypeOK, Places
  <2>2. Registered' = Registered /\ InPark' = InPark
    BY <1>3 DEF ParkLoad, TypeOK, Registered, InPark
  <2>3. FlagUp' /\ Collecting'
    BY <1>3 DEF ParkLoad, TypeOK, FlagUp, Collecting
  <2> QED BY <1>3, <2>1, <2>2, <2>3
          DEF ParkLoad, CountExact, ParkedBounded, GateShut, AllInPark
<1>4. CASE ParkNotify(t)
  <2>1. TypeOK'
    BY <1>4 DEF ParkNotify, TypeOK, Places
  <2>2. Registered' = Registered /\ InPark' = InPark
    BY <1>4 DEF ParkNotify, TypeOK, Registered, InPark
  <2>3. FlagUp' /\ Collecting'
    BY <1>4 DEF ParkNotify, TypeOK, FlagUp, Collecting
  <2> QED BY <1>4, <2>1, <2>2, <2>3
          DEF ParkNotify, CountExact, ParkedBounded, GateShut, AllInPark
<1>5. ASSUME at[t] \in {"gate", "asleep"},
             at' = [at EXCEPT ![t] = IF released THEN "exec" ELSE "asleep"],
             woken' \subseteq woken,
             UNCHANGED <<requested, threadCount, parkedCount, released, gc, prev, cycles, risk>>
      PROVE  IInv'
  <2>1. TypeOK'
    BY <1>5 DEF TypeOK, Places
  <2>2. Registered' = Registered
    BY <1>5 DEF TypeOK, Registered
  <2>3. FlagUp' /\ Collecting'
    BY <1>5 DEF TypeOK, FlagUp, Collecting
  <2>4. CASE released
    BY <1>5, <2>1, <2>2, <2>3, <2>4
    DEF CountExact, ParkedBounded, GateShut, AllInPark
  <2>5. CASE ~released
    <3>1. InPark' = InPark
      BY <1>5, <2>5 DEF TypeOK, InPark
    <3> QED BY <1>5, <2>1, <2>2, <2>3, <3>1
            DEF CountExact, ParkedBounded, GateShut, AllInPark
  <2> QED BY <2>4, <2>5
<1>6. CASE ParkGate(t)
  BY <1>5, <1>6 DEF ParkGate
<1>7. CASE Recheck(t)
  BY <1>5, <1>7 DEF Recheck
<1> QED BY <1>1, <1>2, <1>3, <1>4, <1>6, <1>7 DEF MutatorStep

LEMMA UnregisterIInv ==
    ASSUME IInv, NEW t \in Threads, Unregister(t)
    PROVE  IInv'
<1> USE DEF IInv, Unregister
<1>1. Registered' = Registered \ {t} /\ t \in Registered /\ InPark' = InPark
  BY DEF TypeOK, Registered, InPark
<1>2. CountExact'
  BY <1>1, Finite, FS_RemoveElement DEF CountExact
<1>3. TypeOK'
  <2>1. IsFiniteSet(Registered')
    BY <1>1, Finite, FS_Subset
  <2>2. threadCount' \in Nat
    BY <1>2, <2>1, FS_CardinalityType DEF CountExact
  <2>3. risk' \subseteq Risks
    BY DEF TypeOK, Risks
  <2> QED BY <2>2, <2>3 DEF TypeOK, Places
<1>4. FlagUp' /\ Collecting'
  BY DEF FlagUp, TypeOK, Collecting
<1> QED BY <1>1, <1>2, <1>3, <1>4 DEF ParkedBounded, GateShut, AllInPark

LEMMA CollectionIInv ==
    ASSUME IInv, Begin \/ Collection
    PROVE  IInv'
<1> USE DEF IInv, GcStep
<1>1. CASE Begin
  <2>1. TypeOK'
    BY <1>1, SafepointAssumption DEF Begin, TypeOK, Places, GcPlaces
  <2>2. Registered' = Registered
    BY <1>1 DEF Begin, TypeOK, Registered
  <2>3. FlagUp' /\ Collecting'
    BY <1>1 DEF Begin, TypeOK, FlagUp, Collecting
  <2> QED BY <1>1, <2>1, <2>2, <2>3
          DEF Begin, CountExact, ParkedBounded, GateShut, AllInPark
<1>2. ASSUME UNCHANGED at PROVE Registered' = Registered /\ InPark' = InPark
  BY <1>2 DEF Registered, InPark
<1>3. CASE Close
  BY <1>2, <1>3 DEF Close, TypeOK, Risks, GcPlaces, CountExact, ParkedBounded, GateShut, FlagUp, AllInPark, Collecting
<1>4. CASE Raise
  BY <1>2, <1>4, Finite
  DEF Raise, TypeOK, GcPlaces, CountExact, ParkedBounded, GateShut, FlagUp, AllInPark, Collecting
<1>5. ASSUME gc \in {"raised", "asleep"},
             gc' = IF AllParked THEN "stopped" ELSE "asleep",
             woken' \subseteq woken,
             UNCHANGED <<requested, threadCount, parkedCount, released, at, prev, cycles, risk>>
      PROVE  IInv'
  <2>1. TypeOK'
    BY <1>5 DEF TypeOK, GcPlaces
  <2>2. AllParked => Registered \subseteq InPark
    BY <1>5, AllParkedSuffices
  <2>3. AllInPark'
    BY <1>2, <1>5, <2>2 DEF AllInPark
  <2>4. FlagUp' /\ Collecting'
    BY <1>5, <2>2 DEF FlagUp, Registered, InPark, Collecting
  <2> QED BY <1>2, <1>5, <2>1, <2>3, <2>4 DEF CountExact, ParkedBounded, GateShut
<1>6. CASE Wait
  BY <1>5, <1>6 DEF Wait
<1>7. CASE GcRecheck
  BY <1>5, <1>7 DEF GcRecheck
<1>8. CASE Lower
  BY <1>2, <1>8 DEF Lower, TypeOK, GcPlaces, CountExact, ParkedBounded, GateShut, FlagUp, AllInPark, Collecting
<1>9. CASE Open
  BY <1>2, <1>9 DEF Open, TypeOK, GcPlaces, CountExact, ParkedBounded, GateShut, FlagUp, AllInPark, Collecting
<1>10. CASE Notify
  BY <1>2, <1>10 DEF Notify, TypeOK, GcPlaces, CountExact, ParkedBounded, GateShut, FlagUp, AllInPark, Collecting
<1>11. ASSUME gc \in {"notified", "alone"}, gc' = "idle", parkedCount' = 0, BackToBytecode,
              UNCHANGED <<requested, threadCount, released, prev, woken, cycles, risk>>
       PROVE  IInv'
  <2>1. TypeOK'
    BY <1>11 DEF TypeOK, BackToBytecode, Places, GcPlaces
  <2>2. Registered' = Registered
    BY <1>11 DEF BackToBytecode, TypeOK, Registered, Collecting
  <2>3. FlagUp' /\ Collecting'
    BY <1>11 DEF BackToBytecode, TypeOK, FlagUp, Collecting
  <2> QED BY <1>11, <2>1, <2>2, <2>3
          DEF CountExact, ParkedBounded, GateShut, AllInPark
<1>12. CASE Zero
  BY <1>11, <1>12 DEF Zero
<1>13. CASE EndAlone
  <2>1. parkedCount = 0
    BY <1>13 DEF EndAlone, ParkedBounded
  <2> QED BY <1>11, <1>13, <2>1 DEF EndAlone
<1> QED BY <1>1, <1>3, <1>4, <1>6, <1>7, <1>8, <1>9, <1>10, <1>12, <1>13 DEF Collection

\* A thread that registers before the collector has seen everyone parked, or
\* after the release, is one more to count and nothing else.
LEMMA RegisterIInv ==
    ASSUME IInv, NEW t \in Threads, Register(t), ~Late'
    PROVE  IInv'
<1> USE DEF IInv, Register
<1>1. Registered' = Registered \cup {t} /\ t \notin Registered /\ InPark' = InPark
  BY DEF TypeOK, Registered, InPark
<1>2. CountExact'
  BY <1>1, Finite, FS_AddElement DEF CountExact
<1>3. gc \notin {"stopped", "lowered"} /\ risk' = risk
  BY DEF Late
<1>4. TypeOK'
  BY <1>3 DEF TypeOK, Places
<1>5. FlagUp' /\ Collecting'
  BY DEF FlagUp, TypeOK, Collecting
<1> QED BY <1>1, <1>2, <1>3, <1>4, <1>5 DEF ParkedBounded, GateShut, AllInPark

LEMMA MutatorStepBase ==
    ASSUME Base, NEW t \in Threads, MutatorStep(t)
    PROVE  Base'
<1> USE DEF Base
<1>1. Registered' = Registered /\ UNCHANGED <<threadCount, gc, risk>> /\ at[t] # "collect"
  BY DEF MutatorStep, Poll, ParkAdd, ParkLoad, ParkNotify, ParkGate, Recheck, TypeOK, Registered
<1>2. CountExact'
  BY <1>1 DEF CountExact
<1>3. Collecting'
  BY <1>1 DEF MutatorStep, Poll, ParkAdd, ParkLoad, ParkNotify, ParkGate, Recheck, TypeOK, Collecting
<1>4. TypeOK'
  <2>1. CASE Poll(t)
    BY <2>1 DEF Poll, TypeOK, Places
  <2>2. CASE ParkAdd(t)
    BY <2>2 DEF ParkAdd, TypeOK, Places
  <2>3. CASE ParkLoad(t)
    BY <2>3 DEF ParkLoad, TypeOK, Places
  <2>4. CASE ParkNotify(t)
    BY <2>4 DEF ParkNotify, TypeOK, Places
  <2>5. CASE ParkGate(t)
    BY <2>5 DEF ParkGate, TypeOK, Places
  <2>6. CASE Recheck(t)
    BY <2>6 DEF Recheck, TypeOK, Places
  <2> QED BY <2>1, <2>2, <2>3, <2>4, <2>5, <2>6 DEF MutatorStep
<1> QED BY <1>2, <1>3, <1>4

LEMMA ThreadBase ==
    ASSUME Base, NEW t \in Threads, Register(t) \/ Unregister(t)
    PROVE  Base'
<1> USE DEF Base
<1>1. IsFiniteSet(Registered) /\ Cardinality(Registered) \in Nat
  BY Finite
<1>2. CountExact' /\ threadCount' \in Nat
  <2>1. CASE Register(t)
    <3>1. Registered' = Registered \cup {t} /\ t \notin Registered
      BY <2>1 DEF Register, TypeOK, Registered
    <3>2. Cardinality(Registered') = Cardinality(Registered) + 1
      BY <1>1, <3>1, FS_AddElement
    <3> QED BY <1>1, <2>1, <3>2 DEF Register, CountExact
  <2>2. CASE Unregister(t)
    <3>1. Registered' = Registered \ {t} /\ t \in Registered
      BY <2>2 DEF Unregister, TypeOK, Registered
    <3>2. CountExact'
      BY <1>1, <2>2, <3>1, FS_RemoveElement DEF Unregister, CountExact
    <3>3. IsFiniteSet(Registered')
      BY <1>1, <3>1, FS_Subset
    <3> QED BY <3>2, <3>3, FS_CardinalityType DEF CountExact
  <2> QED BY <2>1, <2>2
<1>3. risk' \subseteq Risks
  BY DEF Register, Unregister, TypeOK, Risks
<1>4. TypeOK' /\ Collecting'
  BY <1>2, <1>3 DEF Register, Unregister, TypeOK, Places, Collecting
<1> QED BY <1>2, <1>4

LEMMA CollectionBase ==
    ASSUME Base, Begin \/ Collection
    PROVE  Base'
<1> USE DEF Base, GcStep
<1>1. CASE Begin
  <2>1. TypeOK'
    BY <1>1, SafepointAssumption DEF Begin, TypeOK, Places, GcPlaces
  <2>2. Registered' = Registered /\ Collecting'
    BY <1>1 DEF Begin, TypeOK, Registered, Collecting
  <2> QED BY <1>1, <2>1, <2>2 DEF Begin, CountExact
<1>2. CASE Zero \/ EndAlone
  <2>1. TypeOK'
    BY <1>2 DEF Zero, EndAlone, TypeOK, BackToBytecode, Places, GcPlaces
  <2>2. Registered' = Registered /\ Collecting'
    BY <1>2 DEF Zero, EndAlone, BackToBytecode, TypeOK, Registered, Collecting
  <2> QED BY <1>2, <2>1, <2>2 DEF Zero, EndAlone, CountExact
<1>3. CASE Close \/ Raise \/ Wait \/ GcRecheck \/ Lower \/ Open \/ Notify
  <2>1. UNCHANGED <<at, threadCount>> /\ Registered' = Registered
    BY <1>3 DEF Close, Raise, Wait, GcRecheck, Lower, Open, Notify, Registered
  <2>2. TypeOK'
    <3>1. CASE Close
      BY <3>1 DEF Close, TypeOK, GcPlaces, Risks
    <3>2. CASE Raise \/ Lower \/ Open
      BY <3>2 DEF Raise, Lower, Open, TypeOK, GcPlaces
    <3>3. CASE Wait \/ GcRecheck \/ Notify
      BY <3>3 DEF Wait, GcRecheck, Notify, TypeOK, GcPlaces
    <3> QED BY <1>3, <3>1, <3>2, <3>3
  <2>3. Collecting'
    BY <1>3, <2>1 DEF Close, Raise, Wait, GcRecheck, Lower, Open, Notify, Collecting
  <2> QED BY <2>1, <2>2, <2>3 DEF CountExact
<1> QED BY <1>1, <1>2, <1>3 DEF Collection

\* A thread that has registered late is not forgotten.
LEMMA LateStays == ASSUME Next, ~Late' PROVE ~Late
<1> USE DEF Late
<1>1. ASSUME NEW t \in Threads, Register(t) \/ Unregister(t) PROVE ~Late
  BY <1>1 DEF Register, Unregister
<1>2. ASSUME NEW t \in Threads, MutatorStep(t) PROVE ~Late
  BY <1>2 DEF MutatorStep, Poll, ParkAdd, ParkLoad, ParkNotify, ParkGate, Recheck
<1>3. CASE Begin \/ Collection
  BY <1>3 DEF Begin, Collection, Close, Raise, Wait, GcRecheck, Lower, Open, Notify, Zero, EndAlone
<1> QED BY <1>1, <1>2, <1>3 DEF Next

LEMMA InitInductive == ASSUME Init PROVE Inductive
BY InitIInv DEF Inductive, Base, IInv

LEMMA StepInductive == ASSUME Inductive, [Next]_vars PROVE Inductive'
<1>1. CASE UNCHANGED vars
  BY <1>1 DEF vars, Inductive, Base, Late, IInv, TypeOK, CountExact, ParkedBounded, GateShut,
              FlagUp, AllInPark, Collecting, Registered, InPark
<1>2. CASE Next
  <2>1. Base'
    BY <1>2, MutatorStepBase, ThreadBase, CollectionBase DEF Next, Inductive
  <2>2. ASSUME ~Late' PROVE IInv'
    <3>1. IInv
      BY <1>2, <2>2, LateStays DEF Inductive
    <3> QED BY <1>2, <2>2, <3>1, RegisterIInv, UnregisterIInv, MutatorStepIInv, CollectionIInv DEF Next
  <2> QED BY <2>1, <2>2 DEF Inductive
<1> QED BY <1>1, <1>2

\* The world is stopped whenever the collector believes it is: for any number
\* of threads, which may register and exit at any time but register in a stopped
\* world, and whether or not the collecting thread is itself a mutator
\* (safepoint.rs:64-122).
THEOREM SafepointStops == Spec => []WorldStopped
<1>1. ASSUME Inductive PROVE WorldStopped
  BY <1>1 DEF Inductive, Late, IInv, AllInPark, GateShut, WorldStopped
<1> QED BY <1>1, InitInductive, StepInductive, PTL DEF Spec

\* parked_count never exceeds the threads really in park when it is compared
\* with thread_count (safepoint.rs:65-73, 88-89).
THEOREM SafepointCount == Spec => []NeverOvercounted
<1>1. ASSUME Inductive PROVE NeverOvercounted
  BY <1>1, Finite DEF Inductive, Late, IInv, ParkedBounded, NeverOvercounted
<1> QED BY <1>1, InitInductive, StepInductive, PTL DEF Spec

\* Types, for every value of the constants: no exit makes thread_count
\* underflow (safepoint.rs:41-48).
THEOREM SafepointType == Spec => []TypeOK
<1>1. ASSUME Inductive PROVE TypeOK
  BY <1>1 DEF Inductive, Base
<1> QED BY <1>1, InitInductive, StepInductive, PTL DEF Spec
===============================================================================
