---------------------------- MODULE ClassFileProofs ----------------------------
(***************************************************************************)
(* For every directory of class files: what stands in the slots of a       *)
(* constant pool when it has been read, and which classes are loaded when  *)
(* the directory has been; the fields a class declares itself never        *)
(* overlap, the descriptor's pointers are its reference fields, and a      *)
(* static field has one value; the walk up the chain of superclasses finds *)
(* the nearest member, and count_args counts the parameters.               *)
(*                                                                         *)
(* What a recursive function computes (a chain, the parameters of a        *)
(* descriptor) is shown by the least counterexample (Least).               *)
(***************************************************************************)
EXTENDS Linker, FiniteSetTheorems, SequenceTheorems, WellFoundedInduction, TLAPS

-------------------------------------------------------------------------------
(* Constant pools and files *)

Reader == {"pool", "parsed", "fields"}

\* Files looked at are not looked at again.
FileKnown ==
    /\ found \subseteq UNION Directories /\ directory \subseteq found
    /\ phase \in Reader => file \in found \ directory

\* What is not empty is a constant that was read, in its slot or one behind it.
Backed ==
    \A i \in 0..(file.count - 1) : raw[i] # EmptySlot =>
      \E k \in Taken :
        /\ raw[i] = file.pool[k]
        /\ i = SlotOf(k) + (IF file.pool[k].kind = "Wide" THEN 1 ELSE 0)

\* Behind `index' nothing is written yet; in front of it every constant stands
\* in its slot, or one behind it.
PoolFilled ==
    phase \in {"pool", "parsed"} =>
      /\ file.count # 0
      /\ taken \in 0..Len(file.pool)
      /\ index = SlotOf(taken + 1) /\ index <= file.count
      /\ raw \in [0..(file.count - 1) -> {EmptySlot} \cup ToSet(file.pool)]
      /\ \A i \in index..(file.count - 1) : raw[i] = EmptySlot
      /\ \A k \in Taken :
           /\ file.pool[k].kind # "Unknown"
           /\ SlotOf(k) \in Nat /\ SlotOf(k) < index
           /\ file.pool[k].kind # "Wide" => raw[SlotOf(k)] = file.pool[k]
           /\ file.pool[k].kind = "Wide" =>
                /\ SlotOf(k) + 1 < index
                /\ raw[SlotOf(k)] = EmptySlot
                /\ raw[SlotOf(k) + 1] = file.pool[k]
      /\ Backed

PoolSound(f) ==
    /\ \A k \in DOMAIN f.pool : f.pool[k].kind # "Unknown"
    /\ SlotIn(f, Len(f.pool) + 1) = f.count

ChecksPassed ==
    /\ phase = "parsed" => index = file.count
    /\ phase = "fields" => PoolSound(file) /\ file.damage = "none"

\* Files load is done with.
Done == found \ (directory \cup (IF phase \in Reader THEN {file} ELSE {}))

LoadedExactly ==
    phase # "panic" => DOMAIN classes = {f.this : f \in {g \in Done : Sound(g)}}

PoolInv == FileKnown /\ PoolFilled /\ ChecksPassed /\ LoadedExactly

-------------------------------------------------------------------------------
\* A constant moves the next one by a slot, a long or a double by two.
LEMMA NextSlot ==
    ASSUME NEW f, NEW k \in Nat \ {0}
    PROVE  /\ SlotIn(f, k) \in Nat
           /\ SlotIn(f, k + 1) = SlotIn(f, k) + (IF f.pool[k].kind = "Wide" THEN 2 ELSE 1)
<1> DEFINE W(n) == {j \in 1..(n - 1) : f.pool[j].kind = "Wide"}
<1>1. IsFiniteSet(1..(k - 1))
  BY FS_Interval
<1>2. IsFiniteSet(W(k))
  BY <1>1, FS_Subset
<1>3. Cardinality(W(k)) \in Nat
  BY <1>2, FS_CardinalityType
<1>4. SlotIn(f, k) = k + Cardinality(W(k)) /\ SlotIn(f, k + 1) = (k + 1) + Cardinality(W(k + 1))
  BY DEF SlotIn
<1>5. CASE f.pool[k].kind = "Wide"
  <2>1. W(k + 1) = W(k) \cup {k} /\ k \notin W(k)
    BY <1>5
  <2>2. Cardinality(W(k + 1)) = Cardinality(W(k)) + 1
    BY <1>2, <2>1, FS_AddElement
  <2> QED BY <1>3, <1>4, <1>5, <2>2
<1>6. CASE f.pool[k].kind # "Wide"
  <2>1. W(k + 1) = W(k)
    BY <1>6
  <2>2. Cardinality(W(k + 1)) = Cardinality(W(k))
    BY <2>1
  <2> QED BY <1>3, <1>4, <1>6, <2>2
<1> QED BY <1>5, <1>6

LEMMA FirstSlot == ASSUME NEW f PROVE SlotIn(f, 1) = 1
<1>1. {j \in 1..(1 - 1) : f.pool[j].kind = "Wide"} = {}
  OBVIOUS
<1> QED BY <1>1, FS_EmptySet DEF SlotIn

\* A file being read is a class file.
LEMMA Known ==
    ASSUME FileKnown, phase \in Reader
    PROVE  /\ file.pool \in Seq(ToSet(file.pool)) /\ file.count \in Nat
           /\ \A k \in DOMAIN file.pool : SlotIn(file, k) < file.count
           /\ file.count = 0 => file.damage \in {"read", "magic"}
BY ClassFiles DEF FileKnown

LEMMA PoolOneFilled ==
    ASSUME FileKnown, PoolFilled, PoolOne
    PROVE  PoolFilled'
<1> USE DEF PoolFilled, PoolOne, Reading, Constant, Taken, SlotOf
<1>1. /\ file.pool \in Seq(ToSet(file.pool)) /\ file.count \in Nat
  BY Known DEF Reader
<1>2. taken + 1 \in Nat \ {0} /\ taken' = taken + 1 /\ taken' \in 0..Len(file.pool)
  BY <1>1
<1>3. Constant.kind \notin {"Wide", "Unknown"}
  BY DEF OneSlotKinds, LinkKinds, RefKinds
<1>4. index \in Nat /\ index' = index + 1 /\ index' = SlotIn(file, taken' + 1)
  <2>1. index = SlotIn(file, taken + 1) /\ file.pool[taken + 1].kind # "Wide"
    BY <1>3
  <2>2. SlotIn(file, taken + 1) \in Nat /\ SlotIn(file, (taken + 1) + 1) = SlotIn(file, taken + 1) + 1
    BY <1>2, <2>1, NextSlot
  <2> QED BY <1>2, <2>1, <2>2
<1>5. Constant \in ToSet(file.pool)
  BY <1>1, <1>2 DEF ToSet
<1>6. /\ index \in 0..(file.count - 1) /\ raw'[index] = Constant
      /\ \A i \in 0..(file.count - 1) : i # index => raw'[i] = raw[i]
      /\ raw' \in [0..(file.count - 1) -> {EmptySlot} \cup ToSet(file.pool)]
  BY <1>1, <1>4, <1>5
<1>7. \A i \in index'..(file.count - 1) : raw'[i] = EmptySlot
  BY <1>1, <1>4, <1>6
<1>8. ASSUME NEW k \in 1..taken'
      PROVE  /\ file.pool[k].kind # "Unknown"
             /\ SlotIn(file, k) \in Nat /\ SlotIn(file, k) < index'
             /\ file.pool[k].kind # "Wide" => raw'[SlotIn(file, k)] = file.pool[k]
             /\ file.pool[k].kind = "Wide" =>
                  /\ SlotIn(file, k) + 1 < index'
                  /\ raw'[SlotIn(file, k)] = EmptySlot
                  /\ raw'[SlotIn(file, k) + 1] = file.pool[k]
  <2>1. CASE k = taken + 1
    BY <1>3, <1>4, <1>6, <2>1
  <2>2. CASE k \in 1..taken
    <3>1. /\ file.pool[k].kind # "Unknown"
          /\ SlotIn(file, k) \in Nat /\ SlotIn(file, k) < index
      BY <2>2
    <3>2. CASE file.pool[k].kind # "Wide"
      <4>1. raw[SlotIn(file, k)] = file.pool[k]
        BY <2>2, <3>2
      <4> HIDE DEF PoolFilled, PoolOne
      <4> QED BY <1>1, <1>4, <1>6, <3>1, <3>2, <4>1
    <3>3. CASE file.pool[k].kind = "Wide"
      <4>1. /\ SlotIn(file, k) + 1 < index /\ raw[SlotIn(file, k)] = EmptySlot
            /\ raw[SlotIn(file, k) + 1] = file.pool[k]
        BY <2>2, <3>3
      <4> HIDE DEF PoolFilled, PoolOne
      <4> QED BY <1>1, <1>4, <1>6, <3>1, <3>3, <4>1
    <3> QED BY <3>2, <3>3
  <2> QED BY <1>2, <2>1, <2>2
<1>9. Backed'
  <2> SUFFICES ASSUME NEW i \in 0..(file.count - 1), raw'[i] # EmptySlot
               PROVE  \E k \in 1..taken' :
                        /\ raw'[i] = file.pool[k]
                        /\ i = SlotIn(file, k) + (IF file.pool[k].kind = "Wide" THEN 1 ELSE 0)
    BY DEF Backed
  <2>1. CASE i = index
    BY <1>1, <1>2, <1>3, <1>6, <2>1
  <2>2. CASE i # index
    BY <1>1, <1>2, <1>6, <2>2 DEF Backed
  <2> QED BY <2>1, <2>2
<1> QED BY <1>1, <1>2, <1>4, <1>6, <1>7, <1>8, <1>9

LEMMA PoolWideFilled ==
    ASSUME FileKnown, PoolFilled, PoolWide
    PROVE  PoolFilled'
<1> USE DEF PoolFilled, PoolWide, Reading, Constant, Taken, SlotOf
<1>1. /\ file.pool \in Seq(ToSet(file.pool)) /\ file.count \in Nat
  BY Known DEF Reader
<1>2. taken + 1 \in Nat \ {0} /\ taken' = taken + 1 /\ taken' \in 0..Len(file.pool)
  BY <1>1
<1>3. index \in Nat /\ index' = index + 2 /\ index' = SlotIn(file, taken' + 1)
  <2>1. index = SlotIn(file, taken + 1) /\ file.pool[taken + 1].kind = "Wide"
        /\ index' = index + 2
    OBVIOUS
  <2>2. SlotIn(file, taken + 1) \in Nat /\ SlotIn(file, (taken + 1) + 1) = SlotIn(file, taken + 1) + 2
    BY <1>2, <2>1, NextSlot
  <2> HIDE DEF PoolFilled, PoolWide
  <2> QED BY <1>2, <2>1, <2>2
<1>4. Constant \in ToSet(file.pool)
  BY <1>1, <1>2 DEF ToSet
<1>5. /\ index + 1 \in 0..(file.count - 1) /\ raw'[index + 1] = Constant
      /\ \A i \in 0..(file.count - 1) : i # index + 1 => raw'[i] = raw[i]
      /\ raw' \in [0..(file.count - 1) -> {EmptySlot} \cup ToSet(file.pool)]
  BY <1>1, <1>3, <1>4
<1>6. raw'[index] = EmptySlot
  BY <1>1, <1>3, <1>5
<1>7. \A i \in index'..(file.count - 1) : raw'[i] = EmptySlot
  BY <1>1, <1>3, <1>5
<1>8. ASSUME NEW k \in 1..taken'
      PROVE  /\ file.pool[k].kind # "Unknown"
             /\ SlotIn(file, k) \in Nat /\ SlotIn(file, k) < index'
             /\ file.pool[k].kind # "Wide" => raw'[SlotIn(file, k)] = file.pool[k]
             /\ file.pool[k].kind = "Wide" =>
                  /\ SlotIn(file, k) + 1 < index'
                  /\ raw'[SlotIn(file, k)] = EmptySlot
                  /\ raw'[SlotIn(file, k) + 1] = file.pool[k]
  <2>1. CASE k = taken + 1
    BY <1>3, <1>5, <1>6, <2>1
  <2>2. CASE k \in 1..taken
    <3>1. /\ file.pool[k].kind # "Unknown"
          /\ SlotIn(file, k) \in Nat /\ SlotIn(file, k) < index
      BY <2>2
    <3>2. CASE file.pool[k].kind # "Wide"
      <4>1. raw[SlotIn(file, k)] = file.pool[k]
        BY <2>2, <3>2
      <4> HIDE DEF PoolFilled, PoolWide
      <4> QED BY <1>1, <1>3, <1>5, <3>1, <3>2, <4>1
    <3>3. CASE file.pool[k].kind = "Wide"
      <4>1. /\ SlotIn(file, k) + 1 < index /\ raw[SlotIn(file, k)] = EmptySlot
            /\ raw[SlotIn(file, k) + 1] = file.pool[k]
        BY <2>2, <3>3
      <4> HIDE DEF PoolFilled, PoolWide
      <4> QED BY <1>1, <1>3, <1>5, <3>1, <3>3, <4>1
    <3> QED BY <3>2, <3>3
  <2> QED BY <1>2, <2>1, <2>2
<1>9. Backed'
  <2> SUFFICES ASSUME NEW i \in 0..(file.count - 1), raw'[i] # EmptySlot
               PROVE  \E k \in 1..taken' :
                        /\ raw'[i] = file.pool[k]
                        /\ i = SlotIn(file, k) + (IF file.pool[k].kind = "Wide" THEN 1 ELSE 0)
    BY DEF Backed
  <2>1. CASE i = index + 1
    <3>1. /\ taken + 1 \in 1..taken' /\ raw'[i] = file.pool[taken + 1]
          /\ index = SlotIn(file, taken + 1) /\ file.pool[taken + 1].kind = "Wide"
      BY <1>2, <1>5, <2>1
    <3> HIDE DEF PoolFilled, PoolWide
    <3> QED BY <2>1, <3>1
  <2>2. CASE i # index + 1
    BY <1>1, <1>2, <1>5, <2>2 DEF Backed
  <2> QED BY <2>1, <2>2
<1> QED BY <1>1, <1>2, <1>3, <1>5, <1>7, <1>8, <1>9

LEMMA StartFilled ==
    ASSUME FileKnown, OpenFile
    PROVE  PoolFilled'
<1>1. PICK f \in directory :
        StartPool(f) /\ phase' = IF f.damage \in {"read", "magic"} THEN "scan" ELSE "pool"
  BY DEF OpenFile
<1>2. f.count \in Nat /\ f.pool \in Seq(ToSet(f.pool))
  BY ClassFiles DEF FileKnown
<1>3. CASE f.damage \in {"read", "magic"}
  BY <1>1, <1>3 DEF PoolFilled
<1>4. CASE f.damage \notin {"read", "magic"}
  <2>1. f.count # 0
    BY <1>4, ClassFiles DEF FileKnown
  <2> QED BY <1>1, <1>2, <2>1, FirstSlot DEF StartPool, PoolFilled, Backed, Taken, SlotOf
<1> QED BY <1>3, <1>4

\* The pool that has been read through is the whole pool.
LEMMA ReadThrough ==
    ASSUME FileKnown, PoolFilled, ChecksPassed, phase = "parsed"
    PROVE  PoolSound(file)
<1>1. /\ file.pool \in Seq(ToSet(file.pool)) /\ file.count \in Nat
      /\ \A k \in DOMAIN file.pool : SlotIn(file, k) < file.count
  BY Known DEF Reader
<1>2. taken \in 0..Len(file.pool) /\ SlotIn(file, taken + 1) = file.count
  BY DEF PoolFilled, ChecksPassed, SlotOf
<1>3. taken = Len(file.pool)
  <2>1. taken + 1 \notin DOMAIN file.pool
    BY <1>1, <1>2
  <2> QED BY <1>1, <1>2, <2>1
<1> QED BY <1>1, <1>2, <1>3 DEF PoolSound, PoolFilled, Taken

\* A pool that breaks off, or that has an unknown tag, is not sound.
LEMMA BrokenPool ==
    ASSUME FileKnown, PoolFilled, PoolError
    PROVE  ~PoolSound(file)
<1>1. file.pool \in Seq(ToSet(file.pool))
  BY Known DEF Reader, PoolError, Reading
<1>2. taken \in 0..Len(file.pool) /\ SlotIn(file, taken + 1) < file.count /\ file.count \in Nat
  BY Known DEF Reader, PoolError, Reading, PoolFilled, SlotOf
<1>3. CASE taken < Len(file.pool)
  <2>1. taken + 1 \in DOMAIN file.pool /\ file.pool[taken + 1].kind = "Unknown"
    BY <1>1, <1>2, <1>3 DEF PoolError, Constant
  <2> QED BY <2>1 DEF PoolSound
<1>4. CASE taken = Len(file.pool)
  <2>1. SlotIn(file, Len(file.pool) + 1) \in Nat
    BY <1>2, <1>4, NextSlot
  <2> QED BY <1>2, <1>4, <2>1 DEF PoolSound
<1> QED BY <1>1, <1>2, <1>3, <1>4

LEMMA SoundIs ==
    ASSUME NEW f
    PROVE  Sound(f) <=>
             /\ f.damage = "none" /\ PoolSound(f)
             /\ \A i \in DOMAIN f.methods : NeedsCode(f.methods[i]) => f.methods[i].code
BY DEF Sound, PoolSound

-------------------------------------------------------------------------------
LEMMA InitPoolInv == ASSUME Init PROVE PoolInv
<1> USE DEF Init, LoaderInit
<1>1. FileKnown
  BY DEF FileKnown, Reader
<1>2. Done = {}
  BY DEF Done, Reader
<1>3. LoadedExactly
  BY <1>2 DEF LoadedExactly
<1> QED BY <1>1, <1>3 DEF PoolInv, PoolFilled, ChecksPassed

\* A file that is given up is not sound.
LEMMA GivenUp ==
    ASSUME PoolInv, phase \in Reader, phase' = "scan", ~Sound(file),
           UNCHANGED <<file, directory, classes, found>>
    PROVE  PoolInv'
<1>1. Done' = Done \cup {file}
  BY DEF PoolInv, FileKnown, Done, Reader
<1>2. DOMAIN classes = {f.this : f \in {g \in Done : Sound(g)}}
  BY DEF PoolInv, LoadedExactly, Reader
<1>3. {g \in Done' : Sound(g)} = {g \in Done : Sound(g)}
  BY <1>1
<1>4. LoadedExactly'
  BY <1>2, <1>3 DEF LoadedExactly, Sound, NeedsCode, SlotIn
<1> QED BY <1>4 DEF PoolInv, FileKnown, PoolFilled, ChecksPassed, Reader

\* Steps inside one file.
LEMMA ReadsOn ==
    ASSUME PoolInv, phase \in Reader, phase' \in Reader,
           UNCHANGED <<file, directory, classes, found>>,
           PoolFilled', ChecksPassed'
    PROVE  PoolInv'
<1>1. Done' = Done
  BY DEF Done
<1> QED BY <1>1 DEF PoolInv, FileKnown, LoadedExactly, Reader

LEMMA LoadPoolInv == ASSUME PoolInv, Load PROVE PoolInv'
<1> USE DEF PoolInv, poolVars, loadVars
<1>1. CASE OpenFile
  <2>1. PICK f \in directory :
          /\ directory' = directory \ {f} /\ StartPool(f)
          /\ phase' = IF f.damage \in {"read", "magic"} THEN "scan" ELSE "pool"
    BY <1>1 DEF OpenFile
  <2>2. phase = "scan" /\ UNCHANGED <<classes, found>> /\ file' = f
    BY <1>1, <2>1 DEF OpenFile, StartPool
  <2>3. FileKnown'
    BY <2>1, <2>2 DEF FileKnown, Reader
  <2>4. PoolFilled' /\ ChecksPassed'
    BY <1>1, <2>1, StartFilled DEF ChecksPassed
  <2>5. Done = found \ directory
    BY <2>2 DEF Done, Reader
  <2>6. DOMAIN classes = {g.this : g \in {h \in Done : Sound(h)}}
    BY <2>2 DEF LoadedExactly
  <2>7. {h \in Done' : Sound(h)} = {h \in Done : Sound(h)}
    <3>1. CASE f.damage \in {"read", "magic"}
      <4>1. Done' = Done \cup {f} /\ ~Sound(f)
        BY <2>1, <2>2, <2>5, <3>1 DEF Done, Reader, FileKnown, Sound
      <4> QED BY <4>1
    <3>2. CASE f.damage \notin {"read", "magic"}
      <4>1. Done' = Done
        BY <2>1, <2>2, <2>5, <3>2 DEF Done, Reader, FileKnown
      <4> QED BY <4>1
    <3> QED BY <3>1, <3>2
  <2> QED BY <2>2, <2>3, <2>4, <2>6, <2>7 DEF LoadedExactly, Sound, NeedsCode, SlotIn
<1>2. CASE Check
  <2>1. PoolSound(file)
    BY <1>2, ReadThrough DEF Check
  <2>2. CASE file.damage = "none"
    BY <1>2, <2>1, <2>2, ReadsOn DEF Check, Reader, PoolFilled, ChecksPassed, PoolSound, SlotIn
  <2>3. CASE file.damage # "none"
    BY <1>2, <2>3, GivenUp, SoundIs DEF Check, Reader
  <2> QED BY <2>2, <2>3
<1>3. CASE LayInstance \/ LayStatic
  <2>1. /\ phase = "fields" /\ UNCHANGED <<phase, poolVars, directory, classes, found>>
    BY <1>3 DEF LayInstance, LayStatic
  <2> QED BY <2>1, ReadsOn DEF Reader, PoolFilled, ChecksPassed, PoolSound, SlotIn
<1>4. CASE MissingCode
  BY <1>4, GivenUp, SoundIs DEF MissingCode, Reader
<1>5. CASE Insert
  <2>1. Sound(file)
    BY <1>5, SoundIs DEF Insert, ChecksPassed
  <2>2. /\ phase = "fields" /\ phase' = "scan" /\ UNCHANGED <<poolVars, directory, found>>
        /\ DOMAIN classes' = DOMAIN classes \cup {file.this}
    BY <1>5 DEF Insert
  <2>3. Done' = Done \cup {file}
    BY <2>2 DEF FileKnown, Done, Reader
  <2>4. DOMAIN classes = {f.this : f \in {g \in Done : Sound(g)}}
    BY <2>2 DEF LoadedExactly
  <2>5. {g \in Done' : Sound(g)} = {g \in Done : Sound(g)} \cup {file}
    BY <2>1, <2>3
  <2>6. {f.this : f \in {g \in Done' : Sound(g)}} =
          {f.this : f \in {g \in Done : Sound(g)}} \cup {file.this}
    BY <2>5
  <2>7. LoadedExactly'
    BY <2>2, <2>4, <2>6 DEF LoadedExactly
  <2> QED BY <2>2, <2>7 DEF FileKnown, PoolFilled, ChecksPassed, Reader
<1>6. CASE ScanEnd
  <2>1. phase = "scan" /\ phase' \in {"exit", "ready"} /\ UNCHANGED <<directory, classes, found>>
    BY <1>6 DEF ScanEnd
  <2>2. Done' = Done
    BY <2>1 DEF Done, Reader
  <2>3. LoadedExactly'
    BY <2>1, <2>2 DEF LoadedExactly
  <2> QED BY <2>1, <2>3 DEF FileKnown, PoolFilled, ChecksPassed, Reader
<1>7. CASE ParsePool /\ UNCHANGED loadVars
  <2>1. CASE PoolOne \/ PoolWide
    <3>1. PoolFilled'
      BY <2>1, PoolOneFilled, PoolWideFilled
    <3>2. phase = "pool" /\ UNCHANGED <<phase, file>>
      BY <2>1 DEF PoolOne, PoolWide, Reading
    <3> QED BY <1>7, <3>1, <3>2, ReadsOn DEF Reader, ChecksPassed
  <2>2. CASE PoolPanic
    BY <1>7, <2>2 DEF PoolPanic, FileKnown, PoolFilled, ChecksPassed, LoadedExactly, Reader
  <2>3. CASE PoolError
    BY <1>7, <2>3, BrokenPool, GivenUp, SoundIs DEF PoolError, Reading, Reader
  <2>4. CASE PoolEnd
    <3>1. phase = "pool" /\ phase' = "parsed" /\ UNCHANGED poolVars /\ index >= file.count
      BY <2>4 DEF PoolEnd
    <3>2. PoolFilled'
      <4>1. Backed'
        <5>1. Backed
          BY <3>1 DEF PoolFilled
        <5>2. UNCHANGED <<file, taken, raw>>
          BY <3>1
        <5> QED BY <5>1, <5>2 DEF Backed, Taken, SlotOf, SlotIn, EmptySlot
      <4> QED BY <3>1, <4>1 DEF PoolFilled, Taken, SlotOf, SlotIn, EmptySlot
    <3>3. file.count \in Nat /\ index \in Nat
      BY <3>1, Known, NextSlot DEF Reader, PoolFilled, SlotOf
    <3>4. ChecksPassed'
      BY <3>1, <3>3 DEF ChecksPassed, PoolFilled
    <3> QED BY <1>7, <3>1, <3>2, <3>4, ReadsOn DEF Reader
  <2> QED BY <1>7, <2>1, <2>2, <2>3, <2>4 DEF ParsePool
<1> QED BY <1>1, <1>2, <1>3, <1>4, <1>5, <1>6, <1>7 DEF Load

\* The program runs when loading is over.
LEMMA ProgramPoolInv ==
    ASSUME PoolInv, Ask \/ Link \/ Resume
    PROVE  PoolInv'
<1> DEFINE Running == {"ready", "count", "lookup", "hung", "exit"}
<1>1. phase \in Running /\ phase' \in Running /\ UNCHANGED <<poolVars, loadVars>>
  <2> USE DEF linkVars
  <2>1. CASE Ask
    BY <2>1 DEF Ask, Asking, WrongEntry, NewClass, Ldc, AskField, AskMethod, Answered
  <2>2. CASE Resume
    BY <2>2 DEF Resume
  <2>3. CASE CountArg \/ CountName \/ CountDims \/ CountHang \/ CountEnd
    BY <2>3 DEF CountArg, CountName, CountDims, CountHang, CountEnd, Scanning, Read
  <2>4. CASE LookUpInit \/ LookUpNext \/ LookUpNone
    BY <2>4 DEF LookUpInit, LookUpNext, LookUpNone, Loaded, Walking, Reply, Answered
  <2>5. CASE WrongField \/ WrongValue \/ InstanceField \/ ReadStatic \/ WriteStatic
    BY <2>5 DEF WrongField, WrongValue, InstanceField, ReadStatic, WriteStatic, Reply, Answered,
                Finds, Loaded, Walking
  <2>6. CASE InvokeNative \/ Execute
    BY <2>6 DEF InvokeNative, Execute, Reply, Answered, Finds, Loaded, Walking
  <2> QED BY <2>1, <2>2, <2>3, <2>4, <2>5, <2>6 DEF Link
<1>2. Done' = Done
  BY <1>1 DEF Done, Reader, loadVars
<1> QED BY <1>1, <1>2
        DEF PoolInv, FileKnown, PoolFilled, ChecksPassed, LoadedExactly, Reader, poolVars, loadVars

LEMMA StepPoolInv == ASSUME PoolInv, [Next]_vars PROVE PoolInv'
<1>1. CASE UNCHANGED vars
  <2>1. UNCHANGED <<phase, poolVars, loadVars>>
    BY <1>1 DEF vars
  <2>2. Done' = Done
    BY <2>1 DEF Done, poolVars, loadVars
  <2> QED BY <2>1, <2>2
          DEF PoolInv, FileKnown, PoolFilled, Backed, Taken, SlotOf, ChecksPassed, LoadedExactly, poolVars, loadVars
<1>2. CASE Load /\ UNCHANGED linkVars
  BY <1>2, LoadPoolInv
<1>3. CASE Ask \/ Link \/ Resume
  BY <1>3, ProgramPoolInv
<1> QED BY <1>1, <1>2, <1>3 DEF Next

-------------------------------------------------------------------------------
(* Links *)

\* A slot is of a kind iff the format has a constant of that kind there, and
\* then it holds that constant.
LEMMA SlotHolds ==
    ASSUME FileKnown, PoolFilled, phase = "parsed", NEW i, NEW kind, kind \notin {"Wide", "Empty"}
    PROVE  /\ SlotIs(i, kind) => ConstantsAt(i, kind) # {}
           /\ \A k \in ConstantsAt(i, kind) : SlotIs(i, kind) /\ raw[i] = file.pool[k]
<1>1. file.count \in Nat
  BY Known DEF Reader
<1>2. index \in Nat /\ index <= file.count /\ DOMAIN raw = 0..(file.count - 1) /\ taken + 1 \in Nat \ {0}
  BY <1>1, Known, NextSlot DEF Reader, PoolFilled, SlotOf
<1>3. ASSUME SlotIs(i, kind) PROVE ConstantsAt(i, kind) # {}
  <2>1. i \in 0..(file.count - 1) /\ raw[i].kind = kind /\ raw[i] # EmptySlot
    BY <1>2, <1>3 DEF SlotIs, EmptySlot
  <2>2. PICK k \in Taken :
          /\ raw[i] = file.pool[k]
          /\ i = SlotOf(k) + (IF file.pool[k].kind = "Wide" THEN 1 ELSE 0)
    BY <2>1 DEF PoolFilled, Backed
  <2>3. SlotOf(k) = i /\ file.pool[k].kind = kind
    BY <2>1, <2>2 DEF PoolFilled
  <2> QED BY <2>3 DEF ConstantsAt
<1>4. ASSUME NEW k \in ConstantsAt(i, kind)
      PROVE  SlotIs(i, kind) /\ raw[i] = file.pool[k]
  <2>1. k \in Taken /\ SlotOf(k) = i /\ file.pool[k].kind = kind
    BY DEF ConstantsAt
  <2>2. SlotOf(k) \in Nat /\ SlotOf(k) < index /\ raw[SlotOf(k)] = file.pool[k]
    BY <2>1 DEF PoolFilled
  <2> QED BY <1>1, <1>2, <2>1, <2>2 DEF SlotIs
<1> QED BY <1>3, <1>4

LEMMA Texts ==
    ASSUME FileKnown, PoolFilled, phase = "parsed", NEW i
    PROVE  TextsAt(i) = IF IsUtf8(i) THEN {raw[i].text} ELSE {}
BY SlotHolds DEF TextsAt, IsUtf8

LEMMA ClassNames ==
    ASSUME FileKnown, PoolFilled, phase = "parsed", NEW i
    PROVE  ClassNamesAt(i) = IF NamesClass(i) THEN {raw[raw[i].a].text} ELSE {}
<1>1. \A k \in ConstantsAt(i, "Class") : file.pool[k] = raw[i]
  BY SlotHolds
<1>2. ClassNamesAt(i) = IF SlotIs(i, "Class") THEN TextsAt(raw[i].a) ELSE {}
  BY <1>1, SlotHolds DEF ClassNamesAt
<1> QED BY <1>2, Texts DEF NamesClass

LEMMA MemberNames ==
    ASSUME FileKnown, PoolFilled, phase = "parsed", NEW i
    PROVE  MembersAt(i) = IF NamesMember(i) THEN {Member(i)} ELSE {}
<1> DEFINE T == TextsAt(raw[i].a)
           U == TextsAt(raw[i].b)
<1>1. MembersAt(i) = IF SlotIs(i, "NameAndType") THEN T \X U ELSE {}
  <2>1. CASE SlotIs(i, "NameAndType")
    <3>1. \A k \in ConstantsAt(i, "NameAndType") : file.pool[k] = raw[i]
      BY SlotHolds
    <3>2. ConstantsAt(i, "NameAndType") # {}
      BY <2>1, SlotHolds
    <3>3. {TextsAt(file.pool[k].a) \X TextsAt(file.pool[k].b) :
             k \in ConstantsAt(i, "NameAndType")} = {T \X U}
      BY <3>1, <3>2
    <3> QED BY <2>1, <3>3 DEF MembersAt
  <2>2. CASE ~SlotIs(i, "NameAndType")
    <3>1. ConstantsAt(i, "NameAndType") = {}
      BY <2>2, SlotHolds
    <3> QED BY <2>2, <3>1 DEF MembersAt
  <2> QED BY <2>1, <2>2
<1>2. /\ T = IF IsUtf8(raw[i].a) THEN {raw[raw[i].a].text} ELSE {}
      /\ U = IF IsUtf8(raw[i].b) THEN {raw[raw[i].b].text} ELSE {}
  BY Texts
<1>3. CASE IsUtf8(raw[i].a) /\ IsUtf8(raw[i].b)
  <2>1. T \X U = {<<raw[raw[i].a].text, raw[raw[i].b].text>>}
    BY <1>2, <1>3
  <2> QED BY <1>1, <1>3, <2>1 DEF NamesMember, Member
<1>4. CASE ~(IsUtf8(raw[i].a) /\ IsUtf8(raw[i].b))
  <2>1. T \X U = {}
    BY <1>2, <1>4
  <2> QED BY <1>1, <1>4, <2>1 DEF NamesMember
<1> QED BY <1>3, <1>4

LEMMA LinksResolve ==
    ASSUME FileKnown, PoolFilled, phase = "parsed"
    PROVE  ReferencesResolve
<1> SUFFICES ASSUME NEW k \in Taken, file.pool[k].kind \in RefKinds
             PROVE  Resolved(SlotOf(k)) \in (IF Spelled(file.pool[k]) = {}
                                             THEN {Unsupported} ELSE Spelled(file.pool[k]))
  BY DEF ReferencesResolve
<1> DEFINE c == file.pool[k]
           name == raw[raw[c.a].a].text
           entry == Entry(c.kind, <<name, Member(c.b)[1], Member(c.b)[2]>>)
<1>1. raw[SlotOf(k)] = c
  BY DEF PoolFilled, RefKinds
<1>2. CASE NamesClass(c.a) /\ NamesMember(c.b)
  <2>1. ClassNamesAt(c.a) = {name} /\ MembersAt(c.b) = {Member(c.b)}
    BY <1>2, ClassNames, MemberNames
  <2>2. Spelled(c) = {entry}
    BY <2>1 DEF Spelled
  <2>3. Resolved(SlotOf(k)) = entry
    BY <1>1, <1>2 DEF Resolved, RefKinds
  <2> QED BY <2>2, <2>3
<1>3. CASE ~(NamesClass(c.a) /\ NamesMember(c.b))
  <2>1. ClassNamesAt(c.a) = {} \/ MembersAt(c.b) = {}
    BY <1>3, ClassNames, MemberNames
  <2>2. Spelled(c) = {}
    <3>1. CASE ClassNamesAt(c.a) = {}
      BY <3>1 DEF Spelled
    <3>2. CASE MembersAt(c.b) = {}
      BY <3>2 DEF Spelled
    <3> QED BY <2>1, <3>1, <3>2
  <2>3. Resolved(SlotOf(k)) = Unsupported
    BY <1>1, <1>3 DEF Resolved, RefKinds
  <2> QED BY <2>2, <2>3
<1> QED BY <1>2, <1>3

-------------------------------------------------------------------------------
\* For any class file, with its constants in any order and any links, a reference
\* resolves to exactly what it spells (classfile/mod.rs:345-441).
THEOREM LinksSpelled == Spec => []ReferencesResolve
<1>1. ASSUME PoolInv PROVE ReferencesResolve
  BY <1>1, LinksResolve DEF PoolInv, ReferencesResolve
<1> QED BY <1>1, InitPoolInv, StepPoolInv, PTL DEF Spec

\* For any class file the loop leaves no slot out: every constant is in the slot
\* of the format, a long or a double one behind it (classfile/mod.rs:256-335).
THEOREM PoolSlots == Spec => []SlotsFilled
<1>1. ASSUME PoolInv PROVE SlotsFilled
  BY <1>1 DEF PoolInv, PoolFilled, ChecksPassed, SlotsFilled
<1> QED BY <1>1, InitPoolInv, StepPoolInv, PTL DEF Spec

\* For any directory, listed in any order, the classes of the sound files read
\* so far are loaded and no others; the scan reads them all unless one panics the
\* parser (classfile/mod.rs:32-162, main.rs:153-171).
THEOREM SoundLoaded == Spec => []SoundFilesLoad
<1>1. ASSUME PoolInv PROVE SoundFilesLoad
  <2>1. CASE phase \in {"scan", "ready", "exit"}
    <3>1. Done = found \ directory
      BY <2>1 DEF Done, Reader
    <3> QED BY <1>1, <2>1, <3>1 DEF PoolInv, LoadedExactly, SoundFilesLoad
  <2>2. CASE phase \notin {"scan", "ready", "exit"}
    BY <2>2 DEF SoundFilesLoad
  <2> QED BY <2>1, <2>2
<1> QED BY <1>1, InitPoolInv, StepPoolInv, PTL DEF Spec

-------------------------------------------------------------------------------
(* Fields, the layout and the statics *)

FilesFound == UNION Directories

\* What FieldInfo can be made of the fields of a class file.
FieldInfos ==
    {FieldInfo(d, at) : d \in UNION {ToSet(f.fields) : f \in FilesFound}, at \in Nat}

\* The instance fields stand one behind the other, each at a multiple of its
\* size, the last one inside the payload.
Ordered(fields, size) ==
    LET mine == InstanceFields(fields)
        End(i) == fields[i].offset + FieldSize(fields[i].desc)
    IN  /\ \A i \in mine : fields[i].offset % FieldSize(fields[i].desc) = 0 /\ End(i) <= size
        /\ \A i, j \in mine : i < j => End(i) <= fields[j].offset

\* The pointers are the offsets of the reference fields, in order.
Pointing(fields, size, ptrs) ==
    LET Reference(i) == i \in InstanceFields(fields) /\ IsReference(fields[i].desc)
    IN  /\ \A k \in DOMAIN ptrs : \E i \in DOMAIN fields : Reference(i) /\ ptrs[k] = fields[i].offset
        /\ \A i \in DOMAIN fields : Reference(i) =>
             \E k \in DOMAIN ptrs : ptrs[k] = fields[i].offset
        /\ \A k \in DOMAIN ptrs : ptrs[k] < size
        /\ \A k, l \in DOMAIN ptrs : k < l => ptrs[k] < ptrs[l]

GoodLayout(fields, size, ptrs) ==
    /\ fields \in Seq(FieldInfos) /\ size \in Nat /\ ptrs \in Seq(Nat)
    /\ Ordered(fields, size)
    /\ Pointing(fields, size, ptrs)

\* A file being read is one of the directory.
FileListed ==
    /\ directory \subseteq FilesFound
    /\ phase \in {"pool", "parsed", "fields"} => file \in FilesFound

ClassesGood ==
    \A n \in DOMAIN classes :
      GoodLayout(classes[n].fields, classes[n].size, classes[n].pointers)

Loading == {"scan", "pool", "parsed", "fields", "panic"}

\* No bytecode runs, and no class is loaded, in the time of the other.
StaticsLate == phase \in Loading => DOMAIN statics = {}

LayoutInv ==
    /\ FileListed /\ GoodLayout(laid, offset, pointers) /\ ClassesGood
    /\ StaticsLate /\ OneStatic

-------------------------------------------------------------------------------
LEMMA Sizes ==
    ASSUME NEW d
    PROVE  FieldSize(d) \in {1, 2, 4, 8}
BY DEF FieldSize

\* Aligning never moves a field down, and puts it at a multiple of its size.
LEMMA AlignedUp ==
    ASSUME NEW at \in Nat, NEW a \in {1, 2, 4, 8}
    PROVE  /\ Aligned(at, a) \in Nat
           /\ Aligned(at, a) >= at
           /\ Aligned(at, a) % a = 0
<1>1. CASE a = 1
  BY <1>1 DEF Aligned
<1>2. CASE a = 2
  BY <1>2 DEF Aligned
<1>3. CASE a = 4
  BY <1>3 DEF Aligned
<1>4. CASE a = 8
  BY <1>4 DEF Aligned
<1> QED BY <1>1, <1>2, <1>3, <1>4

LEMMA EmptyLayout == GoodLayout(<<>>, 0, <<>>)
BY DEF GoodLayout, Ordered, Pointing, InstanceFields

\* The field load looks at, as the loader records it.
LEMMA NextField ==
    ASSUME FileListed, GoodLayout(laid, offset, pointers), phase = "fields",
           Len(laid) < Len(file.fields), NEW at \in Nat
    PROVE  FieldInfo(file.fields[Len(laid) + 1], at) \in FieldInfos
<1>1. file \in FilesFound /\ file.fields \in Seq(ToSet(file.fields))
  BY ClassFiles DEF FileListed, FilesFound
<1>2. Len(laid) + 1 \in DOMAIN file.fields
  BY <1>1 DEF GoodLayout
<1>3. file.fields[Len(laid) + 1] \in ToSet(file.fields)
  BY <1>2 DEF ToSet
<1> QED BY <1>1, <1>3 DEF FieldInfos

\* Appending keeps what is there.
LEMMA Appended ==
    ASSUME NEW S, NEW s \in Seq(S), NEW e \in S
    PROVE  /\ Append(s, e) \in Seq(S)
           /\ DOMAIN Append(s, e) = DOMAIN s \cup {Len(s) + 1}
           /\ Len(s) + 1 \notin DOMAIN s
           /\ \A i \in DOMAIN s : i < Len(s) + 1 /\ Append(s, e)[i] = s[i]
           /\ Append(s, e)[Len(s) + 1] = e
OBVIOUS

LEMMA LayInstanceGood ==
    ASSUME FileListed, GoodLayout(laid, offset, pointers), LayInstance
    PROVE  GoodLayout(laid', offset', pointers')
<1> DEFINE f == file.fields[Len(laid) + 1]
           at == Place(f.desc)
           e == FieldInfo(f, at)
           n == Len(laid) + 1
<1>1. /\ laid' = Append(laid, e) /\ ~f.static /\ offset' = at + FieldSize(f.desc)
      /\ pointers' = IF IsReference(f.desc) THEN Append(pointers, at) ELSE pointers
  BY DEF LayInstance
<1>2. laid \in Seq(FieldInfos) /\ offset \in Nat /\ pointers \in Seq(Nat)
  BY DEF GoodLayout
<1>3. FieldSize(f.desc) \in {1, 2, 4, 8}
  BY Sizes
<1>4. at \in Nat /\ at >= offset /\ at % FieldSize(f.desc) = 0
  BY <1>2, <1>3, AlignedUp DEF Place
<1>5. e \in FieldInfos
  BY <1>4, NextField DEF LayInstance
<1>6. e.desc = f.desc /\ e.offset = at /\ ~e.static
  BY <1>1 DEF FieldInfo
<1>7. /\ laid' \in Seq(FieldInfos) /\ DOMAIN laid' = DOMAIN laid \cup {n} /\ n \notin DOMAIN laid
      /\ \A i \in DOMAIN laid : i < n /\ laid'[i] = laid[i]
      /\ laid'[n] = e
  BY <1>1, <1>2, <1>5, Appended
<1>8. InstanceFields(laid') = InstanceFields(laid) \cup {n}
  BY <1>6, <1>7 DEF InstanceFields
<1>9. offset' \in Nat /\ offset' > at
  BY <1>1, <1>3, <1>4
<1>10. \A i \in DOMAIN laid : laid[i].offset \in Nat /\ FieldSize(laid[i].desc) \in {1, 2, 4, 8}
  <2>1. \A x \in FieldInfos : x.offset \in Nat
    BY DEF FieldInfos, FieldInfo
  <2> QED BY <1>2, <2>1, Sizes
<1> HIDE DEF f, at, e, n
<1>11. Ordered(laid', offset')
  <2>1. ASSUME NEW i \in InstanceFields(laid')
        PROVE  /\ laid'[i].offset % FieldSize(laid'[i].desc) = 0
               /\ laid'[i].offset + FieldSize(laid'[i].desc) <= offset'
    <3>1. CASE i = n
      BY <1>1, <1>3, <1>4, <1>6, <1>7, <3>1
    <3>2. CASE i \in InstanceFields(laid)
      <4>1. i \in DOMAIN laid /\ laid'[i] = laid[i]
        BY <1>7, <3>2 DEF InstanceFields
      <4>2. laid[i].offset % FieldSize(laid[i].desc) = 0
        BY <3>2 DEF GoodLayout, Ordered
      <4>3. laid[i].offset + FieldSize(laid[i].desc) <= offset
        BY <3>2 DEF GoodLayout, Ordered
      <4>4. laid[i].offset \in Nat /\ FieldSize(laid[i].desc) \in {1, 2, 4, 8}
        BY <1>10, <4>1
      <4> HIDE DEF GoodLayout, LayInstance
      <4>5. laid[i].offset + FieldSize(laid[i].desc) <= offset'
        BY <1>2, <1>4, <1>9, <4>3, <4>4
      <4> QED BY <4>1, <4>2, <4>5
    <3> QED BY <1>8, <3>1, <3>2
  <2>2. ASSUME NEW i \in InstanceFields(laid'), NEW j \in InstanceFields(laid'), i < j
        PROVE  laid'[i].offset + FieldSize(laid'[i].desc) <= laid'[j].offset
    <3>1. i \in InstanceFields(laid)
      <4>1. i # n
        BY <1>2, <1>7, <1>8, <2>2 DEF InstanceFields, n
      <4> QED BY <1>8, <4>1
    <3>2. i \in DOMAIN laid /\ laid'[i] = laid[i]
      BY <1>7, <3>1 DEF InstanceFields
    <3>3. CASE j = n
      <4>1. laid[i].offset + FieldSize(laid[i].desc) <= offset
        BY <3>1 DEF GoodLayout, Ordered
      <4>2. laid'[j].offset = at
        BY <1>6, <1>7, <3>3
      <4>3. laid[i].offset \in Nat /\ FieldSize(laid[i].desc) \in {1, 2, 4, 8}
        BY <1>10, <3>2
      <4>4. laid[i].offset + FieldSize(laid[i].desc) <= at
        BY <1>2, <1>4, <4>1, <4>3
      <4> QED BY <3>2, <4>2, <4>4
    <3>4. CASE j \in InstanceFields(laid)
      <4>1. laid'[j] = laid[j]
        BY <1>7, <3>4 DEF InstanceFields
      <4> QED BY <2>2, <3>1, <3>2, <3>4, <4>1 DEF GoodLayout, Ordered
    <3> QED BY <1>8, <3>3, <3>4
  <2> QED BY <2>1, <2>2 DEF Ordered
<1>12. Pointing(laid', offset', pointers') /\ pointers' \in Seq(Nat)
  <2>1. /\ \A k \in DOMAIN pointers : \E i \in DOMAIN laid :
             i \in InstanceFields(laid) /\ IsReference(laid[i].desc) /\ pointers[k] = laid[i].offset
        /\ \A i \in InstanceFields(laid) : IsReference(laid[i].desc) =>
             \E k \in DOMAIN pointers : pointers[k] = laid[i].offset
        /\ \A k \in DOMAIN pointers : pointers[k] \in Nat /\ pointers[k] < offset
        /\ \A k, l \in DOMAIN pointers : k < l => pointers[k] < pointers[l]
    BY <1>2 DEF GoodLayout, Pointing, InstanceFields
  <2>2. \A i \in InstanceFields(laid) : i \in DOMAIN laid /\ laid'[i] = laid[i]
    BY <1>7 DEF InstanceFields
  <2>3. CASE IsReference(f.desc)
    <3> DEFINE m == Len(pointers) + 1
    <3>1. pointers' = Append(pointers, at)
      BY <1>1, <2>3
    <3>2. /\ pointers' \in Seq(Nat) /\ DOMAIN pointers' = DOMAIN pointers \cup {m}
          /\ m \notin DOMAIN pointers
          /\ \A k \in DOMAIN pointers : k < m /\ pointers'[k] = pointers[k]
          /\ pointers'[m] = at
      BY <1>2, <1>4, <3>1, Appended
    <3>3. m \in Nat /\ DOMAIN pointers \subseteq Nat
      BY <1>2
    <3> HIDE DEF m
    <3>4. \A k \in DOMAIN pointers' : \E i \in DOMAIN laid' :
            (i \in InstanceFields(laid') /\ IsReference(laid'[i].desc)) /\ pointers'[k] = laid'[i].offset
      BY <1>6, <1>7, <1>8, <2>1, <2>2, <2>3, <3>2
    <3>5. \A i \in DOMAIN laid' : (i \in InstanceFields(laid') /\ IsReference(laid'[i].desc)) =>
            \E k \in DOMAIN pointers' : pointers'[k] = laid'[i].offset
      BY <1>6, <1>7, <1>8, <2>1, <2>2, <3>2
    <3>6. \A k \in DOMAIN pointers' : pointers'[k] < offset'
      BY <1>2, <1>4, <1>9, <2>1, <3>2
    <3>7. \A k, l \in DOMAIN pointers' : k < l => pointers'[k] < pointers'[l]
      BY <1>2, <1>4, <2>1, <3>2, <3>3
    <3> QED BY <3>2, <3>4, <3>5, <3>6, <3>7 DEF Pointing
  <2>4. CASE ~IsReference(f.desc)
    <3>1. pointers' = pointers
      BY <1>1, <2>4
    <3>2. \A k \in DOMAIN pointers : \E i \in DOMAIN laid' :
            (i \in InstanceFields(laid') /\ IsReference(laid'[i].desc)) /\ pointers[k] = laid'[i].offset
      BY <1>7, <1>8, <2>1, <2>2
    <3>3. \A i \in DOMAIN laid' : (i \in InstanceFields(laid') /\ IsReference(laid'[i].desc)) =>
            \E k \in DOMAIN pointers : pointers[k] = laid'[i].offset
      BY <1>6, <1>7, <1>8, <2>1, <2>2, <2>4
    <3>4. \A k \in DOMAIN pointers : pointers[k] < offset'
      BY <1>2, <1>4, <1>9, <2>1
    <3> QED BY <1>2, <2>1, <3>1, <3>2, <3>3, <3>4 DEF Pointing
  <2> QED BY <2>3, <2>4
<1> QED BY <1>7, <1>9, <1>11, <1>12 DEF GoodLayout

LEMMA LayStaticGood ==
    ASSUME FileListed, GoodLayout(laid, offset, pointers), LayStatic
    PROVE  GoodLayout(laid', offset', pointers')
<1> DEFINE f == file.fields[Len(laid) + 1]
           e == FieldInfo(f, 0)
           n == Len(laid) + 1
<1>1. laid' = Append(laid, e) /\ f.static /\ offset' = Place(f.desc) /\ pointers' = pointers
  BY DEF LayStatic
<1>2. laid \in Seq(FieldInfos) /\ offset \in Nat /\ pointers \in Seq(Nat)
  BY DEF GoodLayout
<1>3. offset' \in Nat /\ offset' >= offset
  BY <1>1, <1>2, Sizes, AlignedUp DEF Place
<1>4. e \in FieldInfos /\ e.static
  BY <1>1, NextField DEF LayStatic, FieldInfo
<1>5. /\ laid' \in Seq(FieldInfos) /\ DOMAIN laid' = DOMAIN laid \cup {n} /\ n \notin DOMAIN laid
      /\ \A i \in DOMAIN laid : laid'[i] = laid[i]
      /\ laid'[n] = e
  BY <1>1, <1>2, <1>4, Appended
<1>6. InstanceFields(laid') = InstanceFields(laid)
  BY <1>4, <1>5 DEF InstanceFields
<1>7. \A i \in DOMAIN laid : laid[i].offset \in Nat /\ FieldSize(laid[i].desc) \in {1, 2, 4, 8}
  <2>1. \A x \in FieldInfos : x.offset \in Nat
    BY DEF FieldInfos, FieldInfo
  <2> QED BY <1>2, <2>1, Sizes
<1> HIDE DEF f, e, n
<1>8. \A i \in InstanceFields(laid) : i \in DOMAIN laid /\ laid'[i] = laid[i]
  BY <1>5 DEF InstanceFields
<1>9. Ordered(laid', offset')
  <2>1. Ordered(laid, offset)
    BY DEF GoodLayout
  <2>2. ASSUME NEW i \in InstanceFields(laid')
        PROVE  /\ laid'[i].offset % FieldSize(laid'[i].desc) = 0
               /\ laid'[i].offset + FieldSize(laid'[i].desc) <= offset'
    <3>1. i \in InstanceFields(laid) /\ i \in DOMAIN laid /\ laid'[i] = laid[i]
      BY <1>6, <1>8
    <3>2. /\ laid[i].offset % FieldSize(laid[i].desc) = 0
          /\ laid[i].offset + FieldSize(laid[i].desc) <= offset
      BY <2>1, <3>1 DEF Ordered
    <3>3. laid[i].offset \in Nat /\ FieldSize(laid[i].desc) \in {1, 2, 4, 8}
      BY <1>7, <3>1
    <3>4. laid[i].offset + FieldSize(laid[i].desc) <= offset'
      BY <1>2, <1>3, <3>2, <3>3
    <3> QED BY <3>1, <3>2, <3>4
  <2>3. ASSUME NEW i \in InstanceFields(laid'), NEW j \in InstanceFields(laid'), i < j
        PROVE  laid'[i].offset + FieldSize(laid'[i].desc) <= laid'[j].offset
    BY <1>6, <1>8, <2>1, <2>3 DEF Ordered
  <2> QED BY <2>2, <2>3 DEF Ordered
<1>10. Pointing(laid', offset', pointers')
  <2>1. Pointing(laid, offset, pointers)
    BY DEF GoodLayout
  <2>2. \A k \in DOMAIN pointers : pointers[k] < offset'
    BY <1>2, <1>3, <2>1 DEF Pointing
  <2> QED BY <1>1, <1>5, <1>6, <1>8, <2>1, <2>2 DEF Pointing
<1> QED BY <1>1, <1>2, <1>3, <1>5, <1>9, <1>10 DEF GoodLayout

-------------------------------------------------------------------------------
LEMMA InitLayoutInv == ASSUME Init PROVE LayoutInv
<1> USE DEF Init, LoaderInit
<1>1. FileListed
  BY DEF FileListed, FilesFound
<1>2. GoodLayout(laid, offset, pointers)
  BY EmptyLayout
<1>3. ClassesGood /\ StaticsLate /\ OneStatic
  BY DEF ClassesGood, StaticsLate, OneStatic
<1> QED BY <1>1, <1>2, <1>3 DEF LayoutInv

LEMMA LoadLayoutInv == ASSUME LayoutInv, Load, UNCHANGED linkVars PROVE LayoutInv'
<1> USE DEF LayoutInv, poolVars, loadVars, linkVars
<1>1. phase \in {"scan", "pool", "parsed", "fields"}
  BY DEF Load, OpenFile, Check, LayInstance, LayStatic, MissingCode, Insert, ScanEnd,
         ParsePool, PoolOne, PoolWide, PoolPanic, PoolError, PoolEnd, Reading
<1>2. StaticsLate' /\ OneStatic'
  BY <1>1 DEF StaticsLate, Loading, OneStatic
<1>3. CASE OpenFile
  <2>1. FileListed'
    BY <1>3 DEF OpenFile, StartPool, FileListed
  <2>2. GoodLayout(laid', offset', pointers') /\ ClassesGood'
    BY <1>3, EmptyLayout DEF OpenFile, ClassesGood
  <2> QED BY <1>2, <2>1, <2>2
<1>4. CASE LayInstance
  BY <1>2, <1>4, LayInstanceGood DEF LayInstance, FileListed, ClassesGood
<1>5. CASE LayStatic
  BY <1>2, <1>5, LayStaticGood DEF LayStatic, FileListed, ClassesGood
<1>6. CASE Insert
  <2>1. ASSUME NEW n \in DOMAIN classes'
        PROVE  GoodLayout(classes'[n].fields, classes'[n].size, classes'[n].pointers)
    <3>1. CASE n = file.this
      BY <1>6, <3>1 DEF Insert, LoadedClass
    <3>2. CASE n # file.this
      BY <1>6, <2>1, <3>2 DEF Insert, ClassesGood
    <3> QED BY <3>1, <3>2
  <2> QED BY <1>2, <1>6, <2>1 DEF Insert, FileListed, ClassesGood
<1>7. CASE ScanEnd
  <2>1. FileListed' /\ ClassesGood'
    BY <1>7 DEF ScanEnd, FileListed, ClassesGood
  <2> QED BY <1>2, <1>7, <2>1, EmptyLayout DEF ScanEnd
<1>8. CASE Check \/ MissingCode
  BY <1>2, <1>8 DEF Check, MissingCode, FileListed, ClassesGood
<1>9. CASE ParsePool /\ UNCHANGED loadVars
  BY <1>2, <1>9
  DEF ParsePool, PoolOne, PoolWide, PoolPanic, PoolError, PoolEnd, Reading, FileListed, ClassesGood
<1> QED BY <1>3, <1>4, <1>5, <1>6, <1>7, <1>8, <1>9 DEF Load

\* A bytecode changes no class and reads no file.
LEMMA ProgramStep ==
    ASSUME Ask \/ Link \/ Resume
    PROVE  /\ UNCHANGED <<directory, laid, offset, pointers, classes>>
           /\ phase' \notin Loading
<1> USE DEF poolVars, loadVars, linkVars, Loading
<1>1. CASE Ask
  BY <1>1 DEF Ask, WrongEntry, NewClass, Ldc, AskField, AskMethod, Answered
<1>2. CASE Resume
  BY <1>2 DEF Resume
<1>3. CASE CountArg \/ CountName \/ CountDims \/ CountHang \/ CountEnd
  BY <1>3 DEF CountArg, CountName, CountDims, CountHang, CountEnd, Scanning, Read
<1>4. CASE LookUpInit \/ LookUpNext \/ LookUpNone
  BY <1>4 DEF LookUpInit, LookUpNext, LookUpNone, Loaded, Walking, Reply, Answered
<1>5. CASE WrongField \/ WrongValue \/ InstanceField
  BY <1>5 DEF WrongField, WrongValue, InstanceField, Reply, Answered
<1>6. CASE ReadStatic \/ WriteStatic
  BY <1>6 DEF ReadStatic, WriteStatic, Answered
<1>7. CASE InvokeNative
  BY <1>7 DEF InvokeNative, Reply, Answered
<1>8. CASE Execute
  BY <1>8 DEF Execute, Reply, Answered
<1> QED BY <1>1, <1>2, <1>3, <1>4, <1>5, <1>6, <1>7, <1>8 DEF Link

\* Only two steps store static fields.
LEMMA OtherSteps ==
    ASSUME Ask \/ Link \/ Resume
    PROVE  ReadStatic \/ WriteStatic \/ UNCHANGED statics
<1> USE DEF linkVars
<1>1. CASE Ask
  BY <1>1 DEF Ask, WrongEntry, NewClass, Ldc, AskField, AskMethod
<1>2. CASE Link
  BY <1>2 DEF Link, CountArg, CountName, CountDims, CountHang, CountEnd, Read, LookUpInit,
              LookUpNext, LookUpNone, WrongField, WrongValue, InstanceField, InvokeNative, Execute, Reply
<1>3. CASE Resume
  BY <1>3 DEF Resume
<1> QED BY <1>1, <1>2, <1>3

\* What is stored is stored for a field of the class the walk has come to.
LEMMA StoreLayoutInv ==
    ASSUME LayoutInv, ReadStatic \/ WriteStatic, UNCHANGED classes
    PROVE  OneStatic'
<1>1. PICK m \in FieldsHere : Finds(m) /\ RightField(m) /\ request.op \in {"GETSTATIC", "PUTSTATIC"}
                              /\ \E v : SetStatic(Key, v)
  BY DEF ReadStatic, WriteStatic
<1>2. current \in DOMAIN classes /\ m \in ToSet(classes[current].fields)
  BY <1>1 DEF FieldsHere, Members, Finds, Loaded, FieldOps
<1>3. m.name = request.name /\ m.desc = request.desc
  BY <1>1 DEF Finds, FirstMatch, Matches
<1>4. m.static
  BY <1>1 DEF RightField
<1>5. DOMAIN statics' = DOMAIN statics \cup {Key}
  BY <1>1 DEF SetStatic
<1>6. ASSUME NEW k \in DOMAIN statics'
      PROVE  /\ k[1] \in DOMAIN classes
             /\ \E f \in ToSet(classes[k[1]].fields) : f.static /\ f.name = k[2] /\ f.desc = k[3]
  <2>1. CASE k = Key
    BY <1>2, <1>3, <1>4, <2>1 DEF Key
  <2>2. CASE k # Key
    BY <1>5, <2>2 DEF LayoutInv, OneStatic
  <2> QED BY <2>1, <2>2
<1> QED BY <1>6 DEF OneStatic

LEMMA StepLayoutInv == ASSUME LayoutInv, [Next]_vars PROVE LayoutInv'
<1>1. CASE UNCHANGED vars
  BY <1>1 DEF vars, poolVars, loadVars, linkVars, LayoutInv, FileListed, ClassesGood, StaticsLate, OneStatic
<1>2. CASE Load /\ UNCHANGED linkVars
  BY <1>2, LoadLayoutInv
<1>3. CASE Ask \/ Link \/ Resume
  <2>1. UNCHANGED <<directory, laid, offset, pointers, classes>> /\ phase' \notin Loading
    BY <1>3, ProgramStep
  <2>2. OneStatic'
    BY <1>3, <2>1, OtherSteps, StoreLayoutInv DEF LayoutInv, OneStatic
  <2>3. GoodLayout(laid, offset, pointers)'
    BY <2>1 DEF LayoutInv
  <2> QED BY <2>1, <2>2, <2>3 DEF LayoutInv, FileListed, ClassesGood, StaticsLate, Loading
<1> QED BY <1>1, <1>2, <1>3 DEF Next

\* For any class files, in any order, the instance fields a class declares never
\* share a byte and lie in its payload (classfile/mod.rs:46-80).
THEOREM LayoutApart == Spec => []OwnFieldsApart
<1>1. ASSUME LayoutInv PROVE OwnFieldsApart
  <2>1. ASSUME NEW n \in DOMAIN classes, NEW i \in InstanceFields(classes[n].fields)
        PROVE  /\ i \in Nat
               /\ classes[n].fields[i].offset \in Nat
               /\ FieldSize(classes[n].fields[i].desc) \in {1, 2, 4, 8}
    <3>1. classes[n].fields \in Seq(FieldInfos)
      BY <1>1 DEF LayoutInv, ClassesGood, GoodLayout
    <3>2. i \in Nat /\ classes[n].fields[i] \in FieldInfos
      BY <2>1, <3>1 DEF InstanceFields
    <3>3. \A x \in FieldInfos : x.offset \in Nat
      BY DEF FieldInfos, FieldInfo
    <3> QED BY <3>2, <3>3, Sizes
  <2>2. \A n \in DOMAIN classes : Ordered(classes[n].fields, classes[n].size) /\ classes[n].size \in Nat
    BY <1>1 DEF LayoutInv, ClassesGood, GoodLayout
  <2>3. ASSUME NEW n \in DOMAIN classes, NEW i \in InstanceFields(classes[n].fields)
        PROVE  /\ classes[n].fields[i].offset % FieldSize(classes[n].fields[i].desc) = 0
               /\ Bytes(classes[n].fields[i]) \subseteq 0..(classes[n].size - 1)
    BY <2>1, <2>2 DEF Ordered, Bytes
  <2>4. ASSUME NEW n \in DOMAIN classes, NEW i \in InstanceFields(classes[n].fields),
               NEW j \in InstanceFields(classes[n].fields), i # j
        PROVE  Bytes(classes[n].fields[i]) \cap Bytes(classes[n].fields[j]) = {}
    <3>1. i < j \/ j < i
      BY <2>1, <2>4
    <3> QED BY <2>1, <2>2, <3>1 DEF Ordered, Bytes
  <2> QED BY <2>3, <2>4 DEF OwnFieldsApart
<1> QED BY <1>1, InitLayoutInv, StepLayoutInv, PTL DEF Spec

\* For any class files the pointers of a descriptor are the offsets of the
\* reference fields, in order (classfile/mod.rs:57-68).
THEOREM LayoutPointers == Spec => []PointersExact
<1>1. ASSUME LayoutInv PROVE PointersExact
  <2>1. ASSUME NEW n \in DOMAIN classes
        PROVE  Pointing(classes[n].fields, classes[n].size, classes[n].pointers)
    BY <1>1 DEF LayoutInv, ClassesGood, GoodLayout
  <2>2. ASSUME NEW n \in DOMAIN classes
        PROVE  ToSet(classes[n].pointers) =
                 {classes[n].fields[i].offset :
                    i \in {j \in InstanceFields(classes[n].fields) : IsReference(classes[n].fields[j].desc)}}
    BY <2>1 DEF Pointing, ToSet, InstanceFields
  <2> QED BY <2>1, <2>2 DEF Pointing, PointersExact
<1> QED BY <1>1, InitLayoutInv, StepLayoutInv, PTL DEF Spec

\* For any class files and any sequence of bytecodes a static field is stored
\* under the class that declares it, and nowhere else (interpreter/mod.rs:760-834).
THEOREM StaticsOwned == Spec => []OneStatic
<1>1. ASSUME LayoutInv PROVE OneStatic
  BY <1>1 DEF LayoutInv
<1> QED BY <1>1, InitLayoutInv, StepLayoutInv, PTL DEF Spec

-------------------------------------------------------------------------------
(* Induction and iteration *)

Below == {ss \in Nat \X Nat : ss[1] < ss[2]}

LEMMA BelowWellFounded == IsWellFoundedOn(Below, Nat)
BY NatLessThanWellFounded DEF OpToRel, Below

\* A set of natural numbers has a least one: induction by the least
\* counterexample.
LEMMA Least ==
    ASSUME NEW S, S \subseteq Nat, S # {}
    PROVE  \E n \in S : \A m \in S : n <= m
<1>1. PICK n \in S : \A m \in S : ~ (<<m, n>> \in Below)
  BY BelowWellFounded, WFMin
<1>2. \A m \in Nat : \A k \in Nat : m < k => <<m, k>> \in Below
  BY DEF Below
<1>3. n \in Nat
  BY <1>1
<1>4. ASSUME NEW m \in S PROVE n <= m
  <2>1. m \in Nat
    OBVIOUS
  <2>2. ~(m < n)
    BY <1>1, <1>2, <1>3, <2>1
  <2> QED BY <1>3, <2>1, <2>2
<1> QED BY <1>1, <1>4

\* g is what n steps make of a.
Steps(g, V, a, step, n) ==
    /\ g \in [0..n -> V]
    /\ g[0] = a
    /\ \A k \in 1..n : g[k] = step[g[k - 1]]

LEMMA Iterated ==
    ASSUME NEW V, NEW a \in V, NEW step \in [V -> V], NEW n \in Nat
    PROVE  \E g : Steps(g, V, a, step, n)
<1> DEFINE S == {m \in Nat : ~\E g : Steps(g, V, a, step, m)}
<1>1. SUFFICES ASSUME S # {} PROVE FALSE
  OBVIOUS
<1>2. PICK m \in S : \A l \in S : m <= l
  BY <1>1, Least
<1>3. m \in Nat /\ ~\E g : Steps(g, V, a, step, m)
  BY <1>2
<1>4. CASE m = 0
  <2>1. Steps([i \in 0..m |-> a], V, a, step, m)
    BY <1>4 DEF Steps
  <2> QED BY <1>3, <2>1
<1>5. CASE m # 0
  <2>1. m - 1 \in Nat /\ ~(m <= m - 1)
    BY <1>3, <1>5
  <2>2. m - 1 \notin S
    BY <1>2, <2>1
  <2>3. PICK g : Steps(g, V, a, step, m - 1)
    BY <2>1, <2>2
  <2> DEFINE h == [i \in 0..m |-> IF i = m THEN step[g[m - 1]] ELSE g[i]]
  <2>4. g \in [0..(m - 1) -> V] /\ g[0] = a /\ \A k \in 1..(m - 1) : g[k] = step[g[k - 1]]
    BY <2>3 DEF Steps
  <2>5. step[g[m - 1]] \in V
    BY <2>1, <2>4
  <2>6. h \in [0..m -> V]
    BY <1>3, <2>4, <2>5
  <2>7. h[0] = a
    BY <1>3, <1>5, <2>4
  <2>8. ASSUME NEW k \in 1..m PROVE h[k] = step[h[k - 1]]
    <3>1. k \in 0..m /\ k - 1 \in 0..m /\ k - 1 # m
      BY <1>3
    <3>2. h[k - 1] = g[k - 1]
      BY <3>1
    <3>3. CASE k = m
      BY <3>1, <3>2, <3>3
    <3>4. CASE k # m
      <4>1. k \in 1..(m - 1)
        BY <1>3, <3>4
      <4>2. h[k] = g[k]
        BY <3>1, <3>4
      <4> QED BY <2>4, <3>2, <4>1, <4>2
    <3> QED BY <3>3, <3>4
  <2>9. Steps(h, V, a, step, m)
    BY <2>6, <2>7, <2>8 DEF Steps
  <2> QED BY <1>3, <2>9
<1> QED BY <1>4, <1>5

-------------------------------------------------------------------------------
(* The walk up the chain of superclasses *)

\* The class the walk comes to after class c.
Above(c) == IF c \in DOMAIN classes THEN classes[c].super ELSE None

Size == Cardinality(DOMAIN classes)

LEMMA WalkSteps ==
    ASSUME IsFiniteSet(DOMAIN classes), NEW n
    PROVE  /\ Size \in Nat
           /\ DOMAIN Walk(n) = 1..(Size + 1)
           /\ Walk(n)[1] = n
           /\ \A i \in 1..Size : Walk(n)[i + 1] = Above(Walk(n)[i])
<1> DEFINE V == {n, None} \cup {classes[c].super : c \in DOMAIN classes}
           step == [v \in V |-> Above(v)]
           Up(up) == up = [i \in 0..Size |->
                            IF i = 0 THEN n
                            ELSE IF up[i - 1] \in DOMAIN classes THEN classes[up[i - 1]].super ELSE None]
           up == CHOOSE up : Up(up)
<1>1. Size \in Nat
  BY FS_CardinalityType DEF Size
<1>2. step \in [V -> V] /\ n \in V
  BY DEF Above
<1>3. PICK g : Steps(g, V, n, step, Size)
  <2> HIDE DEF V, step
  <2> QED BY <1>1, <1>2, Iterated
<1>4. Up(g)
  <2>1. g \in [0..Size -> V] /\ g[0] = n /\ \A k \in 1..Size : g[k] = step[g[k - 1]]
    BY <1>3 DEF Steps
  <2>2. ASSUME NEW i \in 0..Size
        PROVE  g[i] = IF i = 0 THEN n
                      ELSE IF g[i - 1] \in DOMAIN classes THEN classes[g[i - 1]].super ELSE None
    <3>1. CASE i = 0
      BY <2>1, <3>1
    <3>2. CASE i # 0
      <4>1. i \in 1..Size /\ i - 1 \in 0..Size
        BY <1>1, <3>2
      <4>2. g[i] = step[g[i - 1]] /\ g[i - 1] \in V
        BY <2>1, <4>1
      <4>3. step[g[i - 1]] = Above(g[i - 1])
        BY <4>2
      <4> QED BY <3>2, <4>2, <4>3 DEF Above
    <3> QED BY <3>1, <3>2
  <2> HIDE DEF V, step
  <2> QED BY <2>1, <2>2
<1>5. Up(up)
  <2> HIDE DEF Up
  <2> QED BY <1>4
<1>6. Walk(n) = [i \in 1..(Size + 1) |-> up[i - 1]]
  BY DEF Walk, Size
<1> HIDE DEF up
<1>7. up[0] = n /\ \A i \in 1..Size : up[i] = Above(up[i - 1])
  BY <1>1, <1>5 DEF Above
<1> QED BY <1>1, <1>6, <1>7

\* A chain that comes to a class again goes round from there on.
LEMMA WalkRound ==
    ASSUME IsFiniteSet(DOMAIN classes), NEW n,
           NEW x \in 1..(Size + 1), NEW y \in 1..(Size + 1), x < y, Walk(n)[x] = Walk(n)[y],
           NEW k \in Nat, y + k <= Size + 1
    PROVE  Walk(n)[x + k] = Walk(n)[y + k]
<1> DEFINE w == Walk(n)
           S == {l \in Nat : y + l <= Size + 1 /\ w[x + l] # w[y + l]}
<1>1. /\ Size \in Nat /\ w[x] = w[y] /\ x \in Nat /\ y \in Nat
      /\ \A i \in 1..Size : w[i + 1] = Above(w[i])
  BY WalkSteps
<1> HIDE DEF w
<1>2. SUFFICES ASSUME S # {} PROVE FALSE
  BY <1>1 DEF w
<1>3. PICK l \in S : \A m \in S : l <= m
  <2>1. S \subseteq Nat
    OBVIOUS
  <2> HIDE DEF S
  <2> QED BY <1>2, <2>1, Least
<1>4. l \in Nat /\ y + l <= Size + 1 /\ w[x + l] # w[y + l]
  BY <1>3
<1>5. l # 0
  BY <1>1, <1>4
<1>6. l - 1 \in Nat /\ ~(l <= l - 1) /\ y + (l - 1) <= Size + 1
  BY <1>1, <1>4, <1>5
<1>7. l - 1 \notin S
  BY <1>3, <1>6
<1>8. w[x + (l - 1)] = w[y + (l - 1)]
  BY <1>6, <1>7
<1>9. x + (l - 1) \in 1..Size /\ y + (l - 1) \in 1..Size
  BY <1>1, <1>4, <1>6
<1>10. w[x + (l - 1) + 1] = w[y + (l - 1) + 1]
  BY <1>1, <1>8, <1>9
<1>11. x + (l - 1) + 1 = x + l /\ y + (l - 1) + 1 = y + l
  BY <1>1, <1>4
<1> QED BY <1>4, <1>10, <1>11

\* Of the classes before the i-th none declares the member.
Passed(i) ==
    \A j \in 1..(i - 1) :
      /\ Walk(request.start)[j] \in DOMAIN classes
      /\ ~Declares(Walk(request.start)[j], request.op, request.name, request.desc)

\* The walk has come to c past classes that do not declare the member.
Reached(c) ==
    \E i \in 1..(Size + 1) : Walk(request.start)[i] = c /\ Passed(i)

\* An endless walk looks at no class it has not looked at.
LEMMA WalkOn ==
    ASSUME IsFiniteSet(DOMAIN classes), NEW c \in DOMAIN classes, Reached(c),
           ~Declares(c, request.op, request.name, request.desc)
    PROVE  Reached(classes[c].super)
<1> DEFINE w == Walk(request.start)
<1>1. /\ Size \in Nat /\ DOMAIN w = 1..(Size + 1)
      /\ \A i \in 1..Size : w[i + 1] = Above(w[i])
  BY WalkSteps
<1>2. PICK i \in 1..(Size + 1) : w[i] = c /\ Passed(i)
  BY DEF Reached
<1>3. \A j \in 1..i : /\ w[j] \in DOMAIN classes
                      /\ ~Declares(w[j], request.op, request.name, request.desc)
  <2>1. ASSUME NEW j \in 1..i
        PROVE  /\ w[j] \in DOMAIN classes
               /\ ~Declares(w[j], request.op, request.name, request.desc)
    <3>1. CASE j = i
      BY <1>2, <3>1
    <3>2. CASE j # i
      <4>1. j \in 1..(i - 1)
        BY <1>1, <3>2
      <4> QED BY <1>2, <4>1 DEF Passed
    <3> QED BY <3>1, <3>2
  <2> QED BY <2>1
<1>4. classes[c].super = Above(w[i])
  BY <1>2 DEF Above
<1>5. CASE i <= Size
  <2>1. i + 1 \in 1..(Size + 1) /\ w[i + 1] = classes[c].super /\ (i + 1) - 1 = i
    BY <1>1, <1>4, <1>5
  <2>2. Passed(i + 1)
    BY <1>3, <2>1 DEF Passed
  <2> QED BY <2>1, <2>2 DEF Reached
<1>6. CASE i = Size + 1
  <2>1. w \in [1..(Size + 1) -> DOMAIN classes]
    <3>1. w = [j \in 1..(Size + 1) |-> w[j]]
      BY DEF Walk, Size
    <3> HIDE DEF w
    <3> QED BY <1>3, <1>6, <3>1
  <2>2. IsFiniteSet(1..(Size + 1)) /\ Cardinality(1..(Size + 1)) = Size + 1
    BY <1>1, FS_Interval
  <2>3. Cardinality(DOMAIN classes) < Cardinality(1..(Size + 1))
    BY <1>1, <2>2 DEF Size
  <2> HIDE DEF w
  <2>4. \E x, y \in 1..(Size + 1) : x # y /\ w[x] = w[y]
    BY <2>1, <2>2, <2>3, FS_PigeonHole
  <2>5. PICK x \in 1..(Size + 1), y \in 1..(Size + 1) : x < y /\ w[x] = w[y]
    BY <1>1, <2>4
  <2> DEFINE k == Size + 1 - y
             z == x + k
  <2>6. k \in Nat /\ y + k = Size + 1 /\ z \in 1..Size
    BY <1>1, <2>5
  <2>7. w[z] = w[i]
    <3>1. k \in Nat /\ y + k <= Size + 1 /\ y + k = i
      BY <1>1, <1>6, <2>6
    <3> HIDE DEF k
    <3>2. Walk(request.start)[x] = Walk(request.start)[y]
      BY <2>5 DEF w
    <3>3. Walk(request.start)[x + k] = Walk(request.start)[y + k]
      BY <2>5, <3>1, <3>2, WalkRound
    <3> QED BY <3>1, <3>3 DEF w
  <2>8. z + 1 \in 1..(Size + 1) /\ w[z + 1] = classes[c].super /\ (z + 1) - 1 = z
    BY <1>1, <1>4, <2>6, <2>7
  <2>9. Passed(z + 1)
    BY <1>1, <1>3, <1>6, <2>6, <2>8 DEF Passed, w
  <2> QED BY <2>8, <2>9 DEF Reached, w
<1> QED BY <1>1, <1>5, <1>6

\* Behind the end of the chain there is nothing.
LEMMA WalkEnds ==
    ASSUME IsFiniteSet(DOMAIN classes), None \notin DOMAIN classes,
           NEW c, c \notin DOMAIN classes, Reached(c)
    PROVE  Declarers = {}
<1> DEFINE w == Walk(request.start)
<1>1. /\ Size \in Nat /\ DOMAIN w = 1..(Size + 1)
      /\ \A j \in 1..Size : w[j + 1] = Above(w[j])
  BY WalkSteps
<1>2. PICK i \in 1..(Size + 1) : w[i] = c /\ Passed(i)
  BY DEF Reached
<1> DEFINE S == {j \in 1..(Size + 1) : i <= j /\ w[j] \in DOMAIN classes}
<1>3. S = {}
  <2>1. SUFFICES ASSUME S # {} PROVE FALSE
    OBVIOUS
  <2>2. PICK l \in S : \A m \in S : l <= m
    <3>1. S \subseteq Nat
      OBVIOUS
    <3> HIDE DEF S
    <3> QED BY <2>1, <3>1, Least
  <2> HIDE DEF w
  <2>3. l \in 1..(Size + 1) /\ i <= l /\ w[l] \in DOMAIN classes
    BY <2>2
  <2>4. l # i
    BY <1>2, <2>3 DEF w
  <2>5. l - 1 \in 1..Size /\ i <= l - 1 /\ ~(l <= l - 1) /\ (l - 1) + 1 = l /\ l - 1 \in 1..(Size + 1)
    BY <1>1, <2>3, <2>4
  <2>6. w[l - 1] \notin DOMAIN classes
    BY <2>2, <2>5
  <2>7. w[l] = Above(w[l - 1])
    BY <1>1, <2>5
  <2>8. w[l] = None
    BY <2>6, <2>7 DEF Above
  <2> QED BY <2>3, <2>8
<1>4. ASSUME NEW j \in DOMAIN w PROVE ~Declares(w[j], request.op, request.name, request.desc)
  <2>1. CASE i <= j
    <3>1. w[j] \notin DOMAIN classes
      BY <1>1, <1>3, <2>1
    <3> QED BY <3>1 DEF Declares
  <2>2. CASE ~(i <= j)
    <3>1. j \in 1..(i - 1)
      BY <1>1, <2>2
    <3> QED BY <1>2, <3>1 DEF Passed
  <2> QED BY <2>1, <2>2
<1> QED BY <1>4 DEF Declarers

\* The class the walk finds the member in is the nearest that declares it.
LEMMA WalkFinds ==
    ASSUME IsFiniteSet(DOMAIN classes), NEW c, Reached(c),
           Declares(c, request.op, request.name, request.desc)
    PROVE  Declarers # {} /\ c = Walk(request.start)[Min(Declarers)]
<1> DEFINE w == Walk(request.start)
<1>1. Size \in Nat /\ DOMAIN w = 1..(Size + 1)
  BY WalkSteps
<1>2. PICK i \in 1..(Size + 1) : w[i] = c /\ Passed(i)
  BY DEF Reached
<1>3. i \in Declarers
  BY <1>1, <1>2 DEF Declarers
<1>4. Declarers \subseteq 1..(Size + 1)
  BY <1>1 DEF Declarers
<1>5. ASSUME NEW j \in Declarers PROVE i <= j
  <2>1. j \in 1..(Size + 1) /\ Declares(w[j], request.op, request.name, request.desc)
    BY <1>4 DEF Declarers
  <2>2. j \notin 1..(i - 1)
    BY <1>2, <2>1 DEF Passed
  <2> QED BY <1>1, <2>1, <2>2
<1>6. \A j \in Declarers : (\A k \in Declarers : j <= k) => j = i
  BY <1>1, <1>3, <1>4, <1>5
<1>7. Min(Declarers) = i
  BY <1>3, <1>5, <1>6 DEF Min
<1> QED BY <1>2, <1>3, <1>7

Found == {"field", "static", "native", "execute"}

WalkInv ==
    /\ IsFiniteSet(DOMAIN classes) /\ None \notin DOMAIN classes
    /\ phase \in Loading \cup {"count", "lookup", "hung"} => answer = NoAnswer
    /\ phase = "lookup" => Reached(current)
    /\ NearestWins

\* The chain is the same as long as the classes and the request are.
LEMMA WalkStays ==
    ASSUME classes' = classes, request' = request
    PROVE  /\ Declarers' = Declarers
           /\ Walk(request.start)' = Walk(request.start)
           /\ Reached(current)' <=> Reached(current')
<1>1. Walk(request.start)' = Walk(request.start)
  BY DEF Walk
<1>2. \A c : Declares(c, request.op, request.name, request.desc)'
               <=> Declares(c, request.op, request.name, request.desc)
  BY DEF Declares
<1>3. Declarers' = Declarers
  BY <1>1 DEF Declarers, Declares
<1>4. Reached(current)' <=> Reached(current')
  BY <1>1 DEF Reached, Passed, Declares, Size
<1> QED BY <1>1, <1>3, <1>4

LEMMA OtherAnswers ==
    ASSUME answer'.kind \notin Found, answer' # Exception("NoSuch")
    PROVE  NearestWins'
BY DEF NearestWins, Found

LEMMA SameAnswer ==
    ASSUME NearestWins, UNCHANGED <<classes, request, answer>>
    PROVE  NearestWins'
BY WalkStays DEF NearestWins

LEMMA NoAnswerYet ==
    ASSUME answer' = NoAnswer PROVE NearestWins'
BY OtherAnswers DEF NoAnswer, Exception, Found

LEMMA InitWalkInv == ASSUME Init PROVE WalkInv
<1>1. answer = NoAnswer /\ phase = "scan" /\ DOMAIN classes = {}
  BY DEF Init, LoaderInit
<1>2. NearestWins
  BY <1>1 DEF NearestWins, NoAnswer, Exception
<1> QED BY <1>1, <1>2, FS_EmptySet DEF WalkInv

LEMMA LoadWalkInv ==
    ASSUME WalkInv, LayoutInv, Load, UNCHANGED linkVars
    PROVE  WalkInv'
<1> USE DEF poolVars, loadVars, linkVars
<1>1. phase \in Loading
  BY DEF Load, OpenFile, Check, LayInstance, LayStatic, MissingCode, Insert, ScanEnd, Loading,
         ParsePool, PoolOne, PoolWide, PoolPanic, PoolError, PoolEnd, Reading
<1>2. answer' = NoAnswer
  BY <1>1 DEF WalkInv
<1>3. phase' # "lookup"
  BY <1>1 DEF Load, OpenFile, Check, LayInstance, LayStatic, MissingCode, Insert, ScanEnd, Loading,
         ParsePool, PoolOne, PoolWide, PoolPanic, PoolError, PoolEnd, Reading
<1>4. IsFiniteSet(DOMAIN classes') /\ None \notin DOMAIN classes'
  <2>1. CASE Insert
    <3>1. phase = "fields" /\ DOMAIN classes' = DOMAIN classes \cup {file.this}
      BY <2>1 DEF Insert
    <3>2. file.this # None
      BY <3>1, ClassFiles DEF LayoutInv, FileListed, FilesFound
    <3> QED BY <3>1, <3>2, FS_AddElement DEF WalkInv
  <2>2. CASE ~Insert
    <3>1. classes' = classes
      BY <2>2 DEF Load, OpenFile, Check, LayInstance, LayStatic, MissingCode, ScanEnd
    <3> QED BY <3>1 DEF WalkInv
  <2> QED BY <2>1, <2>2
<1> QED BY <1>2, <1>3, <1>4, NoAnswerYet DEF WalkInv

FirstLaw == IsFiniteSet(DOMAIN classes) => Reached(request.start)

LEMMA FirstClass == FirstLaw
<1> SUFFICES ASSUME IsFiniteSet(DOMAIN classes) PROVE Reached(request.start)
  BY DEF FirstLaw
<1>1. Size \in Nat /\ Walk(request.start)[1] = request.start
  BY WalkSteps
<1>2. Passed(1)
  BY DEF Passed
<1>3. 1 \in 1..(Size + 1)
  BY <1>1
<1> QED BY <1>1, <1>2, <1>3 DEF Reached

LEMMA FirstClassPrime == FirstLaw'
BY FirstClass, PTL

LEMMA AskWalkInv == ASSUME WalkInv, Ask PROVE WalkInv'
<1> USE DEF poolVars, loadVars
<1>1. classes' = classes /\ phase' \notin Loading \cup {"hung"} /\ answer = NoAnswer
  BY DEF Ask, WrongEntry, NewClass, Ldc, AskField, AskMethod, Answered, Asking, Loading
<1>2. IsFiniteSet(DOMAIN classes') /\ None \notin DOMAIN classes'
  BY <1>1 DEF WalkInv
<1>3. CASE WrongEntry \/ NewClass \/ Ldc
  <2>1. phase' = "ready"
    BY <1>3 DEF WrongEntry, NewClass, Ldc, Answered
  <2>2. answer'.kind \notin Found /\ answer' # Exception("NoSuch")
    <3>1. CASE WrongEntry
      BY <3>1 DEF WrongEntry, Answered, Exception, Found
    <3>2. CASE NewClass
      BY <3>2 DEF NewClass, Answered, Exception, Found
    <3>3. CASE Ldc
      BY <3>3 DEF Ldc, Answered, Exception, Found
    <3> QED BY <1>3, <3>1, <3>2, <3>3
  <2> QED BY <1>2, <2>1, <2>2, OtherAnswers DEF WalkInv, Loading
<1>4. CASE \E op \in FieldOps : AskField(op)
  <2>1. answer' = NoAnswer /\ current' = request'.start
    BY <1>1, <1>4 DEF AskField
  <2>2. Reached(request.start)'
    BY <1>2, FirstClassPrime DEF FirstLaw
  <2>3. Reached(current)'
    BY <2>1, <2>2 DEF Reached
  <2> QED BY <1>1, <1>2, <2>1, <2>3, NoAnswerYet DEF WalkInv
<1>5. CASE \E op \in InvokeOps : AskMethod(op)
  <2>1. answer' = NoAnswer /\ phase' = "count"
    BY <1>1, <1>5 DEF AskMethod
  <2> QED BY <1>2, <2>1, NoAnswerYet DEF WalkInv
<1> QED BY <1>3, <1>4, <1>5 DEF Ask

\* A member the walk finds is one the class declares.
LEMMA FoundDeclared ==
    ASSUME WalkInv, NEW m, Finds(m)
    PROVE  /\ phase = "lookup" /\ answer = NoAnswer
           /\ Declarers # {} /\ current = Walk(request.start)[Min(Declarers)]
<1>1. phase = "lookup" /\ current \in DOMAIN classes
  BY DEF Finds, Loaded, Walking
<1>2. Declares(current, request.op, request.name, request.desc)
  <2>1. PICK i \in DOMAIN Members : Matches(Members[i])
    BY DEF Finds, FirstMatch
  <2>2. Members[i] \in ToSet(Members)
    BY DEF ToSet
  <2> QED BY <1>1, <2>1, <2>2 DEF Declares, Members, Matches
<1>3. IsFiniteSet(DOMAIN classes) /\ Reached(current) /\ answer = NoAnswer
  BY <1>1 DEF WalkInv
<1> QED BY <1>1, <1>2, <1>3, WalkFinds

\* An answer to a request ends the walk.
LEMMA ReplyWalkInv ==
    ASSUME WalkInv, NEW a, Answered(a), UNCHANGED <<classes, request>>,
           \/ a.kind \notin Found /\ a # Exception("NoSuch")
           \/ a.kind \notin Found /\ Declarers = {}
           \/ /\ a # Exception("NoSuch")
              /\ Declarers # {} /\ a.owner = Walk(request.start)[Min(Declarers)]
    PROVE  WalkInv'
<1>1. answer' = a /\ phase' = "ready"
  BY DEF Answered
<1>2. NearestWins'
  <2>1. Declarers' = Declarers /\ Walk(request.start)' = Walk(request.start)
    BY WalkStays
  <2> QED BY <1>1, <2>1 DEF NearestWins, Found
<1> QED BY <1>1, <1>2 DEF WalkInv, Loading

LEMMA LookUpWalkInv ==
    ASSUME WalkInv, LookUpInit \/ LookUpNext \/ LookUpNone
    PROVE  WalkInv'
<1> USE DEF loadVars
<1>1. CASE LookUpInit
  BY <1>1, ReplyWalkInv DEF LookUpInit, Reply, Exception, Found
<1>2. CASE LookUpNext
  <2>1. current \in DOMAIN classes /\ phase = "lookup" /\ \A i \in DOMAIN Members : ~Matches(Members[i])
    BY <1>2 DEF LookUpNext, Loaded, Walking
  <2>2. ~Declares(current, request.op, request.name, request.desc)
    BY <2>1 DEF Declares, Members, Matches, ToSet
  <2>3. UNCHANGED <<classes, request, phase, answer>> /\ current' = classes[current].super
    BY <1>2 DEF LookUpNext
  <2>4. Reached(current')
    BY <2>1, <2>2, <2>3, WalkOn DEF WalkInv
  <2>5. Reached(current)'
    BY <2>3, <2>4, WalkStays
  <2> QED BY <2>3, <2>5, SameAnswer DEF WalkInv
<1>3. CASE LookUpNone
  <2>1. phase = "lookup" /\ current \notin DOMAIN classes
    BY <1>3 DEF LookUpNone, Walking
  <2>2. Declarers = {}
    BY <2>1, WalkEnds DEF WalkInv
  <2>3. Exception("NoSuch").kind \notin Found
    BY DEF Exception, Found
  <2> QED BY <1>3, <2>2, <2>3, ReplyWalkInv DEF LookUpNone, Reply
<1> QED BY <1>1, <1>2, <1>3

LEMMA FieldWalkInv ==
    ASSUME WalkInv, WrongField \/ WrongValue \/ InstanceField \/ ReadStatic \/ WriteStatic
    PROVE  WalkInv'
<1> USE DEF loadVars
<1>1. PICK m : Finds(m)
  BY DEF WrongField, WrongValue, InstanceField, ReadStatic, WriteStatic
<1>2. Declarers # {} /\ current = Walk(request.start)[Min(Declarers)]
  BY <1>1, FoundDeclared
<1>3. CASE WrongField
  BY <1>3, ReplyWalkInv DEF WrongField, Reply, Exception, Found
<1>4. CASE WrongValue
  BY <1>4, ReplyWalkInv DEF WrongValue, Reply, Exception, Found
<1>5. CASE InstanceField
  BY <1>2, <1>5, ReplyWalkInv DEF InstanceField, Reply, Exception
<1>6. CASE ReadStatic
  BY <1>2, <1>6, ReplyWalkInv DEF ReadStatic, Exception
<1>7. CASE WriteStatic
  BY <1>2, <1>7, ReplyWalkInv DEF WriteStatic, Exception
<1> QED BY <1>3, <1>4, <1>5, <1>6, <1>7

LEMMA MethodWalkInv ==
    ASSUME WalkInv, InvokeNative \/ Execute
    PROVE  WalkInv'
<1> USE DEF loadVars
<1>1. PICK m : Finds(m)
  BY DEF InvokeNative, Execute
<1>2. Declarers # {} /\ current = Walk(request.start)[Min(Declarers)]
  BY <1>1, FoundDeclared
<1>3. CASE InvokeNative
  <2>1. \/ Reply([kind |-> "native", owner |-> current])
        \/ phase' = "exit" /\ UNCHANGED <<poolVars, loadVars, linkVars>>
        \/ Reply(Exception("UnsatisfiedLinkError"))
    BY <1>3 DEF InvokeNative
  <2>2. CASE Reply([kind |-> "native", owner |-> current])
    BY <1>2, <2>2, ReplyWalkInv DEF Reply, Exception
  <2>3. CASE phase' = "exit" /\ UNCHANGED <<poolVars, loadVars, linkVars>>
    BY <2>3, SameAnswer DEF WalkInv, linkVars, Loading
  <2>4. CASE Reply(Exception("UnsatisfiedLinkError"))
    BY <2>4, ReplyWalkInv DEF Reply, Exception, Found
  <2> QED BY <2>1, <2>2, <2>3, <2>4
<1>4. CASE Execute
  <2>1. \/ Reply(Exception("too many args"))
        \/ Reply([kind |-> "execute", owner |-> current, args |-> TotalPop])
    BY <1>4 DEF Execute
  <2>2. CASE Reply(Exception("too many args"))
    BY <2>2, ReplyWalkInv DEF Reply, Exception, Found
  <2>3. CASE Reply([kind |-> "execute", owner |-> current, args |-> TotalPop])
    BY <1>2, <2>3, ReplyWalkInv DEF Reply, Exception
  <2> QED BY <2>1, <2>2, <2>3
<1> QED BY <1>3, <1>4

LEMMA CountWalkInv ==
    ASSUME WalkInv, CountArg \/ CountName \/ CountDims \/ CountHang \/ CountEnd
    PROVE  WalkInv'
<1> USE DEF poolVars, loadVars, linkVars
<1>1. phase = "count" /\ UNCHANGED <<classes, request, answer>>
  BY DEF CountArg, CountName, CountDims, CountHang, CountEnd, Scanning, Read
<1>2. phase' \in {"count", "hung"} \/ (phase' = "lookup" /\ current' = request'.start)
  BY <1>1 DEF CountArg, CountName, CountDims, CountHang, CountEnd, Read
<1>3. IsFiniteSet(DOMAIN classes') /\ None \notin DOMAIN classes' /\ answer' = NoAnswer
  BY <1>1 DEF WalkInv
<1>4. phase' = "lookup" => Reached(current)'
  <2>1. Reached(request.start)'
    BY <1>3, FirstClassPrime DEF FirstLaw
  <2> QED BY <1>2, <2>1 DEF Reached
<1> QED BY <1>3, <1>4, NoAnswerYet DEF WalkInv

LEMMA StepWalkInv == ASSUME WalkInv, LayoutInv, [Next]_vars PROVE WalkInv'
<1>1. CASE UNCHANGED vars
  <2>1. UNCHANGED <<classes, request, answer, phase, current>>
    BY <1>1 DEF vars, loadVars, linkVars
  <2> QED BY <2>1, SameAnswer, WalkStays DEF WalkInv
<1>2. CASE Load /\ UNCHANGED linkVars
  BY <1>2, LoadWalkInv
<1>3. CASE Ask
  BY <1>3, AskWalkInv
<1>4. CASE Link
  BY <1>4, CountWalkInv, LookUpWalkInv, FieldWalkInv, MethodWalkInv DEF Link
<1>5. CASE Resume
  <2>1. answer' = NoAnswer /\ phase' = "ready" /\ classes' = classes
    BY <1>5 DEF Resume, loadVars
  <2> QED BY <2>1, NoAnswerYet DEF WalkInv
<1> QED BY <1>1, <1>2, <1>3, <1>4, <1>5 DEF Next

\* For any classes, however they inherit, a member found is the one of the nearest
\* class that declares it, and none is missed that the chain leads to
\* (interpreter/mod.rs:971-1020).
THEOREM LookupNearest == Spec => []NearestWins
<1>1. Init => LayoutInv /\ WalkInv
  BY InitLayoutInv, InitWalkInv
<1>2. LayoutInv /\ WalkInv /\ [Next]_vars => LayoutInv' /\ WalkInv'
  BY StepLayoutInv, StepWalkInv
<1>3. WalkInv => NearestWins
  BY DEF WalkInv
<1> QED BY <1>1, <1>2, <1>3, PTL DEF Spec

-------------------------------------------------------------------------------
(* Where the types of a descriptor end *)

LEMMA Smallest ==
    ASSUME NEW S, S \subseteq Nat, S # {}
    PROVE  Min(S) \in S /\ \A x \in S : Min(S) <= x
<1>1. \E n \in S : \A x \in S : n <= x
  BY Least
<1> QED BY <1>1 DEF Min

\* The positions of a ";" at or behind i.
Semicolons(s, i) == {j \in i..Len(s) : s[j] = ";"}

\* Where the type at i ends, by its first character.
LEMMA TypeEnds ==
    ASSUME NEW s \in Seq(STRING), NEW i \in 1..Len(s)
    PROVE  /\ s[i] \in Primitive => TypeEnd(s, i) = i
           /\ (s[i] = "L" /\ Semicolons(s, i) # {}) => TypeEnd(s, i) = Min(Semicolons(s, i))
           /\ (s[i] = "L" /\ Semicolons(s, i) = {}) => TypeEnd(s, i) = 0
           /\ s[i] = "[" => TypeEnd(s, i) = TypeEnd(s, i + 1)
           /\ s[i] \notin Primitive \cup {"L", "["} => TypeEnd(s, i) = 0
<1> DEFINE elements == {j \in i..Len(s) : s[j] # "["}
<1>1. elements \subseteq Nat /\ Len(s) \in Nat
  OBVIOUS
<1>2. ASSUME s[i] # "["
      PROVE  elements # {} /\ Min(elements) = i
  <2>1. i \in elements
    BY <1>2
  <2>2. \A j \in elements : i <= j
    OBVIOUS
  <2>3. Min(elements) \in elements /\ Min(elements) <= i
    <3> HIDE DEF elements
    <3> QED BY <1>1, <2>1, Smallest
  <2> QED BY <2>1, <2>2, <2>3
<1>3. ASSUME s[i] = "[" PROVE {j \in (i + 1)..Len(s) : s[j] # "["} = elements
  <2>1. \A j \in i..Len(s) : s[j] # "[" => j \in (i + 1)..Len(s)
    BY <1>3
  <2> QED BY <2>1
<1>4. s[i] = "[" => TypeEnd(s, i) = TypeEnd(s, i + 1)
  BY <1>3 DEF TypeEnd
<1>5. \A k \in Primitive : k # "L" /\ k # "["
  BY DEF Primitive
<1>6. ASSUME s[i] # "["
      PROVE  TypeEnd(s, i) = CASE s[i] \in Primitive -> i
                               [] s[i] = "L" /\ Semicolons(s, i) # {} -> Min(Semicolons(s, i))
                               [] OTHER -> 0
  <2> HIDE DEF elements
  <2>1. elements # {} /\ Min(elements) = i
    BY <1>2, <1>6
  <2>2. TypeEnd(s, i) =
          LET k == Min(elements)
              semicolons == {j \in k..Len(s) : s[j] = ";"}
          IN  CASE elements = {} -> 0
                [] elements # {} /\ s[k] \in Primitive -> k
                [] elements # {} /\ s[k] = "L" /\ semicolons # {} -> Min(semicolons)
                [] OTHER -> 0
    BY DEF TypeEnd, elements
  <2> QED BY <1>5, <2>1, <2>2 DEF Semicolons
<1> QED BY <1>4, <1>5, <1>6

LEMMA NoTypeBehind ==
    ASSUME NEW s \in Seq(STRING) PROVE TypeEnd(s, Len(s) + 1) = 0
<1>1. {j \in (Len(s) + 1)..Len(s) : s[j] # "["} = {}
  OBVIOUS
<1> QED BY <1>1 DEF TypeEnd

LEMMA TypeEndIn ==
    ASSUME NEW s \in Seq(STRING), NEW i \in 1..Len(s), TypeEnd(s, i) # 0
    PROVE  TypeEnd(s, i) \in i..Len(s)
<1> DEFINE S == {n \in Nat : \E j \in 1..Len(s) :
                    n = Len(s) - j /\ TypeEnd(s, j) # 0 /\ TypeEnd(s, j) \notin j..Len(s)}
<1>1. SUFFICES ASSUME S # {} PROVE FALSE
  <2>1. Len(s) - i \in Nat
    OBVIOUS
  <2> QED BY <2>1
<1>2. PICK n \in S : \A m \in S : n <= m
  <2>1. S \subseteq Nat
    OBVIOUS
  <2> HIDE DEF S
  <2> QED BY <1>1, <2>1, Least
<1>3. PICK j \in 1..Len(s) : n = Len(s) - j /\ TypeEnd(s, j) # 0 /\ TypeEnd(s, j) \notin j..Len(s)
  BY <1>2
<1>4. Len(s) \in Nat /\ j \in Nat
  OBVIOUS
<1>5. s[j] # "[" \/ j = Len(s) \/ j + 1 \in 1..Len(s)
  BY <1>4
<1>6. s[j] # "["
  <2>1. SUFFICES ASSUME s[j] = "[" PROVE FALSE
    OBVIOUS
  <2>2. TypeEnd(s, j) = TypeEnd(s, j + 1)
    BY <2>1, TypeEnds
  <2>3. j # Len(s)
    BY <1>3, <2>2, NoTypeBehind
  <2>4. j + 1 \in 1..Len(s) /\ Len(s) - (j + 1) \in Nat /\ ~(n <= Len(s) - (j + 1))
    BY <1>3, <1>4, <2>3
  <2>5. TypeEnd(s, j + 1) \notin (j + 1)..Len(s)
    BY <1>3, <1>4, <2>2
  <2>6. Len(s) - (j + 1) \in S
    BY <1>3, <2>2, <2>4, <2>5
  <2> QED BY <1>2, <2>4, <2>6
<1>7. ASSUME s[j] = "L", Semicolons(s, j) # {} PROVE Min(Semicolons(s, j)) \in j..Len(s)
  <2>1. Semicolons(s, j) \subseteq j..Len(s)
    BY DEF Semicolons
  <2>2. Semicolons(s, j) \subseteq Nat
    BY <1>4, <2>1
  <2> QED BY <1>7, <2>1, <2>2, Smallest
<1>8. j \in j..Len(s)
  OBVIOUS
<1>9. TypeEnd(s, j) \in {0, j} \/ (s[j] = "L" /\ Semicolons(s, j) # {} /\ TypeEnd(s, j) = Min(Semicolons(s, j)))
  BY <1>6, TypeEnds
<1> QED BY <1>3, <1>7, <1>8, <1>9

-------------------------------------------------------------------------------
(* The parameters of a descriptor *)

\* What Parameters makes of the characters at and behind i, from the rest.
Parsed(f, s, i) ==
    IF i > Len(s) THEN <<>>
    ELSE IF TypeEnd(s, i) = 0 THEN <<"?">>
    ELSE <<s[i]>> \o f[TypeEnd(s, i) + 1]

IsParse(f, s) == f = [i \in 1..(Len(s) + 1) |-> Parsed(f, s, i)]

ParamsOf(s) == CHOOSE f : IsParse(f, s)

LEMMA ParametersAre ==
    ASSUME NEW desc PROVE Parameters(desc) = ParamsOf(ArgChars(desc))[1]
BY DEF Parameters, ParamsOf, IsParse, Parsed

\* f parses the characters at and behind m.
ParsesFrom(f, s, m) == f = [i \in m..(Len(s) + 1) |-> Parsed(f, s, i)]

LEMMA ParseExists ==
    ASSUME NEW s \in Seq(STRING) PROVE \E f : IsParse(f, s)
<1> DEFINE S == {d \in Nat : d <= Len(s) /\ ~\E f : ParsesFrom(f, s, Len(s) + 1 - d)}
<1>1. Len(s) \in Nat
  OBVIOUS
<1>2. S = {}
  <2>1. SUFFICES ASSUME S # {} PROVE FALSE
    OBVIOUS
  <2>2. PICK d \in S : \A e \in S : d <= e
    <3>1. S \subseteq Nat
      OBVIOUS
    <3> HIDE DEF S
    <3> QED BY <2>1, <3>1, Least
  <2> DEFINE m == Len(s) + 1 - d
  <2>3. d \in Nat /\ d <= Len(s) /\ ~\E f : ParsesFrom(f, s, m)
    BY <2>2
  <2>4. m \in 1..(Len(s) + 1)
    BY <1>1, <2>3
  <2>5. CASE d = 0
    <3> DEFINE f == [i \in m..(Len(s) + 1) |-> <<>>]
    <3>1. \A i \in m..(Len(s) + 1) : i > Len(s)
      BY <1>1, <2>5
    <3>2. ParsesFrom(f, s, m)
      BY <3>1 DEF ParsesFrom, Parsed
    <3> QED BY <2>3, <3>2
  <2>6. CASE d # 0
    <3>1. d - 1 \in Nat /\ d - 1 <= Len(s) /\ ~(d <= d - 1) /\ Len(s) + 1 - (d - 1) = m + 1
      BY <1>1, <2>3, <2>6
    <3>2. PICK g : ParsesFrom(g, s, m + 1)
      BY <2>2, <3>1
    <3> DEFINE f == [i \in m..(Len(s) + 1) |-> IF i = m THEN Parsed(g, s, m) ELSE g[i]]
    <3>3. m \in 1..Len(s)
      BY <1>1, <2>3, <2>6
    <3> HIDE DEF m
    <3>4. ASSUME NEW i \in m..(Len(s) + 1), i <= Len(s), TypeEnd(s, i) # 0
          PROVE  /\ TypeEnd(s, i) + 1 \in (m + 1)..(Len(s) + 1)
                 /\ f[TypeEnd(s, i) + 1] = g[TypeEnd(s, i) + 1]
      <4>1. i \in 1..Len(s)
        BY <1>1, <3>3, <3>4
      <4>2. TypeEnd(s, i) \in i..Len(s)
        BY <3>4, <4>1, TypeEndIn
      <4>3. TypeEnd(s, i) + 1 \in (m + 1)..(Len(s) + 1)
        BY <1>1, <3>3, <4>1, <4>2
      <4> QED BY <1>1, <3>3, <4>3
    <3>5. ASSUME NEW i \in m..(Len(s) + 1) PROVE Parsed(f, s, i) = Parsed(g, s, i)
      <4>1. CASE i > Len(s) \/ TypeEnd(s, i) = 0
        BY <4>1 DEF Parsed
      <4>2. CASE ~(i > Len(s)) /\ TypeEnd(s, i) # 0
        <5>1. i <= Len(s)
          BY <1>1, <3>3, <4>2
        <5>2. f[TypeEnd(s, i) + 1] = g[TypeEnd(s, i) + 1]
          BY <3>4, <4>2, <5>1
        <5> HIDE DEF f
        <5> QED BY <4>2, <5>2 DEF Parsed
      <4> QED BY <4>1, <4>2
    <3>6. ASSUME NEW i \in m..(Len(s) + 1) PROVE f[i] = Parsed(g, s, i)
      <4>1. CASE i = m
        BY <4>1
      <4>2. CASE i # m
        <5>1. i \in (m + 1)..(Len(s) + 1)
          BY <1>1, <3>3, <4>2
        <5> QED BY <3>2, <4>2, <5>1 DEF ParsesFrom
      <4> QED BY <4>1, <4>2
    <3>7. f = [i \in m..(Len(s) + 1) |-> f[i]]
      OBVIOUS
    <3> HIDE DEF f
    <3>8. ParsesFrom(f, s, m)
      BY <3>5, <3>6, <3>7 DEF ParsesFrom
    <3> QED BY <2>3, <3>8
  <2> QED BY <2>5, <2>6
<1>3. \E f : ParsesFrom(f, s, 1)
  <2>1. Len(s) \notin S
    BY <1>2
  <2>2. Len(s) + 1 - Len(s) = 1
    BY <1>1
  <2> QED BY <1>1, <2>1, <2>2
<1> QED BY <1>3 DEF ParsesFrom, IsParse

\* What a parameter list is made of.
Marks == STRING \cup {"?"}

LEMMA ShortSeq == ASSUME NEW S PROVE <<>> \in Seq(S) /\ \A c \in S : <<c>> \in Seq(S)
OBVIOUS

LEMMA ParamsAre ==
    ASSUME NEW s \in Seq(STRING)
    PROVE  /\ \A i \in 1..(Len(s) + 1) : ParamsOf(s)[i] = Parsed(ParamsOf(s), s, i)
           /\ \A i \in 1..(Len(s) + 1) : ParamsOf(s)[i] \in Seq(Marks)
<1> DEFINE f == ParamsOf(s)
           S == {d \in Nat : d <= Len(s) /\ f[Len(s) + 1 - d] \notin Seq(Marks)}
<1>1. IsParse(f, s)
  BY ParseExists DEF ParamsOf
<1> HIDE DEF f
<1>2. \A i \in 1..(Len(s) + 1) : f[i] = Parsed(f, s, i)
  BY <1>1 DEF IsParse
<1>3. Len(s) \in Nat
  OBVIOUS
<1>4. S = {}
  <2>1. SUFFICES ASSUME S # {} PROVE FALSE
    OBVIOUS
  <2>2. PICK d \in S : \A e \in S : d <= e
    <3>1. S \subseteq Nat
      OBVIOUS
    <3> HIDE DEF S
    <3> QED BY <2>1, <3>1, Least
  <2>3. PICK i \in 1..(Len(s) + 1) : d = Len(s) + 1 - i /\ f[i] \notin Seq(Marks)
    <3>1. d \in Nat /\ d <= Len(s) /\ f[Len(s) + 1 - d] \notin Seq(Marks)
      BY <2>2
    <3>2. Len(s) + 1 - d \in 1..(Len(s) + 1) /\ d = Len(s) + 1 - (Len(s) + 1 - d)
      BY <1>3, <3>1
    <3> QED BY <3>1, <3>2
  <2>4. f[i] = Parsed(f, s, i)
    BY <1>2
  <2>5. CASE i > Len(s) \/ TypeEnd(s, i) = 0
    <3>1. f[i] = <<>> \/ f[i] = <<"?">>
      BY <2>4, <2>5 DEF Parsed
    <3>2. <<>> \in Seq(Marks) /\ <<"?">> \in Seq(Marks)
      BY ShortSeq DEF Marks
    <3> QED BY <2>3, <3>1, <3>2
  <2>6. CASE ~(i > Len(s)) /\ TypeEnd(s, i) # 0
    <3>1. i \in 1..Len(s)
      BY <1>3, <2>6
    <3>2. PICK k \in 1..(Len(s) + 1) : k = TypeEnd(s, i) + 1 /\ k > i
      BY <1>3, <2>6, <3>1, TypeEndIn
    <3>3. Len(s) + 1 - k \in Nat /\ Len(s) + 1 - k <= Len(s) /\ ~(d <= Len(s) + 1 - k)
          /\ Len(s) + 1 - (Len(s) + 1 - k) = k
      BY <1>3, <2>3, <3>1, <3>2
    <3>4. f[k] \in Seq(Marks)
      BY <2>2, <3>3
    <3>5. f[i] = <<s[i]>> \o f[k]
      BY <2>4, <2>6, <3>2 DEF Parsed
    <3>6. s[i] \in Marks
      BY <3>1 DEF Marks
    <3> QED BY <2>3, <3>4, <3>5, <3>6
  <2> QED BY <2>5, <2>6
<1>5. ASSUME NEW i \in 1..(Len(s) + 1) PROVE f[i] \in Seq(Marks)
  <2>1. Len(s) + 1 - i \in Nat /\ Len(s) + 1 - i <= Len(s) /\ Len(s) + 1 - (Len(s) + 1 - i) = i
    BY <1>3
  <2> QED BY <1>4, <2>1
<1> QED BY <1>2, <1>5 DEF f

\* From position i on the descriptor lists parameters only, so many.
Good(s, i) == "?" \notin ToSet(ParamsOf(s)[i])
Count(s, i) == Len(ParamsOf(s)[i])

LEMMA NextParameter ==
    ASSUME NEW s \in Seq(STRING), NEW i \in 1..Len(s), Good(s, i)
    PROVE  /\ TypeEnd(s, i) \in i..Len(s)
           /\ TypeEnd(s, i) + 1 \in 1..(Len(s) + 1)
           /\ Good(s, TypeEnd(s, i) + 1)
           /\ Count(s, TypeEnd(s, i) + 1) \in Nat
           /\ Count(s, i) = 1 + Count(s, TypeEnd(s, i) + 1)
<1> DEFINE f == ParamsOf(s)
           e == TypeEnd(s, i)
<1>1. Len(s) \in Nat /\ i \in 1..(Len(s) + 1) /\ ~(i > Len(s))
  OBVIOUS
<1>2. f[i] = Parsed(f, s, i)
  BY <1>1, ParamsAre
<1>3. e # 0
  <2>1. SUFFICES ASSUME e = 0 PROVE FALSE
    OBVIOUS
  <2>2. f[i] = <<"?">>
    BY <1>1, <1>2, <2>1 DEF Parsed
  <2>3. "?" \in ToSet(<<"?">>)
    BY DEF ToSet
  <2> QED BY <2>2, <2>3 DEF Good
<1>4. e \in i..Len(s)
  BY <1>3, TypeEndIn
<1>5. e + 1 \in 1..(Len(s) + 1)
  BY <1>1, <1>4
<1>6. f[i] = <<s[i]>> \o f[e + 1]
  BY <1>1, <1>2, <1>3 DEF Parsed
<1>7. f[e + 1] \in Seq(Marks) /\ s[i] \in Marks
  BY <1>5, ParamsAre DEF Marks
<1> DEFINE t == f[e + 1]
           r == f[i]
<1>8. t \in Seq(Marks) /\ r = <<s[i]>> \o t
  BY <1>6, <1>7
<1> HIDE DEF t, r
<1>9. Len(r) = 1 + Len(t) /\ Len(t) \in Nat
  BY <1>7, <1>8
<1>10. ToSet(t) \subseteq ToSet(r)
  <2>1. ASSUME NEW j \in DOMAIN t PROVE j + 1 \in DOMAIN r /\ r[j + 1] = t[j]
    BY <1>7, <1>8
  <2> QED BY <2>1 DEF ToSet
<1> QED BY <1>4, <1>5, <1>9, <1>10 DEF Good, Count, t, r

LEMMA LastParameter ==
    ASSUME NEW s \in Seq(STRING)
    PROVE  Count(s, Len(s) + 1) = 0 /\ \A i \in 1..(Len(s) + 1) : Count(s, i) \in Nat
<1>1. Len(s) + 1 \in 1..(Len(s) + 1) /\ Len(s) + 1 > Len(s)
  OBVIOUS
<1>2. ParamsOf(s)[Len(s) + 1] = <<>>
  BY <1>1, ParamsAre DEF Parsed
<1>3. \A i \in 1..(Len(s) + 1) : Len(ParamsOf(s)[i]) \in Nat
  BY ParamsAre
<1> QED BY <1>2, <1>3 DEF Count

-------------------------------------------------------------------------------
(* The texts and the methods of the classes *)

Text == Seq(STRING)

\* A descriptor in a constant pool is a text, and a method says how many locals it
\* needs.
ClassOk(c) ==
    /\ \A i \in DOMAIN c.pool : c.pool[i].kind \in RefKinds => c.pool[i].texts[3] \in Text
    /\ \A i \in DOMAIN c.methods : i \in Nat \ {0} /\ c.methods[i].locals \in Nat

RawText == \A i \in DOMAIN raw : raw[i].text \in Text

TextsInv ==
    /\ phase \in Reader => RawText
    /\ \A n \in DOMAIN classes : ClassOk(classes[n])

LEMMA LoadedOk ==
    ASSUME FileListed, RawText, phase = "fields" PROVE ClassOk(LoadedClass)
<1>1. ASSUME NEW i \in DOMAIN ResolvedPool, ResolvedPool[i].kind \in RefKinds
      PROVE  ResolvedPool[i].texts[3] \in Text
  <2>1. i \in DOMAIN raw /\ ResolvedPool[i] = IF i = 0 THEN EmptyEntry ELSE Resolved(i)
    BY DEF ResolvedPool
  <2>2. EmptyEntry.kind \notin RefKinds /\ Unsupported.kind \notin RefKinds
    BY DEF EmptyEntry, Unsupported, Entry, RefKinds
  <2>3. ResolvedPool[i] = Resolved(i)
    BY <1>1, <2>1, <2>2
  <2> DEFINE e == raw[i]
  <2>4. /\ NamesMember(e.b)
        /\ Resolved(i) = Entry(e.kind, <<raw[raw[e.a].a].text, Member(e.b)[1], Member(e.b)[2]>>)
    BY <1>1, <2>2, <2>3 DEF Resolved, EmptyEntry, Entry, RefKinds
  <2>5. Resolved(i).texts[3] = raw[raw[e.b].b].text
    BY <2>4 DEF Entry, Member
  <2>6. raw[e.b].b \in DOMAIN raw
    BY <2>4 DEF NamesMember, IsUtf8, SlotIs
  <2> QED BY <2>3, <2>5, <2>6 DEF RawText
<1>2. file \in FilesFound
  BY DEF FileListed
<1>3. /\ \A i \in DOMAIN file.methods : i \in Nat \ {0} /\ file.methods[i].locals \in Nat
  BY <1>2, ClassFiles DEF FilesFound
<1> DEFINE ms == [i \in DOMAIN file.methods |-> MethodInfo(file.methods[i])]
<1>4. \A i \in DOMAIN ms : i \in Nat \ {0} /\ ms[i].locals \in Nat
  BY <1>3 DEF MethodInfo
<1>5. LoadedClass.pool = ResolvedPool /\ LoadedClass.methods = ms
  BY DEF LoadedClass
<1> HIDE DEF ms
<1> QED BY <1>1, <1>4, <1>5 DEF ClassOk

LEMMA InitTextsInv == ASSUME Init PROVE TextsInv
BY DEF Init, LoaderInit, TextsInv, Reader

LEMMA PoolTextsInv ==
    ASSUME TextsInv, PoolInv, FileListed, ParsePool, UNCHANGED classes
    PROVE  TextsInv'
<1>1. CASE PoolOne \/ PoolWide
  <2>1. phase = "pool" /\ taken < Len(file.pool)
    BY <1>1 DEF PoolOne, PoolWide, Reading
  <2>2. file \in FilesFound /\ taken \in Nat
    BY <2>1 DEF FileListed, PoolInv, PoolFilled
  <2>3. file.pool \in Seq(ToSet(file.pool)) /\ \A k \in DOMAIN file.pool : file.pool[k].text \in Text
    BY <2>2, ClassFiles DEF FilesFound, Text
  <2>4. taken + 1 \in DOMAIN file.pool
    BY <2>1, <2>2, <2>3
  <2>5. Constant.text \in Text
    BY <2>3, <2>4 DEF Constant
  <2>6. RawText
    BY <2>1 DEF TextsInv, Reader
  <2>7. RawText'
    BY <1>1, <2>5, <2>6 DEF PoolOne, PoolWide, RawText
  <2> QED BY <2>7 DEF TextsInv
<1>2. CASE PoolPanic \/ PoolError \/ PoolEnd
  <2>1. phase \in Reader /\ raw' = raw
    BY <1>2 DEF PoolPanic, PoolError, PoolEnd, Reading, Reader, poolVars
  <2> QED BY <2>1 DEF TextsInv, RawText
<1> QED BY <1>1, <1>2 DEF ParsePool

LEMMA LoadTextsInv ==
    ASSUME TextsInv, PoolInv, FileListed, Load
    PROVE  TextsInv'
<1>1. CASE OpenFile
  <2>1. EmptySlot.text \in Text
    BY ShortSeq DEF EmptySlot, Text
  <2>2. PICK f : StartPool(f)
    BY <1>1 DEF OpenFile
  <2>3. RawText'
    BY <2>1, <2>2 DEF StartPool, RawText
  <2> QED BY <1>1, <2>3 DEF OpenFile, TextsInv
<1>2. CASE LayInstance \/ LayStatic \/ Check \/ MissingCode
  <2>1. phase \in Reader /\ raw' = raw /\ classes' = classes
    BY <1>2 DEF LayInstance, LayStatic, Check, MissingCode, Reader, poolVars, loadVars
  <2> QED BY <2>1 DEF TextsInv, RawText
<1>3. CASE Insert
  <2>1. phase = "fields" /\ RawText /\ phase' \notin Reader
    BY <1>3 DEF Insert, TextsInv, Reader
  <2>2. ClassOk(LoadedClass)
    BY <2>1, LoadedOk
  <2>3. /\ DOMAIN classes' = DOMAIN classes \cup {file.this}
        /\ \A n \in DOMAIN classes' : classes'[n] = IF n = file.this THEN LoadedClass ELSE classes[n]
    BY <1>3 DEF Insert
  <2>4. ASSUME NEW n \in DOMAIN classes' PROVE ClassOk(classes'[n])
    BY <2>2, <2>3 DEF TextsInv
  <2> QED BY <2>1, <2>4 DEF TextsInv
<1>4. CASE ScanEnd
  BY <1>4 DEF ScanEnd, TextsInv, Reader
<1>5. CASE ParsePool /\ UNCHANGED loadVars
  BY <1>5, PoolTextsInv DEF loadVars
<1> QED BY <1>1, <1>2, <1>3, <1>4, <1>5 DEF Load

LEMMA StepTextsInv ==
    ASSUME TextsInv, PoolInv, LayoutInv, [Next]_vars
    PROVE  TextsInv'
<1>1. CASE UNCHANGED vars
  BY <1>1 DEF vars, poolVars, loadVars, TextsInv, RawText
<1>2. CASE Load
  BY <1>2, LoadTextsInv DEF LayoutInv
<1>3. CASE Ask \/ Link \/ Resume
  <2>1. classes' = classes /\ phase' \notin Reader
    BY <1>3, ProgramStep DEF Loading, Reader
  <2> QED BY <2>1 DEF TextsInv
<1> QED BY <1>1, <1>2, <1>3 DEF Next

-------------------------------------------------------------------------------
(* What count_args has read *)

LEMMA ArgCharsText ==
    ASSUME NEW desc \in Text PROVE ArgChars(desc) \in Text
<1> DEFINE before == {i \in DOMAIN desc : \A j \in 1..i : desc[j] # ")"}
           n == Cardinality(before)
<1>1. Len(desc) \in Nat /\ DOMAIN desc = 1..Len(desc)
  BY DEF Text
<1>2. n \in Nat /\ n <= Len(desc)
  <2>1. IsFiniteSet(1..Len(desc)) /\ Cardinality(1..Len(desc)) = Len(desc)
    <3> DEFINE l == Len(desc)
    <3>1. l \in Nat
      BY <1>1
    <3> HIDE DEF l
    <3>2. IsFiniteSet(1..l) /\ Cardinality(1..l) = l
      BY <3>1, FS_Interval
    <3> QED BY <3>2 DEF l
  <2>2. before \subseteq 1..Len(desc)
    BY <1>1
  <2> HIDE DEF before
  <2>3. IsFiniteSet(before) /\ Cardinality(before) <= Cardinality(1..Len(desc))
    BY <2>1, <2>2, FS_Subset
  <2> QED BY <2>1, <2>3, FS_CardinalityType
<1> HIDE DEF n
<1>3. \A i \in 2..n : desc[i] \in STRING
  BY <1>1, <1>2 DEF Text
<1>4. SubSeq(desc, 2, n) \in Seq(STRING)
  BY <1>2, <1>3, SubSeqProperties
<1>5. <<>> \in Seq(STRING)
  BY ShortSeq
<1> QED BY <1>4, <1>5 DEF ArgChars, Text, n

LEMMA ParameterCount ==
    ASSUME NEW desc \in Text
    PROVE  /\ WellFormed(desc) <=> Good(ArgChars(desc), 1)
           /\ Len(Parameters(desc)) = Count(ArgChars(desc), 1)
           /\ Len(Parameters(desc)) \in Nat
           /\ DOMAIN Parameters(desc) = 1..Len(Parameters(desc))
<1> DEFINE s == ArgChars(desc)
           p == Parameters(desc)
<1>1. s \in Seq(STRING)
  BY ArgCharsText DEF Text
<1>2. 1 \in 1..(Len(s) + 1)
  BY <1>1
<1>3. p = ParamsOf(s)[1]
  BY ParametersAre
<1>4. p \in Seq(Marks)
  <2> HIDE DEF s, p
  <2> QED BY <1>1, <1>2, <1>3, ParamsAre
<1>5. Len(p) \in Nat /\ DOMAIN p = 1..Len(p)
  <2> HIDE DEF p
  <2> QED BY <1>4
<1> QED BY <1>3, <1>5 DEF WellFormed, Good, Count

\* What count_args has not read is what stands at and behind position i.
Unread(s, i) ==
    /\ chars \in Text
    /\ Len(chars) = Len(s) + 1 - i
    /\ \A j \in 1..Len(chars) : chars[j] = s[i + j - 1]

LEMMA ReadOne ==
    ASSUME NEW s \in Text, NEW i \in 1..(Len(s) + 1), Unread(s, i), chars # <<>>
    PROVE  /\ i \in 1..Len(s) /\ i + 1 \in 1..(Len(s) + 1)
           /\ Head(chars) = s[i]
           /\ chars' = Tail(chars) => Unread(s, i + 1)'
<1>1. Len(s) \in Nat /\ chars \in Seq(STRING) /\ Len(chars) \in Nat /\ Len(chars) # 0
  BY DEF Text, Unread
<1>2. i \in 1..Len(s) /\ i + 1 \in 1..(Len(s) + 1)
  BY <1>1 DEF Unread
<1>3. Head(chars) = s[i]
  <2>1. 1 \in 1..Len(chars) /\ i + 1 - 1 = i /\ Head(chars) = chars[1]
    BY <1>1
  <2> QED BY <2>1 DEF Unread
<1>4. ASSUME chars' = Tail(chars) PROVE Unread(s, i + 1)'
  <2>1. /\ chars' \in Seq(STRING) /\ Len(chars') = Len(chars) - 1
        /\ \A j \in 1..(Len(chars) - 1) : chars'[j] = chars[j + 1]
    BY <1>1, <1>4, HeadTailProperties
  <2>2. Len(chars') = Len(s) + 1 - (i + 1)
    BY <1>1, <2>1 DEF Unread
  <2>3. ASSUME NEW j \in 1..Len(chars') PROVE chars'[j] = s[(i + 1) + j - 1]
    <3>1. j \in 1..(Len(chars) - 1) /\ j + 1 \in 1..Len(chars) /\ i + (j + 1) - 1 = (i + 1) + j - 1
      BY <1>1, <2>1
    <3> QED BY <2>1, <3>1 DEF Unread
  <2> QED BY <2>1, <2>2, <2>3 DEF Unread, Text
<1> QED BY <1>2, <1>3, <1>4

\* n parameters are counted, and the rest of them begin at position i.
Counted(s, i, n) == Good(s, i) /\ n + Count(s, i) = Count(s, 1)

\* The positions at which count_args can be, and what the characters there must be.
At(s, i) ==
    /\ Unread(s, i)
    /\ mode = "arg" => Counted(s, i, argc)
    /\ mode = "name" => /\ Semicolons(s, i) # {}
                        /\ Counted(s, Min(Semicolons(s, i)) + 1, argc + 1)
    /\ mode = "dims" => /\ TypeEnd(s, i) # 0
                        /\ Counted(s, TypeEnd(s, i) + 1, argc + 1)

Scanned(s) == \E i \in 1..(Len(s) + 1) : At(s, i)

\* A name that does not end at i ends where it ends from i + 1.
LEMMA SemicolonsOn ==
    ASSUME NEW s \in Seq(STRING), NEW i \in 1..Len(s)
    PROVE  s[i] # ";" => Semicolons(s, i + 1) = Semicolons(s, i)
<1>1. Len(s) \in Nat /\ i \in Nat
  OBVIOUS
<1>2. ASSUME NEW j \in i..Len(s), j # i PROVE j \in (i + 1)..Len(s)
  BY <1>1, <1>2
<1>3. \A j \in (i + 1)..Len(s) : j \in i..Len(s)
  BY <1>1
<1>4. ASSUME s[i] # ";", NEW j \in i..Len(s), s[j] = ";" PROVE j # i
  BY <1>4
<1> QED BY <1>2, <1>3, <1>4 DEF Semicolons

LEMMA ArgScanned ==
    ASSUME NEW s \in Text, argc \in Nat, mode = "arg", Scanned(s), CountArg
    PROVE  Scanned(s)'
<1>1. PICK i \in 1..(Len(s) + 1) : At(s, i)
  BY DEF Scanned
<1>2. chars # <<>> /\ chars' = Tail(chars)
  BY DEF CountArg, Scanning, Read
<1>3. Unread(s, i) /\ Counted(s, i, argc)
  BY <1>1 DEF At
<1>4. /\ i \in 1..Len(s) /\ i + 1 \in 1..(Len(s) + 1)
      /\ Head(chars) = s[i] /\ Unread(s, i + 1)'
  BY <1>2, <1>3, ReadOne
<1>5. s \in Seq(STRING) /\ Len(s) \in Nat
  BY DEF Text
<1> DEFINE e == TypeEnd(s, i)
<1>6. e \in i..Len(s) /\ e # 0 /\ Good(s, e + 1) /\ argc + 1 + Count(s, e + 1) = Count(s, 1)
  <2>1. /\ e \in i..Len(s)
        /\ Good(s, e + 1) /\ Count(s, e + 1) \in Nat /\ Count(s, i) = 1 + Count(s, e + 1)
    BY <1>3, <1>4, <1>5, NextParameter DEF Counted
  <2>2. argc + Count(s, i) = Count(s, 1)
    BY <1>3 DEF Counted
  <2> QED BY <1>4, <2>1, <2>2
<1>7. Counted(s, e + 1, argc + 1)
  BY <1>6 DEF Counted
<1>8. At(s, i + 1)'
  <2>1. CASE s[i] \in Primitive
    <3>1. mode' = "arg" /\ argc' = argc + 1
      BY <1>4, <2>1 DEF CountArg, Read, Primitive
    <3>2. e = i
      BY <1>4, <1>5, <2>1, TypeEnds
    <3> QED BY <1>4, <1>7, <3>1, <3>2 DEF At, Counted
  <2>2. CASE s[i] = "L"
    <3>1. mode' = "name" /\ argc' = argc + 0
      BY <1>4, <2>2 DEF CountArg, Read, Primitive
    <3>2. Semicolons(s, i) # {} /\ e = Min(Semicolons(s, i))
      BY <1>4, <1>5, <1>6, <2>2, TypeEnds
    <3>3. Semicolons(s, i + 1) = Semicolons(s, i)
      BY <1>4, <1>5, <2>2, SemicolonsOn
    <3> QED BY <1>4, <1>7, <3>1, <3>2, <3>3 DEF At, Counted
  <2>3. CASE s[i] = "["
    <3>1. mode' = "dims" /\ argc' = argc + 0
      BY <1>4, <2>3 DEF CountArg, Read, Primitive
    <3>2. TypeEnd(s, i + 1) = e
      BY <1>4, <1>5, <2>3, TypeEnds
    <3> QED BY <1>4, <1>6, <1>7, <3>1, <3>2 DEF At, Counted
  <2>4. s[i] \in Primitive \cup {"L", "["}
    BY <1>4, <1>5, <1>6, TypeEnds
  <2> QED BY <2>1, <2>2, <2>3, <2>4
<1> QED BY <1>4, <1>8 DEF Scanned

LEMMA NameScanned ==
    ASSUME NEW s \in Text, argc \in Nat, mode = "name", Scanned(s), CountName
    PROVE  Scanned(s)'
<1>1. PICK i \in 1..(Len(s) + 1) : At(s, i)
  BY DEF Scanned
<1>2. chars # <<>> /\ chars' = Tail(chars)
  BY DEF CountName, Scanning, Read
<1>3. Unread(s, i) /\ Semicolons(s, i) # {} /\ Counted(s, Min(Semicolons(s, i)) + 1, argc + 1)
  BY <1>1 DEF At
<1>4. /\ i \in 1..Len(s) /\ i + 1 \in 1..(Len(s) + 1)
      /\ Head(chars) = s[i] /\ Unread(s, i + 1)'
  BY <1>2, <1>3, ReadOne
<1>5. s \in Seq(STRING)
  BY DEF Text
<1>6. At(s, i + 1)'
  <2>1. CASE s[i] = ";"
    <3>1. mode' = "arg" /\ argc' = argc + 1
      BY <1>4, <2>1 DEF CountName, Read
    <3>2. Len(s) \in Nat /\ i \in Nat
      BY <1>4, <1>5
    <3>3. Semicolons(s, i) \subseteq Nat /\ i \in Semicolons(s, i)
          /\ \A j \in Semicolons(s, i) : i <= j
      <4>1. Semicolons(s, i) \subseteq i..Len(s)
        BY DEF Semicolons
      <4>2. i \in i..Len(s)
        BY <1>4, <3>2
      <4>3. i \in Semicolons(s, i)
        BY <2>1, <4>2 DEF Semicolons
      <4> QED BY <3>2, <4>1, <4>3
    <3>4. Min(Semicolons(s, i)) = i
      <4>1. Min(Semicolons(s, i)) \in Semicolons(s, i) /\ Min(Semicolons(s, i)) <= i
        BY <3>3, Smallest
      <4>2. i <= Min(Semicolons(s, i)) /\ Min(Semicolons(s, i)) \in Nat
        BY <3>3, <4>1
      <4> QED BY <3>2, <4>1, <4>2
    <3> QED BY <1>3, <1>4, <3>1, <3>4 DEF At, Counted
  <2>2. CASE s[i] # ";"
    <3>1. mode' = "name" /\ argc' = argc + 0
      BY <1>4, <2>2 DEF CountName, Read
    <3>2. Semicolons(s, i + 1) = Semicolons(s, i)
      BY <1>4, <1>5, <2>2, SemicolonsOn
    <3> QED BY <1>3, <1>4, <3>1, <3>2 DEF At, Counted
  <2> QED BY <2>1, <2>2
<1> QED BY <1>4, <1>6 DEF Scanned

LEMMA DimsScanned ==
    ASSUME NEW s \in Text, argc \in Nat, mode = "dims", Scanned(s), CountDims
    PROVE  Scanned(s)'
<1>1. PICK i \in 1..(Len(s) + 1) : At(s, i)
  BY DEF Scanned
<1>2. chars # <<>> /\ chars' = Tail(chars)
  BY DEF CountDims, Scanning, Read
<1> DEFINE e == TypeEnd(s, i)
<1>3. Unread(s, i) /\ e # 0 /\ Counted(s, e + 1, argc + 1)
  BY <1>1 DEF At
<1>4. /\ i \in 1..Len(s) /\ i + 1 \in 1..(Len(s) + 1)
      /\ Head(chars) = s[i] /\ Unread(s, i + 1)'
  BY <1>2, <1>3, ReadOne
<1>5. s \in Seq(STRING)
  BY DEF Text
<1>6. s[i] \in Primitive \cup {"L", "["}
  BY <1>3, <1>4, <1>5, TypeEnds
<1>7. At(s, i + 1)'
  <2>1. CASE s[i] = "["
    <3>1. mode' = "dims" /\ argc' = argc + 0
      BY <1>4, <2>1 DEF CountDims, Read
    <3>2. TypeEnd(s, i + 1) = e
      BY <1>4, <1>5, <2>1, TypeEnds
    <3> QED BY <1>3, <1>4, <3>1, <3>2 DEF At, Counted
  <2>2. CASE s[i] = "L"
    <3>1. mode' = "name" /\ argc' = argc + 0
      BY <1>4, <2>2 DEF CountDims, Read
    <3>2. Semicolons(s, i) # {} /\ e = Min(Semicolons(s, i))
      BY <1>3, <1>4, <1>5, <2>2, TypeEnds
    <3>3. Semicolons(s, i + 1) = Semicolons(s, i)
      BY <1>4, <1>5, <2>2, SemicolonsOn
    <3> QED BY <1>3, <1>4, <3>1, <3>2, <3>3 DEF At, Counted
  <2>3. CASE s[i] \in Primitive
    <3>1. s[i] # "[" /\ s[i] # "L"
      BY <2>3 DEF Primitive
    <3>2. mode' = "arg" /\ argc' = argc + 1
      BY <1>4, <3>1 DEF CountDims, Read
    <3>3. e = i
      BY <1>4, <1>5, <2>3, TypeEnds
    <3> QED BY <1>3, <1>4, <3>2, <3>3 DEF At, Counted
  <2> QED BY <1>6, <2>1, <2>2, <2>3
<1> QED BY <1>4, <1>7 DEF Scanned

\* When everything is read, every parameter is counted.
LEMMA AllCounted ==
    ASSUME NEW s \in Text, argc \in Nat, mode \in {"arg", "dims"}, Scanned(s), CountEnd
    PROVE  argc' = Count(s, 1)
<1>1. PICK i \in 1..(Len(s) + 1) : At(s, i)
  BY DEF Scanned
<1>2. i = Len(s) + 1 /\ s \in Seq(STRING)
  <2>1. Len(chars) = 0
    BY DEF CountEnd
  <2> QED BY <1>1, <2>1 DEF At, Unread, Text
<1>3. mode = "arg"
  BY <1>1, <1>2, NoTypeBehind DEF At
<1>4. argc' = argc + 0
  BY <1>3 DEF CountEnd
<1>5. argc + Count(s, Len(s) + 1) = Count(s, 1)
  BY <1>1, <1>2, <1>3 DEF At, Counted
<1>6. Count(s, Len(s) + 1) = 0
  BY <1>2, LastParameter
<1> QED BY <1>4, <1>5, <1>6

-------------------------------------------------------------------------------
(* The arguments of a call *)

CountInv ==
    /\ argc \in Nat /\ mode \in {"arg", "name", "dims"}
    /\ request.op \in InvokeOps => request.desc \in Text
    /\ phase = "count" =>
         /\ request.op \in InvokeOps
         /\ WellFormed(request.desc) => Scanned(ArgChars(request.desc))
    /\ (phase = "lookup" /\ request.op \in InvokeOps /\ WellFormed(request.desc)) =>
         argc = Len(Parameters(request.desc))
    /\ ArgumentsPlaced

LEMMA OtherArguments ==
    ASSUME answer'.kind # "execute", answer' # Exception("too many args")
    PROVE  ArgumentsPlaced'
BY DEF ArgumentsPlaced

LEMMA NoArgumentsYet ==
    ASSUME answer' = NoAnswer PROVE ArgumentsPlaced'
BY DEF ArgumentsPlaced

LEMMA SameArguments ==
    ASSUME ArgumentsPlaced, UNCHANGED <<classes, request, answer>>
    PROVE  ArgumentsPlaced'
<1>1. Declarers' = Declarers /\ Walk(request.start)' = Walk(request.start)
  BY WalkStays
<1>2. First(classes[Walk(request.start)[Min(Declarers)]].methods)'
        = First(classes[Walk(request.start)[Min(Declarers)]].methods)
  BY <1>1 DEF First, Matches
<1>3. Parameters(request.desc)' = Parameters(request.desc)
  OBVIOUS
<1>4. WellFormed(request.desc)' <=> WellFormed(request.desc)
  OBVIOUS
<1> QED BY <1>1, <1>2, <1>3, <1>4 DEF ArgumentsPlaced, LocalRead, LocalFilled, ReceiverPop

LEMMA InitCountInv == ASSUME Init PROVE CountInv
BY DEF Init, LoaderInit, CountInv, NoRequest, InvokeOps, ArgumentsPlaced

LEMMA LoadCountInv ==
    ASSUME CountInv, WalkInv, Load, UNCHANGED linkVars
    PROVE  CountInv'
<1> USE DEF poolVars, loadVars, linkVars
<1>1. phase \in Loading
  BY DEF Load, OpenFile, Check, LayInstance, LayStatic, MissingCode, Insert, ScanEnd, Loading,
         ParsePool, PoolOne, PoolWide, PoolPanic, PoolError, PoolEnd, Reading
<1>2. answer' = NoAnswer
  BY <1>1 DEF WalkInv
<1>3. phase' \notin {"count", "lookup"}
  BY <1>1 DEF Load, OpenFile, Check, LayInstance, LayStatic, MissingCode, Insert, ScanEnd, Loading,
         ParsePool, PoolOne, PoolWide, PoolPanic, PoolError, PoolEnd, Reading
<1> QED BY <1>2, <1>3, NoArgumentsYet DEF CountInv

LEMMA AskCountInv == ASSUME CountInv, TextsInv, Ask PROVE CountInv'
<1> USE DEF poolVars, loadVars
<1>1. CASE WrongEntry \/ NewClass \/ Ldc
  <2>1. phase' = "ready" /\ UNCHANGED <<request, mode, argc>>
    BY <1>1 DEF WrongEntry, NewClass, Ldc, Answered
  <2>2. answer'.kind # "execute" /\ answer' # Exception("too many args")
    <3>1. CASE WrongEntry
      BY <3>1 DEF WrongEntry, Answered, Exception
    <3>2. CASE NewClass
      <4>1. PICK n : \/ answer' = [kind |-> "new", class |-> n]
                     \/ answer' = Exception("NoClassDefFoundError")
        BY <3>2 DEF NewClass, Answered
      <4>2. CASE answer' = [kind |-> "new", class |-> n]
        BY <4>2 DEF Exception
      <4>3. CASE answer' = Exception("NoClassDefFoundError")
        BY <4>3 DEF Exception
      <4> QED BY <4>1, <4>2, <4>3
    <3>3. CASE Ldc
      <4>1. PICK n : answer' = [kind |-> "constant", null |-> n] \/ answer' = Exception("entry")
        BY <3>3 DEF Ldc, Answered
      <4>2. CASE answer' = [kind |-> "constant", null |-> n]
        BY <4>2 DEF Exception
      <4>3. CASE answer' = Exception("entry")
        BY <4>3 DEF Exception
      <4> QED BY <4>1, <4>2, <4>3
    <3> QED BY <1>1, <3>1, <3>2, <3>3
  <2> QED BY <2>1, <2>2, OtherArguments DEF CountInv
<1>2. CASE \E op \in FieldOps : AskField(op)
  <2>1. answer' = NoAnswer /\ phase' = "lookup" /\ UNCHANGED <<mode, argc>>
    BY <1>2 DEF AskField, Asking
  <2>2. request'.op \notin InvokeOps
    BY <1>2 DEF AskField, FieldOps, InvokeOps
  <2> QED BY <2>1, <2>2, NoArgumentsYet DEF CountInv
<1>3. CASE \E op \in InvokeOps : AskMethod(op)
  <2>1. answer' = NoAnswer /\ phase' = "count" /\ mode' = "arg" /\ argc' = 0
    BY <1>3 DEF AskMethod, Asking
  <2>2. PICK op \in InvokeOps, c \in DOMAIN classes : \E i \in DOMAIN Pool(c) :
          /\ Pool(c)[i].kind \in RefKinds
          /\ request'.op = op /\ request'.desc = Pool(c)[i].texts[3]
          /\ chars' = ArgChars(Pool(c)[i].texts[3])
    BY <1>3 DEF AskMethod, RefKinds
  <2>3. \A i \in DOMAIN Pool(c) : Pool(c)[i].kind \in RefKinds => Pool(c)[i].texts[3] \in Text
    BY <2>2 DEF TextsInv, ClassOk, Pool
  <2>4. PICK d \in Text : request'.op \in InvokeOps /\ request'.desc = d /\ chars' = ArgChars(d)
    BY <2>2, <2>3
  <2>5. WellFormed(d) => Scanned(ArgChars(d))'
    <3> DEFINE s == ArgChars(d)
    <3>1. s \in Text /\ s \in Seq(STRING)
      BY ArgCharsText DEF Text
    <3> HIDE DEF s
    <3>2. 1 \in 1..(Len(s) + 1) /\ Len(s) = Len(s) + 1 - 1 /\ \A j \in 1..Len(s) : j = 1 + j - 1
      BY <3>1
    <3>3. Unread(s, 1)'
      BY <2>4, <3>1, <3>2 DEF Unread, s
    <3>4. WellFormed(d) => Good(s, 1)
      BY ParameterCount DEF s
    <3>5. 0 + Count(s, 1) = Count(s, 1)
      BY <3>1, <3>2, LastParameter
    <3>6. WellFormed(d) => At(s, 1)'
      BY <2>1, <3>3, <3>4, <3>5 DEF At, Counted
    <3> QED BY <3>2, <3>6 DEF Scanned, s
  <2> QED BY <2>1, <2>4, <2>5, NoArgumentsYet DEF CountInv
<1> QED BY <1>1, <1>2, <1>3 DEF Ask

LEMMA CountCountInv ==
    ASSUME CountInv, WalkInv, CountArg \/ CountName \/ CountDims \/ CountHang \/ CountEnd
    PROVE  CountInv'
<1> USE DEF poolVars, loadVars, linkVars
<1>1. /\ phase = "count" /\ UNCHANGED <<classes, request, answer>> /\ answer = NoAnswer
      /\ argc \in Nat /\ request.op \in InvokeOps /\ request.desc \in Text
  BY DEF CountArg, CountName, CountDims, CountHang, CountEnd, Scanning, Read, CountInv, WalkInv
<1>2. ArgumentsPlaced'
  BY <1>1, NoArgumentsYet
<1>3. PICK d \in Text : request.desc = d
  BY <1>1
<1>4. PICK s \in Text : s = ArgChars(d)
  BY ArgCharsText
<1>5. WellFormed(d) => Scanned(s)
  BY <1>1, <1>3, <1>4 DEF CountInv
<1>6. WellFormed(request.desc)' <=> WellFormed(d)
  BY <1>1, <1>3
<1>7. request'.op \in InvokeOps /\ request'.desc = d
  BY <1>1, <1>3
<1>8. CASE CountArg \/ CountName \/ CountDims
  <2>1. phase' = "count" /\ argc' \in Nat /\ mode' \in {"arg", "name", "dims"}
    <3>1. CASE CountArg
      BY <1>1, <3>1 DEF CountArg, Read
    <3>2. CASE CountName
      <4>1. \/ Read("name", 0) \/ Read("arg", 1)
        BY <3>2 DEF CountName
      <4> QED BY <1>1, <4>1 DEF Read
    <3>3. CASE CountDims
      <4>1. \/ Read("dims", 0) \/ Read("name", 0) \/ Read("arg", 1)
        BY <3>3 DEF CountDims
      <4> QED BY <1>1, <4>1 DEF Read
    <3> QED BY <1>8, <3>1, <3>2, <3>3
  <2>2. WellFormed(d) => Scanned(s)'
    <3>1. CASE CountArg
      BY <1>1, <1>5, <3>1, ArgScanned DEF CountArg, Scanning
    <3>2. CASE CountName
      BY <1>1, <1>5, <3>2, NameScanned DEF CountName, Scanning
    <3>3. CASE CountDims
      BY <1>1, <1>5, <3>3, DimsScanned DEF CountDims, Scanning
    <3> QED BY <1>8, <3>1, <3>2, <3>3
  <2> QED BY <1>2, <1>3, <1>4, <1>6, <1>7, <2>1, <2>2 DEF CountInv
<1>9. CASE CountHang
  <2>1. phase' = "hung" /\ UNCHANGED <<argc, mode>>
    BY <1>9 DEF CountHang
  <2> QED BY <1>1, <1>2, <1>7, <2>1 DEF CountInv
<1>10. CASE CountEnd
  <2>1. phase' = "lookup" /\ mode' = "arg" /\ mode # "name" /\ argc' \in Nat
    BY <1>1, <1>10 DEF CountEnd
  <2>2. mode \in {"arg", "dims"}
    BY <2>1 DEF CountInv
  <2>3. WellFormed(d) => argc' = Count(s, 1)
    BY <1>1, <1>5, <1>10, <2>2, AllCounted
  <2>4. WellFormed(d) => argc' = Len(Parameters(d))
    BY <1>4, <2>3, ParameterCount
  <2> QED BY <1>2, <1>6, <1>7, <2>1, <2>4 DEF CountInv
<1> QED BY <1>8, <1>9, <1>10

\* An answer that says nothing about arguments.
LEMMA PlainCountInv ==
    ASSUME CountInv, NEW a, Answered(a), UNCHANGED <<request, mode, argc>>,
           a.kind # "execute", a # Exception("too many args")
    PROVE  CountInv'
<1>1. phase' = "ready" /\ answer' = a
  BY DEF Answered
<1> QED BY <1>1, OtherArguments DEF CountInv

\* The method found is the one find_method returns for the nearest class.
LEMMA FoundFirst ==
    ASSUME WalkInv, TextsInv, request.op \in InvokeOps, NEW m, Finds(m)
    PROVE  /\ First(classes[Walk(request.start)[Min(Declarers)]].methods) = {m}
           /\ m.locals \in Nat
<1> DEFINE ms == classes[current].methods
           Firsts == {k \in DOMAIN ms : Matches(ms[k]) /\ \A j \in 1..(k - 1) : ~Matches(ms[j])}
<1>1. current = Walk(request.start)[Min(Declarers)]
  BY FoundDeclared
<1>2. current \in DOMAIN classes /\ Members = ms
  BY DEF Finds, Loaded, Members, FieldOps, InvokeOps
<1>3. \A i \in DOMAIN ms : i \in Nat \ {0} /\ ms[i].locals \in Nat
  BY <1>2 DEF TextsInv, ClassOk
<1> HIDE DEF ms
<1>4. PICK i \in DOMAIN ms : FirstMatch(i) /\ m = ms[i]
  BY <1>2 DEF Finds
<1>5. i \in Firsts
  BY <1>2, <1>4 DEF FirstMatch
<1>6. ASSUME NEW k \in Firsts PROVE k = i
  <2>1. k \in DOMAIN ms /\ Matches(ms[k]) /\ \A j \in 1..(k - 1) : ~Matches(ms[j])
    OBVIOUS
  <2>2. Matches(ms[i]) /\ \A j \in 1..(i - 1) : ~Matches(ms[j])
    BY <1>5
  <2>3. i \in Nat \ {0} /\ k \in Nat \ {0}
    BY <1>3, <1>4, <2>1
  <2>4. i \notin 1..(k - 1) /\ k \notin 1..(i - 1)
    BY <2>1, <2>2
  <2> QED BY <2>3, <2>4
<1>7. First(ms) = {ms[k] : k \in Firsts}
  BY DEF First
<1>8. Firsts = {i}
  BY <1>5, <1>6
<1> HIDE DEF Firsts
<1>9. First(ms) = {m}
  BY <1>4, <1>7, <1>8
<1> QED BY <1>1, <1>3, <1>4, <1>9 DEF ms

LEMMA WideIsNat == ASSUME NEW p, NEW k \in Nat \ {0} PROVE WideBefore(p, k) \in Nat
<1> DEFINE wide == {j \in 1..(k - 1) : p[j] \in {"J", "D"}}
<1>1. wide \subseteq 1..(k - 1)
  OBVIOUS
<1>2. IsFiniteSet(1..(k - 1))
  BY FS_Interval
<1> HIDE DEF wide
<1>3. Cardinality(wide) \in Nat
  BY <1>1, <1>2, FS_Subset, FS_CardinalityType
<1> QED BY <1>3 DEF WideBefore, wide

LEMMA ExecuteCountInv ==
    ASSUME CountInv, WalkInv, TextsInv, Execute
    PROVE  CountInv'
<1> USE DEF loadVars
<1>1. PICK m : /\ request.op \in InvokeOps /\ Finds(m)
               /\ Reply(IF TotalPop > m.locals THEN Exception("too many args")
                        ELSE [kind |-> "execute", owner |-> current, args |-> TotalPop])
  BY DEF Execute, MethodsHere
<1>2. /\ phase = "lookup" /\ First(classes[Walk(request.start)[Min(Declarers)]].methods) = {m}
      /\ m.locals \in Nat /\ argc \in Nat
  BY <1>1, FoundDeclared, FoundFirst DEF CountInv
<1>3. phase' = "ready" /\ UNCHANGED <<classes, request, mode, argc>>
  BY <1>1 DEF Reply, Answered
<1>4. /\ Declarers' = Declarers /\ Walk(request.start)' = Walk(request.start)
  BY <1>3, WalkStays
<1>5. First(classes[Walk(request.start)[Min(Declarers)]].methods)' = {m}
  <2>1. First(classes[Walk(request.start)[Min(Declarers)]].methods)'
          = First(classes[Walk(request.start)[Min(Declarers)]].methods)
    BY <1>3, <1>4 DEF First, Matches
  <2> QED BY <1>2, <2>1
<1> DEFINE p == Parameters(request.desc)
           r == ReceiverPop
<1>6. request.desc \in Text
  BY <1>1 DEF CountInv
<1>7. Len(p) \in Nat /\ DOMAIN p = 1..Len(p)
  BY <1>6, ParameterCount
<1>8. TotalPop = argc + r /\ r \in Nat
  BY DEF TotalPop, ReceiverPop
<1>9. WellFormed(request.desc) => argc = Len(p)
  BY <1>1, <1>2 DEF CountInv
<1>10. Len(p) + 1 \in Nat \ {0} /\ \A k \in DOMAIN p : k \in Nat \ {0}
  BY <1>7
<1>11. WideBefore(p, Len(p) + 1) \in Nat /\ \A k \in DOMAIN p : WideBefore(p, k) \in Nat
  BY <1>10, WideIsNat
<1>12. p' = p /\ r' = r /\ request' = request
  BY <1>3 DEF ReceiverPop
<1> HIDE DEF p, r
<1>13. CASE answer' = Exception("too many args") /\ TotalPop > m.locals
  <2>1. answer'.kind # "execute"
    BY <1>13 DEF Exception
  <2>2. WellFormed(request.desc) => m.locals < r + (Len(p) + 1 - 1) + WideBefore(p, Len(p) + 1)
    <3>1. TotalPop > m.locals
      BY <1>13
    <3> QED BY <1>2, <1>7, <1>8, <1>9, <1>11, <3>1
  <2>3. ArgumentsPlaced'
    <3>1. WellFormed(request.desc) => m.locals < LocalRead(p, Len(p) + 1)'
      BY <1>12, <2>2 DEF LocalRead, r
    <3> QED BY <1>5, <1>12, <2>1, <3>1 DEF ArgumentsPlaced, p
  <2> QED BY <1>3, <2>3 DEF CountInv
<1>14. CASE answer' = [kind |-> "execute", owner |-> current, args |-> TotalPop]
  <2>0. answer' # Exception("too many args")
    BY <1>14 DEF Exception
  <2>1. answer'.args = TotalPop
    BY <1>14
  <2>2. ASSUME WellFormed(request.desc), NEW k \in DOMAIN p
        PROVE  LocalFilled(p, k)' = LocalRead(p, k)' - WideBefore(p, k)
    <3>1. LocalFilled(p, k)' = TotalPop - Len(p) + (k - 1)
      BY <1>12, <2>1 DEF LocalFilled
    <3>2. LocalRead(p, k)' = r + (k - 1) + WideBefore(p, k)
      BY <1>12 DEF LocalRead, r
    <3>3. k \in Nat /\ WideBefore(p, k) \in Nat /\ argc = Len(p)
      BY <1>9, <1>10, <1>11, <2>2
    <3> QED BY <1>7, <1>8, <3>1, <3>2, <3>3
  <2>3. ArgumentsPlaced'
    BY <1>12, <2>0, <2>2 DEF ArgumentsPlaced, p
  <2> QED BY <1>3, <2>3 DEF CountInv
<1>15. \/ answer' = Exception("too many args") /\ TotalPop > m.locals
       \/ answer' = [kind |-> "execute", owner |-> current, args |-> TotalPop]
  BY <1>1 DEF Reply, Answered
<1> QED BY <1>13, <1>14, <1>15

LEMMA LookUpCountInv ==
    ASSUME CountInv, WalkInv, TextsInv,
           \/ LookUpInit \/ LookUpNext \/ LookUpNone
           \/ WrongField \/ WrongValue \/ InstanceField \/ ReadStatic \/ WriteStatic
           \/ InvokeNative
    PROVE  CountInv'
<1> USE DEF loadVars
<1>1. CASE LookUpInit
  BY <1>1, PlainCountInv DEF LookUpInit, Reply, Exception
<1>2. CASE LookUpNext
  BY <1>2, SameArguments DEF LookUpNext, CountInv, Loaded, Walking
<1>3. CASE LookUpNone
  BY <1>3, PlainCountInv DEF LookUpNone, Reply, Exception
<1>4. CASE WrongField
  BY <1>4, PlainCountInv DEF WrongField, Reply, Exception
<1>5. CASE WrongValue
  BY <1>5, PlainCountInv DEF WrongValue, Reply, Exception
<1>6. CASE InstanceField
  BY <1>6, PlainCountInv DEF InstanceField, Reply, Exception
<1>7. CASE ReadStatic
  BY <1>7, PlainCountInv DEF ReadStatic, Exception
<1>8. CASE WriteStatic
  BY <1>8, PlainCountInv DEF WriteStatic, Exception
<1>9. CASE InvokeNative
  <2>1. \/ Reply([kind |-> "native", owner |-> current])
        \/ phase' = "exit" /\ UNCHANGED <<poolVars, loadVars, linkVars>>
        \/ Reply(Exception("UnsatisfiedLinkError"))
    BY <1>9 DEF InvokeNative
  <2>2. CASE Reply([kind |-> "native", owner |-> current])
    BY <2>2, PlainCountInv DEF Reply, Exception
  <2>3. CASE phase' = "exit" /\ UNCHANGED <<poolVars, loadVars, linkVars>>
    BY <2>3, SameArguments DEF CountInv, linkVars
  <2>4. CASE Reply(Exception("UnsatisfiedLinkError"))
    BY <2>4, PlainCountInv DEF Reply, Exception
  <2> QED BY <2>1, <2>2, <2>3, <2>4
<1> QED BY <1>1, <1>2, <1>3, <1>4, <1>5, <1>6, <1>7, <1>8, <1>9

LEMMA StepCountInv ==
    ASSUME CountInv, WalkInv, TextsInv, [Next]_vars PROVE CountInv'
<1>1. CASE UNCHANGED vars
  <2>1. UNCHANGED <<classes, request, answer, phase, chars, mode, argc>>
    BY <1>1 DEF vars, loadVars, linkVars
  <2>2. WellFormed(request.desc)' <=> WellFormed(request.desc)
    BY <2>1
  <2>3. Scanned(ArgChars(request.desc))' <=> Scanned(ArgChars(request.desc))
    BY <2>1 DEF Scanned, At, Unread, Counted
  <2> QED BY <2>1, <2>2, <2>3, SameArguments DEF CountInv
<1>2. CASE Load /\ UNCHANGED linkVars
  BY <1>2, LoadCountInv
<1>3. CASE Ask
  BY <1>3, AskCountInv
<1>4. CASE Link
  BY <1>4, CountCountInv, LookUpCountInv, ExecuteCountInv DEF Link
<1>5. CASE Resume
  <2>1. answer' = NoAnswer /\ phase' = "ready" /\ request' = NoRequest /\ argc' = 0 /\ mode' = mode
    BY <1>5 DEF Resume
  <2>2. request'.op \notin InvokeOps
    BY <2>1 DEF NoRequest, InvokeOps
  <2> QED BY <2>1, <2>2, NoArgumentsYet DEF CountInv
<1> QED BY <1>1, <1>2, <1>3, <1>4, <1>5 DEF Next

\* For any descriptor that is well formed, the values popped are the receiver and as
\* many as the descriptor has parameters, and no method with room for them is
\* refused (interpreter/mod.rs:865-876, 85-109, 1147-1179).
THEOREM ArgumentsArrive == Spec => []ArgumentsPlaced
<1> DEFINE IInv == PoolInv /\ LayoutInv /\ WalkInv /\ TextsInv /\ CountInv
<1>1. Init => IInv
  BY InitPoolInv, InitLayoutInv, InitWalkInv, InitTextsInv, InitCountInv
<1>2. IInv /\ [Next]_vars => IInv'
  BY StepPoolInv, StepLayoutInv, StepWalkInv, StepTextsInv, StepCountInv
<1>3. IInv => ArgumentsPlaced
  BY DEF CountInv
<1> QED BY <1>1, <1>2, <1>3, PTL DEF Spec
===============================================================================
