------------------------------ MODULE ConstantPool ------------------------------
(***************************************************************************)
(* parse_constant_pool and resolve_cp_entry (classfile/mod.rs): the loop   *)
(* that puts the constants of a class file into numbered slots, one        *)
(* constant per step, and the resolution of the slots they link to.        *)
(*                                                                         *)
(* A text is the sequence of its characters.  A constant is recorded by    *)
(* what the code tells apart: its kind, its text if it is one, and the     *)
(* slots it links to.  Decoding of big-endian numbers is left out; a file  *)
(* that ends inside a constant is one that ends before it.                 *)
(***************************************************************************)
EXTENDS Naturals, SequencesExt

CONSTANT Directories   \* the sets of class files the program may find

\* The kinds of RawCpEntry.  "Number" stands for Integer and Float, "Wide" for
\* Long and Double, "Other" for the six kinds resolution does not support, and
\* "Unknown" for a tag no kind has.
LinkKinds == {"Class", "String", "NameAndType"}
RefKinds == {"FieldRef", "MethodRef", "InterfaceMethodRef"}
OneSlotKinds == {"Utf8", "Number", "Other"} \cup LinkKinds \cup RefKinds
Kinds == OneSlotKinds \cup {"Wide", "Unknown"}

VARIABLES
    phase,   \* what the program is doing
    file,    \* the class file being read
    taken,   \* constants read so far
    index,   \* parse_constant_pool's `index'
    raw      \* parse_constant_pool's `raw'

poolVars == <<file, taken, index, raw>>

EmptySlot == [kind |-> "Empty", text |-> <<>>, a |-> 0, b |-> 0]

\* vec![RawCpEntry::Empty; cp_count]
StartPool(f) ==
    /\ file' = f
    /\ taken' = 0
    /\ index' = 1
    /\ raw' = [i \in 0..(f.count - 1) |-> EmptySlot]

Reading == phase = "pool" /\ index < file.count

Constant == file.pool[taken + 1]

\* Most constants take one slot.
PoolOne ==
    /\ Reading
    /\ taken < Len(file.pool)
    /\ Constant.kind \in OneSlotKinds
    /\ raw' = [raw EXCEPT ![index] = Constant]
    /\ index' = index + 1
    /\ taken' = taken + 1
    /\ UNCHANGED <<phase, file>>

\* Counts one slot for it.
FaultyPoolWide ==
    /\ Reading
    /\ taken < Len(file.pool)
    /\ Constant.kind = "Wide"
    /\ raw' = [raw EXCEPT ![index] = Constant]
    /\ index' = index + 1
    /\ taken' = taken + 1
    /\ UNCHANGED <<phase, file>>

\* A long or a double takes two.  The value of the `match' is computed first, and
\* it advances `index': the slot assigned is the second one, over the Unused
\* just written there, and the constant's own slot stays Empty.
PoolWide ==
    /\ Reading
    /\ taken < Len(file.pool)
    /\ Constant.kind = "Wide"
    /\ index + 1 < file.count
    /\ raw' = [raw EXCEPT ![index + 1] = Constant]
    /\ index' = index + 2
    /\ taken' = taken + 1
    /\ UNCHANGED <<phase, file>>

\* The second slot is outside `raw': an index out of bounds.
PoolPanic ==
    /\ Reading
    /\ taken < Len(file.pool)
    /\ Constant.kind = "Wide"
    /\ index + 1 >= file.count
    /\ phase' = "panic"
    /\ UNCHANGED poolVars

\* The end of the file, or an unsupported tag: load returns the error.
PoolError ==
    /\ Reading
    /\ taken < Len(file.pool) => Constant.kind = "Unknown"
    /\ phase' = "scan"
    /\ UNCHANGED poolVars

PoolEnd ==
    /\ phase = "pool"
    /\ index >= file.count
    /\ phase' = "parsed"
    /\ UNCHANGED poolVars

ParsePool == PoolOne \/ PoolWide \/ PoolPanic \/ PoolError \/ PoolEnd

-------------------------------------------------------------------------------
(* resolve_cp_entry *)

SlotIs(i, kind) == i \in DOMAIN raw /\ raw[i].kind = kind

\* utf8_at
IsUtf8(i) == SlotIs(i, "Utf8")

\* class_name_at
NamesClass(i) == SlotIs(i, "Class") /\ IsUtf8(raw[i].a)

\* name_and_type_at
NamesMember(i) == SlotIs(i, "NameAndType") /\ IsUtf8(raw[i].a) /\ IsUtf8(raw[i].b)

Entry(kind, texts) == [kind |-> kind, texts |-> texts]
EmptyEntry == Entry("Empty", <<>>)
Unsupported == Entry("Unsupported", <<>>)

\* Takes the descriptor for the name.
FaultyMember(i) == <<raw[raw[i].b].text, raw[raw[i].a].text>>

\* The name and the descriptor of the NameAndType in slot i.
Member(i) == <<raw[raw[i].a].text, raw[raw[i].b].text>>

Resolved(i) ==
    LET e == raw[i]
    IN  CASE e.kind = "Empty" -> EmptyEntry
          [] e.kind = "Utf8" -> Entry("Utf8", <<e.text>>)
          [] e.kind \in {"Number", "Wide"} -> Entry(e.kind, <<>>)
          [] e.kind \in {"Class", "String"} /\ IsUtf8(e.a) ->
               Entry(e.kind, <<raw[e.a].text>>)
          [] e.kind = "NameAndType" /\ NamesMember(i) -> Entry(e.kind, Member(i))
          [] e.kind \in RefKinds /\ NamesClass(e.a) /\ NamesMember(e.b) ->
               Entry(e.kind, <<raw[raw[e.a].a].text, Member(e.b)[1], Member(e.b)[2]>>)
          [] OTHER -> Unsupported

\* The constant pool of the class: slot 0 is Empty.
ResolvedPool == [i \in DOMAIN raw |-> IF i = 0 THEN EmptyEntry ELSE Resolved(i)]

-------------------------------------------------------------------------------
(* What a class file means by its links *)

\* The slot the class file format gives the k-th constant of f.
SlotIn(f, k) == k + Cardinality({j \in 1..(k - 1) : f.pool[j].kind = "Wide"})

SlotOf(k) == SlotIn(file, k)

Taken == 1..taken

\* The constants slot i of the format holds: one, or none.
ConstantsAt(i, kind) == {k \in Taken : SlotOf(k) = i /\ file.pool[k].kind = kind}

TextsAt(i) == {file.pool[k].text : k \in ConstantsAt(i, "Utf8")}

ClassNamesAt(i) == UNION {TextsAt(file.pool[k].a) : k \in ConstantsAt(i, "Class")}

MembersAt(i) ==
    UNION {TextsAt(file.pool[k].a) \X TextsAt(file.pool[k].b) :
             k \in ConstantsAt(i, "NameAndType")}

\* What the reference c spells, if anything.
Spelled(c) ==
    {Entry(c.kind, <<n, m[1], m[2]>>) : n \in ClassNamesAt(c.a), m \in MembersAt(c.b)}

\* Whatever order the constants come in, and wherever a long or a double
\* shifts the slots behind it, a reference resolves to the class, name and
\* descriptor it spells, and to Unsupported if it spells none (classfile/mod.rs
\* 256-335, 345-441).
ReferencesResolve ==
    phase = "parsed" =>
      \A k \in Taken : file.pool[k].kind \in RefKinds =>
        Resolved(SlotOf(k)) \in (IF Spelled(file.pool[k]) = {} THEN {Unsupported}
                                                              ELSE Spelled(file.pool[k]))

\* Every slot is accounted for when the loop has run through: the constants
\* stand in the slots of the format, but a long or a double one slot behind
\* its own, which is Empty (classfile/mod.rs:258-282); and nothing is read past
\* cp_count.
SlotsFilled ==
    phase = "parsed" =>
      /\ index = file.count
      /\ \A k \in Taken :
           IF file.pool[k].kind = "Wide"
           THEN /\ raw[SlotOf(k)] = EmptySlot
                /\ raw[SlotOf(k) + 1] = file.pool[k]
           ELSE raw[SlotOf(k)] = file.pool[k]
===============================================================================
