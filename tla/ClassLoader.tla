------------------------------- MODULE ClassLoader -------------------------------
(***************************************************************************)
(* ClassLoader::load (classfile/mod.rs) over the .class files of a         *)
(* directory, in whatever order the directory lists them (main.rs          *)
(* load_sample_classes): the constant pool, the checks, the layout of the  *)
(* fields, one field per step, the methods, and the insertion of the class *)
(* into the table.                                                         *)
(*                                                                         *)
(* `damage' names the check a file fails, "none" for a sound one: "read"   *)
(* (fs::read), "magic" (also a pool count of 0), "parse" (the cafebabe     *)
(* crate, which reads the rest of the file), "version".                    *)
(***************************************************************************)
EXTENDS ConstantPool

None == <<>>   \* super_class of java/lang/Object

\* A constant begins in a slot its pool's count announces.  A class has a name: the
\* empty text stands for the superclass that is not there.
ASSUME ClassFiles ==
    \A f \in UNION Directories :
      /\ f.pool \in Seq(ToSet(f.pool)) /\ f.count \in Nat
      /\ \A k \in DOMAIN f.pool : SlotIn(f, k) < f.count
      /\ f.count = 0 => f.damage \in {"read", "magic"}
      /\ f.this # None
      /\ \A k \in DOMAIN f.pool : f.pool[k].text \in Seq(STRING)
      /\ f.fields \in Seq(ToSet(f.fields))
      /\ f.methods \in Seq(ToSet(f.methods))
      /\ \A i \in DOMAIN f.methods : f.methods[i].locals \in Nat

VARIABLES
    directory,   \* class files not looked at yet
    laid,        \* load's `fields', laid out so far
    offset,      \* load's `offset'
    pointers,    \* load's `pointer_offsets'
    classes,     \* ClassLoader::classes: names to classes
    found        \* ghost: what the directory held at first

loadVars == <<directory, laid, offset, pointers, classes, found>>

LoaderInit ==
    /\ phase = "scan"
    /\ directory \in Directories
    /\ found = directory
    /\ taken = 0 /\ index = 1 /\ raw = <<>> /\ file = None
    /\ laid = <<>> /\ offset = 0 /\ pointers = <<>>
    /\ classes = <<>>

-------------------------------------------------------------------------------
(* Field layout *)

\* is_reference_type
IsReference(desc) == desc # <<>> /\ Head(desc) \in {"L", "["}

\* jvm_field_size: an unknown type takes four bytes.
FieldSize(desc) ==
    CASE desc # <<>> /\ Head(desc) \in {"B", "Z"} -> 1
      [] desc # <<>> /\ Head(desc) \in {"C", "S"} -> 2
      [] desc # <<>> /\ Head(desc) \in {"J", "D", "L", "["} -> 8
      [] OTHER -> 4

\* Does not align.
FaultyAligned(at, align) == at

\* (at + align - 1) & !(align - 1), align a power of two.
Aligned(at, align) == ((at + align - 1) \div align) * align

\* Every size is a power of two of at most 8: it is its own alignment.
Place(desc) == Aligned(offset, FieldSize(desc))

FieldInfo(f, at) ==
    [name |-> f.name, desc |-> f.desc, static |-> f.static, offset |-> at]

\* Records the offset before it is aligned.
FaultyLayInstance ==
    /\ phase = "fields"
    /\ Len(laid) < Len(file.fields)
    /\ LET f == file.fields[Len(laid) + 1]
           at == Place(f.desc)
       IN  /\ ~f.static
           /\ laid' = Append(laid, FieldInfo(f, at))
           /\ pointers' = IF IsReference(f.desc) THEN Append(pointers, offset) ELSE pointers
           /\ offset' = at + FieldSize(f.desc)
    /\ UNCHANGED <<phase, poolVars, directory, classes, found>>

LayInstance ==
    /\ phase = "fields"
    /\ Len(laid) < Len(file.fields)
    /\ LET f == file.fields[Len(laid) + 1]
           at == Place(f.desc)
       IN  /\ ~f.static
           /\ laid' = Append(laid, FieldInfo(f, at))
           /\ pointers' = IF IsReference(f.desc) THEN Append(pointers, at) ELSE pointers
           /\ offset' = at + FieldSize(f.desc)
    /\ UNCHANGED <<phase, poolVars, directory, classes, found>>

\* A static field aligns the offset and takes no space.
LayStatic ==
    /\ phase = "fields"
    /\ Len(laid) < Len(file.fields)
    /\ LET f == file.fields[Len(laid) + 1]
       IN  /\ f.static
           /\ laid' = Append(laid, FieldInfo(f, 0))
           /\ offset' = Place(f.desc)
    /\ UNCHANGED <<phase, poolVars, directory, pointers, classes, found>>

-------------------------------------------------------------------------------
(* load *)

\* A file that cannot be read, or whose header is refused, is passed over.
OpenFile ==
    /\ phase = "scan"
    /\ \E f \in directory :
         /\ directory' = directory \ {f}
         /\ StartPool(f)
         /\ phase' = IF f.damage \in {"read", "magic"} THEN "scan" ELSE "pool"
    /\ laid' = <<>> /\ offset' = 0 /\ pointers' = <<>>
    /\ UNCHANGED <<classes, found>>

\* parse_class and the version check.
Check ==
    /\ phase = "parsed"
    /\ phase' = IF file.damage = "none" THEN "fields" ELSE "scan"
    /\ UNCHANGED <<poolVars, loadVars>>

NeedsCode(m) == ~m.native /\ ~m.abstract

\* A method that should have code and has none: MissingCodeAttribute.
MissingCode ==
    /\ phase = "fields"
    /\ Len(laid) = Len(file.fields)
    /\ \E i \in DOMAIN file.methods : NeedsCode(file.methods[i]) /\ ~file.methods[i].code
    /\ phase' = "scan"
    /\ UNCHANGED <<poolVars, loadVars>>

\* A method without code gets an empty body and no locals.
MethodInfo(m) ==
    [name   |-> m.name,
     desc   |-> m.desc,
     native |-> m.native,
     locals |-> IF NeedsCode(m) THEN m.locals ELSE 0]

LoadedClass ==
    [super    |-> file.super,
     pool     |-> ResolvedPool,
     fields   |-> laid,
     methods  |-> [i \in DOMAIN file.methods |-> MethodInfo(file.methods[i])],
     pointers |-> pointers,
     size     |-> offset]

\* Inserts the class although a method lacks its code.
FaultyInsert ==
    /\ phase = "fields"
    /\ Len(laid) = Len(file.fields)
    /\ classes' = [n \in DOMAIN classes \cup {file.this} |->
                     IF n = file.this THEN LoadedClass ELSE classes[n]]
    /\ phase' = "scan"
    /\ UNCHANGED <<poolVars, directory, laid, offset, pointers, found>>

\* A class of the same name is replaced.
Insert ==
    /\ phase = "fields"
    /\ Len(laid) = Len(file.fields)
    /\ \A i \in DOMAIN file.methods : NeedsCode(file.methods[i]) => file.methods[i].code
    /\ classes' = [n \in DOMAIN classes \cup {file.this} |->
                     IF n = file.this THEN LoadedClass ELSE classes[n]]
    /\ phase' = "scan"
    /\ UNCHANGED <<poolVars, directory, laid, offset, pointers, found>>

\* The directory is read: without a class there is nothing to run (exit code 1).
ScanEnd ==
    /\ phase = "scan"
    /\ directory = {}
    /\ phase' = IF DOMAIN classes = {} THEN "exit" ELSE "ready"
    /\ taken' = 0 /\ index' = 1 /\ raw' = <<>> /\ file' = None
    /\ laid' = <<>> /\ offset' = 0 /\ pointers' = <<>>
    /\ UNCHANGED <<directory, classes, found>>

Load ==
    \/ OpenFile \/ Check \/ LayInstance \/ LayStatic \/ MissingCode \/ Insert \/ ScanEnd
    \/ (ParsePool /\ UNCHANGED loadVars)

-------------------------------------------------------------------------------
(* Properties *)

\* A file every check accepts: its constants fill the pool exactly, and every
\* method that should have code has some.
Sound(f) ==
    /\ f.damage = "none"
    /\ \A k \in DOMAIN f.pool : f.pool[k].kind # "Unknown"
    /\ SlotIn(f, Len(f.pool) + 1) = f.count
    /\ \A i \in DOMAIN f.methods : NeedsCode(f.methods[i]) => f.methods[i].code

\* A class file is loaded as a whole or not at all, and one that load refuses
\* neither stops the others nor takes a class away that is already there, in
\* whatever order the files come.  A file that panics the parser does stop the
\* others: the scan ends, and the table holds the sound files read before it (classfile/mod.rs:32-162, main.rs:153-171).
SoundFilesLoad ==
    phase \in {"scan", "ready", "exit"} =>
      DOMAIN classes = {f.this : f \in {g \in found \ directory : Sound(g)}}

InstanceFields(fields) == {i \in DOMAIN fields : ~fields[i].static}

Bytes(f) == f.offset .. (f.offset + FieldSize(f.desc) - 1)

\* The fields a class declares itself never share a byte, each stands at a
\* multiple of its size and ends inside the payload, whatever statics come
\* between them (classfile/mod.rs:48-80).
OwnFieldsApart ==
    \A n \in DOMAIN classes :
      LET c == classes[n]
          mine == InstanceFields(c.fields)
      IN  /\ \A i \in mine : /\ c.fields[i].offset % FieldSize(c.fields[i].desc) = 0
                             /\ Bytes(c.fields[i]) \subseteq 0..(c.size - 1)
          /\ \A i, j \in mine : i # j => Bytes(c.fields[i]) \cap Bytes(c.fields[j]) = {}

\* What the marker and the promoter follow (descriptor.rs pointer_offsets) is
\* the offsets of the reference fields GETFIELD and PUTFIELD use, in order and
\* without a repetition (classfile/mod.rs:57-68).
PointersExact ==
    \A n \in DOMAIN classes :
      LET c == classes[n]
      IN  /\ ToSet(c.pointers) =
               {c.fields[i].offset : i \in {j \in InstanceFields(c.fields) :
                                              IsReference(c.fields[j].desc)}}
          /\ \A i, j \in DOMAIN c.pointers : i < j => c.pointers[i] < c.pointers[j]
===============================================================================
