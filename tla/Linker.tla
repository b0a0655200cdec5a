--------------------------------- MODULE Linker ---------------------------------
(***************************************************************************)
(* How the bytecodes of interpreter/mod.rs get from a constant-pool index  *)
(* to a class, a field or a method: cp_entry, count_args, the walks of     *)
(* resolve_field and resolve_method up the chain of superclasses, the      *)
(* static fields, and what invoke_resolved does with the method it finds.  *)
(* One step per character of a descriptor and per class of a chain.        *)
(*                                                                         *)
(* The values themselves, null references and the frames are in Runtime.   *)
(* Every bytecode that does not succeed ends in self.exception(..).        *)
(***************************************************************************)
EXTENDS ClassLoader

CONSTANT Values   \* what a static field can hold beside its default

FieldOps == {"GETFIELD", "PUTFIELD", "GETSTATIC", "PUTSTATIC"}
InvokeOps == {"INVOKEVIRTUAL", "INVOKESPECIAL", "INVOKESTATIC"}

VARIABLES
    request,   \* the bytecode being executed, with what it names
    current,   \* the walk's `current': a class name, or None
    chars,     \* characters count_args has not read
    mode,      \* where count_args is: "arg", "name" or "dims"
    argc,      \* count_args' `count'
    answer,    \* what the bytecode led to
    statics    \* Interpreter::static_fields

linkVars == <<request, current, chars, mode, argc, answer, statics>>
vars == <<phase, poolVars, loadVars, linkVars>>

NoRequest == [op |-> "none"]
NoAnswer == [kind |-> "none"]
Exception(error) == [kind |-> "exception", error |-> error]
Default == "default"   \* default_value_for_descriptor

\* The names invoke_resolved and invoke_native know.
Object == <<"java/lang/Object">>
InitName == <<"<init>">>
NoArgs == <<"(", ")", "V">>
Exit == <<<<"java/lang/System">>, <<"exit">>>>
Println == <<<<"java/io/PrintStream">>, <<"println">>>>

Init ==
    /\ LoaderInit
    /\ request = NoRequest
    /\ current = None
    /\ chars = <<>> /\ mode = "arg" /\ argc = 0
    /\ answer = NoAnswer
    /\ statics = <<>>

-------------------------------------------------------------------------------
\* The names on the chain of superclasses that starts at n.
ChainOf(n) ==
    LET chain[i \in 0..Cardinality(DOMAIN classes)] ==
          IF i = 0 THEN {n}
          ELSE chain[i - 1]
                 \cup {classes[c].super : c \in chain[i - 1] \cap DOMAIN classes}
    IN  chain[Cardinality(DOMAIN classes)] \ {None}

\* The classes an object can have where the bytecode names class n.
Receivers(n) == {c \in DOMAIN classes : n \in ChainOf(c)}

Pool(c) == classes[c].pool

Answered(a) ==
    /\ answer' = a
    /\ current' = None
    /\ phase' = "ready"

Asking == phase = "ready" /\ answer = NoAnswer

\* The operand of a bytecode leads to no entry of the kind it expects: an index
\* past the end of the pool always does.
WrongEntry ==
    /\ Asking
    /\ Answered(Exception("entry"))
    /\ UNCHANGED <<poolVars, loadVars, request, chars, mode, argc, statics>>

\* NEW: get_type_desc.
NewClass ==
    /\ Asking
    /\ \E c \in DOMAIN classes : \E i \in DOMAIN Pool(c) :
         /\ Pool(c)[i].kind = "Class"
         /\ LET n == Pool(c)[i].texts[1]
            IN  Answered(IF n \in DOMAIN classes
                         THEN [kind |-> "new", class |-> n]
                         ELSE Exception("NoClassDefFoundError"))
    /\ UNCHANGED <<poolVars, loadVars, request, chars, mode, argc, statics>>

\* LDC: resolve_ldc.  A string literal is null.
Ldc ==
    /\ Asking
    /\ \E c \in DOMAIN classes : \E i \in DOMAIN Pool(c) :
         LET kind == Pool(c)[i].kind
         IN  Answered(IF kind \in {"Number", "Wide", "String"}
                      THEN [kind |-> "constant", null |-> kind = "String"]
                      ELSE Exception("entry"))
    /\ UNCHANGED <<poolVars, loadVars, request, chars, mode, argc, statics>>

\* The field bytecodes: resolve_field starts at the class the FieldRef names.
AskField(op) ==
    /\ Asking
    /\ \E c \in DOMAIN classes : \E i \in DOMAIN Pool(c) :
         LET t == Pool(c)[i].texts
         IN  /\ Pool(c)[i].kind = "FieldRef"
             /\ \E v \in IF op = "PUTSTATIC" THEN Values ELSE {Default} :
                  request' = [op |-> op, start |-> t[1], name |-> t[2],
                              desc |-> t[3], value |-> v]
             /\ current' = t[1]
    /\ phase' = "lookup"
    /\ UNCHANGED <<poolVars, loadVars, chars, mode, argc, answer, statics>>

\* The argument part of a descriptor: between "(" and the first ")".
ArgChars(desc) ==
    IF desc = <<>> \/ Head(desc) # "(" THEN <<>>
    ELSE SubSeq(desc, 2, Cardinality({i \in DOMAIN desc : \A j \in 1..i : desc[j] # ")"}))

\* INVOKE*: the arguments are counted first.  resolve_method starts at the
\* class of the receiver, or at the class the MethodRef names.
AskMethod(op) ==
    /\ Asking
    /\ \E c \in DOMAIN classes : \E i \in DOMAIN Pool(c) :
         LET t == Pool(c)[i].texts
         IN  /\ Pool(c)[i].kind \in {"MethodRef", "InterfaceMethodRef"}
             /\ \E s \in IF op = "INVOKEVIRTUAL" THEN Receivers(t[1]) ELSE {t[1]} :
                  request' = [op |-> op, start |-> s, name |-> t[2], desc |-> t[3]]
             /\ chars' = ArgChars(t[3])
    /\ mode' = "arg" /\ argc' = 0
    /\ phase' = "count"
    /\ UNCHANGED <<poolVars, loadVars, current, answer, statics>>

-------------------------------------------------------------------------------
(* count_args *)

Primitive == {"B", "C", "D", "F", "I", "J", "S", "Z"}

Scanning(m) == phase = "count" /\ mode = m /\ chars # <<>>

\* Reads one character; m is where that leads, n whether it ends a parameter.
Read(m, n) ==
    /\ chars' = Tail(chars)
    /\ mode' = m
    /\ argc' = argc + n
    /\ UNCHANGED <<phase, poolVars, loadVars, request, current, answer, statics>>

CountArg ==
    /\ Scanning("arg")
    /\ \/ Head(chars) \in Primitive /\ Read("arg", 1)
       \/ Head(chars) = "L" /\ Read("name", 0)
       \/ Head(chars) = "[" /\ Read("dims", 0)
       \/ Head(chars) \notin Primitive \cup {"L", "["} /\ Read("arg", 0)

\* while chars.next() != Some(';')
CountName ==
    /\ Scanning("name")
    /\ IF Head(chars) = ";" THEN Read("arg", 1) ELSE Read("name", 0)

\* Counts the element type of an array of arrays once more.
FaultyCountDims ==
    /\ Scanning("dims")
    /\ \/ Head(chars) = "[" /\ Read("arg", 1)
       \/ Head(chars) = "L" /\ Read("name", 0)
       \/ Head(chars) \notin {"[", "L"} /\ Read("arg", 1)

\* The dimensions of an array, then its element type: one parameter.
CountDims ==
    /\ Scanning("dims")
    /\ \/ Head(chars) = "[" /\ Read("dims", 0)
       \/ Head(chars) = "L" /\ Read("name", 0)
       \/ Head(chars) \notin {"[", "L"} /\ Read("arg", 1)

\* None is not Some(';') either: the loop never ends.
CountHang ==
    /\ phase = "count" /\ mode = "name" /\ chars = <<>>
    /\ phase' = "hung"
    /\ UNCHANGED <<poolVars, loadVars, linkVars>>

\* Dimensions without an element type count as a parameter.
CountEnd ==
    /\ phase = "count" /\ mode # "name" /\ chars = <<>>
    /\ argc' = argc + (IF mode = "dims" THEN 1 ELSE 0)
    /\ mode' = "arg"
    /\ current' = request.start
    /\ phase' = "lookup"
    /\ UNCHANGED <<poolVars, loadVars, request, chars, answer, statics>>

-------------------------------------------------------------------------------
(* resolve_field and resolve_method *)

Members == IF request.op \in FieldOps THEN classes[current].fields
                                      ELSE classes[current].methods

\* Takes an overload for the member.
FaultyMatches(m) == m.name = request.name

Matches(m) == m.name = request.name /\ m.desc = request.desc

\* find_field and find_method: the first member that matches.
FirstMatch(i) ==
    /\ i \in DOMAIN Members
    /\ Matches(Members[i])
    /\ \A j \in 1..(i - 1) : ~Matches(Members[j])

\* Object.<init>()V is known without being loaded.
ObjectInit ==
    /\ request.op \in InvokeOps
    /\ request.start = Object /\ request.name = InitName /\ request.desc = NoArgs

Walking == phase = "lookup" /\ ~ObjectInit

Loaded == Walking /\ current \in DOMAIN classes

Reply(a) ==
    /\ Answered(a)
    /\ UNCHANGED <<poolVars, loadVars, request, chars, mode, argc, statics>>

LookUpInit == phase = "lookup" /\ ObjectInit /\ Reply([kind |-> "void"])

\* Looks at the same class again.
FaultyLookUpNext ==
    /\ Loaded
    /\ \A i \in DOMAIN Members : ~Matches(Members[i])
    /\ current' = request.start
    /\ UNCHANGED <<phase, poolVars, loadVars, request, chars, mode, argc, answer, statics>>

\* current = class.super_name
LookUpNext ==
    /\ Loaded
    /\ \A i \in DOMAIN Members : ~Matches(Members[i])
    /\ current' = classes[current].super
    /\ UNCHANGED <<phase, poolVars, loadVars, request, chars, mode, argc, answer, statics>>

\* The chain has ended, or leads to a class that is not loaded.
LookUpNone ==
    /\ Walking
    /\ current \notin DOMAIN classes
    /\ Reply(Exception("NoSuch"))

-------------------------------------------------------------------------------
(* What the bytecode does with the member *)

\* m is what the walk finds.
Finds(m) == Loaded /\ \E i \in DOMAIN Members : FirstMatch(i) /\ m = Members[i]

FieldsHere == IF request.op \in FieldOps /\ Loaded THEN ToSet(Members) ELSE {}
MethodsHere == IF request.op \in InvokeOps /\ Loaded THEN ToSet(Members) ELSE {}

\* PUTFIELD asks for an instance field, GETSTATIC and PUTSTATIC for a static one;
\* GETFIELD takes either.
RightField(m) ==
    CASE request.op = "GETFIELD" -> TRUE
      [] request.op = "PUTFIELD" -> ~m.static
      [] OTHER -> m.static

WrongField ==
    \E m \in FieldsHere :
      /\ Finds(m)
      /\ ~RightField(m)
      /\ Reply(Exception("IncompatibleClassChangeError"))

\* The value is not of the field's type.
WrongValue ==
    \E m \in FieldsHere :
      /\ Finds(m)
      /\ RightField(m)
      /\ request.op \in {"PUTFIELD", "PUTSTATIC"}
      /\ Reply(Exception("type mismatch"))

\* The bytes of the object at the field's offset are read or written.
InstanceField ==
    \E m \in FieldsHere :
      /\ Finds(m)
      /\ RightField(m)
      /\ request.op \in {"GETFIELD", "PUTFIELD"}
      /\ Reply([kind |-> "field", owner |-> current, field |-> m])

\* StaticFieldKey
Key == <<current, request.name, request.desc>>

SetStatic(key, v) ==
    statics' = [k \in DOMAIN statics \cup {key} |-> IF k = key THEN v ELSE statics[k]]

\* entry(key).or_insert_with(default)
ReadStatic ==
    \E m \in FieldsHere :
      LET v == IF Key \in DOMAIN statics THEN statics[Key] ELSE Default
      IN  /\ Finds(m)
          /\ RightField(m)
          /\ request.op = "GETSTATIC"
          /\ Answered([kind |-> "static", owner |-> current, value |-> v])
          /\ SetStatic(Key, v)
          /\ UNCHANGED <<poolVars, loadVars, request, chars, mode, argc>>

\* Keyed by the class the bytecode names.
FaultyWriteStatic ==
    \E m \in FieldsHere :
      /\ Finds(m)
      /\ RightField(m)
      /\ request.op = "PUTSTATIC"
      /\ Answered([kind |-> "static", owner |-> current, value |-> request.value])
      /\ SetStatic(<<request.start, request.name, request.desc>>, request.value)
      /\ UNCHANGED <<poolVars, loadVars, request, chars, mode, argc>>

WriteStatic ==
    \E m \in FieldsHere :
      /\ Finds(m)
      /\ RightField(m)
      /\ request.op = "PUTSTATIC"
      /\ Answered([kind |-> "static", owner |-> current, value |-> request.value])
      /\ SetStatic(Key, request.value)
      /\ UNCHANGED <<poolVars, loadVars, request, chars, mode, argc>>

\* invoke_native knows its natives by the class the walk started at.
InvokeNative ==
    \E m \in MethodsHere :
      /\ Finds(m)
      /\ m.native
      /\ CASE <<request.start, m.name>> = Println ->
                Reply([kind |-> "native", owner |-> current])
           [] <<request.start, m.name>> = Exit ->
                /\ phase' = "exit"
                /\ UNCHANGED <<poolVars, loadVars, linkVars>>
           [] OTHER -> Reply(Exception("UnsatisfiedLinkError"))

\* total_pop: the receiver comes before the arguments.
ReceiverPop == IF request.op = "INVOKESTATIC" THEN 0 ELSE 1
TotalPop == argc + ReceiverPop

\* execute: each value popped takes one local.
Execute ==
    \E m \in MethodsHere :
      /\ Finds(m)
      /\ ~m.native
      /\ Reply(IF TotalPop > m.locals THEN Exception("too many args")
               ELSE [kind |-> "execute", owner |-> current, args |-> TotalPop])

\* The program goes on with its next bytecode, or the driver with its next
\* entry point.
Resume ==
    /\ phase = "ready"
    /\ answer # NoAnswer
    /\ answer' = NoAnswer
    /\ request' = NoRequest
    /\ argc' = 0
    /\ UNCHANGED <<phase, poolVars, loadVars, current, chars, mode, statics>>

Ask ==
    \/ WrongEntry \/ NewClass \/ Ldc
    \/ \E op \in FieldOps : AskField(op)
    \/ \E op \in InvokeOps : AskMethod(op)

Link ==
    \/ CountArg \/ CountName \/ CountDims \/ CountHang \/ CountEnd
    \/ LookUpInit \/ LookUpNext \/ LookUpNone
    \/ WrongField \/ WrongValue \/ InstanceField \/ ReadStatic \/ WriteStatic
    \/ InvokeNative \/ Execute

Next == (Load /\ UNCHANGED linkVars) \/ Ask \/ Link \/ Resume

\* One thread: what it has begun it carries on.
Spec == Init /\ [][Next]_vars /\ WF_vars(Load /\ UNCHANGED linkVars) /\ WF_vars(Link)

-------------------------------------------------------------------------------
(* Reference definitions *)

\* Where the type that starts at position i of s ends; 0 if nowhere.
TypeEnd(s, i) ==
    LET elements == {j \in i..Len(s) : s[j] # "["}
        k == Min(elements)
        semicolons == {j \in k..Len(s) : s[j] = ";"}
    IN  CASE elements = {} -> 0
          [] elements # {} /\ s[k] \in Primitive -> k
          [] elements # {} /\ s[k] = "L" /\ semicolons # {} -> Min(semicolons)
          [] OTHER -> 0

\* The first characters of the parameters a descriptor lists; a part that is
\* no type is a "?".
Parameters(desc) ==
    LET s == ArgChars(desc)
        from[i \in 1..(Len(s) + 1)] ==
          IF i > Len(s) THEN <<>>
          ELSE IF TypeEnd(s, i) = 0 THEN <<"?">>
          ELSE <<s[i]>> \o from[TypeEnd(s, i) + 1]
    IN  from[1]

WellFormed(desc) == "?" \notin ToSet(Parameters(desc))

WideBefore(p, k) == Cardinality({j \in 1..(k - 1) : p[j] \in {"J", "D"}})

\* The local of the k-th of the parameters p: the one a method's bytecode reads, and
\* the one execute stores it in.
LocalRead(p, k) == ReceiverPop + (k - 1) + WideBefore(p, k)
LocalFilled(p, k) == answer.args - Len(p) + (k - 1)

\* The classes a walk from n meets, nearest first; it goes round and round iff
\* there are more than there are classes.
Walk(n) ==
    LET up[i \in 0..Cardinality(DOMAIN classes)] ==
          IF i = 0 THEN n
          ELSE IF up[i - 1] \in DOMAIN classes THEN classes[up[i - 1]].super ELSE None
    IN  [i \in 1..(Cardinality(DOMAIN classes) + 1) |-> up[i - 1]]

Endless(n) == \A i \in DOMAIN Walk(n) : Walk(n)[i] \in DOMAIN classes

Declares(c, op, name, desc) ==
    /\ c \in DOMAIN classes
    /\ \E m \in ToSet(IF op \in FieldOps THEN classes[c].fields ELSE classes[c].methods) :
         m.name = name /\ m.desc = desc

Declarers == {i \in DOMAIN Walk(request.start) :
                Declares(Walk(request.start)[i], request.op, request.name, request.desc)}

\* The member of ms that find_field or find_method returns, if any.
First(ms) ==
    {ms[i] : i \in {k \in DOMAIN ms : Matches(ms[k]) /\ \A j \in 1..(k - 1) : ~Matches(ms[j])}}

-------------------------------------------------------------------------------
(* Properties *)

\* A member is the one of the nearest class up the chain that declares it with
\* this name and this descriptor, and NoSuchFieldError or NoSuchMethodError means
\* that no class the chain reaches declares it (interpreter/mod.rs:971-1020).
NearestWins ==
    /\ answer.kind \in {"field", "static", "native", "execute"} =>
         Declarers # {} /\ answer.owner = Walk(request.start)[Min(Declarers)]
    /\ answer = Exception("NoSuch") => Declarers = {}

\* A static field has one value, however many subclasses it is named through:
\* whatever is stored is stored under the class that declares it
\* (interpreter/mod.rs:760-771, 827-833).
OneStatic ==
    \A k \in DOMAIN statics :
      /\ k[1] \in DOMAIN classes
      /\ \E f \in ToSet(classes[k[1]].fields) : f.static /\ f.name = k[2] /\ f.desc = k[3]

\* The values popped are the receiver and the parameters of the descriptor, so
\* that the k-th parameter stands in the local the method's bytecode reads it
\* from, but one lower for every long or double before it; and a method with
\* room for its parameters is never refused for having too many
\* (interpreter/mod.rs:865-876, 85-109, 1147-1179).
ArgumentsPlaced ==
    (request.op \in InvokeOps /\ answer # NoAnswer /\ WellFormed(request.desc)) =>
      LET p == Parameters(request.desc)
      IN  /\ answer.kind = "execute" =>
               \A k \in DOMAIN p : LocalFilled(p, k) = LocalRead(p, k) - WideBefore(p, k)
          /\ answer = Exception("too many args") =>
               \A m \in First(classes[Walk(request.start)[Min(Declarers)]].methods) :
                 m.locals < LocalRead(p, Len(p) + 1)

\* A bytecode gets an answer or the program exits, unless its descriptor is
\* malformed or its chain of superclasses goes round (interpreter/mod.rs:971-1020,
\* 1147-1179).
RequestsAnswered ==
    (phase \in {"count", "lookup"} /\ WellFormed(request.desc) /\ ~Endless(request.start))
      ~> phase \in {"ready", "exit"}

\* "total size of the object's payload (fields only, no header)" (class.rs:69):
\* a field found for an object lies in the payload of the object's class.
PayloadHoldsFields ==
    (answer.kind = "field" /\ ~answer.field.static) =>
      \A c \in Receivers(request.start) : Bytes(answer.field) \subseteq 0..(classes[c].size - 1)
===============================================================================
