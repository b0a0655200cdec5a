------------------------------ MODULE MCClassFile ------------------------------
(***************************************************************************)
(* Linker on small directories: constant pools in every order, field lists *)
(* in every order, chains of superclasses, and descriptors.                *)
(***************************************************************************)
EXTENDS Linker

C(kind, text, a, b) == [kind |-> kind, text |-> text, a |-> a, b |-> b]
Utf8(text) == C("Utf8", text, 0, 0)

Slots(pool) == 1 + Len(pool) + Cardinality({k \in DOMAIN pool : pool[k].kind = "Wide"})

File(this, super, pool, fields, methods) ==
    [this |-> this, super |-> super, pool |-> pool, count |-> Slots(pool),
     fields |-> fields, methods |-> methods, damage |-> "none"]

A == <<"A">>
B == <<"B">>
D == <<"D">>
M == <<"M">>
X == <<"x">>
IntDesc == <<"I">>
LongDesc == <<"J">>

-------------------------------------------------------------------------------
(* Constant pools *)

\* A field reference, what it links to, and a long, in the order p: the k-th
\* constant is number p[k].
Shuffled(p) ==
    LET Before(n) == {k \in DOMAIN p : k < CHOOSE j \in DOMAIN p : p[j] = n}
        Slot(n) == 1 + Cardinality(Before(n)) + (IF \E k \in Before(n) : p[k] = 1 THEN 1 ELSE 0)
        constants == <<C("Wide", <<>>, 0, 0), Utf8(A), Utf8(X), Utf8(IntDesc),
                       C("Class", <<>>, Slot(2), 0),
                       C("NameAndType", <<>>, Slot(3), Slot(4)),
                       C("FieldRef", <<>>, Slot(5), Slot(6))>>
    IN  [k \in DOMAIN p |-> constants[p[k]]]

\* A file the checks after the constant pool refuse.
OnlyPool(pool) == [File(A, None, pool, <<>>, <<>>) EXCEPT !.damage = "version"]

InOrder == Shuffled([k \in 1..7 |-> k])

WrongLinks ==
    {[InOrder EXCEPT ![7] = C("FieldRef", <<>>, i, j)] : i, j \in 0..9}
      \cup {[InOrder EXCEPT ![6] = C("NameAndType", <<>>, i, j)] : i, j \in 0..9}
      \cup {[InOrder EXCEPT ![5] = C(kind, <<>>, i, 0)] : kind \in {"Class", "String"}, i \in 0..9}

\* A pool that ends too early or has a tag nobody knows, a count that leaves no
\* room for the second half of a long, or is larger than the pool.
BadPools ==
    {[OnlyPool(SubSeq(InOrder, 1, n)) EXCEPT !.count = 9] : n \in 0..6}
      \cup {OnlyPool([InOrder EXCEPT ![n] = C("Unknown", <<>>, 0, 0)]) : n \in 1..7}
      \cup {[OnlyPool(<<Utf8(A), C("Wide", <<>>, 0, 0)>>) EXCEPT !.count = n] : n \in 3..4}

Pools ==
    {OnlyPool(Shuffled(p)) : p \in Permutations(1..7)}
      \cup {OnlyPool(pool) : pool \in WrongLinks}
      \cup BadPools
      \cup {[OnlyPool(<<>>) EXCEPT !.damage = d] : d \in {"read", "magic", "parse"}}

-------------------------------------------------------------------------------
(* Field lists *)

Field(name, desc, static) == [name |-> name, desc |-> desc, static |-> static]

FieldKinds == {<<"B", FALSE>>, <<"S", FALSE>>, <<"I", FALSE>>, <<"J", FALSE>>,
               <<"L", FALSE>>, <<"J", TRUE>>}

FieldNames == <<"a", "b", "c", "d">>

Layouts ==
    {File(A, Object, <<>>, [i \in DOMAIN l |-> Field(<<FieldNames[i]>>, <<l[i][1]>>, l[i][2])], <<>>) :
       l \in UNION {[1..n -> FieldKinds] : n \in 1..4}}

-------------------------------------------------------------------------------
(* Chains of superclasses: M executes bytecodes that name members of D *)

Method(name, desc, locals) ==
    [name |-> name, desc |-> desc, native |-> FALSE, abstract |-> FALSE, code |-> TRUE,
     locals |-> locals]
Native(name) == [Method(name, NoArgs, 0) EXCEPT !.native = TRUE, !.code = FALSE]
Abstract(name) == [Method(name, NoArgs, 0) EXCEPT !.abstract = TRUE, !.code = FALSE]
NoCode(name) == [Method(name, NoArgs, 0) EXCEPT !.code = FALSE]

\* Six constants for a reference, the first at slot s.
Ref(s, kind, class, name, desc) ==
    <<Utf8(class), C("Class", <<>>, s, 0), Utf8(name), Utf8(desc),
      C("NameAndType", <<>>, s + 2, s + 3), C(kind, <<>>, s + 1, s + 4)>>

Main(refs) ==
    File(M, Object,
         FlattenSeq([k \in DOMAIN refs |->
                       Ref(6 * k - 5, refs[k][1], refs[k][2], refs[k][3], refs[k][4])]),
         <<>>, <<>>)

Run == <<"run">>

CallsD == Main(<<<<"FieldRef", D, X, IntDesc>>, <<"MethodRef", D, Run, NoArgs>>>>)

SuperA ==
    {File(A, s, <<>>, f, <<Method(Run, NoArgs, 1)>>) :
       s \in {Object, D},
       f \in {<<>>, <<Field(X, IntDesc, FALSE)>>, <<Field(X, IntDesc, TRUE)>>,
              <<Field(X, LongDesc, FALSE), Field(X, IntDesc, FALSE)>>}}

SuperB ==
    {File(B, A, <<>>, f, m) :
       f \in {<<>>, <<Field(X, IntDesc, TRUE)>>, <<Field(X, LongDesc, FALSE)>>},
       m \in {<<>>, <<Native(Run)>>, <<NoCode(Run)>>}}

SubD ==
    {File(D, B, <<>>, <<>>, m) : m \in {<<>>, <<Abstract(Run)>>, <<Method(Run, IntDesc, 3)>>}}
      \cup {[File(D, B, <<>>, <<>>, <<>>) EXCEPT !.damage = "parse"]}

Chains == {{CallsD, a, b, d} : a \in SuperA, b \in SuperB, d \in SubD}
            \cup {{CallsD, a, d} : a \in SuperA, d \in SubD}
            \cup {{CallsD, a, File(A, None, <<>>, <<>>, <<>>), File(D, A, <<>>, <<>>, <<>>)} :
                    a \in SuperA}

\* The names invoke_resolved and invoke_native know, also as superclasses.
Stream == Println[1]
System == Exit[1]

Library ==
    {File(Stream, Object, <<>>, <<>>, <<Native(Println[2])>>),
     File(System, Object, <<>>, <<>>, <<Native(Exit[2])>>),
     File(D, Stream, <<>>, <<>>, <<>>),
     Main(<<<<"MethodRef", Stream, Println[2], NoArgs>>, <<"MethodRef", System, Exit[2], NoArgs>>,
            <<"InterfaceMethodRef", Object, InitName, NoArgs>>>>)}

\* The other kinds of constants, as LDC meets them.
Constants ==
    File(M, Object, <<Utf8(A), C("String", <<>>, 1, 0), C("Number", <<>>, 0, 0),
                      C("Wide", <<>>, 0, 0), C("Other", <<>>, 0, 0)>>, <<>>, <<>>)

-------------------------------------------------------------------------------
(* Descriptors *)

ParameterTexts == UNION {[1..n -> {"I", "J", "L", ";", "["}] : n \in 0..4}

Descriptor(s) == <<"(">> \o s \o <<")", "V">>

\* A method with as many locals as the bytecode of an instance method needs.
Calls(s) ==
    LET p == Parameters(Descriptor(s))
    IN  File(M, Object, Ref(1, "MethodRef", M, Run, Descriptor(s)), <<>>,
             <<Method(Run, Descriptor(s), 1 + Len(p) + WideBefore(p, Len(p) + 1))>>)

-------------------------------------------------------------------------------
OneFile(files) == {{f} : f \in files}

MCDirectories ==
    OneFile(Pools) \cup OneFile(Layouts) \cup Chains \cup {Library} \cup OneFile({Constants})
      \cup OneFile({Calls(s) : s \in ParameterTexts}) \cup {{}}

\* A subclass without fields of its own.
InheritedDirectories ==
    {{CallsD, File(A, Object, <<>>, <<Field(X, IntDesc, FALSE)>>, <<>>),
      File(D, A, <<>>, <<>>, <<>>)}}

OneValue == {"v"}
===============================================================================
