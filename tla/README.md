# A verification project for impl-gc

impl-gc is a small interpreter for Java class files on a generational garbage
collector, written in Rust: a bump-allocated eden, a free-list old generation,
a card table, precise roots, a safepoint protocol, and a loader that links classes
by name. This directory holds TLA+
modules that model it, TLC configurations that check them on small instances,
and proofs that TLAPS checks for every value of the constants. Line numbers are
of the files under `src/src/`.

## 1. Inventory

| component (files) | state | operations |
|---|---|---|
| Free list (`heap/freelist.rs`) | a singly linked list of `FreeBlock {base, size, next}` written into the free memory itself | `alloc`, `free`, `coalesce`, `free_bytes` |
| Regions and bump allocator (`heap/region.rs`, `heap/bump.rs`) | two mappings; `cursor` of the young one | `contains`, `alloc`, `reset`, `used` |
| Objects (`object/*.rs`) | `GcHeader {mark, age, type_desc, size}`; one `TypeDescriptor` per class | `size`, `is_marked`, `object_start`, `trace` |
| Card table (`gc/card_table.rs`) | one byte per card of the old region | `mark_dirty`, `is_dirty`, `clear` |
| Roots (`gc/root.rs`, `interpreter/frame.rs`) | the shadow stack of frames, each a list of slot addresses; globals | `push_frame`, `pop_frame`, `iter_roots` |
| Marker (`gc/marker.rs`) | a worklist of grey objects | `mark_minor`, `mark_major`, `drain` |
| Promoter (`gc/promoter.rs`) | the forwarding table | `promote`, `fixup_promoted_objects`, `fixup_roots`, `reset` |
| Sweeper (`gc/sweeper.rs`) | none of its own; a cursor while it walks | `sweep_young`, `sweep_old` |
| Collector (`gc/collector.rs`) | owns all of the above | `collect_minor`, `collect_major` |
| Mutator (`mutator.rs`) | a reference to the bump allocator, the roots, the safepoint | `alloc`, `write_barrier`, `safepoint`, registration and `drop` |
| Interpreter (`interpreter/*.rs`) | call stack, static fields | `execute`: one arm per bytecode |
| Safepoint coordinator (`gc/safepoint.rs`) | `requested`, `thread_count`, `parked_count`, two mutex/condvar pairs | register, unregister, poll, park, request, wait, release |
| Class loader (`classfile/mod.rs`, `interpreter/class.rs`) | the class table; of each class its constant pool, field layout, pointer offsets, methods | `load`: `parse_constant_pool`, `resolve_cp_entry`, the layout, the methods |
| Linking (`interpreter/mod.rs`) | static fields | `cp_entry`, `resolve_ldc`, `resolve_field`, `resolve_method`, `count_args`, `invoke_resolved`, `invoke_native` |
| Driver (`main.rs`) | none | runs the entry points of the sample classes |

**How they interact.** The interpreter is the only client. `NEW` calls
`Mutator::alloc`, which bumps the cursor of eden; when eden is full the
interpreter itself calls `Collector::collect_minor` with its own roots and tries
again, at most eight times. `collect_minor` runs the marker over eden, then the
sweeper, which drives the promoter, which allocates in the old generation from
the free list; afterwards the collector looks at `free_bytes()` and may go on
with `collect_major`, whose `sweep_old` gives dead objects back to the free list
and coalesces it. `PUTFIELD` goes through `Mutator::write_barrier`, which dirties
cards. The coordinator is an `Arc` shared by all mutators; a collection brackets
itself with it when more than one thread is registered (`do_stw`). The shipped
driver has one mutator, so a collection there is sequential.

Before any of this the driver loads every class file of a directory, in the
order the directory lists them. Loading resolves the links inside one constant
pool to names; links between classes stay names until a bytecode follows them
up the chain of superclasses. The layout `load` computes is what three parties
share: `NEW` takes the size, `GETFIELD` and `PUTFIELD` the offsets, the marker
and the promoter the pointer offsets.

**What is hard here.** Objects move while the program holds references to them,
in four kinds of slots (locals, operand stacks, statics, fields) of which the
collector knows some. The two heap walks rely on a layout that other components
must keep (a header at the address where the previous object ends). The free
list lives inside the memory it describes. A collection may start at any `NEW`,
in any frame. The safepoint protocol is a hand-written barrier of two counters,
a flag and two condition variables, used twice in a row by one collection. The
constant pool links by slot numbers that some constants advance by two, in any
order, in both directions; class files may be missing, broken or in each
other's way; and superclasses are looked up by name in whatever was loaded.

**What makes each component correct.**

- Free list: no word has two owners; no word is lost except the alignment gaps
  and the remainders too short to list; `free_bytes()` is exact; `coalesce` ends.
- Marker: black is what the locals reach, no more and no less.
- Promoter and sweeper: survivors keep their identity, fields and incoming
  references; a copy never lands on another object; nothing refers to eden when
  eden is wiped.
- Collector as a whole: a collection is invisible to the program.
- Write barrier: every reference from old to young is under a dirty card.
- Interpreter: `NEW` comes back, and one collection is enough if the class fits
  eden at all.
- Class loader: constants stand where the format says, a reference resolves to
  what it spells, a refused file costs its own class only, fields do not overlap and
  the collector follows exactly the reference fields.
- Linking: the nearest declaration wins, a static field is one variable, each
  argument arrives in the local the callee reads it from, and looking up ends.
- Coordinator: nobody runs while the collector owns the heap; every stop ends;
  every parked thread runs again.

## 2. Modules

| module | models | state and actions |
|---|---|---|
| `FreeListOps` | the operations of `freelist.rs` on a list in link order | pure operators: `FirstFit`, `AllocList`, `InsertPos`, `MergeAt`, `FreeWords` |
| `FreeList` | one region served by the free list, any callers | `list`, `held`, `lost` (ghost), `walk`; `Alloc`, `Free`, and `coalesce` one loop iteration per action |
| `Heap` | regions, headers, cards, frames, statics | `mem`, `top`, `free`, `cards`, `frames`, `statics`; the helpers of marker and roots |
| `Collector` | `collect_minor` and `collect_major` | `pc` (phase), `work`, `cursor`, `fwd`, `walk`, `risk` (ghost); one action per loop iteration of the marker, the two sweeps and `coalesce`, one per fix-up pass |
| `Runtime` | interpreter and mutator on one thread, composed with the collector | `want`, `retries`, `next` (ghost); one action per bytecode that moves a reference, plus the retry loop of `NEW` |
| `ManagedHeap` | no code: what a collected heap promises a program | `calls`, `statics`, `graph` of identities, `kept`; one action per kind of bytecode, none for a collection |
| `RuntimeRefinement` | `Runtime` as an implementation of `ManagedHeap` | the refinement mapping: addresses to identities, everything of the collector's to nothing |
| `ConstantPool` | `parse_constant_pool`, `resolve_cp_entry` | `file`, `taken`, `index`, `raw`; one action per constant |
| `ClassLoader` | `ClassLoader::load` and the scan of the directory in `main.rs` | `directory`, `laid`, `offset`, `pointers`, `classes`, `found` (ghost); one action per field, one each for the checks, the methods and the insertion |
| `Linker` | how a bytecode gets from its operand to a class, field or method | `request`, `current`, `chars`, `mode`, `argc`, `answer`, `statics`; one action per character of a descriptor and per class of a chain |
| `Safepoint` | `SafepointCoordinator` and the stop brackets of the collector | `requested`, `threadCount`, `parkedCount`, `released`, and the place of each thread and of the collector; one action per atomic operation or critical section |
| `MCFreeList`, `MCRuntime`, `MCSafepoint`, `MCClassFile` | small instances for TLC | values of the constants |
| `FreeListOpsProofs`, `FreeListProofs`, `RuntimeProofs`, `EdenProofs`, `GraphProofs`, `RefinementProofs`, `SafepointProofs`, `ClassFileProofs` | proofs | lemmas, inductive invariants, theorems |

`Runtime` EXTENDS `Collector` EXTENDS `Heap` EXTENDS `FreeListOps`; `FreeList`
uses the same operators, so what is proved about them serves both. `Linker`
EXTENDS `ClassLoader` EXTENDS `ConstantPool`: the directory is read first, the
bytecodes run on what it left. `MCRuntime` EXTENDS `RuntimeRefinement`.

**Abstractions.** An address counts 8-byte words (`GcHeader` and `FreeBlock` are
both three of them, and every request is a multiple of eight bytes). An object
is recorded at its header; a word without an entry holds bytes nobody vouches
for, and an operation that depends on them is a nondeterministic choice
(`UnmarkedIn`) or ends in phase `wild`. The free list is the sequence of its
blocks in link order. The worklist is a set: no result depends on the order it
is emptied in. Values that are not references behave like null, and bytecodes
that move no reference are left out. Class, method and field names are members
of small sets. In the class-file modules a text is the sequence of its
characters where the code looks at them one by one (descriptors), and of one
element where it only compares them (names); a class file is its list of
constants, the count it announces, the fields and methods the `cafebabe` crate
reads from it, and `damage`, the check it fails if any. Decoding of big-endian
numbers is left out. The age in the header is left out: the collector is built with
`Promoter::new(0)`, so the first survival promotes.

**What `ManagedHeap` promises.** Objects are identities. A bytecode may push what
its frame can name, read a field as it was last written, write it, store into a
local or a static field, create an object that is new and null in every field,
call with arguments taken from the stack, return, or unwind; whatever is no longer
reachable is gone from `graph`. There is no action for a collection, so
`ImplementsManagedHeap` says that a program cannot tell that one took place. It
subsumes that the graph is preserved (`GraphPreserved`, which `MCMajor` checks
by itself) and adds that every other step does to the program's view exactly
what its bytecode says.

**Ghost `risk`.** This collector keeps the object graph only within limits that
section 6 lists. Each limit has a name (`operand`, `static`, `oldyoung`, `flush`,
`full`, `blackparent`, `sliver`), and the action in which the cause arises adds
the name to `risk`. The properties of the collector say that it is right
whenever no named cause has occurred, so whatever else goes wrong is found; for
`ManagedHeap` the promise ends there (`kept`).
`GraphPreserved`, `ImplementsManagedHeap`, `EvacuationComplete`, `CardsCover` and `NoWildRead` are
conditioned on it; `EdenMarked`, `EdenTiled`, `OldExclusive`,
`OneCollectionEnough`, `AllocationReturns` and the types are not. `Safepoint` has
a `risk` of its own (`late`, `exit`, `again`): `WorldStopped` and
`NeverOvercounted` hold unless `late`, `GcReturns` and `ParkedResume` unless
`exit` or `again` has occurred.

**Dead phases.** `panic` is the failed `debug_assert`, `hung` a loop over a cyclic
free list, `wild` the use of a reference that denotes no object: a bytecode or
the promoter reads through it, or the marker takes it for a white object and
`set_mark` writes its byte into whatever lies there (`MarkMinorWild`,
`DrainWild`, `MarkMajorWild`; where those bytes read as a mark, the marker passes
by). In the
class-file modules `panic` is an index out of bounds and `hung` the loop of
`count_args` that does not end. The model stops there, because what follows
depends on stale bytes or there is nothing that follows.

**Faulty definitions.** A definition named `Faulty...` is used by no
specification. It is the definition below it with a plausible mistake, and
`PROJECT.json` ("mutants") pairs it with the property that notices.

## 3. Runs

State counts are of a finished run. `CHECK_DEADLOCK FALSE` stands where the
system may stop: a program may be in a dead phase or have used its `MaxNew`
objects; the bounded safepoint system ends after its last collection.

| run | question | instance | distinct states |
|---|---|---|---|
| `MCFreeList` | does any order of `alloc`, `free`, `coalesce` keep the list sound? | 13 words, sizes 3 and 4, alignments 1 and 2 | 4,982 |
| `MCMinor` | is a minor collection exact and invisible? | eden 9 words, old 20, leaves of 3 words and nodes of 4, 3 objects, 2 locals, 2 operands | 245,510 |
| `MCMajor` | does that stay so over full collections, while old objects are reclaimed and reused? | eden 4, old 8 (two objects), nodes, 5 objects, 2 locals; restricted to `risk = {}` | 946,061 |
| `MCFragment` | objects of very different size and a static field that keeps a stale reference, beyond these risks: one owner per word, does anything else go wild, and does `NEW` come back? | eden 32, old 36, objects of 3 and 29 words, 5 of them, 1 local, 1 static; restricted to the risks `static`, `full`, `sliver` | 883,625 |
| `MCCalls` | calls, returns, statics, a class that never fits: are all frames fixed up, is one collection enough? | eden 4, old 8, 2 frames, 1 static, 2 objects | 316,247 |
| `MCSafepoint` | is the world stopped when the collector thinks so, does every stop end, does everyone go on? | 3 mutators, 1 created late, 2 may exit, 3 collections by a thread beside them | 193,400 |
| `MCClassFile` | do class files, in any order and with any wrong links, lead each bytecode to the right member? | 7,942 directories, see below | 193,700 |

Five runs expect a violation. Each checks one statement the repository makes of
itself; section 6 lists them.

**Why the bounds are enough.** 13 words hold four blocks of the smallest size
with one word to spare, so the list reaches lengths at which unlinking at the
head, inside and at the end differ; the odd base gives an alignment gap, and
sizes 3 and 4 give both a sliver and a listable remainder. Eden of 9 words holds
three leaves, or two nodes with a word left over, so an object may end flush
with the region, and two nodes make every shape the marker meets: a cycle, a
shared child, a self-loop, garbage, a dead parent. The old generation of
`MCMajor` holds exactly two objects: it crosses the 80% trigger, its two blocks
are adjacent, and with five objects every block is freed, merged, split and used
a second time. `MCFragment` has a size ratio of ten: the large object alone
crosses the trigger and leaves room for two leaves and a sliver of one word, so
a full collection finds free blocks of several lengths, and slivers, in front of
live objects, and its walk ends in every way the model has (`SweepOldLastBlock`,
`SweepOldListedBlock`, `SweepOldWild`). With unequal sizes an old address also
comes to lie inside a newer object: five objects are enough for the minor and the
major marking to meet the stale static reference as a root and as a field. The
constraint leaves the risk `operand` to `MCCalls`, which has none. Two frames are what separates the topmost frame from the others.
Three threads are the fewest with one first, one last and one in the middle,
and three cycles let a straggler of one stop meet the next and the one after.

The directories of `MCClassFile` are those in which the cases of the loader meet.
*Pools:* a field reference with the five constants it links to, and a long,
in all 5,040 orders, so that every link goes forwards and backwards and the long
shifts each of them; and one order with every pair of slots as the links of each
kind, pools that end early or have an unknown tag at any place, and a count one
short of the second half of a long. *Layouts:* every list of up to four fields
of sizes 1, 2, 4, 8, a reference and a static. *Chains:* two to four files in
every order they can be listed in, where the class a bytecode names inherits
from two others, each of which may be missing, broken, cyclic, or declare, hide
or overload the member, natively, abstractly or without code. *Descriptors:*
every parameter list of up to four characters over a one-slot and a two-slot
primitive, `L`, `;` and `[`, well-formed or not. Longer lists only repeat what
the loop does per character, per field and per class.

**Fairness.** Of a program nothing is assumed but that the thread that entered
`NEW` is not descheduled for ever (`WF` on the collection and the retry loop
together; they are one thread's code). Class
loading and linking are that same thread before and between its bytecodes: `WF`
on what it has begun. The free list assumes that a started
`coalesce` is carried on. Of mutator threads it is assumed that they keep
reaching safepoints and that a thread that can leave `park` does; a sleeper runs
again only after a notification (`woken`), because that is all a condition
variable promises. Spurious wake-ups are possible steps and never promised. The
collector carries on what it has begun. No thread need ever be created or exit,
and no collection need begin.

## 4. Proofs

All theorems hold for every value of the constants that satisfies the named
assumptions of the modules (`FreeListAssumption`, `HeapAssumption`,
`CollectorAssumption`, `RuntimeAssumption`, `SafepointAssumption`, `ClassFiles`):
any region sizes, any classes and fields, any number of objects, frames, threads,
and any set of class files. `ClassFiles` says that fields, methods and constants
come in lists, that the pool of a file holds no more constants than its count has
slots for (what lies behind them is not part of the pool), that a count of 0 is
one of the refused headers, that a class has a name, that the text of a constant is
a sequence of characters and that `max_locals` is a natural number.

Three results are about recursive functions over data of any size: the sum
over a free list, the chain of superclasses, the parameters of a descriptor.
The induction is by the least counterexample: the lemma `Least` (a set of
natural numbers that is not empty has a least element, from the
well-foundedness of `<`) is applied to the set of lengths, indices or
positions at which the claim fails. It also gives that the function defined by
the recursion exists, which `CHOOSE` alone does not say.

**Free list** (`FreeListOpsProofs`, `FreeListProofs`). `FreeListType`,
`FreeListExclusive` and `FreeListAccounted`. The inductive invariant is the
conjunction of the three: a block that is split or merged stays in the region
only because types say so, the merged block is apart from the others only
because both halves were, and a dropped word stays dropped only because the
listed and the held blocks are exclusive. The lemmas say what unlinking,
insertion, allocation and merging do to the entries of a list and to the words
they cover; none assumes that the list is in address order, which matters,
because it seldom is (section 6). `CoalesceComplete` follows the cursor of
`coalesce` through unlinking and merging. `FreeListRecovers`: a sorted list in
which no two neighbours touch covers every word only as a single block,
because the word behind a block's end would have to be in a later block, which
begins above it. `FreeListSum`: the words of blocks that are pairwise apart
are as many as their sizes add up to (`FreeWordsCount`, taking the last block
away), so the sum, the words held and the words dropped add up to the region
(`IInvConserved`), before a step and after it.

**Interpreter and collector** (`RuntimeProofs`). `RuntimeType` and
`OldGenerationExclusive`: no program and no sequence of collections gives a word
of the old generation two owners, up to the point where `sweep_old` frees a
block that is already on the list, after which the model has stopped. The
inductive invariant `IInv` adds to the types: objects of the old generation,
extended by their sizes, and the free blocks are pairwise apart (`OldApart`); the
cursor of a sweep has not left its region downwards (`CursorAbove`), without
which a swept object might lie outside it; and a collection always runs on
behalf of a frame (`HasFrame`), without which `NEW` could not push its result.
Most steps only change marks and fields (`QuietStep`); promotion, the sweep of a
dead object and a merge are the three that change owners, and each is reduced to
a lemma of `FreeListOpsProofs`.

**Eden** (`EdenProofs`). `EdenIsTiled`, `TriColour`, `MarkingExact` and
`OneCollection`, none of them conditioned on a risk (but `MarkingExact` on
`flush`, as its property is). The invariant `EdenInv` adds to `IInv`: whenever no
collection is on, nothing in eden is marked; what the marker has reached and
not yet scanned is in the worklist, and everything it has marked lies in the
closure of the locals; the retry loop of `NEW` has an empty eden behind it.
Reachability is defined without recursion, as what no set closed under "not
named from outside" leaves out, so exactness needs no induction: the set of
white objects is such a set when the worklist is empty, and the complement of the
closure is never marked.

**The object graph** (`GraphProofs`). `NoStaleRead`, `NothingLeftInEden`,
`CardsAreDirty` and `CollectionIsInvisible`: as long as none of the named risks has
occurred, no step reads through a stale reference, eden is wiped only when
nothing refers to it, the cards know every reference from old to young, and
the program sees the same graph before and after each step of a collection. The
four need one invariant, `GraphInv`, because each rests on the others. Its parts,
by phase:

- always: every reference the program can reach refers to an object (`Sound`),
  fields that hold no references are null (`PlainNull`);
- while the program runs: the card table covers the references from old to young
  (`CardsCover`), the forwarding table is empty (`FwdEmpty`), no mark of the old
  generation is left half way (`NoOldGrey`);
- from the start of a minor collection: operands, statics and old objects
  have no reference into eden (`EdenFromLocals`, `OldClosed`; this is what the risks
  `operand`, `static` and `oldyoung` are about);
- during `sweep_young`: black is reachable (`BlackIsGraph`, from `MarkExact`),
  every survivor behind the cursor is forwarded (`AllForwarded`) to a copy that is
  not yet in the graph and equals it (`Forwarding`, `CopiesOld`);
- when eden is reset: the graph lies in the old generation (`Evacuated`);
- during `mark_major`: the tri-colour invariant (`OldMarked`), and after it all
  that is reachable ahead of the sweep is black (`LiveBlack`);
- during `sweep_old`: objects and blocks cover the old generation (`OldCovered`) and
  the cursor stands on the start of one (`OnTile`).

The one step that changes every reference at once is `fixup_roots`: `Moved` says
that the graph after it is the image of the graph before it under the
forwarding table, and `MovedView` that the program cannot tell. For all other
steps the lemmas `GraphSame` and `GraphWithin` reduce the claim about the graph
to one about its generators.

**Refinement** (`RefinementProofs`). `HeapIsManaged`: `Spec => ImplementsManagedHeap`,
for any program, classes and sizes. Two parts about identities join `GraphInv`:
every object's is one that `NEW` has given out (`IdsFresh`), and no two objects
of the graph share one (`IdsApart`), although a survivor and its copy do while
`sweep_young` runs, because the copy is not yet in the graph. So references in
the graph and identities name each other uniquely. The rest is one argument,
made for each bytecode:

- `Reachable` of the managed heap, taken of what is seen of any set of objects
  that contains the graph and whatever its fields refer to (`Complete`), is what
  is seen of the graph (`ReachLaw`). Before the step that set is the graph;
  after it, the graph of the step before with the object that was stored to or
  made.
- A function `D` from references to identities maps call stacks to call stacks, and
  commutes with what each bytecode does to them (`MappedStack`, `EntryFrame`,
  `FrontFacts`): a push of a reference is a push of its identity, and so on. The step of
  `Runtime` is then the action of that bytecode in `ManagedHeap`, its parameters
  taken through `D`.
- A step of the marker, the sweeps, the fix-ups or `coalesce` leaves the view
  as it is (`CollectView`, from the proof of `GraphPreserved`), so it stutters.
- A step at which a named risk first occurs is `Forfeit`; every later step stutters,
  because nothing is seen any more.

**Safepoint** (`SafepointProofs`). `SafepointType`, `SafepointCount` and
`SafepointStops`. Threads may be created and may exit at any moment. The
invariant counts: `threadCount` is the number of registered threads,
`parkedCount` is 0 outside a stop and otherwise at most the number of threads in
`park`, the gate is shut from the request to the release, and a thread is on its way
into `park` only while the collector waits. So `parkedCount >= threadCount` forces
every registered thread to be in `park`, by cardinality. A thread that registers
in the stopped world breaks the last two parts; `Inductive` therefore has a part
that always holds (`Base`) and one that holds until then.

**Class files** (`ClassFileProofs`). `PoolSlots`: while the loop runs,
`index` is the slot of the next constant (`SlotIn`, which counts the two-slot
constants before it), every constant read stands in its slot or the one behind,
and what lies at or above `index` is empty; the lemmas are about the cardinality
that defines `SlotIn`. Conversely a slot that is not empty is backed by a
constant (`Backed`); from both, `LinksSpelled`: following links from slot to slot
and following them from constant to constant is the same. `SoundLoaded`: a file
that has come through the loop without an error has a pool that fills its count,
so the file being read is sound exactly if it passes the checks that are still
ahead of it. `LayoutApart` and
`LayoutPointers`: the fields laid out so far end at or below `offset`, each
pointer offset is below it, and rounding up never lowers it; what is proved of
the layout under construction carries over to the table when the class is
inserted. `StaticsOwned`: classes do not change once bytecode runs, and a key is
made from the class in whose list the member was just found.

`LookupNearest`: `Walk` lists one class more than there are, and the invariant
(`WalkInv`) says that the lookup stands at one of its indices and that no
class before that index declares the member (`Reached`). A step to the
superclass goes to the next index; at the last one there is none, but by the
pigeonhole principle two indices have the same class, from the second of them
on the chain repeats itself (`WalkRound`), and the superclass stands at an
index that was passed before. Where the chain leaves the table only `None`
follows (`WalkEnds`), which no class is called.

`ArgumentsArrive`: the characters `count_args` has not read are those at and
behind some position of the descriptor's arguments, and the parameters
counted, the one it is in the middle of and those that begin behind it are all
of them (`Scanned`). What "behind it" is depends on the mode: behind the type
that begins here, behind the next `;`, or behind the element type of the
array. That a descriptor is well formed is what rules out that a type does not
end; `CountEnd` finds position `Len + 1`, where nothing is left to count.
`FoundFirst` ties the method that refuses the arguments to the one that the
property names.

**Only model-checked.** The liveness properties (`CoalesceTerminates`,
`AllocationReturns`, `GcReturns`, `ParkedResume`, `RequestsAnswered`): no prover
here does fairness. Every invariant and every action property of a passing run
is a theorem.

## 5. Not modelled

- Arithmetic, comparisons, conversions, branches: wrapping machine arithmetic on
  one thread, no reference moves.
- The bytes of a class file: the big-endian readers, and what the `cafebabe`
  crate reads (fields, methods, attributes), which enters as data.
- The exception tables that `load` copies: the interpreter never looks at them.
- `println!` and what the natives print; of `main.rs`, the command line, the
  environment variables and the summary.
- Classes loaded while the program runs: the driver loads all of them first.
- Weak memory. The coordinator's relaxed operations are read-modify-writes and
  loads of one variable each; a load that returns an old flag is the same poll
  made earlier. No other data is shared in the modelled use.
- `Region::reset`, `CardTable::clear`, global roots and the dirty-card scan: no
  code calls them. `NeedMajorGC` and `OutOfMemory` are results `Mutator::alloc`
  never returns.
- The moment at which the host enters the interpreter is any moment at which the
  call stack is empty; the driver's order of entry points is not kept.

## 6. Known departures

What follows was met while modelling. An item marked with a run is a finding in
`PROJECT.json`, with the statement of the repository it departs from.

1. A reference on an operand stack is not a root (`frame.rs:110`): it dangles
   after a collection. *Run `MCOperand`*; risk `operand`.
2. A static field is not a root (`mod.rs:833`, nothing calls `register_global`).
   Risk `static`.
3. `mark_minor` leaves out the dirty cards, so an eden object known only to an
   old object is lost. Risk `oldyoung`. (`CardsCover` shows that the cards hold
   what such a scan would need.)
4. When `promote` finds no room the survivor stays in eden, which is wiped.
   Risk `full`.
5. `Region::contains` is asked about the word behind the header (`region.rs:77`):
   a header-only object that ends flush with its region is outside it and is
   not marked. Risk `flush`.
6. Promotion copies the black mark (`promoter.rs:46`), and `mark_major` takes what
   is black for scanned: children of a promoted object are freed while it
   lives. *Run `MCBlack`*; risk `blackparent`.
7. `sweep_old` walks free blocks as if they were objects. The last one reads as a
   header of size zero, which the assertion in `sweeper.rs:132` says cannot be.
   *Run `MCZero`*; phase `panic`, or an unswept rest in a release build.
8. Any other free block reads as a dead object and is freed a second time; the
   list becomes cyclic and the next loop over it does not end. Phase `hung`.
9. `alloc` drops alignment gaps and remainders under 24 bytes; the walk of the
   old generation then meets a word that is neither an object nor a block.
   Risk `sliver`.
10. The remainder of a split block is put at the head of the list, so the list is
    not in address order, and `coalesce` merges only neighbours in the list.
    `SortedRecovers` says what holds when it is in order.
11. `collect_minor` releases the threads and may at once ask for a second stop. A
    released thread that has not passed the gate yet finds it shut again, while
    its count was reset to 0: it waits for the second release, and the second
    stop waits for it. *Run `MCSafepointTwice`.*
12. `unregister_thread` notifies nobody: a collector that sleeps, and waits for
    nobody but the leaving thread, sleeps on. Risk `exit`.
13. The thread that collects is itself registered (`NEW` runs on it). With a
    second mutator it waits for itself to park; `Safepoint` with `Gc` in `Threads`
    has no behaviour that ends a stop. And a thread that registers while the
    world is stopped is not held. Risk `late`.
14. The layout of a class begins at offset 0 whatever it inherits
    (`classfile/mod.rs:45`), while `resolve_field` finds inherited fields: they lie
    behind the payload of the subclass's objects or on top of its own fields.
    *Run `MCInherited`.*
15. A long or double constant stands in the second of its two slots and its own
    slot is empty (`classfile/mod.rs:258-282`), so a bytecode that names it by its
    number finds no constant; if the count leaves no room for the second slot
    the index is out of bounds. `SlotsFilled` says what holds, `PoolPanic` is the
    second case.
16. An argument behind a long or double one arrives in a local that is lower by
    one for each of them (`mod.rs:107`, `865`), because a value takes one local.
    `ArgumentsPlaced` says exactly that.
17. `count_args` does not end on an object type without its `;`, and the walks of
    `resolve_field` and `resolve_method` do not end on a chain of superclasses
    that goes round. `RequestsAnswered` excepts both.
18. `invoke_native` is told the class the lookup started at (`mod.rs:1045`): a
    native method is not found through a subclass.
19. `GETFIELD` does not ask whether the field is static (`mod.rs:598`) and reads
    the start of the object for one that is.

Departures 11 to 13 need two registered mutators, which the shipped driver never
creates.

## 7. Plan

Done: the modules, runs and theorems above.

Next, in this order:

1. Regions whose size is no multiple of eight bytes: words are rounded down
   in the model, and the last bytes of the old generation are seen by
   `free_bytes` and by the walk of `sweep_old` only.
2. `CardTable::card_index` in bytes, if something comes to read the cards.

Not planned: a collector and a coordinator in one module. `Collector` holds its
bump allocator in an `Rc`, so no two threads can share one, and all that a
collection does with the coordinator is the two brackets `Safepoint` has.
