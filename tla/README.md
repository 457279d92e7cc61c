# Formal models of RefleX

RefleX (`src/include/reflex/`, `src/src/`) lets a C++ program publish and receive its own types
over RTI Connext DDS. From a type it derives, at compile time, a DDS typecode and the code that
copies a value member by member into a `DDS_DynamicData` and back; at run time
`GenericDataWriter<T>` and `GenericDataReader<T>` put that on top of the DDS entities. This
directory holds TLA+ models of the run-time parts, the TLC configurations that check them, and
TLAPS proofs about them.

Run `tlc -config X.cfg MCModule` for a check, `tlapm XProofs.tla` for the proofs. `PROJECT.json`
lists, for every definition, the lines of source it stands for.

## 1. Inventory

| Component | Source | State | Operations | Talks to |
|---|---|---|---|---|
| AutoDynamicData, SafeDynamicData | `auto_dd.h`, `auto_dd.cxx`, `safe_dynamicdata.h` | `type_support_` (borrowed), `instance_` (owned) | constructors, copy, move, assignments, swap, destructor; `get` | middleware heap of instances |
| GenericDataReader, DataReaderListenerAdapter, `take_impl`, `initialize_reader`, `dr_deleter` | `generic_dr.h`, `generic_dr.cxx` | `safe_listener_adapter_` and `safe_datareader_` (shared), `data_reader_` of the adapter (raw back pointer), DDS entities, loans | construct (6 calls into DDS), implicit copies, destroy, `take`, `on_data_available` | the middleware's receive thread, the application's listener |
| GenericDataWriter, `initialize_writer`, `dw_deleter` | `generic_dw.h`, `generic_dw.cxx` | `type_manager_`, `dd_instance_`, `safe_datawriter_` | construct, implicit copies, moves, assignments, destroy, `write`, `write_w_params` | TypeManager, AutoDynamicData, member conversion |
| `write_dynamicdata` / `read_dynamicdata` | `reflex.h`, `dd_manip.h`, `tuple_iterator.h` | none of their own: the instance written, the object read into | set and get of one member after the other, by kind | SafeBinder, match::Union |
| Sample | `sample.h` | a value and its info | | elements of the vector of `take` |
| TypeManager | `type_manager.h` | shared `SafeTypeCode` and type support | create, `create_instance`, `create_dynamicdata` | SafeTypeCode, AutoDynamicData |
| SafeTypeCode | `safe_typecode.h` | a typecode, `is_shared_` | construct, clone, move, `release`, destroy | typecode factory |
| make_typecode | `typecode_manip.*` | typecodes under construction | struct, sequence, array, enum, union, sparse | SafeTypeCode |
| match::Union | `disc_union.h` | active case index, tuple of case pointers, discriminator | default and case constructors, assignment, swap, `set_union`, `get_union` | member conversion |
| SafeBinder, MemberAccess | `dd_extra.*` | which instance is bound to which member | bind, unbind, accessors | middleware |
| Bounded containers, ranges | `bounded.h`, `dd_manip.h` | a container, a bound | the container's; a range is never resized | member conversion |
| Member names, macros, traits | `member_names.*`, `adapt_macros.h`, `enable_if.h`, ... | none | compile time | |
| Tests and tools | `src/test/` | | | show how the listener, the reader and the writer are meant to be used |

What makes the code hard:

* **A second thread.** The middleware runs `on_data_available` on its own thread, from inside
  `create_datareader` on, while the application constructs, copies, polls and destroys.
* **Ownership by convention.** Raw pointers borrow what `shared_ptr`s own; the order in which members
  are declared decides whether a destructor or an assignment uses something that is gone.
* **Failure in the middle.** Constructors make up to six calls into DDS, `take` converts sample by
  sample between `take` and `return_loan`, `write` sets member by member; each call may fail.
* **Reuse.** One `dd_instance_` serves every `write`, one vector may serve many `take`s; what a
  call does not overwrite stays.
* **Nesting.** Types contain each other to any depth. Typecodes are built, and complex members bound
  and unbound, along the type, and an exception may come at any level.
* **Two places for one fact.** The case of a `match::Union` is in `which()` of a variant, in
  `active_index_` and in which case pointer is set; some constructors leave the index uninitialised.

Correctness, per component: an instance has one owner and is deleted once, by its creator
(AutoDynamicData); callbacks reach live objects, loans are returned, samples are neither lost nor
handed out twice, the reader goes with its last object (GenericDataReader); nothing outlives what it
borrows from (GenericDataWriter, TypeManager, SafeTypeCode); what is written is what is read
(conversion); index, discriminator and case agree (match::Union); every typecode has one deleter
(make_typecode).

## 2. Plan

Order: concurrency, ownership and data at the top, then the ownership of types and the data of all
kinds of members.

| # | Module | About | Composes | Status |
|---|---|---|---|---|
| 1 | `ValueObject` | abstract: independent values | | done |
| 2 | `AutoDynamicData`, `AutoDynamicDataProofs` | owning wrappers, step by step; implements 1 | `ValueObject` | done, proved |
| 3 | `GenericDataReader`, `GenericDataReaderProofs` | reader, listener adapter, `take`, two threads | | done, proved |
| 4 | `GenericDataWriter`, `GenericDataWriterProofs` | what a writer owns, shares, borrows | | done, proved |
| 5 | `DataPath`, `DataPathProofs` | value -> instance -> sample -> vector, with several writers; implements 11 | `ValueQueue` | done, proved |
| 6 | `AdaptedTypes` | kinds of types and what they are made of | | done |
| 7 | `SafeTypeCode`, `MakeTypecode` | the owner of one typecode; typecodes built, added, released and deleted under failures | 6 | done |
| 8 | `TypeManager`, `TypeManagerProofs` | typecodes and type supports: owned, shared, cloned, released, borrowed | 7 | done, proved |
| 9 | `MatchUnion` | `match::Union`: variant, active index, case pointers, tags and ints of some width | 6 | done |
| 10 | `Conversion`, `ConversionLemmas`, `ConversionProofs`, `ArrivalProofs` | one object and one instance, all overloads, nested to any depth | 9 | done, proved |
| 11 | `ValueQueue` | abstract: a queue of whole values | | done |

`MCX` modules give the constants of `X` their values for TLC.

## 3. The modules

### AutoDynamicData, ValueObject

A program's variables (`Objects`), the temporary of `operator=` (`Temp`), and a heap of instances
with the type support that created each (`heap`, `creator`). Operations that make one call into the
middleware are one action. The copy constructor, copy assignment (copy into the temporary, swap,
destroy the temporary) and the constructor of SafeDynamicData make several and take one step per
call, which `frame` records; an exception or an ignored return code is a step of its own
(`InitThrows`, `WriteThrows`, `CopyInstanceFails`). `delete_data` may fail, which the destructor only
reports.

`ValueObject` is what `auto_dd.h` promises: objects are values, independent of each other.
`ValueSemantics` says that `AutoDynamicData` implements it, with the mapping that follows `instance_`;
temporaries and objects inside their constructor are invisible, a moved-from object has no value.
`ValueObject` lets a copy come out blank when `LossyCopy` is TRUE, which is the case when
`DDS_DynamicData::copy` may fail: `auto_dd.cxx:49` ignores its return code.

### GenericDataReader

Two threads. `app` runs the constructor one DDS call at a time (`ctor`), copies and destroys objects
(`handle`), and polls; `mw` runs `on_data_available` of the listener adapter (`callback`), which calls
the listener, which calls `take`. `take` is split where another thread may come in: `dr->take`
(`AppTake`, `CallbackTake`), one step per sample, `return_loan`. An exception of the conversion leaves
in between (`ReadThrows`).

The destructor takes three steps, in the order in which the members are declared: drop the
`shared_ptr` to the DataReader (`DestroyReader`), let `dr_deleter` call `delete_datareader` if it was
the last reference (`DeleteDataReader`), free the adapter (`DestroyAdapter`). `take_impl` holds the
`shared_ptr` by value, so the last reference may be dropped inside a callback (`Leave`).

The participant has one topic name. Topics are never deleted, hence at most one DataReader ever
comes into being; `ConstructThrows` covers a second attempt.

### GenericDataWriter

`type_support_`, `borrowed` and `safe_datawriter_` are the three members of every object; what is alive
is what some `shared_ptr` points to (`Alive`, `Held`). Copy, move and assignment are the compiler's,
member by member in declaration order; destruction is in reverse order. Calling a type support that
is no longer alive sets `crashed`. `assigning` is chosen once, at the start: whether this program ever
assigns one writer to another.

### DataPath, ValueQueue

One writer object has one buffer, `dd_instance_`; a sample is a copy of it; `take` converts it into an
element of the caller's vector, which may hold older elements. A member is of one of four kinds,
which differ in what happens when it is empty: `plain` (always set), `vector` of primitives (not set
when empty), `optional` (neither set nor read when absent), `pointer` (NULL makes `write` throw).
`write` sets one member per step, so writers interleave and fail half-way; `take` converts one sample
per step and may throw after any member. `given` and `blank` in a call and in a sample are history:
the value `write` was given, and whether `dd_instance_` was blank when it was called.

`ValueQueue` is what that amounts to without buffers: `Write` appends a whole value, `Lose` drops one on
its way, `Take(n)` removes `n` from the front and hands them over in order, each as it was given but for
members that were empty or absent (any value: that is what the reused buffers decide), `TakeThrows(n)`
removes them and hands over nothing. `DataPath` implements it (`QueueOfValues`): its queue is the samples
a `take` in progress has borrowed followed by those in the DataReader (`UnderWay`), a sample being what
`write` was given for it; its vector is the caller's, from the moment `take` returns. Setting members, a
`write` that throws and the conversion of one sample change neither.

### AdaptedTypes

The C++ types as the overloads of `get_typecode`, `set_member_value` and `get_member_value` tell them
apart: 13 kinds, the parts each type is made of, and which members are keys. Types are a constant;
the modules that use them work for any types that meet `TypesAreAdapted`.

### SafeTypeCode, MakeTypecode, TypeManager

`SafeTypeCode` has the class (a pointer and `is_shared_`) and the heap of the typecode factory
(`typecodes`). The typecodes of primitive types belong to the factory and are one address,
`PrimitiveTC`; that of a type support is one of `Foreign`.

`MakeTypecode` is the recursion of `get_typecode`: `calls` is the stack of activations with their local
SafeTypeCodes and the raw pointers in `DDS_UnionMember.type` (`cases`). There is one action per overload
that returns, and for aggregates and unions one per call of the factory; `Throw` is an exception
anywhere, after which the locals of every activation are destroyed and the raw pointers forgotten
(`abandoned`).

`TypeManager` puts the objects on top: managers, which own the result and share the type support
(`counted`) or borrow another's; SafeTypeCodes of the application, which may also be copied and moved
from and to that of a manager through the `get_safe_typecode` that is not `const`; SafeDynamicData, which
borrow a type support. All are constructed, copied, moved, assigned, released and destroyed in any order.
A program that is `scoped` neither assigns nor moves and destroys in the reverse order of construction;
`BorrowedAlive` is about those.

### MatchUnion, Conversion

`MatchUnion` has an object of the application as what its parts hold, by path, and the operations of
`match::Union` on it: `Union(const Case &)`, assignment of a variant, `set_caseptr_tuple_for_writing` and
`_for_reading`, `set_active_index`, `reset_caseptr_tuple`. A constructor that does not initialise
`active_index_` leaves any value.

`Conversion` has one object and one `DDS_DynamicData`, which are changed, written and read in any order
and used again. `todo` is the stack of what is left: an overload replaces itself by the calls it makes,
and a SafeBinder is a step `unbind` behind the steps inside its block. After an exception
only the `unbind`s run (`Unwind`). Overloads that differ in the type of a number or string only are one
action. `DataPath` has the same conversion for four kinds of members, with several writers and samples
under way; `Conversion` has all kinds, but one call at a time.

`meant` (the case the application or a read last put into a union), `mixed` (a union had a case in the
variant and case pointers at once), `fresh` and `message` are history.

### The middleware

Connext is not part of the repository. What the models take from its use in the source, its tests
and its documented API:

* `create_data` returns a blank instance; `copy` overwrites all of it; `write` of a sample copies it.
* A DataReader created with a listener is enabled and calls the listener as soon as samples arrive.
  It never runs two callbacks of one reader at once, calls again whenever something arrived after
  the last call began, and a DataReader is not deleted while its callback runs: deletion waits
  for the callback, or is refused if it comes from inside it.
* `delete_datareader` is refused while loans are outstanding; `take` is refused when
  `max_outstanding_reads` (`MaxLoans`) is reached.
* Topic names are unique within a participant.
* The typecode factory copies the typecodes it is given into those it creates; a type support clones
  its typecode and keeps it as long as it lives.
* `bind_complex_member` of a member that is to be set makes it exist. Setting a member of a union
  deselects the others. Binding or setting an element never shortens a sequence; one that is bound and
  not written may stay. `get_member_info_by_index` gives the discriminator as the bits of the tag.

## 4. The runs

| Run | Configuration | Shows |
|---|---|---|
| `auto_dd` | 3 objects and the temporary, 2 type supports, 4 addresses, 2 contents, every call may fail | `SoleOwner`, `HeldIsDeletable`, `ValueSemantics` hold |
| `auto_dd_move` | a program that constructs, populates, move-assigns and destroys | `MoveAssignDeletes` fails: `auto_dd.h:78` says that move assignment deletes the old instance, the code swaps |
| `reader` | 3 reader variables with copies, 3 samples, one of which cannot be converted, 2 loans, every call may fail, no restriction on when things happen | `TypeOK`, `LoansAccounted`, `NoSampleVanishes`, `ListenerOutlivesReader`, `CleanShutdown`, `DefectHasCause` hold |
| `reader_calm` | publishers wait for the constructor, objects are destroyed when quiet, nothing is copied, conversions succeed | `CallbackHasReader` and `EventuallyTaken` hold |
| `reader_early` | as before, but samples may arrive during the constructor | `CallbackHasReader` fails: the adapter dereferences a NULL `data_reader_` |
| `reader_throw` | as before, but one sample cannot be converted | `CallbackHasReader` fails: the loan is never returned, `delete_datareader` is refused, the adapter is freed and called |
| `writer` | 3 writer variables, 3 type supports, DataWriters and topics, every call may fail | `SupportOutlivesInstance`, `DataWriterWhileHeld` hold |
| `writer_assign` | 2 variables, no failures | `InstanceIsDeleted` fails: `a = b` frees the type support of `a`, then calls it |
| `data_path` | 2 writers, an optional and a pointer member, 2 values, 2 writes, 2 samples under way, every call may fail, buffers reused | `TypeOK`, `PresentMembersArrive`, `RoundTrip` hold; implements `ValueQueue` (`QueueOfValues`); no deadlock |
| `data_path_write` | 1 writer, a vector and an optional member | `WriteCopiesData` fails: the second `write` publishes a member of the first |
| `type_manager` | 2 managers, 1 SafeTypeCode, 1 SafeDynamicData, a heap of 5 typecodes, 2 type supports; three types T with a base class, nested unions, a sparse type and an optional key; every call of the factory may fail | `TypeOK`, `OneOwner`, `NothingLeaks`, `StaticsStay`, `BorrowedAlive` hold |
| `conversion` | 15 types T with every kind of member, one inside the other; sequences up to 2, arrays of 2, an int of 4 bits, tags narrower than it, signed and unsigned, and an unsigned one as wide; every call may fail; object and instance reused | `TypeOK`, `BindDiscipline`, `AllArrives`, `NothingElseArrives`, `UnionTruth`, `UnionReadsBack` hold; no deadlock |

Deadlock is checked in `auto_dd`, `data_path` and `conversion`. Elsewhere `CHECK_DEADLOCK FALSE` is set because the
modelled program may really stop: an application that has destroyed its objects does nothing more,
publishers fall silent, a crash ends everything, and in `type_manager` an application may have all its
objects and no memory for another.

**Bounds.** Three variables allow a copy of a copy, and an object that outlives two others; two type
supports show a foreign deleter; one address more than there are objects leaves room for the
temporary. Three samples give a callback, a poll and a sample that arrives meanwhile; two loans are
what two threads can hold, and one leaked loan makes the limit bite. Two writes and two samples are
what it takes to see an old value, in the instance or in the vector. Five typecodes are what the deepest of
the three types holds at once, next to a second object that owns one; with fewer, only exceptions would
be left. Two managers and a SafeTypeCode make every pair of source and target of a copy, a move or a swap,
aliased ones too. Sequences of two and a write after a write show an old tail. An int
of four bits (`IntSize = 16`) and tags of three and four (`TagSizeMain`) show -1 as a signed tag, as an unsigned tag
that stays unsigned when it becomes an int, and as one that is -1 again. `MaxLeft` (typecodes left behind, or with the application), `MaxLen`, `MaxWrites`, `MaxQueue`, `MaxLoans`,
`Samples`, `Instances`, `Supports`, `DataWriters`, `Typecodes` are the bounds; each only stops an operation from being
called, never makes it succeed; a full heap of typecodes makes the factory fail, which the code has to
survive anyway.

**Fairness** is used in `reader_calm` only. A callback that is due is dispatched, a listener that was
called calls `take` and comes back, a `take`, a constructor or a destructor that was entered runs to
its end: weak fairness of each. Nothing is assumed of the application's calls, nor of publishers.

**Exceptions in the properties** name what the code really allows:
`ListenerOutlivesReader` and `CleanShutdown` do not hold when a loan was leaked, when `narrow` failed
after `create_datareader` (`generic_dr.cxx:98`), and when the last object is destroyed during a
callback whose `take` then has the last reference. `DefectHasCause` lists all there is to say of a callback that goes
wrong in a program that may do anything: why it finds no reader, a freed adapter, or a reader that is gone, and that
nothing else leads there. `CallbackHasReader`, that none goes wrong, holds of a calm program only. `reader_calm` leaves `narrow` and `return_loan` out of
`Faults` for the same reason. Other counterexamples are one constant away: `QuietStop = FALSE` in
`GenericDataReaderCalm.cfg` destroys the object a callback was given; `Copying = TRUE` leaves the adapter
with the address of the original. Neither contradicts a sentence of the repository more than
`reader_early` does, so they have no run.

`StaticsStay` allows `delete_tc` of a primitive's typecode for a union with a case that is an optional or a
smart pointer to a primitive: `deleteTc_impl` (`typecode_manip.h:961`) knows primitive types only.
`NothingLeaks` allows what an exception leaves in the members of a union. `UnionTruth` is about unions that
are not `mixed`. `AllArrives` allows a longer sequence than was written, as nothing shortens one; it, like
`NothingElseArrives`, knows that empty vectors, absent optionals, empty unions, and what is behind an optional or a pointer and not set, are not set, that a
range may be longer than needed, and that a sequence of complex elements that is empty may come back with
one (`Slack`). `UnionReadsBack` says that the default case of a union is refused if its tag is unsigned and
narrower than an int: the discriminator comes back as 255, or 65535, and never matches -1. The conversion to int at
`dd_manip.h:1196` makes 4294967295, of a tag that is unsigned and as wide as an int, the -1 it was, so there the default
case is read (`DefaultSurvives`). `UnionReadsBack` demands labels that tell the cases apart
(`LabelsTellApart`, as do the other two: distinct values of the tag type and, next to a default case, none that -1 becomes as a tag).
The code checks none of that: a case labelled 255 would get what a default case with an octet tag wrote.

Other places where the code and a sentence next to it part, which need no state space to see:
`get_readable_retcode` answers "DDS_RETCODE_OK" for INCONSISTENT_POLICY (`dd_extra.cxx:326-327`);
`safe_typecode.h:144-147` says that move assignment deletes the old typecode and sets that of the source
to NULL, the code swaps;
`type_manager.h:40` calls managers immutable, `get_safe_typecode` is not `const`.

Each property of a passing run has a mutant in `PROJECT.json`: a definition commented "Mutant" in the
module that changes one definition the way a slip in the code would (a destructor that forgets
`delete_data`, members in the wrong order, a loan returned inside the loop, ...) and makes the property
fail in that run. No specification uses them.

## 5. The proofs

Assumptions: the named `ASSUME`s on the constants, nothing else. All sets may be of any size.

**AutoDynamicDataProofs.** `SoleOwner` and `HeldIsDeletable` are not inductive: in the middle of a copy
assignment the temporary owns an instance, and nothing in them says that the object being assigned
to exists or that a field that is NULL has a NULL companion. `IInv` (in `AutoDynamicData`) adds
`FieldsOK` (when pointers are NULL), `NoSharing`, `NoLeak`, and `FrameOK` (what the operation in
progress knows). `Invariance` proves `Spec => []IInv`, with lemmas for the shared pieces (`InitFields`,
`Destructor`, `SwapFields`) and one step per action. `InstancesHaveOneOwner`, `HeldInstancesAreDeletable`
and `TypeCorrect` follow. `ImplementsValueObject` proves `Spec => ValueSemantics`: every step of the model
is a step of `ValueObject` or leaves all values as they are.

**GenericDataWriterProofs.** `IInv` adds to the two properties that a variable without an object holds
nothing (or a constructor would overwrite a reference) and that, without assignments, an instance
was borrowed from the type support its own object shares. `ReleaseKeepsDataWriters` is the lemma about
`dw_deleter`. `SupportsOutliveInstances` and `DataWritersWhileHeld` follow.

**GenericDataReaderProofs.** One invariant carries all the safety properties of run `reader`. Its parts:
`TakesOK` (which thread has which samples; `TakingCount` turns the cardinality in `LoansAccounted` into a
sum), `CtorOK` (how far the constructor is; one that got past `create_topic` is the first, so no object
exists yet), `AdaptersOK` (all objects share one adapter, the one attached to the DataReader),
`OneDestructor`, and `SharesOK` (who keeps the DataReader: an object, or a `take` in a callback).
`ListenerOutlivesReader` needs all of them: that an adapter is freed while its DataReader is enabled can
be excluded only by knowing who still holds the DataReader. `TypeCorrect`, `LoansAreAccounted`,
`SamplesDoNotVanish`, `ListenersOutliveReaders` and `ShutdownIsClean` follow, for any number of variables
and samples and with nothing assumed of the application. `DefectHasCause` is about the state a callback meets, so it needs
`CallbackOK` besides: some object holds an adapter that is alive; the adapter knows the object it was made for once
its constructor is through, and no other; a callback under way is for that object, and as long as it is not in `take` an
object is there (the DataReader would be gone otherwise, and it cannot be deleted during a callback).
`OnDataAvailableHasCause` and `CallbackDeadReaderHasCause` are the two steps that can find a defect.
`DefectsHaveCauses` follows, with nothing assumed either.

**DataPathProofs.** `CallOK` says which members of `dd_instance_` a `write` in progress has set, and, if the
instance was blank, that the others still are; `SampleOK`, `ElementOK` and `DataOK` carry that through
the queue and the conversion. `SetMemberValueGives` and `ReadDynamicDataGives` are the lemmas about one
member and one sample, whatever the reused buffers held. `PresentMembersDoArrive` and `ValuesRoundTrip`
follow for any list of members. `ImplementsValueQueue` is the refinement: `SendingOK` (what `write` has
passed has no NULL pointer, so what it publishes can be sent) and `TakingOK` (a take in progress has
samples, and those without data have become default values) join the invariant; `Messages` turns samples
under way into messages, the `UnderWay` lemmas say what appending, losing, lending and handing over do to
them, and there is one `Map` lemma per step that is not a stutter.

**TypeManagerProofs.** `CallsOK` describes the stack of activations: each waits for the typecode of the part
the next one works on, `FrameOK` says what its locals and cases may be, and that a case is `PrimitiveTC`
exactly if its type is a primitive or wraps one. `ObjectsOK` types the objects, and says that a variable
without an object holds nothing. `ScopeOK` is `BorrowedAlive` made inductive: whatever a type support is
used by has, at its position or before it in the order of construction, a manager that counts
(`KeptAt`); so destroying the last object cannot leave a user behind (`ScopeShrinks`). `TypeCorrect`,
`OnlyWrappedPrimitives` and `ScopedIsSafe` follow, for types nested to any depth.

Its second half is about owners. `Exact(T, f)`: everything in `T` is owned by exactly one slot according to `f`, and
nothing else is. The slots are those of `OneOwner`, with a stack of any height. Every step of the model takes
what some slots own, deletes part of it and gives the rest, or a new typecode, to one slot: lemma `Exchange`
says once and for all when that keeps `Exact`; a move assignment is `Swap`. What remains for an action is
which slots it involves. `TypecodesHaveOneOwner` and `NothingElseLeaks` follow; the lemma about `Throw` is
the one where all slots of the stack are involved.

**ConversionLemmas** are about the operators of `MatchUnion` and `Conversion`. Objects, types and paths are
recursive data, and the induction theorems of the library are out of the provers' reach, because they take an
operator. `SetInduction`, `Iteration` and `RankedRecursion` state them about sets and functions instead (a set
of numbers that contains 0 and every successor is `Nat`; a definition whose value depends on values of lower
rank only has a solution), which the provers can use. `Depth` is the rank: `TypesAreNested` says that the
parts of a type are nested less deeply than the type, which the code needs as much as the proof, since the
`get_typecode` of a type that contains itself never returns. From that: `Placed(r, t, p)`, that a `t` is at path
`p` of an object of type `r`, which determines `t` (`PlacedUnique`) and holds for every node (`NodesPlaced`); and
`Lies(r, t, i)`, the same for a path of a `DDS_DynamicData`, where a base class, an optional and what it
holds share one place (`Within`) and ids count the members of all bases. That a leaf is alone in its place there
(`LeafLies`) is what `MembersInBases` is for. The rest of the module is one lemma for each operation on
objects and instances: what it may change, and that `ObjectOK`, `InstanceOK` survive it.

**ConversionProofs.** `BindDiscipline` says nothing of the steps further down in `todo`. `IInv` adds that
they lead (`Leads`) from the innermost bound instance to none: every step uses the instance that is bound
when its turn comes, and every bound instance has its `unbind`. Overloads put balanced steps in
front, `Unwind` takes steps away that bind nothing. `BindersNest` follows, for types nested to any depth.

`TypeOK`, `UnionTruth` and `UnionReadsBack` share a second invariant, `Typing`. Its parts: `ObjectOK` (leaves hold
values of their type; a union that was never mixed has its case in the variant or behind pointers, and its index,
unless it is -1, is that of the case that was meant), at every place an object of the type can have and not
only where there is a node now, as a container that grows makes nodes of what it held before; `InstanceOK`, that for
the instance; `StepsOK` (a step is for what is at its places); `CasesPending`: a case that is read through its pointer
becomes the active one after the steps of its data, so until then no step may remove that pointer. `UnionTruth`
fails without the last part. `ConversionIsTyped`, `UnionsWriteWhatWasMeant` and
`UnionsReadWhatWasWritten` follow; the latter also needs what becomes of a number that is cast to a tag and
then to an int (`TagCastFacts`, `IntCastFacts`), for which of two sizes that differ the larger must be a multiple of twice the
smaller, as powers of two are. `Typing` speaks of all paths, of which there are infinitely many: TLC checks what follows from
it, not `Typing` itself.

**ArrivalProofs.** A spot is a place in an object and in the `DDS_DynamicData` at once: `path` in the object, `at` in
the instance, where a base class and what an optional or a pointer holds are in the place of what they are in.
`Reached(r, K)` are the spots of an `r` that has the parts `K` says. Two facts about their geometry carry everything:
`AtTellsPath`, that what is at or below the place of a member in the instance is at or below that member in the object
(`MembersInBases` is why: `BelowClass`), and `OneCase`, that in the instance of a union only its case is (so that selecting a
case deselects nothing else that was written). Hence writing a spot disturbs no spot but those in it
(`WrittenElsewhere`). The invariant `Writing` of a write in progress: every step left is the overload of a
spot (`Matched`), and every spot is stored already or will be covered by a step that is left (`AllStored`). A write
that starts has everything to cover; one that returns has nothing left to do, so everything is stored, and stays
so while nobody writes (`Delivered`). `WritesDeliver` follows, for unions that were never mixed.

Reading is the same with object and instance exchanged (`Reading`): which parts are read is told by the instance
(`PartsRead`), every step left is the overload of a spot (`Guided`), and every spot is read already or will be touched
by a step that is left (`AllGot`). What is new are steps that touch the same object: a case read through
a pointer is made the active one last, and no step that is left may be in two places at once
(`Apart`), or the second would undo what the first has read. `StepReading` has one lemma per overload.

`AllArrives` compares two objects. `Same` relates their spots: data of a case may be in the variant of one union and
behind a pointer of the other. `NodesAreSpots` says that the nodes `Contents` is made of are the spots written, and
`ReadIsWritten` that spots read are nodes of the object then. Down from the top, every part that sets something is
there to be read: an element because the sequence is as long (`ElementComesBack`), what is in an optional because it
exists (`SetsIsStored`), a case because it alone is selected and the tag it was written with leads back to it
(`CaseComesBack`, where `TagOfCase` is needed, as for `UnionsReadWhatWasWritten`). So everything that sets something is read
(`ComesBack`), sets something again (`SetsComeBack`), and has its value (`EntryComesBack`). `EverythingArrives`
follows.

`NothingElseArrives` goes the other way, and takes two invariants more. `Alone`: an instance that was blank holds only
what was written from the object, and sequences of the length the object has, but for the element `set_seq_length` may
leave (`OnlyWritten`). `Plain`: an optional of a fresh object is set only where the instance has the member. It is
needed because `get_member_value` does not reset an optional whose member is absent, and
is stated for every place of the object and not only those that are read, as case pointers come and go. Then a part that is in
the object was read as a part that was written, or lies where there may be more (`PartGoesBack`, `EverythingIsBack`); the case of a union
is where `Selected` matters: what it finds in the instance was written, so it is the case of the writer (`CaseWritten`). What
sets nothing when it was written sets nothing when it was read (`SetsGoBack`), so its value is 0 in both.
`NothingElseComesBack` follows. `Alone` and `Plain` speak of all spots and all objects: like `Typing`,
they are proved and not checked, only what follows from them is.

Only model-checked: `EventuallyTaken`, a liveness property under fairness, which is out of the prover's
reach; `CallbackHasReader` of `reader_calm`, which holds because of what that program does not do, and what holds of every
program is `DefectHasCause`; and the counterexamples.

## 6. Not modelled

* Compile-time code (traits, macros, member names): no state. What the traits tell apart is in
  `AdaptedTypes`.
* The contents of typecodes (names, labels, ids, dimensions, bounds): they depend on the type only.
* Members that are raw pointers: they are written like smart pointers and cannot be read.
* Copies of a `Sample`, and of objects with `shared_ptr` members, that have a pointee in common with
  another: `Conversion` gives every pointer its own. Copies and swaps of a whole `match::Union`, which are
  those of its members.
* The single accessors of `dd_extra.cxx`, each one call of the middleware; helpers that make text of return
  codes.
* What a container becomes when `get_member_info` fails (`dd_manip.h:810` ignores the return code): it
  depends on what the middleware left there.
* Assignments and moves of a `GenericDataReader`; the second constructor of `GenericDataReader`, which
  does not compile when instantiated and is taken to be the first with other QoS.
* Concurrent calls on one object other than those the middleware makes: nothing in the repository
  permits them.
* Text: names of types and members, error messages, `print` functions.
