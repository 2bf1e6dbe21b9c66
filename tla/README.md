# rust-cc in TLA+

A TLA+ development of rust-cc, a reference-counted smart pointer (`Cc`) with a
cycle collector for Rust. It models the pointer, the collection algorithm and
the program that uses them, checks small instances of the model with TLC, and
proves theorems about it, for every size of the instance, with TLAPS. Paths
below are relative to the repository root.

## The system

rust-cc is confined to one thread; there are no threads, messages or disks to
reason about. What makes it hard is *re-entrancy*. `Finalize::finalize` and the
destructors of values are code of the program that the library calls in the
middle of `Cc::drop` and of a collection. That code may create, clone, move,
upgrade and drop pointers, start another collection, or panic, and the library
must find its own state consistent when it goes on.

| Component | Source | State it keeps | Operations |
|---|---|---|---|
| Cc pointer | `src/cc.rs` | the pointers; per allocation (`CcBox`) the value and a `CounterMarker` | `new`, `clone`, `Drop::drop`, `try_unwrap`, `finalize_again`, `mark_alive` |
| Counter marker | `src/counter_marker.rs` | two 16-bit words: reference counter, finalized bit; tracing counter (its greatest value means *dropped*), mark, metadata bit | increment, decrement, reset, `mark`, `set_dropped`, ... |
| Cycle collector | `src/lib.rs`, `CcBox::trace` in `src/cc.rs` | `root_list`, `non_root_list`, `queue`, the running iteration | `collect_cycles`, `trigger_collection`, `trace_counting`, `trace_roots`, finalization, `deallocate_list` |
| Intrusive lists | `src/lists.rs` | `next`/`prev` of each `CcBox`, `first`, `last`, `size` | `add`, `remove`, `remove_first`, `swap_list`, `mark_self_and_append`, `poll` |
| State | `src/state.rs` | `collecting`, `finalizing`, `dropping`, allocated bytes, executions | the guards of `replace_state_field!`, `is_tracing` |
| Trace contract | `src/trace.rs`, `src/derives.rs`, `derive/` | the borrow flags of the `RefCell`s in a value | `Trace::trace` visits the pointers a value owns, `Finalize::finalize` the finalizers in it |
| Weak pointers | `src/weak/` | a metadata block with a 15-bit weak counter and an *accessible* bit | `downgrade`, `upgrade`, `strong_count`, `new_cyclic`, drop |
| Trigger configuration | `src/config.rs` | byte threshold, adjustment percent, buffer threshold | `should_collect`, `adjust` |
| Cleaners | `src/cleaners/` | a map of actions owned by a `Cleaner` | `register`, `clean`, drop |
| Utilities | `src/utils.rs` | none | `cc_alloc`, `cc_dealloc`, `ResetMarkDropGuard` |

How they interact. A `Cc` increments and decrements the counter of its `CcBox`
and, when it was not the last one, puts the box into `POSSIBLE_CYCLES`, the list
of candidates for garbage. `Cc::new` (through the trigger configuration) or the
program calls `collect`, which runs `__collect` up to ten times. Each run counts,
for everything reachable from the candidates, how many of its pointers are held
by traced values (`trace_counting`); objects with pointers elsewhere are roots,
and what a root owns is taken out again (`trace_roots`). What is left in
`non_root_list` is garbage: its finalizers run, and if any ran, everything goes
back to `POSSIBLE_CYCLES` for another look, because a finalizer may have stored a
pointer somewhere; if none ran, all values are dropped, then all memory is given
back. `Weak::upgrade` turns a weak pointer to a `Cc` while the value is neither
dropped nor in a list that is being dropped, which it finds out from the mark,
the tracing counter and `State::dropping`.

Which behaviours are hard, and what correct means for each part:

- *Cc pointer.* The counter is the number of pointers at every point where other
  code can look; a value is finalized before it is dropped, dropped once, and its
  memory outlives every pointer to it, including pointers owned by values that
  are dropped with it.
- *Collector.* Nothing the program can reach is dropped, whatever finalizers did
  between the decision and the act; garbage stays within sight of the collector
  and a program that keeps collecting gets rid of it; a collection ends.
- *Lists and marks.* The mark in the box tells which list the box is in. List
  operations trust it, so a stale mark corrupts a list; panics unwind through
  half-filled lists.
- *State.* The flags describe the call stack. They decide what `upgrade`,
  `try_unwrap`, `finalize_again` and `is_tracing` answer, so a flag that is wrong
  after a nested call or a panic misleads them all.
- *Weak pointers.* The metadata block lives as long as the value or a weak
  pointer; `upgrade` never revives a value whose destruction has begun.
- *Trigger.* A threshold that follows the allocated bytes without overflow or an
  endless loop, which on small words it does not (finding 2).
- *Trace.* A call visits each pointer of a value once, both calls of a tracing phase
  visit the same ones, and nothing moves under a call that walks over it.
- *Cleaners.* Each action runs at most once, when `clean` is called or when the
  `Cleaner` goes away, and also when it re-enters its own map.

`PROJECT.json` lists these dangers at their lines (`hazards`), with the
properties that would catch each of them going wrong.

## The modules

| Module | What it holds |
|---|---|
| `CcCollector` | the specification: Cc pointer, collector, call stack, program |
| `CcProperties` | what makes it correct |
| `CcInvariants` | the inductive invariant the proofs use |
| `MCCollector` | instances for TLC |
| `CcSafetyProof` | its types, call stack, flags, counters, marks and lists, and that only garbage is dropped: theorems and proofs |
| `CcGarbage` | what the collector promises, without lists, marks, counters and flags |
| `CcRefinement` | the mapping by which `CcCollector` implements it |
| `CcRefinementProof` | that it does, that no garbage is forgotten, and that the promise keeps users safe: theorems and proofs |
| `CcTrace` | the `Trace` and `Finalize` implementations of library types, `RefCell`s and derived types |
| `CcTraceProof` | what a tracing call visits, for values of any shape: theorems and proofs |
| `CcLists`, `CcSequences` | the intrusive lists, and the sequences they implement |
| `CcListsProof` | that they do, for any number of boxes: theorems and proofs |
| `CcMarker`, `CcFields` | the packed counter words, and the fields they implement |
| `CcMarkerProof` | that they do, for words of any width: theorems and proofs |
| `CcWeak` | weak pointers and their metadata |
| `CcWeakProof` | all its invariants, for every size: theorems and proofs |
| `CcTrigger` | when a collection starts by itself |
| `CcTriggerProof` | how `adjust` ends, for any numbers: theorems and proofs |
| `CcCleaners` | cleaners |
| `CcCleanersProof` | all its invariants, for any number of actions: theorems and proofs |
| `MCTrace`, `MCLists`, `MCMarker`, `MCWeak`, `MCTrigger`, `MCCleaners` | instances of these for TLC |

`CcCollector` is the whole system seen from the collection algorithm. The other
modules open what it treats as a box: `CcLists` its sets, `CcMarker` its counters
and marks, `CcWeak` the weak pointer behind `Upgrade`, `CcTrigger` the moment of
`CollectCycles`, `CcTrace` which pointers of a value are traced (`TracedFields`).
`CcCleaners` is a client of Cc, as in the code. Each leaves open
what another one decides (which object moves, when a value is garbage), so it
allows more than the code does and not less.

### CcCollector

*State.* A pointer is an identity (`Ccs`) with a place that holds it (`owner`) and
an allocation (`target`), so the reference counter can be compared with the
pointers that exist. `owner` is an object (the pointer is a field of its value),
`"program"` (a variable of the program), `"limbo"` (an argument of a running
`Cc::drop`, out of reach for the program) or `"nowhere"`. `status`, `counter`,
`tracing`, `mark` and `finalized` are the `CcBox`; `pc`, `pcSize`, `rootList`,
`nonRootList` and `queue` the lists; `collecting`, `finalizing` and `dropping` the
`State`. `phase`, `round`, `current`, `todo`, `work`, `listSize` and
`hasFinalized` are the local variables of `collect`, `__collect` and the tracing
functions. `stack` is the Rust call stack, reduced to the frames at which code of
the program can run or a panic can pass: a running `collect`, a finalizer called
by `Cc::drop` (`finalizeCc`) or by the collector (`finalizeList`), and the drop
glue of a value dropped by `Cc::drop` (`dropCc`) or by `deallocate_list`
(`dropList`). Each frame holds the flag its guard will restore (`saved`).

*Actions.* One per operation of the program (`New`, `Clone`, `Upgrade`, `Store`,
`Take`, `MarkAlive`, `TryUnwrap`, `FinalizeAgain`, `CollectCycles`), four for the
ways `Cc::drop` can go (`DropListed`, `DropShared`, `DropFinalize`, `DropLast`),
one for the return of each kind of frame, and the collector split at the points
where code of the program gets a turn and at each traced pointer. The program's
actions are enabled whenever its code runs (`UserRunning`): at top level, in
finalizers and in destructors; during drop glue the fields left are dropped
(`CcDrop` on a pointer owned by the top frame's object). The constant `UserOps`
says which operations the program uses, so that an instance may leave some out.

*Panics.* `UserPanic` may happen in any code of the program inside a call of the
library and stands for operations that panic too (a full counter, for instance);
`TracePanic` happens in a `Trace` implementation. `UnwindFinalizer`,
`UnwindDropGlue` and `UnwindCollect` are the guards and destructors that run
while the panic passes; `Catch` is `catch_unwind`. A second panic during
unwinding aborts the process and is left out.

*What is abstracted.* Lists are sets and "the first element" is any element, so
every order is explored. A value is one `RefCell` (`borrowed`: while the program
holds a guard, or has leaked it, `TracedFields` is empty) beside fields that `Trace`
never visits (`Untraced`); `CcTrace` looks inside. The packing of the `CounterMarker`, the `next`/`prev`
pointers, the byte counts and the weak counter are
left to modules of their own. `Upgrade` stands for a program that keeps a weak pointer to every
allocation. A collection started by `Cc::new` is `CollectCycles` followed by
`New`: the trigger may fire or not at any time.

What the program can reach is `Accessible`: the closure of the pointers it holds,
and of the value a running finalizer was given. A destructor gets `&mut self`, and
its fields are still Ccs, but the properties do not count it as accessible, since
the value is being dropped.

### CcGarbage and CcRefinement

`CcGarbage` is what a user may rely on. A value is `absent`, `live`, `doomed` or
`dropped`; a pointer has a place and a target; `selves` are the objects whose
finalizer runs. `Finalize` needs a live value that was not finalized, `Doom` a set of
finalized values to which only members of the set point and of which none is its own
running finalizer, `Drop` a doomed value, `Destroy` the last pointer, and `Free`
values no pointer points to. Copies (`clone`, `upgrade`) are of live values, never of
doomed ones. Panics need no action: a call that unwinds did some of its steps.

The mapping reads `doomed` off two places: a live object with the reserved tracing
counter, or one in `non_root_list` while `deallocate_list` runs. A pointer in a call
of `Cc::drop` is nobody's. Most steps of the collector stutter: counting, root
tracing and moves between lists are invisible; what shows is that the decision is
right when it is taken, though it was computed many steps before, and that no
upgrade, finalizer, nested collection or panic undoes it. `ImplementsGarbage` is the
property; it contains "finalized before dropped", "dropped once" and "no dangling
pointer", which need no run of their own.

### CcTrace

A value is a tree. Each node is a `Cc`, a leaf that traces nothing, a `RefCell`, a
type that forwards `trace` and `finalize` to its content (`Box`, `Option`, `Vec`,
tuples, `NewCyclicWrapper`, ...) or a struct with `derive(Trace)` and a finalizer of
the program. `agenda` is the call stack of `trace` and `finalize`: nodes still to be
visited, borrows to be given back, and finalizers that run. `flag` is the borrow flag
of a cell, `guards` what the program holds of it. `phase`, `traced` and `earlier` are
the collector's two calls of one tracing phase. The program borrows cells along a
path on which every cell is borrowed (`Around`), as its guards' lifetimes ask, and takes things
out of groups or puts them in through a mutable guard; it does so before a
collection, between collections, and in finalizers, which may start one. A `Cc` below
an ignored field, or in a borrowed cell, is owned but not visited.
A finalizer that calls `finalize` on its fields by hand behaves as a group and is
left out. `PhantomData`, `Weak`, `Cleaner` and `Cleanable` are leaves: their
implementations are empty.

### CcLists and CcSequences

`mem` holds `next`, `prev` and the mark of every `CcBox`, and `first`, `last` and
`size` of the lists; the operations of `lists.rs` are operators from one memory to
the next. When the thread ends (`EndThread`) the buffer is dropped; afterwards the
program's other thread-local values may still drop pointers, which unlink by the
mark, but nothing is buffered and nothing collected. `cursor` is the iterator over `non_root_list`, and `current` the object
that is traced, which is marked `InQueue` though it is in no list. The actions are
the calls of these operations: `add_to_list`, `remove_from_list` and the last
`Cc::drop` by the program, also in the middle of an iteration that calls a
finalizer or destructor; and the phases of `__collect`. `CcSequences` says the same
of sequences: add in front, take out, append, iterate. The refinement mapping walks
the links. While `deallocate_list` frees the elements, the list is what is left of
the walk.

### CcMarker and CcFields

Three words. The parameter is `Unit`, the bit above the counter, a power of two that is
2^14 in the code, where all masks are computed from `u16::BITS`; the counter is below it, two bits are
above, and masking is written with remainders and quotients. `CcFields` is the
record of independent fields that the diagrams in the code promise. An operation
that has a `debug_assert!` on the reserved value has it as its guard: that the
collector never calls it on a dropped value is `CcCollector`'s (`DroppedTc`).

### CcWeak

Memory is reused: `Objects` and `Metas` are places. `box`, `meta`, `builder`, `held`
and `cyclic` are the `CcBox`, with pointers counted by who holds them; `metaAlloc`,
`weakCount` and `accessible` the metadata; `weakMeta` and `weakBox` the two addresses a
`Weak` keeps, `None` and `Dangling` for one made by `Weak::new`. `NewCyclic`, `EndNewCyclic` and `PanicNewCyclic` are the parts of
`new_cyclic` around its closure, during which the program may do anything.
`DeallocateList` dooms any boxes the program holds no pointer to; the drop glue
that follows runs code of the program between its steps.

### CcTrigger

The configuration, the bytes of `State`, and the two loops of `Config::adjust` one
iteration at a time, with arithmetic modulo `Modulus`, which is 2^bits of `usize`.
One byte stands for one block. `borrowed` is a closure running in `config()`, which
may create Ccs and collect: both then find the configuration borrowed.

The comment at `src/config.rs:81` calls `bytes_threshold * adjustment_percent <
allocated_bytes < bytes_threshold` an invariant of `Config`. The code keeps less, and
`AdjustedOK` says what. The upper half holds when `adjust` returns, not between
collections, where it is how one is triggered. The lower half is ensured when `adjust` returns only where
the threshold is neither at its default, which it never goes under (a new `Config` has it with
nothing allocated), nor so close to the allocated bytes that half of it would not exceed
them, and the percentage is not 0.

### CcCleaners

The map is a `Cc` that the `Cleaner` and each running `clean` hold. `stack` is the
call stack: actions run in `clean` and in the drop glue of the map, may register and
clean, drop the `Cleaner`, and panic. The memory of the map is leaked if an action panics in
that drop glue, for the panic leaves `Cc::drop`; it is given back if the map goes with the
last `clean` while that unwinds, for then `Cc::drop` itself returns. `Reentrant` says whether the collection that
the first `register` may start runs finalizers that use the same `Cleaner`.

*Fault definitions.* `X_Fault` is `X` with a plausible mistake (a missing reset, a
dropped condition). They are there to show that each property can fail: replacing
`X` by `X_Fault` makes TLC find a violation in the run that checks the property.

## What is checked

All instances of `CcCollector` have `MaxCount = 3` where the code has 16382 and `MaxRounds = 2`
where it has 10. With at most four pointers a counter of 3 is both reachable and
exceeded, so the limit is met. Two rounds are the least in which finalizers run
in the first and values are dropped in the second; what a round leaves in the
buffer the next collection takes up, so a third adds no new behaviour. Two objects
are the least that form a cycle beside a self-cycle, and three give a cycle with a
root or a tail; four pointers allow a cycle of two with one pointer outside and
one to spare. Objects and Ccs are interchangeable, which the runs of invariants use as
symmetry. Deadlock is checked in these runs: the program can always do something,
in particular at top level it can collect.

`core_reentrant` goes no further from a state in which a buffered object has a stale
tracing counter (the constraint `NothingStale`, which is `BufferedIsReset`). Only a
panic in `Trace` makes one, and what can follow is the finding `trace_panic_reuse`; the
constraint leaves in every panic, its unwinding, and all later collections that do not
meet such an object. `core_graphs` checks `BufferedIsReset` as an invariant, without
those panics: it is about counts left by phases that end, `trace_panic_reuse` about those
a panic leaves.

Trace: the two values have a cell in a cell, behind a struct with a finalizer, beside
one under a group, and an ignored pointer; a group holds at most three nodes, so that
everything movable fits in one. Guards of the program and of a running finalizer can
meet on each cell.

Lists: four boxes are the least with an element in the middle of a list and one in
another. Words: a counter of three bits (`Unit = 8`) has all boundaries (zero, limit, reserved
value, carry), and all values of all words are reached. Weak pointers: two boxes, of
which one can take the place the other left, three metadata blocks and four weak
pointers, where the weak limit of 3 is met; strong counts of two tell shared from
unique. Deadlock is not checked there, because boxes whose destructor panicked are
never given back, and memory may be used up. Trigger: a default of 3 and 14 bytes
allow two doublings and as many halvings, for percentages 0, 10, 50 and 100; in
`trigger` the word is wide enough for every threshold that is reached. `trigger_overflow` has words
of four bits and the same default: 3 doubled twice is the last threshold below 2^4, and 13
bytes exceed it, as with 32 bits 100 doubled 25 times is the last one below 2^32. Cleaners:
three actions, so that one can panic between two others; each runs once, so nothing
else needs a bound. The program may stop when the `Cleaner` is gone, so deadlock is
not checked.

| Run | Instance | Shows |
|---|---|---|
| `core_reentrant` | 2 objects, 4 pointers, all operations, borrows, destructors, panics everywhere | `TypeOK`, `CollectorInv`, `CounterExact`, `AccessibleIsLive`, `MarksMatchLists`, `FlagsMatchStack`, `IsTracingTells`, `ImplementsGarbage` |
| `core_graphs` | 3 objects, 4 pointers of which `Trace` never visits one, clone, upgrade and `mark_alive` | the algorithm on every graph: `ListedIsLive`, `TracingExact`, `BufferedIsReset`, `DoomedIsUnreachable`, `GarbageIsBuffered`, `CollectionAdvances` |
| `core_liveness` | 2 objects, 3 pointers, upgrade and borrows, fairness | `CollectionEnds`, `GarbageIsReclaimed` |
| `trace_panic_reuse` | 2 objects, 4 pointers, panics in `Trace` | a violation, see Findings |
| `trace` | two values of 11 nodes with nested cells | `TraceExact`, `SameInPhase`, `VisitedStays` |
| `lists` | 4 boxes, the end of the thread | `LinksOK`, `MarkTellsList`, `ListsDisjoint` and `ListsImplementSequences` |
| `marker` | counters of 3 bits | `DroppedIsTold` and `FieldsAreIndependent` |
| `weak` | 2 boxes, 3 metadata blocks, 4 weak pointers | `WeakCountExact`, `MetadataLives`, `AccessibleTellsBox`, `PtrEqTellsBox`, `HeldIsLive` |
| `trigger` | wide words, 14 bytes, 4 percentages | `AdjustSettles`, `GrowthBetweenCollections` |
| `trigger_overflow` | words of 4 bits, 13 bytes, fairness | a violation of `AdjustEnds`, see Findings |
| `cleaners` | 3 actions, panics, fairness | `RunOnce`, `BorrowIsSafe`, `StrongExact`, `ActionsAreRun` |
| `cleaners_reference` | 2 actions, finalizers that register | a violation, see Findings |

The properties, in the order of their depth:

- `AccessibleIsLive`: nothing the program can reach was dropped or freed. This is
  soundness of the collector and of `Weak::upgrade` together.
- `CollectionAdvances`: what a collection has still to do only ever gets less. It is ordered by
  the round, the phase, the objects not reached yet (`Unreached`), those that wait (`Waiting`),
  the object being traced and the pointers of it still to trace (`Advances`); every step of the
  collector takes it down in that order, and no step of a finalizer, of a destructor or of a panic
  that stays inside changes it. The sets are finite and the rounds bounded, so only a callback
  that does not return can keep a collection from ending: `CollectionEnds` without the fairness.
- `DoomedIsUnreachable`: once no finalizer ran in a round, only members of
  `non_root_list` point into it, up to the end of `deallocate_list`.
- `ImplementsGarbage`: `CcCollector` implements `CcGarbage`. The life of every value,
  from finalizer to decision, destructor and memory, through nested drops,
  resurrection and panics, as a relation between each state and the next.
- `CounterExact`: the counter is the number of pointers.
- `GarbageIsBuffered`: every garbage object is in a list of the collector or owned
  by one that is. It is the safety half of `GarbageIsReclaimed`.
- `TracingExact`, `BufferedIsReset`: the tracing counter counts what it should.
- `MarksMatchLists`, `ListedIsLive`, `FlagsMatchStack`: consistency of
  the library's own bookkeeping. `CollectorInv` is the inductive invariant of the proofs.
  `IsTracingTells`: what `State::is_tracing` makes of the flags, and when it is wrong.
- `TraceExact`, `SameInPhase`: what the collector takes for granted of `Trace` holds of
  the implementations the library and its macros provide, whatever is borrowed,
  ignored or panics. `TraceExact` asks which guards exist, not what the borrow flags say, so
  a borrow that a panic leaves over, after which a cell is never traced again, violates
  it (mutant `Unwind_Fault`). `VisitedStays`: no finalizer changes what a `finalize` or `trace`
  call further out is walking over.
- `ListsImplementSequences`, `FieldsAreIndependent`: the two data structures do what
  `CcCollector` takes for granted, whatever the order of calls.
- `HeldIsLive`, `AccessibleTellsBox`, `MetadataLives`, `WeakCountExact`: a weak pointer
  never revives a doomed value, an unwritten one, or a stranger in the same memory;
  its metadata is neither leaked nor used after it was given back. `PtrEqTellsBox`:
  `ptr_eq` is not deceived by memory that is used again.
- `ActionsAreRun`, `RunOnce`, `StrongExact`, `BorrowIsSafe`: every action runs, once,
  whichever way actions nest and panic.
- `AdjustSettles`, `GrowthBetweenCollections`: where `adjust` ends, the threshold is above
  what is allocated, as low as configured, so that a collection that allocation
  starts is preceded by growth. `AdjustEnds`, that it does end, is what `trigger_overflow` refutes.

*Fairness.* `WF_vars(CollectorStep)` and `WF_vars(UnwindStep)`: the library does not
block, so once called it goes on. `SF_vars(Len(stack) = n /\ (GlueStep \/
UserReturn))` for each depth `n`: each finalizer and destructor returns
eventually, whatever it does before; strong, because calls it makes in between
disable the step. `CollectingSpec` adds `SF_vars(CollectCycles)`: the program
calls `collect_cycles` again and again, without which buffered garbage may stay
for ever by design. Nothing is assumed of the other operations of the program.
In `CcTrigger`, `WF_vars(Raise \/ Lower)`: a loop goes on; the counterexample of
`trigger_overflow` ends in a state that `Raise` does not change, a threshold of 0, so an
endless loop shows as stuttering. In `CcCleaners`,
`WF_vars(Return)` for the library and unwinding, and `SF_vars(EndAction)`: an action does
not panic and catch the panic for ever.

## Findings

1. *A panic in `Trace` may free a reachable object* (`trace_panic_reuse`).
   `CcBox::trace` (`src/cc.rs:637`) increments the tracing counter of an object that
   is still in `POSSIBLE_CYCLES`. If a later `trace` of that phase panics, the object
   stays buffered with a counter above zero: only the running object, the lists and
   the queue are reset by the unwinding. The next collection takes the object from
   the buffer, trusts that "the tracing counter has already been reset by
   add_to_list" (`src/lib.rs:448`) and counts its pointer a second time, which may
   make up for a pointer the program holds: the object is dropped while it is
   reachable. `src/trace.rs:94` allows `Trace` implementations to panic ("It's always
   safe to panic."). As long as no such counter is met, panics in `Trace` are safe
   (`core_reentrant`).
2. *Doubling the threshold may never end* (`trigger_overflow`). The documentation says
   that a threshold which is too low "is doubled until it exceed" the allocated bytes
   (`src/config.rs:14`). `checked_shl(1)` (`src/config.rs:183`) fails when the shift amount
   is too large, not when bits are lost. The threshold, 100 doubled some times, wraps
   and becomes 0, and doubling 0 exceeds nothing: `adjust` loops for ever. It needs
   100 * 2^25 allocated bytes, about 3.1 GiB, with a 32-bit `usize`, and is out of reach
   with 64 bits. Where less than half of the address space is allocated (`2 * MaxBytes <
   Modulus`) no bit is lost (`TriggerTypes`).
3. *Two mutable references in `register`* (`cleaners_reference`). `src/cleaners/mod.rs:89`
   says that there is no other reference to the `Option`; but `get_or_insert_with` calls
   `Cc::new`, which may collect, and a finalizer may call `register` on the same `Cleaner`.

Three smaller observations have no run of their own:

- *`is_tracing` is false while the collector traces, if* the collection was started inside
  a finalizer or destructor run by `Cc::drop`: it finds `finalizing` or `dropping` set by
  the outer call, so `State::is_tracing` (`src/state.rs:140`), which asks for neither,
  answers false during its tracing phases, against its own comment
  (`src/state.rs:179`) and `src/trace.rs:99`. `IsTracingTells` says that this is the only
  case in which it is wrong, and that it is never true for code that does not trace.
- `src/config.rs:16` says that the threshold is halved if the allocated bytes *exceed*
  the percentage of it; the code halves it while they do not. The comment at
  `src/config.rs:81` claims more than the code keeps (see CcTrigger above).
- An action that calls `clean` on another `Cleanable` of its `Cleaner` finds the map
  borrowed, which `src/cleaners/mod.rs:155` says "Should never happen", and the other
  action is not run then (it is when the `Cleaner` is dropped).

## What is proved

The theorems below hold for every value of the constants that the assumptions allow:
for every finite set of objects and pointers, every `MaxCount >= 1` and `MaxRounds`, every
choice of `UserOps` and of untraced pointers in `CcCollector`; every finite set of Weaks,
any boxes, blocks and limits in `CcWeak`; every finite set of boxes in `CcLists`; every finite
tree of nodes of any kinds in `CcTrace`; any number
of actions in `CcCleaners`; any numbers in `CcTrigger`; any width of the words in `CcMarker`.

| Module | Theorem | Statement |
|---|---|---|
| `CcSafetyProof` | `TypeCorrect`, `StackCorrect`, `FlagsCorrect`, `IsTracingCorrect` | `Spec => []TypeOK`, `[]StackInv`, `[]FlagsMatchStack`, `[]IsTracingTells` |
| | `CollectorInvariant` | `Spec /\ []BufferedIsReset => [](TypeOK /\ CollectorInv)` |
| | `CounterCorrect`, `MarksCorrect`, `TracingCorrect`, `ListedCorrect`, `DoomedCorrect`, `AccessibleCorrect` | the same hypotheses give `CounterExact`, `MarksMatchLists`, `TracingExact`, `ListedIsLive`, `DoomedIsUnreachable`, `AccessibleIsLive` |
| | `ResetCorrect` | `Spec => []BufferedIsReset`, if `Trace` does not panic |
| | `ProgramIsSafe` | safety with no hypothesis but that |
| | `CollectionProgresses`, `ProgramProgresses` | `Spec /\ []BufferedIsReset => CollectionAdvances`; without the hypothesis if `Trace` does not panic |
| `CcRefinementProof` | `GarbageImplemented`, `ProgramImplementsGarbage` | `Spec /\ []BufferedIsReset => ImplementsGarbage`; without the hypothesis if `Trace` does not panic |
| | `NothingLeaks`, `CalmProgramsDoNotLeak` | `[]GarbageIsBuffered`, as long as no panic leaves a collection |
| | `GarbageSafe` | `Spec => [](AccessibleIsLive /\ NoDangling)` of the abstract specification |
| `CcWeakProof` | `WeakTypes`, `MetadataSafe`, `WeakCounts`, `AccessibleSafe`, `PtrEqSafe`, `UpgradeSafe` | every invariant of the run `weak` |
| `CcListsProof` | `ListsSound` | `Spec => []ListsInv`, the inductive invariant |
| | `ListsTyped`, `LinksSound`, `MarksSound`, `DisjointSound`, `ListsImplement` | every property of the run `lists` |
| `CcTraceProof` | `Visited_Stays`, `Trace_Exact`, `Same_In_Phase` | every property of the run `trace` |
| `CcMarkerProof` | `WordsTypes`, `DroppedCorrect`, `WordsImplementFields` | every property of the run `marker` |
| `CcCleanersProof` | `CleanersTypes`, `ActionsRunOnce`, `BorrowSafe`, `StrongCorrect` | `TypeOK`, and every invariant of the run `cleaners` |
| `CcTriggerProof` | `AdjustCorrect`, `GrowthCorrect` | `AdjustSettles`, `GrowthBetweenCollections` |
| | `ThresholdFloor`, `TriggerTypes` | the threshold never goes under the default, and `TypeOK`: it is the default doubled some times; both if `2 * MaxBytes < Modulus` |

### The call stack (`CcSafetyProof`)

`TypeOK` is less shallow than it looks: that a list or a counter holds what it should
depends on every pointer that is dropped, traced or upgraded having an allocation.
`FlagsMatchStack` is not inductive: to know that a guard restores the right value one
must know what it saved, and that the frames below have not changed. `StackInv` has three
parts. `PlacesOK` says where pointers are: a pointer that exists has an allocation, those
that wait to be traced belong to the traced value, and the pointer of a pending `Cc::drop`
is in limbo with an allocation the frame names, and in one frame only. `CollectFrames` says
that there is one `collect` on the stack at most, nothing is above it in a tracing phase,
and a finalizer or destructor it called is right above it. `FlagsOK` says that each guard
saved the value its flag has by the frames below, and that each flag has the value it has
by the whole stack. `TypeOK` is preserved given `PlacesOK` (one lemma for each group of
actions); `PlacesOK` is preserved given `TypeOK` and `CollectFrames`. For the other two,
the module first shows that a step changes one end of the stack only (`KeepsBelow`) and what
follows from that (`CollectFramesStep`, `FlagsStep`), then goes through the ways a stack
changes (`StackStays`, `FramePushed`, `FramePopped`, `FrameReplaced`, ...), and last
through the actions, each of which is one of them.

### Only garbage is dropped (`CcSafetyProof`)

The invariant is `CollectorInv`, in `CcInvariants`: `StackInv`, `SafeInv` and `FinalizersOK`.
An object is `Gone` when its value was dropped or is decided to be: it has the reserved
tracing counter, or it is in `non_root_list` while that is dropped.

- `GoneOK` is the centre: what leads to a value that is gone is gone itself, so what is
  accessible, which starts at pointers of the program and finalizers' values, is not.
  Decided values are closed among themselves, and freed ones have no pointer left.
- The counter decides what is unreachable, so `CounterExact` and, in a tracing phase,
  `TracingExact` are part of the induction. When tracing has counted all pointers to every
  object of `non_root_list`, each was traced from an object in a list, and when root
  tracing ends no such object is outside `non_root_list`. `TracingOK` says that for
  every moment in between: a pointer to a member comes from something root tracing still has
  to visit, or is among the pointers it visits now.
- `NonRootOK` carries the result through the finalizers: as long as none ran, nobody else
  points to `non_root_list`; once one ran, `hasFinalized` is set and nothing is dropped. `PhaseOK`
  says so of the counting of `finalize_inner`, and which lists are empty in which phase.
- `FramesFit` and `GlueEmpties` are about destructors that are running: a value dropped by
  `Cc::drop` has no pointer to it and its glue runs once; a dropped member of
  `non_root_list` owns a pointer only while its glue runs. The memory of the list can then
  be given back.
- `ListsOK` and `MarksMatchLists` say which list holds what: `Cc::drop`, `upgrade` and
  tracing decide by the mark, so a wrong mark would break all of the above.
- `FinalizersOK`: a value that is dropped or decided was finalized, and its finalizer runs
  once at a time. The refinement needs it.

One lemma for each action shows that it preserves the parts it can disturb. The lemmas on
counting say what a step does to the set of pointers to an object (`CcsCount`, `TracedCount`
and the ones that follow), from the library's theorems on finite sets.

The hypothesis `[]BufferedIsReset` says that no tracing counter of a buffered object is stale when
a round starts. It is not idle: a panic in `Trace` breaks it, and then a reachable object can be
dropped (finding 1). `ResetCorrect` proves it for every program whose `Trace`
implementations do not panic, whatever else panics, so that `ProgramIsSafe` has no
hypothesis on the behaviour at all. TLC checks `CollectorInv` in `core_reentrant`, on the
states the hypothesis allows (constraint `NothingStale`).

### A collection ends (`CcSafetyProof`)

`CollectionAdvances` follows from `CollectorInv` step by step. That an object is reached once in
`trace_counting` takes `MarksMatchLists` (an object of a list is not `NonMarked`, and the one
that is traced is marked as queued); that `trace_roots` takes an object out of `non_root_list` once
takes `TracingOK` too: what is marked as listed and has all its pointers traced is in that list and
is no root. Where a tracing counter is stale that is not so, hence the hypothesis. A step of
the program happens in no tracing phase and leaves `loopVars` alone (`OthersAdvance`).

### The refinement, and leaks (`CcRefinementProof`)

`GarbageImplemented` goes through the actions: each is a step of `CcGarbage` (`New` and
`Clone` of a live value, `Finalize`, `Doom` when `deallocate_list` or the last `Cc::drop` begins,
`Drop`, `Free`) or does not change the abstract variables. The step that needs the most is
`Doom`: that `non_root_list` is closed, finalized and in no running finalizer is what
`NonRootOK`, `FinalizersOK` and `FramesFit` are for. The last section of the module shows that whatever implements
`CcGarbage` is safe (`GarbageSafe`), which is why the refinement is the right thing to ask. Its
invariant, `GoneStaysGone`, says that only objects that are not live own pointers to such objects,
and neither the program nor a running finalizer has one; `Doom` establishes it by its guard,
`Move` keeps it because pointers move between accessible places only.

`NothingLeaks` is the converse of safety: an object that nothing keeps alive is in a list of
the collector or owned, over any number of pointers, by one that is, so a later collection
meets it. Reachability is a closure, and the proof does not compute it: an object is garbage
iff it is in no set that is closed under what can lead to it and avoids what keeps alive, so the proof carries such
sets (`Cover`) over a step and shows that each stays one, or becomes one when the objects the
step touched are added. A pointer dropped by `Cc::drop` puts its object into the buffer, so what
loses its last way to the program gets one from there. For `trace_roots`, which takes
objects out of the lists, it needs `RootsFound`: garbage is all in `non_root_list` by then. The
hypothesis `[][~UnwindCollect]_vars` says that no panic leaves a collection; it is needed, as
TLC shows on two objects, because an unwound collection drops its lists and the objects in
them are in no buffer. `CalmProgramsDoNotLeak` states it for programs that do not panic.

### The lists (`CcListsProof`)

`CcLists` reads a list by walking its links (`Follow`, `Walk`), and the collector empties
one in a loop (`DropList`): recursive functions of the number of steps. Their values are
proved by induction on numbers, which the module derives from the library's
theorem that strict inclusion of finite sets is well founded (`LeastNumber`, `Induction`):
it needs no operator as a parameter. `FollowTells` and `WalkTells` say that a walk
over the links of a sequence of distinct boxes yields the sequence, `DropListLinked` that
the removal loop, panics aside, leaves every box of the list unmarked and unlinked.

From there on the proof is about sequences. `ListsInv` says that *some* sequences of
distinct boxes, one for each list, have the shape the memory has: `next` and
`prev` of each element, `first`, `last` and the sizes are those of the sequences, and boxes in no
list have no links (`Linked`); marks tell the list (`MarksTell`); and which lists are in use in
which phase, what is left of an iteration is an end of `non_root_list`, and its size was
counted right (`Pace`). While `deallocate_list` frees what it walks over, only the elements
that are left know each other (`Linkage`, `Forgotten`). Each operation of `lists.rs` has a
lemma that gives the sequences after it (`AddFirstLinked`, `UnlinkLinked`, `PollLinked`,
`EnqueueLinked`, `SwapLinked`, `JoinLinked`, ...), each action one (`...Keeps`), and the step
lemmas (`AddStep`, `TakeStep`, `MoveStep`, ...) say which step of `CcSequences` that is. So
`LinksOK`, `MarkTellsList`, `ListsDisjoint` and the refinement follow from one invariant.

### What is traced (`CcTraceProof`)

`From(n, more)` is computed in as many rounds as there are nodes. `FromLeast` shows that this
is the least set that contains `n` and is closed under the edges, so closed sets prove what is
not in it and the module never looks at rounds again. A value is a tree (`IsOwned`): two of its
nodes are one inside the other or have nothing in common (`Comparable`), and what an action
takes out or puts in leaves a tree (`DetachedTree`, `AttachedTree`). This is where Rust's
ownership enters the proof.

`VisitedStays` needs to know how calls and borrows hang together: `CallsInv`. `Placed` says that
what a call has still to do lies inside the value, and that each cell around it is borrowed by that
call, which will give it back later. `Apart` says that nothing else a call has to do lies inside a node it has to
visit, and that it gives no borrow back twice; `Nested`, that a `trace` is never interrupted and
that only the innermost `finalize` has a finalizer running. `FlagsTell` is the link to the cells: a flag is -1
while a mutable guard or a `trace` has the cell, never both, and else it is the number of its
borrowers, a shared guard and a `finalize` at most. So a cell that a `finalize` has borrowed is not lent
for mutation, by any finalizer, and this is what a visit relies on. The proof has one lemma for each shape a
step can have (`PopStep`, `VisitStep`, `RunStep`, `CellStep`, `ReleaseStep`, `UnwindStep`), and the
actions cite them.

`TraceExact` and `SameInPhase` follow from `TracedInv`. In the order in which the parts of a value are
written down (`Before`), the Ccs visited so far ascend and come before every
node still to be visited, and these ascend as well (`Ordered`): so none is visited twice. The Ccs
visited so far, with those found from the nodes still to be visited, are the ones found from the root
(`Covers`). What is found leaves out ignored fields and `Shut` cells, which are borrowed by something
else than this call; during a call of `trace` no code of the program runs, so that set and the value
stay as they are until the call returns or panics. Both calls of a phase thus enumerate the same set in
the same order, and a call that has not returned is at a prefix (`PrefixTells`). That the ascending
order is one, no node being before itself, is again due to the tree (`BeforeOnce`).

### The other modules

*`CcWeakProof`.* The inductive invariant has three parts besides `TypeOK`. `MetaInv` relates Weaks, metadata and boxes:
no two boxes share a block, the accessible bit says whether a box still has the block,
Weaks to one block point to one box, and it is the box that has the block, if one does.
Without the last two, `AccessibleTellsBox` could be lost when the memory of a
box is used for another one. `BoxInv` ties counters to the life of a box: a free
box has no Cc and no metadata, one with a Cc in a value was not given back, and the list
being dropped or freed holds what its phase allows; from it `UpgradeIsLive` follows,
which is what `strong_count` has to ensure. `BuilderInv` says that the Weak `new_cyclic`
lends is on the metadata of the box it builds, so that its `PanicGuard` and the drop of the
Weak do not give the same block back twice. `AttachInv`, `ReleaseInv` and `DropMetadataInv` show that the three
helpers preserve `MetaInv`, counting with the theorems on finite sets, and the steps
cite them.

*`CcMarkerProof`.* A word is `c + b * Unit` with a counter `c` below `Unit` and `b` for the bits
above, and these are unique (`Division`). Each operation is shown to change one of them, from
what quotients and remainders by `Unit` are; the fields of `CcFields` are read off them. The
invariant adds that the reference counter never reaches the reserved value, which is what
keeps an increment from carrying into the bits above it.

*`CcTriggerProof`.* While `adjust` raises, the threshold is not above what is allocated, and while it lowers,
it is (`RightCase`); outside of `adjust` it is above what was allocated when `adjust` last ended
(`SettledUnder`), so a collection that bytes start was preceded by growth.
Both hold for words of any width: a shift that loses its highest bit makes `adjust`
go on, not end wrong. `ThresholdFloor` and `TriggerTypes` need a width at which no bit is lost.
`DoubledTells` is by induction on the number of doublings, derived as in `CcListsProof`; that the
default doubled `k` times exceeds `k` bounds their number by `MaxBytes`.

*`CcCleanersProof`.* `StrongExact` is not inductive; the invariant says who holds the map
(`HoldersOfMap`): the `Cleaner` and the one `clean` that borrows it, for there is one at
most (`OneClean`). A `register` that creates the map has the `Cleaner` borrowed, which so cannot
go away meanwhile (`RegisterHoldsCleaner`), and where there is no map nothing is
registered (`NothingWithoutMap`).

### Assumptions on the constants

They are stated where the constants are, and TLC evaluates them in the runs.
`CcCollector`: `Untraced` is a set of Ccs, `MaxCount >= 1` and `MaxRounds` are naturals, the
sets are finite, and the names of places are no objects; `CcRefinement` adds one more such
name (`NobodyAssumption`). `CcWeak`: the set of Weaks is finite, `None` and
`Dangling` are no addresses and differ, and the limits are positive. `CcLists`: `None` is no box (`NoneAssumption`), and the
boxes are finitely many (`FiniteAssumption`). `CcMarker`: `Unit` is a power of
two, at least 4 (`UnitAssumption`). `CcTrigger`: the default is positive, and the numbers are
naturals that fit the word (`ConstantsAssumption`). `CcCleaners`: `Reentrant` is a Boolean.
`CcTrace`: the nodes are finitely many and one is the root (`NodesAssumption`), each has a kind, and the
values the program starts with are owned trees (`ValuesAssumption`), which the borrow checker
ensures: a node is in one place, not inside itself, and Ccs and leaves have no parts.

### Model-checked only

- *Liveness*: `CollectionEnds`, `GarbageIsReclaimed`, `ActionsAreRun`, and that `AdjustEnds` fails. Fairness is
  out of the reach of the prover. Of `CollectionEnds` the part that does not depend on fairness is
  proved, as `CollectionAdvances`.
- `GarbageIsBuffered` for programs that panic outside of a collection only is covered by
  `NothingLeaks`; with panics that leave a collection it does not hold.

## The plan

In this order; each step adds its runs and, where stated, its theorems.

1. *Done.* `CcCollector`, its properties and runs; types, call stack and flags proved.
2. *Done.* `CcLists`, `CcMarker`, `CcWeak`, `CcTrigger` and `CcCleaners`, checked.
3. *Done.* `CcGarbage`, `CcRefinement`, and the safety of the abstract specification proved.
   `CcTrace`; borrowed cells in `CcCollector`; the end of the thread in `CcLists`;
   `Weak::new` and `ptr_eq` in `CcWeak`, and all invariants of `CcWeak` proved.
4. *Done.* Proofs about the small modules: `CcMarkerProof`, `CcCleanersProof`, `CcTriggerProof`.
5. *Done.* Proofs about `CcCollector`: its counters, marks and lists, that only garbage is
   dropped, that it implements `CcGarbage`, and that nothing leaks.
6. *Done.* Proofs about `CcLists`: its invariants, and that it implements `CcSequences`.
7. *Done.* Proofs about `CcTrace`: that the borrow flags are what the agenda says
   (`VisitedStays`), then what a tracing call visits.

## What is not modelled

The vtables for erased types, layouts, formatting and comparison, which change no
state; the errors the derive macro reports, and the empty `Drop` it generates to keep
programs from writing one; `no_std` thread-local access, and a `STATE` that cannot be
accessed (`state` panics then and `try_state` returns an error: `State` has no destructor
that would end it before other thread-local values); builds without the features
`finalization` and `weak-ptrs`. `f64` arithmetic in `adjust` is exact in the model. What
follows two mutable references to the map of a `Cleaner` is undefined and not
modelled.
