# Specifications of slice_deque

`slice_deque` is a double-ended queue whose elements are always one contiguous
slice. It stores them in a buffer whose physical memory is mapped twice, at two
adjacent virtual addresses, so that a slice that runs over the end of the first
mapping continues at its beginning. These modules specify the deque and its
buffer in TLA+, check them with TLC on small instances, and prove with TLAPS,
for every size of page and of element, that the memory is used correctly, that
the deque is the sequence it is documented to be, and that every value is
dropped once.

Line numbers below are those of `src/src/lib.rs` unless another file is named.

## Inventory

| Component | State | Operations | What makes it correct |
|---|---|---|---|
| `Buffer<T>` (`mirrored/buffer.rs`) | `ptr`, `len` in elements of *both* regions | `new`, `uninitialized`, `Drop`, `Clone`, `size_in_bytes` | the size computed from `len` when it is freed is the size that was allocated; `len` is rounded down and may be odd |
| `SliceDeque<T>` (`lib.rs`) | `elems_: &mut [T]` (where the elements are), `buf: Buffer<T>` | about 40: push, pop, insert, remove, truncate, reserve, shrink, append, split, clone, ... | the slice and its spare capacity stay inside the two mappings; two slots never overlap through the mirror; the elements are the sequence the docs promise; every value is dropped once |
| `Drain`, `Splice` | position in the drained range; a deque whose slice was shortened | `next`, `next_back`, `Drop`, `fill`, `move_tail_unchecked` | the tail survives, also when the iterator is leaked or the closure panics |
| `DrainFilter` | `idx`, `del`, `old_len` | `next`, `Drop` | kept and removed elements partition the old ones, also when the predicate panics |
| `retain`, `dedup_by` | two cursors in the slice | loop over the caller's closure | the same |
| `IntoIter` | the buffer, a range of remaining elements | `next`, `next_back`, `size_hint`, `clone`, `Drop`; collecting it into a deque, extending one with it | every element is yielded, kept or dropped once, the buffer is freed with its allocated size or handed over, the length is exact at any address and for zero-sized `T` |
| conversions and `BufMut` | none of their own | `sdeq!`, `From`, `clone_from`, `FromIterator`, `Extend` and their specializations, `bytes_mut`, `advance_mut`, accessors | the sequence is the one converted, also after a panic; `bytes_mut` always has room |
| allocators (`mirrored/{linux,sysv,macos,winapi}.rs`) | address space, descriptors, shared segments; shared by all threads | `allocate_mirrored`, `deallocate_mirrored` | both halves map the same memory or nothing stays acquired; retries end |
| `mirrored/mod.rs`, `macros.rs`, `san/`, benches, CI | none | choice of allocator, panic text, test driver | - |

How they interact: user code calls `SliceDeque`, which calls `Buffer` for room;
`Buffer` calls the allocator of the platform, which can fail, and other threads
can take the addresses it is about to map. The iterators borrow the deque,
shorten its slice and restore it when they are dropped. Two more parties run in
the middle of an operation and may panic: the methods of `T` (`clone`, `default`,
`drop`, `==`) and the caller's closures and iterators.

What is hard:

* **Positions in bytes.** Only `size_of::<T>()` and the page size decide whether
  an element straddles the end of a region. Sizes that divide a page hide every
  mistake in the wrap-around; the unit tests use such sizes almost only.
* **Sizes computed twice.** The size of a region is derived from a rounded-down
  element count when it is freed and whenever the head wraps.
* **Machine words.** Capacities are multiplied by two and by `size_of::<T>()`;
  pointers are subtracted as `isize`; for a zero-sized `T` they count elements.
* **Partial failure.** Allocation fails half-way, `clone()` panics after some
  values were written, destructors run in the middle of a call.
* **Ownership by bit copies.** Elements move with `ptr::copy`; whether a value is
  forgotten, dropped or dropped twice depends on two slices being adjusted in
  the right order.
* **Concurrency** is in the allocators only: unmapping a range and mapping it
  again is not atomic on System V, macOS and Windows.

`PROJECT.json` lists each of these as a hazard with its line and the
properties that cover it.

## Modules

    MirroredBuffer   Buffer<T>: sizes, double mapping, byte-level reads and writes
      SliceDeque     the deque: one action per operation; the properties
        MCSliceDeque       symmetry set for TLC (so are the other MC modules)
        SliceDequeProofs   the layout, proved for every call
          ContentsProofs       what each memory operation does to the elements
            RefinementProofs   SliceDeque implements Deque
              OwnershipProofs  every value is owned and dropped once
                IteratorProofs   a deque while it is borrowed (also extends DequeIterators)
                  ProgramProofs  IntoIter, the conversions, and the whole
                                 program (also extends DequeProgram)
        DequeIterators     Drain, Splice, DrainFilter, retain, dedup_by
          MCDequeIterators
        DequeConversions   sdeq!, From, clone_from, specializations, BufMut, accessors
          MCDequeConversions
          DequeIntoIter    IntoIter, and deques made from one
            MCDequeIntoIter
        DequeProgram       DequeIterators and DequeIntoIter in one program
          MCDequeProgram
    Deque            abstract specification: a sequence and a capacity
                     (instantiated by SliceDeque as Abstract)
    MachineBuffer    Buffer<T> in machine words, every T
      WordDeque      the deque, IntoIter and Buffer in machine words
        WordProofs         room, freed sizes and size_hint, for every word width
    AddressSpace     the system calls, the threads, the allocators' properties
      LinuxAlloc, SysVAlloc, WinAlloc, MachAlloc    allocate_mirrored, deallocate_mirrored
      Allocators     mod.rs: the allocator of the platform (instantiates the four)
        AllocatorProofs    theorems about the four
    MirroredAlloc    abstract specification of the allocators
                     (instantiated by AddressSpace as Promise)

Two abstractions of the same code stand side by side. `SliceDeque` has the
memory, byte by byte, and unbounded integers; `WordDeque` has integers of a
machine word, and no memory. What is in a slot never depends on a word's
width, and no size depends on what is in a slot.

### MirroredBuffer

A buffer is a record `[blen, half, mem]`: the field `len` of `Buffer`, the bytes
of one region, and the contents of the physical memory. Virtual addresses are
offsets from `ptr`; `Phys` is the MMU, which takes offset `o` to byte `o % half`.
A byte is `<<e, k>>`, the k-th byte of value `e`, or `Junk`. Reading a slot
returns `e` only if the bytes found are the bytes `0 .. SIZE-1` of `e` in order;
torn or uninitialized memory reads as `Junk`. `Write` and `Copy` are `ptr::write`
and `ptr::copy`. `no_required_allocation_units`, `size_in_bytes` and
`uninitialized` are the functions of the same name.

### SliceDeque

| Variable | Code |
|---|---|
| `dq[d]` | the deque in program variable `d`: its buffer, `head` (the byte offset of `elems_.as_ptr()` from `buf.ptr()`) and `len` (`elems_.len()`) |
| `live` | when `T` has a destructor, the values constructed and not yet dropped |
| `ub` | some call dropped a value twice, or dropped memory that holds none |
| `ret` | the last call, its arguments and its result: value, `None`, `"ok"`, `"oom"`, `"panic"` |

Each action is one call, with its early returns, panics and failed allocations as
disjuncts. `truncate_back` and `truncate_front` may end in a panic when `T` has a
destructor (`DropEnds`): `drop_in_place` of a slice goes on with the other elements
and then unwinds. `try_push_back` and `push_back` are the same action: they differ in
whether the failure is returned or raised. `oom` is the allocator's choice to
fail; allocations over `MaxAlloc` always do. A `clone()` or `default()` that panics
is a sequence of values shorter than the call needs. `resize` by `clone` and
`resize_default` both build their values in the order the code does, and the
tail moves with each. `Settle` ends each call: bytes outside the slice are
uninitialized memory to the next one, so nothing can rely on left-over bits.
`remove_item` is given the set of positions at which `==` holds, so any
`PartialEq` is covered. `move_tail` is the call that follows a caller's
initialization of `tail_head_slice()`. `extend_desugared` and
`from_iter_default` are one turn of their loops, because the iterator's `next()`
and `size_hint()` are the caller's; any sequence of turns is a behaviour.

The value a call returns is dropped by the caller at once. Keeping it would
only remove it from the values a later call can be given.

### Deque

The promise of the documentation: each deque is a sequence of elements with a
capacity. `Next` says for each call what the sequence becomes, what is returned,
that a failed call leaves the sequence unchanged, when a capacity may change at
all, and that `push`, `reserve` and `extend` at least double a capacity that does
not suffice (the amortised growth that is promised). `SliceDeque!ImplementsDeque` is the refinement: `elems`
is read out of the bytes by `Contents`, `cap` is `capacity()`.

### DequeIterators

The operations that give control away while a deque is borrowed. `it` is the
record of the iterator or loop that is open (`Drain`'s `tail_start`, `tail_len`
and slice iterator, `DrainFilter`'s `idx`, `del`, `old_len`, the cursors of `retain`
and `dedup_by`), with history of what the deque held at the call. A step is one
call of `next()`, `next_back()`, a predicate, the replacement iterator or a
destructor. Each of them may panic once; what unwinding then drops follows, so
that a panic in `Splice`'s `Drop` still runs `Drain`'s, and a panic in a predicate
called from `next` still runs `DrainFilter`'s. The lower bound of a replacement's
`size_hint()` is any number, below, at or above what it goes on to yield: the code
moves the tail by whatever it is. A second panic aborts and has no
step. At each point where the caller has control it may also forget the
iterator (`forget`). `leaked` collects the live values that no deque holds then.
`retain` and `dedup_by` are one loop over two cursors that starts at slot 0 or 1.
The bytes outside the slice are kept while the deque is borrowed and become
uninitialized when the borrow ends.

### DequeConversions

The calls that make a deque of other values (`steal_from_slice` behind
`sdeq![...]`, `from_elem` behind `sdeq![e; n]`, `From<&[T]>`, `from_iter` of an iterator
of known length), `clone_from`, the specialized `spec_extend`s, `BufMut`, and the
accessors. The model names the action after the function; several report the
same operation in `ret` (`"from"`, `"extend_from_slice"`) because `Deque` promises the
same of them. Each has its own order of reserving, writing and moving the tail.

* A value that cannot be made, because `clone()` or `next()` panics, ends `Assigns`
  with the half-made deque dropped, `extend_trusted` and `clone_from` with what was
  written so far. `clone_from` also stops when the deque is full and cannot grow.
* `put` is one turn of the loop of `BufMut::put` (crate `bytes`, external): write
  into `bytes_mut()`, then `advance_mut` by what was written. `Deque!put` promises
  that a turn makes progress. `BUF_GROW` is the 64 of the source. The branch of
  `advance_mut` that reserves is there for a caller that advances over bytes it
  did not write; `put` does not reach it.
* `last_idx` is `len - 1` in `usize`, of which `USIZE_MAX` is the largest.

### DequeIntoIter

An `IntoIter` is a buffer, the saved capacity, and an unwrapped range of slots.
`Drop` gives the remaining values to their destructors and frees the buffer with
the size it computes from twice the capacity. `collect` takes the buffer over
if the first element left is where the buffer begins, which is also so after
`next_back` only, or when the deque was never allocated; the deque's `blen` is
then twice the capacity, and may be one less than it was. Otherwise the
elements are appended to a new deque. `spec_extend` appends them to an existing
one. Destructors that panic inside `Drop` are not modelled.

### DequeProgram

One program that uses the borrowing iterators, the consuming one, and the
calls that refill a deque between them. It makes the ownership property
`NothingLost` a statement about the whole program: a live value is in exactly
one deque or `IntoIter`, or was leaked. An `IntoIter` and a borrow of another deque
have no state in common, so they are not interleaved.

### MachineBuffer and WordDeque

`usize` has `USIZE` values, 2^W for words of W bits. `debug` is chosen once: a build with overflow checks and debug
assertions, where an operation that overflows panics, or without, where it
wraps around (`wrapping`). `size` is `size_of::<T>()`, also chosen once. A buffer is its
length and the bytes that were allocated for it, a deque is its buffer and the
number of its elements. `as_isize` is the cast, `move_tail_unchecked` computes in
`isize`, `arith_offset` and `wrapping_offset_from` are the pointer arithmetic of
`IntoIter`. `left` in `it` is history: the elements that the iterator still owns.
`short` is history too: some call returned without the room it promises.
`BASES` are the addresses at which an `IntoIter`'s first element may lie; with no
memory the pointer is dangling and at most a page (`begin <= AG`). Programs use
deques, an iterator, or a `Buffer` of its own one after the other, because they
share no state. `clone_buffer` replaces a buffer by its clone.

### The allocators

`AddressSpace` counts addresses in halves of a region, so a region is two
adjacent addresses. `vm` says what is mapped at each: nothing, memory of other
code, memory reserved by a thread, or a memory object. `handles` are the objects
with an open descriptor, handle or segment id. `th[t]` is where thread `t` is in
`allocate_mirrored` or `deallocate_mirrored`, its object, its address and its
number of attempts. Every system call that acquires something is a step of its
own that may fail; other threads and other code of the process (`OtherCode`) run
in between. Each of the four modules is the control flow of one file:

| Module | How the second half gets its memory | A lost race |
|---|---|---|
| `LinuxAlloc` | `mmap` with `MAP_FIXED` over memory the thread has | cannot happen |
| `MachAlloc` | `mach_vm_remap` with `VM_FLAGS_OVERWRITE` over memory the thread has | cannot happen |
| `SysVAlloc` | `munmap`, then `shmat` of both halves | `MAX_NO_ITERS` attempts |
| `WinAlloc` | `VirtualFree`, then `MapViewOfFileEx` of both halves | one attempt and `MAX_NO_ALLOC_ITERS` retries |

The comment in `macos.rs` (40-49) describes an older algorithm, which unmaps the
second half and retries; the code does neither.

Assumptions on the system: calls that release what the thread has succeed (the
code panics or prints otherwise); `shmat` and `MapViewOfFileEx` at a given address
map there or fail; all regions have the same size. The memory entry's port on
macOS, which the code says it leaks (`macos.rs:144`), is not a handle of the
model.

`MirroredAlloc` is the promise: a call fails, or returns a region that overlaps
no other region and no memory of other code. `KeepsPromise` maps the state to
it: a region is what a thread holds, `pending` are the threads inside
`allocate_mirrored`. `ErrorsRelease` looks for what no thread accounts for in the
address space and the handle table: no step may add to it. It excepts two steps,
each with what it leaves: the `?` at `winapi.rs:88`, the file mapping of its call
(`LeavesFile`), and the return at `macos.rs:90`, the region of its call
(`LeavesRegion`). Every other step of Windows and macOS, the retries and the
errors after that among them, is held to it like those of the other platforms.
`Allocators` has the four platforms as four
sets of initial states, because `mod.rs` chooses one when it is compiled.

## Runs

Only `allocators` states fairness, for `Returns`: weak fairness of each thread's
own steps inside the allocator, that is, a thread that the system schedules
goes on. Nothing is assumed of other code, which may take the addresses at
every attempt, nor that any system call ever succeeds. All other properties
are safety properties; the deque has no operation that waits. All runs check
deadlock.

| Run | Instance | What it shows |
|---|---|---|
| `sequence` | `ConversionSpec`: pages of 4 bytes, elements of 3, capacities 1, 2 and 4 | `ImplementsDeque`: shifting in both halves, growth, shrinking and every conversion at every head position, when an element straddles the region's end at every offset and `blen` is odd |
| `layout` | `FullSpec`: pages of 8, elements of 6 aligned to 2, *all* calls and iterator steps | `TypeOK`, `InMappedMemory`, `NoAliasing`, `FreedAsAllocated`, `Aligned`, `IteratorInBuffer` |
| `ownership` | two deques, `NEEDS_DROP` | `NoInvalidDrop`, `OwnedOnce`, `ImplementsDeque` with panicking clones and destructors, failed allocations, append, split_off, clone |
| `iterators` | `ProgramSpec`: a deque and an `IntoIter`, pages of 4, elements of 3, `NEEDS_DROP` | at every step `NoInvalidDrop`, `LeakSafe`, `IntoIterInBuffer`, `FreedAsAllocated`; between borrows `NothingLost`; of each iterator `DrainRestores`, `FilterKeeps`, `YieldsInOrder`; whatever `size_hint()` says |
| `words` | `SoundSpec`: words of 5 bits, pages of 2, `T` of size 0, 1, 3 and 5, debug and release | `Reserved`, `FreedExactly`, `HintExact` |
| `allocators` | four platforms, two threads, 5 halves of address space, two attempts | `Mirrored`, `ErrorsRelease`, `KeepsPromise`, `Returns` |
| `insert_front_half` | elements of 1 byte, five elements, with every `insert` | violates `ImplementsDeque` |
| `shrink_double_drop` | one deque, `NEEDS_DROP`, with every `shrink_to_fit` | violates `NoInvalidDrop` |
| `splice_loses_tail` | with every `splice` | violates `DrainRestores` |
| `filter_panic_duplicates` | with every panic of a predicate | violates `NoInvalidDrop` |
| `into_iter_clone_shares` | with `IntoIter::clone` | violates `NoInvalidDrop` |
| `reserve_overflow` | words of 4 bits, with every capacity | violates `Reserved` |

Bounds. `MaxAlloc` (bytes), `MaxItems` (values per call), `MaxArg` (numbers per
call) and the set `Elem` are the only bounds of the models with memory.
`MaxAlloc` admits two growths, so the old buffer may be full, partly full and
empty, with its head anywhere. Four elements are the fewest with a shift of
more than one element in each half; the faulty `insert` needs a fifth. The
layouts are the relations there are between `SIZE` and the region: it divides
it; it does not, and `blen` is odd; it shares a factor with it that is the
alignment. `MaxArg` is one above the largest length in `sequence` and in `layout`,
so that every index check fails there.

In `words` nothing but the width is bounded: every argument is any word. Five
bits and pages of two bytes leave 16 pages, enough for a capacity to be doubled
twice before an allocation fails for its size, and for arguments that overflow
in `2 * n`, in `len * size`, in the rounding and in `checked_add`. Size 1 divides a
page, 3 does not, and 5 is larger than a buffer of two pages; `BASES` has a dangling pointer, a low address, and an
address from which elements reach across `isize::MAX` = 15. `MaxAlloc` is two
pages less than the address space.

For the allocators, `SPACE` has room for both threads' regions and one half
more, so that regions can be placed at odd and even addresses and other code
can take one half of a place. Two attempts are the fewest with a retry.

Symmetry. Elements (and deques) are only compared for equality, and the
constants that mention them are sets, so permuting them maps behaviours to
behaviours. The properties are invariants and a safety refinement without
fairness, for which symmetry reduction is sound.

`SoundNext` and `SoundIterNext` leave out exactly what the findings are about,
`ProgramNext` also `IntoIter::clone`; their guards are written next to them.
`SoundIterNext` has every call of `splice`, with every replacement and every
`size_hint()`. It leaves out one step of `Drop` for `Splice`: moving the tail to a new
buffer, that is, `move_tail_unchecked` where the buffer has no room for the tail
behind the gap (`TailStays`). So a lower bound that is too high is admitted as
long as the tail can move by it; a second `fill` that returns false, and the tail
that moves back then, are reached. The other step left out is a predicate's panic
in `next()` after a deletion.
The `layout` run and the proofs of the layout use `Next`, which has every call.
`WordDeque!SoundNext` leaves out what finding 6 is about: a release build that is
asked, or that asks itself when it doubles its capacity, for a buffer of more
bytes than `usize` counts (`Fits`, `Asks`, and `BufferFits` for a `Buffer` of its own).
A debug build is asked for everything.

## Findings

1. `insert` at `2 <= index <= len/2` (line 1394) shifts the wrong elements: slot 0
   is uninitialized and element `index - 2` is lost (the first one, for index 2);
   for a larger index element `index` is overwritten as well. The documentation (1348)
   promises that the elements from `index` on are shifted to the back.
2. `shrink_to_fit` (1108) drops the elements it has just copied: the old deque,
   swapped into a local variable, still has its slice.
3. `Drop` for `Splice` reallocates (2981) while the deque's slice ends in front of
   the tail. Only the slice is copied; the tail that is moved afterwards is
   uninitialized memory. A replacement that does not fit gets there, and so does
   one that fits when its `size_hint()` says too much (2919-2921): with a capacity of
   2 and `[a, b]`, `splice(0..1)` by an iterator of one value and a lower bound of 5
   loses `b`.
4. A predicate that panics in `DrainFilter::next` (3025) after a deletion: `Drop`
   restores the length, but the element whose predicate panicked was counted
   and not moved, so the slice covers a value that was given away. The comment
   at 3032 says that nothing is dropped after a panic because the length is 0.
5. `IntoIter::clone` (2447) copies the bits of the values, which both iterators
   then drop.
6. `reserve_capacity` (585) and `with_capacity` multiply the capacity by two
   unchecked. In a release build 2 * 2^(W-1) is 0, the buffer is empty, and
   `reserve`, `reserve_exact` and `with_capacity` return normally. The documentation
   promises a panic on overflow (549, 568, 618) and, for `reserve_exact`, the
   capacity (608). The same check is missing for a zero-sized `T`: in a release
   build the length can exceed `isize::MAX`, at which `append` is documented (808)
   to panic. A build with overflow checks panics in all these cases (`words`).

More were met while modelling and have no run of their own:

* `extend_from_slice` (1898) moves the tail over uninitialized slots and then
  assigns to them, which drops what they are taken to hold; when `clone()`
  panics the deque keeps slots that were never written. The documentation (1868)
  says that each clone is appended. `SoundNext` admits the call only for a `T`
  without a destructor and a `clone` that does not panic, or for an empty slice;
  with all of them (`ExtendsFromSlice`) `NoInvalidDrop` fails after two steps.
* `winapi.rs:88` returns without closing the file mapping when `VirtualAlloc`
  fails (`WinAlloc!reserve_fails`).
* `macos.rs:90` returns without deallocating the region when its first half cannot
  be allocated again (`MachAlloc!first_fails`); the comment there (87), "If the
  first allocation fails, there is nothing to deallocate", is that of the call
  before it.
* `SliceDeque::from_raw_parts` (386-388) asserts in debug builds that the pointer is
  in bounds and `elems.len() < capacity`. Its caller (2667), behind the `unstable`
  feature, passes a full deque's parts, or those of a deque that never
  allocated, for which the assertions fail. The model has the release build.
* `IntoIter::elems` (2306-2312), behind `unstable`, divides by `size_of::<T>()`, which
  panics for a zero-sized `T`.
* `Buffer::uninitialized` (`buffer.rs` 123-157) multiplies `len * size_of::<T>()` unchecked,
  as finding 6 does with the capacity. In a release build the buffer is then
  smaller than asked, and if no element fits into it, its length is 0 and `Drop`
  (`buffer.rs` 160-174) frees nothing.
* `Clone for Buffer` passes `len`, which may be odd, to `uninitialized`, which
  asserts that it is even, and `clone_from_slice` then assigns to uninitialized
  elements. No code of the crate clones a `Buffer`.
* The comment at `buffer.rs` 17-18 says that the elements `[0, len/2)` are mirrored
  into `[len/2, len)`. That is so of bytes; when `SIZE` does not divide the region,
  elements are not mirrored at element `len/2`.
* `TinyAsciiString::write_str` (`macros.rs` 20-31) starts at index 0 on every call, so
  a message formatted in several pieces keeps only the last of them whole.

## Proofs

Every theorem holds for any `AG`, `SIZE`, `ALIGN`, any set of deques and values and
any bounds; those about the allocators for any number of threads, objects,
addresses and attempts.

| Module | Theorem | Statement |
|---|---|---|
| `SliceDequeProofs` | `TypeCorrect` | `Spec => []TypeOK` |
| | `InMappedMemoryCorrect` | `Spec => []InMappedMemory` |
| | `NoAliasingCorrect` | `Spec => []NoAliasing` |
| | `FreedAsAllocatedCorrect` | `Spec => []FreedAsAllocated` |
| | `AlignedCorrect` | `Spec => []Aligned` |
| `RefinementProofs` | `ImplementsDequeCorrect` | `SoundSpec => ImplementsDeque` |
| `OwnershipProofs` | `NoInvalidDropCorrect` | `SoundSpec => []NoInvalidDrop` |
| | `OwnedOnceCorrect` | `SoundSpec => []OwnedOnce` |
| `IteratorProofs` | `IteratorInBufferCorrect` | `FullSpec => []IteratorInBuffer` |
| | `BorrowedLayoutCorrect` | `FullSpec =>` the five properties of the layout, always |
| `ProgramProofs` | `IntoIterInBufferCorrect` | `IntoSpec => []IntoIterInBuffer` |
| | `YieldsInOrderCorrect` | `IntoSpec => YieldsInOrder` |
| | `NothingLostCorrect` | `ProgramSpec => []NothingLost` |
| | `LeakSafeCorrect` | `ProgramSpec => []LeakSafe` |
| | `ProgramDropsCorrect` | `ProgramSpec => []NoInvalidDrop` |
| | `ProgramBuffersCorrect` | `ProgramSpec => [](FreedAsAllocated /\ IntoIterInBuffer)` |
| | `DrainRestoresCorrect` | `ProgramSpec => DrainRestores` |
| | `FilterKeepsCorrect` | `ProgramSpec => FilterKeeps` |
| | `ProgramYieldsCorrect` | `ProgramSpec => YieldsInOrder` |
| | `ConversionsCorrect` | `ConversionSpec => ImplementsDeque` |
| `WordProofs` | `ReservedCorrect` | `SoundSpec => []Reserved` |
| | `FreedExactlyCorrect` | `SoundSpec => []FreedExactly` |
| | `HintExactCorrect` | `SoundSpec => []HintExact` |
| `AllocatorProofs` | `MirroredCorrect` | `AllocSpec => []Mirrored` |
| | `ErrorsReleaseCorrect` | `AllocSpec => []ErrorsRelease` |
| | `KeepsPromiseCorrect` | `AllocSpec => KeepsPromise` |

`Spec` has every call, the faulty ones too; `FullSpec` also every step of the
iterators and loops; `SoundSpec` the calls that no finding is about; `IntoSpec` every
call on an `IntoIter`, `clone` too, and calls that bring deques into any layout;
`ProgramSpec` every step of `DequeProgram`, which leaves out what findings 3 to 5
are about; `ConversionSpec` adds every call of `DequeConversions` to `SoundSpec`.

Assumptions: `LayoutAssumption` (sizes are positive; the alignment divides the
size of `T`, as in Rust, and the page size, which `uninitialized` asserts),
`JunkAssumption`, `DropAssumption`, `BoundAssumption`, `ConversionAssumption` (no
allocation is larger than `usize::max_value()`, and `bytes_mut` reserves at least
one element), and `SpaceAssumption` for the
allocators (threads, objects and the marks of free and foreign memory are
different), and for the words `WordAssumption` (`MaxAlloc` leaves a page of the
address space unallocated) and `IterAssumption` (no element at address 0). TLC evaluates them in every run.

**Layout.** None of the properties is inductive alone: the head stays in the
first region only if the region computed for a wrap is the region there is, and
that depends on how the buffer was sized. The inductive invariant says of each
deque that it is well formed (`WF`): typed, its buffer fits (`BufferFits`: either
nothing is mapped, or both `size_in_bytes(blen)` and the size from twice the
capacity equal `2 * half`, and an element fits), `len <= capacity`, `head` inside the first region and
aligned. Its core is `SizesStable`: a length
between the `n` that was asked for and what fits into the bytes allocated for `n`
rounds up to the same number of bytes again. Both lengths from which the code
recomputes a size, `blen` and twice the capacity, are such lengths. With
`capacity * SIZE <= half`, which follows, a slice that
starts in the first region ends in the second, and two slots are less than
`half` apart and so cannot meet modulo `half`. For each operator that returns
a deque there is a lemma that it preserves `WF`, and for each action one that
it preserves the invariant.

**Iterators.** `IterInv` adds to `Inv` what is true of the borrowed deque between two
steps: no iterator is open, or its positions are those of a `Drain`
(`DrainOK`: slice, drained range and tail, in this order, within the capacity),
of a `DrainFilter` (`FilterOK`: `del <= idx <= old_len`, which is within the
capacity although the slice is empty) or of a loop over two cursors (`SiftOK`).
A panic, a forgotten iterator and the unwinding after them are steps like others.

**Contents.** `ContentsProofs` says what each operation on the memory does to the
elements that can be read. It is proved byte by byte, through the mirror: a
slot's bytes are found `half` apart at the same physical byte, two bytes of
slots within the capacity are the same only if slot and position are
(`NoAliasing` for bytes), so writing one slot changes one element, copying a range of slots
moves these elements also when ranges overlap, moving the head or the tail cuts
or extends the sequence, and wrapping the head does not change it.

**IntoIter.** `ptr` is never wrapped and may run into the second region, so an `IntoIter`
is not a well-formed deque. `Unwrapped` moves it back by a region if it is there; through
the mirror the deque that results reads the same (`UnwrappedRead`), `next` is its
`move_head_unchecked` with the wrap, and `append_elements` from either does the same. `IntoInv` says that each
is well formed and that the elements end before the second region does; all else
follows from the lemmas about deques. That `collect` may give the buffer to a deque
with `blen` = twice the capacity needs that no buffer holds fewer than two elements.

**Refinement.** `RefinementProofs` maps a deque to `Contents` and `capacity()`. For each
call, `...Refines` says that its step is a step of the same call in `Deque`, with
the same result, or leaves all as it is: `Inv` gives that the slots are where the
contents lemmas need them. The refinement needs no stronger invariant.

**Ownership.** `Owned` says that the elements of the deques are values, no two of them
equal, and that they are the live ones. That a call keeps it is derived from the
refinement: `Deque` says which sequence each deque becomes, sequence lemmas
say which set that is and that it has no duplicates, and `Own` drops or
creates the difference. `OwnershipInv` conjoins `Inv`, `Owned` and that nothing was
dropped twice so far.

**Words.** Wrapped arithmetic says nothing by itself, so `WInv` is about unwrapped sizes:
`SizeKnown` says of a buffer that `blen * size` and twice the capacity times `size`,
rounded up to pairs of pages as integers (`Rounded`), both equal the bytes allocated,
which are at most `USIZE` minus a page. It follows that no step of `size_in_bytes` wraps
for a buffer that exists (`KnownFits`), so what is freed is what was allocated. That
the sizes are known when a buffer is made is `SizesStable` again, and needs that
the request did not wrap: a build with overflow checks panics otherwise, a
release build must not be asked (`FitsNoOverflow`). For `HintExact`, `Distance` says that the difference of
two addresses as `isize` is exact when they are at most `isize::MAX` apart, whichever of them is
negative; `IterOK` bounds them so, because the elements fit in one of the two halves
of the buffer. The theorems hold for every even `USIZE` that is a multiple
of the page size.

**Allocators.** `Mirrored` alone is not inductive: a thread's half-built region must
be its own too. `AInv` says for each program counter of each platform which object
the thread has (`ObjectsApart`: no two threads the same), which addresses map
it (`ObjectsMapped`), which are reserved for it (`MemoryReserved`) and whether its
handle is open (`HandlesHeld`). The steps of the four platforms are a dozen kinds of
steps (a file is mapped, a reservation given up, a second half mapped, ...), and
each kind keeps `AInv` and is a step of `MirroredAlloc` or changes nothing of it.

**A borrowed deque.** `BorrowInv` says what is in the slots that the slice does not
cover. For a `Drain` (`DrainHas`): the slice is what was in front of the range and
what has replaced it, the slots from `next` to `back` hold their elements, and
those from `tail_start` on the elements that were behind the range. For a `DrainFilter`
(`FilterHas`): the first `idx - del` slots are what was kept, the slots from `idx` to
`old_len` are as they were. For `retain` and `dedup_by` (`SiftHas`): the kept elements
come first, and the slice has, in some order, all it had. `DrainRestores` and
`FilterKeeps` follow from it at the step that closes the iterator. None of them
is inductive without where the cursors are (`IterInv`), since the slots are only
apart when they are within the capacity. That a `splice` keeps its tail needs that
the tail stays in its buffer (`TailStays`), which is what finding 3 is about; of what
`size_hint()` says nothing is assumed.

**The program.** `Kept` says who owns a value while a deque is borrowed: it is an
element of a deque, or in a slot that the iterator will still give away, move
back or append (`Beside`), or leaked, and each in one place. `Divided` says the
same between borrows, with the slices of the `IntoIter`s in place of `Beside`.
`ProgramInv` puts these together with `BorrowInv`, `IntoInv` and that nothing was
dropped wrongly. `LeakSafe` and `NothingLost` say less than it: a value
that is only beside the slice is in neither of them, and would be lost or
dropped twice one step later. Each step of an iterator moves values between
the slice, `Beside` and `leaked`, and `Own` drops or creates the rest (`ApartStep`);
the end of a borrow, `forget` and a panic in an iterator's `Drop` turn `Kept`
into `Divided` (`KeptIsDivided`). TLC checked `ProgramInv` on the instance of
`iterators`, where it is an invariant, before it was proved.

**Conversions.** Each is composed of operations for which there are lemmas
already. `clone_from` is a loop (`PushEach`), whose result is found by induction on
the number of turns (`PushEachContents`, `PushEachRoom`). The library's theorems about
induction take the formula as an operator, so the induction is over the set of
numbers for which the formula holds: a set of numbers that is not empty has a least
element (`LeastNumber`, from the well-foundedness of `<`), hence a set with 0 and,
with each number, the next one has all (`UpTo`). `back` and `back_mut` use
`len - 1` in `usize`; `AllSmall` says that no region is larger than what can be
allocated, so that no deque is longer than `USIZE_MAX` and an empty one's
`last_idx` is out of range (`LastIndex`). `AllSmall` must be kept by every call of
`SliceDeque` too (`SmallNext`).

Only model-checked:

* `Returns`: liveness under fairness is out of the proof system's reach.

## Plan

Done: the deque, its iterators and conversions, zero-sized `T`, machine words,
the allocators; proofs of every safety property that a passing run checks. What
could follow are the observers that only read the slice, and destructors that
panic inside `IntoIter`'s `Drop`.

## Not modelled

* `PartialEq`, `PartialOrd`, `Hash`, `Debug`: they read the slice, which is
  `Contents`, and change nothing.
* The contents of a cloned `Buffer`: nothing in the crate uses it.
* Destructors that panic inside `IntoIter`'s `Drop`, where the values and the buffer
  that are left leak; when a deque is dropped whole, where the others run all the
  same and nobody can use the deque; and in the truncation that `resize` and
  `clone_from` begin with, which leaves the deque as `truncate_back` does when one
  panics there.
* The memory entry's port on macOS.
* `macros.rs` (panic text), `san/`, benches, CI: no state of the deque.
