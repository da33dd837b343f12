# Verification of Misan

Misan is a set of small, freestanding sanitizer runtimes (`src/README.md`:
"Minimal Compiler Sanitizers implementation"). The compiler instruments a
program with calls to hooks; a hook looks at or changes tables that describe
the program's memory, threads and locks, and reports an error and stops when
they say so. There are no tests in the repository: this directory holds TLA+
models of the runtimes, TLC configurations that check them, and TLAPS proofs.

Paths below are those of the repository's `src/`.

## 1. The system

### Components

| Component | Code | State | Operations | Modelled |
|---|---|---|---|---|
| Thread sanitizer | `src/tsan/tsan_rtl.c` | thread count and identities, one vector clock per thread, table of last accesses, table of mutexes, `tsan_lock` | function entry, reads, writes, ranges, atomics, mutex create/destroy/lock/unlock | yes: `Tsan`, `TsanProgram` |
| Leak sanitizer | `src/lsan/lsan_rtl.c` | append-only table of allocations, table of roots, `lsan_disabled`, `lsan_lock` | register/unregister allocation and root, ignore, disable, two leak checks | yes: `Lsan` |
| Address sanitizer | `src/asan/asan_rtl.c`, `asan_hooks.c` | one shadow byte per 8 bytes, `asan_initialized`, `asan_lock`, fake stacks | init, poison, unpoison, globals, frames, checked accesses | all but the dead code: `Asan` |
| Memory sanitizer | `src/msan/msan_rtl.c` | shadow and origin bytes, origin records and their counter, `msan_lock` | init, poison, unpoison, chain and set origin, check | yes: `Msan` |
| Undefined behaviour handlers | `src/ubsan/ubsan_handlers.c` | `ubsan_lock` | report, then abort | yes: `Ubsan` |
| Formatted output | `src/common/san_printf.c` 9-146 | none | `drt_printf`, `drt_die`, stack traces | yes: `Printf`, `Ubsan` |
| Control flow integrity | `src/cfi/cfi_rtl.c` | hash table | look up, insert (never called), fail | yes: `Cfi` |
| Internal allocator | `src/common/san_printf.c` 148-173 | one counter | allocate (compare-and-swap loop), free (nothing), reset | yes: `BumpAlloc` |
| Spin lock | `include/sanitizer/common.h` 42-55 | one flag | lock, unlock | in every runtime model |
| Platform layer | `src/common/san_pal.c` | none | print, abort, map, time, stack walk | what callers see of it |

The runtimes do not call each other. Each uses the spin lock, the output
functions and the platform layer, and only the control flow runtime uses the
internal allocator. What they share is the program: its threads enter hooks at
any time, and between two hooks it does what it likes with its memory.

### What is hard here

* Some state is touched without a lock: thread identities, the internal
  allocator, shadow memory, the flags read before a lock is taken.
* A hook describes an event of the program before or after it happens, so the
  order of hooks is not the order of events (`post_unlock` runs when the mutex
  is free already).
* A leak check reads memory other threads are writing.
* Tables are of fixed size, are probed with holes in them, and drop what does
  not fit without a word.
* An error stops one thread, sometimes inside a critical section; a report may
  not end at all (`drt_putn`, see below).
* Every runtime has a lock of its own for its reports, and the console belongs
  to none of them.
* Two windows on one address space, the shadow and the origins of the memory
  sanitizer, come to overlap for large addresses.

`PROJECT.json` lists these as hazards, each at its line, with the properties
that would catch it going wrong.

### What makes each component correct

* Thread sanitizer: identities are unique; the shadow remembers the last
  access of an address and loses one only when full; a report is about two real
  accesses and is final; clocks never go back; the detector reports a race if
  and only if there is one (this last does not hold, see Findings).
* Leak sanitizer: records follow the heap; a check reads only memory that is
  owned; what it reports is unreachable, and all of it is reported (the latter
  does not hold).
* Address sanitizer: the shadow says of each byte what the program last asked
  for, but for what is lost in rounding ranges to granules; an access is reported
  if and only if the first granule it touches says so.
* Memory sanitizer: shadow and origin of a byte are what the program last asked
  for; a check of several bytes reports the first bad one; identifiers stay in
  the table of records however many threads pass its end at once.
* Undefined behaviour handlers and output: what appears on the console is what
  C's `printf` would print, reports do not run into each other, and each comes
  to its abort (the last does not hold for every number).
* Control flow integrity: lists end, an entry once in is found, whatever is
  inserted meanwhile; blocks of the internal allocator are aligned, in the pool
  and disjoint.

## 2. The modules

| Module | What it is |
|---|---|
| `ProbeTable` | open addressing with linear probing, as operators: the two tables of the thread sanitizer |
| `Tsan` | the thread sanitizer runtime, called by threads that may invoke any hook |
| `RaceLog` | abstract specification: a log of the last access of each address, stopped by a race |
| `TsanProgram` | `Tsan` under a program that uses mutexes correctly, with the program's own happens-before as history |
| `Lsan` | the leak sanitizer and the program's heap, pointers and roots |
| `Asan` | the address sanitizer's shadow, access check and reports |
| `Msan` | the memory sanitizer and the ranges the program passes to it |
| `Printf` | formatted output as operators: what the code prints for a directive, and what C prints |
| `Ubsan` | the handlers of undefined behaviour, text by text, on the console they share (extends `Printf`) |
| `BumpAlloc` | the internal allocator |
| `RegionAlloc` | abstract specification: disjoint aligned blocks in a pool, and a reset |
| `Cfi` | the control flow runtime on top of `BumpAlloc`, its only caller in the repository |
| `MCTsan`, `MCTsanProgram`, `MCLsan`, `MCAsan`, `MCMsan`, `MCUbsan`, `MCCfi` | small instances for TLC |
| `ProbeTable_proofs`, `Tsan_proofs`, `TsanProgram_proofs`, `Lsan_proofs`, `Asan_proofs`, `Msan_proofs`, `Ubsan_proofs`, `Cfi_proofs` | TLAPS proofs; the last is also about `BumpAlloc` |

Definitions whose comment begins with "Slip:" are plausible mistakes in the
definition they stand before. No specification uses them; they are put in place
of that definition to see that a property notices.

### Thread sanitizer (`Tsan`, `TsanProgram`)

A hook is a few steps of its thread: `Invoke` (the call; `tsan_get_tid` finds
out whether the thread has an identity), `ReserveTid` (the atomic add),
`InitSlot` (the clock of the slot is cleared and set to 1, still without the
lock), `Acquire` (`drt_spin_lock`), and the body. A body touches only what
`tsan_lock` guards, so it is one step with the unlock that ends it:
`AccessUntracked`, `AccessRace` and `AccessRecorded` are the three ways through
`tsan_access`, `MutexCreate`, `MutexDestroy`, `PostLock` and `PostUnlock` the
bodies of the mutex hooks. `pre_lock`, `pre_unlock`, atomics and vptr hooks are
accesses, as they are in the code; a range hook goes round `NextAddress` and
takes the lock again for each byte. `AccessRace` leaves the lock taken, because
`drt_arch_abort` (or a report that hangs) stops the thread there.

`ShadowHash` and `MutexHash` are parameters: any function will do for the
properties, and the instances choose collisions and probes that wrap round.

`TsanProgram` puts a disciplined program on top (external to the repository):
it creates a mutex before it uses it, really locks and unlocks it between the
hooks, and destroys it when nobody has it. `Announced` is the set of mutexes
for which it calls the `pre_` hooks too, `Prompt` says whether `post_unlock` is
over before another thread gets the mutex. `ordered` and `released` are the
program's happens-before relation restricted to last accesses; nothing in them
comes from a clock of the runtime.

### Leak sanitizer (`Lsan`)

The small hooks are one step under the lock after `Acquire`; `lsan_disabled` is
read where the code reads it, before the lock. A check is many steps:
`BeginCheck`, then for each record `SkipObject`, or `ReadWord` for each word and
`NextPart` for each root and active record, then `ReportLeak` or `HangInReport`,
and `EndCheck`. `allocs` and `roots` are the arrays up to their counts. The
program (external) is `Program`: `malloc` and `free` around the register hooks,
stores of pointers into words it owns, also while a check reads them, roots
registered once at a time. `strayed` is the history of the addresses whose block
came or went with the tracker off, `seen` that of what each word has held since
the check under way began. The question whether the record lies inside a root is
asked before any word is read; it does not depend on memory, so the order does
not matter. Sizes are in words.

### Address sanitizer (`Asan`)

The writes of a hook to the shadow are computed by the operators named after
the C functions (`asan_poison_range`, ...) and carried out one byte a step
(`Write`), since no lock is held. `__asan_init` is `Exchange` and then `Map`.
`Access` is an instrumented access that does not pass: it is reported
(`Acquire`, `Report` or `Hang`), or faults when the shadow is not mapped; one
that passes changes nothing and is no step. All poison codes are one value.
A report prints the address, the shadow byte and a stack trace, each in a field
that a short number hangs in: `Report` needs an address in `Printable` and a
whole poison code, `Hang` is the other case (a stack trace may be short with
`ShortStacks`).

`bad` is the history of the bytes the program last asked to poison. Ranges begin
and end anywhere, and a range decides about the whole of its granules: poisoning
one frees the bytes before it in its first granule (the count written there) and
poisons those after it in its last one; unpoisoning one frees both. What is
undone in this way is the history `lost`: `ShadowExact` says that the shadow is
right but for just these bytes, and wrong about them. The globals of an array,
with their redzones, do not overlap. Two threads do not change one granule at a
time (`Alone`), for the shadow is written without a lock. Accesses come at any
time, also in the middle of a change: `AccessJudged` speaks of granules nobody is
changing; of the others a good byte may be reported, because a granule is
poisoned as a whole before it is marked partial.

### Memory sanitizer (`Msan`)

`mem` is the one address space both windows look at, from `MSAN_ORIGIN_BASE` on;
`Shadow` and `Origin` are the two address computations. The stores of a hook are
a list in `todo`, carried out one cell a step (`Write`); a cell that is not
mapped faults. `Exchange`, `MapShadow` and `MapOrigin` are `__msan_init`; a map
over memory that is in use zeroes it, which is how a thread that sees
`msan_initialized` too early loses what it wrote (`early` in the history
`asked`). `CheckByte` is one turn of the loop of
`__msan_check_mem_is_initialized`; the report is `Acquire`, `Hang` or
`PrintOrigin`, `PrintStack`, `Abort`. `__msan_chain_origin` is `TakeId` (the
atomic add and its test), `Wrap` (the plain store of 2), `Activate` and
`Capture` (the record, filled in without the lock), `Acquire` and `CopyStack`.

`CopyStack` puts the stack of the parent in the place of the one just captured.
Nothing gives the first origin of a chain a stack, so that the stack
`msan_alloc_origin` captures is in no report, whatever the chain. Origins are
one byte with zeros above it, which is what fewer than 256 records come to. No
hook gives out a first origin: the program makes one up (`Seeds`), any number,
also one the counter will give out later.

### Formatted output and handlers (`Printf`, `Ubsan`)

`Printf` turns a directive with its argument into the texts the code prints one
after the other (`Expand`, `drt_putn`, `drt_putsn`, `StackTrace`), and has the
text C gives for it (`CText`), computed by position and not by loop; for a null
string, of which C says nothing, and the conversions the code does not support
(`%i`, `%o`, `%f` among them) it is the code's own text. The widths
of `int` and `long` are parameters, so that the smallest value of each is among
the arguments.

`Ubsan` prints these texts one a step, so that those of several threads mix as
they do on a console. A report under `ubsan_lock` is `LockedHandler`, `Acquire`,
the texts, `Capture` (the stack trace is added), `Unlock`. Some things the code
does that its shape hides:

* What a handler prints after `UBSAN_HANDLE` (nearly all of the types) stands
  behind an abort and never appears: the reports end after the first label.
* `__ubsan_handle_float_cast_overflow` takes no lock and returns. It can
  cut a report of another thread in two, as any other output can; that no two
  reports *under the lock* cut each other is `ReportsWhole`.
* `UBSAN_HANDLE_RECOVER` is used by no handler, and `0x%p` prints `0x0x`.

### Control flow integrity (`Cfi`)

No function of the repository calls `cfi_insert`, so that the table of the
program as it stands is empty and every slow path check fails. The comment in
`__sanitizer_cfi_init` says where the valid vtables would be registered; the
model lets any thread do so at any time, which is what the absence of a lock
allows. An insert is `LookupHead`, `LookupNext`, `NotFoundByInsert`, the steps
of the allocator, `FillEntry` (the head is read), and `Publish` (the head is
stored); a check shares the first of these and ends in `Found` or
`NotFoundByCheck` and `Fail`. Two inserts into a bucket can lose one entry or
double a key; `alone` and `kept` are the history that says which keys were
inserted without meeting another insert, and those are the ones properties are
about. Stores become visible in the order they are written in (x86), and other
code resets the allocator only while no entry lives.

### Internal allocator (`BumpAlloc`)

`LoadFits` and `OutOfMemory` are the load, the arithmetic and the capacity
test (nothing but the load is shared), `SwapSucceeds` and `SwapFails` the
compare-and-swap. `drt_internal_alloc_reset` may come at any time from any
thread. Sums are taken modulo `SizeMod`; `BumpConstants` says that no size
asked for wraps, which is so for the one caller there is. The module is checked
as part of `Cfi`: there one thread bumps the counter for an entry while others
allocate and reset at will.

## 3. The runs

Each configuration checks the property under its own bounds; `PROJECT.json`
names them. `CHECK_DEADLOCK FALSE` is given everywhere: the threads may all
have stopped after an error, or have reached the bound on calls.

| Run | Shows |
|---|---|
| `tsan_core` | three threads, one too many for the identities: `DistinctTids`; reports name real accesses (`NoPhantomRace`) and are final (`FailStop`); clocks lead by one tick at most and grow (`ClockLead`, `ClocksGrow`); one entry for an address, refinement of `RaceLog`, nothing dropped with room left; the lock comes back from every way out of a hook (`LockDiscipline`) |
| `tsan_program` | `NoReportOfQuietThread`, the part of soundness that holds, and `MutexTableExact`, through create and destroy with collisions |
| `lsan_core` | `ReadsOwnedMemory`, `NoReachableLeak`, while the program writes under the check |
| `lsan_tables` | tracking switched off and on: `RecordsFollowHeap`, `RootsExact`, `CheckIsASnapshot` with stale and double records and with writes under the check; `LockReleased` |
| `asan_core` | `ShadowExact`, `AccessJudged` of ranges and accesses that begin and end inside granules, the mapping may fail; `ErrorsAbort` |
| `msan_core` | `ShadowExact`, `OriginExact`, `CheckExact` of ranges threads keep apart; `CounterBounded`, `NoTornReport` of origin records in a table that wraps, with an origin the program made up that the table gives out later |
| `ubsan_core` | every handler and every conversion: `TextAsInC`, `ReportsWhole`, `ReportEndsInAbort` |
| `cfi` | `ListsEnd`, `KeptStayIn`, `NoFalseAlarm`; of the allocator under it `ImplementsRegionAlloc`, `NoSpaceLost` |
| `tsan_races`, `lsan_cycle`, `msan_overlap`, `ubsan_hang` | findings, below |

Bounds, and why they are enough for the cases that matter:

* Two threads in most runs: a race, a hand-over, a report that meets a report
  and a lost insert need two. Three in `tsan_core`: one identity too many.
* `MaxClock` (a thread whose clock reaches it calls no more) is 2, 3 or 4: 1 is the
  start, each recorded access adds 1, and the findings need at most two accesses
  of a thread around a hand-over. It stands in a guard of `Invoke`.
* Tables of one or two slots with two or three keys, all hashing to one slot:
  collisions, wrap-around, holes and a full table all occur.
* Leak sanitizer: a leak of one of the two blocks hangs its report, the other
  is printed (`Printable`). `lsan_cycle` has two blocks of one word, which reach
  every shape of the pointer graph there is over two blocks and a root, with
  self-references; `lsan_core` makes one of them too short for a pointer, since
  the states in which several words have changed under a check are many. The
  table of two records fills up, in `lsan_tables` over the lives of one block.
* Address sanitizer: three granules of four bytes give ranges that start and
  end inside a granule, share it with others, and cover a whole one in between;
  the addresses of the first granule are too short to be printed.
* Memory sanitizer: two addresses, a range over both and one over the second;
  three usable origin records, so that the counter passes the end again and
  again with both threads at it. `msan_overlap` has five addresses and a gap of
  eight, so that the origin of 5 is where the shadow of 2 is; in the program
  the windows meet in the same way from address 2^42 on.
* Output: an `int` of 4 bits and a `long` of 8. The arguments are 0, the ends
  of both widths and their neighbours, unsigned values past the signed ones,
  fields narrower than, as wide as and wider than the number. One thread calls
  every handler, the other a locked one and the float cast handler.
* Control flow: a pool of twelve bytes with alignment four has room for three
  entries, and `other` blocks of 1 and 4 bytes give padding, exact fits and an
  exhausted pool; two keys in one bucket.

Fairness: `FairSpec` of `Lsan`, `Asan` and `Ubsan` lets a thread that is inside
a hook run on (weak fairness of its steps); this is what the processor does, no
hook blocks except on the spin lock. Nobody is promised the lock in
particular: the liveness properties only say that the lock comes free, or that
threads which compete only until each has aborted get through. The program is
never obliged to call anything. For the thread sanitizer that the lock comes
back is the invariant `LockDiscipline`, which needs no fairness: the holder is
one step from its unlock.

## 4. Findings

Each is a run that TLC refutes, stating what a comment of the code says.

* `tsan_rtl.c:2` promises happens-before detection; `tsan_races` states both
  halves of it (`ReportsExactlyRaces`). TLC shows a missed race: the tick of a
  release goes to the mutex and not to the thread, so that the next owner knows
  a clock the thread has still to reach. The other half fails as well: the check
  compares present clocks and never the one stored with the access, so that an
  ordered access is reported; so it is when the release is published late
  (`Prompt = FALSE`), and when the mutex is announced, because `pre_lock` and
  `pre_unlock` count as writes of it.
* `lsan_rtl.c:2` promises mark-and-sweep. Nothing is traversed, so a block that
  points to itself is never a leak (`lsan_cycle`). Nor does the lock of a check
  stop the stores of the program: `NoReachableLeak` is about pointers that stay
  in their words, because a block whose only pointer moves behind the back of
  the check is reported.
* `msan_rtl.c` promises shadow memory that tracks uninitialized reads. The
  origins of high addresses are stored into the shadow of low ones
  (`msan_overlap`).
* `ubsan_handlers.c:2` says that all handlers report, then abort. The padding
  loop of `drt_putn` never ends for a number shorter than its field, and `%p`
  of any address with fewer than 16 hexadecimal digits is one: the report hangs
  with the lock held, and every later one waits for it (`ubsan_hang`). The same
  loop hangs, with `asan_lock` held, `%p` of a report of the address sanitizer
  about a short address, `0x%02x` of the shadow byte of a partial granule and the
  addresses of its stack trace (`asan_rtl.c:90-95`, `Hang` of `Asan`); `%p` in a
  leak report (`HangInReport` of `Lsan`), in a check of the memory sanitizer and
  in a failed control flow check. The liveness properties of those models that
  hold except the reports that hang, by name.
* Not runs, since no comment claims otherwise: `asan_check_access` looks at the
  first granule of an access only, so that an access over two granules passes if
  the first is good (`AccessJudged` says just this); and a poisoned byte can be
  freed, or a good one poisoned, by a later range that only shares its granule
  (`lost` in `ShadowExact`).

## 5. The proofs

Every invariant and every action property that a passing run checks is a
theorem, and so are the two refinements. A theorem holds for every value of the
constants that satisfies the named assumption of the module: `TsanConstants`,
`ProgramConstants`, `LsanConstants`, `AsanConstants`, `MsanConstants`,
`PrintfConstants`, `UbsanConstants`, `BumpConstants`, `CfiConstants`. They say
that tables have sizes, that hash functions lead into the table, that the
program passes ranges of its own memory, that `NoThread` is not a thread; the
runs evaluate them. Some theorems have a further hypothesis, and each run that
checks the property satisfies it:

| Theorem | Hypothesis | Why it is there |
|---|---|---|
| `QuietThreadsAreNotReported` | the mutex table has room for all mutexes | a mutex without an entry hands over no clock |
| `ShadowIsExact`, `OriginIsExact`, `ChecksAreExact`, `ReportsAreNotTorn` of `Msan` | `Apart`: no shadow cell is an origin cell | `msan_overlap` |

Some properties say in themselves what they leave out, because the code does no
better: the leak sanitizer's are about blocks that came with the tracker on and
pointers that stay in their words, `NoTornReport` is about origins that were
given out, and `ShadowExact` and `AccessJudged` of the address sanitizer count
the bytes lost in rounding.

What is proved, and by which invariant:

**Tables** (`ProbeTable_proofs`). A search returns a slot of the table, finds
the entry of a key or allocates a free one, and filling the slot it returns
keeps the table searchable: `Reachable` (no free slot lies between the start of
a key's probe and its entry) is what makes lookups find what was stored.

**Thread sanitizer** (`Tsan_proofs`). One invariant in layers, each inductive
with the layers below it:

1. `Typing`: `TypeOK` and the form of a call under way.
2. `Control`: which thread may hold the lock, and who has an identity; with it
   `FailStop`, because the reporter is the lock's holder for ever.
3. `ShadowSound`: entries are reachable in the sense above and unique, so the
   shadow is a function of the address. Entries are never removed, which is why
   this table (and not the mutex table) keeps it. From it follow that the
   runtime implements `RaceLog` (a table that collides, wraps and fills up
   behaves as a log indexed by addresses) and `DroppedOnlyWhenFull`, by counting
   the addresses of a table in which a probe found no free slot.
4. `Identities`: identities lie between 1 and `thread_count` and differ; with
   it `LockDiscipline`: the lock has a holder exactly while a thread is in a
   critical section or stopped there by its report. Identities are needed
   because a report names its reporter by one: a thread that died in `drt_die`
   has none and cannot be taken for it.
5. `Sentinel`: the clock of a slot nobody has is 0 everywhere, and the first
   access of an address therefore never looks like a race; with it
   `NoPhantomRace`.
6. `ClockStep` and `ClockLead`: what one step does to clocks, the lead of one
   tick, and monotonicity.

**Thread sanitizer under a program** (`TsanProgram_proofs`). Each step of the
composition is a step of `Tsan` (`ProgramIsTsan`), so that all of the above
holds of it. `Lives` says who creates, uses and destroys a mutex, and
`MutexTable` that the table has at most one entry for a mutex, none for a dead
one, and one for each live one if there is room. `Knowledge` says that a thread
to which a silent thread handed over knows its clock, through the mutex they
used.

**Leak sanitizer** (`Lsan_proofs`). `IInv` types the tables and says where the
holder of the lock is. `HeapInv` adds that a block in the program's hands has
one active record; the blocks between `malloc` and the hook after it, between
the hook and `free`, and those in `strayed` are the exceptions, and a step with
the tracker off does nothing but add to these (`StrayKeeps`). `RootInv` says the
like of roots; removal moves the last root, which is right because roots are
different. `ScanInv` follows a check through its loops: each record found has,
in no word read so far, been pointed to all the time since the check began, and
each one left out has been pointed to by some word (`FoundBy`), whatever was
written meanwhile (`Watched` keeps `seen` ahead of `mem`). A block reachable by
steady pointers that is reported would have such a pointer in a block or root
that was scanned whole.

**Address sanitizer** (`Asan_proofs`). A byte of the shadow is `Right` for a
granule if it says of its bytes what `bad` and `lost` do. `ToBe`: the last value
a thread has still to store in a granule is right for what the program has asked
for. `AsIs`: so is what is stored in a granule nobody is changing. `Exclusive`:
no two threads change one granule. The work is in the lemmas on what
`asan_poison_range`, `asan_unpoison_range`, the frame and the global hooks
store, wherever in a granule their ranges end, and in that the granule of the
first byte tells all the check can know.

**Memory sanitizer** (`Msan_proofs`). `Typing` and `Control`; the counter by
counting the threads between the atomic add and the store of 2. `Pending` and
`Exact` are as `ToBe` and `AsIs` above, for two windows; `NotYet` is about the
time before they are mapped, `OriginsGiven` says that memory names only origins
that were given out or made up, and `Fresh` that a record somebody fills in has
not been given out until the counter wraps.

**Handlers and output** (`Ubsan_proofs`). `Discipline` and `Whole`: a thread
inside a locked report holds the lock, and nobody else has printed under it
since it began. For the text: `drt_putn` takes digits off a number until
nothing is left, the text of C is stated by position. `BufIsDigits` shows by
strong induction over the number that the buffer holds the digits by position,
and `PlacesIs` that there are as many as places; with the sign, the padding and
the widths of arguments, `ExpandIs` says that the code makes of each directive
just the texts of C, except where the padding loop never ends (`Short`). The
invariant `AllSay` then says that what was printed followed by what is to be
printed is what was asked for. The recursion of `Buf` and `Power` is that of
functions on the natural numbers, and the inductions are on the least
counterexample.

**Internal allocator and control flow integrity** (`Cfi_proofs`). The allocator
implements `RegionAlloc`, alone and under the control flow runtime. The
invariant is that every block ends at or below the counter and that a thread
about to swap has checked the capacity for the value it loaded. A swap that
succeeds has found the counter at that value, whatever happened in between, so
its block begins at or above the counter and is disjoint from all others: this
is why ABA is harmless. Hence no two threads fill one entry (`OwnEntries`).
`Ranked` gives each filled entry a rank above that of the next one, so that
lists end although heads are overwritten; `AloneInserts` and `KeptListed` say
that an insert which met no other walks down the list its bucket still has, and
that a kept key is on that list and on each list about to take its place.

What stays with TLC:

* Liveness: `LockReleased`, `ErrorsAbort`, `ReportEndsInAbort`. The prover has
  no rule for fairness and `ENABLED` here.
* The four violation runs: a counterexample is a behaviour of an instance.

## 6. Not modelled, and the plan

Not modelled:

* The text of the reports of all runtimes but the handlers of undefined
  behaviour; timestamps, the walk over the frames of a stack, the values
  atomics load and store.
* The fake stacks of the address sanitizer: two static functions that nothing
  calls, so that the table is always empty and `__asan_handle_no_return`, which
  clears it, changes nothing.
* `__asan_memcpy` and `__asan_memset`, which check nothing and only change the
  program's memory.
* `__asan_address_is_poisoned`, which returns whether a shadow byte is not 0, and
  `__asan_describe_address`, which prints one without the lock.
* The platform layer but for what its callers see: abort stops one processor,
  a mapping may fail or replace what was there, text comes out in order.
* Formats that end inside a directive.
* The build.

A thread that sees the flag of `__asan_init` or `__msan_init` before the memory
is mapped faults. `Asan` and `Msan` have these steps and no property excludes
them, as the code does not.

Plan for what is left, all of it proof:

1. `Msan` without `Apart`: exactness for the addresses whose cells do not
   overlap those of others in use.
2. `TsanProgram`: the half of happens-before that holds with `Prompt` and
   without announced mutexes, for threads that are not silent.
3. `Lsan`: which of the blocks in `strayed` still have a record, as a function
   of what happened while tracking was off.
