---------------------------------- MODULE Msan ----------------------------------
(***************************************************************************)
(* The memory sanitizer, src/src/msan/msan_rtl.c, and the program that     *)
(* calls it.                                                               *)
(*                                                                         *)
(* Shadow and origins are two windows on one address space: `mem' is that  *)
(* space from MSAN_ORIGIN_BASE on.  The origin of an address takes         *)
(* OriginSize bytes, so the two windows meet where an address is Gap       *)
(* divided by OriginSize.  Both are written without a lock, cell by cell.  *)
(* The records of origins are a table that is reused from its start when   *)
(* the counter reaches its end.                                            *)
(*                                                                         *)
(* Left out: the text and the timestamps of a report, __msan_get_track_-   *)
(* origins (a constant 1).  A captured stack is the thread it was captured *)
(* in.  Origins have fewer than 256 records, so that an origin is its      *)
(* lowest byte.                                                            *)
(***************************************************************************)
EXTENDS Integers, Sequences, FiniteSets

CONSTANTS
  Threads,     \* the threads of the program
  Addrs,       \* the addresses it uses
  Ranges,      \* the ranges it passes: records [beg, size]
  Seeds,       \* the origins it makes up itself
  Stored,      \* the origins it sets and chains, once it has been given them
  Gap,         \* MSAN_SHADOW_BASE - MSAN_ORIGIN_BASE
  MapSize,     \* the size of each of the two maps
  OriginSize,  \* sizeof(uint32_t)
  MaxOrigins,  \* MSAN_MAX_ORIGINS
  MapFails,    \* may drt_arch_map_shadow_memory fail?
  Printable,   \* the addresses with as many digits as %p wants
  NoThread     \* msan_lock is free; an empty stack

Uninitialized == 255
BytesOf(r) == r.beg .. r.beg + r.size - 1

\* msan_shadow_ptr and msan_origin_ptr.
Shadow(a) == Gap + a
Origin(a) == OriginSize * a

OriginCells(a) == Origin(a) .. Origin(a) + OriginSize - 1

\* The part of the two windows that concerns the addresses of the program.
Cells == {Shadow(a) : a \in Addrs} \cup UNION {OriginCells(a) : a \in Addrs}

ASSUME MsanConstants ==
  /\ NoThread \notin Threads /\ IsFiniteSet(Threads)
  /\ Addrs \subseteq Nat \ {0} /\ Printable \subseteq Addrs
  /\ \A r \in Ranges : r.beg \in Nat /\ r.size \in Nat \ {0} /\ BytesOf(r) \subseteq Addrs
  /\ {Gap, MapSize, OriginSize} \subseteq Nat \ {0} /\ Gap <= MapSize
  /\ MaxOrigins \in 3 .. 256 /\ Seeds \cup Stored \subseteq 1 .. MaxOrigins - 1
  /\ MapFails \in BOOLEAN

VARIABLES
  msan_initialized,
  mapped,    \* the cells that are mapped
  mem,       \* their contents
  counter,   \* msan_origin_counter
  origins,   \* msan_origins: whether a record is active, and its stack
  lock,      \* the holder of msan_lock
  pc,        \* where a thread is in the runtime; "run" is outside it
  todo,      \* the cells it has still to write: [cell, value]
  arg,       \* the range it checks, or the origins parent and id
  asked,     \* history: what the program last asked for, by address
  known,     \* history: the origins the program has been given
  wrapped    \* history: the table of records has been used up

runtime == <<msan_initialized, mapped, mem, counter, origins, lock, pc, todo, arg>>
vars == <<runtime, asked, known, wrapped>>

NoArg == [beg |-> 0, size |-> 0, parent |-> 0, id |-> 0]

Init ==
  /\ msan_initialized = FALSE /\ mapped = {}
  /\ mem = [c \in Cells |-> 0]
  /\ counter = 1
  /\ origins = [i \in 0 .. MaxOrigins - 1 |-> [active |-> FALSE, stack |-> NoThread]]
  /\ lock = NoThread
  /\ pc = [t \in Threads |-> "run"]
  /\ todo = [t \in Threads |-> <<>>]
  /\ arg = [t \in Threads |-> NoArg]
  /\ asked = [a \in Addrs |-> [bad |-> FALSE, origin |-> 0, early |-> FALSE]]
  /\ known = Seeds /\ wrapped = FALSE

---------------------------------------------------------------------------------
(* The stores of a hook, in order: len cells, of which only the first may be *)
(* other than 0.                                                             *)

\* Slip: the last byte of the range is left out.
FillShort(r, value) == [i \in 1 .. r.size - 1 |-> [cell |-> Shadow(r.beg + i - 1), value |-> value, len |-> 1]]

Fill(r, value) == [i \in 1 .. r.size |-> [cell |-> Shadow(r.beg + i - 1), value |-> value, len |-> 1]]

FillOrigins(r, id) == [i \in 1 .. r.size |-> [cell |-> Origin(r.beg + i - 1), value |-> id, len |-> OriginSize]]

CellsOf(w) == w.cell .. w.cell + w.len - 1

---------------------------------------------------------------------------------
(* What the program may ask. *)

\* The first __msan_init has not returned yet.
Booting == \E t \in Threads : pc[t] \in {"map_shadow", "map_origin"}

\* No other thread is changing or checking a byte of the range.
Alone(r) == \A t \in Threads : pc[t] \notin {"run", "abort"} => BytesOf(arg[t]) \cap BytesOf(r) = {}

\* The program takes any __msan_init for done once it sees one.
Enter(t, r, where, stores) ==
  /\ pc[t] = "run" /\ msan_initialized /\ Alone(r)
  /\ pc' = [pc EXCEPT ![t] = where]
  /\ arg' = [arg EXCEPT ![t] = [NoArg EXCEPT !.beg = r.beg, !.size = r.size]]
  /\ todo' = [todo EXCEPT ![t] = stores]
  /\ UNCHANGED <<msan_initialized, mapped, mem, counter, origins, lock, known, wrapped>>

Ask(r, wish) == asked' = [a \in Addrs |-> IF a \in BytesOf(r) THEN wish[a] ELSE asked[a]]

__msan_init(t) ==
  /\ pc[t] = "run"
  /\ pc' = [pc EXCEPT ![t] = "init"]
  /\ UNCHANGED <<msan_initialized, mapped, mem, counter, origins, lock, todo, arg, asked, known, wrapped>>

\* Slip: the origins of the memory are kept.
UnpoisonShadowOnly(t, r) ==
  /\ Enter(t, r, "write", Fill(r, 0))
  /\ Ask(r, [a \in Addrs |-> [bad |-> FALSE, origin |-> 0, early |-> Booting]])

__msan_unpoison(t, r) ==
  /\ Enter(t, r, "write", Fill(r, 0) \o FillOrigins(r, 0))
  /\ Ask(r, [a \in Addrs |-> [bad |-> FALSE, origin |-> 0, early |-> Booting]])

\* The origins stay what they are.
__msan_poison(t, r) ==
  /\ Enter(t, r, "write", Fill(r, Uninitialized))
  /\ Ask(r, [a \in Addrs |-> [asked[a] EXCEPT !.bad = TRUE, !.early = @ \/ Booting]])

__msan_set_origin(t, r, id) ==
  /\ id \in known
  /\ Enter(t, r, "write", FillOrigins(r, id))
  /\ Ask(r, [a \in Addrs |-> [asked[a] EXCEPT !.origin = id, !.early = @ \/ Booting]])

__msan_check_mem_is_initialized(t, r) == Enter(t, r, "check", <<>>) /\ UNCHANGED asked

\* Of an origin the program made up or was given; for 0 nothing happens.
__msan_chain_origin(t, origin) ==
  /\ pc[t] = "run" /\ origin \in known
  /\ pc' = [pc EXCEPT ![t] = "add"]
  /\ arg' = [arg EXCEPT ![t] = [NoArg EXCEPT !.parent = origin]]
  /\ UNCHANGED <<msan_initialized, mapped, mem, counter, origins, lock, todo, asked, known, wrapped>>

__msan_warning_noreturn(t) ==
  /\ pc[t] = "run"
  /\ pc' = [pc EXCEPT ![t] = "abort"]
  /\ UNCHANGED <<msan_initialized, mapped, mem, counter, origins, lock, todo, arg, asked, known, wrapped>>

Program(t) ==
  \/ __msan_init(t)
  \/ \E r \in Ranges :
       \/ __msan_unpoison(t, r) \/ __msan_poison(t, r) \/ __msan_check_mem_is_initialized(t, r)
       \/ \E id \in Stored : __msan_set_origin(t, r, id)
  \/ \E origin \in Seeds \cup Stored : __msan_chain_origin(t, origin)
  \/ __msan_warning_noreturn(t)

---------------------------------------------------------------------------------
(* Steps of a hook. *)

Goto(t, where) == pc' = [pc EXCEPT ![t] = where]
Return(t) == Goto(t, "run") /\ arg' = [arg EXCEPT ![t] = NoArg]

\* The flag is set before anything is mapped.
Exchange(t) ==
  /\ pc[t] = "init"
  /\ msan_initialized' = TRUE
  /\ Goto(t, IF msan_initialized THEN "run" ELSE "map_shadow")
  /\ UNCHANGED <<mapped, mem, counter, origins, lock, todo, arg, asked, known, wrapped>>

\* drt_arch_map_shadow_memory: a map that overlaps an earlier one replaces it
\* by zeros.  A failure is not looked at.
MapAt(base) ==
  LET new == base .. base + MapSize - 1 IN
  \/ mapped' = mapped \cup (new \cap Cells) /\ mem' = [c \in Cells |-> IF c \in new THEN 0 ELSE mem[c]]
  \/ MapFails /\ UNCHANGED <<mapped, mem>>

MapShadow(t) ==
  /\ pc[t] = "map_shadow" /\ MapAt(Gap) /\ Goto(t, "map_origin")
  /\ UNCHANGED <<msan_initialized, counter, origins, lock, todo, arg, asked, known, wrapped>>

MapOrigin(t) ==
  /\ pc[t] = "map_origin" /\ MapAt(0) /\ Goto(t, "run")
  /\ UNCHANGED <<msan_initialized, counter, origins, lock, todo, arg, asked, known, wrapped>>

\* A cell that is not mapped faults; under the lock that is as bad as a hang.
Fault(t, S, where) ==
  /\ ~(S \subseteq mapped)
  /\ Goto(t, where)
  /\ UNCHANGED <<msan_initialized, mapped, mem, counter, origins, lock, todo, arg, asked, known, wrapped>>

Write(t) ==
  LET w == Head(todo[t]) IN
  /\ pc[t] = "write" /\ todo[t] # <<>>
  /\ \/ Fault(t, CellsOf(w), "fault")
     \/ /\ CellsOf(w) \subseteq mapped
        /\ mem' = [c \in Cells |-> IF c = w.cell THEN w.value ELSE IF c \in CellsOf(w) THEN 0 ELSE mem[c]]
        /\ todo' = [todo EXCEPT ![t] = Tail(@)]
        /\ IF Len(todo[t]) = 1 THEN Return(t) ELSE UNCHANGED <<pc, arg>>
        /\ UNCHANGED <<msan_initialized, mapped, counter, origins, lock, asked, known, wrapped>>

\* Slip: only the first byte is looked at.
CheckFirstOnly(t) ==
  LET a == arg[t] IN
  /\ pc[t] = "check"
  /\ \/ Fault(t, {Shadow(a.beg)}, "fault")
     \/ /\ Shadow(a.beg) \in mapped
        /\ \/ mem[Shadow(a.beg)] = 0 /\ Return(t)
           \/ mem[Shadow(a.beg)] # 0 /\ Goto(t, "report") /\ UNCHANGED arg
        /\ UNCHANGED <<msan_initialized, mapped, mem, counter, origins, lock, todo, asked, known, wrapped>>

\* The next byte of a check; the rest of the range is what a report is about.
CheckByte(t) ==
  LET a == arg[t] IN
  /\ pc[t] = "check"
  /\ \/ Fault(t, {Shadow(a.beg)}, "fault")
     \/ /\ Shadow(a.beg) \in mapped
        /\ \/ mem[Shadow(a.beg)] = 0 /\ a.size = 1 /\ Return(t)
           \/ mem[Shadow(a.beg)] = 0 /\ a.size > 1
              /\ arg' = [arg EXCEPT ![t].beg = @ + 1, ![t].size = @ - 1] /\ UNCHANGED pc
           \/ mem[Shadow(a.beg)] # 0 /\ Goto(t, "report") /\ UNCHANGED arg
        /\ UNCHANGED <<msan_initialized, mapped, mem, counter, origins, lock, todo, asked, known, wrapped>>

Acquire(t) ==
  /\ pc[t] \in {"report", "chain"} /\ lock = NoThread
  /\ lock' = t
  /\ Goto(t, IF pc[t] = "report" THEN "print" ELSE "copy")
  /\ UNCHANGED <<msan_initialized, mapped, mem, counter, origins, todo, arg, asked, known, wrapped>>

\* The address is shorter than its field: the report never ends, and the lock
\* is never released.
Hang(t) ==
  /\ pc[t] = "print" /\ arg[t].beg \notin Printable
  /\ Goto(t, "stuck")
  /\ UNCHANGED <<msan_initialized, mapped, mem, counter, origins, lock, todo, arg, asked, known, wrapped>>

\* A number with a byte other than the lowest set is past the table.
LoadOrigin(a) ==
  IF \A i \in 1 .. OriginSize - 1 : mem[Origin(a) + i] = 0 THEN mem[Origin(a)] ELSE MaxOrigins

\* The report says which origin it is, if there is a record of it.
PrintOrigin(t) ==
  LET cells == OriginCells(arg[t].beg)
      oid == LoadOrigin(arg[t].beg)
      has == oid # 0 /\ oid < MaxOrigins /\ origins[oid].active
  IN
  /\ pc[t] = "print" /\ arg[t].beg \in Printable
  /\ \/ Fault(t, cells, "stuck")
     \/ /\ cells \subseteq mapped
        /\ arg' = [arg EXCEPT ![t].id = IF has THEN oid ELSE 0]
        /\ Goto(t, IF has THEN "print_stack" ELSE "printed")
        /\ UNCHANGED <<msan_initialized, mapped, mem, counter, origins, lock, todo, asked, known, wrapped>>

\* ... and then its stack.
PrintStack(t) ==
  /\ pc[t] = "print_stack"
  /\ Goto(t, "printed")
  /\ UNCHANGED <<msan_initialized, mapped, mem, counter, origins, lock, todo, arg, asked, known, wrapped>>

Abort(t) ==
  /\ pc[t] = "printed"
  /\ lock' = NoThread
  /\ Goto(t, "abort")
  /\ arg' = [arg EXCEPT ![t] = NoArg]
  /\ UNCHANGED <<msan_initialized, mapped, mem, counter, origins, todo, asked, known, wrapped>>

\* Slip: an identifier one past the table.
TakeIdOneTooMany(t) ==
  /\ pc[t] = "add"
  /\ counter' = counter + 1
  /\ wrapped' = (wrapped \/ counter' > MaxOrigins)
  /\ arg' = [arg EXCEPT ![t].id = IF counter' > MaxOrigins THEN 1 ELSE counter']
  /\ Goto(t, IF counter' > MaxOrigins THEN "wrap" ELSE "fill")
  /\ UNCHANGED <<msan_initialized, mapped, mem, origins, lock, todo, asked, known>>

\* Slip: the add is lost.
TakeIdUncounted(t) ==
  /\ pc[t] = "add"
  /\ wrapped' = (wrapped \/ counter + 1 >= MaxOrigins)
  /\ arg' = [arg EXCEPT ![t].id = IF counter + 1 >= MaxOrigins THEN 1 ELSE counter + 1]
  /\ Goto(t, IF counter + 1 >= MaxOrigins THEN "wrap" ELSE "fill")
  /\ UNCHANGED <<msan_initialized, mapped, mem, counter, origins, lock, todo, asked, known>>

\* The atomic add of msan_alloc_origin; the end of the table wraps.
TakeId(t) ==
  /\ pc[t] = "add"
  /\ counter' = counter + 1
  /\ wrapped' = (wrapped \/ counter' >= MaxOrigins)
  /\ arg' = [arg EXCEPT ![t].id = IF counter' >= MaxOrigins THEN 1 ELSE counter']
  /\ Goto(t, IF counter' >= MaxOrigins THEN "wrap" ELSE "fill")
  /\ UNCHANGED <<msan_initialized, mapped, mem, origins, lock, todo, asked, known>>

\* Slip: the counter is not set back.
WrapNoStore(t) ==
  /\ pc[t] = "wrap"
  /\ Goto(t, "fill")
  /\ UNCHANGED <<msan_initialized, mapped, mem, counter, origins, lock, todo, arg, asked, known, wrapped>>

\* A store of its own: what others added in between is lost.
Wrap(t) ==
  /\ pc[t] = "wrap"
  /\ counter' = 2
  /\ Goto(t, "fill")
  /\ UNCHANGED <<msan_initialized, mapped, mem, origins, lock, todo, arg, asked, known, wrapped>>

\* The record is filled in without the lock.
Activate(t) ==
  /\ pc[t] = "fill"
  /\ origins' = [origins EXCEPT ![arg[t].id].active = TRUE]
  /\ Goto(t, "capture")
  /\ UNCHANGED <<msan_initialized, mapped, mem, counter, lock, todo, arg, asked, known, wrapped>>

Capture(t) ==
  /\ pc[t] = "capture"
  /\ origins' = [origins EXCEPT ![arg[t].id].stack = t]
  /\ Goto(t, "chain")
  /\ UNCHANGED <<msan_initialized, mapped, mem, counter, lock, todo, arg, asked, known, wrapped>>

\* Then the stack of the parent takes the place of the one captured.
CopyStack(t) ==
  /\ pc[t] = "copy"
  /\ origins' = [origins EXCEPT ![arg[t].id].stack = origins[arg[t].parent].stack]
  /\ known' = known \cup {arg[t].id}
  /\ lock' = NoThread
  /\ Return(t)
  /\ UNCHANGED <<msan_initialized, mapped, mem, counter, todo, asked, wrapped>>

Step(t) ==
  \/ Exchange(t) \/ MapShadow(t) \/ MapOrigin(t) \/ Write(t) \/ CheckByte(t)
  \/ Acquire(t) \/ Hang(t) \/ PrintOrigin(t) \/ PrintStack(t) \/ Abort(t)
  \/ TakeId(t) \/ Wrap(t) \/ Activate(t) \/ Capture(t) \/ CopyStack(t)

Next == \E t \in Threads : Program(t) \/ Step(t)

Spec == Init /\ [][Next]_vars

---------------------------------------------------------------------------------
(* Properties. *)

\* Every store stays in the two windows, every identifier in the table of
\* records, through any number of racing wrap-arounds, and the lock is held
\* exactly while a report is printed or a stack copied.
TypeOK ==
  /\ msan_initialized \in BOOLEAN /\ wrapped \in BOOLEAN
  /\ mapped \subseteq Cells
  /\ mem \in [Cells -> 0 .. 255]
  /\ counter \in Nat
  /\ origins \in [0 .. MaxOrigins - 1 -> [active : BOOLEAN, stack : Threads \cup {NoThread}]]
  /\ pc \in [Threads -> {"run", "init", "map_shadow", "map_origin", "write", "check", "report", "print",
       "print_stack", "printed", "stuck", "abort", "fault", "add", "wrap", "fill", "capture", "chain", "copy"}]
  /\ \A t \in Threads : \A i \in DOMAIN todo[t] : CellsOf(todo[t][i]) \subseteq Cells
  /\ \A t \in Threads : {arg[t].id, arg[t].parent} \subseteq 0 .. MaxOrigins - 1
  /\ known \subseteq 0 .. MaxOrigins - 1
  /\ lock \in Threads \cup {NoThread}
  /\ \A t \in Threads : lock = t <=>
       pc[t] \in {"print", "print_stack", "printed", "stuck", "copy"}

\* All that concerns an address has been written, to memory that was there.
Settled(a) ==
  /\ mapped = Cells /\ ~Booting /\ ~asked[a].early
  /\ \A t \in Threads : \A i \in DOMAIN todo[t] : todo[t][i].cell \notin {Shadow(a), Origin(a)}

\* "Shadow memory tracking for uninitialized reads": after any series of hooks
\* of several threads that keep addresses apart, the shadow of an address says
\* what the program last asked for.
ShadowExact ==
  \A a \in Addrs : Settled(a) => (mem[Shadow(a)] # 0 <=> asked[a].bad)

\* The origin of an address is the one last set since the program last unpoisoned
\* it: poisoning it again without unpoisoning it first leaves it the origin that it
\* had.
OriginExact == \A a \in Addrs : Settled(a) => LoadOrigin(a) = asked[a].origin

\* A check of several bytes, one by one, passes over a byte only if it is
\* initialised, and reports one only if it is not.
CheckExact ==
  [][\A t \in Threads : pc[t] = "check" =>
       /\ pc'[t] = "report" /\ Settled(arg[t].beg) => asked[arg[t].beg].bad
       /\ pc'[t] # "report" =>
            \A a \in BytesOf(arg[t]) \ BytesOf(arg'[t]) : Settled(a) => ~asked[a].bad]_vars

\* However many threads pass the end of the table at once, the counter is
\* ahead of it by no more than those that have still to store 2: it never
\* overflows.
CounterBounded == counter < MaxOrigins + Cardinality({t \in Threads : pc[t] = "wrap"})

\* Until the table is used up, the record of an origin that the program was given
\* is, in a report, not one that another thread is filling in, although it is
\* filled in without the lock.  Of an origin the program made up itself nothing is
\* said: it may be the next one to be given, whose record is active before it has
\* a stack.
NoTornReport ==
  \A t, u \in Threads :
    /\ pc[t] = "print_stack" /\ ~wrapped /\ arg[t].id \notin Seeds
    /\ pc[u] \in {"fill", "capture", "chain", "copy"}
    => arg[u].id # arg[t].id
=============================================================================
