---------------------------------- MODULE Asan ----------------------------------
(***************************************************************************)
(* The address sanitizer, src/src/asan/asan_rtl.c and asan_hooks.c, and    *)
(* the program that calls it.                                              *)
(*                                                                         *)
(* Shadow memory has one byte per granule of Grain bytes: 0, the number of *)
(* leading bytes that may be accessed, or a poison code.  Hooks write it   *)
(* byte by byte without a lock, so a hook that changes it is a list of     *)
(* writes still to do.  A checked access reads one shadow byte; an error   *)
(* is printed under asan_lock, and then the thread aborts.                 *)
(*                                                                         *)
(* Left out: the text of a report; which of the poison codes a byte has    *)
(* (they are never told apart); __asan_address_is_poisoned, which returns  *)
(* whether a shadow byte is 0 and changes nothing; __asan_describe_address, *)
(* which prints a shadow byte without the lock; the fake stacks, whose two *)
(* functions nothing calls, so that __asan_handle_no_return finds none in  *)
(* use.                                                                    *)
(***************************************************************************)
EXTENDS Integers, Sequences, SequencesExt

CONSTANTS
  Threads,    \* the threads of the program
  Granules,   \* the memory is the granules 0 .. Granules - 1
  Grain,      \* ASAN_SHADOW_GRAIN
  Regions,    \* what it poisons and unpoisons: records [beg, size]
  Globals,    \* arrays of globals: sequences of records [beg, size, padded]
  Frames,     \* what it passes to __asan_set_shadow_XX: records [beg, size]
  Accesses,   \* what it accesses: records [beg, size]
  MapFails,   \* may drt_arch_map_shadow_memory fail?
  Printable,  \* the addresses whose 16 digits "%p" can print
  ShortStacks, \* may an address of a stack trace have fewer digits?
  NoThread    \* asan_lock is free

Poison == 255        \* stands for every code from Grain on
Bytes == 0 .. Granules * Grain - 1
Shadow(a) == a \div Grain
BytesOf(r) == r.beg .. r.beg + r.size - 1
Padded(g) == [beg |-> g.beg, size |-> g.padded]   \* a global with its redzone

ASSUME AsanConstants ==
  /\ NoThread \notin Threads
  /\ Granules \in Nat \ {0} /\ Grain \in 2 .. Poison
  /\ \A r \in Regions \cup Accesses : r.beg \in Bytes /\ r.size \in Nat \ {0} /\ BytesOf(r) \subseteq Bytes
  /\ \A r \in Frames :
       {r.beg, r.size} \subseteq Nat /\ r.beg % Grain = 0 /\ r.size % Grain = 0 /\ BytesOf(r) \subseteq Bytes
  /\ \A gs \in Globals :
       /\ gs \in Seq([beg : Nat, size : Nat, padded : Nat])
       /\ \A i \in DOMAIN gs :
            /\ gs[i].beg % Grain = 0 /\ gs[i].padded % Grain = 0 /\ gs[i].size <= gs[i].padded
            /\ BytesOf(Padded(gs[i])) \subseteq Bytes
       /\ \A i, j \in DOMAIN gs : i # j => BytesOf(Padded(gs[i])) \cap BytesOf(Padded(gs[j])) = {}
  /\ Printable \subseteq Bytes /\ {MapFails, ShortStacks} \subseteq BOOLEAN

VARIABLES
  asan_initialized,
  mapped,    \* is the shadow mapped?
  shadow,    \* the shadow byte of each granule
  lock,      \* the holder of asan_lock
  pc,        \* where a thread is in the runtime; "run" is outside it
  todo,      \* the shadow bytes it has still to write: <<granule, value>>
  access,    \* the access it is reporting, with the shadow byte it found
  bad,       \* history: the bytes the program last asked to poison
  lost,      \* history: the bytes of which a later range, in rounding itself
             \*   to granules, has undone what the program last asked
  reports    \* history: the errors printed, in order

vars == <<asan_initialized, mapped, shadow, lock, pc, todo, access, bad, lost, reports>>

NoAccess == [beg |-> 0, size |-> 0, value |-> 0]

Init ==
  /\ asan_initialized = FALSE /\ mapped = FALSE
  /\ shadow = [g \in 0 .. Granules - 1 |-> 0]
  /\ lock = NoThread
  /\ pc = [t \in Threads |-> "run"]
  /\ todo = [t \in Threads |-> <<>>]
  /\ access = [t \in Threads |-> NoAccess]
  /\ bad = {} /\ lost = {} /\ reports = <<>>

---------------------------------------------------------------------------------
(* The shadow bytes a range hook writes, in order. *)

Fill(beg, size, value) ==
  IF size = 0 THEN <<>>
  ELSE [i \in 1 .. Shadow(beg + size - 1) - Shadow(beg) + 1 |-> <<Shadow(beg) + i - 1, value>>]

\* Slip: the granule the range starts in is poisoned as a whole.
PoisonWhole(beg, size) == Fill(beg, size, Poison)

asan_poison_range(beg, size) ==
  Fill(beg, size, Poison) \o
    IF size > 0 /\ beg % Grain # 0 THEN << <<Shadow(beg), beg % Grain>> >> ELSE <<>>

asan_unpoison_range(beg, size) == Fill(beg, size, 0)

misan_set_shadow(beg, size, value) ==
  [i \in 1 .. size \div Grain |-> <<Shadow(beg) + i - 1, value>>]

RegisterWrites(g) ==
  asan_unpoison_range(g.beg, g.size) \o asan_poison_range(g.beg + g.size, g.padded - g.size)

UnregisterWrites(g) == asan_poison_range(g.beg, g.padded)

---------------------------------------------------------------------------------
(* What the program may ask. *)

Pending == UNION {{todo[t][i][1] : i \in DOMAIN todo[t]} : t \in Threads}

\* The bytes of the granules of a range before and after it.
Before(r) == Shadow(r.beg) * Grain .. r.beg - 1
After(r) == r.beg + r.size .. (Shadow(r.beg + r.size - 1) + 1) * Grain - 1

Rounded(r) == Before(r) \cup BytesOf(r) \cup After(r)

\* The program has no two threads change the shadow of a granule at a time.
Alone(r) == \A g \in Pending : ~(Shadow(r.beg) <= g /\ g <= Shadow(r.beg + r.size - 1))

Enter(t, writes, where) ==
  /\ pc[t] = "run"
  /\ pc' = [pc EXCEPT ![t] = where]
  /\ todo' = [todo EXCEPT ![t] = writes]
  /\ UNCHANGED <<asan_initialized, mapped, shadow, lock, access, reports>>

\* A range decides about the whole of its granules.  Poisoning one frees the bytes
\* before it and poisons the bytes after it; unpoisoning one frees both.
__asan_poison_memory_region(t, r) ==
  /\ Alone(r)
  /\ Enter(t, asan_poison_range(r.beg, r.size), "write")
  /\ bad' = bad \cup BytesOf(r)
  /\ lost' = (lost \ Rounded(r)) \cup (Before(r) \cap bad) \cup (After(r) \ bad)

__asan_unpoison_memory_region(t, r) ==
  /\ Alone(r)
  /\ Enter(t, asan_unpoison_range(r.beg, r.size), "write")
  /\ bad' = bad \ BytesOf(r)
  /\ lost' = (lost \ Rounded(r)) \cup ((Before(r) \cup After(r)) \cap bad)

__asan_set_shadow(t, r, value) ==
  /\ Alone(r)
  /\ Enter(t, misan_set_shadow(r.beg, r.size, value), "write")
  /\ bad' = IF value = 0 THEN bad \ BytesOf(r) ELSE bad \cup BytesOf(r)
  /\ lost' = lost \ BytesOf(r)

Redzones(gs) == UNION {BytesOf(Padded(gs[i])) \ BytesOf(gs[i]) : i \in DOMAIN gs}
AllBytes(gs) == UNION {BytesOf(Padded(gs[i])) : i \in DOMAIN gs}

\* Initialises the runtime first if it finds it is not.
__asan_register_globals(t, gs) ==
  /\ \A i \in DOMAIN gs : Alone(Padded(gs[i]))
  /\ Enter(t, FlattenSeq([i \in DOMAIN gs |-> RegisterWrites(gs[i])]),
           IF asan_initialized THEN "write" ELSE "init")
  /\ bad' = (bad \ AllBytes(gs)) \cup Redzones(gs)
  /\ lost' = lost \ AllBytes(gs)

__asan_unregister_globals(t, gs) ==
  /\ \A i \in DOMAIN gs : Alone(Padded(gs[i]))
  /\ Enter(t, FlattenSeq([i \in DOMAIN gs |-> UnregisterWrites(gs[i])]), "write")
  /\ bad' = bad \cup AllBytes(gs)
  /\ lost' = lost \ AllBytes(gs)

__asan_init(t) == Enter(t, <<>>, "init") /\ UNCHANGED <<bad, lost>>

---------------------------------------------------------------------------------
(* Steps of a hook. *)

\* The flag is set before the shadow is there.
Exchange(t) ==
  /\ pc[t] = "init"
  /\ asan_initialized' = TRUE
  /\ pc' = [pc EXCEPT ![t] = IF asan_initialized THEN "write" ELSE "map"]
  /\ UNCHANGED <<mapped, shadow, lock, todo, access, bad, lost, reports>>

\* A failure is not looked at.
Map(t) ==
  /\ pc[t] = "map"
  /\ mapped' \in IF MapFails THEN BOOLEAN ELSE {TRUE}
  /\ pc' = [pc EXCEPT ![t] = "write"]
  /\ UNCHANGED <<asan_initialized, shadow, lock, todo, access, bad, lost, reports>>

\* A shadow byte that is not mapped faults.
Write(t) ==
  /\ pc[t] = "write" /\ todo[t] # <<>>
  /\ \/ /\ mapped
        /\ shadow' = [shadow EXCEPT ![Head(todo[t])[1]] = Head(todo[t])[2]]
        /\ todo' = [todo EXCEPT ![t] = Tail(@)]
        /\ UNCHANGED pc
     \/ /\ ~mapped
        /\ pc' = [pc EXCEPT ![t] = "fault"]
        /\ UNCHANGED <<shadow, todo>>
  /\ UNCHANGED <<asan_initialized, mapped, lock, access, bad, lost, reports>>

Done(t) ==
  /\ pc[t] = "write" /\ todo[t] = <<>>
  /\ pc' = [pc EXCEPT ![t] = "run"]
  /\ UNCHANGED <<asan_initialized, mapped, shadow, lock, todo, access, bad, lost, reports>>

\* Slip: the offset of the access in its granule is forgotten.
PassesFromStart(a) ==
  LET v == shadow[Shadow(a.beg)] IN v = 0 \/ (v < Grain /\ a.size <= v)

\* asan_check_access looks at the granule of the first byte.
Passes(a) ==
  LET v == shadow[Shadow(a.beg)] IN v = 0 \/ (v < Grain /\ (a.beg % Grain) + a.size <= v)

\* An instrumented access that does not pass; before __asan_init all pass.
Access(t, a) ==
  /\ pc[t] = "run" /\ asan_initialized
  /\ \/ mapped /\ ~Passes(a) /\ pc' = [pc EXCEPT ![t] = "report"]
     \/ ~mapped /\ pc' = [pc EXCEPT ![t] = "fault"]
  /\ access' = [access EXCEPT ![t] = [beg |-> a.beg, size |-> a.size,
                                      value |-> shadow[Shadow(a.beg)]]]
  /\ UNCHANGED <<asan_initialized, mapped, shadow, lock, todo, bad, lost, reports>>

\* asan_report_error takes the lock and prints.
Acquire(t) ==
  /\ pc[t] = "report" /\ lock = NoThread
  /\ lock' = t
  /\ pc' = [pc EXCEPT ![t] = "print"]
  /\ UNCHANGED <<asan_initialized, mapped, shadow, todo, access, bad, lost, reports>>

\* The report is printed, the lock released, and the thread aborts.  It prints the
\* address, the shadow byte and a stack trace.
ReportLocked(t) ==
  /\ pc[t] = "print" /\ access[t].beg \in Printable /\ access[t].value >= Grain
  /\ reports' = Append(reports, access[t])
  /\ pc' = [pc EXCEPT ![t] = "abort"]
  /\ UNCHANGED <<asan_initialized, mapped, shadow, lock, todo, access, bad, lost>>

Report(t) ==
  /\ pc[t] = "print" /\ access[t].beg \in Printable /\ access[t].value >= Grain
  /\ reports' = Append(reports, access[t])
  /\ lock' = NoThread
  /\ pc' = [pc EXCEPT ![t] = "abort"]
  /\ UNCHANGED <<asan_initialized, mapped, shadow, todo, access, bad, lost>>

\* A number with fewer digits than its field, an address or the count of a partial
\* granule: drt_putn never ends, and the lock is never released.
Hang(t) ==
  /\ pc[t] = "print"
  /\ access[t].beg \notin Printable \/ access[t].value < Grain \/ ShortStacks
  /\ pc' = [pc EXCEPT ![t] = "stuck"]
  /\ UNCHANGED <<asan_initialized, mapped, shadow, lock, todo, access, bad, lost, reports>>

Program(t) ==
  \/ \E r \in Regions : __asan_poison_memory_region(t, r) \/ __asan_unpoison_memory_region(t, r)
  \/ \E r \in Frames, value \in {0, Poison} : __asan_set_shadow(t, r, value)
  \/ \E gs \in Globals : __asan_register_globals(t, gs) \/ __asan_unregister_globals(t, gs)
  \/ __asan_init(t)
  \/ \E a \in Accesses : Access(t, a)

Step(t) ==
  Exchange(t) \/ Map(t) \/ Write(t) \/ Done(t) \/ Acquire(t) \/ Report(t) \/ Hang(t)

Next == \E t \in Threads : Program(t) \/ Step(t)

Spec == Init /\ [][Next]_vars

\* A thread in the runtime runs on; which thread gets the spin lock is open.
FairSpec == Spec /\ \A t \in Threads : WF_vars(Step(t))

---------------------------------------------------------------------------------
(* Properties. *)

Value == 0 .. Grain - 1 \cup {Poison}

\* Every write stays in the shadow of the memory and writes a value the
\* encoding has, and the lock is held exactly while an error is printed.
TypeOK ==
  /\ asan_initialized \in BOOLEAN /\ mapped \in BOOLEAN
  /\ shadow \in [0 .. Granules - 1 -> Value]
  /\ pc \in [Threads -> {"run", "init", "map", "write", "report", "print", "stuck", "abort", "fault"}]
  /\ todo \in [Threads -> Seq((0 .. Granules - 1) \X Value)]
  /\ access \in [Threads -> [beg : Bytes, size : Nat, value : Value]]
  /\ bad \subseteq Bytes /\ lost \subseteq Bytes
  /\ lock \in Threads \cup {NoThread}
  /\ \A t \in Threads : pc[t] \in {"print", "stuck"} <=> lock = t

Accessible(b) ==
  LET v == shadow[Shadow(b)] IN v = 0 \/ (v < Grain /\ b % Grain < v)

Settled(S) == mapped /\ \A b \in S : Shadow(b) \notin Pending

\* A byte that may be accessed: one the program last asked to be good, or one it
\* asked to poison and lost.
Free(b) == b \in bad <=> b \in lost

\* After any series of calls by several threads, whatever ranges follow each other
\* in a granule, the shadow says of every byte whose shadow is not being changed
\* exactly what the program last asked for, but for the bytes that a later range
\* has not covered and its rounding has freed or poisoned: of those it says the
\* opposite.  The program keeps the calls of two threads out of each other's
\* granules while they run.
ShadowExact ==
  \A b \in Bytes : Settled({b}) => (Accessible(b) <=> Free(b))

FirstGranule(a) == {b \in BytesOf(a) : Shadow(b) = Shadow(a.beg)}

\* An access is reported just when the first granule it touches holds a byte of it
\* that is not free, however many granules it spans: what it touches in the others
\* is never looked at.  While another thread changes the shadow of that granule
\* nothing is said.
AccessJudged ==
  \A a \in Accesses : Settled(FirstGranule(a)) => (Passes(a) <=> \A b \in FirstGranule(a) : Free(b))

\* An error found while others are being reported is printed in its turn, and
\* stops the thread, unless some report hangs.
ErrorsAbort ==
  \A t \in Threads :
    pc[t] = "report" ~> (pc[t] = "abort" \/ \E u \in Threads : pc[u] = "stuck")
=============================================================================
