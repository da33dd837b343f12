---------------------------------- MODULE Tsan ----------------------------------
(***************************************************************************)
(* The thread sanitizer runtime, src/src/tsan/tsan_rtl.c, called by        *)
(* threads that may invoke any hook at any time.                           *)
(*                                                                         *)
(* A hook runs in steps of its own thread: it may first give the thread an *)
(* identity (tsan_get_tid, which holds no lock), then spins for tsan_lock, *)
(* then runs its body.  A body touches only state guarded by the lock, so  *)
(* the body and the unlock that ends it are one step.  A body that reports *)
(* a race never unlocks: drt_arch_abort stops the thread inside the        *)
(* critical section, unless the report itself never ends (drt_putn of an   *)
(* address with fewer digits than %p wants), which comes to the same.      *)
(*                                                                         *)
(* Left out: tsan_shadow_t.vc, tsan_mutex_t.owner_tid and                  *)
(* tsan_thread_t.tid/active, which the code writes and never reads; sizes, *)
(* which every hook ignores; the text of a report.                         *)
(***************************************************************************)
EXTENDS ProbeTable, FiniteSets

CONSTANTS
  Threads,        \* the threads of the program
  Addr,           \* the addresses it passes to hooks (integers)
  Mutexes,        \* those of them that are mutexes
  Ranges,         \* the pairs <<addr, end>> it passes to range hooks
  MaxThreads,     \* TSAN_MAX_THREADS
  ShadowEntries,  \* TSAN_SHADOW_ENTRIES
  MaxMutexes,     \* TSAN_MAX_MUTEXES
  ShadowHash,     \* tsan_shadow_hash, as a function on Addr
  MutexHash,      \* the start slot of tsan_mutex_find, likewise
  MaxClock,       \* bound: a thread whose clock reaches it makes no more calls
  NoThread        \* tsan_lock is free

NullAddr == 0

ASSUME TsanConstants ==
  /\ NoThread \notin Threads
  /\ Addr \subseteq Int /\ NullAddr \notin Addr
  /\ Mutexes \subseteq Addr
  /\ Ranges \subseteq Addr \X Int
  /\ \A r \in Ranges : r[1] < r[2] /\ r[1] .. (r[2] - 1) \subseteq Addr
  /\ MaxThreads \in Nat \ {0}
  /\ ShadowEntries \in Nat \ {0}
  /\ MaxMutexes \in Nat \ {0}
  /\ ShadowHash \in [Addr -> 0 .. ShadowEntries - 1]
  /\ MutexHash \in [Addr -> 0 .. MaxMutexes - 1]
  /\ MaxClock \in Nat

VARIABLES
  thread_count,   \* tsan_thread_count
  current_tid,    \* tsan_current_tid of every thread
  vc,             \* tsan_threads[i].vc
  shadow,         \* tsan_shadow
  mutexes,        \* tsan_mutexes
  lock,           \* the holder of tsan_lock
  pc,             \* where a thread is in the runtime; "run" is outside it
  call,           \* the hook a thread is in, with its arguments
  reports         \* the races printed

vars == <<thread_count, current_tid, vc, shadow, mutexes, lock, pc, call, reports>>

Tid == 0 .. MaxThreads - 1
Clocks == [Tid -> Nat]
ZeroClock == [i \in Tid |-> 0]

LockedOps == {"create", "destroy", "post_lock", "post_unlock", "access"}

Calls ==
  [op : {"access"}, range : Ranges, write : BOOLEAN]
    \cup [op : {"create", "destroy", "post_lock", "post_unlock"},
          range : {<<m, m + 1>> : m \in Mutexes}, write : {FALSE}]

\* __tsan_init and __tsan_func_entry.
InitCall == [op |-> "init", range |-> <<NullAddr, NullAddr>>, write |-> FALSE]

\* A static entry before its first use: the loader zeroes it.
EmptyShadow == [addr |-> NullAddr, tid |-> 0, is_write |-> FALSE, active |-> FALSE]
EmptyMutex  == [addr |-> NullAddr, vc |-> ZeroClock, active |-> FALSE]

Init ==
  /\ thread_count = 0
  /\ current_tid = [t \in Threads |-> -1]
  /\ vc = [i \in Tid |-> ZeroClock]
  /\ shadow = [i \in 0 .. ShadowEntries - 1 |-> EmptyShadow]
  /\ mutexes = [i \in 0 .. MaxMutexes - 1 |-> EmptyMutex]
  /\ lock = NoThread
  /\ pc = [t \in Threads |-> "run"]
  /\ call = [t \in Threads |-> InitCall]
  /\ reports = {}

---------------------------------------------------------------------------------
(* Clocks and tables. *)

VcInc(v, tid) == [v EXCEPT ![tid] = @ + 1]

\* Slip: the release overwrites the clock of the thread that acquires.
VcCopy(dst, src) == src

VcJoin(dst, src) == [i \in Tid |-> IF src[i] > dst[i] THEN src[i] ELSE dst[i]]

\* Slip: a strict comparison.
StrictlyBefore(a, b, tid_a) == a[tid_a] < b[tid_a]

HappensBefore(a, b, tid_a) == a[tid_a] <= b[tid_a]

ShadowFind(a, alloc) == Find(shadow, ShadowEntries, ShadowHash[a], a, alloc)

MutexFind(a, alloc) == Find(mutexes, MaxMutexes, MutexHash[a], a, alloc)

\* The race check of tsan_access against the last access e of the address.
\* It compares the clocks the two threads have now.
Races(tid, write, e) ==
  /\ e.tid # tid
  /\ write \/ e.is_write
  /\ ~HappensBefore(vc[e.tid], vc[tid], e.tid)
  /\ ~HappensBefore(vc[tid], vc[e.tid], tid)

---------------------------------------------------------------------------------
(* Entering a hook. *)

\* Where a hook goes once its thread has an identity.
AfterTid(op) == IF op = "init" THEN "run" ELSE "spin"

\* The program calls a hook; create and destroy need no identity.
Invoke(t, c) ==
  /\ pc[t] = "run"
  /\ current_tid[t] >= 0 => vc[current_tid[t]][current_tid[t]] < MaxClock
  /\ call' = [call EXCEPT ![t] = c]
  /\ pc' = [pc EXCEPT ![t] =
       IF c.op \notin {"create", "destroy"} /\ current_tid[t] < 0
       THEN "get_tid" ELSE AfterTid(c.op)]
  /\ UNCHANGED <<thread_count, current_tid, vc, shadow, mutexes, lock, reports>>

\* Slip: the count is read and written back without the atomic add.
ReserveTidUncounted(t) ==
  /\ pc[t] = "get_tid"
  /\ current_tid' = [current_tid EXCEPT ![t] = thread_count + 1]
  /\ thread_count + 1 < MaxThreads
  /\ pc' = [pc EXCEPT ![t] = "init_slot"]
  /\ UNCHANGED <<thread_count, vc, shadow, mutexes, lock, call, reports>>

\* Slip: one thread too many is let in.
ReserveTidOneTooMany(t) ==
  /\ pc[t] = "get_tid"
  /\ thread_count' = thread_count + 1
  /\ current_tid' = [current_tid EXCEPT ![t] = thread_count']
  /\ pc' = [pc EXCEPT ![t] = "init_slot"]
  /\ UNCHANGED <<vc, shadow, mutexes, lock, call, reports>>

\* The atomic add of tsan_get_tid; one thread too many dies in drt_die.
ReserveTid(t) ==
  /\ pc[t] = "get_tid"
  /\ thread_count' = thread_count + 1
  /\ \/ /\ thread_count' < MaxThreads
        /\ current_tid' = [current_tid EXCEPT ![t] = thread_count']
        /\ pc' = [pc EXCEPT ![t] = "init_slot"]
     \/ /\ thread_count' >= MaxThreads
        /\ pc' = [pc EXCEPT ![t] = "halted"]
        /\ UNCHANGED current_tid
  /\ UNCHANGED <<vc, shadow, mutexes, lock, call, reports>>

\* The rest of tsan_get_tid clears the clock of the slot and starts it at 1.
InitSlot(t) ==
  LET tid == current_tid[t] IN
  /\ pc[t] = "init_slot"
  /\ vc' = [vc EXCEPT ![tid] = [ZeroClock EXCEPT ![tid] = 1]]
  /\ pc' = [pc EXCEPT ![t] = AfterTid(call[t].op)]
  /\ UNCHANGED <<thread_count, current_tid, shadow, mutexes, lock, call, reports>>

\* drt_spin_lock succeeds; a thread that fails the test stays in "spin".
Acquire(t) ==
  /\ pc[t] = "spin"
  /\ lock = NoThread
  /\ lock' = t
  /\ pc' = [pc EXCEPT ![t] = "critical"]
  /\ UNCHANGED <<thread_count, current_tid, vc, shadow, mutexes, call, reports>>

\* drt_spin_unlock and the return to the program; the arguments are gone.
Return(t) ==
  /\ lock' = NoThread
  /\ pc' = [pc EXCEPT ![t] = "run"]
  /\ call' = [call EXCEPT ![t] = InitCall]

In(t, op) == pc[t] = "critical" /\ call[t].op = op

---------------------------------------------------------------------------------
(* tsan_access, once for every address of the range. *)

\* The next iteration of a range hook, or the return to the program.
NextAddress(t) ==
  LET r == call[t].range IN
  \/ /\ r[1] + 1 < r[2]
     /\ call' = [call EXCEPT ![t].range = <<r[1] + 1, r[2]>>]
     /\ lock' = NoThread
     /\ pc' = [pc EXCEPT ![t] = "spin"]
  \/ r[1] + 1 >= r[2] /\ Return(t)

\* Slip: the early return for an access that is not tracked keeps the lock.
AccessUntrackedLocked(t) ==
  /\ In(t, "access")
  /\ ShadowFind(call[t].range[1], TRUE) = NoSlot
  /\ pc' = [pc EXCEPT ![t] = "run"]
  /\ UNCHANGED <<thread_count, current_tid, vc, shadow, mutexes, lock, call, reports>>

\* No entry and no room for one: the access is not tracked.
AccessUntracked(t) ==
  /\ In(t, "access")
  /\ ShadowFind(call[t].range[1], TRUE) = NoSlot
  /\ NextAddress(t)
  /\ UNCHANGED <<thread_count, current_tid, vc, shadow, mutexes, reports>>

\* Slip: the report gives the lock back.
AccessRaceUnlocked(t) ==
  LET a == call[t].range[1]
      i == ShadowFind(a, TRUE)
  IN
  /\ In(t, "access")
  /\ i # NoSlot
  /\ Races(current_tid[t], call[t].write, shadow[i])
  /\ reports' = reports \cup
       {[addr |-> a, tid |-> current_tid[t], write |-> call[t].write,
         other |-> shadow[i].tid, other_write |-> shadow[i].is_write]}
  /\ Return(t)
  /\ UNCHANGED <<thread_count, current_tid, vc, shadow, mutexes>>

\* A race: the report is printed and the thread stops with the lock held.
AccessRace(t) ==
  LET a == call[t].range[1]
      i == ShadowFind(a, TRUE)
  IN
  /\ In(t, "access")
  /\ i # NoSlot
  /\ Races(current_tid[t], call[t].write, shadow[i])
  /\ reports' = reports \cup
       {[addr |-> a, tid |-> current_tid[t], write |-> call[t].write,
         other |-> shadow[i].tid, other_write |-> shadow[i].is_write]}
  /\ shadow' = [shadow EXCEPT ![i].addr = a, ![i].active = TRUE]
  /\ pc' = [pc EXCEPT ![t] = "halted"]
  /\ UNCHANGED <<thread_count, current_tid, vc, mutexes, lock, call>>

\* No race: the access replaces the last one and the thread's clock ticks.
AccessRecorded(t) ==
  LET a   == call[t].range[1]
      i   == ShadowFind(a, TRUE)
      tid == current_tid[t]
  IN
  /\ In(t, "access")
  /\ i # NoSlot
  /\ ~Races(tid, call[t].write, shadow[i])
  /\ shadow' = [shadow EXCEPT ![i] =
       [addr |-> a, tid |-> tid, is_write |-> call[t].write, active |-> TRUE]]
  /\ vc' = [vc EXCEPT ![tid] = VcInc(@, tid)]
  /\ NextAddress(t)
  /\ UNCHANGED <<thread_count, current_tid, mutexes, reports>>

---------------------------------------------------------------------------------
(* The mutex hooks.  A hook that finds no entry only takes the lock. *)

MutexCreate(t) ==
  LET m == call[t].range[1]
      i == MutexFind(m, TRUE)
  IN
  /\ In(t, "create")
  /\ mutexes' = IF i = NoSlot THEN mutexes
       ELSE [mutexes EXCEPT ![i] = [addr |-> m, vc |-> ZeroClock, active |-> TRUE]]
  /\ Return(t)
  /\ UNCHANGED <<thread_count, current_tid, vc, shadow, reports>>

\* Slip: the search stops at the first free slot.
MutexDestroyNearest(t) ==
  LET i == MutexFind(call[t].range[1], TRUE) IN
  /\ In(t, "destroy")
  /\ mutexes' = IF i = NoSlot THEN mutexes
       ELSE [mutexes EXCEPT ![i].active = FALSE]
  /\ Return(t)
  /\ UNCHANGED <<thread_count, current_tid, vc, shadow, reports>>

MutexDestroy(t) ==
  LET i == MutexFind(call[t].range[1], FALSE) IN
  /\ In(t, "destroy")
  /\ mutexes' = IF i = NoSlot THEN mutexes
       ELSE [mutexes EXCEPT ![i].active = FALSE]
  /\ Return(t)
  /\ UNCHANGED <<thread_count, current_tid, vc, shadow, reports>>

\* Slip: nothing is acquired.
PostLockIgnored(t) ==
  /\ In(t, "post_lock")
  /\ Return(t)
  /\ UNCHANGED <<thread_count, current_tid, vc, shadow, mutexes, reports>>

\* Acquire: the clock of the mutex is joined into the clock of the thread.
PostLock(t) ==
  LET i   == MutexFind(call[t].range[1], FALSE)
      tid == current_tid[t]
  IN
  /\ In(t, "post_lock")
  /\ vc' = IF i = NoSlot THEN vc
       ELSE [vc EXCEPT ![tid] = VcJoin(@, mutexes[i].vc)]
  /\ Return(t)
  /\ UNCHANGED <<thread_count, current_tid, shadow, mutexes, reports>>

\* Release: the mutex gets a copy of the clock of the thread, ticked; the
\* clock of the thread itself is left alone.
PostUnlock(t) ==
  LET i   == MutexFind(call[t].range[1], FALSE)
      tid == current_tid[t]
  IN
  /\ In(t, "post_unlock")
  /\ mutexes' = IF i = NoSlot THEN mutexes
       ELSE [mutexes EXCEPT ![i].vc = VcInc(vc[tid], tid)]
  /\ Return(t)
  /\ UNCHANGED <<thread_count, current_tid, vc, shadow, reports>>

\* A step inside the runtime, as opposed to a call made by the program.
Step(t) ==
  \/ ReserveTid(t) \/ InitSlot(t) \/ Acquire(t)
  \/ AccessUntracked(t) \/ AccessRace(t) \/ AccessRecorded(t)
  \/ MutexCreate(t) \/ MutexDestroy(t) \/ PostLock(t) \/ PostUnlock(t)

Next == \E t \in Threads : Step(t) \/ \E c \in Calls \cup {InitCall} : Invoke(t, c)

Spec == Init /\ [][Next]_vars

---------------------------------------------------------------------------------
(* Properties. *)

Entry == [addr : Addr \cup {NullAddr}, tid : Tid, is_write : BOOLEAN, active : BOOLEAN]
MutexEntry == [addr : Addr \cup {NullAddr}, vc : Clocks, active : BOOLEAN]
Report == [addr : Addr, tid : Tid, write : BOOLEAN, other : Tid, other_write : BOOLEAN]
Locations == {"run", "get_tid", "init_slot", "spin", "critical", "halted"}

\* Every variable of the runtime stays in its declared range; in particular
\* no thread identity, table index or clock leaves its array.
TypeOK ==
  /\ thread_count \in Nat
  /\ current_tid \in [Threads -> Tid \cup {-1}]
  /\ vc \in [Tid -> Clocks]
  /\ shadow \in [0 .. ShadowEntries - 1 -> Entry]
  /\ mutexes \in [0 .. MaxMutexes - 1 -> MutexEntry]
  /\ lock \in Threads \cup {NoThread}
  /\ pc \in [Threads -> Locations]
  /\ call \in [Threads -> [op : LockedOps \cup {"init"}, range : Int \X Int, write : BOOLEAN]]
  /\ reports \subseteq Report

\* Two threads never share a slot of tsan_threads: the identity is taken
\* from one atomic add and written without tsan_lock.
DistinctTids ==
  \A t, u \in Threads :
    (t # u /\ current_tid[t] >= 0) => current_tid[t] # current_tid[u]

\* A shadow entry is read before it was ever written: at the first access
\* its tid is the loader's zero.  No report may come from that: every race
\* names a thread that exists, is not the reporter, and one of the two
\* accesses is a write.
NoPhantomRace ==
  \A r \in reports :
    /\ r.other \in 1 .. thread_count
    /\ r.other # r.tid
    /\ r.write \/ r.other_write

\* The runtime as a log of last accesses.
Log ==
  INSTANCE RaceLog WITH
    Capacity <- ShadowEntries,
    stopped  <- reports # {},
    log      <- [a \in Addr |->
      LET i == ShadowFind(a, FALSE) IN
      IF i = NoSlot THEN [tid |-> 0, write |-> FALSE]
      ELSE [tid |-> shadow[i].tid, write |-> shadow[i].is_write]]

\* Through hash collisions, full tables and interleaved hooks the shadow is a
\* log of last accesses, and a report stops it: the runtime implements
\* RaceLog.
ImplementsRaceLog == Log!Spec

\* An access is left out of the log only when every entry belongs to another
\* address.
DroppedOnlyWhenFull ==
  [][\A t \in Threads :
       AccessUntracked(t) => Log!Tracked \subseteq Addr \ {call[t].range[1]}
                             /\ Cardinality(Log!Tracked) = ShadowEntries]_vars

\* However addresses collide, the shadow holds one entry for an address.
OneShadowPerAddress == OneEntryPerKey(shadow)

\* What anyone knows of a thread's clock is at most one tick ahead of it:
\* the tick __tsan_mutex_post_unlock adds to the mutex and not the thread.
ClockLead ==
  \A i \in Tid :
    /\ \A j \in Tid : vc[j][i] <= vc[i][i] + 1
    /\ \A k \in DOMAIN mutexes : mutexes[k].vc[i] <= vc[i][i] + 1

\* A race stops the runtime: the reporter keeps tsan_lock, so no later hook
\* changes what is tracked and no second report mixes with the first.
FailStop ==
  [][reports # {} => UNCHANGED <<shadow, mutexes, lock, reports>>]_vars

\* A clock never goes back once its slot is in use.
ClocksGrow ==
  [][\A t \in Threads : pc[t] \notin {"get_tid", "init_slot"} /\ current_tid[t] >= 0 =>
       \A i \in Tid : vc'[current_tid[t]][i] >= vc[current_tid[t]][i]]_vars

\* Every way out of a hook, the early returns included, gives tsan_lock back,
\* and nobody gives back a lock that is another's: the lock has a holder just
\* while that thread is between drt_spin_lock and drt_spin_unlock, or stopped
\* there by its own report.
LockDiscipline ==
  \A t \in Threads :
    lock = t <=> pc[t] = "critical"
                 \/ (pc[t] = "halted" /\ current_tid[t] >= 0 /\ \E r \in reports : r.tid = current_tid[t])
=============================================================================
