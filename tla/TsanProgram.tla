------------------------------- MODULE TsanProgram ------------------------------
(***************************************************************************)
(* The thread sanitizer under a program that uses its mutexes correctly:   *)
(* the program, external to the repository, creates a mutex before it is   *)
(* used, destroys it when nobody holds it, and announces every lock and    *)
(* unlock through the hooks of tsan_interface.h, lines 44 to 49: pre_lock  *)
(* before and post_lock after it gets the mutex, pre_unlock before and     *)
(* post_unlock after it gives it up.  Data it accesses as it likes.        *)
(*                                                                         *)
(* The history variables say what really happened before what, from the    *)
(* program's own synchronisation and not from any clock of the runtime.    *)
(***************************************************************************)
EXTENDS Tsan

CONSTANTS
  Announced, \* the mutexes for which it calls pre_lock and pre_unlock too
  Prompt     \* does post_unlock end before another thread gets the mutex?

\* Addresses are finite in number, and the hooks of a mutex whose locking is
\* announced access its first byte.
ASSUME ProgramConstants ==
  /\ Announced \subseteq Mutexes /\ Prompt \in BOOLEAN
  /\ IsFiniteSet(Mutexes)
  /\ \A m \in Announced : <<m, m + 1>> \in Ranges

VARIABLES
  life,     \* of a mutex: "none", "creating", "live" or "dying"
  owner,    \* the thread that has a mutex
  stage,    \* of a thread: outside, before, inside or leaving a mutex
  last,     \* history: the last access of an address
  ordered,  \* history: addresses whose last access happened before a thread
  released, \* history: the same, for who gets a mutex next
  quiet,    \* history: threads that handed over to a thread, silent since
  handed    \* history: the same, for who gets a mutex next

program == <<life, owner, stage>>
history == <<last, ordered, released, quiet, handed>>
allvars == <<vars, program, history>>

Nobody == [by |-> NoThread, write |-> FALSE]
Outside == [at |-> "outside", m |-> NullAddr]

ProgramInit ==
  /\ Init
  /\ life = [m \in Mutexes |-> "none"]
  /\ owner = [m \in Mutexes |-> NoThread]
  /\ stage = [t \in Threads |-> Outside]
  /\ last = [a \in Addr |-> Nobody]
  /\ ordered = [t \in Threads |-> {}]
  /\ released = [m \in Mutexes |-> {}]
  /\ quiet = [t \in Threads |-> {}]
  /\ handed = [m \in Mutexes |-> {}]

Hook(op, m) == [op |-> op, range |-> <<m, m + 1>>, write |-> FALSE]

\* __tsan_mutex_pre_lock and __tsan_mutex_pre_unlock: a write to the mutex.
PreHook(m) == [op |-> "access", range |-> <<m, m + 1>>, write |-> TRUE]

---------------------------------------------------------------------------------
(* What the program does.  A thread acts when no hook of its is running.   *)

\* An instrumented access to data, or __tsan_init / __tsan_func_entry.
Touch(t, c) ==
  /\ c.op = "access" => c.range[1] .. (c.range[2] - 1) \cap Mutexes = {}
  /\ c.op \in {"access", "init"}
  /\ Invoke(t, c)
  /\ UNCHANGED <<program, history>>

CreateMutex(t, m) ==
  /\ life[m] = "none"
  /\ life' = [life EXCEPT ![m] = "creating"]
  /\ Invoke(t, Hook("create", m))
  /\ UNCHANGED <<owner, stage, history>>

DestroyMutex(t, m) ==
  /\ life[m] = "live"
  /\ \A u \in Threads : stage[u].m # m /\ ~(pc[u] # "run" /\ call[u].range[1] = m)
  /\ life' = [life EXCEPT ![m] = "dying"]
  /\ Invoke(t, Hook("destroy", m))
  /\ UNCHANGED <<owner, stage, history>>

BeforeLock(t, m) ==
  /\ m \in Announced
  /\ life[m] = "live"
  /\ stage[t] = Outside
  /\ stage' = [stage EXCEPT ![t] = [at |-> "before", m |-> m]]
  /\ Invoke(t, PreHook(m))
  /\ UNCHANGED <<life, owner, history>>

\* The thread gets the mutex, then calls post_lock.
Lock(t, m) ==
  /\ life[m] = "live"
  /\ stage[t] = IF m \in Announced THEN [at |-> "before", m |-> m] ELSE Outside
  /\ owner[m] = NoThread
  /\ Prompt => \A u \in Threads : pc[u] # "run" => call[u] # Hook("post_unlock", m)
  /\ owner' = [owner EXCEPT ![m] = t]
  /\ stage' = [stage EXCEPT ![t] = [at |-> "inside", m |-> m]]
  /\ ordered' = [ordered EXCEPT ![t] = @ \cup released[m]]
  /\ Invoke(t, Hook("post_lock", m))
  /\ UNCHANGED <<life, last, released, quiet, handed>>

BeforeUnlock(t, m) ==
  /\ m \in Announced
  /\ stage[t] = [at |-> "inside", m |-> m]
  /\ stage' = [stage EXCEPT ![t] = [at |-> "leaving", m |-> m]]
  /\ Invoke(t, PreHook(m))
  /\ UNCHANGED <<life, owner, history>>

\* The thread gives the mutex up, then calls post_unlock.
Unlock(t, m) ==
  /\ stage[t] = [at |-> IF m \in Announced THEN "leaving" ELSE "inside", m |-> m]
  /\ owner' = [owner EXCEPT ![m] = NoThread]
  /\ stage' = [stage EXCEPT ![t] = Outside]
  /\ released' = [released EXCEPT ![m] = @ \cup ordered[t]]
  /\ Invoke(t, Hook("post_unlock", m))
  /\ UNCHANGED <<life, last, ordered, quiet, handed>>

Act(t) ==
  \/ \E c \in Calls \cup {InitCall} : Touch(t, c)
  \/ \E m \in Mutexes :
       \/ CreateMutex(t, m) \/ DestroyMutex(t, m)
       \/ BeforeLock(t, m) \/ Lock(t, m) \/ BeforeUnlock(t, m) \/ Unlock(t, m)

---------------------------------------------------------------------------------
(* The steps of the runtime, and what they mean for the history. *)

\* t is no longer silent: no other thread may count on its clock.
Speaks(t) ==
  /\ quiet' = [u \in Threads |-> IF u = t THEN quiet[u] ELSE quiet[u] \ {t}]
  /\ handed' = [m \in Mutexes |-> handed[m] \ {t}]

Accessed(t) ==
  LET a == call[t].range[1] IN
  /\ AccessRecorded(t) \/ AccessUntracked(t)
  /\ last' = [last EXCEPT ![a] = [by |-> t, write |-> call[t].write]]
  /\ ordered' = [u \in Threads |->
       IF u = t THEN ordered[u] \cup {a} ELSE ordered[u] \ {a}]
  /\ released' = [m \in Mutexes |-> released[m] \ {a}]
  /\ Speaks(t)
  /\ UNCHANGED program

Created(t) ==
  LET m == call[t].range[1] IN
  /\ MutexCreate(t)
  /\ life' = [life EXCEPT ![m] = "live"]
  /\ released' = [released EXCEPT ![m] = {}]
  /\ handed' = [handed EXCEPT ![m] = {}]
  /\ UNCHANGED <<owner, stage, last, ordered, quiet>>

Destroyed(t) ==
  /\ MutexDestroy(t)
  /\ life' = [life EXCEPT ![call[t].range[1]] = "none"]
  /\ UNCHANGED <<owner, stage, history>>

Acquired(t) ==
  LET m == call[t].range[1] IN
  /\ PostLock(t)
  /\ quiet' = [u \in Threads |->
       IF u = t THEN quiet[u] \cup (handed[m] \ {t}) ELSE quiet[u] \ {t}]
  /\ handed' = [n \in Mutexes |-> handed[n] \ {t}]
  /\ UNCHANGED <<program, last, ordered, released>>

Released(t) ==
  /\ PostUnlock(t)
  /\ handed' = [handed EXCEPT ![call[t].range[1]] = quiet[t] \cup {t}]
  /\ UNCHANGED <<program, last, ordered, released, quiet>>

Runtime(t) ==
  \/ /\ ReserveTid(t) \/ InitSlot(t) \/ Acquire(t) \/ AccessRace(t)
     /\ UNCHANGED <<program, history>>
  \/ Accessed(t) \/ Created(t) \/ Destroyed(t) \/ Acquired(t) \/ Released(t)

ProgramNext == \E t \in Threads : Act(t) \/ Runtime(t)

ProgramSpec == ProgramInit /\ [][ProgramNext]_allvars

---------------------------------------------------------------------------------
(* Properties. *)

\* The access t is about to complete and the last access of its address are
\* made by different threads, one of them writes, and nothing the program
\* did orders them.
TrueRace(t) ==
  LET a == call[t].range[1] IN
  /\ a \notin Mutexes
  /\ last[a].by \notin {NoThread, t}
  /\ call[t].write \/ last[a].write
  /\ a \notin ordered[t]

\* "Happens-before vector clock tracking for data races": an access to a
\* tracked address is reported if it is in a data race with the last access of
\* the address, and only then.
ReportsExactlyRaces ==
  [][\A t \in Threads :
       /\ AccessRace(t) => TrueRace(t)
       /\ AccessRecorded(t) => ~TrueRace(t)]_allvars

\* A thread that handed its work over under a mutex and has been silent
\* since is never named in a report by whoever took the work over, directly
\* or through other threads.
NoReportOfQuietThread ==
  [][\A t \in Threads : AccessRace(t) =>
       \A r \in reports', u \in quiet[t] : r.other # current_tid[u]]_allvars

\* The mutex table follows the life of the mutexes: one entry for a live
\* mutex, whatever was created and destroyed around it, none for a dead one.
MutexTableExact ==
  /\ OneEntryPerKey(mutexes)
  /\ \A i \in DOMAIN mutexes :
       mutexes[i].active => life[mutexes[i].addr] # "none"
  /\ MaxMutexes >= Cardinality(Mutexes) =>
       \A m \in Mutexes : life[m] = "live" => MutexFind(m, FALSE) # NoSlot
=============================================================================
