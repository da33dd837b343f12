--------------------------- MODULE TsanProgram_proofs --------------------------
(***************************************************************************)
(* Proofs about the thread sanitizer under a program that uses its mutexes *)
(* correctly, for any number of threads and mutexes.  Every step of the    *)
(* program is a step of Tsan, so what Tsan_proofs shows of the runtime     *)
(* holds here, and the proofs start from it.                               *)
(***************************************************************************)
EXTENDS TsanProgram, Tsan_proofs

LEMMA HooksAreCalls ==
  /\ \A m \in Mutexes, op \in {"create", "destroy", "post_lock", "post_unlock"} :
       Hook(op, m) \in Calls
  /\ \A m \in Announced : PreHook(m) \in Calls
<1>1. ASSUME NEW m \in Mutexes, NEW op \in {"create", "destroy", "post_lock", "post_unlock"}
      PROVE  Hook(op, m) \in Calls
  <2>1. <<m, m + 1>> \in {<<n, n + 1>> : n \in Mutexes}
    OBVIOUS
  <2> QED BY <2>1, Zenon DEF Hook, Calls
<1>2. ASSUME NEW m \in Announced PROVE PreHook(m) \in Calls
  <2>1. <<m, m + 1>> \in Ranges
    BY ProgramConstants
  <2> QED BY <2>1 DEF PreHook, Calls
<1> QED BY <1>1, <1>2

LEMMA ProgramStep == [ProgramNext]_allvars => [Next]_vars
<1> SUFFICES ASSUME [ProgramNext]_allvars PROVE [Next]_vars
  OBVIOUS
<1>1. ASSUME NEW t \in Threads, NEW c \in Calls \cup {InitCall}, Invoke(t, c) PROVE Next
  BY <1>1 DEF Next
<1>2. ASSUME NEW t \in Threads, Act(t) PROVE Next
  <2>1. ASSUME NEW c \in Calls \cup {InitCall}, Touch(t, c) PROVE Next
    BY <1>1, <2>1 DEF Touch
  <2>2. ASSUME NEW m \in Mutexes,
               CreateMutex(t, m) \/ DestroyMutex(t, m) \/ Lock(t, m) \/ Unlock(t, m)
        PROVE  Next
    BY <1>1, <2>2, HooksAreCalls DEF CreateMutex, DestroyMutex, Lock, Unlock
  <2>3. ASSUME NEW m \in Mutexes, BeforeLock(t, m) \/ BeforeUnlock(t, m) PROVE Next
    BY <1>1, <2>3, HooksAreCalls DEF BeforeLock, BeforeUnlock
  <2> QED BY <1>2, <2>1, <2>2, <2>3 DEF Act
<1>3. ASSUME NEW t \in Threads, Runtime(t) PROVE Next
  BY <1>3 DEF Runtime, Accessed, Created, Destroyed, Acquired, Released, Next, Step
<1> QED BY <1>2, <1>3 DEF ProgramNext, allvars, vars

\* What the program does to the runtime is what the runtime allows: whatever
\* holds of Tsan for any calls holds under the program.
THEOREM ProgramIsTsan == ProgramSpec => Spec
<1>1. ProgramInit => Init
  BY DEF ProgramInit
<1> QED BY <1>1, ProgramStep, PTL DEF ProgramSpec, Spec

---------------------------------------------------------------------------------
(* What is known of a mutex while a hook of it runs.                       *)

LifeDuring ==
  [create |-> "creating", destroy |-> "dying", post_lock |-> "live", post_unlock |-> "live"]

CallOfLife(t) ==
  /\ call[t].op = "init" => call[t] = InitCall
  /\ pc[t] = "run" => call[t].op = "init"
  /\ call[t].op \in DOMAIN LifeDuring =>
       /\ call[t].range[1] \in Mutexes
       /\ life[call[t].range[1]] = LifeDuring[call[t].op]

\* A mutex is live from the end of the hook that creates it to the call of
\* the one that destroys it, one thread does either, and a thread before,
\* inside or leaving a mutex keeps it alive.
Lives ==
  /\ life \in [Mutexes -> {"none", "creating", "live", "dying"}]
  /\ \A t \in Threads : CallOfLife(t)
  /\ \A t, u \in Threads :
       t # u /\ call[t].op \in {"create", "destroy"} /\ call[u].op = call[t].op
         => call[t].range[1] # call[u].range[1]
  /\ stage \in [Threads -> [at : {"outside", "before", "inside", "leaving"}, m : Mutexes \cup {NullAddr}]]
  /\ \A t \in Threads : stage[t].m # NullAddr => life[stage[t].m] = "live"

\* What the table of mutexes holds.
MutexTable ==
  /\ OneEntryPerKey(mutexes)
  /\ \A i \in 0 .. MaxMutexes - 1 : mutexes[i].active =>
       mutexes[i].addr \in Mutexes /\ life[mutexes[i].addr] \in {"live", "dying"}
  /\ MaxMutexes >= Cardinality(Mutexes) =>
       \A m \in Mutexes : life[m] = "live" => \E i \in 0 .. MaxMutexes - 1 : Hit(mutexes, i, m)

\* A thread whose clock is in use.
Settled(t) == current_tid[t] \in Tid /\ pc[t] # "init_slot"

\* Whoever got work from a silent thread knows its clock as it is; so does
\* the mutex the work is to be handed over with.
Knowledge ==
  /\ quiet \in [Threads -> SUBSET Threads] /\ handed \in [Mutexes -> SUBSET Threads]
  /\ \A t \in Threads : \A u \in quiet[t] :
       /\ u \in Threads \ {t} /\ Settled(t) /\ Settled(u)
       /\ vc[current_tid[u]][current_tid[u]] <= vc[current_tid[t]][current_tid[u]]
  /\ \A m \in Mutexes : \A u \in handed[m] :
       /\ u \in Threads /\ Settled(u)
       /\ \A i \in 0 .. MaxMutexes - 1 : Hit(mutexes, i, m) =>
            vc[current_tid[u]][current_tid[u]] <= mutexes[i].vc[current_tid[u]]

LEMMA InitLives == ProgramInit => Lives
BY DEF ProgramInit, Init, Lives, CallOfLife, InitCall, Outside, LifeDuring

\* A call changes the location and the arguments of its thread only.
LEMMA InvokeFacts ==
  ASSUME Typing, NEW t \in Threads, NEW c \in Calls \cup {InitCall}, Invoke(t, c)
  PROVE  /\ pc[t] = "run" /\ call'[t] = c
         /\ pc'[t] \in {"run", "get_tid", "spin"}
         /\ c.op = "init" => c = InitCall
         /\ pc'[t] = "run" => c.op = "init"
         /\ \A u \in Threads \ {t} : call'[u] = call[u] /\ pc'[u] = pc[u]
         /\ UNCHANGED <<thread_count, current_tid, vc, shadow, mutexes, lock, reports>>
<1>1. c.op = "init" => c = InitCall
  BY DEF Calls
<1>2. pc \in [Threads -> Locations] /\ DOMAIN call = Threads
  BY DEF Typing, TypeOK
<1> QED BY <1>1, <1>2 DEF Invoke, AfterTid

\* Steps that neither begin nor end a hook of a mutex and leave the program's
\* state alone.
LEMMA OtherCallsKeepLives ==
  ASSUME Lives, NEW t \in Threads, UNCHANGED <<life, stage>>,
         \A u \in Threads \ {t} : call'[u] = call[u] /\ pc'[u] = pc[u],
         call'[t].op \notin DOMAIN LifeDuring,
         call'[t].op = "init" => call'[t] = InitCall,
         pc'[t] = "run" => call'[t].op = "init"
  PROVE  Lives'
BY DEF Lives, CallOfLife, LifeDuring

\* A thread that goes on to a live mutex.
LEMMA StageKeepsLives ==
  ASSUME Lives, NEW t \in Threads, NEW m \in Mutexes, NEW s \in {"before", "inside", "leaving"},
         life[m] = "live", UNCHANGED life,
         stage' = [stage EXCEPT ![t] = [at |-> s, m |-> m]],
         \A u \in Threads \ {t} : call'[u] = call[u],
         call'[t].op \notin {"create", "destroy"},
         \A u \in Threads : CallOfLife(u)'
  PROVE  Lives'
<1> DEFINE g == [at |-> s, m |-> m]
<1>1. g \in [at : {"outside", "before", "inside", "leaving"}, m : Mutexes \cup {NullAddr}] /\ g.m = m
  OBVIOUS
<1>2. stage' = [stage EXCEPT ![t] = g]
  OBVIOUS
<1> HIDE DEF g
<1>3. /\ stage' \in [Threads -> [at : {"outside", "before", "inside", "leaving"}, m : Mutexes \cup {NullAddr}]]
      /\ \A u \in Threads : stage'[u].m # NullAddr => life'[stage'[u].m] = "live"
  BY <1>1, <1>2 DEF Lives
<1> QED BY <1>3 DEF Lives

LEMMA NextLives == Typing /\ Lives /\ [ProgramNext]_allvars => Lives'
<1> SUFFICES ASSUME Typing, Lives, [ProgramNext]_allvars PROVE Lives'
  OBVIOUS
<1>0. /\ pc \in [Threads -> Locations] /\ DOMAIN call = Threads
      /\ \A t \in Threads : CallOfLife(t)
      /\ \A t \in Threads : call[t] \in [op : LockedOps \cup {"init"}, range : Int \X Int, write : BOOLEAN]
  BY DEF Typing, TypeOK, Lives
<1>1. ASSUME NEW t \in Threads, NEW c \in Calls \cup {InitCall}, Touch(t, c) PROVE Lives'
  BY <1>1, InvokeFacts, OtherCallsKeepLives DEF Touch, program, LifeDuring
<1>2. ASSUME NEW t \in Threads, NEW m \in Mutexes, BeforeLock(t, m) \/ BeforeUnlock(t, m)
      PROVE  Lives'
  <2>1. PreHook(m) \in Calls \cup {InitCall} /\ Invoke(t, PreHook(m)) /\ UNCHANGED life
    BY <1>2, HooksAreCalls DEF BeforeLock, BeforeUnlock
  <2>2. /\ \A u \in Threads \ {t} : call'[u] = call[u] /\ pc'[u] = pc[u]
        /\ call'[t].op = "access" /\ pc'[t] # "run"
    <3>1. PreHook(m).op = "access"
      BY DEF PreHook
    <3> QED BY <2>1, <3>1, InvokeFacts
  <2>3. life[m] = "live"
    BY <1>2, TsanConstants DEF BeforeLock, BeforeUnlock, Lives
  <2>4. \E s \in {"before", "leaving"} : stage' = [stage EXCEPT ![t] = [at |-> s, m |-> m]]
    BY <1>2 DEF BeforeLock, BeforeUnlock
  <2>5. \A u \in Threads : CallOfLife(u)'
    BY <2>1, <2>2 DEF Lives, CallOfLife, LifeDuring
  <2> QED BY <2>1, <2>2, <2>3, <2>4, <2>5, StageKeepsLives
<1>3. ASSUME NEW t \in Threads, NEW m \in Mutexes,
             NEW op \in {"create", "destroy", "post_lock", "post_unlock"},
             Invoke(t, Hook(op, m))
      PROVE  /\ \A u \in Threads \ {t} : call'[u] = call[u] /\ pc'[u] = pc[u]
             /\ call'[t].op = op /\ call'[t].range[1] = m /\ pc'[t] # "run"
             /\ pc[t] = "run" /\ call[t].op = "init"
  <2>1. Hook(op, m) \in Calls \cup {InitCall} /\ Hook(op, m).op = op /\ Hook(op, m).range[1] = m
    BY HooksAreCalls DEF Hook
  <2>2. pc[t] = "run" => call[t].op = "init"
    BY <1>0 DEF CallOfLife
  <2> QED BY <1>3, <2>1, <2>2, InvokeFacts
<1>4. ASSUME NEW t \in Threads, NEW m \in Mutexes, CreateMutex(t, m) PROVE Lives'
  <2>1. /\ life[m] = "none" /\ life' = [life EXCEPT ![m] = "creating"] /\ UNCHANGED stage
        /\ Invoke(t, Hook("create", m))
    BY <1>4 DEF CreateMutex
  <2>2. \A u \in Threads : call[u].op \in DOMAIN LifeDuring => call[u].range[1] # m
    BY <1>0, <2>1 DEF CallOfLife, LifeDuring
  <2>3. \A u \in Threads : stage[u].m # m
    BY <2>1, TsanConstants DEF Lives
  <2> QED BY <1>3, <2>1, <2>2, <2>3 DEF Lives, CallOfLife, LifeDuring
<1>5. ASSUME NEW t \in Threads, NEW m \in Mutexes, DestroyMutex(t, m) PROVE Lives'
  <2>1. /\ life[m] = "live" /\ life' = [life EXCEPT ![m] = "dying"] /\ UNCHANGED stage
        /\ Invoke(t, Hook("destroy", m))
        /\ \A u \in Threads : stage[u].m # m /\ ~(pc[u] # "run" /\ call[u].range[1] = m)
    BY <1>5 DEF DestroyMutex
  <2>2. \A u \in Threads : call[u].op \in DOMAIN LifeDuring => call[u].range[1] # m
    BY <1>0, <2>1 DEF CallOfLife, LifeDuring
  <2> QED BY <1>3, <2>1, <2>2 DEF Lives, CallOfLife, LifeDuring
<1>6. ASSUME NEW t \in Threads, NEW m \in Mutexes, Lock(t, m) PROVE Lives'
  <2>1. /\ life[m] = "live" /\ UNCHANGED life
        /\ stage' = [stage EXCEPT ![t] = [at |-> "inside", m |-> m]]
        /\ Invoke(t, Hook("post_lock", m))
    BY <1>6 DEF Lock
  <2>2. \A u \in Threads : CallOfLife(u)'
    BY <1>3, <2>1 DEF Lives, CallOfLife, LifeDuring
  <2>3. /\ \A u \in Threads \ {t} : call'[u] = call[u]
        /\ call'[t].op \notin {"create", "destroy"}
    BY <1>3, <2>1
  <2> QED BY <2>1, <2>2, <2>3, StageKeepsLives
<1>7. ASSUME NEW t \in Threads, NEW m \in Mutexes, Unlock(t, m) PROVE Lives'
  <2>1. /\ stage[t].m = m /\ UNCHANGED life
        /\ stage' = [stage EXCEPT ![t] = Outside]
        /\ Invoke(t, Hook("post_unlock", m))
    BY <1>7 DEF Unlock
  <2>2. life[m] = "live"
    BY <2>1, TsanConstants DEF Lives
  <2> QED BY <1>3, <2>1, <2>2 DEF Lives, CallOfLife, LifeDuring, Outside
<1>8. ASSUME NEW t \in Threads,
             ReserveTid(t) \/ InitSlot(t) \/ Acquire(t) \/ AccessRace(t),
             UNCHANGED <<program, history>>
      PROVE  Lives'
  <2>1. /\ UNCHANGED <<life, stage, call>>
        /\ \A u \in Threads : pc'[u] = "run" => call[u].op = "init"
    BY <1>0, <1>8 DEF program, ReserveTid, InitSlot, Acquire, AccessRace, AfterTid, CallOfLife
  <2> QED BY <2>1 DEF Lives, CallOfLife
<1>9. ASSUME NEW t \in Threads, Return(t)
      PROVE  /\ \A u \in Threads \ {t} : call'[u] = call[u] /\ pc'[u] = pc[u]
             /\ call'[t] = InitCall /\ InitCall.op = "init"
  BY <1>0, <1>9 DEF Return, InitCall
<1>10. ASSUME NEW t \in Threads, Accessed(t) PROVE Lives'
  <2>1. In(t, "access") /\ NextAddress(t) /\ UNCHANGED <<life, stage>>
    BY <1>10 DEF Accessed, AccessRecorded, AccessUntracked, program
  <2>2. CASE Return(t)
    BY <1>9, <2>1, <2>2, OtherCallsKeepLives DEF LifeDuring
  <2>3. CASE /\ call' = [call EXCEPT ![t].range = <<call[t].range[1] + 1, call[t].range[2]>>]
             /\ pc' = [pc EXCEPT ![t] = "spin"]
    <3>1. call'[t].op = "access" /\ pc'[t] = "spin"
      BY <1>0, <2>1, <2>3 DEF In
    <3>2. \A u \in Threads \ {t} : call'[u] = call[u] /\ pc'[u] = pc[u]
      BY <1>0, <2>3
    <3> QED BY <2>1, <3>1, <3>2, OtherCallsKeepLives DEF LifeDuring
  <2> QED BY <2>1, <2>2, <2>3 DEF NextAddress
<1>11. ASSUME NEW t \in Threads, Acquired(t) \/ Released(t) PROVE Lives'
  <2>1. Return(t) /\ UNCHANGED <<life, stage>>
    BY <1>11 DEF Acquired, Released, PostLock, PostUnlock, program
  <2> QED BY <1>9, <2>1, OtherCallsKeepLives DEF LifeDuring
<1>12. ASSUME NEW t \in Threads, NEW op \in {"create", "destroy"}, NEW v \in {"live", "none"},
              call[t].op = op, life' = [life EXCEPT ![call[t].range[1]] = v],
              Return(t), UNCHANGED stage
       PROVE  Lives'
  <2>1. PICK m \in Mutexes : m = call[t].range[1] /\ life[m] = LifeDuring[op]
    BY <1>0, <1>12 DEF CallOfLife, LifeDuring
  <2>2. \A u \in Threads \ {t} : call[u].op \in DOMAIN LifeDuring => call[u].range[1] # m
    BY <1>0, <1>12, <2>1 DEF Lives, CallOfLife, LifeDuring
  <2>3. \A u \in Threads : stage[u].m # m
    BY <1>12, <2>1, TsanConstants DEF Lives, LifeDuring
  <2> QED BY <1>9, <1>12, <2>1, <2>2, <2>3 DEF Lives, CallOfLife, LifeDuring
<1>13. ASSUME NEW t \in Threads, Created(t) \/ Destroyed(t) PROVE Lives'
  BY <1>12, <1>13 DEF Created, Destroyed, MutexCreate, MutexDestroy, In
<1>14. CASE UNCHANGED allvars
  BY <1>14 DEF allvars, vars, program, Lives, CallOfLife
<1> QED
  BY <1>1, <1>2, <1>4, <1>5, <1>6, <1>7, <1>8, <1>10, <1>11, <1>13, <1>14
     DEF ProgramNext, Act, Runtime

---------------------------------------------------------------------------------
(* The table of mutexes.                                                   *)

LEMMA InitMutexTable == ProgramInit => MutexTable
BY DEF ProgramInit, Init, MutexTable, OneEntryPerKey, EmptyMutex

\* A table full of other mutexes is smaller than the set of mutexes.
LEMMA FullOfOthers ==
  ASSUME Typing, MutexTable, NEW m \in Mutexes,
         \A i \in 0 .. MaxMutexes - 1 : mutexes[i].active /\ mutexes[i].addr # m
  PROVE  ~(MaxMutexes >= Cardinality(Mutexes))
<1> DEFINE f == [i \in 0 .. MaxMutexes - 1 |-> mutexes[i].addr]
<1>1. f \in [0 .. MaxMutexes - 1 -> Mutexes \ {m}]
  BY DEF MutexTable
<1>2. DOMAIN mutexes = 0 .. MaxMutexes - 1
  BY DEF Typing, TypeOK
<1>3. \A i, j \in 0 .. MaxMutexes - 1 : f[i] = f[j] => i = j
  BY <1>2 DEF MutexTable, OneEntryPerKey
<1>4. f \in Injection(0 .. MaxMutexes - 1, Mutexes \ {m})
  <2> HIDE DEF f
  <2> QED BY <1>1, <1>3, Fun_IsInj
<1>5. /\ IsFiniteSet(Mutexes) /\ Cardinality(Mutexes) \in Nat
      /\ IsFiniteSet(Mutexes \ {m}) /\ Cardinality(Mutexes \ {m}) = Cardinality(Mutexes) - 1
  BY ProgramConstants, FS_CardinalityType, FS_RemoveElement
<1>6. Cardinality(0 .. MaxMutexes - 1) = MaxMutexes /\ MaxMutexes \in Nat
  BY FS_Interval, TsanConstants
<1>7. Cardinality(0 .. MaxMutexes - 1) <= Cardinality(Mutexes \ {m})
  BY <1>4, <1>5, FS_Injection
<1> QED BY <1>5, <1>6, <1>7

\* What a hook of a mutex finds.
LEMMA MutexFound ==
  ASSUME Typing, Lives, MutexTable, NEW m \in Mutexes
  PROVE  /\ MutexFind(m, FALSE) # NoSlot =>
              /\ MutexFind(m, FALSE) \in 0 .. MaxMutexes - 1
              /\ Hit(mutexes, MutexFind(m, FALSE), m)
         /\ \A i \in 0 .. MaxMutexes - 1 :
              Hit(mutexes, i, m) => i = MutexFind(m, FALSE) /\ MutexFind(m, FALSE) # NoSlot
         /\ MaxMutexes >= Cardinality(Mutexes) /\ life[m] = "live" => MutexFind(m, FALSE) # NoSlot
         /\ life[m] \in {"none", "creating"} => \A i \in 0 .. MaxMutexes - 1 : ~Hit(mutexes, i, m)
<1>0. /\ MutexHash[m] \in 0 .. MaxMutexes - 1 /\ MaxMutexes \in Nat \ {0}
      /\ DOMAIN mutexes = 0 .. MaxMutexes - 1
  BY TsanConstants DEF Typing, TypeOK
<1>1. ASSUME MutexFind(m, FALSE) # NoSlot
      PROVE  /\ MutexFind(m, FALSE) \in 0 .. MaxMutexes - 1
             /\ Hit(mutexes, MutexFind(m, FALSE), m)
  BY <1>0, <1>1, FindExisting DEF MutexFind
<1>2. ASSUME NEW i \in 0 .. MaxMutexes - 1, Hit(mutexes, i, m) PROVE MutexFind(m, FALSE) # NoSlot
  BY <1>0, <1>2, NoSlotMeansAbsent DEF MutexFind
<1>3. ASSUME NEW i \in 0 .. MaxMutexes - 1, Hit(mutexes, i, m) PROVE i = MutexFind(m, FALSE)
  BY <1>0, <1>1, <1>2, <1>3 DEF MutexTable, OneEntryPerKey, Hit
<1>4. MaxMutexes >= Cardinality(Mutexes) /\ life[m] = "live" => MutexFind(m, FALSE) # NoSlot
  BY <1>2 DEF MutexTable
<1>5. life[m] \in {"none", "creating"} => \A i \in 0 .. MaxMutexes - 1 : ~Hit(mutexes, i, m)
  BY DEF MutexTable, Hit
<1> QED BY <1>1, <1>2, <1>3, <1>4, <1>5

\* Steps that change neither the entries in use nor who is alive.
LEMMA SameEntries ==
  ASSUME MutexTable, Typing, Typing',
         \A i \in 0 .. MaxMutexes - 1 :
           mutexes'[i].active = mutexes[i].active /\ mutexes'[i].addr = mutexes[i].addr,
         \A m \in Mutexes : life[m] \in {"live", "dying"} => life'[m] \in {"live", "dying"},
         \A m \in Mutexes : life'[m] = "live" => life[m] = "live"
  PROVE  MutexTable'
<1>1. DOMAIN mutexes = 0 .. MaxMutexes - 1 /\ DOMAIN mutexes' = 0 .. MaxMutexes - 1
  BY DEF Typing, TypeOK
<1> QED BY <1>1 DEF MutexTable, OneEntryPerKey, Hit

LEMMA NextMutexTable ==
  Typing /\ Typing' /\ Lives /\ MutexTable /\ [ProgramNext]_allvars => MutexTable'
<1> SUFFICES ASSUME Typing, Typing', Lives, MutexTable, [ProgramNext]_allvars PROVE MutexTable'
  OBVIOUS
<1>0. /\ mutexes \in [0 .. MaxMutexes - 1 -> MutexEntry]
      /\ life \in [Mutexes -> {"none", "creating", "live", "dying"}]
  BY DEF Typing, TypeOK, Lives
<1>1. CASE UNCHANGED <<mutexes, life>>
  BY <1>1 DEF MutexTable, OneEntryPerKey, Hit
<1>2. ASSUME NEW t \in Threads, NEW m \in Mutexes, CreateMutex(t, m) \/ DestroyMutex(t, m)
      PROVE  MutexTable'
  <2>1. UNCHANGED mutexes
    BY <1>2 DEF CreateMutex, DestroyMutex, Invoke
  <2>2. /\ \A n \in Mutexes : life[n] \in {"live", "dying"} => life'[n] \in {"live", "dying"}
        /\ \A n \in Mutexes : life'[n] = "live" => life[n] = "live"
    BY <1>0, <1>2 DEF CreateMutex, DestroyMutex
  <2> QED BY <2>1, <2>2, SameEntries
<1>3. ASSUME NEW t \in Threads, NEW op \in DOMAIN LifeDuring, In(t, op)
      PROVE  call[t].range[1] \in Mutexes /\ life[call[t].range[1]] = LifeDuring[op]
  BY <1>3 DEF Lives, CallOfLife, In
<1>4. ASSUME NEW t \in Threads, Created(t) PROVE MutexTable'
  <2>1. PICK m \in Mutexes : m = call[t].range[1] /\ life[m] = "creating"
    BY <1>3, <1>4 DEF Created, MutexCreate, LifeDuring
  <2>2. life' = [life EXCEPT ![m] = "live"]
    BY <1>4, <2>1 DEF Created
  <2>3. \A i \in 0 .. MaxMutexes - 1 : ~Hit(mutexes, i, m)
    BY <2>1, MutexFound
  <2>4. MutexHash[m] \in 0 .. MaxMutexes - 1 /\ MaxMutexes \in Nat \ {0}
    BY TsanConstants
  <2>5. CASE MutexFind(m, TRUE) = NoSlot
    <3>1. UNCHANGED mutexes
      BY <1>4, <2>1, <2>5 DEF Created, MutexCreate
    <3>2. \A i \in 0 .. MaxMutexes - 1 : mutexes[i].active
      BY <2>4, <2>5, NoRoomMeansFull DEF MutexFind
    <3>3. ~(MaxMutexes >= Cardinality(Mutexes))
      BY <2>3, <3>2, FullOfOthers DEF Hit
    <3> QED BY <1>0, <2>1, <2>2, <3>1, <3>3 DEF MutexTable, OneEntryPerKey
  <2>6. CASE MutexFind(m, TRUE) # NoSlot
    <3> DEFINE e == [addr |-> m, vc |-> ZeroClock, active |-> TRUE]
    <3>1. PICK i \in 0 .. MaxMutexes - 1 : i = MutexFind(m, TRUE) /\ ~mutexes[i].active
      BY <2>3, <2>4, <2>6, FindOrAllocate DEF MutexFind
    <3>2. mutexes' = [mutexes EXCEPT ![i] = e]
      BY <1>4, <2>1, <2>6, <3>1 DEF Created, MutexCreate
    <3>3. e.addr = m /\ e.active
      OBVIOUS
    <3> HIDE DEF e
    <3>4. /\ mutexes'[i].addr = m /\ mutexes'[i].active
          /\ \A j \in 0 .. MaxMutexes - 1 : j # i => mutexes'[j] = mutexes[j]
          /\ DOMAIN mutexes = 0 .. MaxMutexes - 1 /\ DOMAIN mutexes' = 0 .. MaxMutexes - 1
      BY <1>0, <3>2, <3>3
    <3>5. OneEntryPerKey(mutexes)'
      BY <2>3, <3>4 DEF MutexTable, OneEntryPerKey, Hit
    <3>6. \A j \in 0 .. MaxMutexes - 1 : mutexes'[j].active =>
            mutexes'[j].addr \in Mutexes /\ life'[mutexes'[j].addr] \in {"live", "dying"}
      BY <1>0, <2>2, <3>4 DEF MutexTable
    <3>7. ASSUME MaxMutexes >= Cardinality(Mutexes), NEW n \in Mutexes, life'[n] = "live"
          PROVE  \E j \in 0 .. MaxMutexes - 1 : Hit(mutexes, j, n)'
      <4>1. CASE n = m
        BY <3>4, <4>1 DEF Hit
      <4>2. CASE n # m
        <5>1. PICK j \in 0 .. MaxMutexes - 1 : Hit(mutexes, j, n)
          BY <1>0, <2>2, <3>7, <4>2 DEF MutexTable
        <5> QED BY <3>1, <3>4, <5>1 DEF Hit
      <4> QED BY <4>1, <4>2
    <3> QED BY <3>5, <3>6, <3>7 DEF MutexTable
  <2> QED BY <2>5, <2>6
<1>5. ASSUME NEW t \in Threads, Destroyed(t) PROVE MutexTable'
  <2>1. PICK m \in Mutexes : m = call[t].range[1] /\ life[m] = "dying"
    BY <1>3, <1>5 DEF Destroyed, MutexDestroy, LifeDuring
  <2>2. life' = [life EXCEPT ![m] = "none"]
    BY <1>5, <2>1 DEF Destroyed
  <2>3. \A i \in 0 .. MaxMutexes - 1 :
          /\ mutexes'[i].addr = mutexes[i].addr
          /\ mutexes'[i].active = (mutexes[i].active /\ ~Hit(mutexes, i, m))
    <3>1. CASE MutexFind(m, FALSE) = NoSlot
      <4>1. UNCHANGED mutexes
        BY <1>5, <2>1, <3>1 DEF Destroyed, MutexDestroy
      <4>2. \A i \in 0 .. MaxMutexes - 1 : ~Hit(mutexes, i, m)
        BY <3>1, MutexFound
      <4> QED BY <1>0, <4>1, <4>2 DEF MutexEntry
    <3>2. CASE MutexFind(m, FALSE) # NoSlot
      <4>1. PICK k \in 0 .. MaxMutexes - 1 : k = MutexFind(m, FALSE) /\ Hit(mutexes, k, m)
        BY <3>2, MutexFound
      <4>2. mutexes' = [mutexes EXCEPT ![k].active = FALSE]
        BY <1>5, <2>1, <3>2, <4>1 DEF Destroyed, MutexDestroy
      <4>3. \A i \in 0 .. MaxMutexes - 1 : Hit(mutexes, i, m) => i = k
        BY <4>1, MutexFound
      <4> QED BY <1>0, <4>1, <4>2, <4>3 DEF MutexEntry
    <3> QED BY <3>1, <3>2
  <2>4. DOMAIN mutexes = 0 .. MaxMutexes - 1 /\ DOMAIN mutexes' = 0 .. MaxMutexes - 1
    BY DEF Typing, TypeOK
  <2>5. OneEntryPerKey(mutexes)'
    BY <2>3, <2>4 DEF MutexTable, OneEntryPerKey
  <2>6. \A j \in 0 .. MaxMutexes - 1 : mutexes'[j].active =>
          mutexes'[j].addr \in Mutexes /\ life'[mutexes'[j].addr] \in {"live", "dying"}
    BY <1>0, <2>2, <2>3 DEF MutexTable, Hit
  <2>7. ASSUME MaxMutexes >= Cardinality(Mutexes), NEW n \in Mutexes, life'[n] = "live"
        PROVE  \E j \in 0 .. MaxMutexes - 1 : Hit(mutexes, j, n)'
    <3>1. n # m /\ life[n] = "live"
      BY <1>0, <2>2, <2>7
    <3>2. PICK j \in 0 .. MaxMutexes - 1 : Hit(mutexes, j, n)
      BY <2>7, <3>1 DEF MutexTable
    <3> QED BY <2>3, <3>1, <3>2 DEF Hit
  <2> QED BY <2>5, <2>6, <2>7 DEF MutexTable
<1>6. ASSUME NEW t \in Threads, Released(t) PROVE MutexTable'
  <2>1. PICK m \in Mutexes : m = call[t].range[1]
    BY <1>3, <1>6 DEF Released, PostUnlock, LifeDuring
  <2>2. UNCHANGED life
    BY <1>6 DEF Released, program
  <2>3. \A i \in 0 .. MaxMutexes - 1 :
          mutexes'[i].active = mutexes[i].active /\ mutexes'[i].addr = mutexes[i].addr
    <3>1. CASE MutexFind(m, FALSE) = NoSlot
      BY <1>6, <2>1, <3>1 DEF Released, PostUnlock
    <3>2. CASE MutexFind(m, FALSE) # NoSlot
      <4>1. PICK k \in 0 .. MaxMutexes - 1 : k = MutexFind(m, FALSE)
        BY <3>2, MutexFound
      <4>2. PICK v : mutexes' = [mutexes EXCEPT ![k].vc = v]
        <5>1. PostUnlock(t)
          BY <1>6 DEF Released
        <5> QED BY <2>1, <3>2, <4>1, <5>1 DEF PostUnlock
      <4> QED BY <1>0, <4>1, <4>2 DEF MutexEntry
    <3> QED BY <3>1, <3>2
  <2> QED BY <2>2, <2>3, SameEntries
<1>7. ASSUME NEW t \in Threads, Acquired(t) \/ Accessed(t) PROVE UNCHANGED <<mutexes, life>>
  BY <1>7 DEF Acquired, Accessed, PostLock, AccessRecorded, AccessUntracked, program
<1>8. ASSUME NEW t \in Threads,
             ReserveTid(t) \/ InitSlot(t) \/ Acquire(t) \/ AccessRace(t),
             UNCHANGED <<program, history>>
      PROVE  UNCHANGED <<mutexes, life>>
  BY <1>8 DEF program, ReserveTid, InitSlot, Acquire, AccessRace
<1>9. ASSUME NEW t \in Threads, Act(t)
      PROVE  \/ UNCHANGED <<mutexes, life>>
             \/ \E m \in Mutexes : CreateMutex(t, m) \/ DestroyMutex(t, m)
  BY <1>9 DEF Act, Touch, BeforeLock, Lock, BeforeUnlock, Unlock, Invoke, program
<1>10. UNCHANGED allvars => UNCHANGED <<mutexes, life>>
  BY DEF allvars, vars, program
<1> QED
  BY <1>1, <1>2, <1>4, <1>5, <1>6, <1>7, <1>8, <1>9, <1>10
     DEF ProgramNext, Runtime

\* The table of mutexes follows their lives: however creations, destructions
\* and collisions leave holes in it, a mutex has one entry at most, a dead
\* mutex none, and a live one is found if the table can hold every mutex.
THEOREM TableFollowsMutexes == ProgramSpec => []MutexTableExact
<1>1. Typing /\ Lives /\ MutexTable => MutexTableExact
  <2> SUFFICES ASSUME Typing, Lives, MutexTable PROVE MutexTableExact
    OBVIOUS
  <2>1. DOMAIN mutexes = 0 .. MaxMutexes - 1
    BY DEF Typing, TypeOK
  <2>2. \A i \in DOMAIN mutexes : mutexes[i].active => life[mutexes[i].addr] # "none"
    BY <2>1 DEF MutexTable
  <2>3. MaxMutexes >= Cardinality(Mutexes) =>
          \A m \in Mutexes : life[m] = "live" => MutexFind(m, FALSE) # NoSlot
    BY MutexFound
  <2> QED BY <2>2, <2>3 DEF MutexTableExact, MutexTable
<1> QED
  BY <1>1, ProgramIsTsan, InitTyping, NextTyping, ProgramStep, InitLives, NextLives,
     InitMutexTable, NextMutexTable, PTL DEF ProgramSpec, Spec

---------------------------------------------------------------------------------
(* What threads know of each other's clocks.                               *)

LEMMA InitKnowledge == ProgramInit => Knowledge
BY DEF ProgramInit, Init, Knowledge

LEMMA SettledStays ==
  ASSUME Typing, Identities, [Next]_vars, NEW t \in Threads, Settled(t)
  PROVE  Settled(t)' /\ current_tid'[t] = current_tid[t]
<1>0. /\ pc \in [Threads -> Locations] /\ current_tid \in [Threads -> Tid \cup {-1}]
      /\ pc[t] # "get_tid" /\ pc[t] # "init_slot" /\ current_tid[t] \in Tid
  BY TidFacts DEF Typing, TypeOK, CallOK, Settled
<1>1. ASSUME NEW u \in Threads, ReserveTid(u) \/ InitSlot(u)
      PROVE  Settled(t)' /\ current_tid'[t] = current_tid[t]
  BY <1>0, <1>1 DEF ReserveTid, InitSlot, Settled
<1>2. ASSUME NEW u \in Threads, UNCHANGED current_tid,
             \E l \in Locations \ {"init_slot"} : pc' = [pc EXCEPT ![u] = l]
      PROVE  Settled(t)' /\ current_tid'[t] = current_tid[t]
  BY <1>0, <1>2 DEF Settled
<1>3. ASSUME NEW u \in Threads, NEW c \in Calls \cup {InitCall}, Invoke(u, c)
      PROVE  Settled(t)' /\ current_tid'[t] = current_tid[t]
  BY <1>0, <1>3 DEF Invoke, AfterTid, Settled
<1>4. ASSUME NEW u \in Threads, Acquire(u) \/ AccessRace(u)
      PROVE  Settled(t)' /\ current_tid'[t] = current_tid[t]
  BY <1>2, <1>4 DEF Acquire, AccessRace, Locations
<1>5. ASSUME NEW u \in Threads,
             \/ AccessUntracked(u) \/ AccessRecorded(u)
             \/ MutexCreate(u) \/ MutexDestroy(u) \/ PostLock(u) \/ PostUnlock(u)
      PROVE  Settled(t)' /\ current_tid'[t] = current_tid[t]
  BY <1>2, <1>5 DEF AccessUntracked, AccessRecorded, MutexCreate, MutexDestroy,
     PostLock, PostUnlock, NextAddress, Return, Locations
<1>6. UNCHANGED vars => Settled(t)' /\ current_tid'[t] = current_tid[t]
  BY <1>0 DEF vars, Settled
<1> QED BY <1>1, <1>3, <1>4, <1>5, <1>6 DEF Next, Step

\* When t alone moves its clock, and not back, what the others are known for
\* stays known.
LEMMA KnowledgeOfOthers ==
  ASSUME Typing, Typing', Identities, Knowledge, [Next]_vars, NEW t \in Threads,
         \A u \in Threads \ {t} : Settled(u) => vc'[current_tid[u]] = vc[current_tid[u]],
         Settled(t) => \A i \in Tid \ {current_tid[t]} :
                         vc'[current_tid[t]][i] >= vc[current_tid[t]][i]
  PROVE  /\ \A v \in Threads : \A u \in quiet[v] \ {t} :
              /\ u \in Threads \ {v} /\ Settled(v)' /\ Settled(u)'
              /\ vc'[current_tid'[u]][current_tid'[u]] <= vc'[current_tid'[v]][current_tid'[u]]
         /\ \A m \in Mutexes : \A u \in handed[m] \ {t} :
              /\ u \in Threads /\ Settled(u)'
              /\ \A i \in 0 .. MaxMutexes - 1 : Hit(mutexes, i, m) =>
                   vc'[current_tid'[u]][current_tid'[u]] <= mutexes[i].vc[current_tid'[u]]
<1>0. /\ \A i, j \in Tid : vc[i][j] \in Nat /\ vc'[i][j] \in Nat
      /\ \A u, v \in Threads : Settled(u) /\ Settled(v) /\ u # v => current_tid[u] # current_tid[v]
  <2>1. vc \in [Tid -> Clocks] /\ vc' \in [Tid -> Clocks]
    BY DEF Typing, TypeOK
  <2>2. ASSUME NEW u \in Threads, NEW v \in Threads, Settled(u), Settled(v), u # v
        PROVE  current_tid[u] # current_tid[v]
    <3>1. current_tid[u] \in Nat
      BY <2>2, TidFacts DEF Settled
    <3>2. current_tid[u] >= 0
      BY <3>1
    <3> QED BY <2>2, <3>2 DEF Identities, DistinctTids
  <2> QED BY <2>1, <2>2, ClockTable
<1>1. ASSUME NEW v \in Threads, NEW u \in quiet[v] \ {t}
      PROVE  /\ u \in Threads \ {v} /\ Settled(v)' /\ Settled(u)'
             /\ vc'[current_tid'[u]][current_tid'[u]] <= vc'[current_tid'[v]][current_tid'[u]]
  <2>1. /\ u \in Threads \ {v} /\ Settled(v) /\ Settled(u)
        /\ vc[current_tid[u]][current_tid[u]] <= vc[current_tid[v]][current_tid[u]]
    BY <1>1 DEF Knowledge
  <2>2. /\ Settled(v)' /\ current_tid'[v] = current_tid[v]
        /\ Settled(u)' /\ current_tid'[u] = current_tid[u]
    BY <2>1, SettledStays
  <2>3. /\ vc'[current_tid[u]] = vc[current_tid[u]]
        /\ current_tid[u] \in Tid /\ current_tid[v] \in Tid /\ current_tid[u] # current_tid[v]
    BY <1>0, <1>1, <2>1 DEF Settled
  <2>4. vc'[current_tid[v]][current_tid[u]] >= vc[current_tid[v]][current_tid[u]]
    <3>1. CASE v = t
      BY <2>1, <2>3, <3>1
    <3>2. CASE v # t
      BY <1>0, <2>1, <2>3, <3>2
    <3> QED BY <3>1, <3>2
  <2> QED BY <1>0, <2>1, <2>2, <2>3, <2>4
<1>2. ASSUME NEW m \in Mutexes, NEW u \in handed[m] \ {t}
      PROVE  /\ u \in Threads /\ Settled(u)'
             /\ \A i \in 0 .. MaxMutexes - 1 : Hit(mutexes, i, m) =>
                  vc'[current_tid'[u]][current_tid'[u]] <= mutexes[i].vc[current_tid'[u]]
  <2>1. /\ u \in Threads /\ Settled(u)
        /\ \A i \in 0 .. MaxMutexes - 1 : Hit(mutexes, i, m) =>
             vc[current_tid[u]][current_tid[u]] <= mutexes[i].vc[current_tid[u]]
    BY <1>2 DEF Knowledge
  <2>2. Settled(u)' /\ current_tid'[u] = current_tid[u]
    BY <2>1, SettledStays
  <2>3. vc'[current_tid[u]] = vc[current_tid[u]]
    BY <1>2, <2>1
  <2> QED BY <2>1, <2>2, <2>3
<1> QED BY <1>1, <1>2

\* Steps of threads that keep the clocks and the history.
LEMMA SameClocksKeepKnowledge ==
  ASSUME Typing, Identities, Knowledge, [Next]_vars, UNCHANGED <<vc, mutexes, quiet, handed>>
  PROVE  Knowledge'
BY SettledStays DEF Knowledge, Hit

LEMMA NextKnowledge ==
  ASSUME MaxMutexes >= Cardinality(Mutexes)
  PROVE  Typing /\ Typing' /\ Identities /\ Lives /\ MutexTable /\ Knowledge
           /\ [ProgramNext]_allvars => Knowledge'
<1> SUFFICES ASSUME Typing, Typing', Identities, Lives, MutexTable, Knowledge,
                    [ProgramNext]_allvars
             PROVE  Knowledge'
  OBVIOUS
<1>0. /\ mutexes \in [0 .. MaxMutexes - 1 -> MutexEntry] /\ MaxMutexes \in Nat \ {0}
      /\ vc \in [Tid -> Clocks] /\ vc' \in [Tid -> Clocks]
      /\ \A i, j \in Tid : vc[i][j] \in Nat /\ vc'[i][j] \in Nat
      /\ \A k \in 0 .. MaxMutexes - 1, i \in Tid : mutexes[k].vc[i] \in Nat
      /\ [Next]_vars
      /\ quiet \in [Threads -> SUBSET Threads] /\ handed \in [Mutexes -> SUBSET Threads]
      /\ \A t \in Threads : t \notin quiet[t]
  BY TsanConstants, ClockTable, ClockNats, ProgramStep DEF Typing, TypeOK, Knowledge
<1>1. CASE UNCHANGED <<vc, mutexes, quiet, handed>>
  BY <1>0, <1>1, SameClocksKeepKnowledge
<1>2. ASSUME NEW t \in Threads, InitSlot(t), UNCHANGED history PROVE Knowledge'
  <2>1. \A u \in Threads \ {t} : Settled(u) => vc'[current_tid[u]] = vc[current_tid[u]]
    <3>1. ASSUME NEW u \in Threads \ {t}, Settled(u) PROVE vc'[current_tid[u]] = vc[current_tid[u]]
      <4>1. current_tid[u] \in Tid /\ current_tid[u] \in Nat
        BY <3>1, TidFacts DEF Settled
      <4>2. current_tid[u] >= 0
        BY <4>1
      <4>3. current_tid[u] # current_tid[t]
        BY <3>1, <4>2 DEF Identities, DistinctTids
      <4> QED BY <1>0, <1>2, <4>1, <4>3 DEF InitSlot
    <3> QED BY <3>1
  <2>2. ~Settled(t) /\ UNCHANGED <<mutexes, quiet, handed>>
    BY <1>2 DEF InitSlot, Settled, history
  <2>3. /\ \A v \in Threads : t \notin quiet[v]
        /\ \A m \in Mutexes : t \notin handed[m]
    BY <2>2 DEF Knowledge
  <2>4. /\ \A v \in Threads : \A u \in quiet[v] \ {t} :
              /\ u \in Threads \ {v} /\ Settled(v)' /\ Settled(u)'
              /\ vc'[current_tid'[u]][current_tid'[u]] <= vc'[current_tid'[v]][current_tid'[u]]
        /\ \A m \in Mutexes : \A u \in handed[m] \ {t} :
              /\ u \in Threads /\ Settled(u)'
              /\ \A i \in 0 .. MaxMutexes - 1 : Hit(mutexes, i, m) =>
                   vc'[current_tid'[u]][current_tid'[u]] <= mutexes[i].vc[current_tid'[u]]
    BY <1>0, <2>1, <2>2, KnowledgeOfOthers
  <2> QED BY <1>0, <2>2, <2>3, <2>4 DEF Knowledge, Hit
<1>3. ASSUME NEW t \in Threads, NEW op \in DOMAIN LifeDuring, In(t, op)
      PROVE  call[t].range[1] \in Mutexes /\ life[call[t].range[1]] = LifeDuring[op]
  BY <1>3 DEF Lives, CallOfLife, In
<1>4. ASSUME NEW t \in Threads, In(t, "access") \/ In(t, "post_lock") \/ In(t, "post_unlock")
      PROVE  /\ Settled(t) /\ current_tid[t] \in Tid
             /\ \A u \in Threads \ {t} : Settled(u) => current_tid[u] # current_tid[t]
  <2>1. current_tid[t] \in Tid /\ pc[t] = "critical"
    BY <1>4, CriticalFacts DEF In
  <2>2. current_tid[t] \in Nat
    BY <2>1, TidFacts
  <2>3. current_tid[t] >= 0
    BY <2>2
  <2> QED BY <2>1, <2>3 DEF Settled, Identities, DistinctTids
<1>5. ASSUME NEW t \in Threads, Accessed(t) PROVE Knowledge'
  <2>1. In(t, "access") /\ UNCHANGED mutexes /\ Speaks(t)
    BY <1>5 DEF Accessed, AccessRecorded, AccessUntracked
  <2>2. UNCHANGED vc \/ vc' = [vc EXCEPT ![current_tid[t]] = VcInc(@, current_tid[t])]
    BY <1>5 DEF Accessed, AccessRecorded, AccessUntracked
  <2>3. \A u \in Threads \ {t} : Settled(u) => vc'[current_tid[u]] = vc[current_tid[u]]
    BY <1>0, <1>4, <2>1, <2>2 DEF Settled
  <2>4. \A i \in Tid \ {current_tid[t]} : vc'[current_tid[t]][i] >= vc[current_tid[t]][i]
    BY <1>0, <1>4, <2>1, <2>2 DEF VcInc, Clocks
  <2>5. /\ \A v \in Threads : \A u \in quiet[v] \ {t} :
              /\ u \in Threads \ {v} /\ Settled(v)' /\ Settled(u)'
              /\ vc'[current_tid'[u]][current_tid'[u]] <= vc'[current_tid'[v]][current_tid'[u]]
        /\ \A m \in Mutexes : \A u \in handed[m] \ {t} :
              /\ u \in Threads /\ Settled(u)'
              /\ \A i \in 0 .. MaxMutexes - 1 : Hit(mutexes, i, m) =>
                   vc'[current_tid'[u]][current_tid'[u]] <= mutexes[i].vc[current_tid'[u]]
    BY <1>0, <2>3, <2>4, KnowledgeOfOthers
  <2>6. /\ quiet' \in [Threads -> SUBSET Threads] /\ handed' \in [Mutexes -> SUBSET Threads]
        /\ \A v \in Threads : quiet'[v] = quiet[v] \ {t}
        /\ \A m \in Mutexes : handed'[m] = handed[m] \ {t}
    BY <1>0, <2>1 DEF Speaks
  <2> QED BY <2>1, <2>5, <2>6 DEF Knowledge, Hit
<1>6. ASSUME NEW t \in Threads, Acquired(t) PROVE Knowledge'
  <2>1. In(t, "post_lock") /\ UNCHANGED mutexes
    BY <1>6 DEF Acquired, PostLock
  <2>2. PICK m \in Mutexes : m = call[t].range[1] /\ life[m] = "live"
    BY <1>3, <2>1 DEF LifeDuring
  <2>3. PICK k \in 0 .. MaxMutexes - 1 : k = MutexFind(m, FALSE) /\ Hit(mutexes, k, m)
    BY <2>2, MutexFound
  <2>4. PICK tid \in Tid : tid = current_tid[t]
    BY <1>4, <2>1
  <2>5. vc' = [vc EXCEPT ![tid] = VcJoin(@, mutexes[k].vc)]
    <3>1. MutexFind(m, FALSE) # NoSlot
      BY <1>0, <2>3, MutexFound DEF NoSlot
    <3>2. PostLock(t)
      BY <1>6 DEF Acquired
    <3> QED BY <2>2, <2>3, <2>4, <3>1, <3>2 DEF PostLock
  <2>6. \A i \in Tid : vc'[tid][i] >= vc[tid][i] /\ vc'[tid][i] >= mutexes[k].vc[i]
    <3>1. \A i \in Tid : vc'[tid][i] =
            IF mutexes[k].vc[i] > vc[tid][i] THEN mutexes[k].vc[i] ELSE vc[tid][i]
      BY <1>0, <2>5 DEF VcJoin
    <3> QED BY <1>0, <3>1
  <2>7. \A u \in Threads \ {t} : Settled(u) => vc'[current_tid[u]] = vc[current_tid[u]]
    BY <1>0, <1>4, <2>1, <2>4, <2>5 DEF Settled
  <2>8. /\ \A v \in Threads : \A u \in quiet[v] \ {t} :
              /\ u \in Threads \ {v} /\ Settled(v)' /\ Settled(u)'
              /\ vc'[current_tid'[u]][current_tid'[u]] <= vc'[current_tid'[v]][current_tid'[u]]
        /\ \A n \in Mutexes : \A u \in handed[n] \ {t} :
              /\ u \in Threads /\ Settled(u)'
              /\ \A i \in 0 .. MaxMutexes - 1 : Hit(mutexes, i, n) =>
                   vc'[current_tid'[u]][current_tid'[u]] <= mutexes[i].vc[current_tid'[u]]
    <3>1. \A i \in Tid \ {current_tid[t]} : vc'[current_tid[t]][i] >= vc[current_tid[t]][i]
      BY <2>4, <2>6
    <3> QED BY <1>0, <2>7, <3>1, KnowledgeOfOthers
  <2>9. /\ quiet' \in [Threads -> SUBSET Threads] /\ handed' \in [Mutexes -> SUBSET Threads]
        /\ \A v \in Threads \ {t} : quiet'[v] = quiet[v] \ {t}
        /\ quiet'[t] = (quiet[t] \ {t}) \cup (handed[m] \ {t})
        /\ \A n \in Mutexes : handed'[n] = handed[n] \ {t}
    BY <1>0, <1>6, <2>2 DEF Acquired
  <2>10. ASSUME NEW u \in handed[m] \ {t}
         PROVE  /\ u \in Threads \ {t} /\ Settled(t)' /\ Settled(u)'
                /\ vc'[current_tid'[u]][current_tid'[u]] <= vc'[current_tid'[t]][current_tid'[u]]
    <3>1. /\ u \in Threads \ {t} /\ Settled(u)'
          /\ vc'[current_tid'[u]][current_tid'[u]] <= mutexes[k].vc[current_tid'[u]]
      BY <2>3, <2>8
    <3>2. Settled(t)' /\ current_tid'[t] = tid
      BY <1>0, <1>4, <2>1, <2>4, SettledStays
    <3>3. current_tid'[u] \in Tid
      BY <3>1 DEF Settled
    <3>4. vc'[tid][current_tid'[u]] >= mutexes[k].vc[current_tid'[u]]
      BY <2>6, <3>3
    <3> QED BY <1>0, <3>1, <3>2, <3>3, <3>4
  <2>11. \A v \in Threads : \A u \in quiet'[v] :
              /\ u \in Threads \ {v} /\ Settled(v)' /\ Settled(u)'
              /\ vc'[current_tid'[u]][current_tid'[u]] <= vc'[current_tid'[v]][current_tid'[u]]
    BY <2>8, <2>9, <2>10
  <2> QED BY <2>1, <2>8, <2>9, <2>11 DEF Knowledge, Hit
<1>7. ASSUME NEW t \in Threads, Created(t) PROVE Knowledge'
  <2>1. In(t, "create") /\ UNCHANGED <<vc, quiet>>
    BY <1>7 DEF Created, MutexCreate
  <2>2. PICK m \in Mutexes : m = call[t].range[1]
    BY <1>3, <2>1 DEF LifeDuring
  <2>3. handed' = [handed EXCEPT ![m] = {}]
    BY <1>7, <2>2 DEF Created
  <2>4. ASSUME NEW n \in Mutexes \ {m}, NEW i \in 0 .. MaxMutexes - 1, Hit(mutexes', i, n)
        PROVE  mutexes'[i] = mutexes[i]
    <3>1. CASE MutexFind(m, TRUE) = NoSlot
      BY <1>7, <2>2, <3>1 DEF Created, MutexCreate
    <3>2. CASE MutexFind(m, TRUE) # NoSlot
      <4> DEFINE e == [addr |-> m, vc |-> ZeroClock, active |-> TRUE]
      <4>1. mutexes' = [mutexes EXCEPT ![MutexFind(m, TRUE)] = e] /\ e.addr = m
        BY <1>7, <2>2, <3>2 DEF Created, MutexCreate
      <4> HIDE DEF e
      <4>2. i # MutexFind(m, TRUE)
        BY <1>0, <2>4, <4>1 DEF Hit
      <4> QED BY <1>0, <4>1, <4>2
    <3> QED BY <3>1, <3>2
  <2>5. ASSUME NEW n \in Mutexes, NEW u \in handed'[n]
        PROVE  /\ u \in Threads /\ Settled(u)'
               /\ \A i \in 0 .. MaxMutexes - 1 : Hit(mutexes', i, n) =>
                    vc'[current_tid'[u]][current_tid'[u]] <= mutexes'[i].vc[current_tid'[u]]
    <3>1. n # m /\ u \in handed[n]
      BY <1>0, <2>3, <2>5
    <3>2. Settled(u) /\ u \in Threads
      BY <3>1 DEF Knowledge
    <3>3. Settled(u)' /\ current_tid'[u] = current_tid[u]
      BY <1>0, <3>2, SettledStays
    <3> QED BY <2>1, <2>4, <3>1, <3>2, <3>3 DEF Knowledge, Hit
  <2>6. /\ quiet' \in [Threads -> SUBSET Threads] /\ handed' \in [Mutexes -> SUBSET Threads]
    BY <1>0, <2>1, <2>3
  <2>7. \A v \in Threads : \A u \in quiet'[v] :
              /\ u \in Threads \ {v} /\ Settled(v)' /\ Settled(u)'
              /\ vc'[current_tid'[u]][current_tid'[u]] <= vc'[current_tid'[v]][current_tid'[u]]
    BY <1>0, <2>1, SettledStays DEF Knowledge
  <2> QED BY <2>5, <2>6, <2>7 DEF Knowledge, Hit
<1>8. ASSUME NEW t \in Threads, Destroyed(t) PROVE Knowledge'
  <2>1. In(t, "destroy") /\ UNCHANGED <<vc, quiet, handed>>
    BY <1>8 DEF Destroyed, MutexDestroy, history
  <2>2. PICK m \in Mutexes : m = call[t].range[1]
    BY <1>3, <2>1 DEF LifeDuring
  <2>3. ASSUME NEW n \in Mutexes, NEW i \in 0 .. MaxMutexes - 1, Hit(mutexes', i, n)
        PROVE  Hit(mutexes, i, n) /\ mutexes'[i].vc = mutexes[i].vc
    <3>1. CASE MutexFind(m, FALSE) = NoSlot
      <4>1. UNCHANGED mutexes
        BY <1>8, <2>2, <3>1 DEF Destroyed, MutexDestroy
      <4> QED BY <2>3, <4>1 DEF Hit
    <3>2. CASE MutexFind(m, FALSE) # NoSlot
      <4>1. mutexes' = [mutexes EXCEPT ![MutexFind(m, FALSE)].active = FALSE]
        BY <1>8, <2>2, <3>2 DEF Destroyed, MutexDestroy
      <4> QED BY <1>0, <2>3, <4>1 DEF Hit, MutexEntry
    <3> QED BY <3>1, <3>2
  <2>4. ASSUME NEW n \in Mutexes, NEW u \in handed[n]
        PROVE  /\ u \in Threads /\ Settled(u)'
               /\ \A i \in 0 .. MaxMutexes - 1 : Hit(mutexes', i, n) =>
                    vc'[current_tid'[u]][current_tid'[u]] <= mutexes'[i].vc[current_tid'[u]]
    <3>1. /\ u \in Threads /\ Settled(u)
          /\ \A i \in 0 .. MaxMutexes - 1 : Hit(mutexes, i, n) =>
               vc[current_tid[u]][current_tid[u]] <= mutexes[i].vc[current_tid[u]]
      BY <2>4 DEF Knowledge
    <3>2. Settled(u)' /\ current_tid'[u] = current_tid[u]
      BY <1>0, <3>1, SettledStays
    <3> QED BY <2>1, <2>3, <3>1, <3>2
  <2>5. \A v \in Threads : \A u \in quiet'[v] :
              /\ u \in Threads \ {v} /\ Settled(v)' /\ Settled(u)'
              /\ vc'[current_tid'[u]][current_tid'[u]] <= vc'[current_tid'[v]][current_tid'[u]]
    BY <1>0, <2>1, SettledStays DEF Knowledge
  <2> QED BY <1>0, <2>1, <2>4, <2>5 DEF Knowledge, Hit
<1>9. ASSUME NEW t \in Threads, Released(t) PROVE Knowledge'
  <2>1. In(t, "post_unlock") /\ UNCHANGED <<vc, quiet>>
    BY <1>9 DEF Released, PostUnlock
  <2>2. PICK m \in Mutexes : m = call[t].range[1] /\ life[m] = "live"
    BY <1>3, <2>1 DEF LifeDuring
  <2>3. PICK k \in 0 .. MaxMutexes - 1 : k = MutexFind(m, FALSE) /\ Hit(mutexes, k, m)
    BY <2>2, MutexFound
  <2>4. PICK tid \in Tid : tid = current_tid[t]
    BY <1>4, <2>1
  <2>5. PICK v \in Clocks : v = VcInc(vc[tid], tid) /\ \A i \in Tid : v[i] >= vc[tid][i]
    <3>1. VcInc(vc[tid], tid) \in Clocks
      BY <1>0, VcIncType
    <3>2. \A i \in Tid : VcInc(vc[tid], tid)[i] >= vc[tid][i]
      BY <1>0 DEF VcInc, Clocks
    <3> QED BY <3>1, <3>2
  <2>6. mutexes' = [mutexes EXCEPT ![k].vc = v]
    <3>1. MutexFind(m, FALSE) # NoSlot
      BY <1>0, <2>3, MutexFound DEF NoSlot
    <3>2. PostUnlock(t)
      BY <1>9 DEF Released
    <3> QED BY <2>2, <2>3, <2>4, <2>5, <3>1, <3>2 DEF PostUnlock
  <2>7. /\ mutexes'[k].vc = v
        /\ \A i \in 0 .. MaxMutexes - 1 : i # k => mutexes'[i] = mutexes[i]
        /\ \A i \in 0 .. MaxMutexes - 1, n \in Mutexes : Hit(mutexes', i, n) => Hit(mutexes, i, n)
    BY <1>0, <2>6 DEF MutexEntry, Hit
  <2>8. handed' = [handed EXCEPT ![m] = quiet[t] \cup {t}]
    BY <1>9, <2>2 DEF Released
  <2>9. ASSUME NEW u \in quiet[t] \cup {t}
        PROVE  /\ u \in Threads /\ Settled(u)' /\ current_tid'[u] = current_tid[u]
               /\ vc[current_tid[u]][current_tid[u]] <= v[current_tid[u]]
    <3>1. /\ u \in Threads /\ Settled(u) /\ current_tid[u] \in Tid
          /\ vc[current_tid[u]][current_tid[u]] <= vc[tid][current_tid[u]]
      <4>1. CASE u = t
        BY <1>0, <1>4, <2>1, <2>4, <4>1
      <4>2. CASE u \in quiet[t]
        BY <2>4, <4>2 DEF Knowledge, Settled
      <4> QED BY <4>1, <4>2
    <3>2. v[current_tid[u]] \in Nat
      BY <3>1 DEF Clocks
    <3>3. vc[current_tid[u]][current_tid[u]] <= v[current_tid[u]]
      BY <1>0, <2>5, <3>1, <3>2
    <3> QED BY <1>0, <3>1, <3>3, SettledStays
  <2>10. ASSUME NEW n \in Mutexes, NEW u \in handed'[n]
         PROVE  /\ u \in Threads /\ Settled(u)'
                /\ \A i \in 0 .. MaxMutexes - 1 : Hit(mutexes', i, n) =>
                     vc'[current_tid'[u]][current_tid'[u]] <= mutexes'[i].vc[current_tid'[u]]
    <3>1. CASE n = m
      <4>1. u \in quiet[t] \cup {t}
        BY <1>0, <2>8, <2>10, <3>1
      <4>2. \A i \in 0 .. MaxMutexes - 1 : Hit(mutexes', i, n) => i = k
        BY <2>3, <2>7, <3>1, MutexFound
      <4> QED BY <2>1, <2>7, <2>9, <4>1, <4>2
    <3>2. CASE n # m
      <4>1. u \in handed[n]
        BY <1>0, <2>8, <2>10, <3>2
      <4>2. Settled(u) /\ u \in Threads
        BY <4>1 DEF Knowledge
      <4>3. Settled(u)' /\ current_tid'[u] = current_tid[u]
        BY <1>0, <4>2, SettledStays
      <4>4. ASSUME NEW i \in 0 .. MaxMutexes - 1, Hit(mutexes', i, n)
            PROVE  Hit(mutexes, i, n) /\ mutexes'[i] = mutexes[i]
        <5>1. Hit(mutexes, i, n)
          BY <2>7, <4>4
        <5>2. i # k
          BY <2>3, <3>2, <5>1 DEF Hit
        <5> QED BY <2>7, <5>1, <5>2
      <4> QED BY <2>1, <4>1, <4>2, <4>3, <4>4 DEF Knowledge
    <3> QED BY <3>1, <3>2
  <2>11. /\ quiet' \in [Threads -> SUBSET Threads] /\ handed' \in [Mutexes -> SUBSET Threads]
    BY <1>0, <2>1, <2>8
  <2>12. \A w \in Threads : \A u \in quiet'[w] :
              /\ u \in Threads \ {w} /\ Settled(w)' /\ Settled(u)'
              /\ vc'[current_tid'[u]][current_tid'[u]] <= vc'[current_tid'[w]][current_tid'[u]]
    BY <1>0, <2>1, SettledStays DEF Knowledge
  <2> QED BY <2>10, <2>11, <2>12 DEF Knowledge, Hit
<1>10. ASSUME NEW t \in Threads, Act(t) PROVE UNCHANGED <<vc, mutexes, quiet, handed>>
  BY <1>10 DEF Act, Touch, CreateMutex, DestroyMutex, BeforeLock, Lock, BeforeUnlock, Unlock,
     Invoke, history
<1>11. ASSUME NEW t \in Threads, ReserveTid(t) \/ Acquire(t) \/ AccessRace(t),
              UNCHANGED <<program, history>>
       PROVE  UNCHANGED <<vc, mutexes, quiet, handed>>
  BY <1>11 DEF ReserveTid, Acquire, AccessRace, history
<1>12. UNCHANGED allvars => UNCHANGED <<vc, mutexes, quiet, handed>>
  BY DEF allvars, vars, history
<1> QED
  BY <1>1, <1>2, <1>5, <1>6, <1>7, <1>8, <1>9, <1>10, <1>11, <1>12 DEF ProgramNext, Runtime

\* A report never names a thread that handed its work over under a mutex and
\* has been silent since, if the table can hold every mutex: what tsan_access
\* compares is the clock the thread had when it handed over.
THEOREM QuietThreadsAreNotReported ==
  ASSUME MaxMutexes >= Cardinality(Mutexes)
  PROVE  ProgramSpec => NoReportOfQuietThread
<1> DEFINE Known == Typing /\ Control /\ Identities /\ Lives /\ MutexTable /\ Knowledge
<1>1. ProgramInit => Known
  <2>1. ProgramInit => Init
    BY DEF ProgramInit
  <2> QED BY <2>1, InitTyping, InitControl, InitIdentities, InitLives, InitMutexTable, InitKnowledge
<1>2. Known /\ [ProgramNext]_allvars => Known'
  BY ProgramStep, NextTyping, NextControl, NextIdentities, NextLives, NextMutexTable, NextKnowledge
<1>3. ASSUME Known, NEW t \in Threads, AccessRace(t), NEW r \in reports', NEW u \in quiet[t]
      PROVE  r.other # current_tid[u]
  <2> DEFINE i == ShadowFind(call[t].range[1], TRUE)
             q == [addr |-> call[t].range[1], tid |-> current_tid[t], write |-> call[t].write,
                   other |-> shadow[i].tid, other_write |-> shadow[i].is_write]
  <2>1. reports = {}
    BY <1>3 DEF Control, AccessRace, In
  <2>2. reports' = reports \cup {q}
    BY <1>3, Zenon DEF AccessRace
  <2>3. q.other = shadow[i].tid
    OBVIOUS
  <2>4. Races(current_tid[t], call[t].write, shadow[i])
    BY <1>3, Zenon DEF AccessRace
  <2> HIDE DEF q, i
  <2>5. ~(vc[shadow[i].tid][shadow[i].tid] <= vc[current_tid[t]][shadow[i].tid])
    BY <2>4 DEF Races, HappensBefore
  <2>7. r \in reports'
    BY <1>3
  <2>8. r = q
    BY <2>1, <2>2, <2>7
  <2>6. vc[current_tid[u]][current_tid[u]] <= vc[current_tid[t]][current_tid[u]]
    BY <1>3 DEF Knowledge
  <2> QED BY <2>3, <2>8, <2>5, <2>6, Zenon
<1>4. Known => [\A t \in Threads : AccessRace(t) =>
                  \A r \in reports', u \in quiet[t] : r.other # current_tid[u]]_allvars
  BY <1>3
<1> HIDE DEF Known
<1> QED BY <1>1, <1>2, <1>4, PTL DEF ProgramSpec, NoReportOfQuietThread
=============================================================================
