------------------------------ MODULE Tsan_proofs -----------------------------
(***************************************************************************)
(* Invariants of the thread sanitizer runtime, for any number of threads,  *)
(* addresses and mutexes, any size of its tables and any hash of them.     *)
(***************************************************************************)
EXTENDS Tsan, ProbeTable_proofs, FunctionTheorems, FiniteSetTheorems

---------------------------------------------------------------------------------
(* Types.  TypeOK needs to know what a thread in the runtime was called    *)
(* with, and that it has an identity wherever the code uses one.           *)

InAddr(r) == r[1] < r[2] /\ r[1] .. (r[2] - 1) \subseteq Addr

CallOK(t) ==
  /\ call[t].op # "init" => InAddr(call[t].range)
  /\ pc[t] \in {"spin", "critical"} => call[t].op # "init"
  /\ pc[t] \in {"spin", "critical"} /\ call[t].op \notin {"create", "destroy"}
       => current_tid[t] >= 0
  /\ pc[t] = "get_tid" => current_tid[t] = -1
  /\ pc[t] = "init_slot" => current_tid[t] >= 0

Typing == TypeOK /\ \A t \in Threads : CallOK(t)

LEMMA TidFacts == Tid \subseteq Nat /\ 0 \in Tid /\ -1 \notin Tid
BY TsanConstants DEF Tid

LEMMA TidOrNone ==
  ASSUME NEW x \in Tid \cup {-1} PROVE x = -1 \/ (x \in Tid /\ x \in Nat /\ ~(x < 0))
BY TidFacts

LEMMA ZeroClockType == ZeroClock \in Clocks
BY TidFacts DEF ZeroClock, Clocks

LEMMA VcIncType ==
  ASSUME NEW v \in Clocks, NEW tid \in Tid PROVE VcInc(v, tid) \in Clocks
BY TidFacts DEF VcInc, Clocks

LEMMA VcJoinType ==
  ASSUME NEW v \in Clocks, NEW w \in Clocks PROVE VcJoin(v, w) \in Clocks
BY DEF VcJoin, Clocks

\* Whatever the program passes to a hook starts at an address it may pass.
LEMMA CallFacts ==
  ASSUME NEW c \in Calls \cup {InitCall}
  PROVE  /\ c \in [op : LockedOps \cup {"init"}, range : Int \X Int, write : BOOLEAN]
         /\ c.op # "init" => InAddr(c.range)
<1>1. CASE c = InitCall
  BY <1>1 DEF InitCall, LockedOps, NullAddr
<1>2. CASE c \in [op : {"access"}, range : Ranges, write : BOOLEAN]
  <2>1. c.range \in Ranges /\ c.op = "access" /\ c.write \in BOOLEAN
    BY <1>2
  <2>2. c.range \in Int \X Int
    BY <2>1, TsanConstants
  <2>3. InAddr(c.range)
    BY <2>1, TsanConstants DEF InAddr
  <2> QED BY <1>2, <2>1, <2>2, <2>3 DEF LockedOps
<1>3. CASE c \in [op : {"create", "destroy", "post_lock", "post_unlock"},
                  range : {<<m, m + 1>> : m \in Mutexes}, write : {FALSE}]
  <2>1. PICK m \in Mutexes : c.range = <<m, m + 1>>
    BY <1>3
  <2>2. m \in Int /\ m \in Addr
    BY TsanConstants
  <2>3. m .. m + 1 - 1 = {m}
    BY <2>2
  <2>4. InAddr(c.range)
    BY <2>1, <2>2, <2>3 DEF InAddr
  <2>5. c.range \in Int \X Int
    BY <2>1, <2>2
  <2>6. /\ c = [op |-> c.op, range |-> c.range, write |-> c.write]
        /\ c.op \in LockedOps /\ c.write \in BOOLEAN
    BY <1>3 DEF LockedOps
  <2> QED BY <2>4, <2>5, <2>6
<1> QED BY <1>1, <1>2, <1>3 DEF Calls

\* Where a hook that looks an address up finds it.
LEMMA InAddrFirst ==
  ASSUME NEW r \in Int \X Int, InAddr(r) PROVE r[1] \in Addr
BY DEF InAddr

LEMMA ShadowFindRange ==
  ASSUME NEW a \in Addr, ShadowFind(a, TRUE) # NoSlot
  PROVE  ShadowFind(a, TRUE) \in 0 .. ShadowEntries - 1
<1>1. ShadowHash[a] \in 0 .. ShadowEntries - 1 /\ ShadowEntries \in Nat \ {0}
  BY TsanConstants
<1> QED BY <1>1, FindOrAllocate DEF ShadowFind

LEMMA MutexFindRange ==
  ASSUME NEW a \in Addr, NEW alloc \in BOOLEAN, MutexFind(a, alloc) # NoSlot
  PROVE  MutexFind(a, alloc) \in 0 .. MaxMutexes - 1
<1>1. MutexHash[a] \in 0 .. MaxMutexes - 1 /\ MaxMutexes \in Nat \ {0}
  BY TsanConstants
<1>2. CASE alloc = TRUE
  BY <1>1, <1>2, FindOrAllocate DEF MutexFind
<1>3. CASE alloc = FALSE
  BY <1>1, <1>3, FindExisting DEF MutexFind
<1> QED BY <1>2, <1>3

LEMMA InitTyping == Init => Typing
<1> SUFFICES ASSUME Init PROVE Typing
  OBVIOUS
<1>1. TypeOK
  BY ZeroClockType, TidFacts, CallFacts, TsanConstants
     DEF Init, TypeOK, Entry, MutexEntry, EmptyShadow, EmptyMutex, Locations
<1>2. \A t \in Threads : CallOK(t)
  BY DEF Init, CallOK, InitCall
<1> QED BY <1>1, <1>2 DEF Typing

\* What the body of a hook may count on.
LEMMA CriticalFacts ==
  ASSUME Typing, NEW t \in Threads, NEW op, In(t, op)
  PROVE  /\ call[t].range[1] \in Addr
         /\ call[t].range \in Int \X Int /\ InAddr(call[t].range)
         /\ call[t].write \in BOOLEAN
         /\ op \notin {"create", "destroy"} => current_tid[t] \in Tid
<1>1. call[t] \in [op : LockedOps \cup {"init"}, range : Int \X Int, write : BOOLEAN]
  BY DEF Typing, TypeOK
<1>2. InAddr(call[t].range)
  BY DEF Typing, CallOK, In
<1>3. op \notin {"create", "destroy"} => current_tid[t] >= 0
  BY DEF Typing, CallOK, In
<1>4. current_tid[t] \in Tid \cup {-1}
  BY DEF Typing, TypeOK
<1> QED BY <1>1, <1>2, <1>3, <1>4, InAddrFirst

\* How the end of a body leaves the control state.
LEMMA ReturnTyping ==
  ASSUME Typing, NEW t \in Threads, Return(t), UNCHANGED current_tid
  PROVE  /\ lock' \in Threads \cup {NoThread}
         /\ pc' \in [Threads -> Locations]
         /\ call' \in [Threads -> [op : LockedOps \cup {"init"}, range : Int \X Int,
                                  write : BOOLEAN]]
         /\ \A u \in Threads : CallOK(u)'
<1>1. InitCall \in [op : LockedOps \cup {"init"}, range : Int \X Int, write : BOOLEAN]
  BY CallFacts
<1>2. \A u \in Threads : CallOK(u)'
  BY DEF Return, Typing, TypeOK, CallOK, InitCall
<1> QED BY <1>1, <1>2 DEF Return, Typing, TypeOK, Locations

LEMMA NextAddressTyping ==
  ASSUME Typing, NEW t \in Threads, In(t, "access"), NextAddress(t), UNCHANGED current_tid
  PROVE  /\ lock' \in Threads \cup {NoThread}
         /\ pc' \in [Threads -> Locations]
         /\ call' \in [Threads -> [op : LockedOps \cup {"init"}, range : Int \X Int,
                                  write : BOOLEAN]]
         /\ \A u \in Threads : CallOK(u)'
<1> DEFINE r == call[t].range
<1>1. CASE Return(t)
  BY <1>1, ReturnTyping
<1>2. CASE /\ r[1] + 1 < r[2]
           /\ call' = [call EXCEPT ![t].range = <<r[1] + 1, r[2]>>]
           /\ lock' = NoThread
           /\ pc' = [pc EXCEPT ![t] = "spin"]
  <2>1. r \in Int \X Int /\ InAddr(r)
    BY CriticalFacts
  <2>2. <<r[1] + 1, r[2]>> \in Int \X Int /\ InAddr(<<r[1] + 1, r[2]>>)
    BY <1>2, <2>1 DEF InAddr
  <2>3. \A u \in Threads \ {t} : CallOK(u)'
    BY <1>2 DEF Typing, TypeOK, CallOK
  <2>4. CallOK(t)'
    <3>1. call'[t].range = <<r[1] + 1, r[2]>> /\ call'[t].op = "access" /\ pc'[t] = "spin"
      BY <1>2 DEF Typing, TypeOK, In
    <3>2. current_tid'[t] >= 0
      BY DEF In, Typing, CallOK
    <3> QED BY <2>2, <3>1, <3>2 DEF CallOK
  <2>5. call' \in [Threads -> [op : LockedOps \cup {"init"}, range : Int \X Int,
                              write : BOOLEAN]]
    BY <1>2, <2>2 DEF Typing, TypeOK
  <2> QED BY <1>2, <2>3, <2>4, <2>5 DEF Typing, TypeOK, Locations
<1> QED BY <1>1, <1>2 DEF NextAddress

LEMMA NextTyping == Typing /\ [Next]_vars => Typing'
<1> SUFFICES ASSUME Typing, [Next]_vars PROVE Typing'
  OBVIOUS
<1> USE DEF Typing
<1>1. ASSUME NEW t \in Threads, NEW c \in Calls \cup {InitCall}, Invoke(t, c)
      PROVE  Typing'
  <2>1. TypeOK'
    BY <1>1, CallFacts DEF Invoke, TypeOK, Locations, AfterTid
  <2>2. \A u \in Threads : CallOK(u)'
    <3>1. \A u \in Threads : current_tid[u] \in Tid \cup {-1} /\ call[u] \in [op : LockedOps \cup {"init"}, range : Int \X Int, write : BOOLEAN]
      BY DEF TypeOK
    <3>2. TAKE u \in Threads
    <3>3. CASE u # t
      BY <1>1, <3>3 DEF Invoke, TypeOK, CallOK
    <3>4. CASE u = t
      <4>1. call'[t] = c /\ current_tid'[t] = current_tid[t]
        BY <1>1 DEF Invoke, TypeOK
      <4>2. pc'[t] = IF c.op \notin {"create", "destroy"} /\ current_tid[t] < 0
                     THEN "get_tid" ELSE AfterTid(c.op)
        BY <1>1 DEF Invoke, TypeOK
      <4>3. current_tid[t] = -1 \/ (current_tid[t] \in Nat /\ ~(current_tid[t] < 0))
        BY <3>1, TidOrNone
      <4> QED BY <3>4, <4>1, <4>2, <4>3, CallFacts DEF CallOK, AfterTid
    <3> QED BY <3>3, <3>4
  <2> QED BY <2>1, <2>2
<1>2. ASSUME NEW t \in Threads, ReserveTid(t) PROVE Typing'
  <2>1. TypeOK'
    <3>1. thread_count' \in Nat
      BY <1>2 DEF ReserveTid, TypeOK
    <3>2. current_tid' \in [Threads -> Tid \cup {-1}]
      <4>1. thread_count' < MaxThreads => thread_count' \in Tid
        BY <3>1, TsanConstants DEF Tid
      <4> QED BY <1>2, <4>1 DEF ReserveTid, TypeOK
    <3>3. pc' \in [Threads -> Locations]
      BY <1>2 DEF ReserveTid, TypeOK, Locations
    <3> QED BY <1>2, <3>1, <3>2, <3>3 DEF ReserveTid, TypeOK
  <2>2. \A u \in Threads : CallOK(u)'
    BY <1>2, TidFacts DEF ReserveTid, TypeOK, CallOK
  <2> QED BY <2>1, <2>2
<1>3. ASSUME NEW t \in Threads, InitSlot(t) PROVE Typing'
  <2>1. current_tid[t] \in Tid
    BY <1>3 DEF InitSlot, CallOK, TypeOK
  <2>2. TypeOK'
    BY <1>3, <2>1, TidFacts DEF InitSlot, TypeOK, Locations, AfterTid, Clocks, ZeroClock
  <2>3. \A u \in Threads : CallOK(u)'
    BY <1>3 DEF InitSlot, TypeOK, CallOK, AfterTid
  <2> QED BY <2>2, <2>3
<1>4. ASSUME NEW t \in Threads, Acquire(t) PROVE Typing'
  BY <1>4 DEF Acquire, TypeOK, CallOK, Locations
<1>5. ASSUME NEW t \in Threads, AccessUntracked(t) PROVE Typing'
  BY <1>5, NextAddressTyping DEF AccessUntracked, TypeOK
<1>6. ASSUME NEW t \in Threads, AccessRace(t) PROVE Typing'
  <2> DEFINE i == ShadowFind(call[t].range[1], TRUE)
  <2>1. i \in 0 .. ShadowEntries - 1 /\ call[t].range[1] \in Addr
    BY <1>6, CriticalFacts, ShadowFindRange DEF AccessRace
  <2>2. current_tid[t] \in Tid /\ call[t].write \in BOOLEAN
    BY <1>6, CriticalFacts DEF AccessRace
  <2> HIDE DEF i
  <2>3. shadow[i] \in Entry
    BY <2>1 DEF TypeOK
  <2>4. shadow' \in [0 .. ShadowEntries - 1 -> Entry]
    BY <1>6, <2>1, <2>3 DEF AccessRace, TypeOK, Entry, i
  <2>5. reports' \subseteq Report
    <3>1. reports' = reports \cup
            {[addr |-> call[t].range[1], tid |-> current_tid[t], write |-> call[t].write,
              other |-> shadow[i].tid, other_write |-> shadow[i].is_write]}
      BY <1>6 DEF AccessRace, i
    <3>2. shadow[i].tid \in Tid /\ shadow[i].is_write \in BOOLEAN
      BY <2>3 DEF Entry
    <3>3. [addr |-> call[t].range[1], tid |-> current_tid[t], write |-> call[t].write,
           other |-> shadow[i].tid, other_write |-> shadow[i].is_write] \in Report
      BY <2>1, <2>2, <3>2 DEF Report
    <3> QED BY <3>1, <3>3 DEF TypeOK
  <2>6. TypeOK'
    BY <1>6, <2>4, <2>5 DEF AccessRace, TypeOK, Locations
  <2>7. \A u \in Threads : CallOK(u)'
    BY <1>6 DEF AccessRace, TypeOK, CallOK
  <2> QED BY <2>6, <2>7
<1>7. ASSUME NEW t \in Threads, AccessRecorded(t) PROVE Typing'
  <2> DEFINE i == ShadowFind(call[t].range[1], TRUE)
             e == [addr |-> call[t].range[1], tid |-> current_tid[t],
                   is_write |-> call[t].write, active |-> TRUE]
  <2>1. i \in 0 .. ShadowEntries - 1 /\ e \in Entry /\ current_tid[t] \in Tid
    <3>1. In(t, "access") /\ i # NoSlot
      BY <1>7 DEF AccessRecorded
    <3>2. /\ call[t].range[1] \in Addr /\ call[t].write \in BOOLEAN
          /\ current_tid[t] \in Tid
      BY <3>1, CriticalFacts
    <3>3. i \in 0 .. ShadowEntries - 1
      BY <3>1, <3>2, ShadowFindRange
    <3> QED BY <3>2, <3>3 DEF Entry
  <2>2. shadow' \in [0 .. ShadowEntries - 1 -> Entry]
    <3> HIDE DEF i, e
    <3>1. shadow' = [shadow EXCEPT ![i] = e]
      BY <1>7 DEF AccessRecorded, i, e
    <3> QED BY <2>1, <3>1 DEF TypeOK
  <2>3. vc' \in [Tid -> Clocks]
    BY <1>7, <2>1, VcIncType DEF AccessRecorded, TypeOK
  <2> QED BY <1>7, <2>2, <2>3, NextAddressTyping DEF AccessRecorded, TypeOK
<1>8. ASSUME NEW t \in Threads, MutexCreate(t) PROVE Typing'
  <2> DEFINE i == MutexFind(call[t].range[1], TRUE)
  <2>1. i # NoSlot => i \in 0 .. MaxMutexes - 1
    BY <1>8, CriticalFacts, MutexFindRange DEF MutexCreate
  <2>2. [addr |-> call[t].range[1], vc |-> ZeroClock, active |-> TRUE] \in MutexEntry
    BY <1>8, CriticalFacts, ZeroClockType DEF MutexCreate, MutexEntry
  <2>3. mutexes' \in [0 .. MaxMutexes - 1 -> MutexEntry]
    BY <1>8, <2>1, <2>2 DEF MutexCreate, TypeOK
  <2> QED BY <1>8, <2>3, ReturnTyping DEF MutexCreate, TypeOK
<1>9. ASSUME NEW t \in Threads, MutexDestroy(t) PROVE Typing'
  <2> DEFINE i == MutexFind(call[t].range[1], FALSE)
  <2>1. i # NoSlot => i \in 0 .. MaxMutexes - 1
    BY <1>9, CriticalFacts, MutexFindRange DEF MutexDestroy
  <2>2. mutexes' \in [0 .. MaxMutexes - 1 -> MutexEntry]
    BY <1>9, <2>1 DEF MutexDestroy, TypeOK, MutexEntry
  <2> QED BY <1>9, <2>2, ReturnTyping DEF MutexDestroy, TypeOK
<1>10. ASSUME NEW t \in Threads, PostLock(t) PROVE Typing'
  <2> DEFINE i == MutexFind(call[t].range[1], FALSE)
  <2>1. i # NoSlot => i \in 0 .. MaxMutexes - 1
    BY <1>10, CriticalFacts, MutexFindRange DEF PostLock
  <2>2. current_tid[t] \in Tid
    BY <1>10, CriticalFacts DEF PostLock
  <2>3. i # NoSlot => VcJoin(vc[current_tid[t]], mutexes[i].vc) \in Clocks
    BY <2>1, <2>2, VcJoinType DEF TypeOK, MutexEntry
  <2>4. vc' \in [Tid -> Clocks]
    BY <1>10, <2>2, <2>3 DEF PostLock, TypeOK
  <2> QED BY <1>10, <2>4, ReturnTyping DEF PostLock, TypeOK
<1>11. ASSUME NEW t \in Threads, PostUnlock(t) PROVE Typing'
  <2> DEFINE i == MutexFind(call[t].range[1], FALSE)
  <2>1. i # NoSlot => i \in 0 .. MaxMutexes - 1
    BY <1>11, CriticalFacts, MutexFindRange DEF PostUnlock
  <2>2. current_tid[t] \in Tid
    BY <1>11, CriticalFacts DEF PostUnlock
  <2>3. VcInc(vc[current_tid[t]], current_tid[t]) \in Clocks
    BY <2>2, VcIncType DEF TypeOK
  <2>4. mutexes' \in [0 .. MaxMutexes - 1 -> MutexEntry]
    BY <1>11, <2>1, <2>3 DEF PostUnlock, TypeOK, MutexEntry
  <2> QED BY <1>11, <2>4, ReturnTyping DEF PostUnlock, TypeOK
<1>12. CASE UNCHANGED vars
  BY <1>12 DEF vars, TypeOK, CallOK
<1> QED
  BY <1>1, <1>2, <1>3, <1>4, <1>5, <1>6, <1>7, <1>8, <1>9, <1>10, <1>11, <1>12
     DEF Next, Step

\* Every table index, thread identity and clock stays in its range, whatever
\* the threads call and however their hooks interleave.
THEOREM TypeCorrect == Spec => []TypeOK
<1>1. Typing => TypeOK
  BY DEF Typing
<1> QED BY <1>1, InitTyping, NextTyping, PTL DEF Spec

---------------------------------------------------------------------------------
(* The lock.  Only its holder is inside a body; after a report nobody is,  *)
(* and the lock is never free again.                                       *)

Control ==
  /\ \A t \in Threads : pc[t] = "critical" => lock = t
  /\ reports # {} => lock # NoThread /\ \A t \in Threads : pc[t] # "critical"

LEMMA InitControl == Init => Control
BY DEF Init, Control

LEMMA NextControl == Typing /\ Control /\ [Next]_vars => Control'
<1> SUFFICES ASSUME Typing, Control, [Next]_vars PROVE Control'
  OBVIOUS
<1> USE DEF Typing, TypeOK, Control
<1>1. ASSUME NEW t \in Threads, NEW c \in Calls \cup {InitCall}, Invoke(t, c)
      PROVE  Control'
  BY <1>1 DEF Invoke, AfterTid
<1>2. ASSUME NEW t \in Threads, ReserveTid(t) \/ InitSlot(t) PROVE Control'
  BY <1>2 DEF ReserveTid, InitSlot, AfterTid
<1>3. ASSUME NEW t \in Threads, Acquire(t) PROVE Control'
  BY <1>3, TsanConstants DEF Acquire
<1>4. ASSUME NEW t \in Threads, NEW op, In(t, op), Return(t), UNCHANGED reports
      PROVE  Control'
  BY <1>4 DEF In, Return
<1>5. ASSUME NEW t \in Threads, In(t, "access"), NextAddress(t), UNCHANGED reports
      PROVE  Control'
  BY <1>4, <1>5 DEF In, NextAddress
<1>6. ASSUME NEW t \in Threads, AccessRace(t) PROVE Control'
  BY <1>6, TsanConstants DEF AccessRace, In
<1>7. ASSUME NEW t \in Threads, AccessUntracked(t) \/ AccessRecorded(t) PROVE Control'
  BY <1>5, <1>7 DEF AccessUntracked, AccessRecorded
<1>8. ASSUME NEW t \in Threads,
             MutexCreate(t) \/ MutexDestroy(t) \/ PostLock(t) \/ PostUnlock(t)
      PROVE  Control'
  BY <1>4, <1>8 DEF MutexCreate, MutexDestroy, PostLock, PostUnlock
<1>9. CASE UNCHANGED vars
  BY <1>9 DEF vars
<1> QED
  BY <1>1, <1>2, <1>3, <1>6, <1>7, <1>8, <1>9 DEF Next, Step

\* The first report is the last thing the runtime does to its tables: the
\* reporter keeps tsan_lock for ever (drt_arch_abort inside tsan_access).
THEOREM ReportIsFinal == Spec => FailStop
<1>1. ASSUME Typing, Control, [Next]_vars
      PROVE  [reports # {} => UNCHANGED <<shadow, mutexes, lock, reports>>]_vars
  <2> SUFFICES ASSUME Next, reports # {}
               PROVE  UNCHANGED <<shadow, mutexes, lock, reports>>
    BY <1>1 DEF vars
  <2>1. \A t \in Threads, op \in LockedOps : ~In(t, op)
    BY <1>1 DEF Control, In
  <2>2. \A t \in Threads : ~Acquire(t)
    BY <1>1 DEF Control, Acquire
  <2> QED
    BY <2>1, <2>2 DEF Next, Step, Invoke, ReserveTid, InitSlot, AccessUntracked,
       AccessRace, AccessRecorded, MutexCreate, MutexDestroy, PostLock, PostUnlock,
       LockedOps
<1> QED
  BY <1>1, InitTyping, NextTyping, InitControl, NextControl, PTL DEF Spec, FailStop

---------------------------------------------------------------------------------
(* The shadow table.  Entries are never freed, so the probe for an address *)
(* that has one cannot stop at a free slot before it.                      *)

ShadowSound ==
  Reachable(shadow, ShadowEntries, ShadowHash) /\ OneEntryPerKey(shadow)

LEMMA InitShadowSound == Init => ShadowSound
BY DEF Init, ShadowSound, Reachable, OneEntryPerKey, EmptyShadow

LEMMA NextShadowSound == Typing /\ ShadowSound /\ [Next]_vars => ShadowSound'
<1> SUFFICES ASSUME Typing, ShadowSound, [Next]_vars PROVE ShadowSound'
  OBVIOUS
<1>1. CASE UNCHANGED shadow
  BY <1>1 DEF ShadowSound, Reachable, OneEntryPerKey
<1>2. ASSUME NEW t \in Threads, AccessRace(t) \/ AccessRecorded(t)
      PROVE  ShadowSound'
  <2> DEFINE a == call[t].range[1]
             i == ShadowFind(a, TRUE)
  <2>1. In(t, "access") /\ i # NoSlot
    BY <1>2 DEF AccessRace, AccessRecorded
  <2>2. a \in Addr
    BY <2>1, CriticalFacts
  <2>3. ShadowHash[a] \in 0 .. ShadowEntries - 1 /\ ShadowEntries \in Nat \ {0}
    BY <2>2, TsanConstants
  <2>4. i \in 0 .. ShadowEntries - 1
    BY <2>1, <2>2, ShadowFindRange
  <2>5. i = Find(shadow, ShadowEntries, ShadowHash[a], a, TRUE)
    BY DEF ShadowFind
  <2> HIDE DEF i
  <2>6. /\ DOMAIN shadow = 0 .. ShadowEntries - 1
        /\ \A j \in 0 .. ShadowEntries - 1 : shadow[j] \in Entry
    BY DEF Typing, TypeOK
  <2>7. /\ DOMAIN shadow' = 0 .. ShadowEntries - 1
        /\ shadow'[i].active /\ shadow'[i].addr = a
        /\ \A j \in 0 .. ShadowEntries - 1 : j # i => shadow'[j] = shadow[j]
    <3>1. CASE AccessRace(t)
      <4>1. shadow' = [shadow EXCEPT ![i].addr = a, ![i].active = TRUE]
        BY <3>1 DEF AccessRace, i
      <4> HIDE DEF a
      <4>2. shadow[i] \in Entry
        BY <2>4, <2>6
      <4> QED BY <2>4, <2>6, <4>1, <4>2 DEF Entry
    <3>2. CASE AccessRecorded(t)
      <4> DEFINE e == [addr |-> a, tid |-> current_tid[t],
                       is_write |-> call[t].write, active |-> TRUE]
      <4>1. shadow' = [shadow EXCEPT ![i] = e]
        BY <3>2 DEF AccessRecorded, i
      <4>2. e.active /\ e.addr = a
        OBVIOUS
      <4> HIDE DEF e, a
      <4> QED BY <2>4, <2>6, <4>1, <4>2
    <3> QED BY <1>2, <3>1, <3>2
  <2> HIDE DEF a
  <2>8. /\ Reachable(shadow, ShadowEntries, ShadowHash)
        /\ OneEntryPerKey(shadow)
    BY DEF ShadowSound
  <2>9. /\ Reachable(shadow', ShadowEntries, ShadowHash)
        /\ OneEntryPerKey(shadow')
    <3>1. Fills(shadow, shadow', ShadowEntries, ShadowHash, a)
      BY <2>1, <2>5, <2>6, <2>7 DEF Fills
    <3> QED BY <2>3, <2>8, <3>1, FillKeepsTable
  <2>10. /\ Reachable(shadow, ShadowEntries, ShadowHash)'
         /\ OneEntryPerKey(shadow)'
    BY <2>9 DEF Reachable, OneEntryPerKey, Hit
  <2> QED BY <2>10 DEF ShadowSound
<1> QED
  BY <1>1, <1>2 DEF Next, Step, Invoke, ReserveTid, InitSlot, Acquire,
     AccessUntracked, MutexCreate, MutexDestroy, PostLock, PostUnlock, vars

\* Two accesses to one address always meet in one shadow entry, however the
\* addresses collide and in whatever order they come (tsan_shadow_get).
THEOREM ShadowIsFunctional == Spec => []OneShadowPerAddress
<1>1. ShadowSound => OneShadowPerAddress
  BY DEF ShadowSound, OneShadowPerAddress
<1> QED
  BY <1>1, InitTyping, NextTyping, InitShadowSound, NextShadowSound, PTL DEF Spec

---------------------------------------------------------------------------------
(* Identities and clocks.  What a step does to the clocks, whoever makes   *)
(* it: a thread changes its own clock only, a mutex gets the clock of one  *)
(* thread or is reset.                                                     *)

NewClock(tid) == [ZeroClock EXCEPT ![tid] = 1]

ThreadClock(t) ==
  LET tid == current_tid[t] IN
  /\ tid \in Tid
  /\ UNCHANGED <<thread_count, current_tid, mutexes>>
  /\ pc'[t] # "init_slot"
  /\ \/ pc[t] = "init_slot" /\ vc' = [vc EXCEPT ![tid] = NewClock(tid)]
     \/ pc[t] = "critical" /\ vc' = [vc EXCEPT ![tid] = VcInc(@, tid)]
     \/ /\ pc[t] = "critical"
        /\ \E k \in DOMAIN mutexes : vc' = [vc EXCEPT ![tid] = VcJoin(@, mutexes[k].vc)]

MutexClock(k) ==
  /\ UNCHANGED <<thread_count, current_tid, vc>>
  /\ \A j \in DOMAIN mutexes : j # k => mutexes'[j].vc = mutexes[j].vc
  /\ \/ mutexes'[k].vc = ZeroClock
     \/ \E t \in Threads : /\ current_tid[t] \in Tid
                           /\ mutexes'[k].vc = VcInc(vc[current_tid[t]], current_tid[t])

SameClocks ==
  /\ UNCHANGED vc
  /\ \A k \in DOMAIN mutexes : mutexes'[k].vc = mutexes[k].vc

ClockStep ==
  \/ SameClocks
  \/ \E t \in Threads : ThreadClock(t)
  \/ \E k \in DOMAIN mutexes : MutexClock(k)

LEMMA NextClockStep == Typing /\ [Next]_vars => ClockStep
<1> SUFFICES ASSUME Typing, [Next]_vars PROVE ClockStep
  OBVIOUS
<1>0. /\ mutexes \in [0 .. MaxMutexes - 1 -> MutexEntry]
      /\ pc \in [Threads -> Locations]
      /\ \A t \in Threads : current_tid[t] \in Tid \cup {-1}
  BY DEF Typing, TypeOK
<1>1. CASE UNCHANGED <<vc, mutexes>>
  BY <1>1 DEF ClockStep, SameClocks
<1>2. ASSUME NEW t \in Threads, InitSlot(t) PROVE ClockStep
  <2>1. current_tid[t] \in Tid
    BY <1>2, <1>0, TidOrNone DEF InitSlot, Typing, CallOK
  <2> QED BY <1>0, <1>2, <2>1 DEF InitSlot, AfterTid, ClockStep, ThreadClock, NewClock
<1>3. ASSUME NEW t \in Threads, AccessRecorded(t) PROVE ClockStep
  <2>1. current_tid[t] \in Tid
    BY <1>3, CriticalFacts DEF AccessRecorded
  <2> QED BY <1>0, <1>3, <2>1 DEF AccessRecorded, NextAddress, Return, ClockStep, ThreadClock, In
<1>4. ASSUME NEW t \in Threads, MutexCreate(t) PROVE ClockStep
  <2> DEFINE i == MutexFind(call[t].range[1], TRUE)
  <2>1. CASE i = NoSlot
    BY <1>4, <2>1 DEF MutexCreate, ClockStep, SameClocks
  <2>2. CASE i # NoSlot
    <3>1. i \in 0 .. MaxMutexes - 1
      BY <1>4, <2>2, CriticalFacts, MutexFindRange DEF MutexCreate
    <3>2. mutexes' = [mutexes EXCEPT ![i] =
            [addr |-> call[t].range[1], vc |-> ZeroClock, active |-> TRUE]]
      BY <1>4, <2>2 DEF MutexCreate
    <3>3. UNCHANGED <<thread_count, current_tid, vc>>
      BY <1>4 DEF MutexCreate
    <3> HIDE DEF i
    <3> QED BY <1>0, <3>1, <3>2, <3>3 DEF ClockStep, MutexClock
  <2> QED BY <2>1, <2>2
<1>5. ASSUME NEW t \in Threads, MutexDestroy(t) PROVE ClockStep
  <2> DEFINE i == MutexFind(call[t].range[1], FALSE)
  <2>1. CASE i = NoSlot
    BY <1>5, <2>1 DEF MutexDestroy, ClockStep, SameClocks
  <2>2. CASE i # NoSlot
    <3>1. i \in 0 .. MaxMutexes - 1
      BY <1>5, <2>2, CriticalFacts, MutexFindRange DEF MutexDestroy
    <3>2. mutexes' = [mutexes EXCEPT ![i].active = FALSE] /\ UNCHANGED vc
      BY <1>5, <2>2 DEF MutexDestroy
    <3> HIDE DEF i
    <3> QED BY <1>0, <3>1, <3>2 DEF ClockStep, SameClocks, MutexEntry
  <2> QED BY <2>1, <2>2
<1>6. ASSUME NEW t \in Threads, PostLock(t) PROVE ClockStep
  <2> DEFINE i == MutexFind(call[t].range[1], FALSE)
  <2>1. CASE i = NoSlot
    BY <1>6, <2>1 DEF PostLock, ClockStep, SameClocks
  <2>2. CASE i # NoSlot
    <3>1. i \in 0 .. MaxMutexes - 1 /\ current_tid[t] \in Tid
      <4>1. In(t, "post_lock")
        BY <1>6 DEF PostLock
      <4>2. call[t].range[1] \in Addr /\ current_tid[t] \in Tid
        BY <4>1, CriticalFacts
      <4> QED BY <2>2, <4>2, MutexFindRange
    <3>2. vc' = [vc EXCEPT ![current_tid[t]] = VcJoin(@, mutexes[i].vc)]
      BY <1>6, <2>2 DEF PostLock
    <3>3. /\ UNCHANGED <<thread_count, current_tid, mutexes>>
          /\ pc[t] = "critical" /\ pc'[t] # "init_slot"
      BY <1>0, <1>6 DEF PostLock, In, Return
    <3> HIDE DEF i
    <3> QED BY <1>0, <3>1, <3>2, <3>3 DEF ClockStep, ThreadClock
  <2> QED BY <2>1, <2>2
<1>7. ASSUME NEW t \in Threads, PostUnlock(t) PROVE ClockStep
  <2> DEFINE i == MutexFind(call[t].range[1], FALSE)
  <2>1. CASE i = NoSlot
    BY <1>7, <2>1 DEF PostUnlock, ClockStep, SameClocks
  <2>2. CASE i # NoSlot
    <3>1. i \in 0 .. MaxMutexes - 1 /\ current_tid[t] \in Tid
      <4>1. In(t, "post_unlock")
        BY <1>7 DEF PostUnlock
      <4>2. call[t].range[1] \in Addr /\ current_tid[t] \in Tid
        BY <4>1, CriticalFacts
      <4> QED BY <2>2, <4>2, MutexFindRange
    <3>2. mutexes' = [mutexes EXCEPT ![i].vc = VcInc(vc[current_tid[t]], current_tid[t])]
      BY <1>7, <2>2 DEF PostUnlock
    <3>3. UNCHANGED <<thread_count, current_tid, vc>>
      BY <1>7 DEF PostUnlock
    <3> HIDE DEF i
    <3> QED BY <1>0, <3>1, <3>2, <3>3 DEF ClockStep, MutexClock, MutexEntry
  <2> QED BY <2>1, <2>2
<1> QED
  BY <1>1, <1>2, <1>3, <1>4, <1>5, <1>6, <1>7 DEF Next, Step, Invoke, ReserveTid,
     Acquire, AccessUntracked, AccessRace, vars

\* An identity is given once, and a slot of tsan_threads is clear until the
\* thread it was given to starts its clock.
Identities ==
  /\ \A t \in Threads : current_tid[t] = -1 \/ current_tid[t] \in 1 .. thread_count
  /\ DistinctTids
  /\ \A i \in Tid : i > thread_count => vc[i] = ZeroClock
  /\ \A t \in Threads : pc[t] = "init_slot" => vc[current_tid[t]] = ZeroClock

LEMMA InitIdentities == Init => Identities
BY TidFacts DEF Init, Identities, DistinctTids

LEMMA NextIdentities == Typing /\ Identities /\ [Next]_vars => Identities'
<1> SUFFICES ASSUME Typing, Identities, [Next]_vars PROVE Identities'
  OBVIOUS
<1>0. /\ thread_count \in Nat
      /\ current_tid \in [Threads -> Tid \cup {-1}]
      /\ vc \in [Tid -> Clocks]
      /\ pc \in [Threads -> Locations]
      /\ \A t \in Threads : pc[t] = "init_slot" => current_tid[t] \in Tid
  BY TidOrNone DEF Typing, TypeOK, CallOK
<1>1. ASSUME NEW t \in Threads, ReserveTid(t) PROVE Identities'
  <2>1. thread_count' = thread_count + 1 /\ UNCHANGED vc
    BY <1>1 DEF ReserveTid
  <2>2. CASE UNCHANGED current_tid
    <3>1. \A u \in Threads : pc'[u] = "init_slot" => pc[u] = "init_slot"
      BY <1>0, <1>1, <2>1, <2>2, TidFacts DEF ReserveTid, Typing, CallOK
    <3> QED BY <1>0, <2>1, <2>2, <3>1, TidFacts DEF Identities, DistinctTids
  <2>3. CASE /\ thread_count' < MaxThreads
             /\ current_tid' = [current_tid EXCEPT ![t] = thread_count']
             /\ pc' = [pc EXCEPT ![t] = "init_slot"]
    <3>1. thread_count + 1 \in Tid /\ vc[thread_count + 1] = ZeroClock
      BY <1>0, <2>1, <2>3, TsanConstants DEF Tid, Identities
    <3>2. /\ current_tid'[t] = thread_count + 1
          /\ \A u \in Threads \ {t} : current_tid'[u] = current_tid[u] /\ pc'[u] = pc[u]
      BY <1>0, <2>1, <2>3
    <3>3. \A u \in Threads \ {t} : current_tid'[u] # thread_count + 1
      BY <1>0, <3>2 DEF Identities
    <3>4. DistinctTids'
      BY <1>0, <3>2, <3>3 DEF Identities, DistinctTids
    <3>5. \A u \in Threads : pc'[u] = "init_slot" => vc'[current_tid'[u]] = ZeroClock
      BY <2>1, <3>1, <3>2 DEF Identities
    <3>6. \A u \in Threads : current_tid'[u] = -1 \/ current_tid'[u] \in 1 .. thread_count'
      BY <1>0, <2>1, <3>2 DEF Identities
    <3>7. \A i \in Tid : i > thread_count' => vc'[i] = ZeroClock
      <4>1. ASSUME NEW i \in Tid, i > thread_count + 1 PROVE i > thread_count
        BY <1>0, <4>1, TidFacts
      <4> QED BY <2>1, <4>1 DEF Identities
    <3> QED BY <3>4, <3>5, <3>6, <3>7 DEF Identities
  <2> QED BY <1>1, <2>2, <2>3 DEF ReserveTid
<1>2. ASSUME \A t \in Threads : ~ReserveTid(t) PROVE Identities'
  <2>1. /\ UNCHANGED <<thread_count, current_tid>>
        /\ \A u \in Threads : pc'[u] = "init_slot" => pc[u] = "init_slot"
    BY <1>0, <1>2 DEF Next, Step, Invoke, InitSlot, Acquire, AccessUntracked, AccessRace,
       AccessRecorded, MutexCreate, MutexDestroy, PostLock, PostUnlock, NextAddress,
       Return, AfterTid, vars
  <2>2. CASE UNCHANGED vc
    BY <2>1, <2>2 DEF Identities, DistinctTids
  <2>3. ASSUME NEW t \in Threads, ThreadClock(t) PROVE Identities'
    <3>1. current_tid[t] \in 1 .. thread_count /\ current_tid[t] \in Tid
      BY <2>3, TidFacts DEF ThreadClock, Identities
    <3>2. \A i \in Tid : i # current_tid[t] => vc'[i] = vc[i]
      BY <1>0, <2>3, <3>1 DEF ThreadClock
    <3>3. ASSUME NEW i \in Tid, i > thread_count PROVE vc'[i] = ZeroClock
      <4>1. i # current_tid[t]
        BY <1>0, <3>1, <3>3, TidFacts
      <4> QED BY <3>2, <3>3, <4>1 DEF Identities
    <3>4. ASSUME NEW u \in Threads, pc'[u] = "init_slot" PROVE vc'[current_tid[u]] = ZeroClock
      <4>1. pc[u] = "init_slot" /\ u # t /\ current_tid[u] \in Tid
        BY <1>0, <2>1, <2>3, <3>4 DEF ThreadClock
      <4>2. current_tid[u] # current_tid[t]
        BY <3>1, <4>1, TidOrNone DEF Identities, DistinctTids
      <4> QED BY <3>2, <4>1, <4>2 DEF Identities
    <3> QED BY <2>1, <3>3, <3>4 DEF Identities, DistinctTids
  <2> QED
    BY <2>2, <2>3, NextClockStep DEF ClockStep, SameClocks, MutexClock
<1> QED BY <1>1, <1>2

\* tsan_get_tid never gives two threads one slot of tsan_threads, although it
\* runs without tsan_lock.
THEOREM IdentitiesDistinct == Spec => []DistinctTids
<1>1. Identities => DistinctTids
  BY DEF Identities
<1> QED
  BY <1>1, InitTyping, NextTyping, InitIdentities, NextIdentities, PTL DEF Spec

\* Who holds tsan_lock.  A report names its reporter by its identity, so that
\* identities differ is what keeps a thread that died in drt_die from passing
\* for the reporter.
LEMMA InitLockDiscipline == Init => LockDiscipline
BY TsanConstants DEF Init, LockDiscipline

LEMMA NextLockDiscipline ==
  Typing /\ Identities /\ LockDiscipline /\ [Next]_vars => LockDiscipline'
<1> SUFFICES ASSUME Typing, Identities, LockDiscipline, [Next]_vars PROVE LockDiscipline'
  OBVIOUS
<1>0. /\ NoThread \notin Threads
      /\ pc \in [Threads -> Locations]
      /\ current_tid \in [Threads -> Tid \cup {-1}]
      /\ \A t \in Threads : pc[t] = "get_tid" => current_tid[t] = -1
  BY TsanConstants DEF Typing, TypeOK, CallOK
<1>1. ASSUME NEW t \in Threads, NEW c \in Calls \cup {InitCall}, Invoke(t, c)
      PROVE  LockDiscipline'
  BY <1>0, <1>1 DEF Invoke, AfterTid, LockDiscipline
<1>2. ASSUME NEW t \in Threads, ReserveTid(t) PROVE LockDiscipline'
  <2>1. /\ \A u \in Threads \ {t} : pc'[u] = pc[u] /\ current_tid'[u] = current_tid[u]
        /\ UNCHANGED <<lock, reports>>
    BY <1>0, <1>2 DEF ReserveTid
  <2>2. pc[t] = "get_tid" /\ (pc'[t] = "init_slot" \/ (pc'[t] = "halted" /\ current_tid'[t] = -1))
    BY <1>0, <1>2 DEF ReserveTid
  <2> QED BY <2>1, <2>2 DEF LockDiscipline
<1>3. ASSUME NEW t \in Threads, InitSlot(t) PROVE LockDiscipline'
  BY <1>0, <1>3 DEF InitSlot, AfterTid, LockDiscipline
<1>4. ASSUME NEW t \in Threads, Acquire(t) PROVE LockDiscipline'
  BY <1>0, <1>4 DEF Acquire, LockDiscipline
<1>5. ASSUME NEW t \in Threads, pc[t] = "critical", lock' = NoThread,
             pc' = [pc EXCEPT ![t] = "run"] \/ pc' = [pc EXCEPT ![t] = "spin"],
             UNCHANGED <<current_tid, reports>>
      PROVE  LockDiscipline'
  BY <1>0, <1>5 DEF LockDiscipline
<1>6. ASSUME NEW t \in Threads, AccessRace(t) PROVE LockDiscipline'
  <2>1. /\ pc[t] = "critical" /\ lock = t /\ current_tid[t] \in Tid
        /\ pc' = [pc EXCEPT ![t] = "halted"]
        /\ UNCHANGED <<lock, current_tid>>
    BY <1>6, CriticalFacts DEF AccessRace, In, LockDiscipline
  <2>2. \E r : reports' = reports \cup {r} /\ r.tid = current_tid[t]
    <3> DEFINE i == ShadowFind(call[t].range[1], TRUE)
               q == [addr |-> call[t].range[1], tid |-> current_tid[t], write |-> call[t].write,
                     other |-> shadow[i].tid, other_write |-> shadow[i].is_write]
    <3>1. reports' = reports \cup {q}
      BY <1>6 DEF AccessRace
    <3>2. q.tid = current_tid[t]
      OBVIOUS
    <3> HIDE DEF q
    <3> QED BY <3>1, <3>2
  <2> PICK r : reports' = reports \cup {r} /\ r.tid = current_tid[t]
    BY <2>2
  <2>3. \A u \in Threads \ {t} : current_tid[u] >= 0 => r.tid # current_tid[u]
    BY <2>1, TidOrNone DEF Identities, DistinctTids
  <2>4. pc'[t] = "halted" /\ current_tid'[t] >= 0 /\ lock' = t /\ r \in reports'
    <3>0. current_tid[t] \in Nat
      BY <2>1, TidFacts, Zenon
    <3>1. current_tid[t] >= 0
      BY <3>0
    <3> QED BY <1>0, <2>1, <3>1
  <2>5. ASSUME NEW u \in Threads \ {t}
        PROVE  /\ lock' # u /\ lock # u
               /\ pc'[u] = pc[u] /\ current_tid'[u] = current_tid[u]
    BY <1>0, <2>1
  <2>6. ASSUME NEW u \in Threads \ {t}, pc'[u] = "halted", current_tid'[u] >= 0,
               NEW s \in reports', s.tid = current_tid'[u]
        PROVE  FALSE
    <3>1. s \in reports
      BY <2>3, <2>5, <2>6
    <3> QED BY <2>5, <2>6, <3>1 DEF LockDiscipline
  <2>7. \A u \in Threads \ {t} : pc'[u] # "critical"
    BY <2>5 DEF LockDiscipline
  <2>8. \E s \in reports' : s.tid = current_tid'[t]
    BY <2>1, <2>4
  <2>9. ASSUME NEW u \in Threads
        PROVE  lock' = u <=> pc'[u] = "critical"
                             \/ (pc'[u] = "halted" /\ current_tid'[u] >= 0
                                 /\ \E s \in reports' : s.tid = current_tid'[u])
    <3>1. CASE u = t
      BY <2>4, <2>8, <3>1
    <3>2. CASE u # t
      <4>1. lock' # u /\ pc'[u] # "critical"
        BY <2>5, <2>7, <3>2
      <4> QED BY <2>6, <3>2, <4>1
    <3> QED BY <3>1, <3>2
  <2> QED BY <2>9 DEF LockDiscipline
<1>7. ASSUME NEW t \in Threads, AccessUntracked(t) \/ AccessRecorded(t) PROVE LockDiscipline'
  BY <1>5, <1>7 DEF AccessUntracked, AccessRecorded, In, NextAddress, Return
<1>8. ASSUME NEW t \in Threads,
             MutexCreate(t) \/ MutexDestroy(t) \/ PostLock(t) \/ PostUnlock(t)
      PROVE  LockDiscipline'
  BY <1>5, <1>8 DEF MutexCreate, MutexDestroy, PostLock, PostUnlock, In, Return
<1>9. CASE UNCHANGED vars
  BY <1>9 DEF vars, LockDiscipline
<1> QED
  BY <1>1, <1>2, <1>3, <1>4, <1>6, <1>7, <1>8, <1>9 DEF Next, Step

\* Every hook of the runtime gives tsan_lock back on every way out, and only
\* the thread that reported a race keeps it.
THEOREM LockIsDisciplined == Spec => []LockDiscipline
BY InitTyping, NextTyping, InitIdentities, NextIdentities, InitLockDiscipline, NextLockDiscipline,
   PTL DEF Spec

\* Identity 0 is nobody's: its clock is never touched and its entry in any
\* clock stays 0, so an entry that was never written cannot race.
Sentinel ==
  /\ vc[0] = ZeroClock
  /\ \A i \in Tid : vc[i][0] = 0
  /\ \A k \in DOMAIN mutexes : mutexes[k].vc[0] = 0

LEMMA InitSentinel == Init => Sentinel
BY TidFacts DEF Init, Sentinel, ZeroClock, EmptyMutex

LEMMA NextSentinel == Typing /\ Identities /\ Sentinel /\ [Next]_vars => Sentinel'
<1> SUFFICES ASSUME Typing, Identities, Sentinel, [Next]_vars PROVE Sentinel'
  OBVIOUS
<1>0. /\ vc \in [Tid -> Clocks] /\ 0 \in Tid
      /\ mutexes \in [0 .. MaxMutexes - 1 -> MutexEntry]
      /\ mutexes' \in [0 .. MaxMutexes - 1 -> MutexEntry]
  BY TidFacts, NextTyping DEF Typing, TypeOK
<1>1. ASSUME NEW t \in Threads, current_tid[t] \in Tid PROVE current_tid[t] \in Tid \ {0}
  BY <1>1, TidFacts DEF Identities
<1>2. CASE SameClocks
  BY <1>0, <1>2 DEF SameClocks, Sentinel
<1>3. ASSUME NEW t \in Threads, ThreadClock(t) PROVE Sentinel'
  <2> DEFINE tid == current_tid[t]
  <2>1. tid \in Tid \ {0}
    BY <1>1, <1>3 DEF ThreadClock
  <2>2. \A i \in Tid : i # tid => vc'[i] = vc[i]
    BY <1>0, <1>3, <2>1 DEF ThreadClock
  <2>3. vc'[tid][0] = 0
    <3>1. vc[tid][0] = 0 /\ \A k \in DOMAIN mutexes : mutexes[k].vc[0] = 0
      BY <2>1 DEF Sentinel
    <3>2. vc[tid] \in Clocks
      BY <1>0, <2>1
    <3>3. NewClock(tid)[0] = 0
      BY <1>0, <2>1 DEF NewClock, ZeroClock
    <3>4. VcInc(vc[tid], tid)[0] = 0
      BY <1>0, <2>1, <3>1, <3>2 DEF VcInc, Clocks
    <3>5. \A k \in DOMAIN mutexes : VcJoin(vc[tid], mutexes[k].vc)[0] = 0
      BY <1>0, <3>1 DEF VcJoin
    <3> QED BY <1>0, <1>3, <2>1, <3>3, <3>4, <3>5 DEF ThreadClock
  <2>4. UNCHANGED mutexes
    BY <1>3 DEF ThreadClock
  <2> QED BY <1>0, <2>1, <2>2, <2>3, <2>4 DEF Sentinel
<1>4. ASSUME NEW k \in DOMAIN mutexes, MutexClock(k) PROVE Sentinel'
  <2>1. ZeroClock[0] = 0
    BY <1>0 DEF ZeroClock
  <2>2. ASSUME NEW t \in Threads, current_tid[t] \in Tid
        PROVE  VcInc(vc[current_tid[t]], current_tid[t])[0] = 0
    BY <1>0, <1>1, <2>2 DEF VcInc, Clocks, Sentinel
  <2>3. mutexes'[k].vc[0] = 0
    BY <1>4, <2>1, <2>2 DEF MutexClock
  <2> QED BY <1>0, <1>4, <2>3 DEF MutexClock, Sentinel
<1> QED BY <1>2, <1>3, <1>4, NextClockStep DEF ClockStep

\* Reports name threads that exist; so do shadow entries, but for the 0 of an
\* entry not written yet.
Witnesses ==
  /\ \A i \in DOMAIN shadow : shadow[i].tid \in 0 .. thread_count
  /\ NoPhantomRace

LEMMA InitWitnesses == Init => Witnesses
BY DEF Init, Witnesses, NoPhantomRace, EmptyShadow

LEMMA NextWitnesses ==
  Typing /\ Identities /\ Sentinel /\ Witnesses /\ [Next]_vars => Witnesses'
<1> SUFFICES ASSUME Typing, Identities, Sentinel, Witnesses, [Next]_vars
             PROVE  Witnesses'
  OBVIOUS
<1>0. /\ thread_count \in Nat
      /\ shadow \in [0 .. ShadowEntries - 1 -> Entry]
      /\ \A t \in Threads : current_tid[t] = -1 \/ current_tid[t] \in 1 .. thread_count
  BY DEF Typing, TypeOK, Identities
<1>1. CASE UNCHANGED <<thread_count, shadow, reports>>
  BY <1>1 DEF Witnesses, NoPhantomRace
<1>2. ASSUME NEW t \in Threads, ReserveTid(t) PROVE Witnesses'
  BY <1>0, <1>2 DEF ReserveTid, Witnesses, NoPhantomRace
<1>3. ASSUME NEW t \in Threads, AccessRecorded(t) PROVE Witnesses'
  <2> DEFINE i == ShadowFind(call[t].range[1], TRUE)
             e == [addr |-> call[t].range[1], tid |-> current_tid[t],
                   is_write |-> call[t].write, active |-> TRUE]
  <2>1. current_tid[t] \in Tid /\ current_tid[t] \in 0 .. thread_count
    BY <1>0, <1>3, CriticalFacts, TidFacts DEF AccessRecorded
  <2>2. shadow' = [shadow EXCEPT ![i] = e] /\ UNCHANGED <<thread_count, reports>>
    BY <1>3 DEF AccessRecorded
  <2>3. e.tid = current_tid[t]
    OBVIOUS
  <2> HIDE DEF i, e
  <2> QED BY <1>0, <2>1, <2>2, <2>3 DEF Witnesses, NoPhantomRace
<1>4. ASSUME NEW t \in Threads, AccessRace(t) PROVE Witnesses'
  <2> DEFINE i == ShadowFind(call[t].range[1], TRUE)
             tid == current_tid[t]
             r == [addr |-> call[t].range[1], tid |-> tid, write |-> call[t].write,
                   other |-> shadow[i].tid, other_write |-> shadow[i].is_write]
  <2>1. In(t, "access") /\ i # NoSlot /\ Races(tid, call[t].write, shadow[i])
    BY <1>4 DEF AccessRace
  <2>2. call[t].range[1] \in Addr /\ tid \in Tid
    BY <2>1, CriticalFacts
  <2>3. i \in 0 .. ShadowEntries - 1
    BY <2>1, <2>2, ShadowFindRange
  <2>4. shadow' = [shadow EXCEPT ![i].addr = call[t].range[1], ![i].active = TRUE]
    BY <1>4 DEF AccessRace
  <2>5. reports' = reports \cup {r} /\ UNCHANGED thread_count
    BY <1>4 DEF AccessRace
  <2> HIDE DEF i
  <2>6. shadow[i].tid # 0
    <3>1. ~(vc[shadow[i].tid][shadow[i].tid] <= vc[tid][shadow[i].tid])
      BY <2>1 DEF Races, HappensBefore
    <3>2. vc[0][0] = 0 /\ vc[tid][0] = 0
      BY <2>2, TidFacts DEF Sentinel
    <3> QED BY <3>1, <3>2
  <2>7. /\ r.other = shadow[i].tid /\ r.tid = tid
        /\ r.write = call[t].write /\ r.other_write = shadow[i].is_write
    OBVIOUS
  <2> HIDE DEF r
  <2>8. shadow[i].tid \in 0 .. thread_count
    BY <1>0, <2>3 DEF Witnesses
  <2>9. r.other \in 1 .. thread_count /\ r.other # r.tid /\ (r.write \/ r.other_write)
    BY <1>0, <2>1, <2>6, <2>7, <2>8 DEF Races
  <2>10. \A j \in DOMAIN shadow : shadow'[j].tid = shadow[j].tid
    <3>1. shadow[i] \in Entry
      BY <1>0, <2>3
    <3> QED BY <1>0, <2>3, <2>4, <3>1 DEF Entry
  <2>11. DOMAIN shadow' = DOMAIN shadow
    BY <2>4
  <2> QED BY <2>5, <2>9, <2>10, <2>11 DEF Witnesses, NoPhantomRace
<1> QED
  BY <1>1, <1>2, <1>3, <1>4 DEF Next, Step, Invoke, InitSlot, Acquire,
     AccessUntracked, MutexCreate, MutexDestroy, PostLock, PostUnlock, vars

\* No report comes from a shadow entry that was never written, and what a
\* report names are two different threads, one of them writing.
THEOREM ReportsAreWitnessed == Spec => []NoPhantomRace
<1>1. Witnesses => NoPhantomRace
  BY DEF Witnesses
<1> QED
  BY <1>1, InitTyping, NextTyping, InitIdentities, NextIdentities,
     InitSentinel, NextSentinel, InitWitnesses, NextWitnesses, PTL DEF Spec

LEMMA ClockNats ==
  ASSUME Typing
  PROVE  /\ vc \in [Tid -> Clocks]
         /\ mutexes \in [0 .. MaxMutexes - 1 -> MutexEntry]
         /\ \A i, j \in Tid : vc[i][j] \in Nat
         /\ \A k \in DOMAIN mutexes, i \in Tid : mutexes[k].vc[i] \in Nat
<1>1. vc \in [Tid -> Clocks] /\ mutexes \in [0 .. MaxMutexes - 1 -> MutexEntry]
  BY DEF Typing, TypeOK
<1>2. \A k \in DOMAIN mutexes : mutexes[k].vc \in Clocks
  BY <1>1 DEF MutexEntry
<1>3. \A v \in Clocks, i \in Tid : v[i] \in Nat
  BY DEF Clocks
<1> QED BY <1>1, <1>2, <1>3

\* ClockLead is inductive: a thread only ever raises its own entry of a
\* clock, one tick at a time, and a join takes the larger of two values that
\* are both within one tick.  A clock is cleared only before anyone knows it.
LEMMA InitClockLead == Init => ClockLead
BY TidFacts DEF Init, ClockLead, ZeroClock, EmptyMutex

LEMMA ClockTable ==
  ASSUME NEW v \in [Tid -> Clocks], NEW i \in Tid, NEW j \in Tid PROVE v[i][j] \in Nat
BY DEF Clocks

LEMMA OwnClockRaised ==
  ASSUME Typing, ClockLead, NEW tid \in Tid,
         vc' \in [Tid -> Clocks], UNCHANGED mutexes,
         \A j \in Tid : j # tid => vc'[j] = vc[j],
         vc'[tid][tid] >= vc[tid][tid],
         \A i \in Tid : i # tid => vc'[tid][i] <= vc[i][i] + 1
  PROVE  ClockLead'
<1>1. \A i, j \in Tid : vc[i][j] \in Nat /\ vc'[i][j] \in Nat
  BY ClockTable, ClockNats
<1>2. ASSUME NEW i \in Tid PROVE vc'[i][i] >= vc[i][i]
  <2>1. CASE i = tid
    BY <2>1
  <2>2. CASE i # tid
    BY <1>1, <2>2
  <2> QED BY <2>1, <2>2
<1>3. ASSUME NEW i \in Tid, NEW j \in Tid PROVE vc'[j][i] <= vc'[i][i] + 1
  <2>1. CASE j = tid /\ i = tid
    BY <1>1, <2>1
  <2>2. CASE ~(j = tid /\ i = tid)
    <3>1. vc'[j][i] <= vc[i][i] + 1
      BY <2>2 DEF ClockLead
    <3> QED BY <1>1, <1>2, <3>1
  <2> QED BY <2>1, <2>2
<1>4. ASSUME NEW i \in Tid, NEW n \in DOMAIN mutexes
      PROVE  mutexes'[n].vc[i] <= vc'[i][i] + 1
  <2>1. mutexes'[n].vc[i] <= vc[i][i] + 1 /\ mutexes'[n].vc[i] \in Nat
    BY ClockNats DEF ClockLead
  <2> QED BY <1>1, <1>2, <2>1
<1> QED BY <1>3, <1>4 DEF ClockLead

LEMMA NextClockLead == Typing /\ Identities /\ ClockLead /\ [Next]_vars => ClockLead'
<1> SUFFICES ASSUME Typing, Identities, ClockLead, [Next]_vars PROVE ClockLead'
  OBVIOUS
<1>0. /\ vc \in [Tid -> Clocks] /\ vc' \in [Tid -> Clocks]
      /\ mutexes \in [0 .. MaxMutexes - 1 -> MutexEntry]
      /\ mutexes' \in [0 .. MaxMutexes - 1 -> MutexEntry]
      /\ \A i, j \in Tid : vc[i][j] \in Nat
      /\ \A k \in DOMAIN mutexes, i \in Tid : mutexes[k].vc[i] \in Nat
  BY ClockNats, NextTyping DEF Typing, TypeOK
<1>1. CASE SameClocks
  BY <1>0, <1>1 DEF SameClocks, ClockLead
<1>2. ASSUME NEW t \in Threads, ThreadClock(t) PROVE ClockLead'
  <2>0. PICK tid : tid = current_tid[t]
    OBVIOUS
  <2>1. tid \in Tid /\ UNCHANGED mutexes
    BY <1>2, <2>0 DEF ThreadClock
  <2>2. \A j \in Tid : j # tid => vc'[j] = vc[j]
    BY <1>0, <1>2, <2>0, <2>1 DEF ThreadClock
  <2>3. ASSUME pc[t] = "init_slot", vc' = [vc EXCEPT ![tid] = NewClock(tid)]
        PROVE  ClockLead'
    <3>1. vc[tid] = ZeroClock
      BY <2>0, <2>3 DEF Identities
    <3>2. \A i \in Tid : vc[tid][i] = 0 /\ vc'[tid][i] = IF i = tid THEN 1 ELSE 0
      BY <1>0, <2>1, <2>3, <3>1 DEF ZeroClock, NewClock
    <3>3. vc'[tid][tid] >= vc[tid][tid]
      BY <2>1, <3>2
    <3>4. \A i \in Tid : i # tid => vc'[tid][i] <= vc[i][i] + 1
      BY <1>0, <3>2
    <3> QED BY <1>0, <2>1, <2>2, <3>3, <3>4, OwnClockRaised
  <2>4. ASSUME vc' = [vc EXCEPT ![tid] = VcInc(@, tid)] PROVE ClockLead'
    <3>1. \A i \in Tid : vc'[tid][i] = IF i = tid THEN vc[tid][i] + 1 ELSE vc[tid][i]
      BY <1>0, <2>1, <2>4 DEF VcInc, Clocks
    <3>2. vc'[tid][tid] >= vc[tid][tid]
      BY <1>0, <2>1, <3>1
    <3>3. \A i \in Tid : i # tid => vc'[tid][i] <= vc[i][i] + 1
      BY <2>1, <3>1 DEF ClockLead
    <3> QED BY <1>0, <2>1, <2>2, <3>2, <3>3, OwnClockRaised
  <2>5. ASSUME NEW k \in DOMAIN mutexes,
               vc' = [vc EXCEPT ![tid] = VcJoin(@, mutexes[k].vc)]
        PROVE  ClockLead'
    <3>1. \A i \in Tid : vc'[tid][i] =
            IF mutexes[k].vc[i] > vc[tid][i] THEN mutexes[k].vc[i] ELSE vc[tid][i]
      BY <1>0, <2>1, <2>5 DEF VcJoin
    <3>2. vc'[tid][tid] >= vc[tid][tid]
      <4>1. vc[tid][tid] \in Nat /\ mutexes[k].vc[tid] \in Nat
        BY <1>0, <2>1
      <4> QED BY <2>1, <3>1, <4>1
    <3>3. \A i \in Tid : vc'[tid][i] <= vc[i][i] + 1
      BY <1>0, <2>1, <3>1 DEF ClockLead
    <3> QED BY <1>0, <2>1, <2>2, <3>2, <3>3, OwnClockRaised
  <2> QED BY <1>2, <2>0, <2>3, <2>4, <2>5 DEF ThreadClock
<1>3. ASSUME NEW k \in DOMAIN mutexes, MutexClock(k) PROVE ClockLead'
  <2>1. UNCHANGED vc /\ \A j \in DOMAIN mutexes : j # k => mutexes'[j].vc = mutexes[j].vc
    BY <1>3 DEF MutexClock
  <2>2. CASE mutexes'[k].vc = ZeroClock
    <3>1. \A i \in Tid : mutexes'[k].vc[i] = 0
      BY <2>2 DEF ZeroClock
    <3> QED BY <1>0, <2>1, <3>1 DEF ClockLead
  <2>3. ASSUME NEW t \in Threads, current_tid[t] \in Tid,
               mutexes'[k].vc = VcInc(vc[current_tid[t]], current_tid[t])
        PROVE  ClockLead'
    <3> DEFINE tid == current_tid[t]
    <3>1. \A i \in Tid : mutexes'[k].vc[i] = IF i = tid THEN vc[tid][i] + 1 ELSE vc[tid][i]
      BY <1>0, <2>3 DEF VcInc, Clocks
    <3> QED BY <1>0, <2>1, <2>3, <3>1 DEF ClockLead
  <2> QED BY <1>3, <2>2, <2>3 DEF MutexClock
<1> QED BY <1>1, <1>2, <1>3, NextClockStep DEF ClockStep

\* Nobody's knowledge of a thread is more than the one tick of
\* __tsan_mutex_post_unlock ahead of the thread itself.
THEOREM KnowledgeIsBounded == Spec => []ClockLead
BY InitTyping, NextTyping, InitIdentities, NextIdentities,
   InitClockLead, NextClockLead, PTL DEF Spec

\* The clock of a thread that runs never goes back, whatever it acquires.
THEOREM ClocksAreMonotone == Spec => ClocksGrow
<1>1. ASSUME Typing, Identities, [Next]_vars
      PROVE  [\A t \in Threads : pc[t] \notin {"get_tid", "init_slot"} /\ current_tid[t] >= 0 =>
                \A i \in Tid : vc'[current_tid[t]][i] >= vc[current_tid[t]][i]]_vars
  <2> SUFFICES ASSUME NEW t \in Threads, NEW i \in Tid,
                      pc[t] \notin {"get_tid", "init_slot"}, current_tid[t] >= 0
               PROVE  vc'[current_tid[t]][i] >= vc[current_tid[t]][i]
    OBVIOUS
  <2>0. /\ vc \in [Tid -> Clocks] /\ current_tid[t] \in Tid
        /\ mutexes \in [0 .. MaxMutexes - 1 -> MutexEntry]
        /\ \A j, k \in Tid : vc[j][k] \in Nat
        /\ \A k \in DOMAIN mutexes : mutexes[k].vc[i] \in Nat
    <3>1. current_tid[t] \in Tid \cup {-1}
      BY <1>1 DEF Typing, TypeOK
    <3> QED BY <1>1, <3>1, ClockNats
  <2>1. CASE UNCHANGED vc
    BY <2>0, <2>1
  <2>2. ASSUME NEW u \in Threads, ThreadClock(u)
        PROVE  vc'[current_tid[t]][i] >= vc[current_tid[t]][i]
    <3> DEFINE tid == current_tid[u]
    <3>1. tid \in Tid
      BY <2>2 DEF ThreadClock
    <3>2. CASE current_tid[t] # tid
      BY <2>0, <2>2, <3>1, <3>2 DEF ThreadClock
    <3>3. CASE current_tid[t] = tid
      <4>1. t = u
        BY <1>1, <2>0, <3>3, TidFacts DEF Identities, DistinctTids
      <4>2. CASE vc' = [vc EXCEPT ![tid] = VcInc(@, tid)]
        BY <2>0, <3>1, <3>3, <4>2 DEF VcInc, Clocks
      <4>3. ASSUME NEW k \in DOMAIN mutexes,
                   vc' = [vc EXCEPT ![tid] = VcJoin(@, mutexes[k].vc)]
            PROVE  vc'[tid][i] >= vc[tid][i]
        BY <2>0, <3>1, <4>3 DEF VcJoin
      <4> QED BY <2>2, <3>3, <4>1, <4>2, <4>3 DEF ThreadClock
    <3> QED BY <3>2, <3>3
  <2> QED
    BY <1>1, <2>1, <2>2, NextClockStep DEF ClockStep, SameClocks, MutexClock
<1> QED
  BY <1>1, InitTyping, NextTyping, InitIdentities, NextIdentities, PTL
     DEF Spec, ClocksGrow

---------------------------------------------------------------------------------
(* The shadow as a log.  An entry is in use just when an access was        *)
(* written to it, so a table of entries is a log of as many addresses as   *)
(* it has entries in use, whatever the hash.                               *)

InUse(tab) == {i \in 0 .. ShadowEntries - 1 : tab[i].active}

\* What the entries of a table say of their addresses.
EntriesOK(tab) ==
  /\ tab \in [0 .. ShadowEntries - 1 -> Entry]
  /\ Reachable(tab, ShadowEntries, ShadowHash) /\ OneEntryPerKey(tab)
  /\ \A i \in 0 .. ShadowEntries - 1 : tab[i].active <=> tab[i].tid # 0
  /\ \A i \in InUse(tab) : tab[i].addr \in Addr

LastAccess(tab, a) ==
  LET i == Find(tab, ShadowEntries, ShadowHash[a], a, FALSE) IN
  IF i = NoSlot THEN [tid |-> 0, write |-> FALSE]
  ELSE [tid |-> tab[i].tid, write |-> tab[i].is_write]

AddressesOf(tab) == {a \in Addr : \E i \in 0 .. ShadowEntries - 1 : Hit(tab, i, a)}

LEMMA LastAccessIsTheEntry ==
  ASSUME NEW tab, EntriesOK(tab), NEW a \in Addr
  PROVE  /\ \A i \in 0 .. ShadowEntries - 1 : Hit(tab, i, a) =>
              LastAccess(tab, a) = [tid |-> tab[i].tid, write |-> tab[i].is_write]
         /\ a \notin AddressesOf(tab) => LastAccess(tab, a) = [tid |-> 0, write |-> FALSE]
         /\ a \in AddressesOf(tab) => LastAccess(tab, a) # [tid |-> 0, write |-> FALSE]
<1>0. ShadowHash[a] \in 0 .. ShadowEntries - 1 /\ ShadowEntries \in Nat \ {0}
  BY TsanConstants
<1>1. ASSUME NEW i \in 0 .. ShadowEntries - 1, Hit(tab, i, a)
      PROVE  LastAccess(tab, a) = [tid |-> tab[i].tid, write |-> tab[i].is_write]
  <2>1. Find(tab, ShadowEntries, ShadowHash[a], a, FALSE) = i
    BY <1>0, <1>1, FindIsTheEntry DEF EntriesOK
  <2>2. i # NoSlot
    BY <1>0 DEF NoSlot
  <2> QED BY <2>1, <2>2 DEF LastAccess
<1>2. ASSUME a \notin AddressesOf(tab) PROVE LastAccess(tab, a) = [tid |-> 0, write |-> FALSE]
  <2>1. Find(tab, ShadowEntries, ShadowHash[a], a, FALSE) = NoSlot
    BY <1>0, <1>2, FindExisting DEF AddressesOf
  <2> QED BY <2>1 DEF LastAccess
<1>3. ASSUME NEW i \in 0 .. ShadowEntries - 1, Hit(tab, i, a)
      PROVE  LastAccess(tab, a) # [tid |-> 0, write |-> FALSE]
  <2>1. tab[i].tid # 0
    BY <1>3 DEF EntriesOK, Hit
  <2>2. LastAccess(tab, a).tid = tab[i].tid
    BY <1>1, <1>3
  <2> QED BY <2>1, <2>2
<1> QED BY <1>1, <1>2, <1>3 DEF AddressesOf

LEMMA AsManyAddressesAsEntries ==
  ASSUME NEW tab, EntriesOK(tab)
  PROVE  /\ IsFiniteSet(AddressesOf(tab))
         /\ Cardinality(AddressesOf(tab)) = Cardinality(InUse(tab))
<1> DEFINE f == [i \in InUse(tab) |-> tab[i].addr]
<1>1. f \in [InUse(tab) -> AddressesOf(tab)]
  <2>1. ASSUME NEW i \in InUse(tab) PROVE tab[i].addr \in AddressesOf(tab)
    BY DEF EntriesOK, InUse, AddressesOf, Hit
  <2> QED BY <2>1
<1>2. \A i, j \in InUse(tab) : f[i] = f[j] => i = j
  BY DEF EntriesOK, OneEntryPerKey, InUse
<1>3. ASSUME NEW a \in AddressesOf(tab) PROVE \E i \in InUse(tab) : f[i] = a
  BY DEF AddressesOf, InUse, Hit
<1>4. f \in Bijection(InUse(tab), AddressesOf(tab))
  <2> HIDE DEF f
  <2> QED BY <1>1, <1>2, <1>3, Fun_IsBij
<1>5. ExistsBijection(InUse(tab), AddressesOf(tab))
  BY <1>4 DEF ExistsBijection
<1>6. IsFiniteSet(InUse(tab))
  <2>1. IsFiniteSet(0 .. ShadowEntries - 1)
    BY FS_Interval, TsanConstants
  <2> QED BY <2>1, FS_Subset DEF InUse
<1> QED BY <1>5, <1>6, FS_Bijection

\* A table with a free entry has room for one more address, and one without
\* holds as many as it has entries.
LEMMA RoomInTable ==
  ASSUME NEW tab, EntriesOK(tab)
  PROVE  /\ \A i \in 0 .. ShadowEntries - 1 :
              ~tab[i].active => Cardinality(AddressesOf(tab)) < ShadowEntries
         /\ (\A i \in 0 .. ShadowEntries - 1 : tab[i].active)
              => Cardinality(AddressesOf(tab)) = ShadowEntries
<1>1. /\ IsFiniteSet(0 .. ShadowEntries - 1)
      /\ Cardinality(0 .. ShadowEntries - 1) = ShadowEntries
      /\ ShadowEntries \in Nat
  BY FS_Interval, TsanConstants
<1>2. /\ InUse(tab) \in SUBSET (0 .. ShadowEntries - 1)
      /\ Cardinality(AddressesOf(tab)) = Cardinality(InUse(tab))
  BY AsManyAddressesAsEntries DEF InUse
<1>3. /\ Cardinality(InUse(tab)) \in Nat
      /\ Cardinality(InUse(tab)) <= ShadowEntries
      /\ Cardinality(InUse(tab)) = ShadowEntries => InUse(tab) = 0 .. ShadowEntries - 1
  BY <1>1, <1>2, FS_Subset, FS_CardinalityType
<1>4. ASSUME NEW i \in 0 .. ShadowEntries - 1, ~tab[i].active
      PROVE  Cardinality(AddressesOf(tab)) < ShadowEntries
  <2>1. InUse(tab) # 0 .. ShadowEntries - 1
    BY <1>4 DEF InUse
  <2> QED BY <1>1, <1>2, <1>3, <2>1
<1>5. ASSUME \A i \in 0 .. ShadowEntries - 1 : tab[i].active
      PROVE  Cardinality(AddressesOf(tab)) = ShadowEntries
  <2>1. InUse(tab) = 0 .. ShadowEntries - 1
    BY <1>5 DEF InUse
  <2> QED BY <1>1, <1>2, <2>1
<1> QED BY <1>4, <1>5

\* An entry is active just when it was written, by a thread and for an
\* address of the program.
Written ==
  /\ \A i \in 0 .. ShadowEntries - 1 : shadow[i].active <=> shadow[i].tid # 0
  /\ \A i \in 0 .. ShadowEntries - 1 : shadow[i].active => shadow[i].addr \in Addr

Logging == Typing /\ Control /\ ShadowSound /\ Identities /\ Sentinel /\ Written

LEMMA LoggingIsOK == Logging => EntriesOK(shadow)
BY DEF Logging, Typing, TypeOK, ShadowSound, Written, EntriesOK, InUse

LEMMA InitWritten == Init => Written
BY DEF Init, Written, EmptyShadow

\* The body of tsan_access has the identity of a thread, and the probe that
\* finds an entry finds that of the address or a free one.
LEMMA AccessFacts ==
  ASSUME Logging, NEW t \in Threads, In(t, "access"),
         ShadowFind(call[t].range[1], TRUE) # NoSlot
  PROVE  LET a == call[t].range[1]
             i == ShadowFind(a, TRUE)
         IN  /\ a \in Addr /\ i \in 0 .. ShadowEntries - 1
             /\ current_tid[t] \in Tid \ {0} /\ call[t].write \in BOOLEAN
             /\ Hit(shadow, i, a) \/ ~shadow[i].active
             /\ \A j \in 0 .. ShadowEntries - 1 : Hit(shadow, j, a) => j = i
             /\ reports = {}
<1> DEFINE a == call[t].range[1]
           i == ShadowFind(a, TRUE)
<1>1. a \in Addr /\ current_tid[t] \in Tid /\ call[t].write \in BOOLEAN
  BY CriticalFacts DEF Logging
<1>2. current_tid[t] # 0
  <2>1. current_tid[t] # -1
    BY <1>1, TidFacts
  <2> QED BY <2>1 DEF Logging, Identities
<1>3. ShadowHash[a] \in 0 .. ShadowEntries - 1 /\ ShadowEntries \in Nat \ {0}
  BY <1>1, TsanConstants
<1>4. i \in 0 .. ShadowEntries - 1 /\ (Hit(shadow, i, a) \/ ~shadow[i].active)
  BY <1>3, FindOrAllocate DEF ShadowFind
<1>5. ASSUME NEW j \in 0 .. ShadowEntries - 1, Hit(shadow, j, a) PROVE j = i
  <2>1. EntriesOK(shadow)
    BY LoggingIsOK
  <2>2. DOMAIN shadow = 0 .. ShadowEntries - 1
    BY <2>1 DEF EntriesOK
  <2> QED BY <1>3, <1>5, <2>1, <2>2, FindIsTheEntry DEF EntriesOK, ShadowFind
<1>6. reports = {}
  BY DEF Logging, Control, In
<1> QED BY <1>1, <1>2, <1>4, <1>5, <1>6

\* A race is with an access that was recorded: the entry holds the address
\* already, and the two stores before the check change nothing.
LEMMA RaceFacts ==
  ASSUME Logging, NEW t \in Threads, AccessRace(t)
  PROVE  LET i == ShadowFind(call[t].range[1], TRUE) IN
         Hit(shadow, i, call[t].range[1]) /\ UNCHANGED shadow
<1> DEFINE a == call[t].range[1]
           i == ShadowFind(a, TRUE)
           tid == current_tid[t]
<1>1. /\ In(t, "access") /\ i # NoSlot
      /\ Races(tid, call[t].write, shadow[i])
      /\ shadow' = [shadow EXCEPT ![i].addr = a, ![i].active = TRUE]
  BY DEF AccessRace
<1>2. /\ i \in 0 .. ShadowEntries - 1 /\ tid \in Tid
      /\ Hit(shadow, i, a) \/ ~shadow[i].active
  BY <1>1, AccessFacts
<1> HIDE DEF i, a, tid
<1>3. shadow[i].tid # 0
  <2>1. ~(vc[shadow[i].tid][shadow[i].tid] <= vc[tid][shadow[i].tid])
    BY <1>1 DEF Races, HappensBefore
  <2>2. vc[0][0] = 0 /\ vc[tid][0] = 0
    BY <1>2, TidFacts DEF Logging, Sentinel
  <2> QED BY <2>1, <2>2
<1>4. shadow[i].active
  BY <1>2, <1>3 DEF Logging, Written
<1>5. Hit(shadow, i, a)
  BY <1>2, <1>4
<1>6. shadow \in [0 .. ShadowEntries - 1 -> Entry] /\ shadow[i].addr = a /\ shadow[i].active = TRUE
  BY <1>2, <1>4, <1>5 DEF Hit, Logging, Typing, TypeOK, Entry
<1>7. shadow[i] = [shadow[i] EXCEPT !.addr = a, !.active = TRUE]
  BY <1>2, <1>6 DEF Entry
<1>8. shadow' = shadow
  BY <1>1, <1>2, <1>6, <1>7
<1> QED BY <1>5, <1>8 DEF i, a

\* The entry an access that does not race leaves behind.
LEMMA RecordFacts ==
  ASSUME Logging, NEW t \in Threads, AccessRecorded(t)
  PROVE  \E i \in 0 .. ShadowEntries - 1, e \in Entry :
           /\ i = ShadowFind(call[t].range[1], TRUE)
           /\ e.addr = call[t].range[1] /\ e.tid = current_tid[t]
           /\ e.is_write = call[t].write /\ e.active
           /\ shadow' = [shadow EXCEPT ![i] = e]
<1> DEFINE i == ShadowFind(call[t].range[1], TRUE)
           e == [addr |-> call[t].range[1], tid |-> current_tid[t],
                 is_write |-> call[t].write, active |-> TRUE]
<1>0. In(t, "access") /\ ShadowFind(call[t].range[1], TRUE) # NoSlot
  BY DEF AccessRecorded
<1>1. shadow' = [shadow EXCEPT ![i] = e]
  BY DEF AccessRecorded
<1>2. /\ i \in 0 .. ShadowEntries - 1 /\ call[t].range[1] \in Addr
      /\ current_tid[t] \in Tid /\ call[t].write \in BOOLEAN
  BY <1>0, AccessFacts
<1>3. e \in Entry
  BY <1>2 DEF Entry
<1>4. /\ e.addr = call[t].range[1] /\ e.tid = current_tid[t]
      /\ e.is_write = call[t].write /\ e.active
  OBVIOUS
<1> HIDE DEF e
<1> QED BY <1>1, <1>2, <1>3, <1>4

\* What every other step leaves alone.
LEMMA ElsewhereUnchanged ==
  ASSUME [Next]_vars, \A t \in Threads : ~AccessRecorded(t) /\ ~AccessRace(t)
  PROVE  UNCHANGED <<shadow, reports>>
BY DEF Next, Step, Invoke, ReserveTid, InitSlot, Acquire,
   AccessUntracked, MutexCreate, MutexDestroy, PostLock, PostUnlock, vars

LEMMA NextWritten == Logging /\ [Next]_vars => Written'
<1> SUFFICES ASSUME Logging, [Next]_vars PROVE Written'
  OBVIOUS
<1>1. CASE UNCHANGED shadow
  BY <1>1 DEF Logging, Written
<1>2. ASSUME NEW t \in Threads, AccessRecorded(t) PROVE Written'
  <2>1. PICK i \in 0 .. ShadowEntries - 1, e \in Entry :
          /\ i = ShadowFind(call[t].range[1], TRUE)
          /\ e.addr = call[t].range[1] /\ e.tid = current_tid[t]
          /\ e.is_write = call[t].write /\ e.active
          /\ shadow' = [shadow EXCEPT ![i] = e]
    BY <1>2, RecordFacts, Zenon
  <2>2. e.addr \in Addr /\ e.tid # 0
    BY <1>2, <2>1, AccessFacts DEF AccessRecorded
  <2>3. shadow \in [0 .. ShadowEntries - 1 -> Entry]
    BY DEF Logging, Typing, TypeOK
  <2> QED BY <2>1, <2>2, <2>3 DEF Logging, Written
<1> QED BY <1>1, <1>2, RaceFacts, ElsewhereUnchanged

LEMMA InitLogging == Init => Logging
BY InitTyping, InitControl, InitShadowSound, InitIdentities, InitSentinel, InitWritten DEF Logging

LEMMA NextLogging == Logging /\ [Next]_vars => Logging'
BY NextTyping, NextControl, NextShadowSound, NextIdentities, NextSentinel, NextWritten
   DEF Logging

LEMMA LogCardinality == \A S : Log!Cardinality(S) = Cardinality(S)
BY Zenon DEF Log!Cardinality, Cardinality

\* RaceLog's steps and its tracked addresses, in terms of the table.
LEMMA LogOfTable ==
  /\ Log!Tracked = {a \in Addr : LastAccess(shadow, a) # [tid |-> 0, write |-> FALSE]}
  /\ \A a \in Addr : Log!Record(a) <=>
       LET l == [b \in Addr |-> LastAccess(shadow, b)]
           m == [b \in Addr |-> LastAccess(shadow', b)]
       IN  /\ ~(reports # {})
           /\ m[a] \in Log!Access /\ m[a].tid # 0
           /\ a \in Log!Tracked \/ Cardinality(Log!Tracked) < ShadowEntries
           /\ m = [l EXCEPT ![a] = m[a]]
           /\ (reports' # {}) = (reports # {})
  /\ \A a \in Addr : Log!Stop(a) <=>
       LET l == [b \in Addr |-> LastAccess(shadow, b)]
           m == [b \in Addr |-> LastAccess(shadow', b)]
       IN  /\ ~(reports # {}) /\ reports' # {}
           /\ a \in Log!Tracked
           /\ \E x \in Log!Access : x.tid # 0 /\ Log!Conflict(l[a], x)
           /\ m = l
<1>1. Log!Tracked = {a \in Addr : LastAccess(shadow, a) # [tid |-> 0, write |-> FALSE]}
  BY Zenon DEF Log!Tracked, Log!NoAccess, LastAccess, ShadowFind
<1>2. ASSUME NEW a \in Addr
      PROVE  Log!Record(a) <=>
       LET l == [b \in Addr |-> LastAccess(shadow, b)]
           m == [b \in Addr |-> LastAccess(shadow', b)]
       IN  /\ ~(reports # {})
           /\ m[a] \in Log!Access /\ m[a].tid # 0
           /\ a \in Log!Tracked \/ Cardinality(Log!Tracked) < ShadowEntries
           /\ m = [l EXCEPT ![a] = m[a]]
           /\ (reports' # {}) = (reports # {})
  BY LogCardinality, Zenon DEF Log!Record, LastAccess, ShadowFind
<1>3. ASSUME NEW a \in Addr
      PROVE  Log!Stop(a) <=>
       LET l == [b \in Addr |-> LastAccess(shadow, b)]
           m == [b \in Addr |-> LastAccess(shadow', b)]
       IN  /\ ~(reports # {}) /\ reports' # {}
           /\ a \in Log!Tracked
           /\ \E x \in Log!Access : x.tid # 0 /\ Log!Conflict(l[a], x)
           /\ m = l
  BY Zenon DEF Log!Stop, LastAccess, ShadowFind
<1> QED BY <1>1, <1>2, <1>3

LEMMA TrackedAddresses == Logging => Log!Tracked = AddressesOf(shadow)
<1> SUFFICES ASSUME Logging PROVE Log!Tracked = AddressesOf(shadow)
  OBVIOUS
<1>1. AddressesOf(shadow) \subseteq Addr
  BY DEF AddressesOf
<1>2. EntriesOK(shadow)
  BY LoggingIsOK
<1> QED BY <1>1, <1>2, LogOfTable, LastAccessIsTheEntry

LEMMA RecordImplementsRecord ==
  ASSUME Logging, Logging', NEW t \in Threads, AccessRecorded(t)
  PROVE  Log!Record(call[t].range[1])
<1> DEFINE a == call[t].range[1]
           l == [b \in Addr |-> LastAccess(shadow, b)]
           m == [b \in Addr |-> LastAccess(shadow', b)]
<1>1. In(t, "access") /\ ShadowFind(a, TRUE) # NoSlot /\ UNCHANGED reports
  BY DEF AccessRecorded
<1>2. PICK i \in 0 .. ShadowEntries - 1, e \in Entry :
        /\ i = ShadowFind(call[t].range[1], TRUE)
        /\ e.addr = call[t].range[1] /\ e.tid = current_tid[t]
        /\ e.is_write = call[t].write /\ e.active
        /\ shadow' = [shadow EXCEPT ![i] = e]
  BY RecordFacts, Zenon
<1>3. /\ a \in Addr /\ reports = {}
      /\ current_tid[t] \in Tid \ {0} /\ call[t].write \in BOOLEAN
      /\ Hit(shadow, i, a) \/ ~shadow[i].active
      /\ \A j \in 0 .. ShadowEntries - 1 : Hit(shadow, j, a) => j = i
  BY <1>1, <1>2, AccessFacts
<1>4. EntriesOK(shadow) /\ EntriesOK(shadow')
  <2>1. EntriesOK(shadow)
    BY LoggingIsOK
  <2>2. /\ shadow' \in [0 .. ShadowEntries - 1 -> Entry]
        /\ Reachable(shadow', ShadowEntries, ShadowHash) /\ OneEntryPerKey(shadow')
        /\ \A j \in 0 .. ShadowEntries - 1 : shadow'[j].active <=> shadow'[j].tid # 0
        /\ \A j \in 0 .. ShadowEntries - 1 : shadow'[j].active => shadow'[j].addr \in Addr
    BY DEF Logging, Typing, TypeOK, ShadowSound, Written, Reachable, OneEntryPerKey
  <2> QED BY <2>1, <2>2 DEF EntriesOK, InUse
<1>5. shadow \in [0 .. ShadowEntries - 1 -> Entry]
  BY <1>4 DEF EntriesOK
<1>6. LastAccess(shadow', a) = [tid |-> current_tid[t], write |-> call[t].write]
  <2>1. Hit(shadow', i, a)
    BY <1>2, <1>5 DEF Hit
  <2>2. shadow'[i].tid = current_tid[t] /\ shadow'[i].is_write = call[t].write
    BY <1>2, <1>5
  <2> QED BY <1>3, <1>4, <2>1, <2>2, LastAccessIsTheEntry
<1>7. ASSUME NEW b \in Addr, b # a PROVE LastAccess(shadow', b) = LastAccess(shadow, b)
  <2>1. ~Hit(shadow', i, b) /\ ~Hit(shadow, i, b)
    BY <1>2, <1>3, <1>5, <1>7 DEF Hit
  <2>2. \A j \in 0 .. ShadowEntries - 1 : j # i => shadow'[j] = shadow[j]
    BY <1>2, <1>5
  <2>3. CASE b \in AddressesOf(shadow)
    <3>1. PICK j \in 0 .. ShadowEntries - 1 : Hit(shadow, j, b)
      BY <2>3 DEF AddressesOf
    <3>2. shadow'[j] = shadow[j] /\ Hit(shadow', j, b)
      BY <2>1, <2>2, <3>1 DEF Hit
    <3> QED BY <1>4, <3>1, <3>2, LastAccessIsTheEntry
  <2>4. CASE b \notin AddressesOf(shadow)
    <3>1. \A j \in 0 .. ShadowEntries - 1 : ~Hit(shadow', j, b)
      BY <1>7, <2>1, <2>2, <2>4 DEF AddressesOf, Hit
    <3>2. b \notin AddressesOf(shadow')
      BY <3>1 DEF AddressesOf
    <3> QED BY <1>4, <1>7, <2>4, <3>2, LastAccessIsTheEntry
  <2> QED BY <2>3, <2>4
<1>8. m[a] = [tid |-> current_tid[t], write |-> call[t].write] /\ m = [l EXCEPT ![a] = m[a]]
  BY <1>3, <1>6, <1>7
<1>9. m[a] \in Log!Access /\ m[a].tid # 0
  BY <1>3, <1>8 DEF Log!Access
<1>10. a \in Log!Tracked \/ Cardinality(Log!Tracked) < ShadowEntries
  <2>1. Log!Tracked = AddressesOf(shadow)
    BY TrackedAddresses
  <2>2. CASE Hit(shadow, i, a)
    BY <1>3, <2>1, <2>2 DEF AddressesOf
  <2>3. CASE ~shadow[i].active
    BY <1>4, <2>1, <2>3, RoomInTable
  <2> QED BY <1>3, <2>2, <2>3
<1>11. ~(reports # {}) /\ (reports' # {}) = (reports # {})
  BY <1>1, <1>3
<1> HIDE DEF a
<1> QED BY <1>3, <1>8, <1>9, <1>10, <1>11, LogOfTable, Zenon DEF a

LEMMA RaceImplementsStop ==
  ASSUME Logging, NEW t \in Threads, AccessRace(t)
  PROVE  Log!Stop(call[t].range[1])
<1> DEFINE a == call[t].range[1]
           i == ShadowFind(a, TRUE)
           l == [b \in Addr |-> LastAccess(shadow, b)]
           m == [b \in Addr |-> LastAccess(shadow', b)]
           x == [tid |-> current_tid[t], write |-> call[t].write]
<1>1. /\ In(t, "access") /\ i # NoSlot
      /\ Races(current_tid[t], call[t].write, shadow[i])
      /\ \E r : reports' = reports \cup {r}
  BY DEF AccessRace
<1>2. /\ a \in Addr /\ reports = {} /\ i \in 0 .. ShadowEntries - 1
      /\ current_tid[t] \in Tid \ {0} /\ call[t].write \in BOOLEAN
  BY <1>1, AccessFacts
<1>3. Hit(shadow, i, a) /\ shadow' = shadow
  BY RaceFacts
<1>4. a \in Log!Tracked
  BY <1>2, <1>3, TrackedAddresses DEF AddressesOf
<1>5. l[a] = [tid |-> shadow[i].tid, write |-> shadow[i].is_write]
  <2> HIDE DEF a, i
  <2>1. LastAccess(shadow, a) = [tid |-> shadow[i].tid, write |-> shadow[i].is_write]
    BY <1>2, <1>3, LoggingIsOK, LastAccessIsTheEntry
  <2> QED BY <1>2, <2>1
<1>6. x \in Log!Access /\ x.tid # 0 /\ Log!Conflict(l[a], x)
  <2> HIDE DEF a, i, l
  <2> QED BY <1>1, <1>2, <1>5 DEF Log!Access, Log!Conflict, Races
<1>7. m = l
  BY <1>3
<1>8. ~(reports # {}) /\ reports' # {}
  BY <1>1, <1>2
<1>9. \E y \in Log!Access : y.tid # 0 /\ Log!Conflict(l[a], y)
  BY <1>6
<1> HIDE DEF a
<1> QED BY <1>2, <1>4, <1>7, <1>8, <1>9, LogOfTable, Zenon DEF a

\* A step of the log, or one that leaves it alone.
ImplementsStep ==
  [Log!Next]_<<[a \in Addr |->
          LET i == ShadowFind(a, FALSE) IN
          IF i = NoSlot THEN [tid |-> 0, write |-> FALSE]
          ELSE [tid |-> shadow[i].tid, write |-> shadow[i].is_write]], reports # {}>>

\* The runtime implements RaceLog.  However addresses collide in the shadow
\* and however hooks interleave, what tsan_shadow_get finds for an address is
\* its last recorded access; an access is recorded while there is room; and
\* the first race, which is a conflict with a recorded access, is the last
\* thing that happens.
THEOREM RuntimeIsRaceLog == Spec => ImplementsRaceLog
<1>1. Init => Log!Init
  <2> SUFFICES ASSUME Init PROVE Log!Init
    OBVIOUS
  <2>1. ASSUME NEW a \in Addr PROVE ShadowFind(a, FALSE) = NoSlot
    <3>1. ShadowHash[a] \in 0 .. ShadowEntries - 1 /\ ShadowEntries \in Nat \ {0}
      BY TsanConstants
    <3>2. \A j \in 0 .. ShadowEntries - 1 : ~Hit(shadow, j, a)
      BY DEF Init, EmptyShadow, Hit
    <3> QED BY <3>1, <3>2, FindExisting DEF ShadowFind
  <2>2. reports = {}
    BY DEF Init
  <2> QED BY <2>1, <2>2 DEF Log!Init, Log!NoAccess
<1>2. Logging /\ Logging' /\ [Next]_vars => ImplementsStep
  <2> SUFFICES ASSUME Logging, Logging', [Next]_vars PROVE ImplementsStep
    OBVIOUS
  <2>1. ASSUME NEW t \in Threads, AccessRecorded(t) PROVE ImplementsStep
    <3>1. call[t].range[1] \in Addr
      BY <2>1, CriticalFacts DEF AccessRecorded, Logging
    <3> QED BY <2>1, <3>1, RecordImplementsRecord, Zenon DEF Log!Next, ImplementsStep
  <2>2. ASSUME NEW t \in Threads, AccessRace(t) PROVE ImplementsStep
    <3>1. call[t].range[1] \in Addr
      BY <2>2, CriticalFacts DEF AccessRace, Logging
    <3> QED BY <2>2, <3>1, RaceImplementsStop, Zenon DEF Log!Next, ImplementsStep
  <2>3. CASE UNCHANGED <<shadow, reports>>
    BY <2>3, Zenon DEF ImplementsStep, ShadowFind
  <2> QED BY <2>1, <2>2, <2>3, ElsewhereUnchanged
<1> QED BY <1>1, <1>2, InitLogging, NextLogging, PTL DEF Spec, ImplementsRaceLog, Log!Spec, ImplementsStep

\* An access goes untracked (the early return of tsan_access) only for an
\* address without an entry, when every entry holds another address: no hash
\* and no order of calls loses room.
THEOREM UntrackedOnlyWhenFull == Spec => DroppedOnlyWhenFull
<1>1. ASSUME Logging, NEW t \in Threads, AccessUntracked(t)
      PROVE  /\ Log!Tracked \subseteq Addr \ {call[t].range[1]}
             /\ Cardinality(Log!Tracked) = ShadowEntries
  <2> DEFINE a == call[t].range[1]
  <2>1. a \in Addr
    BY <1>1, CriticalFacts DEF AccessUntracked, Logging
  <2>2. ShadowHash[a] \in 0 .. ShadowEntries - 1 /\ ShadowEntries \in Nat \ {0}
    BY <2>1, TsanConstants
  <2>3. \A j \in 0 .. ShadowEntries - 1 : shadow[j].active /\ ~Hit(shadow, j, a)
    BY <1>1, <2>2, NoRoomMeansFull DEF AccessUntracked, ShadowFind
  <2>4. EntriesOK(shadow) /\ Log!Tracked = AddressesOf(shadow)
    BY <1>1, LoggingIsOK, TrackedAddresses
  <2>5. a \notin AddressesOf(shadow)
    BY <2>3 DEF AddressesOf
  <2>6. Cardinality(AddressesOf(shadow)) = ShadowEntries
    BY <2>3, <2>4, RoomInTable
  <2>7. AddressesOf(shadow) \subseteq Addr
    BY DEF AddressesOf
  <2> QED BY <2>4, <2>5, <2>6, <2>7
<1>2. Logging => [\A t \in Threads :
         AccessUntracked(t) => Log!Tracked \subseteq Addr \ {call[t].range[1]}
                               /\ Cardinality(Log!Tracked) = ShadowEntries]_vars
  BY <1>1
<1> QED BY <1>2, InitLogging, NextLogging, PTL DEF Spec, DroppedOnlyWhenFull
=============================================================================
