---------------------------------- MODULE Lsan ----------------------------------
(***************************************************************************)
(* The leak sanitizer, src/src/lsan/lsan_rtl.c, and the program around it. *)
(*                                                                         *)
(* The runtime keeps an append-only table of allocations and a table of    *)
(* root regions, both under lsan_lock.  The bodies of the small hooks are  *)
(* one step; a leak check holds the lock but reads the memory of the       *)
(* program one word at a time, while other threads may write it.           *)
(*                                                                         *)
(* The program is external: it registers a block after it gets it and      *)
(* unregisters it before it gives it back, registers a root region once at *)
(* a time, switches the tracker off and on, and stores pointers to blocks  *)
(* in words it owns, under a leak check too.                               *)
(*                                                                         *)
(* Left out: stack traces and timestamps of records, the text of a report, *)
(* the entries of a table beyond its count (nothing reads them).  Sizes    *)
(* are in words.                                                           *)
(***************************************************************************)
EXTENDS Integers, Sequences, FiniteSets

CONSTANTS
  Threads,       \* the threads of the program
  Blocks,        \* what malloc may return: records [addr, size], disjoint
  Regions,       \* what may be registered as a root: the same
  MaxAllocs,     \* LSAN_MAX_ALLOCS
  MaxRoots,      \* LSAN_MAX_ROOTS
  Disabling,     \* does the program call __lsan_disable?
  Printable,     \* the addresses with as many digits as %p wants: for one with
                 \* fewer, drt_putn never ends
  ShortStacks,   \* may an address of a stack trace have fewer?
  NoThread       \* lsan_lock is free

Null == 0
WordsOf(r) == r.addr .. r.addr + r.size - 1
Words == UNION {WordsOf(r) : r \in Blocks \cup Regions}
BlockAddrs == {b.addr : b \in Blocks}

ASSUME LsanConstants ==
  /\ NoThread \notin Threads /\ IsFiniteSet(Regions)
  /\ \A r \in Blocks \cup Regions : r.addr \in Nat \ {Null} /\ r.size \in Nat
  /\ \A b, c \in Blocks : b.addr = c.addr => b = c
  /\ \A r, q \in Regions : r.addr = q.addr => r = q
  /\ MaxAllocs \in Nat /\ MaxRoots \in Nat
  /\ {Disabling, ShortStacks} \subseteq BOOLEAN
  /\ Printable \subseteq BlockAddrs

VARIABLES
  allocs,    \* lsan_allocs[0 .. lsan_alloc_count - 1]
  roots,     \* lsan_roots[0 .. lsan_root_count - 1]
  disabled,  \* lsan_disabled
  lock,      \* the holder of lsan_lock
  pc,        \* where a thread is in the runtime; "run" is outside it
  call,      \* the hook a thread is in, with its argument
  scan,      \* the progress of the leak check under way
  mem,       \* the program's memory: the block a word points to
  live,      \* the blocks the program owns
  declared,  \* the root regions it has registered
  strayed,   \* history: the addresses it got or gave back with the tracker off
  seen       \* history: what each word has held since the leak check began

runtime == <<allocs, roots, lock, pc, call, scan>>
vars == <<runtime, disabled, mem, live, declared, strayed, seen>>

Ops == {"alloc", "free", "root", "unroot", "ignore", "check", "recoverable_check"}
NoArg == [addr |-> Null, size |-> 0]
NoCall == [op |-> "none", arg |-> NoArg]
NoScan == [obj |-> 1, part |-> 1, word |-> 0, found |-> {}]
NothingSeen == [w \in Words |-> {}]

Init ==
  /\ allocs = <<>> /\ roots = <<>> /\ disabled = FALSE /\ lock = NoThread
  /\ pc = [t \in Threads |-> "run"]
  /\ call = [t \in Threads |-> NoCall]
  /\ scan = NoScan
  /\ mem = [w \in Words |-> Null] /\ live = {} /\ declared = {}
  /\ strayed = {} /\ seen = NothingSeen

---------------------------------------------------------------------------------
(* What the program does. *)

InHook(op, r) == \E t \in Threads : pc[t] # "run" /\ call[t] = [op |-> op, arg |-> r]

\* The blocks the program has in hand: not inside malloc, not inside free.
InHand == {b \in live : ~InHook("alloc", b) /\ ~InHook("free", b)}

Enter(t, op, r) ==
  /\ pc' = [pc EXCEPT ![t] = "spin"]
  /\ call' = [call EXCEPT ![t] = [op |-> op, arg |-> r]]
  /\ UNCHANGED <<allocs, roots, lock, scan>>

\* malloc and __lsan_register_alloc.  The flag is read before the lock.
Malloc(t, b) ==
  /\ pc[t] = "run" /\ b \notin live
  /\ live' = live \cup {b}
  /\ \/ disabled /\ strayed' = strayed \cup {b.addr} /\ UNCHANGED runtime
     \/ ~disabled /\ Enter(t, "alloc", b) /\ UNCHANGED strayed
  /\ UNCHANGED <<disabled, mem, declared, seen>>

\* __lsan_unregister_alloc, then free; a disabled hook returns at once.
Free(t, b) ==
  /\ pc[t] = "run" /\ b \in InHand /\ ~InHook("ignore", b)
  /\ \/ disabled /\ live' = live \ {b} /\ strayed' = strayed \cup {b.addr} /\ UNCHANGED runtime
     \/ ~disabled /\ Enter(t, "free", b) /\ UNCHANGED <<live, strayed>>
  /\ UNCHANGED <<disabled, mem, declared, seen>>

Root(t, r) ==
  /\ pc[t] = "run" /\ r \notin declared /\ ~InHook("root", r) /\ ~InHook("unroot", r)
  /\ Enter(t, "root", r)
  /\ UNCHANGED <<disabled, mem, live, declared, strayed, seen>>

Unroot(t, r) ==
  /\ pc[t] = "run" /\ r \in declared
  /\ declared' = declared \ {r}
  /\ Enter(t, "unroot", r)
  /\ UNCHANGED <<disabled, mem, live, strayed, seen>>

Ignore(t, b) ==
  /\ pc[t] = "run" /\ b \in InHand
  /\ Enter(t, "ignore", b)
  /\ UNCHANGED <<disabled, mem, live, declared, strayed, seen>>

Check(t, op) ==
  /\ pc[t] = "run"
  /\ Enter(t, op, NoArg)
  /\ UNCHANGED <<disabled, mem, live, declared, strayed, seen>>

\* __lsan_disable and __lsan_enable, plain atomic stores.
SetDisabled(t, v) ==
  /\ pc[t] = "run" /\ Disabling /\ disabled # v
  /\ disabled' = v
  /\ UNCHANGED <<runtime, mem, live, declared, strayed, seen>>

Store(t, w, p) ==
  /\ pc[t] = "run"
  /\ \E r \in InHand \cup Regions : w \in WordsOf(r)
  /\ mem' = [mem EXCEPT ![w] = p]
  /\ seen' = IF \E u \in Threads : pc[u] = "scan" THEN [seen EXCEPT ![w] = @ \cup {p}] ELSE seen
  /\ UNCHANGED <<runtime, disabled, live, declared, strayed>>

Program(t) ==
  \/ \E b \in Blocks : Malloc(t, b) \/ Free(t, b) \/ Ignore(t, b)
  \/ \E r \in Regions : Root(t, r) \/ Unroot(t, r)
  \/ \E op \in {"check", "recoverable_check"} : Check(t, op)
  \/ \E v \in BOOLEAN : SetDisabled(t, v)
  \/ \E w \in Words, p \in {b.addr : b \in InHand} \cup {Null} : Store(t, w, p)

---------------------------------------------------------------------------------
(* The hooks that change a table. *)

Acquire(t) ==
  /\ pc[t] = "spin" /\ lock = NoThread
  /\ lock' = t
  /\ pc' = [pc EXCEPT ![t] = "critical"]
  /\ UNCHANGED <<allocs, roots, call, scan, disabled, mem, live, declared, strayed, seen>>

In(t, op) == pc[t] = "critical" /\ call[t].op = op

Return(t) ==
  /\ lock' = NoThread
  /\ pc' = [pc EXCEPT ![t] = "run"]
  /\ call' = [call EXCEPT ![t] = NoCall]

\* The indexes of the records an array walk may stop at, and the first.
Least(S) == CHOOSE i \in S : \A j \in S : i <= j

Active(r) == r.state = "ACTIVE"

\* Slip: the table takes one record too many.
RegisterAllocOneTooMany(t) ==
  /\ In(t, "alloc")
  /\ allocs' = IF Len(allocs) > MaxAllocs THEN allocs
       ELSE Append(allocs, [addr |-> call[t].arg.addr, size |-> call[t].arg.size,
                            state |-> "ACTIVE", ignored |-> FALSE])
  /\ Return(t)
  /\ UNCHANGED <<roots, scan, disabled, mem, live, declared, strayed, seen>>

\* Slip: the flag is read again under the lock.
RegisterAllocUnlessDisabled(t) ==
  /\ In(t, "alloc")
  /\ allocs' = IF disabled \/ Len(allocs) >= MaxAllocs THEN allocs
       ELSE Append(allocs, [addr |-> call[t].arg.addr, size |-> call[t].arg.size,
                            state |-> "ACTIVE", ignored |-> FALSE])
  /\ Return(t)
  /\ UNCHANGED <<roots, scan, disabled, mem, live, declared, strayed, seen>>

\* A full table drops the allocation.
RegisterAlloc(t) ==
  /\ In(t, "alloc")
  /\ allocs' = IF Len(allocs) >= MaxAllocs THEN allocs
       ELSE Append(allocs, [addr |-> call[t].arg.addr, size |-> call[t].arg.size,
                            state |-> "ACTIVE", ignored |-> FALSE])
  /\ Return(t)
  /\ UNCHANGED <<roots, scan, disabled, mem, live, declared, strayed, seen>>

\* Slip: the walk stops at the first record with the address, freed or not.
UnregisterFirst(t) ==
  LET S == {i \in DOMAIN allocs : allocs[i].addr = call[t].arg.addr} IN
  /\ In(t, "free")
  /\ allocs' = IF S = {} THEN allocs ELSE [allocs EXCEPT ![Least(S)].state = "FREED"]
  /\ live' = live \ {call[t].arg}
  /\ Return(t)
  /\ UNCHANGED <<roots, scan, disabled, mem, declared, strayed, seen>>

\* Slip: the early return of a found record keeps the lock.
UnregisterAllocLocked(t) ==
  LET S == {i \in DOMAIN allocs : allocs[i].addr = call[t].arg.addr /\ Active(allocs[i])} IN
  /\ In(t, "free")
  /\ allocs' = IF S = {} THEN allocs ELSE [allocs EXCEPT ![Least(S)].state = "FREED"]
  /\ live' = live \ {call[t].arg}
  /\ pc' = [pc EXCEPT ![t] = "run"]
  /\ call' = [call EXCEPT ![t] = NoCall]
  /\ lock' = IF S = {} THEN NoThread ELSE lock
  /\ UNCHANGED <<roots, scan, disabled, mem, declared, strayed, seen>>

\* Back in the program, the block is given back.
UnregisterAlloc(t) ==
  LET S == {i \in DOMAIN allocs : allocs[i].addr = call[t].arg.addr /\ Active(allocs[i])} IN
  /\ In(t, "free")
  /\ allocs' = IF S = {} THEN allocs ELSE [allocs EXCEPT ![Least(S)].state = "FREED"]
  /\ live' = live \ {call[t].arg}
  /\ Return(t)
  /\ UNCHANGED <<roots, scan, disabled, mem, declared, strayed, seen>>

RegisterRoot(t) ==
  /\ In(t, "root")
  /\ roots' = IF Len(roots) >= MaxRoots THEN roots ELSE Append(roots, call[t].arg)
  /\ declared' = declared \cup {call[t].arg}
  /\ Return(t)
  /\ UNCHANGED <<allocs, scan, disabled, mem, live, strayed, seen>>

\* Slip: the last root is dropped and not moved into the gap.
UnregisterRootShort(t) ==
  LET S == {i \in DOMAIN roots : roots[i].addr = call[t].arg.addr} IN
  /\ In(t, "unroot")
  /\ roots' = IF S = {} THEN roots ELSE SubSeq(roots, 1, Len(roots) - 1)
  /\ Return(t)
  /\ UNCHANGED <<allocs, scan, disabled, mem, live, declared, strayed, seen>>

\* The last root takes the place of the first with the address; the size is
\* not compared.
UnregisterRoot(t) ==
  LET S == {i \in DOMAIN roots : roots[i].addr = call[t].arg.addr} IN
  /\ In(t, "unroot")
  /\ roots' = IF S = {} THEN roots
       ELSE SubSeq([roots EXCEPT ![Least(S)] = roots[Len(roots)]], 1, Len(roots) - 1)
  /\ Return(t)
  /\ UNCHANGED <<allocs, scan, disabled, mem, live, declared, strayed, seen>>

\* The first record with the address is marked, be it freed or not.
IgnoreObject(t) ==
  LET S == {i \in DOMAIN allocs : allocs[i].addr = call[t].arg.addr} IN
  /\ In(t, "ignore")
  /\ allocs' = IF S = {} THEN allocs ELSE [allocs EXCEPT ![Least(S)].ignored = TRUE]
  /\ Return(t)
  /\ UNCHANGED <<roots, scan, disabled, mem, live, declared, strayed, seen>>

---------------------------------------------------------------------------------
(* lsan_do_check_internal.  For every record that is active and not        *)
(* ignored, lsan_mark_reachable looks for its address in the words of the  *)
(* roots and then of the active records, its own included.                 *)

Quiet == UNCHANGED <<allocs, roots, disabled, mem, live, declared, strayed>>

BeginCheck(t) ==
  /\ In(t, "check") \/ In(t, "recoverable_check")
  /\ pc' = [pc EXCEPT ![t] = "scan"]
  /\ scan' = NoScan
  /\ seen' = [w \in Words |-> {mem[w]}]
  /\ Quiet /\ UNCHANGED <<lock, call>>

Object == allocs[scan.obj]

Scanning(t) == pc[t] = "scan" /\ scan.obj <= Len(allocs) /\ Quiet /\ UNCHANGED <<lock, pc, call, seen>>

NextObject == [scan EXCEPT !.obj = @ + 1, !.part = 1, !.word = 0]

InsideRoot(o) == \E i \in DOMAIN roots : o.addr \in WordsOf(roots[i])

\* Slip: freed records are looked at too.
NeedsNoScanUnlessFreed(o) == o.ignored \/ InsideRoot(o)

\* Whether it is inside a root does not depend on the memory: the model asks
\* that question before it reads any.
NeedsNoScan(o) == ~Active(o) \/ o.ignored \/ InsideRoot(o)

\* Slip: a freed block is scanned too.
ReadSizeEvenFreed(r) == r.size

\* Slip: an object that is ignored keeps nothing else alive.
ReadSizeNotIgnored(r) == IF Active(r) /\ ~r.ignored THEN r.size ELSE 0

\* How many words of a record's block are read: one that is not active is
\* passed over.
ReadSize(r) == IF Active(r) THEN r.size ELSE 0

\* What is scanned, in this order: the roots and the records.
Parts ==
  [i \in 1 .. Len(roots) + Len(allocs) |->
    IF i <= Len(roots) THEN roots[i]
    ELSE LET r == allocs[i - Len(roots)] IN [addr |-> r.addr, size |-> ReadSize(r)]]

SkipObject(t) ==
  /\ Scanning(t) /\ NeedsNoScan(Object)
  /\ scan' = NextObject

ReadWord(t) ==
  /\ Scanning(t) /\ ~NeedsNoScan(Object)
  /\ scan.part <= Len(Parts) /\ scan.word < Parts[scan.part].size
  /\ scan' = IF mem[Parts[scan.part].addr + scan.word] = Object.addr
             THEN NextObject ELSE [scan EXCEPT !.word = @ + 1]

NextPart(t) ==
  /\ Scanning(t) /\ ~NeedsNoScan(Object)
  /\ scan.part <= Len(Parts) /\ scan.word >= Parts[scan.part].size
  /\ scan' = [scan EXCEPT !.part = @ + 1, !.word = 0]

\* No word points to it: a leak is reported.
ReportLeak(t) ==
  /\ Scanning(t) /\ ~NeedsNoScan(Object)
  /\ scan.part > Len(Parts) /\ Object.addr \in Printable
  /\ scan' = [NextObject EXCEPT !.found = @ \cup {scan.obj}]

\* Its address, or one of its stack, is shorter than its field: the report never
\* ends, and the lock is never released.
HangInReport(t) ==
  /\ pc[t] = "scan" /\ scan.obj <= Len(allocs) /\ ~NeedsNoScan(Object)
  /\ scan.part > Len(Parts) /\ (Object.addr \notin Printable \/ ShortStacks)
  /\ pc' = [pc EXCEPT ![t] = "stuck"]
  /\ Quiet /\ UNCHANGED <<lock, call, scan, seen>>

\* The value returned is leaks_found; __lsan_do_leak_check dies if it is not 0.
EndCheck(t) ==
  /\ pc[t] = "scan" /\ scan.obj > Len(allocs)
  /\ \/ (call[t].op = "recoverable_check" \/ scan.found = {}) /\ Return(t)
     \/ /\ call[t].op = "check" /\ scan.found # {}
        /\ lock' = NoThread /\ pc' = [pc EXCEPT ![t] = "halted"] /\ UNCHANGED call
  /\ scan' = NoScan /\ seen' = NothingSeen
  /\ Quiet

Step(t) ==
  \/ Acquire(t) \/ RegisterAlloc(t) \/ UnregisterAlloc(t) \/ RegisterRoot(t)
  \/ UnregisterRoot(t) \/ IgnoreObject(t) \/ BeginCheck(t) \/ SkipObject(t)
  \/ ReadWord(t) \/ NextPart(t) \/ ReportLeak(t) \/ HangInReport(t) \/ EndCheck(t)

Next == \E t \in Threads : Program(t) \/ Step(t)

Spec == Init /\ [][Next]_vars

\* A thread in the runtime runs on; which thread gets the spin lock is open.
FairSpec == Spec /\ \A t \in Threads : WF_vars(Step(t))

---------------------------------------------------------------------------------
(* Properties. *)

Record == [addr : BlockAddrs, size : Nat, state : {"ACTIVE", "FREED"}, ignored : BOOLEAN]

\* The tables hold what the program passed in, within their capacity, and the
\* lock is held exactly by the thread that changes them or checks.
TypeOK ==
  /\ allocs \in Seq(Record) /\ Len(allocs) <= MaxAllocs
  /\ roots \in Seq(Regions) /\ Len(roots) <= MaxRoots
  /\ disabled \in BOOLEAN
  /\ lock \in Threads \cup {NoThread}
  /\ pc \in [Threads -> {"run", "spin", "critical", "scan", "stuck", "halted"}]
  /\ \A t \in Threads : pc[t] \in {"critical", "scan", "stuck"} <=> lock = t
  /\ call \in [Threads -> [op : Ops \cup {"none"}, arg : Blocks \cup Regions \cup {NoArg}]]
  /\ scan \in [obj : Nat, part : Nat, word : Nat, found : SUBSET (DOMAIN allocs)]
  /\ mem \in [Words -> BlockAddrs \cup {Null}]
  /\ live \subseteq Blocks /\ declared \subseteq Regions
  /\ strayed \subseteq BlockAddrs /\ seen \in [Words -> SUBSET (BlockAddrs \cup {Null})]

Tracked(b) == \E i \in DOMAIN allocs : Active(allocs[i]) /\ allocs[i].addr = b.addr

\* The records follow the heap although records are never reused and other hooks
\* may be disabled in between: of the addresses whose block was never got or given
\* back with the tracker off, every active record is a block of the program, no
\* block has two, and one is missing only if the table has been full.
RecordsFollowHeap ==
  /\ \A i \in DOMAIN allocs : Active(allocs[i]) /\ allocs[i].addr \notin strayed =>
       \E b \in live : b.addr = allocs[i].addr /\ b.size = allocs[i].size
  /\ \A i, j \in DOMAIN allocs :
       /\ Active(allocs[i]) /\ Active(allocs[j])
       /\ allocs[i].addr = allocs[j].addr /\ allocs[i].addr \notin strayed
       => i = j
  /\ Len(allocs) < MaxAllocs =>
       \A b \in live : b.addr \in strayed \/ InHook("alloc", b) \/ Tracked(b)

\* A leak check reads only memory the program owns: blocks it has not given
\* back and regions.  An active record keeps its block from being freed,
\* because the hook of free waits for the lock; only of a block got or given back
\* with the tracker off may memory be read that is the program's no more.
ReadsOwnedMemory ==
  [][\A t \in Threads : ReadWord(t) =>
       \E r \in live \cup Regions \cup {b \in Blocks : b.addr \in strayed} :
         Parts[scan.part].addr + scan.word \in WordsOf(r)]_vars

\* After any series of registrations and removals every root region the
\* program counts on is scanned, and no other, unless the table overflowed.
RootsExact ==
  MaxRoots >= Cardinality(Regions) =>
    /\ \A r \in declared : \E i \in DOMAIN roots : roots[i] = r
    /\ \A i \in DOMAIN roots : roots[i] \in declared \/ InHook("unroot", roots[i])
    /\ \A i, j \in DOMAIN roots : roots[i] = roots[j] => i = j

\* Where `held' is what the words hold, a set of blocks that has what the roots
\* hold and what its blocks point to.
Closed(S, held) ==
  \A b \in InHand :
    \/ b \in S
    \/ /\ \A i \in DOMAIN roots : b.addr \notin WordsOf(roots[i])
                                 /\ \A w \in WordsOf(roots[i]) : b.addr \notin held[w]
       /\ \A c \in S : \A w \in WordsOf(c) : b.addr \notin held[w]

\* Mark and sweep: the blocks that can be reached from the roots.
Reachable(held) == {b \in InHand : \A S \in SUBSET InHand : Closed(S, held) => b \in S}

\* What has stayed in the words since the leak check began.
Steady == [w \in Words |-> {p \in seen[w] : seen[w] = {p}}]

\* If every block in hand is tracked, what is reported as a leak cannot be
\* reached from the roots by pointers that have stayed where they were since the
\* check began, whatever other threads have written meanwhile.
NoReachableLeak ==
  [][\A t \in Threads : ReportLeak(t) /\ (\A b \in InHand : Tracked(b)) =>
       \A b \in Reachable(Steady) : b.addr # Object.addr]_vars

\* ... and a check reports every block that cannot be reached by any pointer there
\* has been.
EveryLeakReported ==
  [][\A t \in Threads : EndCheck(t) =>
       \A i \in DOMAIN allocs :
         (/\ Active(allocs[i]) /\ ~allocs[i].ignored
          /\ \E b \in InHand \ Reachable(seen) : b.addr = allocs[i].addr) => i \in scan.found]_vars

\* The records a check asks about, and the words it may find a pointer in.
Candidates ==
  {i \in DOMAIN allocs : Active(allocs[i]) /\ ~allocs[i].ignored /\ ~InsideRoot(allocs[i])}

Scanned ==
  (UNION {WordsOf(roots[j]) : j \in DOMAIN roots})
    \cup (UNION {WordsOf(allocs[j]) : j \in {k \in DOMAIN allocs : Active(allocs[k])}})

\* What a check really reports: the tracked blocks that no root and no tracked
\* block points to.  It reads word by word while other threads write: what it
\* reports may have been pointed to, but by no word all the time, and what it
\* leaves out some word has pointed to since the check began.  If nobody writes,
\* it says what one look at the memory would have said.
CheckIsASnapshot ==
  [][\A t \in Threads : EndCheck(t) =>
       /\ \A i \in scan.found :
            i \in Candidates /\ \A w \in Scanned : seen[w] # {allocs[i].addr}
       /\ \A i \in Candidates \ scan.found : \E w \in Scanned : allocs[i].addr \in seen[w]]_vars

\* The lock is released again, whatever path a hook takes and whatever other
\* threads write under a leak check, unless a report hangs.
LockReleased ==
  lock # NoThread ~> (lock = NoThread \/ \E t \in Threads : pc[t] = "stuck")
=============================================================================
