------------------------------- MODULE Lsan_proofs -------------------------------
(***************************************************************************)
(* Proofs about the leak sanitizer, for any number of threads, blocks and  *)
(* regions and tables of any size: the tables, the memory a leak check     *)
(* reads, and what it reports.                                             *)
(***************************************************************************)
EXTENDS Lsan, SequenceTheorems, FiniteSetTheorems, WellFoundedInduction, TLAPS

Where == {"run", "spin", "critical", "scan", "stuck", "halted"}
Locked == {"critical", "scan", "stuck"}
BlockOps == {"alloc", "free", "ignore"}
RootOps == {"root", "unroot"}
CheckOps == {"check", "recoverable_check"}
Args == Blocks \cup Regions \cup {NoArg}
Call == [op : Ops \cup {"none"}, arg : Args]

Typing ==
  /\ allocs \in Seq(Record) /\ Len(allocs) <= MaxAllocs
  /\ roots \in Seq(Regions) /\ Len(roots) <= MaxRoots
  /\ disabled \in BOOLEAN
  /\ lock \in Threads \cup {NoThread}
  /\ pc \in [Threads -> Where]
  /\ call \in [Threads -> Call]
  /\ scan \in [obj : Nat \ {0}, part : Nat \ {0}, word : Nat, found : SUBSET (DOMAIN allocs)]
  /\ mem \in [Words -> BlockAddrs \cup {Null}]
  /\ live \subseteq Blocks /\ declared \subseteq Regions
  /\ strayed \subseteq BlockAddrs /\ seen \in [Words -> SUBSET (BlockAddrs \cup {Null})]

\* A thread is in one of these hooks.
Within(t, ops) == pc[t] # "run" /\ call[t].op \in ops

\* The lock is held in the tables and in a check, and hooks have arguments of
\* their kind.
Control ==
  \A t \in Threads :
    /\ lock = t <=> pc[t] \in Locked
    /\ Within(t, BlockOps) => call[t].arg \in Blocks
    /\ Within(t, RootOps) => call[t].arg \in Regions
    /\ pc[t] \in {"scan", "stuck", "halted"} => call[t].op \in CheckOps

\* The hooks of the program are in order: a block is in one hook at a time,
\* but that several threads may mark it, and is the program's while in it.
BlocksInOrder ==
  /\ \A t \in Threads : Within(t, BlockOps) => call[t].arg \in live
  /\ \A t, u \in Threads :
       t # u /\ Within(t, {"alloc", "free"}) /\ Within(u, BlockOps) => call[t].arg # call[u].arg
  /\ \A t \in Threads : Within(t, {"alloc"}) => call[t].arg.addr \in strayed \/ ~Tracked(call[t].arg)

\* Records are made for blocks.
RecordsAreBlocks ==
  \A i \in DOMAIN allocs : \E b \in Blocks : b.addr = allocs[i].addr /\ b.size = allocs[i].size

\* A region is in one hook at a time, and is not counted on while in it.
RootsInOrder ==
  /\ \A t \in Threads : Within(t, RootOps) => call[t].arg \notin declared
  /\ \A t, u \in Threads : t # u /\ Within(t, RootOps) /\ Within(u, RootOps) => call[t].arg # call[u].arg
  /\ \A t \in Threads : Within(t, {"root"}) => \A i \in DOMAIN roots : roots[i] # call[t].arg

\* The roots are the regions the program counts on, but for those it is
\* removing and those that found the table full.
RootsAreDeclared ==
  /\ \A i \in DOMAIN roots : roots[i] \in declared \/ InHook("unroot", roots[i])
  /\ \A i, j \in DOMAIN roots : roots[i] = roots[j] => i = j
  /\ MaxRoots >= Cardinality(Regions) => \A r \in declared : \E i \in DOMAIN roots : roots[i] = r

\* The word of part p at offset w.
WordAt(p, w) == Parts[p].addr + w

\* The word w of part p is behind a check that stands at s.
Passed(s, p, w) == p < s.part \/ (p = s.part /\ w < s.word)

\* Since the leak check began, w has held a, and w has held something else.
Sometimes(w, a) == w \in Words /\ a \in seen[w]
NotAlways(w, a) == w \in Words /\ \E x \in seen[w] : x # a

\* A leak check that stands at s has found, of the records before, none that some
\* word has pointed to all the time and every one that none has pointed to, and no
\* word yet that has pointed to its object all the time.
FoundBy(s) ==
  /\ s.found \subseteq {i \in Candidates : i < s.obj}
  /\ \A i \in s.found : \A x \in Scanned : NotAlways(x, allocs[i].addr)
  /\ \A i \in Candidates : i < s.obj =>
       i \in s.found \/ \E x \in Scanned : Sometimes(x, allocs[i].addr)
  /\ s.obj <= Len(allocs) + 1
  /\ (s.obj <= Len(allocs) /\ ~NeedsNoScan(allocs[s.obj])) =>
       \A p \in 1 .. Len(Parts) : \A w \in 0 .. Parts[p].size - 1 :
         Passed(s, p, w) => NotAlways(WordAt(p, w), allocs[s.obj].addr)

\* What a word holds it has been seen to hold.
Watched == \A w \in Words : mem[w] \in seen[w]

FoundSoFar == \A t \in Threads : pc[t] = "scan" => FoundBy(scan) /\ Watched

---------------------------------------------------------------------------------
(* Lemmas about the model's operators. *)

\* A walk that stops at the first index it looks for stops at the least.
LEMMA LeastIs ==
  ASSUME NEW S, S \subseteq Nat, S # {}
  PROVE  Least(S) \in S /\ \A j \in S : Least(S) <= j
<1>1. PICK i \in S : \A j \in Nat : <<j, i>> \in OpToRel(<, Nat) => j \notin S
  BY NatLessThanWellFounded, WFMin, Zenon
<1>2. \A j \in S : ~(j < i)
  BY <1>1 DEF OpToRel
<1>3. \A j \in S : i <= j  BY <1>2
<1> QED  BY <1>3 DEF Least

LEMMA DomainIs ==
  ASSUME NEW X, NEW s \in Seq(X)
  PROVE  DOMAIN s = 1 .. Len(s) /\ Len(s) \in Nat /\ \A i \in DOMAIN s : s[i] \in X
OBVIOUS

\* A record that is marked keeps its address and its size.
LEMMA MarkedFreed ==
  ASSUME NEW r \in Record
  PROVE  LET n == [r EXCEPT !.state = "FREED"] IN
         /\ n \in Record /\ n.addr = r.addr /\ n.size = r.size
         /\ n.ignored = r.ignored /\ n.state = "FREED"
BY DEF Record

LEMMA MarkedIgnored ==
  ASSUME NEW r \in Record
  PROVE  LET n == [r EXCEPT !.ignored = TRUE] IN
         n \in Record /\ n.addr = r.addr /\ n.size = r.size /\ n.state = r.state
BY DEF Record

LEMMA FreedIn ==
  ASSUME NEW s \in Seq(Record), NEW k \in DOMAIN s
  PROVE  LET q == [s EXCEPT ![k].state = "FREED"] IN
         /\ q \in Seq(Record) /\ Len(q) = Len(s) /\ DOMAIN q = DOMAIN s
         /\ \A i \in DOMAIN s : i # k => q[i] = s[i]
         /\ q[k].addr = s[k].addr /\ q[k].size = s[k].size /\ q[k].ignored = s[k].ignored
         /\ q[k].state = "FREED"
<1> DEFINE n == [s[k] EXCEPT !.state = "FREED"]
           q == [s EXCEPT ![k] = n]
<1>1. s[k] \in Record  BY DomainIs
<1>2. /\ n \in Record /\ n.addr = s[k].addr /\ n.size = s[k].size
      /\ n.ignored = s[k].ignored /\ n.state = "FREED"
  BY <1>1, MarkedFreed
<1> HIDE DEF n
<1>3. /\ q \in Seq(Record) /\ Len(q) = Len(s) /\ DOMAIN q = DOMAIN s
      /\ \A i \in DOMAIN s : i # k => q[i] = s[i]
      /\ q[k] = n
  BY <1>2
<1> HIDE DEF q
<1>4. /\ q \in Seq(Record) /\ Len(q) = Len(s) /\ DOMAIN q = DOMAIN s
      /\ \A i \in DOMAIN s : i # k => q[i] = s[i]
      /\ q[k].addr = s[k].addr /\ q[k].size = s[k].size /\ q[k].ignored = s[k].ignored
      /\ q[k].state = "FREED"
  BY <1>2, <1>3
<1> QED  BY <1>4, Zenon DEF q, n

LEMMA IgnoredIn ==
  ASSUME NEW s \in Seq(Record), NEW k \in DOMAIN s
  PROVE  LET q == [s EXCEPT ![k].ignored = TRUE] IN
         /\ q \in Seq(Record) /\ Len(q) = Len(s) /\ DOMAIN q = DOMAIN s
         /\ \A i \in DOMAIN s : i # k => q[i] = s[i]
         /\ q[k].addr = s[k].addr /\ q[k].size = s[k].size /\ q[k].state = s[k].state
<1> DEFINE n == [s[k] EXCEPT !.ignored = TRUE]
           q == [s EXCEPT ![k] = n]
<1>1. s[k] \in Record  BY DomainIs
<1>2. n \in Record /\ n.addr = s[k].addr /\ n.size = s[k].size /\ n.state = s[k].state
  BY <1>1, MarkedIgnored
<1> HIDE DEF n
<1>3. /\ q \in Seq(Record) /\ Len(q) = Len(s) /\ DOMAIN q = DOMAIN s
      /\ \A i \in DOMAIN s : i # k => q[i] = s[i]
      /\ q[k] = n
  BY <1>2
<1> HIDE DEF q
<1>4. /\ q \in Seq(Record) /\ Len(q) = Len(s) /\ DOMAIN q = DOMAIN s
      /\ \A i \in DOMAIN s : i # k => q[i] = s[i]
      /\ q[k].addr = s[k].addr /\ q[k].size = s[k].size /\ q[k].state = s[k].state
  BY <1>2, <1>3
<1> QED  BY <1>4, Zenon DEF q, n

\* The last element takes the place of the one at k.
LEMMA TakenOut ==
  ASSUME NEW X, NEW s \in Seq(X), NEW k \in DOMAIN s
  PROVE  LET q == SubSeq([s EXCEPT ![k] = s[Len(s)]], 1, Len(s) - 1) IN
         /\ q \in Seq(X) /\ Len(q) = Len(s) - 1 /\ DOMAIN q = 1 .. Len(s) - 1
         /\ \A i \in DOMAIN q : q[i] = IF i = k THEN s[Len(s)] ELSE s[i]
<1> DEFINE f == [s EXCEPT ![k] = s[Len(s)]]
           q == SubSeq(f, 1, Len(s) - 1)
<1>1. /\ f \in Seq(X) /\ Len(f) = Len(s) /\ Len(s) \in Nat \ {0}
      /\ \A i \in 1 .. Len(s) : f[i] = IF i = k THEN s[Len(s)] ELSE s[i]
  OBVIOUS
<1> HIDE DEF f
<1>3. \A i \in 1 .. Len(s) - 1 : f[i] \in X  BY <1>1
<1>4. /\ q \in Seq(X)
      /\ Len(q) = Len(s) - 1
      /\ \A i \in 1 .. Len(s) - 1 : q[i] = f[i]
  BY <1>1, <1>3
<1> HIDE DEF q
<1>5. DOMAIN q = 1 .. Len(s) - 1  BY <1>4
<1>6. \A i \in DOMAIN q : q[i] = IF i = k THEN s[Len(s)] ELSE s[i]  BY <1>1, <1>4, <1>5
<1> QED  BY <1>4, <1>5, <1>6, Zenon DEF q, f

---------------------------------------------------------------------------------
(* How a step moves a thread: into a hook, on in it, or out of it.         *)

Others(t) == \A u \in Threads : u # t => pc'[u] = pc[u] /\ call'[u] = call[u]

PlacesTyped == pc' \in [Threads -> Where] /\ call' \in [Threads -> Call]

Entered(t, op, r) ==
  /\ PlacesTyped
  /\ pc[t] = "run" /\ pc'[t] = "spin" /\ Others(t)
  /\ call'[t].op = op /\ call'[t].arg = r

Left(t) == PlacesTyped /\ pc[t] # "run" /\ pc'[t] = "run" /\ Others(t)

Stayed == PlacesTyped /\ call' = call /\ \A u \in Threads : pc'[u] = "run" <=> pc[u] = "run"

LEMMA Entering ==
  ASSUME Typing, Control, NEW t \in Threads, NEW op \in Ops, NEW r \in Args,
         pc[t] = "run", Enter(t, op, r),
         op \in BlockOps => r \in Blocks, op \in RootOps => r \in Regions
  PROVE  Entered(t, op, r) /\ Control'
<1> DEFINE c == [op |-> op, arg |-> r]
<1>1. c \in Call /\ c.op = op /\ c.arg = r  BY DEF Call
<1>2. call' = [call EXCEPT ![t] = c] /\ pc' = [pc EXCEPT ![t] = "spin"] /\ lock' = lock
  BY DEF Enter
<1> HIDE DEF c
<1>3. pc \in [Threads -> Where] /\ call \in [Threads -> Call]  BY DEF Typing
<1>4. PlacesTyped /\ pc'[t] = "spin" /\ call'[t] = c /\ Others(t)
  BY <1>1, <1>2, <1>3 DEF PlacesTyped, Where, Others
<1>5. Entered(t, op, r)  BY <1>1, <1>4 DEF Entered
<1>6. ASSUME NEW u \in Threads
      PROVE  /\ lock' = u <=> pc'[u] \in Locked
             /\ Within(u, BlockOps)' => call'[u].arg \in Blocks
             /\ Within(u, RootOps)' => call'[u].arg \in Regions
             /\ pc'[u] \in {"scan", "stuck", "halted"} => call'[u].op \in CheckOps
  <2>1. CASE u = t
    BY <1>1, <1>2, <1>4, <2>1 DEF Control, Within, Locked
  <2>2. CASE u # t
    BY <1>2, <1>4, <2>2 DEF Control, Within, Others
  <2> QED  BY <2>1, <2>2
<1> QED  BY <1>5, <1>6 DEF Control

LEMMA Returning ==
  ASSUME Typing, Control, LsanConstants, NEW t \in Threads, pc[t] \in Locked, Return(t)
  PROVE  Left(t) /\ Control'
<1>1. NoCall \in Call  BY DEF Call, NoCall, Args
<1>2. call' = [call EXCEPT ![t] = NoCall] /\ pc' = [pc EXCEPT ![t] = "run"] /\ lock' = NoThread
  BY DEF Return
<1>3. pc \in [Threads -> Where] /\ call \in [Threads -> Call]  BY DEF Typing
<1>4. PlacesTyped /\ pc'[t] = "run" /\ Others(t)
  BY <1>1, <1>2, <1>3 DEF PlacesTyped, Where, Others
<1>5. Left(t)  BY <1>4 DEF Left, Locked
<1>6. ASSUME NEW u \in Threads
      PROVE  /\ lock' = u <=> pc'[u] \in Locked
             /\ Within(u, BlockOps)' => call'[u].arg \in Blocks
             /\ Within(u, RootOps)' => call'[u].arg \in Regions
             /\ pc'[u] \in {"scan", "stuck", "halted"} => call'[u].op \in CheckOps
  <2>1. CASE u = t
    BY <1>2, <1>4, <2>1 DEF LsanConstants, Within, Locked
  <2>2. CASE u # t
    BY <1>2, <1>4, <2>2 DEF LsanConstants, Control, Within, Others
  <2> QED  BY <2>1, <2>2
<1> QED  BY <1>5, <1>6 DEF Control

LEMMA Moving ==
  ASSUME Typing, Control, LsanConstants, NEW t \in Threads, NEW w \in Where \ {"run"},
         pc[t] # "run", pc' = [pc EXCEPT ![t] = w], call' = call,
         lock' = IF w \in Locked THEN t ELSE NoThread,
         lock = NoThread \/ pc[t] \in Locked,
         w \in {"scan", "stuck", "halted"} => call[t].op \in CheckOps
  PROVE  Stayed /\ Control'
<1>1. pc \in [Threads -> Where] /\ call \in [Threads -> Call]  BY DEF Typing
<1>2. pc'[t] = w /\ Others(t) /\ PlacesTyped
  BY <1>1 DEF PlacesTyped, Others
<1>3. Stayed  BY <1>2 DEF Stayed, Others
<1>4. ASSUME NEW u \in Threads
      PROVE  /\ lock' = u <=> pc'[u] \in Locked
             /\ Within(u, BlockOps)' => call'[u].arg \in Blocks
             /\ Within(u, RootOps)' => call'[u].arg \in Regions
             /\ pc'[u] \in {"scan", "stuck", "halted"} => call'[u].op \in CheckOps
  <2>1. CASE u = t
    BY <1>2, <2>1 DEF LsanConstants, Control, Within
  <2>2. CASE u # t
    BY <1>2, <2>2 DEF LsanConstants, Control, Within, Others
  <2> QED  BY <2>1, <2>2
<1> QED  BY <1>3, <1>4 DEF Control

LEMMA Staying ==
  ASSUME Typing, Control, UNCHANGED <<pc, call, lock>>
  PROVE  Stayed /\ Control'
<1>1. Stayed  BY DEF Typing, Stayed, PlacesTyped
<1> QED  BY <1>1 DEF Control, Within

---------------------------------------------------------------------------------
(* The types and the control of threads are kept by every step.            *)

IInv == Typing /\ Control

LEMMA InitIInv ==
  ASSUME LsanConstants, Init
  PROVE  IInv
<1>a. allocs \in Seq(Record) /\ Len(allocs) <= MaxAllocs /\ roots \in Seq(Regions) /\ Len(roots) <= MaxRoots
  BY DEF Init, LsanConstants
<1>b. disabled \in BOOLEAN /\ lock \in Threads \cup {NoThread} /\ live \subseteq Blocks /\ declared \subseteq Regions
  BY DEF Init
<1>c. NoCall \in Call  BY DEF NoCall, Call, Args
<1>d. pc \in [Threads -> Where] /\ call \in [Threads -> Call]
  BY <1>c DEF Init, Where
<1>e. scan \in [obj : Nat \ {0}, part : Nat \ {0}, word : Nat, found : SUBSET (DOMAIN allocs)]
  BY DEF Init, NoScan
<1>f. mem \in [Words -> BlockAddrs \cup {Null}]
  BY DEF Init
<1>g. strayed \subseteq BlockAddrs /\ seen \in [Words -> SUBSET (BlockAddrs \cup {Null})]
  BY DEF Init, NothingSeen
<1>1. Typing
  BY <1>a, <1>b, <1>d, <1>e, <1>f, <1>g DEF Typing
<1>2. Control
  BY DEF Init, Control, LsanConstants, Within, Locked
<1> QED  BY <1>1, <1>2 DEF IInv

\* A step of the program outside the runtime.
LEMMA EnterKeeps ==
  ASSUME IInv, NEW t \in Threads, NEW op \in Ops, NEW r \in Args,
         pc[t] = "run", Enter(t, op, r), UNCHANGED <<disabled, mem, strayed, seen>>,
         live' \subseteq Blocks, declared' \subseteq Regions,
         op \in BlockOps => r \in Blocks, op \in RootOps => r \in Regions
  PROVE  IInv' /\ Entered(t, op, r)
<1>1. Entered(t, op, r) /\ Control'  BY Entering DEF IInv
<1>2. UNCHANGED <<allocs, roots, lock, scan>>  BY DEF Enter
<1>3. Typing'
  BY <1>1, <1>2 DEF IInv, Typing, Entered, PlacesTyped
<1> QED  BY <1>1, <1>3 DEF IInv

LEMMA MallocKeeps ==
  ASSUME IInv, NEW t \in Threads, NEW b \in Blocks, Malloc(t, b)
  PROVE  IInv' /\ ((disabled /\ Stayed) \/ (~disabled /\ Entered(t, "alloc", b)))
<1>1. CASE disabled /\ strayed' = strayed \cup {b.addr} /\ UNCHANGED runtime
  <2>1. UNCHANGED <<pc, call, lock>>  BY <1>1 DEF runtime
  <2>2. Stayed /\ Control'  BY <2>1, Staying DEF IInv
  <2>3. b.addr \in BlockAddrs  BY DEF BlockAddrs
  <2>4. Typing'  BY <1>1, <2>3 DEF IInv, Typing, runtime, Malloc
  <2> QED  BY <1>1, <2>2, <2>4 DEF IInv
<1>2. CASE ~disabled /\ Enter(t, "alloc", b) /\ UNCHANGED strayed
  <2>1. /\ "alloc" \in Ops /\ b \in Args /\ pc[t] = "run"
        /\ live' \subseteq Blocks /\ declared' \subseteq Regions
        /\ UNCHANGED <<disabled, mem, strayed, seen>>
        /\ ("alloc" \in RootOps => b \in Regions)
    BY <1>2 DEF Ops, Args, Malloc, IInv, Typing, RootOps
  <2> QED  BY <1>2, <2>1, EnterKeeps
<1> QED  BY <1>1, <1>2 DEF Malloc

LEMMA FreeKeeps ==
  ASSUME IInv, NEW t \in Threads, NEW b \in Blocks, Free(t, b)
  PROVE  IInv' /\ ((disabled /\ Stayed) \/ (~disabled /\ Entered(t, "free", b)))
<1>1. CASE disabled /\ live' = live \ {b} /\ strayed' = strayed \cup {b.addr} /\ UNCHANGED runtime
  <2>1. UNCHANGED <<pc, call, lock>>  BY <1>1 DEF runtime
  <2>2. Stayed /\ Control'  BY <2>1, Staying DEF IInv
  <2>3. b.addr \in BlockAddrs  BY DEF BlockAddrs
  <2>4. Typing'  BY <1>1, <2>3 DEF IInv, Typing, runtime, Free
  <2> QED  BY <1>1, <2>2, <2>4 DEF IInv
<1>2. CASE ~disabled /\ Enter(t, "free", b) /\ UNCHANGED <<live, strayed>>
  <2>1. /\ "free" \in Ops /\ b \in Args /\ pc[t] = "run"
        /\ live' \subseteq Blocks /\ declared' \subseteq Regions
        /\ UNCHANGED <<disabled, mem, strayed, seen>>
        /\ ("free" \in RootOps => b \in Regions)
    BY <1>2 DEF Ops, Args, Free, IInv, Typing, RootOps
  <2> QED  BY <1>2, <2>1, EnterKeeps
<1> QED  BY <1>1, <1>2 DEF Free

LEMMA RootKeeps ==
  ASSUME IInv, NEW t \in Threads, NEW r \in Regions, Root(t, r)
  PROVE  IInv' /\ Entered(t, "root", r)
<1>1. /\ "root" \in Ops /\ r \in Args /\ pc[t] = "run"
      /\ live' \subseteq Blocks /\ declared' \subseteq Regions
      /\ UNCHANGED <<disabled, mem, strayed, seen>> /\ Enter(t, "root", r)
      /\ ("root" \in BlockOps => r \in Blocks)
  BY DEF Ops, Args, Root, IInv, Typing, BlockOps
<1> QED  BY <1>1, EnterKeeps

LEMMA UnrootKeeps ==
  ASSUME IInv, NEW t \in Threads, NEW r \in Regions, Unroot(t, r)
  PROVE  IInv' /\ Entered(t, "unroot", r)
<1>1. /\ "unroot" \in Ops /\ r \in Args /\ pc[t] = "run"
      /\ live' \subseteq Blocks /\ declared' \subseteq Regions
      /\ UNCHANGED <<disabled, mem, strayed, seen>> /\ Enter(t, "unroot", r)
      /\ ("unroot" \in BlockOps => r \in Blocks)
  BY DEF Ops, Args, Unroot, IInv, Typing, BlockOps
<1> QED  BY <1>1, EnterKeeps

LEMMA IgnoreKeeps ==
  ASSUME IInv, NEW t \in Threads, NEW b \in Blocks, Ignore(t, b)
  PROVE  IInv' /\ Entered(t, "ignore", b)
<1>1. /\ "ignore" \in Ops /\ b \in Args /\ pc[t] = "run"
      /\ live' \subseteq Blocks /\ declared' \subseteq Regions
      /\ UNCHANGED <<disabled, mem, strayed, seen>> /\ Enter(t, "ignore", b)
      /\ ("ignore" \in RootOps => b \in Regions)
  BY DEF Ops, Args, Ignore, IInv, Typing, RootOps
<1> QED  BY <1>1, EnterKeeps

LEMMA CheckKeeps ==
  ASSUME IInv, NEW t \in Threads, NEW op \in CheckOps, Check(t, op)
  PROVE  IInv' /\ Entered(t, op, NoArg)
<1>1. /\ op \in Ops /\ NoArg \in Args /\ pc[t] = "run"
      /\ live' \subseteq Blocks /\ declared' \subseteq Regions
      /\ UNCHANGED <<disabled, mem, strayed, seen>> /\ Enter(t, op, NoArg)
      /\ op \notin BlockOps /\ op \notin RootOps
  BY DEF CheckOps, Ops, Args, Check, IInv, Typing, BlockOps, RootOps
<1> QED  BY <1>1, EnterKeeps

LEMMA SetDisabledKeeps ==
  ASSUME IInv, NEW t \in Threads, NEW v \in BOOLEAN, SetDisabled(t, v)
  PROVE  IInv' /\ Stayed
<1>1. UNCHANGED <<pc, call, lock>>  BY DEF runtime, SetDisabled
<1>2. Stayed /\ Control'  BY <1>1, Staying DEF IInv
<1>3. Typing'  BY DEF IInv, Typing, runtime, SetDisabled
<1> QED  BY <1>2, <1>3 DEF IInv

LEMMA StoreKeeps ==
  ASSUME IInv, NEW t \in Threads, NEW w \in Words, NEW p \in BlockAddrs \cup {Null}, Store(t, w, p)
  PROVE  IInv' /\ Stayed
<1>1. UNCHANGED <<pc, call, lock>>  BY DEF runtime, Store
<1>2. Stayed /\ Control'  BY <1>1, Staying DEF IInv
<1>3. seen' \in [Words -> SUBSET (BlockAddrs \cup {Null})]
  BY DEF IInv, Typing, Store
<1>4. Typing'  BY <1>3 DEF IInv, Typing, runtime, Store
<1> QED  BY <1>2, <1>4 DEF IInv

\* A thread in a critical section is inside a hook.
LEMMA InHoldsLock ==
  ASSUME IInv, NEW t \in Threads, NEW op, In(t, op)
  PROVE  pc[t] \in Locked /\ pc[t] # "run" /\ lock = t /\ call[t].op = op
BY DEF IInv, Control, In, Locked

LEMMA AcquireKeeps ==
  ASSUME IInv, LsanConstants, NEW t \in Threads, Acquire(t)
  PROVE  IInv' /\ Stayed
<1>1. /\ "critical" \in Where \ {"run"} /\ "critical" \in Locked
      /\ ~("critical" \in {"scan", "stuck", "halted"})
  BY DEF Where, Locked
<1>2. /\ pc[t] # "run" /\ pc' = [pc EXCEPT ![t] = "critical"] /\ call' = call
      /\ lock = NoThread /\ lock' = t
  BY DEF Acquire
<1>3. lock' = IF "critical" \in Locked THEN t ELSE NoThread  BY <1>1, <1>2
<1>4. Stayed /\ Control'  BY <1>1, <1>2, <1>3, Moving DEF IInv
<1>5. Typing'  BY <1>4, <1>2 DEF IInv, Typing, Acquire, Stayed, PlacesTyped
<1> QED  BY <1>4, <1>5 DEF IInv

\* What a hook returns from the lock with, apart from the tables.
LEMMA ReturnKeeps ==
  ASSUME IInv, LsanConstants, NEW t \in Threads, pc[t] \in Locked, Return(t),
         UNCHANGED <<disabled, mem, strayed>>, live' \subseteq Blocks, declared' \subseteq Regions,
         seen' \in {seen, NothingSeen},
         allocs' \in Seq(Record) /\ Len(allocs') <= MaxAllocs /\ DOMAIN allocs \subseteq DOMAIN allocs',
         roots' \in Seq(Regions) /\ Len(roots') <= MaxRoots,
         scan' \in {scan, NoScan}
  PROVE  IInv' /\ Left(t)
<1>1. Left(t) /\ Control'  BY Returning DEF IInv
<1>2. scan' \in [obj : Nat \ {0}, part : Nat \ {0}, word : Nat, found : SUBSET (DOMAIN allocs')]
  <2>1. CASE scan' = scan
    BY <2>1 DEF IInv, Typing
  <2>2. CASE scan' = NoScan
    BY <2>2 DEF NoScan
  <2> QED  BY <2>1, <2>2
<1>3. lock' = NoThread  BY DEF Return
<1>4. seen' \in [Words -> SUBSET (BlockAddrs \cup {Null})]
  BY DEF IInv, Typing, NothingSeen
<1>5. Typing'
  BY <1>1, <1>2, <1>3, <1>4 DEF IInv, Typing, Left, PlacesTyped
<1> QED  BY <1>1, <1>5 DEF IInv

LEMMA RegisterAllocKeeps ==
  ASSUME IInv, LsanConstants, NEW t \in Threads, RegisterAlloc(t)
  PROVE  /\ IInv' /\ Left(t) /\ call[t].arg \in Blocks
         /\ \/ Len(allocs) >= MaxAllocs /\ allocs' = allocs
            \/ /\ Len(allocs) < MaxAllocs /\ Len(allocs') = Len(allocs) + 1
               /\ DOMAIN allocs' = DOMAIN allocs \cup {Len(allocs) + 1}
               /\ \A i \in DOMAIN allocs : allocs'[i] = allocs[i]
               /\ allocs'[Len(allocs) + 1] = [addr |-> call[t].arg.addr, size |-> call[t].arg.size,
                                              state |-> "ACTIVE", ignored |-> FALSE]
<1> DEFINE e == [addr |-> call[t].arg.addr, size |-> call[t].arg.size,
                 state |-> "ACTIVE", ignored |-> FALSE]
<1>1. /\ In(t, "alloc") /\ Return(t)
      /\ allocs' = IF Len(allocs) >= MaxAllocs THEN allocs ELSE Append(allocs, e)
      /\ UNCHANGED <<roots, scan, disabled, mem, live, declared, strayed, seen>>
  BY Zenon DEF RegisterAlloc
<1>2. pc[t] \in Locked /\ pc[t] # "run" /\ call[t].op = "alloc"
  BY <1>1, InHoldsLock
<1>3. call[t].arg \in Blocks
  BY <1>2 DEF IInv, Control, Within, BlockOps
<1>4. e \in Record
  BY <1>3 DEF Record, LsanConstants, BlockAddrs
<1> HIDE DEF e
<1>5. /\ allocs \in Seq(Record) /\ Len(allocs) <= MaxAllocs /\ roots \in Seq(Regions) /\ Len(roots) <= MaxRoots
      /\ live \subseteq Blocks /\ declared \subseteq Regions /\ Len(allocs) \in Nat /\ MaxAllocs \in Nat
  BY DEF IInv, Typing, LsanConstants
<1>6. CASE Len(allocs) >= MaxAllocs
  <2>1. allocs' = allocs  BY <1>1, <1>6
  <2>2. IInv' /\ Left(t)  BY <2>1, <1>1, <1>2, <1>5, ReturnKeeps
  <2> QED  BY <2>1, <2>2, <1>3, <1>6
<1>7. CASE Len(allocs) < MaxAllocs
  <2>1. allocs' = Append(allocs, e)  BY <1>1, <1>7, <1>5
  <2>2. /\ allocs' \in Seq(Record) /\ Len(allocs') = Len(allocs) + 1
        /\ DOMAIN allocs' = DOMAIN allocs \cup {Len(allocs) + 1}
        /\ \A i \in DOMAIN allocs : allocs'[i] = allocs[i]
        /\ allocs'[Len(allocs) + 1] = e
    BY <2>1, <1>4, <1>5
  <2>3. Len(allocs') <= MaxAllocs  BY <2>2, <1>5, <1>7
  <2>4. IInv' /\ Left(t)  BY <2>2, <2>3, <1>1, <1>2, <1>5, ReturnKeeps
  <2> QED  BY <2>2, <2>4, <1>3, <1>7 DEF e
<1> QED  BY <1>5, <1>6, <1>7

LEMMA UnregisterAllocKeeps ==
  ASSUME IInv, LsanConstants, NEW t \in Threads, UnregisterAlloc(t)
  PROVE  /\ IInv' /\ Left(t) /\ call[t].arg \in Blocks /\ Len(allocs') = Len(allocs)
         /\ DOMAIN allocs' = DOMAIN allocs /\ live' = live \ {call[t].arg}
         /\ \/ /\ allocs' = allocs
               /\ ~\E i \in DOMAIN allocs : allocs[i].addr = call[t].arg.addr /\ Active(allocs[i])
            \/ \E k \in DOMAIN allocs :
                 /\ allocs[k].addr = call[t].arg.addr /\ Active(allocs[k]) /\ allocs'[k].state = "FREED"
                 /\ allocs'[k].addr = allocs[k].addr /\ allocs'[k].size = allocs[k].size
                 /\ \A i \in DOMAIN allocs : i # k => allocs'[i] = allocs[i]
<1> DEFINE S == {i \in DOMAIN allocs : allocs[i].addr = call[t].arg.addr /\ Active(allocs[i])}
<1>1. /\ In(t, "free") /\ Return(t)
      /\ live' = live \ {call[t].arg}
      /\ UNCHANGED <<roots, scan, disabled, mem, declared, strayed, seen>>
  BY Zenon DEF UnregisterAlloc
<1>4. allocs' = IF S = {} THEN allocs ELSE [allocs EXCEPT ![Least(S)].state = "FREED"]
  BY Zenon DEF UnregisterAlloc
<1>2. pc[t] \in Locked /\ pc[t] # "run" /\ call[t].op = "free"
  BY <1>1, InHoldsLock
<1>3. call[t].arg \in Blocks
  BY <1>2 DEF IInv, Control, Within, BlockOps
<1>5. /\ allocs \in Seq(Record) /\ Len(allocs) <= MaxAllocs /\ roots \in Seq(Regions) /\ Len(roots) <= MaxRoots
      /\ live' \subseteq Blocks /\ declared' \subseteq Regions
  BY <1>1 DEF IInv, Typing
<1>6. CASE S = {}
  <2>1. allocs' = allocs  BY <1>4, <1>6
  <2>2. IInv' /\ Left(t)  BY <2>1, <1>1, <1>2, <1>5, ReturnKeeps
  <2> QED  BY <2>1, <2>2, <1>1, <1>3, <1>6
<1>7. CASE S # {}
  <2> DEFINE k == Least(S)
  <2>1. S \subseteq Nat  BY <1>5, DomainIs
  <2>2. k \in S  BY <2>1, <1>7, LeastIs
  <2>3. k \in DOMAIN allocs /\ allocs[k].addr = call[t].arg.addr /\ Active(allocs[k])  BY <2>2
  <2>4. allocs' = [allocs EXCEPT ![k].state = "FREED"]  BY <1>4, <1>7, Zenon
  <2> HIDE DEF k
  <2>5. /\ allocs' \in Seq(Record) /\ Len(allocs') = Len(allocs) /\ DOMAIN allocs' = DOMAIN allocs
        /\ \A i \in DOMAIN allocs : i # k => allocs'[i] = allocs[i]
        /\ allocs'[k].addr = allocs[k].addr /\ allocs'[k].size = allocs[k].size
        /\ allocs'[k].state = "FREED"
    BY <2>3, <2>4, <1>5, FreedIn, Zenon
  <2>6. IInv' /\ Left(t)  BY <2>5, <1>1, <1>2, <1>5, ReturnKeeps
  <2> QED  BY <2>3, <2>5, <2>6, <1>1, <1>3
<1> QED  BY <1>6, <1>7

LEMMA IgnoreObjectKeeps ==
  ASSUME IInv, LsanConstants, NEW t \in Threads, IgnoreObject(t)
  PROVE  /\ IInv' /\ Left(t) /\ Len(allocs') = Len(allocs) /\ DOMAIN allocs' = DOMAIN allocs
         /\ \A i \in DOMAIN allocs : allocs'[i].addr = allocs[i].addr
              /\ allocs'[i].size = allocs[i].size /\ allocs'[i].state = allocs[i].state
<1> DEFINE S == {i \in DOMAIN allocs : allocs[i].addr = call[t].arg.addr}
<1>1. /\ In(t, "ignore") /\ Return(t)
      /\ UNCHANGED <<roots, scan, disabled, mem, live, declared, strayed, seen>>
  BY Zenon DEF IgnoreObject
<1>4. allocs' = IF S = {} THEN allocs ELSE [allocs EXCEPT ![Least(S)].ignored = TRUE]
  BY Zenon DEF IgnoreObject
<1>2. pc[t] \in Locked  BY <1>1, InHoldsLock
<1>5. /\ allocs \in Seq(Record) /\ Len(allocs) <= MaxAllocs /\ roots \in Seq(Regions) /\ Len(roots) <= MaxRoots
      /\ live' \subseteq Blocks /\ declared' \subseteq Regions
  BY <1>1 DEF IInv, Typing
<1>6. CASE S = {}
  <2>1. allocs' = allocs  BY <1>4, <1>6
  <2>2. IInv' /\ Left(t)  BY <2>1, <1>1, <1>2, <1>5, ReturnKeeps
  <2> QED  BY <2>1, <2>2
<1>7. CASE S # {}
  <2> DEFINE k == Least(S)
  <2>1. S \subseteq Nat  BY <1>5, DomainIs
  <2>2. k \in S  BY <2>1, <1>7, LeastIs
  <2>3. k \in DOMAIN allocs  BY <2>2
  <2>4. allocs' = [allocs EXCEPT ![k].ignored = TRUE]  BY <1>4, <1>7, Zenon
  <2> HIDE DEF k
  <2>5. /\ allocs' \in Seq(Record) /\ Len(allocs') = Len(allocs) /\ DOMAIN allocs' = DOMAIN allocs
        /\ \A i \in DOMAIN allocs : i # k => allocs'[i] = allocs[i]
        /\ allocs'[k].addr = allocs[k].addr /\ allocs'[k].size = allocs[k].size
        /\ allocs'[k].state = allocs[k].state
    BY <2>3, <2>4, <1>5, IgnoredIn, Zenon
  <2>6. IInv' /\ Left(t)  BY <2>5, <1>1, <1>2, <1>5, ReturnKeeps
  <2> QED  BY <2>3, <2>5, <2>6
<1> QED  BY <1>6, <1>7

LEMMA RegisterRootKeeps ==
  ASSUME IInv, LsanConstants, NEW t \in Threads, RegisterRoot(t)
  PROVE  /\ IInv' /\ Left(t) /\ call[t].op = "root" /\ call[t].arg \in Regions
         /\ declared' = declared \cup {call[t].arg}
         /\ \/ Len(roots) >= MaxRoots /\ roots' = roots
            \/ /\ Len(roots) < MaxRoots /\ DOMAIN roots' = DOMAIN roots \cup {Len(roots) + 1}
               /\ \A i \in DOMAIN roots : roots'[i] = roots[i]
               /\ roots'[Len(roots) + 1] = call[t].arg
<1>1. /\ In(t, "root") /\ Return(t) /\ declared' = declared \cup {call[t].arg}
      /\ UNCHANGED <<allocs, scan, disabled, mem, live, strayed, seen>>
  BY DEF RegisterRoot
<1>4. roots' = IF Len(roots) >= MaxRoots THEN roots ELSE Append(roots, call[t].arg)
  BY DEF RegisterRoot
<1>2. pc[t] \in Locked /\ pc[t] # "run" /\ call[t].op = "root"
  BY <1>1, InHoldsLock
<1>3. call[t].arg \in Regions
  BY <1>2 DEF IInv, Control, Within, RootOps
<1>5. /\ allocs \in Seq(Record) /\ Len(allocs) <= MaxAllocs /\ roots \in Seq(Regions) /\ Len(roots) <= MaxRoots
      /\ live' \subseteq Blocks /\ Len(roots) \in Nat /\ MaxRoots \in Nat
  BY <1>1 DEF IInv, Typing, LsanConstants
<1>8. declared' \subseteq Regions  BY <1>1, <1>3 DEF IInv, Typing
<1>6. CASE Len(roots) >= MaxRoots
  <2>1. roots' = roots  BY <1>4, <1>6
  <2>2. IInv' /\ Left(t)  BY <2>1, <1>1, <1>2, <1>5, <1>8, ReturnKeeps
  <2> QED  BY <2>1, <2>2, <1>1, <1>2, <1>3, <1>6
<1>7. CASE Len(roots) < MaxRoots
  <2>1. roots' = Append(roots, call[t].arg)  BY <1>4, <1>7, <1>5
  <2>2. /\ roots' \in Seq(Regions) /\ Len(roots') = Len(roots) + 1
        /\ DOMAIN roots' = DOMAIN roots \cup {Len(roots) + 1}
        /\ \A i \in DOMAIN roots : roots'[i] = roots[i]
        /\ roots'[Len(roots) + 1] = call[t].arg
    BY <2>1, <1>3, <1>5
  <2>3. Len(roots') <= MaxRoots  BY <2>2, <1>5, <1>7
  <2>4. IInv' /\ Left(t)  BY <2>2, <2>3, <1>1, <1>2, <1>5, <1>8, ReturnKeeps
  <2> QED  BY <2>2, <2>4, <1>1, <1>2, <1>3, <1>7
<1> QED  BY <1>5, <1>6, <1>7

LEMMA UnregisterRootKeeps ==
  ASSUME IInv, LsanConstants, NEW t \in Threads, UnregisterRoot(t)
  PROVE  /\ IInv' /\ Left(t) /\ call[t].op = "unroot" /\ call[t].arg \in Regions
         /\ \/ roots' = roots /\ ~\E i \in DOMAIN roots : roots[i] = call[t].arg
            \/ \E k \in DOMAIN roots :
                 /\ roots[k] = call[t].arg
                 /\ DOMAIN roots' = 1 .. Len(roots) - 1
                 /\ \A i \in DOMAIN roots' : roots'[i] = IF i = k THEN roots[Len(roots)] ELSE roots[i]
<1> DEFINE S == {i \in DOMAIN roots : roots[i].addr = call[t].arg.addr}
<1>1. In(t, "unroot") /\ Return(t) /\ UNCHANGED <<allocs, scan, disabled, mem, live, declared, strayed, seen>>
  BY DEF UnregisterRoot
<1>4. roots' = IF S = {} THEN roots
        ELSE SubSeq([roots EXCEPT ![Least(S)] = roots[Len(roots)]], 1, Len(roots) - 1)
  BY Zenon DEF UnregisterRoot
<1>2. pc[t] \in Locked /\ pc[t] # "run" /\ call[t].op = "unroot"
  BY <1>1, InHoldsLock
<1>3. call[t].arg \in Regions
  BY <1>2 DEF IInv, Control, Within, RootOps
<1>5. /\ allocs \in Seq(Record) /\ Len(allocs) <= MaxAllocs /\ roots \in Seq(Regions) /\ Len(roots) <= MaxRoots
      /\ live' \subseteq Blocks /\ declared' \subseteq Regions /\ Len(roots) \in Nat /\ MaxRoots \in Nat
  BY <1>1 DEF IInv, Typing, LsanConstants
<1>8. \A i \in DOMAIN roots : roots[i].addr = call[t].arg.addr <=> roots[i] = call[t].arg
  BY <1>3, <1>5, DomainIs DEF LsanConstants
<1>6. CASE S = {}
  <2>1. roots' = roots  BY <1>4, <1>6
  <2>2. IInv' /\ Left(t)  BY <2>1, <1>1, <1>2, <1>5, ReturnKeeps
  <2> QED  BY <2>1, <2>2, <1>2, <1>3, <1>6, <1>8
<1>7. CASE S # {}
  <2> DEFINE k == Least(S)
  <2>1. S \subseteq Nat  BY <1>5, DomainIs
  <2>2. k \in S  BY <2>1, <1>7, LeastIs
  <2>3. k \in DOMAIN roots /\ roots[k] = call[t].arg  BY <2>2, <1>8
  <2>4. roots' = SubSeq([roots EXCEPT ![k] = roots[Len(roots)]], 1, Len(roots) - 1)
    BY <1>4, <1>7, Zenon
  <2> HIDE DEF k
  <2>5. /\ roots' \in Seq(Regions) /\ Len(roots') = Len(roots) - 1 /\ DOMAIN roots' = 1 .. Len(roots) - 1
        /\ \A i \in DOMAIN roots' : roots'[i] = IF i = k THEN roots[Len(roots)] ELSE roots[i]
    BY <2>3, <2>4, <1>5, TakenOut, Zenon
  <2>7. Len(roots') <= MaxRoots  BY <2>5, <1>5
  <2>6. IInv' /\ Left(t)  BY <2>5, <2>7, <1>1, <1>2, <1>5, ReturnKeeps
  <2> QED  BY <2>3, <2>5, <2>6, <1>1, <1>2, <1>3
<1> QED  BY <1>6, <1>7

\* The steps of a leak check leave the tables and the program alone.
Checking(t) ==
  BeginCheck(t) \/ SkipObject(t) \/ ReadWord(t) \/ NextPart(t) \/ ReportLeak(t) \/ HangInReport(t)

LEMMA CheckingIsQuiet ==
  ASSUME NEW t \in Threads, Checking(t) \/ EndCheck(t)
  PROVE  UNCHANGED <<allocs, roots, disabled, mem, live, declared, strayed>>
BY DEF Checking, EndCheck, BeginCheck, SkipObject, ReadWord, NextPart, ReportLeak, HangInReport, Scanning, Quiet

ScanType == [obj : Nat \ {0}, part : Nat \ {0}, word : Nat, found : SUBSET (DOMAIN allocs)]

LEMMA NextObjectTyped ==
  ASSUME scan \in ScanType
  PROVE  /\ NextObject \in ScanType /\ NextObject.obj = scan.obj + 1 /\ NextObject.found = scan.found
         /\ NextObject.part = 1 /\ NextObject.word = 0
<1> DEFINE a == [scan EXCEPT !.obj = scan.obj + 1]
           b == [a EXCEPT !.part = 1]
           c == [b EXCEPT !.word = 0]
<1>1. a \in ScanType /\ a.obj = scan.obj + 1 /\ a.found = scan.found  BY DEF ScanType
<1>2. NextObject = c  BY Zenon DEF NextObject
<1> HIDE DEF a
<1>3. b \in ScanType /\ b.obj = a.obj /\ b.found = a.found /\ b.part = 1  BY <1>1 DEF ScanType
<1> HIDE DEF b
<1>4. c \in ScanType /\ c.obj = b.obj /\ c.found = b.found /\ c.part = 1 /\ c.word = 0
  BY <1>3 DEF ScanType
<1> HIDE DEF c
<1> QED  BY <1>1, <1>2, <1>3, <1>4

LEMMA NextPartTyped ==
  ASSUME scan \in ScanType
  PROVE  LET n == [scan EXCEPT !.part = @ + 1, !.word = 0] IN
         /\ n \in ScanType /\ n.obj = scan.obj /\ n.found = scan.found
         /\ n.part = scan.part + 1 /\ n.word = 0
<1> DEFINE a == [scan EXCEPT !.part = scan.part + 1]
           n == [a EXCEPT !.word = 0]
<1>1. a \in ScanType /\ a.obj = scan.obj /\ a.found = scan.found /\ a.part = scan.part + 1
  BY DEF ScanType
<1> HIDE DEF a
<1>2. n \in ScanType /\ n.obj = a.obj /\ n.found = a.found /\ n.part = a.part /\ n.word = 0
  BY <1>1 DEF ScanType
<1> HIDE DEF n
<1>3. n \in ScanType /\ n.obj = scan.obj /\ n.found = scan.found /\ n.part = scan.part + 1 /\ n.word = 0
  BY <1>1, <1>2
<1> QED  BY <1>3, Zenon DEF n, a

LEMMA CheckingKeeps ==
  ASSUME IInv, LsanConstants, NEW t \in Threads, Checking(t)
  PROVE  IInv' /\ Stayed
<1>1. UNCHANGED <<allocs, roots, disabled, mem, live, declared, strayed>>  BY CheckingIsQuiet
<1>2. scan \in ScanType  BY DEF IInv, Typing, ScanType
<1>0. seen' \in [Words -> SUBSET (BlockAddrs \cup {Null})]
  BY DEF IInv, Typing, Checking, BeginCheck, SkipObject, ReadWord, NextPart, ReportLeak, HangInReport, Scanning
<1>3. SUFFICES Stayed /\ Control' /\ lock' \in Threads \cup {NoThread} /\ scan' \in ScanType
  BY <1>0, <1>1 DEF IInv, Typing, Stayed, PlacesTyped, ScanType
<1>4. CASE BeginCheck(t)
  <2>1. /\ "scan" \in Where \ {"run"} /\ "scan" \in Locked  BY DEF Where, Locked
  <2>2. /\ pc[t] = "critical" /\ call[t].op \in CheckOps
        /\ pc' = [pc EXCEPT ![t] = "scan"] /\ call' = call /\ lock' = lock /\ scan' = NoScan
    BY <1>4 DEF BeginCheck, In, CheckOps
  <2>3. pc[t] \in Locked /\ lock = t  BY <2>2 DEF IInv, Control, Locked
  <2>4. Stayed /\ Control'  BY <2>1, <2>2, <2>3, Moving DEF IInv
  <2>5. scan' \in ScanType  BY <2>2 DEF ScanType, NoScan
  <2> QED  BY <2>2, <2>3, <2>4, <2>5
<1>5. CASE HangInReport(t)
  <2>1. /\ "stuck" \in Where \ {"run"} /\ "stuck" \in Locked  BY DEF Where, Locked
  <2>2. /\ pc[t] = "scan" /\ scan' = scan
        /\ pc' = [pc EXCEPT ![t] = "stuck"] /\ call' = call /\ lock' = lock
    BY <1>5 DEF HangInReport
  <2>3. pc[t] \in Locked /\ lock = t /\ call[t].op \in CheckOps
    BY <2>2 DEF IInv, Control, Locked
  <2>4. Stayed /\ Control'  BY <2>1, <2>2, <2>3, Moving DEF IInv
  <2> QED  BY <2>2, <2>3, <2>4, <1>2
<1>6. CASE Scanning(t) /\ (SkipObject(t) \/ ReadWord(t) \/ NextPart(t) \/ ReportLeak(t))
  <2>1. UNCHANGED <<lock, pc, call>>  BY <1>6 DEF Scanning
  <2>2. Stayed /\ Control'  BY <2>1, Staying DEF IInv
  <2>3. lock' \in Threads \cup {NoThread}  BY <2>1 DEF IInv, Typing
  <2>4. scan' \in ScanType
    <3>1. NextObject \in ScanType /\ NextObject.found = scan.found  BY <1>2, NextObjectTyped
    <3>2. CASE SkipObject(t)
      BY <3>1, <3>2 DEF SkipObject
    <3>3. CASE ReadWord(t)
      <4>1. [scan EXCEPT !.word = @ + 1] \in ScanType  BY <1>2 DEF ScanType
      <4> QED  BY <3>1, <3>3, <4>1 DEF ReadWord
    <3>4. CASE NextPart(t)
      <4>1. [scan EXCEPT !.part = @ + 1, !.word = 0] \in ScanType  BY <1>2, NextPartTyped, Zenon
      <4> QED  BY <3>4, <4>1 DEF NextPart
    <3>5. CASE ReportLeak(t)
      <4>1. scan.obj \in DOMAIN allocs
        BY <1>6, <1>2 DEF Scanning, IInv, Typing, ScanType
      <4> DEFINE n == NextObject
      <4>2. scan' = [n EXCEPT !.found = @ \cup {scan.obj}]  BY <3>5 DEF ReportLeak
      <4> HIDE DEF n
      <4>3. n \in ScanType  BY <3>1 DEF n
      <4> QED  BY <4>1, <4>2, <4>3 DEF ScanType
    <3> QED  BY <1>6, <3>2, <3>3, <3>4, <3>5
  <2> QED  BY <2>2, <2>3, <2>4, <1>1
<1> QED  BY <1>4, <1>5, <1>6 DEF Checking, SkipObject, ReadWord, NextPart, ReportLeak

LEMMA EndCheckKeeps ==
  ASSUME IInv, LsanConstants, NEW t \in Threads, EndCheck(t)
  PROVE  /\ IInv' /\ (Stayed \/ Left(t)) /\ scan' = NoScan /\ call[t].op \in CheckOps
         /\ pc[t] = "scan" /\ pc'[t] # "scan"
<1>1. UNCHANGED <<allocs, roots, disabled, mem, live, declared, strayed>>  BY CheckingIsQuiet
<1>2. pc[t] = "scan" /\ scan' = NoScan /\ seen' = NothingSeen  BY DEF EndCheck
<1>3. pc[t] \in Locked /\ call[t].op \in CheckOps /\ lock = t
  BY <1>2 DEF IInv, Control, Locked
<1>4. CASE Return(t)
  <2>1. /\ live' \subseteq Blocks /\ declared' \subseteq Regions
        /\ allocs' \in Seq(Record) /\ Len(allocs') <= MaxAllocs /\ DOMAIN allocs \subseteq DOMAIN allocs'
        /\ roots' \in Seq(Regions) /\ Len(roots') <= MaxRoots /\ UNCHANGED <<disabled, mem, strayed>>
    BY <1>1 DEF IInv, Typing
  <2>2. IInv' /\ Left(t)  BY <2>1, <1>2, <1>3, <1>4, ReturnKeeps
  <2> QED  BY <2>2, <1>2, <1>3 DEF Left
<1>5. CASE lock' = NoThread /\ pc' = [pc EXCEPT ![t] = "halted"] /\ UNCHANGED call
  <2>1. /\ "halted" \in Where \ {"run"} /\ "halted" \notin Locked  BY DEF Where, Locked
  <2>2. lock' = IF "halted" \in Locked THEN t ELSE NoThread  BY <2>1, <1>5
  <2>3. Stayed /\ Control'  BY <2>1, <2>2, <1>2, <1>3, <1>5, Moving DEF IInv
  <2>4. scan' \in [obj : Nat \ {0}, part : Nat \ {0}, word : Nat, found : SUBSET (DOMAIN allocs')]
    BY <1>2 DEF NoScan
  <2>7. seen' \in [Words -> SUBSET (BlockAddrs \cup {Null})]  BY <1>2 DEF NothingSeen
  <2>5. Typing'
    BY <2>3, <2>4, <2>7, <1>1, <1>5 DEF IInv, Typing, Stayed, PlacesTyped
  <2>6. pc'[t] # "scan"  BY <1>5 DEF IInv, Typing
  <2> QED  BY <2>3, <2>5, <2>6, <1>2, <1>3 DEF IInv
<1> QED  BY <1>4, <1>5 DEF EndCheck

LEMMA NextIsOneOf ==
  ASSUME IInv, Next
  PROVE  \E t \in Threads :
           \/ \E b \in Blocks : Malloc(t, b) \/ Free(t, b) \/ Ignore(t, b)
           \/ \E r \in Regions : Root(t, r) \/ Unroot(t, r)
           \/ \E op \in CheckOps : Check(t, op)
           \/ \E v \in BOOLEAN : SetDisabled(t, v)
           \/ \E w \in Words, p \in BlockAddrs \cup {Null} : Store(t, w, p)
           \/ Acquire(t) \/ RegisterAlloc(t) \/ UnregisterAlloc(t) \/ RegisterRoot(t)
           \/ UnregisterRoot(t) \/ IgnoreObject(t) \/ Checking(t) \/ EndCheck(t)
<1>1. PICK t \in Threads : Program(t) \/ Step(t)  BY DEF Next
<1>2. CASE Program(t)
  <2>1. CASE \E w \in Words, p \in {b.addr : b \in InHand} \cup {Null} : Store(t, w, p)
    <3>1. {b.addr : b \in InHand} \subseteq BlockAddrs
      BY DEF InHand, BlockAddrs, IInv, Typing
    <3> QED  BY <2>1, <3>1, Zenon
  <2>2. CASE ~\E w \in Words, p \in {b.addr : b \in InHand} \cup {Null} : Store(t, w, p)
    BY <1>2, <2>2, Zenon DEF Program, CheckOps
  <2> QED  BY <2>1, <2>2
<1>3. CASE Step(t)
  BY <1>3, Zenon DEF Step, Checking
<1> QED  BY <1>1, <1>2, <1>3

LEMMA NextKeeps ==
  ASSUME IInv, LsanConstants, [Next]_vars
  PROVE  IInv'
<1>1. CASE UNCHANGED vars
  <2>1. UNCHANGED <<allocs, roots, lock, pc, call, scan, disabled, mem, live, declared, strayed, seen>>
    BY <1>1 DEF vars, runtime
  <2>2. Control'  BY <2>1 DEF IInv, Control, Within
  <2> QED  BY <2>1, <2>2 DEF IInv, Typing
<1>2. CASE Next
  BY <1>2, NextIsOneOf, MallocKeeps, FreeKeeps, IgnoreKeeps, RootKeeps, UnrootKeeps, CheckKeeps,
     SetDisabledKeeps, StoreKeeps, AcquireKeeps, RegisterAllocKeeps, UnregisterAllocKeeps,
     RegisterRootKeeps, UnregisterRootKeeps, IgnoreObjectKeeps, CheckingKeeps, EndCheckKeeps, Zenon
<1> QED  BY <1>1, <1>2

LEMMA Invariance == Spec => []IInv
<1>1. Init => IInv  BY InitIInv, LsanConstants
<1>2. IInv /\ [Next]_vars => IInv'  BY NextKeeps, LsanConstants
<1> QED  BY <1>1, <1>2, PTL DEF Spec

\* The tables hold what the program passed in and never overflow, the findings of
\* a check are indexes of the table, and the lock is held exactly in the tables
\* and in a check.
THEOREM TypeCorrect == Spec => []TypeOK
<1>1. IInv => TypeOK
  BY DEF IInv, Typing, Control, TypeOK, Where, Locked, Call, Args
<1> QED  BY <1>1, Invariance, PTL

---------------------------------------------------------------------------------
(* The records follow the heap. *)

LEMMA InHookIs ==
  ASSUME IInv, NEW op, NEW r
  PROVE  InHook(op, r) <=> \E t \in Threads : Within(t, {op}) /\ call[t].arg = r
<1>1. ASSUME NEW t \in Threads
      PROVE  call[t] = [op |-> op, arg |-> r] <=> call[t].op = op /\ call[t].arg = r
  BY DEF IInv, Typing, Call
<1> QED  BY <1>1 DEF InHook, Within

HeapInv == IInv /\ BlocksInOrder /\ RecordsFollowHeap /\ RecordsAreBlocks

\* Nobody enters or leaves a hook of a block, and what a record says of its
\* block stays.
SameRecords ==
  /\ DOMAIN allocs' = DOMAIN allocs /\ Len(allocs') = Len(allocs)
  /\ \A i \in DOMAIN allocs : /\ allocs'[i].addr = allocs[i].addr /\ allocs'[i].size = allocs[i].size
                              /\ allocs'[i].state = allocs[i].state

LEMMA SameRecordsTracked ==
  ASSUME SameRecords, NEW b
  PROVE  Tracked(b)' <=> Tracked(b)
BY DEF SameRecords, Tracked, Active

LEMMA SameHooksKeep ==
  ASSUME HeapInv, IInv', SameRecords, live' = live, strayed' = strayed,
         \A u \in Threads : Within(u, BlockOps)' => Within(u, BlockOps) /\ call'[u] = call[u],
         \A u \in Threads : Within(u, {"alloc"}) => Within(u, {"alloc"})' /\ call'[u] = call[u]
  PROVE  HeapInv'
<1>1. \A u \in Threads : Within(u, {"alloc", "free"})' => Within(u, BlockOps)'
  BY DEF Within, BlockOps
<1>2. \A u \in Threads : Within(u, {"alloc", "free"})' => Within(u, {"alloc", "free"}) /\ call'[u] = call[u]
  BY <1>1 DEF Within
<1>3. \A u \in Threads : Within(u, {"alloc"})' => Within(u, {"alloc"}) /\ call'[u] = call[u]
  BY <1>2 DEF Within
<1>4. \A u \in Threads : Within(u, BlockOps)' => call'[u].arg \in live'
  BY DEF HeapInv, BlocksInOrder
<1>5. \A t, u \in Threads : (t # u /\ Within(t, {"alloc", "free"})' /\ Within(u, BlockOps)')
                            => call'[t].arg # call'[u].arg
  BY <1>2 DEF HeapInv, BlocksInOrder
<1>6. \A u \in Threads : Within(u, {"alloc"})' => (call[u].arg.addr \in strayed \/ ~Tracked(call[u].arg))'
  <2> SUFFICES ASSUME NEW u \in Threads, Within(u, {"alloc"})'
               PROVE  (call[u].arg.addr \in strayed \/ ~Tracked(call[u].arg))'
    OBVIOUS
  <2>1. Within(u, {"alloc"}) /\ call'[u].arg = call[u].arg  BY <1>3
  <2>2. call[u].arg.addr \in strayed \/ ~Tracked(call[u].arg)  BY <2>1 DEF HeapInv, BlocksInOrder
  <2> QED  BY <2>1, <2>2 DEF SameRecords, Tracked, Active
<1>7. BlocksInOrder'  BY <1>4, <1>5, <1>6 DEF BlocksInOrder
<1>8. \A i \in DOMAIN allocs' : Active(allocs'[i]) /\ allocs'[i].addr \notin strayed' =>
       \E b \in live' : b.addr = allocs'[i].addr /\ b.size = allocs'[i].size
  BY DEF HeapInv, RecordsFollowHeap, SameRecords, Active
<1>9. \A i, j \in DOMAIN allocs' :
       (/\ Active(allocs'[i]) /\ Active(allocs'[j]) /\ allocs'[i].addr = allocs'[j].addr
             /\ allocs'[i].addr \notin strayed') => i = j
  BY DEF HeapInv, RecordsFollowHeap, SameRecords, Active
<1>10. Len(allocs') < MaxAllocs => \A b \in live' : b.addr \in strayed' \/ InHook("alloc", b)' \/ Tracked(b)'
  <2> SUFFICES ASSUME Len(allocs') < MaxAllocs, NEW b \in live'
               PROVE  b.addr \in strayed' \/ InHook("alloc", b)' \/ Tracked(b)'
    OBVIOUS
  <2>1. b.addr \in strayed \/ InHook("alloc", b) \/ Tracked(b)  BY DEF HeapInv, RecordsFollowHeap, SameRecords
  <2>2. CASE Tracked(b)  BY <2>2, SameRecordsTracked
  <2>3. CASE InHook("alloc", b)
    <3>1. PICK t \in Threads : pc[t] # "run" /\ call[t] = [op |-> "alloc", arg |-> b]
      BY <2>3 DEF InHook
    <3>2. Within(t, {"alloc"})  BY <3>1 DEF Within
    <3>3. pc'[t] # "run" /\ call'[t] = call[t]  BY <3>2 DEF Within
    <3> QED  BY <3>1, <3>3 DEF InHook
  <2> QED  BY <2>1, <2>2, <2>3
<1>11. RecordsFollowHeap'  BY <1>8, <1>9, <1>10 DEF RecordsFollowHeap
<1>12. RecordsAreBlocks'  BY DEF HeapInv, RecordsAreBlocks, SameRecords
<1> QED  BY <1>7, <1>11, <1>12 DEF HeapInv

\* Steps that do not change which blocks are in which hook.
LEMMA StayedKeeps ==
  ASSUME HeapInv, IInv', Stayed, UNCHANGED <<allocs, live, strayed>>
  PROVE  HeapInv'
<1>1. SameRecords  BY DEF SameRecords
<1>2. \A u \in Threads : \A ops : Within(u, ops)' <=> Within(u, ops)  BY DEF Stayed, Within
<1> QED  BY <1>1, <1>2, SameHooksKeep DEF Stayed

LEMMA EnteredKeeps ==
  ASSUME HeapInv, IInv', NEW t \in Threads, NEW op, op \notin BlockOps, NEW r, Entered(t, op, r),
         UNCHANGED <<allocs, live, strayed>>
  PROVE  HeapInv'
<1>1. SameRecords  BY DEF SameRecords
<1>2. \A u \in Threads : Within(u, BlockOps)' => Within(u, BlockOps) /\ call'[u] = call[u]
  BY DEF Entered, Others, Within
<1>3. \A u \in Threads : Within(u, {"alloc"}) => Within(u, {"alloc"})' /\ call'[u] = call[u]
  BY DEF Entered, Others, Within
<1> QED  BY <1>1, <1>2, <1>3, SameHooksKeep

LEMMA LeftKeeps ==
  ASSUME HeapInv, IInv', NEW t \in Threads, call[t].op # "alloc", Left(t),
         SameRecords, UNCHANGED <<live, strayed>>
  PROVE  HeapInv'
<1>2. \A u \in Threads : Within(u, BlockOps)' => Within(u, BlockOps) /\ call'[u] = call[u]
  BY DEF Left, Others, Within
<1>3. \A u \in Threads : Within(u, {"alloc"}) => Within(u, {"alloc"})' /\ call'[u] = call[u]
  BY DEF Left, Others, Within
<1> QED  BY <1>2, <1>3, SameHooksKeep

LEMMA AddrIsBlock ==
  ASSUME LsanConstants, NEW b \in Blocks, NEW c \in Blocks, b.addr = c.addr
  PROVE  b = c
BY DEF LsanConstants

\* A block that is got or given back with the tracker off.
LEMMA StrayKeeps ==
  ASSUME HeapInv, IInv', LsanConstants, Stayed, NEW b \in Blocks,
         live' = live \cup {b} \/ live' = live \ {b}, strayed' = strayed \cup {b.addr}, allocs' = allocs,
         \A u \in Threads : Within(u, BlockOps) => call[u].arg # b
  PROVE  HeapInv'
<1>1. \A u \in Threads : \A ops : (Within(u, ops)' <=> Within(u, ops)) /\ call'[u] = call[u]
  BY DEF Stayed, Within
<1>2. \A c : Tracked(c)' <=> Tracked(c)  BY DEF Tracked
<1>3. \A op, r : InHook(op, r)' <=> InHook(op, r)  BY DEF InHook, Stayed
<1>4. \A u \in Threads : Within(u, BlockOps)' => call'[u].arg \in live'
  BY <1>1 DEF HeapInv, BlocksInOrder
<1>5. \A u, v \in Threads : (u # v /\ Within(u, {"alloc", "free"})' /\ Within(v, BlockOps)')
                            => call'[u].arg # call'[v].arg
  BY <1>1 DEF HeapInv, BlocksInOrder
<1>6. \A u \in Threads : Within(u, {"alloc"})' => (call[u].arg.addr \in strayed \/ ~Tracked(call[u].arg))'
  <2> SUFFICES ASSUME NEW u \in Threads, Within(u, {"alloc"})'
               PROVE  (call[u].arg.addr \in strayed \/ ~Tracked(call[u].arg))'
    OBVIOUS
  <2>1. Within(u, {"alloc"}) /\ call'[u].arg = call[u].arg  BY <1>1
  <2>2. call[u].arg.addr \in strayed \/ ~Tracked(call[u].arg)  BY <2>1 DEF HeapInv, BlocksInOrder
  <2> QED  BY <2>1, <2>2 DEF Tracked
<1>7. BlocksInOrder'  BY <1>4, <1>5, <1>6 DEF BlocksInOrder
<1>8. ASSUME NEW i \in DOMAIN allocs', Active(allocs'[i]), allocs'[i].addr \notin strayed'
      PROVE  \E c \in live' : c.addr = allocs'[i].addr /\ c.size = allocs'[i].size
  <2>1. PICK c \in live : c.addr = allocs[i].addr /\ c.size = allocs[i].size
    BY <1>8 DEF HeapInv, RecordsFollowHeap
  <2>2. c # b  BY <2>1, <1>8
  <2> QED  BY <2>1, <2>2
<1>9. \A i, j \in DOMAIN allocs' :
            (/\ Active(allocs'[i]) /\ Active(allocs'[j]) /\ allocs'[i].addr = allocs'[j].addr
             /\ allocs'[i].addr \notin strayed') => i = j
  BY DEF HeapInv, RecordsFollowHeap
<1>10. ASSUME Len(allocs') < MaxAllocs, NEW c \in live'
       PROVE  c.addr \in strayed' \/ InHook("alloc", c)' \/ Tracked(c)'
  <2>1. CASE c = b  BY <2>1
  <2>2. CASE c # b
    <3>1. c.addr \in strayed \/ InHook("alloc", c) \/ Tracked(c)
      BY <2>2, <1>10 DEF HeapInv, RecordsFollowHeap
    <3> QED  BY <3>1, <1>2, <1>3
  <2> QED  BY <2>1, <2>2
<1>11. RecordsFollowHeap'  BY <1>8, <1>9, <1>10 DEF RecordsFollowHeap
<1>12. RecordsAreBlocks'  BY DEF HeapInv, RecordsAreBlocks
<1> QED  BY <1>7, <1>11, <1>12 DEF HeapInv

LEMMA MallocKeepsHeap ==
  ASSUME HeapInv, LsanConstants, NEW t \in Threads, NEW b \in Blocks, ~disabled, Malloc(t, b)
  PROVE  HeapInv'
<1>1. Entered(t, "alloc", b) /\ IInv'
  BY MallocKeeps DEF HeapInv
<1>2. /\ b \notin live /\ live' = live \cup {b} /\ strayed' = strayed /\ allocs' = allocs
  BY DEF Malloc, Enter
<1>3. \A u \in Threads : u # t => pc'[u] = pc[u] /\ call'[u] = call[u]
  BY <1>1 DEF Entered, Others
<1>4. pc[t] = "run" /\ pc'[t] = "spin" /\ call'[t].op = "alloc" /\ call'[t].arg = b
  BY <1>1 DEF Entered
<1>5. \A u \in Threads : \A ops : u # t => (Within(u, ops)' <=> Within(u, ops))
  BY <1>3 DEF Within
<1>6. \A u \in Threads : Within(u, BlockOps) => call[u].arg \in live
  BY DEF HeapInv, BlocksInOrder
<1>a. live \subseteq Blocks  BY DEF HeapInv, IInv, Typing
<1>7. b.addr \in strayed \/ ~Tracked(b)
  <2> SUFFICES ASSUME b.addr \notin strayed, NEW i \in DOMAIN allocs, Active(allocs[i]), allocs[i].addr = b.addr
               PROVE FALSE
    BY DEF Tracked
  <2>1. PICK c \in live : c.addr = allocs[i].addr  BY DEF HeapInv, RecordsFollowHeap
  <2> QED  BY <2>1, <1>2, <1>a, AddrIsBlock
<1>8. \A u \in Threads : Within(u, BlockOps)' => call'[u].arg \in live'
  BY <1>2, <1>3, <1>4, <1>5, <1>6
<1>b. Within(t, {"alloc", "free"})' /\ Within(t, BlockOps)'
  BY <1>4 DEF Within, BlockOps
<1>c. \A u \in Threads : Within(u, {"alloc", "free"}) => Within(u, BlockOps)
  BY DEF Within, BlockOps
<1>9. \A u, v \in Threads : (u # v /\ Within(u, {"alloc", "free"})' /\ Within(v, BlockOps)')
                            => call'[u].arg # call'[v].arg
  <2> SUFFICES ASSUME NEW u \in Threads, NEW v \in Threads, u # v,
                      Within(u, {"alloc", "free"})', Within(v, BlockOps)'
               PROVE  call'[u].arg # call'[v].arg
    OBVIOUS
  <2>1. CASE u = t  BY <2>1, <1>2, <1>3, <1>4, <1>5, <1>6
  <2>2. CASE v = t  BY <2>2, <1>2, <1>3, <1>4, <1>5, <1>6, <1>c
  <2>3. CASE u # t /\ v # t
    <3>1. Within(u, {"alloc", "free"}) /\ Within(v, BlockOps)  BY <2>3, <1>5
    <3>2. call[u].arg # call[v].arg  BY <3>1 DEF HeapInv, BlocksInOrder
    <3> QED  BY <3>2, <2>3, <1>3
  <2> QED  BY <2>1, <2>2, <2>3
<1>10. \A c : Tracked(c)' <=> Tracked(c)  BY <1>2 DEF Tracked
<1>11. \A u \in Threads : Within(u, {"alloc"})' => (call[u].arg.addr \in strayed \/ ~Tracked(call[u].arg))'
  <2> SUFFICES ASSUME NEW u \in Threads, Within(u, {"alloc"})'
               PROVE  (call[u].arg.addr \in strayed \/ ~Tracked(call[u].arg))'
    OBVIOUS
  <2>1. CASE u = t
    <3>1. call'[u].arg = b  BY <2>1, <1>4
    <3> QED  BY <3>1, <1>2, <1>7 DEF Tracked
  <2>2. CASE u # t
    <3>1. Within(u, {"alloc"}) /\ call'[u].arg = call[u].arg  BY <2>2, <1>3, <1>5
    <3>2. call[u].arg.addr \in strayed \/ ~Tracked(call[u].arg)  BY <3>1 DEF HeapInv, BlocksInOrder
    <3> QED  BY <3>1, <3>2, <1>2 DEF Tracked
  <2> QED  BY <2>1, <2>2
<1>12. BlocksInOrder'
  BY <1>1, <1>2, <1>8, <1>9, <1>11 DEF BlocksInOrder
<1>13. ASSUME Len(allocs') < MaxAllocs, NEW c \in live'
       PROVE  c.addr \in strayed' \/ InHook("alloc", c)' \/ Tracked(c)'
  <2>1. CASE c = b
    <3>1. Within(t, {"alloc"})' /\ call'[t].arg = c  BY <2>1, <1>4 DEF Within
    <3>2. call'[t] = [op |-> "alloc", arg |-> c]
      BY <2>1, <1>4, <1>1 DEF Entered, PlacesTyped, Call
    <3> QED  BY <3>2, <1>4 DEF InHook
  <2>2. CASE c # b
    <3>1. c.addr \in strayed \/ InHook("alloc", c) \/ Tracked(c)
      BY <2>2, <1>2, <1>13 DEF HeapInv, RecordsFollowHeap
    <3>2. CASE InHook("alloc", c)
      <4>1. PICK u \in Threads : pc[u] # "run" /\ call[u] = [op |-> "alloc", arg |-> c]
        BY <3>2 DEF InHook
      <4>2. pc'[u] # "run" /\ call'[u] = call[u]  BY <4>1, <1>3, <1>4
      <4> QED  BY <4>1, <4>2 DEF InHook
    <3> QED  BY <1>2, <3>1, <3>2, <1>10
  <2> QED  BY <2>1, <2>2
<1>14. /\ \A i \in DOMAIN allocs' : Active(allocs'[i]) /\ allocs'[i].addr \notin strayed' =>
             \E c \in live' : c.addr = allocs'[i].addr /\ c.size = allocs'[i].size
       /\ \A i, j \in DOMAIN allocs' :
            (/\ Active(allocs'[i]) /\ Active(allocs'[j]) /\ allocs'[i].addr = allocs'[j].addr
             /\ allocs'[i].addr \notin strayed') => i = j
  BY <1>2 DEF HeapInv, RecordsFollowHeap, Active
<1>15. RecordsFollowHeap'
  BY <1>13, <1>14 DEF RecordsFollowHeap
<1>16. RecordsAreBlocks'  BY <1>2 DEF HeapInv, RecordsAreBlocks
<1> QED  BY <1>1, <1>12, <1>15, <1>16 DEF HeapInv

LEMMA EnterBlockKeeps ==
  ASSUME HeapInv, LsanConstants, NEW t \in Threads, NEW b \in Blocks,
         NEW op \in {"free", "ignore"}, Entered(t, op, b), IInv', b \in InHand,
         op = "free" => ~InHook("ignore", b), UNCHANGED <<allocs, live, strayed>>
  PROVE  HeapInv'
<1>1. b \in live /\ ~InHook("alloc", b) /\ ~InHook("free", b)  BY DEF InHand
<1>3. \A u \in Threads : u # t => pc'[u] = pc[u] /\ call'[u] = call[u]
  BY DEF Entered, Others
<1>4. pc[t] = "run" /\ pc'[t] = "spin" /\ call'[t].op = op /\ call'[t].arg = b
  BY DEF Entered
<1>5. \A u \in Threads : \A ops : u # t => (Within(u, ops)' <=> Within(u, ops))
  BY <1>3 DEF Within
<1>6. \A u \in Threads : Within(u, BlockOps) => call[u].arg \in live
  BY DEF HeapInv, BlocksInOrder
<1>8. \A u \in Threads : Within(u, BlockOps)' => call'[u].arg \in live'
  BY <1>1, <1>3, <1>4, <1>5, <1>6
<1>9. ASSUME NEW u \in Threads, Within(u, {"alloc", "free"})
      PROVE  call[u].arg # b
  <2>1. IInv  BY DEF HeapInv
  <2>2. ~(Within(u, {"alloc"}) /\ call[u].arg = b) /\ ~(Within(u, {"free"}) /\ call[u].arg = b)
    BY <2>1, <1>1, InHookIs
  <2> QED  BY <2>2, <1>9 DEF Within
<1>10. ASSUME op = "free", NEW u \in Threads, Within(u, BlockOps)
       PROVE  call[u].arg # b
  <2>1. IInv  BY DEF HeapInv
  <2>2. ~(Within(u, {"ignore"}) /\ call[u].arg = b)
    BY <2>1, <1>10, InHookIs
  <2> QED  BY <2>2, <1>9, <1>10 DEF Within, BlockOps
<1>11. Within(t, {"alloc", "free"})' => op = "free"  BY <1>4 DEF Within
<1>12. \A u, v \in Threads : (u # v /\ Within(u, {"alloc", "free"})' /\ Within(v, BlockOps)')
                            => call'[u].arg # call'[v].arg
  <2> SUFFICES ASSUME NEW u \in Threads, NEW v \in Threads, u # v,
                      Within(u, {"alloc", "free"})', Within(v, BlockOps)'
               PROVE  call'[u].arg # call'[v].arg
    OBVIOUS
  <2>1. CASE u = t  BY <2>1, <1>3, <1>4, <1>5, <1>10, <1>11
  <2>2. CASE v = t  BY <2>2, <1>3, <1>4, <1>5, <1>9
  <2>3. CASE u # t /\ v # t
    <3>1. Within(u, {"alloc", "free"}) /\ Within(v, BlockOps)  BY <2>3, <1>5
    <3>2. call[u].arg # call[v].arg  BY <3>1 DEF HeapInv, BlocksInOrder
    <3> QED  BY <3>2, <2>3, <1>3
  <2> QED  BY <2>1, <2>2, <2>3
<1>13. \A u \in Threads : Within(u, {"alloc"})' => (call[u].arg.addr \in strayed \/ ~Tracked(call[u].arg))'
  <2> SUFFICES ASSUME NEW u \in Threads, Within(u, {"alloc"})'
               PROVE  (call[u].arg.addr \in strayed \/ ~Tracked(call[u].arg))'
    OBVIOUS
  <2>1. u # t  BY <1>4 DEF Within
  <2>2. Within(u, {"alloc"}) /\ call'[u].arg = call[u].arg  BY <2>1, <1>3, <1>5
  <2>3. call[u].arg.addr \in strayed \/ ~Tracked(call[u].arg)  BY <2>2 DEF HeapInv, BlocksInOrder
  <2> QED  BY <2>2, <2>3 DEF Tracked
<1>14. BlocksInOrder'  BY <1>8, <1>12, <1>13 DEF BlocksInOrder
<1>15. ASSUME Len(allocs') < MaxAllocs, NEW c \in live'
       PROVE  c.addr \in strayed' \/ InHook("alloc", c)' \/ Tracked(c)'
  <2>1. c.addr \in strayed \/ InHook("alloc", c) \/ Tracked(c)
    BY <1>15 DEF HeapInv, RecordsFollowHeap
  <2>2. CASE InHook("alloc", c)
    <3>1. PICK u \in Threads : pc[u] # "run" /\ call[u] = [op |-> "alloc", arg |-> c]
      BY <2>2 DEF InHook
    <3>2. pc'[u] # "run" /\ call'[u] = call[u]  BY <3>1, <1>3, <1>4
    <3> QED  BY <3>1, <3>2 DEF InHook
  <2>3. CASE Tracked(c)  BY <2>3 DEF Tracked
  <2> QED  BY <2>1, <2>2, <2>3
<1>16. /\ \A i \in DOMAIN allocs' : Active(allocs'[i]) /\ allocs'[i].addr \notin strayed' =>
             \E c \in live' : c.addr = allocs'[i].addr /\ c.size = allocs'[i].size
       /\ \A i, j \in DOMAIN allocs' :
            (/\ Active(allocs'[i]) /\ Active(allocs'[j]) /\ allocs'[i].addr = allocs'[j].addr
             /\ allocs'[i].addr \notin strayed') => i = j
  BY DEF HeapInv, RecordsFollowHeap, Active
<1>17. RecordsFollowHeap'
  BY <1>15, <1>16 DEF RecordsFollowHeap
<1>18. RecordsAreBlocks'  BY DEF HeapInv, RecordsAreBlocks
<1> QED  BY <1>14, <1>17, <1>18 DEF HeapInv

LEMMA RegisterAllocKeepsHeap ==
  ASSUME HeapInv, LsanConstants, NEW t \in Threads, RegisterAlloc(t)
  PROVE  HeapInv'
<1> DEFINE b == call[t].arg
           n == Len(allocs) + 1
<1>a. IInv  BY DEF HeapInv
<1>1. /\ IInv' /\ Left(t) /\ b \in Blocks
      /\ \/ Len(allocs) >= MaxAllocs /\ allocs' = allocs
         \/ /\ Len(allocs) < MaxAllocs /\ Len(allocs') = n /\ DOMAIN allocs' = DOMAIN allocs \cup {n}
            /\ \A i \in DOMAIN allocs : allocs'[i] = allocs[i]
            /\ allocs'[n] = [addr |-> b.addr, size |-> b.size, state |-> "ACTIVE", ignored |-> FALSE]
  BY <1>a, RegisterAllocKeeps
<1>2. live' = live /\ strayed' = strayed /\ In(t, "alloc")  BY DEF RegisterAlloc
<1>3. pc[t] # "run" /\ call[t].op = "alloc"  BY <1>2, <1>a, InHoldsLock
<1>4. Within(t, {"alloc"}) /\ Within(t, {"alloc", "free"}) /\ Within(t, BlockOps)
  BY <1>3 DEF Within, BlockOps
<1>5. pc'[t] = "run" /\ \A u \in Threads : u # t => pc'[u] = pc[u] /\ call'[u] = call[u]
  BY <1>1 DEF Left, Others
<1>6. \A u \in Threads : \A ops : Within(u, ops)' => u # t /\ Within(u, ops) /\ call'[u] = call[u]
  BY <1>5 DEF Within
<1>7. b \in live /\ (b.addr \in strayed \/ ~Tracked(b)) /\ live \subseteq Blocks
  BY <1>4 DEF HeapInv, BlocksInOrder, IInv, Typing
<1>8. \A u \in Threads : (u # t /\ Within(u, {"alloc"})) => call[u].arg # b /\ call[u].arg \in Blocks
  BY <1>4, <1>7 DEF HeapInv, BlocksInOrder, Within, BlockOps
<1>b. Len(allocs) \in Nat /\ DOMAIN allocs = 1 .. Len(allocs) /\ n \notin DOMAIN allocs
  BY DEF HeapInv, IInv, Typing
<1>c. MaxAllocs \in Nat  BY DEF LsanConstants
<1> HIDE DEF b, n
<1>9. \A u \in Threads : Within(u, BlockOps)' => call'[u].arg \in live'
  BY <1>2, <1>6 DEF HeapInv, BlocksInOrder
<1>10. \A u, v \in Threads : (u # v /\ Within(u, {"alloc", "free"})' /\ Within(v, BlockOps)')
                            => call'[u].arg # call'[v].arg
  BY <1>6 DEF HeapInv, BlocksInOrder
<1>11. \A u \in Threads : Within(u, {"alloc"})' => (call[u].arg.addr \in strayed \/ ~Tracked(call[u].arg))'
  <2> SUFFICES ASSUME NEW u \in Threads, Within(u, {"alloc"})', Tracked(call[u].arg)',
                      call'[u].arg.addr \notin strayed'
               PROVE  FALSE
    OBVIOUS
  <2>1. u # t /\ Within(u, {"alloc"}) /\ call'[u].arg = call[u].arg  BY <1>6
  <2>2. call[u].arg.addr \in strayed \/ ~Tracked(call[u].arg)  BY <2>1 DEF HeapInv, BlocksInOrder
  <2>3. call[u].arg.addr # b.addr
    BY <2>1, <1>8, <1>1, AddrIsBlock
  <2>4. PICK i \in DOMAIN allocs' : Active(allocs'[i]) /\ allocs'[i].addr = call[u].arg.addr
    BY <2>1 DEF Tracked
  <2>5. CASE i \in DOMAIN allocs
    BY <2>1, <2>2, <2>4, <2>5, <1>1, <1>2 DEF Tracked
  <2>6. CASE i \notin DOMAIN allocs
    BY <2>3, <2>4, <2>6, <1>1
  <2> QED  BY <2>5, <2>6
<1>12. BlocksInOrder'  BY <1>9, <1>10, <1>11 DEF BlocksInOrder
<1>d. RecordsAreBlocks'
  <2>1. CASE allocs' = allocs  BY <2>1 DEF HeapInv, RecordsAreBlocks
  <2>2. CASE /\ DOMAIN allocs' = DOMAIN allocs \cup {n} /\ \A i \in DOMAIN allocs : allocs'[i] = allocs[i]
             /\ allocs'[n] = [addr |-> b.addr, size |-> b.size, state |-> "ACTIVE", ignored |-> FALSE]
    BY <2>2, <1>1 DEF HeapInv, RecordsAreBlocks
  <2> QED  BY <1>1, <2>1, <2>2
<1>13. CASE Len(allocs) >= MaxAllocs /\ allocs' = allocs
  <2>1. ~(Len(allocs') < MaxAllocs)  BY <1>13, <1>b, <1>c
  <2>2. /\ \A i \in DOMAIN allocs' : Active(allocs'[i]) /\ allocs'[i].addr \notin strayed' =>
             \E c \in live' : c.addr = allocs'[i].addr /\ c.size = allocs'[i].size
        /\ \A i, j \in DOMAIN allocs' :
            (/\ Active(allocs'[i]) /\ Active(allocs'[j]) /\ allocs'[i].addr = allocs'[j].addr
             /\ allocs'[i].addr \notin strayed') => i = j
    BY <1>13, <1>2 DEF HeapInv, RecordsFollowHeap, Active
  <2> QED  BY <2>1, <2>2, <1>1, <1>12, <1>d DEF HeapInv, RecordsFollowHeap
<1>14. CASE /\ Len(allocs) < MaxAllocs /\ Len(allocs') = n /\ DOMAIN allocs' = DOMAIN allocs \cup {n}
            /\ \A i \in DOMAIN allocs : allocs'[i] = allocs[i]
            /\ allocs'[n] = [addr |-> b.addr, size |-> b.size, state |-> "ACTIVE", ignored |-> FALSE]
  <2>1. allocs'[n].addr = b.addr /\ allocs'[n].size = b.size /\ Active(allocs'[n])
    BY <1>14 DEF Active
  <2>2. \A i \in DOMAIN allocs' : Active(allocs'[i]) /\ allocs'[i].addr \notin strayed' =>
             \E c \in live' : c.addr = allocs'[i].addr /\ c.size = allocs'[i].size
    BY <2>1, <1>14, <1>2, <1>7 DEF HeapInv, RecordsFollowHeap
  <2>3. b.addr \in strayed \/ \A i \in DOMAIN allocs : Active(allocs[i]) => allocs[i].addr # b.addr
    BY <1>7 DEF Tracked
  <2>4. \A i, j \in DOMAIN allocs' :
            (/\ Active(allocs'[i]) /\ Active(allocs'[j]) /\ allocs'[i].addr = allocs'[j].addr
             /\ allocs'[i].addr \notin strayed') => i = j
    <3> SUFFICES ASSUME NEW i \in DOMAIN allocs', NEW j \in DOMAIN allocs',
                        Active(allocs'[i]), Active(allocs'[j]), allocs'[i].addr = allocs'[j].addr,
                        allocs'[i].addr \notin strayed'
                 PROVE  i = j
      OBVIOUS
    <3>1. CASE i \in DOMAIN allocs /\ j \in DOMAIN allocs
      BY <3>1, <1>2, <1>14 DEF HeapInv, RecordsFollowHeap
    <3>2. CASE i = n /\ j \in DOMAIN allocs  BY <3>2, <2>1, <2>3, <1>2, <1>14
    <3>3. CASE j = n /\ i \in DOMAIN allocs  BY <3>3, <2>1, <2>3, <1>2, <1>14
    <3> QED  BY <3>1, <3>2, <3>3, <1>14
  <2>5. ASSUME NEW c \in live' PROVE c.addr \in strayed' \/ InHook("alloc", c)' \/ Tracked(c)'
    <3>1. c.addr \in strayed \/ InHook("alloc", c) \/ Tracked(c)  BY <1>2, <1>14 DEF HeapInv, RecordsFollowHeap
    <3>2. CASE Tracked(c)  BY <3>2, <1>14 DEF Tracked
    <3>3. CASE InHook("alloc", c)
      <4>1. PICK u \in Threads : pc[u] # "run" /\ call[u] = [op |-> "alloc", arg |-> c]
        BY <3>3 DEF InHook
      <4>2. CASE u = t
        <5>1. c = b  BY <4>1, <4>2 DEF b
        <5> QED  BY <5>1, <2>1, <1>14 DEF Tracked
      <4>3. CASE u # t
        BY <4>1, <4>3, <1>5 DEF InHook
      <4> QED  BY <4>2, <4>3
    <3> QED  BY <3>1, <3>2, <3>3, <1>2
  <2>6. RecordsFollowHeap'  BY <2>2, <2>4, <2>5 DEF RecordsFollowHeap
  <2> QED  BY <2>6, <1>1, <1>12, <1>d DEF HeapInv
<1> QED  BY <1>1, <1>13, <1>14

LEMMA UnregisterAllocKeepsHeap ==
  ASSUME HeapInv, LsanConstants, NEW t \in Threads, UnregisterAlloc(t)
  PROVE  HeapInv'
<1> DEFINE b == call[t].arg
<1>a. IInv  BY DEF HeapInv
<1>1. /\ IInv' /\ Left(t) /\ b \in Blocks /\ Len(allocs') = Len(allocs)
      /\ DOMAIN allocs' = DOMAIN allocs /\ live' = live \ {b}
      /\ \/ allocs' = allocs /\ ~\E i \in DOMAIN allocs : allocs[i].addr = b.addr /\ Active(allocs[i])
         \/ \E k \in DOMAIN allocs :
              /\ allocs[k].addr = b.addr /\ Active(allocs[k]) /\ allocs'[k].state = "FREED"
              /\ allocs'[k].addr = allocs[k].addr /\ allocs'[k].size = allocs[k].size
              /\ \A i \in DOMAIN allocs : i # k => allocs'[i] = allocs[i]
  BY <1>a, UnregisterAllocKeeps
<1>2. strayed' = strayed /\ In(t, "free")  BY DEF UnregisterAlloc
<1>3. pc[t] # "run" /\ call[t].op = "free"  BY <1>2, <1>a, InHoldsLock
<1>4. Within(t, {"alloc", "free"}) /\ Within(t, BlockOps)
  BY <1>3 DEF Within, BlockOps
<1>5. pc'[t] = "run" /\ \A u \in Threads : u # t => pc'[u] = pc[u] /\ call'[u] = call[u]
  BY <1>1 DEF Left, Others
<1>6. \A u \in Threads : \A ops : Within(u, ops)' => u # t /\ Within(u, ops) /\ call'[u] = call[u]
  BY <1>5 DEF Within
<1>7. live \subseteq Blocks  BY DEF HeapInv, IInv, Typing
<1>8. \A u \in Threads : (u # t /\ Within(u, BlockOps)) => call[u].arg # b
  BY <1>4 DEF HeapInv, BlocksInOrder
<1> HIDE DEF b
\* What is active afterwards was active before, and is not the block's.
<1>9. \A i \in DOMAIN allocs : Active(allocs'[i]) =>
         /\ Active(allocs[i]) /\ allocs'[i] = allocs[i]
         /\ allocs[i].addr # b.addr \/ allocs[i].addr \in strayed
  <2>1. CASE allocs' = allocs /\ ~\E i \in DOMAIN allocs : allocs[i].addr = b.addr /\ Active(allocs[i])
    BY <2>1
  <2>2. CASE \E k \in DOMAIN allocs :
              /\ allocs[k].addr = b.addr /\ Active(allocs[k]) /\ allocs'[k].state = "FREED"
              /\ allocs'[k].addr = allocs[k].addr /\ allocs'[k].size = allocs[k].size
              /\ \A i \in DOMAIN allocs : i # k => allocs'[i] = allocs[i]
    <3>1. PICK k \in DOMAIN allocs :
              /\ allocs[k].addr = b.addr /\ Active(allocs[k]) /\ allocs'[k].state = "FREED"
              /\ \A i \in DOMAIN allocs : i # k => allocs'[i] = allocs[i]
      BY <2>2
    <3>2. \A i \in DOMAIN allocs :
            (Active(allocs[i]) /\ allocs[i].addr = b.addr) => i = k \/ allocs[i].addr \in strayed
      BY <3>1 DEF HeapInv, RecordsFollowHeap
    <3>3. ~Active(allocs'[k])  BY <3>1 DEF Active
    <3> QED  BY <3>1, <3>2, <3>3 DEF Active
  <2> QED  BY <1>1, <2>1, <2>2
<1>10. \A i \in DOMAIN allocs : (Active(allocs[i]) /\ allocs[i].addr # b.addr) => allocs'[i] = allocs[i]
  BY <1>1
<1>11. \A u \in Threads : Within(u, BlockOps)' => call'[u].arg \in live'
  <2>1. \A u \in Threads : Within(u, BlockOps)' => call'[u].arg \in live /\ call'[u].arg # b
    BY <1>6, <1>8 DEF HeapInv, BlocksInOrder
  <2> QED  BY <2>1, <1>1, <1>2 DEF HeapInv, BlocksInOrder
<1>12. \A u, v \in Threads : (u # v /\ Within(u, {"alloc", "free"})' /\ Within(v, BlockOps)')
                            => call'[u].arg # call'[v].arg
  BY <1>6 DEF HeapInv, BlocksInOrder
<1>13. \A u \in Threads : Within(u, {"alloc"})' => (call[u].arg.addr \in strayed \/ ~Tracked(call[u].arg))'
  <2> SUFFICES ASSUME NEW u \in Threads, Within(u, {"alloc"})', Tracked(call[u].arg)',
                      call'[u].arg.addr \notin strayed'
               PROVE  FALSE
    OBVIOUS
  <2>1. u # t /\ Within(u, {"alloc"}) /\ call'[u].arg = call[u].arg  BY <1>6
  <2>2. call[u].arg.addr \in strayed \/ ~Tracked(call[u].arg)  BY <2>1 DEF HeapInv, BlocksInOrder
  <2>4. PICK i \in DOMAIN allocs' : Active(allocs'[i]) /\ allocs'[i].addr = call[u].arg.addr
    BY <2>1 DEF Tracked
  <2> QED  BY <2>1, <2>2, <2>4, <1>1, <1>2, <1>9 DEF Tracked
<1>14. BlocksInOrder'  BY <1>11, <1>12, <1>13 DEF BlocksInOrder
<1>15. ASSUME NEW i \in DOMAIN allocs', Active(allocs'[i]), allocs'[i].addr \notin strayed'
       PROVE  \E c \in live' : c.addr = allocs'[i].addr /\ c.size = allocs'[i].size
  <2>1. Active(allocs[i]) /\ allocs'[i] = allocs[i] /\ allocs[i].addr # b.addr /\ i \in DOMAIN allocs
    BY <1>1, <1>2, <1>9, <1>15
  <2>2. PICK c \in live : c.addr = allocs[i].addr /\ c.size = allocs[i].size
    BY <2>1, <1>2, <1>15 DEF HeapInv, RecordsFollowHeap
  <2>3. c # b  BY <2>1, <2>2
  <2> QED  BY <2>1, <2>2, <2>3, <1>1
<1>16. \A i, j \in DOMAIN allocs' :
            (/\ Active(allocs'[i]) /\ Active(allocs'[j]) /\ allocs'[i].addr = allocs'[j].addr
             /\ allocs'[i].addr \notin strayed') => i = j
  BY <1>1, <1>2, <1>9 DEF HeapInv, RecordsFollowHeap
<1>17. ASSUME Len(allocs') < MaxAllocs, NEW c \in live'
       PROVE  c.addr \in strayed' \/ InHook("alloc", c)' \/ Tracked(c)'
  <2>1. c \in live /\ c # b /\ c \in Blocks  BY <1>1, <1>7, <1>17
  <2>2. c.addr # b.addr  BY <2>1, <1>1, AddrIsBlock
  <2>3. c.addr \in strayed \/ InHook("alloc", c) \/ Tracked(c)
    BY <2>1, <1>1, <1>17 DEF HeapInv, RecordsFollowHeap
  <2>4. CASE Tracked(c)
    BY <2>2, <2>4, <1>1, <1>10 DEF Tracked
  <2>5. CASE InHook("alloc", c)
    <3>1. PICK u \in Threads : pc[u] # "run" /\ call[u] = [op |-> "alloc", arg |-> c]
      BY <2>5 DEF InHook
    <3>2. u # t  BY <3>1, <1>3
    <3> QED  BY <3>1, <3>2, <1>5 DEF InHook
  <2> QED  BY <1>2, <2>3, <2>4, <2>5
<1>18. RecordsFollowHeap'  BY <1>15, <1>16, <1>17 DEF RecordsFollowHeap
<1>19. RecordsAreBlocks'
  <2>1. \A i \in DOMAIN allocs : allocs'[i].addr = allocs[i].addr /\ allocs'[i].size = allocs[i].size
    BY <1>1
  <2> QED  BY <2>1, <1>1 DEF HeapInv, RecordsAreBlocks
<1> QED  BY <1>1, <1>14, <1>18, <1>19 DEF HeapInv

LEMMA HeapInit ==
  ASSUME LsanConstants, Init
  PROVE  HeapInv
<1>1. IInv  BY InitIInv
<1>2. BlocksInOrder  BY DEF Init, BlocksInOrder, Within
<1>3. RecordsFollowHeap  BY DEF Init, RecordsFollowHeap
<1>4. RecordsAreBlocks  BY DEF Init, RecordsAreBlocks
<1> QED  BY <1>1, <1>2, <1>3, <1>4 DEF HeapInv

LEMMA HeapStep ==
  ASSUME HeapInv, LsanConstants, [Next]_vars
  PROVE  HeapInv'
<1>1. IInv /\ IInv'  BY NextKeeps DEF HeapInv
<1>2. CASE UNCHANGED vars
  <2>1. UNCHANGED <<allocs, live, strayed, pc, call>>  BY <1>2 DEF vars, runtime
  <2>2. Stayed  BY <2>1, <1>1 DEF Stayed, PlacesTyped, IInv, Typing
  <2> QED  BY <2>1, <2>2, <1>1, StayedKeeps
<1>3. CASE Next
  <2>1. PICK t \in Threads :
           \/ \E b \in Blocks : Malloc(t, b) \/ Free(t, b) \/ Ignore(t, b)
           \/ \E r \in Regions : Root(t, r) \/ Unroot(t, r)
           \/ \E op \in CheckOps : Check(t, op)
           \/ \E v \in BOOLEAN : SetDisabled(t, v)
           \/ \E w \in Words, p \in BlockAddrs \cup {Null} : Store(t, w, p)
           \/ Acquire(t) \/ RegisterAlloc(t) \/ UnregisterAlloc(t) \/ RegisterRoot(t)
           \/ UnregisterRoot(t) \/ IgnoreObject(t) \/ Checking(t) \/ EndCheck(t)
    BY <1>1, <1>3, NextIsOneOf
  <2>2. ASSUME NEW b \in Blocks, Malloc(t, b) PROVE HeapInv'
    <3>1. CASE ~disabled  BY <2>2, <3>1, MallocKeepsHeap
    <3>2. CASE disabled
      <4>1. Stayed  BY <1>1, <2>2, <3>2, MallocKeeps
      <4>2. /\ b \notin live /\ live' = live \cup {b} /\ strayed' = strayed \cup {b.addr}
            /\ allocs' = allocs
        BY <2>2, <3>2 DEF Malloc, runtime
      <4>3. \A u \in Threads : Within(u, BlockOps) => call[u].arg # b
        BY <4>2 DEF HeapInv, BlocksInOrder
      <4> QED  BY <1>1, <4>1, <4>2, <4>3, StrayKeeps
    <3> QED  BY <3>1, <3>2
  <2>3. ASSUME NEW b \in Blocks, Free(t, b) PROVE HeapInv'
    <3>0. b \in InHand /\ ~InHook("ignore", b)  BY <2>3 DEF Free
    <3>1. CASE ~disabled
      <4>1. Entered(t, "free", b)  BY <1>1, <2>3, <3>1, FreeKeeps
      <4>2. UNCHANGED <<allocs, live, strayed>>  BY <2>3, <3>1 DEF Free, Enter
      <4> QED  BY <1>1, <3>0, <4>1, <4>2, EnterBlockKeeps
    <3>2. CASE disabled
      <4>1. Stayed  BY <1>1, <2>3, <3>2, FreeKeeps
      <4>2. live' = live \ {b} /\ strayed' = strayed \cup {b.addr} /\ allocs' = allocs
        BY <2>3, <3>2 DEF Free, runtime
      <4>3. ASSUME NEW u \in Threads, Within(u, BlockOps) PROVE call[u].arg # b
        <5>1. ~InHook("alloc", b) /\ ~InHook("free", b)  BY <3>0 DEF InHand
        <5>2. \A op \in BlockOps : ~(Within(u, {op}) /\ call[u].arg = b)
          BY <1>1, <3>0, <5>1, InHookIs DEF BlockOps
        <5> QED  BY <4>3, <5>2 DEF Within
      <4> QED  BY <1>1, <4>1, <4>2, <4>3, StrayKeeps
    <3> QED  BY <3>1, <3>2
  <2>4. ASSUME NEW b \in Blocks, Ignore(t, b) PROVE HeapInv'
    <3>1. Entered(t, "ignore", b)  BY <1>1, <2>4, IgnoreKeeps
    <3>2. b \in InHand /\ UNCHANGED <<allocs, live, strayed>>
      BY <2>4 DEF Ignore, Enter
    <3> QED  BY <1>1, <3>1, <3>2, EnterBlockKeeps
  <2>5. ASSUME NEW r \in Regions, Root(t, r) \/ Unroot(t, r) PROVE HeapInv'
    <3>1. Entered(t, "root", r) \/ Entered(t, "unroot", r)  BY <1>1, <2>5, RootKeeps, UnrootKeeps
    <3>2. UNCHANGED <<allocs, live, strayed>>  BY <2>5 DEF Root, Unroot, Enter
    <3>3. "root" \notin BlockOps /\ "unroot" \notin BlockOps  BY DEF BlockOps
    <3> QED  BY <1>1, <3>1, <3>2, <3>3, EnteredKeeps
  <2>6. ASSUME NEW op \in CheckOps, Check(t, op) PROVE HeapInv'
    <3>1. Entered(t, op, NoArg)  BY <1>1, <2>6, CheckKeeps
    <3>2. UNCHANGED <<allocs, live, strayed>>  BY <2>6 DEF Check, Enter
    <3>3. op \notin BlockOps  BY DEF BlockOps, CheckOps
    <3> QED  BY <1>1, <3>1, <3>2, <3>3, EnteredKeeps
  <2>7. ASSUME NEW v \in BOOLEAN, SetDisabled(t, v) PROVE HeapInv'
    <3>1. Stayed  BY <1>1, <2>7, SetDisabledKeeps
    <3>2. UNCHANGED <<allocs, live, strayed>>  BY <2>7 DEF SetDisabled, runtime
    <3> QED  BY <1>1, <3>1, <3>2, StayedKeeps
  <2>8. ASSUME NEW w \in Words, NEW p \in BlockAddrs \cup {Null}, Store(t, w, p) PROVE HeapInv'
    <3>1. Stayed  BY <1>1, <2>8, StoreKeeps
    <3>2. UNCHANGED <<allocs, live, strayed>>  BY <2>8 DEF Store, runtime
    <3> QED  BY <1>1, <3>1, <3>2, StayedKeeps
  <2>9. CASE Acquire(t)
    <3>1. Stayed  BY <1>1, <2>9, AcquireKeeps
    <3>2. UNCHANGED <<allocs, live, strayed>>  BY <2>9 DEF Acquire
    <3> QED  BY <1>1, <3>1, <3>2, StayedKeeps
  <2>10. CASE RegisterAlloc(t)  BY <2>10, RegisterAllocKeepsHeap
  <2>11. CASE UnregisterAlloc(t)  BY <2>11, UnregisterAllocKeepsHeap
  <2>12. CASE RegisterRoot(t) \/ UnregisterRoot(t)
    <3>1. Left(t) /\ call[t].op # "alloc"  BY <1>1, <2>12, RegisterRootKeeps, UnregisterRootKeeps
    <3>2. UNCHANGED <<allocs, live, strayed>>  BY <2>12 DEF RegisterRoot, UnregisterRoot
    <3>3. SameRecords  BY <3>2 DEF SameRecords
    <3> QED  BY <1>1, <3>1, <3>2, <3>3, LeftKeeps
  <2>13. CASE IgnoreObject(t)
    <3>1. Left(t) /\ SameRecords  BY <1>1, <2>13, IgnoreObjectKeeps DEF SameRecords
    <3>2. UNCHANGED <<live, strayed>> /\ call[t].op # "alloc"  BY <2>13 DEF IgnoreObject, In
    <3> QED  BY <1>1, <3>1, <3>2, LeftKeeps
  <2>14. CASE Checking(t)
    <3>1. Stayed  BY <1>1, <2>14, CheckingKeeps
    <3>2. UNCHANGED <<allocs, live, strayed>>  BY <2>14, CheckingIsQuiet
    <3> QED  BY <1>1, <3>1, <3>2, StayedKeeps
  <2>15. CASE EndCheck(t)
    <3>1. (Stayed \/ Left(t)) /\ call[t].op \in CheckOps  BY <1>1, <2>15, EndCheckKeeps
    <3>2. UNCHANGED <<allocs, live, strayed>>  BY <2>15, CheckingIsQuiet
    <3>3. SameRecords  BY <3>2 DEF SameRecords
    <3>4. call[t].op # "alloc"  BY <3>1 DEF CheckOps
    <3> QED  BY <1>1, <3>1, <3>2, <3>3, <3>4, StayedKeeps, LeftKeeps
  <2> QED  BY <2>1, <2>2, <2>3, <2>4, <2>5, <2>6, <2>7, <2>8, <2>9, <2>10, <2>11, <2>12, <2>13,
              <2>14, <2>15
<1> QED  BY <1>2, <1>3

LEMMA HeapInvariance == Spec => []HeapInv
<1>1. Init => HeapInv  BY HeapInit, LsanConstants
<1>2. HeapInv /\ [Next]_vars => HeapInv'  BY HeapStep, LsanConstants
<1> QED  BY <1>1, <1>2, PTL DEF Spec

\* Of the addresses whose block was never got or given back with the tracker off,
\* every active record is a block of the program, no block has two, and none is
\* missing unless the table is full.
THEOREM HeapIsTracked == Spec => []RecordsFollowHeap
<1>1. HeapInv => RecordsFollowHeap  BY DEF HeapInv
<1> QED  BY <1>1, HeapInvariance, PTL

---------------------------------------------------------------------------------
(* What a leak check reads. *)

LEMMA PartsAre ==
  ASSUME IInv
  PROVE  /\ Len(Parts) = Len(roots) + Len(allocs)
         /\ Len(roots) \in Nat /\ Len(allocs) \in Nat
         /\ DOMAIN roots = 1 .. Len(roots) /\ DOMAIN allocs = 1 .. Len(allocs)
         /\ \A i \in 1 .. Len(roots) : Parts[i] = roots[i]
         /\ \A i \in 1 .. Len(allocs) :
              /\ Parts[Len(roots) + i].addr = allocs[i].addr
              /\ Parts[Len(roots) + i].size = ReadSize(allocs[i])
<1> DEFINE n == Len(roots) + Len(allocs)
           R(i) == [addr |-> allocs[i].addr, size |-> ReadSize(allocs[i])]
           part(i) == IF i <= Len(roots) THEN roots[i] ELSE R(i - Len(roots))
           X == {part(i) : i \in 1 .. n}
<1>1. /\ Len(roots) \in Nat /\ Len(allocs) \in Nat
      /\ DOMAIN roots = 1 .. Len(roots) /\ DOMAIN allocs = 1 .. Len(allocs)
  BY DEF IInv, Typing
<1>2. Parts = [i \in 1 .. n |-> part(i)]  BY Zenon DEF Parts
<1> HIDE DEF R
<1>3. Parts \in [1 .. n -> X]  BY <1>2
<1> HIDE DEF X
<1>4. n \in Nat  BY <1>1
<1>5. Parts \in Seq(X) /\ Len(Parts) = n
  <2> DEFINE s == Parts
             m == n
  <2>1. s \in [1 .. m -> X] /\ m \in Nat  BY <1>3, <1>4
  <2> HIDE DEF s, m
  <2>2. s \in UNION {[1 .. k -> X] : k \in Nat}  BY <2>1
  <2>3. s \in Seq(X)  BY <2>2, SeqDef, Zenon
  <2>4. Len(s) \in Nat /\ 1 .. Len(s) = 1 .. m  BY <2>1, <2>3
  <2>5. Len(s) = m
    <3>1. CASE m = 0  BY <2>1, <2>4, <3>1
    <3>2. CASE m > 0
      <4>1. m \in 1 .. Len(s)  BY <2>1, <2>4, <3>2
      <4>2. Len(s) \in 1 .. m  BY <2>4, <4>1
      <4> QED  BY <2>1, <2>4, <4>1, <4>2
    <3> QED  BY <2>1, <3>1, <3>2
  <2> QED  BY <2>3, <2>5 DEF s, m
<1>6. \A i \in 1 .. Len(roots) : Parts[i] = roots[i]  BY <1>1, <1>2
<1>7. \A i \in 1 .. Len(allocs) : Parts[Len(roots) + i] = R(i)
  <2> SUFFICES ASSUME NEW i \in 1 .. Len(allocs) PROVE Parts[Len(roots) + i] = R(i)
    OBVIOUS
  <2>1. Len(roots) + i \in 1 .. n /\ ~(Len(roots) + i <= Len(roots)) /\ Len(roots) + i - Len(roots) = i
    BY <1>1
  <2>2. Parts[Len(roots) + i] = part(Len(roots) + i)  BY <1>2, <2>1
  <2>3. part(Len(roots) + i) = R(Len(roots) + i - Len(roots))  BY <2>1
  <2> QED  BY <2>1, <2>2, <2>3
<1>8. \A i : R(i).addr = allocs[i].addr /\ R(i).size = ReadSize(allocs[i])  BY DEF R
<1> QED  BY <1>1, <1>5, <1>6, <1>7, <1>8

LEMMA PartSizeIsNat ==
  ASSUME IInv, LsanConstants, NEW p \in 1 .. Len(Parts)
  PROVE  Parts[p].size \in Nat
<1>1. CASE p \in 1 .. Len(roots)
  <2>1. Parts[p] = roots[p]  BY <1>1, PartsAre
  <2>2. roots[p] \in Regions  BY <1>1 DEF IInv, Typing
  <2> QED  BY <2>1, <2>2 DEF LsanConstants
<1>2. CASE p \notin 1 .. Len(roots)
  <2> DEFINE i == p - Len(roots)
  <2>1. i \in 1 .. Len(allocs) /\ p = Len(roots) + i  BY <1>2, PartsAre
  <2> HIDE DEF i
  <2>2. Parts[p].size = ReadSize(allocs[i])  BY <2>1, PartsAre
  <2>3. allocs[i] \in Record  BY <2>1, PartsAre DEF IInv, Typing
  <2> QED  BY <2>2, <2>3 DEF ReadSize, Record
<1> QED  BY <1>1, <1>2

\* A leak check reads only blocks the program has not given back, regions, and
\* blocks got or given back with the tracker off.
THEOREM ChecksReadOwnedMemory == Spec => ReadsOwnedMemory
<1> DEFINE Owned == live \cup Regions \cup {b \in Blocks : b.addr \in strayed}
<1>1. ASSUME HeapInv, NEW t \in Threads, ReadWord(t)
      PROVE  \E r \in Owned : Parts[scan.part].addr + scan.word \in WordsOf(r)
  <2> DEFINE p == Parts[scan.part]
  <2>0. IInv  BY <1>1 DEF HeapInv
  <2>1. scan.part <= Len(Parts) /\ scan.word < p.size  BY <1>1 DEF ReadWord
  <2>2. scan.part \in Nat \ {0} /\ scan.word \in Nat  BY <2>0 DEF IInv, Typing
  <2>3. \A r \in Blocks \cup Regions : r.addr \in Nat /\ r.size \in Nat  BY LsanConstants DEF LsanConstants
  <2>4. \E r \in Owned : r.addr = p.addr /\ r.size = p.size
    <3>1. CASE scan.part <= Len(roots)
      <4>1. p = roots[scan.part] /\ scan.part \in 1 .. Len(roots)  BY <3>1, <2>0, <2>2, PartsAre
      <4>2. p \in Regions  BY <4>1, <2>0 DEF IInv, Typing
      <4> QED  BY <4>2
    <3>2. CASE scan.part > Len(roots)
      <4> DEFINE i == scan.part - Len(roots)
      <4>0. /\ Len(Parts) = Len(roots) + Len(allocs)
            /\ Len(roots) \in Nat /\ Len(allocs) \in Nat
        BY <2>0, PartsAre
      <4>1. i \in 1 .. Len(allocs) /\ scan.part = Len(roots) + i
        <5>1. scan.part <= Len(Parts)  BY <2>1
        <5> HIDE DEF p, Owned
        <5> QED  BY <3>2, <2>2, <4>0, <5>1
      <4> HIDE DEF i
      <4>2. p.addr = allocs[i].addr /\ p.size = ReadSize(allocs[i]) /\ i \in DOMAIN allocs
        BY <4>1, <2>0, PartsAre
      <4>3. Active(allocs[i]) /\ p.size = allocs[i].size
        BY <4>2, <2>1, <2>2 DEF ReadSize
      <4>4. CASE allocs[i].addr \notin strayed
        BY <4>2, <4>3, <4>4, <1>1 DEF HeapInv, RecordsFollowHeap
      <4>5. CASE allocs[i].addr \in strayed
        <5>1. PICK b \in Blocks : b.addr = allocs[i].addr /\ b.size = allocs[i].size
          BY <4>2, <1>1 DEF HeapInv, RecordsAreBlocks
        <5> QED  BY <4>2, <4>3, <4>5, <5>1
      <4> QED  BY <4>4, <4>5
    <3> QED  BY <3>1, <3>2, <2>2, <2>0, PartsAre
  <2>5. PICK r \in Owned : r.addr = p.addr /\ r.size = p.size  BY <2>4
  <2>6. r \in Blocks \cup Regions  BY <2>0 DEF IInv, Typing
  <2> HIDE DEF p
  <2>7. /\ p.addr \in Nat /\ p.size \in Nat /\ scan.word \in Nat /\ scan.word < p.size
        /\ WordsOf(r) = p.addr .. p.addr + p.size - 1
    BY <2>1, <2>2, <2>3, <2>5, <2>6 DEF WordsOf
  <2>8. \A a, n, w \in Nat : w < n => a + w \in a .. a + n - 1  OBVIOUS
  <2>9. p.addr + scan.word \in p.addr .. p.addr + p.size - 1  BY <2>7, <2>8, Zenon
  <2>10. p.addr + scan.word \in WordsOf(r)  BY <2>7, <2>9, Zenon
  <2> QED  BY <2>10 DEF p
<1>2. HeapInv => \A t \in Threads : ReadWord(t) =>
        \E r \in live \cup Regions \cup {b \in Blocks : b.addr \in strayed} :
          Parts[scan.part].addr + scan.word \in WordsOf(r)
  BY <1>1
<1> QED  BY <1>2, HeapInvariance, PTL DEF ReadsOwnedMemory

---------------------------------------------------------------------------------
(* The roots are the regions the program counts on. *)

RootInv == IInv /\ RootsInOrder /\ RootsAreDeclared

\* Roots that are all different, but for one region, leave room in a table
\* that takes all regions.
LEMMA RoomForRoot ==
  ASSUME LsanConstants, roots \in Seq(Regions), NEW r \in Regions,
         \A i \in DOMAIN roots : roots[i] # r,
         \A i, j \in DOMAIN roots : roots[i] = roots[j] => i = j,
         MaxRoots >= Cardinality(Regions)
  PROVE  Len(roots) < MaxRoots
<1> DEFINE n == Len(roots)
           T == Regions \ {r}
<1>1. n \in Nat /\ DOMAIN roots = 1 .. n  OBVIOUS
<1>2. roots \in Injection(1 .. n, T)
  <2>1. roots \in [1 .. n -> T]  BY <1>1
  <2>2. IsInjective(roots)  BY <1>1 DEF IsInjective
  <2> QED  BY <2>1, <2>2 DEF Injection
<1>3. IsFiniteSet(Regions)  BY DEF LsanConstants
<1>4. /\ IsFiniteSet(T) /\ Cardinality(T) = Cardinality(Regions) - 1
      /\ Cardinality(Regions) \in Nat
  BY <1>3, FS_RemoveElement, FS_CardinalityType
<1>5. Cardinality(1 .. n) <= Cardinality(T)  BY <1>2, <1>4, FS_Injection
<1>6. Cardinality(1 .. n) = n
  <2>1. \A m \in Nat : Cardinality(1 .. m) = m
    <3> TAKE m \in Nat
    <3>1. 1 \in Int /\ m \in Int  OBVIOUS
    <3>2. Cardinality(1 .. m) = IF 1 > m THEN 0 ELSE m - 1 + 1  BY <3>1, FS_Interval, Zenon
    <3> QED  BY <3>2
  <2> QED  BY <1>1, <2>1, Zenon
<1>7. MaxRoots \in Nat  BY DEF LsanConstants
<1> QED  BY <1>1, <1>4, <1>5, <1>6, <1>7

\* Steps that leave the roots alone, and who is in a hook of a root.
LEMMA SameRootsKeep ==
  ASSUME RootInv, IInv', UNCHANGED <<roots, declared>>,
         \A u \in Threads : /\ Within(u, RootOps)' <=> Within(u, RootOps)
                            /\ Within(u, RootOps) => call'[u] = call[u]
  PROVE  RootInv'
<1>1. \A u \in Threads : Within(u, RootOps)' => call'[u].arg = call[u].arg  OBVIOUS
<1>2. \A u \in Threads : Within(u, {"root"})' => Within(u, {"root"}) /\ call'[u] = call[u]
  BY DEF Within, RootOps
<1>3. ASSUME NEW r, InHook("unroot", r) PROVE InHook("unroot", r)'
  <2>1. PICK u \in Threads : pc[u] # "run" /\ call[u] = [op |-> "unroot", arg |-> r]
    BY <1>3 DEF InHook
  <2>2. Within(u, RootOps)  BY <2>1 DEF Within, RootOps
  <2>3. pc'[u] # "run" /\ call'[u] = call[u]  BY <2>2 DEF Within
  <2> QED  BY <2>1, <2>3 DEF InHook
<1>4. RootsInOrder'  BY <1>1, <1>2 DEF RootInv, RootsInOrder
<1>5. RootsAreDeclared'  BY <1>3 DEF RootInv, RootsAreDeclared
<1> QED  BY <1>4, <1>5 DEF RootInv

LEMMA StayedKeepsRoots ==
  ASSUME RootInv, IInv', Stayed, UNCHANGED <<roots, declared>>
  PROVE  RootInv'
<1>1. \A u \in Threads : /\ Within(u, RootOps)' <=> Within(u, RootOps)
                         /\ Within(u, RootOps) => call'[u] = call[u]
  BY DEF Stayed, Within
<1> QED  BY <1>1, SameRootsKeep

LEMMA EnteredKeepsRoots ==
  ASSUME RootInv, IInv', NEW t \in Threads, NEW op, op \notin RootOps, NEW r, Entered(t, op, r),
         UNCHANGED <<roots, declared>>
  PROVE  RootInv'
<1>1. \A u \in Threads : /\ Within(u, RootOps)' <=> Within(u, RootOps)
                         /\ Within(u, RootOps) => call'[u] = call[u]
  BY DEF Entered, Others, Within
<1> QED  BY <1>1, SameRootsKeep

LEMMA LeftKeepsRoots ==
  ASSUME RootInv, IInv', NEW t \in Threads, call[t].op \notin RootOps, Left(t),
         UNCHANGED <<roots, declared>>
  PROVE  RootInv'
<1>1. \A u \in Threads : /\ Within(u, RootOps)' <=> Within(u, RootOps)
                         /\ Within(u, RootOps) => call'[u] = call[u]
  BY DEF Left, Others, Within
<1> QED  BY <1>1, SameRootsKeep

\* A region that is in a hook of a root, said of threads.
LEMMA NotInRootHook ==
  ASSUME IInv, NEW r, ~InHook("root", r), ~InHook("unroot", r), NEW u \in Threads, Within(u, RootOps)
  PROVE  call[u].arg # r
<1>1. ~(Within(u, {"root"}) /\ call[u].arg = r) /\ ~(Within(u, {"unroot"}) /\ call[u].arg = r)
  BY InHookIs
<1> QED  BY <1>1 DEF Within, RootOps

LEMMA RootKeepsRoots ==
  ASSUME RootInv, LsanConstants, NEW t \in Threads, NEW r \in Regions, Root(t, r)
  PROVE  RootInv'
<1>a. IInv  BY DEF RootInv
<1>1. IInv' /\ Entered(t, "root", r)  BY <1>a, RootKeeps
<1>2. r \notin declared /\ ~InHook("root", r) /\ ~InHook("unroot", r) /\ UNCHANGED <<roots, declared>>
  BY DEF Root, Enter
<1>3. \A u \in Threads : u # t => pc'[u] = pc[u] /\ call'[u] = call[u]
  BY <1>1 DEF Entered, Others
<1>4. pc[t] = "run" /\ pc'[t] = "spin" /\ call'[t].op = "root" /\ call'[t].arg = r
  BY <1>1 DEF Entered
<1>5. \A u \in Threads : \A ops : u # t => (Within(u, ops)' <=> Within(u, ops))
  BY <1>3 DEF Within
<1>6. \A u \in Threads : Within(u, RootOps) => call[u].arg # r /\ call[u].arg \notin declared
  BY <1>a, <1>2, NotInRootHook DEF RootInv, RootsInOrder
<1>7. \A u \in Threads : Within(u, RootOps)' => call'[u].arg \notin declared'
  BY <1>2, <1>3, <1>4, <1>5, <1>6
<1>8. \A u, v \in Threads : (u # v /\ Within(u, RootOps)' /\ Within(v, RootOps)') => call'[u].arg # call'[v].arg
  <2> SUFFICES ASSUME NEW u \in Threads, NEW v \in Threads, u # v, Within(u, RootOps)', Within(v, RootOps)'
               PROVE  call'[u].arg # call'[v].arg
    OBVIOUS
  <2>1. CASE u = t  BY <2>1, <1>3, <1>4, <1>5, <1>6
  <2>2. CASE v = t  BY <2>2, <1>3, <1>4, <1>5, <1>6
  <2>3. CASE u # t /\ v # t
    <3>1. Within(u, RootOps) /\ Within(v, RootOps)  BY <2>3, <1>5
    <3>2. call[u].arg # call[v].arg  BY <3>1 DEF RootInv, RootsInOrder
    <3> QED  BY <3>2, <2>3, <1>3
  <2> QED  BY <2>1, <2>2, <2>3
<1>9. \A i \in DOMAIN roots : roots[i] # r
  BY <1>2 DEF RootInv, RootsAreDeclared
<1>10. \A u \in Threads : Within(u, {"root"})' => \A i \in DOMAIN roots' : roots'[i] # call'[u].arg
  <2> SUFFICES ASSUME NEW u \in Threads, Within(u, {"root"})'
               PROVE  \A i \in DOMAIN roots' : roots'[i] # call'[u].arg
    OBVIOUS
  <2>1. CASE u = t  BY <2>1, <1>2, <1>4, <1>9
  <2>2. CASE u # t
    BY <2>2, <1>2, <1>3, <1>5 DEF RootInv, RootsInOrder
  <2> QED  BY <2>1, <2>2
<1>11. RootsInOrder'  BY <1>7, <1>8, <1>10 DEF RootsInOrder
<1>12. ASSUME NEW q, InHook("unroot", q) PROVE InHook("unroot", q)'
  <2>1. PICK u \in Threads : pc[u] # "run" /\ call[u] = [op |-> "unroot", arg |-> q]
    BY <1>12 DEF InHook
  <2>2. pc'[u] # "run" /\ call'[u] = call[u]  BY <2>1, <1>3, <1>4
  <2> QED  BY <2>1, <2>2 DEF InHook
<1>13. RootsAreDeclared'  BY <1>2, <1>12 DEF RootInv, RootsAreDeclared
<1> QED  BY <1>1, <1>11, <1>13 DEF RootInv

LEMMA UnrootKeepsRoots ==
  ASSUME RootInv, LsanConstants, NEW t \in Threads, NEW r \in Regions, Unroot(t, r)
  PROVE  RootInv'
<1>a. IInv  BY DEF RootInv
<1>1. IInv' /\ Entered(t, "unroot", r)  BY <1>a, UnrootKeeps
<1>2. r \in declared /\ declared' = declared \ {r} /\ roots' = roots
  BY DEF Unroot, Enter
<1>3. \A u \in Threads : u # t => pc'[u] = pc[u] /\ call'[u] = call[u]
  BY <1>1 DEF Entered, Others
<1>4. pc[t] = "run" /\ pc'[t] = "spin" /\ call'[t].op = "unroot" /\ call'[t].arg = r
  BY <1>1 DEF Entered
<1>b. call'[t] = [op |-> "unroot", arg |-> r]
  BY <1>4, <1>1 DEF Entered, PlacesTyped, Call
<1>5. \A u \in Threads : \A ops : u # t => (Within(u, ops)' <=> Within(u, ops))
  BY <1>3 DEF Within
<1>6. \A u \in Threads : Within(u, RootOps) => call[u].arg # r /\ call[u].arg \notin declared
  BY <1>2 DEF RootInv, RootsInOrder
<1>7. \A u \in Threads : Within(u, RootOps)' => call'[u].arg \notin declared'
  BY <1>2, <1>3, <1>4, <1>5, <1>6
<1>8. \A u, v \in Threads : (u # v /\ Within(u, RootOps)' /\ Within(v, RootOps)') => call'[u].arg # call'[v].arg
  <2> SUFFICES ASSUME NEW u \in Threads, NEW v \in Threads, u # v, Within(u, RootOps)', Within(v, RootOps)'
               PROVE  call'[u].arg # call'[v].arg
    OBVIOUS
  <2>1. CASE u = t  BY <2>1, <1>3, <1>4, <1>5, <1>6
  <2>2. CASE v = t  BY <2>2, <1>3, <1>4, <1>5, <1>6
  <2>3. CASE u # t /\ v # t
    <3>1. Within(u, RootOps) /\ Within(v, RootOps)  BY <2>3, <1>5
    <3>2. call[u].arg # call[v].arg  BY <3>1 DEF RootInv, RootsInOrder
    <3> QED  BY <3>2, <2>3, <1>3
  <2> QED  BY <2>1, <2>2, <2>3
<1>10. \A u \in Threads : Within(u, {"root"})' => \A i \in DOMAIN roots' : roots'[i] # call'[u].arg
  <2> SUFFICES ASSUME NEW u \in Threads, Within(u, {"root"})'
               PROVE  \A i \in DOMAIN roots' : roots'[i] # call'[u].arg
    OBVIOUS
  <2>1. u # t  BY <1>4 DEF Within
  <2> QED  BY <2>1, <1>2, <1>3, <1>5 DEF RootInv, RootsInOrder
<1>11. RootsInOrder'  BY <1>7, <1>8, <1>10 DEF RootsInOrder
<1>12. ASSUME NEW q, InHook("unroot", q) PROVE InHook("unroot", q)'
  <2>1. PICK u \in Threads : pc[u] # "run" /\ call[u] = [op |-> "unroot", arg |-> q]
    BY <1>12 DEF InHook
  <2>2. pc'[u] # "run" /\ call'[u] = call[u]  BY <2>1, <1>3, <1>4
  <2> QED  BY <2>1, <2>2 DEF InHook
<1>c. InHook("unroot", r)'  BY <1>b, <1>4 DEF InHook
<1>14. \A i \in DOMAIN roots' : roots'[i] \in declared' \/ InHook("unroot", roots[i])'
  <2> SUFFICES ASSUME NEW i \in DOMAIN roots
               PROVE  roots[i] \in declared' \/ InHook("unroot", roots[i])'
    BY <1>2
  <2>1. roots[i] \in declared \/ InHook("unroot", roots[i])  BY DEF RootInv, RootsAreDeclared
  <2>2. CASE roots[i] = r
    BY <1>b, <1>4, <2>2, <1>2 DEF InHook
  <2>3. CASE roots[i] # r /\ roots[i] \in declared  BY <2>3, <1>2
  <2>4. CASE InHook("unroot", roots[i])
    <3>1. PICK u \in Threads : pc[u] # "run" /\ call[u] = [op |-> "unroot", arg |-> roots[i]]
      BY <2>4 DEF InHook
    <3>2. pc'[u] # "run" /\ call'[u] = [op |-> "unroot", arg |-> roots'[i]]
      BY <3>1, <1>3, <1>4, <1>2
    <3> QED  BY <3>2 DEF InHook
  <2> QED  BY <2>1, <2>2, <2>3, <2>4
<1>13. RootsAreDeclared'  BY <1>2, <1>14 DEF RootInv, RootsAreDeclared
<1> QED  BY <1>1, <1>11, <1>13 DEF RootInv

LEMMA RegisterRootKeepsRoots ==
  ASSUME RootInv, LsanConstants, NEW t \in Threads, RegisterRoot(t)
  PROVE  RootInv'
<1> DEFINE r == call[t].arg
           n == Len(roots) + 1
<1>a. IInv  BY DEF RootInv
<1>1. /\ IInv' /\ Left(t) /\ call[t].op = "root" /\ r \in Regions /\ declared' = declared \cup {r}
      /\ \/ Len(roots) >= MaxRoots /\ roots' = roots
         \/ /\ Len(roots) < MaxRoots /\ DOMAIN roots' = DOMAIN roots \cup {n}
            /\ \A i \in DOMAIN roots : roots'[i] = roots[i]
            /\ roots'[n] = r
  BY <1>a, RegisterRootKeeps
<1>2. pc[t] # "run" /\ pc'[t] = "run" /\ \A u \in Threads : u # t => pc'[u] = pc[u] /\ call'[u] = call[u]
  BY <1>1 DEF Left, Others
<1>3. \A u \in Threads : \A ops : Within(u, ops)' => u # t /\ Within(u, ops) /\ call'[u] = call[u]
  BY <1>2 DEF Within
<1>4. Within(t, {"root"}) /\ Within(t, RootOps)  BY <1>1, <1>2 DEF Within, RootOps
<1>5. \A i \in DOMAIN roots : roots[i] # r  BY <1>4 DEF RootInv, RootsInOrder
<1>6. \A u \in Threads : u # t /\ Within(u, RootOps) => call[u].arg # r
  BY <1>4 DEF RootInv, RootsInOrder
<1>b. roots \in Seq(Regions) /\ n \notin DOMAIN roots  BY <1>a DEF IInv, Typing
<1>7. MaxRoots >= Cardinality(Regions) => Len(roots) < MaxRoots
  BY <1>1, <1>5, <1>b, RoomForRoot DEF RootInv, RootsAreDeclared
<1>c. Len(roots) \in Nat /\ MaxRoots \in Nat  BY <1>b DEF LsanConstants
<1>d. r \notin declared  BY <1>4 DEF RootInv, RootsInOrder
<1> HIDE DEF r, n
<1>8. \A u \in Threads : Within(u, RootOps)' => call'[u].arg \notin declared'
  BY <1>1, <1>3, <1>6 DEF RootInv, RootsInOrder
<1>9. \A u, v \in Threads : (u # v /\ Within(u, RootOps)' /\ Within(v, RootOps)') => call'[u].arg # call'[v].arg
  BY <1>3 DEF RootInv, RootsInOrder
<1>10. \A i \in DOMAIN roots' : (i \in DOMAIN roots /\ roots'[i] = roots[i]) \/ (i = n /\ roots'[i] = r)
  BY <1>1
<1>11. \A u \in Threads : Within(u, {"root"})' => \A i \in DOMAIN roots' : roots'[i] # call'[u].arg
  <2> SUFFICES ASSUME NEW u \in Threads, Within(u, {"root"})', NEW i \in DOMAIN roots'
               PROVE  roots'[i] # call'[u].arg
    OBVIOUS
  <2>1. u # t /\ Within(u, {"root"}) /\ call'[u] = call[u]  BY <1>3
  <2>2. Within(u, RootOps)  BY <2>1 DEF Within, RootOps
  <2>3. call[u].arg # r  BY <1>6, <2>1, <2>2
  <2> QED  BY <2>1, <2>3, <1>10 DEF RootInv, RootsInOrder
<1>12. RootsInOrder'  BY <1>8, <1>9, <1>11 DEF RootsInOrder
<1>14. \A i \in DOMAIN roots' : roots'[i] \in declared' \/ InHook("unroot", roots[i])'
  <2> SUFFICES ASSUME NEW i \in DOMAIN roots'
               PROVE  roots'[i] \in declared' \/ InHook("unroot", roots[i])'
    OBVIOUS
  <2>1. CASE i = n /\ roots'[i] = r  BY <2>1, <1>1
  <2>2. CASE i \in DOMAIN roots /\ roots'[i] = roots[i]
    <3>1. roots[i] \in declared \/ InHook("unroot", roots[i])  BY <2>2 DEF RootInv, RootsAreDeclared
    <3>2. CASE roots[i] \in declared  BY <2>2, <3>2, <1>1
    <3>3. CASE InHook("unroot", roots[i])
      <4>1. PICK u \in Threads : pc[u] # "run" /\ call[u] = [op |-> "unroot", arg |-> roots[i]]
        BY <3>3 DEF InHook
      <4>2. u # t  BY <1>1, <4>1
      <4>3. pc'[u] # "run" /\ call'[u] = [op |-> "unroot", arg |-> roots'[i]]
        BY <4>1, <4>2, <2>2, <1>2
      <4> QED  BY <4>3 DEF InHook
    <3> QED  BY <3>1, <3>2, <3>3
  <2> QED  BY <2>1, <2>2, <1>10
<1>15. \A i, j \in DOMAIN roots' : roots'[i] = roots'[j] => i = j
  BY <1>5, <1>10 DEF RootInv, RootsAreDeclared
<1>16. ASSUME MaxRoots >= Cardinality(Regions), NEW q \in declared'
       PROVE  \E i \in DOMAIN roots' : roots'[i] = q
  <2>1. /\ DOMAIN roots' = DOMAIN roots \cup {n} /\ roots'[n] = r
        /\ \A i \in DOMAIN roots : roots'[i] = roots[i]
    BY <1>1, <1>7, <1>16, <1>c
  <2>2. CASE q = r  BY <2>1, <2>2
  <2>3. CASE q \in declared
    BY <2>1, <2>3, <1>16 DEF RootInv, RootsAreDeclared
  <2> QED  BY <2>2, <2>3, <1>1, <1>16
<1>17. RootsAreDeclared'  BY <1>14, <1>15, <1>16 DEF RootsAreDeclared
<1> QED  BY <1>1, <1>12, <1>17 DEF RootInv

LEMMA UnregisterRootKeepsRoots ==
  ASSUME RootInv, LsanConstants, NEW t \in Threads, UnregisterRoot(t)
  PROVE  RootInv'
<1> DEFINE r == call[t].arg
<1>a. IInv  BY DEF RootInv
<1>1. /\ IInv' /\ Left(t) /\ call[t].op = "unroot" /\ r \in Regions
      /\ \/ roots' = roots /\ ~\E i \in DOMAIN roots : roots[i] = r
         \/ \E k \in DOMAIN roots :
              /\ roots[k] = r /\ DOMAIN roots' = 1 .. Len(roots) - 1
              /\ \A i \in DOMAIN roots' : roots'[i] = IF i = k THEN roots[Len(roots)] ELSE roots[i]
  BY <1>a, UnregisterRootKeeps
<1>2. /\ pc[t] # "run" /\ pc'[t] = "run"
      /\ \A u \in Threads : u # t => pc'[u] = pc[u] /\ call'[u] = call[u]
  BY <1>1 DEF Left, Others
<1>3. \A u \in Threads : \A ops : Within(u, ops)' => u # t /\ Within(u, ops) /\ call'[u] = call[u]
  BY <1>2 DEF Within
<1>4. Within(t, RootOps)  BY <1>1, <1>2 DEF Within, RootOps
<1>5. r \notin declared /\ declared' = declared  BY <1>4 DEF RootInv, RootsInOrder, UnregisterRoot
<1>b. roots \in Seq(Regions) /\ DOMAIN roots = 1 .. Len(roots) /\ Len(roots) \in Nat
  BY <1>a DEF IInv, Typing
<1>c. \A i, j \in DOMAIN roots : roots[i] = roots[j] => i = j  BY DEF RootInv, RootsAreDeclared
<1> HIDE DEF r
\* Each new root comes from an old one, not the region's, and no two from the
\* same; each old one but the region's is still there.
<1>6. /\ \A i \in DOMAIN roots' : \E j \in DOMAIN roots : roots'[i] = roots[j] /\ roots[j] # r
      /\ \A i, j \in DOMAIN roots' : roots'[i] = roots'[j] => i = j
      /\ \A j \in DOMAIN roots : roots[j] # r => \E i \in DOMAIN roots' : roots'[i] = roots[j]
  <2>1. CASE roots' = roots /\ ~\E i \in DOMAIN roots : roots[i] = r
    BY <2>1, <1>c
  <2>2. CASE \E k \in DOMAIN roots :
              /\ roots[k] = r /\ DOMAIN roots' = 1 .. Len(roots) - 1
              /\ \A i \in DOMAIN roots' : roots'[i] = IF i = k THEN roots[Len(roots)] ELSE roots[i]
    <3>1. PICK k \in DOMAIN roots :
              /\ roots[k] = r /\ DOMAIN roots' = 1 .. Len(roots) - 1
              /\ \A i \in DOMAIN roots' : roots'[i] = IF i = k THEN roots[Len(roots)] ELSE roots[i]
      BY <2>2
    <3> DEFINE m == Len(roots)
    <3>2. k \in 1 .. m /\ m \in Nat /\ m \in DOMAIN roots /\ DOMAIN roots = 1 .. m /\ DOMAIN roots' = 1 .. m - 1
      BY <3>1, <1>b
    <3>3. \A i \in 1 .. m - 1 : roots'[i] = IF i = k THEN roots[m] ELSE roots[i]
      BY <3>1
    <3> HIDE DEF m
    <3>4. \A j \in 1 .. m : roots[j] = r => j = k  BY <3>1, <3>2, <1>c
    <3>5. \A i \in 1 .. m - 1 : \E j \in 1 .. m : j # k /\ roots'[i] = roots[j] /\ (j = m \/ j = i)
                                                  /\ (j = m => i = k)
      <4> SUFFICES ASSUME NEW i \in 1 .. m - 1
                   PROVE  \E j \in 1 .. m : j # k /\ roots'[i] = roots[j] /\ (j = m \/ j = i) /\ (j = m => i = k)
        OBVIOUS
      <4>1. CASE i = k
        <5>1. m \in 1 .. m /\ m # k /\ roots'[i] = roots[m]  BY <3>2, <3>3, <4>1
        <5> QED  BY <5>1, <4>1
      <4>2. CASE i # k
        <5>1. i \in 1 .. m /\ i # m /\ roots'[i] = roots[i]  BY <3>2, <3>3, <4>2
        <5> QED  BY <5>1, <4>2
      <4> QED  BY <4>1, <4>2
    <3>6. \A i \in DOMAIN roots' : \E j \in DOMAIN roots : roots'[i] = roots[j] /\ roots[j] # r
      BY <3>2, <3>4, <3>5
    <3>7. \A i, j \in DOMAIN roots' : roots'[i] = roots'[j] => i = j
      <4> SUFFICES ASSUME NEW i \in 1 .. m - 1, NEW j \in 1 .. m - 1, roots'[i] = roots'[j]
                   PROVE  i = j
        BY <3>2
      <4>1. PICK x \in 1 .. m : roots'[i] = roots[x] /\ (x = m \/ x = i) /\ (x = m => i = k)
        BY <3>5
      <4>2. PICK y \in 1 .. m : roots'[j] = roots[y] /\ (y = m \/ y = j) /\ (y = m => j = k)
        BY <3>5
      <4>3. x = y  BY <4>1, <4>2, <3>2, <1>c
      <4> QED  BY <4>1, <4>2, <4>3
    <3>8. \A j \in DOMAIN roots : roots[j] # r => \E i \in DOMAIN roots' : roots'[i] = roots[j]
      <4> SUFFICES ASSUME NEW j \in 1 .. m, roots[j] # r
                   PROVE  \E i \in 1 .. m - 1 : roots'[i] = roots[j]
        BY <3>2
      <4>1. j # k  BY <3>1
      <4>2. CASE j = m
        <5>1. k \in 1 .. m - 1  BY <4>1, <4>2, <3>2
        <5>2. roots'[k] = roots[m]  BY <5>1, <3>3
        <5> QED  BY <5>1, <5>2, <4>2
      <4>3. CASE j # m
        <5>1. j \in 1 .. m - 1  BY <4>3, <3>2
        <5>2. roots'[j] = roots[j]  BY <5>1, <4>1, <3>3
        <5> QED  BY <5>1, <5>2
      <4> QED  BY <4>2, <4>3
    <3> QED  BY <3>6, <3>7, <3>8
  <2> QED  BY <1>1, <2>1, <2>2
<1>8. \A u \in Threads : Within(u, RootOps)' => call'[u].arg \notin declared'
  BY <1>3, <1>5 DEF RootInv, RootsInOrder
<1>9. \A u, v \in Threads : (u # v /\ Within(u, RootOps)' /\ Within(v, RootOps)') => call'[u].arg # call'[v].arg
  BY <1>3 DEF RootInv, RootsInOrder
<1>11. \A u \in Threads : Within(u, {"root"})' => \A i \in DOMAIN roots' : roots'[i] # call'[u].arg
  BY <1>3, <1>6 DEF RootInv, RootsInOrder
<1>12. RootsInOrder'  BY <1>8, <1>9, <1>11 DEF RootsInOrder
<1>14. \A i \in DOMAIN roots' : roots'[i] \in declared' \/ InHook("unroot", roots[i])'
  <2> SUFFICES ASSUME NEW i \in DOMAIN roots'
               PROVE  roots'[i] \in declared' \/ InHook("unroot", roots[i])'
    OBVIOUS
  <2>1. PICK j \in DOMAIN roots : roots'[i] = roots[j] /\ roots[j] # r  BY <1>6
  <2>2. roots[j] \in declared \/ InHook("unroot", roots[j])  BY DEF RootInv, RootsAreDeclared
  <2>3. CASE roots[j] \in declared  BY <2>1, <2>3, <1>5
  <2>4. CASE InHook("unroot", roots[j])
    <3> DEFINE q == roots[j]
    <3>1. q # r /\ InHook("unroot", q) /\ roots'[i] = q  BY <2>1, <2>4
    <3>2. PICK u \in Threads : pc[u] # "run" /\ call[u] = [op |-> "unroot", arg |-> q]
      BY <3>1 DEF InHook
    <3>3. u # t  BY <3>1, <3>2 DEF r
    <3>4. pc'[u] # "run" /\ call'[u] = [op |-> "unroot", arg |-> q]  BY <3>2, <3>3, <1>2
    <3> QED  BY <3>1, <3>4 DEF InHook
  <2> QED  BY <2>2, <2>3, <2>4
<1>16. ASSUME MaxRoots >= Cardinality(Regions), NEW q \in declared'
       PROVE  \E i \in DOMAIN roots' : roots'[i] = q
  <2>1. q \in declared /\ q # r  BY <1>5, <1>16
  <2>2. PICK j \in DOMAIN roots : roots[j] = q  BY <2>1, <1>16 DEF RootInv, RootsAreDeclared
  <2> QED  BY <2>1, <2>2, <1>6
<1>17. RootsAreDeclared'  BY <1>6, <1>14, <1>16 DEF RootsAreDeclared
<1> QED  BY <1>1, <1>12, <1>17 DEF RootInv

LEMMA RootInit ==
  ASSUME LsanConstants, Init
  PROVE  RootInv
<1>1. IInv  BY InitIInv
<1>2. RootsInOrder  BY DEF Init, RootsInOrder, Within
<1>3. RootsAreDeclared  BY DEF Init, RootsAreDeclared
<1> QED  BY <1>1, <1>2, <1>3 DEF RootInv

LEMMA RootStep ==
  ASSUME RootInv, LsanConstants, [Next]_vars
  PROVE  RootInv'
<1>1. IInv /\ IInv'  BY NextKeeps DEF RootInv
<1>a. "alloc" \notin RootOps /\ "free" \notin RootOps /\ "ignore" \notin RootOps /\ CheckOps \cap RootOps = {}
  BY DEF RootOps, CheckOps
<1>2. CASE UNCHANGED vars
  <2>1. UNCHANGED <<roots, declared, pc, call>>  BY <1>2 DEF vars, runtime
  <2>2. Stayed  BY <2>1, <1>1 DEF Stayed, PlacesTyped, IInv, Typing
  <2> QED  BY <2>1, <2>2, <1>1, StayedKeepsRoots
<1>3. CASE Next
  <2>1. PICK t \in Threads :
           \/ \E b \in Blocks : Malloc(t, b) \/ Free(t, b) \/ Ignore(t, b)
           \/ \E r \in Regions : Root(t, r) \/ Unroot(t, r)
           \/ \E op \in CheckOps : Check(t, op)
           \/ \E v \in BOOLEAN : SetDisabled(t, v)
           \/ \E w \in Words, p \in BlockAddrs \cup {Null} : Store(t, w, p)
           \/ Acquire(t) \/ RegisterAlloc(t) \/ UnregisterAlloc(t) \/ RegisterRoot(t)
           \/ UnregisterRoot(t) \/ IgnoreObject(t) \/ Checking(t) \/ EndCheck(t)
    BY <1>1, <1>3, NextIsOneOf
  <2>2. ASSUME NEW b \in Blocks, Malloc(t, b) \/ Free(t, b) \/ Ignore(t, b) PROVE RootInv'
    <3>1. Stayed \/ \E op \in {"alloc", "free", "ignore"} : Entered(t, op, b)
      BY <1>1, <2>2, MallocKeeps, FreeKeeps, IgnoreKeeps
    <3>2. UNCHANGED <<roots, declared>>  BY <2>2 DEF Malloc, Free, Ignore, Enter, runtime
    <3> QED  BY <1>1, <1>a, <3>1, <3>2, StayedKeepsRoots, EnteredKeepsRoots
  <2>3. ASSUME NEW r \in Regions, Root(t, r) PROVE RootInv'  BY <2>3, RootKeepsRoots
  <2>4. ASSUME NEW r \in Regions, Unroot(t, r) PROVE RootInv'  BY <2>4, UnrootKeepsRoots
  <2>5. ASSUME NEW op \in CheckOps, Check(t, op) PROVE RootInv'
    <3>1. Entered(t, op, NoArg)  BY <1>1, <2>5, CheckKeeps
    <3>2. UNCHANGED <<roots, declared>>  BY <2>5 DEF Check, Enter
    <3> QED  BY <1>1, <1>a, <3>1, <3>2, EnteredKeepsRoots
  <2>6. ASSUME NEW v \in BOOLEAN, SetDisabled(t, v) PROVE RootInv'
    <3>1. Stayed  BY <1>1, <2>6, SetDisabledKeeps
    <3>2. UNCHANGED <<roots, declared>>  BY <2>6 DEF SetDisabled, runtime
    <3> QED  BY <1>1, <3>1, <3>2, StayedKeepsRoots
  <2>7. ASSUME NEW w \in Words, NEW p \in BlockAddrs \cup {Null}, Store(t, w, p) PROVE RootInv'
    <3>1. Stayed  BY <1>1, <2>7, StoreKeeps
    <3>2. UNCHANGED <<roots, declared>>  BY <2>7 DEF Store, runtime
    <3> QED  BY <1>1, <3>1, <3>2, StayedKeepsRoots
  <2>8. CASE Acquire(t)
    <3>1. Stayed  BY <1>1, <2>8, AcquireKeeps
    <3>2. UNCHANGED <<roots, declared>>  BY <2>8 DEF Acquire
    <3> QED  BY <1>1, <3>1, <3>2, StayedKeepsRoots
  <2>9. CASE RegisterAlloc(t) \/ UnregisterAlloc(t) \/ IgnoreObject(t)
    <3>1. Left(t)  BY <1>1, <2>9, RegisterAllocKeeps, UnregisterAllocKeeps, IgnoreObjectKeeps
    <3>2. UNCHANGED <<roots, declared>> /\ call[t].op \in {"alloc", "free", "ignore"}
      BY <2>9 DEF RegisterAlloc, UnregisterAlloc, IgnoreObject, In
    <3> QED  BY <1>1, <1>a, <3>1, <3>2, LeftKeepsRoots
  <2>10. CASE RegisterRoot(t)  BY <2>10, RegisterRootKeepsRoots
  <2>11. CASE UnregisterRoot(t)  BY <2>11, UnregisterRootKeepsRoots
  <2>12. CASE Checking(t)
    <3>1. Stayed  BY <1>1, <2>12, CheckingKeeps
    <3>2. UNCHANGED <<roots, declared>>  BY <2>12, CheckingIsQuiet
    <3> QED  BY <1>1, <3>1, <3>2, StayedKeepsRoots
  <2>13. CASE EndCheck(t)
    <3>1. (Stayed \/ Left(t)) /\ call[t].op \in CheckOps  BY <1>1, <2>13, EndCheckKeeps
    <3>2. UNCHANGED <<roots, declared>>  BY <2>13, CheckingIsQuiet
    <3> QED  BY <1>1, <1>a, <3>1, <3>2, StayedKeepsRoots, LeftKeepsRoots
  <2> QED  BY <2>1, <2>2, <2>3, <2>4, <2>5, <2>6, <2>7, <2>8, <2>9, <2>10, <2>11, <2>12, <2>13
<1> QED  BY <1>2, <1>3

\* After any series of registrations and removals, by any number of threads,
\* the table holds the root regions the program counts on, each once, and no
\* other but those it is removing.
THEOREM RootsAreExact == Spec => []RootsExact
<1>1. Init => RootInv  BY RootInit, LsanConstants
<1>2. RootInv /\ [Next]_vars => RootInv'  BY RootStep, LsanConstants
<1>3. RootInv => RootsExact  BY DEF RootInv, RootsAreDeclared, RootsExact
<1> QED  BY <1>1, <1>2, <1>3, PTL DEF Spec

---------------------------------------------------------------------------------
(* What a leak check finds, while other threads write. *)

LEMMA WordsAre ==
  ASSUME NEW r, r.addr \in Nat, r.size \in Nat, NEW x
  PROVE  x \in WordsOf(r) <=> \E w \in 0 .. r.size - 1 : x = r.addr + w
<1>1. WordsOf(r) = r.addr .. r.addr + r.size - 1  BY DEF WordsOf
<1>2. ASSUME x \in WordsOf(r) PROVE \E w \in 0 .. r.size - 1 : x = r.addr + w
  <2>1. x - r.addr \in 0 .. r.size - 1 /\ x = r.addr + (x - r.addr)  BY <1>1, <1>2
  <2> QED  BY <2>1
<1>3. ASSUME NEW w \in 0 .. r.size - 1, x = r.addr + w PROVE x \in WordsOf(r)
  BY <1>1, <1>3
<1> QED  BY <1>2, <1>3

LEMMA InScanned ==
  ASSUME NEW x
  PROVE  x \in Scanned <=> \/ \E j \in DOMAIN roots : x \in WordsOf(roots[j])
                          \/ \E j \in DOMAIN allocs : Active(allocs[j]) /\ x \in WordsOf(allocs[j])
<1> DEFINE R == {WordsOf(roots[j]) : j \in DOMAIN roots}
           K == {k \in DOMAIN allocs : Active(allocs[k])}
           A == {WordsOf(allocs[j]) : j \in K}
<1>1. Scanned = (UNION R) \cup (UNION A)  BY DEF Scanned
<1>2. x \in UNION R <=> \E j \in DOMAIN roots : x \in WordsOf(roots[j])  OBVIOUS
<1>3. x \in UNION A <=> \E j \in K : x \in WordsOf(allocs[j])
  <2> HIDE DEF K
  <2> QED  OBVIOUS
<1>4. (\E j \in K : x \in WordsOf(allocs[j])) <=>
         \E j \in DOMAIN allocs : Active(allocs[j]) /\ x \in WordsOf(allocs[j])
  OBVIOUS
<1>5. (x \in Scanned) <=> (x \in UNION R) \/ (x \in UNION A)
  <2> HIDE DEF R, A
  <2> QED  BY <1>1
<1> HIDE DEF R, A, K
<1> QED  BY <1>2, <1>3, <1>4, <1>5, Zenon

\* The words a check may look at are those of its parts.
LEMMA ScannedIs ==
  ASSUME IInv, LsanConstants, NEW x
  PROVE  x \in Scanned <=> \E p \in 1 .. Len(Parts) : \E w \in 0 .. Parts[p].size - 1 : x = WordAt(p, w)
<1>1. /\ Len(Parts) = Len(roots) + Len(allocs) /\ Len(roots) \in Nat /\ Len(allocs) \in Nat
      /\ DOMAIN roots = 1 .. Len(roots) /\ DOMAIN allocs = 1 .. Len(allocs)
      /\ \A i \in 1 .. Len(roots) : Parts[i] = roots[i]
      /\ \A i \in 1 .. Len(allocs) :
           /\ Parts[Len(roots) + i].addr = allocs[i].addr
           /\ Parts[Len(roots) + i].size = ReadSize(allocs[i])
  BY PartsAre
<1> DEFINE HasIt(p) == \E w \in 0 .. Parts[p].size - 1 : x = WordAt(p, w)
<1>2. ASSUME NEW j \in 1 .. Len(roots) PROVE x \in WordsOf(roots[j]) <=> HasIt(j)
  <2>1. roots[j] \in Regions  BY <1>1 DEF IInv, Typing
  <2>2. roots[j].addr \in Nat /\ roots[j].size \in Nat  BY <2>1 DEF LsanConstants
  <2>3. x \in WordsOf(roots[j]) <=> \E w \in 0 .. roots[j].size - 1 : x = roots[j].addr + w
    BY <2>2, WordsAre, Zenon
  <2>4. Parts[j] = roots[j]  BY <1>1
  <2> QED  BY <2>3, <2>4, Zenon DEF WordAt
<1>3. ASSUME NEW j \in 1 .. Len(allocs)
      PROVE  (Active(allocs[j]) /\ x \in WordsOf(allocs[j])) <=> HasIt(Len(roots) + j)
  <2> DEFINE o == allocs[j]
             p == Len(roots) + j
  <2>1. o \in Record  BY <1>1 DEF IInv, Typing
  <2>2. o.addr \in Nat /\ o.size \in Nat  BY <2>1 DEF Record, BlockAddrs, LsanConstants
  <2>3. Parts[p].addr = o.addr /\ Parts[p].size = ReadSize(o)  BY <1>1
  <2> HIDE DEF o, p
  <2>4. CASE Active(o)
    <3>1. x \in WordsOf(o) <=> \E w \in 0 .. o.size - 1 : x = o.addr + w
      BY <2>2, WordsAre, Zenon
    <3>2. Parts[p].size = o.size  BY <2>3, <2>4 DEF ReadSize
    <3>3. x \in WordsOf(o) <=> HasIt(p)  BY <3>1, <3>2, <2>3, Zenon DEF WordAt
    <3> QED  BY <2>4, <3>3 DEF o, p
  <2>5. CASE ~Active(o)
    <3>1. Parts[p].size = 0  BY <2>3, <2>5 DEF ReadSize
    <3>2. ~HasIt(p)  BY <3>1
    <3> QED  BY <2>5, <3>2 DEF o, p
  <2> QED  BY <2>4, <2>5
<1>4. x \in Scanned <=> \/ \E j \in 1 .. Len(roots) : x \in WordsOf(roots[j])
                        \/ \E j \in 1 .. Len(allocs) : Active(allocs[j]) /\ x \in WordsOf(allocs[j])
  BY <1>1, InScanned
<1> HIDE DEF HasIt
<1>5. (\E p \in 1 .. Len(Parts) : HasIt(p)) <=>
         (\E j \in 1 .. Len(roots) : HasIt(j)) \/ (\E j \in 1 .. Len(allocs) : HasIt(Len(roots) + j))
  <2>1. ASSUME NEW p \in 1 .. Len(Parts), HasIt(p), p \notin 1 .. Len(roots)
        PROVE  \E j \in 1 .. Len(allocs) : HasIt(Len(roots) + j)
    <3>1. p - Len(roots) \in 1 .. Len(allocs) /\ Len(roots) + (p - Len(roots)) = p
      BY <1>1, <2>1
    <3>2. HasIt(Len(roots) + (p - Len(roots)))  BY <2>1, <3>1, Zenon
    <3> QED  BY <3>1, <3>2, Zenon
  <2>2. \A j \in 1 .. Len(roots) : j \in 1 .. Len(Parts)  BY <1>1
  <2>3. \A j \in 1 .. Len(allocs) : Len(roots) + j \in 1 .. Len(Parts)  BY <1>1
  <2> QED  BY <2>1, <2>2, <2>3, Zenon
<1>6. x \in Scanned <=> \E p \in 1 .. Len(Parts) : HasIt(p)
  BY <1>2, <1>3, <1>4, <1>5, Zenon
<1> QED  BY <1>6 DEF HasIt

LEMMA ScannedAreWords ==
  ASSUME IInv, RecordsAreBlocks
  PROVE  Scanned \subseteq Words
<1>1. ASSUME NEW j \in DOMAIN roots PROVE WordsOf(roots[j]) \subseteq Words
  <2>1. roots[j] \in Regions  BY DEF IInv, Typing
  <2> QED  BY <2>1 DEF Words
<1>2. ASSUME NEW j \in DOMAIN allocs PROVE WordsOf(allocs[j]) \subseteq Words
  <2>1. PICK b \in Blocks : b.addr = allocs[j].addr /\ b.size = allocs[j].size  BY DEF RecordsAreBlocks
  <2>2. WordsOf(allocs[j]) = WordsOf(b)  BY <2>1 DEF WordsOf
  <2> QED  BY <2>2 DEF Words
<1> QED  BY <1>1, <1>2, InScanned

ScanInv == IInv /\ FoundSoFar

LEMMA LockedAlone ==
  ASSUME IInv, NEW t \in Threads, NEW u \in Threads, pc[t] \in Locked, pc[u] \in Locked
  PROVE  t = u
BY DEF IInv, Control

\* What has been found stays true, because what a word has held stays seen.
LEMMA FoundStays ==
  ASSUME UNCHANGED <<allocs, roots>>, \A w \in Words : seen[w] \subseteq seen'[w], FoundBy(scan')
  PROVE  FoundBy(scan)'
<1>1. Parts' = Parts  BY DEF Parts
<1>2. Candidates' = Candidates /\ Scanned' = Scanned
  BY DEF Candidates, Scanned, InsideRoot, WordsOf, Active
<1>3. NeedsNoScan(allocs[scan.obj])' <=> NeedsNoScan(allocs[scan'.obj])
  BY DEF NeedsNoScan, InsideRoot
<1>4. \A p, w : Passed(scan, p, w)' <=> Passed(scan', p, w)  BY DEF Passed
<1>5. \A w, a : (Sometimes(w, a) => Sometimes(w, a)') /\ (NotAlways(w, a) => NotAlways(w, a)')
  BY DEF Sometimes, NotAlways
<1>6. \A p, w : WordAt(p, w)' = WordAt(p, w)  BY <1>1 DEF WordAt
<1>7. (scan.found \subseteq {i \in Candidates : i < scan.obj})' /\ (scan.obj <= Len(allocs) + 1)'
  BY <1>2 DEF FoundBy
<1>8. (\A i \in scan.found : \A x \in Scanned : NotAlways(x, allocs[i].addr))'
  BY <1>2, <1>5 DEF FoundBy
<1>9. (\A i \in Candidates : i < scan.obj =>
         i \in scan.found \/ \E x \in Scanned : Sometimes(x, allocs[i].addr))'
  BY <1>2, <1>5 DEF FoundBy
<1>10. (scan.obj <= Len(allocs) /\ ~NeedsNoScan(allocs[scan.obj]) =>
         \A p \in 1 .. Len(Parts) : \A w \in 0 .. Parts[p].size - 1 :
           Passed(scan, p, w) => NotAlways(WordAt(p, w), allocs[scan.obj].addr))'
  BY <1>1, <1>3, <1>4, <1>5, <1>6, Zenon DEF FoundBy
<1> QED  BY <1>7, <1>8, <1>9, <1>10 DEF FoundBy

\* Steps during which nothing changes that a leak check under way has seen.
LEMMA ElsewhereKeeps ==
  ASSUME FoundSoFar, UNCHANGED <<allocs, roots, mem, scan, seen>>,
         \A u \in Threads : pc'[u] = "scan" => pc[u] = "scan"
  PROVE  FoundSoFar'
<1>1. FoundBy(scan) => FoundBy(scan)'  BY FoundStays
<1> QED  BY <1>1 DEF FoundSoFar, Watched

\* Another thread writes a word.
LEMMA StoreKeepsFound ==
  ASSUME ScanInv, NEW t \in Threads, NEW w \in Words, NEW p \in BlockAddrs \cup {Null}, Store(t, w, p)
  PROVE  FoundSoFar'
<1>1. /\ UNCHANGED <<allocs, roots, scan, pc>> /\ mem' = [mem EXCEPT ![w] = p]
      /\ seen' = IF \E u \in Threads : pc[u] = "scan" THEN [seen EXCEPT ![w] = @ \cup {p}] ELSE seen
  BY DEF Store, runtime
<1>2. mem \in [Words -> BlockAddrs \cup {Null}] /\ seen \in [Words -> SUBSET (BlockAddrs \cup {Null})]
  BY DEF ScanInv, IInv, Typing
<1>3. SUFFICES ASSUME NEW u \in Threads, pc[u] = "scan"
               PROVE  FoundBy(scan)' /\ Watched'
  BY <1>1 DEF FoundSoFar
<1>4. FoundBy(scan) /\ Watched  BY <1>3 DEF ScanInv, FoundSoFar
<1>5. seen' = [seen EXCEPT ![w] = @ \cup {p}]  BY <1>1, <1>3
<1>6. \A x \in Words : seen[x] \subseteq seen'[x]  BY <1>2, <1>5
<1>7. Watched'  BY <1>1, <1>2, <1>4, <1>5 DEF Watched
<1>8. FoundBy(scan)'  BY <1>1, <1>4, <1>6, FoundStays
<1> QED  BY <1>7, <1>8

\* Steps after which no leak check is under way.
LEMMA NobodyScans ==
  ASSUME \A u \in Threads : pc'[u] # "scan"
  PROVE  FoundSoFar'
BY DEF FoundSoFar

\* A step of the leak check itself.
LEMMA CheckerKeeps ==
  ASSUME UNCHANGED <<allocs, roots, mem, seen>>, Watched, FoundBy(scan')
  PROVE  FoundSoFar'
<1>1. FoundBy(scan)'  BY FoundStays
<1> QED  BY <1>1 DEF FoundSoFar, Watched

LEMMA FoundAtStart ==
  ASSUME IInv, IInv', NEW t \in Threads, BeginCheck(t)
  PROVE  FoundSoFar'
<1>1. scan' = NoScan /\ seen' = [w \in Words |-> {mem[w]}] /\ mem' = mem /\ allocs' = allocs
  BY DEF BeginCheck, Quiet
<1>2. scan'.obj = 1 /\ scan'.part = 1 /\ scan'.word = 0 /\ scan'.found = {}
  BY <1>1 DEF NoScan
<1>3. DOMAIN allocs = 1 .. Len(allocs) /\ Len(allocs) \in Nat  BY DEF IInv, Typing
<1>4. \A i \in Candidates' : ~(i < 1)  BY <1>1, <1>3 DEF Candidates
<1>5. \A p \in 1 .. Len(Parts') : \A w \in 0 .. Parts'[p].size - 1 : ~Passed(scan, p, w)'
  BY <1>2 DEF Passed
<1>6. FoundBy(scan)'  BY <1>1, <1>2, <1>3, <1>4, <1>5 DEF FoundBy
<1>7. Watched'  BY <1>1 DEF Watched
<1> QED  BY <1>6, <1>7 DEF FoundSoFar

\* A step to the next object, when this one is found or not.
LEMMA FoundNext ==
  ASSUME IInv, FoundBy(scan), scan.obj <= Len(allocs),
         NEW s, s.obj = scan.obj + 1, s.part = 1, s.word = 0,
         \/ /\ s.found = scan.found
            /\ \/ scan.obj \notin Candidates
               \/ \E x \in Scanned : Sometimes(x, allocs[scan.obj].addr)
         \/ /\ s.found = scan.found \cup {scan.obj} /\ scan.obj \in Candidates
            /\ \A x \in Scanned : NotAlways(x, allocs[scan.obj].addr)
  PROVE  FoundBy(s)
<1>1. /\ DOMAIN allocs = 1 .. Len(allocs) /\ Len(allocs) \in Nat
      /\ scan.obj \in Nat \ {0}
  BY DEF IInv, Typing
<1>2. \A i \in DOMAIN allocs : i < scan.obj + 1 <=> i < scan.obj \/ i = scan.obj  BY <1>1
<1>3. Candidates \subseteq DOMAIN allocs  BY DEF Candidates
<1>4. s.found \subseteq {i \in Candidates : i < s.obj}  BY <1>2, <1>3 DEF FoundBy
<1>5. \A i \in s.found : \A x \in Scanned : NotAlways(x, allocs[i].addr)  BY DEF FoundBy
<1>6. \A i \in Candidates : i < s.obj =>
         i \in s.found \/ \E x \in Scanned : Sometimes(x, allocs[i].addr)
  BY <1>2, <1>3 DEF FoundBy
<1>7. s.obj <= Len(allocs) + 1  BY <1>1
<1>8. \A p \in 1 .. Len(Parts) : \A w \in 0 .. Parts[p].size - 1 : ~Passed(s, p, w)
  BY DEF Passed
<1> QED  BY <1>4, <1>5, <1>6, <1>7, <1>8 DEF FoundBy

LEMMA SkipObjectFinds ==
  ASSUME IInv, FoundBy(scan), NEW t \in Threads, SkipObject(t)
  PROVE  FoundBy(scan')
<1>1. scan.obj <= Len(allocs) /\ NeedsNoScan(allocs[scan.obj]) /\ scan' = NextObject
  BY DEF SkipObject, Scanning, Object
<1>2. scan.obj \notin Candidates  BY <1>1 DEF Candidates, NeedsNoScan
<1>3. scan \in ScanType  BY DEF IInv, Typing, ScanType
<1>4. /\ scan'.obj = scan.obj + 1 /\ scan'.part = 1 /\ scan'.word = 0 /\ scan'.found = scan.found
  BY <1>1, <1>3, NextObjectTyped
<1> QED  BY <1>1, <1>2, <1>4, FoundNext

LEMMA ReadWordFinds ==
  ASSUME IInv, LsanConstants, RecordsAreBlocks, FoundBy(scan), Watched, NEW t \in Threads, ReadWord(t)
  PROVE  FoundBy(scan')
<1> DEFINE a == allocs[scan.obj].addr
           x == WordAt(scan.part, scan.word)
<1>1. /\ scan.obj <= Len(allocs) /\ ~NeedsNoScan(allocs[scan.obj])
      /\ scan.part <= Len(Parts) /\ scan.word < Parts[scan.part].size
      /\ scan' = IF mem[x] = a THEN NextObject ELSE [scan EXCEPT !.word = @ + 1]
  BY DEF ReadWord, Scanning, Object, WordAt
<1>2. scan \in ScanType  BY DEF IInv, Typing, ScanType
<1>3. /\ scan.obj \in Nat \ {0} /\ scan.part \in Nat \ {0} /\ scan.word \in Nat
      /\ Len(allocs) \in Nat /\ Len(Parts) \in Nat
      /\ scan.part \in 1 .. Len(Parts) /\ scan.obj \in DOMAIN allocs
  BY <1>1, <1>2, PartsAre DEF ScanType
<1>4. x \in Scanned /\ x \in Words /\ mem[x] \in seen[x]
  <2>1. Parts[scan.part].size \in Nat  BY <1>3, PartSizeIsNat
  <2>2. scan.word \in 0 .. Parts[scan.part].size - 1  BY <1>1, <1>3, <2>1
  <2>3. x \in Scanned  BY <1>3, <2>2, ScannedIs
  <2> QED  BY <2>3, ScannedAreWords DEF Watched
<1> HIDE DEF x
<1>5. CASE mem[x] = a
  <2>1. scan' = NextObject  BY <1>1, <1>5
  <2>2. /\ scan'.obj = scan.obj + 1 /\ scan'.part = 1 /\ scan'.word = 0 /\ scan'.found = scan.found
    BY <2>1, <1>2, NextObjectTyped
  <2>3. Sometimes(x, a)  BY <1>4, <1>5 DEF Sometimes
  <2> QED  BY <1>1, <1>4, <2>2, <2>3, FoundNext
<1>6. CASE mem[x] # a
  <2>1. /\ scan'.obj = scan.obj /\ scan'.part = scan.part /\ scan'.word = scan.word + 1
        /\ scan'.found = scan.found
    BY <1>1, <1>2, <1>6 DEF ScanType
  <2>2. ASSUME NEW p \in 1 .. Len(Parts), NEW w \in 0 .. Parts[p].size - 1, Passed(scan', p, w)
        PROVE  NotAlways(WordAt(p, w), a)
    <3>1. w \in Int /\ w >= 0
      OBVIOUS
    <3>2. CASE Passed(scan, p, w)
      BY <3>2, <1>1 DEF FoundBy
    <3>3. CASE ~Passed(scan, p, w)
      <4>1. p = scan.part /\ w = scan.word  BY <3>1, <3>3, <2>1, <2>2, <1>3 DEF Passed
      <4>2. WordAt(p, w) = x  BY <4>1 DEF x
      <4> QED  BY <4>2, <1>4, <1>6 DEF NotAlways
    <3> QED  BY <3>2, <3>3
  <2> QED  BY <2>1, <2>2 DEF FoundBy
<1> QED  BY <1>5, <1>6

LEMMA NextPartFinds ==
  ASSUME IInv, LsanConstants, FoundBy(scan), NEW t \in Threads, NextPart(t)
  PROVE  FoundBy(scan')
<1> DEFINE a == allocs[scan.obj].addr
<1>1. /\ scan.obj <= Len(allocs) /\ ~NeedsNoScan(allocs[scan.obj])
      /\ scan.part <= Len(Parts) /\ scan.word >= Parts[scan.part].size
      /\ scan' = [scan EXCEPT !.part = @ + 1, !.word = 0]
  BY DEF NextPart, Scanning, Object
<1>2. scan \in ScanType  BY DEF IInv, Typing, ScanType
<1>3. scan.part \in Nat \ {0} /\ scan.word \in Nat  BY <1>2 DEF ScanType
<1>4. /\ scan'.obj = scan.obj /\ scan'.part = scan.part + 1 /\ scan'.word = 0
      /\ scan'.found = scan.found
  BY <1>1, <1>2, NextPartTyped, Zenon
<1>5. ASSUME NEW p \in 1 .. Len(Parts), NEW w \in 0 .. Parts[p].size - 1, Passed(scan', p, w)
      PROVE  NotAlways(WordAt(p, w), a)
  <2>1. w \in Int /\ w >= 0 /\ p \in Int  OBVIOUS
  <2>2. p < scan.part + 1  BY <2>1, <1>3, <1>4, <1>5 DEF Passed
  <2>3. CASE p = scan.part
    <3> DEFINE n == Parts[p].size
    <3>1. w <= n - 1 /\ scan.word >= n  BY <2>3, <1>1
    <3>2. n \in Nat  BY PartSizeIsNat
    <3>3. w < scan.word  BY <3>1, <3>2, <2>1, <1>3
    <3> QED  BY <3>3, <2>3, <1>1 DEF FoundBy, Passed
  <2>4. CASE p < scan.part
    BY <2>4, <1>1 DEF FoundBy, Passed
  <2> QED  BY <2>1, <2>2, <2>3, <2>4, <1>3
<1> QED  BY <1>4, <1>5 DEF FoundBy

\* When every part is behind the check, each word has held something else.
LEMMA AllPassed ==
  ASSUME IInv, LsanConstants, FoundBy(scan), scan.obj <= Len(allocs),
         ~NeedsNoScan(allocs[scan.obj]), scan.part > Len(Parts)
  PROVE  scan.obj \in Candidates /\ \A x \in Scanned : NotAlways(x, allocs[scan.obj].addr)
<1>1. /\ scan.obj \in DOMAIN allocs /\ scan.part \in Nat /\ Len(Parts) \in Nat
  BY PartsAre DEF IInv, Typing
<1>2. scan.obj \in Candidates  BY <1>1 DEF Candidates, NeedsNoScan
<1>3. ASSUME NEW x \in Scanned
      PROVE  NotAlways(x, allocs[scan.obj].addr)
  <2>1. PICK p \in 1 .. Len(Parts) : \E w \in 0 .. Parts[p].size - 1 : x = WordAt(p, w)
    BY <1>3, ScannedIs
  <2>2. PICK w \in 0 .. Parts[p].size - 1 : x = WordAt(p, w)  BY <2>1
  <2>3. p < scan.part  BY <1>1
  <2>4. Passed(scan, p, w)  BY <2>3 DEF Passed
  <2> QED  BY <2>2, <2>4 DEF FoundBy
<1> QED  BY <1>2, <1>3

LEMMA ReportLeakFinds ==
  ASSUME IInv, LsanConstants, FoundBy(scan), NEW t \in Threads, ReportLeak(t)
  PROVE  FoundBy(scan')
<1>1. /\ scan.obj <= Len(allocs) /\ ~NeedsNoScan(allocs[scan.obj]) /\ scan.part > Len(Parts)
  BY DEF ReportLeak, Scanning, Object
<1>2. scan.obj \in Candidates /\ \A x \in Scanned : NotAlways(x, allocs[scan.obj].addr)
  BY <1>1, AllPassed
<1> DEFINE n == NextObject
<1>3. scan' = [n EXCEPT !.found = @ \cup {scan.obj}]  BY DEF ReportLeak
<1>4. scan \in ScanType  BY DEF IInv, Typing, ScanType
<1>5. n \in ScanType /\ n.obj = scan.obj + 1 /\ n.part = 1 /\ n.word = 0 /\ n.found = scan.found
  BY <1>4, NextObjectTyped
<1> HIDE DEF n
<1>6. /\ scan'.obj = scan.obj + 1 /\ scan'.part = 1 /\ scan'.word = 0
      /\ scan'.found = scan.found \cup {scan.obj}
  BY <1>3, <1>5 DEF ScanType
<1> QED  BY <1>1, <1>2, <1>6, FoundNext

\* A thread that holds the lock and leaves or halts leaves no check under way.
LEMMA HolderLeaves ==
  ASSUME IInv, NEW t \in Threads, pc[t] \in Locked, pc'[t] # "scan",
         \A u \in Threads : u # t => pc'[u] = pc[u]
  PROVE  FoundSoFar'
<1>1. ASSUME NEW u \in Threads PROVE pc'[u] # "scan"
  <2>1. CASE u = t  BY <2>1
  <2>2. CASE u # t
    <3>1. pc[u] \notin Locked  BY <2>2, LockedAlone
    <3> QED  BY <3>1, <2>2 DEF Locked
  <2> QED  BY <2>1, <2>2
<1> QED  BY <1>1, NobodyScans

LEMMA ScanStep ==
  ASSUME ScanInv, RecordsAreBlocks, LsanConstants, [Next]_vars
  PROVE  ScanInv'
<1>1. IInv /\ IInv' /\ FoundSoFar  BY NextKeeps DEF ScanInv
<1> SUFFICES FoundSoFar'  BY <1>1 DEF ScanInv
<1>2. CASE UNCHANGED vars
  <2>1. UNCHANGED <<allocs, roots, mem, scan, seen, pc>>  BY <1>2 DEF vars, runtime
  <2> QED  BY <2>1, <1>1, ElsewhereKeeps
<1>3. CASE Next
  <2>1. PICK t \in Threads :
           \/ \E b \in Blocks : Malloc(t, b) \/ Free(t, b) \/ Ignore(t, b)
           \/ \E r \in Regions : Root(t, r) \/ Unroot(t, r)
           \/ \E op \in CheckOps : Check(t, op)
           \/ \E v \in BOOLEAN : SetDisabled(t, v)
           \/ \E w \in Words, p \in BlockAddrs \cup {Null} : Store(t, w, p)
           \/ Acquire(t) \/ RegisterAlloc(t) \/ UnregisterAlloc(t) \/ RegisterRoot(t)
           \/ UnregisterRoot(t) \/ IgnoreObject(t) \/ Checking(t) \/ EndCheck(t)
    BY <1>1, <1>3, NextIsOneOf
  <2>2. ASSUME NEW op, NEW r, Enter(t, op, r), UNCHANGED <<mem, seen>> PROVE FoundSoFar'
    <3>1. UNCHANGED <<allocs, roots, scan>> /\ pc' = [pc EXCEPT ![t] = "spin"]  BY <2>2 DEF Enter
    <3>2. \A u \in Threads : pc'[u] = "scan" => pc[u] = "scan"
      BY <3>1, <1>1 DEF IInv, Typing
    <3> QED  BY <3>1, <3>2, <2>2, <1>1, ElsewhereKeeps
  <2>3. ASSUME UNCHANGED runtime, UNCHANGED <<mem, seen>> PROVE FoundSoFar'
    <3>1. UNCHANGED <<allocs, roots, scan, pc>>  BY <2>3 DEF runtime
    <3> QED  BY <3>1, <2>3, <1>1, ElsewhereKeeps
  <2>4. CASE \E b \in Blocks : Malloc(t, b) \/ Free(t, b) \/ Ignore(t, b)
    BY <2>2, <2>3, <2>4, Zenon DEF Malloc, Free, Ignore
  <2>5. CASE \E r \in Regions : Root(t, r) \/ Unroot(t, r)
    BY <2>2, <2>5, Zenon DEF Root, Unroot
  <2>6. CASE \E op \in CheckOps : Check(t, op)
    BY <2>2, <2>6, Zenon DEF Check
  <2>7. CASE \E v \in BOOLEAN : SetDisabled(t, v)
    BY <2>3, <2>7, Zenon DEF SetDisabled
  <2>8. CASE \E w \in Words, p \in BlockAddrs \cup {Null} : Store(t, w, p)
    BY <2>8, StoreKeepsFound
  <2>9. CASE Acquire(t)
    <3>1. \A u \in Threads : pc[u] \notin Locked
      BY <2>9, <1>1 DEF Acquire, IInv, Control, LsanConstants
    <3>2. \A u \in Threads : pc'[u] # "scan"
      BY <3>1, <2>9, <1>1 DEF Acquire, IInv, Typing, Locked
    <3> QED  BY <3>2, NobodyScans
  <2>10. ASSUME NEW op, In(t, op), Return(t) PROVE FoundSoFar'
    <3>1. pc[t] \in Locked  BY <2>10, <1>1, InHoldsLock
    <3>2. pc' = [pc EXCEPT ![t] = "run"]  BY <2>10 DEF Return
    <3>3. pc'[t] # "scan" /\ \A u \in Threads : u # t => pc'[u] = pc[u]
      BY <3>2, <1>1 DEF IInv, Typing
    <3> QED  BY <3>1, <3>3, <1>1, HolderLeaves
  <2>11. CASE RegisterAlloc(t) \/ UnregisterAlloc(t) \/ RegisterRoot(t) \/ UnregisterRoot(t) \/ IgnoreObject(t)
    BY <2>10, <2>11, Zenon DEF RegisterAlloc, UnregisterAlloc, RegisterRoot, UnregisterRoot, IgnoreObject
  <2>12. CASE Checking(t)
    <3>1. UNCHANGED <<allocs, roots, mem>>  BY <2>12, CheckingIsQuiet
    <3>2. CASE BeginCheck(t)
      BY <3>2, <1>1, FoundAtStart
    <3>3. CASE HangInReport(t)
      <4>1. UNCHANGED <<scan, seen>> /\ pc' = [pc EXCEPT ![t] = "stuck"]  BY <3>3 DEF HangInReport
      <4>2. \A u \in Threads : pc'[u] = "scan" => pc[u] = "scan"
        BY <4>1, <1>1 DEF IInv, Typing
      <4> QED  BY <4>1, <4>2, <3>1, <1>1, ElsewhereKeeps
    <3>4. CASE SkipObject(t) \/ ReadWord(t) \/ NextPart(t) \/ ReportLeak(t)
      <4>1. pc[t] = "scan" /\ seen' = seen
        BY <3>4 DEF SkipObject, ReadWord, NextPart, ReportLeak, Scanning
      <4>2. FoundBy(scan) /\ Watched  BY <4>1, <1>1 DEF FoundSoFar
      <4>3. FoundBy(scan')
        BY <3>4, <4>2, <1>1, SkipObjectFinds, ReadWordFinds, NextPartFinds, ReportLeakFinds
      <4> QED  BY <4>1, <4>2, <4>3, <3>1, CheckerKeeps
    <3> QED  BY <2>12, <3>2, <3>3, <3>4 DEF Checking
  <2>13. CASE EndCheck(t)
    <3>1. pc[t] = "scan" /\ pc'[t] # "scan" /\ (Stayed \/ Left(t))  BY <2>13, <1>1, EndCheckKeeps
    <3>2. pc' = [pc EXCEPT ![t] = "run"] \/ pc' = [pc EXCEPT ![t] = "halted"]
      BY <2>13 DEF EndCheck, Return
    <3>3. \A u \in Threads : u # t => pc'[u] = pc[u]  BY <3>2, <1>1 DEF IInv, Typing
    <3>4. pc[t] \in Locked  BY <3>1 DEF Locked
    <3> QED  BY <3>1, <3>3, <3>4, <1>1, HolderLeaves
  <2> QED  BY <2>1, <2>4, <2>5, <2>6, <2>7, <2>8, <2>9, <2>11, <2>12, <2>13
<1> QED  BY <1>2, <1>3

LEMMA ScanInvariance == Spec => []ScanInv
<1>1. Init => ScanInv
  <2> SUFFICES ASSUME Init PROVE ScanInv
    OBVIOUS
  <2>1. IInv  BY InitIInv, LsanConstants
  <2>2. FoundSoFar  BY DEF Init, FoundSoFar
  <2> QED  BY <2>1, <2>2 DEF ScanInv
<1>2. HeapInv /\ ScanInv /\ [Next]_vars => ScanInv'  BY ScanStep, LsanConstants DEF HeapInv
<1>3. Spec => []HeapInv  BY HeapInvariance, PTL
<1> QED  BY <1>1, <1>2, <1>3, PTL DEF Spec

\* A check that reads the memory word by word, while other threads write, reports
\* no block that some word has pointed to since it began, and every tracked block
\* that no word has pointed to.
THEOREM ChecksAreSnapshots == Spec => CheckIsASnapshot
<1>1. ASSUME ScanInv, NEW t \in Threads, EndCheck(t)
      PROVE  /\ \A i \in scan.found :
                  i \in Candidates /\ \A w \in Scanned : seen[w] # {allocs[i].addr}
             /\ \A i \in Candidates \ scan.found : \E w \in Scanned : allocs[i].addr \in seen[w]
  <2>1. pc[t] = "scan" /\ scan.obj > Len(allocs)  BY <1>1 DEF EndCheck
  <2>2. FoundBy(scan)  BY <1>1, <2>1 DEF ScanInv, FoundSoFar
  <2>3. \A i \in Candidates : i < scan.obj
    BY <1>1, <2>1 DEF Candidates, ScanInv, IInv, Typing
  <2>4. \A w, a : (Sometimes(w, a) => a \in seen[w]) /\ (NotAlways(w, a) => seen[w] # {a})
    BY DEF Sometimes, NotAlways
  <2> QED  BY <2>2, <2>3, <2>4 DEF FoundBy
<1>2. ScanInv => \A t \in Threads : EndCheck(t) =>
        /\ \A i \in scan.found :
             i \in Candidates /\ \A w \in Scanned : seen[w] # {allocs[i].addr}
        /\ \A i \in Candidates \ scan.found : \E w \in Scanned : allocs[i].addr \in seen[w]
  BY <1>1
<1> QED  BY <1>2, ScanInvariance, PTL DEF CheckIsASnapshot

\* If every block in hand is tracked, no block that the roots lead to, over any
\* number of others and by pointers that stay where they are, is reported as a
\* leak, whatever other threads write.
THEOREM ReachableIsNoLeak == Spec => NoReachableLeak
<1>1. ASSUME ScanInv, HeapInv, NEW t \in Threads, ReportLeak(t), \A b \in InHand : Tracked(b),
             NEW b \in Reachable(Steady), b.addr = Object.addr
      PROVE  FALSE
  <2> DEFINE S == {c \in InHand : c # b}
             k == scan.obj
  <2>1. IInv /\ LsanConstants  BY <1>1, LsanConstants DEF ScanInv
  <2>2. /\ pc[t] = "scan" /\ k <= Len(allocs) /\ ~NeedsNoScan(allocs[k]) /\ scan.part > Len(Parts)
        /\ b.addr = allocs[k].addr
    BY <1>1 DEF ReportLeak, Scanning, Object
  <2>3. FoundBy(scan)  BY <1>1, <2>2 DEF ScanInv, FoundSoFar
  <2>4. k \in Candidates /\ \A x \in Scanned : NotAlways(x, b.addr)  BY <2>1, <2>2, <2>3, AllPassed
  <2>5. b \in InHand /\ \A T \in SUBSET InHand : Closed(T, Steady) => b \in T  BY DEF Reachable
  <2>6. InHand \subseteq Blocks  BY <2>1 DEF InHand, IInv, Typing
  <2>a. \A x \in Scanned : b.addr \notin Steady[x]
    <3> SUFFICES ASSUME NEW x \in Scanned PROVE b.addr \notin Steady[x]
      OBVIOUS
    <3>1. x \in Words /\ \E y \in seen[x] : y # b.addr  BY <2>4 DEF NotAlways
    <3>2. Steady[x] = {p \in seen[x] : seen[x] = {p}}  BY <3>1 DEF Steady
    <3> QED  BY <3>1, <3>2
  \* The records of the blocks in hand have been looked at.
  <2>7. ASSUME NEW c \in InHand
        PROVE  \A w \in WordsOf(c) : b.addr \notin Steady[w]
    <3>1. PICK i \in DOMAIN allocs : Active(allocs[i]) /\ allocs[i].addr = c.addr
      BY <1>1 DEF Tracked
    <3>2. PICK d \in Blocks : d.addr = allocs[i].addr /\ d.size = allocs[i].size
      BY <1>1, <3>1 DEF HeapInv, RecordsAreBlocks
    <3>3. d = c  BY <3>1, <3>2, <2>1, <2>6, AddrIsBlock
    <3>4. WordsOf(c) = WordsOf(allocs[i])  BY <3>2, <3>3 DEF WordsOf
    <3>5. WordsOf(allocs[i]) \subseteq Scanned  BY <3>1, InScanned
    <3> QED  BY <3>4, <3>5, <2>a
  <2>8. \A i \in DOMAIN roots : /\ b.addr \notin WordsOf(roots[i])
                               /\ \A w \in WordsOf(roots[i]) : b.addr \notin Steady[w]
    <3>1. \A i \in DOMAIN roots : WordsOf(roots[i]) \subseteq Scanned  BY InScanned
    <3>2. ~InsideRoot(allocs[k])  BY <2>4 DEF Candidates
    <3> QED  BY <3>1, <3>2, <2>2, <2>a DEF InsideRoot
  <2>9. Closed(S, Steady)
    <3> SUFFICES ASSUME NEW c \in InHand, c \notin S
                 PROVE  /\ \A i \in DOMAIN roots : c.addr \notin WordsOf(roots[i])
                                              /\ \A w \in WordsOf(roots[i]) : c.addr \notin Steady[w]
                        /\ \A d \in S : \A w \in WordsOf(d) : c.addr \notin Steady[w]
      BY Zenon DEF Closed
    <3>1. c = b  OBVIOUS
    <3> QED  BY <3>1, <2>7, <2>8
  <2> QED  BY <2>5, <2>9
<1>2. ScanInv /\ HeapInv => \A t \in Threads : ReportLeak(t) /\ (\A b \in InHand : Tracked(b)) =>
        \A b \in Reachable(Steady) : b.addr # Object.addr
  BY <1>1
<1>3. Spec => []HeapInv  BY HeapInvariance, PTL
<1> QED  BY <1>2, <1>3, ScanInvariance, PTL DEF NoReachableLeak
=============================================================================
