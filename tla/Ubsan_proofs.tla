------------------------------ MODULE Ubsan_proofs ------------------------------
(***************************************************************************)
(* Proofs about the handlers of undefined behaviour, for any number of     *)
(* threads, any data and any widths of integers: the discipline of         *)
(* ubsan_lock, whole reports, and the text that is printed.                *)
(*                                                                         *)
(* The lock needs Typing, Discipline and Whole only.  The text needs what  *)
(* drt_putn computes: the digits it finds one by one are the digits by     *)
(* position (BufIsDigits), as many as C prints (PlacesIs), so that the     *)
(* code makes of each directive the texts of C (ExpandIs); AllSay then     *)
(* follows the texts to the console.                                       *)
(***************************************************************************)
EXTENDS Ubsan, SequenceTheorems, WellFoundedInduction, TLAPS

Where == {"run", "lock", "report", "trace", "print", "die", "abort"}

\* Each variable that the lock discipline is about is a function of threads.
Typing ==
  /\ ubsan_lock \in Threads \cup {NoThread}
  /\ pc \in [Threads -> Where]
  /\ DOMAIN todo = Threads /\ DOMAIN said = Threads /\ DOMAIN cut = Threads
  /\ last \in [by : Threads \cup {NoThread}, locked : BOOLEAN]

\* The lock has a holder exactly while a report is under way.
Discipline ==
  \A t \in Threads :
    /\ ubsan_lock = t <=> pc[t] \in Locked
    /\ todo[t] # <<>> => pc[t] \in Where \ {"run", "abort"}

\* A thread that has begun its report is the last that printed under the lock;
\* one that waits for it has not begun.
Whole ==
  \A t \in Threads :
    /\ pc[t] \in {"run", "lock"} => said[t] = <<>>
    /\ pc[t] \in Locked /\ said[t] # <<>> /\ last.locked => last.by = t
    /\ ~cut[t]

Inv == Typing /\ Discipline /\ Whole

LEMMA InitInv == Init => Inv
  BY UbsanConstants DEF Init, Inv, Typing, Discipline, Whole, Where, Locked

(* A thread enters a handler.                                               *)
LEMMA EnterInv ==
  ASSUME Inv, NEW t \in Threads, NEW where \in {"lock", "print", "die"}, NEW items, Enter(t, where, items)
  PROVE  Inv'
<1>1. /\ pc[t] = "run" /\ pc' = [pc EXCEPT ![t] = where] /\ todo' = [todo EXCEPT ![t] = items]
      /\ UNCHANGED <<ubsan_lock, last, said, cut>>
  BY DEF Enter
<1>2. Typing'
  BY <1>1 DEF Inv, Typing, Where
<1>3. \A u \in Threads : u # t => pc'[u] = pc[u] /\ todo'[u] = todo[u]
  BY <1>1 DEF Inv, Typing
<1>4. pc'[t] = where /\ where \notin Locked /\ said[t] = <<>>
  BY <1>1 DEF Inv, Typing, Whole, Locked
<1>5. Discipline'
  BY <1>1, <1>3, <1>4 DEF Inv, Discipline, Where, Locked
<1>6. Whole'
  BY <1>1, <1>3, <1>4 DEF Inv, Whole
<1> QED
  BY <1>2, <1>5, <1>6 DEF Inv

LEMMA ProgramInv == ASSUME Inv, NEW t \in Threads, Program(t) PROVE Inv'
<1>1. \E where \in {"lock", "print", "die"} : \E items : Enter(t, where, items)
  <2>1. CASE LockedHandler(t)
    BY <2>1, Zenon DEF LockedHandler
  <2>2. CASE FloatCastHandler(t)
    <3>1. PICK items : \E abort \in BOOLEAN : Enter(t, IF abort THEN "die" ELSE "print", items)
      BY <2>2, Zenon DEF FloatCastHandler
    <3>2. PICK abort \in BOOLEAN : Enter(t, IF abort THEN "die" ELSE "print", items)
      BY <3>1, Zenon
    <3>3. (IF abort THEN "die" ELSE "print") \in {"lock", "print", "die"}
      OBVIOUS
    <3> QED
      BY <3>2, <3>3, Zenon
  <2>3. CASE drt_printf(t)
    BY <2>3, Zenon DEF drt_printf
  <2>4. CASE drt_die(t)
    BY <2>4, Zenon DEF drt_die
  <2> QED
    BY <2>1, <2>2, <2>3, <2>4 DEF Program
<1> QED
  BY <1>1, EnterInv, Zenon

LEMMA AcquireInv == ASSUME Inv, NEW t \in Threads, Acquire(t) PROVE Inv'
<1>1. /\ pc[t] = "lock" /\ ubsan_lock = NoThread /\ ubsan_lock' = t /\ pc' = [pc EXCEPT ![t] = "report"]
      /\ UNCHANGED <<todo, last, said, cut>>
  BY DEF Acquire
<1>2. Typing'
  BY <1>1 DEF Inv, Typing, Where
<1>3. pc'[t] = "report" /\ \A u \in Threads : u # t => pc'[u] = pc[u] /\ pc[u] \notin Locked
  BY <1>1, UbsanConstants DEF Inv, Typing, Discipline
<1>4. Discipline'
  BY <1>1, <1>3 DEF Inv, Discipline, Where, Locked
<1>5. Whole'
  BY <1>1, <1>3 DEF Inv, Whole
<1> QED
  BY <1>2, <1>4, <1>5 DEF Inv

(* A thread prints, of its report or outside of all reports.                *)
LEMMA ShowInv ==
  ASSUME Inv, NEW t \in Threads, Printing(t), Show(t), UNCHANGED <<ubsan_lock, pc>>,
         DOMAIN todo' = Threads, DOMAIN said' = Threads,
         \A u \in Threads : u # t => todo'[u] = todo[u] /\ said'[u] = said[u]
  PROVE  Inv'
<1>1. last' = [by |-> t, locked |-> pc[t] \in Locked] /\ last'.by = t /\ last'.locked = (pc[t] \in Locked)
  BY DEF Show
<1>2. cut' = [cut EXCEPT ![t] = cut[t] \/ (said[t] # <<>> /\ pc[t] \in Locked /\ last.by # t /\ last.locked)]
  BY Zenon DEF Show
<1>3. ~(said[t] # <<>> /\ pc[t] \in Locked /\ last.by # t /\ last.locked) /\ ~cut[t]
  BY DEF Inv, Whole
<1>4. \A u \in Threads : cut'[u] <=> cut[u]
  BY <1>2, <1>3 DEF Inv, Typing
<1>5. Typing'
  BY <1>1, <1>2 DEF Inv, Typing
<1>6. pc[t] \in {"print", "die", "report", "trace"}
  BY DEF Printing
<1>7. Discipline'
  BY <1>6 DEF Inv, Discipline, Where
<1>8. ASSUME NEW u \in Threads, u # t, pc[u] \in Locked PROVE ~last'.locked
  <2>1. ubsan_lock = u
    BY <1>8 DEF Inv, Discipline
  <2> QED
    BY <1>1, <1>8, <2>1 DEF Inv, Discipline
<1>9. Whole'
  BY <1>1, <1>4, <1>6, <1>8 DEF Inv, Whole
<1> QED
  BY <1>5, <1>7, <1>9 DEF Inv

LEMMA PrintInv == ASSUME Inv, NEW t \in Threads, PrintText(t) \/ PrintPad(t) PROVE Inv'
<1>1. CASE PrintText(t)
  <2>1. /\ Printing(t) /\ Show(t) /\ UNCHANGED <<ubsan_lock, pc>>
        /\ \E v : said' = [said EXCEPT ![t] = v]
        /\ \E v : todo' = [todo EXCEPT ![t] = v]
    BY <1>1, Zenon DEF PrintText
  <2>2. /\ DOMAIN todo' = Threads /\ DOMAIN said' = Threads
        /\ \A u \in Threads : u # t => todo'[u] = todo[u] /\ said'[u] = said[u]
    BY <2>1 DEF Inv, Typing
  <2> QED
    BY <2>1, <2>2, ShowInv
<1>2. CASE PrintPad(t)
  <2>1. /\ Printing(t) /\ Show(t) /\ UNCHANGED <<ubsan_lock, pc, todo, said>>
    BY <1>2, Zenon DEF PrintPad
  <2>2. /\ DOMAIN todo' = Threads /\ DOMAIN said' = Threads
        /\ \A u \in Threads : u # t => todo'[u] = todo[u] /\ said'[u] = said[u]
    BY <2>1 DEF Inv, Typing
  <2> QED
    BY <2>1, <2>2, ShowInv
<1> QED
  BY <1>1, <1>2

(* A thread makes out what it has to print.                                 *)
LEMMA FormatInv ==
  ASSUME Inv, NEW t \in Threads, Format(t) \/ Capture(t)
  PROVE  Inv'
<1>1. /\ \E v : todo' = [todo EXCEPT ![t] = v]
      /\ UNCHANGED <<ubsan_lock, last, said, cut>>
      /\ \/ pc[t] = "report" /\ pc' = [pc EXCEPT ![t] = "trace"]
         \/ pc[t] \in {"print", "die", "report", "trace"} /\ pc' = pc
  BY Zenon DEF Format, Capture, Printing
<1>2. DOMAIN todo' = Threads /\ \A u \in Threads : u # t => todo'[u] = todo[u] /\ pc'[u] = pc[u]
  BY <1>1 DEF Inv, Typing
<1>3. Typing'
  BY <1>1, <1>2 DEF Inv, Typing, Where
<1>4. pc'[t] \in {"print", "die", "report", "trace"} /\ (pc'[t] \in Locked <=> pc[t] \in Locked)
  BY <1>1 DEF Inv, Typing, Locked
<1>5. Discipline'
  BY <1>1, <1>2, <1>4 DEF Inv, Discipline, Where
<1>6. Whole'
  BY <1>1, <1>2, <1>4 DEF Inv, Whole
<1> QED
  BY <1>3, <1>5, <1>6 DEF Inv

(* A thread leaves a handler.                                               *)
LEMMA LeaveInv ==
  ASSUME Inv, NEW t \in Threads, Unlock(t) \/ Return(t)
  PROVE  Inv'
<1>1. /\ todo[t] = <<>> /\ UNCHANGED <<todo, last>>
      /\ said' = [said EXCEPT ![t] = <<>>] /\ cut' = [cut EXCEPT ![t] = FALSE]
      /\ \/ pc[t] = "trace" /\ ubsan_lock' = NoThread /\ pc' = [pc EXCEPT ![t] = "abort"]
         \/ /\ pc[t] \in {"print", "die"} /\ ubsan_lock' = ubsan_lock
            /\ \E where \in {"abort", "run"} : pc' = [pc EXCEPT ![t] = where]
  <2>1. CASE Unlock(t)
    BY <2>1, Zenon DEF Unlock, Leave
  <2>2. CASE Return(t)
    <3>1. /\ pc[t] \in {"print", "die"} /\ todo[t] = <<>> /\ UNCHANGED <<ubsan_lock, todo, last>>
          /\ said' = [said EXCEPT ![t] = <<>>] /\ cut' = [cut EXCEPT ![t] = FALSE]
          /\ pc' = [pc EXCEPT ![t] = IF pc[t] = "die" THEN "abort" ELSE "run"]
      BY <2>2, Zenon DEF Return, Leave
    <3>2. (IF pc[t] = "die" THEN "abort" ELSE "run") \in {"abort", "run"}
      OBVIOUS
    <3> QED
      BY <3>1, <3>2, Zenon
  <2> QED
    BY <2>1, <2>2
<1>2. /\ \A u \in Threads : u # t => pc'[u] = pc[u] /\ said'[u] = said[u] /\ cut'[u] = cut[u]
      /\ said'[t] = <<>> /\ ~cut'[t] /\ pc'[t] \in {"abort", "run"}
  BY <1>1 DEF Inv, Typing
<1>3. Typing'
  BY <1>1 DEF Inv, Typing, Where
<1>4. pc[t] \in Locked <=> pc[t] = "trace"
  BY <1>1 DEF Locked
<1>5. Discipline'
  <2>1. CASE pc[t] = "trace"
    <3>1. ubsan_lock = t /\ \A u \in Threads : u # t => pc[u] \notin Locked
      BY <1>4, <2>1 DEF Inv, Discipline
    <3>2. ubsan_lock' = NoThread /\ NoThread \notin Threads
      BY <1>1, <2>1, UbsanConstants
    <3> QED
      BY <1>1, <1>2, <3>1, <3>2 DEF Inv, Discipline, Locked
  <2>2. CASE pc[t] # "trace"
    <3>1. ubsan_lock' = ubsan_lock /\ ubsan_lock # t
      BY <1>1, <1>4, <2>2 DEF Inv, Discipline
    <3> QED
      BY <1>1, <1>2, <3>1 DEF Inv, Discipline, Locked
  <2> QED
    BY <2>1, <2>2
<1>6. Whole'
  BY <1>1, <1>2 DEF Inv, Whole, Locked
<1> QED
  BY <1>3, <1>5, <1>6 DEF Inv

LEMMA InvInductive == Inv /\ [Next]_vars => Inv'
<1>1. ASSUME Inv, UNCHANGED vars PROVE Inv'
  BY <1>1 DEF vars, Inv, Typing, Discipline, Whole
<1>2. ASSUME Inv, NEW t \in Threads, Program(t) \/ Step(t) PROVE Inv'
  BY <1>2, ProgramInv, AcquireInv, PrintInv, FormatInv, LeaveInv DEF Step
<1> QED
  BY <1>1, <1>2 DEF Next

(* Whatever the handlers are called with, ubsan_lock is held by exactly the *)
(* thread that is between drt_spin_lock and drt_spin_unlock.                *)
THEOREM LockDiscipline == Spec => []TypeOK
<1>1. Inv => TypeOK
  BY DEF Inv, Typing, Discipline, TypeOK, Where
<1> QED
  BY <1>1, InitInv, InvInductive, PTL DEF Spec

(* No two reports under ubsan_lock run into each other, however long they   *)
(* are and whatever the other threads print without the lock.               *)
THEOREM ReportsStayWhole == Spec => []ReportsWhole
<1>1. Inv => ReportsWhole
  BY DEF Inv, Whole, ReportsWhole
<1> QED
  BY <1>1, InitInv, InvInductive, PTL DEF Spec

---------------------------------------------------------------------------------
(* Recursive functions of a natural number.                                 *)

LEMMA StrongInduction ==
  ASSUME NEW S, \A n \in Nat : (\A m \in 0 .. (n - 1) : m \in S) => n \in S
  PROVE  \A n \in Nat : n \in S
<1> SUFFICES ASSUME Nat \ S # {} PROVE FALSE
  OBVIOUS
<1>1. PICK n \in Nat \ S : \A j \in Nat : <<j, n>> \in OpToRel(<, Nat) => j \notin Nat \ S
  BY NatLessThanWellFounded, WFMin, Zenon
<1>2. ASSUME NEW m \in 0 .. (n - 1) PROVE m \in S
  <2>1. m \in Nat /\ n \in Nat /\ m < n
    OBVIOUS
  <2>2. <<m, n>> \in OpToRel(<, Nat)
    BY <2>1 DEF OpToRel
  <2> QED
    BY <1>1, <2>1, <2>2, Zenon
<1> QED
  BY <1>2

LEMMA Induction ==
  ASSUME NEW S, 0 \in S, \A n \in Nat : n \in S => n + 1 \in S
  PROVE  \A n \in Nat : n \in S
<1>1. ASSUME NEW n \in Nat, \A m \in 0 .. (n - 1) : m \in S PROVE n \in S
  <2>1. CASE n # 0
    <3>1. n - 1 \in 0 .. (n - 1) /\ n - 1 \in Nat /\ (n - 1) + 1 = n
      BY <2>1
    <3> QED
      BY <1>1, <3>1
  <2> QED
    BY <2>1
<1> QED
  BY <1>1, StrongInduction

\* g is, up to m, the function that is H of its value at pre[n] where n is in D,
\* and A elsewhere.
Recurs(g, N, D, pre, A, H) == \A n \in N : g[n] = IF n \in D THEN H[<<n, g[pre[n]]>>] ELSE A[n]

LEMMA RecursionTo ==
  ASSUME NEW V, NEW D \in SUBSET Nat, NEW pre \in [D -> Nat], \A n \in D : pre[n] < n,
         NEW A \in [Nat -> V], NEW H \in [D \X V -> V]
  PROVE  \A m \in Nat : \E g \in [0 .. m -> V] : Recurs(g, 0 .. m, D, pre, A, H)
<1> DEFINE S == {m \in Nat : \E g \in [0 .. m -> V] : Recurs(g, 0 .. m, D, pre, A, H)}
<1>1. 0 \in S
  <2> DEFINE g == [n \in 0 .. 0 |-> A[0]]
  <2>1. g \in [0 .. 0 -> V] /\ 0 \notin D
    OBVIOUS
  <2>2. Recurs(g, 0 .. 0, D, pre, A, H)
    BY <2>1 DEF Recurs
  <2> QED
    BY <2>1, <2>2
<1>2. ASSUME NEW m \in Nat, m \in S PROVE m + 1 \in S
  <2>1. PICK f \in [0 .. m -> V] : Recurs(f, 0 .. m, D, pre, A, H)
    BY <1>2
  <2> DEFINE new == IF m + 1 \in D THEN H[<<m + 1, f[pre[m + 1]]>>] ELSE A[m + 1]
             g == [n \in 0 .. m + 1 |-> IF n = m + 1 THEN new ELSE f[n]]
  <2>2. new \in V
    <3>1. CASE m + 1 \in D
      <4>1. pre[m + 1] \in 0 .. m
        BY <3>1
      <4>2. <<m + 1, f[pre[m + 1]]>> \in D \X V
        BY <3>1, <4>1
      <4> QED
        BY <3>1, <4>2
    <3>2. CASE m + 1 \notin D
      BY <3>2
    <3> QED
      BY <3>1, <3>2
  <2>3. g[m + 1] = new /\ \A n \in 0 .. m : g[n] = f[n]
    <3> HIDE DEF new
    <3> QED
      OBVIOUS
  <2>4. g \in [0 .. m + 1 -> V]
    <3> HIDE DEF new
    <3> QED
      BY <2>2
  <2> HIDE DEF g
  <2>5. ASSUME NEW n \in 0 .. m + 1 PROVE g[n] = IF n \in D THEN H[<<n, g[pre[n]]>>] ELSE A[n]
    <3>1. n \in D => pre[n] \in 0 .. m /\ g[pre[n]] = f[pre[n]]
      BY <2>3
    <3>2. CASE n = m + 1
      BY <2>3, <3>1, <3>2
    <3>3. CASE n \in 0 .. m
      <4>1. f[n] = IF n \in D THEN H[<<n, f[pre[n]]>>] ELSE A[n]
        BY <2>1, <3>3, Zenon DEF Recurs
      <4> QED
        BY <2>3, <3>1, <3>3, <4>1
    <3> QED
      BY <3>2, <3>3
  <2>6. Recurs(g, 0 .. m + 1, D, pre, A, H)
    BY <2>5, Zenon DEF Recurs
  <2> QED
    BY <2>4, <2>6
<1> HIDE DEF S
<1>3. \A m \in Nat : m \in S
  BY <1>1, <1>2, Induction
<1> QED
  BY <1>3 DEF S

LEMMA RecursionExists ==
  ASSUME NEW V, NEW D \in SUBSET Nat, NEW pre \in [D -> Nat], \A n \in D : pre[n] < n,
         NEW A \in [Nat -> V], NEW H \in [D \X V -> V]
  PROVE  \E g \in [Nat -> V] : Recurs(g, Nat, D, pre, A, H)
<1> DEFINE part(m) == CHOOSE g \in [0 .. m -> V] : Recurs(g, 0 .. m, D, pre, A, H)
           g == [n \in Nat |-> part(n)[n]]
<1>1. ASSUME NEW m \in Nat PROVE part(m) \in [0 .. m -> V] /\ Recurs(part(m), 0 .. m, D, pre, A, H)
  <2>1. \E f \in [0 .. m -> V] : Recurs(f, 0 .. m, D, pre, A, H)
    BY RecursionTo, Zenon
  <2> QED
    BY <2>1, Zenon
<1> HIDE DEF part
<1>2. \A n \in Nat : n \in 0 .. n
  OBVIOUS
<1>3. ASSUME NEW l \in Nat, NEW m \in Nat, l <= m
      PROVE  \A n \in 0 .. l : part(l)[n] = part(m)[n]
  <2> DEFINE f == part(l)
             h == part(m)
             S == {n \in Nat : n <= l => f[n] = h[n]}
  <2>1. Recurs(f, 0 .. l, D, pre, A, H) /\ Recurs(h, 0 .. m, D, pre, A, H)
    BY <1>1
  <2> HIDE DEF f, h
  <2>2. ASSUME NEW n \in Nat, \A k \in 0 .. (n - 1) : k \in S PROVE n \in S
    <3> SUFFICES ASSUME n <= l PROVE f[n] = h[n]
      OBVIOUS
    <3>1. n \in 0 .. l /\ n \in 0 .. m
      BY <1>3
    <3>2. /\ f[n] = IF n \in D THEN H[<<n, f[pre[n]]>>] ELSE A[n]
          /\ h[n] = IF n \in D THEN H[<<n, h[pre[n]]>>] ELSE A[n]
      BY <2>1, <3>1, Zenon DEF Recurs
    <3>3. n \in D => f[pre[n]] = h[pre[n]]
      BY <2>2
    <3> QED
      BY <3>2, <3>3
  <2> HIDE DEF S
  <2>3. \A n \in Nat : n \in S
    BY <2>2, StrongInduction
  <2> QED
    BY <2>3 DEF S, f, h
<1>4. g \in [Nat -> V]
  BY <1>1, <1>2
<1>5. ASSUME NEW n \in Nat PROVE g[n] = IF n \in D THEN H[<<n, g[pre[n]]>>] ELSE A[n]
  <2>1. part(n)[n] = IF n \in D THEN H[<<n, part(n)[pre[n]]>>] ELSE A[n]
    BY <1>1, <1>2, Zenon DEF Recurs
  <2>2. ASSUME n \in D PROVE part(n)[pre[n]] = g[pre[n]]
    <3> DEFINE p == pre[n]
    <3>1. p \in Nat /\ p <= n /\ p \in 0 .. p
      BY <2>2
    <3> HIDE DEF p
    <3>2. part(p)[p] = part(n)[p]
      BY <1>3, <3>1
    <3> QED
      BY <3>1, <3>2 DEF p
  <2> QED
    BY <2>1, <2>2
<1> HIDE DEF g
<1> QED
  BY <1>4, <1>5, Zenon DEF Recurs

---------------------------------------------------------------------------------
(* Powers, and quotients by them.                                           *)

LEMMA PowerIs ==
  ASSUME NEW b \in Nat
  PROVE  /\ Power(b)[0] = 1
         /\ \A k \in Nat : Power(b)[k] \in Nat /\ Power(b)[k + 1] = b * Power(b)[k]
<1> DEFINE Is(f) == f = [k \in Nat |-> IF k = 0 THEN 1 ELSE b * f[k - 1]]
           D == Nat \ {0}
           pre == [k \in D |-> k - 1]
           A == [k \in Nat |-> 1]
           H == [p \in D \X Nat |-> b * p[2]]
<1>1. PICK g \in [Nat -> Nat] : Recurs(g, Nat, D, pre, A, H)
  <2>1. D \in SUBSET Nat /\ pre \in [D -> Nat] /\ \A k \in D : pre[k] < k
    OBVIOUS
  <2>2. A \in [Nat -> Nat] /\ H \in [D \X Nat -> Nat]
    OBVIOUS
  <2> HIDE DEF D, pre, A, H
  <2> QED
    BY <2>1, <2>2, RecursionExists
<1>2. ASSUME NEW k \in Nat PROVE g[k] = IF k = 0 THEN 1 ELSE b * g[k - 1]
  <2>1. g[k] = IF k \in D THEN H[<<k, g[pre[k]]>>] ELSE A[k]
    BY <1>1, Zenon DEF Recurs
  <2>2. CASE k = 0
    BY <2>1, <2>2
  <2>3. CASE k # 0
    <3>1. pre[k] = k - 1 /\ k - 1 \in Nat /\ g[k - 1] \in Nat /\ k \in D
      BY <1>1, <2>3
    <3>2. <<k, g[k - 1]>> \in D \X Nat
      BY <3>1
    <3>3. H[<<k, g[k - 1]>>] = b * g[k - 1]
      BY <3>2
    <3> HIDE DEF D, pre, H, A
    <3> QED
      BY <2>1, <2>3, <3>1, <3>3
  <2> QED
    BY <2>2, <2>3
<1>3. Is(g)
  BY <1>1, <1>2
<1> DEFINE f == CHOOSE f : Is(f)
<1>4. Is(f)
  BY <1>3, Zenon
<1>5. Power(b) = f
  BY DEF Power
<1> HIDE DEF f
<1>6. ASSUME NEW k \in Nat PROVE f[k] = IF k = 0 THEN 1 ELSE b * f[k - 1]
  BY <1>4
<1> HIDE DEF Is
<1>7. ASSUME NEW k \in Nat PROVE f[k + 1] = b * f[k]
  <2>1. k + 1 \in Nat /\ k + 1 # 0 /\ (k + 1) - 1 = k
    OBVIOUS
  <2> QED
    BY <1>6, <2>1
<1>8. f[0] = 1
  BY <1>6
<1> DEFINE S == {k \in Nat : f[k] \in Nat}
<1>9. 0 \in S /\ \A k \in Nat : k \in S => k + 1 \in S
  BY <1>7, <1>8
<1> HIDE DEF S
<1>10. \A k \in Nat : k \in S
  BY <1>9, Induction
<1> QED
  BY <1>5, <1>7, <1>8, <1>10 DEF S

LEMMA MultipleGrows ==
  ASSUME NEW b \in Nat \ {0}, NEW x \in Nat
  PROVE  x <= b * x /\ (x # 0 => b * x # 0)
<1> DEFINE c == b - 1
<1>1. c \in Nat /\ b = c + 1
  OBVIOUS
<1> HIDE DEF c
<1>2. c * x \in Nat /\ b * x = c * x + x
  BY <1>1
<1> QED
  BY <1>2

LEMMA LargerMultiple ==
  ASSUME NEW b \in Nat \ {0}, NEW x \in Nat, NEW y \in Nat, x <= y
  PROVE  b * x <= b * y /\ b * (x + 1) = b * x + b
<1> DEFINE c == y - x
<1>1. c \in Nat /\ y = x + c
  OBVIOUS
<1> HIDE DEF c
<1>2. b * c \in Nat /\ b * x \in Nat /\ b * y = b * x + b * c
  BY <1>1
<1> QED
  BY <1>2

LEMMA PowerGrows ==
  ASSUME NEW b \in Nat \ {0}
  PROVE  /\ \A k \in Nat : Power(b)[k] \in Nat \ {0}
         /\ \A k, l \in Nat : k <= l => Power(b)[k] <= Power(b)[l]
<1> DEFINE p == Power(b)
           S == {k \in Nat : p[k] # 0}
<1>1. p[0] = 1 /\ \A k \in Nat : p[k] \in Nat /\ p[k + 1] = b * p[k]
  BY PowerIs
<1> HIDE DEF p
<1>2. ASSUME NEW k \in Nat PROVE p[k] <= p[k + 1] /\ (p[k] # 0 => p[k + 1] # 0)
  BY <1>1, MultipleGrows
<1>3. 0 \in S /\ \A k \in Nat : k \in S => k + 1 \in S
  BY <1>1, <1>2
<1> HIDE DEF S
<1>4. \A k \in Nat : k \in S
  BY <1>3, Induction
<1>5. ASSUME NEW k \in Nat, NEW l \in Nat, k <= l PROVE p[k] <= p[l]
  <2> DEFINE T == {n \in Nat : p[k] <= p[k + n]}
  <2>1. 0 \in T
    BY <1>1
  <2>2. ASSUME NEW n \in Nat, n \in T PROVE n + 1 \in T
    <3>1. k + n \in Nat /\ (k + n) + 1 = k + (n + 1)
      OBVIOUS
    <3>2. p[k + n] <= p[k + (n + 1)] /\ p[k + n] \in Nat /\ p[k + (n + 1)] \in Nat /\ p[k] \in Nat
      BY <1>1, <1>2, <3>1
    <3> QED
      BY <2>2, <3>2
  <2> HIDE DEF T
  <2>3. \A n \in Nat : n \in T
    BY <2>1, <2>2, Induction
  <2>4. l - k \in Nat /\ k + (l - k) = l
    BY <1>5
  <2> QED
    BY <2>3, <2>4 DEF T
<1> QED
  BY <1>1, <1>4, <1>5 DEF p, S

(* Larger bases have larger powers.                                         *)
LEMMA PowerOfLarger ==
  ASSUME NEW a \in Nat \ {0}, NEW b \in Nat \ {0}, a <= b
  PROVE  \A k \in Nat : Power(a)[k] <= Power(b)[k]
<1> DEFINE p == Power(a)
           q == Power(b)
           S == {k \in Nat : p[k] <= q[k]}
<1>1. /\ p[0] = 1 /\ \A k \in Nat : p[k] \in Nat /\ p[k + 1] = a * p[k]
      /\ q[0] = 1 /\ \A k \in Nat : q[k] \in Nat /\ q[k + 1] = b * q[k]
  BY PowerIs
<1> HIDE DEF p, q
<1>2. 0 \in S
  BY <1>1
<1>3. ASSUME NEW k \in Nat, k \in S PROVE k + 1 \in S
  <2>1. p[k] \in Nat /\ q[k] \in Nat /\ p[k] <= q[k]
    BY <1>1, <1>3
  <2>2. a * p[k] <= b * q[k]
    BY <2>1
  <2> QED
    BY <1>1, <2>2
<1> HIDE DEF S
<1>4. \A k \in Nat : k \in S
  BY <1>2, <1>3, Induction
<1> QED
  BY <1>4 DEF S, p, q

LEMMA QuotientIs ==
  ASSUME NEW d \in Nat \ {0}, NEW q \in Int, NEW n \in Int, q * d <= n, n < q * d + d
  PROVE  n \div d = q
  OBVIOUS

LEMMA QuotientBounds ==
  ASSUME NEW d \in Nat \ {0}, NEW n \in Int
  PROVE  n \div d \in Int /\ (n \div d) * d <= n /\ n < (n \div d) * d + d
  OBVIOUS

(* To divide by a digit, then by a power, is to divide by the next power.   *)
LEMMA QuotientOfQuotient ==
  ASSUME NEW b \in Nat \ {0}, NEW p \in Nat \ {0}, NEW n \in Nat
  PROVE  (n \div b) \div p = n \div (b * p)
<1> DEFINE m == n \div b
           q == m \div p
           x == q * p
<1>1. m \in Int /\ m * b <= n /\ n < m * b + b
  BY QuotientBounds
<1> HIDE DEF m
<1>2. q \in Int /\ q * p <= m /\ m < q * p + p
  BY <1>1, QuotientBounds
<1> HIDE DEF q
<1>3. x \in Int /\ x <= m /\ m + 1 <= x + p
  BY <1>1, <1>2
<1>4. q * (b * p) = x * b /\ q * (b * p) + b * p = (x + p) * b
  BY <1>2
<1> HIDE DEF x
<1>5. x * b <= m * b /\ (m + 1) * b <= (x + p) * b /\ (m + 1) * b = m * b + b
  BY <1>1, <1>3
<1>6. b * p \in Nat \ {0}
  OBVIOUS
<1> DEFINE d == b * p
<1>7. q * d <= n /\ n < q * d + d
  <2>1. x * b \in Int /\ m * b \in Int /\ (m + 1) * b \in Int /\ (x + p) * b \in Int
    BY <1>1, <1>3
  <2> QED
    BY <1>1, <1>4, <1>5, <2>1
<1> HIDE DEF d
<1>8. n \div d = q
  BY <1>2, <1>6, <1>7, QuotientIs DEF d
<1> QED
  BY <1>8 DEF d, q, m

---------------------------------------------------------------------------------
(* The digits of a number, as the code finds them and by position.          *)

Bases == {10, 16}

\* What is printed; the provers do not know a text that is written out as a
\* member of STRING.
Literals ==
  {"text", " ", "", "u", "d", "p", "s", "c", "%", "-", "0x", "(null)", "\n", ":", "<unknown>", "<unknown type>",
   "  Pointer: ", "  Type: ", "  Alignment: ", "  Type check kind: ", "  Left type: ", "  Array type: ",
   "  Kind: ", "  Arg index: ", "  Attribute location: ", "  From type: ", "  Base: ", "  Result: ",
   "function_type_mismatch", "\n  Type: ", "builtin_unreachable", "float cast overflow: From type: ", " To type: ",
   "\n[MISAN FATAL] ", "out of memory", "Stack trace:\n", "  #", "  0x"}

AllDigits == {DigitTexts(upper)[i] : upper \in BOOLEAN, i \in 1 .. 16}

Texts == STRING \cup Literals \cup AllDigits \cup HandlerNames

Digit(n, base, upper) == DigitTexts(upper)[(n % base) + 1]

LEMMA DigitIsText ==
  ASSUME NEW n \in Nat, NEW base \in Bases, NEW upper \in BOOLEAN
  PROVE  Digit(n, base, upper) \in Texts
<1> DEFINE i == (n % base) + 1
<1>1. i \in 1 .. 16
  BY DEF Bases
<1> HIDE DEF i
<1>2. DigitTexts(upper)[i] \in {DigitTexts(u)[j] : u \in BOOLEAN, j \in 1 .. 16}
  BY <1>1
<1> QED
  BY <1>2 DEF Digit, Texts, AllDigits, i

LEMMA QuotientIsSmaller ==
  ASSUME NEW n \in Nat, NEW base \in Bases
  PROVE  /\ n \div base \in Nat /\ base * (n \div base) <= n /\ n < base * (n \div base) + base
         /\ n \div base # 0 => n \div base < n
         /\ n \div base = 0 <=> n < base
  BY DEF Bases

LEMMA BufIs ==
  ASSUME NEW base \in Bases, NEW upper \in BOOLEAN, NEW n \in Nat
  PROVE  /\ Buf(base, upper)[n] \in Seq(Texts)
         /\ Buf(base, upper)[n] =
              <<Digit(n, base, upper)>> \o IF n \div base = 0 THEN <<>> ELSE Buf(base, upper)[n \div base]
<1> DEFINE dig(i) == <<Digit(i, base, upper)>>
           Is(f) == f = [i \in Nat |-> dig(i) \o IF i \div base = 0 THEN <<>> ELSE f[i \div base]]
           D == {i \in Nat : i \div base # 0}
           pre == [i \in D |-> i \div base]
           A == [i \in Nat |-> dig(i)]
           H == [p \in D \X Seq(Texts) |-> dig(p[1]) \o p[2]]
<1>1. \A i \in Nat : dig(i) \in Seq(Texts) /\ dig(i) \o <<>> = dig(i)
  BY DigitIsText
<1>2. PICK g \in [Nat -> Seq(Texts)] : Recurs(g, Nat, D, pre, A, H)
  <2>1. D \in SUBSET Nat /\ pre \in [D -> Nat] /\ \A i \in D : pre[i] < i
    BY QuotientIsSmaller
  <2>2. A \in [Nat -> Seq(Texts)]
    BY <1>1
  <2>3. ASSUME NEW p \in D \X Seq(Texts) PROVE dig(p[1]) \o p[2] \in Seq(Texts)
    <3>1. dig(p[1]) \in Seq(Texts) /\ p[2] \in Seq(Texts)
      BY <1>1
    <3> HIDE DEF dig
    <3> QED
      BY <3>1, ConcatProperties
  <2>4. H \in [D \X Seq(Texts) -> Seq(Texts)]
    <3> HIDE DEF dig
    <3> QED
      BY <2>3
  <2> HIDE DEF D, pre, A, H
  <2> QED
    BY <2>1, <2>2, <2>4, RecursionExists
<1>3. ASSUME NEW i \in Nat PROVE g[i] = dig(i) \o IF i \div base = 0 THEN <<>> ELSE g[i \div base]
  <2>1. g[i] = IF i \in D THEN H[<<i, g[pre[i]]>>] ELSE A[i]
    BY <1>2, Zenon DEF Recurs
  <2>2. CASE i \div base = 0
    BY <1>1, <2>1, <2>2
  <2>3. CASE i \div base # 0
    <3>1. i \in D /\ pre[i] = i \div base /\ i \div base \in Nat
      BY <2>3, QuotientIsSmaller
    <3>2. <<i, g[i \div base]>> \in D \X Seq(Texts)
      BY <1>2, <3>1
    <3> HIDE DEF dig, D
    <3>3. H[<<i, g[i \div base]>>] = dig(i) \o g[i \div base]
      BY <3>2
    <3> HIDE DEF pre, H, A
    <3> QED
      BY <2>1, <2>3, <3>1, <3>3
  <2> QED
    BY <2>2, <2>3
<1> HIDE DEF dig
<1>4. Is(g)
  BY <1>2, <1>3
<1> DEFINE f == CHOOSE f : Is(f)
<1>5. Is(f)
  BY <1>4, Zenon
<1>6. Buf(base, upper) = f
  BY DEF Buf, dig, Digit
<1> HIDE DEF f
<1>7. ASSUME NEW i \in Nat PROVE f[i] = dig(i) \o IF i \div base = 0 THEN <<>> ELSE f[i \div base]
  BY <1>5
<1> HIDE DEF Is
<1> DEFINE S == {i \in Nat : f[i] \in Seq(Texts)}
<1>8. ASSUME NEW i \in Nat, \A m \in 0 .. (i - 1) : m \in S PROVE i \in S
  <2>1. CASE i \div base = 0
    BY <1>1, <1>7, <2>1
  <2>2. CASE i \div base # 0
    <3>1. i \div base \in 0 .. (i - 1)
      BY <2>2, QuotientIsSmaller
    <3>2. f[i \div base] \in Seq(Texts) /\ dig(i) \in Seq(Texts)
      BY <1>1, <1>8, <3>1
    <3>3. f[i] = dig(i) \o f[i \div base]
      BY <1>7, <2>2
    <3>4. f[i] \in Seq(Texts)
      BY <3>2, <3>3, ConcatProperties
    <3> QED
      BY <3>4
  <2> QED
    BY <2>1, <2>2
<1> HIDE DEF S
<1>9. n \in S
  BY <1>8, StrongInduction
<1> QED
  BY <1>6, <1>7, <1>9 DEF S, dig

(* The digits that the code finds, the last one first, are as many as the   *)
(* number has places, and each is the one of its place.                     *)
PlacesOf(k, n, base) == n < Power(base)[k] /\ (k = 1 \/ n >= Power(base)[k - 1])

DigitsOf(buf, n, base, upper) ==
  /\ Len(buf) # 0 /\ PlacesOf(Len(buf), n, base)
  /\ \A j \in 1 .. Len(buf) : buf[j] = Digit(n \div Power(base)[j - 1], base, upper)

LEMMA OneDigit ==
  ASSUME NEW base \in Bases, NEW upper \in BOOLEAN, NEW n \in Nat, n \div base = 0
  PROVE  DigitsOf(<<Digit(n, base, upper)>>, n, base, upper)
<1> DEFINE d == Digit(n, base, upper)
<1>1. Power(base)[0] = 1 /\ Power(base)[1] = base
  <2>1. base \in Nat /\ 0 + 1 = 1 /\ base * 1 = base
    BY DEF Bases
  <2>2. Power(base)[0] = 1 /\ Power(base)[0 + 1] = base * Power(base)[0]
    BY <2>1, PowerIs
  <2> QED BY <2>1, <2>2
<1>2. Len(<<d>>) = 1 /\ <<d>>[1] = d /\ \A j \in 1 .. 1 : j = 1 /\ j - 1 = 0
  OBVIOUS
<1>3. n < base /\ n \div 1 = n
  BY QuotientIsSmaller
<1> HIDE DEF d
<1>4. PlacesOf(1, n, base)
  BY <1>1, <1>3 DEF PlacesOf
<1>5. \A j \in 1 .. 1 : <<d>>[j] = Digit(n \div Power(base)[j - 1], base, upper)
  BY <1>1, <1>2, <1>3 DEF d
<1> QED
  BY <1>2, <1>4, <1>5 DEF DigitsOf, d

(* The number whose quotient by the base has k places has one more.         *)
LEMMA OneMorePlace ==
  ASSUME NEW base \in Bases, NEW n \in Nat, NEW q \in Nat \ {0}, base * q <= n, n < base * q + base,
         NEW k \in Nat \ {0}, PlacesOf(k, q, base)
  PROVE  PlacesOf(k + 1, n, base)
<1> DEFINE P == Power(base)
<1>1. base \in Nat \ {0} /\ (k + 1) - 1 = k
  BY DEF Bases
<1>2. P[0] = 1 /\ (\A j \in Nat : P[j] \in Nat \ {0}) /\ (\A j \in Nat : P[j + 1] = base * P[j])
  BY <1>1, PowerIs, PowerGrows
<1>3. q < P[k] /\ (k = 1 \/ q >= P[k - 1])
  BY DEF PlacesOf
<1> HIDE DEF P
<1>4. n < P[k + 1]
  <2>1. P[k] \in Nat /\ q + 1 <= P[k] /\ P[k + 1] = base * P[k]
    BY <1>2, <1>3
  <2> DEFINE p == P[k]
  <2> HIDE DEF p
  <2> DEFINE r == q + 1
  <2>2. r \in Nat /\ r <= p /\ p \in Nat
    BY <2>1 DEF p
  <2>3. base * (q + 1) = base * q + base
    BY <1>1, LargerMultiple
  <2> HIDE DEF r
  <2>4. base * r <= base * p
    BY <1>1, <2>2, LargerMultiple
  <2> QED
    BY <2>1, <2>3, <2>4 DEF Bases, p, r
<1>5. n >= P[k]
  <2>1. CASE k = 1
    <3>1. P[0 + 1] = base * P[0] /\ 0 + 1 = 1 /\ base * 1 = base
      BY <1>1, <1>2
    <3>2. base * 1 <= base * q
      BY <1>1, LargerMultiple
    <3> QED BY <1>2, <2>1, <3>1, <3>2 DEF Bases
  <2>2. CASE k # 1
    <3>1. k - 1 \in Nat /\ (k - 1) + 1 = k
      BY <2>2
    <3>2. P[k - 1] \in Nat /\ P[k - 1] <= q /\ P[k] = base * P[k - 1]
      BY <1>2, <1>3, <2>2, <3>1
    <3> DEFINE p == P[k - 1]
    <3> HIDE DEF p
    <3>3. base * p <= base * q
      BY <1>1, <3>2, LargerMultiple DEF p
    <3> QED BY <3>2, <3>3 DEF Bases, p
  <2> QED BY <2>1, <2>2
<1> QED
  BY <1>1, <1>4, <1>5 DEF PlacesOf, P

LEMMA MoreDigits ==
  ASSUME NEW base \in Bases, NEW upper \in BOOLEAN, NEW n \in Nat, n \div base # 0,
         NEW buf \in Seq(Texts), DigitsOf(buf, n \div base, base, upper)
  PROVE  DigitsOf(<<Digit(n, base, upper)>> \o buf, n, base, upper)
<1> DEFINE d == Digit(n, base, upper)
           q == n \div base
           k == Len(buf)
           P == Power(base)
           all == <<d>> \o buf
<1>1. /\ q \in Nat /\ base * q <= n /\ n < base * q + base /\ q # 0
      /\ base \in Nat \ {0} /\ k \in Nat
  BY QuotientIsSmaller DEF Bases
<1>2. P[0] = 1 /\ (\A j \in Nat : P[j] \in Nat \ {0}) /\ (\A j \in Nat : P[j + 1] = base * P[j])
  BY <1>1, PowerIs, PowerGrows
<1>3. /\ k # 0 /\ q < P[k] /\ (k = 1 \/ q >= P[k - 1])
      /\ \A j \in 1 .. k : buf[j] = Digit(q \div P[j - 1], base, upper)
  BY DEF DigitsOf, PlacesOf
<1>4. Len(all) = k + 1 /\ all[1] = d /\ \A j \in 2 .. k + 1 : all[j] = buf[j - 1]
  <2>1. d \in Texts
    BY DigitIsText
  <2> HIDE DEF d
  <2>2. <<d>> \in Seq(Texts) /\ Len(<<d>>) = 1 /\ <<d>>[1] = d
    BY <2>1
  <2> DEFINE one == <<d>>
  <2> HIDE DEF one
  <2>3. Len(one \o buf) = 1 + k /\ \A i \in 1 .. 1 + k : (one \o buf)[i] = IF i <= 1 THEN one[i] ELSE buf[i - 1]
    BY <2>2, ConcatProperties DEF one
  <2> QED
    BY <1>1, <2>2, <2>3 DEF one
<1> HIDE DEF all, k, P, q
<1>5. PlacesOf(k + 1, n, base)
  <2>1. k \in Nat \ {0} /\ q \in Nat \ {0} /\ PlacesOf(k, q, base)
    BY <1>1, <1>3 DEF DigitsOf, k, q
  <2> QED BY <1>1, <2>1, OneMorePlace, Zenon
<1>6. \A p \in Nat \ {0} : q \div p = n \div (base * p)
  BY <1>1, QuotientOfQuotient DEF q
<1>7. ASSUME NEW j \in 1 .. k + 1 PROVE all[j] = Digit(n \div P[j - 1], base, upper)
  <2>1. CASE j = 1
    <3>1. P[j - 1] = 1 /\ n \div 1 = n
      BY <1>2, <2>1
    <3> QED BY <1>4, <2>1, <3>1
  <2>2. CASE j # 1
    <3> DEFINE i == j - 1
    <3>1. i \in 1 .. k /\ i - 1 \in Nat /\ (i - 1) + 1 = i /\ j \in 2 .. k + 1
      BY <1>1, <2>2
    <3> HIDE DEF i
    <3>2. all[j] = buf[i]
      BY <1>4, <3>1 DEF i
    <3>3. P[i - 1] \in Nat \ {0} /\ P[i] = base * P[i - 1]
      BY <1>2, <3>1
    <3>4. q \div P[i - 1] = n \div P[i]
      BY <1>6, <3>3, Zenon
    <3>5. buf[i] = Digit(q \div P[i - 1], base, upper)
      BY <1>3, <3>1
    <3> QED BY <3>2, <3>4, <3>5 DEF i
  <2> QED BY <2>1, <2>2
<1> HIDE DEF d
<1>8. k + 1 # 0
  BY <1>1
<1> QED
  BY <1>4, <1>5, <1>7, <1>8, Zenon DEF DigitsOf, all, P, d

LEMMA BufIsDigits ==
  ASSUME NEW base \in Bases, NEW upper \in BOOLEAN
  PROVE  \A n \in Nat : DigitsOf(Buf(base, upper)[n], n, base, upper)
<1> DEFINE S == {n \in Nat : DigitsOf(Buf(base, upper)[n], n, base, upper)}
<1>1. ASSUME NEW n \in Nat, \A m \in 0 .. (n - 1) : m \in S PROVE n \in S
  <2>1. CASE n \div base = 0
    <3>1. Digit(n, base, upper) \in Texts
      BY DigitIsText
    <3>2. <<Digit(n, base, upper)>> \o <<>> = <<Digit(n, base, upper)>>
      BY <3>1
    <3>3. Buf(base, upper)[n] = <<Digit(n, base, upper)>>
      BY <2>1, <3>2, BufIs
    <3> QED BY <2>1, <3>3, OneDigit
  <2>2. CASE n \div base # 0
    <3>1. n \div base \in 0 .. (n - 1)
      BY <2>2, QuotientIsSmaller
    <3>2. DigitsOf(Buf(base, upper)[n \div base], n \div base, base, upper)
      BY <1>1, <3>1
    <3>3. /\ Buf(base, upper)[n \div base] \in Seq(Texts)
          /\ Buf(base, upper)[n] = <<Digit(n, base, upper)>> \o Buf(base, upper)[n \div base]
      <4>1. n \div base \in Nat
        BY QuotientIsSmaller
      <4> QED BY <2>2, <4>1, BufIs, Zenon
    <3>4. DigitsOf(<<Digit(n, base, upper)>> \o Buf(base, upper)[n \div base], n, base, upper)
      BY <2>2, <3>2, <3>3, MoreDigits
    <3> QED BY <3>3, <3>4
  <2> QED BY <2>1, <2>2
<1> HIDE DEF S
<1>2. \A n \in Nat : n \in S
  BY <1>1, StrongInduction
<1> QED
  BY <1>2 DEF S
(* C's number of places is the one that the digits are.                     *)
LEMMA PlacesIs ==
  ASSUME NEW base \in Bases, NEW n \in Nat, n < Power(2)[LongBits], NEW k \in Nat \ {0}, PlacesOf(k, n, base)
  PROVE  Places(n, base) = k
<1> DEFINE P == Power(base)
           is(l) == n < P[l] /\ (l = 1 \/ n >= P[l - 1])
<1>1. base \in Nat \ {0} /\ 2 \in Nat \ {0} /\ 2 <= base
  BY DEF Bases
<1>2. LongBits \in Nat \ {0} /\ Power(2)[LongBits] <= P[LongBits] /\ Power(2)[LongBits] \in Nat
  <2>1. LongBits \in Nat \ {0}
    BY PrintfConstants
  <2>2. \A l \in Nat : Power(2)[l] <= P[l]
    BY <1>1, PowerOfLarger
  <2>3. \A l \in Nat : Power(2)[l] \in Nat
    BY <1>1, PowerIs
  <2> QED BY <2>1, <2>2, <2>3
<1>3. (\A l \in Nat : P[l] \in Nat) /\ \A l, m \in Nat : l <= m => P[l] <= P[m]
  BY <1>1, PowerGrows
<1>4. is(k)
  BY Zenon DEF PlacesOf
<1>5. Places(n, base) = CHOOSE l \in 1 .. LongBits : is(l)
  BY Zenon DEF Places
<1> HIDE DEF P
<1>6. k \in 1 .. LongBits
  <2> SUFFICES ASSUME k > LongBits PROVE FALSE
    BY <1>2
  <2>1. k # 1 /\ k - 1 \in Nat /\ LongBits <= k - 1
    BY <1>2
  <2>2. n >= P[k - 1] /\ P[LongBits] <= P[k - 1] /\ P[k - 1] \in Nat /\ P[LongBits] \in Nat
    BY <1>2, <1>3, <1>4, <2>1
  <2> QED BY <1>2, <2>2
<1>7. ASSUME NEW l \in Nat \ {0}, NEW m \in Nat \ {0}, is(l), is(m), l < m PROVE FALSE
  <2>1. m # 1 /\ m - 1 \in Nat /\ l <= m - 1
    BY <1>7
  <2>2. n < P[l] /\ n >= P[m - 1] /\ P[l] <= P[m - 1] /\ P[l] \in Nat /\ P[m - 1] \in Nat
    BY <1>3, <1>7, <2>1
  <2> QED BY <2>2
<1>8. \A l \in 1 .. LongBits : is(l) => l = k
  <2> SUFFICES ASSUME NEW l \in 1 .. LongBits, is(l), l # k PROVE FALSE
    OBVIOUS
  <2>1. l \in Nat \ {0} /\ (l < k \/ k < l)
    BY <1>2
  <2> HIDE DEF is
  <2> QED BY <1>4, <1>7, <2>1
<1> HIDE DEF is
<1> QED
  BY <1>4, <1>5, <1>6, <1>8, Zenon

LEMMA NumeralIs ==
  ASSUME NEW base \in Bases, NEW upper \in BOOLEAN, NEW n \in Nat, n < Power(2)[LongBits], NEW buf, buf = Buf(base, upper)[n]
  PROVE  /\ Numeral(n, base, upper) \in Seq(Texts) /\ Len(Numeral(n, base, upper)) = Len(buf) /\ Len(buf) \in Nat
         /\ \A i \in 1 .. Len(buf) : Numeral(n, base, upper)[i] = buf[Len(buf) - i + 1]
<1> DEFINE k == Len(buf)
           num == Numeral(n, base, upper)
<1>1. buf \in Seq(Texts) /\ DigitsOf(buf, n, base, upper)
  BY BufIs, BufIsDigits
<1>2. /\ k \in Nat \ {0} /\ PlacesOf(k, n, base)
      /\ \A j \in 1 .. k : buf[j] = Digit(n \div Power(base)[j - 1], base, upper) /\ buf[j] \in Texts
  BY <1>1, ElementOfSeq DEF DigitsOf
<1>3. Places(n, base) = k
  BY <1>2, PlacesIs
<1>4. num = [i \in 1 .. k |-> Digit(n \div Power(base)[k - i], base, upper)]
  BY <1>3, Zenon DEF Numeral, Digit
<1> HIDE DEF num, k
<1>5. \A i \in 1 .. k : num[i] = buf[k - i + 1] /\ num[i] \in Texts
  <2>1. ASSUME NEW i \in 1 .. k PROVE num[i] = buf[k - i + 1] /\ num[i] \in Texts
    <3> DEFINE j == k - i + 1
    <3>1. j \in 1 .. k /\ j - 1 = k - i
      BY <1>2
    <3> HIDE DEF j
    <3>2. num[i] = Digit(n \div Power(base)[k - i], base, upper)
      BY <1>4
    <3>3. buf[j] = Digit(n \div Power(base)[j - 1], base, upper) /\ buf[j] \in Texts
      BY <1>2, <3>1, Zenon
    <3> QED BY <3>1, <3>2, <3>3 DEF j
  <2> QED BY <2>1
<1>6. num \in [1 .. k -> Texts]
  <2> DEFINE dig(i) == Digit(n \div Power(base)[k - i], base, upper)
  <2>1. \A i \in 1 .. k : dig(i) \in Texts
    BY <1>4, <1>5
  <2> HIDE DEF dig
  <2>2. num = [i \in 1 .. k |-> dig(i)]
    BY <1>4, Zenon DEF dig
  <2> QED BY <2>1, <2>2
<1>7. num \in Seq(Texts) /\ Len(num) = k
  BY <1>2, <1>6
<1> QED
  BY <1>2, <1>5, <1>7 DEF num, k

Texted(s) == [i \in 1 .. Len(s) |-> Text(s[i])]

(* A number that fills its field is printed as in C.                        *)
LEMMA PutnIs ==
  ASSUME NEW base \in Bases, NEW upper \in BOOLEAN, NEW n \in Nat, n < Power(2)[LongBits],
         NEW width, NEW pad, ~(Len(Numeral(n, base, upper)) < width)
  PROVE  drt_putn(n, base, width, pad, upper) = Texted(Numeral(n, base, upper))
<1> DEFINE buf == Buf(base, upper)[n]
           num == Numeral(n, base, upper)
<1>1. Len(num) = Len(buf) /\ \A i \in 1 .. Len(buf) : num[i] = buf[Len(buf) - i + 1]
  BY NumeralIs
<1>2. drt_putn(n, base, width, pad, upper) =
        IF Len(buf) < width THEN <<Forever(pad)>> ELSE [i \in 1 .. Len(buf) |-> Text(buf[Len(buf) - i + 1])]
  BY Zenon DEF drt_putn
<1>3. ~(Len(num) < width)
  OBVIOUS
<1> HIDE DEF buf, num
<1>4. drt_putn(n, base, width, pad, upper) = [i \in 1 .. Len(buf) |-> Text(buf[Len(buf) - i + 1])]
  BY <1>1, <1>2, <1>3, Zenon
<1>5. Texted(num) = [i \in 1 .. Len(buf) |-> Text(buf[Len(buf) - i + 1])]
  BY <1>1, Zenon DEF Texted
<1> QED
  BY <1>4, <1>5 DEF num

(* The arguments, in the width of their directive.                          *)
LEMMA PowersOfTwo ==
  ASSUME NEW bits \in Nat \ {0}, bits <= LongBits
  PROVE  /\ Power(2)[bits] \in Nat \ {0} /\ Power(2)[bits - 1] \in Nat \ {0}
         /\ Power(2)[bits] = 2 * Power(2)[bits - 1]
         /\ Power(2)[bits] <= Power(2)[LongBits] /\ Power(2)[LongBits] \in Nat
<1>1. 2 \in Nat \ {0} /\ bits - 1 \in Nat /\ (bits - 1) + 1 = bits /\ LongBits \in Nat /\ bits \in Nat
  BY PrintfConstants
<1>2. /\ \A k \in Nat : Power(2)[k] \in Nat \ {0}
      /\ \A k, l \in Nat : k <= l => Power(2)[k] <= Power(2)[l]
  BY <1>1, PowerGrows
<1>3. \A k \in Nat : Power(2)[k + 1] = 2 * Power(2)[k]
  BY <1>1, PowerIs
<1> DEFINE P == Power(2)
<1> HIDE DEF P
<1>4. P[bits] = 2 * P[bits - 1]
  BY <1>1, <1>3 DEF P
<1> QED
  BY <1>1, <1>2, <1>4 DEF P

LEMMA UnsignedIs ==
  ASSUME NEW n \in Int, NEW bits \in Nat \ {0}, bits <= LongBits
  PROVE  Unsigned(n, bits) \in Nat /\ Unsigned(n, bits) < Power(2)[LongBits]
<1> DEFINE P == Power(2)[bits]
<1>1. P \in Nat \ {0} /\ P <= Power(2)[LongBits] /\ Power(2)[LongBits] \in Nat
  BY PowersOfTwo
<1> HIDE DEF P
<1>2. n % P \in 0 .. (P - 1)
  BY <1>1
<1>3. Unsigned(n, bits) = n % P
  BY DEF Unsigned, P
<1> QED
  BY <1>1, <1>2, <1>3

(* The smallest value of a signed width has no negative in it; the digits   *)
(* of its negative are right all the same, for they are read unsigned.      *)
LEMMA SignedIs ==
  ASSUME NEW n \in Int, NEW bits \in Nat \ {0}, bits <= LongBits, NEW v, v = Signed(n, bits)
  PROVE  /\ v \in Int /\ v < Power(2)[LongBits]
         /\ v < 0 => -v \in Nat /\ -v < Power(2)[LongBits] /\ Unsigned(-v, LongBits) = -v
<1> DEFINE P == Power(2)[bits]
           H == Power(2)[bits - 1]
           L == Power(2)[LongBits]
<1>1. P \in Nat \ {0} /\ H \in Nat \ {0} /\ P = 2 * H /\ P <= L /\ L \in Nat
  BY PowersOfTwo
<1>2. v = ((n + H) % P) - H
  BY DEF Signed
<1>3. Unsigned(-v, LongBits) = (-v) % L
  BY DEF Unsigned
<1> HIDE DEF P, H, L
<1>4. (n + H) % P \in 0 .. (P - 1)
  BY <1>1
<1>5. v \in Int /\ -H <= v /\ v < H /\ H < L
  BY <1>1, <1>2, <1>4
<1>6. ASSUME v < 0 PROVE -v \in Nat /\ -v < L /\ (-v) % L = -v
  <2> DEFINE w == -v
  <2>1. w \in Nat /\ w < L
    BY <1>1, <1>5, <1>6
  <2> HIDE DEF w
  <2>2. w % L = w
    BY <1>1, <2>1
  <2> QED BY <2>1, <2>2 DEF w
<1> QED
  BY <1>1, <1>3, <1>5, <1>6 DEF L
---------------------------------------------------------------------------------
(* What is to be printed, and what the code makes of it.                    *)

Items == [conv : Texts, pad : Texts, width : Nat, long : Nat, n : Int, text : Texts]
Issuable == {d \in Items : d.conv # "forever"}

(* SMT takes no text with a space in it: Zenon does what is about those.    *)
LEMMA LiteralsAreTexts == \A s \in Literals : s \in Texts
  BY Zenon DEF Texts

LEMMA WordsAreTexts == "text" \in Texts /\ "u" \in Texts /\ "d" \in Texts /\ "p" \in Texts /\ "s" \in Texts
  BY LiteralsAreTexts, Zenon DEF Literals

LEMMA RecordIs ==
  ASSUME NEW conv \in Texts, NEW pad \in Texts, NEW text \in Texts
  PROVE  LET item == [conv |-> conv, pad |-> pad, width |-> 0, long |-> 0, n |-> 0, text |-> text]
         IN  item \in Items /\ item.conv = conv
  BY DEF Items

LEMMA ItemIs == Item \in Items /\ Item.conv = "text"
<1>1. "text" \in Texts /\ " " \in Texts /\ "" \in Texts
  BY LiteralsAreTexts, Zenon DEF Literals
<1> QED
  BY <1>1, RecordIs, Zenon DEF Item

LEMMA TextIs ==
  ASSUME NEW s \in Texts
  PROVE  Text(s) \in Issuable /\ Text(s).conv = "text" /\ CText(Text(s)) = <<s>> /\ ~Short(Text(s))
<1>1. Text(s) = [Item EXCEPT !.text = s]
  BY Zenon DEF Text
<1>2. Text(s) \in Items /\ Text(s).conv = "text" /\ Text(s).text = s
  BY <1>1, ItemIs DEF Items
<1>3. ~Numeric(Text(s))
  BY <1>2 DEF Numeric
<1>4. CText(Text(s)) = <<s>>
  BY <1>2, <1>3 DEF CText
<1> QED
  BY <1>2, <1>3, <1>4 DEF Issuable, Short

LEMMA DirectiveIs ==
  ASSUME NEW conv \in {"u", "d", "p"}, NEW n \in Nat
  PROVE  /\ Directive(conv, n) \in Issuable
         /\ [Directive(conv, n) EXCEPT !.long = 3] \in Issuable
<1>1. conv \in Texts /\ conv # "forever"
  BY WordsAreTexts
<1>2. Directive(conv, n) = [Item EXCEPT !.conv = conv, !.n = n]
  BY Zenon DEF Directive
<1>3. Directive(conv, n) \in Items /\ Directive(conv, n).conv = conv
  <2> DEFINE one == [Item EXCEPT !.conv = conv]
  <2>1. one \in Items /\ one.conv = conv
    BY <1>1, ItemIs DEF Items
  <2>2. Directive(conv, n) = [one EXCEPT !.n = n]
    BY <1>2, Zenon
  <2> HIDE DEF one
  <2> QED BY <2>1, <2>2 DEF Items
<1> QED
  BY <1>1, <1>3 DEF Items, Issuable

LEMMA StringIs ==
  ASSUME NEW s \in Texts
  PROVE  String(s) \in Issuable
<1>1. String(s) = [Item EXCEPT !.conv = "s", !.text = s]
  BY Zenon DEF String
<1> DEFINE one == [Item EXCEPT !.conv = "s"]
<1>2. one \in Items /\ one.conv = "s"
  BY ItemIs, WordsAreTexts DEF Items
<1>3. String(s) = [one EXCEPT !.text = s]
  BY <1>1, Zenon
<1> HIDE DEF one
<1> QED BY <1>2, <1>3 DEF Items, Issuable

LEMMA DirectivesAreIssuable == Directives \subseteq Issuable
<1>1. (\A s \in STRING : s \in Texts) /\ \A l \in 0 .. 3 : l \in Nat
  <2>1. \A s \in STRING : s \in Texts
    BY Zenon DEF Texts
  <2>2. \A l \in 0 .. 3 : l \in Nat
    OBVIOUS
  <2> QED BY <2>1, <2>2, Zenon
<1> QED
  BY <1>1 DEF Directives, Items, Issuable

LEMMA BitsIs ==
  ASSUME NEW d
  PROVE  Bits(d) \in Nat \ {0} /\ Bits(d) <= LongBits
  BY PrintfConstants DEF Bits

(* An element before a sequence.                                            *)
LEMMA Prefixed ==
  ASSUME NEW T, NEW e \in T, NEW rest \in Seq(T), NEW all, all = <<e>> \o rest
  PROVE  /\ all \in Seq(T) /\ Len(all) = Len(rest) + 1 /\ Len(rest) \in Nat
         /\ all[1] = e /\ \A i \in 2 .. Len(rest) + 1 : all[i] = rest[i - 1]
<1> DEFINE one == <<e>>
           n == Len(rest)
<1>1. one \in Seq(T) /\ Len(one) = 1 /\ one[1] = e
  OBVIOUS
<1> HIDE DEF one
<1>2. /\ all \in Seq(T) /\ Len(all) = Len(one) + Len(rest)
      /\ \A i \in 1 .. Len(one) + Len(rest) : all[i] = IF i <= Len(one) THEN one[i] ELSE rest[i - Len(one)]
  BY <1>1, ConcatProperties, Zenon DEF one
<1>3. n \in Nat
  BY LenProperties
<1> HIDE DEF n
<1>4. Len(all) = 1 + n /\ \A i \in 1 .. 1 + n : all[i] = IF i <= 1 THEN one[i] ELSE rest[i - 1]
  BY <1>1, <1>2, Zenon DEF n
<1>5. all[1] = e
  <2>1. 1 \in 1 .. 1 + n /\ 1 <= 1
    BY <1>3
  <2> QED BY <1>1, <1>4, <2>1, Zenon
<1>6. ASSUME NEW i \in 2 .. n + 1 PROVE all[i] = rest[i - 1]
  <2>1. i \in 1 .. 1 + n /\ ~(i <= 1)
    BY <1>3
  <2> QED BY <1>4, <2>1, Zenon
<1>7. 1 + n = n + 1
  BY <1>3
<1> QED
  BY <1>2, <1>3, <1>4, <1>5, <1>6, <1>7 DEF n

LEMMA TextedIs ==
  ASSUME NEW s \in Seq(Texts)
  PROVE  /\ Texted(s) \in Seq(Issuable) /\ Len(Texted(s)) = Len(s) /\ Len(s) \in Nat
         /\ \A i \in 1 .. Len(s) : Texted(s)[i] = Text(s[i]) /\ s[i] \in Texts
<1> DEFINE n == Len(s)
           item(i) == Text(s[i])
<1>1. n \in Nat /\ \A i \in 1 .. n : s[i] \in Texts
  BY ElementOfSeq, LenProperties
<1>2. \A i \in 1 .. n : item(i) \in Issuable
  BY <1>1, TextIs
<1>3. Texted(s) = [i \in 1 .. n |-> item(i)]
  BY Zenon DEF Texted
<1> HIDE DEF item, n
<1>4. Texted(s) \in [1 .. n -> Issuable] /\ \A i \in 1 .. n : Texted(s)[i] = item(i)
  BY <1>2, <1>3
<1>5. Texted(s) \in Seq(Issuable) /\ Len(Texted(s)) = n
  BY <1>1, <1>4
<1> QED
  BY <1>1, <1>4, <1>5 DEF item, n

LEMMA TextedConcat ==
  ASSUME NEW s \in Texts, NEW rest \in Seq(Texts)
  PROVE  <<Text(s)>> \o Texted(rest) = Texted(<<s>> \o rest)
<1> DEFINE n == Len(rest)
           one == <<s>> \o rest
           two == <<Text(s)>> \o Texted(rest)
<1>1. one \in Seq(Texts) /\ Len(one) = n + 1 /\ n \in Nat /\ one[1] = s /\ \A i \in 2 .. n + 1 : one[i] = rest[i - 1]
  BY Prefixed
<1>2. Texted(rest) \in Seq(Issuable) /\ Len(Texted(rest)) = n /\ \A i \in 1 .. n : Texted(rest)[i] = Text(rest[i])
  BY TextedIs
<1>3. Text(s) \in Issuable
  BY TextIs
<1>4. /\ two \in Seq(Issuable) /\ Len(two) = n + 1 /\ two[1] = Text(s)
      /\ \A i \in 2 .. n + 1 : two[i] = Texted(rest)[i - 1]
  BY <1>2, <1>3, Prefixed
<1>5. Texted(one) \in Seq(Issuable) /\ Len(Texted(one)) = n + 1 /\ \A i \in 1 .. n + 1 : Texted(one)[i] = Text(one[i])
  BY <1>1, TextedIs
<1> HIDE DEF one, two, n
<1>6. ASSUME NEW i \in 1 .. n + 1 PROVE two[i] = Texted(one)[i]
  <2>1. CASE i = 1
    BY <1>1, <1>4, <1>5, <2>1
  <2>2. CASE i # 1
    <3>1. i \in 2 .. n + 1 /\ i - 1 \in 1 .. n
      BY <1>1, <2>2
    <3> QED BY <1>1, <1>2, <1>4, <1>5, <3>1
  <2> QED BY <2>1, <2>2
<1>7. two = Texted(one)
  BY <1>4, <1>5, <1>6, SeqEqual
<1> QED
  BY <1>7 DEF one, two
(* What C prints is a sequence of texts.                                    *)
LEMMA NumeralIsTexts ==
  ASSUME NEW base \in Bases, NEW upper \in BOOLEAN, NEW n \in Nat, n < Power(2)[LongBits]
  PROVE  Numeral(n, base, upper) \in Seq(Texts)
  BY NumeralIs

LEMMA PrintableLiterals ==
  /\ "-" \in Texts /\ "0x" \in Texts /\ "(null)" \in Texts /\ "%" \in Texts
  /\ FALSE \in BOOLEAN /\ TRUE \in BOOLEAN
  BY LiteralsAreTexts, Zenon DEF Literals

(* An unsigned number.                                                      *)
LEMMA ExpandUnsigned ==
  ASSUME NEW d \in Items, d.conv \in {"u", "x", "X"}
  PROVE  CText(d) \in Seq(Texts) /\ (~Short(d) => Expand(d) = Texted(CText(d)))
<1> DEFINE n == Unsigned(d.n, Bits(d))
           base == IF d.conv = "u" THEN 10 ELSE 16
           upper == d.conv = "X"
           num == Numeral(n, base, upper)
<1>1. d.n \in Int /\ base \in Bases /\ upper \in BOOLEAN
  BY DEF Items, Bases
<1>2. n \in Nat /\ n < Power(2)[LongBits]
  BY <1>1, BitsIs, UnsignedIs
<1>3. CNumber(d) = [sign |-> <<>>, digits |-> num, width |-> d.width]
  <2>1. CASE d.conv = "u"
    BY <2>1 DEF CNumber
  <2>2. CASE d.conv \in {"x", "X"}
    BY <2>2 DEF CNumber
  <2> QED BY <2>1, <2>2
<1>4. Expand(d) = drt_putn(n, base, d.width, d.pad, upper)
  BY DEF Expand
<1>5. Numeric(d) /\ d.conv # "p"
  BY DEF Numeric
<1> HIDE DEF n, base, upper
<1>6. num \in Seq(Texts)
  BY <1>1, <1>2, NumeralIsTexts
<1>7. ~(Len(num) < d.width) => drt_putn(n, base, d.width, d.pad, upper) = Texted(num)
  BY <1>1, <1>2, PutnIs
<1> HIDE DEF num
<1>8. <<>> \o num = num /\ <<>> \o <<>> \o num = num
  BY <1>6
<1>9. CText(d) = num
  BY <1>3, <1>5, <1>8 DEF CText
<1>10. ~Short(d) => ~(Len(num) < d.width)
  BY <1>3, <1>5, <1>8 DEF Short
<1> QED
  BY <1>4, <1>6, <1>7, <1>9, <1>10

LEMMA ExpandPointer ==
  ASSUME NEW d \in Items, d.conv = "p"
  PROVE  CText(d) \in Seq(Texts) /\ (~Short(d) => Expand(d) = Texted(CText(d)))
<1> DEFINE n == Unsigned(d.n, LongBits)
           num == Numeral(n, 16, FALSE)
<1>1. d.n \in Int /\ 16 \in Bases /\ FALSE \in BOOLEAN /\ LongBits \in Nat \ {0} /\ LongBits <= LongBits
  BY PrintfConstants DEF Items, Bases
<1>2. n \in Nat /\ n < Power(2)[LongBits]
  BY <1>1, UnsignedIs
<1>3. CNumber(d) = [sign |-> <<>>, digits |-> num, width |-> PointerDigits]
  BY DEF CNumber
<1>4. Expand(d) = <<Text("0x")>> \o drt_putn(n, 16, PointerDigits, "0", FALSE)
  BY DEF Expand
<1>5. Numeric(d)
  BY DEF Numeric
<1> HIDE DEF n
<1>6. num \in Seq(Texts)
  BY <1>1, <1>2, NumeralIsTexts
<1>7. ~(Len(num) < PointerDigits) => drt_putn(n, 16, PointerDigits, "0", FALSE) = Texted(num)
  BY <1>1, <1>2, PutnIs
<1> HIDE DEF num
<1>8. "0x" \in Texts
  BY PrintableLiterals
<1>9. <<>> \o num = num /\ (<<"0x">> \o <<>>) \o num = <<"0x">> \o num
  BY <1>6, <1>8
<1>10. CText(d) = <<"0x">> \o num
  BY <1>3, <1>5, <1>9 DEF CText
<1>11. ~Short(d) => ~(Len(num) < PointerDigits)
  BY <1>3, <1>5, <1>9 DEF Short
<1>12. <<"0x">> \o num \in Seq(Texts)
  BY <1>6, <1>8, Prefixed
<1>13. <<Text("0x")>> \o Texted(num) = Texted(<<"0x">> \o num)
  BY <1>6, <1>8, TextedConcat
<1> QED
  BY <1>4, <1>7, <1>10, <1>11, <1>12, <1>13

LEMMA ExpandSigned ==
  ASSUME NEW d \in Items, d.conv = "d"
  PROVE  CText(d) \in Seq(Texts) /\ (~Short(d) => Expand(d) = Texted(CText(d)))
<1> DEFINE v == Signed(d.n, Bits(d))
           num(n) == Numeral(n, 10, FALSE)
<1>1. d.n \in Int /\ 10 \in Bases /\ FALSE \in BOOLEAN /\ d.width \in Nat
  BY DEF Items, Bases
<1>2. /\ v \in Int /\ v < Power(2)[LongBits]
      /\ v < 0 => -v \in Nat /\ -v < Power(2)[LongBits] /\ Unsigned(-v, LongBits) = -v
  BY <1>1, BitsIs, SignedIs
<1>3. CNumber(d) = [sign |-> IF v < 0 THEN <<"-">> ELSE <<>>, digits |-> num(IF v < 0 THEN -v ELSE v), width |-> d.width]
  BY DEF CNumber
<1>4. Expand(d) = drt_putsn(v, 10, d.width, d.pad)
  BY DEF Expand
<1>5. Numeric(d) /\ d.conv # "p"
  BY DEF Numeric
<1> HIDE DEF v
<1>6. \A n \in Nat : n < Power(2)[LongBits] =>
        /\ num(n) \in Seq(Texts)
        /\ \A width : ~(Len(num(n)) < width) => drt_putn(n, 10, width, d.pad, FALSE) = Texted(num(n))
  BY <1>1, NumeralIsTexts, PutnIs
<1> HIDE DEF num
<1>7. CASE v < 0
  <2> DEFINE w == -v
             s == num(w)
             rest == IF d.width > 0 THEN d.width - 1 ELSE 0
  <2>1. w \in Nat /\ w < Power(2)[LongBits] /\ Unsigned(w, LongBits) = w
    BY <1>2, <1>7
  <2>2. CNumber(d) = [sign |-> <<"-">>, digits |-> s, width |-> d.width]
    BY <1>3, <1>7
  <2>3. Expand(d) = <<Text("-")>> \o drt_putn(w, 10, rest, d.pad, FALSE)
    BY <1>4, <1>7, <2>1 DEF drt_putsn
  <2> HIDE DEF w
  <2>4. s \in Seq(Texts) /\ \A width : ~(Len(s) < width) => drt_putn(w, 10, width, d.pad, FALSE) = Texted(s)
    BY <1>6, <2>1
  <2> HIDE DEF s
  <2>5. "-" \in Texts
    BY PrintableLiterals
  <2>6. <<"-">> \o s \in Seq(Texts) /\ Len(<<"-">> \o s) = Len(s) + 1 /\ Len(s) \in Nat
    BY <2>4, <2>5, Prefixed
  <2>7. <<Text("-")>> \o Texted(s) = Texted(<<"-">> \o s)
    BY <2>4, <2>5, TextedConcat
  <2>8. (<<>> \o <<"-">>) \o s = <<"-">> \o s
    BY <2>4, <2>5
  <2>9. CText(d) = <<"-">> \o s
    BY <1>5, <2>2, <2>8 DEF CText
  <2>10. ASSUME ~Short(d) PROVE ~(Len(s) < rest)
    <3>1. ~(Len(<<"-">> \o s) < d.width)
      BY <1>5, <2>2, <2>10 DEF Short
    <3> DEFINE k == Len(s)
    <3>2. k \in Nat /\ ~(k + 1 < d.width)
      BY <2>6, <3>1
    <3> HIDE DEF k
    <3>3. ~(k < rest)
      BY <1>1, <3>2
    <3> QED BY <3>3 DEF k
  <2> HIDE DEF rest
  <2> QED BY <2>3, <2>4, <2>6, <2>7, <2>9, <2>10
<1>8. CASE ~(v < 0)
  <2> DEFINE s == num(v)
  <2>1. v \in Nat /\ v < Power(2)[LongBits]
    BY <1>2, <1>8
  <2>2. CNumber(d) = [sign |-> <<>>, digits |-> s, width |-> d.width]
    BY <1>3, <1>8
  <2>3. Expand(d) = drt_putn(v, 10, d.width, d.pad, FALSE)
    BY <1>4, <1>8 DEF drt_putsn
  <2>4. s \in Seq(Texts) /\ \A width : ~(Len(s) < width) => drt_putn(v, 10, width, d.pad, FALSE) = Texted(s)
    BY <1>6, <2>1
  <2> HIDE DEF s
  <2>5. <<>> \o s = s /\ <<>> \o <<>> \o s = s
    BY <2>4
  <2>6. CText(d) = s
    BY <1>5, <2>2, <2>5 DEF CText
  <2>7. ~Short(d) => ~(Len(s) < d.width)
    BY <1>5, <2>2, <2>5 DEF Short
  <2> QED BY <2>3, <2>4, <2>6, <2>7
<1> QED
  BY <1>7, <1>8

(* Whatever a directive is, the code makes of it the texts that C prints.   *)
LEMMA ExpandIs ==
  ASSUME NEW d \in Items
  PROVE  /\ CText(d) \in Seq(Texts)
         /\ d.conv \notin {"text", "forever"} /\ ~Short(d) => Expand(d) = Texted(CText(d))
<1>1. CASE d.conv \in {"u", "x", "X"}
  BY <1>1, ExpandUnsigned
<1>2. CASE d.conv = "p"
  BY <1>2, ExpandPointer
<1>3. CASE d.conv = "d"
  BY <1>3, ExpandSigned
<1>4. ASSUME d.conv \notin {"d", "u", "x", "X", "p"}
      PROVE  ~Numeric(d)
  BY <1>4 DEF Numeric
<1>5. ASSUME NEW s \in Texts
      PROVE  <<s>> \in Seq(Texts) /\ Texted(<<s>>) = <<Text(s)>>
  <2>1. <<s>> \in Seq(Texts) /\ Len(<<s>>) = 1 /\ <<s>>[1] = s
    OBVIOUS
  <2>2. Texted(<<s>>) = [i \in 1 .. 1 |-> Text(<<s>>[i])]
    BY <2>1, Zenon DEF Texted
  <2> QED BY <2>1, <2>2
<1>6. d.text \in Texts /\ d.conv \in Texts /\ "(null)" \in Texts /\ "%" \in Texts
  BY PrintableLiterals DEF Items
<1>7. CASE d.conv \in {"s", "c", "%", "text"}
  <2> DEFINE s == IF d.conv = "%" THEN "%" ELSE IF d.conv = "s" /\ d.text = Null THEN "(null)" ELSE d.text
  <2>1. s \in Texts /\ ~Numeric(d)
    BY <1>4, <1>6, <1>7
  <2>2. CText(d) = <<s>>
    BY <1>7, <2>1 DEF CText
  <2>3. d.conv # "text" => Expand(d) = <<Text(s)>>
    BY <1>7 DEF Expand
  <2> HIDE DEF s
  <2> QED BY <1>5, <2>1, <2>2, <2>3
<1>8. CASE d.conv \notin {"d", "u", "x", "X", "p", "s", "c", "%", "text"}
  <2>1. CText(d) = <<"%", d.conv>>
    BY <1>4, <1>8 DEF CText
  <2>2. Expand(d) = <<Text("%"), Text(d.conv)>>
    BY <1>8 DEF Expand
  <2> DEFINE c == d.conv
             one == <<c>>
  <2>3. one \in Seq(Texts) /\ Texted(one) = <<Text(c)>>
    BY <1>5, <1>6
  <2>4. <<"%", c>> = <<"%">> \o one /\ <<Text("%"), Text(c)>> = <<Text("%")>> \o <<Text(c)>>
    <3> HIDE DEF c
    <3> QED OBVIOUS
  <2>5. <<"%">> \o one \in Seq(Texts) /\ <<Text("%")>> \o Texted(one) = Texted(<<"%">> \o one)
    <3> HIDE DEF one
    <3> QED BY <1>6, <2>3, Prefixed, TextedConcat
  <2> HIDE DEF one
  <2> QED BY <2>1, <2>2, <2>3, <2>4, <2>5
<1> QED
  BY <1>1, <1>2, <1>3, <1>7, <1>8
---------------------------------------------------------------------------------
(* A series of lists, one after the other.                                  *)

LEMMA SeqInduction ==
  ASSUME NEW T, NEW P, <<>> \in P, \A s \in Seq(T), e \in T : s \in P => Append(s, e) \in P
  PROVE  \A s \in Seq(T) : s \in P
<1> DEFINE S == {n \in Nat : \A s \in Seq(T) : Len(s) = n => s \in P}
<1>1. 0 \in S
  <2>1. \A s \in Seq(T) : Len(s) = 0 => s = <<>>
    BY EmptySeq
  <2> QED BY <2>1
<1>2. ASSUME NEW n \in Nat, n \in S PROVE n + 1 \in S
  <2> SUFFICES ASSUME NEW s \in Seq(T), Len(s) = n + 1 PROVE s \in P
    OBVIOUS
  <2>1. s # <<>>
    BY EmptySeq
  <2>2. PICK r \in Seq(T), e \in T : s = Append(r, e)
    BY <2>1, SequenceEmptyOrAppend
  <2>3. Len(r) = n
    <3>1. Len(s) = Len(r) + 1 /\ Len(r) \in Nat
      BY <2>2, AppendProperties, LenProperties
    <3> QED BY <3>1
  <2>4. r \in P
    BY <1>2, <2>3
  <2> QED BY <2>2, <2>4
<1> HIDE DEF S
<1>3. \A n \in Nat : n \in S
  BY <1>1, <1>2, Induction
<1>4. ASSUME NEW s \in Seq(T) PROVE s \in P
  <2>1. Len(s) \in Nat
    BY LenProperties
  <2>2. Len(s) \in S
    BY <1>3, <2>1
  <2> QED BY <2>2 DEF S
<1> QED BY <1>4

Flattens(f, ss, n) == f = [i \in 1 .. n |-> IF i = 1 THEN ss[i] ELSE f[i - 1] \o ss[i]]

LEMMA FlattenIs ==
  ASSUME NEW ss, Len(ss) # 0
  PROVE  FlattenSeq(ss) = (CHOOSE f : Flattens(f, ss, Len(ss)))[Len(ss)]
  BY DEF FlattenSeq, Flattens

LEMMA FlattenExists ==
  ASSUME NEW ss
  PROVE  \A n \in Nat : \E f : Flattens(f, ss, n + 1)
<1> DEFINE S == {n \in Nat : \E f : Flattens(f, ss, n + 1)}
<1>1. 0 \in S
  <2> DEFINE f == [i \in 1 .. 0 + 1 |-> ss[i]]
  <2>1. f = [i \in 1 .. 0 + 1 |-> IF i = 1 THEN ss[i] ELSE f[i - 1] \o ss[i]]
    <3>1. \A i \in 1 .. 0 + 1 : i = 1
      OBVIOUS
    <3> QED BY <3>1
  <2> QED BY <2>1 DEF Flattens
<1>2. ASSUME NEW n \in Nat, n \in S PROVE n + 1 \in S
  <2>1. PICK f : Flattens(f, ss, n + 1)
    BY <1>2
  <2> DEFINE final == f[n + 1] \o ss[n + 2]
             g == [i \in 1 .. n + 2 |-> IF i <= n + 1 THEN f[i] ELSE final]
  <2>2. \A i \in 1 .. n + 1 : f[i] = IF i = 1 THEN ss[i] ELSE f[i - 1] \o ss[i]
    BY <2>1 DEF Flattens
  <2>3. \A i \in 1 .. n + 2 : g[i] = IF i = 1 THEN ss[i] ELSE g[i - 1] \o ss[i]
    <3>1. SUFFICES ASSUME NEW i \in 1 .. n + 2
                   PROVE  g[i] = IF i = 1 THEN ss[i] ELSE g[i - 1] \o ss[i]
      OBVIOUS
    <3>2. CASE i = n + 2
      <4>1. i # 1 /\ i - 1 = n + 1 /\ n + 1 \in 1 .. n + 2 /\ ~(i <= n + 1) /\ n + 1 <= n + 1
        BY <3>2
      <4>2. g[i] = final /\ g[n + 1] = f[n + 1]
        BY <4>1, Zenon
      <4> QED BY <3>2, <4>1, <4>2, Zenon
    <3>3. CASE i # n + 2
      <4>1. i \in 1 .. n + 1 /\ g[i] = f[i] /\ (i # 1 => i - 1 \in 1 .. n + 1)
        BY <3>3
      <4>2. i # 1 => g[i - 1] = f[i - 1]
        BY <4>1
      <4> QED BY <2>2, <4>1, <4>2, Zenon
    <3> QED BY <3>2, <3>3
  <2>4. g = [i \in 1 .. n + 2 |-> IF i = 1 THEN ss[i] ELSE g[i - 1] \o ss[i]]
    <3> HIDE DEF final
    <3>1. g = [i \in 1 .. n + 2 |-> g[i]]
      OBVIOUS
    <3> HIDE DEF g
    <3> QED BY <2>3, <3>1, Zenon
  <2>5. n + 2 = (n + 1) + 1
    OBVIOUS
  <2>6. Flattens(g, ss, (n + 1) + 1)
    BY <2>4, <2>5, Zenon DEF Flattens
  <2> QED BY <2>6
<1> HIDE DEF S
<1>3. \A n \in Nat : n \in S
  BY <1>1, <1>2, Induction
<1> QED
  BY <1>3 DEF S

LEMMA FlattenAppend ==
  ASSUME NEW T, NEW ss \in Seq(Seq(T)), NEW s \in Seq(T), FlattenSeq(ss) \in Seq(T)
  PROVE  FlattenSeq(Append(ss, s)) = FlattenSeq(ss) \o s
<1> DEFINE N == Len(ss)
           all == Append(ss, s)
           f == CHOOSE f : Flattens(f, ss, N)
           g == CHOOSE g : Flattens(g, all, N + 1)
<1>1. N \in Nat /\ Len(all) = N + 1 /\ (\A i \in 1 .. N : all[i] = ss[i]) /\ all[N + 1] = s
  BY AppendProperties, LenProperties
<1>2. FlattenSeq(all) = g[N + 1]
  <2>1. N + 1 # 0
    BY <1>1
  <2> HIDE DEF N, all
  <2>2. FlattenSeq(all) = (CHOOSE h : Flattens(h, all, Len(all)))[Len(all)]
    BY <1>1, <2>1, FlattenIs
  <2> QED BY <1>1, <2>2, Zenon
<1>3. N # 0 => FlattenSeq(ss) = f[N]
  BY FlattenIs, Zenon
<1>4. N = 0 => FlattenSeq(ss) = <<>>
  BY EmptySeq DEF FlattenSeq
<1>5. Flattens(g, all, N + 1)
  <2>1. \E h : Flattens(h, all, N + 1)
    BY <1>1, FlattenExists, Zenon
  <2> QED BY <2>1, Zenon
<1>6. N # 0 => Flattens(f, ss, N)
  <2> SUFFICES ASSUME N # 0 PROVE Flattens(f, ss, N)
    OBVIOUS
  <2>1. N - 1 \in Nat /\ N = (N - 1) + 1
    BY <1>1
  <2>2. \E h : Flattens(h, ss, N)
    BY <2>1, FlattenExists, Zenon
  <2> QED BY <2>2, Zenon
<1> HIDE DEF f, g, all, N
<1>7. \A i \in 1 .. N + 1 : g[i] = IF i = 1 THEN all[i] ELSE g[i - 1] \o all[i]
  BY <1>5 DEF Flattens
<1>8. CASE N = 0
  <2>1. g[N + 1] = s
    <3>1. N + 1 = 1 /\ N + 1 \in 1 .. N + 1
      BY <1>8
    <3> QED BY <1>1, <1>7, <3>1
  <2> QED BY <1>2, <1>4, <1>8, <2>1, ConcatEmptySeq DEF all
<1>9. CASE N # 0
  <2>1. \A i \in 1 .. N : f[i] = IF i = 1 THEN ss[i] ELSE f[i - 1] \o ss[i]
    BY <1>6, <1>9 DEF Flattens
  <2> DEFINE S == {n \in Nat : n + 1 <= N => g[n + 1] = f[n + 1]}
  <2>2. 0 \in S
    <3>1. 0 + 1 = 1 /\ 1 \in 1 .. N /\ 1 \in 1 .. N + 1
      BY <1>1, <1>9
    <3> QED BY <1>1, <1>7, <2>1, <3>1
  <2>3. ASSUME NEW n \in Nat, n \in S PROVE n + 1 \in S
    <3> SUFFICES ASSUME (n + 1) + 1 <= N PROVE g[(n + 1) + 1] = f[(n + 1) + 1]
      OBVIOUS
    <3> DEFINE m == (n + 1) + 1
    <3>1. m \in 1 .. N /\ m \in 1 .. N + 1 /\ m # 1 /\ m - 1 = n + 1 /\ n + 1 <= N
      BY <1>1
    <3> HIDE DEF m
    <3>2. g[m - 1] = f[m - 1]
      BY <2>3, <3>1
    <3>3. g[m] = g[m - 1] \o all[m] /\ f[m] = f[m - 1] \o ss[m] /\ all[m] = ss[m]
      BY <1>1, <1>7, <2>1, <3>1, Zenon
    <3> QED BY <3>2, <3>3 DEF m
  <2> HIDE DEF S
  <2>4. \A n \in Nat : n \in S
    BY <2>2, <2>3, Induction
  <2>5. g[N] = f[N]
    <3>1. N - 1 \in Nat /\ (N - 1) + 1 = N /\ N <= N
      BY <1>1, <1>9
    <3>2. N - 1 \in S
      BY <2>4, <3>1
    <3> QED BY <3>1, <3>2 DEF S
  <2>6. g[N + 1] = g[N] \o s
    <3>1. N + 1 \in 1 .. N + 1 /\ N + 1 # 1 /\ (N + 1) - 1 = N
      BY <1>1, <1>9
    <3> QED BY <1>1, <1>7, <3>1, Zenon
  <2> QED BY <1>2, <1>3, <1>9, <2>5, <2>6 DEF all
<1> QED BY <1>8, <1>9

LEMMA FlattenTyped ==
  ASSUME NEW T
  PROVE  \A ss \in Seq(Seq(T)) : FlattenSeq(ss) \in Seq(T)
<1> DEFINE P == {ss \in Seq(Seq(T)) : FlattenSeq(ss) \in Seq(T)}
<1>1. <<>> \in P
  <2>1. Len(<<>>) = 0 /\ <<>> \in Seq(T) /\ <<>> \in Seq(Seq(T))
    BY EmptySeq
  <2>2. FlattenSeq(<<>>) = <<>>
    BY <2>1, Zenon DEF FlattenSeq
  <2> QED BY <2>1, <2>2
<1>2. ASSUME NEW ss \in Seq(Seq(T)), NEW s \in Seq(T), ss \in P PROVE Append(ss, s) \in P
  <2>1. Append(ss, s) \in Seq(Seq(T))
    BY AppendProperties
  <2>2. FlattenSeq(ss) \in Seq(T)
    BY <1>2
  <2>3. FlattenSeq(Append(ss, s)) = FlattenSeq(ss) \o s
    BY <2>2, FlattenAppend
  <2>4. FlattenSeq(ss) \o s \in Seq(T)
    BY <2>2, ConcatProperties
  <2> QED BY <2>1, <2>3, <2>4
<1> HIDE DEF P
<1>3. \A ss \in Seq(Seq(T)) : ss \in P
  BY <1>1, <1>2, SeqInduction
<1> QED BY <1>3 DEF P

---------------------------------------------------------------------------------
(* What C prints for all that is to be printed.                             *)

LEMMA CTextsEmpty == CTexts(<<>>) = <<>>
<1> DEFINE ss == [i \in 1 .. Len(<<>>) |-> CText(<<>>[i])]
<1>1. ss = <<>> /\ Len(ss) = 0
  OBVIOUS
<1> HIDE DEF ss
<1>2. FlattenSeq(ss) = <<>>
  BY <1>1 DEF FlattenSeq
<1> QED BY <1>2 DEF CTexts, ss

LEMMA CTextsAppend ==
  ASSUME NEW items \in Seq(Items), NEW d \in Items, CTexts(items) \in Seq(Texts)
  PROVE  CTexts(Append(items, d)) = CTexts(items) \o CText(d)
<1> DEFINE n == Len(items)
           all == Append(items, d)
           of(i) == CText(items[i])
           ss == [i \in 1 .. n |-> of(i)]
           tt == [i \in 1 .. n + 1 |-> CText(all[i])]
<1>1. /\ n \in Nat /\ Len(all) = n + 1 /\ (\A i \in 1 .. n : all[i] = items[i]) /\ all[n + 1] = d
      /\ \A i \in 1 .. n : items[i] \in Items
  BY AppendProperties, LenProperties, ElementOfSeq
<1>2. \A i \in 1 .. n : of(i) \in Seq(Texts)
  BY <1>1, ExpandIs
<1>3. CText(d) \in Seq(Texts)
  BY ExpandIs
<1>4. CTexts(items) = FlattenSeq(ss) /\ CTexts(all) = FlattenSeq(tt)
  <2> HIDE DEF n, all
  <2> QED BY <1>1, Zenon DEF CTexts, n
<1> HIDE DEF n, all
<1>5. \A i \in 1 .. n : CText(all[i]) = of(i)
  BY <1>1
<1>6. CText(all[n + 1]) = CText(d)
  BY <1>1
<1> HIDE DEF of
<1>7. ss \in Seq(Seq(Texts)) /\ Len(ss) = n /\ \A i \in 1 .. n : ss[i] = of(i)
  <2>1. ss \in [1 .. n -> Seq(Texts)] /\ \A i \in 1 .. n : ss[i] = of(i)
    BY <1>2
  <2> QED BY <1>1, <2>1
<1> DEFINE final == CText(d)
           with == Append(ss, final)
           at(i) == CText(all[i])
<1>8. with \in Seq(Seq(Texts)) /\ Len(with) = n + 1 /\ (\A i \in 1 .. n : with[i] = ss[i]) /\ with[n + 1] = final
  <2> HIDE DEF ss, final
  <2> QED BY <1>3, <1>7, AppendProperties DEF final
<1>9. tt = with
  <2> HIDE DEF ss, final, at, with
  <2>1. \A i \in 1 .. n + 1 : with[i] = at(i)
    <3>1. ASSUME NEW i \in 1 .. n + 1 PROVE with[i] = at(i)
      <4>1. CASE i = n + 1
        BY <1>6, <1>8, <4>1 DEF final, at
      <4>2. CASE i # n + 1
        <5>1. i \in 1 .. n
          BY <1>1, <4>2
        <5> QED BY <1>5, <1>7, <1>8, <5>1 DEF at
      <4> QED BY <4>1, <4>2
    <3> QED BY <3>1
  <2>2. tt = [i \in 1 .. n + 1 |-> at(i)]
    BY Zenon DEF at
  <2>3. with = [i \in 1 .. n + 1 |-> with[i]]
    BY <1>1, <1>8
  <2> QED BY <2>1, <2>2, <2>3
<1> HIDE DEF ss, tt, with, final
<1>10. FlattenSeq(with) = FlattenSeq(ss) \o final
  BY <1>3, <1>4, <1>7, FlattenAppend DEF with, final
<1> QED BY <1>4, <1>9, <1>10 DEF all, final

LEMMA CTextsAreTexts == \A items \in Seq(Items) : CTexts(items) \in Seq(Texts)
<1> DEFINE P == {items \in Seq(Items) : CTexts(items) \in Seq(Texts)}
<1>1. <<>> \in P
  BY CTextsEmpty, EmptySeq
<1>2. ASSUME NEW items \in Seq(Items), NEW d \in Items, items \in P PROVE Append(items, d) \in P
  <2>1. CTexts(Append(items, d)) = CTexts(items) \o CText(d) /\ CTexts(items) \in Seq(Texts)
    BY <1>2, CTextsAppend
  <2>2. CText(d) \in Seq(Texts) /\ Append(items, d) \in Seq(Items)
    BY ExpandIs
  <2>3. CTexts(items) \o CText(d) \in Seq(Texts)
    BY <2>1, <2>2, ConcatProperties
  <2> QED BY <2>1, <2>2, <2>3
<1> HIDE DEF P
<1>3. \A items \in Seq(Items) : items \in P
  BY <1>1, <1>2, SeqInduction
<1> QED BY <1>3 DEF P

LEMMA CTextsConcat ==
  ASSUME NEW a \in Seq(Items), NEW b \in Seq(Items)
  PROVE  CTexts(a \o b) = CTexts(a) \o CTexts(b)
<1> DEFINE P == {items \in Seq(Items) : CTexts(a \o items) = CTexts(a) \o CTexts(items)}
<1>1. <<>> \in P
  <2>1. a \o <<>> = a /\ CTexts(a) \in Seq(Texts)
    BY CTextsAreTexts
  <2>2. CTexts(a) \o <<>> = CTexts(a)
    BY <2>1
  <2> QED BY <2>1, <2>2, CTextsEmpty
<1>2. ASSUME NEW items \in Seq(Items), NEW d \in Items, items \in P PROVE Append(items, d) \in P
  <2>1. Append(items, d) \in Seq(Items) /\ a \o items \in Seq(Items) /\ a \o Append(items, d) = Append(a \o items, d)
    <3>1. Append(items, d) \in Seq(Items) /\ a \o items \in Seq(Items) /\ <<d>> \in Seq(Items)
      BY AppendProperties, ConcatProperties
    <3>2. Append(items, d) = items \o <<d>> /\ Append(a \o items, d) = (a \o items) \o <<d>>
      BY <3>1, AppendIsConcat
    <3>3. (a \o items) \o <<d>> = a \o (items \o <<d>>)
      BY <3>1, ConcatAssociative
    <3> QED BY <3>1, <3>2, <3>3
  <2>2. CTexts(a \o Append(items, d)) = CTexts(a \o items) \o CText(d)
    BY <2>1, CTextsAppend, CTextsAreTexts
  <2>3. CTexts(Append(items, d)) = CTexts(items) \o CText(d)
    BY CTextsAppend, CTextsAreTexts
  <2>4. CTexts(a \o items) = CTexts(a) \o CTexts(items)
    BY <1>2
  <2>5. (CTexts(a) \o CTexts(items)) \o CText(d) = CTexts(a) \o (CTexts(items) \o CText(d))
    <3>1. CTexts(a) \in Seq(Texts) /\ CTexts(items) \in Seq(Texts) /\ CText(d) \in Seq(Texts)
      BY CTextsAreTexts, ExpandIs
    <3> QED BY <3>1, ConcatAssociative
  <2> QED BY <2>1, <2>2, <2>3, <2>4, <2>5
<1> HIDE DEF P
<1>3. b \in P
  BY <1>1, <1>2, SeqInduction
<1> QED BY <1>3 DEF P

(* A text is printed as it is.                                              *)
LEMMA CTextsOfTexted == \A s \in Seq(Texts) : CTexts(Texted(s)) = s
<1> DEFINE P == {s \in Seq(Texts) : CTexts(Texted(s)) = s}
<1>1. <<>> \in P
  <2>1. Texted(<<>>) = <<>>
    BY DEF Texted
  <2> QED BY <2>1, CTextsEmpty
<1>2. ASSUME NEW s \in Seq(Texts), NEW e \in Texts, s \in P PROVE Append(s, e) \in P
  <2>1. Append(s, e) \in Seq(Texts) /\ Text(e) \in Items /\ CText(Text(e)) = <<e>>
    BY TextIs DEF Issuable
  <2>2. Texted(s) \in Seq(Items)
    <3>1. Texted(s) \in Seq(Issuable) /\ Issuable \subseteq Items
      BY TextedIs DEF Issuable
    <3> QED BY <3>1, SeqMonotonic
  <2>3. Texted(Append(s, e)) = Append(Texted(s), Text(e))
    <3> DEFINE n == Len(s)
               all == Append(s, e)
               one == Texted(all)
               most == Texted(s)
               item == Text(e)
               two == Append(most, item)
    <3>1. all \in Seq(Texts) /\ Len(all) = n + 1 /\ n \in Nat /\ (\A i \in 1 .. n : all[i] = s[i]) /\ all[n + 1] = e
      BY AppendProperties, LenProperties
    <3>2. Len(most) = n /\ \A i \in 1 .. n : most[i] = Text(s[i])
      BY TextedIs
    <3> HIDE DEF all
    <3>3. /\ one \in Seq(Issuable) /\ Len(one) = n + 1
          /\ \A i \in 1 .. n + 1 : one[i] = Text(all[i])
      BY <3>1, TextedIs
    <3>4. one \in Seq(Items)
      BY <3>3, SeqMonotonic DEF Issuable
    <3> HIDE DEF one, most, item, n
    <3>5. two \in Seq(Items) /\ Len(two) = n + 1 /\ (\A i \in 1 .. n : two[i] = most[i]) /\ two[n + 1] = item
      BY <2>1, <2>2, <3>2, AppendProperties DEF most, item
    <3> HIDE DEF two
    <3>6. ASSUME NEW i \in 1 .. n + 1 PROVE one[i] = two[i]
      <4>1. CASE i = n + 1
        BY <3>1, <3>3, <3>5, <4>1 DEF item
      <4>2. CASE i # n + 1
        <5>1. i \in 1 .. n
          BY <3>1, <4>2
        <5> QED BY <3>1, <3>2, <3>3, <3>5, <5>1
      <4> QED BY <4>1, <4>2
    <3>7. one = two
      BY <3>3, <3>4, <3>5, <3>6, SeqEqual
    <3> QED BY <3>7 DEF one, two, most, item, all
  <2>4. CTexts(Texted(Append(s, e))) = CTexts(Texted(s)) \o CText(Text(e))
    BY <2>1, <2>2, <2>3, CTextsAppend, CTextsAreTexts
  <2>5. s \o <<e>> = Append(s, e)
    BY AppendIsConcat
  <2> QED BY <1>2, <2>1, <2>4, <2>5
<1> HIDE DEF P
<1>3. \A s \in Seq(Texts) : s \in P
  BY <1>1, <1>2, SeqInduction
<1> QED BY <1>3 DEF P
---------------------------------------------------------------------------------
(* Whatever is to be printed is texts and directives.                       *)

LEMMA LiteralIs == \A s \in Literals : Text(s) \in Issuable
  BY LiteralsAreTexts, TextIs, Zenon

LEMMA Labels ==
  /\ Text("\n") \in Issuable /\ Text(":") \in Issuable /\ Text("<unknown>") \in Issuable
  /\ Text("<unknown type>") \in Issuable /\ Text("  Pointer: ") \in Issuable /\ Text("  Type: ") \in Issuable
  /\ Text("  Alignment: ") \in Issuable /\ Text("  Type check kind: ") \in Issuable
  /\ Text("  Left type: ") \in Issuable /\ Text("  Array type: ") \in Issuable
  /\ Text("  Kind: ") \in Issuable /\ Text("  Arg index: ") \in Issuable
  /\ Text("  Attribute location: ") \in Issuable /\ Text("  From type: ") \in Issuable
  /\ Text("  Base: ") \in Issuable /\ Text("  Result: ") \in Issuable
  BY LiteralIs, Zenon DEF Literals

LEMMA MoreLabels ==
  /\ Text("function_type_mismatch") \in Issuable /\ Text("\n  Type: ") \in Issuable
  /\ Text("builtin_unreachable") \in Issuable /\ Text("float cast overflow: From type: ") \in Issuable
  /\ Text(" To type: ") \in Issuable /\ Text("\n[MISAN FATAL] ") \in Issuable
  /\ Text("out of memory") \in Issuable /\ Text("Stack trace:\n") \in Issuable
  /\ Text("  #") \in Issuable /\ Text("  0x") \in Issuable
  BY LiteralIs, Zenon DEF Literals

LEMMA One == ASSUME NEW S, NEW a \in S PROVE <<a>> \in Seq(S)
  OBVIOUS
LEMMA Three == ASSUME NEW S, NEW a \in S, NEW b \in S, NEW c \in S PROVE <<a, b, c>> \in Seq(S)
  OBVIOUS
LEMMA Four == ASSUME NEW S, NEW a \in S, NEW b \in S, NEW c \in S, NEW d \in S PROVE <<a, b, c, d>> \in Seq(S)
  OBVIOUS
LEMMA Five ==
  ASSUME NEW S, NEW a \in S, NEW b \in S, NEW c \in S, NEW d \in S, NEW e \in S PROVE <<a, b, c, d, e>> \in Seq(S)
  OBVIOUS

LEMMA Seven ==
  ASSUME NEW S, NEW a \in S, NEW b \in S, NEW c \in S, NEW d \in S, NEW e \in S, NEW f \in S, NEW g \in S
  PROVE  <<a, b, c, d, e, f, g>> \in Seq(S)
  OBVIOUS

LEMMA NumbersAreIssuable ==
  ASSUME NEW n \in Nat
  PROVE  Directive("u", n) \in Issuable /\ Directive("d", n) \in Issuable /\ Directive("p", n) \in Issuable
  BY DirectiveIs

LEMMA LocationIs ==
  ASSUME NEW t \in Threads, NEW loc \in Locations[t]
  PROVE  ubsan_print_location(loc) \in Seq(Issuable)
<1>1. loc.filename \in Texts /\ loc.line \in Nat /\ loc.column \in Nat
  <2>1. loc \in [filename : STRING, line : Nat, column : Nat]
    BY UbsanConstants, Zenon
  <2>2. loc.filename \in STRING /\ loc.line \in Nat /\ loc.column \in Nat
    BY <2>1
  <2> QED BY <2>2, Zenon DEF Texts
<1> DEFINE file == String(loc.filename)
           line == Directive("u", loc.line)
           column == Directive("u", loc.column)
           colon == Text(":")
<1>2. file \in Issuable /\ line \in Issuable /\ column \in Issuable /\ colon \in Issuable
  BY <1>1, StringIs, NumbersAreIssuable, Labels, Zenon
<1>3. <<Text("<unknown>")>> \in Seq(Issuable)
  BY Labels, One, Zenon
<1>4. ubsan_print_location(loc) = IF loc.filename = Null THEN <<Text("<unknown>")>> ELSE <<file, colon, line, colon, column>>
  BY Zenon DEF ubsan_print_location
<1> HIDE DEF file, line, column, colon
<1>5. <<file, colon, line, colon, column>> \in Seq(Issuable)
  BY <1>2, Five, Zenon
<1> QED BY <1>3, <1>4, <1>5, Zenon

LEMMA TypeIs ==
  ASSUME NEW t \in Threads, NEW td \in Types[t]
  PROVE  ubsan_print_type(td) \in Seq(Issuable)
<1> DEFINE s == IF td = Null THEN "<unknown type>" ELSE td
<1>1. Text(s) \in Issuable
  <2>1. td \in STRING
    BY UbsanConstants, Zenon
  <2>2. td \in Texts
    BY <2>1, Zenon DEF Texts
  <2>3. CASE td = Null
    BY <2>3, Labels, Zenon
  <2>4. CASE td # Null
    BY <2>2, <2>4, TextIs, Zenon
  <2> QED BY <2>3, <2>4, Zenon
<1>2. ubsan_print_type(td) = <<Text(s)>>
  BY Zenon DEF ubsan_print_type
<1> HIDE DEF s
<1> QED BY <1>1, <1>2, One, Zenon

LEMMA Joined == ASSUME NEW S, NEW a \in Seq(S), NEW b \in Seq(S) PROVE a \o b \in Seq(S)
  BY ConcatProperties

LEMMA HeadingIs == ASSUME NEW h \in HandlerNames PROVE Text(h) \in Issuable
<1>1. h \in Texts
  BY Zenon DEF Texts
<1> QED BY <1>1, TextIs
LEMMA DetailsAre ==
  ASSUME NEW h, NEW details \in DetailsOf(h)
  PROVE  details \in Seq(Issuable)
<1>1. ASSUME NEW p \in Pointers PROVE Directive("p", p) \in Issuable
  BY UbsanConstants, NumbersAreIssuable
<1>2. ASSUME NEW n \in Numbers PROVE Directive("u", n) \in Issuable /\ Directive("d", n) \in Issuable
  BY UbsanConstants, NumbersAreIssuable
<1>3. ASSUME NEW p \in Pointers PROVE TypeMismatch(p) \in Seq(Issuable)
  BY <1>1, Labels, Three, Zenon DEF TypeMismatch
<1>4. ASSUME NEW p \in Pointers, NEW a \in Numbers, NEW k \in Numbers PROVE TypeMismatchV1(p, a, k) \in Seq(Issuable)
  BY <1>1, <1>2, Labels, Seven, Zenon DEF TypeMismatchV1
<1>5. ASSUME NEW k \in Numbers PROVE InvalidBuiltin(k) \in Seq(Issuable)
  BY <1>2, Labels, Three, Zenon DEF InvalidBuiltin
<1>6. ASSUME NEW i \in Numbers PROVE NonnullArg(i) \in Seq(Issuable)
  BY <1>2, Labels, Three, Zenon DEF NonnullArg
<1>7. ASSUME NEW k \in Numbers PROVE ImplicitConversion(k) \in Seq(Issuable)
  BY <1>2, Labels, Three, Zenon DEF ImplicitConversion
<1>8. ASSUME NEW b \in Pointers, NEW r \in Pointers PROVE PointerOverflow(b, r) \in Seq(Issuable)
  BY <1>1, Labels, Four, Zenon DEF PointerOverflow
<1>9. CASE h = "type_mismatch"
  <2>1. DetailsOf(h) = {TypeMismatch(p) : p \in Pointers}
    BY <1>9, SMT DEF DetailsOf
  <2> QED BY <1>3, <2>1, Zenon
<1>10. CASE h = "type_mismatch_v1"
  <2>1. DetailsOf(h) = {TypeMismatchV1(p, a, k) : p \in Pointers, a \in Numbers, k \in Numbers}
    BY <1>10, SMT DEF DetailsOf
  <2>2. \E p \in Pointers, a \in Numbers, k \in Numbers : details = TypeMismatchV1(p, a, k)
    BY <2>1
  <2> QED BY <1>4, <2>2, Zenon
<1>11. CASE h = "invalid_builtin"
  <2>1. DetailsOf(h) = {InvalidBuiltin(k) : k \in Numbers}
    BY <1>11, SMT DEF DetailsOf
  <2> QED BY <1>5, <2>1, Zenon
<1>12. CASE h = "nonnull_arg"
  <2>1. DetailsOf(h) = {NonnullArg(i) : i \in Numbers}
    BY <1>12, SMT DEF DetailsOf
  <2> QED BY <1>6, <2>1, Zenon
<1>13. CASE h = "implicit_conversion"
  <2>1. DetailsOf(h) = {ImplicitConversion(k) : k \in Numbers}
    BY <1>13, SMT DEF DetailsOf
  <2> QED BY <1>7, <2>1, Zenon
<1>14. CASE h = "pointer_overflow"
  <2>1. DetailsOf(h) = {PointerOverflow(b, r) : b \in Pointers, r \in Pointers}
    BY <1>14, SMT DEF DetailsOf
  <2>2. \E b \in Pointers, r \in Pointers : details = PointerOverflow(b, r)
    BY <2>1
  <2> QED BY <1>8, <2>2, Zenon
<1>15. CASE h \notin {"type_mismatch", "type_mismatch_v1", "invalid_builtin", "nonnull_arg", "implicit_conversion", "pointer_overflow"}
  <2>1. DetailsOf(h) = {TypeLabel(h)}
    BY <1>15 DEF DetailsOf
  <2>2. TypeLabel(h) \in Seq(Issuable)
    BY Labels, One, Zenon DEF TypeLabel
  <2> QED BY <2>1, <2>2
<1> QED
  BY <1>9, <1>10, <1>11, <1>12, <1>13, <1>14, <1>15

LEMMA ReportsAre ==
  ASSUME NEW t \in Threads, NEW h \in Handlers[t], NEW items \in Reports(t, h)
  PROVE  items \in Seq(Issuable)
<1>1. h \in HandlerNames
  BY UbsanConstants, Zenon
<1>2. Text(h) \in Issuable /\ <<Text(h)>> \in Seq(Issuable) /\ <<Text("\n")>> \in Seq(Issuable)
  BY <1>1, HeadingIs, Labels, One, Zenon
<1>3. ASSUME NEW l \in Locations[t] PROVE ubsan_print_location(l) \in Seq(Issuable)
  BY LocationIs, Zenon
<1>4. ASSUME NEW ty \in Types[t] PROVE ubsan_print_type(ty) \in Seq(Issuable)
  BY TypeIs, Zenon
<1>5. /\ <<Text("function_type_mismatch")>> \in Seq(Issuable) /\ <<Text("\n  Type: ")>> \in Seq(Issuable)
      /\ <<Text("builtin_unreachable")>> \in Seq(Issuable)
      /\ <<Text("float cast overflow: From type: ")>> \in Seq(Issuable) /\ <<Text(" To type: ")>> \in Seq(Issuable)
  BY MoreLabels, One, Zenon
<1>6. CASE h = "function_type_mismatch"
  <2>1. Reports(t, h) = {FunctionTypeMismatch(l, ty) : l \in Locations[t], ty \in Types[t]}
    BY <1>6, SMT DEF Reports
  <2>2. PICK l \in Locations[t], ty \in Types[t] : items = FunctionTypeMismatch(l, ty)
    BY <2>1
  <2> QED BY <1>2, <1>3, <1>4, <1>5, <2>2, Joined, Zenon DEF FunctionTypeMismatch
<1>7. CASE h = "builtin_unreachable"
  <2>1. Reports(t, h) = {BuiltinUnreachable(l) : l \in Locations[t]}
    BY <1>7, SMT DEF Reports
  <2>2. PICK l \in Locations[t] : items = BuiltinUnreachable(l)
    BY <2>1
  <2> QED BY <1>2, <1>3, <1>5, <2>2, Joined, Zenon DEF BuiltinUnreachable
<1>8. CASE h = "float_cast_overflow"
  <2>1. Reports(t, h) = {FloatCastOverflow(l, f, ty) : l \in Locations[t], f \in Types[t], ty \in Types[t]}
    BY <1>8, SMT DEF Reports
  <2>2. PICK l \in Locations[t], f \in Types[t], ty \in Types[t] : items = FloatCastOverflow(l, f, ty)
    BY <2>1
  <2> QED BY <1>2, <1>3, <1>4, <1>5, <2>2, Joined, Zenon DEF FloatCastOverflow
<1>9. CASE h \notin {"function_type_mismatch", "builtin_unreachable", "float_cast_overflow"}
  <2>1. Reports(t, h) = {Handled(h, l, d) : l \in Locations[t], d \in DetailsOf(h)}
    BY <1>9, SMT DEF Reports
  <2>2. PICK l \in Locations[t], d \in DetailsOf(h) : items = Handled(h, l, d)
    BY <2>1
  <2>3. d \in Seq(Issuable)
    BY DetailsAre, Zenon
  <2> QED BY <1>2, <1>3, <2>2, <2>3, Joined, Zenon DEF Handled
<1> QED BY <1>6, <1>7, <1>8, <1>9, Zenon

LEMMA StackTraceIs ==
  ASSUME NEW pcs \in Stacks
  PROVE  StackTrace(pcs) \in Seq(Issuable)
<1> DEFINE n == Len(pcs)
           line(i) == <<Text("  #"), [Directive("u", i - 1) EXCEPT !.long = 3], Text("  0x"), Directive("p", pcs[i]), Text("\n")>>
           lines == [i \in 1 .. n |-> line(i)]
<1>1. pcs \in Seq(Nat)
  BY UbsanConstants, Zenon
<1>2. n \in Nat /\ \A i \in 1 .. n : pcs[i] \in Nat /\ i - 1 \in Nat
  BY <1>1, ElementOfSeq
<1> HIDE DEF n
<1>3. ASSUME NEW i \in 1 .. n PROVE line(i) \in Seq(Issuable)
  <2> DEFINE j == i - 1
             adr == pcs[i]
  <2>1. j \in Nat /\ adr \in Nat
    BY <1>2
  <2> HIDE DEF j, adr
  <2>2. "u" \in {"u", "d", "p"} /\ "p" \in {"u", "d", "p"}
    OBVIOUS
  <2>3. [Directive("u", j) EXCEPT !.long = 3] \in Issuable /\ Directive("p", adr) \in Issuable
    BY <2>1, <2>2, DirectiveIs, Zenon
  <2>4. Text("  #") \in Issuable /\ Text("  0x") \in Issuable /\ Text("\n") \in Issuable
    BY Labels, MoreLabels, Zenon
  <2> QED BY <2>3, <2>4, Five, Zenon DEF j, adr
<1>4. StackTrace(pcs) = <<Text("Stack trace:\n")>> \o FlattenSeq(lines)
  BY Zenon DEF StackTrace, n
<1> HIDE DEF line
<1>5. lines \in [1 .. n -> Seq(Issuable)]
  BY <1>3
<1>6. lines \in Seq(Seq(Issuable))
  BY <1>2, <1>5
<1> HIDE DEF lines
<1>7. FlattenSeq(lines) \in Seq(Issuable)
  BY <1>6, FlattenTyped
<1>8. <<Text("Stack trace:\n")>> \in Seq(Issuable)
  BY MoreLabels, One, Zenon
<1> QED BY <1>4, <1>7, <1>8, Joined, Zenon
---------------------------------------------------------------------------------
(* What has been printed, with what is still to be.                         *)

\* What may be asked for and fills its field.
Good == {d \in Issuable : ~Short(d)}

\* Unless a number is shorter than its field, it is all in order.
Says(t) ==
  issued[t] \in Seq(Good) =>
    /\ said[t] \in Seq(Texts) /\ todo[t] \in Seq(Good)
    /\ said[t] \o CTexts(todo[t]) = CTexts(issued[t])

AllSay ==
  /\ DOMAIN issued = Threads
  /\ \A t \in Threads : issued[t] \in Seq(Issuable) /\ Says(t)

TextInv == Inv /\ AllSay

LEMMA GoodAreItems == \A s \in Seq(Good) : s \in Seq(Items) /\ s \in Seq(Issuable) /\ CTexts(s) \in Seq(Texts)
<1>1. Good \subseteq Issuable /\ Good \subseteq Items
  BY DEF Good, Issuable
<1> QED BY <1>1, SeqMonotonic, CTextsAreTexts

LEMMA GoodIs ==
  ASSUME NEW s \in Seq(Issuable)
  PROVE  s \in Seq(Good) <=> \A i \in 1 .. Len(s) : ~Short(s[i])
<1>1. ASSUME s \in Seq(Good), NEW i \in 1 .. Len(s) PROVE ~Short(s[i])
  <2>1. s[i] \in Good
    BY <1>1, ElementOfSeq
  <2> QED BY <2>1 DEF Good
<1>2. ASSUME \A i \in 1 .. Len(s) : ~Short(s[i]) PROVE s \in Seq(Good)
  <2> DEFINE n == Len(s)
  <2>1. n \in Nat /\ s \in [1 .. n -> Issuable]
    BY LenProperties
  <2>2. \A i \in 1 .. n : s[i] \in Good
    BY <1>2, <2>1 DEF Good
  <2> HIDE DEF n
  <2>3. s \in [1 .. n -> Good]
    BY <2>1, <2>2
  <2> QED BY <2>1, <2>3
<1> QED BY <1>1, <1>2

LEMMA GoodConcat ==
  ASSUME NEW a \in Seq(Issuable), NEW b \in Seq(Issuable), a \o b \in Seq(Good)
  PROVE  a \in Seq(Good) /\ b \in Seq(Good)
<1> DEFINE m == Len(a)
           n == Len(b)
           all == a \o b
<1>1. /\ Len(all) = m + n /\ m \in Nat /\ n \in Nat /\ all \in Seq(Issuable)
      /\ \A i \in 1 .. m + n : all[i] = IF i <= m THEN a[i] ELSE b[i - m]
  BY ConcatProperties, LenProperties
<1>2. \A i \in 1 .. Len(all) : ~Short(all[i])
  BY <1>1, GoodIs
<1> HIDE DEF all, m, n
<1>3. \A i \in 1 .. m : ~Short(a[i])
  <2>1. ASSUME NEW i \in 1 .. m PROVE ~Short(a[i])
    <3>1. i \in 1 .. m + n /\ i <= m
      BY <1>1
    <3> QED BY <1>1, <1>2, <3>1
  <2> QED BY <2>1
<1>4. \A i \in 1 .. n : ~Short(b[i])
  <2>1. ASSUME NEW i \in 1 .. n PROVE ~Short(b[i])
    <3> DEFINE j == i + m
    <3>1. j \in 1 .. m + n /\ ~(j <= m) /\ j - m = i
      BY <1>1
    <3> HIDE DEF j
    <3>2. all[j] = b[i]
      BY <1>1, <3>1
    <3> QED BY <1>1, <1>2, <3>1, <3>2
  <2> QED BY <2>1
<1> QED BY <1>3, <1>4, GoodIs DEF m, n

LEMMA TextedIsGood == \A s \in Seq(Texts) : Texted(s) \in Seq(Good)
<1> SUFFICES ASSUME NEW s \in Seq(Texts) PROVE Texted(s) \in Seq(Good)
  OBVIOUS
<1>1. /\ Texted(s) \in Seq(Issuable) /\ Len(Texted(s)) = Len(s)
      /\ \A i \in 1 .. Len(s) : Texted(s)[i] = Text(s[i]) /\ s[i] \in Texts
  BY TextedIs
<1>2. \A i \in 1 .. Len(s) : ~Short(Texted(s)[i])
  BY <1>1, TextIs
<1> QED BY <1>1, <1>2, GoodIs

LEMMA HeadFirst ==
  ASSUME NEW S, NEW s \in Seq(S), s # <<>>
  PROVE  s = <<Head(s)>> \o Tail(s) /\ Head(s) \in S /\ Tail(s) \in Seq(S)
<1> DEFINE all == <<Head(s)>> \o Tail(s)
           n == Len(s)
<1>1. Head(s) \in S /\ Tail(s) \in Seq(S) /\ Len(Tail(s)) = n - 1 /\ \A i \in 1 .. Len(Tail(s)) : Tail(s)[i] = s[i + 1]
  BY HeadTailProperties
<1>2. n \in Nat \ {0} /\ Head(s) = s[1]
  BY EmptySeq
<1>3. /\ all \in Seq(S) /\ Len(all) = Len(Tail(s)) + 1
      /\ all[1] = Head(s) /\ \A i \in 2 .. Len(Tail(s)) + 1 : all[i] = Tail(s)[i - 1]
  BY <1>1, Prefixed
<1> HIDE DEF all, n
<1>4. Len(all) = n /\ \A i \in 2 .. n : all[i] = Tail(s)[i - 1]
  BY <1>1, <1>2, <1>3
<1>5. ASSUME NEW i \in 1 .. n PROVE all[i] = s[i]
  <2>1. CASE i = 1
    BY <1>2, <1>3, <2>1
  <2>2. CASE i # 1
    <3>1. i \in 2 .. n /\ i - 1 \in 1 .. n - 1 /\ (i - 1) + 1 = i
      BY <1>2, <2>2
    <3> QED BY <1>1, <1>4, <3>1
  <2> QED BY <2>1, <2>2
<1>6. all = s
  BY <1>3, <1>4, <1>5, SeqEqual DEF n
<1> QED BY <1>1, <1>6 DEF all

LEMMA CTextsHead ==
  ASSUME NEW s \in Seq(Good), s # <<>>
  PROVE  /\ Head(s) \in Good /\ Tail(s) \in Seq(Good)
         /\ CTexts(s) = CText(Head(s)) \o CTexts(Tail(s))
<1>1. s = <<Head(s)>> \o Tail(s) /\ Head(s) \in Good /\ Tail(s) \in Seq(Good)
  BY HeadFirst
<1> DEFINE h == Head(s)
           r == Tail(s)
<1>2. h \in Items
  BY <1>1 DEF Good, Issuable
<1>3. r \in Seq(Items)
  BY <1>1, GoodAreItems
<1> HIDE DEF h, r
<1>4. <<h>> \in Seq(Items) /\ <<>> \in Seq(Items) /\ Append(<<>>, h) = <<h>>
  BY <1>2
<1>5. CTexts(<<h>>) = CTexts(<<>>) \o CText(h)
  BY <1>2, <1>4, CTextsAppend, CTextsAreTexts
<1>6. CTexts(<<>>) \o CText(h) = CText(h)
  BY <1>2, CTextsEmpty, ExpandIs, ConcatEmptySeq
<1>7. CTexts(<<h>> \o r) = CTexts(<<h>>) \o CTexts(r)
  BY <1>3, <1>4, CTextsConcat
<1> QED BY <1>1, <1>5, <1>6, <1>7 DEF h, r
(* A thread is asked to print.                                              *)
LEMMA ProgramIssues ==
  ASSUME NEW t \in Threads, Program(t)
  PROVE  \E where \in {"lock", "print", "die"} : \E items \in Seq(Issuable) : Enter(t, where, items)
<1>1. CASE LockedHandler(t)
  <2>1. PICK h \in Handlers[t] : \E items \in Reports(t, h) : Enter(t, "lock", items)
    BY <1>1, Zenon DEF LockedHandler
  <2> QED BY <2>1, ReportsAre, Zenon
<1>2. CASE FloatCastHandler(t)
  <2>1. "float_cast_overflow" \in Handlers[t]
    BY <1>2, Zenon DEF FloatCastHandler
  <2>2. PICK items \in Reports(t, "float_cast_overflow") : \E abort \in BOOLEAN : Enter(t, IF abort THEN "die" ELSE "print", items)
    BY <1>2, Zenon DEF FloatCastHandler
  <2>3. items \in Seq(Issuable)
    BY <2>1, <2>2, ReportsAre, Zenon
  <2>4. \A abort \in BOOLEAN : (IF abort THEN "die" ELSE "print") \in {"lock", "print", "die"}
    OBVIOUS
  <2> QED BY <2>2, <2>3, <2>4, Zenon
<1>3. CASE drt_printf(t)
  <2>1. PICK d \in Printed[t] : Enter(t, "print", <<d>>)
    BY <1>3, Zenon DEF drt_printf
  <2>2. d \in Directives
    BY UbsanConstants, Zenon
  <2>3. d \in Issuable
    BY <2>2, DirectivesAreIssuable, Zenon
  <2>4. <<d>> \in Seq(Issuable)
    BY <2>3, One, Zenon
  <2> QED BY <2>1, <2>4, Zenon
<1>4. CASE drt_die(t)
  <2>1. <<Text("\n[MISAN FATAL] "), Text("out of memory"), Text("\n")>> \in Seq(Issuable)
    BY Labels, MoreLabels, Three, Zenon
  <2> QED BY <1>4, <2>1, Zenon DEF drt_die
<1> QED
  BY <1>1, <1>2, <1>3, <1>4, Zenon DEF Program

LEMMA SaysSame ==
  ASSUME NEW u, Says(u), issued'[u] = issued[u], said'[u] = said[u], todo'[u] = todo[u]
  PROVE  Says(u)'
  BY DEF Says

LEMMA EnterSays ==
  ASSUME TextInv, NEW t \in Threads, NEW where, NEW items \in Seq(Issuable), Enter(t, where, items)
  PROVE  AllSay'
<1>1. /\ pc[t] = "run" /\ todo' = [todo EXCEPT ![t] = items] /\ issued' = [issued EXCEPT ![t] = items]
      /\ said' = said /\ said[t] = <<>>
  BY DEF Enter, TextInv, Inv, Whole
<1>2. DOMAIN issued = Threads /\ DOMAIN todo = Threads
  BY DEF TextInv, AllSay, Inv, Typing
<1>3. /\ DOMAIN issued' = Threads /\ issued'[t] = items /\ todo'[t] = items /\ said'[t] = <<>>
      /\ \A u \in Threads : u # t => issued'[u] = issued[u] /\ said'[u] = said[u] /\ todo'[u] = todo[u]
  BY <1>1, <1>2
<1>4. Says(t)'
  <2> SUFFICES ASSUME items \in Seq(Good)
               PROVE  <<>> \in Seq(Texts) /\ <<>> \o CTexts(items) = CTexts(items)
    BY <1>3 DEF Says
  <2> QED BY GoodAreItems, EmptySeq, ConcatEmptySeq
<1>5. \A u \in Threads : u # t => issued'[u] \in Seq(Issuable) /\ Says(u)'
  BY <1>3, SaysSame DEF TextInv, AllSay
<1> QED BY <1>3, <1>4, <1>5 DEF AllSay

(* A text is printed.                                                       *)
LEMMA PrintSays ==
  ASSUME TextInv, NEW t \in Threads, PrintText(t)
  PROVE  AllSay'
<1> DEFINE h == Head(todo[t])
           r == Tail(todo[t])
           w == h.text
<1>1. /\ todo[t] # <<>> /\ h.conv = "text" /\ said' = [said EXCEPT ![t] = Append(said[t], w)]
      /\ todo' = [todo EXCEPT ![t] = r] /\ issued' = issued
  BY Zenon DEF PrintText, Printing
<1>2. DOMAIN issued = Threads /\ DOMAIN todo = Threads /\ DOMAIN said = Threads
  BY DEF TextInv, AllSay, Inv, Typing
<1> HIDE DEF h, r, w
<1>3. /\ todo'[t] = r /\ said'[t] = Append(said[t], w)
      /\ \A u \in Threads : u # t => issued'[u] = issued[u] /\ said'[u] = said[u] /\ todo'[u] = todo[u]
  BY <1>1, <1>2
<1>4. Says(t)'
  <2> DEFINE s == said[t]
             s2 == said'[t]
  <2> SUFFICES ASSUME issued[t] \in Seq(Good)
               PROVE  s2 \in Seq(Texts) /\ r \in Seq(Good) /\ s2 \o CTexts(r) = CTexts(issued[t])
    BY <1>1, <1>3 DEF Says
  <2>1. s \in Seq(Texts) /\ todo[t] \in Seq(Good) /\ s \o CTexts(todo[t]) = CTexts(issued[t])
    BY DEF TextInv, AllSay, Says
  <2>2. h \in Good /\ r \in Seq(Good) /\ CTexts(todo[t]) = CText(h) \o CTexts(r)
    BY <1>1, <2>1, CTextsHead DEF h, r
  <2>3. w \in Texts /\ CText(h) = <<w>>
    <3>1. h \in Items
      BY <2>2 DEF Good, Issuable
    <3>2. ~Numeric(h)
      BY <1>1 DEF Numeric
    <3> QED BY <1>1, <3>1, <3>2 DEF Items, CText, w
  <2>4. s2 = s \o <<w>> /\ s2 \in Seq(Texts) /\ <<w>> \in Seq(Texts)
    BY <1>3, <2>1, <2>3, AppendIsConcat, AppendProperties, One
  <2>5. CTexts(r) \in Seq(Texts)
    BY <2>2, GoodAreItems
  <2> HIDE DEF s, s2
  <2>6. (s \o <<w>>) \o CTexts(r) = s \o (<<w>> \o CTexts(r))
    BY <2>1, <2>4, <2>5, ConcatAssociative
  <2> QED BY <2>1, <2>2, <2>3, <2>4, <2>6
<1>5. \A u \in Threads : u # t => issued'[u] \in Seq(Issuable) /\ Says(u)'
  BY <1>3, SaysSame DEF TextInv, AllSay
<1>6. DOMAIN issued' = Threads /\ issued'[t] \in Seq(Issuable)
  BY <1>1 DEF TextInv, AllSay
<1> QED BY <1>4, <1>5, <1>6 DEF AllSay

(* A directive becomes its texts.                                           *)
LEMMA FormatSays ==
  ASSUME TextInv, NEW t \in Threads, Format(t)
  PROVE  AllSay'
<1> DEFINE h == Head(todo[t])
           r == Tail(todo[t])
           x == Expand(h)
<1>1. /\ todo[t] # <<>> /\ h.conv \notin {"text", "forever"}
      /\ todo' = [todo EXCEPT ![t] = x \o r] /\ issued' = issued /\ said' = said
  BY Zenon DEF Format, Printing
<1>2. DOMAIN issued = Threads /\ DOMAIN todo = Threads
  BY DEF TextInv, AllSay, Inv, Typing
<1> HIDE DEF h, r, x
<1>3. /\ todo'[t] = x \o r
      /\ \A u \in Threads : u # t => issued'[u] = issued[u] /\ said'[u] = said[u] /\ todo'[u] = todo[u]
  BY <1>1, <1>2
<1>4. Says(t)'
  <2> SUFFICES ASSUME issued[t] \in Seq(Good)
               PROVE  said[t] \in Seq(Texts) /\ x \o r \in Seq(Good) /\ said[t] \o CTexts(x \o r) = CTexts(issued[t])
    BY <1>1, <1>3 DEF Says
  <2>1. said[t] \in Seq(Texts) /\ todo[t] \in Seq(Good) /\ said[t] \o CTexts(todo[t]) = CTexts(issued[t])
    BY DEF TextInv, AllSay, Says
  <2>2. h \in Good /\ r \in Seq(Good) /\ CTexts(todo[t]) = CText(h) \o CTexts(r)
    BY <1>1, <2>1, CTextsHead DEF h, r
  <2>3. h \in Items /\ ~Short(h)
    BY <2>2 DEF Good, Issuable
  <2>4. x = Texted(CText(h)) /\ CText(h) \in Seq(Texts)
    BY <1>1, <2>3, ExpandIs DEF x
  <2>5. x \in Seq(Good) /\ CTexts(x) = CText(h)
    BY <2>4, TextedIsGood, CTextsOfTexted
  <2>6. x \o r \in Seq(Good) /\ CTexts(x \o r) = CTexts(x) \o CTexts(r)
    BY <2>2, <2>5, Joined, GoodAreItems, CTextsConcat
  <2> QED BY <2>1, <2>2, <2>5, <2>6
<1>5. \A u \in Threads : u # t => issued'[u] \in Seq(Issuable) /\ Says(u)'
  BY <1>3, SaysSame DEF TextInv, AllSay
<1>6. DOMAIN issued' = Threads /\ issued'[t] \in Seq(Issuable)
  BY <1>1 DEF TextInv, AllSay
<1> QED BY <1>4, <1>5, <1>6 DEF AllSay

(* The stack is added to what there is to print.                            *)
LEMMA CaptureSays ==
  ASSUME TextInv, NEW t \in Threads, Capture(t)
  PROVE  AllSay'
<1>1. PICK pcs \in Stacks : /\ todo' = [todo EXCEPT ![t] = StackTrace(pcs)]
                            /\ issued' = [issued EXCEPT ![t] = issued[t] \o StackTrace(pcs)]
  BY Zenon DEF Capture
<1>2. todo[t] = <<>> /\ said' = said
  BY Zenon DEF Capture
<1> DEFINE old == issued[t]
           new == StackTrace(pcs)
<1>3. DOMAIN issued = Threads /\ DOMAIN todo = Threads /\ old \in Seq(Issuable) /\ new \in Seq(Issuable)
  BY StackTraceIs DEF TextInv, AllSay, Inv, Typing
<1>4. /\ DOMAIN issued' = Threads /\ todo'[t] = new /\ issued'[t] = old \o new
      /\ \A u \in Threads : u # t => issued'[u] = issued[u] /\ said'[u] = said[u] /\ todo'[u] = todo[u]
  BY <1>1, <1>2, <1>3
<1>5. Says(t)'
  <2> SUFFICES ASSUME old \o new \in Seq(Good)
               PROVE  said[t] \in Seq(Texts) /\ new \in Seq(Good) /\ said[t] \o CTexts(new) = CTexts(old \o new)
    BY <1>2, <1>4 DEF Says
  <2>1. old \in Seq(Good) /\ new \in Seq(Good)
    BY <1>3, GoodConcat
  <2>2. said[t] \in Seq(Texts) /\ said[t] \o CTexts(<<>>) = CTexts(old)
    BY <1>2, <2>1 DEF TextInv, AllSay, Says
  <2>3. said[t] = CTexts(old)
    BY <2>2, CTextsEmpty, ConcatEmptySeq
  <2>4. CTexts(old \o new) = CTexts(old) \o CTexts(new)
    BY <2>1, GoodAreItems, CTextsConcat
  <2> QED BY <2>1, <2>2, <2>3, <2>4
<1>6. \A u \in Threads : u # t => issued'[u] \in Seq(Issuable) /\ Says(u)'
  BY <1>4, SaysSame DEF TextInv, AllSay
<1>7. issued'[t] \in Seq(Issuable)
  BY <1>3, <1>4, Joined
<1> QED BY <1>4, <1>5, <1>6, <1>7 DEF AllSay

LEMMA LeaveSays ==
  ASSUME TextInv, NEW t \in Threads, Unlock(t) \/ Return(t)
  PROVE  AllSay'
<1>1. /\ todo[t] = <<>> /\ todo' = todo
      /\ said' = [said EXCEPT ![t] = <<>>] /\ issued' = [issued EXCEPT ![t] = <<>>]
  BY Zenon DEF Unlock, Return, Leave
<1>2. DOMAIN issued = Threads /\ DOMAIN said = Threads
  BY DEF TextInv, AllSay, Inv, Typing
<1>3. /\ DOMAIN issued' = Threads /\ issued'[t] = <<>> /\ said'[t] = <<>> /\ todo'[t] = <<>>
      /\ \A u \in Threads : u # t => issued'[u] = issued[u] /\ said'[u] = said[u] /\ todo'[u] = todo[u]
  BY <1>1, <1>2
<1>4. /\ <<>> \in Seq(Issuable) /\ <<>> \in Seq(Good) /\ <<>> \in Seq(Texts)
      /\ <<>> \o CTexts(<<>>) = CTexts(<<>>)
  BY EmptySeq, CTextsEmpty, GoodAreItems, ConcatEmptySeq
<1>5. Says(t)' /\ issued'[t] \in Seq(Issuable)
  BY <1>3, <1>4 DEF Says
<1>6. \A u \in Threads : u # t => issued'[u] \in Seq(Issuable) /\ Says(u)'
  BY <1>3, SaysSame DEF TextInv, AllSay
<1> QED BY <1>3, <1>5, <1>6 DEF AllSay

LEMMA SilentSays ==
  ASSUME TextInv, UNCHANGED <<todo, issued, said>>
  PROVE  AllSay'
  BY DEF TextInv, AllSay, Says

LEMMA InitSays == Init => AllSay
<1> SUFFICES ASSUME Init PROVE AllSay
  OBVIOUS
<1>1. DOMAIN issued = Threads /\ \A t \in Threads : issued[t] = <<>> /\ said[t] = <<>> /\ todo[t] = <<>>
  BY DEF Init
<1>2. /\ <<>> \in Seq(Issuable) /\ <<>> \in Seq(Good) /\ <<>> \in Seq(Texts)
      /\ <<>> \o CTexts(<<>>) = CTexts(<<>>)
  BY EmptySeq, CTextsEmpty, GoodAreItems, ConcatEmptySeq
<1> QED BY <1>1, <1>2 DEF AllSay, Says

LEMMA TextInvInductive == TextInv /\ [Next]_vars => TextInv'
<1> SUFFICES ASSUME TextInv, [Next]_vars PROVE AllSay'
  BY InvInductive DEF TextInv
<1>1. CASE UNCHANGED vars
  BY <1>1, SilentSays DEF vars
<1>2. ASSUME NEW t \in Threads, Program(t) PROVE AllSay'
  BY <1>2, ProgramIssues, EnterSays, Zenon
<1>3. ASSUME NEW t \in Threads, Step(t) PROVE AllSay'
  <2>1. CASE Acquire(t)
    BY <2>1, SilentSays DEF Acquire
  <2>2. CASE PrintPad(t)
    BY <2>2, SilentSays DEF PrintPad
  <2> QED BY <1>3, <2>1, <2>2, PrintSays, FormatSays, CaptureSays, LeaveSays, Zenon DEF Step
<1> QED BY <1>1, <1>2, <1>3, Zenon DEF Next

(* Whatever a thread is to print, of every width and value, as long as no   *)
(* number is shorter than its field: what it has printed, with what it has  *)
(* still to print, is at every moment what C's printf prints.               *)
THEOREM TextIsAsInC == Spec => []TextAsInC
<1>1. ASSUME TextInv PROVE TextAsInC
  <2> SUFFICES ASSUME NEW t \in Threads, \A i \in 1 .. Len(issued[t]) : ~Short(issued[t][i])
               PROVE  said[t] \o CTexts(todo[t]) = CTexts(issued[t])
    BY DEF TextAsInC
  <2>1. issued[t] \in Seq(Issuable) /\ Says(t)
    BY <1>1 DEF TextInv, AllSay
  <2>2. issued[t] \in Seq(Good)
    BY <2>1, GoodIs
  <2> QED BY <2>1, <2>2 DEF Says
<1>2. Init => TextInv
  BY InitInv, InitSays DEF TextInv
<1> QED
  BY <1>1, <1>2, TextInvInductive, PTL DEF Spec

=================================================================================
