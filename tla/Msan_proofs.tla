------------------------------- MODULE Msan_proofs -------------------------------
(***************************************************************************)
(* Proofs about the memory sanitizer, for any number of threads, addresses *)
(* and records of origins.  What the shadow and the origins say is exact   *)
(* if no shadow cell is an origin cell too (Apart); what concerns the      *)
(* table of records needs no such condition.                               *)
(***************************************************************************)
EXTENDS Msan, SequenceTheorems, FiniteSetTheorems, TLAPS

Where == {"run", "init", "map_shadow", "map_origin", "write", "check", "report", "print",
  "print_stack", "printed", "stuck", "abort", "fault", "add", "wrap", "fill", "capture", "chain", "copy"}
Locked == {"print", "print_stack", "printed", "stuck", "copy"}
Id == 0 .. MaxOrigins - 1

ShadowStore(a, v) == [cell |-> Shadow(a), value |-> v, len |-> 1]
OriginStore(a, v) == [cell |-> Origin(a), value |-> v, len |-> OriginSize]
Stores == {ShadowStore(a, v) : a \in Addrs, v \in 0 .. 255} \cup {OriginStore(a, v) : a \in Addrs, v \in Id}

Typing ==
  /\ msan_initialized \in BOOLEAN /\ wrapped \in BOOLEAN
  /\ mapped \subseteq Cells
  /\ mem \in [Cells -> 0 .. 255]
  /\ counter \in Nat
  /\ origins \in [Id -> [active : BOOLEAN, stack : Threads \cup {NoThread}]]
  /\ lock \in Threads \cup {NoThread}
  /\ pc \in [Threads -> Where]
  /\ todo \in [Threads -> Seq(Stores)]
  /\ arg \in [Threads -> [beg : Nat, size : Nat, parent : Id, id : Id]]
  /\ asked \in [Addrs -> [bad : BOOLEAN, origin : Id, early : BOOLEAN]]
  /\ known \subseteq Id

\* The lock is held where it should be; a thread has arguments only while it
\* has a use for them, and stores to make only while it writes.
Control ==
  \A t \in Threads :
    /\ lock = t <=> pc[t] \in Locked
    /\ BytesOf(arg[t]) \subseteq Addrs
    /\ pc[t] \in {"check", "report", "print"} => arg[t].size > 0
    /\ pc[t] \in {"run", "abort", "init", "map_shadow", "map_origin"} => arg[t] = NoArg
    /\ pc[t] \notin {"write", "fault"} => todo[t] = <<>>

---------------------------------------------------------------------------------
(* Cells, and the stores of a hook.                                         *)

LEMMA IdFacts == Id \subseteq 0 .. 255 /\ Id \subseteq Nat /\ 0 \in Id /\ 1 \in Id /\ MaxOrigins \in Nat /\ MaxOrigins >= 3
  BY MsanConstants DEF Id

LEMMA SizeFacts == Gap \in Nat \ {0} /\ MapSize \in Nat \ {0} /\ OriginSize \in Nat \ {0}
  BY MsanConstants

LEMMA AddrFacts ==
  ASSUME NEW a \in Addrs
  PROVE  /\ a \in Nat /\ Shadow(a) \in Cells /\ Origin(a) \in Cells
         /\ OriginCells(a) \subseteq Cells /\ Origin(a) \in OriginCells(a) /\ Origin(a) \in Nat
<1>1. a \in Nat
  BY MsanConstants
<1>2. Origin(a) \in Nat
  BY <1>1, SizeFacts DEF Origin
<1>3. Origin(a) \in OriginCells(a)
  BY <1>2, SizeFacts DEF OriginCells
<1> QED
  BY <1>1, <1>2, <1>3 DEF Cells

LEMMA NoBytes == BytesOf(NoArg) = {}
  BY DEF BytesOf, NoArg

LEMMA RangeFacts ==
  ASSUME NEW r \in Ranges
  PROVE  r.beg \in Nat /\ r.size \in Nat /\ r.size > 0 /\ BytesOf(r) \subseteq Addrs
  BY MsanConstants

(* A store changes the cells of its address only.                           *)
LEMMA StoreCells ==
  ASSUME NEW w \in Stores
  PROVE  /\ CellsOf(w) \subseteq Cells /\ w.value \in 0 .. 255
         /\ \E a \in Addrs : \/ w.cell = Shadow(a) /\ CellsOf(w) = {Shadow(a)}
                             \/ w.cell = Origin(a) /\ CellsOf(w) = OriginCells(a)
<1>1. ASSUME NEW a \in Addrs, NEW v \in 0 .. 255, w = ShadowStore(a, v)
      PROVE  CellsOf(w) = {Shadow(a)} /\ w.cell = Shadow(a) /\ w.value = v
  <2>1. w.cell = Shadow(a) /\ w.len = 1 /\ w.value = v
    BY <1>1 DEF ShadowStore
  <2>2. Shadow(a) \in Int
    BY AddrFacts, SizeFacts DEF Shadow
  <2>3. Shadow(a) .. Shadow(a) + 1 - 1 = {Shadow(a)}
    BY <2>2
  <2> QED
    BY <2>1, <2>3 DEF CellsOf
<1>2. ASSUME NEW a \in Addrs, NEW v \in Id, w = OriginStore(a, v)
      PROVE  CellsOf(w) = OriginCells(a) /\ w.cell = Origin(a) /\ w.value = v
  <2>1. w.cell = Origin(a) /\ w.len = OriginSize /\ w.value = v
    BY <1>2 DEF OriginStore
  <2> QED
    BY <2>1 DEF CellsOf, OriginCells
<1>3. (\E a \in Addrs, v \in 0 .. 255 : w = ShadowStore(a, v)) \/ (\E a \in Addrs, v \in Id : w = OriginStore(a, v))
  BY DEF Stores
<1>4. CASE \E a \in Addrs, v \in 0 .. 255 : w = ShadowStore(a, v)
  <2>1. PICK a \in Addrs, v \in 0 .. 255 : w = ShadowStore(a, v)
    BY <1>4
  <2> QED
    BY <1>1, <2>1, AddrFacts
<1>5. CASE \E a \in Addrs, v \in Id : w = OriginStore(a, v)
  <2>1. PICK a \in Addrs, v \in Id : w = OriginStore(a, v)
    BY <1>5
  <2> QED
    BY <1>2, <2>1, AddrFacts, IdFacts
<1> QED
  BY <1>3, <1>4, <1>5

LEMMA StoresOf ==
  ASSUME NEW a \in Addrs
  PROVE  /\ \A v \in 0 .. 255 : ShadowStore(a, v) \in Stores
         /\ \A v \in Id : OriginStore(a, v) \in Stores
<1>1. ASSUME NEW v \in 0 .. 255 PROVE ShadowStore(a, v) \in Stores
  <2>1. ShadowStore(a, v) \in {ShadowStore(b, u) : b \in Addrs, u \in 0 .. 255}
    OBVIOUS
  <2> QED
    BY <2>1 DEF Stores
<1>2. ASSUME NEW v \in Id PROVE OriginStore(a, v) \in Stores
  <2>1. OriginStore(a, v) \in {OriginStore(b, u) : b \in Addrs, u \in Id}
    OBVIOUS
  <2> QED
    BY <2>1 DEF Stores
<1> QED
  BY <1>1, <1>2

LEMMA FunctionIsSeq ==
  ASSUME NEW S, NEW n \in Nat, NEW f \in [1 .. n -> S]
  PROVE  f \in Seq(S) /\ DOMAIN f = 1 .. n
  OBVIOUS

LEMMA FillStores ==
  ASSUME NEW r \in Ranges, NEW v \in 0 .. 255
  PROVE  /\ Fill(r, v) \in Seq(Stores)
         /\ \A i \in DOMAIN Fill(r, v) : \E a \in BytesOf(r) : Fill(r, v)[i] = ShadowStore(a, v)
<1>1. r.beg \in Nat /\ r.size \in Nat /\ BytesOf(r) \subseteq Addrs
  BY RangeFacts
<1>2. ASSUME NEW i \in 1 .. r.size
      PROVE  r.beg + i - 1 \in BytesOf(r)
             /\ [cell |-> Shadow(r.beg + i - 1), value |-> v, len |-> 1] = ShadowStore(r.beg + i - 1, v)
  BY <1>1 DEF BytesOf, ShadowStore
<1>3. ASSUME NEW i \in 1 .. r.size
      PROVE  [cell |-> Shadow(r.beg + i - 1), value |-> v, len |-> 1] \in Stores
  BY <1>1, <1>2, StoresOf
<1>4. Fill(r, v) \in [1 .. r.size -> Stores]
  BY <1>3 DEF Fill
<1>5. \A i \in 1 .. r.size : Fill(r, v)[i] = ShadowStore(r.beg + i - 1, v)
  BY <1>2 DEF Fill
<1>6. Fill(r, v) \in Seq(Stores) /\ DOMAIN Fill(r, v) = 1 .. r.size
  BY <1>1, <1>4, FunctionIsSeq
<1> QED
  BY <1>2, <1>5, <1>6

LEMMA FillOriginsStores ==
  ASSUME NEW r \in Ranges, NEW v \in Id
  PROVE  /\ FillOrigins(r, v) \in Seq(Stores)
         /\ \A i \in DOMAIN FillOrigins(r, v) : \E a \in BytesOf(r) : FillOrigins(r, v)[i] = OriginStore(a, v)
<1>1. r.beg \in Nat /\ r.size \in Nat /\ BytesOf(r) \subseteq Addrs
  BY RangeFacts
<1>2. ASSUME NEW i \in 1 .. r.size
      PROVE  r.beg + i - 1 \in BytesOf(r)
             /\ [cell |-> Origin(r.beg + i - 1), value |-> v, len |-> OriginSize] = OriginStore(r.beg + i - 1, v)
  BY <1>1 DEF BytesOf, OriginStore
<1>3. ASSUME NEW i \in 1 .. r.size
      PROVE  [cell |-> Origin(r.beg + i - 1), value |-> v, len |-> OriginSize] \in Stores
  BY <1>1, <1>2, StoresOf
<1>4. FillOrigins(r, v) \in [1 .. r.size -> Stores]
  BY <1>3 DEF FillOrigins
<1>5. \A i \in 1 .. r.size : FillOrigins(r, v)[i] = OriginStore(r.beg + i - 1, v)
  BY <1>2 DEF FillOrigins
<1>6. FillOrigins(r, v) \in Seq(Stores) /\ DOMAIN FillOrigins(r, v) = 1 .. r.size
  BY <1>1, <1>4, FunctionIsSeq
<1> QED
  BY <1>2, <1>5, <1>6

(* The elements of a concatenation are those of its parts, those of a tail  *)
(* those of the sequence.                                                   *)
LEMMA ElementOfConcat ==
  ASSUME NEW S, NEW s \in Seq(S), NEW u \in Seq(S), NEW i \in DOMAIN (s \o u)
  PROVE  (\E j \in DOMAIN s : (s \o u)[i] = s[j]) \/ (\E j \in DOMAIN u : (s \o u)[i] = u[j])
<1>1. Len(s) \in Nat /\ Len(u) \in Nat /\ DOMAIN s = 1 .. Len(s) /\ DOMAIN u = 1 .. Len(u)
  BY LenProperties
<1>2. s \o u \in Seq(S) /\ Len(s \o u) = Len(s) + Len(u)
      /\ \A k \in 1 .. Len(s) + Len(u) : (s \o u)[k] = IF k <= Len(s) THEN s[k] ELSE u[k - Len(s)]
  BY ConcatProperties
<1>3. DOMAIN (s \o u) = 1 .. Len(s) + Len(u)
  BY <1>2, LenProperties
<1>4. i \in 1 .. Len(s) + Len(u)
  BY <1>3
<1>5. CASE i <= Len(s)
  BY <1>1, <1>2, <1>4, <1>5
<1>6. CASE ~(i <= Len(s))
  <2>1. i - Len(s) \in DOMAIN u
    BY <1>1, <1>4, <1>6
  <2> QED
    BY <1>2, <1>4, <1>6, <2>1
<1> QED
  BY <1>5, <1>6

LEMMA ElementOfTail ==
  ASSUME NEW S, NEW s \in Seq(S), s # <<>>
  PROVE  /\ Head(s) \in S /\ Tail(s) \in Seq(S) /\ 1 \in DOMAIN s /\ Head(s) = s[1]
         /\ \A i \in DOMAIN Tail(s) : \E j \in DOMAIN s : Tail(s)[i] = s[j]
         /\ Len(s) = 1 => Tail(s) = <<>>
<1>1. Len(s) \in Nat \ {0} /\ DOMAIN s = 1 .. Len(s)
  BY LenProperties, EmptySeq
<1>2. /\ Head(s) \in S /\ Tail(s) \in Seq(S) /\ Len(Tail(s)) = Len(s) - 1
      /\ \A i \in 1 .. Len(Tail(s)) : Tail(s)[i] = s[i + 1]
  BY HeadTailProperties
<1>3. DOMAIN Tail(s) = 1 .. Len(s) - 1
  BY <1>2, LenProperties
<1>4. \A i \in 1 .. Len(s) - 1 : i + 1 \in 1 .. Len(s) /\ Tail(s)[i] = s[i + 1]
  BY <1>1, <1>2
<1>5. Len(s) = 1 => Tail(s) = <<>>
  <2>1. \A u \in Seq(S) : u # <<>> => Len(u) \in Nat \ {0}
    BY EmptySeq
  <2>2. Len(s) = 1 => Len(Tail(s)) \notin Nat \ {0}
    BY <1>2
  <2> QED
    BY <1>2, <2>1, <2>2, Zenon
<1>6. 1 \in DOMAIN s
  BY <1>1
<1>7. Head(s) = s[1]
  <2>1. Head(SubSeq(s, 1, Len(s))) = s[1]
    BY <1>1, HeadTailOfSubSeq
  <2> QED
    BY <2>1, SubSeqFull
<1> QED
  BY <1>2, <1>3, <1>4, <1>5, <1>6, <1>7

---------------------------------------------------------------------------------
(* The hooks that name a range.                                             *)

Hook(t, r) ==
  \/ __msan_unpoison(t, r) \/ __msan_poison(t, r) \/ __msan_check_mem_is_initialized(t, r)
  \/ \E id \in Stored : __msan_set_origin(t, r, id)

LEMMA HookEnters ==
  ASSUME NEW t \in Threads, NEW r \in Ranges, Hook(t, r)
  PROVE  \E where \in {"write", "check"}, stores \in Seq(Stores) :
           Enter(t, r, where, stores) /\ (where = "check" => stores = <<>>)
<1>1. Fill(r, 0) \in Seq(Stores) /\ Fill(r, Uninitialized) \in Seq(Stores)
  BY FillStores DEF Uninitialized
<1>2. \A id \in Stored \cup {0} : FillOrigins(r, id) \in Seq(Stores)
  BY FillOriginsStores, MsanConstants DEF Id
<1>3. Fill(r, 0) \o FillOrigins(r, 0) \in Seq(Stores)
  BY <1>1, <1>2, ConcatProperties
<1>4. <<>> \in Seq(Stores)
  BY EmptySeq
<1>5. CASE __msan_unpoison(t, r)
  BY <1>3, <1>5 DEF __msan_unpoison
<1>6. CASE __msan_poison(t, r)
  BY <1>1, <1>6, Zenon DEF __msan_poison
<1>7. CASE __msan_check_mem_is_initialized(t, r)
  BY <1>4, <1>7 DEF __msan_check_mem_is_initialized
<1>8. ASSUME NEW id \in Stored, __msan_set_origin(t, r, id)
      PROVE  \E stores \in Seq(Stores) : Enter(t, r, "write", stores)
  BY <1>2, <1>8, Zenon DEF __msan_set_origin
<1> QED
  BY <1>5, <1>6, <1>7, <1>8 DEF Hook

(* What a hook asks for, address by address.                                *)
LEMMA HookAsks ==
  ASSUME Typing, NEW t \in Threads, NEW r \in Ranges, Hook(t, r)
  PROVE  /\ asked' \in [Addrs -> [bad : BOOLEAN, origin : Id, early : BOOLEAN]]
         /\ \A a \in Addrs \ BytesOf(r) : asked'[a] = asked[a]
         /\ \A a \in BytesOf(r) : ~asked'[a].early =>
              \/ __msan_unpoison(t, r) /\ ~asked'[a].bad /\ asked'[a].origin = 0 /\ ~Booting
              \/ ~asked[a].early /\ ~Booting
              \/ __msan_check_mem_is_initialized(t, r) /\ asked'[a] = asked[a]
<1> DEFINE Good(wish) == \A a \in Addrs : wish[a] \in [bad : BOOLEAN, origin : Id, early : BOOLEAN]
<1>1. \A a \in Addrs : /\ asked[a] \in [bad : BOOLEAN, origin : Id, early : BOOLEAN]
                       /\ asked[a].bad \in BOOLEAN /\ asked[a].origin \in Id /\ asked[a].early \in BOOLEAN
  BY DEF Typing
<1>2. Booting \in BOOLEAN
  BY DEF Booting
<1>3. BytesOf(r) \subseteq Addrs
  BY RangeFacts
<1>4. ASSUME NEW wish, Ask(r, wish), \A a \in Addrs : wish[a] \in [bad : BOOLEAN, origin : Id, early : BOOLEAN]
      PROVE  /\ asked' \in [Addrs -> [bad : BOOLEAN, origin : Id, early : BOOLEAN]]
             /\ \A a \in Addrs \ BytesOf(r) : asked'[a] = asked[a]
             /\ \A a \in BytesOf(r) : asked'[a] = wish[a]
  BY <1>1, <1>3, <1>4 DEF Ask
<1>5. CASE __msan_unpoison(t, r)
  <2> DEFINE wish == [a \in Addrs |-> [bad |-> FALSE, origin |-> 0, early |-> Booting]]
  <2>1. Ask(r, wish)
    BY <1>5 DEF __msan_unpoison
  <2>2. \A a \in Addrs : /\ wish[a] \in [bad : BOOLEAN, origin : Id, early : BOOLEAN]
                         /\ wish[a].early = Booting /\ wish[a].bad = FALSE /\ wish[a].origin = 0
    BY <1>2, IdFacts
  <2> HIDE DEF wish
  <2> QED
    BY <1>3, <1>4, <1>5, <2>1, <2>2
<1>6. CASE __msan_poison(t, r)
  <2> DEFINE wish == [a \in Addrs |-> [asked[a] EXCEPT !.bad = TRUE, !.early = @ \/ Booting]]
  <2>1. Ask(r, wish)
    BY <1>6, Zenon DEF __msan_poison
  <2>2. \A a \in Addrs : /\ wish[a] \in [bad : BOOLEAN, origin : Id, early : BOOLEAN]
                         /\ wish[a].early = (asked[a].early \/ Booting)
    BY <1>1, <1>2
  <2> HIDE DEF wish
  <2> QED
    BY <1>3, <1>4, <2>1, <2>2
<1>7. CASE __msan_check_mem_is_initialized(t, r)
  BY <1>7, <1>3 DEF __msan_check_mem_is_initialized, Typing
<1>8. ASSUME NEW id \in Stored, __msan_set_origin(t, r, id)
      PROVE  /\ asked' \in [Addrs -> [bad : BOOLEAN, origin : Id, early : BOOLEAN]]
             /\ \A a \in Addrs \ BytesOf(r) : asked'[a] = asked[a]
             /\ \A a \in BytesOf(r) : ~asked'[a].early => ~asked[a].early /\ ~Booting
  <2> DEFINE wish == [a \in Addrs |-> [asked[a] EXCEPT !.origin = id, !.early = @ \/ Booting]]
  <2>1. Ask(r, wish)
    BY <1>8, Zenon DEF __msan_set_origin
  <2>2. id \in Id
    BY MsanConstants DEF Id
  <2>3. \A a \in Addrs : /\ wish[a] \in [bad : BOOLEAN, origin : Id, early : BOOLEAN]
                         /\ wish[a].early = (asked[a].early \/ Booting)
    BY <1>1, <1>2, <2>2
  <2> HIDE DEF wish
  <2> QED
    BY <1>3, <1>4, <2>1, <2>3
<1> QED
  BY <1>5, <1>6, <1>7, <1>8, Zenon DEF Hook

---------------------------------------------------------------------------------
(* Types and control.                                                       *)

Args == [beg : Nat, size : Nat, parent : Id, id : Id]

LEMMA NoArgType == NoArg \in Args /\ NoArg.size = 0
  BY IdFacts DEF NoArg, Args

LEMMA EnterFacts ==
  ASSUME Typing, NEW t \in Threads, NEW r \in Ranges, NEW where, NEW stores, Enter(t, r, where, stores)
  PROVE  /\ pc[t] = "run" /\ msan_initialized /\ pc' = [pc EXCEPT ![t] = where]
         /\ todo' = [todo EXCEPT ![t] = stores]
         /\ arg' \in [Threads -> Args] /\ arg'[t].size > 0
         /\ BytesOf(arg'[t]) = BytesOf(r) /\ BytesOf(r) \subseteq Addrs
         /\ \A u \in Threads \ {t} : arg'[u] = arg[u] /\ todo'[u] = todo[u] /\ pc'[u] = pc[u]
         /\ UNCHANGED <<msan_initialized, mapped, mem, counter, origins, lock, known, wrapped>>
<1> DEFINE n == [NoArg EXCEPT !.beg = r.beg, !.size = r.size]
<1>1. n = [beg |-> r.beg, size |-> r.size, parent |-> 0, id |-> 0]
  <2>1. [NoArg EXCEPT !.beg = r.beg] = [beg |-> r.beg, size |-> 0, parent |-> 0, id |-> 0]
    BY DEF NoArg
  <2> DEFINE m == [NoArg EXCEPT !.beg = r.beg]
  <2> HIDE DEF m
  <2>2. m = [beg |-> r.beg, size |-> 0, parent |-> 0, id |-> 0] => [m EXCEPT !.size = r.size] = [beg |-> r.beg, size |-> r.size, parent |-> 0, id |-> 0]
    OBVIOUS
  <2> QED
    BY <2>1, <2>2, Zenon DEF m
<1>2. n \in Args /\ n.beg = r.beg /\ n.size = r.size /\ n.size > 0
  BY <1>1, RangeFacts, IdFacts DEF Args
<1>3. BytesOf(n) = BytesOf(r)
  BY <1>2 DEF BytesOf
<1>4. /\ pc[t] = "run" /\ msan_initialized /\ pc' = [pc EXCEPT ![t] = where]
      /\ todo' = [todo EXCEPT ![t] = stores] /\ arg' = [arg EXCEPT ![t] = n]
      /\ UNCHANGED <<msan_initialized, mapped, mem, counter, origins, lock, known, wrapped>>
  BY Zenon DEF Enter
<1> HIDE DEF n
<1>5. arg \in [Threads -> Args]
  BY DEF Typing, Args
<1>6. arg' \in [Threads -> Args] /\ arg'[t] = n /\ \A u \in Threads \ {t} : arg'[u] = arg[u]
  BY <1>2, <1>4, <1>5
<1>7. \A u \in Threads \ {t} : todo'[u] = todo[u] /\ pc'[u] = pc[u]
  BY <1>4 DEF Typing
<1> QED
  BY <1>2, <1>3, <1>4, <1>6, <1>7, RangeFacts, Zenon

(* The step of a check, written out.                                        *)
LEMMA CheckFacts ==
  ASSUME Typing, Control, NEW t \in Threads, CheckByte(t)
  PROVE  /\ pc[t] = "check" /\ arg[t].size > 0
         /\ UNCHANGED <<msan_initialized, mapped, mem, counter, origins, lock, todo, asked, known, wrapped>>
         /\ \/ pc' = [pc EXCEPT ![t] = "fault"] /\ arg' = arg
            \/ mem[Shadow(arg[t].beg)] # 0 /\ pc' = [pc EXCEPT ![t] = "report"] /\ arg' = arg
            \/ mem[Shadow(arg[t].beg)] = 0 /\ arg[t].size = 1 /\ pc' = [pc EXCEPT ![t] = "run"] /\ arg' = [arg EXCEPT ![t] = NoArg]
            \/ /\ mem[Shadow(arg[t].beg)] = 0 /\ arg[t].size > 1 /\ pc' = pc
               /\ arg' = [arg EXCEPT ![t] = [beg |-> arg[t].beg + 1, size |-> arg[t].size - 1,
                                             parent |-> arg[t].parent, id |-> arg[t].id]]
<1>1. pc[t] = "check" /\ arg[t].size > 0 /\ arg[t] \in [beg : Nat, size : Nat, parent : Id, id : Id]
  BY DEF CheckByte, Control, Typing
<1> DEFINE n == [beg |-> arg[t].beg + 1, size |-> arg[t].size - 1, parent |-> arg[t].parent, id |-> arg[t].id]
<1>2. ASSUME arg' = [arg EXCEPT ![t].beg = @ + 1, ![t].size = @ - 1] PROVE arg' = [arg EXCEPT ![t] = n]
  BY <1>1, <1>2 DEF Typing
<1> HIDE DEF n
<1>3. UNCHANGED <<msan_initialized, mapped, mem, counter, origins, lock, todo, asked, known, wrapped>>
  BY Zenon DEF CheckByte, Fault
<1>4. \/ pc' = [pc EXCEPT ![t] = "fault"] /\ arg' = arg
      \/ mem[Shadow(arg[t].beg)] # 0 /\ pc' = [pc EXCEPT ![t] = "report"] /\ arg' = arg
      \/ mem[Shadow(arg[t].beg)] = 0 /\ arg[t].size = 1 /\ pc' = [pc EXCEPT ![t] = "run"] /\ arg' = [arg EXCEPT ![t] = NoArg]
      \/ mem[Shadow(arg[t].beg)] = 0 /\ arg[t].size > 1 /\ pc' = pc /\ arg' = [arg EXCEPT ![t] = n]
  BY <1>2, Zenon DEF CheckByte, Fault, Goto, Return
<1> QED
  BY <1>1, <1>3, <1>4, Zenon DEF n

LEMMA HookTypes ==
  ASSUME Typing, Control, NEW t \in Threads, NEW r \in Ranges, Hook(t, r)
  PROVE  Typing' /\ Control'
<1>1. PICK where \in {"write", "check"}, stores \in Seq(Stores) :
        Enter(t, r, where, stores) /\ (where = "check" => stores = <<>>)
  BY HookEnters, Zenon
<1>2. /\ pc[t] = "run" /\ pc' = [pc EXCEPT ![t] = where]
      /\ todo' = [todo EXCEPT ![t] = stores]
      /\ arg' \in [Threads -> Args] /\ arg'[t].size > 0
      /\ BytesOf(arg'[t]) \subseteq Addrs
      /\ \A u \in Threads \ {t} : arg'[u] = arg[u] /\ todo'[u] = todo[u] /\ pc'[u] = pc[u]
      /\ UNCHANGED <<msan_initialized, mapped, mem, counter, origins, lock, known, wrapped>>
  BY <1>1, EnterFacts
<1>3. Typing'
  BY <1>2, HookAsks DEF Typing, Args, Where
<1>4. pc'[t] = where /\ todo'[t] = stores /\ where \notin Locked
  BY <1>2 DEF Typing, Locked
<1>5. ASSUME NEW u \in Threads
      PROVE  /\ lock' = u <=> pc'[u] \in Locked
             /\ BytesOf(arg'[u]) \subseteq Addrs
             /\ pc'[u] \in {"check", "report", "print"} => arg'[u].size > 0
             /\ pc'[u] \in {"run", "abort", "init", "map_shadow", "map_origin"} => arg'[u] = NoArg
             /\ pc'[u] \notin {"write", "fault"} => todo'[u] = <<>>
  <2>1. CASE u = t
    BY <1>1, <1>2, <1>4, <2>1 DEF Control, Locked
  <2>2. CASE u # t
    BY <1>2, <2>2 DEF Control
  <2> QED
    BY <2>1, <2>2
<1> QED
  BY <1>3, <1>5 DEF Control

(* The steps that move a thread between places that need nothing of it.     *)
LEMMA MoveTypes ==
  ASSUME Typing, Control, NEW t \in Threads,
         \/ __msan_init(t) \/ __msan_warning_noreturn(t) \/ Exchange(t) \/ Hang(t) \/ PrintStack(t)
  PROVE  Typing' /\ Control'
<1>1. PICK where \in Where :
        /\ pc' = [pc EXCEPT ![t] = where]
        /\ where \in Locked <=> pc[t] \in Locked
        /\ where \notin {"check", "report", "print"}
        /\ where \in {"run", "abort", "init", "map_shadow", "map_origin"} =>
             pc[t] \in {"run", "abort", "init", "map_shadow", "map_origin"}
        /\ where \notin {"write", "fault"} => pc[t] \notin {"write", "fault"}
        /\ msan_initialized' \in BOOLEAN
        /\ UNCHANGED <<mapped, mem, counter, origins, lock, todo, arg, asked, known, wrapped>>
  BY DEF __msan_init, __msan_warning_noreturn, Exchange, Hang, PrintStack, Goto, Where, Locked, Typing
<1>2. Typing'
  BY <1>1 DEF Typing
<1>3. Control'
  BY <1>1 DEF Typing, Control
<1> QED
  BY <1>2, <1>3

LEMMA FaultTypes ==
  ASSUME Typing, Control, NEW t \in Threads, NEW S, NEW where \in {"fault", "stuck"}, Fault(t, S, where),
         IF where = "fault" THEN pc[t] \in {"write", "check"} ELSE pc[t] = "print"
  PROVE  Typing' /\ Control'
<1>1. /\ pc' = [pc EXCEPT ![t] = where]
      /\ UNCHANGED <<msan_initialized, mapped, mem, counter, origins, lock, todo, arg, asked, known, wrapped>>
  BY DEF Fault, Goto
<1>2. Typing'
  BY <1>1 DEF Typing, Where
<1>3. Control'
  BY <1>1 DEF Typing, Control, Locked
<1> QED
  BY <1>2, <1>3

LEMMA ChainTypes ==
  ASSUME Typing, Control, NEW t \in Threads, NEW o \in Seeds \cup Stored, __msan_chain_origin(t, o)
  PROVE  Typing' /\ Control'
<1> DEFINE n == [NoArg EXCEPT !.parent = o]
<1>1. n = [beg |-> 0, size |-> 0, parent |-> o, id |-> 0]
  BY DEF NoArg
<1>2. n \in Args /\ n.beg = 0 /\ n.size = 0
  BY <1>1, IdFacts, MsanConstants DEF Args, Id
<1>3. BytesOf(n) = {}
  BY <1>2 DEF BytesOf
<1>4. /\ pc[t] = "run" /\ pc' = [pc EXCEPT ![t] = "add"] /\ arg' = [arg EXCEPT ![t] = n]
      /\ UNCHANGED <<msan_initialized, mapped, mem, counter, origins, lock, todo, asked, known, wrapped>>
  BY Zenon DEF __msan_chain_origin
<1> HIDE DEF n
<1>5. Typing'
  BY <1>2, <1>4 DEF Typing, Args, Where
<1>6. Control'
  BY <1>3, <1>4 DEF Typing, Control, Locked
<1> QED
  BY <1>5, <1>6

LEMMA MapTypes ==
  ASSUME Typing, Control, NEW t \in Threads, MapShadow(t) \/ MapOrigin(t)
  PROVE  Typing' /\ Control'
<1>1. ASSUME NEW base \in Nat, MapAt(base) PROVE mapped' \subseteq Cells /\ mem' \in [Cells -> 0 .. 255]
  <2>1. mapped' \subseteq Cells
    BY <1>1 DEF MapAt, Typing
  <2>2. mem \in [Cells -> 0 .. 255] /\ 0 \in 0 .. 255
    BY DEF Typing
  <2>3. mem' \in [Cells -> 0 .. 255]
    BY <1>1, <2>2 DEF MapAt
  <2> QED
    BY <2>1, <2>3
<1>2. mapped' \subseteq Cells /\ mem' \in [Cells -> 0 .. 255]
  BY <1>1, SizeFacts DEF MapShadow, MapOrigin
<1>3. /\ pc[t] \in {"map_shadow", "map_origin"} /\ pc' = [pc EXCEPT ![t] = IF pc[t] = "map_shadow" THEN "map_origin" ELSE "run"]
      /\ UNCHANGED <<msan_initialized, counter, origins, lock, todo, arg, asked, known, wrapped>>
  BY DEF MapShadow, MapOrigin, Goto
<1>4. Typing'
  BY <1>2, <1>3 DEF Typing, Where
<1>5. Control'
  BY <1>3 DEF Typing, Control, Locked
<1> QED
  BY <1>4, <1>5

(* A store that is made.                                                    *)
LEMMA WriteFacts ==
  ASSUME Typing, NEW t \in Threads, Write(t), ~Fault(t, CellsOf(Head(todo[t])), "fault")
  PROVE  LET w == Head(todo[t]) IN
         /\ pc[t] = "write" /\ todo[t] # <<>> /\ w \in Stores
         /\ mem' = [c \in Cells |-> IF c = w.cell THEN w.value ELSE IF c \in CellsOf(w) THEN 0 ELSE mem[c]]
         /\ todo' = [todo EXCEPT ![t] = Tail(todo[t])] /\ Tail(todo[t]) \in Seq(Stores)
         /\ \/ Tail(todo[t]) = <<>> /\ pc' = [pc EXCEPT ![t] = "run"] /\ arg' = [arg EXCEPT ![t] = NoArg]
            \/ pc' = pc /\ arg' = arg
         /\ UNCHANGED <<msan_initialized, mapped, counter, origins, lock, asked, known, wrapped>>
<1>1. todo[t] \in Seq(Stores) /\ todo[t] # <<>>
  BY DEF Typing, Write
<1>2. Head(todo[t]) \in Stores /\ Tail(todo[t]) \in Seq(Stores) /\ (Len(todo[t]) = 1 => Tail(todo[t]) = <<>>)
  BY <1>1, ElementOfTail
<1> QED
  BY <1>1, <1>2, Zenon DEF Write, Return, Goto

LEMMA WriteTypes ==
  ASSUME Typing, Control, NEW t \in Threads, Write(t)
  PROVE  Typing' /\ Control'
<1>1. CASE Fault(t, CellsOf(Head(todo[t])), "fault")
  BY <1>1, FaultTypes DEF Write
<1>2. CASE ~Fault(t, CellsOf(Head(todo[t])), "fault")
  <2> DEFINE w == Head(todo[t])
  <2>1. /\ pc[t] = "write" /\ w \in Stores
        /\ mem' = [c \in Cells |-> IF c = w.cell THEN w.value ELSE IF c \in CellsOf(w) THEN 0 ELSE mem[c]]
        /\ todo' = [todo EXCEPT ![t] = Tail(todo[t])] /\ Tail(todo[t]) \in Seq(Stores)
        /\ \/ Tail(todo[t]) = <<>> /\ pc' = [pc EXCEPT ![t] = "run"] /\ arg' = [arg EXCEPT ![t] = NoArg]
           \/ pc' = pc /\ arg' = arg
        /\ UNCHANGED <<msan_initialized, mapped, counter, origins, lock, asked, known, wrapped>>
    BY <1>2, WriteFacts
  <2>2. w.value \in 0 .. 255
    BY <2>1, StoreCells
  <2> HIDE DEF w
  <2>3. mem' \in [Cells -> 0 .. 255]
    BY <2>1, <2>2 DEF Typing
  <2>4. pc' \in [Threads -> Where] /\ arg' \in [Threads -> Args] /\ todo' \in [Threads -> Seq(Stores)]
    <3>1. pc \in [Threads -> Where] /\ arg \in [Threads -> Args] /\ todo \in [Threads -> Seq(Stores)]
      BY DEF Typing, Args
    <3>2. "run" \in Where /\ NoArg \in Args
      BY NoArgType DEF Where
    <3>3. todo' \in [Threads -> Seq(Stores)]
      BY <2>1, <3>1
    <3> QED
      BY <2>1, <3>1, <3>2, <3>3
  <2>6. Typing'
    BY <2>1, <2>3, <2>4 DEF Typing, Args
  <2>5. Control'
    BY <2>1, NoBytes DEF Typing, Control, Locked
  <2> QED
    BY <2>5, <2>6
<1> QED
  BY <1>1, <1>2

LEMMA CheckTypes ==
  ASSUME Typing, Control, NEW t \in Threads, CheckByte(t)
  PROVE  Typing' /\ Control'
<1> DEFINE n == [beg |-> arg[t].beg + 1, size |-> arg[t].size - 1, parent |-> arg[t].parent, id |-> arg[t].id]
<1>1. arg[t] \in Args /\ arg[t].beg \in Nat /\ arg[t].size \in Nat /\ arg[t].parent \in Id /\ arg[t].id \in Id
  BY DEF Typing, Args
<1>2. /\ pc[t] = "check" /\ arg[t].size > 0
      /\ UNCHANGED <<msan_initialized, mapped, mem, counter, origins, lock, todo, asked, known, wrapped>>
      /\ \/ pc' = [pc EXCEPT ![t] = "fault"] /\ arg' = arg
         \/ pc' = [pc EXCEPT ![t] = "report"] /\ arg' = arg
         \/ pc' = [pc EXCEPT ![t] = "run"] /\ arg' = [arg EXCEPT ![t] = NoArg]
         \/ arg[t].size > 1 /\ pc' = pc /\ arg' = [arg EXCEPT ![t] = n]
  BY CheckFacts
<1>3. arg[t].size > 1 => n \in Args /\ n.size > 0 /\ BytesOf(n) \subseteq BytesOf(arg[t])
  BY <1>1 DEF Args, BytesOf
<1> HIDE DEF n
<1>4. pc' \in [Threads -> Where] /\ arg' \in [Threads -> Args]
  <2>1. pc \in [Threads -> Where] /\ arg \in [Threads -> Args] /\ {"fault", "report", "run"} \subseteq Where
    BY DEF Typing, Args, Where
  <2> QED
    BY <1>2, <1>3, <2>1, NoArgType
<1>5. Typing'
  BY <1>2, <1>4 DEF Typing, Args
<1>6. Control'
  <2>1. ASSUME NEW u \in Threads \ {t} PROVE pc'[u] = pc[u] /\ arg'[u] = arg[u]
    BY <1>2 DEF Typing
  <2>2. /\ lock = t <=> pc'[t] \in Locked
        /\ BytesOf(arg'[t]) \subseteq Addrs
        /\ pc'[t] \in {"check", "report", "print"} => arg'[t].size > 0
        /\ pc'[t] \in {"run", "abort", "init", "map_shadow", "map_origin"} => arg'[t] = NoArg
        /\ todo[t] = <<>>
    BY <1>2, <1>3, NoBytes DEF Typing, Control, Locked
  <2> QED
    BY <1>2, <2>1, <2>2 DEF Control
<1> QED
  BY <1>5, <1>6

LEMMA AcquireTypes ==
  ASSUME Typing, Control, NEW t \in Threads, Acquire(t)
  PROVE  Typing' /\ Control'
<1> DEFINE where == IF pc[t] = "report" THEN "print" ELSE "copy"
<1>1. /\ pc[t] \in {"report", "chain"} /\ lock = NoThread /\ lock' = t
      /\ pc' = [pc EXCEPT ![t] = where] /\ where \in {"print", "copy"} /\ (where = "print" => pc[t] = "report")
      /\ UNCHANGED <<msan_initialized, mapped, mem, counter, origins, todo, arg, asked, known, wrapped>>
  BY DEF Acquire, Goto
<1> HIDE DEF where
<1>2. Typing'
  BY <1>1 DEF Typing, Where
<1>3. NoThread \notin Threads
  BY MsanConstants
<1>4. Control'
  BY <1>1, <1>3 DEF Typing, Control, Locked
<1> QED
  BY <1>2, <1>4

(* A new identifier changes nothing else of a thread's arguments.           *)
LEMMA SetId ==
  ASSUME Typing, NEW t \in Threads, NEW id \in Id, arg' = [arg EXCEPT ![t].id = id]
  PROVE  /\ arg' \in [Threads -> Args] /\ arg'[t].id = id
         /\ arg'[t].beg = arg[t].beg /\ arg'[t].size = arg[t].size
         /\ BytesOf(arg'[t]) = BytesOf(arg[t])
         /\ \A u \in Threads \ {t} : arg'[u] = arg[u]
<1> DEFINE n == [arg[t] EXCEPT !.id = id]
<1>1. arg[t] \in Args /\ arg \in [Threads -> Args]
  BY DEF Typing, Args
<1>2. n \in Args /\ n.id = id /\ n.beg = arg[t].beg /\ n.size = arg[t].size
  BY <1>1 DEF Args
<1>3. arg' = [arg EXCEPT ![t] = n]
  OBVIOUS
<1> HIDE DEF n
<1>4. arg' \in [Threads -> Args] /\ arg'[t] = n /\ \A u \in Threads \ {t} : arg'[u] = arg[u]
  BY <1>1, <1>2, <1>3
<1> QED
  BY <1>2, <1>4 DEF BytesOf

Records == [active : BOOLEAN, stack : Threads \cup {NoThread}]

LEMMA SetRecord ==
  ASSUME Typing, NEW i \in Id, NEW b \in BOOLEAN, NEW u \in Threads \cup {NoThread},
         \/ origins' = [origins EXCEPT ![i].active = b]
         \/ origins' = [origins EXCEPT ![i].stack = u]
  PROVE  origins' \in [Id -> Records]
<1>1. origins \in [Id -> Records] /\ origins[i] \in Records
  BY DEF Typing, Records
<1>2. [origins[i] EXCEPT !.active = b] \in Records /\ [origins[i] EXCEPT !.stack = u] \in Records
  BY <1>1 DEF Records
<1>3. CASE origins' = [origins EXCEPT ![i].active = b]
  <2> DEFINE r == [origins[i] EXCEPT !.active = b]
  <2>1. origins' = [origins EXCEPT ![i] = r] /\ r \in Records
    BY <1>2, <1>3
  <2> HIDE DEF r
  <2> QED
    BY <1>1, <2>1
<1>4. CASE origins' = [origins EXCEPT ![i].stack = u]
  <2> DEFINE r == [origins[i] EXCEPT !.stack = u]
  <2>1. origins' = [origins EXCEPT ![i] = r] /\ r \in Records
    BY <1>2, <1>4
  <2> HIDE DEF r
  <2> QED
    BY <1>1, <2>1
<1> QED
  BY <1>3, <1>4

(* The identifier in an origin that a report mentions is that of a record.  *)
LEMMA PrintOriginFacts ==
  ASSUME Typing, NEW t \in Threads, PrintOrigin(t), ~Fault(t, OriginCells(arg[t].beg), "stuck")
  PROVE  \E oid \in Id, where \in {"print_stack", "printed"} :
           /\ pc[t] = "print" /\ pc' = [pc EXCEPT ![t] = where]
           /\ arg' = [arg EXCEPT ![t].id = oid]
           /\ where = "print_stack" => oid = LoadOrigin(arg[t].beg) /\ oid # 0
           /\ UNCHANGED <<msan_initialized, mapped, mem, counter, origins, lock, todo, asked, known, wrapped>>
<1> DEFINE oid == LoadOrigin(arg[t].beg)
           has == oid # 0 /\ oid < MaxOrigins /\ origins[oid].active
<1>1. /\ pc[t] = "print" /\ arg[t].beg \in Printable
      /\ arg' = [arg EXCEPT ![t].id = IF has THEN oid ELSE 0]
      /\ pc' = [pc EXCEPT ![t] = IF has THEN "print_stack" ELSE "printed"]
      /\ UNCHANGED <<msan_initialized, mapped, mem, counter, origins, lock, todo, asked, known, wrapped>>
  BY Zenon DEF PrintOrigin, Goto
<1>2. arg[t].beg \in Addrs
  BY <1>1, MsanConstants
<1>3. mem[Origin(arg[t].beg)] \in 0 .. 255
  BY <1>2, AddrFacts DEF Typing
<1>4. oid \in Nat
  BY <1>3, IdFacts DEF LoadOrigin
<1>5. has => oid \in Id
  BY <1>4, IdFacts DEF Id
<1> HIDE DEF oid
<1>6. 0 \in Id
  BY IdFacts
<1>7. CASE has
  BY <1>1, <1>5, <1>7, Zenon DEF oid
<1>8. CASE ~has
  BY <1>1, <1>6, <1>8, Zenon
<1> QED
  BY <1>7, <1>8

LEMMA PrintOriginTypes ==
  ASSUME Typing, Control, NEW t \in Threads, PrintOrigin(t)
  PROVE  Typing' /\ Control'
<1>1. CASE Fault(t, OriginCells(arg[t].beg), "stuck")
  BY <1>1, FaultTypes DEF PrintOrigin
<1>2. CASE ~Fault(t, OriginCells(arg[t].beg), "stuck")
  <2>1. PICK oid \in Id, where \in {"print_stack", "printed"} :
           /\ pc[t] = "print" /\ pc' = [pc EXCEPT ![t] = where]
           /\ arg' = [arg EXCEPT ![t].id = oid]
           /\ where = "print_stack" => oid = LoadOrigin(arg[t].beg) /\ oid # 0
           /\ UNCHANGED <<msan_initialized, mapped, mem, counter, origins, lock, todo, asked, known, wrapped>>
    BY <1>2, PrintOriginFacts, Zenon
  <2>2. arg' \in [Threads -> Args] /\ arg'[t].size = arg[t].size /\ BytesOf(arg'[t]) = BytesOf(arg[t])
        /\ \A u \in Threads \ {t} : arg'[u] = arg[u]
    BY <2>1, SetId
  <2>4. Typing'
    BY <2>1, <2>2 DEF Typing, Where, Args
  <2>5. Control'
    BY <2>1, <2>2 DEF Typing, Control, Locked
  <2> QED
    BY <2>4, <2>5
<1> QED
  BY <1>1, <1>2

LEMMA AbortTypes ==
  ASSUME Typing, Control, NEW t \in Threads, Abort(t)
  PROVE  Typing' /\ Control'
<1>1. Typing'
  BY NoArgType DEF Typing, Abort, Goto, Where, Args
<1>2. NoThread \notin Threads
  BY MsanConstants
<1>3. Control'
  BY <1>2, NoBytes DEF Typing, Control, Locked, Abort, Goto
<1> QED
  BY <1>1, <1>3

(* An identifier is that of a record that is not record 0.                  *)
LEMMA TakeIdFacts ==
  ASSUME Typing, NEW t \in Threads, TakeId(t)
  PROVE  \E id \in Id \ {0}, where \in {"wrap", "fill"} :
           /\ pc[t] = "add" /\ pc' = [pc EXCEPT ![t] = where]
           /\ counter' = counter + 1 /\ arg' = [arg EXCEPT ![t].id = id]
           /\ wrapped' \in BOOLEAN /\ (wrapped => wrapped')
           /\ where = "fill" => id = counter + 1 /\ counter + 1 < MaxOrigins
           /\ where = "wrap" => counter + 1 >= MaxOrigins /\ wrapped'
           /\ UNCHANGED <<msan_initialized, mapped, mem, origins, lock, todo, asked, known>>
<1>1. counter \in Nat /\ wrapped \in BOOLEAN
  BY DEF Typing
<1>2. 1 \in Id \ {0} /\ (counter + 1 < MaxOrigins => counter + 1 \in Id \ {0}) /\ MaxOrigins \in Nat
  BY <1>1, IdFacts DEF Id
<1>3. /\ pc[t] = "add" /\ counter' = counter + 1
      /\ wrapped' = (wrapped \/ counter' >= MaxOrigins)
      /\ UNCHANGED <<msan_initialized, mapped, mem, origins, lock, todo, asked, known>>
  BY DEF TakeId
<1>4. CASE counter' >= MaxOrigins
  <2>1. arg' = [arg EXCEPT ![t].id = 1] /\ pc' = [pc EXCEPT ![t] = "wrap"]
    BY <1>4 DEF TakeId, Goto
  <2> QED
    BY <1>1, <1>2, <1>3, <1>4, <2>1
<1>5. CASE ~(counter' >= MaxOrigins)
  <2>1. arg' = [arg EXCEPT ![t].id = counter + 1] /\ pc' = [pc EXCEPT ![t] = "fill"]
    BY <1>3, <1>5 DEF TakeId, Goto
  <2>2. counter + 1 < MaxOrigins
    BY <1>1, <1>2, <1>3, <1>5
  <2> QED
    BY <1>1, <1>2, <1>3, <2>1, <2>2
<1> QED
  BY <1>4, <1>5

LEMMA TakeIdTypes ==
  ASSUME Typing, Control, NEW t \in Threads, TakeId(t)
  PROVE  Typing' /\ Control'
<1>1. PICK id \in Id \ {0}, where \in {"wrap", "fill"} :
           /\ pc[t] = "add" /\ pc' = [pc EXCEPT ![t] = where]
           /\ counter' = counter + 1 /\ arg' = [arg EXCEPT ![t].id = id]
           /\ wrapped' \in BOOLEAN /\ (wrapped => wrapped')
           /\ where = "fill" => id = counter + 1 /\ counter + 1 < MaxOrigins
           /\ where = "wrap" => counter + 1 >= MaxOrigins /\ wrapped'
           /\ UNCHANGED <<msan_initialized, mapped, mem, origins, lock, todo, asked, known>>
  BY TakeIdFacts, Zenon
<1>2. arg' \in [Threads -> Args] /\ arg'[t].size = arg[t].size /\ BytesOf(arg'[t]) = BytesOf(arg[t])
      /\ \A u \in Threads \ {t} : arg'[u] = arg[u]
  BY <1>1, SetId
<1>3. counter' \in Nat /\ pc' \in [Threads -> Where]
  BY <1>1 DEF Typing, Where
<1>4. Typing'
  BY <1>1, <1>2, <1>3 DEF Typing, Args
<1>5. Control'
  BY <1>1, <1>2 DEF Typing, Control, Locked
<1> QED
  BY <1>4, <1>5

LEMMA RecordTypes ==
  ASSUME Typing, Control, NEW t \in Threads, Wrap(t) \/ Activate(t) \/ Capture(t)
  PROVE  Typing' /\ Control'
<1>1. arg[t].id \in Id
  BY DEF Typing
<1>2. origins' \in [Id -> Records]
  <2>1. CASE Wrap(t)
    BY <2>1 DEF Wrap, Typing, Records
  <2>2. CASE Activate(t)
    BY <1>1, <2>2, SetRecord DEF Activate
  <2>3. CASE Capture(t)
    BY <1>1, <2>3, SetRecord DEF Capture
  <2> QED
    BY <2>1, <2>2, <2>3
<1>3. PICK where \in {"fill", "capture", "chain"} : pc' = [pc EXCEPT ![t] = where]
  BY DEF Wrap, Activate, Capture, Goto
<1>4. /\ pc[t] \in {"wrap", "fill", "capture"} /\ counter' \in Nat
      /\ UNCHANGED <<msan_initialized, mapped, mem, lock, todo, arg, asked, known, wrapped>>
  BY DEF Wrap, Activate, Capture, Typing
<1>5. Typing'
  BY <1>2, <1>3, <1>4 DEF Typing, Where, Records
<1>6. Control'
  BY <1>3, <1>4 DEF Typing, Control, Locked
<1> QED
  BY <1>5, <1>6

LEMMA CopyTypes ==
  ASSUME Typing, Control, NEW t \in Threads, CopyStack(t)
  PROVE  Typing' /\ Control'
<1>1. arg[t].id \in Id /\ arg[t].parent \in Id
  BY DEF Typing
<1>2. origins[arg[t].parent].stack \in Threads \cup {NoThread}
  BY <1>1 DEF Typing
<1>3. origins' \in [Id -> Records]
  BY <1>1, <1>2, SetRecord DEF CopyStack
<1>4. /\ pc[t] = "copy" /\ pc' = [pc EXCEPT ![t] = "run"] /\ arg' = [arg EXCEPT ![t] = NoArg]
      /\ known' = known \cup {arg[t].id} /\ lock' = NoThread
      /\ UNCHANGED <<msan_initialized, mapped, mem, counter, todo, asked, wrapped>>
  BY DEF CopyStack, Return, Goto
<1>5. Typing'
  BY <1>1, <1>3, <1>4, NoArgType DEF Typing, Where, Args, Records
<1>6. NoThread \notin Threads
  BY MsanConstants
<1>7. Control'
  BY <1>4, <1>6, NoBytes DEF Typing, Control, Locked
<1> QED
  BY <1>5, <1>7

LEMMA InitTypes == Init => Typing /\ Control
<1> SUFFICES ASSUME Init PROVE Typing /\ Control
  OBVIOUS
<1>1. <<>> \in Seq(Stores)
  BY EmptySeq
<1>2. 0 \in Id /\ Seeds \subseteq Id
  BY IdFacts, MsanConstants DEF Id
<1>3. Typing
  <2>1. /\ mem \in [Cells -> 0 .. 255] /\ pc \in [Threads -> Where]
        /\ todo \in [Threads -> Seq(Stores)]
    BY <1>1 DEF Init, Where
  <2>2. arg \in [Threads -> Args]
    BY NoArgType DEF Init
  <2>3. origins \in [Id -> [active : BOOLEAN, stack : Threads \cup {NoThread}]]
    BY DEF Init, Id
  <2>4. asked \in [Addrs -> [bad : BOOLEAN, origin : Id, early : BOOLEAN]]
    BY <1>2 DEF Init
  <2> QED
    BY <1>2, <2>1, <2>2, <2>3, <2>4 DEF Init, Typing, Args
<1>4. NoThread \notin Threads
  BY MsanConstants
<1>5. Control
  BY <1>4, NoBytes DEF Init, Control, Locked
<1> QED
  BY <1>3, <1>5

LEMMA NextTypes == Typing /\ Control /\ [Next]_vars => Typing' /\ Control'
<1> SUFFICES ASSUME Typing, Control, [Next]_vars PROVE Typing' /\ Control'
  OBVIOUS
<1>1. CASE UNCHANGED vars
  BY <1>1 DEF vars, runtime, Typing, Control
<1>2. ASSUME NEW t \in Threads, Program(t) PROVE Typing' /\ Control'
  BY <1>2, MoveTypes, HookTypes, ChainTypes DEF Program, Hook
<1>3. ASSUME NEW t \in Threads, Step(t) PROVE Typing' /\ Control'
  BY <1>3, MoveTypes, MapTypes, WriteTypes, CheckTypes, AcquireTypes, PrintOriginTypes, AbortTypes,
     TakeIdTypes, RecordTypes, CopyTypes DEF Step
<1> QED
  BY <1>1, <1>2, <1>3 DEF Next

LEMMA TypingIsTypeOK == Typing /\ Control => TypeOK
<1> SUFFICES ASSUME Typing, Control PROVE TypeOK
  OBVIOUS
<1>1. \A t \in Threads : \A i \in DOMAIN todo[t] : CellsOf(todo[t][i]) \subseteq Cells
  <2> SUFFICES ASSUME NEW t \in Threads, NEW i \in DOMAIN todo[t] PROVE CellsOf(todo[t][i]) \subseteq Cells
    OBVIOUS
  <2>1. todo[t] \in Seq(Stores)
    BY DEF Typing
  <2>2. todo[t][i] \in Stores
    BY <2>1, LenProperties
  <2> QED
    BY <2>2, StoreCells
<1>2. \A t \in Threads : {arg[t].id, arg[t].parent} \subseteq 0 .. MaxOrigins - 1
  BY DEF Typing, Id
<1> QED
  BY <1>1, <1>2 DEF TypeOK, Typing, Control, Where, Locked, Id

\* Every store stays in the two windows and every identifier in the table of
\* records, however many threads pass its end at once; msan_lock is held exactly
\* while a report is printed or a stack copied.
THEOREM TypeCorrect == Spec => []TypeOK
  BY InitTypes, NextTypes, TypingIsTypeOK, PTL DEF Spec

---------------------------------------------------------------------------------
(* The counter.                                                             *)

LEMMA CounterInitially == Init => CounterBounded
<1> SUFFICES ASSUME Init PROVE CounterBounded
  OBVIOUS
<1> DEFINE W == {t \in Threads : pc[t] = "wrap"}
<1>1. W = {}
  BY DEF Init
<1>2. Cardinality(W) = 0
  BY <1>1, FS_EmptySet
<1>3. counter = 1
  BY DEF Init
<1>4. CounterBounded <=> counter < MaxOrigins + Cardinality(W)
  BY DEF CounterBounded
<1> HIDE DEF W
<1> QED
  BY <1>2, <1>3, <1>4, IdFacts

LEMMA CounterInductive == Typing /\ Control /\ CounterBounded /\ [Next]_vars => CounterBounded'
<1> SUFFICES ASSUME Typing, Control, CounterBounded, [Next]_vars PROVE CounterBounded'
  OBVIOUS
<1> DEFINE W == {t \in Threads : pc[t] = "wrap"}
<1>1. IsFiniteSet(W) /\ Cardinality(W) \in Nat
  BY MsanConstants, FS_Subset, FS_CardinalityType
<1>2. counter < MaxOrigins + Cardinality(W) /\ counter \in Nat /\ MaxOrigins \in Nat /\ MaxOrigins >= 3
  BY IdFacts DEF CounterBounded, Typing
<1>3. CASE UNCHANGED counter /\ (\A t \in Threads : pc'[t] = "wrap" <=> pc[t] = "wrap")
  <2>1. W' = W
    BY <1>3
  <2> QED
    BY <1>3, <2>1 DEF CounterBounded
<1>4. ASSUME NEW t \in Threads, TakeId(t) PROVE CounterBounded'
  <2>1. PICK id \in Id \ {0}, where \in {"wrap", "fill"} :
           /\ pc[t] = "add" /\ pc' = [pc EXCEPT ![t] = where]
           /\ counter' = counter + 1 /\ arg' = [arg EXCEPT ![t].id = id]
           /\ wrapped' \in BOOLEAN /\ (wrapped => wrapped')
           /\ where = "fill" => id = counter + 1 /\ counter + 1 < MaxOrigins
           /\ where = "wrap" => counter + 1 >= MaxOrigins /\ wrapped'
           /\ UNCHANGED <<msan_initialized, mapped, mem, origins, lock, todo, asked, known>>
    BY <1>4, TakeIdFacts, Zenon
  <2>2. CASE where = "wrap"
    <3>1. W' = W \cup {t} /\ t \notin W
      BY <2>1, <2>2 DEF Typing
    <3>2. Cardinality(W') = Cardinality(W) + 1
      BY <1>1, <3>1, FS_AddElement
    <3> QED
      BY <1>1, <1>2, <2>1, <3>2 DEF CounterBounded
  <2>3. CASE where = "fill"
    <3>1. W' = W
      BY <2>1, <2>3 DEF Typing
    <3> QED
      BY <1>1, <1>2, <2>1, <2>3, <3>1 DEF CounterBounded
  <2> QED
    BY <2>2, <2>3
<1>5. ASSUME NEW t \in Threads, Wrap(t) PROVE CounterBounded'
  <2>1. W' \subseteq W
    BY <1>5 DEF Wrap, Goto, Typing
  <2>2. Cardinality(W') \in Nat
    BY <1>1, <2>1, FS_Subset, FS_CardinalityType
  <2>3. counter' = 2
    BY <1>5 DEF Wrap
  <2> QED
    BY <1>2, <2>2, <2>3 DEF CounterBounded
<1>6. ASSUME NEW t \in Threads, NEW r \in Ranges, Hook(t, r)
      PROVE  UNCHANGED counter /\ (\A u \in Threads : pc'[u] = "wrap" <=> pc[u] = "wrap")
  <2>1. PICK where \in {"write", "check"}, stores \in Seq(Stores) :
          Enter(t, r, where, stores) /\ (where = "check" => stores = <<>>)
    BY <1>6, HookEnters, Zenon
  <2>2. pc[t] = "run" /\ pc' = [pc EXCEPT ![t] = where] /\ UNCHANGED counter
    BY <2>1, EnterFacts
  <2> QED
    BY <2>2 DEF Typing
<1>7. ASSUME NEW t \in Threads,
             \/ __msan_init(t) \/ __msan_warning_noreturn(t)
             \/ (\E o \in Seeds \cup Stored : __msan_chain_origin(t, o))
             \/ Exchange(t) \/ MapShadow(t) \/ MapOrigin(t) \/ Write(t)
             \/ Acquire(t) \/ Hang(t) \/ PrintOrigin(t) \/ PrintStack(t) \/ Abort(t)
             \/ Activate(t) \/ Capture(t) \/ CopyStack(t)
      PROVE  UNCHANGED counter /\ (\A u \in Threads : pc'[u] = "wrap" <=> pc[u] = "wrap")
  <2>1. UNCHANGED counter /\ pc[t] # "wrap"
    BY <1>7 DEF __msan_init, __msan_warning_noreturn, __msan_chain_origin, Exchange, MapShadow,
       MapOrigin, Write, Fault, Acquire, Hang, PrintOrigin, PrintStack, Abort, Activate, Capture, CopyStack
  <2>2. pc' = pc \/ \E where \in Where \ {"wrap"} : pc' = [pc EXCEPT ![t] = where]
    BY <1>7 DEF __msan_init, __msan_warning_noreturn, __msan_chain_origin, Exchange, MapShadow,
       MapOrigin, Write, Fault, Acquire, Hang, PrintOrigin, PrintStack, Abort, Activate, Capture,
       CopyStack, Goto, Return, Where
  <2> QED
    BY <2>1, <2>2 DEF Typing
<1>8. ASSUME NEW t \in Threads, CheckByte(t)
      PROVE  UNCHANGED counter /\ (\A u \in Threads : pc'[u] = "wrap" <=> pc[u] = "wrap")
  BY <1>8, CheckFacts DEF Typing
<1>9. CASE UNCHANGED vars
  BY <1>3, <1>9 DEF vars, runtime
<1> HIDE DEF W
<1> QED
  BY <1>3, <1>4, <1>5, <1>6, <1>7, <1>8, <1>9 DEF Next, Program, Step, Hook

\* msan_origin_counter is never further past the end of the table than there are
\* threads that have still to set it back: it cannot overflow, however many add
\* to it at once.
THEOREM CounterStaysBounded == Spec => []CounterBounded
  BY InitTypes, NextTypes, CounterInitially, CounterInductive, PTL DEF Spec

---------------------------------------------------------------------------------
(* What has still to be stored.                                             *)

\* No two threads are at work on one byte.
Exclusive ==
  \A t, u \in Threads : t # u => BytesOf(arg[t]) \cap BytesOf(arg[u]) = {}

\* A store that has still to be made is what the program last asked for.
Meant(w, a, wish) ==
  \/ w = ShadowStore(a, IF wish.bad THEN Uninitialized ELSE 0)
  \/ w = OriginStore(a, wish.origin)

AsAsked(t) == \A i \in DOMAIN todo[t] : \E a \in BytesOf(arg[t]) : Meant(todo[t][i], a, asked[a])

Pending == \A t \in Threads : AsAsked(t)

(* The steps that neither begin a hook nor store.                           *)
Quiet(t) ==
  \/ __msan_init(t) \/ __msan_warning_noreturn(t)
  \/ (\E o \in Seeds \cup Stored : __msan_chain_origin(t, o))
  \/ Exchange(t) \/ MapShadow(t) \/ MapOrigin(t) \/ CheckByte(t)
  \/ Acquire(t) \/ Hang(t) \/ PrintOrigin(t) \/ PrintStack(t) \/ Abort(t)
  \/ TakeId(t) \/ Wrap(t) \/ Activate(t) \/ Capture(t) \/ CopyStack(t)

LEMMA NextIs ==
  ASSUME [Next]_vars
  PROVE  \/ UNCHANGED vars
         \/ \E t \in Threads : Quiet(t) \/ Write(t) \/ \E r \in Ranges : Hook(t, r)
  BY DEF Next, Program, Step, Quiet, Hook

LEMMA QuietSteps ==
  ASSUME Typing, Control, NEW t \in Threads, Quiet(t)
  PROVE  /\ UNCHANGED <<todo, asked>>
         /\ \A u \in Threads : BytesOf(arg'[u]) \subseteq BytesOf(arg[u])
         /\ \A u \in Threads : todo[u] # <<>> => arg'[u] = arg[u]
         /\ \A u \in Threads \ {t} : arg'[u] = arg[u]
<1>1. UNCHANGED <<todo, asked>>
  BY DEF Quiet, __msan_init, __msan_warning_noreturn, __msan_chain_origin, Exchange, MapShadow,
     MapOrigin, CheckByte, Fault, Acquire, Hang, PrintOrigin, PrintStack, Abort, TakeId, Wrap,
     Activate, Capture, CopyStack
<1>2. pc[t] # "write" /\ pc[t] # "fault"
  BY DEF Quiet, __msan_init, __msan_warning_noreturn, __msan_chain_origin, Exchange, MapShadow,
     MapOrigin, CheckByte, Acquire, Hang, PrintOrigin, PrintStack, Abort, TakeId, Wrap,
     Activate, Capture, CopyStack
<1>3. todo[t] = <<>>
  BY <1>2 DEF Control
<1>4. arg \in [Threads -> Args]
  BY DEF Typing, Args
<1>5. ASSUME arg' = arg \/ \E n : arg' = [arg EXCEPT ![t] = n] /\ BytesOf(n) \subseteq BytesOf(arg[t])
      PROVE  /\ \A u \in Threads : BytesOf(arg'[u]) \subseteq BytesOf(arg[u])
             /\ \A u \in Threads \ {t} : arg'[u] = arg[u]
  BY <1>4, <1>5
<1>6. CASE UNCHANGED arg
  BY <1>1, <1>6
<1>7. CASE arg' = [arg EXCEPT ![t] = NoArg]
  BY <1>1, <1>3, <1>5, <1>7, NoBytes
<1>8. CASE \E id \in Id : arg' = [arg EXCEPT ![t].id = id]
  <2>1. BytesOf(arg'[t]) = BytesOf(arg[t]) /\ \A u \in Threads \ {t} : arg'[u] = arg[u]
    BY <1>8, SetId
  <2> QED
    BY <1>1, <1>3, <2>1
<1>9. ASSUME NEW o, arg' = [arg EXCEPT ![t] = [NoArg EXCEPT !.parent = o]]
      PROVE  BytesOf([NoArg EXCEPT !.parent = o]) = {}
  <2> DEFINE n == [NoArg EXCEPT !.parent = o]
  <2>1. n.beg = 0 /\ n.size = 0
    BY DEF NoArg
  <2> HIDE DEF n
  <2>2. BytesOf(n) = {}
    BY <2>1 DEF BytesOf
  <2> QED
    BY <2>2, Zenon DEF n
<1>10. ASSUME NEW o \in Seeds \cup Stored, __msan_chain_origin(t, o)
       PROVE  \A u \in Threads : BytesOf(arg'[u]) \subseteq BytesOf(arg[u]) /\ (u # t => arg'[u] = arg[u])
  <2> DEFINE n == [NoArg EXCEPT !.parent = o]
  <2>1. arg' = [arg EXCEPT ![t] = n] /\ BytesOf(n) = {}
    BY <1>9, <1>10, Zenon DEF __msan_chain_origin
  <2> HIDE DEF n
  <2> QED
    BY <1>5, <2>1
<1>11. ASSUME CheckByte(t)
       PROVE  \A u \in Threads : BytesOf(arg'[u]) \subseteq BytesOf(arg[u]) /\ (u # t => arg'[u] = arg[u])
  <2> DEFINE n == [beg |-> arg[t].beg + 1, size |-> arg[t].size - 1, parent |-> arg[t].parent, id |-> arg[t].id]
  <2>1. arg' = arg \/ arg' = [arg EXCEPT ![t] = NoArg] \/ arg' = [arg EXCEPT ![t] = n]
    BY <1>11, CheckFacts
  <2>2. arg[t].beg \in Nat /\ arg[t].size \in Nat
    BY DEF Typing
  <2>3. BytesOf(n) \subseteq BytesOf(arg[t])
    BY <2>2 DEF BytesOf
  <2> HIDE DEF n
  <2> QED
    BY <1>5, <2>1, <2>3, NoBytes
<1>12. \/ UNCHANGED arg \/ arg' = [arg EXCEPT ![t] = NoArg] \/ (\E id \in Id : arg' = [arg EXCEPT ![t].id = id])
       \/ (\E o \in Seeds \cup Stored : __msan_chain_origin(t, o)) \/ CheckByte(t)
  <2>1. CASE TakeId(t)
    BY <2>1, TakeIdFacts
  <2>2. CASE PrintOrigin(t)
    BY <2>2, PrintOriginFacts DEF Fault
  <2>3. CASE \/ __msan_init(t) \/ __msan_warning_noreturn(t) \/ Exchange(t) \/ MapShadow(t) \/ MapOrigin(t)
             \/ Acquire(t) \/ Hang(t) \/ PrintStack(t) \/ Abort(t) \/ Wrap(t) \/ Activate(t) \/ Capture(t)
             \/ CopyStack(t)
    BY <2>3 DEF __msan_init, __msan_warning_noreturn, Exchange, MapShadow,
       MapOrigin, Acquire, Hang, PrintStack, Abort, Wrap, Activate, Capture, CopyStack, Return
  <2> QED
    BY <2>1, <2>2, <2>3 DEF Quiet
<1> QED
  BY <1>1, <1>3, <1>6, <1>7, <1>8, <1>10, <1>11, <1>12

LEMMA ExclusiveInductive == Typing /\ Control /\ Exclusive /\ [Next]_vars => Exclusive'
<1> SUFFICES ASSUME Typing, Control, Exclusive, [Next]_vars PROVE Exclusive'
  OBVIOUS
<1>1. ASSUME \A u \in Threads : BytesOf(arg'[u]) \subseteq BytesOf(arg[u]) PROVE Exclusive'
  BY <1>1 DEF Exclusive
<1>2. CASE UNCHANGED vars
  BY <1>1, <1>2 DEF vars, runtime
<1>3. ASSUME NEW t \in Threads, Quiet(t) PROVE Exclusive'
  BY <1>1, <1>3, QuietSteps
<1>4. ASSUME NEW t \in Threads, Write(t) PROVE Exclusive'
  <2>1. arg' = arg \/ arg' = [arg EXCEPT ![t] = NoArg]
    BY <1>4 DEF Write, Fault, Return
  <2>2. arg \in [Threads -> Args]
    BY DEF Typing, Args
  <2> QED
    BY <1>1, <2>1, <2>2, NoBytes
<1>5. ASSUME NEW t \in Threads, NEW r \in Ranges, Hook(t, r) PROVE Exclusive'
  <2>1. PICK where \in {"write", "check"}, stores \in Seq(Stores) :
          Enter(t, r, where, stores) /\ (where = "check" => stores = <<>>)
    BY <1>5, HookEnters, Zenon
  <2>2. BytesOf(arg'[t]) = BytesOf(r) /\ \A u \in Threads \ {t} : arg'[u] = arg[u]
    BY <2>1, EnterFacts
  <2>3. \A u \in Threads : BytesOf(arg[u]) \cap BytesOf(r) = {}
    BY <2>1, NoBytes DEF Enter, Alone, Control
  <2>4. ASSUME NEW u \in Threads, NEW w \in Threads, u # w PROVE BytesOf(arg'[u]) \cap BytesOf(arg'[w]) = {}
    BY <2>2, <2>3, <2>4 DEF Exclusive
  <2> QED
    BY <2>4, Zenon DEF Exclusive
<1> QED
  BY <1>2, <1>3, <1>4, <1>5, NextIs

(* The stores of a hook are what it asks for.                               *)
LEMMA HookStores ==
  ASSUME Typing, NEW t \in Threads, NEW r \in Ranges, Hook(t, r)
  PROVE  \A i \in DOMAIN todo'[t] : \E a \in BytesOf(r) : Meant(todo'[t][i], a, asked'[a])
<1>1. BytesOf(r) \subseteq Addrs /\ 0 \in Id
  BY RangeFacts, IdFacts
<1>2. ASSUME NEW wish, Ask(r, wish), NEW a \in BytesOf(r) PROVE asked'[a] = wish[a]
  BY <1>1, <1>2 DEF Ask
<1>3. ASSUME NEW where, NEW stores, Enter(t, r, where, stores) PROVE todo'[t] = stores
  BY <1>3, EnterFacts DEF Typing
<1>8. Booting \in BOOLEAN
  BY DEF Booting
<1>4. CASE __msan_unpoison(t, r)
  <2> DEFINE wish == [a \in Addrs |-> [bad |-> FALSE, origin |-> 0, early |-> Booting]]
             s == Fill(r, 0)
             o == FillOrigins(r, 0)
  <2>1. Ask(r, wish) /\ Enter(t, r, "write", s \o o)
    BY <1>4 DEF __msan_unpoison
  <2>2. \A a \in BytesOf(r) : wish[a].bad = FALSE /\ wish[a].origin = 0
    BY <1>1
  <2> HIDE DEF wish
  <2>3. \A a \in BytesOf(r) : asked'[a].bad = FALSE /\ asked'[a].origin = 0
    BY <1>2, <2>1, <2>2
  <2>4. s \in Seq(Stores) /\ \A i \in DOMAIN s : \E a \in BytesOf(r) : s[i] = ShadowStore(a, 0)
    <3>1. 0 \in 0 .. 255
      OBVIOUS
    <3> QED
      BY <3>1, FillStores, Zenon
  <2>7. o \in Seq(Stores) /\ \A i \in DOMAIN o : \E a \in BytesOf(r) : o[i] = OriginStore(a, 0)
    BY <1>1, FillOriginsStores, Zenon
  <2> HIDE DEF s, o
  <2>5. todo'[t] = s \o o
    BY <1>3, <2>1
  <2>6. ASSUME NEW i \in DOMAIN (s \o o)
        PROVE  \E a \in BytesOf(r) : (s \o o)[i] = ShadowStore(a, 0) \/ (s \o o)[i] = OriginStore(a, 0)
    BY <2>4, <2>7, ElementOfConcat
  <2> QED
    BY <2>3, <2>5, <2>6 DEF Meant
<1>5. CASE __msan_poison(t, r)
  <2> DEFINE wish == [a \in Addrs |-> [asked[a] EXCEPT !.bad = TRUE, !.early = @ \/ Booting]]
  <2>1. Ask(r, wish) /\ Enter(t, r, "write", Fill(r, Uninitialized))
    BY <1>5, Zenon DEF __msan_poison
  <2>2. \A a \in Addrs : /\ asked[a] \in [bad : BOOLEAN, origin : Id, early : BOOLEAN]
                         /\ asked[a].bad \in BOOLEAN /\ asked[a].origin \in Id /\ asked[a].early \in BOOLEAN
    BY DEF Typing
  <2>3. \A a \in Addrs : wish[a] \in [bad : BOOLEAN, origin : Id, early : BOOLEAN] /\ wish[a].bad
    BY <1>8, <2>2
  <2> HIDE DEF wish
  <2>4. \A a \in BytesOf(r) : asked'[a].bad
    BY <1>1, <1>2, <2>1, <2>3
  <2>5. \A i \in DOMAIN Fill(r, Uninitialized) : \E a \in BytesOf(r) :
          Fill(r, Uninitialized)[i] = ShadowStore(a, Uninitialized)
    <3>1. Uninitialized \in 0 .. 255
      BY DEF Uninitialized
    <3> QED
      BY <3>1, FillStores, Zenon
  <2> QED
    BY <1>3, <2>1, <2>4, <2>5 DEF Meant
<1>6. CASE __msan_check_mem_is_initialized(t, r)
  <2>1. todo'[t] = <<>>
    BY <1>3, <1>6 DEF __msan_check_mem_is_initialized
  <2> QED
    BY <2>1
<1>7. ASSUME NEW id \in Stored, __msan_set_origin(t, r, id)
      PROVE  \A i \in DOMAIN todo'[t] : \E a \in BytesOf(r) : todo'[t][i] = OriginStore(a, asked'[a].origin)
  <2> DEFINE wish == [a \in Addrs |-> [asked[a] EXCEPT !.origin = id, !.early = @ \/ Booting]]
  <2>1. Ask(r, wish) /\ Enter(t, r, "write", FillOrigins(r, id))
    BY <1>7, Zenon DEF __msan_set_origin
  <2>5. id \in Id
    BY MsanConstants DEF Id
  <2>2. \A a \in Addrs : /\ asked[a] \in [bad : BOOLEAN, origin : Id, early : BOOLEAN]
                         /\ asked[a].bad \in BOOLEAN /\ asked[a].origin \in Id /\ asked[a].early \in BOOLEAN
    BY DEF Typing
  <2>3. \A a \in Addrs : wish[a] \in [bad : BOOLEAN, origin : Id, early : BOOLEAN] /\ wish[a].origin = id
    BY <1>8, <2>2, <2>5
  <2> HIDE DEF wish
  <2>4. \A a \in BytesOf(r) : asked'[a].origin = id
    BY <1>1, <1>2, <2>1, <2>3
  <2>6. \A i \in DOMAIN FillOrigins(r, id) : \E a \in BytesOf(r) : FillOrigins(r, id)[i] = OriginStore(a, id)
    BY <2>5, FillOriginsStores
  <2> QED
    BY <1>3, <2>1, <2>4, <2>6
<1> QED
  BY <1>4, <1>5, <1>6, <1>7, Zenon DEF Hook, Meant

LEMMA PendingInductive == Typing /\ Control /\ Exclusive /\ Pending /\ [Next]_vars => Pending'
<1> SUFFICES ASSUME Typing, Control, Exclusive, Pending, [Next]_vars PROVE Pending'
  OBVIOUS
<1>1. CASE UNCHANGED vars
  BY <1>1 DEF vars, runtime, Pending, AsAsked
<1>2. ASSUME NEW t \in Threads, Quiet(t) PROVE Pending'
  <2>1. UNCHANGED <<todo, asked>> /\ \A u \in Threads : todo[u] # <<>> => arg'[u] = arg[u]
    BY <1>2, QuietSteps
  <2>2. \A u \in Threads : \A i \in DOMAIN todo[u] : arg'[u] = arg[u]
    BY <2>1
  <2> QED
    BY <2>1, <2>2 DEF Pending, AsAsked
<1>3. ASSUME NEW t \in Threads, Write(t) PROVE Pending'
  <2>1. CASE Fault(t, CellsOf(Head(todo[t])), "fault")
    BY <2>1 DEF Fault, Pending, AsAsked
  <2>2. CASE ~Fault(t, CellsOf(Head(todo[t])), "fault")
    <3>1. /\ todo[t] # <<>> /\ asked' = asked /\ todo' = [todo EXCEPT ![t] = Tail(todo[t])]
          /\ \/ Tail(todo[t]) = <<>> /\ arg' = [arg EXCEPT ![t] = NoArg]
             \/ arg' = arg
      BY <1>3, <2>2, WriteFacts
    <3>2. todo \in [Threads -> Seq(Stores)] /\ arg \in [Threads -> Args]
      BY DEF Typing, Args
    <3>3. \A u \in Threads \ {t} : todo'[u] = todo[u] /\ arg'[u] = arg[u]
      BY <3>1, <3>2
    <3>4. todo'[t] = Tail(todo[t]) /\ (todo'[t] # <<>> => arg'[t] = arg[t])
      BY <3>1, <3>2
    <3>5. \A i \in DOMAIN Tail(todo[t]) : \E j \in DOMAIN todo[t] : Tail(todo[t])[i] = todo[t][j]
      BY <3>1, <3>2, ElementOfTail
    <3>6. \A i \in DOMAIN todo'[t] : arg'[t] = arg[t] /\ \E j \in DOMAIN todo[t] : todo'[t][i] = todo[t][j]
      BY <3>4, <3>5
    <3>7. ASSUME NEW u \in Threads \ {t} PROVE AsAsked(u)'
      <4>1. AsAsked(u)
        BY DEF Pending
      <4> QED
        BY <3>1, <3>3, <4>1 DEF AsAsked
    <3>8. AsAsked(t)'
      <4>1. AsAsked(t)
        BY DEF Pending
      <4> QED
        BY <3>1, <3>6, <4>1 DEF AsAsked
    <3> QED
      BY <3>7, <3>8 DEF Pending
  <2> QED
    BY <2>1, <2>2
<1>4. ASSUME NEW t \in Threads, NEW r \in Ranges, Hook(t, r) PROVE Pending'
  <2>1. PICK where \in {"write", "check"}, stores \in Seq(Stores) :
          Enter(t, r, where, stores) /\ (where = "check" => stores = <<>>)
    BY <1>4, HookEnters, Zenon
  <2>2. /\ BytesOf(arg'[t]) = BytesOf(r)
        /\ \A u \in Threads \ {t} : arg'[u] = arg[u] /\ todo'[u] = todo[u]
    BY <2>1, EnterFacts
  <2>3. \A u \in Threads : BytesOf(arg[u]) \cap BytesOf(r) = {} /\ BytesOf(arg[u]) \subseteq Addrs
    BY <2>1, NoBytes DEF Enter, Alone, Control
  <2>4. \A a \in Addrs \ BytesOf(r) : asked'[a] = asked[a]
    BY <1>4, HookAsks
  <2>5. ASSUME NEW u \in Threads \ {t} PROVE AsAsked(u)'
    <3>1. ASSUME NEW i \in DOMAIN todo'[u] PROVE \E a \in BytesOf(arg'[u]) : Meant(todo'[u][i], a, asked'[a])
      <4>1. PICK a \in BytesOf(arg[u]) : Meant(todo[u][i], a, asked[a])
        BY <2>2, <3>1 DEF Pending, AsAsked
      <4>2. asked'[a] = asked[a]
        BY <2>3, <2>4
      <4> QED
        BY <2>2, <4>1, <4>2
    <3> QED
      BY <3>1 DEF AsAsked
  <2>6. AsAsked(t)'
    BY <1>4, <2>2, HookStores DEF AsAsked
  <2> QED
    BY <2>5, <2>6 DEF Pending
<1> QED
  BY <1>1, <1>2, <1>3, <1>4, NextIs

---------------------------------------------------------------------------------
(* What memory says of origins, and who is filling in a record.             *)

\* No shadow cell is an origin cell too.
Apart == \A a, b \in Addrs : Shadow(a) \notin OriginCells(b)

\* An origin in memory is one byte, of an origin that the program was given.
OriginsGiven ==
  \A a \in Addrs :
    /\ mem[Origin(a)] \in known \cup {0} /\ asked[a].origin \in known \cup {0}
    /\ \A i \in 1 .. OriginSize - 1 : mem[Origin(a) + i] = 0

Filling == {"fill", "capture", "chain", "copy"}

\* Until the table is used up, identifiers are given once; the program may have made
\* one up before.
Fresh ==
  /\ \A t \in Threads : (pc[t] = "wrap" => wrapped) /\ (pc[t] = "print_stack" => arg[t].id \in known)
  /\ ~wrapped =>
       /\ \A k \in known \ Seeds : k <= counter
       /\ \A t \in Threads : pc[t] \in Filling => arg[t].id <= counter /\ arg[t].id \notin known \ Seeds
       /\ \A t, u \in Threads : t # u /\ pc[t] \in Filling /\ pc[u] \in Filling => arg[t].id # arg[u].id

\* A store to the cell has still to be made.
Waits(c) == \E t \in Threads : \E i \in DOMAIN todo[t] : todo[t][i].cell = c

\* What was asked of an address while nothing else was being mapped is there.
Exact ==
  \A a \in Addrs : ~asked[a].early =>
    /\ Waits(Shadow(a)) \/ (mem[Shadow(a)] # 0 <=> asked[a].bad)
    /\ Waits(Origin(a)) \/ mem[Origin(a)] = asked[a].origin

\* Before the windows are mapped nothing is asked that counts.
NotYet ==
  /\ Booting => msan_initialized
  /\ Booting \/ ~msan_initialized => \A a \in Addrs : ~asked[a].early => ~asked[a].bad /\ asked[a].origin = 0

LEMMA CellsApart ==
  ASSUME Apart, NEW a \in Addrs, NEW b \in Addrs
  PROVE  /\ Shadow(a) = Shadow(b) => a = b
         /\ Shadow(a) \notin OriginCells(b) /\ Shadow(a) # Origin(b)
         /\ a # b => OriginCells(a) \cap OriginCells(b) = {} /\ Origin(a) # Origin(b)
<1>1. a \in Nat /\ b \in Nat /\ Gap \in Nat /\ OriginSize \in Nat \ {0}
  BY AddrFacts, SizeFacts
<1>2. Shadow(a) \notin OriginCells(b) /\ Shadow(a) # Origin(b)
  BY AddrFacts DEF Apart
<1>3. Shadow(a) = Shadow(b) => a = b
  BY <1>1 DEF Shadow
<1>4. ASSUME NEW x \in Nat, NEW y \in Nat, x < y PROVE OriginSize * x + OriginSize <= OriginSize * y
  <2>1. PICK d \in Nat : y = x + 1 + d
    <3>1. y - x - 1 \in Nat /\ y = x + 1 + (y - x - 1)
      BY <1>4
    <3> QED
      BY <3>1
  <2>2. OriginSize * y = OriginSize * x + OriginSize + OriginSize * d
    BY <1>1, <2>1
  <2>3. OriginSize * d \in Nat /\ OriginSize * x \in Nat
    BY <1>1
  <2> QED
    BY <1>1, <2>2, <2>3
<1>5. ASSUME a # b PROVE OriginCells(a) \cap OriginCells(b) = {}
  <2> DEFINE p == OriginSize * a
             q == OriginSize * b
  <2>1. p \in Nat /\ q \in Nat
    BY <1>1
  <2>2. p + OriginSize <= q \/ q + OriginSize <= p
    BY <1>1, <1>4, <1>5
  <2>3. OriginCells(a) = p .. p + OriginSize - 1 /\ OriginCells(b) = q .. q + OriginSize - 1
    BY DEF OriginCells, Origin
  <2> HIDE DEF p, q
  <2> QED
    BY <1>1, <2>1, <2>2, <2>3
<1> QED
  BY <1>2, <1>3, <1>5, AddrFacts

LEMMA LaterBytes ==
  ASSUME NEW a \in Addrs, NEW i \in 1 .. OriginSize - 1
  PROVE  Origin(a) + i \in OriginCells(a) /\ Origin(a) + i \in Cells /\ Origin(a) + i # Origin(a)
<1>1. Origin(a) \in Nat /\ OriginSize \in Nat \ {0} /\ OriginCells(a) \subseteq Cells
  BY AddrFacts, SizeFacts
<1> QED
  BY <1>1 DEF OriginCells

(* A store writes what was asked, at the address it is for.                 *)
LEMMA WriteEffect ==
  ASSUME Apart, Typing, Control, Pending, NEW t \in Threads, Write(t), ~Fault(t, CellsOf(Head(todo[t])), "fault")
  PROVE  \E b \in Addrs :
           \/ /\ Head(todo[t]).cell = Shadow(b) /\ (mem'[Shadow(b)] # 0 <=> asked[b].bad)
              /\ \A c \in Cells \ {Shadow(b)} : mem'[c] = mem[c]
           \/ /\ Head(todo[t]).cell = Origin(b) /\ mem'[Origin(b)] = asked[b].origin
              /\ \A i \in 1 .. OriginSize - 1 : mem'[Origin(b) + i] = 0
              /\ \A c \in Cells \ OriginCells(b) : mem'[c] = mem[c]
<1> DEFINE w == Head(todo[t])
<1>1. /\ todo[t] # <<>> /\ w \in Stores
      /\ mem' = [c \in Cells |-> IF c = w.cell THEN w.value ELSE IF c \in CellsOf(w) THEN 0 ELSE mem[c]]
  BY WriteFacts
<1>2. todo[t] \in Seq(Stores)
  BY DEF Typing
<1>3. 1 \in DOMAIN todo[t] /\ w = todo[t][1]
  BY <1>1, <1>2
<1> HIDE DEF w
<1>4. PICK b \in BytesOf(arg[t]) : Meant(w, b, asked[b])
  BY <1>3 DEF Pending, AsAsked
<1>5. b \in Addrs
  BY <1>4 DEF Control
<1>6. Shadow(b) \in Cells /\ Origin(b) \in Cells /\ Origin(b) \in OriginCells(b)
  BY <1>5, AddrFacts
<1>7. ASSUME NEW v, w = ShadowStore(b, v) PROVE mem'[Shadow(b)] = v /\ \A c \in Cells \ {Shadow(b)} : mem'[c] = mem[c]
  <2>1. w.cell = Shadow(b) /\ w.value = v /\ w.len = 1
    BY <1>7 DEF ShadowStore
  <2>2. Shadow(b) \in Int
    BY <1>5, AddrFacts, SizeFacts DEF Shadow
  <2>3. CellsOf(w) = {Shadow(b)}
    BY <2>1, <2>2 DEF CellsOf
  <2> QED
    BY <1>1, <1>6, <2>1, <2>3
<1>8. ASSUME NEW v, w = OriginStore(b, v)
      PROVE  /\ mem'[Origin(b)] = v /\ \A i \in 1 .. OriginSize - 1 : mem'[Origin(b) + i] = 0
             /\ \A c \in Cells \ OriginCells(b) : mem'[c] = mem[c]
  <2>1. w.cell = Origin(b) /\ w.value = v /\ w.len = OriginSize
    BY <1>8 DEF OriginStore
  <2>2. CellsOf(w) = OriginCells(b)
    BY <2>1 DEF CellsOf, OriginCells
  <2>3. \A i \in 1 .. OriginSize - 1 : Origin(b) + i \in OriginCells(b) /\ Origin(b) + i \in Cells /\ Origin(b) + i # Origin(b)
    BY <1>5, LaterBytes
  <2> QED
    BY <1>1, <1>6, <2>1, <2>2, <2>3
<1>9. CASE w = ShadowStore(b, IF asked[b].bad THEN Uninitialized ELSE 0)
  <2>1. mem'[Shadow(b)] # 0 <=> asked[b].bad
    BY <1>7, <1>9 DEF Uninitialized
  <2>2. w.cell = Shadow(b)
    BY <1>9 DEF ShadowStore
  <2> QED
    BY <1>5, <1>7, <1>9, <2>1, <2>2, Zenon DEF w
<1>10. CASE w = OriginStore(b, asked[b].origin)
  <2>2. w.cell = Origin(b)
    BY <1>10 DEF OriginStore
  <2> QED
    BY <1>5, <1>8, <1>10, <2>2, Zenon DEF w
<1> QED
  BY <1>4, <1>9, <1>10, Zenon DEF Meant

(* A store that is waited for is waited for until it is made.               *)
LEMMA WaitsAfterWrite ==
  ASSUME Typing, NEW t \in Threads, Write(t), ~Fault(t, CellsOf(Head(todo[t])), "fault"),
         NEW c, Waits(c), c # Head(todo[t]).cell
  PROVE  Waits(c)'
<1>1. todo[t] # <<>> /\ todo' = [todo EXCEPT ![t] = Tail(todo[t])]
  BY WriteFacts
<1>2. todo \in [Threads -> Seq(Stores)]
  BY DEF Typing
<1>0. PICK u \in Threads : \E i \in DOMAIN todo[u] : todo[u][i].cell = c
  BY DEF Waits
<1>3. PICK i \in DOMAIN todo[u] : todo[u][i].cell = c
  BY <1>0
<1>4. CASE u # t
  BY <1>1, <1>2, <1>3, <1>4 DEF Waits
<1>5. CASE u = t
  <2> DEFINE s == todo[t]
  <2>1. s \in Seq(Stores) /\ s # <<>> /\ i \in DOMAIN s /\ s[i].cell = c /\ Head(s).cell # c
    BY <1>1, <1>2, <1>3, <1>5
  <2>2. todo'[t] = Tail(s)
    BY <1>1, <1>2
  <2> HIDE DEF s
  <2>3. Len(s) \in Nat /\ DOMAIN s = 1 .. Len(s) /\ Head(s) = s[1]
    BY <2>1, ElementOfTail, LenProperties
  <2>4. i \in 2 .. Len(s)
    BY <2>1, <2>3
  <2>5. /\ Tail(s) \in Seq(Stores) /\ Len(Tail(s)) = Len(s) - 1
        /\ \A k \in 1 .. Len(Tail(s)) : Tail(s)[k] = s[k + 1]
    BY <2>1, HeadTailProperties
  <2>6. i - 1 \in DOMAIN Tail(s) /\ Tail(s)[i - 1] = s[i]
    BY <2>3, <2>4, <2>5, LenProperties
  <2> QED
    BY <2>1, <2>2, <2>6 DEF Waits
<1> QED
  BY <1>4, <1>5

(* The fills reach every byte of the range.                                 *)
LEMMA FillCovers ==
  ASSUME NEW r \in Ranges, NEW a \in BytesOf(r), NEW v
  PROVE  /\ \E i \in DOMAIN Fill(r, v) : Fill(r, v)[i].cell = Shadow(a)
         /\ \E i \in DOMAIN FillOrigins(r, v) : FillOrigins(r, v)[i].cell = Origin(a)
<1> DEFINE i == a - r.beg + 1
<1>1. r.beg \in Nat /\ r.size \in Nat
  BY RangeFacts
<1>2. i \in 1 .. r.size /\ r.beg + i - 1 = a
  BY <1>1 DEF BytesOf
<1> HIDE DEF i
<1>3. Fill(r, v)[i].cell = Shadow(a) /\ i \in DOMAIN Fill(r, v)
  BY <1>2 DEF Fill
<1>4. FillOrigins(r, v)[i].cell = Origin(a) /\ i \in DOMAIN FillOrigins(r, v)
  BY <1>2 DEF FillOrigins
<1> QED
  BY <1>3, <1>4

LEMMA ConcatCovers ==
  ASSUME NEW s \in Seq(Stores), NEW u \in Seq(Stores), NEW c,
         (\E i \in DOMAIN s : s[i].cell = c) \/ (\E i \in DOMAIN u : u[i].cell = c)
  PROVE  \E i \in DOMAIN (s \o u) : (s \o u)[i].cell = c
<1>1. Len(s) \in Nat /\ Len(u) \in Nat /\ DOMAIN s = 1 .. Len(s) /\ DOMAIN u = 1 .. Len(u)
  BY LenProperties
<1>2. s \o u \in Seq(Stores) /\ Len(s \o u) = Len(s) + Len(u)
      /\ \A k \in 1 .. Len(s) + Len(u) : (s \o u)[k] = IF k <= Len(s) THEN s[k] ELSE u[k - Len(s)]
  BY ConcatProperties
<1>3. DOMAIN (s \o u) = 1 .. Len(s) + Len(u)
  BY <1>2, LenProperties
<1>4. ASSUME NEW i \in DOMAIN s, s[i].cell = c PROVE (s \o u)[i].cell = c /\ i \in DOMAIN (s \o u)
  BY <1>1, <1>2, <1>3, <1>4
<1>5. ASSUME NEW i \in DOMAIN u, u[i].cell = c
      PROVE  (s \o u)[i + Len(s)].cell = c /\ i + Len(s) \in DOMAIN (s \o u)
  <2>1. i \in 1 .. Len(u) /\ i + Len(s) \in 1 .. Len(s) + Len(u)
    BY <1>1
  <2>2. ~(i + Len(s) <= Len(s)) /\ i + Len(s) - Len(s) = i
    BY <1>1, <2>1
  <2> QED
    BY <1>2, <1>3, <1>5, <2>1, <2>2
<1> QED
  BY <1>4, <1>5

(* What a hook asks anew it has still to store.                             *)
LEMMA HookWaits ==
  ASSUME Typing, Control, NEW t \in Threads, NEW r \in Ranges, Hook(t, r)
  PROVE  /\ \A c : Waits(c) => Waits(c)'
         /\ \A a \in BytesOf(r) :
              /\ __msan_unpoison(t, r) \/ asked'[a].bad # asked[a].bad => Waits(Shadow(a))'
              /\ __msan_unpoison(t, r) \/ asked'[a].origin # asked[a].origin => Waits(Origin(a))'
              /\ asked'[a].origin \in known \cup {0, asked[a].origin}
<1>1. BytesOf(r) \subseteq Addrs /\ 0 \in Id
  BY RangeFacts, IdFacts
<1>2. ASSUME NEW wish, Ask(r, wish), NEW a \in BytesOf(r) PROVE asked'[a] = wish[a]
  BY <1>1, <1>2 DEF Ask
<1>3. ASSUME NEW where, NEW stores, Enter(t, r, where, stores)
      PROVE  /\ todo'[t] = stores /\ todo[t] = <<>>
             /\ \A u \in Threads \ {t} : todo'[u] = todo[u]
  <2>1. todo' = [todo EXCEPT ![t] = stores] /\ pc[t] = "run" /\ \A u \in Threads \ {t} : todo'[u] = todo[u]
    BY <1>3, EnterFacts
  <2> QED
    BY <2>1 DEF Typing, Control
<1>4. ASSUME NEW where, NEW stores, Enter(t, r, where, stores), NEW c
      PROVE  /\ Waits(c) => Waits(c)'
             /\ (\E i \in DOMAIN stores : stores[i].cell = c) => Waits(c)'
  <2>1. todo'[t] = stores /\ todo[t] = <<>> /\ \A u \in Threads \ {t} : todo'[u] = todo[u]
    BY <1>3, <1>4
  <2>2. \A u \in Threads : (\E i \in DOMAIN todo[u] : todo[u][i].cell = c) => u # t
    BY <2>1
  <2> QED
    BY <2>1, <2>2 DEF Waits
<1>5. \E where, stores : Enter(t, r, where, stores)
  BY HookEnters
<1>6. \A c : Waits(c) => Waits(c)'
  BY <1>4, <1>5
<1>7. Booting \in BOOLEAN
  BY DEF Booting
<1>8. \A a \in Addrs : /\ asked[a] \in [bad : BOOLEAN, origin : Id, early : BOOLEAN]
                       /\ asked[a].bad \in BOOLEAN /\ asked[a].origin \in Id /\ asked[a].early \in BOOLEAN
  BY DEF Typing
<1> DEFINE Good(a) == /\ __msan_unpoison(t, r) \/ asked'[a].bad # asked[a].bad => Waits(Shadow(a))'
                      /\ __msan_unpoison(t, r) \/ asked'[a].origin # asked[a].origin => Waits(Origin(a))'
                      /\ asked'[a].origin \in known \cup {0, asked[a].origin}
<1>9. ASSUME __msan_unpoison(t, r), NEW a \in BytesOf(r) PROVE Good(a)
  <2> DEFINE wish == [b \in Addrs |-> [bad |-> FALSE, origin |-> 0, early |-> Booting]]
             s == Fill(r, 0)
             o == FillOrigins(r, 0)
  <2>1. Ask(r, wish) /\ Enter(t, r, "write", s \o o)
    BY <1>9 DEF __msan_unpoison
  <2>2. wish[a].origin = 0
    BY <1>1
  <2>3. s \in Seq(Stores) /\ o \in Seq(Stores)
    BY <1>1, FillStores, FillOriginsStores
  <2>4. (\E i \in DOMAIN s : s[i].cell = Shadow(a)) /\ \E i \in DOMAIN o : o[i].cell = Origin(a)
    BY FillCovers
  <2> HIDE DEF wish, s, o
  <2>6. /\ \E i \in DOMAIN (s \o o) : (s \o o)[i].cell = Shadow(a)
        /\ \E i \in DOMAIN (s \o o) : (s \o o)[i].cell = Origin(a)
    <3>1. \E i \in DOMAIN (s \o o) : (s \o o)[i].cell = Shadow(a)
      BY <2>3, <2>4, ConcatCovers, Zenon
    <3>2. \E i \in DOMAIN (s \o o) : (s \o o)[i].cell = Origin(a)
      BY <2>3, <2>4, ConcatCovers, Zenon
    <3> QED
      BY <3>1, <3>2
  <2>7. Enter(t, r, "write", s \o o)
    BY <2>1
  <2>5. Waits(Shadow(a))' /\ Waits(Origin(a))'
    <3> DEFINE q == s \o o
    <3>1. /\ Enter(t, r, "write", q)
          /\ (\E i \in DOMAIN q : q[i].cell = Shadow(a)) /\ \E i \in DOMAIN q : q[i].cell = Origin(a)
      BY <2>6, <2>7
    <3> HIDE DEF q
    <3> QED
      BY <1>4, <3>1
  <2> QED
    BY <1>2, <2>1, <2>2, <2>5
<1>10. ASSUME __msan_poison(t, r), NEW a \in BytesOf(r)
       PROVE  Waits(Shadow(a))' /\ asked'[a].origin = asked[a].origin
  <2> DEFINE wish == [b \in Addrs |-> [asked[b] EXCEPT !.bad = TRUE, !.early = @ \/ Booting]]
  <2>1. Ask(r, wish) /\ Enter(t, r, "write", Fill(r, Uninitialized))
    BY <1>10, Zenon DEF __msan_poison
  <2>2. \A b \in Addrs : wish[b] \in [bad : BOOLEAN, origin : Id, early : BOOLEAN] /\ wish[b].origin = asked[b].origin
    BY <1>7, <1>8
  <2> HIDE DEF wish
  <2>3. Waits(Shadow(a))'
    BY <1>4, <2>1, FillCovers
  <2> QED
    BY <1>1, <1>2, <2>1, <2>2, <2>3
<1>11. ASSUME NEW id \in Stored, __msan_set_origin(t, r, id), NEW a \in BytesOf(r)
       PROVE  Waits(Origin(a))' /\ asked'[a].bad = asked[a].bad /\ asked'[a].origin \in known
  <2> DEFINE wish == [b \in Addrs |-> [asked[b] EXCEPT !.origin = id, !.early = @ \/ Booting]]
  <2>1. Ask(r, wish) /\ Enter(t, r, "write", FillOrigins(r, id)) /\ id \in known
    BY <1>11, Zenon DEF __msan_set_origin
  <2>2. id \in Id
    BY MsanConstants DEF Id
  <2>3. \A b \in Addrs : wish[b] \in [bad : BOOLEAN, origin : Id, early : BOOLEAN]
                         /\ wish[b].bad = asked[b].bad /\ wish[b].origin = id
    BY <1>7, <1>8, <2>2
  <2> HIDE DEF wish
  <2>4. Waits(Origin(a))'
    BY <1>4, <2>1, FillCovers
  <2> QED
    BY <1>1, <1>2, <2>1, <2>3, <2>4
<1>12. ASSUME __msan_check_mem_is_initialized(t, r), NEW a \in BytesOf(r) PROVE asked'[a] = asked[a]
  BY <1>12 DEF __msan_check_mem_is_initialized
<1>14. ASSUME NEW a \in BytesOf(r) PROVE Good(a)
  <2>1. CASE __msan_unpoison(t, r)
    BY <1>9, <2>1
  <2>2. CASE ~__msan_unpoison(t, r)
    BY <1>10, <1>11, <1>12, <2>2 DEF Hook
  <2> QED
    BY <2>1, <2>2
<1> QED
  BY <1>6, <1>14

(* A step that neither begins a hook nor stores leaves memory alone, but    *)
(* for the one that maps a window.                                          *)
LEMMA QuietMemory ==
  ASSUME Typing, Control, NEW t \in Threads, Quiet(t)
  PROVE  /\ known \subseteq known'
         /\ mem' = mem \/ pc[t] \in {"map_shadow", "map_origin"}
         /\ \A c \in Cells : mem'[c] \in {0, mem[c]}
         /\ msan_initialized => msan_initialized'
         /\ \E where : /\ pc' = [pc EXCEPT ![t] = where] \/ pc' = pc
                       /\ where = "map_shadow" => ~msan_initialized /\ msan_initialized'
                       /\ where = "map_origin" => pc[t] = "map_shadow"
<1>1. known \subseteq known'
  BY Zenon DEF Quiet, __msan_init, __msan_warning_noreturn, __msan_chain_origin, Exchange, MapShadow,
     MapOrigin, CheckByte, Fault, Acquire, Hang, PrintOrigin, PrintStack, Abort, TakeId, Wrap,
     Activate, Capture, CopyStack
<1>2. CASE MapShadow(t) \/ MapOrigin(t)
  <2>1. mem \in [Cells -> 0 .. 255]
    BY DEF Typing
  <2>2. \A c \in Cells : mem'[c] \in {0, mem[c]}
    BY <1>2, <2>1 DEF MapShadow, MapOrigin, MapAt
  <2> QED
    BY <1>1, <1>2, <2>2 DEF MapShadow, MapOrigin, Goto
<1>3. CASE Exchange(t)
  <2>1. UNCHANGED mem /\ msan_initialized' = TRUE
        /\ pc' = [pc EXCEPT ![t] = IF msan_initialized THEN "run" ELSE "map_shadow"]
    BY <1>3 DEF Exchange, Goto
  <2>2. CASE msan_initialized
    <3>1. pc' = [pc EXCEPT ![t] = "run"]
      BY <2>1, <2>2
    <3>2. \E where : where \notin {"map_shadow", "map_origin"} /\ pc' = [pc EXCEPT ![t] = where]
      BY <3>1
    <3> QED
      BY <1>1, <2>1, <3>2
  <2>3. CASE ~msan_initialized
    <3>1. pc' = [pc EXCEPT ![t] = "map_shadow"]
      BY <2>1, <2>3
    <3> QED
      BY <1>1, <2>1, <2>3, <3>1
  <2> QED
    BY <2>2, <2>3
<1>4. CASE ~(MapShadow(t) \/ MapOrigin(t) \/ Exchange(t))
  <2>1. UNCHANGED <<mem, msan_initialized>>
    BY <1>4, Zenon DEF Quiet, __msan_init, __msan_warning_noreturn, __msan_chain_origin,
       CheckByte, Fault, Acquire, Hang, PrintOrigin, PrintStack, Abort, TakeId, Wrap,
       Activate, Capture, CopyStack
  <2>2. \/ pc' = pc
        \/ \E where \in Where \ {"map_shadow", "map_origin"} : pc' = [pc EXCEPT ![t] = where]
    BY <1>4 DEF Quiet, __msan_init, __msan_warning_noreturn, __msan_chain_origin,
       CheckByte, Fault, Acquire, Hang, PrintOrigin, PrintStack, Abort, TakeId, Wrap,
       Activate, Capture, CopyStack, Goto, Return, Where
  <2>3. \E where \in Where \ {"map_shadow", "map_origin"} : pc' = [pc EXCEPT ![t] = where] \/ pc' = pc
    <3>1. "run" \in Where \ {"map_shadow", "map_origin"}
      BY DEF Where
    <3> QED
      BY <2>2, <3>1
  <2> QED
    BY <1>1, <2>1, <2>3
<1> QED
  BY <1>2, <1>3, <1>4

LEMMA WriteQuiet ==
  ASSUME Typing, NEW t \in Threads, Write(t)
  PROVE  /\ UNCHANGED <<msan_initialized, asked, known>> /\ pc[t] = "write"
         /\ pc' = pc \/ \E where \in {"run", "fault"} : pc' = [pc EXCEPT ![t] = where]
         /\ Fault(t, CellsOf(Head(todo[t])), "fault") => UNCHANGED <<mem, todo>>
<1>1. CASE Fault(t, CellsOf(Head(todo[t])), "fault")
  BY <1>1 DEF Fault, Goto, Write
<1>2. CASE ~Fault(t, CellsOf(Head(todo[t])), "fault")
  BY <1>2, WriteFacts
<1> QED
  BY <1>1, <1>2

LEMMA HookMemory ==
  ASSUME Typing, NEW t \in Threads, NEW r \in Ranges, Hook(t, r)
  PROVE  /\ UNCHANGED <<mem, known, msan_initialized>> /\ msan_initialized /\ pc[t] = "run"
         /\ \E where \in {"write", "check"} : pc' = [pc EXCEPT ![t] = where]
<1>1. PICK where \in {"write", "check"}, stores \in Seq(Stores) :
        Enter(t, r, where, stores) /\ (where = "check" => stores = <<>>)
  BY HookEnters, Zenon
<1> QED
  BY <1>1, EnterFacts

---------------------------------------------------------------------------------
(* The invariants, step by step.                                            *)

LEMMA OriginsGivenInductive ==
  ASSUME Apart, Typing, Control, Pending, OriginsGiven, [Next]_vars
  PROVE  OriginsGiven'
<1> DEFINE Given(a) == /\ mem[Origin(a)] \in known \cup {0} /\ asked[a].origin \in known \cup {0}
                       /\ \A i \in 1 .. OriginSize - 1 : mem[Origin(a) + i] = 0
<1>1. CASE UNCHANGED vars
  BY <1>1 DEF vars, runtime, OriginsGiven
<1>2. ASSUME NEW t \in Threads, Quiet(t) PROVE OriginsGiven'
  <2>1. known \subseteq known' /\ asked' = asked /\ \A c \in Cells : mem'[c] \in {0, mem[c]}
    BY <1>2, QuietMemory, QuietSteps
  <2>2. \A a \in Addrs : Origin(a) \in Cells /\ \A i \in 1 .. OriginSize - 1 : Origin(a) + i \in Cells
    BY AddrFacts, LaterBytes
  <2> QED
    BY <2>1, <2>2 DEF OriginsGiven
<1>3. ASSUME NEW t \in Threads, Write(t) PROVE OriginsGiven'
  <2>1. UNCHANGED <<known, asked>>
    BY <1>3, WriteQuiet
  <2>2. CASE Fault(t, CellsOf(Head(todo[t])), "fault")
    BY <1>3, <2>1, <2>2, WriteQuiet DEF OriginsGiven
  <2>3. CASE ~Fault(t, CellsOf(Head(todo[t])), "fault")
    <3>1. PICK b \in Addrs :
            \/ /\ Head(todo[t]).cell = Shadow(b) /\ (mem'[Shadow(b)] # 0 <=> asked[b].bad)
               /\ \A c \in Cells \ {Shadow(b)} : mem'[c] = mem[c]
            \/ /\ Head(todo[t]).cell = Origin(b) /\ mem'[Origin(b)] = asked[b].origin
               /\ \A i \in 1 .. OriginSize - 1 : mem'[Origin(b) + i] = 0
               /\ \A c \in Cells \ OriginCells(b) : mem'[c] = mem[c]
      BY <1>3, <2>3, WriteEffect, Zenon
    <3>2. ASSUME NEW a \in Addrs PROVE Given(a)'
      <4>1. /\ mem[Origin(a)] \in known \cup {0} /\ asked[a].origin \in known \cup {0}
            /\ \A i \in 1 .. OriginSize - 1 : mem[Origin(a) + i] = 0
        BY DEF OriginsGiven
      <4>2. Origin(a) \in OriginCells(a) /\ \A i \in 1 .. OriginSize - 1 : Origin(a) + i \in OriginCells(a)
        BY AddrFacts, LaterBytes
      <4>3. OriginCells(a) \subseteq Cells /\ Shadow(b) \notin OriginCells(a)
        BY AddrFacts DEF Apart
      <4>4. CASE \A c \in OriginCells(a) : mem'[c] = mem[c]
        BY <2>1, <4>1, <4>2, <4>4
      <4>5. CASE a = b /\ ~\A c \in OriginCells(a) : mem'[c] = mem[c]
        BY <2>1, <3>1, <4>1, <4>3, <4>5
      <4>6. ASSUME a # b PROVE \A c \in OriginCells(a) : mem'[c] = mem[c]
        <5>1. OriginCells(a) \cap OriginCells(b) = {}
          BY <4>6, CellsApart
        <5> QED
          BY <3>1, <4>3, <5>1
      <4> QED
        BY <4>4, <4>5, <4>6
    <3> QED
      BY <3>2 DEF OriginsGiven
  <2> QED
    BY <2>2, <2>3
<1>4. ASSUME NEW t \in Threads, NEW r \in Ranges, Hook(t, r) PROVE OriginsGiven'
  <2>1. mem' = mem /\ known' = known
    BY <1>4, HookMemory
  <2>2. \A a \in Addrs : asked'[a].origin \in known \cup {0, asked[a].origin}
    BY <1>4, HookAsks, HookWaits
  <2> QED
    BY <2>1, <2>2 DEF OriginsGiven
<1> QED
  BY <1>1, <1>2, <1>3, <1>4, NextIs

LEMMA NotYetInductive ==
  ASSUME Typing, Control, NotYet, [Next]_vars
  PROVE  NotYet'
<1>1. CASE UNCHANGED vars
  BY <1>1 DEF vars, runtime, NotYet, Booting
<1>2. pc \in [Threads -> Where]
  BY DEF Typing
<1>3. ASSUME NEW t \in Threads, Quiet(t) PROVE NotYet'
  <2>1. asked' = asked /\ (msan_initialized => msan_initialized')
    BY <1>3, QuietMemory, QuietSteps
  <2>2. PICK where : /\ pc' = [pc EXCEPT ![t] = where] \/ pc' = pc
                     /\ where = "map_shadow" => ~msan_initialized /\ msan_initialized'
                     /\ where = "map_origin" => pc[t] = "map_shadow"
    BY <1>3, QuietMemory, Zenon
  <2>3. \A u \in Threads : pc'[u] = pc[u] \/ (u = t /\ pc'[u] = where)
    BY <1>2, <2>2
  <2>4. Booting' => Booting \/ (~msan_initialized /\ msan_initialized')
    BY <2>2, <2>3 DEF Booting
  <2> QED
    BY <2>1, <2>4 DEF NotYet
<1>4. ASSUME NEW t \in Threads, Write(t) PROVE NotYet'
  <2>1. /\ UNCHANGED <<msan_initialized, asked>> /\ pc[t] = "write"
        /\ pc' = pc \/ \E where \in {"run", "fault"} : pc' = [pc EXCEPT ![t] = where]
    BY <1>4, WriteQuiet
  <2>2. Booting' => Booting
    BY <1>2, <2>1 DEF Booting
  <2> QED
    BY <2>1, <2>2 DEF NotYet
<1>5. ASSUME NEW t \in Threads, NEW r \in Ranges, Hook(t, r) PROVE NotYet'
  <2>1. /\ msan_initialized /\ msan_initialized' = msan_initialized /\ pc[t] = "run"
        /\ \E where \in {"write", "check"} : pc' = [pc EXCEPT ![t] = where]
    BY <1>5, HookMemory
  <2>2. Booting' => Booting
    BY <1>2, <2>1 DEF Booting
  <2>3. ASSUME NEW a \in Addrs, Booting, ~asked'[a].early PROVE ~asked'[a].bad /\ asked'[a].origin = 0
    <3>1. ~asked[a].early => ~asked[a].bad /\ asked[a].origin = 0
      BY <2>3 DEF NotYet
    <3>2. CASE a \in BytesOf(r)
      <4>1. \/ ~asked'[a].bad /\ asked'[a].origin = 0
            \/ asked'[a] = asked[a]
        BY <1>5, <2>3, <3>2, HookAsks
      <4> QED
        BY <2>3, <3>1, <4>1
    <3>3. CASE a \notin BytesOf(r)
      <4>1. asked'[a] = asked[a]
        BY <1>5, <3>3, HookAsks
      <4> QED
        BY <2>3, <3>1, <4>1
    <3> QED
      BY <3>2, <3>3
  <2> QED
    BY <2>1, <2>2, <2>3 DEF NotYet
<1> QED
  BY <1>1, <1>3, <1>4, <1>5, NextIs

LEMMA ExactInductive ==
  ASSUME Apart, Typing, Control, Pending, NotYet, Exact, [Next]_vars
  PROVE  Exact'
<1> DEFINE OK(a) == ~asked[a].early =>
                      /\ Waits(Shadow(a)) \/ (mem[Shadow(a)] # 0 <=> asked[a].bad)
                      /\ Waits(Origin(a)) \/ mem[Origin(a)] = asked[a].origin
<1>1. CASE UNCHANGED vars
  BY <1>1 DEF vars, runtime, Exact, Waits
<1>2. ASSUME NEW t \in Threads, Quiet(t) PROVE Exact'
  <2>1. UNCHANGED <<todo, asked>> /\ (mem' = mem \/ pc[t] \in {"map_shadow", "map_origin"})
        /\ \A c \in Cells : mem'[c] \in {0, mem[c]}
    BY <1>2, QuietMemory, QuietSteps
  <2>2. CASE mem' = mem
    BY <2>1, <2>2 DEF Exact, Waits
  <2>3. CASE pc[t] \in {"map_shadow", "map_origin"}
    <3>1. \A a \in Addrs : ~asked[a].early => ~asked[a].bad /\ asked[a].origin = 0
      BY <2>3 DEF NotYet, Booting
    <3>2. \A a \in Addrs : mem'[Shadow(a)] \in {0, mem[Shadow(a)]} /\ mem'[Origin(a)] \in {0, mem[Origin(a)]}
      BY <2>1, AddrFacts
    <3>3. \A c : Waits(c)' <=> Waits(c)
      BY <2>1 DEF Waits
    <3> QED
      BY <2>1, <3>1, <3>2, <3>3 DEF Exact
  <2> QED
    BY <2>1, <2>2, <2>3
<1>3. ASSUME NEW t \in Threads, Write(t) PROVE Exact'
  <2>1. UNCHANGED asked
    BY <1>3, WriteQuiet
  <2>2. CASE Fault(t, CellsOf(Head(todo[t])), "fault")
    <3>1. UNCHANGED <<mem, todo>>
      BY <1>3, <2>2, WriteQuiet
    <3> QED
      BY <2>1, <3>1 DEF Exact, Waits
  <2>3. CASE ~Fault(t, CellsOf(Head(todo[t])), "fault")
    <3>1. PICK b \in Addrs :
            \/ /\ Head(todo[t]).cell = Shadow(b) /\ (mem'[Shadow(b)] # 0 <=> asked[b].bad)
               /\ \A c \in Cells \ {Shadow(b)} : mem'[c] = mem[c]
            \/ /\ Head(todo[t]).cell = Origin(b) /\ mem'[Origin(b)] = asked[b].origin
               /\ \A i \in 1 .. OriginSize - 1 : mem'[Origin(b) + i] = 0
               /\ \A c \in Cells \ OriginCells(b) : mem'[c] = mem[c]
      BY <1>3, <2>3, WriteEffect, Zenon
    <3>2. \A c : Waits(c) /\ c # Head(todo[t]).cell => Waits(c)'
      BY <1>3, <2>3, WaitsAfterWrite
    <3>3. ASSUME NEW a \in Addrs PROVE OK(a)'
      <4>1. ~asked[a].early =>
              /\ Waits(Shadow(a)) \/ (mem[Shadow(a)] # 0 <=> asked[a].bad)
              /\ Waits(Origin(a)) \/ mem[Origin(a)] = asked[a].origin
        BY DEF Exact
      <4>2. /\ Shadow(a) \in Cells /\ Origin(a) \in Cells /\ Origin(a) \in OriginCells(a)
            /\ Shadow(a) # Origin(b) /\ Shadow(b) # Origin(a) /\ Shadow(a) \notin OriginCells(b)
            /\ a # b => /\ Shadow(a) # Shadow(b) /\ Origin(a) # Origin(b)
                        /\ Origin(a) \notin OriginCells(b)
        BY AddrFacts, CellsApart
      <4>3. Waits(Shadow(a))' \/ (~Waits(Shadow(a)) /\ mem'[Shadow(a)] = mem[Shadow(a)]) \/ (mem'[Shadow(a)] # 0 <=> asked[a].bad)
        BY <3>1, <3>2, <4>2
      <4>4. Waits(Origin(a))' \/ (~Waits(Origin(a)) /\ mem'[Origin(a)] = mem[Origin(a)]) \/ mem'[Origin(a)] = asked[a].origin
        BY <3>1, <3>2, <4>2
      <4> QED
        BY <2>1, <4>1, <4>3, <4>4
    <3> QED
      BY <3>3 DEF Exact
  <2> QED
    BY <2>2, <2>3
<1>4. ASSUME NEW t \in Threads, NEW r \in Ranges, Hook(t, r) PROVE Exact'
  <2>1. mem' = mem
    BY <1>4, HookMemory
  <2>2. \A c : Waits(c) => Waits(c)'
    BY <1>4, HookWaits
  <2>3. ASSUME NEW a \in Addrs PROVE OK(a)'
    <3>1. ~asked[a].early =>
            /\ Waits(Shadow(a)) \/ (mem[Shadow(a)] # 0 <=> asked[a].bad)
            /\ Waits(Origin(a)) \/ mem[Origin(a)] = asked[a].origin
      BY DEF Exact
    <3>2. CASE a \notin BytesOf(r)
      <4>1. asked'[a] = asked[a]
        BY <1>4, <3>2, HookAsks
      <4> QED
        BY <2>1, <2>2, <3>1, <4>1
    <3>3. CASE a \in BytesOf(r) /\ ~asked'[a].early
      <4>1. __msan_unpoison(t, r) \/ ~asked[a].early
        BY <1>4, <3>3, HookAsks
      <4>2. /\ __msan_unpoison(t, r) \/ asked'[a].bad # asked[a].bad => Waits(Shadow(a))'
            /\ __msan_unpoison(t, r) \/ asked'[a].origin # asked[a].origin => Waits(Origin(a))'
        BY <1>4, <3>3, HookWaits
      <4> QED
        BY <2>1, <2>2, <3>1, <4>1, <4>2
    <3> QED
      BY <3>2, <3>3
  <2> QED
    BY <2>3 DEF Exact
<1> QED
  BY <1>1, <1>2, <1>3, <1>4, NextIs

---------------------------------------------------------------------------------
(* Who is filling in a record.                                              *)

LEMMA FreshStays ==
  ASSUME Typing, Fresh, NEW t \in Threads, UNCHANGED <<known, counter, wrapped>>,
         \A u \in Threads \ {t} : pc'[u] = pc[u] /\ arg'[u] = arg[u],
         pc'[t] # "wrap", pc'[t] = "print_stack" => arg'[t].id \in known,
         pc'[t] \in Filling => pc[t] \in Filling /\ arg'[t].id = arg[t].id
  PROVE  Fresh'
<1>1. \A u \in Threads : (pc'[u] = "wrap" => wrapped') /\ (pc'[u] = "print_stack" => arg'[u].id \in known')
  BY DEF Fresh
<1>2. \A u \in Threads : pc'[u] \in Filling => pc[u] \in Filling /\ arg'[u].id = arg[u].id
  OBVIOUS
<1>3. ASSUME ~wrapped'
      PROVE  /\ \A k \in known' \ Seeds : k <= counter'
             /\ \A u \in Threads : pc'[u] \in Filling => arg'[u].id <= counter' /\ arg'[u].id \notin known' \ Seeds
             /\ \A u, w \in Threads : u # w /\ pc'[u] \in Filling /\ pc'[w] \in Filling => arg'[u].id # arg'[w].id
  BY <1>2, <1>3 DEF Fresh
<1> QED
  BY <1>1, <1>3 DEF Fresh

LEMMA FreshInductive ==
  ASSUME Typing, Control, OriginsGiven, Fresh, [Next]_vars
  PROVE  Fresh'
<1>1. CASE UNCHANGED vars
  BY <1>1 DEF vars, runtime, Fresh
<1>2. pc \in [Threads -> Where] /\ arg \in [Threads -> Args] /\ counter \in Nat /\ known \subseteq Nat
      /\ wrapped \in BOOLEAN
  BY IdFacts DEF Typing, Args
<1>3. ASSUME NEW t \in Threads, NEW r \in Ranges, Hook(t, r) PROVE Fresh'
  <2>1. PICK where \in {"write", "check"}, stores \in Seq(Stores) :
          Enter(t, r, where, stores) /\ (where = "check" => stores = <<>>)
    BY <1>3, HookEnters, Zenon
  <2>2. /\ UNCHANGED <<known, counter, wrapped>> /\ pc'[t] = where
        /\ \A u \in Threads \ {t} : pc'[u] = pc[u] /\ arg'[u] = arg[u]
    BY <1>2, <2>1, EnterFacts
  <2> QED
    BY <2>2, FreshStays DEF Filling
<1>4. ASSUME NEW t \in Threads, Write(t) PROVE Fresh'
  <2>1. /\ UNCHANGED <<known, counter, wrapped>> /\ pc'[t] \in {"write", "run", "fault"}
        /\ \A u \in Threads \ {t} : pc'[u] = pc[u] /\ arg'[u] = arg[u]
    <3>1. CASE Fault(t, CellsOf(Head(todo[t])), "fault")
      BY <1>2, <3>1 DEF Fault, Goto
    <3>2. CASE ~Fault(t, CellsOf(Head(todo[t])), "fault")
      <4>1. /\ pc[t] = "write" /\ UNCHANGED <<known, counter, wrapped>>
            /\ \/ pc' = [pc EXCEPT ![t] = "run"] /\ arg' = [arg EXCEPT ![t] = NoArg]
               \/ pc' = pc /\ arg' = arg
        BY <1>4, <3>2, WriteFacts
      <4> QED
        BY <1>2, <4>1
    <3> QED
      BY <3>1, <3>2
  <2> QED
    BY <2>1, FreshStays DEF Filling
<1>5. ASSUME NEW t \in Threads, TakeId(t) PROVE Fresh'
  <2>1. PICK id \in Id \ {0}, where \in {"wrap", "fill"} :
           /\ pc[t] = "add" /\ pc' = [pc EXCEPT ![t] = where]
           /\ counter' = counter + 1 /\ arg' = [arg EXCEPT ![t].id = id]
           /\ wrapped' \in BOOLEAN /\ (wrapped => wrapped')
           /\ where = "fill" => id = counter + 1 /\ counter + 1 < MaxOrigins
           /\ where = "wrap" => counter + 1 >= MaxOrigins /\ wrapped'
           /\ UNCHANGED <<msan_initialized, mapped, mem, origins, lock, todo, asked, known>>
    BY <1>5, TakeIdFacts, Zenon
  <2>2. arg'[t].id = id /\ \A u \in Threads \ {t} : arg'[u] = arg[u]
    BY <1>2, <2>1, SetId
  <2>3. pc'[t] = where /\ \A u \in Threads \ {t} : pc'[u] = pc[u]
    BY <1>2, <2>1
  <2>4. \A u \in Threads : (pc'[u] = "wrap" => wrapped') /\ (pc'[u] = "print_stack" => arg'[u].id \in known')
    BY <1>2, <2>1, <2>2, <2>3 DEF Fresh
  <2>5. ASSUME ~wrapped'
        PROVE  /\ \A k \in known' \ Seeds : k <= counter'
               /\ \A u \in Threads : pc'[u] \in Filling => arg'[u].id <= counter' /\ arg'[u].id \notin known' \ Seeds
               /\ \A u, w \in Threads : u # w /\ pc'[u] \in Filling /\ pc'[w] \in Filling => arg'[u].id # arg'[w].id
    <3>1. ~wrapped /\ id = counter + 1
      BY <2>1, <2>5
    <3>2. \A k \in known \ Seeds : k \in Nat /\ k <= counter
      BY <1>2, <3>1 DEF Fresh
    <3>3. \A u \in Threads : arg[u].id \in Nat
      BY IdFacts DEF Typing
    <3>4. \A u \in Threads : pc[u] \in Filling => arg[u].id <= counter /\ arg[u].id \notin known \ Seeds
      BY <3>1 DEF Fresh
    <3>5. \A u, w \in Threads : u # w /\ pc[u] \in Filling /\ pc[w] \in Filling => arg[u].id # arg[w].id
      BY <3>1 DEF Fresh
    <3>6. \A k \in known' \ Seeds : k <= counter'
      BY <1>2, <2>1, <3>2
    <3>7. \A u \in Threads : pc'[u] \in Filling => arg'[u].id <= counter' /\ arg'[u].id \notin known' \ Seeds
      BY <1>2, <2>1, <2>2, <2>3, <3>1, <3>2, <3>3, <3>4
    <3>8. \A u \in Threads \ {t} : pc'[u] \in Filling => arg'[u].id # id
      BY <1>2, <2>2, <2>3, <3>1, <3>3, <3>4
    <3> QED
      BY <2>2, <2>3, <3>5, <3>6, <3>7, <3>8
  <2> QED
    BY <2>4, <2>5 DEF Fresh
<1>6. ASSUME NEW t \in Threads, Wrap(t) PROVE Fresh'
  <2>1. pc[t] = "wrap" /\ pc' = [pc EXCEPT ![t] = "fill"] /\ UNCHANGED <<arg, known, wrapped>>
    BY <1>6 DEF Wrap, Goto
  <2> QED
    BY <1>2, <2>1 DEF Fresh
<1>7. ASSUME NEW t \in Threads, CopyStack(t) PROVE Fresh'
  <2>1. /\ pc[t] = "copy" /\ pc' = [pc EXCEPT ![t] = "run"] /\ arg' = [arg EXCEPT ![t] = NoArg]
        /\ known' = known \cup {arg[t].id} /\ UNCHANGED <<counter, wrapped>>
    BY <1>7 DEF CopyStack, Return, Goto
  <2>2. pc'[t] = "run" /\ \A u \in Threads \ {t} : pc'[u] = pc[u] /\ arg'[u] = arg[u]
    BY <1>2, <2>1
  <2> QED
    BY <2>1, <2>2 DEF Fresh, Filling
<1>8. ASSUME NEW t \in Threads, PrintOrigin(t) PROVE Fresh'
  <2>1. CASE Fault(t, OriginCells(arg[t].beg), "stuck")
    <3>1. UNCHANGED <<arg, known, counter, wrapped>> /\ pc' = [pc EXCEPT ![t] = "stuck"]
      BY <2>1 DEF Fault, Goto
    <3> QED
      BY <1>2, <3>1, FreshStays DEF Filling
  <2>2. CASE ~Fault(t, OriginCells(arg[t].beg), "stuck")
    <3>1. PICK oid \in Id, where \in {"print_stack", "printed"} :
           /\ pc[t] = "print" /\ pc' = [pc EXCEPT ![t] = where]
           /\ arg' = [arg EXCEPT ![t].id = oid]
           /\ where = "print_stack" => oid = LoadOrigin(arg[t].beg) /\ oid # 0
           /\ UNCHANGED <<msan_initialized, mapped, mem, counter, origins, lock, todo, asked, known, wrapped>>
      BY <1>8, <2>2, PrintOriginFacts, Zenon
    <3>2. arg'[t].id = oid /\ \A u \in Threads \ {t} : arg'[u] = arg[u]
      BY <1>2, <3>1, SetId
    <3>3. pc'[t] = where /\ \A u \in Threads \ {t} : pc'[u] = pc[u]
      BY <1>2, <3>1
    <3>4. arg[t].beg \in Addrs
      BY <1>8, MsanConstants DEF PrintOrigin
    <3>5. LoadOrigin(arg[t].beg) \in known \cup {0}
      BY <3>4 DEF LoadOrigin, OriginsGiven
    <3> QED
      BY <3>1, <3>2, <3>3, <3>5, FreshStays DEF Filling
  <2> QED
    BY <2>1, <2>2
<1>9. ASSUME NEW t \in Threads, CheckByte(t) PROVE Fresh'
  <2>1. UNCHANGED <<known, counter, wrapped>> /\ pc'[t] \in {"fault", "report", "run", "check"}
        /\ \A u \in Threads \ {t} : pc'[u] = pc[u]
    BY <1>2, <1>9, CheckFacts
  <2>2. \A u \in Threads \ {t} : arg'[u] = arg[u]
    BY <1>9, QuietSteps DEF Quiet
  <2> QED
    BY <2>1, <2>2, FreshStays DEF Filling
<1>10. ASSUME NEW t \in Threads, \E o \in Seeds \cup Stored : __msan_chain_origin(t, o) PROVE Fresh'
  <2>1. UNCHANGED <<known, counter, wrapped>> /\ pc' = [pc EXCEPT ![t] = "add"]
    BY <1>10 DEF __msan_chain_origin
  <2>2. \A u \in Threads \ {t} : arg'[u] = arg[u]
    BY <1>10, QuietSteps DEF Quiet
  <2> QED
    BY <1>2, <2>1, <2>2, FreshStays DEF Filling
<1>11. ASSUME NEW t \in Threads, Activate(t) \/ Capture(t) \/ Acquire(t) PROVE Fresh'
  <2>1. /\ UNCHANGED <<known, counter, wrapped, arg>>
        /\ \/ pc[t] \in Filling /\ \E where \in Filling : pc' = [pc EXCEPT ![t] = where]
           \/ pc' = [pc EXCEPT ![t] = "print"]
    BY <1>11 DEF Activate, Capture, Acquire, Goto, Filling
  <2> QED
    BY <1>2, <2>1, FreshStays DEF Filling
<1>12. ASSUME NEW t \in Threads, __msan_init(t) \/ __msan_warning_noreturn(t) \/ Exchange(t) \/ MapShadow(t)
                                 \/ MapOrigin(t) \/ Hang(t) \/ PrintStack(t) \/ Abort(t)
       PROVE  Fresh'
  <2>1. /\ UNCHANGED <<known, counter, wrapped>>
        /\ \E where \in {"init", "abort", "run", "map_shadow", "map_origin", "stuck", "printed"} :
             pc' = [pc EXCEPT ![t] = where]
    BY <1>12 DEF __msan_init, __msan_warning_noreturn, Exchange, MapShadow, MapOrigin, Hang, PrintStack, Abort, Goto
  <2>2. \A u \in Threads \ {t} : arg'[u] = arg[u]
    BY <1>12, QuietSteps DEF Quiet
  <2> QED
    BY <1>2, <2>1, <2>2, FreshStays DEF Filling
<1>13. \/ UNCHANGED vars
       \/ \E t \in Threads : Quiet(t) \/ Write(t) \/ \E r \in Ranges : Hook(t, r)
  BY NextIs
<1>14. ASSUME NEW t \in Threads, Quiet(t) PROVE Fresh'
  BY <1>5, <1>6, <1>7, <1>8, <1>9, <1>10, <1>11, <1>12, <1>14 DEF Quiet
<1> QED
  BY <1>1, <1>3, <1>4, <1>13, <1>14

---------------------------------------------------------------------------------
(* What the sanitizer promises.                                             *)

LEMMA StartIsEmpty ==
  ASSUME Init
  PROVE  /\ Exclusive /\ Pending /\ NotYet
         /\ Apart => Exact /\ OriginsGiven
         /\ Fresh
<1>1. /\ msan_initialized = FALSE /\ counter = 1 /\ known = Seeds /\ wrapped = FALSE
      /\ mem = [c \in Cells |-> 0] /\ pc = [t \in Threads |-> "run"]
      /\ todo = [t \in Threads |-> <<>>] /\ arg = [t \in Threads |-> NoArg]
      /\ asked = [a \in Addrs |-> [bad |-> FALSE, origin |-> 0, early |-> FALSE]]
  BY DEF Init
<1>2. Exclusive
  BY <1>1, NoBytes DEF Exclusive
<1>3. Pending
  BY <1>1 DEF Pending, AsAsked
<1>4. NotYet
  BY <1>1 DEF NotYet, Booting
<1>5. \A a \in Addrs : mem[Shadow(a)] = 0 /\ mem[Origin(a)] = 0 /\ ~asked[a].bad /\ asked[a].origin = 0
  BY <1>1, AddrFacts
<1>6. \A a \in Addrs : \A i \in 1 .. OriginSize - 1 : mem[Origin(a) + i] = 0
  BY <1>1, LaterBytes
<1>7. Fresh
  BY <1>1 DEF Fresh, Filling
<1> QED
  BY <1>2, <1>3, <1>4, <1>5, <1>6, <1>7 DEF Exact, OriginsGiven

LEMMA SettledIsExact ==
  ASSUME Typing, Exact, OriginsGiven, NEW a \in Addrs, Settled(a)
  PROVE  (mem[Shadow(a)] # 0 <=> asked[a].bad) /\ LoadOrigin(a) = asked[a].origin
<1>1. ~asked[a].early /\ ~Waits(Shadow(a)) /\ ~Waits(Origin(a))
  BY DEF Settled, Waits
<1>2. (mem[Shadow(a)] # 0 <=> asked[a].bad) /\ mem[Origin(a)] = asked[a].origin
  BY <1>1 DEF Exact
<1> QED
  BY <1>2 DEF OriginsGiven, LoadOrigin

(* A check steps over a byte that is 0, and reports one that is not.        *)
LEMMA CheckSteps ==
  ASSUME Typing, Control, Exact, OriginsGiven, [Next]_vars, NEW t \in Threads, pc[t] = "check"
  PROVE  /\ pc'[t] = "report" /\ Settled(arg[t].beg) => asked[arg[t].beg].bad
         /\ pc'[t] # "report" =>
              \A a \in BytesOf(arg[t]) \ BytesOf(arg'[t]) : Settled(a) => ~asked[a].bad
<1>1. pc \in [Threads -> Where] /\ arg \in [Threads -> Args] /\ arg[t].beg \in Nat /\ arg[t].size \in Nat
  BY DEF Typing, Args
<1>2. CASE pc'[t] = pc[t] /\ arg'[t] = arg[t]
  BY <1>2
<1>3. ASSUME NEW u \in Threads, u # t, Quiet(u) \/ Write(u) \/ \E r \in Ranges : Hook(u, r)
      PROVE  pc'[t] = pc[t] /\ arg'[t] = arg[t]
  <2>1. CASE Quiet(u)
    BY <1>1, <1>3, <2>1, QuietSteps, QuietMemory
  <2>2. CASE Write(u)
    <3>1. CASE Fault(u, CellsOf(Head(todo[u])), "fault")
      BY <1>1, <1>3, <3>1 DEF Fault, Goto
    <3>2. CASE ~Fault(u, CellsOf(Head(todo[u])), "fault")
      <4>1. \/ pc' = [pc EXCEPT ![u] = "run"] /\ arg' = [arg EXCEPT ![u] = NoArg]
            \/ pc' = pc /\ arg' = arg
        BY <2>2, <3>2, WriteFacts
      <4> QED
        BY <1>1, <1>3, <4>1
    <3> QED
      BY <3>1, <3>2
  <2>3. ASSUME NEW r \in Ranges, Hook(u, r) PROVE pc'[t] = pc[t] /\ arg'[t] = arg[t]
    BY <1>3, <2>3, HookEnters, EnterFacts
  <2> QED
    BY <1>3, <2>1, <2>2, <2>3
<1>4. CASE CheckByte(t)
  <2> DEFINE n == [beg |-> arg[t].beg + 1, size |-> arg[t].size - 1, parent |-> arg[t].parent, id |-> arg[t].id]
             b == arg[t].beg
  <2>1. /\ arg[t].size > 0
        /\ \/ pc'[t] = "fault" /\ arg'[t] = arg[t]
           \/ mem[Shadow(b)] # 0 /\ pc'[t] = "report"
           \/ mem[Shadow(b)] = 0 /\ arg[t].size = 1 /\ pc'[t] = "run"
           \/ mem[Shadow(b)] = 0 /\ pc'[t] = "check" /\ arg'[t] = n
    BY <1>1, <1>4, CheckFacts
  <2>2. b \in BytesOf(arg[t]) /\ BytesOf(arg[t]) \subseteq Addrs
    BY <1>1, <2>1 DEF BytesOf, Control
  <2>3. Settled(b) => (mem[Shadow(b)] # 0 <=> asked[b].bad)
    BY <2>2, SettledIsExact
  <2>4. arg[t].size = 1 => BytesOf(arg[t]) = {b}
    BY <1>1 DEF BytesOf
  <2>5. BytesOf(arg[t]) \ BytesOf(n) \subseteq {b}
    BY <1>1 DEF BytesOf
  <2> HIDE DEF n, b
  <2>6. CASE pc'[t] = "report"
    BY <2>1, <2>3, <2>6 DEF b
  <2>7. CASE pc'[t] # "report"
    BY <2>1, <2>3, <2>4, <2>5, <2>7 DEF b
  <2> QED
    BY <2>6, <2>7
<1>5. ASSUME NEW u \in Threads, Quiet(u) \/ Write(u) \/ \E r \in Ranges : Hook(u, r), ~CheckByte(t)
      PROVE  u # t
  <2>1. ASSUME NEW r \in Ranges, Hook(u, r) PROVE pc[u] = "run"
    BY <2>1, HookMemory
  <2>2. Quiet(u) /\ pc[u] = "check" => CheckByte(u)
    BY DEF Quiet, __msan_init, __msan_warning_noreturn, __msan_chain_origin, Exchange, MapShadow,
       MapOrigin, Acquire, Hang, PrintOrigin, PrintStack, Abort, TakeId, Wrap, Activate, Capture, CopyStack
  <2> QED
    BY <1>5, <2>1, <2>2, WriteQuiet
<1>6. CASE UNCHANGED vars
  BY <1>2, <1>6 DEF vars, runtime
<1> QED
  BY <1>2, <1>3, <1>4, <1>5, <1>6, NextIs

LEMMA SoundIsInvariant ==
  ASSUME Apart
  PROVE  Spec => [](Typing /\ Control /\ Exclusive /\ Pending /\ NotYet /\ Exact /\ OriginsGiven)
<1> DEFINE Sound == Typing /\ Control /\ Exclusive /\ Pending /\ NotYet /\ Exact /\ OriginsGiven
<1>1. Init => Sound
  BY InitTypes, StartIsEmpty
<1>2. Sound /\ [Next]_vars => Sound'
  BY NextTypes, ExclusiveInductive, PendingInductive, NotYetInductive, ExactInductive, OriginsGivenInductive
<1> QED
  BY <1>1, <1>2, PTL DEF Spec

(* For any number of threads and any ranges, the shadow of an address says  *)
(* what the program last asked for, if the two windows do not meet in the   *)
(* addresses that it uses.                                                  *)
THEOREM ShadowIsExact ==
  ASSUME Apart
  PROVE  Spec => []ShadowExact
<1>1. Typing /\ Exact /\ OriginsGiven => ShadowExact
  BY SettledIsExact DEF ShadowExact
<1> QED
  BY <1>1, SoundIsInvariant, PTL

(* The origin of an address is the one last set since the address was last  *)
(* initialised.                                                             *)
THEOREM OriginIsExact ==
  ASSUME Apart
  PROVE  Spec => []OriginExact
<1>1. Typing /\ Exact /\ OriginsGiven => OriginExact
  BY SettledIsExact DEF OriginExact
<1> QED
  BY <1>1, SoundIsInvariant, PTL

(* A check of a range, byte by byte while other threads run, passes over    *)
(* the initialised bytes only and reports no initialised one.               *)
THEOREM ChecksAreExact ==
  ASSUME Apart
  PROVE  Spec => CheckExact
<1> DEFINE Asked == \A t \in Threads : pc[t] = "check" =>
                      /\ pc'[t] = "report" /\ Settled(arg[t].beg) => asked[arg[t].beg].bad
                      /\ pc'[t] # "report" =>
                           \A a \in BytesOf(arg[t]) \ BytesOf(arg'[t]) : Settled(a) => ~asked[a].bad
<1>1. Typing /\ Control /\ Exact /\ OriginsGiven /\ [Next]_vars => [Asked]_vars
  BY CheckSteps
<1> QED
  BY <1>1, SoundIsInvariant, PTL DEF Spec, CheckExact

(* Until the table of records is used up, no report of an origin that the   *)
(* program was given, and did not make up itself, mentions a record that    *)
(* another thread is filling in.                                            *)
THEOREM ReportsAreNotTorn ==
  ASSUME Apart
  PROVE  Spec => []NoTornReport
<1>1. Init => Fresh
  BY StartIsEmpty
<1>2. Typing /\ Control /\ OriginsGiven /\ Fresh /\ [Next]_vars => Fresh'
  BY FreshInductive
<1>3. Fresh => NoTornReport
  BY DEF Fresh, NoTornReport, Filling
<1> QED
  BY <1>1, <1>2, <1>3, SoundIsInvariant, PTL DEF Spec
==================================================================================
