------------------------------- MODULE Cfi_proofs -------------------------------
(***************************************************************************)
(* Proofs about the internal allocator and the control flow integrity      *)
(* runtime on top of it, for every number of threads, keys and buckets and *)
(* every pool size and alignment.                                          *)
(*                                                                         *)
(* The allocator alone implements RegionAlloc.  Its invariant is that      *)
(* every block handed out ends at or below the counter, and that a thread  *)
(* about to swap has checked the capacity for the value it loaded.         *)
(*                                                                         *)
(* When the runtime shares it with other code the allocator still keeps    *)
(* its promise, and a thread that fills a new entry is the only one that   *)
(* does.  The invariant adds that the entry a thread fills is a block      *)
(* handed out since the last reset, and that no two threads have the same  *)
(* one.                                                                    *)
(*                                                                         *)
(* The lists of the hash table are proved about with the entries ranked in *)
(* the order they were filled in: next always leads to a lower rank, so    *)
(* lists end, and what a list holds after a step is what it held before,   *)
(* with a new entry put in front.                                          *)
(***************************************************************************)
EXTENDS Cfi, FiniteSetTheorems, WellFoundedInduction, TLAPS

LEMMA MultipleOf ==
  ASSUME NEW q \in Int, NEW A \in Nat \ {0}
  PROVE  (q * A) % A = 0
  OBVIOUS

LEMMA DivisionRemainder ==
  ASSUME NEW m \in Int, NEW A \in Nat \ {0}
  PROVE  /\ m \div A \in Int
         /\ (m \div A) * A <= m
         /\ m < (m \div A) * A + A
  OBVIOUS

(* Rounding up reaches the next boundary and no further. *)
LEMMA AlignUpIsNext ==
  ASSUME NEW n \in Nat
  PROVE  /\ AlignUp(n) \in Nat
         /\ n <= AlignUp(n) /\ AlignUp(n) < n + Alignment
         /\ AlignUp(n) % Alignment = 0
<1> DEFINE q == (n + Alignment - 1) \div Alignment
<1>1. Alignment \in Nat \ {0} /\ n + Alignment - 1 \in Int
  BY BumpConstants
<1>2. q \in Int /\ q * Alignment <= n + Alignment - 1 /\ n + Alignment - 1 < q * Alignment + Alignment
  BY <1>1, DivisionRemainder
<1>3. AlignUp(n) = q * Alignment
  BY DEF AlignUp
<1>4. (q * Alignment) % Alignment = 0
  BY <1>1, <1>2, MultipleOf
<1>5. q * Alignment \in Int
  BY <1>1, <1>2
<1> HIDE DEF q
<1> QED
  BY <1>1, <1>2, <1>3, <1>4, <1>5

(* The sum does not wrap for the sizes that are asked for. *)
LEMMA BumpedDoesNotWrap ==
  ASSUME NEW u \in 0 .. Pool, NEW n \in Sizes
  PROVE  Bumped(u, n) = AlignUp(u) + n /\ AlignUp(u) + n \in Nat
<1>1. u \in Nat /\ n \in Nat /\ Pool \in Nat /\ SizeMod \in Nat /\ Pool + Alignment + n < SizeMod
  BY BumpConstants
<1>2. AlignUp(u) \in Nat /\ AlignUp(u) < u + Alignment
  BY <1>1, AlignUpIsNext
<1>3. Alignment \in Nat
  BY BumpConstants
<1>4. AlignUp(u) + n < SizeMod /\ AlignUp(u) + n \in Nat
  BY <1>1, <1>2, <1>3
<1> QED
  BY <1>1, <1>4 DEF Bumped

---------------------------------------------------------------------------------
(* The inductive invariant. *)

BelowTheCounter ==
  \A b \in blocks : b.base + b.size <= used

CapacityChecked ==
  \A t \in Threads : pc[t] \in {"load", "swap"} => size[t] \in Sizes

SwapFits ==
  \A t \in Threads : pc[t] = "swap" => Bumped(old[t], size[t]) <= Pool

IInv == TypeOK /\ BelowTheCounter /\ CapacityChecked /\ SwapFits

(* A block handed out is below the counter. *)
LEMMA BlockFacts ==
  ASSUME IInv, NEW b \in blocks
  PROVE  /\ b \in [base : Nat, size : Nat] /\ b.base \in Nat /\ b.size \in Nat
         /\ b.base + b.size <= used
<1>1. b \in [base : 0 .. Pool, size : Sizes]
  BY DEF IInv, TypeOK
<1>2. b = [base |-> b.base, size |-> b.size] /\ b.base \in 0 .. Pool /\ b.size \in Sizes
  BY <1>1
<1>3. b.base \in Nat /\ b.size \in Nat
  BY <1>2, BumpConstants
<1>4. [base |-> b.base, size |-> b.size] \in [base : Nat, size : Nat]
  BY <1>3
<1>5. b.base + b.size <= used
  BY DEF IInv, BelowTheCounter
<1> QED
  BY <1>2, <1>3, <1>4, <1>5

(* What a swap installs and hands out. *)
LEMMA SwapFacts ==
  ASSUME IInv, NEW t \in Threads, SwapSucceeds(t)
  PROVE  LET b == [base |-> Bumped(used, size[t]) - size[t], size |-> size[t]] IN
         /\ used' = Bumped(used, size[t])
         /\ blocks' = blocks \cup {b}
         /\ b.size \in Sizes /\ b.size \in Nat
         /\ b.base \in 0 .. Pool
         /\ b.base % Alignment = 0
         /\ used <= b.base
         /\ b.base + b.size = used' /\ used' \in 0 .. Pool
<1> DEFINE n == size[t]
<1>1. pc[t] = "swap" /\ used = old[t] /\ HandOut(t)
  BY DEF SwapSucceeds
<1>2. used \in 0 .. Pool /\ n \in Sizes
  BY <1>1 DEF IInv, TypeOK, CapacityChecked
<1>3. n \in Nat /\ Pool \in Nat
  BY <1>2, BumpConstants
<1>4. Bumped(used, n) = AlignUp(used) + n
  BY <1>2, BumpedDoesNotWrap
<1>5. AlignUp(used) \in Nat /\ used <= AlignUp(used) /\ AlignUp(used) % Alignment = 0
  BY <1>2, <1>3, AlignUpIsNext
<1>6. Bumped(used, n) <= Pool
  BY <1>1 DEF IInv, SwapFits
<1>7. Bumped(used, n) - n = AlignUp(used)
  BY <1>3, <1>4, <1>5
<1>8. used' = Bumped(used, n) /\ blocks' = blocks \cup {[base |-> Bumped(used, n) - n, size |-> n]}
  BY <1>1 DEF HandOut
<1>9. AlignUp(used) \in 0 .. Pool /\ Bumped(used, n) \in 0 .. Pool
  BY <1>3, <1>4, <1>5, <1>6
<1> QED
  BY <1>2, <1>3, <1>4, <1>5, <1>7, <1>8, <1>9

LEMMA Initially == Init => IInv
  BY BumpConstants DEF Init, IInv, TypeOK, BelowTheCounter, CapacityChecked, SwapFits

LEMMA Inductive == IInv /\ [Next]_vars => IInv'
<1> SUFFICES ASSUME IInv, [Next]_vars PROVE IInv'
  OBVIOUS
<1> USE BumpConstants
<1>1. CASE UNCHANGED vars
  BY <1>1 DEF vars, IInv, TypeOK, BelowTheCounter, CapacityChecked, SwapFits, Bumped, AlignUp
<1>2. ASSUME NEW t \in Threads, NEW n \in Sizes, drt_internal_alloc(t, n) PROVE IInv'
  BY <1>2 DEF drt_internal_alloc, IInv, TypeOK, BelowTheCounter, CapacityChecked, SwapFits, Bumped, AlignUp
<1>3. ASSUME NEW t \in Threads, LoadFits(t) PROVE IInv'
  <2>1. TypeOK' /\ BelowTheCounter'
    BY <1>3 DEF LoadFits, IInv, TypeOK, BelowTheCounter
  <2>2. CapacityChecked'
    BY <1>3 DEF LoadFits, IInv, TypeOK, CapacityChecked
  <2>3. SwapFits'
    BY <1>3 DEF LoadFits, IInv, TypeOK, SwapFits, Bumped, AlignUp
  <2> QED
    BY <2>1, <2>2, <2>3 DEF IInv
<1>4. ASSUME NEW t \in Threads, OutOfMemory(t) PROVE IInv'
  BY <1>4 DEF OutOfMemory, IInv, TypeOK, BelowTheCounter, CapacityChecked, SwapFits, Bumped, AlignUp
<1>5. ASSUME NEW t \in Threads, SwapSucceeds(t) PROVE IInv'
  <2>1. TypeOK'
    <3> DEFINE b == [base |-> Bumped(used, size[t]) - size[t], size |-> size[t]]
    <3>1. used' \in 0 .. Pool /\ blocks' = blocks \cup {b}
          /\ b.base \in 0 .. Pool /\ b.size \in Sizes
      BY <1>5, SwapFacts
    <3>2. b \in [base : 0 .. Pool, size : Sizes]
      BY <3>1
    <3>3. blocks' \subseteq [base : 0 .. Pool, size : Sizes]
      BY <3>1, <3>2 DEF IInv, TypeOK
    <3>4. /\ pc' \in [Threads -> {"run", "load", "swap", "dead"}]
          /\ size' \in [Threads -> Sizes \cup {0}]
          /\ old' \in [Threads -> 0 .. Pool]
      BY <1>5 DEF SwapSucceeds, HandOut, IInv, TypeOK
    <3> QED
      BY <3>1, <3>3, <3>4 DEF TypeOK
  <2>2. BelowTheCounter'
    <3>1. used <= used'
      BY <1>5, SwapFacts DEF IInv, TypeOK
    <3>2. used \in Int /\ used' \in Int
      BY <1>5, SwapFacts DEF IInv, TypeOK
    <3>3. ASSUME NEW b \in blocks PROVE b.base + b.size <= used'
      <4>1. b.base \in Nat /\ b.size \in Nat /\ b.base + b.size <= used
        BY BlockFacts
      <4> QED
        BY <4>1, <3>1, <3>2
    <3> QED
      BY <3>3, <1>5, SwapFacts DEF BelowTheCounter
  <2>3. CapacityChecked'
    BY <1>5 DEF SwapSucceeds, HandOut, IInv, TypeOK, CapacityChecked
  <2>4. SwapFits'
    BY <1>5 DEF SwapSucceeds, HandOut, IInv, TypeOK, SwapFits, Bumped, AlignUp
  <2> QED
    BY <2>1, <2>2, <2>3, <2>4 DEF IInv
<1>6. ASSUME NEW t \in Threads, SwapFails(t) PROVE IInv'
  BY <1>6 DEF SwapFails, IInv, TypeOK, BelowTheCounter, CapacityChecked, SwapFits, Bumped, AlignUp
<1>7. ASSUME NEW t \in Threads, drt_internal_alloc_reset(t) PROVE IInv'
  BY <1>7 DEF drt_internal_alloc_reset, IInv, TypeOK, BelowTheCounter, CapacityChecked, SwapFits, Bumped, AlignUp
<1> QED
  BY <1>1, <1>2, <1>3, <1>4, <1>5, <1>6, <1>7 DEF Next, Step

---------------------------------------------------------------------------------

\* The counter never leaves the pool and no block passed its end, however
\* allocations and resets interleave.
THEOREM TypeCorrect == Spec => []TypeOK
<1>1. IInv => TypeOK
  BY DEF IInv
<1> QED
  BY Initially, Inductive, <1>1, PTL DEF Spec

(* A block above the counter shares no byte with a block below it. *)
LEMMA AboveIsDisjoint ==
  ASSUME NEW b \in [base : Nat, size : Nat], NEW c \in [base : Nat, size : Nat],
         c.base + c.size <= b.base
  PROVE  Region!Bytes(b) \cap Region!Bytes(c) = {}
  BY DEF Region!Bytes

(* Every step of the allocator is one of RegionAlloc or invisible in it. *)
LEMMA BumpStepsAreRegionSteps == IInv /\ [Next]_vars => [Region!Next]_blocks
<1> SUFFICES ASSUME IInv, [Next]_vars PROVE Region!Next \/ blocks' = blocks
  OBVIOUS
<1>1. ASSUME NEW t \in Threads, SwapSucceeds(t) PROVE Region!Next
  <2> DEFINE b == [base |-> Bumped(used, size[t]) - size[t], size |-> size[t]]
  <2>1. /\ blocks' = blocks \cup {b}
        /\ b.base \in 0 .. Pool /\ b.size \in Nat /\ b.base % Alignment = 0
        /\ used <= b.base /\ b.base + b.size <= Pool
    BY <1>1, SwapFacts
  <2>2. b \in Region!Block
    BY <2>1, BumpConstants DEF Region!Block
  <2>3. ASSUME NEW c \in blocks PROVE Region!Bytes(b) \cap Region!Bytes(c) = {}
    <3>1. c \in [base : Nat, size : Nat] /\ c.base \in Nat /\ c.size \in Nat
          /\ c.base + c.size <= used
      BY BlockFacts
    <3>2. b \in [base : Nat, size : Nat] /\ used \in Nat
      BY <2>1, BumpConstants DEF IInv, TypeOK
    <3>3. c.base + c.size <= b.base
      BY <3>1, <3>2, <2>1
    <3> QED
      BY <3>1, <3>2, <3>3, AboveIsDisjoint
  <2> HIDE DEF b
  <2>4. Region!Allocate
    BY <2>1, <2>2, <2>3 DEF Region!Allocate
  <2> QED
    BY <2>4 DEF Region!Next
<1>2. ASSUME NEW t \in Threads, drt_internal_alloc_reset(t) PROVE Region!Next
  BY <1>2 DEF drt_internal_alloc_reset, Region!Next, Region!Reset
<1> QED
  BY <1>1, <1>2 DEF Next, Step, vars, drt_internal_alloc, LoadFits, OutOfMemory, SwapFails

\* drt_internal_alloc with drt_internal_alloc_reset implements RegionAlloc: a
\* block is aligned, in the pool, and disjoint from every block handed out
\* since the last reset; every other step of the loop is invisible.
THEOREM BumpIsRegionAlloc == Spec => ImplementsRegionAlloc
<1>1. Init => Region!Init
  BY DEF Init, Region!Init
<1> QED
  BY <1>1, BumpStepsAreRegionSteps, Initially, Inductive, PTL
  DEF Spec, ImplementsRegionAlloc, Region!Spec

---------------------------------------------------------------------------------
(* No space is lost. *)

(* The padding before a block is less than the alignment.                   *)
LEMMA PaddingIsSmall ==
  ASSUME IInv, NEW t \in Threads, SwapSucceeds(t)
  PROVE  LET b == [base |-> Bumped(used, size[t]) - size[t], size |-> size[t]] IN
         b.base < used + Alignment
<1> DEFINE b == [base |-> Bumped(used, size[t]) - size[t], size |-> size[t]]
<1>1. used \in 0 .. Pool /\ size[t] \in Sizes
  BY DEF SwapSucceeds, IInv, TypeOK, CapacityChecked
<1>2. used \in Nat /\ size[t] \in Nat
  <2>1. Sizes \subseteq Nat /\ Pool \in Nat
    BY BumpConstants
  <2>2. used \in Nat
    BY <1>1, <2>1
  <2>3. size[t] \in Nat
    BY <1>1, <2>1, Zenon
  <2> QED
    BY <2>2, <2>3
<1>3. Bumped(used, size[t]) = AlignUp(used) + size[t]
  BY <1>1, BumpedDoesNotWrap
<1>4. AlignUp(used) \in Nat /\ AlignUp(used) < used + Alignment
  BY <1>2, AlignUpIsNext
<1>5. Bumped(used, size[t]) - size[t] = AlignUp(used)
  BY <1>2, <1>3, <1>4
<1>6. b.base < used + Alignment
  BY <1>4, <1>5
<1> QED
  BY <1>6

(* The block a swap hands out follows the one that ends at the counter.     *)
LEMMA SwapLeavesNoGap ==
  ASSUME IInv, NoSpaceLost, NEW t \in Threads, SwapSucceeds(t)
  PROVE  NoSpaceLost'
<1> DEFINE n == [base |-> Bumped(used, size[t]) - size[t], size |-> size[t]]
           Follows(b, S) == \E c \in S \ {b} :
             c.base + c.size <= b.base /\ b.base < c.base + c.size + Alignment
<1>1. /\ blocks' = blocks \cup {n} /\ n.base + n.size = used'
      /\ used <= n.base /\ n.base < used + Alignment
  BY SwapFacts, PaddingIsSmall
<1> HIDE DEF n
<1>2. \A b \in blocks : b.base < Alignment \/ Follows(b, blocks')
  BY <1>1 DEF NoSpaceLost
<1>3. n.base < Alignment \/ Follows(n, blocks')
  <2>1. CASE n \in blocks
    BY <1>2, <2>1
  <2>2. CASE used = 0
    BY <1>1, <2>2, BumpConstants
  <2>3. CASE n \notin blocks /\ used # 0
    <3>1. PICK c \in blocks : c.base + c.size = used
      BY <2>3 DEF NoSpaceLost
    <3> QED
      BY <1>1, <2>3, <3>1
  <2> QED
    BY <2>1, <2>2, <2>3
<1>4. \E b \in blocks' : b.base + b.size = used'
  BY <1>1
<1>5. \A b \in blocks' : b.base < Alignment \/ Follows(b, blocks')
  BY <1>1, <1>2, <1>3
<1> QED
  BY <1>4, <1>5, Zenon DEF NoSpaceLost

LEMMA NextLeavesNoGap == IInv /\ NoSpaceLost /\ [Next]_vars => NoSpaceLost'
<1> SUFFICES ASSUME IInv, NoSpaceLost, [Next]_vars PROVE NoSpaceLost'
  OBVIOUS
<1>1. CASE UNCHANGED <<used, blocks>>
  BY <1>1, Zenon DEF NoSpaceLost
<1>2. ASSUME NEW t \in Threads, SwapSucceeds(t) PROVE NoSpaceLost'
  BY <1>2, SwapLeavesNoGap
<1>3. ASSUME NEW t \in Threads, drt_internal_alloc_reset(t) PROVE NoSpaceLost'
  BY <1>3 DEF drt_internal_alloc_reset, NoSpaceLost
<1> QED
  BY <1>1, <1>2, <1>3 DEF Next, Step, vars, drt_internal_alloc, LoadFits, OutOfMemory, SwapFails

\* The pool is full of blocks and their padding up to the counter: a failed
\* swap loses no byte of it, however many threads retry.
THEOREM PoolHasNoGaps == Spec => []NoSpaceLost
<1>1. Init => NoSpaceLost
  BY DEF Init, NoSpaceLost
<1> QED
  BY <1>1, NextLeavesNoGap, Initially, Inductive, PTL DEF Spec

---------------------------------------------------------------------------------
(* The runtime and the allocator together. *)

Where == {"idle", "head", "walk", "failed", "alloc", "fill", "publish"}

Types ==
  /\ cfi_hash_table \in [Buckets -> Bases \cup {Null}]
  /\ entries \in [Bases -> [key : Keys \cup {Null}, next : Bases \cup {Null}]]
  /\ at \in [Threads -> Where]
  /\ goal \in [Threads -> {"insert", "check"}]
  /\ cursor \in [Threads -> Bases \cup {Null}]
  /\ key \in [Threads -> Keys \cup {Null}]

\* A thread in the runtime has a key; one in the allocator is there for an entry.
Calls ==
  \A t \in Threads :
    /\ at[t] # "idle" => key[t] \in Keys
    /\ at[t] = "alloc" => goal[t] = "insert" /\ size[t] = EntrySize

Owns(t) == at[t] \in {"fill", "publish"}

\* A new entry is a live block of the allocator, and its thread's own.
OwnEntries ==
  /\ \A t \in Threads : Owns(t) =>
       cursor[t] \in Bases /\ [base |-> cursor[t], size |-> EntrySize] \in blocks
  /\ \A t, u \in Threads : Owns(t) /\ Owns(u) /\ t # u => cursor[t] # cursor[u]

CInv == IInv /\ Types /\ Calls /\ OwnEntries

LEMMA CInvIsTypeOK == CInv => TypeOK /\ CfiTypeOK
  BY DEF CInv, IInv, Types, Where, Calls, OwnEntries, Owns, CfiTypeOK

LEMMA CfiInitially == CfiInit => CInv
<1> SUFFICES ASSUME CfiInit PROVE CInv
  OBVIOUS
<1>1. IInv
  BY Initially DEF CfiInit
<1>2. Types
  BY DEF CfiInit, Types, Where
<1>3. Calls /\ OwnEntries
  BY DEF CfiInit, Calls, OwnEntries, Owns
<1> QED
  BY <1>1, <1>2, <1>3 DEF CInv

(* What a step of the runtime is to the allocator: one of its own steps, a  *)
(* thread that stops, or nothing.                                           *)
Stops == \E t \in Threads : pc' = [pc EXCEPT ![t] = "dead"] /\ UNCHANGED <<used, size, old, blocks>>

LEMMA CfiStepOfAllocator ==
  ASSUME [CfiNext]_<<vars, cfivars>>
  PROVE  [Next]_vars \/ Stops
<1>1. CASE UNCHANGED <<vars, cfivars>>
  BY <1>1
<1>2. ASSUME NEW t \in Threads, CfiStep(t) PROVE Step(t) \/ Stops \/ UNCHANGED vars
  <2>1. ASSUME NEW k \in Keys, cfi_insert(t, k) \/ __cfi_slowpath(t, k) PROVE UNCHANGED vars
    BY <2>1 DEF cfi_insert, __cfi_slowpath, Begin
  <2>2. CASE __sanitizer_cfi_bad_type(t) \/ Fail(t)
    BY <2>2 DEF __sanitizer_cfi_bad_type, Fail, Stops
  <2>3. CASE OtherCode(t)
    BY <2>3 DEF OtherCode
  <2>4. CASE LookupHead(t) \/ LookupNext(t) \/ Found(t) \/ NotFoundByCheck(t) \/ FillEntry(t) \/ Publish(t)
    BY <2>4 DEF LookupHead, LookupNext, Found, NotFoundByCheck, FillEntry, Publish
  <2>5. CASE NotFoundByInsert(t)
    BY <2>5, CfiConstants DEF NotFoundByInsert, Step
  <2>6. CASE Allocating(t) \/ Allocated(t)
    BY <2>6 DEF Allocating, Allocated, Step
  <2> QED
    BY <1>2, <2>1, <2>2, <2>3, <2>4, <2>5, <2>6 DEF CfiStep
<1> QED
  BY <1>1, <1>2 DEF CfiNext, Next

LEMMA StopKeepsAllocator == IInv /\ Stops => IInv'
<1> SUFFICES ASSUME IInv, NEW t \in Threads, pc' = [pc EXCEPT ![t] = "dead"],
                    UNCHANGED <<used, size, old, blocks>>
             PROVE  IInv'
  BY DEF Stops
<1>1. TypeOK' /\ BelowTheCounter' /\ CapacityChecked'
  BY DEF IInv, TypeOK, BelowTheCounter, CapacityChecked
<1>2. SwapFits'
  BY DEF IInv, TypeOK, SwapFits, Bumped, AlignUp
<1> QED
  BY <1>1, <1>2 DEF IInv

LEMMA AllocatorInductive == IInv /\ [CfiNext]_<<vars, cfivars>> => IInv'
  BY CfiStepOfAllocator, StopKeepsAllocator, Inductive

---------------------------------------------------------------------------------
(* The types, and what a call is about. *)

(* The bucket of the key of a call has a first entry, or none. *)
LEMMA HeadOfBucket ==
  ASSUME Types, NEW k \in Keys
  PROVE  Bucket[k] \in Buckets /\ cfi_hash_table[Bucket[k]] \in Bases \cup {Null}
<1>1. Bucket[k] \in Buckets
  BY DEF Buckets
<1> QED
  BY <1>1 DEF Types

(* An entry is at the start of a block: a multiple of the alignment in the pool. *)
LEMMA NewBase ==
  ASSUME IInv, NEW t \in Threads, SwapSucceeds(t)
  PROVE  /\ used' - size[t] \in Bases /\ size[t] \in Sizes
         /\ [base |-> used' - size[t], size |-> size[t]] \in blocks'
         /\ blocks \subseteq blocks'
         /\ used <= used' - size[t]
<1> DEFINE b == [base |-> Bumped(used, size[t]) - size[t], size |-> size[t]]
<1>1. /\ used' = Bumped(used, size[t]) /\ blocks' = blocks \cup {b} /\ b.size \in Sizes
      /\ b.base \in 0 .. Pool /\ b.base % Alignment = 0 /\ used <= b.base
  BY SwapFacts
<1>2. b.base = used' - size[t] /\ b.size = size[t] /\ b = [base |-> used' - size[t], size |-> size[t]]
  BY <1>1
<1> HIDE DEF b
<1> QED
  BY <1>1, <1>2 DEF Bases

LEMMA TypesInductive == CInv /\ [CfiNext]_<<vars, cfivars>> => Types'
<1> SUFFICES ASSUME CInv, [CfiNext]_<<vars, cfivars>> PROVE Types'
  OBVIOUS
<1> USE DEF Types, Where
<1>1. CASE UNCHANGED cfivars
  BY <1>1 DEF CInv, cfivars
<1>2. ASSUME NEW t \in Threads, NEW k \in Keys, cfi_insert(t, k) \/ __cfi_slowpath(t, k) PROVE Types'
  BY <1>2 DEF CInv, cfi_insert, __cfi_slowpath, Begin
<1>3. ASSUME NEW t \in Threads, LookupHead(t) PROVE Types'
  <2>1. key[t] \in Keys
    BY <1>3 DEF CInv, Calls, LookupHead
  <2>2. cfi_hash_table[Bucket[key[t]]] \in Bases \cup {Null}
    BY <2>1, HeadOfBucket DEF CInv
  <2> QED
    BY <1>3, <2>2 DEF CInv, LookupHead
<1>4. ASSUME NEW t \in Threads, LookupNext(t) PROVE Types'
  <2>1. entries[cursor[t]].next \in Bases \cup {Null}
    BY <1>4 DEF CInv, LookupNext
  <2> QED
    BY <1>4, <2>1 DEF CInv, LookupNext
<1>5. ASSUME NEW t \in Threads, Found(t) PROVE Types'
  BY <1>5 DEF CInv, Found, Finish
<1>6. ASSUME NEW t \in Threads, NotFoundByCheck(t) PROVE Types'
  BY <1>6 DEF CInv, NotFoundByCheck
<1>7. ASSUME NEW t \in Threads, NotFoundByInsert(t) PROVE Types'
  BY <1>7 DEF CInv, NotFoundByInsert
<1>8. ASSUME NEW t \in Threads, Allocated(t) PROVE Types'
  <2>1. used' - size[t] \in Bases
    BY <1>8, NewBase DEF CInv, Allocated
  <2> QED
    BY <1>8, <2>1 DEF CInv, Allocated
<1>9. ASSUME NEW t \in Threads, FillEntry(t) PROVE Types'
  <2>1. key[t] \in Keys /\ cursor[t] \in Bases
    BY <1>9 DEF CInv, Calls, OwnEntries, Owns, FillEntry
  <2>2. cfi_hash_table[Bucket[key[t]]] \in Bases \cup {Null}
    BY <2>1, HeadOfBucket DEF CInv
  <2> DEFINE e == [key |-> key[t], next |-> cfi_hash_table[Bucket[key[t]]]]
  <2>3. e \in [key : Keys \cup {Null}, next : Bases \cup {Null}]
    BY <2>1, <2>2
  <2>4. /\ entries' = [entries EXCEPT ![cursor[t]] = e]
        /\ at' = [at EXCEPT ![t] = "publish"]
        /\ UNCHANGED <<cfi_hash_table, goal, key, cursor>>
    BY <1>9 DEF FillEntry
  <2> HIDE DEF e
  <2> QED
    BY <2>3, <2>4 DEF CInv
<1>10. ASSUME NEW t \in Threads, Publish(t) PROVE Types'
  <2>1. key[t] \in Keys /\ cursor[t] \in Bases
    BY <1>10 DEF CInv, Calls, OwnEntries, Owns, Publish
  <2> QED
    BY <1>10, <2>1 DEF CInv, Publish, Finish
<1> QED
  BY <1>1, <1>2, <1>3, <1>4, <1>5, <1>6, <1>7, <1>8, <1>9, <1>10
  DEF CfiNext, CfiStep, __sanitizer_cfi_bad_type, OtherCode, Fail, Allocating

LEMMA CallsInductive == CInv /\ [CfiNext]_<<vars, cfivars>> => Calls'
<1> SUFFICES ASSUME CInv, [CfiNext]_<<vars, cfivars>> PROVE Calls'
  OBVIOUS
<1> USE DEF CInv, Types, Calls
<1>1. CASE UNCHANGED <<vars, cfivars>>
  BY <1>1 DEF vars, cfivars
<1>2. ASSUME NEW t \in Threads, NEW k \in Keys, cfi_insert(t, k) \/ __cfi_slowpath(t, k) PROVE Calls'
  BY <1>2 DEF cfi_insert, __cfi_slowpath, Begin, vars
<1>3. ASSUME NEW t \in Threads, LookupHead(t) \/ LookupNext(t) \/ NotFoundByCheck(t) \/ FillEntry(t)
      PROVE Calls'
  BY <1>3 DEF LookupHead, LookupNext, NotFoundByCheck, FillEntry, vars
<1>4. ASSUME NEW t \in Threads, Found(t) \/ Publish(t) PROVE Calls'
  BY <1>4 DEF Found, Publish, Finish, vars
<1>5. ASSUME NEW t \in Threads, __sanitizer_cfi_bad_type(t) \/ Fail(t) PROVE Calls'
  BY <1>5 DEF __sanitizer_cfi_bad_type, Fail, cfivars
<1>6. ASSUME NEW t \in Threads, OtherCode(t) PROVE Calls'
  <2>1. \A u \in Threads : u # t => size'[u] = size[u]
    BY <1>6 DEF OtherCode, Step, drt_internal_alloc, LoadFits, OutOfMemory, SwapSucceeds, HandOut,
       SwapFails, drt_internal_alloc_reset, IInv, TypeOK
  <2> QED
    BY <1>6, <2>1 DEF OtherCode, cfivars
<1>7. ASSUME NEW t \in Threads, NotFoundByInsert(t) PROVE Calls'
  BY <1>7 DEF NotFoundByInsert, drt_internal_alloc, IInv, TypeOK
<1>8. ASSUME NEW t \in Threads, Allocating(t) PROVE Calls'
  BY <1>8 DEF Allocating, LoadFits, OutOfMemory, SwapFails, cfivars
<1>9. ASSUME NEW t \in Threads, Allocated(t) PROVE Calls'
  BY <1>9 DEF Allocated, SwapSucceeds, HandOut, IInv, TypeOK
<1> QED
  BY <1>1, <1>2, <1>3, <1>4, <1>5, <1>6, <1>7, <1>8, <1>9 DEF CfiNext, CfiStep

---------------------------------------------------------------------------------
(* An entry that is being filled belongs to one thread.                     *)

(* A step that hands out no block and starts no entry takes none away: the  *)
(* pool is reset only while there is no entry in it.                        *)
LEMMA OwnersKeepEntries ==
  ASSUME CInv, blocks \subseteq blocks',
         \A u \in Threads : Owns(u)' => Owns(u) /\ cursor'[u] = cursor[u]
  PROVE  OwnEntries'
  BY DEF CInv, OwnEntries

LEMMA NoEntryInAnEmptyPool ==
  ASSUME CInv, used = 0, NEW t \in Threads, Owns(t)
  PROVE  FALSE
<1> DEFINE b == [base |-> cursor[t], size |-> EntrySize]
<1>1. b \in blocks
  BY DEF CInv, OwnEntries
<1>2. b.base \in Nat /\ b.size \in Nat /\ b.base + b.size <= used
  BY <1>1, BlockFacts DEF CInv
<1>3. b.size = EntrySize /\ EntrySize # 0
  BY CfiConstants
<1> HIDE DEF b
<1> QED
  BY <1>2, <1>3

LEMMA ResetKeepsOwners ==
  ASSUME CInv, NEW t \in Threads, OtherCode(t), drt_internal_alloc_reset(t)
  PROVE  OwnEntries'
<1>1. used \in Nat /\ used' = 0
  BY BumpConstants DEF CInv, IInv, TypeOK, drt_internal_alloc_reset
<1>2. ASSUME NEW u \in Threads PROVE ~Owns(u)
  <2>1. CASE used = 0
    BY <2>1, NoEntryInAnEmptyPool
  <2>2. CASE used # 0
    <3>1. NoEntries
      BY <1>1, <2>2 DEF OtherCode
    <3> QED
      BY <3>1 DEF NoEntries, Owns
  <2> QED
    BY <2>1, <2>2
<1>3. \A u \in Threads : ~Owns(u)'
  BY <1>2 DEF OtherCode, cfivars, Owns
<1> QED
  BY <1>3 DEF OwnEntries

(* A new entry starts where no other entry does.                            *)
LEMMA AllocatedIsOwn ==
  ASSUME CInv, NEW t \in Threads, Allocated(t)
  PROVE  OwnEntries'
<1>1. /\ SwapSucceeds(t) /\ size[t] = EntrySize /\ at[t] = "alloc"
      /\ at' = [at EXCEPT ![t] = "fill"]
      /\ cursor' = [cursor EXCEPT ![t] = used' - size[t]]
  BY DEF Allocated, CInv, Calls
<1> DEFINE n == used' - size[t]
<1>2. /\ n \in Bases /\ blocks \subseteq blocks' /\ used <= n
      /\ [base |-> n, size |-> EntrySize] \in blocks'
  BY <1>1, NewBase DEF CInv
<1>3. cursor'[t] = n /\ \A u \in Threads \ {t} : cursor'[u] = cursor[u] /\ (Owns(u)' => Owns(u))
  BY <1>1 DEF CInv, Types, Owns
<1> HIDE DEF n
<1>4. ASSUME NEW u \in Threads, Owns(u) PROVE cursor[u] # n
  <2> DEFINE b == [base |-> cursor[u], size |-> EntrySize]
  <2>1. b \in blocks
    BY <1>4 DEF CInv, OwnEntries
  <2>2. b.base \in Nat /\ b.size \in Nat /\ b.base + b.size <= used
    BY <2>1, BlockFacts DEF CInv
  <2>3. b.size = EntrySize /\ b.base = cursor[u] /\ EntrySize # 0
    BY CfiConstants
  <2>4. used \in Nat /\ n \in Nat
    BY <1>2, BumpConstants DEF CInv, IInv, TypeOK, Bases
  <2> HIDE DEF b
  <2> QED
    BY <1>2, <2>2, <2>3, <2>4
<1>5. \A u \in Threads : Owns(u)' => cursor'[u] \in Bases /\ [base |-> cursor'[u], size |-> EntrySize] \in blocks'
  BY <1>2, <1>3 DEF CInv, OwnEntries
<1>6. \A u, w \in Threads : Owns(u)' /\ Owns(w)' /\ u # w => cursor'[u] # cursor'[w]
  BY <1>3, <1>4 DEF CInv, OwnEntries
<1> QED
  BY <1>5, <1>6 DEF OwnEntries, Owns

LEMMA OwnEntriesInductive == CInv /\ [CfiNext]_<<vars, cfivars>> => OwnEntries'
<1> SUFFICES ASSUME CInv, [CfiNext]_<<vars, cfivars>> PROVE OwnEntries'
  OBVIOUS
<1> USE DEF Owns
<1>1. CASE UNCHANGED <<vars, cfivars>>
  BY <1>1, OwnersKeepEntries DEF vars, cfivars
<1>2. ASSUME NEW t \in Threads, NEW k \in Keys, cfi_insert(t, k) \/ __cfi_slowpath(t, k) PROVE OwnEntries'
  BY <1>2, OwnersKeepEntries DEF cfi_insert, __cfi_slowpath, Begin, vars, CInv, Types
<1>3. ASSUME NEW t \in Threads, LookupHead(t) \/ LookupNext(t) \/ NotFoundByCheck(t) \/ FillEntry(t)
      PROVE OwnEntries'
  BY <1>3, OwnersKeepEntries DEF LookupHead, LookupNext, NotFoundByCheck, FillEntry, vars, CInv, Types
<1>4. ASSUME NEW t \in Threads, Found(t) \/ Publish(t) PROVE OwnEntries'
  BY <1>4, OwnersKeepEntries DEF Found, Publish, Finish, vars, CInv, Types
<1>5. ASSUME NEW t \in Threads, __sanitizer_cfi_bad_type(t) \/ Fail(t) PROVE OwnEntries'
  BY <1>5, OwnersKeepEntries DEF __sanitizer_cfi_bad_type, Fail, cfivars
<1>6. ASSUME NEW t \in Threads, OtherCode(t) PROVE OwnEntries'
  <2>1. CASE drt_internal_alloc_reset(t)
    BY <1>6, <2>1, ResetKeepsOwners
  <2>2. CASE ~drt_internal_alloc_reset(t)
    <3>1. blocks \subseteq blocks'
      BY <1>6, <2>2, NewBase DEF OtherCode, Step, drt_internal_alloc, LoadFits, OutOfMemory,
         SwapFails, CInv
    <3> QED
      BY <1>6, <3>1, OwnersKeepEntries DEF OtherCode, cfivars
  <2> QED
    BY <2>1, <2>2
<1>7. ASSUME NEW t \in Threads, NotFoundByInsert(t) PROVE OwnEntries'
  BY <1>7, OwnersKeepEntries DEF NotFoundByInsert, drt_internal_alloc, CInv, Types
<1>8. ASSUME NEW t \in Threads, Allocating(t) PROVE OwnEntries'
  BY <1>8, OwnersKeepEntries DEF Allocating, LoadFits, OutOfMemory, SwapFails, cfivars
<1>9. ASSUME NEW t \in Threads, Allocated(t) PROVE OwnEntries'
  BY <1>9, AllocatedIsOwn
<1> QED
  BY <1>1, <1>2, <1>3, <1>4, <1>5, <1>6, <1>7, <1>8, <1>9 DEF CfiNext, CfiStep

LEMMA CfiInductive == CInv /\ [CfiNext]_<<vars, cfivars>> => CInv'
  BY AllocatorInductive, TypesInductive, CallsInductive, OwnEntriesInductive DEF CInv

---------------------------------------------------------------------------------

\* However inserts, checks and other users of the allocator interleave, no two
\* threads fill the same entry of the table: the block each has taken is live
\* and its own, though cfi_lock is never taken.
THEOREM EntriesAreOwn == CfiSpec => []CfiTypeOK
  BY CfiInitially, CfiInductive, CInvIsTypeOK, PTL DEF CfiSpec

\* The counter of the allocator stays in the pool when the runtime uses it
\* beside other code.
THEOREM CfiTypeCorrect == CfiSpec => []TypeOK
  BY CfiInitially, CfiInductive, CInvIsTypeOK, PTL DEF CfiSpec

\* The allocator keeps its promise to the runtime and to other code alike: a
\* block is aligned, in the pool and disjoint from every other live one.
THEOREM CfiUsesRegionAlloc == CfiSpec => ImplementsRegionAlloc
<1>1. CfiInit => Region!Init
  BY DEF CfiInit, Init, Region!Init
<1>2. IInv /\ [CfiNext]_<<vars, cfivars>> => [Region!Next]_blocks
  <2> SUFFICES ASSUME IInv, [CfiNext]_<<vars, cfivars>> PROVE [Region!Next]_blocks
    OBVIOUS
  <2>1. CASE Stops
    BY <2>1 DEF Stops
  <2>2. CASE [Next]_vars
    BY <2>2, BumpStepsAreRegionSteps
  <2> QED
    BY <2>1, <2>2, CfiStepOfAllocator
<1>3. CInv => IInv
  BY DEF CInv
<1> QED
  BY <1>1, <1>2, <1>3, CfiInitially, CfiInductive, PTL DEF CfiSpec, ImplementsRegionAlloc, Region!Spec

\* The runtime and other code, between them, lose no byte of the pool either.
THEOREM CfiPoolHasNoGaps == CfiSpec => []NoSpaceLost
<1>1. CfiInit => NoSpaceLost
  BY DEF CfiInit, Init, NoSpaceLost
<1>2. CInv /\ NoSpaceLost /\ [CfiNext]_<<vars, cfivars>> => NoSpaceLost'
  <2>1. ASSUME NoSpaceLost, Stops PROVE NoSpaceLost'
    BY <2>1, Zenon DEF Stops, NoSpaceLost
  <2> QED
    BY <2>1, CfiStepOfAllocator, NextLeavesNoGap DEF CInv
<1> QED
  BY <1>1, <1>2, CfiInitially, CfiInductive, PTL DEF CfiSpec

---------------------------------------------------------------------------------
(* The lists.  An entry that has a key has been filled, and from then on it *)
(* neither changes nor goes back to the allocator.  What follows is about   *)
(* the memory en of entries, the present or the next.                       *)

FilledIn(en) == {e \in Bases : en[e].key # Null}
Filled == FilledIn(entries)

\* The list that begins with e has x in it; it has an entry with key k.
Leads(en, e, x) ==
  \A S \in SUBSET Bases : e \in S /\ (\A y \in S : en[y].next \in S \cup {Null}) => x \in S

Has(en, e, k) == e # Null /\ \E x \in Bases : en[x].key = k /\ Leads(en, e, x)

LEMMA NullIsNoBase == Null \notin Bases
  BY CfiConstants DEF Bases

LEMMA LeadsToItself ==
  ASSUME NEW en, NEW e
  PROVE  Leads(en, e, e)
  BY DEF Leads

LEMMA LeadsFurther ==
  ASSUME NEW en, NEW e, NEW x, Leads(en, e, x), en[x].next # Null
  PROVE  Leads(en, e, en[x].next)
  BY DEF Leads

(* What is on a list stays on it as long as the entries it could be about   *)
(* do not change.                                                           *)
LEMMA LeadsStably ==
  ASSUME NEW en, NEW fn, NEW F \in SUBSET Bases, \A y \in F : en[y].next \in F \cup {Null},
         \A y \in F : fn[y] = en[y], NEW e \in F, NEW x, Leads(en, e, x)
  PROVE  x \in F /\ Leads(fn, e, x)
<1>1. x \in F
  BY DEF Leads
<1>2. ASSUME NEW S \in SUBSET Bases, e \in S, \A y \in S : fn[y].next \in S \cup {Null}
      PROVE  x \in S
  <2> DEFINE R == S \cap F
  <2>1. R \in SUBSET Bases /\ e \in R
    BY <1>2
  <2>2. ASSUME NEW y \in R PROVE en[y].next \in R \cup {Null}
    <3>1. y \in F /\ y \in S /\ fn[y] = en[y]
      OBVIOUS
    <3>2. en[y].next \in F \cup {Null} /\ en[y].next \in S \cup {Null}
      BY <1>2, <3>1
    <3> QED
      BY <3>2
  <2>3. x \in R
    BY <2>1, <2>2, Zenon DEF Leads
  <2> QED
    BY <2>3
<1> QED
  BY <1>1, <1>2 DEF Leads

LEMMA HasStably ==
  ASSUME NEW en, NEW fn, NEW F \in SUBSET Bases, \A y \in F : en[y].next \in F \cup {Null},
         \A y \in F : fn[y] = en[y], NEW e \in F \cup {Null}, NEW k, Has(en, e, k)
  PROVE  Has(fn, e, k)
<1>1. PICK x \in Bases : en[x].key = k /\ Leads(en, e, x)
  BY DEF Has
<1>2. e \in F /\ e # Null
  BY DEF Has
<1>3. x \in F /\ Leads(fn, e, x)
  BY <1>1, <1>2, LeadsStably
<1> QED
  BY <1>1, <1>2, <1>3 DEF Has

LEMMA HasHere ==
  ASSUME NEW en, NEW e \in Bases
  PROVE  Has(en, e, en[e].key)
  BY LeadsToItself, NullIsNoBase DEF Has

LEMMA HasThrough ==
  ASSUME NEW en, NEW e \in Bases, NEW k, Has(en, en[e].next, k)
  PROVE  Has(en, e, k)
<1>1. PICK x \in Bases : en[x].key = k /\ Leads(en, en[e].next, x)
  BY DEF Has
<1>2. en[e].next # Null
  BY DEF Has
<1>3. Leads(en, e, x)
  BY <1>1, <1>2 DEF Leads
<1> QED
  BY <1>1, <1>3, NullIsNoBase DEF Has

(* A lookup that passes an entry leaves nothing it looks for behind.        *)
LEMMA HasFurther ==
  ASSUME NEW en, NEW e \in Bases, en[e].next \in Bases \cup {Null}, NEW k, Has(en, e, k), en[e].key # k
  PROVE  Has(en, en[e].next, k)
<1>1. PICK x \in Bases : en[x].key = k /\ Leads(en, e, x)
  BY DEF Has
<1>2. x # e
  BY <1>1
<1>3. ASSUME NEW S \in SUBSET Bases, en[e].next \in S \cup {Null}, \A y \in S : en[y].next \in S \cup {Null}
      PROVE  x \in S
  <2> DEFINE R == S \cup {e}
  <2>1. R \in SUBSET Bases /\ e \in R
    OBVIOUS
  <2>2. ASSUME NEW y \in R PROVE en[y].next \in R \cup {Null}
    BY <1>3
  <2>3. x \in R
    BY <1>1, <2>1, <2>2, Zenon DEF Leads
  <2> QED
    BY <1>2, <2>3
<1>4. en[e].next # Null
  <2>1. CASE en[e].next = Null
    <3>1. x \in {}
      BY <1>3, <2>1
    <3> QED
      BY <3>1
  <2> QED
    BY <2>1
<1>5. Leads(en, en[e].next, x)
  BY <1>3 DEF Leads
<1> QED
  BY <1>1, <1>4, <1>5 DEF Has

---------------------------------------------------------------------------------
(* The inductive invariant about the lists.                                 *)

Histories ==
  /\ alone \in [Threads -> BOOLEAN] /\ sure \in [Threads -> BOOLEAN]
  /\ kept \subseteq Keys

\* Heads, entries and lookups lead to filled entries; what an insert holds is
\* filled when it comes to publish it, and not before.
Linked ==
  /\ \A e \in Filled : entries[e].next \in Filled \cup {Null}
  /\ \A b \in Buckets : cfi_hash_table[b] \in Filled \cup {Null}
  /\ \A t \in Threads :
       /\ at[t] = "walk" => cursor[t] \in Filled \cup {Null}
       /\ at[t] = "fill" => goal[t] = "insert" /\ cursor[t] \notin Filled
       /\ at[t] = "publish" =>
            goal[t] = "insert" /\ cursor[t] \in Filled /\ entries[cursor[t]].key = key[t]
       /\ at[t] \in {"head", "walk", "fill", "publish"} => pc[t] = "run"
       /\ at[t] = "failed" => goal[t] = "check"

\* What is filled stays: its block is live, and the pool is not reset.
Stays ==
  /\ \A e \in Filled : [base |-> e, size |-> EntrySize] \in blocks
  /\ Filled # {} => ~NoEntries

\* No entry leads back to itself: entries come one after the other, each before
\* the one it is put in front of.
Ranked ==
  \E rank \in [Bases -> Nat] : \A e \in Filled :
    /\ rank[e] < Cardinality(Filled)
    /\ entries[e].next # Null => rank[entries[e].next] < rank[e]

InInsert(t) == at[t] # "idle" /\ pc[t] # "dead" /\ goal[t] = "insert"

\* An insert that has met no other is alone in its bucket, and where it looks
\* is on the list its bucket still has.
AloneInserts ==
  \A t \in Threads : InInsert(t) /\ alone[t] =>
    /\ \A u \in Threads \ {t} : InInsert(u) => Bucket[key[u]] # Bucket[key[t]]
    /\ at[t] = "walk" /\ cursor[t] # Null =>
         /\ cfi_hash_table[Bucket[key[t]]] # Null
         /\ Leads(entries, cfi_hash_table[Bucket[key[t]]], cursor[t])

\* A kept key is on the list of its bucket, and on each list that is about to
\* take the place of that one.
KeptListed ==
  \A k \in kept :
    /\ Has(entries, cfi_hash_table[Bucket[k]], k)
    /\ \A t \in Threads :
         at[t] = "publish" /\ Bucket[key[t]] = Bucket[k] => Has(entries, cursor[t], k)

\* A check for a key that was kept has it before it.
SureChecks ==
  \A t \in Threads : sure[t] =>
    /\ goal[t] = "check" /\ at[t] \in {"head", "walk"}
    /\ at[t] = "head" => key[t] \in kept
    /\ at[t] = "walk" => Has(entries, cursor[t], key[t])

LInv == CInv /\ Histories /\ Linked /\ Stays /\ Ranked /\ AloneInserts /\ KeptListed /\ SureChecks

LEMMA ListsInitially == CfiInit => LInv
<1> SUFFICES ASSUME CfiInit PROVE LInv
  OBVIOUS
<1>1. CInv
  BY CfiInitially
<1>2. Filled = {}
  BY DEF CfiInit, Filled, FilledIn
<1>3. Histories /\ AloneInserts /\ KeptListed /\ SureChecks
  BY DEF CfiInit, Histories, AloneInserts, InInsert, KeptListed, SureChecks
<1>4. Linked /\ Stays
  BY <1>2 DEF CfiInit, Linked, Stays
<1>5. Ranked
  <2>1. [e \in Bases |-> 0] \in [Bases -> Nat]
    OBVIOUS
  <2> QED
    BY <1>2, <2>1 DEF Ranked
<1> QED
  BY <1>1, <1>3, <1>4, <1>5 DEF LInv

(* A step that is not FillEntry leaves the entries as they are.             *)
LEMMA EntriesChange ==
  ASSUME CInv, [CfiNext]_<<vars, cfivars>>, \A t \in Threads : ~FillEntry(t)
  PROVE  entries' = entries /\ Filled' = Filled
  BY DEF cfivars, CfiNext, CfiStep, cfi_insert, __cfi_slowpath, Begin, __sanitizer_cfi_bad_type,
     OtherCode, LookupHead, LookupNext, Found, NotFoundByCheck, Fail, NotFoundByInsert,
     Allocating, Allocated, Publish, Filled

(* FillEntry adds one, which nothing leads to yet.                          *)
LEMMA FillAdds ==
  ASSUME LInv, NEW t \in Threads, FillEntry(t)
  PROVE  /\ cursor[t] \in Bases \ Filled /\ key[t] \in Keys /\ Bucket[key[t]] \in Buckets
         /\ Filled' = Filled \cup {cursor[t]}
         /\ \A e \in Filled : entries'[e] = entries[e]
         /\ entries'[cursor[t]] = [key |-> key[t], next |-> cfi_hash_table[Bucket[key[t]]]]
         /\ cfi_hash_table[Bucket[key[t]]] \in Filled \cup {Null}
<1>1. cursor[t] \in Bases \ Filled /\ key[t] \in Keys
  BY DEF LInv, CInv, Linked, OwnEntries, Owns, Calls, FillEntry
<1>2. Bucket[key[t]] \in Buckets
  BY <1>1 DEF Buckets
<1>3. cfi_hash_table[Bucket[key[t]]] \in Filled \cup {Null}
  BY <1>2 DEF LInv, Linked
<1> DEFINE n == [key |-> key[t], next |-> cfi_hash_table[Bucket[key[t]]]]
<1>4. entries' = [entries EXCEPT ![cursor[t]] = n] /\ n.key = key[t]
  BY DEF FillEntry
<1>5. n.key # Null
  BY <1>1, <1>4, CfiConstants
<1> HIDE DEF n
<1>6. /\ entries'[cursor[t]] = n
      /\ \A e \in Bases \ {cursor[t]} : entries'[e] = entries[e]
  BY <1>1, <1>4 DEF LInv, CInv, Types
<1>7. Filled' = Filled \cup {cursor[t]}
  BY <1>1, <1>5, <1>6 DEF Filled, FilledIn
<1>8. \A e \in Filled : entries'[e] = entries[e]
  BY <1>1, <1>6 DEF Filled, FilledIn
<1> QED
  BY <1>1, <1>2, <1>3, <1>6, <1>7, <1>8 DEF n

(* The pool is reset only while nothing is filled.                          *)
LEMMA ResetFindsNothingFilled ==
  ASSUME LInv, NEW t \in Threads, OtherCode(t), drt_internal_alloc_reset(t)
  PROVE  Filled = {}
<1> SUFFICES ASSUME NEW e \in Filled PROVE FALSE
  OBVIOUS
<1> DEFINE b == [base |-> e, size |-> EntrySize]
<1>1. b \in blocks
  BY DEF LInv, Stays
<1>2. b.base \in Nat /\ b.size \in Nat /\ b.base + b.size <= used
  BY <1>1, BlockFacts DEF LInv, CInv
<1>3. b.size = EntrySize /\ EntrySize # 0
  BY CfiConstants
<1>4. used \in Nat /\ used' = 0
  BY BumpConstants DEF LInv, CInv, IInv, TypeOK, drt_internal_alloc_reset
<1> HIDE DEF b
<1>5. used' < used
  BY <1>2, <1>3, <1>4
<1> QED
  BY <1>5 DEF OtherCode, LInv, Stays

LEMMA LiveBlocksStay ==
  ASSUME LInv, [CfiNext]_<<vars, cfivars>>
  PROVE  Filled = {} \/ blocks \subseteq blocks'
<1>1. CASE UNCHANGED <<vars, cfivars>>
  BY <1>1 DEF vars
<1>2. ASSUME NEW t \in Threads, OtherCode(t) PROVE Filled = {} \/ blocks \subseteq blocks'
  <2>1. CASE drt_internal_alloc_reset(t)
    BY <1>2, <2>1, ResetFindsNothingFilled
  <2>2. CASE ~drt_internal_alloc_reset(t)
    BY <1>2, <2>2, NewBase DEF OtherCode, Step, drt_internal_alloc, LoadFits, OutOfMemory,
       SwapFails, LInv, CInv
  <2> QED
    BY <2>1, <2>2
<1>3. ASSUME NEW t \in Threads, Allocated(t) PROVE blocks \subseteq blocks'
  BY <1>3, NewBase DEF Allocated, LInv, CInv
<1> QED
  BY <1>1, <1>2, <1>3 DEF CfiNext, CfiStep, vars, cfi_insert, __cfi_slowpath, Begin, __sanitizer_cfi_bad_type,
     LookupHead, LookupNext, Found, NotFoundByCheck, Fail, NotFoundByInsert, drt_internal_alloc,
     Allocating, LoadFits, OutOfMemory, SwapFails, FillEntry, Publish

LEMMA HistoriesInductive == LInv /\ [CfiNext]_<<vars, cfivars>> => Histories'
<1> SUFFICES ASSUME LInv, [CfiNext]_<<vars, cfivars>> PROVE Histories'
  OBVIOUS
<1> USE DEF LInv, CInv, Histories
<1>1. CASE UNCHANGED cfivars
  BY <1>1 DEF cfivars
<1>2. ASSUME NEW t \in Threads, NEW k \in Keys, cfi_insert(t, k) PROVE Histories'
  BY <1>2 DEF cfi_insert, Begin
<1>3. ASSUME NEW t \in Threads, NEW k \in Keys, __cfi_slowpath(t, k) PROVE Histories'
  BY <1>3 DEF __cfi_slowpath, Begin
<1>4. ASSUME NEW t \in Threads, Found(t) \/ Publish(t) PROVE Histories'
  <2>1. key[t] \in Keys
    BY <1>4 DEF Found, Publish, Calls
  <2>2. Finish(t)
    BY <1>4 DEF Found, Publish
  <2>3. kept' \subseteq Keys
    BY <2>1, <2>2 DEF Finish
  <2>4. /\ alone' \in [Threads -> BOOLEAN] /\ sure' \in [Threads -> BOOLEAN]
    BY <2>2 DEF Finish
  <2> QED
    BY <2>3, <2>4
<1> QED
  BY <1>1, <1>2, <1>3, <1>4
  DEF CfiNext, CfiStep, __sanitizer_cfi_bad_type, OtherCode, LookupHead, LookupNext, NotFoundByCheck,
      Fail, NotFoundByInsert, Allocating, Allocated, FillEntry

(* A new entry is not one that is filled: those are blocks of the pool.     *)
LEMMA NewEntryIsNotFilled ==
  ASSUME LInv, NEW t \in Threads, Allocated(t)
  PROVE  cursor'[t] \in Bases \ Filled /\ pc'[t] = "run"
<1> DEFINE n == used' - size[t]
<1>1. SwapSucceeds(t) /\ size[t] = EntrySize /\ cursor' = [cursor EXCEPT ![t] = n]
  BY DEF Allocated, LInv, CInv, Calls
<1>2. n \in Bases /\ used <= n
  BY <1>1, NewBase DEF LInv, CInv
<1>3. pc'[t] = "run" /\ cursor'[t] = n
  BY <1>1 DEF SwapSucceeds, HandOut, LInv, CInv, IInv, TypeOK, Types
<1> HIDE DEF n
<1>4. ASSUME n \in Filled PROVE FALSE
  <2> DEFINE b == [base |-> n, size |-> EntrySize]
  <2>1. b \in blocks
    BY <1>4 DEF LInv, Stays
  <2>2. b.base \in Nat /\ b.size \in Nat /\ b.base + b.size <= used
    BY <2>1, BlockFacts DEF LInv, CInv
  <2>3. b.size = EntrySize /\ b.base = n /\ EntrySize # 0
    BY CfiConstants
  <2>4. used \in Nat
    BY BumpConstants DEF LInv, CInv, IInv, TypeOK
  <2> HIDE DEF b
  <2> QED
    BY <1>2, <2>2, <2>3, <2>4
<1> QED
  BY <1>2, <1>3, <1>4

LEMMA LinkedInductive == LInv /\ [CfiNext]_<<vars, cfivars>> => Linked'
<1> SUFFICES ASSUME LInv, [CfiNext]_<<vars, cfivars>> PROVE Linked'
  OBVIOUS
<1> USE DEF LInv, CInv, Types, Histories, Linked
<1>1. ASSUME NEW t \in Threads, FillEntry(t) PROVE Linked'
  <2>1. /\ cursor[t] \in Bases \ Filled
        /\ Filled' = Filled \cup {cursor[t]}
        /\ \A e \in Filled : entries'[e] = entries[e]
        /\ entries'[cursor[t]] = [key |-> key[t], next |-> cfi_hash_table[Bucket[key[t]]]]
        /\ cfi_hash_table[Bucket[key[t]]] \in Filled \cup {Null}
    BY <1>1, FillAdds
  <2>2. \A u \in Threads : at[u] = "fill" /\ u # t => cursor[u] # cursor[t]
    BY <1>1 DEF FillEntry, OwnEntries, Owns
  <2>3. /\ at' = [at EXCEPT ![t] = "publish"] /\ at[t] = "fill"
        /\ UNCHANGED <<pc, cfi_hash_table, goal, key, cursor>>
    BY <1>1 DEF FillEntry, vars
  <2>4. \A e \in Filled' : entries'[e].next \in Filled' \cup {Null}
    BY <2>1
  <2>5. \A b \in Buckets : cfi_hash_table'[b] \in Filled' \cup {Null}
    BY <2>1, <2>3
  <2>6. ASSUME NEW u \in Threads
        PROVE  /\ at'[u] = "walk" => cursor'[u] \in Filled' \cup {Null}
               /\ at'[u] = "fill" => goal'[u] = "insert" /\ cursor'[u] \notin Filled'
               /\ at'[u] = "publish" =>
                    goal'[u] = "insert" /\ cursor'[u] \in Filled' /\ entries'[cursor'[u]].key = key'[u]
               /\ at'[u] \in {"head", "walk", "fill", "publish"} => pc'[u] = "run"
               /\ at'[u] = "failed" => goal'[u] = "check"
    <3>1. CASE u = t
      BY <2>1, <2>3, <3>1
    <3>2. CASE u # t
      BY <2>1, <2>2, <2>3, <3>2
    <3> QED
      BY <3>1, <3>2
  <2> QED
    BY <2>4, <2>5, <2>6
<1>2. CASE \A t \in Threads : ~FillEntry(t)
  <2>1. entries' = entries /\ Filled' = Filled
    BY <1>2, EntriesChange
  <2>2. CASE UNCHANGED <<vars, cfivars>>
    BY <2>1, <2>2 DEF vars, cfivars
  <2>3. ASSUME NEW t \in Threads, NEW k \in Keys, cfi_insert(t, k) \/ __cfi_slowpath(t, k) PROVE Linked'
    BY <2>1, <2>3 DEF cfi_insert, __cfi_slowpath, Begin, vars
  <2>4. ASSUME NEW t \in Threads, __sanitizer_cfi_bad_type(t) \/ Fail(t) PROVE Linked'
    BY <2>1, <2>4 DEF __sanitizer_cfi_bad_type, Fail, cfivars, IInv, TypeOK
  <2>5. ASSUME NEW t \in Threads, OtherCode(t) PROVE Linked'
    <3>1. \A u \in Threads : u # t => pc'[u] = pc[u]
      BY <2>5 DEF OtherCode, Step, drt_internal_alloc, LoadFits, OutOfMemory, SwapSucceeds, HandOut,
         SwapFails, drt_internal_alloc_reset, IInv, TypeOK
    <3> QED
      BY <2>1, <2>5, <3>1 DEF OtherCode, cfivars
  <2>6. ASSUME NEW t \in Threads, LookupHead(t) PROVE Linked'
    <3>1. cfi_hash_table[Bucket[key[t]]] \in Filled \cup {Null}
      BY <2>6 DEF LookupHead, Calls, Buckets
    <3> QED
      BY <2>1, <2>6, <3>1 DEF LookupHead, vars
  <2>7. ASSUME NEW t \in Threads, LookupNext(t) PROVE Linked'
    <3>1. entries[cursor[t]].next \in Filled \cup {Null}
      BY <2>7 DEF LookupNext
    <3> QED
      BY <2>1, <2>7, <3>1 DEF LookupNext, vars
  <2>8. ASSUME NEW t \in Threads, Found(t) PROVE Linked'
    BY <2>1, <2>8 DEF Found, Finish, vars
  <2>9. ASSUME NEW t \in Threads, NotFoundByCheck(t) PROVE Linked'
    BY <2>1, <2>9 DEF NotFoundByCheck, vars
  <2>10. ASSUME NEW t \in Threads, NotFoundByInsert(t) PROVE Linked'
    BY <2>1, <2>10 DEF NotFoundByInsert, drt_internal_alloc, IInv, TypeOK
  <2>11. ASSUME NEW t \in Threads, Allocating(t) PROVE Linked'
    BY <2>1, <2>11 DEF Allocating, LoadFits, OutOfMemory, SwapFails, IInv, TypeOK, cfivars
  <2>12. ASSUME NEW t \in Threads, Allocated(t) PROVE Linked'
    <3>1. cursor'[t] \notin Filled /\ pc'[t] = "run" /\ goal[t] = "insert"
      BY <2>12, NewEntryIsNotFilled DEF Allocated, Calls
    <3>2. \A u \in Threads : u # t => cursor'[u] = cursor[u] /\ pc'[u] = pc[u]
      BY <2>12 DEF Allocated, SwapSucceeds, HandOut, IInv, TypeOK
    <3>3. at' = [at EXCEPT ![t] = "fill"] /\ UNCHANGED <<cfi_hash_table, goal, key>>
      BY <2>12 DEF Allocated
    <3> QED
      BY <2>1, <3>1, <3>2, <3>3
  <2>13. ASSUME NEW t \in Threads, Publish(t) PROVE Linked'
    BY <2>1, <2>13 DEF Publish, Finish, vars
  <2> QED
    BY <1>2, <2>2, <2>3, <2>4, <2>5, <2>6, <2>7, <2>8, <2>9, <2>10, <2>11, <2>12, <2>13
    DEF CfiNext, CfiStep
<1> QED
  BY <1>1, <1>2

LEMMA StaysInductive == LInv /\ [CfiNext]_<<vars, cfivars>> => Stays'
<1> SUFFICES ASSUME LInv, [CfiNext]_<<vars, cfivars>> PROVE Stays'
  OBVIOUS
<1>1. ASSUME NEW t \in Threads, FillEntry(t) PROVE Stays'
  <2>1. Filled' = Filled \cup {cursor[t]}
    BY <1>1, FillAdds
  <2>2. blocks' = blocks /\ at'[t] = "publish"
    BY <1>1 DEF FillEntry, vars, LInv, CInv, Types
  <2>3. [base |-> cursor[t], size |-> EntrySize] \in blocks
    BY <1>1 DEF FillEntry, LInv, CInv, OwnEntries, Owns
  <2>4. ~NoEntries'
    BY <2>2 DEF NoEntries
  <2> QED
    BY <2>1, <2>2, <2>3, <2>4 DEF Stays, LInv
<1>2. CASE \A t \in Threads : ~FillEntry(t)
  <2>1. Filled' = Filled
    BY <1>2, EntriesChange DEF LInv
  <2>2. \A e \in Filled' : [base |-> e, size |-> EntrySize] \in blocks'
    BY <2>1, LiveBlocksStay DEF LInv, Stays
  <2>3. NoEntries' => NoEntries
    <3> USE DEF NoEntries, LInv, CInv, Types
    <3>1. ASSUME NEW t \in Threads, Publish(t) PROVE ~NoEntries'
      <4>1. cursor[t] # Null /\ Bucket[key[t]] \in Buckets
        BY <3>1, NullIsNoBase DEF Publish, OwnEntries, Owns, Calls, Buckets
      <4>2. cfi_hash_table'[Bucket[key[t]]] = cursor[t]
        BY <3>1, <4>1 DEF Publish
      <4> QED
        BY <4>1, <4>2
    <3>2. CASE UNCHANGED cfivars
      BY <3>2 DEF cfivars
    <3>3. ASSUME NEW t \in Threads, Found(t) PROVE NoEntries' => NoEntries
      BY <3>3 DEF Found, Finish
    <3> QED
      BY <1>2, <3>1, <3>2, <3>3
      DEF CfiNext, CfiStep, cfi_insert, __cfi_slowpath, Begin, __sanitizer_cfi_bad_type, OtherCode,
          LookupHead, LookupNext, NotFoundByCheck, Fail, NotFoundByInsert, Allocating, Allocated
  <2> QED
    BY <2>1, <2>2, <2>3 DEF Stays, LInv
<1> QED
  BY <1>1, <1>2

LEMMA FilledIsFinite == IsFiniteSet(Bases) /\ IsFiniteSet(Filled) /\ Cardinality(Filled) <= Cardinality(Bases)
<1>1. IsFiniteSet(0 .. Pool)
  BY BumpConstants, FS_Interval
<1>2. IsFiniteSet(Bases)
  BY <1>1, FS_Subset DEF Bases
<1> QED
  BY <1>2, FS_Subset DEF Filled, FilledIn

LEMMA RankedInductive == LInv /\ [CfiNext]_<<vars, cfivars>> => Ranked'
<1> SUFFICES ASSUME LInv, [CfiNext]_<<vars, cfivars>> PROVE Ranked'
  OBVIOUS
<1>1. ASSUME NEW t \in Threads, FillEntry(t) PROVE Ranked'
  <2>1. /\ cursor[t] \in Bases \ Filled
        /\ Filled' = Filled \cup {cursor[t]}
        /\ \A e \in Filled : entries'[e] = entries[e]
        /\ entries'[cursor[t]] = [key |-> key[t], next |-> cfi_hash_table[Bucket[key[t]]]]
        /\ cfi_hash_table[Bucket[key[t]]] \in Filled \cup {Null}
    BY <1>1, FillAdds
  <2>2. PICK rank \in [Bases -> Nat] : \A e \in Filled :
          /\ rank[e] < Cardinality(Filled)
          /\ entries[e].next # Null => rank[entries[e].next] < rank[e]
    BY DEF LInv, Ranked
  <2>3. /\ Cardinality(Filled') = Cardinality(Filled) + 1
        /\ Cardinality(Filled) \in Nat
    BY <2>1, FilledIsFinite, FS_AddElement, FS_CardinalityType
  <2> DEFINE c == Cardinality(Filled)
             r == [rank EXCEPT ![cursor[t]] = c]
  <2>4. /\ r \in [Bases -> Nat] /\ r[cursor[t]] = c
        /\ \A e \in Filled : r[e] = rank[e] /\ r[e] \in Nat
    BY <2>1, <2>2, <2>3 DEF Filled, FilledIn
  <2>5. \A e \in Filled : entries[e].next \in Filled \cup {Null}
    BY DEF LInv, Linked
  <2> HIDE DEF c, r
  <2>6. ASSUME NEW e \in Filled'
        PROVE  r[e] < c + 1 /\ (entries'[e].next # Null => r[entries'[e].next] < r[e])
    <3>1. CASE e \in Filled
      <4>1. r[e] < c /\ r[e] \in Nat /\ c \in Nat
        BY <2>2, <2>3, <2>4, <3>1 DEF c
      <4>2. ASSUME entries'[e].next # Null PROVE r[entries'[e].next] < r[e]
        BY <2>1, <2>2, <2>4, <2>5, <3>1, <4>2
      <4> QED
        BY <4>1, <4>2
    <3>2. CASE e = cursor[t]
      <4>1. r[e] = c /\ c \in Nat /\ entries'[e].next \in Filled \cup {Null}
        BY <2>1, <2>3, <2>4, <3>2 DEF c
      <4>2. \A f \in Filled : r[f] < c
        BY <2>2, <2>4 DEF c
      <4> QED
        BY <4>1, <4>2
    <3> QED
      BY <2>1, <3>1, <3>2
  <2> QED
    BY <2>3, <2>4, <2>6 DEF Ranked, c
<1>2. CASE \A t \in Threads : ~FillEntry(t)
  BY <1>2, EntriesChange DEF LInv, Ranked
<1> QED
  BY <1>1, <1>2

---------------------------------------------------------------------------------
(* Inserts that meet no other.                                              *)

LEMMA AloneStably ==
  ASSUME LInv, UNCHANGED <<entries, cfi_hash_table>>,
         \A u \in Threads : InInsert(u)' =>
           /\ InInsert(u) /\ key'[u] = key[u] /\ (alone'[u] => alone[u])
           /\ at'[u] = "walk" => at[u] = "walk" /\ cursor'[u] = cursor[u]
  PROVE  AloneInserts'
  BY DEF LInv, AloneInserts

LEMMA AloneInductive == LInv /\ [CfiNext]_<<vars, cfivars>> => AloneInserts'
<1> SUFFICES ASSUME LInv, [CfiNext]_<<vars, cfivars>> PROVE AloneInserts'
  OBVIOUS
<1> USE DEF LInv, CInv, Types, Histories
<1>1. CASE UNCHANGED <<vars, cfivars>>
  BY <1>1, AloneStably DEF vars, cfivars, InInsert
<1>2. ASSUME NEW t \in Threads, NEW k \in Keys, cfi_insert(t, k) PROVE AloneInserts'
  <2> DEFINE others == Inserting(t, Bucket[k])
  <2>1. /\ at' = [at EXCEPT ![t] = "head"] /\ goal' = [goal EXCEPT ![t] = "insert"]
        /\ key' = [key EXCEPT ![t] = k]
        /\ alone' = [u \in Threads |-> IF u = t THEN others = {} ELSE alone[u] /\ u \notin others]
        /\ UNCHANGED <<pc, cfi_hash_table, entries, cursor>>
    BY <1>2 DEF cfi_insert, Begin, vars
  <2>2. \A u \in Threads \ {t} : InInsert(u)' <=> InInsert(u)
    BY <2>1 DEF InInsert
  <2>3. \A u \in Threads \ {t} : u \in others <=> InInsert(u) /\ Bucket[key[u]] = Bucket[k]
    BY DEF Inserting, InInsert
  <2>4. /\ \A u \in Threads \ {t} : key'[u] = key[u] /\ at'[u] = at[u] /\ cursor'[u] = cursor[u]
        /\ key'[t] = k /\ at'[t] = "head"
    BY <2>1
  <2>5. /\ alone'[t] <=> others = {}
        /\ \A u \in Threads \ {t} : alone'[u] <=> alone[u] /\ u \notin others
    BY <2>1
  <2> HIDE DEF others
  <2>6. ASSUME NEW w \in Threads, InInsert(w)', alone'[w], NEW u \in Threads \ {w}, InInsert(u)'
        PROVE  Bucket[key'[u]] # Bucket[key'[w]]
    <3>1. CASE w = t
      BY <2>2, <2>3, <2>4, <2>5, <2>6, <3>1
    <3>2. CASE w # t /\ u = t
      BY <2>2, <2>3, <2>4, <2>5, <2>6, <3>2
    <3>3. CASE w # t /\ u # t
      BY <2>2, <2>4, <2>5, <2>6, <3>3 DEF AloneInserts
    <3> QED
      BY <3>1, <3>2, <3>3
  <2>7. ASSUME NEW w \in Threads, InInsert(w)', alone'[w], at'[w] = "walk", cursor'[w] # Null
        PROVE  /\ cfi_hash_table'[Bucket[key'[w]]] # Null
               /\ Leads(entries', cfi_hash_table'[Bucket[key'[w]]], cursor'[w])
    <3>1. w # t
      BY <2>4, <2>7
    <3> QED
      BY <2>1, <2>2, <2>4, <2>5, <2>7, <3>1 DEF AloneInserts
  <2> QED
    BY <2>6, <2>7 DEF AloneInserts
<1>3. ASSUME NEW t \in Threads, NEW k \in Keys, __cfi_slowpath(t, k) PROVE AloneInserts'
  BY <1>3, AloneStably DEF __cfi_slowpath, Begin, vars, InInsert
<1>4. ASSUME NEW t \in Threads, __sanitizer_cfi_bad_type(t) \/ Fail(t) PROVE AloneInserts'
  <2>1. \A u \in Threads : InInsert(u)' => InInsert(u)
    BY <1>4 DEF __sanitizer_cfi_bad_type, Fail, cfivars, InInsert, IInv, TypeOK
  <2> QED
    BY <1>4, <2>1, AloneStably DEF __sanitizer_cfi_bad_type, Fail, cfivars
<1>5. ASSUME NEW t \in Threads, OtherCode(t) PROVE AloneInserts'
  <2>1. \A u \in Threads : u # t => pc'[u] = pc[u]
    BY <1>5 DEF OtherCode, Step, drt_internal_alloc, LoadFits, OutOfMemory, SwapSucceeds, HandOut,
       SwapFails, drt_internal_alloc_reset, IInv, TypeOK
  <2> QED
    BY <1>5, <2>1, AloneStably DEF OtherCode, cfivars, InInsert
<1>6. ASSUME NEW t \in Threads, LookupHead(t) PROVE AloneInserts'
  <2>1. /\ at' = [at EXCEPT ![t] = "walk"] /\ at[t] = "head"
        /\ cursor' = [cursor EXCEPT ![t] = cfi_hash_table[Bucket[key[t]]]]
        /\ UNCHANGED <<pc, cfi_hash_table, entries, goal, key, alone>>
    BY <1>6 DEF LookupHead, vars
  <2>2. \A u \in Threads : InInsert(u)' <=> InInsert(u)
    BY <2>1 DEF InInsert
  <2>3. Leads(entries, cursor'[t], cursor'[t])
    BY LeadsToItself
  <2>4. cursor'[t] = cfi_hash_table[Bucket[key[t]]]
    BY <2>1
  <2> QED
    BY <2>1, <2>2, <2>3, <2>4 DEF AloneInserts
<1>7. ASSUME NEW t \in Threads, LookupNext(t) PROVE AloneInserts'
  <2>1. /\ at[t] = "walk" /\ cursor[t] # Null
        /\ cursor' = [cursor EXCEPT ![t] = entries[cursor[t]].next]
        /\ UNCHANGED <<pc, cfi_hash_table, entries, at, goal, key, alone>>
    BY <1>7 DEF LookupNext, vars
  <2>2. \A u \in Threads : InInsert(u)' <=> InInsert(u)
    BY <2>1 DEF InInsert
  <2>3. cursor'[t] = entries[cursor[t]].next /\ \A u \in Threads \ {t} : cursor'[u] = cursor[u]
    BY <2>1
  <2>4. ASSUME Leads(entries, cfi_hash_table[Bucket[key[t]]], cursor[t]), cursor'[t] # Null
        PROVE  Leads(entries, cfi_hash_table[Bucket[key[t]]], cursor'[t])
    BY <2>3, <2>4, LeadsFurther
  <2> QED
    BY <2>1, <2>2, <2>3, <2>4 DEF AloneInserts
<1>8. ASSUME NEW t \in Threads, Found(t) PROVE AloneInserts'
  BY <1>8, AloneStably DEF Found, Finish, vars, InInsert
<1>9. ASSUME NEW t \in Threads, NotFoundByCheck(t) PROVE AloneInserts'
  BY <1>9, AloneStably DEF NotFoundByCheck, vars, InInsert
<1>10. ASSUME NEW t \in Threads, NotFoundByInsert(t) PROVE AloneInserts'
  <2>1. \A u \in Threads : InInsert(u)' => InInsert(u)
    BY <1>10 DEF NotFoundByInsert, drt_internal_alloc, InInsert, IInv, TypeOK
  <2> QED
    BY <1>10, <2>1, AloneStably DEF NotFoundByInsert
<1>11. ASSUME NEW t \in Threads, Allocating(t) PROVE AloneInserts'
  <2>1. \A u \in Threads : InInsert(u)' => InInsert(u)
    BY <1>11 DEF Allocating, LoadFits, OutOfMemory, SwapFails, cfivars, InInsert, IInv, TypeOK
  <2> QED
    BY <1>11, <2>1, AloneStably DEF Allocating, cfivars
<1>12. ASSUME NEW t \in Threads, Allocated(t) PROVE AloneInserts'
  <2>1. \A u \in Threads : InInsert(u)' => InInsert(u)
    BY <1>12 DEF Allocated, SwapSucceeds, HandOut, InInsert, IInv, TypeOK
  <2> QED
    BY <1>12, <2>1, AloneStably DEF Allocated
<1>13. ASSUME NEW t \in Threads, FillEntry(t) PROVE AloneInserts'
  <2>1. /\ at' = [at EXCEPT ![t] = "publish"] /\ at[t] = "fill"
        /\ UNCHANGED <<pc, cfi_hash_table, goal, key, cursor, alone>>
    BY <1>13 DEF FillEntry, vars
  <2>2. \A u \in Threads : InInsert(u)' <=> InInsert(u)
    BY <2>1 DEF InInsert
  <2>3. ASSUME NEW w \in Threads, InInsert(w), alone[w], at[w] = "walk", cursor[w] # Null
        PROVE  /\ cfi_hash_table[Bucket[key[w]]] # Null
               /\ Leads(entries', cfi_hash_table[Bucket[key[w]]], cursor[w])
    <3>1. /\ cfi_hash_table[Bucket[key[w]]] # Null
          /\ Leads(entries, cfi_hash_table[Bucket[key[w]]], cursor[w])
      BY <2>3 DEF AloneInserts
    <3>2. Bucket[key[w]] \in Buckets
      BY <2>3 DEF Calls, Buckets
    <3>3. cfi_hash_table[Bucket[key[w]]] \in Filled
      BY <3>1, <3>2 DEF Linked
    <3>4. /\ Filled \in SUBSET Bases
          /\ \A y \in Filled : entries[y].next \in Filled \cup {Null}
          /\ \A y \in Filled : entries'[y] = entries[y]
      BY <1>13, FillAdds DEF Linked, Filled, FilledIn
    <3> QED
      BY <3>1, <3>3, <3>4, LeadsStably
  <2> QED
    BY <2>1, <2>2, <2>3 DEF AloneInserts
<1>14. ASSUME NEW t \in Threads, Publish(t) PROVE AloneInserts'
  <2>1. /\ cfi_hash_table' = [cfi_hash_table EXCEPT ![Bucket[key[t]]] = cursor[t]]
        /\ at' = [at EXCEPT ![t] = "idle"] /\ goal' = [goal EXCEPT ![t] = "check"]
        /\ key' = [key EXCEPT ![t] = Null] /\ cursor' = [cursor EXCEPT ![t] = Null]
        /\ alone' = [alone EXCEPT ![t] = FALSE] /\ UNCHANGED <<pc, entries>>
    BY <1>14 DEF Publish, Finish, vars
  <2>2. InInsert(t) /\ ~InInsert(t)'
    BY <1>14, <2>1 DEF Publish, InInsert, Linked
  <2>3. \A u \in Threads \ {t} :
          /\ InInsert(u)' <=> InInsert(u)
          /\ key'[u] = key[u] /\ at'[u] = at[u] /\ cursor'[u] = cursor[u] /\ alone'[u] = alone[u]
    BY <2>1 DEF InInsert
  <2>4. ASSUME NEW w \in Threads \ {t}, InInsert(w), alone[w]
        PROVE  cfi_hash_table'[Bucket[key[w]]] = cfi_hash_table[Bucket[key[w]]]
    <3>1. Bucket[key[t]] # Bucket[key[w]]
      BY <2>2, <2>4 DEF AloneInserts
    <3>2. Bucket[key[w]] \in Buckets
      BY <2>4 DEF Calls, Buckets, InInsert
    <3> QED
      BY <2>1, <3>1, <3>2
  <2> QED
    BY <2>1, <2>2, <2>3, <2>4 DEF AloneInserts
<1> QED
  BY <1>1, <1>2, <1>3, <1>4, <1>5, <1>6, <1>7, <1>8, <1>9, <1>10, <1>11, <1>12, <1>13, <1>14
  DEF CfiNext, CfiStep

---------------------------------------------------------------------------------
(* Keys that are kept, and checks that are sure to find theirs.             *)

LEMMA KeptStably ==
  ASSUME LInv, UNCHANGED <<entries, cfi_hash_table, kept>>,
         \A u \in Threads : at'[u] = "publish" =>
           at[u] = "publish" /\ cursor'[u] = cursor[u] /\ key'[u] = key[u]
  PROVE  KeptListed'
  BY DEF LInv, KeptListed

(* What FillEntry leaves on the lists.                                      *)
LEMMA HasAfterFill ==
  ASSUME LInv, NEW t \in Threads, FillEntry(t), NEW e \in Filled \cup {Null}, NEW k, Has(entries, e, k)
  PROVE  Has(entries', e, k)
<1>1. /\ Filled \in SUBSET Bases
      /\ \A y \in Filled : entries[y].next \in Filled \cup {Null}
      /\ \A y \in Filled : entries'[y] = entries[y]
  BY FillAdds DEF LInv, Linked, Filled, FilledIn
<1> QED
  BY <1>1, HasStably

LEMMA KeptInductive == LInv /\ [CfiNext]_<<vars, cfivars>> => KeptListed'
<1> SUFFICES ASSUME LInv, [CfiNext]_<<vars, cfivars>> PROVE KeptListed'
  OBVIOUS
<1> USE DEF LInv, CInv, Types, Histories
<1>1. CASE UNCHANGED cfivars
  BY <1>1, KeptStably DEF cfivars
<1>2. ASSUME NEW t \in Threads, NEW k \in Keys, cfi_insert(t, k) \/ __cfi_slowpath(t, k) PROVE KeptListed'
  BY <1>2, KeptStably DEF cfi_insert, __cfi_slowpath, Begin
<1>3. ASSUME NEW t \in Threads,
             LookupHead(t) \/ LookupNext(t) \/ NotFoundByCheck(t) \/ NotFoundByInsert(t)
      PROVE  KeptListed'
  BY <1>3, KeptStably DEF LookupHead, LookupNext, NotFoundByCheck, NotFoundByInsert
<1>4. ASSUME NEW t \in Threads, Allocated(t) PROVE KeptListed'
  BY <1>4, KeptStably DEF Allocated
<1>5. ASSUME NEW t \in Threads, Found(t) PROVE KeptListed'
  <2>1. /\ at' = [at EXCEPT ![t] = "idle"] /\ key' = [key EXCEPT ![t] = Null]
        /\ cursor' = [cursor EXCEPT ![t] = Null]
        /\ UNCHANGED <<entries, cfi_hash_table>>
    BY <1>5 DEF Found, Finish
  <2>2. \A u \in Threads : at'[u] = "publish" =>
          u # t /\ at[u] = "publish" /\ cursor'[u] = cursor[u] /\ key'[u] = key[u]
    BY <2>1
  <2>3. CASE ~(goal[t] = "insert" /\ alone[t])
    BY <1>5, <2>1, <2>2, <2>3, KeptStably DEF Found, Finish
  <2>4. CASE goal[t] = "insert" /\ alone[t]
    <3>1. /\ kept' = kept \cup {key[t]} /\ at[t] = "walk" /\ pc[t] = "run"
          /\ cursor[t] # Null /\ entries[cursor[t]].key = key[t] /\ cursor[t] \in Bases
      BY <1>5, <2>4 DEF Found, Finish, Linked, Filled, FilledIn
    <3>2. /\ cfi_hash_table[Bucket[key[t]]] # Null
          /\ Leads(entries, cfi_hash_table[Bucket[key[t]]], cursor[t])
          /\ \A u \in Threads \ {t} : InInsert(u) => Bucket[key[u]] # Bucket[key[t]]
      BY <2>4, <3>1 DEF AloneInserts, InInsert
    <3>3. Has(entries, cfi_hash_table[Bucket[key[t]]], key[t])
      BY <3>1, <3>2 DEF Has
    <3>4. \A u \in Threads : at[u] = "publish" => InInsert(u)
      BY DEF Linked, InInsert
    <3> QED
      BY <2>1, <2>2, <3>1, <3>2, <3>3, <3>4 DEF KeptListed
  <2> QED
    BY <2>3, <2>4
<1>6. ASSUME NEW t \in Threads, FillEntry(t) PROVE KeptListed'
  <2>1. /\ at' = [at EXCEPT ![t] = "publish"] /\ at[t] = "fill"
        /\ UNCHANGED <<cfi_hash_table, key, cursor, kept>>
    BY <1>6 DEF FillEntry
  <2>2. cursor[t] \in Bases /\ entries'[cursor[t]].next = cfi_hash_table[Bucket[key[t]]]
    <3>1. entries'[cursor[t]] = [key |-> key[t], next |-> cfi_hash_table[Bucket[key[t]]]]
      BY <1>6, FillAdds
    <3> QED
      BY <1>6, <3>1, FillAdds
  <2>3. ASSUME NEW k \in kept
        PROVE  /\ Has(entries', cfi_hash_table[Bucket[k]], k)
               /\ Bucket[key[t]] = Bucket[k] => Has(entries', cursor[t], k)
    <3>1. Bucket[k] \in Buckets /\ Has(entries, cfi_hash_table[Bucket[k]], k)
      BY DEF KeptListed, Buckets
    <3>2. cfi_hash_table[Bucket[k]] \in Filled \cup {Null}
      BY <3>1 DEF Linked
    <3>3. Has(entries', cfi_hash_table[Bucket[k]], k)
      BY <1>6, <3>1, <3>2, HasAfterFill
    <3> QED
      BY <2>2, <3>3, HasThrough
  <2>4. ASSUME NEW k \in kept, NEW u \in Threads \ {t}, at[u] = "publish", Bucket[key[u]] = Bucket[k]
        PROVE  Has(entries', cursor[u], k)
    <3>1. Has(entries, cursor[u], k) /\ cursor[u] \in Filled
      BY <2>4 DEF KeptListed, Linked
    <3> QED
      BY <1>6, <3>1, HasAfterFill
  <2> QED
    BY <2>1, <2>3, <2>4 DEF KeptListed
<1>7. ASSUME NEW t \in Threads, Publish(t) PROVE KeptListed'
  <2>1. /\ cfi_hash_table' = [cfi_hash_table EXCEPT ![Bucket[key[t]]] = cursor[t]]
        /\ at' = [at EXCEPT ![t] = "idle"] /\ key' = [key EXCEPT ![t] = Null]
        /\ cursor' = [cursor EXCEPT ![t] = Null] /\ at[t] = "publish"
        /\ kept' = IF goal[t] = "insert" /\ alone[t] THEN kept \cup {key[t]} ELSE kept
        /\ UNCHANGED <<pc, entries>>
    BY <1>7 DEF Publish, Finish, vars
  <2>2. /\ goal[t] = "insert" /\ cursor[t] \in Filled /\ entries[cursor[t]].key = key[t]
        /\ InInsert(t) /\ key[t] \in Keys /\ cursor[t] \in Bases
    BY <2>1 DEF Linked, InInsert, Calls, Filled, FilledIn
  <2>3. \A u \in Threads : at'[u] = "publish" =>
          u # t /\ at[u] = "publish" /\ cursor'[u] = cursor[u] /\ key'[u] = key[u] /\ InInsert(u)
    BY <2>1 DEF Linked, InInsert
  <2>4. \A k \in Keys : cfi_hash_table'[Bucket[k]] =
          IF Bucket[k] = Bucket[key[t]] THEN cursor[t] ELSE cfi_hash_table[Bucket[k]]
    BY <2>1, <2>2 DEF Buckets
  <2>5. ASSUME NEW k \in kept
        PROVE  /\ Has(entries, cfi_hash_table'[Bucket[k]], k)
               /\ \A u \in Threads :
                    at'[u] = "publish" /\ Bucket[key'[u]] = Bucket[k] => Has(entries, cursor'[u], k)
    <3>1. Bucket[key[t]] = Bucket[k] => Has(entries, cursor[t], k)
      BY <2>1, Zenon DEF KeptListed
    <3>2. Has(entries, cfi_hash_table[Bucket[k]], k) /\ k \in Keys
      BY DEF KeptListed
    <3>3. Has(entries, cfi_hash_table'[Bucket[k]], k)
      <4>1. CASE Bucket[k] = Bucket[key[t]]
        BY <2>4, <3>1, <3>2, <4>1
      <4>2. CASE Bucket[k] # Bucket[key[t]]
        BY <2>4, <3>2, <4>2
      <4> QED
        BY <4>1, <4>2
    <3> QED
      BY <2>3, <3>3 DEF KeptListed
  <2>6. ASSUME alone[t]
        PROVE  /\ Has(entries, cfi_hash_table'[Bucket[key[t]]], key[t])
               /\ \A u \in Threads :
                    at'[u] = "publish" /\ Bucket[key'[u]] = Bucket[key[t]] => Has(entries, cursor'[u], key[t])
    <3>1. Has(entries, cursor[t], key[t])
      BY <2>2, HasHere
    <3>2. cfi_hash_table'[Bucket[key[t]]] = cursor[t]
      BY <2>2, <2>4
    <3>3. \A u \in Threads \ {t} : InInsert(u) => Bucket[key[u]] # Bucket[key[t]]
      BY <2>2, <2>6 DEF AloneInserts
    <3> QED
      BY <2>3, <3>1, <3>2, <3>3
  <2> QED
    BY <2>1, <2>5, <2>6 DEF KeptListed
<1> QED
  BY <1>1, <1>2, <1>3, <1>4, <1>5, <1>6, <1>7
  DEF CfiNext, CfiStep, __sanitizer_cfi_bad_type, OtherCode, Fail, Allocating

LEMMA SureStably ==
  ASSUME LInv, entries' = entries, kept \subseteq kept',
         \A u \in Threads : sure'[u] =>
           sure[u] /\ goal'[u] = goal[u] /\ at'[u] = at[u] /\ key'[u] = key[u] /\ cursor'[u] = cursor[u]
  PROVE  SureChecks'
  BY DEF LInv, SureChecks

LEMMA SureInductive == LInv /\ [CfiNext]_<<vars, cfivars>> => SureChecks'
<1> SUFFICES ASSUME LInv, [CfiNext]_<<vars, cfivars>> PROVE SureChecks'
  OBVIOUS
<1> USE DEF LInv, CInv, Types, Histories
<1>1. CASE UNCHANGED cfivars
  BY <1>1, SureStably DEF cfivars
<1>2. ASSUME NEW t \in Threads, NEW k \in Keys, cfi_insert(t, k) PROVE SureChecks'
  <2>1. ~sure[t]
    BY <1>2 DEF cfi_insert, Begin, SureChecks
  <2> QED
    BY <1>2, <2>1, SureStably DEF cfi_insert, Begin
<1>3. ASSUME NEW t \in Threads, NEW k \in Keys, __cfi_slowpath(t, k) PROVE SureChecks'
  BY <1>3 DEF __cfi_slowpath, Begin, SureChecks
<1>4. ASSUME NEW t \in Threads, LookupHead(t) PROVE SureChecks'
  <2>1. sure[t] => Has(entries, cfi_hash_table[Bucket[key[t]]], key[t])
    BY <1>4 DEF LookupHead, SureChecks, KeptListed
  <2>2. /\ at' = [at EXCEPT ![t] = "walk"] /\ at[t] = "head"
        /\ cursor' = [cursor EXCEPT ![t] = cfi_hash_table[Bucket[key[t]]]]
        /\ UNCHANGED <<entries, goal, key, sure, kept>>
    BY <1>4 DEF LookupHead
  <2>3. \A u \in Threads \ {t} : at'[u] = at[u] /\ cursor'[u] = cursor[u]
    BY <2>2
  <2>4. at'[t] = "walk" /\ cursor'[t] = cfi_hash_table[Bucket[key[t]]]
    BY <2>2
  <2> QED
    BY <2>1, <2>2, <2>3, <2>4 DEF SureChecks
<1>5. ASSUME NEW t \in Threads, LookupNext(t) PROVE SureChecks'
  <2>1. /\ at[t] = "walk" /\ entries[cursor[t]].key # key[t] /\ cursor[t] # Null
        /\ cursor' = [cursor EXCEPT ![t] = entries[cursor[t]].next]
        /\ UNCHANGED <<entries, goal, key, at, sure, kept>>
    BY <1>5 DEF LookupNext
  <2>2. cursor[t] \in Bases /\ entries[cursor[t]].next \in Bases \cup {Null}
    BY <2>1
  <2>3. sure[t] => Has(entries, cursor[t], key[t])
    BY <2>1 DEF SureChecks
  <2>4. sure[t] => Has(entries, entries[cursor[t]].next, key[t])
    BY <2>1, <2>2, <2>3, HasFurther
  <2>5. cursor'[t] = entries[cursor[t]].next /\ \A u \in Threads \ {t} : cursor'[u] = cursor[u]
    BY <2>1
  <2> QED
    BY <2>1, <2>4, <2>5 DEF SureChecks
<1>6. ASSUME NEW t \in Threads, Found(t) \/ Publish(t) PROVE SureChecks'
  <2>1. Finish(t) /\ entries' = entries
    BY <1>6 DEF Found, Publish
  <2>2. kept \subseteq kept'
    BY <2>1 DEF Finish
  <2>3. \A u \in Threads : sure'[u] => u # t
    BY <2>1 DEF Finish
  <2> QED
    BY <2>1, <2>2, <2>3, SureStably DEF Finish
<1>7. ASSUME NEW t \in Threads, NotFoundByCheck(t) PROVE SureChecks'
  <2>1. ~sure[t]
    BY <1>7 DEF NotFoundByCheck, SureChecks, Has
  <2> QED
    BY <1>7, <2>1, SureStably DEF NotFoundByCheck
<1>8. ASSUME NEW t \in Threads, NotFoundByInsert(t) PROVE SureChecks'
  <2>1. ~sure[t]
    BY <1>8 DEF NotFoundByInsert, SureChecks
  <2> QED
    BY <1>8, <2>1, SureStably DEF NotFoundByInsert
<1>9. ASSUME NEW t \in Threads, Allocated(t) PROVE SureChecks'
  <2>1. ~sure[t]
    BY <1>9 DEF Allocated, SureChecks
  <2> QED
    BY <1>9, <2>1, SureStably DEF Allocated
<1>10. ASSUME NEW t \in Threads, FillEntry(t) PROVE SureChecks'
  <2>1. ~sure[t]
    BY <1>10 DEF FillEntry, SureChecks
  <2>2. /\ at' = [at EXCEPT ![t] = "publish"]
        /\ UNCHANGED <<goal, key, cursor, sure, kept>>
    BY <1>10 DEF FillEntry
  <2>3. ASSUME NEW u \in Threads, sure[u], at[u] = "walk"
        PROVE  Has(entries', cursor[u], key[u])
    <3>1. Has(entries, cursor[u], key[u]) /\ cursor[u] \in Filled \cup {Null}
      BY <2>3 DEF SureChecks, Linked
    <3> QED
      BY <1>10, <3>1, HasAfterFill
  <2> QED
    BY <2>1, <2>2, <2>3 DEF SureChecks
<1> QED
  BY <1>1, <1>2, <1>3, <1>4, <1>5, <1>6, <1>7, <1>8, <1>9, <1>10
  DEF CfiNext, CfiStep, __sanitizer_cfi_bad_type, OtherCode, Fail, Allocating

LEMMA ListsInductive == LInv /\ [CfiNext]_<<vars, cfivars>> => LInv'
  BY CfiInductive, HistoriesInductive, LinkedInductive, StaysInductive, RankedInductive,
     AloneInductive, KeptInductive, SureInductive DEF LInv

LEMMA ListsHold == CfiSpec => []LInv
  BY ListsInitially, ListsInductive, PTL DEF CfiSpec

---------------------------------------------------------------------------------
(* What the walk down a list computes.                                      *)

After(en, x) == IF x = Null THEN Null ELSE en[x].next
Walks(f, en, h) == f = [n \in Nat |-> IF n = 0 THEN h ELSE After(en, f[n - 1])]
WalksTo(f, en, h, m) == f = [n \in 0 .. m |-> IF n = 0 THEN h ELSE After(en, f[n - 1])]

LEMMA Induction ==
  ASSUME NEW S, 0 \in S, \A n \in Nat : n \in S => n + 1 \in S
  PROVE  \A n \in Nat : n \in S
<1> SUFFICES ASSUME Nat \ S # {} PROVE FALSE
  OBVIOUS
<1>1. PICK m \in Nat \ S : \A j \in Nat : <<j, m>> \in OpToRel(<, Nat) => j \notin Nat \ S
  BY NatLessThanWellFounded, WFMin, Zenon
<1>2. m # 0 /\ m - 1 \in Nat /\ m = (m - 1) + 1 /\ m \in Nat /\ m - 1 < m
  OBVIOUS
<1>3. <<m - 1, m>> \in OpToRel(<, Nat)
  BY <1>2 DEF OpToRel
<1>4. m - 1 \notin Nat \ S
  BY <1>1, <1>2, <1>3, Zenon
<1> QED
  BY <1>2, <1>4

LEMMA NthIs ==
  ASSUME NEW b \in Buckets
  PROVE  Nth(b) = CHOOSE f : Walks(f, entries, cfi_hash_table[b])
  BY DEF Nth, Walks, After

LEMMA WalksToAre ==
  ASSUME NEW f, NEW en, NEW h, NEW m \in Nat, WalksTo(f, en, h, m)
  PROVE  f[0] = h /\ \A n \in 0 .. (m - 1) : f[n + 1] = After(en, f[n])
<1>1. ASSUME NEW n \in 0 .. m PROVE f[n] = IF n = 0 THEN h ELSE After(en, f[n - 1])
  BY DEF WalksTo
<1>2. f[0] = h
  BY <1>1
<1>3. ASSUME NEW n \in 0 .. (m - 1) PROVE f[n + 1] = After(en, f[n])
  <2>1. n + 1 \in 0 .. m /\ n + 1 # 0 /\ (n + 1) - 1 = n
    OBVIOUS
  <2> QED
    BY <1>1, <2>1
<1> QED
  BY <1>2, <1>3

LEMMA WalksExist ==
  ASSUME NEW en, NEW h
  PROVE  \A m \in Nat : \E f : WalksTo(f, en, h, m)
<1> DEFINE S == {m \in Nat : \E f : WalksTo(f, en, h, m)}
<1>1. 0 \in S
  <2> DEFINE f == [n \in 0 .. 0 |-> h]
  <2>1. WalksTo(f, en, h, 0)
    BY DEF WalksTo
  <2> QED
    BY <2>1
<1>2. ASSUME NEW m \in Nat, m \in S PROVE m + 1 \in S
  <2>1. PICK f : WalksTo(f, en, h, m)
    BY <1>2
  <2> DEFINE g == [n \in 0 .. (m + 1) |-> IF n = m + 1 THEN After(en, f[m]) ELSE f[n]]
  <2>2. g[m + 1] = After(en, f[m]) /\ \A n \in 0 .. m : g[n] = f[n]
    OBVIOUS
  <2>3. \A n \in 0 .. m : f[n] = IF n = 0 THEN h ELSE After(en, f[n - 1])
    BY <2>1 DEF WalksTo
  <2>4. ASSUME NEW n \in 0 .. (m + 1) PROVE g[n] = IF n = 0 THEN h ELSE After(en, g[n - 1])
    <3> HIDE DEF g
    <3>1. CASE n = m + 1
      <4>1. n # 0 /\ n - 1 = m /\ m \in 0 .. m
        BY <3>1
      <4> QED
        BY <2>2, <3>1, <4>1
    <3>2. CASE n # m + 1
      <4>1. n \in 0 .. m /\ (n # 0 => n - 1 \in 0 .. m)
        BY <3>2
      <4> QED
        BY <2>2, <2>3, <4>1
    <3> QED
      BY <3>1, <3>2
  <2>5. g = [n \in 0 .. (m + 1) |-> g[n]]
    OBVIOUS
  <2> HIDE DEF g
  <2>6. WalksTo(g, en, h, m + 1)
    BY <2>4, <2>5 DEF WalksTo
  <2> QED
    BY <2>6
<1> HIDE DEF S
<1>3. \A m \in Nat : m \in S
  BY <1>1, <1>2, Induction
<1> QED
  BY <1>3 DEF S

LEMMA WalksAgree ==
  ASSUME NEW en, NEW h, NEW f, NEW g, NEW l \in Nat, NEW m \in Nat, l <= m,
         WalksTo(f, en, h, l), WalksTo(g, en, h, m)
  PROVE  f[l] = g[l]
<1> DEFINE S == {n \in Nat : n <= l => f[n] = g[n]}
<1>1. /\ f[0] = h /\ \A n \in 0 .. (l - 1) : f[n + 1] = After(en, f[n])
      /\ g[0] = h /\ \A n \in 0 .. (m - 1) : g[n + 1] = After(en, g[n])
  BY WalksToAre
<1>2. 0 \in S
  BY <1>1
<1>3. ASSUME NEW n \in Nat, n \in S PROVE n + 1 \in S
  BY <1>1, <1>3
<1> HIDE DEF S
<1>4. l \in S
  BY <1>2, <1>3, Induction
<1> QED
  BY <1>4 DEF S

LEMMA NthSteps ==
  ASSUME NEW b \in Buckets
  PROVE  /\ Nth(b)[0] = cfi_hash_table[b]
         /\ \A n \in Nat : Nth(b)[n + 1] = After(entries, Nth(b)[n])
<1> DEFINE en == entries
           h == cfi_hash_table[b]
           part(m) == CHOOSE f : WalksTo(f, en, h, m)
           w == [n \in Nat |-> part(n)[n]]
<1>1. \A m \in Nat : WalksTo(part(m), en, h, m)
  <2> HIDE DEF en, h
  <2> QED
    BY WalksExist
<1> HIDE DEF en, h, part
<1>2. ASSUME NEW n \in Nat PROVE w[n + 1] = After(en, w[n])
  <2>1. WalksTo(part(n + 1), en, h, n + 1) /\ WalksTo(part(n), en, h, n) /\ n <= n + 1 /\ n + 1 \in Nat
    BY <1>1
  <2>2. part(n)[n] = part(n + 1)[n]
    BY <2>1, WalksAgree
  <2>3. part(n + 1)[n + 1] = After(en, part(n + 1)[n])
    BY <2>1, WalksToAre
  <2> QED
    BY <2>1, <2>2, <2>3
<1>3. w[0] = h
  BY <1>1, WalksToAre
<1>4. w = [n \in Nat |-> w[n]]
  OBVIOUS
<1> HIDE DEF w
<1>5. ASSUME NEW n \in Nat PROVE w[n] = IF n = 0 THEN h ELSE After(en, w[n - 1])
  <2>1. CASE n = 0
    BY <1>3, <2>1
  <2>2. CASE n # 0
    <3>1. n - 1 \in Nat /\ (n - 1) + 1 = n
      BY <2>2
    <3> QED
      BY <1>2, <2>2, <3>1
  <2> QED
    BY <2>1, <2>2
<1>6. Walks(w, en, h)
  BY <1>4, <1>5 DEF Walks
<1> DEFINE f == CHOOSE f : Walks(f, en, h)
<1>7. Walks(f, en, h)
  BY <1>6, Zenon
<1>8. Nth(b) = f
  BY NthIs DEF en, h
<1> HIDE DEF f
<1>9. f[0] = h /\ \A n \in Nat : f[n + 1] = After(en, f[n])
  <2>1. ASSUME NEW n \in Nat PROVE f[n] = IF n = 0 THEN h ELSE After(en, f[n - 1])
    BY <1>7 DEF Walks
  <2>2. ASSUME NEW n \in Nat PROVE f[n + 1] = After(en, f[n])
    <3>1. n + 1 \in Nat /\ n + 1 # 0 /\ (n + 1) - 1 = n
      OBVIOUS
    <3> QED
      BY <2>1, <3>1
  <2> QED
    BY <2>1, <2>2
<1> QED
  BY <1>8, <1>9 DEF en, h

LEMMA ListsAreShort == LInv => ListsEnd
<1> SUFFICES ASSUME LInv, NEW b \in Buckets PROVE Nth(b)[Depth] = Null
  BY DEF ListsEnd
<1> DEFINE w == Nth(b)
           c == Cardinality(Filled)
<1>1. w[0] = cfi_hash_table[b] /\ \A n \in Nat : w[n + 1] = After(entries, w[n])
  BY NthSteps
<1>2. PICK rank \in [Bases -> Nat] : \A e \in Filled :
        rank[e] < c /\ (entries[e].next # Null => rank[entries[e].next] < rank[e])
  BY DEF LInv, Ranked
<1>3. c \in Nat /\ Depth \in Nat /\ c <= Depth
  BY FilledIsFinite, FS_CardinalityType DEF Depth
<1>4. /\ Filled \subseteq Bases /\ w[0] \in Filled \cup {Null}
      /\ \A e \in Filled : entries[e].next \in Filled \cup {Null}
  BY <1>1 DEF LInv, Linked, Filled, FilledIn
<1> HIDE DEF w, c
<1> DEFINE S == {n \in Nat : w[n] # Null => w[n] \in Filled /\ rank[w[n]] + n < c}
<1>5. 0 \in S
  BY <1>2, <1>3, <1>4
<1>6. ASSUME NEW n \in Nat, n \in S PROVE n + 1 \in S
  <2> SUFFICES ASSUME w[n + 1] # Null
               PROVE  w[n + 1] \in Filled /\ rank[w[n + 1]] + (n + 1) < c
    OBVIOUS
  <2>1. w[n] # Null /\ w[n + 1] = entries[w[n]].next
    BY <1>1 DEF After
  <2>2. w[n] \in Filled /\ rank[w[n]] + n < c
    BY <1>6, <2>1
  <2>3. w[n + 1] \in Filled /\ rank[w[n + 1]] < rank[w[n]]
    BY <1>2, <1>4, <2>1, <2>2
  <2>4. rank[w[n]] \in Nat /\ rank[w[n + 1]] \in Nat
    BY <1>2, <1>4, <2>2, <2>3
  <2> QED
    BY <1>3, <2>2, <2>3, <2>4
<1> HIDE DEF S
<1>7. Depth \in S
  BY <1>3, <1>5, <1>6, Induction
<1>8. w[Depth] # Null => rank[w[Depth]] \in Nat /\ rank[w[Depth]] + Depth < c
  BY <1>2, <1>4, <1>7 DEF S
<1>9. w[Depth] = Null
  BY <1>3, <1>8
<1> QED
  BY <1>9 DEF w

LEMMA KeptAreFound == LInv => KeptStayIn
<1> SUFFICES ASSUME LInv, NEW k \in kept PROVE k \in KeysOf(Bucket[k])
  BY DEF KeptStayIn
<1> DEFINE b == Bucket[k]
           w == Nth(b)
           N == {m \in 0 .. Depth : w[m] # Null}
           S == {w[m] : m \in N}
<1>1. b \in Buckets /\ Has(entries, cfi_hash_table[b], k)
  BY DEF LInv, Histories, Buckets, KeptListed
<1>2. w[0] = cfi_hash_table[b] /\ \A n \in Nat : w[n + 1] = After(entries, w[n])
  BY <1>1, NthSteps
<1>3. w[Depth] = Null /\ Depth \in Nat
  BY <1>1, ListsAreShort, FilledIsFinite, FS_CardinalityType DEF ListsEnd, Depth
<1>4. KeysOf(b) = {entries[w[m]].key : m \in N}
  BY DEF KeysOf
<1>5. /\ cfi_hash_table[b] \in Bases \cup {Null}
      /\ \A e \in Bases : entries[e].next \in Bases \cup {Null}
  BY <1>1 DEF LInv, CInv, Types
<1> HIDE DEF w
<1>6. \A n \in Nat : w[n] \in Bases \cup {Null}
  <2> DEFINE B == {n \in Nat : w[n] \in Bases \cup {Null}}
  <2>1. 0 \in B
    BY <1>2, <1>5
  <2>2. \A n \in Nat : n \in B => n + 1 \in B
    BY <1>2, <1>5 DEF After
  <2> HIDE DEF B
  <2>3. \A n \in Nat : n \in B
    BY <2>1, <2>2, Induction
  <2> QED
    BY <2>3 DEF B
<1>7. S \in SUBSET Bases
  BY <1>3, <1>6
<1>8. cfi_hash_table[b] \in S
  <2>1. 0 \in N
    BY <1>1, <1>2, <1>3 DEF Has
  <2> QED
    BY <1>2, <2>1
<1>9. ASSUME NEW y \in S PROVE entries[y].next \in S \cup {Null}
  <2>1. PICK m \in N : y = w[m]
    OBVIOUS
  <2>2. m + 1 \in 0 .. Depth /\ m \in Nat
    BY <1>3
  <2>3. w[m + 1] = entries[y].next
    BY <1>2, <2>1, <2>2 DEF After
  <2> QED
    BY <2>2, <2>3
<1>10. PICK x \in Bases : entries[x].key = k /\ Leads(entries, cfi_hash_table[b], x)
  BY <1>1 DEF Has
<1>11. x \in S
  BY <1>7, <1>8, <1>9, <1>10, Zenon DEF Leads
<1> QED
  BY <1>4, <1>10, <1>11

---------------------------------------------------------------------------------

\* Every list ends, with any number of threads that insert into any buckets and
\* store heads they read long ago: an entry is put in front of one that has been
\* filled before it, so no list leads back to itself.  A lookup, which takes no
\* lock, comes to an end.
THEOREM ListsAlwaysEnd == CfiSpec => []ListsEnd
  BY ListsHold, ListsAreShort, PTL

\* A key whose insert met no other in its bucket stays in the table for good,
\* however many later inserts overwrite each other's heads.
THEOREM KeptKeysStay == CfiSpec => []KeptStayIn
  BY ListsHold, KeptAreFound, PTL

\* A check never fails for a key that was kept before it began, whatever is
\* inserted while it walks down the list.
THEOREM ChecksFindKeptKeys == CfiSpec => []NoFalseAlarm
<1>1. LInv => NoFalseAlarm
  BY DEF LInv, SureChecks, NoFalseAlarm
<1> QED
  BY <1>1, ListsHold, PTL
=============================================================================
