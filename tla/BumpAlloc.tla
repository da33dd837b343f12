------------------------------- MODULE BumpAlloc -------------------------------
(***************************************************************************)
(* The internal allocator, drt_internal_alloc and friends in               *)
(* src/src/common/san_printf.c: one counter of used bytes, moved forward   *)
(* by a compare-and-swap loop, with no lock.                               *)
(*                                                                         *)
(* The only shared access before the compare-and-swap is the load of the   *)
(* counter, so the load, the arithmetic and the capacity test are a step.  *)
(* A local that is dead has the value 0.                                   *)
(* drt_internal_free does nothing and has no action.  `blocks' is a        *)
(* history: what the pool has handed out since it was last reset.          *)
(***************************************************************************)
EXTENDS Integers, FiniteSets

CONSTANTS
  Threads,   \* the threads that allocate
  Sizes,     \* the sizes they ask for
  Pool,      \* sizeof(drt_bump_pool)
  Alignment, \* sizeof(void *)
  SizeMod    \* size_t counts modulo this

\* No size asked for is so large that the sum wraps: the callers of the
\* repository pass the sizeof of a structure.
ASSUME BumpConstants ==
  /\ Pool \in Nat /\ Alignment \in Nat \ {0} /\ Pool % Alignment = 0
  /\ SizeMod \in Nat
  /\ Sizes \subseteq Nat
  /\ \A s \in Sizes : Pool + Alignment + s < SizeMod

VARIABLES
  used,    \* drt_bump_used
  pc,      \* "run", in the loop ("load", "swap"), or "dead" in drt_die
  size,    \* the argument
  old,     \* the value loaded
  blocks   \* history

vars == <<used, pc, size, old, blocks>>

Init ==
  /\ used = 0 /\ blocks = {}
  /\ pc = [t \in Threads |-> "run"]
  /\ size = [t \in Threads |-> 0]
  /\ old = [t \in Threads |-> 0]

\* Slip: the next boundary even if there already.
AlignNext(n) == (n \div Alignment) * Alignment + Alignment

\* (n + mask) & ~mask
AlignUp(n) == ((n + Alignment - 1) \div Alignment) * Alignment

\* The counter after a block of n bytes: newv.
Bumped(u, n) == (AlignUp(u) + n) % SizeMod

drt_internal_alloc(t, n) ==
  /\ pc[t] = "run"
  /\ pc' = [pc EXCEPT ![t] = "load"]
  /\ size' = [size EXCEPT ![t] = n]
  /\ UNCHANGED <<used, old, blocks>>

\* Slip: the capacity is tested before the counter is aligned.
LoadFitsUnaligned(t) ==
  /\ pc[t] = "load" /\ used + size[t] <= Pool
  /\ old' = [old EXCEPT ![t] = used]
  /\ pc' = [pc EXCEPT ![t] = "swap"]
  /\ UNCHANGED <<used, size, blocks>>

LoadFits(t) ==
  /\ pc[t] = "load" /\ Bumped(used, size[t]) <= Pool
  /\ old' = [old EXCEPT ![t] = used]
  /\ pc' = [pc EXCEPT ![t] = "swap"]
  /\ UNCHANGED <<used, size, blocks>>

OutOfMemory(t) ==
  /\ pc[t] = "load" /\ Bumped(used, size[t]) > Pool
  /\ pc' = [pc EXCEPT ![t] = "dead"]
  /\ UNCHANGED <<used, size, old, blocks>>

HandOut(t) ==
  LET newv == Bumped(old[t], size[t]) IN
  /\ used' = newv
  /\ blocks' = blocks \cup {[base |-> newv - size[t], size |-> size[t]]}
  /\ pc' = [pc EXCEPT ![t] = "run"]
  /\ size' = [size EXCEPT ![t] = 0]
  /\ old' = [old EXCEPT ![t] = 0]

\* Slip: a plain store in place of the compare-and-swap.
StoreInsteadOfSwap(t) == pc[t] = "swap" /\ HandOut(t)

SwapSucceeds(t) == pc[t] = "swap" /\ used = old[t] /\ HandOut(t)

SwapFails(t) ==
  /\ pc[t] = "swap" /\ used # old[t]
  /\ pc' = [pc EXCEPT ![t] = "load"]
  /\ old' = [old EXCEPT ![t] = 0]
  /\ UNCHANGED <<used, size, blocks>>

\* Gives back every block at once, whoever is inside the allocator.
drt_internal_alloc_reset(t) ==
  /\ pc[t] = "run"
  /\ used' = 0 /\ blocks' = {}
  /\ UNCHANGED <<pc, size, old>>

Step(t) ==
  \/ \E n \in Sizes : drt_internal_alloc(t, n)
  \/ LoadFits(t) \/ OutOfMemory(t) \/ SwapSucceeds(t) \/ SwapFails(t)
  \/ drt_internal_alloc_reset(t)

Next == \E t \in Threads : Step(t)

Spec == Init /\ [][Next]_vars

---------------------------------------------------------------------------------
(* Properties. *)

TypeOK ==
  /\ used \in 0 .. Pool
  /\ pc \in [Threads -> {"run", "load", "swap", "dead"}]
  /\ size \in [Threads -> Sizes \cup {0}]
  /\ old \in [Threads -> 0 .. Pool]
  /\ blocks \subseteq [base : 0 .. Pool, size : Sizes]

\* However the loads, swaps and resets of several threads interleave, a block
\* is aligned, inside the pool, and disjoint from every block handed out since
\* the last reset.  A swap that finds the value it loaded after a reset and
\* other allocations (ABA) is harmless, because the value says where the pool
\* is free.
Region == INSTANCE RegionAlloc
ImplementsRegionAlloc == Region!Spec

\* The pool is lost to nothing but blocks and the padding before them: the
\* last block ends at the counter, and each starts at the first boundary after
\* another, or after the start of the pool.  A swap that fails takes no space.
NoSpaceLost ==
  /\ used = 0 \/ \E b \in blocks : b.base + b.size = used
  /\ \A b \in blocks :
       b.base < Alignment
       \/ \E c \in blocks \ {b} :
            c.base + c.size <= b.base /\ b.base < c.base + c.size + Alignment
=============================================================================
