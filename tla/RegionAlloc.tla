------------------------------ MODULE RegionAlloc ------------------------------
(***************************************************************************)
(* What an allocator over one pool promises: a block it hands out is       *)
(* aligned, inside the pool, and shares no byte with a block handed out    *)
(* since the pool was last reset.  It may refuse at any time.              *)
(***************************************************************************)
EXTENDS Integers

CONSTANTS Pool, Alignment

VARIABLE blocks   \* handed out since the last reset, as [base, size]

Bytes(b) == b.base .. b.base + b.size - 1

Block == [base : 0 .. Pool, size : 0 .. Pool]

Init == blocks = {}

Allocate ==
  \E b \in Block :
    /\ b.base % Alignment = 0 /\ b.base + b.size <= Pool
    /\ \A c \in blocks : Bytes(b) \cap Bytes(c) = {}
    /\ blocks' = blocks \cup {b}

Reset == blocks' = {}

Next == Allocate \/ Reset

Spec == Init /\ [][Next]_blocks
=============================================================================
