--------------------------------- MODULE MCLsan ---------------------------------
(* Small instances of the leak sanitizer. *)
EXTENDS Lsan, TLC

R(a, n) == [addr |-> a, size |-> n]

\* Two blocks of one word and a region of one word.
TwoBlocks == {R(2, 1), R(3, 1)}
OneRegion == {R(1, 1)}

\* A block of one word and one that is too short to hold a pointer.
LongAndShort == {R(2, 1), R(3, 0)}

\* A block of one word, a region that is this block, and one beside it.
OneBlock == {R(2, 1)}
TwoRegions == {R(2, 1), R(3, 1)}

Symmetry == Permutations(Threads)
=============================================================================
