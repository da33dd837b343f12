--------------------------------- MODULE MCMsan ---------------------------------
(* Small instances of the memory sanitizer. *)
EXTENDS Msan, TLC

R(b, n) == [beg |-> b, size |-> n]

TwoAddrs == {1, 2}
OneAndBoth == {R(1, 2), R(2, 1)}

\* The origin of 4 is where the shadow of 0 is, that of 5 where that of 2 is.
ToFive == 1 .. 5
FirstAndLast == {R(2, 1), R(5, 1)}

Symmetry == Permutations(Threads)
=============================================================================
