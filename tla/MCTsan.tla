--------------------------------- MODULE MCTsan ---------------------------------
(* A small instance of the thread sanitizer runtime. *)
EXTENDS Tsan, TLC

\* Three addresses for a shadow of two slots, the last one a mutex; probes
\* start at the last slot.
ThreeAddrs == {1, 2, 3}
LastMutex == {3}
FirstTwoOrLast == {<<1, 3>>, <<3, 4>>}
AllAtOne == [a \in ThreeAddrs |-> 1]
AllAtZero == [a \in ThreeAddrs |-> 0]

Symmetry == Permutations(Threads)
=============================================================================
