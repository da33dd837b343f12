------------------------------ MODULE MCTsanProgram -----------------------------
(* Small instances of the thread sanitizer under a well-behaved program. *)
EXTENDS TsanProgram, TLC

\* One datum and one mutex.
OneAddr == {1, 2}
OneMutex == {2}
DatumOnly == {<<1, 2>>}
AllAtZero == [a \in OneAddr |-> 0]

\* Two mutexes whose probes start at the last slot; the locking of one is
\* announced, and its word is the only datum.
TwoMutexes == {1, 2}
OneAnnounced == {2}
AnnouncedWord == {<<2, 3>>}
AllAtOne == [a \in TwoMutexes |-> 1]
None == {}

Symmetry == Permutations(Threads)
=============================================================================
