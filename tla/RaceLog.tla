--------------------------------- MODULE RaceLog --------------------------------
(***************************************************************************)
(* What the thread sanitizer promises about what it tracks: the last       *)
(* access of every address, for at most Capacity addresses, until two      *)
(* conflicting accesses of different threads meet; then it stops for good. *)
(* Which conflicts count as races is left open here.                       *)
(***************************************************************************)
EXTENDS Integers, FiniteSets

CONSTANTS Addr, Tid, Capacity

VARIABLES
  log,      \* the last tracked access of every address
  stopped   \* a race has been reported

Access == [tid : Tid, write : BOOLEAN]

\* No thread has identity 0, so this is the log of an address never accessed.
NoAccess == [tid |-> 0, write |-> FALSE]

Tracked == {a \in Addr : log[a] # NoAccess}

Conflict(x, y) == x.tid # y.tid /\ (x.write \/ y.write)

Init == log = [a \in Addr |-> NoAccess] /\ stopped = FALSE

Record(a) ==
  /\ ~stopped
  /\ log'[a] \in Access /\ log'[a].tid # 0
  /\ a \in Tracked \/ Cardinality(Tracked) < Capacity
  /\ log' = [log EXCEPT ![a] = log'[a]]
  /\ UNCHANGED stopped

Stop(a) ==
  /\ ~stopped /\ stopped'
  /\ a \in Tracked
  /\ \E x \in Access : x.tid # 0 /\ Conflict(log[a], x)
  /\ UNCHANGED log

Next == \E a \in Addr : Record(a) \/ Stop(a)

Spec == Init /\ [][Next]_<<log, stopped>>
=============================================================================
