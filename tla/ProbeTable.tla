------------------------------- MODULE ProbeTable -------------------------------
(***************************************************************************)
(* Open addressing with linear probing, the scheme shared by the two       *)
(* static tables of the thread sanitizer: tsan_shadow_get and              *)
(* tsan_mutex_find.  A table is a function from 0 .. size-1 to records     *)
(* that have (at least) the fields active and addr.                        *)
(***************************************************************************)
EXTENDS Integers

\* The null pointer both functions return when the probe wraps around.
NoSlot == -1

\* The slot looked at after d steps of a probe that starts at slot start.
Slot(size, start, d) == (start + d) % size

\* Slip: the address is not compared.
HitAnyActive(tab, i, key) == tab[i].active

Hit(tab, i, key) == tab[i].active /\ tab[i].addr = key

\* Slip: a probe that may allocate does not look for an existing entry.
StopsAtFreeOnly(tab, size, start, key, alloc) ==
  { d \in 0 .. size - 1 :
      IF alloc THEN ~tab[Slot(size, start, d)].active
      ELSE Hit(tab, Slot(size, start, d), key) }

\* Slip: the probe gives up one slot short of the whole table.
StopsShort(tab, size, start, key, alloc) ==
  { d \in 0 .. size - 2 :
      \/ Hit(tab, Slot(size, start, d), key)
      \/ alloc /\ ~tab[Slot(size, start, d)].active }

\* The distances at which a probe for key returns: at an active entry that
\* holds key or, when it may allocate, at an inactive one.
Stops(tab, size, start, key, alloc) ==
  { d \in 0 .. size - 1 :
      \/ Hit(tab, Slot(size, start, d), key)
      \/ alloc /\ ~tab[Slot(size, start, d)].active }

First(S) == CHOOSE d \in S : \A e \in S : d <= e

Find(tab, size, start, key, alloc) ==
  LET S == Stops(tab, size, start, key, alloc)
  IN  IF S = {} THEN NoSlot ELSE Slot(size, start, First(S))

\* At most one active entry for an address.
OneEntryPerKey(tab) ==
  \A i, j \in DOMAIN tab :
    (tab[i].active /\ tab[j].active /\ tab[i].addr = tab[j].addr) => i = j
=============================================================================
