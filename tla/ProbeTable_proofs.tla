--------------------------- MODULE ProbeTable_proofs --------------------------
(***************************************************************************)
(* What a probe of an open-addressing table returns, for a table of any    *)
(* size: facts about the operator Find of ProbeTable, cited wherever a     *)
(* hook of the runtime looks a table up.                                   *)
(***************************************************************************)
EXTENDS ProbeTable, WellFoundedInduction, TLAPS

\* A nonempty set of naturals has a first member, and First returns it.
LEMMA FirstIsLeast ==
  ASSUME NEW S \in SUBSET Nat, S # {}
  PROVE  First(S) \in S /\ \A e \in S : First(S) <= e
<1>1. PICK d \in S : \A e \in S : ~(<<e, d>> \in OpToRel(<, Nat))
  BY NatLessThanWellFounded, WFMin, Zenon
<1>2. \A e \in S : ~(e < d)
  <2>1. TAKE e \in S
  <2>2. <<e, d>> \in Nat \X Nat /\ <<e, d>>[1] = e /\ <<e, d>>[2] = d
    OBVIOUS
  <2>3. e < d => <<e, d>> \in OpToRel(<, Nat)
    BY <2>2, Zenon DEF OpToRel
  <2> QED BY <1>1, <2>3
<1>3. \E x \in S : \A e \in S : x <= e
  <2>1. \A e \in S : e \in Nat /\ d \in Nat
    OBVIOUS
  <2> QED BY <1>2, <2>1
<1> QED BY <1>3 DEF First

\* A probe stays inside its table.
LEMMA SlotInTable ==
  ASSUME NEW size \in Nat \ {0}, NEW start \in 0 .. size - 1, NEW d \in Nat
  PROVE  Slot(size, start, d) \in 0 .. size - 1
BY SMT DEF Slot

\* A probe that may allocate returns an entry that holds the key or a free
\* one, at some distance d, and every slot before it is taken by another key.
LEMMA FindOrAllocate ==
  ASSUME NEW tab, NEW size \in Nat \ {0}, NEW start \in 0 .. size - 1, NEW key,
         Find(tab, size, start, key, TRUE) # NoSlot
  PROVE  LET i == Find(tab, size, start, key, TRUE) IN
         /\ i \in 0 .. size - 1
         /\ Hit(tab, i, key) \/ ~tab[i].active
         /\ \E d \in 0 .. size - 1 :
              /\ i = Slot(size, start, d)
              /\ \A e \in 0 .. d - 1 :
                   /\ tab[Slot(size, start, e)].active
                   /\ ~Hit(tab, Slot(size, start, e), key)
<1> DEFINE S == Stops(tab, size, start, key, TRUE)
           d == First(S)
<1>1. S # {} /\ S \in SUBSET Nat /\ S \subseteq 0 .. size - 1
  BY DEF Find, Stops
<1>2. d \in S /\ d \in 0 .. size - 1 /\ \A e \in S : d <= e
  BY <1>1, FirstIsLeast
<1>3. Find(tab, size, start, key, TRUE) = Slot(size, start, d)
  BY <1>1 DEF Find
<1>4. /\ d \in 0 .. size - 1
      /\ Hit(tab, Slot(size, start, d), key) \/ ~tab[Slot(size, start, d)].active
  BY <1>2 DEF Stops
<1>5. \A e \in 0 .. d - 1 : e \in 0 .. size - 1 /\ e \notin S
  <2> HIDE DEF d, S
  <2> QED BY <1>1, <1>2
<1>6. \A e \in 0 .. d - 1 :
        /\ tab[Slot(size, start, e)].active
        /\ ~Hit(tab, Slot(size, start, e), key)
  BY <1>5 DEF Stops
<1>7. Slot(size, start, d) \in 0 .. size - 1
  <2> HIDE DEF d
  <2> QED BY <1>4, SlotInTable
<1> HIDE DEF d
<1> QED BY <1>3, <1>4, <1>6, <1>7

\* A probe that may not allocate returns an entry that holds the key.
LEMMA FindExisting ==
  ASSUME NEW tab, NEW size \in Nat \ {0}, NEW start \in 0 .. size - 1, NEW key,
         Find(tab, size, start, key, FALSE) # NoSlot
  PROVE  LET i == Find(tab, size, start, key, FALSE) IN
         i \in 0 .. size - 1 /\ Hit(tab, i, key)
<1> DEFINE S == Stops(tab, size, start, key, FALSE)
           d == First(S)
<1>1. S # {} /\ S \in SUBSET Nat
  BY DEF Find, Stops
<1>2. d \in S
  BY <1>1, FirstIsLeast
<1>3. Find(tab, size, start, key, FALSE) = Slot(size, start, d)
  BY <1>1 DEF Find
<1>4. d \in 0 .. size - 1 /\ Hit(tab, Slot(size, start, d), key)
  BY <1>2 DEF Stops
<1>5. Slot(size, start, d) \in 0 .. size - 1
  <2> HIDE DEF d
  <2> QED BY <1>4, SlotInTable
<1> HIDE DEF d
<1> QED BY <1>3, <1>4, <1>5

\* Every active entry is reached by the probe for its key without meeting a
\* free slot: what a table keeps as long as entries are never freed.
Reachable(tab, size, hash) ==
  \A i \in 0 .. size - 1 : tab[i].active =>
    /\ hash[tab[i].addr] \in 0 .. size - 1
    /\ \E d \in 0 .. size - 1 :
         /\ i = Slot(size, hash[tab[i].addr], d)
         /\ \A e \in 0 .. d - 1 : tab[Slot(size, hash[tab[i].addr], e)].active

\* So a probe that returns a free entry has shown that the key is nowhere.
LEMMA FreeMeansAbsent ==
  ASSUME NEW tab, NEW size \in Nat \ {0}, NEW hash, NEW key,
         hash[key] \in 0 .. size - 1,
         Reachable(tab, size, hash),
         Find(tab, size, hash[key], key, TRUE) # NoSlot,
         ~tab[Find(tab, size, hash[key], key, TRUE)].active
  PROVE  \A j \in 0 .. size - 1 : ~Hit(tab, j, key)
<1> DEFINE i == Find(tab, size, hash[key], key, TRUE)
<1>1. PICK d \in 0 .. size - 1 :
        /\ i = Slot(size, hash[key], d)
        /\ \A e \in 0 .. d - 1 :
             /\ tab[Slot(size, hash[key], e)].active
             /\ ~Hit(tab, Slot(size, hash[key], e), key)
  BY FindOrAllocate
<1> HIDE DEF i
<1>2. SUFFICES ASSUME NEW j \in 0 .. size - 1, Hit(tab, j, key) PROVE FALSE
  OBVIOUS
<1>3. PICK c \in 0 .. size - 1 :
        /\ j = Slot(size, hash[key], c)
        /\ \A e \in 0 .. c - 1 : tab[Slot(size, hash[key], e)].active
  BY <1>2 DEF Reachable, Hit
<1>4. ~(c < d)
  BY <1>1, <1>2, <1>3
<1>5. ~(d < c)
  <2>1. ~tab[Slot(size, hash[key], d)].active
    BY <1>1 DEF i
  <2>2. d < c => d \in 0 .. c - 1
    OBVIOUS
  <2> QED BY <1>3, <2>1, <2>2
<1>6. c # d
  BY <1>1, <1>2, <1>3 DEF i, Hit
<1> QED BY <1>4, <1>5, <1>6

\* new is tab with the entry a probe for key returned filled with that key.
Fills(tab, new, size, hash, key) ==
  LET i == Find(tab, size, hash[key], key, TRUE) IN
  /\ i # NoSlot
  /\ DOMAIN tab = 0 .. size - 1 /\ DOMAIN new = 0 .. size - 1
  /\ new[i].active /\ new[i].addr = key
  /\ \A j \in 0 .. size - 1 : j # i => new[j] = tab[j]

\* Filling the entry a probe returned keeps every entry reachable and leaves
\* one entry for an address.
LEMMA FillKeepsTable ==
  ASSUME NEW tab, NEW new, NEW size \in Nat \ {0}, NEW hash, NEW key,
         hash[key] \in 0 .. size - 1,
         Reachable(tab, size, hash), OneEntryPerKey(tab),
         Fills(tab, new, size, hash, key)
  PROVE  Reachable(new, size, hash) /\ OneEntryPerKey(new)
<1>0. PICK i : /\ i = Find(tab, size, hash[key], key, TRUE) /\ i # NoSlot
               /\ DOMAIN tab = 0 .. size - 1 /\ DOMAIN new = 0 .. size - 1
               /\ new[i].active /\ new[i].addr = key
               /\ \A j \in 0 .. size - 1 : j # i => new[j] = tab[j]
  BY DEF Fills
<1>1. /\ i \in 0 .. size - 1
      /\ Hit(tab, i, key) \/ ~tab[i].active
  BY <1>0, FindOrAllocate
<1>2. PICK d \in 0 .. size - 1 :
        /\ i = Slot(size, hash[key], d)
        /\ \A e \in 0 .. d - 1 : tab[Slot(size, hash[key], e)].active
  BY <1>0, FindOrAllocate
<1>3. \A j \in 0 .. size - 1 : tab[j].active => new[j].active
  BY <1>0
<1>4. \A j \in 0 .. size - 1 : j # i => ~Hit(tab, j, key)
  <2>1. CASE Hit(tab, i, key)
    BY <1>0, <1>1, <2>1 DEF Hit, OneEntryPerKey
  <2>2. CASE ~tab[i].active
    BY <1>0, <1>1, <2>2, FreeMeansAbsent
  <2> QED BY <1>1, <2>1, <2>2
<1>5. OneEntryPerKey(new)
  <2> SUFFICES ASSUME NEW j \in 0 .. size - 1, NEW k \in 0 .. size - 1,
                      new[j].active, new[k].active, new[j].addr = new[k].addr
               PROVE  j = k
    BY <1>0 DEF OneEntryPerKey
  <2>1. CASE j = i \/ k = i
    BY <1>0, <2>1, <1>4 DEF Hit
  <2>2. CASE j # i /\ k # i
    BY <1>0, <2>2 DEF OneEntryPerKey
  <2> QED BY <2>1, <2>2
<1>6. Reachable(new, size, hash)
  <2> SUFFICES ASSUME NEW j \in 0 .. size - 1, new[j].active
               PROVE  /\ hash[new[j].addr] \in 0 .. size - 1
                      /\ \E c \in 0 .. size - 1 :
                           /\ j = Slot(size, hash[new[j].addr], c)
                           /\ \A e \in 0 .. c - 1 :
                                new[Slot(size, hash[new[j].addr], e)].active
    BY DEF Reachable
  <2>1. CASE j = i
    <3>1. ASSUME NEW e \in 0 .. d - 1
          PROVE  Slot(size, hash[key], e) \in 0 .. size - 1
      <4>1. e \in Nat
        OBVIOUS
      <4> QED BY <4>1, SlotInTable
    <3> QED BY <1>0, <1>2, <1>3, <2>1, <3>1
  <2>2. CASE j # i
    <3>1. new[j] = tab[j]
      BY <1>0, <2>2
    <3>2. PICK c \in 0 .. size - 1 :
            /\ j = Slot(size, hash[tab[j].addr], c)
            /\ \A e \in 0 .. c - 1 : tab[Slot(size, hash[tab[j].addr], e)].active
      BY <3>1 DEF Reachable
    <3>3. hash[tab[j].addr] \in 0 .. size - 1
      BY <3>1 DEF Reachable
    <3>4. ASSUME NEW e \in 0 .. c - 1
          PROVE  Slot(size, hash[tab[j].addr], e) \in 0 .. size - 1
      <4>1. e \in Nat
        OBVIOUS
      <4> QED BY <3>3, <4>1, SlotInTable
    <3> QED BY <1>3, <3>1, <3>2, <3>3, <3>4
  <2> QED BY <2>1, <2>2
<1> QED BY <1>5, <1>6

\* Where the entry of a key is, every probe for the key returns it.
LEMMA FindIsTheEntry ==
  ASSUME NEW tab, NEW size \in Nat \ {0}, NEW hash, NEW key, NEW j \in 0 .. size - 1,
         hash[key] \in 0 .. size - 1, DOMAIN tab = 0 .. size - 1,
         Reachable(tab, size, hash), OneEntryPerKey(tab),
         Hit(tab, j, key)
  PROVE  \A alloc \in BOOLEAN : Find(tab, size, hash[key], key, alloc) = j
<1> TAKE alloc \in BOOLEAN
<1> DEFINE i == Find(tab, size, hash[key], key, alloc)
<1>1. PICK d \in 0 .. size - 1 : j = Slot(size, hash[key], d)
  BY DEF Reachable, Hit
<1>2. i # NoSlot
  <2>1. d \in Stops(tab, size, hash[key], key, alloc)
    BY <1>1 DEF Stops
  <2>2. /\ Stops(tab, size, hash[key], key, alloc) \in SUBSET Nat
        /\ Stops(tab, size, hash[key], key, alloc) # {}
    BY <2>1 DEF Stops
  <2>3. First(Stops(tab, size, hash[key], key, alloc)) \in Nat
    BY <2>2, FirstIsLeast
  <2>4. i = Slot(size, hash[key], First(Stops(tab, size, hash[key], key, alloc)))
    BY <2>2 DEF Find
  <2>5. i \in 0 .. size - 1
    BY <2>3, <2>4, SlotInTable
  <2> QED BY <2>5 DEF NoSlot
<1>3. CASE alloc = TRUE
  <2>1. i \in 0 .. size - 1 /\ (Hit(tab, i, key) \/ ~tab[i].active)
    BY <1>2, <1>3, FindOrAllocate
  <2>2. tab[i].active
    BY <1>2, <1>3, FreeMeansAbsent
  <2> QED BY <2>1, <2>2 DEF Hit, OneEntryPerKey
<1>4. CASE alloc = FALSE
  <2>1. i \in 0 .. size - 1 /\ Hit(tab, i, key)
    BY <1>2, <1>4, FindExisting
  <2> QED BY <2>1 DEF Hit, OneEntryPerKey
<1> QED BY <1>3, <1>4

\* A probe looks at every slot of its table.
LEMMA SlotCovers ==
  ASSUME NEW size \in Nat \ {0}, NEW start \in 0 .. size - 1, NEW j \in 0 .. size - 1
  PROVE  \E d \in 0 .. size - 1 : j = Slot(size, start, d)
<1>1. CASE start <= j
  <2>1. j - start \in 0 .. size - 1 /\ start + (j - start) = j /\ j % size = j
    BY <1>1
  <2> QED BY <2>1 DEF Slot
<1>2. CASE j < start
  <2>1. j + size - start \in 0 .. size - 1 /\ start + (j + size - start) = j + size
    BY <1>2
  <2>2. (j + size) % size = j
    OBVIOUS
  <2> QED BY <2>1, <2>2 DEF Slot
<1> QED BY <1>1, <1>2

\* So a probe that may not allocate fails only if no entry holds the key.
LEMMA NoSlotMeansAbsent ==
  ASSUME NEW tab, NEW size \in Nat \ {0}, NEW start \in 0 .. size - 1, NEW key,
         Find(tab, size, start, key, FALSE) = NoSlot
  PROVE  \A j \in 0 .. size - 1 : ~Hit(tab, j, key)
<1> DEFINE S == Stops(tab, size, start, key, FALSE)
<1>1. S = {}
  <2>1. SUFFICES ASSUME S # {} PROVE FALSE
    OBVIOUS
  <2>2. First(S) \in Nat
    <3>1. S \in SUBSET Nat
      BY DEF Stops
    <3> QED BY <2>1, <3>1, FirstIsLeast
  <2>3. Slot(size, start, First(S)) \in 0 .. size - 1
    BY <2>2, SlotInTable
  <2>4. Find(tab, size, start, key, FALSE) = Slot(size, start, First(S))
    BY <2>1 DEF Find
  <2>5. -1 \notin 0 .. size - 1
    OBVIOUS
  <2> HIDE DEF S
  <2> QED BY <2>3, <2>4, <2>5, Zenon DEF NoSlot
<1>2. TAKE j \in 0 .. size - 1
<1>3. PICK d \in 0 .. size - 1 : j = Slot(size, start, d)
  BY SlotCovers
<1> QED BY <1>1, <1>3 DEF Stops

\* And one that may allocate fails only in a table full of other keys.
LEMMA NoRoomMeansFull ==
  ASSUME NEW tab, NEW size \in Nat \ {0}, NEW start \in 0 .. size - 1, NEW key,
         Find(tab, size, start, key, TRUE) = NoSlot
  PROVE  \A j \in 0 .. size - 1 : tab[j].active /\ ~Hit(tab, j, key)
<1> DEFINE S == Stops(tab, size, start, key, TRUE)
<1>1. S = {}
  <2>1. SUFFICES ASSUME S # {} PROVE FALSE
    OBVIOUS
  <2>2. First(S) \in Nat
    <3>1. S \in SUBSET Nat
      BY DEF Stops
    <3> QED BY <2>1, <3>1, FirstIsLeast
  <2>3. Slot(size, start, First(S)) \in 0 .. size - 1
    BY <2>2, SlotInTable
  <2>4. Find(tab, size, start, key, TRUE) = Slot(size, start, First(S))
    BY <2>1 DEF Find
  <2>5. -1 \notin 0 .. size - 1
    OBVIOUS
  <2> HIDE DEF S
  <2> QED BY <2>3, <2>4, <2>5, Zenon DEF NoSlot
<1>2. TAKE j \in 0 .. size - 1
<1>3. PICK d \in 0 .. size - 1 : j = Slot(size, start, d)
  BY SlotCovers
<1> QED BY <1>1, <1>3 DEF Stops
=============================================================================
