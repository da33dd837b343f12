------------------------------ MODULE Asan_proofs ------------------------------
(***************************************************************************)
(* Proofs about the address sanitizer, for any number of threads, granules *)
(* of any size and any regions and globals that meet the assumptions of    *)
(* Asan: what the shadow says, and what an access check makes of it.       *)
(***************************************************************************)
EXTENDS Asan, SequenceTheorems, WellFoundedInduction, TLAPS

Where == {"run", "init", "map", "write", "report", "print", "stuck", "abort", "fault"}
Granule == 0 .. Granules - 1
Stores == Granule \X Value

---------------------------------------------------------------------------------
(* Granules.                                                                *)

LEMMA Sizes == Grain \in Nat /\ 2 <= Grain /\ Grain <= Poison /\ Granules \in Nat /\ 0 < Granules /\ Poison = 255
  BY AsanConstants DEF Poison

LEMMA DivisionRemainder ==
  ASSUME NEW m \in Int, NEW G \in Nat \ {0}
  PROVE  /\ m \div G \in Int /\ m % G \in 0 .. G - 1
         /\ m = (m \div G) * G + (m % G)
  OBVIOUS

LEMMA Products ==
  ASSUME NEW p \in Int, NEW q \in Int, NEW G \in Nat \ {0}
  PROVE  /\ p * G \in Int
         /\ p < q => p * G + G <= q * G
         /\ p <= q => p * G <= q * G
  OBVIOUS

(* An address is its granule and the place in it.                           *)
LEMMA Place ==
  ASSUME NEW a \in Int
  PROVE  /\ Shadow(a) \in Int /\ a % Grain \in 0 .. Grain - 1
         /\ Shadow(a) * Grain \in Int
         /\ a = Shadow(a) * Grain + (a % Grain)
<1>1. Grain \in Nat \ {0}
  BY Sizes
<1> QED
  BY <1>1, DivisionRemainder DEF Shadow

LEMMA ShadowIs ==
  ASSUME NEW a \in Int, NEW g \in Int
  PROVE  /\ g * Grain \in Int
         /\ Shadow(a) = g <=> (g * Grain <= a /\ a < g * Grain + Grain)
         /\ g < Shadow(a) <=> g * Grain + Grain <= a
         /\ Shadow(a) < g <=> a < g * Grain
<1>1. Grain \in Nat \ {0}
  BY Sizes
<1>2. /\ Shadow(a) \in Int /\ a % Grain \in 0 .. Grain - 1
      /\ Shadow(a) * Grain \in Int /\ a = Shadow(a) * Grain + (a % Grain)
  BY Place
<1>3. /\ g * Grain \in Int
      /\ g < Shadow(a) => g * Grain + Grain <= Shadow(a) * Grain
      /\ Shadow(a) < g => Shadow(a) * Grain + Grain <= g * Grain
  BY <1>1, <1>2, Products
<1> DEFINE x == Shadow(a)
           y == x * Grain
           z == g * Grain
           k == a % Grain
<1>4. /\ x \in Int /\ y \in Int /\ z \in Int /\ k \in 0 .. Grain - 1 /\ a = y + k
      /\ g < x => z + Grain <= y
      /\ x < g => y + Grain <= z
      /\ x = g => y = z
  BY <1>2, <1>3
<1> HIDE DEF x, y, z, k
<1>5. /\ x = g <=> (z <= a /\ a < z + Grain)
      /\ g < x <=> z + Grain <= a
      /\ x < g <=> a < z
  BY <1>1, <1>4
<1> QED
  BY <1>3, <1>5 DEF x, z

LEMMA ShadowMonotone ==
  ASSUME NEW a \in Int, NEW b \in Int
  PROVE  /\ a <= b => Shadow(a) <= Shadow(b)
         /\ Shadow(a) = Shadow(b) => (a <= b <=> a % Grain <= b % Grain)
         /\ Shadow(a) = Shadow(b) => b - a = (b % Grain) - (a % Grain)
<1> DEFINE x == Shadow(a)
           y == Shadow(b)
           p == x * Grain
           q == y * Grain
           i == a % Grain
           j == b % Grain
<1>1. /\ x \in Int /\ y \in Int /\ p \in Int /\ q \in Int /\ i \in Int /\ j \in Int
      /\ a = p + i /\ b = q + j
      /\ x = y => p = q
  BY Sizes, Place
<1>2. y < x => b < p /\ p <= a
  BY <1>1, ShadowIs
<1> HIDE DEF x, y, p, q, i, j
<1>3. /\ a <= b => x <= y
      /\ x = y => (a <= b <=> i <= j)
      /\ x = y => b - a = j - i
  BY <1>1, <1>2
<1> QED
  BY <1>3 DEF x, y, i, j

(* No granule is cut by an address that is a multiple of Grain.             *)
LEMMA Boundary ==
  ASSUME NEW a \in Int, a % Grain = 0, NEW b \in Int
  PROVE  /\ a <= b <=> Shadow(a) <= Shadow(b)
         /\ Shadow(b) \in Int /\ Shadow(a) \in Int
<1> DEFINE x == Shadow(a)
           p == x * Grain
<1>1. x \in Int /\ p \in Int /\ a = p
  BY Place
<1>2. Shadow(b) \in Int /\ (Shadow(b) < x <=> b < p)
  BY <1>1, Place, ShadowIs
<1> HIDE DEF x, p
<1> QED
  BY <1>1, <1>2 DEF x

LEMMA ShadowInMemory ==
  ASSUME NEW b \in Bytes
  PROVE  b \in Nat /\ Shadow(b) \in Granule
<1>1. Grain \in Nat \ {0} /\ Granules \in Nat /\ 0 \in Int
  BY Sizes
<1>2. Granules * Grain \in Int
  BY <1>1, Products
<1>3. b \in Nat /\ b < Granules * Grain
  BY <1>2 DEF Bytes
<1>4. Shadow(b) \in Int /\ ~(Shadow(b) < 0)
  BY <1>1, <1>3, Place, ShadowIs
<1>5. Shadow(b) < Granules
  BY <1>1, <1>3, <1>4, ShadowIs
<1> QED
  BY <1>1, <1>3, <1>4, <1>5 DEF Granule

(* Sums of multiples of Grain are multiples of it.                          *)
LEMMA SumOfMultiples ==
  ASSUME NEW a \in Int, NEW n \in Int, a % Grain = 0, n % Grain = 0
  PROVE  (a + n) % Grain = 0
<1>1. Grain \in Nat \ {0}
  BY Sizes
<1> DEFINE p == a \div Grain
           q == n \div Grain
<1>2. p \in Int /\ q \in Int /\ a = p * Grain /\ n = q * Grain
  BY <1>1, DivisionRemainder
<1>3. a + n = (p + q) * Grain /\ p + q \in Int
  BY <1>1, <1>2
<1>4. ((p + q) * Grain) % Grain = 0
  <2> HIDE DEF p, q
  <2>1. ASSUME NEW k \in Int PROVE (k * Grain) % Grain = 0
    BY <1>1
  <2> QED
    BY <1>2, <1>3, <2>1
<1> QED
  BY <1>3, <1>4

---------------------------------------------------------------------------------
(* Lists of stores.                                                         *)

\* The granules a list of stores names, and the last store to each.
Named(w) == {w[i][1] : i \in DOMAIN w}
IsLast(w, i) == \A j \in DOMAIN w : j > i => w[j][1] # w[i][1]
Lasts(w) == {w[i] : i \in {k \in DOMAIN w : IsLast(w, k)}}

LEMMA LastsEmpty == Named(<<>>) = {} /\ Lasts(<<>>) = {}
  BY DEF Named, Lasts

LEMMA NamedIsGranule ==
  ASSUME NEW w \in Seq(Stores)
  PROVE  Named(w) \subseteq Granule /\ Lasts(w) \subseteq Stores
<1>1. \A i \in DOMAIN w : w[i] \in Stores
  BY ElementOfSeq
<1> QED
  BY <1>1 DEF Named, Lasts, Stores

(* A store that comes after all others is the last one.                     *)
LEMMA LastsOfConcat ==
  ASSUME NEW T, NEW v \in Seq(T), NEW w \in Seq(T)
  PROVE  /\ v \o w \in Seq(T)
         /\ Named(v \o w) = Named(v) \cup Named(w)
         /\ \A p \in Lasts(v \o w) : p \in Lasts(w) \/ (p \in Lasts(v) /\ p[1] \notin Named(w))
<1> DEFINE c == v \o w
           m == Len(v)
           n == Len(w)
<1>1. /\ c \in Seq(T) /\ Len(c) = m + n /\ m \in Nat /\ n \in Nat
      /\ \A i \in 1 .. m + n : c[i] = IF i <= m THEN v[i] ELSE w[i - m]
  BY ConcatProperties, LenProperties
<1>2. DOMAIN c = 1 .. m + n /\ DOMAIN v = 1 .. m /\ DOMAIN w = 1 .. n
  BY <1>1, LenProperties
<1>3. \A i \in 1 .. m : c[i] = v[i] /\ i \in 1 .. m + n
  BY <1>1
<1>4. \A i \in 1 .. n : c[m + i] = w[i] /\ m + i \in 1 .. m + n
  BY <1>1
<1>5. \A i \in 1 .. m + n : i \in 1 .. m \/ (i - m \in 1 .. n /\ i = m + (i - m))
  BY <1>1
<1> HIDE DEF c, m, n
<1>6. Named(c) = Named(v) \cup Named(w)
  <2>1. Named(c) = {c[i][1] : i \in 1 .. m + n} /\ Named(v) = {v[i][1] : i \in 1 .. m}
        /\ Named(w) = {w[i][1] : i \in 1 .. n}
    BY <1>2 DEF Named
  <2>2. ASSUME NEW i \in 1 .. m + n PROVE c[i][1] \in Named(v) \cup Named(w)
    <3>1. CASE i \in 1 .. m
      BY <2>1, <3>1, <1>3
    <3>2. CASE i - m \in 1 .. n /\ i = m + (i - m)
      BY <2>1, <3>2, <1>4
    <3> QED BY <3>1, <3>2, <1>5
  <2>3. ASSUME NEW i \in 1 .. m PROVE v[i][1] \in Named(c)
    BY <2>1, <1>3
  <2>4. ASSUME NEW i \in 1 .. n PROVE w[i][1] \in Named(c)
    BY <2>1, <1>4
  <2>5. Named(c) \subseteq Named(v) \cup Named(w)
    BY <2>1, <2>2
  <2>6. Named(v) \subseteq Named(c) /\ Named(w) \subseteq Named(c)
    BY <2>1, <2>3, <2>4
  <2> QED BY <2>5, <2>6
<1>7. ASSUME NEW p \in Lasts(c) PROVE p \in Lasts(w) \/ (p \in Lasts(v) /\ p[1] \notin Named(w))
  <2>1. PICK k \in 1 .. m + n : p = c[k] /\ \A j \in 1 .. m + n : j > k => c[j][1] # c[k][1]
    BY <1>2 DEF Lasts, IsLast
  <2>2. CASE k \in 1 .. m
    <3>1. \A j \in 1 .. m : j > k => v[j][1] # v[k][1]
      BY <2>1, <2>2, <1>3
    <3>2. \A j \in 1 .. n : w[j][1] # p[1]
      <4>1. \A j \in 1 .. n : m + j > k
        BY <2>2, <1>1
      <4> QED BY <2>1, <4>1, <1>4
    <3> QED BY <2>1, <2>2, <3>1, <3>2, <1>2, <1>3 DEF Lasts, IsLast, Named
  <2>3. CASE k - m \in 1 .. n /\ k = m + (k - m)
    <3>1. \A j \in 1 .. n : j > k - m => m + j > k
      BY <2>3, <1>1
    <3>2. p = w[k - m] /\ \A j \in 1 .. n : j > k - m => w[j][1] # w[k - m][1]
      BY <2>1, <2>3, <3>1, <1>4
    <3> QED BY <2>3, <3>2, <1>2 DEF Lasts, IsLast
  <2> QED BY <2>2, <2>3, <1>5
<1> QED
  BY <1>1, <1>6, <1>7 DEF c

(* A list without its first store.                                          *)
LEMMA LastsOfTail ==
  ASSUME NEW T, NEW w \in Seq(T), w # <<>>
  PROVE  /\ Tail(w) \in Seq(T) /\ Head(w) = w[1] /\ w[1] \in T
         /\ Named(w) = Named(Tail(w)) \cup {w[1][1]}
         /\ Lasts(Tail(w)) \subseteq Lasts(w)
         /\ w[1][1] \notin Named(Tail(w)) => w[1] \in Lasts(w)
<1> DEFINE d == Tail(w)
           n == Len(w)
<1>1. /\ d \in Seq(T) /\ Head(w) = w[1] /\ n \in Nat /\ n # 0 /\ Len(d) = n - 1
      /\ \A i \in 1 .. n - 1 : d[i] = w[i + 1]
  BY HeadTailProperties, LenProperties, EmptySeq
<1>2. DOMAIN w = 1 .. n /\ DOMAIN d = 1 .. n - 1
  BY <1>1, LenProperties
<1>3. 1 \in 1 .. n /\ w[1] \in T
  BY <1>1, <1>2, ElementOfSeq
<1>4. \A i \in 1 .. n - 1 : d[i] = w[i + 1] /\ i + 1 \in 1 .. n
  BY <1>1
<1>5. \A i \in 1 .. n : i = 1 \/ (i - 1 \in 1 .. n - 1 /\ i = (i - 1) + 1)
  BY <1>1
<1> HIDE DEF d, n
<1>6. Named(w) = {w[i][1] : i \in 1 .. n} /\ Named(d) = {d[i][1] : i \in 1 .. n - 1}
  BY <1>2 DEF Named
<1>7. Named(w) = Named(d) \cup {w[1][1]}
  <2>1. ASSUME NEW i \in 1 .. n PROVE w[i][1] \in Named(d) \cup {w[1][1]}
    BY <1>4, <1>5, <1>6
  <2>2. ASSUME NEW i \in 1 .. n - 1 PROVE d[i][1] \in Named(w)
    BY <1>4, <1>6
  <2> QED BY <1>3, <1>6, <2>1, <2>2
<1>8. ASSUME NEW p \in Lasts(d) PROVE p \in Lasts(w)
  <2>1. PICK k \in 1 .. n - 1 : p = d[k] /\ \A j \in 1 .. n - 1 : j > k => d[j][1] # d[k][1]
    BY <1>2 DEF Lasts, IsLast
  <2>2. ASSUME NEW j \in 1 .. n, j > k + 1 PROVE w[j][1] # w[k + 1][1]
    <3>1. j - 1 \in 1 .. n - 1 /\ j = (j - 1) + 1 /\ j - 1 > k
      BY <2>2, <1>1
    <3> QED BY <2>1, <3>1, <1>4
  <2> QED BY <2>1, <2>2, <1>2, <1>4 DEF Lasts, IsLast
<1>9. ASSUME w[1][1] \notin Named(d) PROVE w[1] \in Lasts(w)
  <2>1. ASSUME NEW j \in 1 .. n, j > 1 PROVE w[j][1] # w[1][1]
    <3>1. j - 1 \in 1 .. n - 1 /\ j = (j - 1) + 1
      BY <2>1, <1>1
    <3> QED BY <3>1, <1>4, <1>6, <1>9
  <2> QED BY <2>1, <1>2, <1>3 DEF Lasts, IsLast
<1> QED
  BY <1>1, <1>3, <1>7, <1>8, <1>9 DEF d

---------------------------------------------------------------------------------
(* The stores of one range.                                                 *)

\* The granules of a range.
Touched(beg, size) == IF size = 0 THEN {} ELSE Shadow(beg) .. Shadow(beg + size - 1)

InMemory(beg, size) == size # 0 => {beg, beg + size - 1} \subseteq Bytes

LEMMA TouchedInMemory ==
  ASSUME NEW beg \in Nat, NEW size \in Nat, InMemory(beg, size)
  PROVE  /\ Touched(beg, size) \subseteq Granule
         /\ size # 0 => Shadow(beg) \in Granule /\ Shadow(beg + size - 1) \in Granule
                        /\ Shadow(beg) <= Shadow(beg + size - 1)
         /\ size # 0 => Shadow(beg) \in Touched(beg, size)
<1>1. CASE size = 0
  BY <1>1 DEF Touched
<1>2. CASE size # 0
  <2>1. Shadow(beg) \in Granule /\ Shadow(beg + size - 1) \in Granule
    BY <1>2, ShadowInMemory DEF InMemory
  <2>2. Shadow(beg) <= Shadow(beg + size - 1)
    BY <1>2, ShadowMonotone
  <2> QED BY <1>2, <2>1, <2>2, Sizes DEF Touched, Granule
<1> QED BY <1>1, <1>2

LEMMA FillStores ==
  ASSUME NEW beg \in Nat, NEW size \in Nat, InMemory(beg, size), NEW value \in Value
  PROVE  /\ Fill(beg, size, value) \in Seq(Stores)
         /\ Named(Fill(beg, size, value)) = Touched(beg, size)
         /\ \A p \in Lasts(Fill(beg, size, value)) : p[1] \in Touched(beg, size) /\ p[2] = value
<1>1. CASE size = 0
  BY <1>1, LastsEmpty, EmptySeq DEF Fill, Touched
<1>2. CASE size # 0
  <2> DEFINE x == Shadow(beg)
             y == Shadow(beg + size - 1)
             w == Fill(beg, size, value)
  <2>1. x \in Nat /\ y \in Nat /\ x <= y /\ x .. y \subseteq Granule /\ Touched(beg, size) = x .. y
    BY <1>2, TouchedInMemory DEF Touched, Granule
  <2>2. w = [i \in 1 .. y - x + 1 |-> <<x + i - 1, value>>]
    BY <1>2 DEF Fill
  <2> HIDE DEF x, y, w
  <2>3. \A i \in 1 .. y - x + 1 : x + i - 1 \in x .. y /\ <<x + i - 1, value>> \in Stores
    BY <2>1 DEF Stores
  <2>4. w \in Seq(Stores)
    <3>1. y - x + 1 \in Nat
      BY <2>1
    <3>2. w \in [1 .. y - x + 1 -> Stores]
      BY <2>2, <2>3, Zenon
    <3> QED BY <3>1, <3>2, SeqDef
  <2>5. DOMAIN w = 1 .. y - x + 1
        /\ \A i \in DOMAIN w : w[i] = <<x + i - 1, value>> /\ w[i][1] = x + i - 1 /\ w[i][2] = value
    BY <2>2
  <2>6. \A g \in x .. y : g - x + 1 \in 1 .. y - x + 1 /\ g = x + (g - x + 1) - 1
    BY <2>1
  <2>7. Named(w) = x .. y
    <3>1. Named(w) \subseteq x .. y
      <4>1. \A i \in DOMAIN w : w[i][1] \in x .. y
        BY <2>3, <2>5
      <4> QED BY <4>1 DEF Named
    <3>2. ASSUME NEW g \in x .. y PROVE g \in Named(w)
      <4>1. w[g - x + 1][1] = g
        BY <2>5, <2>6
      <4> QED BY <4>1, <2>5, <2>6 DEF Named
    <3> QED BY <3>1, <3>2
  <2>8. \A p \in Lasts(w) : p[1] \in x .. y /\ p[2] = value
    <3>1. \A i \in DOMAIN w : w[i][1] \in x .. y /\ w[i][2] = value
      BY <2>3, <2>5
    <3> QED BY <3>1 DEF Lasts
  <2> QED BY <2>1, <2>4, <2>7, <2>8 DEF w
<1> QED BY <1>1, <1>2

LEMMA Values == 0 \in Value /\ Poison \in Value /\ \A v \in 0 .. Grain - 1 : v \in Value
  BY Sizes DEF Value

(* After asan_poison_range the first granule keeps its good bytes, and the  *)
(* others are poisoned as a whole.                                          *)
LEMMA PoisonStores ==
  ASSUME NEW beg \in Nat, NEW size \in Nat, InMemory(beg, size)
  PROVE  /\ asan_poison_range(beg, size) \in Seq(Stores)
         /\ Named(asan_poison_range(beg, size)) = Touched(beg, size)
         /\ \A p \in Lasts(asan_poison_range(beg, size)) :
              /\ p[1] \in Touched(beg, size)
              /\ p[2] = IF p[1] = Shadow(beg) /\ beg % Grain # 0 THEN beg % Grain ELSE Poison
<1> DEFINE f == Fill(beg, size, Poison)
           k == beg % Grain
           rest == IF size > 0 /\ k # 0 THEN << <<Shadow(beg), k>> >> ELSE <<>>
<1>1. /\ f \in Seq(Stores) /\ Named(f) = Touched(beg, size)
      /\ \A p \in Lasts(f) : p[1] \in Touched(beg, size) /\ p[2] = Poison
  BY FillStores, Values
<1>2. k \in 0 .. Grain - 1 /\ k \in Value
  BY Place, Values
<1>3. asan_poison_range(beg, size) = f \o rest
  BY DEF asan_poison_range
<1>4. CASE size > 0 /\ k # 0
  <2> DEFINE e == <<Shadow(beg), k>>
  <2>1. Shadow(beg) \in Touched(beg, size) /\ Shadow(beg) \in Granule
    BY <1>4, TouchedInMemory
  <2>2. e \in Stores /\ e[1] = Shadow(beg) /\ e[2] = k
    BY <1>2, <2>1 DEF Stores
  <2>3. rest = <<e>>
    BY <1>4
  <2> HIDE DEF e, rest
  <2>4. rest \in Seq(Stores) /\ DOMAIN rest = {1} /\ rest[1] = e
    BY <2>2, <2>3
  <2>5. Named(rest) = {Shadow(beg)} /\ Lasts(rest) = {e}
    BY <2>2, <2>4 DEF Named, Lasts, IsLast
  <2>6. /\ f \o rest \in Seq(Stores) /\ Named(f \o rest) = Touched(beg, size) \cup {Shadow(beg)}
        /\ \A p \in Lasts(f \o rest) : p = e \/ (p \in Lasts(f) /\ p[1] # Shadow(beg))
    BY <1>1, <2>4, <2>5, LastsOfConcat
  <2> HIDE DEF f, k
  <2>7. \A p \in Lasts(f \o rest) :
              /\ p[1] \in Touched(beg, size)
              /\ p[2] = IF p[1] = Shadow(beg) /\ k # 0 THEN k ELSE Poison
    BY <1>1, <1>4, <2>1, <2>2, <2>6
  <2> QED BY <1>3, <2>1, <2>6, <2>7 DEF k
<1>5. CASE ~(size > 0 /\ k # 0)
  <2>1. rest = <<>> /\ f \o rest = f
    BY <1>1, <1>5, ConcatEmptySeq
  <2>2. \A p \in Lasts(f) :
              /\ p[1] \in Touched(beg, size)
              /\ p[2] = IF p[1] = Shadow(beg) /\ k # 0 THEN k ELSE Poison
    <3>1. CASE size = 0
      BY <3>1, <1>1 DEF Touched
    <3>2. CASE k = 0
      BY <3>2, <1>1
    <3> QED BY <3>1, <3>2, <1>5
  <2> QED BY <1>1, <1>3, <2>1, <2>2
<1> QED BY <1>4, <1>5

LEMMA ByteTouched ==
  ASSUME NEW beg \in Nat, NEW size \in Nat, NEW b \in beg .. beg + size - 1
  PROVE  Shadow(b) \in Touched(beg, size)
<1>1. b \in Int /\ beg <= b /\ b <= beg + size - 1 /\ size # 0 /\ beg + size - 1 \in Int
  OBVIOUS
<1>2. Shadow(b) \in Int /\ Shadow(beg) <= Shadow(b) /\ Shadow(b) <= Shadow(beg + size - 1)
      /\ Shadow(beg) \in Int /\ Shadow(beg + size - 1) \in Int
  BY <1>1, Place, ShadowMonotone
<1> QED BY <1>1, <1>2 DEF Touched

(* The bytes in the granules of a range are those before it, in it, after   *)
(* it.                                                                      *)
LEMMA BeforeAndAfter ==
  ASSUME NEW beg \in Nat, NEW size \in Nat, NEW b \in Nat, Shadow(b) \in Touched(beg, size)
  PROVE  /\ size # 0
         /\ b < beg => Shadow(b) = Shadow(beg) /\ b \in Shadow(beg) * Grain .. beg - 1
         /\ beg + size <= b => b \in beg + size .. (Shadow(beg + size - 1) + 1) * Grain - 1
<1> DEFINE x == Shadow(beg)
           y == Shadow(beg + size - 1)
           z == Shadow(b)
<1>1. size # 0
  BY DEF Touched
<1>2. /\ x \in Int /\ y \in Int /\ z \in Int
      /\ b < beg => z <= x
      /\ beg + size <= b => y <= z
  <2>1. beg \in Int /\ b \in Int /\ beg + size - 1 \in Int /\ (beg + size <= b => beg + size - 1 <= b)
    OBVIOUS
  <2>2. x \in Int /\ y \in Int /\ z \in Int
    BY <2>1, Place
  <2>3. b < beg => z <= x
    BY <2>1, ShadowMonotone
  <2>4. beg + size - 1 <= b => y <= z
    BY <2>1, ShadowMonotone
  <2> QED BY <2>1, <2>2, <2>3, <2>4
<1>3. x <= z /\ z <= y
  BY <1>1, <1>2 DEF Touched
<1>4. /\ x * Grain \in Int /\ (y + 1) * Grain \in Int
      /\ z = x => x * Grain <= b
      /\ z = y => b < y * Grain + Grain
  BY <1>2, ShadowIs
<1>5. (y + 1) * Grain = y * Grain + Grain
  <2>1. ASSUME NEW m \in Int, NEW G \in Nat PROVE (m + 1) * G = m * G + G
    OBVIOUS
  <2> QED BY <1>2, <2>1, Sizes
<1>6. y * Grain \in Int /\ Grain \in Int
  BY <1>2, ShadowIs, Sizes
<1> HIDE DEF x, y, z
<1>7. /\ b < beg => z = x /\ b \in x * Grain .. beg - 1
      /\ beg + size <= b => b \in beg + size .. (y + 1) * Grain - 1
  BY <1>2, <1>3, <1>4, <1>5, <1>6
<1> QED BY <1>1, <1>7 DEF x, y, z

---------------------------------------------------------------------------------
(* What the stores of a hook come to.                                       *)

\* A shadow byte v lets the byte b be accessed.
Says(v, b) == v = 0 \/ (v < Grain /\ b % Grain < v)

\* It is right for its granule if the bytes of S are the poisoned ones.
Right(g, v, S) == \A b \in Bytes : Shadow(b) = g => (Says(v, b) <=> b \notin S)

\* The bytes that may not be accessed when B are to be poisoned and L are lost.
Closed(B, L) == (B \ L) \cup (L \ B)

\* The stores w carry out a request that leaves B to be poisoned and L lost.
Carries(w, B, L) ==
  /\ w \in Seq(Stores) /\ B \subseteq Bytes /\ L \subseteq Bytes
  /\ Named(w) \cap Pending = {}
  /\ \A p \in Lasts(w) : Right(p[1], p[2], Closed(B, L))
  /\ \A b \in Bytes : Shadow(b) \notin Named(w) => (b \in Closed(B, L) <=> b \in Closed(bad, lost))

LEMMA NothingSaid ==
  ASSUME NEW b \in Int
  PROVE  ~Says(Poison, b) /\ Says(0, b)
  BY Sizes DEF Says

LEMMA RegionFacts ==
  ASSUME NEW r \in Regions
  PROVE  /\ r.beg \in Nat /\ r.size \in Nat /\ r.size # 0
         /\ InMemory(r.beg, r.size) /\ BytesOf(r) \subseteq Bytes
         /\ Alone(r) => Touched(r.beg, r.size) \cap Pending = {}
<1>1. r.beg \in Bytes /\ r.size \in Nat \ {0} /\ BytesOf(r) \subseteq Bytes
  BY AsanConstants
<1>2. r.beg \in Nat
  BY <1>1, ShadowInMemory
<1>3. InMemory(r.beg, r.size)
  BY <1>1, <1>2 DEF InMemory, BytesOf
<1> QED
  BY <1>1, <1>2, <1>3 DEF Touched, Alone

(* A poisoned range lets the bytes before it be accessed and no other.      *)
LEMMA PoisonSays ==
  ASSUME NEW beg \in Nat, NEW size \in Nat, InMemory(beg, size),
         NEW p \in Lasts(asan_poison_range(beg, size)), NEW b \in Bytes, Shadow(b) = p[1]
  PROVE  Says(p[2], b) <=> b < beg
<1> DEFINE k == beg % Grain
<1>1. /\ Shadow(b) \in Touched(beg, size)
      /\ p[2] = IF Shadow(b) = Shadow(beg) /\ k # 0 THEN k ELSE Poison
  BY PoisonStores
<1>2. b \in Nat /\ k \in 0 .. Grain - 1 /\ b % Grain \in 0 .. Grain - 1
  BY Place, ShadowInMemory
<1>3. Shadow(b) = Shadow(beg) => (beg <= b <=> k <= b % Grain)
  BY <1>2, ShadowMonotone
<1>4. b < beg => Shadow(b) = Shadow(beg)
  BY <1>1, <1>2, BeforeAndAfter
<1> HIDE DEF k
<1>5. CASE Shadow(b) = Shadow(beg) /\ k # 0
  <2>1. p[2] = k
    BY <1>1, <1>5
  <2> QED BY <1>2, <1>3, <1>5, <2>1, Sizes DEF Says
<1>6. CASE ~(Shadow(b) = Shadow(beg) /\ k # 0)
  <2>1. p[2] = Poison
    BY <1>1, <1>6
  <2>2. ~(b < beg)
    BY <1>2, <1>3, <1>4, <1>6
  <2> QED BY <1>2, <2>1, <2>2, NothingSaid
<1> QED
  BY <1>5, <1>6

(* The granules of a range hold the bytes before it, in it and after it, and *)
(* no others.                                                               *)
LEMMA RoundedIs ==
  ASSUME NEW r \in Regions
  PROVE  /\ Rounded(r) \subseteq Bytes
         /\ \A b \in Bytes : b \in Rounded(r) <=> Shadow(b) \in Touched(r.beg, r.size)
         /\ \A b \in Before(r) : b < r.beg /\ b \notin BytesOf(r) /\ b \notin After(r)
         /\ \A b \in After(r) : ~(b < r.beg) /\ b \notin BytesOf(r)
         /\ \A b \in BytesOf(r) : ~(b < r.beg)
<1> DEFINE x == Shadow(r.beg)
           last == r.beg + r.size - 1
           y == Shadow(last)
<1>1. /\ r.beg \in Nat /\ r.size \in Nat /\ r.size # 0 /\ InMemory(r.beg, r.size)
      /\ BytesOf(r) \subseteq Bytes
  BY RegionFacts
<1>2. /\ last \in Nat /\ r.beg <= last /\ last + 1 = r.beg + r.size
      /\ x \in Granule /\ y \in Granule /\ x <= y
      /\ Touched(r.beg, r.size) = x .. y
  <2>1. Touched(r.beg, r.size) = x .. y
    BY <1>1 DEF Touched
  <2> QED BY <1>1, <2>1, TouchedInMemory
<1>3. /\ x * Grain \in Int /\ y * Grain \in Int /\ Grain \in Nat
      /\ x * Grain <= r.beg /\ r.beg < x * Grain + Grain
      /\ y * Grain <= last /\ last < y * Grain + Grain
      /\ (y + 1) * Grain = y * Grain + Grain
  <2>1. x \in Int /\ y \in Int /\ r.beg \in Int /\ last \in Int
    BY <1>1, <1>2 DEF Granule
  <2>2. ASSUME NEW m \in Int, NEW G \in Nat PROVE (m + 1) * G = m * G + G
    OBVIOUS
  <2>3. (y + 1) * Grain = y * Grain + Grain
    BY <2>1, <2>2, Sizes
  <2> QED BY <2>1, <2>3, ShadowIs, Sizes
<1>4. y * Grain + Grain <= Granules * Grain /\ Granules * Grain \in Int /\ 0 <= x * Grain
  <2>1. Granules \in Int /\ Grain \in Nat \ {0} /\ y \in Int /\ x \in Int /\ y < Granules /\ 0 <= x
    BY <1>2, Sizes DEF Granule
  <2>2. 0 * Grain <= x * Grain /\ 0 * Grain = 0
    BY <2>1, Products
  <2> QED BY <2>1, <2>2, Products
<1> DEFINE p == x * Grain
           q == y * Grain + Grain
<1>5. /\ Before(r) = p .. r.beg - 1 /\ BytesOf(r) = r.beg .. last /\ After(r) = last + 1 .. q - 1
      /\ Bytes = 0 .. Granules * Grain - 1
  BY <1>2, <1>3 DEF Before, BytesOf, After, Bytes
<1>6. ASSUME NEW b \in Rounded(r) PROVE b \in Int /\ p <= b /\ b < q
  <2>1. b \in p .. r.beg - 1 \/ b \in r.beg .. last \/ b \in last + 1 .. q - 1
    BY <1>5 DEF Rounded
  <2>2. p \in Int /\ q \in Int /\ p <= r.beg /\ last < q /\ r.beg \in Nat /\ last \in Nat /\ r.beg <= last
    BY <1>1, <1>2, <1>3
  <2> HIDE DEF p, q, last
  <2> QED BY <2>1, <2>2
<1>7. Rounded(r) \subseteq Bytes
  BY <1>3, <1>4, <1>5, <1>6
<1>8. ASSUME NEW b \in Bytes, b \in Rounded(r) PROVE Shadow(b) \in x .. y
  <2>1. b \in Int /\ p <= b /\ b < q /\ x \in Int /\ y \in Int
    BY <1>2, <1>6, <1>8 DEF Granule
  <2>2. Shadow(b) \in Int /\ ~(Shadow(b) < x) /\ ~(y < Shadow(b))
    BY <1>3, <2>1, Place, ShadowIs
  <2> QED BY <2>1, <2>2
<1>9. ASSUME NEW b \in Bytes, Shadow(b) \in x .. y PROVE b \in Rounded(r)
  <2>1. b \in Nat /\ Shadow(b) \in Touched(r.beg, r.size)
    BY <1>2, <1>9, ShadowInMemory
  <2> QED BY <1>1, <2>1, BeforeAndAfter DEF Rounded, Before, BytesOf, After
<1>10. /\ \A b \in Before(r) : b < r.beg /\ b \notin BytesOf(r) /\ b \notin After(r)
       /\ \A b \in After(r) : ~(b < r.beg) /\ b \notin BytesOf(r)
       /\ \A b \in BytesOf(r) : ~(b < r.beg)
  BY <1>1, <1>2, <1>3, <1>5
<1> QED
  BY <1>2, <1>7, <1>8, <1>9, <1>10

LEMMA PoisonCarries ==
  ASSUME NEW r \in Regions, Alone(r), bad \subseteq Bytes, lost \subseteq Bytes
  PROVE  Carries(asan_poison_range(r.beg, r.size), bad \cup BytesOf(r),
                 (lost \ Rounded(r)) \cup (Before(r) \cap bad) \cup (After(r) \ bad))
<1> DEFINE w == asan_poison_range(r.beg, r.size)
           B == bad \cup BytesOf(r)
           L == (lost \ Rounded(r)) \cup (Before(r) \cap bad) \cup (After(r) \ bad)
<1>1. /\ r.beg \in Nat /\ r.size \in Nat /\ r.size # 0 /\ InMemory(r.beg, r.size)
      /\ BytesOf(r) \subseteq Bytes /\ Touched(r.beg, r.size) \cap Pending = {}
  BY RegionFacts
<1>2. /\ w \in Seq(Stores) /\ Named(w) = Touched(r.beg, r.size)
      /\ \A p \in Lasts(w) : p[1] \in Touched(r.beg, r.size)
  BY <1>1, PoisonStores
<1>3. /\ Rounded(r) \subseteq Bytes /\ Rounded(r) = Before(r) \cup BytesOf(r) \cup After(r)
      /\ \A b \in Bytes : b \in Rounded(r) <=> Shadow(b) \in Touched(r.beg, r.size)
  BY RoundedIs DEF Rounded
<1>4. ASSUME NEW b \in Rounded(r) PROVE b \notin Closed(B, L) <=> b < r.beg
  <2>1. CASE b \in Before(r)
    BY <1>4, <2>1, RoundedIs DEF Closed
  <2>2. CASE b \in BytesOf(r)
    BY <1>4, <2>2, RoundedIs DEF Closed
  <2>3. CASE b \in After(r)
    BY <1>4, <2>3, RoundedIs DEF Closed
  <2> QED BY <1>3, <1>4, <2>1, <2>2, <2>3
<1>5. ASSUME NEW p \in Lasts(w), NEW b \in Bytes, Shadow(b) = p[1]
      PROVE  Says(p[2], b) <=> b \notin Closed(B, L)
  <2>1. b \in Rounded(r)
    BY <1>2, <1>3, <1>5
  <2> QED BY <1>1, <1>4, <1>5, <2>1, PoisonSays
<1>6. ASSUME NEW b \in Bytes, Shadow(b) \notin Named(w) PROVE b \in Closed(B, L) <=> b \in Closed(bad, lost)
  <2>1. b \notin Before(r) /\ b \notin BytesOf(r) /\ b \notin After(r)
    BY <1>2, <1>3, <1>6
  <2> QED BY <1>3, <2>1 DEF Closed
<1> QED
  BY <1>1, <1>2, <1>3, <1>5, <1>6 DEF Carries, Right

LEMMA UnpoisonCarries ==
  ASSUME NEW r \in Regions, Alone(r), bad \subseteq Bytes, lost \subseteq Bytes
  PROVE  Carries(asan_unpoison_range(r.beg, r.size), bad \ BytesOf(r),
                 (lost \ Rounded(r)) \cup ((Before(r) \cup After(r)) \cap bad))
<1> DEFINE w == asan_unpoison_range(r.beg, r.size)
           B == bad \ BytesOf(r)
           L == (lost \ Rounded(r)) \cup ((Before(r) \cup After(r)) \cap bad)
<1>1. /\ r.beg \in Nat /\ r.size \in Nat /\ r.size # 0 /\ InMemory(r.beg, r.size)
      /\ BytesOf(r) \subseteq Bytes /\ Touched(r.beg, r.size) \cap Pending = {}
  BY RegionFacts
<1>2. /\ w \in Seq(Stores) /\ Named(w) = Touched(r.beg, r.size)
      /\ \A p \in Lasts(w) : p[1] \in Touched(r.beg, r.size) /\ p[2] = 0
  BY <1>1, FillStores, Values DEF asan_unpoison_range
<1>3. /\ Rounded(r) \subseteq Bytes /\ Rounded(r) = Before(r) \cup BytesOf(r) \cup After(r)
      /\ \A b \in Bytes : b \in Rounded(r) <=> Shadow(b) \in Touched(r.beg, r.size)
  BY RoundedIs DEF Rounded
<1>4. ASSUME NEW b \in Rounded(r) PROVE b \notin Closed(B, L)
  <2>1. CASE b \in Before(r) \cup After(r)
    BY <1>4, <2>1, RoundedIs DEF Closed
  <2>2. CASE b \in BytesOf(r)
    BY <1>4, <2>2, RoundedIs DEF Closed
  <2> QED BY <1>3, <1>4, <2>1, <2>2
<1>5. ASSUME NEW p \in Lasts(w), NEW b \in Bytes, Shadow(b) = p[1]
      PROVE  Says(p[2], b) <=> b \notin Closed(B, L)
  <2>1. b \in Rounded(r) /\ b \in Int
    BY <1>2, <1>3, <1>5, ShadowInMemory
  <2> QED BY <1>2, <1>4, <2>1, NothingSaid
<1>6. ASSUME NEW b \in Bytes, Shadow(b) \notin Named(w) PROVE b \in Closed(B, L) <=> b \in Closed(bad, lost)
  <2>1. b \notin Before(r) /\ b \notin BytesOf(r) /\ b \notin After(r)
    BY <1>2, <1>3, <1>6
  <2> QED BY <1>3, <2>1 DEF Closed
<1> QED
  BY <1>1, <1>2, <1>3, <1>5, <1>6 DEF Carries, Right

---------------------------------------------------------------------------------
(* A series of lists, one after the other.                                  *)

Flattens(f, ss, n) == f = [i \in 1 .. n |-> IF i = 1 THEN ss[i] ELSE f[i - 1] \o ss[i]]

LEMMA FlattenIs ==
  ASSUME NEW ss, Len(ss) # 0
  PROVE  FlattenSeq(ss) = (CHOOSE f : Flattens(f, ss, Len(ss)))[Len(ss)]
  BY DEF FlattenSeq, Flattens

LEMMA Induction ==
  ASSUME NEW S, 0 \in S, \A n \in Nat : n \in S => n + 1 \in S
  PROVE  \A n \in Nat : n \in S
<1> SUFFICES ASSUME Nat \ S # {} PROVE FALSE
  OBVIOUS
<1>1. PICK m \in Nat \ S : \A j \in Nat : <<j, m>> \in OpToRel(<, Nat) => j \notin Nat \ S
  BY NatLessThanWellFounded, WFMin, Zenon
<1>2. m # 0 /\ m - 1 \in Nat /\ m = (m - 1) + 1 /\ m \in Nat /\ m - 1 < m
  OBVIOUS
<1>3. <<m - 1, m>> \in OpToRel(<, Nat)
  BY <1>2 DEF OpToRel
<1>4. m - 1 \notin Nat \ S
  BY <1>1, <1>2, <1>3, Zenon
<1> QED
  BY <1>2, <1>4

LEMMA FlattenExists ==
  ASSUME NEW ss
  PROVE  \A n \in Nat : \E f : Flattens(f, ss, n + 1)
<1> DEFINE S == {n \in Nat : \E f : Flattens(f, ss, n + 1)}
<1>1. 0 \in S
  <2> DEFINE f == [i \in 1 .. 0 + 1 |-> ss[i]]
  <2>1. f = [i \in 1 .. 0 + 1 |-> IF i = 1 THEN ss[i] ELSE f[i - 1] \o ss[i]]
    <3>1. \A i \in 1 .. 0 + 1 : i = 1
      OBVIOUS
    <3> QED BY <3>1
  <2> QED BY <2>1 DEF Flattens
<1>2. ASSUME NEW n \in Nat, n \in S PROVE n + 1 \in S
  <2>1. PICK f : Flattens(f, ss, n + 1)
    BY <1>2
  <2> DEFINE last == f[n + 1] \o ss[n + 2]
             g == [i \in 1 .. n + 2 |-> IF i <= n + 1 THEN f[i] ELSE last]
  <2>2. \A i \in 1 .. n + 1 : f[i] = IF i = 1 THEN ss[i] ELSE f[i - 1] \o ss[i]
    BY <2>1 DEF Flattens
  <2>3. \A i \in 1 .. n + 2 : g[i] = IF i = 1 THEN ss[i] ELSE g[i - 1] \o ss[i]
    <3>1. SUFFICES ASSUME NEW i \in 1 .. n + 2
                   PROVE  g[i] = IF i = 1 THEN ss[i] ELSE g[i - 1] \o ss[i]
      OBVIOUS
    <3>2. CASE i = n + 2
      <4>1. i # 1 /\ i - 1 = n + 1 /\ n + 1 \in 1 .. n + 2 /\ ~(i <= n + 1) /\ n + 1 <= n + 1
        BY <3>2
      <4>2. g[i] = last /\ g[n + 1] = f[n + 1]
        BY <4>1, Zenon
      <4> QED BY <3>2, <4>1, <4>2, Zenon
    <3>3. CASE i # n + 2
      <4>1. i \in 1 .. n + 1 /\ g[i] = f[i] /\ (i # 1 => i - 1 \in 1 .. n + 1)
        BY <3>3
      <4>2. i # 1 => g[i - 1] = f[i - 1]
        BY <4>1
      <4> QED BY <2>2, <4>1, <4>2, Zenon
    <3> QED BY <3>2, <3>3
  <2>4. g = [i \in 1 .. n + 2 |-> IF i = 1 THEN ss[i] ELSE g[i - 1] \o ss[i]]
    <3> HIDE DEF last
    <3>1. g = [i \in 1 .. n + 2 |-> g[i]]
      OBVIOUS
    <3> HIDE DEF g
    <3> QED BY <2>3, <3>1, Zenon
  <2>5. n + 2 = (n + 1) + 1
    OBVIOUS
  <2>6. Flattens(g, ss, (n + 1) + 1)
    BY <2>4, <2>5, Zenon DEF Flattens
  <2> QED BY <2>6
<1> HIDE DEF S
<1>3. \A n \in Nat : n \in S
  BY <1>1, <1>2, Induction
<1> QED
  BY <1>3 DEF S

(* What FlattenSeq makes of a series: every granule that one of its lists   *)
(* names, and no store is the last to its granule but the last of a list.   *)
LEMMA FlattenStores ==
  ASSUME NEW T, NEW ss \in Seq(Seq(T))
  PROVE  /\ FlattenSeq(ss) \in Seq(T)
         /\ \A i \in DOMAIN ss : Named(ss[i]) \subseteq Named(FlattenSeq(ss))
         /\ \A g \in Named(FlattenSeq(ss)) : \E i \in DOMAIN ss : g \in Named(ss[i])
         /\ \A p \in Lasts(FlattenSeq(ss)) : \E i \in DOMAIN ss : p \in Lasts(ss[i])
<1> DEFINE N == Len(ss)
<1>1. N \in Nat /\ DOMAIN ss = 1 .. N /\ \A i \in 1 .. N : ss[i] \in Seq(T)
  BY LenProperties, ElementOfSeq
<1>2. CASE N = 0
  <2>1. FlattenSeq(ss) = ss /\ ss = <<>>
    BY <1>2, EmptySeq DEF FlattenSeq
  <2> QED BY <1>1, <1>2, <2>1, LastsEmpty, EmptySeq
<1>3. CASE N # 0
  <2> DEFINE f == CHOOSE f : Flattens(f, ss, N)
             UpTo(n) == /\ f[n] \in Seq(T)
                        /\ \A i \in 1 .. n : Named(ss[i]) \subseteq Named(f[n])
                        /\ \A g \in Named(f[n]) : \E i \in 1 .. n : g \in Named(ss[i])
                        /\ \A p \in Lasts(f[n]) : \E i \in 1 .. n : p \in Lasts(ss[i])
             S == {n \in Nat : n + 1 <= N => UpTo(n + 1)}
  <2>1. Flattens(f, ss, N)
    <3>1. N - 1 \in Nat /\ N = (N - 1) + 1
      BY <1>1, <1>3
    <3>2. \E h : Flattens(h, ss, N)
      BY <3>1, FlattenExists, Zenon
    <3> QED BY <3>2, Zenon
  <2>2. FlattenSeq(ss) = f[N]
    BY <1>3, FlattenIs
  <2> HIDE DEF f, N
  <2>3. \A i \in 1 .. N : f[i] = IF i = 1 THEN ss[i] ELSE f[i - 1] \o ss[i]
    BY <2>1 DEF Flattens
  <2>4. UpTo(1)
    <3>1. 1 \in 1 .. N /\ f[1] = ss[1]
      BY <1>1, <1>3, <2>3
    <3>2. \A i \in 1 .. 1 : i = 1
      OBVIOUS
    <3>3. 1 \in 1 .. 1
      OBVIOUS
    <3> QED BY <1>1, <3>1, <3>2, <3>3, Zenon
  <2>5. ASSUME NEW n \in Nat \ {0}, n + 1 <= N, UpTo(n) PROVE UpTo(n + 1)
    <3>1. /\ n + 1 \in 1 .. N /\ n + 1 # 1 /\ (n + 1) - 1 = n
          /\ \A i \in 1 .. n + 1 : i \in 1 .. n \/ i = n + 1
          /\ n + 1 \in 1 .. n + 1 /\ \A i \in 1 .. n : i \in 1 .. n + 1
      <4>1. N \in Nat /\ n + 1 <= N
        BY <1>1, <2>5
      <4> QED BY <4>1
    <3>2. f[n + 1] = f[n] \o ss[n + 1] /\ ss[n + 1] \in Seq(T) /\ f[n] \in Seq(T)
      BY <1>1, <2>3, <2>5, <3>1
    <3>3. /\ f[n + 1] \in Seq(T)
          /\ Named(f[n + 1]) = Named(f[n]) \cup Named(ss[n + 1])
          /\ \A p \in Lasts(f[n + 1]) : p \in Lasts(ss[n + 1]) \/ p \in Lasts(f[n])
      BY <3>2, LastsOfConcat
    <3>4. \A i \in 1 .. n + 1 : Named(ss[i]) \subseteq Named(f[n + 1])
      BY <2>5, <3>1, <3>3
    <3>5. \A g \in Named(f[n + 1]) : \E i \in 1 .. n + 1 : g \in Named(ss[i])
      BY <2>5, <3>1, <3>3
    <3>6. \A p \in Lasts(f[n + 1]) : \E i \in 1 .. n + 1 : p \in Lasts(ss[i])
      BY <2>5, <3>1, <3>3
    <3> QED BY <3>3, <3>4, <3>5, <3>6
  <2> HIDE DEF UpTo
  <2>6. 0 \in S
    BY <2>4
  <2>7. \A n \in Nat : n \in S => n + 1 \in S
    <3>1. ASSUME NEW n \in Nat, n + 1 <= N => UpTo(n + 1), (n + 1) + 1 <= N
          PROVE  UpTo((n + 1) + 1)
      <4>1. n + 1 \in Nat \ {0} /\ n + 1 <= N
        BY <1>1, <3>1
      <4> QED BY <2>5, <3>1, <4>1
    <3> QED BY <3>1
  <2> HIDE DEF S
  <2>8. N - 1 \in S
    <3>1. \A n \in Nat : n \in S
      BY <2>6, <2>7, Induction
    <3> QED BY <1>1, <1>3, <3>1
  <2>9. UpTo(N)
    BY <1>1, <1>3, <2>8 DEF S
  <2> QED BY <1>1, <2>2, <2>9, Zenon DEF UpTo
<1> QED BY <1>2, <1>3

---------------------------------------------------------------------------------
(* Ranges of whole granules.                                                *)

Aligned(beg, size) ==
  beg \in Nat /\ size \in Nat /\ beg % Grain = 0 /\ size % Grain = 0 /\ beg .. beg + size - 1 \subseteq Bytes

LEMMA AlignedRange ==
  ASSUME NEW beg, NEW size, Aligned(beg, size)
  PROVE  /\ InMemory(beg, size) /\ (beg + size) % Grain = 0
         /\ \A b \in Bytes : Shadow(b) \in Touched(beg, size) <=> b \in beg .. beg + size - 1
<1>1. beg \in Nat /\ size \in Nat /\ beg % Grain = 0 /\ size % Grain = 0 /\ beg .. beg + size - 1 \subseteq Bytes
  BY DEF Aligned
<1>2. InMemory(beg, size)
  BY <1>1 DEF InMemory
<1>3. (beg + size) % Grain = 0
  BY <1>1, SumOfMultiples
<1>4. ASSUME NEW b \in Bytes, Shadow(b) \in Touched(beg, size) PROVE b \in beg .. beg + size - 1
  <2>1. b \in Nat /\ size # 0
    BY <1>4, ShadowInMemory DEF Touched
  <2> DEFINE end == beg + size
  <2>2. end \in Int /\ end - 1 \in Int /\ beg + size - 1 = end - 1 /\ ~(end <= end - 1)
    BY <1>1
  <2>3. Shadow(beg) <= Shadow(b) /\ Shadow(b) <= Shadow(end - 1)
    BY <1>1, <1>4, <2>1, <2>2 DEF Touched
  <2>4. beg <= b
    BY <1>1, <2>1, <2>3, Boundary
  <2>5. end % Grain = 0
    BY <1>3
  <2> HIDE DEF end
  <2>6. /\ Shadow(end) \in Int /\ Shadow(b) \in Int /\ Shadow(end - 1) \in Int
        /\ end <= b => Shadow(end) <= Shadow(b)
        /\ Shadow(end) <= Shadow(end - 1) => end <= end - 1
    BY <2>1, <2>2, <2>5, Boundary
  <2>7. b < end
    BY <2>1, <2>2, <2>3, <2>6
  <2> QED BY <1>1, <2>1, <2>4, <2>7 DEF end
<1>5. ASSUME NEW b \in beg .. beg + size - 1 PROVE Shadow(b) \in Touched(beg, size)
  BY <1>1, ByteTouched
<1> QED
  BY <1>2, <1>3, <1>4, <1>5

(* misan_set_shadow fills the granules of its range.                        *)
LEMMA SetShadowIsFill ==
  ASSUME NEW beg, NEW size, Aligned(beg, size), NEW value
  PROVE  misan_set_shadow(beg, size, value) = Fill(beg, size, value)
<1> DEFINE n == size \div Grain
           x == Shadow(beg)
<1>1. beg \in Nat /\ size \in Nat /\ beg % Grain = 0 /\ size % Grain = 0
  BY DEF Aligned
<1>2. Grain \in Nat \ {0}
  BY Sizes
<1>3. n \in Int /\ size = n * Grain /\ x \in Int /\ beg = x * Grain
  <2>1. n \in Int /\ size = n * Grain + (size % Grain) /\ n * Grain \in Int
    BY <1>1, <1>2, DivisionRemainder
  <2>2. x \in Int /\ beg = x * Grain + (beg % Grain) /\ x * Grain \in Int
    BY <1>1, Place
  <2> HIDE DEF n, x
  <2> QED BY <1>1, <2>1, <2>2
<1>4. CASE size = 0
  <2>1. n = 0
    <3>1. ASSUME NEW m \in Int, NEW G \in Nat \ {0}, m * G = 0 PROVE m = 0
      BY <3>1
    <3> QED BY <1>2, <1>3, <1>4, <3>1
  <2> HIDE DEF n
  <2>2. [i \in 1 .. n |-> <<Shadow(beg) + i - 1, value>>] = <<>>
    BY <2>1
  <2> QED BY <1>4, <2>2 DEF Fill, misan_set_shadow, n
<1>5. CASE size # 0
  <2>1. Shadow(beg + size - 1) = x + n - 1
    <3> DEFINE g == x + n - 1
    <3>1. g \in Int /\ beg + size - 1 \in Int
      BY <1>1, <1>3
    <3>2. g * Grain + Grain = beg + size
      <4>1. ASSUME NEW a \in Int, NEW m \in Int, NEW G \in Nat PROVE (a + m - 1) * G + G = a * G + m * G
        OBVIOUS
      <4>2. g * Grain + Grain = x * Grain + n * Grain
        BY <1>2, <1>3, <4>1
      <4> QED BY <1>3, <4>2
    <3>3. g * Grain \in Int
      BY <3>1, ShadowIs
    <3> HIDE DEF g
    <3>4. g * Grain <= beg + size - 1 /\ beg + size - 1 < g * Grain + Grain
      BY <1>1, <1>2, <3>2, <3>3
    <3>5. Shadow(beg + size - 1) = g
      BY <3>1, <3>4, ShadowIs
    <3> QED BY <3>5 DEF g
  <2> HIDE DEF n, x
  <2>2. (x + n - 1) - x + 1 = n
    BY <1>3
  <2> QED BY <1>5, <2>1, <2>2 DEF Fill, misan_set_shadow, n, x
<1> QED
  BY <1>4, <1>5

LEMMA FrameCarries ==
  ASSUME NEW r \in Frames, NEW value \in {0, Poison}, Alone(r), bad \subseteq Bytes, lost \subseteq Bytes
  PROVE  Carries(misan_set_shadow(r.beg, r.size, value),
                 IF value = 0 THEN bad \ BytesOf(r) ELSE bad \cup BytesOf(r), lost \ BytesOf(r))
<1> DEFINE w == misan_set_shadow(r.beg, r.size, value)
           B == IF value = 0 THEN bad \ BytesOf(r) ELSE bad \cup BytesOf(r)
           L == lost \ BytesOf(r)
           S == Closed(B, L)
<1>1. Aligned(r.beg, r.size) /\ BytesOf(r) \subseteq Bytes /\ r.beg \in Nat /\ r.size \in Nat
  BY AsanConstants DEF Aligned, BytesOf
<1>2. /\ InMemory(r.beg, r.size)
      /\ \A b \in Bytes : Shadow(b) \in Touched(r.beg, r.size) <=> b \in BytesOf(r)
  BY <1>1, AlignedRange DEF BytesOf
<1>3. w = Fill(r.beg, r.size, value)
  BY <1>1, SetShadowIsFill
<1>4. /\ w \in Seq(Stores) /\ Named(w) = Touched(r.beg, r.size)
      /\ \A p \in Lasts(w) : p[1] \in Touched(r.beg, r.size) /\ p[2] = value
  BY <1>1, <1>2, <1>3, FillStores, Values
<1>5. Touched(r.beg, r.size) \cap Pending = {}
  BY <1>1 DEF Touched, Alone
<1>6. B \subseteq Bytes /\ L \subseteq Bytes
  BY <1>1
<1>7. ASSUME NEW p \in Lasts(w), NEW b \in Bytes, Shadow(b) = p[1]
      PROVE  Says(p[2], b) <=> b \notin S
  <2>1. b \in BytesOf(r) /\ b \in Int
    BY <1>2, <1>4, <1>7, ShadowInMemory
  <2>2. (value = 0 /\ p[2] = 0 /\ b \notin S) \/ (p[2] = Poison /\ b \in S)
    BY <1>4, <2>1, Sizes DEF Closed
  <2> QED BY <2>1, <2>2, NothingSaid
<1>8. ASSUME NEW b \in Bytes, Shadow(b) \notin Named(w) PROVE b \in S <=> b \in Closed(bad, lost)
  BY <1>2, <1>4, <1>8 DEF Closed
<1> QED
  BY <1>4, <1>5, <1>6, <1>7, <1>8 DEF Carries, Right

---------------------------------------------------------------------------------
(* Globals.                                                                 *)

GlobalOK(g) ==
  /\ g \in [beg : Nat, size : Nat, padded : Nat] /\ g.size <= g.padded
  /\ Aligned(g.beg, g.padded)

LEMMA NextGranule ==
  ASSUME NEW a \in Int
  PROVE  Shadow(a) \in Int /\ Shadow(a + 1) \in Int /\ Shadow(a + 1) <= Shadow(a) + 1
<1> DEFINE g == Shadow(a) + 1
<1>1. Shadow(a) \in Int /\ Shadow(a + 1) \in Int /\ g \in Int /\ a + 1 \in Int
  BY Place
<1>2. /\ g * Grain \in Int
      /\ g < Shadow(a + 1) => g * Grain + Grain <= a + 1
      /\ Shadow(a) < g <=> a < g * Grain
  BY <1>1, ShadowIs
<1> HIDE DEF g
<1>3. Shadow(a) < g
  BY <1>1 DEF g
<1>4. ~(g < Shadow(a + 1))
  BY <1>1, <1>2, <1>3, Sizes
<1> QED BY <1>1, <1>4 DEF g

(* A range in two parts touches what its parts touch.                       *)
LEMMA TouchedParts ==
  ASSUME NEW beg \in Nat, NEW size \in Nat, NEW more \in Nat,
         NEW middle, middle = beg + size, NEW whole, whole = size + more
  PROVE  Touched(beg, whole) = Touched(beg, size) \cup Touched(middle, more)
<1>1. CASE size = 0 \/ more = 0
  BY <1>1 DEF Touched
<1>2. CASE size # 0 /\ more # 0
  <2> DEFINE x == Shadow(beg)
             m == Shadow(beg + size - 1)
             n == Shadow(middle)
             y == Shadow(beg + whole - 1)
  <2>1. beg \in Int /\ beg + size - 1 \in Int /\ middle \in Int /\ beg + whole - 1 \in Int
        /\ beg <= beg + size - 1 /\ beg + size - 1 <= middle /\ middle <= beg + whole - 1
        /\ middle = (beg + size - 1) + 1
    BY <1>2
  <2>2. x \in Int /\ m \in Int /\ n \in Int /\ y \in Int
    BY <2>1, Place
  <2>3. x <= m /\ m <= n /\ n <= y
    BY <2>1, ShadowMonotone
  <2>4. n <= m + 1
    BY <2>1, NextGranule
  <2>5. Touched(beg, size) = x .. m /\ Touched(middle, more) = n .. y
    <3>1. middle + more - 1 = beg + whole - 1
      OBVIOUS
    <3> QED BY <1>2, <3>1 DEF Touched
  <2>6. Touched(beg, whole) = x .. y
    BY <1>2 DEF Touched
  <2> HIDE DEF x, m, n, y
  <2>7. x .. y = (x .. m) \cup (n .. y)
    BY <2>2, <2>3, <2>4
  <2> QED BY <2>5, <2>6, <2>7
<1> QED BY <1>1, <1>2

(* Registering a global lets its bytes be accessed and not its redzone.     *)
LEMMA RegisterStores ==
  ASSUME NEW g, GlobalOK(g)
  PROVE  /\ RegisterWrites(g) \in Seq(Stores)
         /\ Named(RegisterWrites(g)) = Touched(g.beg, g.padded)
         /\ \A p \in Lasts(RegisterWrites(g)) : \A b \in Bytes : Shadow(b) = p[1] =>
              b \in g.beg .. g.beg + g.padded - 1 /\ (Says(p[2], b) <=> b < g.beg + g.size)
<1> DEFINE e == g.beg + g.size
           rest == g.padded - g.size
           u == asan_unpoison_range(g.beg, g.size)
           v == asan_poison_range(e, rest)
<1>1. /\ g.beg \in Nat /\ g.size \in Nat /\ g.padded \in Nat /\ e \in Nat /\ rest \in Nat
      /\ g.padded = g.size + rest /\ e + rest = g.beg + g.padded
      /\ Aligned(g.beg, g.padded)
  BY DEF GlobalOK
<1>2. g.beg .. g.beg + g.padded - 1 \subseteq Bytes
  BY <1>1 DEF Aligned
<1>3. InMemory(g.beg, g.size) /\ InMemory(e, rest)
  BY <1>1, <1>2 DEF InMemory
<1>4. /\ u \in Seq(Stores) /\ Named(u) = Touched(g.beg, g.size)
      /\ \A p \in Lasts(u) : p[1] \in Touched(g.beg, g.size) /\ p[2] = 0
  BY <1>1, <1>3, FillStores, Values DEF asan_unpoison_range
<1>5. /\ v \in Seq(Stores) /\ Named(v) = Touched(e, rest)
      /\ \A p \in Lasts(v) : p[1] \in Touched(e, rest)
  BY <1>1, <1>3, PoisonStores
<1>6. Touched(g.beg, g.padded) = Touched(g.beg, g.size) \cup Touched(e, rest)
  <2>1. e = g.beg + g.size
    OBVIOUS
  <2>2. g.beg \in Nat /\ g.size \in Nat /\ rest \in Nat /\ g.padded = g.size + rest
    BY <1>1
  <2> HIDE DEF e, rest
  <2>3. \A b, s, m, n, z : b \in Nat /\ s \in Nat /\ m \in Nat /\ n = s + m /\ z = b + s =>
          Touched(b, n) = Touched(b, s) \cup Touched(z, m)
    BY TouchedParts
  <2> QED BY <2>1, <2>2, <2>3
<1>7. RegisterWrites(g) = u \o v
  BY DEF RegisterWrites
<1>8. /\ u \o v \in Seq(Stores) /\ Named(u \o v) = Touched(g.beg, g.padded)
      /\ \A p \in Lasts(u \o v) : p \in Lasts(v) \/ (p \in Lasts(u) /\ p[1] \notin Touched(e, rest))
  BY <1>4, <1>5, <1>6, LastsOfConcat
<1>9. ASSUME NEW p \in Lasts(u \o v), NEW b \in Bytes, Shadow(b) = p[1]
      PROVE  b \in g.beg .. g.beg + g.padded - 1 /\ (Says(p[2], b) <=> b < e)
  <2>1. Shadow(b) \in Touched(g.beg, g.padded)
    BY <1>4, <1>5, <1>6, <1>8, <1>9
  <2>2. b \in g.beg .. g.beg + g.padded - 1 /\ b \in Nat
    BY <1>1, <2>1, AlignedRange, ShadowInMemory
  <2>3. CASE p \in Lasts(v)
    BY <1>1, <1>3, <1>9, <2>2, <2>3, PoisonSays
  <2>4. CASE p \in Lasts(u) /\ p[1] \notin Touched(e, rest)
    <3>1. Says(p[2], b)
      BY <1>4, <2>2, <2>4, NothingSaid
    <3>2. b \in e .. e + rest - 1 => FALSE
      BY <1>1, <1>9, <2>4, ByteTouched
    <3>3. b < e
      BY <1>1, <2>2, <3>2
    <3> QED BY <2>2, <3>1, <3>3
  <2> QED BY <1>8, <2>3, <2>4
<1> QED
  BY <1>7, <1>8, <1>9

LEMMA UnregisterStores ==
  ASSUME NEW g, GlobalOK(g)
  PROVE  /\ UnregisterWrites(g) \in Seq(Stores)
         /\ Named(UnregisterWrites(g)) = Touched(g.beg, g.padded)
         /\ \A p \in Lasts(UnregisterWrites(g)) : \A b \in Bytes : Shadow(b) = p[1] =>
              b \in g.beg .. g.beg + g.padded - 1 /\ ~Says(p[2], b)
<1> DEFINE v == asan_poison_range(g.beg, g.padded)
<1>1. g.beg \in Nat /\ g.padded \in Nat /\ Aligned(g.beg, g.padded)
  BY DEF GlobalOK
<1>2. InMemory(g.beg, g.padded)
  BY <1>1, AlignedRange
<1>3. /\ v \in Seq(Stores) /\ Named(v) = Touched(g.beg, g.padded)
      /\ \A p \in Lasts(v) : p[1] \in Touched(g.beg, g.padded)
  BY <1>1, <1>2, PoisonStores
<1>4. ASSUME NEW p \in Lasts(v), NEW b \in Bytes, Shadow(b) = p[1]
      PROVE  b \in g.beg .. g.beg + g.padded - 1 /\ ~Says(p[2], b)
  <2>1. b \in g.beg .. g.beg + g.padded - 1
    BY <1>1, <1>3, <1>4, AlignedRange
  <2>2. Says(p[2], b) <=> b < g.beg
    BY <1>1, <1>2, <1>4, PoisonSays
  <2> QED BY <1>1, <2>1, <2>2
<1> QED
  BY <1>3, <1>4 DEF UnregisterWrites

LEMMA GlobalFacts ==
  ASSUME NEW gs \in Globals
  PROVE  /\ DOMAIN gs = 1 .. Len(gs) /\ Len(gs) \in Nat
         /\ \A i \in DOMAIN gs :
              /\ GlobalOK(gs[i])
              /\ BytesOf(Padded(gs[i])) = gs[i].beg .. gs[i].beg + gs[i].padded - 1
              /\ BytesOf(gs[i]) = gs[i].beg .. gs[i].beg + gs[i].size - 1
              /\ BytesOf(Padded(gs[i])) \subseteq Bytes
              /\ Alone(Padded(gs[i])) => Touched(gs[i].beg, gs[i].padded) \cap Pending = {}
         /\ \A i, j \in DOMAIN gs : i # j => BytesOf(Padded(gs[i])) \cap BytesOf(Padded(gs[j])) = {}
<1>1. /\ gs \in Seq([beg : Nat, size : Nat, padded : Nat])
      /\ \A i \in DOMAIN gs :
           /\ gs[i].beg % Grain = 0 /\ gs[i].padded % Grain = 0 /\ gs[i].size <= gs[i].padded
           /\ BytesOf(Padded(gs[i])) \subseteq Bytes
      /\ \A i, j \in DOMAIN gs : i # j => BytesOf(Padded(gs[i])) \cap BytesOf(Padded(gs[j])) = {}
  BY AsanConstants
<1>2. DOMAIN gs = 1 .. Len(gs) /\ Len(gs) \in Nat
  BY <1>1, LenProperties
<1>3. ASSUME NEW i \in DOMAIN gs
      PROVE  /\ GlobalOK(gs[i])
             /\ BytesOf(Padded(gs[i])) = gs[i].beg .. gs[i].beg + gs[i].padded - 1
             /\ BytesOf(gs[i]) = gs[i].beg .. gs[i].beg + gs[i].size - 1
             /\ Alone(Padded(gs[i])) => Touched(gs[i].beg, gs[i].padded) \cap Pending = {}
  <2>1. gs[i] \in [beg : Nat, size : Nat, padded : Nat]
    BY <1>1, <1>2, ElementOfSeq
  <2>2. Padded(gs[i]).beg = gs[i].beg /\ Padded(gs[i]).size = gs[i].padded
    BY DEF Padded
  <2>3. BytesOf(Padded(gs[i])) = gs[i].beg .. gs[i].beg + gs[i].padded - 1
    BY <2>2 DEF BytesOf
  <2>4. Aligned(gs[i].beg, gs[i].padded)
    BY <1>1, <2>1, <2>3 DEF Aligned
  <2>5. Alone(Padded(gs[i])) => Touched(gs[i].beg, gs[i].padded) \cap Pending = {}
    BY <2>2 DEF Alone, Touched
  <2> QED BY <1>1, <2>1, <2>3, <2>4, <2>5 DEF GlobalOK, BytesOf
<1> QED
  BY <1>1, <1>2, <1>3

(* Registering and unregistering an array of globals, which do not overlap. *)
LEMMA RegisterCarries ==
  ASSUME NEW gs \in Globals, \A i \in DOMAIN gs : Alone(Padded(gs[i])),
         bad \subseteq Bytes, lost \subseteq Bytes
  PROVE  Carries(FlattenSeq([i \in DOMAIN gs |-> RegisterWrites(gs[i])]),
                 (bad \ AllBytes(gs)) \cup Redzones(gs), lost \ AllBytes(gs))
<1> DEFINE ss == [i \in DOMAIN gs |-> RegisterWrites(gs[i])]
           w == FlattenSeq(ss)
           D == (bad \ AllBytes(gs)) \cup Redzones(gs)
           L == lost \ AllBytes(gs)
           S == Closed(D, L)
           B(i) == BytesOf(Padded(gs[i]))
<1>1. /\ DOMAIN gs = 1 .. Len(gs) /\ Len(gs) \in Nat
      /\ \A i, j \in DOMAIN gs : i # j => B(i) \cap B(j) = {}
  BY GlobalFacts
<1>2. \A i \in DOMAIN gs :
        /\ GlobalOK(gs[i]) /\ B(i) \subseteq Bytes
        /\ B(i) = gs[i].beg .. gs[i].beg + gs[i].padded - 1
        /\ BytesOf(gs[i]) = gs[i].beg .. gs[i].beg + gs[i].size - 1
        /\ Touched(gs[i].beg, gs[i].padded) \cap Pending = {}
  BY GlobalFacts
<1>3. \A i \in DOMAIN gs :
        /\ ss[i] \in Seq(Stores) /\ Named(ss[i]) = Touched(gs[i].beg, gs[i].padded)
        /\ \A p \in Lasts(ss[i]) : \A b \in Bytes : Shadow(b) = p[1] =>
              b \in B(i) /\ (Says(p[2], b) <=> b < gs[i].beg + gs[i].size)
  BY <1>2, RegisterStores
<1>4. ss \in Seq(Seq(Stores)) /\ DOMAIN ss = DOMAIN gs
  <2>1. DOMAIN ss = 1 .. Len(gs)
    BY <1>1
  <2>2. ss \in [1 .. Len(gs) -> Seq(Stores)]
    BY <1>1, <1>3, Zenon
  <2> QED BY <1>1, <2>1, <2>2, SeqDef
<1> HIDE DEF ss
<1>5. /\ w \in Seq(Stores)
      /\ \A i \in DOMAIN gs : Named(ss[i]) \subseteq Named(w)
      /\ \A g \in Named(w) : \E i \in DOMAIN gs : g \in Named(ss[i])
      /\ \A p \in Lasts(w) : \E i \in DOMAIN gs : p \in Lasts(ss[i])
  BY <1>4, FlattenStores
<1> HIDE DEF w
<1>6. AllBytes(gs) = UNION {B(i) : i \in DOMAIN gs}
      /\ Redzones(gs) = UNION {B(i) \ BytesOf(gs[i]) : i \in DOMAIN gs}
  BY DEF AllBytes, Redzones
<1>7. \A i \in DOMAIN gs : \A b \in B(i) : b \in S <=> ~(b < gs[i].beg + gs[i].size)
  <2>1. SUFFICES ASSUME NEW i \in DOMAIN gs, NEW b \in B(i)
                 PROVE  b \in S <=> ~(b < gs[i].beg + gs[i].size)
    OBVIOUS
  <2>2. b \in AllBytes(gs)
    BY <1>6
  <2>3. b \in Redzones(gs) <=> b \notin BytesOf(gs[i])
    BY <1>1, <1>6
  <2>4. b \in BytesOf(gs[i]) <=> b < gs[i].beg + gs[i].size
    <3>1. gs[i].beg \in Nat /\ gs[i].size \in Nat /\ gs[i].padded \in Nat
      BY <1>2 DEF GlobalOK
    <3> QED BY <1>2, <3>1
  <2> QED BY <2>2, <2>3, <2>4 DEF Closed
<1>8. \A p \in Lasts(w) : Right(p[1], p[2], S)
  <2>1. SUFFICES ASSUME NEW p \in Lasts(w), NEW b \in Bytes, Shadow(b) = p[1]
                 PROVE  Says(p[2], b) <=> b \notin S
    BY DEF Right
  <2>2. PICK i \in DOMAIN gs : p \in Lasts(ss[i])
    BY <1>5
  <2>3. b \in B(i) /\ (Says(p[2], b) <=> b < gs[i].beg + gs[i].size)
    BY <1>3, <2>1, <2>2
  <2> QED BY <1>7, <2>3
<1>9. ASSUME NEW b \in Bytes, Shadow(b) \notin Named(w) PROVE b \notin AllBytes(gs)
  <2>1. SUFFICES ASSUME NEW i \in DOMAIN gs, b \in B(i) PROVE FALSE
    BY <1>6
  <2>2. Shadow(b) \in Touched(gs[i].beg, gs[i].padded)
    <3>1. gs[i].beg \in Nat /\ gs[i].padded \in Nat
      BY <1>2 DEF GlobalOK
    <3> QED BY <1>2, <2>1, <3>1, ByteTouched
  <2> QED BY <1>3, <1>5, <1>9, <2>2
<1>10. Named(w) \cap Pending = {}
  BY <1>2, <1>3, <1>5
<1>11. D \subseteq Bytes /\ L \subseteq Bytes /\ Redzones(gs) \subseteq AllBytes(gs)
  BY <1>2, <1>6
<1>12. \A b \in Bytes : Shadow(b) \notin Named(w) => (b \in S <=> b \in Closed(bad, lost))
  BY <1>9, <1>11 DEF Closed
<1>13. Carries(w, D, L)
  BY <1>5, <1>8, <1>10, <1>11, <1>12 DEF Carries
<1> QED
  BY <1>13 DEF w, ss

LEMMA UnregisterCarries ==
  ASSUME NEW gs \in Globals, \A i \in DOMAIN gs : Alone(Padded(gs[i])),
         bad \subseteq Bytes, lost \subseteq Bytes
  PROVE  Carries(FlattenSeq([i \in DOMAIN gs |-> UnregisterWrites(gs[i])]),
                 bad \cup AllBytes(gs), lost \ AllBytes(gs))
<1> DEFINE ss == [i \in DOMAIN gs |-> UnregisterWrites(gs[i])]
           w == FlattenSeq(ss)
           D == bad \cup AllBytes(gs)
           L == lost \ AllBytes(gs)
           S == Closed(D, L)
           B(i) == BytesOf(Padded(gs[i]))
<1>1. DOMAIN gs = 1 .. Len(gs) /\ Len(gs) \in Nat
  BY GlobalFacts
<1>2. \A i \in DOMAIN gs :
        /\ GlobalOK(gs[i]) /\ B(i) \subseteq Bytes
        /\ B(i) = gs[i].beg .. gs[i].beg + gs[i].padded - 1
        /\ Touched(gs[i].beg, gs[i].padded) \cap Pending = {}
  BY GlobalFacts
<1>3. \A i \in DOMAIN gs :
        /\ ss[i] \in Seq(Stores) /\ Named(ss[i]) = Touched(gs[i].beg, gs[i].padded)
        /\ \A p \in Lasts(ss[i]) : \A b \in Bytes : Shadow(b) = p[1] => b \in B(i) /\ ~Says(p[2], b)
  BY <1>2, UnregisterStores
<1>4. ss \in Seq(Seq(Stores)) /\ DOMAIN ss = DOMAIN gs
  <2>1. DOMAIN ss = 1 .. Len(gs)
    BY <1>1
  <2>2. ss \in [1 .. Len(gs) -> Seq(Stores)]
    BY <1>1, <1>3, Zenon
  <2> QED BY <1>1, <2>1, <2>2, SeqDef
<1> HIDE DEF ss
<1>5. /\ w \in Seq(Stores)
      /\ \A i \in DOMAIN gs : Named(ss[i]) \subseteq Named(w)
      /\ \A g \in Named(w) : \E i \in DOMAIN gs : g \in Named(ss[i])
      /\ \A p \in Lasts(w) : \E i \in DOMAIN gs : p \in Lasts(ss[i])
  BY <1>4, FlattenStores
<1> HIDE DEF w
<1>6. AllBytes(gs) = UNION {B(i) : i \in DOMAIN gs}
  BY DEF AllBytes
<1>7. \A p \in Lasts(w) : Right(p[1], p[2], S)
  <2>1. SUFFICES ASSUME NEW p \in Lasts(w), NEW b \in Bytes, Shadow(b) = p[1]
                 PROVE  ~Says(p[2], b) /\ b \in S
    BY DEF Right
  <2>2. PICK i \in DOMAIN gs : p \in Lasts(ss[i])
    BY <1>5
  <2>3. b \in B(i) /\ ~Says(p[2], b)
    BY <1>3, <2>1, <2>2
  <2> QED BY <1>6, <2>3 DEF Closed
<1>8. ASSUME NEW b \in Bytes, Shadow(b) \notin Named(w) PROVE b \notin AllBytes(gs)
  <2>1. SUFFICES ASSUME NEW i \in DOMAIN gs, b \in B(i) PROVE FALSE
    BY <1>6
  <2>2. Shadow(b) \in Touched(gs[i].beg, gs[i].padded)
    <3>1. gs[i].beg \in Nat /\ gs[i].padded \in Nat
      BY <1>2 DEF GlobalOK
    <3> QED BY <1>2, <2>1, <3>1, ByteTouched
  <2> QED BY <1>3, <1>5, <1>8, <2>2
<1>9. Named(w) \cap Pending = {}
  BY <1>2, <1>3, <1>5
<1>10. D \subseteq Bytes /\ L \subseteq Bytes
  BY <1>2, <1>6
<1>11. \A b \in Bytes : Shadow(b) \notin Named(w) => (b \in S <=> b \in Closed(bad, lost))
  BY <1>8 DEF Closed
<1>12. Carries(w, D, L)
  BY <1>5, <1>7, <1>9, <1>10, <1>11 DEF Carries
<1> QED
  BY <1>12 DEF w, ss

---------------------------------------------------------------------------------
(* The invariant.                                                           *)

Typing ==
  /\ asan_initialized \in BOOLEAN /\ mapped \in BOOLEAN
  /\ shadow \in [Granule -> Value]
  /\ pc \in [Threads -> Where]
  /\ todo \in [Threads -> Seq(Stores)]
  /\ access \in [Threads -> [beg : Bytes, size : Nat, value : Value]]
  /\ bad \subseteq Bytes /\ lost \subseteq Bytes
  /\ lock \in Threads \cup {NoThread}

\* The lock is held exactly while an error is printed, and a thread has stores
\* to make only while it is in a hook that makes them.
Busy == {"init", "map", "write", "fault"}

Control ==
  \A t \in Threads :
    /\ pc[t] \in {"print", "stuck"} <=> lock = t
    /\ pc[t] \notin Busy => todo[t] = <<>>

\* No two threads change one granule; what a thread has still to store is right
\* for what the program asked for, and so is what is stored in other granules.
Exclusive == \A t, u \in Threads : t # u => Named(todo[t]) \cap Named(todo[u]) = {}

ToBe == \A t \in Threads : \A p \in Lasts(todo[t]) : Right(p[1], p[2], Closed(bad, lost))

AsIs == \A g \in Granule : g \notin Pending => Right(g, shadow[g], Closed(bad, lost))

Inv == Typing /\ Control /\ Exclusive /\ ToBe /\ AsIs

LEMMA PendingIs == \A g : g \in Pending <=> \E t \in Threads : g \in Named(todo[t])
  BY DEF Pending, Named

LEMMA InitInv == Init => Inv
<1> SUFFICES ASSUME Init PROVE Inv
  OBVIOUS
<1>1. Granules \in Nat /\ 0 < Granules /\ 0 \in Value
  BY Sizes, Values
<1>2. 0 \in Bytes
  <2>1. Grain \in Nat \ {0} /\ 0 \in Int
    BY Sizes
  <2>2. 0 * Grain \in Int /\ Granules * Grain \in Int /\ 0 * Grain + Grain <= Granules * Grain
    BY <1>1, <2>1, Products
  <2>3. 0 * Grain = 0
    BY <2>1
  <2> QED BY <2>1, <2>2, <2>3 DEF Bytes
<1>3. Typing
  <2>1. <<>> \in Seq(Stores)
    BY EmptySeq
  <2>2. NoAccess \in [beg : Bytes, size : Nat, value : Value]
    BY <1>1, <1>2 DEF NoAccess
  <2> QED BY <1>1, <2>1, <2>2 DEF Init, Typing, Granule, Where
<1>4. Control
  BY AsanConstants DEF Init, Control, Busy
<1>5. \A t \in Threads : todo[t] = <<>>
  BY DEF Init
<1>6. Exclusive /\ ToBe
  BY <1>5, LastsEmpty DEF Exclusive, ToBe
<1>7. AsIs
  <2>1. \A g \in Granule : shadow[g] = 0 /\ Closed(bad, lost) = {}
    BY DEF Init, Granule, Closed
  <2>2. \A b \in Bytes : Says(0, b)
    BY NothingSaid, ShadowInMemory
  <2> QED BY <2>1, <2>2 DEF AsIs, Right
<1> QED
  BY <1>3, <1>4, <1>6, <1>7 DEF Inv

(* A hook begins whose stores carry out what it is asked.                   *)
LEMMA EnterInv ==
  ASSUME Inv, NEW t \in Threads, NEW w, NEW where \in Busy, NEW B, NEW L,
         Enter(t, w, where), bad' = B, lost' = L, Carries(w, B, L)
  PROVE  Inv'
<1> DEFINE S == Closed(B, L)
<1>1. /\ pc \in [Threads -> Where] /\ todo \in [Threads -> Seq(Stores)]
      /\ w \in Seq(Stores) /\ B \subseteq Bytes /\ L \subseteq Bytes
      /\ pc[t] = "run" /\ pc' = [pc EXCEPT ![t] = where] /\ todo' = [todo EXCEPT ![t] = w]
      /\ UNCHANGED <<asan_initialized, mapped, shadow, lock, access, reports>>
  BY DEF Inv, Typing, Enter, Carries
<1>2. Typing'
  BY <1>1 DEF Inv, Typing, Where, Busy
<1>3. Control'
  <2>1. where \in Where /\ where \notin {"print", "stuck", "run"}
    BY DEF Busy, Where
  <2> QED BY <1>1, <2>1 DEF Inv, Control
<1>4. todo[t] = <<>> /\ Named(todo[t]) = {}
  BY <1>1, LastsEmpty DEF Inv, Control, Busy
<1>5. todo'[t] = w /\ \A u \in Threads \ {t} : todo'[u] = todo[u]
  BY <1>1
<1>6. \A u \in Threads : Named(w) \cap Named(todo[u]) = {}
  BY PendingIs DEF Carries
<1>7. Exclusive'
  BY <1>5, <1>6 DEF Inv, Exclusive
<1>8. ASSUME NEW g, g \notin Named(w), NEW v, Right(g, v, Closed(bad, lost)) PROVE Right(g, v, S)
  BY <1>8 DEF Carries, Right
<1>9. ToBe'
  <2>1. SUFFICES ASSUME NEW u \in Threads, NEW p \in Lasts(todo'[u]) PROVE Right(p[1], p[2], S)
    BY DEF ToBe
  <2>2. CASE u = t
    BY <1>5, <2>2 DEF Carries
  <2>3. CASE u # t
    <3>1. p \in Lasts(todo[u]) /\ Right(p[1], p[2], Closed(bad, lost))
      BY <1>5, <2>3 DEF Inv, ToBe
    <3>2. p[1] \in Named(todo[u])
      BY <3>1 DEF Lasts, Named
    <3> QED BY <1>6, <1>8, <3>1, <3>2
  <2> QED BY <2>2, <2>3
<1>10. AsIs'
  <2>1. SUFFICES ASSUME NEW g \in Granule, g \notin Pending' PROVE Right(g, shadow[g], S)
    BY <1>1 DEF AsIs
  <2>2. \A u \in Threads : g \notin Named(todo'[u])
    BY <2>1 DEF Pending, Named
  <2>3. g \notin Named(w) /\ \A u \in Threads : g \notin Named(todo[u])
    BY <1>4, <1>5, <2>2
  <2>4. Right(g, shadow[g], Closed(bad, lost))
    BY <2>3, PendingIs DEF Inv, AsIs
  <2> QED BY <1>8, <2>3, <2>4
<1> QED
  BY <1>2, <1>3, <1>7, <1>9, <1>10 DEF Inv

(* A store is made: the granule is right as soon as the last one is.        *)
LEMMA WriteInv ==
  ASSUME Inv, NEW t \in Threads, Write(t)
  PROVE  Inv'
<1>1. /\ pc \in [Threads -> Where] /\ todo \in [Threads -> Seq(Stores)] /\ shadow \in [Granule -> Value]
      /\ pc[t] = "write" /\ todo[t] # <<>>
      /\ UNCHANGED <<asan_initialized, mapped, lock, access, bad, lost, reports>>
  BY DEF Inv, Typing, Write
<1>2. CASE mapped
  <2> DEFINE w == todo[t]
             e == w[1]
  <2>1. w \in Seq(Stores) /\ w # <<>>
    BY <1>1
  <2>2. /\ Tail(w) \in Seq(Stores) /\ Head(w) = e /\ e \in Stores
        /\ Named(w) = Named(Tail(w)) \cup {e[1]} /\ Lasts(Tail(w)) \subseteq Lasts(w)
        /\ e[1] \notin Named(Tail(w)) => e \in Lasts(w)
    BY <2>1, LastsOfTail
  <2>3. /\ shadow' = [shadow EXCEPT ![e[1]] = e[2]] /\ todo' = [todo EXCEPT ![t] = Tail(w)]
        /\ UNCHANGED pc
    BY <1>2, <2>2 DEF Write
  <2> HIDE DEF w, e
  <2>4. e[1] \in Granule /\ e[2] \in Value
    BY <2>2 DEF Stores
  <2>5. Typing'
    BY <1>1, <2>2, <2>3, <2>4 DEF Inv, Typing
  <2>6. todo'[t] = Tail(w) /\ \A u \in Threads \ {t} : todo'[u] = todo[u]
    BY <1>1, <2>3
  <2>7. Control'
    BY <1>1, <2>3, <2>6 DEF Inv, Control, Busy
  <2>8. todo[t] = w
    BY DEF w
  <2>9. \A u \in Threads : Named(todo'[u]) \subseteq Named(todo[u]) /\ Lasts(todo'[u]) \subseteq Lasts(todo[u])
    BY <2>2, <2>6, <2>8
  <2>10. Exclusive'
    BY <2>9 DEF Inv, Exclusive
  <2>11. ToBe'
    BY <1>1, <2>9 DEF Inv, ToBe
  <2>12. AsIs'
    <3>1. SUFFICES ASSUME NEW g \in Granule, g \notin Pending' PROVE Right(g, shadow'[g], Closed(bad, lost))
      BY <1>1 DEF AsIs
    <3>2. \A u \in Threads : g \notin Named(todo'[u])
      BY <3>1 DEF Pending, Named
    <3>3. CASE g = e[1]
      <4>1. e \in Lasts(w)
        BY <2>2, <2>6, <3>2, <3>3
      <4>2. Right(e[1], e[2], Closed(bad, lost))
        BY <2>8, <4>1 DEF Inv, ToBe
      <4>3. shadow'[g] = e[2]
        BY <1>1, <2>3, <3>3
      <4> QED BY <3>3, <4>2, <4>3
    <3>4. CASE g # e[1]
      <4>1. \A u \in Threads : g \notin Named(todo[u])
        BY <2>2, <2>6, <2>8, <3>2, <3>4
      <4>2. Right(g, shadow[g], Closed(bad, lost))
        BY <4>1, PendingIs DEF Inv, AsIs
      <4>3. shadow'[g] = shadow[g]
        BY <1>1, <2>3, <2>4, <3>4
      <4> QED BY <4>2, <4>3
    <3> QED BY <3>3, <3>4
  <2> QED BY <2>5, <2>7, <2>10, <2>11, <2>12 DEF Inv
<1>3. CASE ~mapped
  <2>1. pc' = [pc EXCEPT ![t] = "fault"] /\ UNCHANGED <<shadow, todo>>
    BY <1>3 DEF Write
  <2>2. Typing'
    BY <1>1, <2>1 DEF Inv, Typing, Where
  <2>3. Control'
    BY <1>1, <2>1 DEF Inv, Control, Busy
  <2>4. Exclusive' /\ ToBe' /\ AsIs'
    BY <1>1, <2>1 DEF Inv, Exclusive, ToBe, AsIs, Pending
  <2> QED BY <2>2, <2>3, <2>4 DEF Inv
<1> QED BY <1>2, <1>3

(* The other steps leave the shadow, the stores and the requests alone.     *)
LEMMA RestInv ==
  ASSUME Inv, UNCHANGED <<shadow, todo, bad, lost>>, Typing', Control'
  PROVE  Inv'
  BY DEF Inv, Exclusive, ToBe, AsIs, Pending

LEMMA InitStepsInv ==
  ASSUME Inv, NEW t \in Threads, Exchange(t) \/ Map(t) \/ Done(t)
  PROVE  Inv'
<1>1. Typing /\ Control
  BY DEF Inv
<1>2. UNCHANGED <<shadow, todo, bad, lost, lock, access>>
  BY DEF Exchange, Map, Done
<1>3. PICK where \in {"write", "map", "run"} :
        /\ pc' = [pc EXCEPT ![t] = where] /\ pc[t] \in {"init", "map", "write"}
        /\ where = "run" => todo[t] = <<>>
  BY DEF Exchange, Map, Done
<1>4. asan_initialized' \in BOOLEAN /\ mapped' \in BOOLEAN
  BY <1>1 DEF Exchange, Map, Done, Typing
<1>5. Typing'
  BY <1>1, <1>2, <1>3, <1>4 DEF Typing, Where
<1>6. Control'
  BY <1>1, <1>2, <1>3 DEF Typing, Control, Busy
<1> QED
  BY <1>2, <1>5, <1>6, RestInv

LEMMA AccessInv ==
  ASSUME Inv, NEW t \in Threads, NEW a \in Accesses, Access(t, a)
  PROVE  Inv'
<1>1. Typing /\ Control
  BY DEF Inv
<1>2. a.beg \in Bytes /\ a.size \in Nat /\ Shadow(a.beg) \in Granule
  BY AsanConstants, ShadowInMemory
<1>3. /\ UNCHANGED <<asan_initialized, mapped, shadow, lock, todo, bad, lost>>
      /\ pc[t] = "run"
      /\ pc' = [pc EXCEPT ![t] = "report"] \/ pc' = [pc EXCEPT ![t] = "fault"]
      /\ access' = [access EXCEPT ![t] = [beg |-> a.beg, size |-> a.size, value |-> shadow[Shadow(a.beg)]]]
  BY DEF Access
<1>4. Typing'
  BY <1>1, <1>2, <1>3 DEF Typing, Where
<1>5. Control'
  BY <1>1, <1>3 DEF Typing, Control, Busy
<1> QED
  BY <1>3, <1>4, <1>5, RestInv

LEMMA ReportInv ==
  ASSUME Inv, NEW t \in Threads, Acquire(t) \/ Report(t) \/ Hang(t)
  PROVE  Inv'
<1>1. Typing /\ Control
  BY DEF Inv
<1>2. UNCHANGED <<asan_initialized, mapped, shadow, todo, access, bad, lost>>
  BY DEF Acquire, Report, Hang
<1>3. Typing'
  BY <1>1, <1>2 DEF Typing, Where, Acquire, Report, Hang
<1>4. Control'
  BY <1>1, <1>2, AsanConstants DEF Typing, Control, Busy, Acquire, Report, Hang
<1> QED
  BY <1>2, <1>3, <1>4, RestInv

LEMMA NextInv == Inv /\ [Next]_vars => Inv'
<1> SUFFICES ASSUME Inv, [Next]_vars PROVE Inv'
  OBVIOUS
<1>1. bad \subseteq Bytes /\ lost \subseteq Bytes /\ "write" \in Busy /\ "init" \in Busy
  BY DEF Inv, Typing, Busy
<1>2. ASSUME NEW t \in Threads, NEW r \in Regions, __asan_poison_memory_region(t, r) PROVE Inv'
  BY <1>1, <1>2, PoisonCarries, EnterInv DEF __asan_poison_memory_region
<1>3. ASSUME NEW t \in Threads, NEW r \in Regions, __asan_unpoison_memory_region(t, r) PROVE Inv'
  BY <1>1, <1>3, UnpoisonCarries, EnterInv DEF __asan_unpoison_memory_region
<1>4. ASSUME NEW t \in Threads, NEW r \in Frames, NEW value \in {0, Poison}, __asan_set_shadow(t, r, value)
      PROVE  Inv'
  BY <1>1, <1>4, FrameCarries, EnterInv DEF __asan_set_shadow
<1>5. ASSUME NEW t \in Threads, NEW gs \in Globals, __asan_register_globals(t, gs) PROVE Inv'
  BY <1>1, <1>5, RegisterCarries, EnterInv DEF __asan_register_globals
<1>6. ASSUME NEW t \in Threads, NEW gs \in Globals, __asan_unregister_globals(t, gs) PROVE Inv'
  BY <1>1, <1>6, UnregisterCarries, EnterInv DEF __asan_unregister_globals
<1>7. ASSUME NEW t \in Threads, __asan_init(t) PROVE Inv'
  <2>1. Carries(<<>>, bad, lost)
    BY <1>1, LastsEmpty, EmptySeq DEF Carries
  <2> QED BY <1>1, <1>7, <2>1, EnterInv DEF __asan_init
<1>8. ASSUME NEW t \in Threads, NEW a \in Accesses, Access(t, a) PROVE Inv'
  BY <1>8, AccessInv
<1>9. ASSUME NEW t \in Threads, Step(t) PROVE Inv'
  BY <1>9, WriteInv, InitStepsInv, ReportInv DEF Step
<1>10. CASE UNCHANGED vars
  BY <1>10 DEF vars, Inv, Typing, Control, Exclusive, ToBe, AsIs, Pending
<1> QED
  BY <1>2, <1>3, <1>4, <1>5, <1>6, <1>7, <1>8, <1>9, <1>10 DEF Next, Program

LEMMA InvHolds == Spec => []Inv
  BY InitInv, NextInv, PTL DEF Spec

(* Every store stays in the shadow and has a value the encoding knows, and  *)
(* the lock is held exactly while an error is printed.                      *)
THEOREM TypeCorrect == Spec => []TypeOK
<1>1. Inv => TypeOK
  BY DEF Inv, Typing, Control, TypeOK, Where, Granule, Stores
<1> QED
  BY <1>1, InvHolds, PTL

LEMMA ExactInGranules ==
  ASSUME Inv, NEW b \in Bytes, Shadow(b) \notin Pending
  PROVE  Accessible(b) <=> Free(b)
<1>1. Shadow(b) \in Granule
  BY ShadowInMemory
<1>2. Right(Shadow(b), shadow[Shadow(b)], Closed(bad, lost))
  BY <1>1 DEF Inv, AsIs
<1> QED
  BY <1>2 DEF Right, Says, Accessible, Closed, Free

(* After any hooks of any number of threads and any ranges, the shadow says *)
(* of every byte whose granule nobody is changing what the program last     *)
(* asked for, and the opposite of a byte lost to the rounding of a later    *)
(* range.                                                                   *)
THEOREM ShadowIsExact == Spec => []ShadowExact
<1>1. Inv => ShadowExact
  BY ExactInGranules DEF ShadowExact, Settled
<1> QED
  BY <1>1, InvHolds, PTL

(* The bytes of an access in its first granule end where the access or the  *)
(* granule does, whichever comes first.                                     *)
LEMMA FirstPart ==
  ASSUME NEW beg \in Nat, NEW size \in Nat \ {0}, NEW v \in Nat, v < Grain
  PROVE  (beg % Grain) + size <= v <=>
           \A b \in beg .. beg + size - 1 : Shadow(b) = Shadow(beg) => b % Grain < v
<1> DEFINE k == beg % Grain
           y == Shadow(beg) * Grain
           last == beg + size - 1
<1>1. k \in 0 .. Grain - 1 /\ y \in Int /\ beg = y + k /\ Grain \in Nat /\ Shadow(beg) \in Int
      /\ last \in Int /\ beg <= last
  BY Place, Sizes
<1>2. ASSUME NEW b \in beg .. beg + size - 1, Shadow(b) = Shadow(beg)
      PROVE  b = y + (b % Grain) /\ b % Grain \in Nat /\ b % Grain < Grain
  BY <1>1, <1>2, Place
<1>3. ASSUME NEW b \in beg .. beg + size - 1, b < y + Grain PROVE Shadow(b) = Shadow(beg)
  <2>1. b \in Int /\ y <= b
    BY <1>1
  <2> QED BY <1>1, <1>3, <2>1, ShadowIs
<1> HIDE DEF k, y
<1>4. ASSUME k + size <= v, NEW b \in beg .. beg + size - 1, Shadow(b) = Shadow(beg)
      PROVE  b % Grain < v
  BY <1>1, <1>2, <1>4
<1>5. ASSUME \A b \in beg .. beg + size - 1 : Shadow(b) = Shadow(beg) => b % Grain < v
      PROVE  k + size <= v
  <2>1. CASE last < y + Grain
    <3>1. last \in beg .. beg + size - 1 /\ Shadow(last) = Shadow(beg)
      BY <1>1, <1>3, <2>1
    <3>2. last % Grain < v /\ last = y + (last % Grain) /\ last % Grain \in Nat
      BY <1>2, <1>5, <3>1
    <3> QED BY <1>1, <3>2
  <2>2. CASE y + Grain <= last
    <3> DEFINE e == y + Grain - 1
    <3>1. e \in beg .. beg + size - 1 /\ e < y + Grain /\ e \in Int
      BY <1>1, <2>2
    <3> HIDE DEF e
    <3>2. Shadow(e) = Shadow(beg)
      BY <1>3, <3>1
    <3>3. e % Grain < v /\ e = y + (e % Grain) /\ e % Grain \in Nat
      BY <1>2, <1>5, <3>1, <3>2
    <3> QED BY <1>1, <3>3 DEF e
  <2> QED BY <1>1, <2>1, <2>2
<1> QED
  BY <1>4, <1>5 DEF k

(* The check of an access, although it looks at one shadow byte only, passes *)
(* just the accesses whose bytes in the first granule are all free.         *)
THEOREM AccessesAreJudged == Spec => []AccessJudged
<1>1. ASSUME Inv, NEW a \in Accesses, Settled(FirstGranule(a))
      PROVE  Passes(a) <=> \A b \in FirstGranule(a) : Free(b)
  <2> DEFINE v == shadow[Shadow(a.beg)]
             In == FirstGranule(a)
  <2>1. a.beg \in Bytes /\ a.size \in Nat \ {0} /\ BytesOf(a) \subseteq Bytes /\ a.beg \in Nat
    BY AsanConstants, ShadowInMemory
  <2>2. In = {b \in a.beg .. a.beg + a.size - 1 : Shadow(b) = Shadow(a.beg)} /\ In \subseteq Bytes
    BY <2>1 DEF FirstGranule, BytesOf
  <2>3. a.beg \in In
    BY <2>1, <2>2
  <2>4. \A b \in In : Accessible(b) <=> Free(b)
    BY <1>1, <2>2, ExactInGranules DEF Settled
  <2>5. \A b \in In : Accessible(b) <=> (v = 0 \/ (v < Grain /\ b % Grain < v))
    BY <2>2 DEF Accessible
  <2>6. v \in Nat
    <3>1. Shadow(a.beg) \in Granule /\ shadow \in [Granule -> Value]
      BY <1>1, <2>1, ShadowInMemory DEF Inv, Typing
    <3> QED BY <3>1, Sizes DEF Value
  <2>7. Passes(a) <=> (v = 0 \/ (v < Grain /\ (a.beg % Grain) + a.size <= v))
    BY DEF Passes
  <2> HIDE DEF v
  <2>8. v < Grain => ((a.beg % Grain) + a.size <= v <=> \A b \in In : b % Grain < v)
    BY <2>1, <2>2, <2>6, FirstPart
  <2> HIDE DEF In
  <2>9. Passes(a) <=> \A b \in In : v = 0 \/ (v < Grain /\ b % Grain < v)
    BY <2>3, <2>7, <2>8, Zenon
  <2> QED BY <2>4, <2>5, <2>9 DEF In
<1>2. Inv => AccessJudged
  BY <1>1 DEF AccessJudged
<1> QED
  BY <1>2, InvHolds, PTL
===============================================================================
