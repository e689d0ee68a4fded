---------------------------- MODULE HashTable_proofs ----------------------------
(***************************************************************************)
(* Proofs about HashTable, for any keys, values and hash functions and any *)
(* initial capacity of at least four slots: the probe invariant holds      *)
(* between any two rounds of any loop, a free slot always exists, and the  *)
(* table implements the map of StringMap.  The argument rests on IInv of   *)
(* module HashTable; Path is what the early exits of a search rely on.     *)
(***************************************************************************)
EXTENDS HashTable, WellFoundedInduction, FiniteSetTheorems, TLAPS

-------------------------------------------------------------------------------
(* The slots are a circle.                                                 *)

(* The quotient and the remainder of a hash by the capacity.               *)
LEMMA Division ==
  ASSUME NEW x \in Int, NEW c \in Nat \ {0}
  PROVE  /\ x % c \in 0 .. c - 1 /\ x \div c \in Int
         /\ x = c * (x \div c) + (x % c)
  OBVIOUS

(* The remainder is the only one.                                          *)
LEMMA Remainder ==
  ASSUME NEW c \in Nat \ {0}, NEW q \in Int, NEW r \in 0 .. c - 1
  PROVE  (c * q + r) % c = r
<1>1. c * q \in Int /\ c * q + r \in Int
  OBVIOUS
<1> DEFINE x == c * q + r
<1>2. /\ x % c \in 0 .. c - 1 /\ x \div c \in Int
      /\ x = c * (x \div c) + (x % c)
  BY <1>1, Division
<1> DEFINE s == x % c
           p == x \div c
<1>3. c * q + r = c * p + s /\ s \in 0 .. c - 1 /\ p \in Int
  BY <1>2
<1> HIDE DEF s, p
<1>4. c * (q - p) = s - r
  <2>1. c * (q - p) = c * q - c * p /\ c * p \in Int
    BY <1>3
  <2> QED
    BY <1>1, <1>3, <2>1
<1>5. q - p = 0
  <2>1. CASE q - p >= 1
    <3>1. c * (q - p) >= c
      BY <1>3, <2>1
    <3> QED
      BY <1>3, <1>4, <3>1
  <2>2. CASE q - p <= -1
    <3>1. c * (q - p) <= -c
      BY <1>3, <2>2
    <3> QED
      BY <1>3, <1>4, <3>1
  <2> QED
    BY <1>3, <2>1, <2>2
<1>6. s = r
  BY <1>3, <1>4, <1>5
<1> QED
  BY <1>6 DEF s

(* Steps around the circle add up, and fewer than capacity of them do not  *)
(* come back to where they started.                                        *)
LEMMA Circle ==
  ASSUME capacity \in Nat, capacity >= 4
  PROVE  /\ \A x \in Int : Mask(x) \in Slots
         /\ \A i \in Slots : i \in Nat /\ Mask(i) = i
         /\ \A x, d \in Int : Mask(Mask(x) + d) = Mask(x + d)
         /\ \A x, y \in Int :
              Mask(x) = Mask(y) /\ x <= y /\ y < x + capacity => x = y
<1> DEFINE c == capacity
<1>1. c \in Nat \ {0}
  OBVIOUS
<1>2. \A x : Mask(x) = x % c
  BY DEF Mask
<1>3. Slots = 0 .. c - 1
  BY DEF Slots
<1> HIDE DEF c
<1>4. \A x \in Int : Mask(x) \in Slots
  BY <1>1, <1>2, <1>3, Division
<1>5. \A i \in Slots : i \in Nat /\ Mask(i) = i
  BY <1>1, <1>2, <1>3, Remainder
<1>6. ASSUME NEW x \in Int, NEW d \in Int
      PROVE  Mask(Mask(x) + d) = Mask(x + d)
  <2> DEFINE q == x \div c
             r == x % c
             p == (r + d) \div c
             s == (r + d) % c
  <2>1. x = c * q + r /\ q \in Int /\ r \in 0 .. c - 1
    BY <1>1, Division
  <2> HIDE DEF q, r
  <2>2. r + d = c * p + s /\ p \in Int /\ s \in 0 .. c - 1
    <3>1. r + d \in Int
      BY <1>1, <2>1
    <3> QED
      BY <1>1, <3>1, Division
  <2> HIDE DEF p, s
  <2>3. x + d = c * (q + p) + s
    <3>1. c * (q + p) = c * q + c * p /\ c * q \in Int /\ c * p \in Int
      BY <1>1, <2>1, <2>2
    <3> QED
      BY <1>1, <2>1, <2>2, <3>1
  <2>4. (x + d) % c = s
    <3>1. q + p \in Int
      BY <2>1, <2>2
    <3>2. (c * (q + p) + s) % c = s
      BY <1>1, <2>2, <3>1, Remainder
    <3> QED
      BY <2>3, <3>2
  <2>5. (r + d) % c = s
    BY DEF s
  <2> QED
    BY <1>2, <2>4, <2>5 DEF r
<1>7. ASSUME NEW x \in Int, NEW y \in Int, Mask(x) = Mask(y), x <= y, y < x + c
      PROVE  x = y
  <2> DEFINE q == x \div c
             r == x % c
             p == y \div c
  <2>1. x = c * q + r /\ q \in Int /\ r \in 0 .. c - 1
    BY <1>1, Division
  <2>2. y = c * p + r /\ p \in Int
    BY <1>1, <1>2, <1>7, Division
  <2> HIDE DEF q, r, p
  <2>3. y - x = c * (p - q)
    <3>1. c * (p - q) = c * p - c * q /\ c * q \in Int /\ c * p \in Int
      BY <1>1, <2>1, <2>2
    <3> QED
      BY <1>1, <2>1, <2>2, <3>1
  <2>4. CASE p - q >= 1
    <3>1. c * (p - q) >= c
      BY <1>1, <2>1, <2>2, <2>4
    <3> QED
      BY <1>1, <1>7, <2>3, <3>1
  <2>5. CASE p - q <= -1
    <3>1. c * (p - q) <= -c
      BY <1>1, <2>1, <2>2, <2>5
    <3> QED
      BY <1>1, <1>7, <2>3, <3>1
  <2>6. CASE p - q = 0
    BY <2>1, <2>2, <2>3, <2>6
  <2> QED
    BY <2>1, <2>2, <2>4, <2>5, <2>6
<1> QED
  BY <1>4, <1>5, <1>6, <1>7 DEF c

(* The slot after another one: the way back leads to it, and the next ones *)
(* are one step nearer.                                                    *)
LEMMA NextSlot ==
  ASSUME capacity \in Nat, capacity >= 4, NEW i \in Slots
  PROVE  /\ i \in Nat /\ Mask(i + 1) \in Slots /\ Mask(i + 1) # i
         /\ Mask(Mask(i + 1) - 1) = i
         /\ \A d \in Int : Mask(Mask(i + 1) + d) = Mask(i + 1 + d)
<1> DEFINE x == i + 1
<1>1. i \in Nat /\ x \in Int /\ x - 1 = i /\ x # i /\ i <= x /\ x < i + capacity
  BY DEF Slots
<1> HIDE DEF x
<1>2. Mask(i) = i
  BY Circle
<1>3. Mask(x) \in Slots /\ \A d \in Int : Mask(Mask(x) + d) = Mask(x + d)
  BY <1>1, Circle
<1>4. Mask(x) # i
  BY <1>1, <1>2, Circle
<1>5. Mask(Mask(x) - 1) = i
  <2>1. Mask(Mask(x) + (-1)) = Mask(x + (-1))
    BY <1>3
  <2>2. Mask(x) + (-1) = Mask(x) - 1 /\ x + (-1) = i
    BY <1>1, <1>3 DEF Slots
  <2> QED
    BY <1>2, <2>1, <2>2
<1> QED
  BY <1>1, <1>3, <1>4, <1>5 DEF x

(* The slot before another one is led to by no other.                      *)
LEMMA PreviousSlot ==
  ASSUME capacity \in Nat, capacity >= 4, NEW i \in Slots
  PROVE  Mask(i - 1) \in Slots /\ Mask(i - 1) # i /\ Mask(Mask(i - 1) + 1) = i
<1> DEFINE x == i - 1
<1>1. i \in Int /\ x \in Int /\ x + 1 = i /\ x # i /\ x <= i /\ i < x + capacity
  BY DEF Slots
<1> HIDE DEF x
<1>2. Mask(i) = i /\ Mask(x) \in Slots /\ Mask(Mask(x) + 1) = Mask(x + 1)
  <2>1. \A d \in Int : Mask(Mask(x) + d) = Mask(x + d)
    BY <1>1, Circle
  <2>2. Mask(i) = i /\ Mask(x) \in Slots
    BY <1>1, Circle
  <2> QED
    BY <2>1, <2>2
<1>3. Mask(x) # i
  BY <1>1, <1>2, Circle
<1> QED
  BY <1>1, <1>2, <1>3 DEF x

(* The slots of a key's search.                                            *)
LEMMA Search ==
  ASSUME TypeOK, NEW k \in Keys
  PROVE  /\ \A n \in Int : /\ At(k, n) \in Slots
                           /\ Mask(At(k, n) + 1) = At(k, n + 1)
                           /\ Mask(At(k, n) - 1) = At(k, n - 1)
         /\ \A f \in Slots : \E n \in 1 .. capacity : At(k, n) = f
<1>1. hash[k] \in Nat /\ capacity \in Nat /\ capacity >= 4
  BY DEF TypeOK
<1> DEFINE h == hash[k]
<1>2. \A n : At(k, n) = Mask(h + n - 1)
  BY DEF At
<1>3. h \in Nat
  BY <1>1
<1> HIDE DEF h
<1>4. ASSUME NEW n \in Int
      PROVE /\ At(k, n) \in Slots
            /\ Mask(At(k, n) + 1) = At(k, n + 1)
            /\ Mask(At(k, n) - 1) = At(k, n - 1)
  <2>1. h + n - 1 \in Int /\ 1 \in Int /\ -1 \in Int
    BY <1>3
  <2>2. /\ Mask(h + n - 1) \in Slots
        /\ Mask(Mask(h + n - 1) + 1) = Mask(h + n - 1 + 1)
        /\ Mask(Mask(h + n - 1) + (-1)) = Mask(h + n - 1 + (-1))
    BY <1>1, <2>1, Circle
  <2>3. Mask(h + n - 1) \in Int
    BY <1>1, <2>2 DEF Slots
  <2>4. /\ Mask(h + n - 1) + (-1) = Mask(h + n - 1) - 1
        /\ h + n - 1 + 1 = h + (n + 1) - 1 /\ h + n - 1 + (-1) = h + (n - 1) - 1
    BY <1>3, <2>3
  <2> QED
    BY <1>2, <2>2, <2>4
<1>5. ASSUME NEW f \in Slots
      PROVE \E n \in 1 .. capacity : At(k, n) = f
  <2> DEFINE d == Mask(f - h)
  <2>1. f \in Int /\ f - h \in Int
    BY <1>1, <1>3 DEF Slots
  <2>2. d \in Slots /\ Mask(d + h) = Mask(f - h + h) /\ Mask(f) = f
    <3>1. /\ \A x \in Int : Mask(x) \in Slots
          /\ \A x, e \in Int : Mask(Mask(x) + e) = Mask(x + e)
          /\ \A i \in Slots : Mask(i) = i
      BY <1>1, Circle
    <3>2. h \in Int
      BY <1>3
    <3> QED
      BY <2>1, <3>1, <3>2
  <2> HIDE DEF d
  <2>3. d \in 0 .. capacity - 1
    BY <2>2 DEF Slots
  <2>4. d + 1 \in 1 .. capacity /\ h + (d + 1) - 1 = d + h /\ f - h + h = f
    BY <1>1, <1>3, <2>1, <2>3
  <2> QED
    BY <1>2, <2>2, <2>4
<1> QED
  BY <1>4, <1>5

-------------------------------------------------------------------------------
(* What the table holds, and how a search finds it.                        *)

(* A slot is free or holds an entry.                                       *)
LEMMA SlotFacts ==
  ASSUME TypeOK
  PROVE  /\ \A i \in Slots : /\ entries[i].psl \in Nat
                             /\ i \in Occupied => entries[i] \in Taken
                             /\ i \notin Occupied => entries[i] = Free /\ entries[i].psl = 0
         /\ \A i \in Occupied : i \in Slots /\ entries[i].psl > 0
         /\ Live \subseteq Occupied
         /\ \A e \in Taken : e.key \in Keys /\ e.value \in Values /\ e.psl \in Nat \ {0}
<1>1. \A i \in Slots : entries[i] \in Taken \union {Free}
  BY DEF TypeOK, Entry
<1>2. \A e \in Taken : e.key \in Keys /\ e.value \in Values /\ e.psl \in Nat \ {0}
  BY DEF Taken
<1>3. Free.psl = 0
  BY DEF Free
<1>4. \A i : i \in Occupied <=> i \in Slots /\ entries[i].psl > 0
  BY DEF Occupied
<1>5. Live \subseteq Occupied
  BY DEF Live
<1> QED
  BY <1>1, <1>2, <1>3, <1>4, <1>5

(* On the way from its home to an entry, each slot is taken by an entry at *)
(* least as far from its own home.                                         *)
LEMMA Path ==
  ASSUME TypeOK, Placed, NEW i \in Occupied, NEW q \in Nat, 1 <= q, q <= entries[i].psl
  PROVE  entries[At(entries[i].key, q)].psl >= q
<1> DEFINE k == entries[i].key
           p == entries[i].psl
           T == {d \in Nat : d < p /\ ~ (entries[At(k, p - d)].psl >= p - d)}
<1>1. k \in Keys /\ p \in Nat \ {0} /\ i = At(k, p)
  BY SlotFacts DEF Placed, Fits
<1>2. SUFFICES ASSUME T # {} PROVE FALSE
  <2>1. p - q \in Nat /\ p - q < p /\ p - (p - q) = q
    BY <1>1
  <2> QED
    BY <1>2, <2>1
<1>3. PICK d \in T : \A e \in T : <<e, d>> \notin OpToRel(<, Nat)
  <2>1. T \subseteq Nat
    OBVIOUS
  <2> HIDE DEF T
  <2> QED
    BY <1>2, <2>1, WFMin, NatLessThanWellFounded
<1>4. \A e \in T : ~ (e < d)
  BY <1>3 DEF OpToRel
<1>5. d \in Nat /\ d < p /\ ~ (entries[At(k, p - d)].psl >= p - d)
  BY <1>3
<1>6. d # 0
  BY <1>1, <1>5
<1> DEFINE n == p - d
           j == At(k, n + 1)
<1>7. n \in Nat /\ n >= 1 /\ n + 1 = p - (d - 1) /\ d - 1 \in Nat /\ d - 1 < p
  BY <1>1, <1>5, <1>6
<1>8. entries[j].psl >= n + 1
  BY <1>4, <1>7
<1> HIDE DEF T, k, p, n
<1>9. j \in Slots /\ Mask(j - 1) = At(k, n)
  <2> DEFINE m == n + 1
  <2>1. m \in Int /\ m - 1 = n
    BY <1>7
  <2> HIDE DEF m
  <2>2. At(k, m) \in Slots /\ Mask(At(k, m) - 1) = At(k, m - 1)
    BY <1>1, <2>1, Search
  <2> QED
    BY <2>1, <2>2 DEF m
<1>10. j \in Occupied
  BY <1>7, <1>8, <1>9, SlotFacts DEF Occupied
<1>11. entries[j].psl > 1 => entries[Mask(j - 1)].psl >= entries[j].psl - 1
  BY <1>10 DEF Placed, Fits
<1>12. entries[At(k, n)].psl >= n
  <2>1. entries[j].psl \in Nat /\ At(k, n) \in Slots /\ entries[At(k, n)].psl \in Nat
    BY <1>1, <1>7, <1>9, SlotFacts, Search
  <2> HIDE DEF j
  <2> QED
    BY <1>7, <1>8, <1>9, <1>11, <2>1
<1> QED
  BY <1>5, <1>12 DEF n

(* The sets of slots are finite.                                           *)
LEMMA Finite ==
  ASSUME TypeOK
  PROVE  /\ IsFiniteSet(Slots) /\ Cardinality(Slots) = capacity
         /\ IsFiniteSet(Occupied) /\ Cardinality(Occupied) \in Nat
         /\ IsFiniteSet(Live) /\ Cardinality(Live) \in Nat
         /\ IsFiniteSet(Left) /\ Cardinality(Left) \in Nat
<1>1. IsFiniteSet(Slots) /\ Cardinality(Slots) = capacity
  <2>1. 0 \in Int /\ capacity - 1 \in Int /\ capacity \in Nat /\ capacity >= 4
    BY DEF TypeOK
  <2>2. /\ IsFiniteSet(0 .. capacity - 1)
        /\ Cardinality(0 .. capacity - 1)
             = IF 0 > capacity - 1 THEN 0 ELSE capacity - 1 - 0 + 1
    BY <2>1, FS_Interval
  <2> QED
    BY <2>1, <2>2 DEF Slots
<1>2. IsFiniteSet(Occupied)
  BY <1>1, FS_Subset DEF Occupied
<1>3. IsFiniteSet(Live)
  BY <1>2, FS_Subset DEF Live
<1>4. IsFiniteSet(Left)
  <2>1. CASE Resizing
    <3>1. PICK m \in 0 .. capacity : old \in [0 .. m - 1 -> Entry]
      BY <2>1 DEF TypeOK
    <3>2. Left \subseteq 0 .. m - 1
      BY <3>1 DEF Left
    <3>3. m - 1 \in Int /\ 0 \in Int
      BY DEF TypeOK
    <3>4. IsFiniteSet(0 .. m - 1)
      BY <3>3, FS_Interval
    <3> QED
      BY <3>2, <3>4, FS_Subset
  <2>2. CASE ~ Resizing
    <3>1. Left = {}
      BY <2>2 DEF Left, Resizing
    <3> QED
      BY <3>1, FS_EmptySet
  <2> QED
    BY <2>1, <2>2
<1> QED
  BY <1>1, <1>2, <1>3, <1>4, FS_CardinalityType

(* There is always a free slot: with the hole of a deletion, as many slots *)
(* are taken as the largest count allows, and four slots or more are       *)
(* enough for the load factor to leave one.                                *)
LEMMA FreeSlot ==
  ASSUME TypeOK, HandInv, CountInv
  PROVE  /\ \E f \in Slots : entries[f].psl = 0
         /\ pc # "shift" => Live = Occupied
<1>1. pc # "shift" => Live = Occupied
  BY DEF Live
<1>2. pc = "shift" => Live = Occupied \ {idx} /\ idx \in Occupied
  BY DEF Live, HandInv
<1>3. Cardinality(Occupied) = Cardinality(Live) + (IF pc = "shift" THEN 1 ELSE 0)
  <2>1. CASE pc = "shift"
    <3>1. Cardinality(Occupied \ {idx})
            = IF idx \in Occupied THEN Cardinality(Occupied) - 1 ELSE Cardinality(Occupied)
      BY Finite, FS_RemoveElement
    <3>2. Cardinality(Live) = Cardinality(Occupied) - 1
      BY <1>2, <2>1, <3>1
    <3>3. Cardinality(Occupied) \in Nat
      BY Finite
    <3> QED
      BY <2>1, <3>2, <3>3
  <2>2. CASE pc # "shift"
    BY <1>1, <2>2, Finite
  <2> QED
    BY <2>1, <2>2
<1>4. Cardinality(Occupied) < capacity
  <2> DEFINE a == Cardinality(Occupied)
             b == Cardinality(Live)
             c == Cardinality(Left)
  <2>1. a \in Nat /\ b \in Nat /\ c \in Nat
    BY Finite
  <2>2. a = b + (IF pc = "shift" THEN 1 ELSE 0)
    BY <1>3
  <2>3. /\ b + c + (IF pc = "move" THEN 1 ELSE 0) = count
        /\ count + (IF pc = "shift" THEN 1 ELSE 0) <= peak
        /\ peak > 0 => (peak - 1) * 4 < capacity * 3
    BY DEF CountInv, HT_LOAD_NUM, HT_LOAD_DEN
  <2>4. count \in Nat /\ peak \in Nat /\ capacity \in Nat /\ capacity >= 4
    BY DEF TypeOK
  <2> HIDE DEF a, b, c
  <2>5. a <= peak
    BY <2>1, <2>2, <2>3, <2>4
  <2>6. a < capacity
    BY <2>1, <2>3, <2>4, <2>5
  <2> QED
    BY <2>6 DEF a
<1>5. Occupied # Slots
  <2>1. Cardinality(Slots) = capacity /\ capacity \in Nat /\ Cardinality(Occupied) \in Nat
    BY Finite DEF TypeOK
  <2> QED
    BY <1>4, <2>1
<1>6. PICK f \in Slots : f \notin Occupied
  BY <1>5 DEF Occupied
<1> QED
  BY <1>1, <1>6, SlotFacts

(* Between operations, a search ends at the key if it is in the table, and *)
(* says that it is not there otherwise.                                    *)
LEMMA GetFinds ==
  ASSUME TypeOK, Placed, Unique, HandInv, CountInv, pc = "idle", NEW k \in Keys
  PROVE  /\ \A i \in Occupied : entries[i].key = k =>
              Found(k) /\ At(k, Rounds(k)) = i /\ Get(k) = entries[i].value
         /\ Found(k) => \E i \in Occupied : entries[i].key = k
         /\ ~ Found(k) => Get(k) = NoValue
<1> DEFINE Least(n) == SearchEnds(k, n) /\ \A m \in 1 .. n - 1 : ~ SearchEnds(k, m)
           r == Rounds(k)
<1>1. capacity \in Nat /\ capacity >= 4
  BY DEF TypeOK
<1>2. PICK f \in 1 .. capacity : entries[At(k, f)].psl = 0
  BY FreeSlot, Search
<1>3. r \in 1 .. capacity /\ Least(r)
  <2> DEFINE T == {n \in Nat : n \in 1 .. capacity /\ SearchEnds(k, n)}
  <2>1. f \in T
    BY <1>1, <1>2 DEF SearchEnds
  <2>2. PICK n \in T : \A e \in T : <<e, n>> \notin OpToRel(<, Nat)
    <3>1. T \subseteq Nat /\ T # {}
      BY <2>1
    <3> HIDE DEF T
    <3> QED
      BY <3>1, WFMin, NatLessThanWellFounded
  <2>3. \A e \in T : ~ (e < n)
    BY <2>2 DEF OpToRel
  <2>4. n \in 1 .. capacity /\ SearchEnds(k, n)
    OBVIOUS
  <2>5. \A m \in 1 .. n - 1 : ~ SearchEnds(k, m)
    BY <1>1, <2>3, <2>4
  <2>6. \E x \in 1 .. capacity : Least(x)
    BY <2>4, <2>5
  <2>7. r = CHOOSE x \in 1 .. capacity : Least(x)
    BY DEF Rounds
  <2> HIDE DEF Least, r
  <2> QED
    BY <2>6, <2>7
<1> HIDE DEF r
<1>4. At(k, r) \in Slots
  <2>1. r \in Int
    BY <1>1, <1>3
  <2> QED
    BY <2>1, Search
<1>5. Found(k) <=> entries[At(k, r)].psl >= r /\ entries[At(k, r)].key = k
  BY DEF Found, r
<1>6. Get(k) = IF Found(k) THEN entries[At(k, r)].value ELSE NoValue
  BY DEF Get, r
<1>7. Found(k) => At(k, r) \in Occupied
  BY <1>1, <1>3, <1>4, <1>5, SlotFacts
<1>8. ASSUME NEW i \in Occupied, entries[i].key = k
      PROVE  Found(k) /\ At(k, r) = i
  <2> DEFINE p == entries[i].psl
  <2>1. p \in Nat \ {0} /\ i \in Slots /\ i = At(k, p)
    BY <1>8, SlotFacts DEF Placed, Fits
  <2>2. \A q \in 1 .. p : entries[At(k, q)].psl >= q
    <3> SUFFICES ASSUME NEW q \in 1 .. p PROVE entries[At(k, q)].psl >= q
      OBVIOUS
    <3>1. q \in Nat /\ 1 <= q /\ q <= entries[i].psl
      BY <2>1
    <3> QED
      BY <1>8, <3>1, Path
  <2> HIDE DEF p
  <2>3. p < f
    BY <1>1, <1>2, <2>1, <2>2
  <2>4. SearchEnds(k, p)
    BY <1>8, <2>1 DEF SearchEnds
  <2>5. r <= p
    BY <1>1, <1>3, <2>1, <2>3, <2>4
  <2>6. entries[At(k, r)].psl >= r /\ entries[At(k, r)].psl \in Nat
    BY <1>1, <1>3, <1>4, <2>1, <2>2, <2>5, SlotFacts
  <2>7. entries[At(k, r)].key = k
    BY <1>1, <1>3, <2>6 DEF SearchEnds
  <2>8. Found(k)
    BY <1>5, <2>6, <2>7
  <2>9. At(k, r) = i
    <3>1. Live = Occupied
      BY DEF Live
    <3> QED
      BY <1>7, <1>8, <2>7, <2>8, <3>1 DEF Unique
  <2> QED
    BY <2>8, <2>9
<1> QED
  BY <1>5, <1>6, <1>7, <1>8 DEF r

-------------------------------------------------------------------------------
(* What the rounds of the loops do to the table.                           *)

(* The slots and the searches depend on the seed and the capacity only.    *)
LEMMA Kept ==
  ASSUME UNCHANGED <<hash, capacity>>
  PROVE  /\ Slots' = Slots
         /\ \A x : Mask(x)' = Mask(x)
         /\ \A k, n : At(k, n)' = At(k, n)
  BY DEF Slots, Mask, At

(* An entry written where it fits, over one no further from home, leaves   *)
(* every entry where it fits.                                              *)
LEMMA Written ==
  ASSUME TypeOK, Placed, UNCHANGED <<hash, capacity>>, idx \in Slots,
         NEW e \in Taken, Fits(e, idx), entries[idx].psl <= e.psl,
         entries' = [entries EXCEPT ![idx] = e]
  PROVE  /\ Placed' /\ entries' \in [Slots' -> Entry]
         /\ \A x \in Taken, i \in Slots : Fits(x, i) => Fits(x, i)'
         /\ Occupied' = Occupied \union {idx}
         /\ entries'[idx] = e
         /\ \A i \in Slots : i # idx => entries'[i] = entries[i]
<1>1. /\ entries'[idx] = e
      /\ \A i \in Slots : i # idx => entries'[i] = entries[i]
  BY DEF TypeOK
<1>2. entries' \in [Slots' -> Entry]
  BY Kept DEF TypeOK, Entry
<1>3. \A i \in Slots : /\ entries[i].psl \in Nat /\ entries'[i].psl \in Nat
                       /\ entries[i].psl <= entries'[i].psl
  BY <1>1, SlotFacts
<1>4. \A i \in Slots : Mask(i - 1) \in Slots
  <2>1. \A i \in Slots : i - 1 \in Int
    BY DEF Slots, TypeOK
  <2> QED
    BY <2>1, Circle DEF TypeOK
<1>5. ASSUME NEW x \in Taken, NEW i \in Slots, Fits(x, i)
      PROVE  Fits(x, i)'
  <2>1. i = At(x.key, x.psl)'
    BY <1>5, Kept DEF Fits
  <2>2. ASSUME x.psl > 1 PROVE entries'[Mask(i - 1)'].psl >= x.psl - 1
    <3>1. entries[Mask(i - 1)].psl >= x.psl - 1 /\ Mask(i - 1)' = Mask(i - 1)
      BY <1>5, <2>2, Kept DEF Fits
    <3>2. x.psl \in Nat
      BY SlotFacts
    <3> QED
      BY <1>3, <1>4, <3>1, <3>2
  <2> QED
    BY <2>1, <2>2 DEF Fits
<1>6. Occupied' = Occupied \union {idx}
  <2>1. e.psl \in Nat \ {0}
    BY SlotFacts
  <2> QED
    BY <1>1, <2>1, Kept DEF Occupied
<1>7. Placed'
  <2>1. ASSUME NEW i \in Occupied'
        PROVE  \E x \in Taken : x = entries'[i] /\ Fits(x, i)'
    <3>1. CASE i = idx
      BY <1>1, <1>5, <3>1
    <3>2. CASE i # idx
      <4>1. i \in Occupied /\ i \in Slots /\ entries'[i] = entries[i] /\ entries[i] \in Taken
        BY <1>1, <1>6, <2>1, <3>2, SlotFacts
      <4>2. Fits(entries[i], i)
        BY <4>1 DEF Placed
      <4> QED
        BY <1>5, <4>1, <4>2
    <3> QED
      BY <3>1, <3>2
  <2> QED
    BY <2>1 DEF Placed, Fits, At, Mask
<1> QED
  BY <1>1, <1>2, <1>5, <1>6, <1>7

(* An entry in hand that is further from home than the one in its slot is  *)
(* not in the table: on its way to it, this slot would be passed.          *)
LEMMA Absent ==
  ASSUME TypeOK, Placed, HandInv, pc \in {"move", "probe"}, entries[idx].psl < cur.psl
  PROVE  \A i \in Live : entries[i].key # cur.key
<1> SUFFICES ASSUME NEW i \in Live, entries[i].key = cur.key PROVE FALSE
  OBVIOUS
<1>1. entries[i].psl >= cur.psl /\ idx = At(cur.key, cur.psl)
  BY DEF HandInv, InHand, Fits
<1>2. cur.psl \in Nat \ {0} /\ idx \in Slots /\ i \in Occupied
  BY SlotFacts DEF TypeOK, InHand
<1>3. entries[At(entries[i].key, cur.psl)].psl >= cur.psl
  BY <1>1, <1>2, Path
<1>4. entries[idx].psl \in Nat
  BY <1>2, SlotFacts
<1> QED
  BY <1>1, <1>2, <1>3, <1>4

(* A round at a taken slot of another key: the slot keeps its entry, which *)
(* is as far from home as the one in hand, or the two change places.       *)
LEMMA WalkCases ==
  ASSUME TypeOK, Placed, HandInv, pc \in {"move", "probe"},
         UNCHANGED <<hash, capacity>>, idx \in Occupied, Walk
  PROVE  /\ Placed' /\ entries' \in [Slots' -> Entry] /\ Occupied' = Occupied
         /\ cur' \in Taken /\ idx' \in Slots' /\ Fits(cur, idx)'
         /\ idx' = Mask(idx + 1)
         /\ \/ /\ cur.psl <= entries[idx].psl /\ entries' = entries
               /\ cur' = [cur EXCEPT !.psl = @ + 1]
            \/ /\ entries[idx].psl < cur.psl
               /\ entries' = [entries EXCEPT ![idx] = cur]
               /\ cur' = [entries[idx] EXCEPT !.psl = @ + 1]
<1> DEFINE s == entries[idx]
<1>1. /\ capacity \in Nat /\ capacity >= 4 /\ idx \in Slots
      /\ s \in Taken /\ cur \in Taken /\ Fits(cur, idx) /\ Fits(s, idx)
      /\ s.psl \in Nat \ {0} /\ cur.psl \in Nat \ {0}
  BY SlotFacts DEF TypeOK, InHand, HandInv, Placed
<1>2. idx' = Mask(idx + 1) /\ idx' \in Slots /\ Mask(idx' - 1) = idx
  <2>1. idx' = Mask(idx + 1)
    BY DEF Walk
  <2> QED
    BY <1>1, <2>1, NextSlot
<1>3. \A x \in Taken : /\ [x EXCEPT !.psl = @ + 1] \in Taken
                       /\ [x EXCEPT !.psl = @ + 1].key = x.key
                       /\ [x EXCEPT !.psl = @ + 1].value = x.value
                       /\ [x EXCEPT !.psl = @ + 1].psl = x.psl + 1
  BY DEF Taken
<1>4. /\ cur.psl <= s.psl => /\ entries' = entries
                             /\ cur' = [cur EXCEPT !.psl = @ + 1]
      /\ s.psl < cur.psl => /\ entries' = [entries EXCEPT ![idx] = cur]
                            /\ cur' = [s EXCEPT !.psl = @ + 1]
  BY <1>1 DEF Walk, Steals
<1>5. cur' \in Taken
  BY <1>1, <1>3, <1>4
<1>6. /\ Placed' /\ entries' \in [Slots' -> Entry] /\ Occupied' = Occupied
      /\ entries'[idx].psl + 1 >= cur'.psl
  <2>1. CASE cur.psl <= s.psl
    <3>1. entries' = entries /\ cur'.psl = cur.psl + 1
      BY <1>1, <1>3, <1>4, <2>1
    <3>2. Slots' = Slots /\ Occupied' = Occupied
      BY <3>1, Kept DEF Occupied
    <3>3. Placed'
      BY <3>1, <3>2 DEF Placed, Fits, At, Mask
    <3> QED
      BY <1>1, <2>1, <3>1, <3>2, <3>3 DEF TypeOK
  <2>2. CASE s.psl < cur.psl
    <3>1. entries' = [entries EXCEPT ![idx] = cur] /\ cur'.psl = s.psl + 1
      BY <1>1, <1>3, <1>4, <2>2
    <3>2. /\ Placed' /\ entries' \in [Slots' -> Entry]
          /\ Occupied' = Occupied \union {idx} /\ entries'[idx] = cur
      <4>1. PICK c \in Taken : c = cur
        BY <1>1
      <4>2. s.psl <= c.psl /\ Fits(c, idx) /\ entries' = [entries EXCEPT ![idx] = c]
        BY <1>1, <2>2, <3>1, <4>1
      <4> QED
        BY <1>1, <4>1, <4>2, Written
    <3> QED
      BY <1>1, <2>2, <3>1, <3>2
  <2> QED
    BY <1>1, <2>1, <2>2
<1>7. Fits(cur, idx)'
  <2>1. PICK c \in Taken : c = cur'
    BY <1>5
  <2>2. PICK j \in Slots : j = idx'
    BY <1>2
  <2>3. j = At(c.key, c.psl)'
    <3>1. ASSUME NEW x \in Taken, Fits(x, idx), cur' = [x EXCEPT !.psl = @ + 1]
          PROVE  \E y \in Taken : Fits(y, idx) /\ c.key = y.key /\ c.psl = y.psl + 1
      BY <1>3, <2>1, <3>1
    <3>2. PICK x \in Taken : Fits(x, idx) /\ c.key = x.key /\ c.psl = x.psl + 1
      <4>1. PICK u \in Taken, w \in Taken : u = cur /\ w = s
        BY <1>1
      <4> HIDE DEF s
      <4>2. cur' = [u EXCEPT !.psl = @ + 1] \/ cur' = [w EXCEPT !.psl = @ + 1]
        <5>1. cur.psl <= s.psl \/ s.psl < cur.psl
          BY <1>1
        <5> QED
          BY <1>4, <4>1, <5>1
      <4>3. Fits(u, idx) /\ Fits(w, idx)
        BY <1>1, <4>1
      <4> QED
        BY <3>1, <4>2, <4>3
    <3>3. x.key \in Keys /\ x.psl \in Int
      BY SlotFacts
    <3>4. Mask(At(x.key, x.psl) + 1) = At(x.key, x.psl + 1)
      BY <3>3, Search
    <3>5. j = At(c.key, c.psl)
      BY <1>2, <2>2, <3>2, <3>4 DEF Fits
    <3> QED
      BY <3>5, Kept
  <2>4. entries'[Mask(j - 1)'].psl >= c.psl - 1
    <3>1. Mask(j - 1)' = idx
      BY <1>2, <2>2, Kept
    <3>2. c.psl \in Nat /\ entries'[idx].psl + 1 >= c.psl /\ entries'[idx].psl \in Nat
      BY <1>1, <1>3, <1>4, <1>6, <2>1, SlotFacts DEF TypeOK
    <3> QED
      BY <3>1, <3>2
  <2> QED
    BY <2>1, <2>2, <2>3, <2>4 DEF Fits, At, Mask
<1> QED
  BY <1>1, <1>2, <1>4, <1>5, <1>6, <1>7, Kept

(* Such a round neither loses an entry nor doubles one: what is in the     *)
(* table or in hand stays so.                                              *)
LEMMA WalkKeeps ==
  ASSUME IInv, pc \in {"move", "probe"},
         UNCHANGED <<hash, capacity, pc, key, value, old, pos, before>>,
         idx \in Occupied, entries[idx].key # cur.key, Walk
  PROVE  Unique' /\ HandInv' /\ BeforeInv' /\ Live' = Live /\ Left' = Left
<1> USE DEF IInv
<1>1. /\ Live = Occupied /\ Live' = Occupied' /\ Occupied' = Occupied
      /\ Left' = Left /\ InHand /\ InHand'
  <2>1. Occupied' = Occupied
    BY WalkCases
  <2> QED
    BY <2>1 DEF Live, Left, InHand
<1> DEFINE L == Live
<1>2. PICK s \in Taken, c \in Taken, n \in Taken, j \in Slots :
        s = entries[idx] /\ c = cur /\ n = cur' /\ j = idx
  BY WalkCases, SlotFacts DEF TypeOK, InHand
<1>3. /\ j \in L /\ entries[j] = s /\ s.key # c.key
      /\ s.psl \in Nat \ {0} /\ c.psl \in Nat \ {0}
  BY <1>1, <1>2, SlotFacts
<1>4. \/ /\ c.psl <= s.psl /\ entries' = entries
         /\ n.key = c.key /\ n.value = c.value /\ n.psl = c.psl + 1
      \/ /\ s.psl < c.psl /\ entries' = [entries EXCEPT ![j] = c]
         /\ n.key = s.key /\ n.value = s.value /\ n.psl = s.psl + 1
  <2>1. \A x \in Taken : /\ [x EXCEPT !.psl = @ + 1].key = x.key
                         /\ [x EXCEPT !.psl = @ + 1].value = x.value
                         /\ [x EXCEPT !.psl = @ + 1].psl = x.psl + 1
    BY DEF Taken
  <2>2. \/ c.psl <= s.psl /\ entries' = entries /\ n = [c EXCEPT !.psl = @ + 1]
        \/ /\ s.psl < c.psl /\ entries' = [entries EXCEPT ![j] = c]
           /\ n = [s EXCEPT !.psl = @ + 1]
    BY <1>2, WalkCases
  <2> QED
    BY <2>1, <2>2
<1>5. \A i, k \in L : entries[i].key = entries[k].key => i = k
  BY DEF Unique
<1>6. \A i \in L : i \in Slots /\ entries[i] \in Taken /\ entries[i].psl \in Nat
  BY <1>1, SlotFacts
<1>7. \A i \in L : entries[i].key = c.key =>
        pc = "probe" /\ c.key = key /\ entries[i].psl >= c.psl
  BY <1>1, <1>2 DEF HandInv
<1>8. s.psl < c.psl => \A i \in L : entries[i].key # c.key
  BY <1>2, Absent
<1>9. /\ s.psl < c.psl => entries'[j] = c /\ \A i \in L : i # j => entries'[i] = entries[i]
      /\ c.psl <= s.psl => entries' = entries
  BY <1>3, <1>4, <1>6 DEF TypeOK
<1>10. \A i, k \in L : entries'[i].key = entries'[k].key => i = k
  BY <1>3, <1>5, <1>8, <1>9
<1>11. \A i \in L : entries'[i].key = n.key =>
         pc = "probe" /\ n.key = key /\ entries'[i].psl >= n.psl
  <2> SUFFICES ASSUME NEW i \in L, entries'[i].key = n.key
               PROVE pc = "probe" /\ n.key = key /\ entries'[i].psl >= n.psl
    OBVIOUS
  <2>1. CASE s.psl < c.psl
    <3>1. n.key = s.key
      BY <1>3, <1>4, <2>1
    <3> QED
      BY <1>3, <1>5, <1>9, <2>1, <3>1
  <2>2. CASE c.psl <= s.psl
    <3>1. n.key = c.key /\ n.psl = c.psl + 1 /\ entries' = entries
      BY <1>3, <1>4, <2>2
    <3>2. pc = "probe" /\ c.key = key /\ entries[i].psl >= c.psl
      BY <1>7, <3>1
    <3>3. entries[i].psl # c.psl
      <4>1. i = At(entries[i].key, entries[i].psl) /\ j = At(c.key, c.psl)
        BY <1>1, <1>2 DEF Placed, HandInv, Fits
      <4> QED
        BY <1>3, <3>1, <4>1
    <3> QED
      BY <1>3, <1>6, <3>1, <3>2, <3>3
  <2> QED
    BY <1>3, <2>1, <2>2
<1> DEFINE Rest(k, v) == \E i \in L : i # j /\ entries[i].key = k /\ entries[i].value = v
           Late(k, v) == \E i \in Left : old[i].key = k /\ old[i].value = v
           H(k, v) == Has(k, v)
           HH(k, v) == Has(k, v)'
<1>12. \A k, v : H(k, v) <=> Rest(k, v) \/ (s.key = k /\ s.value = v)
  BY <1>3 DEF Has
<1>13. \A k, v : /\ s.psl < c.psl => (HH(k, v) <=> Rest(k, v) \/ (c.key = k /\ c.value = v))
                 /\ c.psl <= s.psl => (HH(k, v) <=> H(k, v))
  BY <1>1, <1>3, <1>9 DEF Has
<1>14. \A k, v : /\ Holds(k, v) <=> H(k, v) \/ (c.key = k /\ c.value = v) \/ Late(k, v)
                 /\ Holds(k, v)' <=> HH(k, v) \/ (n.key = k /\ n.value = v) \/ Late(k, v)
  BY <1>1, <1>2 DEF Holds
<1>15. \A v : /\ ~ Rest(s.key, v)
              /\ s.psl < c.psl => ~ Rest(c.key, v) /\ ~ H(c.key, v)
  BY <1>3, <1>5, <1>8 DEF Has
<1>16. Unique'
  <2>1. \A i, k \in Left : old[i].key = old[k].key => i = k
    BY DEF Unique
  <2>2. ASSUME NEW l \in Left
        PROVE  /\ \A i \in L : entries'[i].key # old[l].key
               /\ pc = "move" => old[l].key # n.key
    <3>1. /\ \A i \in L : entries[i].key # old[l].key
          /\ pc = "move" => old[l].key # c.key
      <4>1. /\ \A i \in L : entries[i].key # old[l].key
            /\ pc = "move" => old[l].key # cur.key
        BY <2>2 DEF Unique
      <4> QED
        BY <1>2, <4>1
    <3>2. pc = "move"
      BY <2>2 DEF Left
    <3> QED
      BY <1>3, <1>4, <1>9, <3>1, <3>2
  <2> QED
    BY <1>1, <1>2, <1>10, <2>1, <2>2 DEF Unique
<1>17. HandInv'
  <2>1. Fits(cur, idx)'
    BY WalkCases
  <2> QED
    BY <1>1, <1>2, <1>11, <2>1 DEF HandInv
<1>18. BeforeInv'
  <2> HIDE DEF L, Rest, Late, H, HH
  <2> SUFFICES ASSUME NEW k \in Keys, NEW v \in Values
               PROVE
      IF pc # "probe" \/ k # key THEN before[k] = v <=> Holds(k, v)'
      ELSE IF n.key = key THEN n.value = value /\ (before[k] = v <=> HH(k, v))
      ELSE before[k] = NoValue /\ (HH(k, v) <=> v = value)
    BY <1>2 DEF BeforeInv, HH
  <2>1. IF pc # "probe" \/ k # key THEN before[k] = v <=> Holds(k, v)
        ELSE IF c.key = key THEN c.value = value /\ (before[k] = v <=> H(k, v))
        ELSE before[k] = NoValue /\ (H(k, v) <=> v = value)
    BY <1>2 DEF BeforeInv, H
  <2>2. /\ before[k] \in Values \union {NoValue} /\ NoValue \notin Values
        /\ s.key \in Keys /\ s.value \in Values
    BY HashTableAssumption DEF TypeOK, Taken
  <2>3. \A w \in Values :
          k = key /\ pc = "probe" =>
             /\ c.key = key => (before[k] = w <=> H(k, w))
             /\ c.key # key => (H(k, w) <=> w = value)
    BY <1>2 DEF BeforeInv, H
  <2>4. CASE c.psl <= s.psl
    <3>1. n.key = c.key /\ n.value = c.value
      BY <1>3, <1>4, <2>4
    <3> QED
      BY <1>13, <1>14, <2>1, <2>4, <3>1
  <2>5. CASE s.psl < c.psl
    <3>1. n.key = s.key /\ n.value = s.value
      BY <1>3, <1>4, <2>5
    <3>2. CASE pc # "probe" \/ k # key
      BY <1>12, <1>13, <1>14, <2>1, <2>5, <3>1, <3>2
    <3>3. CASE pc = "probe" /\ k = key /\ c.key = key
      <4>1. before[k] = NoValue
        BY <1>15, <2>2, <2>3, <2>5, <3>3
      <4>2. HH(k, v) <=> v = value
        BY <1>13, <1>15, <2>1, <2>5, <3>3
      <4> QED
        BY <1>3, <3>1, <3>3, <4>1, <4>2
    <3>4. CASE pc = "probe" /\ k = key /\ c.key # key
      <4>1. CASE s.key = key
        <5>1. s.value = value
          BY <1>12, <2>2, <2>3, <3>4, <4>1
        <5>2. ~ HH(k, v)
          BY <1>13, <1>15, <2>5, <3>4, <4>1
        <5> QED
          BY <2>1, <2>2, <3>1, <3>4, <4>1, <5>1, <5>2
      <4>2. CASE s.key # key
        BY <1>12, <1>13, <2>1, <2>5, <3>1, <3>4, <4>2
      <4> QED
        BY <4>1, <4>2
    <3> QED
      BY <3>2, <3>3, <3>4
  <2> QED
    BY <1>3, <2>4, <2>5
<1> QED
  BY <1>1, <1>16, <1>17, <1>18

-------------------------------------------------------------------------------
(* The steps, one operation or round at a time.                            *)

(* Between operations every key answers what the table has for it.         *)
LEMMA Answers ==
  ASSUME IInv, pc = "idle", NEW k \in Keys
  PROVE  /\ Get(k) \in Values \union {NoValue}
         /\ \A v \in Values : Get(k) = v <=> Has(k, v)
         /\ Get(k) = NoValue <=> ~ Found(k)
         /\ Found(k) => /\ At(k, Rounds(k)) \in Live
                        /\ entries[At(k, Rounds(k))].key = k
                        /\ entries[At(k, Rounds(k))].value = Get(k)
<1>1. /\ \A i \in Occupied : entries[i].key = k =>
           Found(k) /\ At(k, Rounds(k)) = i /\ Get(k) = entries[i].value
      /\ Found(k) => \E i \in Occupied : entries[i].key = k
      /\ ~ Found(k) => Get(k) = NoValue
  BY GetFinds DEF IInv
<1>2. Live = Occupied
  BY DEF Live
<1>3. NoValue \notin Values
  BY HashTableAssumption
<1>4. \A i \in Occupied : entries[i] \in Taken /\ entries[i].value \in Values
  BY SlotFacts DEF IInv
<1>5. ASSUME NEW v \in Values PROVE Get(k) = v <=> Has(k, v)
  <2>1. CASE Found(k)
    <3>1. PICK i \in Occupied : entries[i].key = k
      BY <1>1, <2>1
    <3>2. Get(k) = entries[i].value /\ \A j \in Occupied : entries[j].key = k => j = i
      BY <1>1, <3>1
    <3> QED
      BY <1>2, <3>1, <3>2 DEF Has
  <2>2. CASE ~ Found(k)
    <3>1. \A i \in Occupied : entries[i].key # k
      BY <1>1, <2>2
    <3> QED
      BY <1>1, <1>2, <1>3, <2>2, <3>1 DEF Has
  <2> QED
    BY <2>1, <2>2
<1>6. CASE Found(k)
  <2>1. PICK i \in Occupied : entries[i].key = k
    BY <1>1, <1>6
  <2>2. Get(k) = entries[i].value /\ At(k, Rounds(k)) = i /\ Get(k) \in Values
    BY <1>1, <1>4, <2>1
  <2> QED
    BY <1>2, <1>3, <1>5, <1>6, <2>1, <2>2
<1>7. CASE ~ Found(k)
  BY <1>1, <1>5, <1>7
<1> QED
  BY <1>6, <1>7

(* What they answer is written down when an operation begins.              *)
LEMMA Recorded ==
  ASSUME IInv, pc = "idle", Began
  PROVE  /\ before' \in [Keys -> Values \union {NoValue}]
         /\ \A k \in Keys, v \in Values : before'[k] = v <=> Has(k, v)
<1>1. before' = [k \in Keys |-> Get(k)]
  BY DEF Began
<1>2. \A k \in Keys : Get(k) \in Values \union {NoValue}
  BY Answers
<1>3. \A k \in Keys, v \in Values : Get(k) = v <=> Has(k, v)
  BY Answers
<1> QED
  BY <1>1, <1>2, <1>3

(* What fits where does not change while the table does not.               *)
LEMMA SameTable ==
  ASSUME Placed, UNCHANGED <<hash, capacity, entries>>
  PROVE  Placed' /\ Slots' = Slots /\ Occupied' = Occupied
<1>1. Slots' = Slots /\ Occupied' = Occupied
  BY Kept DEF Occupied
<1> QED
  BY <1>1 DEF Placed, Fits, At, Mask

(* An entry fits at its home.                                              *)
LEMMA AtHome ==
  ASSUME TypeOK, NEW k \in Keys, NEW v \in Values, NEW l,
         UNCHANGED <<hash, capacity>>, TakeInHand(k, v, l)
  PROVE  /\ cur' \in Taken /\ cur'.key = k /\ cur'.value = v /\ cur'.psl = 1
         /\ idx' \in Slots' /\ Fits(cur, idx)' /\ pc' = l /\ probe' = 0
<1>1. cur' = [key |-> k, value |-> v, psl |-> 1]
  BY DEF TakeInHand, HT_INITIAL_PSL
<1>2. cur' \in Taken /\ cur'.key = k /\ cur'.value = v /\ cur'.psl = 1
  BY <1>1 DEF Taken
<1>3. hash[k] \in Nat /\ hash[k] + 1 - 1 = hash[k]
  BY DEF TypeOK
<1>4. idx' = Mask(hash[k]) /\ At(k, 1) = Mask(hash[k])
  BY <1>3 DEF TakeInHand, At
<1>5. idx' \in Slots'
  BY <1>3, <1>4, Circle, Kept DEF TypeOK
<1>6. At(k, 1)' = At(k, 1)
  BY Kept
<1>7. Fits(cur, idx)'
  BY <1>2, <1>4, <1>6 DEF Fits, At, Mask
<1> QED
  BY <1>2, <1>5, <1>7 DEF TakeInHand

(* The table created is empty.                                             *)
LEMMA InitIInv == Init => IInv
<1> SUFFICES ASSUME Init PROVE IInv
  OBVIOUS
<1>1. /\ hash \in [Keys -> Nat] /\ capacity = MinCap /\ MinCap \in Nat /\ MinCap >= 4
      /\ entries = [i \in Slots |-> Free] /\ count = 0 /\ peak = 0 /\ probe = 0
      /\ pc = "idle"
  BY HashTableAssumption DEF Init, Zeroed, Slots
<1>2. Occupied = {}
  BY <1>1 DEF Occupied, Free
<1>3. Live = {} /\ Left = {} /\ Cardinality({}) = 0
  BY <1>1, <1>2, FS_EmptySet DEF Live, Left
<1>4. TypeOK
  BY <1>1 DEF TypeOK, Entry, Setting, InHand, Resizing
<1>5. Placed /\ Unique /\ HandInv
  BY <1>1, <1>2, <1>3 DEF Placed, Unique, HandInv, InHand
<1>6. CountInv
  BY <1>1, <1>3 DEF CountInv, Setting
<1>7. BeforeInv
  BY <1>1 DEF BeforeInv
<1> QED
  BY <1>4, <1>5, <1>6, <1>7 DEF IInv

(* Any slot is fewer than capacity steps away.                             *)
LEMMA Reach ==
  ASSUME capacity \in Nat, capacity >= 4, NEW i \in Slots, NEW f \in Slots
  PROVE  \E d \in 0 .. capacity - 1 : Mask(i + d) = f
<1> DEFINE x == f - i
<1>1. i \in Int /\ f \in Int /\ x \in Int /\ x + i = f
  BY DEF Slots
<1> HIDE DEF x
<1>2. Mask(x) \in Slots /\ Mask(Mask(x) + i) = Mask(x + i) /\ Mask(f) = f
  BY <1>1, Circle
<1> DEFINE d == Mask(x)
<1>3. d \in 0 .. capacity - 1 /\ Mask(d + i) = f
  BY <1>1, <1>2 DEF Slots
<1> HIDE DEF d
<1>4. d + i = i + d
  BY <1>1, <1>3
<1> QED
  BY <1>3, <1>4

(* The probe loop of set begins with an entry at its home, in a table that *)
(* has room for it.                                                        *)
LEMMA StartProbe ==
  ASSUME IInv, NEW k \in Keys, NEW v \in Values,
         pc \in {"idle", "grow"}, Left = {},
         UNCHANGED <<table, peak>>, TakeInHand(k, v, "probe"), key' = k, value' = v,
         count * HT_LOAD_DEN < capacity * HT_LOAD_NUM,
         before' \in [Keys -> Values \union {NoValue}],
         \A x \in Keys, y \in Values : before'[x] = y <=> Has(x, y)
  PROVE  IInv'
<1> USE DEF IInv
<1>1. UNCHANGED <<hash, capacity, entries, count, peak>>
  BY DEF table
<1>2. /\ Placed' /\ Slots' = Slots /\ Occupied' = Occupied
      /\ Live = Occupied /\ Live' = Occupied /\ Left' = {}
  <2>1. Placed' /\ Slots' = Slots /\ Occupied' = Occupied
    BY <1>1, SameTable
  <2> QED
    BY <2>1 DEF Live, Left, TakeInHand
<1>3. /\ cur' \in Taken /\ cur'.key = k /\ cur'.value = v /\ cur'.psl = 1
      /\ idx' \in Slots /\ Fits(cur, idx)' /\ pc' = "probe" /\ probe' = 0
  BY <1>1, <1>2, AtHome
<1>4. TypeOK'
  BY <1>1, <1>2, <1>3 DEF TypeOK, Setting, InHand, Resizing
<1>5. Unique'
  BY <1>1, <1>2 DEF Unique
<1>6. HandInv'
  <2>1. \A i \in Occupied : entries[i].psl >= 1
    BY SlotFacts
  <2> QED
    BY <1>1, <1>2, <1>3, <2>1 DEF HandInv
<1>7. CountInv'
  <2>1. Cardinality(Live) = Cardinality(Live')
    BY <1>2
  <2>2. /\ Cardinality(Live) + Cardinality(Left) + 0 = count /\ count + 0 <= peak
        /\ peak > 0 => (peak - 1) * HT_LOAD_DEN < capacity * HT_LOAD_NUM
    BY DEF CountInv
  <2>3. \E d \in 0 .. capacity - 1 : entries'[Mask(idx + d)'].psl = 0
    <3>1. PICK f \in Slots : entries[f].psl = 0
      BY FreeSlot
    <3>2. PICK j \in Slots : j = idx'
      BY <1>3
    <3>3. PICK d \in 0 .. capacity - 1 : Mask(j + d) = f
      BY Reach DEF TypeOK
    <3>4. Mask(j + d)' = f
      BY <1>1, <3>3, Kept
    <3> QED
      BY <1>1, <3>1, <3>2, <3>4 DEF Mask
  <2>4. capacity' - probe' - 1 = capacity - 1
    BY <1>1, <1>3 DEF TypeOK
  <2> QED
    BY <1>1, <1>2, <1>3, <2>1, <2>2, <2>3, <2>4 DEF CountInv
<1>8. BeforeInv'
  <2>1. \A x, y : Has(x, y)' <=> Has(x, y)
    BY <1>1, <1>2 DEF Has
  <2>2. \A x, y : x # k => (Holds(x, y)' <=> Has(x, y))
    BY <1>2, <1>3, <2>1 DEF Holds
  <2>3. \A x, y : x # cur'.key => (Holds(x, y)' <=> Has(x, y))
    BY <1>3, <2>2
  <2> QED
    BY <1>3, <2>1, <2>3 DEF BeforeInv
<1> QED
  BY <1>2, <1>4, <1>5, <1>6, <1>7, <1>8

(* A set begins; a resize keeps every entry for the new table.             *)
LEMMA SetStep ==
  ASSUME IInv, NEW k \in Keys, NEW v \in Values, Set(k, v)
  PROVE  IInv'
<1> USE DEF IInv
<1>1. pc = "idle" /\ Began /\ key' = k /\ value' = v /\ UNCHANGED <<hash, count, peak>>
  BY DEF Set
<1>2. /\ before' \in [Keys -> Values \union {NoValue}]
      /\ \A x \in Keys, y \in Values : before'[x] = y <=> Has(x, y)
  BY <1>1, Recorded
<1>3. Left = {} /\ Live = Occupied
  BY <1>1 DEF Left, Live
<1>4. count \in Nat /\ capacity \in Nat /\ capacity >= 4
  BY DEF TypeOK
<1>5. CASE ~ Loaded
  <2>1. /\ TakeInHand(k, v, "probe") /\ UNCHANGED <<table, peak>>
    BY <1>5 DEF Set, table
  <2>2. count * HT_LOAD_DEN < capacity * HT_LOAD_NUM
    BY <1>4, <1>5 DEF Loaded, HT_LOAD_DEN, HT_LOAD_NUM
  <2> QED
    BY <1>1, <1>2, <1>3, <2>1, <2>2, StartProbe
<1>6. CASE Loaded
  <2>1. /\ old' = entries /\ pos' = 0 /\ pc' = "grow"
        /\ entries' = Zeroed(2 * capacity) /\ capacity' = 2 * capacity
    BY <1>6 DEF Set
  <2>2. Occupied' = {} /\ entries' = [i \in Slots' |-> Free]
    <3>1. entries' = [i \in Slots' |-> Free]
      BY <2>1 DEF Zeroed, Slots
    <3> QED
      BY <3>1 DEF Occupied, Free
  <2>3. /\ Live' = {} /\ Left' = Occupied
        /\ \A j \in Occupied : old'[j] = entries[j]
    <3>1. Left' = {j \in DOMAIN entries : j >= 0 /\ entries[j].psl > 0}
      BY <2>1 DEF Left
    <3>2. DOMAIN entries = Slots /\ \A j \in Slots : j >= 0
      BY <1>4 DEF TypeOK, Slots
    <3> QED
      BY <2>1, <2>2, <3>1, <3>2 DEF Live, Occupied
  <2>4. TypeOK'
    <3>1. capacity \in 0 .. capacity' /\ capacity' \in Nat /\ capacity' >= 4
      BY <1>4, <2>1
    <3>2. \E m \in 0 .. capacity' : old' \in [0 .. m - 1 -> Entry] /\ pos' \in 0 .. m
      BY <1>4, <2>1, <3>1 DEF TypeOK, Slots
    <3>3. entries' \in [Slots' -> Entry]
      BY <2>2 DEF Entry
    <3>4. hash' \in [Keys -> Nat] /\ count' \in Nat /\ peak' \in Nat /\ probe' \in Nat
      BY <1>1, <1>6 DEF TypeOK, Set
    <3>5. ~ InHand' /\ key' \in Keys /\ value' \in Values
      BY <1>1, <2>1 DEF InHand
    <3> QED
      BY <1>2, <2>1, <3>1, <3>2, <3>3, <3>4, <3>5 DEF TypeOK
  <2>5. Placed'
    BY <2>2 DEF Placed
  <2>6. Unique'
    <3>1. \A i, j \in Occupied : entries[i].key = entries[j].key => i = j
      BY <1>3 DEF Unique
    <3> QED
      BY <2>1, <2>3, <3>1 DEF Unique
  <2>7. HandInv'
    BY <2>1 DEF HandInv, InHand
  <2>8. CountInv'
    <3>1. Cardinality(Live') = 0 /\ Cardinality(Left') = Cardinality(Live)
      BY <1>3, <2>3, FS_EmptySet
    <3>2. /\ Cardinality(Live) \in Nat /\ Cardinality(Left) = 0
          /\ Cardinality(Live) + Cardinality(Left) + 0 = count /\ count + 0 <= peak
          /\ peak > 0 => (peak - 1) * 4 < capacity * 3
      BY <1>1, <1>3, Finite, FS_EmptySet DEF CountInv, HT_LOAD_DEN, HT_LOAD_NUM
    <3>3. peak \in Nat
      BY DEF TypeOK
    <3>4. 0 + Cardinality(Live) + 0 = count /\ count + 0 <= peak
      BY <3>2
    <3>5. peak > 0 => (peak - 1) * 4 < 2 * capacity * 3
      BY <1>4, <3>2, <3>3
    <3>6. count * 4 < 2 * capacity * 3
      BY <1>4, <3>2, <3>3
    <3> QED
      BY <1>1, <2>1, <3>1, <3>4, <3>5, <3>6 DEF CountInv, HT_LOAD_DEN, HT_LOAD_NUM
  <2>9. BeforeInv'
    <3>1. \A x, y : Holds(x, y)' <=> Has(x, y)
      BY <1>3, <2>1, <2>3 DEF Holds, Has, InHand
    <3> QED
      BY <1>2, <2>1, <3>1 DEF BeforeInv
  <2> QED
    BY <2>4, <2>5, <2>6, <2>7, <2>8, <2>9
<1> QED
  BY <1>5, <1>6

(* Nothing but results and histories changes.                              *)
LEMMA Unchanged ==
  ASSUME IInv, UNCHANGED <<table, locals, before, peak>>
  PROVE  IInv'
<1> USE DEF IInv
<1>1. UNCHANGED <<hash, capacity, entries, count, pc, key, value, cur, idx, probe, old, pos,
                  before, peak>>
  BY DEF table, locals
<1>2. Placed' /\ Slots' = Slots /\ Occupied' = Occupied
  BY <1>1, SameTable
<1>3. Live' = Live /\ Left' = Left
  BY <1>1, <1>2 DEF Live, Left
<1>4. TypeOK'
  BY <1>1, <1>2 DEF TypeOK, Setting, InHand, Resizing
<1>5. Unique' /\ HandInv'
  BY <1>1, <1>2, <1>3 DEF Unique, HandInv, InHand, Fits, At, Mask
<1>6. CountInv'
  BY <1>1, <1>3 DEF CountInv, Setting, Mask
<1>7. BeforeInv'
  BY <1>1, <1>3 DEF BeforeInv, Holds, Has, InHand
<1> QED
  BY <1>2, <1>4, <1>5, <1>6, <1>7

(* The table is emptied and keeps its slots.                               *)
LEMMA ClearStep ==
  ASSUME IInv, Clear
  PROVE  IInv'
<1> USE DEF IInv
<1>1. /\ pc = "idle" /\ pc' = "idle" /\ capacity' = capacity /\ count' = 0
      /\ UNCHANGED <<hash, probe, peak>> /\ entries' = [i \in Slots' |-> Free]
  BY DEF Clear, ClearedCap, Zeroed, Slots, locals
<1>2. Occupied' = {}
  BY <1>1 DEF Occupied, Free
<1>3. Live' = {} /\ Left' = {} /\ Cardinality({}) = 0
  BY <1>1, <1>2, FS_EmptySet DEF Live, Left
<1>4. TypeOK'
  BY <1>1 DEF TypeOK, Entry, Setting, InHand, Resizing
<1>5. Placed' /\ Unique' /\ HandInv'
  BY <1>1, <1>2, <1>3 DEF Placed, Unique, HandInv, InHand
<1>6. CountInv'
  BY <1>1, <1>3 DEF CountInv, Setting, TypeOK
<1>7. BeforeInv'
  BY <1>1 DEF BeforeInv
<1> QED
  BY <1>4, <1>5, <1>6, <1>7

(* A resize takes the next old entry in hand, or sees a free slot.         *)
LEMMA NextOldStep ==
  ASSUME IInv, NextOld
  PROVE  IInv'
<1> USE DEF IInv
<1>1. /\ pc = "grow" /\ pos \in DOMAIN old /\ pos' = pos + 1
      /\ UNCHANGED <<hash, capacity, entries, count, key, value, old, before, peak>>
  BY DEF NextOld, table
<1>2. PICK m \in 0 .. capacity : old \in [0 .. m - 1 -> Entry] /\ pos \in 0 .. m
  BY <1>1 DEF TypeOK, Resizing
<1>3. m \in Nat /\ DOMAIN old = 0 .. m - 1 /\ pos \in Nat /\ pos' \in 0 .. m
  BY <1>1, <1>2 DEF TypeOK
<1>4. /\ Placed' /\ Slots' = Slots /\ Occupied' = Occupied /\ Live = Occupied
      /\ pc' \in {"grow", "move"}
  <2>1. Placed' /\ Slots' = Slots /\ Occupied' = Occupied
    BY <1>1, SameTable
  <2>2. pc' \in {"grow", "move"}
    BY <1>1 DEF NextOld, TakeInHand
  <2> QED
    BY <1>1, <2>1, <2>2 DEF Live
<1>5. Live' = Live /\ Left' = Left \ {pos}
  <2>1. Live' = Live
    BY <1>4 DEF Live
  <2>2. Left = {j \in 0 .. m - 1 : j >= pos /\ old[j].psl > 0}
    BY <1>1, <1>3 DEF Left
  <2>3. Left' = {j \in 0 .. m - 1 : j >= pos + 1 /\ old[j].psl > 0}
    BY <1>1, <1>3, <1>4 DEF Left
  <2>4. \A j \in 0 .. m - 1 : j >= pos + 1 <=> j >= pos /\ j # pos
    BY <1>3
  <2> QED
    BY <2>1, <2>2, <2>3, <2>4
<1>6. /\ pos \in Left <=> old[pos].psl > 0
      /\ old[pos].psl \in Nat
      /\ old[pos].psl # 0 => old[pos] \in Taken
      /\ old[pos].psl = 0 => UNCHANGED <<pc, cur, idx, probe>>
      /\ old[pos].psl # 0 => TakeInHand(old[pos].key, old[pos].value, "move")
  <2>1. old[pos] \in Taken \/ old[pos] = Free
    BY <1>1, <1>2, <1>3 DEF Entry
  <2>2. old[pos].psl \in Nat /\ (old[pos].psl # 0 => old[pos] \in Taken)
    BY <2>1, SlotFacts DEF Free
  <2>3. pos \in Left <=> old[pos].psl > 0
    BY <1>1, <1>3 DEF Left
  <2>4. /\ old[pos].psl = 0 => UNCHANGED <<pc, cur, idx, probe>>
        /\ old[pos].psl # 0 => TakeInHand(old[pos].key, old[pos].value, "move")
    BY DEF NextOld
  <2> QED
    BY <2>2, <2>3, <2>4
<1>7. \E n \in 0 .. capacity' : old' \in [0 .. n - 1 -> Entry] /\ pos' \in 0 .. n
  BY <1>1, <1>2, <1>3
<1>8. CASE old[pos].psl = 0
  <2>1. Left' = Left /\ UNCHANGED <<pc, cur, idx, probe>>
    BY <1>5, <1>6, <1>8
  <2>2. TypeOK'
    BY <1>1, <1>4, <1>7, <2>1 DEF TypeOK, Setting, InHand, Resizing
  <2>3. Unique' /\ HandInv'
    BY <1>1, <1>5, <2>1 DEF Unique, HandInv, InHand
  <2>4. CountInv'
    BY <1>1, <1>5, <2>1 DEF CountInv, Setting
  <2>5. BeforeInv'
    BY <1>1, <1>5, <2>1 DEF BeforeInv, Holds, Has, InHand
  <2> QED
    BY <1>4, <2>2, <2>3, <2>4, <2>5
<1>9. CASE old[pos].psl # 0
  <2>1. PICK e \in Taken : e = old[pos] /\ pos \in Left
    BY <1>6, <1>9
  <2>2. /\ cur' \in Taken /\ cur'.key = e.key /\ cur'.value = e.value
        /\ idx' \in Slots' /\ Fits(cur, idx)' /\ pc' = "move" /\ probe' = 0
    <3>1. TakeInHand(e.key, e.value, "move") /\ e.key \in Keys /\ e.value \in Values
      BY <1>6, <1>9, <2>1, SlotFacts
    <3> QED
      BY <1>1, <3>1, AtHome
  <2>3. TypeOK'
    BY <1>1, <1>4, <1>7, <2>2 DEF TypeOK, Setting, InHand, Resizing
  <2>4. /\ \A i, j \in Left : old[i].key = old[j].key => i = j
        /\ \A i, j \in Live : entries[i].key = entries[j].key => i = j
        /\ \A j \in Left : \A i \in Live : entries[i].key # old[j].key
    BY DEF Unique
  <2>5. Unique'
    BY <1>1, <1>5, <2>1, <2>2, <2>4 DEF Unique
  <2>6. HandInv'
    BY <1>1, <1>5, <2>1, <2>2, <2>4 DEF HandInv
  <2>7. CountInv'
    <3>1. Cardinality(Left') = Cardinality(Left) - 1
      <4>1. Cardinality(Left \ {pos})
              = IF pos \in Left THEN Cardinality(Left) - 1 ELSE Cardinality(Left)
        BY Finite, FS_RemoveElement
      <4> QED
        BY <1>5, <2>1, <4>1
    <3>2. Cardinality(Live) + Cardinality(Left) + 0 = count /\ count <= peak
      BY <1>1 DEF CountInv, TypeOK
    <3>3. /\ peak > 0 => (peak - 1) * HT_LOAD_DEN < capacity * HT_LOAD_NUM
          /\ count * HT_LOAD_DEN < capacity * HT_LOAD_NUM
      BY <1>1 DEF CountInv, Setting
    <3>4. Cardinality(Live') + Cardinality(Left') + 1 = count
      BY <1>5, <3>1, <3>2, Finite
    <3>5. count + 0 <= peak
      BY <3>2 DEF TypeOK
    <3> QED
      BY <1>1, <2>2, <3>3, <3>4, <3>5 DEF CountInv
  <2>8. BeforeInv'
    <3>1. \A x, y : Holds(x, y)' <=> Holds(x, y)
      BY <1>1, <1>5, <2>1, <2>2 DEF Holds, Has, InHand
    <3> QED
      BY <1>1, <2>2, <3>1 DEF BeforeInv
  <2> QED
    BY <1>4, <2>3, <2>5, <2>6, <2>7, <2>8
<1> QED
  BY <1>8, <1>9

(* When none is left, the entry being set comes to the larger table.       *)
LEMMA GrownStep ==
  ASSUME IInv, Grown
  PROVE  IInv'
<1> USE DEF IInv
<1>1. /\ pc = "grow" /\ pos \notin DOMAIN old /\ TakeInHand(key, value, "probe")
      /\ UNCHANGED <<table, key, value, before, peak>>
  BY DEF Grown
<1>2. Left = {}
  <2>1. PICK m \in 0 .. capacity : old \in [0 .. m - 1 -> Entry] /\ pos \in 0 .. m
    BY <1>1 DEF TypeOK, Resizing
  <2>2. m \in Nat /\ DOMAIN old = 0 .. m - 1
    BY <2>1 DEF TypeOK
  <2>3. pos = m
    BY <1>1, <2>1, <2>2
  <2> QED
    BY <2>2, <2>3 DEF Left
<1>3. PICK k \in Keys, v \in Values : k = key /\ v = value
  BY <1>1 DEF TypeOK, Setting
<1>4. TakeInHand(k, v, "probe") /\ key' = k /\ value' = v
  BY <1>1, <1>3
<1>5. count * HT_LOAD_DEN < capacity * HT_LOAD_NUM
  BY <1>1 DEF CountInv, Setting
<1>6. before' \in [Keys -> Values \union {NoValue}]
  BY <1>1 DEF TypeOK
<1>7. \A x \in Keys, y \in Values : before'[x] = y <=> Has(x, y)
  BY <1>1, <1>2 DEF BeforeInv, Holds, InHand
<1> QED
  BY <1>1, <1>2, <1>4, <1>5, <1>6, <1>7, StartProbe

(* The entry in hand is put in a free slot: the table has it as well, once.*)
LEMMA Placing ==
  ASSUME IInv, pc \in {"move", "probe"}, pc' \in {"grow", "idle"},
         UNCHANGED <<hash, capacity>>, entries[idx].psl = 0,
         entries' = [entries EXCEPT ![idx] = cur]
  PROVE  /\ Placed' /\ entries' \in [Slots' -> Entry] /\ Slots' = Slots
         /\ Live' = Live \union {idx} /\ Cardinality(Live') = Cardinality(Live) + 1
         /\ entries'[idx] = cur
         /\ \A i \in Live : entries'[i] = entries[i] /\ entries[i].key # cur.key
         /\ \A i, j \in Live' : entries'[i].key = entries'[j].key => i = j
         /\ \A k, v : Has(k, v)' <=> Has(k, v) \/ (cur.key = k /\ cur.value = v)
<1> USE DEF IInv
<1>1. PICK c \in Taken, n \in Slots : c = cur /\ n = idx
  BY DEF TypeOK, InHand
<1>2. c.psl \in Nat \ {0} /\ Fits(c, idx)
  BY <1>1, SlotFacts DEF HandInv
<1>3. /\ Placed' /\ entries' \in [Slots' -> Entry]
      /\ Occupied' = Occupied \union {n} /\ entries'[n] = c
      /\ \A i \in Slots : i # n => entries'[i] = entries[i]
  <2>1. /\ idx \in Slots /\ entries[idx].psl <= c.psl
        /\ entries' = [entries EXCEPT ![idx] = c]
    BY <1>1, <1>2
  <2>2. /\ Placed' /\ entries' \in [Slots' -> Entry]
        /\ Occupied' = Occupied \union {idx} /\ entries'[idx] = c
        /\ \A i \in Slots : i # idx => entries'[i] = entries[i]
    BY <1>2, <2>1, Written
  <2> QED
    BY <1>1, <2>2
<1>4. /\ Live = Occupied /\ Live' = Occupied' /\ n \notin Live
  BY <1>1 DEF Live, Occupied
<1>5. Cardinality(Live') = Cardinality(Live) + 1
  <2>1. Cardinality(Live \union {n})
          = IF n \in Live THEN Cardinality(Live) ELSE Cardinality(Live) + 1
    BY Finite, FS_AddElement
  <2> QED
    BY <1>3, <1>4, <2>1
<1>6. \A i \in Live : entries'[i] = entries[i] /\ entries[i].key # c.key
  <2>1. \A i \in Live : entries[i].key # cur.key
    BY <1>1, <1>2, Absent
  <2>2. \A i \in Live : i \in Slots
    BY SlotFacts
  <2> QED
    BY <1>1, <1>3, <1>4, <2>1, <2>2
<1>7. \A i, j \in Live : entries[i].key = entries[j].key => i = j
  BY DEF Unique
<1>8. \A i, j \in Live' : entries'[i].key = entries'[j].key => i = j
  BY <1>3, <1>4, <1>6, <1>7
<1>9. \A k, v : Has(k, v)' <=> Has(k, v) \/ (c.key = k /\ c.value = v)
  BY <1>3, <1>4, <1>6 DEF Has
<1> QED
  BY <1>1, <1>3, <1>4, <1>5, <1>6, <1>8, <1>9, Kept

(* A round of the probe loop of a resize.                                  *)
LEMMA MoveStep ==
  ASSUME IInv, Move
  PROVE  IInv'
<1> USE DEF IInv
<1>1. /\ pc = "move"
      /\ UNCHANGED <<hash, capacity, count, key, value, probe, old, pos, before, peak>>
  BY DEF Move
<1>2. cur \in Taken /\ idx \in Slots
  BY <1>1 DEF TypeOK, InHand
<1>3. CASE entries[idx].psl = 0
  <2>1. entries' = [entries EXCEPT ![idx] = cur] /\ pc' = "grow" /\ cur' = cur /\ idx' = idx
    BY <1>3 DEF Move
  <2>2. Left' = Left
    BY <1>1, <2>1 DEF Left
  <2>3. /\ Placed' /\ entries' \in [Slots' -> Entry] /\ Slots' = Slots
        /\ Live' = Live \union {idx} /\ Cardinality(Live') = Cardinality(Live) + 1
        /\ entries'[idx] = cur
        /\ \A i \in Live : entries'[i] = entries[i] /\ entries[i].key # cur.key
        /\ \A i, j \in Live' : entries'[i].key = entries'[j].key => i = j
        /\ \A k, v : Has(k, v)' <=> Has(k, v) \/ (cur.key = k /\ cur.value = v)
    BY <1>1, <1>3, <2>1, Placing
  <2>4. TypeOK'
    <3>1. \E m \in 0 .. capacity' : old' \in [0 .. m - 1 -> Entry] /\ pos' \in 0 .. m
      BY <1>1 DEF TypeOK, Resizing
    <3> QED
      BY <1>1, <2>1, <2>3, <3>1 DEF TypeOK, Setting, InHand
  <2>5. Unique'
    <3>1. /\ \A i, j \in Left : old[i].key = old[j].key => i = j
          /\ \A j \in Left : \A i \in Live : entries[i].key # old[j].key
          /\ \A j \in Left : old[j].key # cur.key
      BY <1>1 DEF Unique
    <3>2. \A j \in Left : \A i \in Live' : entries'[i].key # old[j].key
      BY <2>3, <3>1
    <3> QED
      BY <1>1, <2>1, <2>2, <2>3, <3>1, <3>2 DEF Unique
  <2>6. HandInv'
    BY <2>1 DEF HandInv, InHand
  <2>7. CountInv'
    <3>1. /\ Cardinality(Live) + Cardinality(Left) + 1 = count /\ count + 0 <= peak
          /\ peak > 0 => (peak - 1) * HT_LOAD_DEN < capacity * HT_LOAD_NUM
          /\ count * HT_LOAD_DEN < capacity * HT_LOAD_NUM
      BY <1>1 DEF CountInv, Setting
    <3>2. Cardinality(Live') + Cardinality(Left') + 0 = count
      BY <2>2, <2>3, <3>1, Finite
    <3> QED
      BY <1>1, <2>1, <3>1, <3>2 DEF CountInv
  <2>8. BeforeInv'
    <3>1. \A x, y : Holds(x, y)' <=> Holds(x, y)
      BY <1>1, <2>1, <2>2, <2>3 DEF Holds, InHand
    <3> QED
      BY <1>1, <2>1, <3>1 DEF BeforeInv
  <2> QED
    BY <2>3, <2>4, <2>5, <2>6, <2>7, <2>8
<1>4. CASE entries[idx].psl # 0
  <2>1. Walk /\ pc' = pc
    BY <1>4 DEF Move
  <2>2. idx \in Occupied /\ idx \in Live
    BY <1>1, <1>2, <1>4, SlotFacts DEF Live
  <2>3. entries[idx].key # cur.key
    BY <1>1, <2>2 DEF HandInv, InHand
  <2>4. /\ Placed' /\ entries' \in [Slots' -> Entry]
        /\ cur' \in Taken /\ idx' \in Slots'
    BY <1>1, <2>1, <2>2, WalkCases
  <2>5. Unique' /\ HandInv' /\ BeforeInv' /\ Live' = Live /\ Left' = Left
    BY <1>1, <2>1, <2>2, <2>3, WalkKeeps
  <2>6. TypeOK'
    <3>1. \E m \in 0 .. capacity' : old' \in [0 .. m - 1 -> Entry] /\ pos' \in 0 .. m
      BY <1>1 DEF TypeOK, Resizing
    <3> QED
      BY <1>1, <2>1, <2>4, <3>1 DEF TypeOK, Setting, InHand
  <2>7. CountInv'
    BY <1>1, <2>1, <2>5 DEF CountInv, Setting
  <2> QED
    BY <2>4, <2>5, <2>6, <2>7
<1> QED
  BY <1>3, <1>4

(* A round of the probe loop of set: a free slot,                          *)
LEMMA InsertStep ==
  ASSUME IInv, Insert
  PROVE  IInv'
<1> USE DEF IInv
<1>1. /\ pc = "probe" /\ pc' = "idle" /\ entries[idx].psl = 0
      /\ entries' = [entries EXCEPT ![idx] = cur] /\ UNCHANGED <<hash, capacity>>
      /\ count' = count + 1 /\ peak' = IF count' > peak THEN count' ELSE peak
      /\ probe' = 0
  BY DEF Insert, Return
<1>2. /\ Placed' /\ entries' \in [Slots' -> Entry] /\ Slots' = Slots
      /\ Live' = Live \union {idx} /\ Cardinality(Live') = Cardinality(Live) + 1
      /\ \A i, j \in Live' : entries'[i].key = entries'[j].key => i = j
  BY <1>1, Placing
<1>3. Left = {} /\ Left' = {}
  BY <1>1 DEF Left
<1>4. count \in Nat /\ peak \in Nat /\ capacity \in Nat
  BY DEF TypeOK
<1>5. TypeOK'
  BY <1>1, <1>2, <1>4 DEF TypeOK, Setting, InHand, Resizing
<1>6. Unique' /\ HandInv'
  BY <1>1, <1>2, <1>3 DEF Unique, HandInv, InHand
<1>7. CountInv'
  <2>1. /\ Cardinality(Live) + Cardinality(Left) + 0 = count /\ count + 0 <= peak
        /\ peak > 0 => (peak - 1) * 4 < capacity * 3
        /\ count * 4 < capacity * 3
    BY <1>1 DEF CountInv, Setting, HT_LOAD_DEN, HT_LOAD_NUM
  <2>2. Cardinality(Live') + Cardinality(Left') + 0 = count'
    BY <1>1, <1>2, <1>3, <1>4, <2>1, Finite, FS_EmptySet
  <2>3. count' + 0 <= peak' /\ (peak' > 0 => (peak' - 1) * 4 < capacity' * 3)
    BY <1>1, <1>4, <2>1
  <2> QED
    BY <1>1, <2>2, <2>3 DEF CountInv, Setting, HT_LOAD_DEN, HT_LOAD_NUM
<1>8. BeforeInv'
  BY <1>1 DEF BeforeInv
<1> QED
  BY <1>2, <1>5, <1>6, <1>7, <1>8

(* the key,                                                                *)
LEMMA UpdateStep ==
  ASSUME IInv, Update
  PROVE  IInv'
<1> USE DEF IInv
<1>1. /\ pc = "probe" /\ pc' = "idle" /\ entries[idx].psl # 0
      /\ entries' = [entries EXCEPT ![idx].value = cur.value]
      /\ UNCHANGED <<hash, capacity, count, peak>> /\ probe' = 0
  BY DEF Update, Return
<1>2. PICK n \in Slots, s \in Taken, c \in Taken : n = idx /\ s = entries[idx] /\ c = cur
  BY <1>1, SlotFacts DEF TypeOK, InHand
<1>3. /\ \A i \in Slots : i # n => entries'[i] = entries[i]
      /\ entries'[n] = [s EXCEPT !.value = c.value]
  BY <1>1, <1>2 DEF TypeOK
<1>4. /\ [s EXCEPT !.value = c.value] \in Taken
      /\ [s EXCEPT !.value = c.value].key = s.key
      /\ [s EXCEPT !.value = c.value].psl = s.psl
  BY DEF Taken
<1>5. Slots' = Slots /\ \A k, m : At(k, m)' = At(k, m) /\ Mask(m)' = Mask(m)
  BY <1>1, Kept
<1>6. \A i \in Slots : entries'[i].key = entries[i].key /\ entries'[i].psl = entries[i].psl
  BY <1>2, <1>3, <1>4
<1>7. entries' \in [Slots' -> Entry]
  <2>1. \A i \in Slots : entries'[i] \in Entry
    BY <1>3, <1>4 DEF TypeOK, Entry
  <2> QED
    BY <1>1, <1>5, <2>1 DEF TypeOK
<1>8. /\ Occupied' = Occupied /\ Live = Occupied /\ Live' = Occupied
      /\ Left = {} /\ Left' = {} /\ \A i \in Occupied : i \in Slots
  <2>1. Occupied' = Occupied
    BY <1>5, <1>6 DEF Occupied
  <2> QED
    BY <1>1, <2>1, SlotFacts DEF Live, Left
<1>9. Placed'
  <2>1. \A i \in Slots : Mask(i - 1) \in Slots
    <3>1. capacity \in Nat /\ capacity >= 4 /\ \A i \in Slots : i - 1 \in Int
      BY DEF TypeOK, Slots
    <3> QED
      BY <3>1, Circle
  <2>2. \A i \in Occupied :
          /\ i = At(entries[i].key, entries[i].psl)
          /\ entries[i].psl > 1 => entries[Mask(i - 1)].psl >= entries[i].psl - 1
    BY DEF Placed, Fits
  <2>3. \A i \in Occupied :
          /\ i = At(entries'[i].key, entries'[i].psl)
          /\ entries'[i].psl > 1 => entries'[Mask(i - 1)].psl >= entries'[i].psl - 1
    BY <1>6, <1>8, <2>1, <2>2
  <2> QED
    BY <1>1, <1>8, <2>3 DEF Placed, Fits, At, Mask
<1>10. TypeOK'
  BY <1>1, <1>7 DEF TypeOK, Setting, InHand, Resizing
<1>11. Unique' /\ HandInv'
  BY <1>1, <1>6, <1>8 DEF Unique, HandInv, InHand
<1>12. CountInv'
  BY <1>1, <1>8 DEF CountInv, Setting
<1>13. BeforeInv'
  BY <1>1 DEF BeforeInv
<1> QED
  BY <1>9, <1>10, <1>11, <1>12, <1>13

(* or the next slot: the free slot ahead is one round nearer.              *)
LEMMA ProbeStep ==
  ASSUME IInv, Probe
  PROVE  IInv'
<1> USE DEF IInv
<1>1. /\ pc = "probe" /\ pc' = pc /\ entries[idx].psl # 0 /\ entries[idx].key # cur.key
      /\ Walk /\ probe' = probe + 1
      /\ UNCHANGED <<hash, capacity, count, key, value, old, pos, before, peak>>
  BY DEF Probe
<1>2. cur \in Taken /\ idx \in Slots /\ idx \in Occupied
  BY <1>1, SlotFacts DEF TypeOK, InHand
<1>3. /\ Placed' /\ entries' \in [Slots' -> Entry] /\ Occupied' = Occupied
      /\ cur' \in Taken /\ idx' \in Slots' /\ idx' = Mask(idx + 1)
  BY <1>1, <1>2, WalkCases
<1>4. Unique' /\ HandInv' /\ BeforeInv' /\ Live' = Live /\ Left' = Left
  BY <1>1, <1>2, WalkKeeps
<1>5. TypeOK'
  BY <1>1, <1>3 DEF TypeOK, Setting, InHand, Resizing
<1>6. CountInv'
  <2>1. PICK d \in 0 .. capacity - probe - 1 : entries[Mask(idx + d)].psl = 0
    BY <1>1 DEF CountInv
  <2>2. PICK n \in Slots : n = idx
    BY <1>2
  <2>3. /\ capacity \in Nat /\ capacity >= 4 /\ probe \in Nat /\ n \in Nat
        /\ Mask(n) = n /\ d \in Nat
    BY Circle DEF TypeOK
  <2>4. d # 0
    BY <1>1, <2>1, <2>2, <2>3
  <2>5. d - 1 \in 0 .. capacity - (probe + 1) - 1 /\ d - 1 \in Int /\ n + 1 + (d - 1) = n + d
    BY <2>1, <2>3, <2>4
  <2>6. Mask(Mask(n + 1) + (d - 1)) = Mask(n + d)
    BY <2>3, <2>5, NextSlot
  <2>7. entries'[Mask(n + d)].psl = 0
    <3>1. n + d \in Int
      BY <2>3
    <3>2. Mask(n + d) \in Slots /\ Mask(n + d) \notin Occupied
      <4>1. Mask(n + d) \in Slots
        BY <2>3, <3>1, Circle
      <4>2. ~ (entries[Mask(n + d)].psl > 0)
        BY <2>1, <2>2
      <4> QED
        BY <4>1, <4>2 DEF Occupied
    <3>3. Mask(n + d) \notin Occupied' /\ Mask(n + d) \in Slots'
      BY <1>1, <1>3, <3>2, Kept
    <3>4. PICK e \in Entry : e = entries'[Mask(n + d)]
      BY <1>3, <3>3
    <3>5. ~ (e.psl > 0)
      BY <3>3, <3>4 DEF Occupied
    <3> QED
      BY <3>4, <3>5 DEF Entry, Taken, Free
  <2>8. \E e \in 0 .. capacity' - probe' - 1 : entries'[Mask(idx + e)'].psl = 0
    BY <1>1, <1>3, <2>2, <2>5, <2>6, <2>7 DEF Mask
  <2> QED
    BY <1>1, <1>4, <2>8 DEF CountInv, Setting
<1> QED
  BY <1>3, <1>4, <1>5, <1>6

(* A deletion finds the entry and makes its slot the hole, or nothing.     *)
LEMMA DeleteStep ==
  ASSUME IInv, NEW k \in Keys, Delete(k)
  PROVE  IInv'
<1> USE DEF IInv
<1>1. CASE ~ Found(k)
  <2>1. UNCHANGED <<table, locals, before, peak>>
    BY <1>1 DEF Delete
  <2> QED
    BY <2>1, Unchanged
<1>2. CASE Found(k)
  <2>1. /\ pc = "idle" /\ pc' = "shift" /\ Began /\ count' = count - 1
        /\ idx' = At(k, Rounds(k)) /\ cur' = entries[At(k, Rounds(k))]
        /\ UNCHANGED <<hash, capacity, entries, key, value, probe, old, pos, peak>>
    BY <1>2 DEF Delete
  <2>2. PICK n \in Live : n = idx'
    BY <1>2, <2>1, Answers
  <2>3. PICK c \in Taken : c = cur' /\ c = entries[n]
    BY <2>1, <2>2, SlotFacts
  <2>4. /\ before' \in [Keys -> Values \union {NoValue}]
        /\ \A x \in Keys, v \in Values : before'[x] = v <=> Has(x, v)
    BY <2>1, Recorded
  <2>5. Placed' /\ Slots' = Slots /\ Occupied' = Occupied
    BY <2>1, SameTable
  <2>6. Live = Occupied /\ Live' = Live \ {n} /\ Left = {} /\ Left' = {}
    BY <2>1, <2>2, <2>5 DEF Live, Left
  <2>7. Cardinality(Live') = Cardinality(Live) - 1
    <3>1. Cardinality(Live \ {n})
            = IF n \in Live THEN Cardinality(Live) - 1 ELSE Cardinality(Live)
      BY Finite, FS_RemoveElement
    <3> QED
      BY <2>6, <3>1
  <2>8. /\ Cardinality(Live) = count /\ count \in Nat /\ count' \in Nat
        /\ count <= peak /\ peak \in Nat
    <3>1. Cardinality(Live) + Cardinality(Left) + 0 = count /\ count + 0 <= peak
      BY <2>1 DEF CountInv
    <3>2. Cardinality(Left) = 0
      BY <2>6, FS_EmptySet
    <3>3. count \in Nat /\ peak \in Nat
      BY DEF TypeOK
    <3>4. Cardinality(Live) # 0
      BY <2>2, Finite, FS_EmptySet
    <3> QED
      BY <2>1, <3>1, <3>2, <3>3, <3>4, Finite
  <2>9. TypeOK'
    <3>1. n \in Slots
      BY <2>2, SlotFacts
    <3> QED
      BY <2>1, <2>2, <2>3, <2>4, <2>5, <2>8, <3>1 DEF TypeOK, Setting, InHand, Resizing
  <2>10. \A i, j \in Live : entries[i].key = entries[j].key => i = j
    BY DEF Unique
  <2>11. Unique'
    BY <2>1, <2>6, <2>10 DEF Unique
  <2>12. HandInv'
    BY <2>1, <2>2, <2>3, <2>5, <2>6, <2>10 DEF HandInv
  <2>13. CountInv'
    <3>1. Cardinality(Live') + Cardinality(Left') + 0 = count'
      BY <2>1, <2>6, <2>7, <2>8, FS_EmptySet
    <3>2. peak > 0 => (peak - 1) * HT_LOAD_DEN < capacity * HT_LOAD_NUM
      BY DEF CountInv
    <3>3. count' + 1 <= peak
      BY <2>1, <2>8
    <3> QED
      BY <2>1, <3>1, <3>2, <3>3 DEF CountInv, Setting
  <2>14. BeforeInv'
    <3>1. \A x, v : Holds(x, v)' <=> Has(x, v)
      BY <2>1, <2>2, <2>3, <2>6 DEF Holds, Has, InHand
    <3> QED
      BY <2>1, <2>4, <3>1 DEF BeforeInv
  <2> QED
    BY <2>5, <2>9, <2>11, <2>12, <2>13, <2>14
<1> QED
  BY <1>1, <1>2

(* A round of the backward shift moves the next entry into the hole, one   *)
(* slot nearer its home, and makes its old slot the hole.                  *)
LEMMA ShiftStep ==
  ASSUME IInv, Shift
  PROVE  IInv'
<1> USE DEF IInv
<1>1. /\ pc = "shift" /\ pc' = pc /\ idx' = Mask(idx + 1)
      /\ entries[Mask(idx + 1)].psl > 1
      /\ entries' = [entries EXCEPT ![idx] = Shifted(entries[Mask(idx + 1)])]
      /\ UNCHANGED <<hash, capacity, count, key, value, cur, probe, old, pos, before, peak>>
  <2>1. /\ capacity \in Nat /\ capacity >= 4 /\ idx \in Slots /\ pc = "shift"
    BY DEF TypeOK, InHand, Shift
  <2>2. Mask(idx + 1) \in Slots
    BY <2>1, NextSlot
  <2>3. entries[Mask(idx + 1)].psl \in Nat
    BY <2>2, SlotFacts
  <2> QED
    BY <2>3 DEF Shift, ShiftStops, HT_INITIAL_PSL
<1>2. PICK h \in Slots : h = idx
  BY <1>1 DEF TypeOK, InHand
<1>3. capacity \in Nat /\ capacity >= 4
  BY DEF TypeOK
<1>4. PICK n \in Slots : n = Mask(h + 1) /\ n # h /\ Mask(n - 1) = h
  BY <1>2, <1>3, NextSlot
<1>5. PICK s \in Taken, d \in Taken : s = entries[n] /\ d = entries[h]
  <2>1. h \in Occupied
    BY <1>1, <1>2 DEF HandInv
  <2>2. entries[n].psl > 1 /\ entries[n].psl \in Nat
    BY <1>1, <1>2, <1>4, SlotFacts
  <2>3. n \in Occupied
    BY <2>2 DEF Occupied
  <2> QED
    BY <2>1, <2>3, SlotFacts
<1>6. PICK e \in Taken : /\ e = Shifted(s) /\ e.key = s.key /\ e.value = s.value
                         /\ e.psl = s.psl - 1
  <2>1. s.psl \in Nat \ {0} /\ s.psl > 1 /\ s.psl - 1 \in Nat \ {0}
    BY <1>1, <1>2, <1>4, <1>5, SlotFacts
  <2>2. Shifted(s) = [key |-> s.key, value |-> s.value, psl |-> s.psl - 1]
    BY DEF Shifted, Taken
  <2>3. Shifted(s) \in Taken
    BY <2>1, <2>2, SlotFacts DEF Taken
  <2> QED
    BY <2>2, <2>3
<1>7. /\ s.psl \in Nat /\ s.psl > 1 /\ e.psl \in Nat \ {0} /\ d.psl \in Nat \ {0}
      /\ d.psl >= s.psl - 1 /\ n = At(s.key, s.psl)
      /\ h = At(d.key, d.psl) /\ (d.psl > 1 => entries[Mask(h - 1)].psl >= d.psl - 1)
  <2>1. n \in Occupied /\ h \in Occupied
    <3>1. \A x \in Taken : x.psl > 0
      BY SlotFacts
    <3> QED
      BY <1>5, <3>1 DEF Occupied
  <2>2. Fits(entries[n], n) /\ Fits(entries[h], h)
    BY <2>1 DEF Placed
  <2> QED
    BY <1>1, <1>2, <1>4, <1>5, <2>2, SlotFacts DEF Fits
<1>8. entries' = [entries EXCEPT ![h] = e]
  BY <1>1, <1>2, <1>4, <1>5, <1>6
<1>9. /\ entries'[h] = e /\ \A i \in Slots : i # h => entries'[i] = entries[i]
      /\ entries' \in [Slots' -> Entry] /\ Slots' = Slots
  <2>1. Slots' = Slots
    BY <1>1, Kept
  <2> QED
    BY <1>8, <2>1 DEF TypeOK, Entry
<1>10. Occupied' = Occupied
  BY <1>2, <1>5, <1>7, <1>9 DEF Occupied
<1>11. /\ Live = Occupied \ {h} /\ Live' = Occupied \ {n}
       /\ h \in Occupied /\ n \in Occupied /\ Left = {} /\ Left' = {}
  <2>1. h \in Occupied /\ n \in Occupied
    BY <1>5, <1>7 DEF Occupied
  <2>2. Live = Occupied \ {h} /\ Live' = Occupied \ {n}
    BY <1>1, <1>2, <1>4, <1>10 DEF Live
  <2>3. Left = {} /\ Left' = {}
    BY <1>1 DEF Left
  <2> QED
    BY <2>1, <2>2, <2>3
<1>12. Placed'
  <2>1. ASSUME NEW i \in Occupied
        PROVE  /\ i = At(entries'[i].key, entries'[i].psl)
               /\ entries'[i].psl > 1 => entries'[Mask(i - 1)].psl >= entries'[i].psl - 1
    <3>1. /\ i \in Slots /\ entries[i] \in Taken /\ entries[i].psl \in Nat
          /\ Mask(i - 1) \in Slots /\ Mask(i - 1) # i /\ Mask(Mask(i - 1) + 1) = i
          /\ entries[Mask(i - 1)].psl \in Nat
      BY <1>3, SlotFacts, PreviousSlot
    <3>2. /\ i = At(entries[i].key, entries[i].psl)
          /\ entries[i].psl > 1 => entries[Mask(i - 1)].psl >= entries[i].psl - 1
      BY DEF Placed, Fits
    <3>3. CASE i = h
      <4>1. h = At(e.key, e.psl)
        <5>1. s.key \in Keys /\ s.psl \in Int
          BY <1>7, SlotFacts
        <5>2. Mask(At(s.key, s.psl) - 1) = At(s.key, s.psl - 1)
          BY <5>1, Search
        <5> QED
          BY <1>4, <1>6, <1>7, <5>2
      <4>2. entries'[Mask(i - 1)].psl = entries[Mask(i - 1)].psl
        BY <1>9, <3>1, <3>3
      <4>3. e.psl > 1 => entries[Mask(i - 1)].psl >= e.psl - 1
        BY <1>6, <1>7, <3>1, <3>3
      <4> QED
        BY <1>9, <3>3, <4>1, <4>2, <4>3
    <3>4. CASE i # h /\ Mask(i - 1) = h
      <4>1. i = n
        BY <1>4, <3>1, <3>4
      <4> QED
        BY <1>5, <1>6, <1>7, <1>9, <3>1, <3>2, <3>4, <4>1
    <3>5. CASE i # h /\ Mask(i - 1) # h
      BY <1>9, <3>1, <3>2, <3>5
    <3> QED
      BY <3>3, <3>4, <3>5
  <2> QED
    BY <1>1, <1>10, <2>1 DEF Placed, Fits, At, Mask
<1>13. TypeOK'
  BY <1>1, <1>2, <1>4, <1>9 DEF TypeOK, Setting, InHand, Resizing
<1>14. /\ \A i, j \in Live : entries[i].key = entries[j].key => i = j
       /\ \A i \in Live : entries[i].key # cur.key
  BY <1>1 DEF Unique, HandInv, InHand
<1>15. n \in Live /\ \A i \in Live' : i # h => i \in Live /\ i # n /\ entries'[i] = entries[i]
  <2>1. \A i \in Occupied : i \in Slots
    BY SlotFacts
  <2> QED
    BY <1>4, <1>9, <1>11, <2>1
<1>16. Unique' /\ HandInv'
  <2>1. \A i, j \in Live' : entries'[i].key = entries'[j].key => i = j
    BY <1>5, <1>6, <1>9, <1>14, <1>15
  <2>2. \A i \in Live' : entries'[i].key # cur.key
    BY <1>5, <1>6, <1>9, <1>14, <1>15
  <2> QED
    BY <1>1, <1>2, <1>4, <1>10, <1>11, <2>1, <2>2 DEF Unique, HandInv
<1>17. CountInv'
  <2>1. /\ Cardinality(Occupied \ {h})
             = IF h \in Occupied THEN Cardinality(Occupied) - 1 ELSE Cardinality(Occupied)
        /\ Cardinality(Occupied \ {n})
             = IF n \in Occupied THEN Cardinality(Occupied) - 1 ELSE Cardinality(Occupied)
    BY Finite, FS_RemoveElement
  <2>2. Cardinality(Live') = Cardinality(Live)
    BY <1>11, <2>1
  <2> QED
    BY <1>1, <1>11, <2>2 DEF CountInv, Setting
<1>18. BeforeInv'
  <2>1. \A k, v : Has(k, v)' <=> Has(k, v)
    <3>1. ASSUME NEW k, NEW v, Has(k, v) PROVE Has(k, v)'
      <4>1. PICK i \in Live : entries[i].key = k /\ entries[i].value = v
        BY <3>1 DEF Has
      <4>2. CASE i = n
        <5>1. h \in Live' /\ entries'[h].key = k /\ entries'[h].value = v
          BY <1>4, <1>5, <1>6, <1>9, <1>11, <4>1, <4>2
        <5> QED
          BY <5>1 DEF Has
      <4>3. CASE i # n
        <5>1. i \in Live' /\ i # h
          BY <1>11, <4>3
        <5>2. entries'[i].key = k /\ entries'[i].value = v
          BY <1>15, <4>1, <5>1
        <5> QED
          BY <5>1, <5>2 DEF Has
      <4> QED
        BY <4>2, <4>3
    <3>2. ASSUME NEW k, NEW v, Has(k, v)' PROVE Has(k, v)
      <4>1. PICK i \in Live' : entries'[i].key = k /\ entries'[i].value = v
        BY <3>2 DEF Has
      <4>2. CASE i = h
        <5>1. entries[n].key = k /\ entries[n].value = v
          BY <1>5, <1>6, <1>9, <4>1, <4>2
        <5> QED
          BY <1>15, <5>1 DEF Has
      <4>3. CASE i # h
        BY <1>15, <4>1, <4>3 DEF Has
      <4> QED
        BY <4>2, <4>3
    <3> QED
      BY <3>1, <3>2
  <2>2. \A k, v : Holds(k, v)' <=> Holds(k, v)
    BY <1>1, <1>11, <2>1 DEF Holds, InHand
  <2> QED
    BY <1>1, <2>2 DEF BeforeInv
<1> QED
  BY <1>12, <1>13, <1>16, <1>17, <1>18

(* The shift ends before a free slot or an entry at its home: the hole is  *)
(* freed, and no entry needed it.                                          *)
LEMMA ShiftEndStep ==
  ASSUME IInv, ShiftEnd
  PROVE  IInv' /\ Live' = Live /\ \A i \in Live : entries'[i] = entries[i]
<1> USE DEF IInv
<1>1. /\ pc = "shift" /\ pc' = "idle" /\ entries[Mask(idx + 1)].psl <= 1
      /\ entries' = [entries EXCEPT ![idx] = Free] /\ probe' = 0
      /\ UNCHANGED <<hash, capacity, count, peak>>
  BY DEF ShiftEnd, ShiftStops, Return, HT_INITIAL_PSL
<1>2. PICK h \in Slots : h = idx
  BY <1>1 DEF TypeOK, InHand
<1>3. capacity \in Nat /\ capacity >= 4 /\ h \in Occupied
  BY <1>1, <1>2 DEF TypeOK, HandInv
<1>4. /\ entries'[h] = Free /\ \A i \in Slots : i # h => entries'[i] = entries[i]
      /\ entries' \in [Slots' -> Entry] /\ Slots' = Slots
  <2>1. Slots' = Slots
    BY <1>1, Kept
  <2> QED
    BY <1>1, <1>2, <2>1 DEF TypeOK, Entry
<1>5. Occupied' = Occupied \ {h}
  BY <1>4 DEF Occupied, Free
<1>6. /\ Live = Occupied \ {h} /\ Live' = Live /\ Left = {} /\ Left' = {}
      /\ \A i \in Live : i \in Slots /\ entries'[i] = entries[i]
  <2>1. \A i \in Occupied : i \in Slots
    BY SlotFacts
  <2>2. Live = Occupied \ {h} /\ Live' = Occupied'
    BY <1>1, <1>2 DEF Live
  <2> QED
    BY <1>1, <1>4, <1>5, <2>1, <2>2 DEF Left
<1>7. Placed'
  <2>1. ASSUME NEW i \in Occupied, i # h
        PROVE  /\ i = At(entries'[i].key, entries'[i].psl)
               /\ entries'[i].psl > 1 => entries'[Mask(i - 1)].psl >= entries'[i].psl - 1
    <3>1. /\ i \in Slots /\ Mask(i - 1) \in Slots /\ Mask(Mask(i - 1) + 1) = i
          /\ entries[i].psl \in Nat
      BY <1>3, SlotFacts, PreviousSlot
    <3>2. /\ i = At(entries[i].key, entries[i].psl)
          /\ entries[i].psl > 1 => entries[Mask(i - 1)].psl >= entries[i].psl - 1
      BY DEF Placed, Fits
    <3>3. Mask(i - 1) = h => entries[i].psl <= 1
      BY <1>1, <1>2, <3>1
    <3> QED
      BY <1>4, <2>1, <3>1, <3>2, <3>3
  <2> QED
    BY <1>1, <1>5, <2>1 DEF Placed, Fits, At, Mask
<1>8. TypeOK'
  BY <1>1, <1>4 DEF TypeOK, Setting, InHand, Resizing
<1>9. Unique' /\ HandInv'
  <2>1. \A i, j \in Live : entries[i].key = entries[j].key => i = j
    BY DEF Unique
  <2> QED
    BY <1>1, <1>6, <2>1 DEF Unique, HandInv, InHand
<1>10. CountInv'
  <2>1. Cardinality(Live) + Cardinality(Left) + 0 = count /\ count + 1 <= peak
    BY <1>1 DEF CountInv
  <2>2. count + 0 <= peak
    BY <2>1 DEF TypeOK
  <2>3. peak > 0 => (peak - 1) * HT_LOAD_DEN < capacity * HT_LOAD_NUM
    BY DEF CountInv
  <2> QED
    BY <1>1, <1>6, <2>1, <2>2, <2>3 DEF CountInv, Setting
<1>11. BeforeInv'
  BY <1>1 DEF BeforeInv
<1> QED
  BY <1>6, <1>7, <1>8, <1>9, <1>10, <1>11

(* Every step keeps the invariant.                                         *)
LEMMA NextIInv ==
  ASSUME IInv, [Next]_vars
  PROVE  IInv'
<1>1. ASSUME NEW k \in Keys, Delete(k) PROVE IInv'
  BY <1>1, DeleteStep
<1>2. ASSUME NEW k \in Keys, NEW v \in Values, Set(k, v) PROVE IInv'
  BY <1>2, SetStep
<1>3. CASE SetOOM
  BY <1>3, Unchanged DEF SetOOM
<1>4. CASE NextOld
  BY <1>4, NextOldStep
<1>5. CASE Grown
  BY <1>5, GrownStep
<1>6. CASE Move
  BY <1>6, MoveStep
<1>7. CASE Insert
  BY <1>7, InsertStep
<1>8. CASE Update
  BY <1>8, UpdateStep
<1>9. CASE Probe
  BY <1>9, ProbeStep
<1>10. CASE Shift
  BY <1>10, ShiftStep
<1>11. CASE ShiftEnd
  BY <1>11, ShiftEndStep
<1>12. CASE Clear
  BY <1>12, ClearStep
<1>13. CASE UNCHANGED vars
  BY <1>13, Unchanged DEF vars
<1> QED
  BY <1>1, <1>2, <1>3, <1>4, <1>5, <1>6, <1>7, <1>8, <1>9, <1>10, <1>11, <1>12, <1>13 DEF Next

(* The inductive invariant holds in every reachable state.                 *)
THEOREM Invariance == Spec => []IInv
<1>1. Init => IInv
  BY InitIInv
<1>2. IInv /\ [Next]_vars => IInv'
  BY NextIInv
<1> QED
  BY <1>1, <1>2, PTL DEF Spec

-------------------------------------------------------------------------------
(* What the runs check.                                                    *)

(* Between any two rounds, each entry stands psl - 1 slots after its home, *)
(* after one that is as far from home less one, and no key is twice in the *)
(* table: what fce_ht_get's early exit relies on.                          *)
THEOREM ProbeOrder == Spec => []RobinHood
<1>1. IInv => RobinHood
  <2> SUFFICES ASSUME IInv PROVE RobinHood
    OBVIOUS
  <2>1. \A i \in Occupied :
          /\ i = At(entries[i].key, entries[i].psl)
          /\ entries[i].psl > 1 => entries[Mask(i - 1)].psl >= entries[i].psl - 1
    BY DEF IInv, Placed, Fits
  <2>2. \A i, j \in Occupied :
          entries[i].key = entries[j].key => i = j \/ (pc = "shift" /\ idx \in {i, j})
    BY DEF IInv, Unique, Live
  <2> QED
    BY <2>1, <2>2 DEF RobinHood
<1> QED
  BY <1>1, Invariance, PTL

(* A slot is always free, one of them in the rounds the probe loop of      *)
(* fce_ht_set has left, and count is the number of entries.                *)
THEOREM NeverFull == Spec => []FreeSlotExists
<1>1. IInv => FreeSlotExists
  <2> SUFFICES ASSUME IInv PROVE FreeSlotExists
    OBVIOUS
  <2>1. \E i \in Slots : entries[i].psl = 0
    BY FreeSlot DEF IInv
  <2>2. pc = "probe" => \E d \in 0 .. capacity - probe - 1 : entries[Mask(idx + d)].psl = 0
    BY DEF IInv, CountInv
  <2>3. pc = "idle" => count = Cardinality(Occupied)
    <3>1. pc = "idle" => Live = Occupied /\ Left = {}
      BY DEF Live, Left
    <3>2. pc = "idle" => Cardinality(Live) + Cardinality(Left) + 0 = count
      BY DEF IInv, CountInv
    <3>3. Cardinality({}) = 0 /\ Cardinality(Live) \in Nat
      BY Finite, FS_EmptySet DEF IInv
    <3> QED
      BY <3>1, <3>2, <3>3
  <2> QED
    BY <2>1, <2>2, <2>3 DEF FreeSlotExists
<1> QED
  BY <1>1, Invariance, PTL

(* The capacity always suffices for one entry less than there ever were:   *)
(* after fce_ht_clear they go back in without a resize.                    *)
THEOREM RoomKept == Spec => []ReinsertionFits
<1>1. IInv => ReinsertionFits
  BY DEF IInv, CountInv, ReinsertionFits
<1> QED
  BY <1>1, Invariance, PTL

-------------------------------------------------------------------------------
(* The table implements a map.                                             *)

(* What every key answers between operations.                              *)
AnswersInv ==
  pc = "idle" =>
    \A k \in Keys : /\ Get(k) \in Values \union {NoValue}
                    /\ \A v \in Values : Get(k) = v <=> Has(k, v)

(* The invariant implies it.                                               *)
LEMMA AnswersHold == IInv => AnswersInv
<1> SUFFICES ASSUME IInv, pc = "idle", NEW k \in Keys
             PROVE  /\ Get(k) \in Values \union {NoValue}
                    /\ \A v \in Values : Get(k) = v <=> Has(k, v)
  BY DEF AnswersInv
<1> QED
  BY Answers

(* Two maps are the same if they have the same keys and values.            *)
LEMMA SameMap ==
  ASSUME NEW f \in [Keys -> Values \union {NoValue}],
         NEW g \in [Keys -> Values \union {NoValue}],
         \A k \in Keys, v \in Values : f[k] = v <=> g[k] = v
  PROVE  f = g
<1>1. ASSUME NEW k \in Keys PROVE f[k] = g[k]
  <2>1. f[k] \in Values \union {NoValue} /\ g[k] \in Values \union {NoValue}
    OBVIOUS
  <2>2. NoValue \notin Values
    BY HashTableAssumption
  <2>3. \A v \in Values : f[k] = v <=> g[k] = v
    OBVIOUS
  <2> QED
    BY <2>1, <2>2, <2>3
<1> QED
  BY <1>1

(* When an operation returns, the map is what its entries say.             *)
LEMMA NewMap ==
  ASSUME AnswersInv', pc' = "idle", NEW f \in [Keys -> Values \union {NoValue}],
         \A k \in Keys, v \in Values : Has(k, v)' <=> f[k] = v
  PROVE  [k \in Keys |-> Get(k)]' = f
<1> DEFINE g == [k \in Keys |-> Get(k)]'
<1>1. \A k \in Keys : Get(k)' \in Values \union {NoValue}
  BY DEF AnswersInv
<1>2. \A k \in Keys, v \in Values : Get(k)' = v <=> Has(k, v)'
  BY DEF AnswersInv
<1>3. g = [k \in Keys |-> Get(k)']
  OBVIOUS
<1> HIDE DEF g
<1>4. g \in [Keys -> Values \union {NoValue}]
  BY <1>1, <1>3
<1>5. \A k \in Keys, v \in Values : g[k] = v <=> f[k] = v
  BY <1>2, <1>3
<1>6. PICK h \in [Keys -> Values \union {NoValue}] : h = g
  BY <1>4
<1>7. h = f
  BY <1>5, <1>6, SameMap
<1> QED
  BY <1>6, <1>7 DEF g

(* Keys answer the same while the table is the same.                       *)
LEMMA SameAnswers ==
  ASSUME UNCHANGED table
  PROVE  \A k : Get(k)' = Get(k)
  BY DEF table, Get, Found, Rounds, SearchEnds, At, Mask

(* While an operation goes on, the map is what it was before, and nothing  *)
(* is returned.                                                            *)
LEMMA Stutter ==
  ASSUME pc # "idle", pc' # "idle", UNCHANGED <<before, result>>
  PROVE  UNCHANGED Map!vars
  BY DEF Map!vars, result

(* Nor is the map another one when an operation begins.                    *)
LEMMA BeginStutters ==
  ASSUME pc = "idle", pc' # "idle", Began, UNCHANGED result
  PROVE  UNCHANGED Map!vars
  BY DEF Map!vars, result, Began

(* An operation that fails or finds nothing.                               *)
LEMMA RefusalStutters ==
  ASSUME pc = "idle", UNCHANGED <<table, pc>>
  PROVE  [k \in Keys |-> Get(k)]' = [k \in Keys |-> Get(k)]
<1>1. \A k : Get(k)' = Get(k)
  BY SameAnswers
<1> QED
  BY <1>1

(* A set that finds a free slot gives its key, which answered NULL, its    *)
(* value, and no other key a new one, however many entries it displaced.   *)
LEMMA InsertMaps ==
  ASSUME IInv, AnswersInv', Insert
  PROVE  Map!Set(key, value)
<1> USE DEF IInv
<1>1. /\ pc = "probe" /\ pc' = "idle" /\ entries[idx].psl = 0
      /\ entries' = [entries EXCEPT ![idx] = cur] /\ UNCHANGED <<hash, capacity>>
      /\ ret' = NoValue /\ inserted' = TRUE
  BY DEF Insert, Return
<1>2. PICK k \in Keys, v \in Values, c \in Taken, b \in [Keys -> Values \union {NoValue}] :
        k = key /\ v = value /\ c = cur /\ b = before
  BY <1>1 DEF TypeOK, Setting, InHand
<1>3. /\ \A i \in Live : entries[i].key # c.key
      /\ \A x, y : Has(x, y)' <=> Has(x, y) \/ (c.key = x /\ c.value = y)
  BY <1>1, <1>2, Placing
<1>4. \A y : ~ Has(c.key, y)
  BY <1>3 DEF Has
<1>5. /\ \A x \in Keys, y \in Values : x # k =>
           (b[x] = y <=> Has(x, y) \/ (c.key = x /\ c.value = y))
      /\ c.key = k => c.value = v /\ \A y \in Values : b[k] = y <=> Has(k, y)
      /\ c.key # k => b[k] = NoValue /\ \A y \in Values : Has(k, y) <=> y = v
  <2>1. Left = {}
    BY <1>1 DEF Left
  <2>2. \A x, y : Holds(x, y) <=> Has(x, y) \/ (c.key = x /\ c.value = y)
    BY <1>1, <1>2, <2>1 DEF Holds, InHand
  <2>3. \A x \in Keys, y \in Values :
          IF x # k THEN b[x] = y <=> Holds(x, y)
          ELSE IF c.key = k THEN c.value = v /\ (b[x] = y <=> Has(x, y))
          ELSE b[x] = NoValue /\ (Has(x, y) <=> y = v)
    BY <1>1, <1>2 DEF BeforeInv
  <2> QED
    BY <2>2, <2>3
<1>6. b[k] = NoValue
  <2>1. b[k] \in Values \union {NoValue}
    OBVIOUS
  <2> QED
    BY <1>4, <1>5, <2>1
<1> DEFINE f == [b EXCEPT ![k] = v]
<1>7. f \in [Keys -> Values \union {NoValue}] /\ f[k] = v /\ \A x \in Keys : x # k => f[x] = b[x]
  OBVIOUS
<1>8. \A x \in Keys, y \in Values : Has(x, y)' <=> f[x] = y
  <2> SUFFICES ASSUME NEW x \in Keys, NEW y \in Values PROVE Has(x, y)' <=> f[x] = y
    OBVIOUS
  <2> HIDE DEF f
  <2>1. CASE x # k
    BY <1>3, <1>5, <1>7, <2>1
  <2>2. CASE x = k /\ c.key = k
    BY <1>3, <1>4, <1>5, <1>7, <2>2
  <2>3. CASE x = k /\ c.key # k
    BY <1>3, <1>5, <1>7, <2>3
  <2> QED
    BY <2>1, <2>2, <2>3
<1> HIDE DEF f
<1>9. [x \in Keys |-> Get(x)]' = f
  BY <1>1, <1>7, <1>8, NewMap
<1> QED
  BY <1>1, <1>2, <1>6, <1>9 DEF Map!Set, f

(* A set that finds its key returns the value it had, and replaces it.     *)
LEMMA UpdateMaps ==
  ASSUME IInv, AnswersInv', Update
  PROVE  Map!Set(key, value)
<1> USE DEF IInv
<1>1. /\ pc = "probe" /\ pc' = "idle" /\ entries[idx].psl # 0
      /\ entries[idx].key = cur.key
      /\ entries' = [entries EXCEPT ![idx].value = cur.value]
      /\ UNCHANGED <<hash, capacity>>
      /\ ret' = entries[idx].value /\ inserted' = FALSE
  BY DEF Update, Return
<1>2. PICK k \in Keys, v \in Values, c \in Taken, b \in [Keys -> Values \union {NoValue}] :
        k = key /\ v = value /\ c = cur /\ b = before
  BY <1>1 DEF TypeOK, Setting, InHand
<1>3. PICK n \in Slots, s \in Taken : n = idx /\ s = entries[n]
  BY <1>1, SlotFacts DEF TypeOK, InHand
<1>4. /\ \A i \in Slots : i # n => entries'[i] = entries[i]
      /\ entries'[n].key = s.key /\ entries'[n].psl = s.psl /\ entries'[n].value = c.value
  BY <1>1, <1>2, <1>3 DEF TypeOK, Taken
<1>5. Live = Occupied /\ Live' = Occupied /\ n \in Live /\ \A i \in Live : i \in Slots
  <2>1. Slots' = Slots
    BY <1>1, Kept
  <2>2. Occupied' = Occupied
    BY <1>3, <1>4, <2>1 DEF Occupied
  <2> QED
    BY <1>1, <1>3, <2>2, SlotFacts DEF Live
<1>6. \A i, j \in Live : entries[i].key = entries[j].key => i = j
  BY DEF Unique
<1>7. s.key = c.key /\ c.key = k
  BY <1>1, <1>2, <1>3, <1>5 DEF HandInv, InHand
<1>8. /\ \A x, y : x # k => (Has(x, y)' <=> Has(x, y))
      /\ \A y : Has(k, y) <=> s.value = y
      /\ \A y : Has(k, y)' <=> c.value = y
  BY <1>3, <1>4, <1>5, <1>6, <1>7 DEF Has
<1>9. /\ \A x \in Keys, y \in Values : x # k => (b[x] = y <=> Has(x, y))
      /\ c.value = v /\ \A y \in Values : b[k] = y <=> Has(k, y)
  <2>1. Left = {}
    BY <1>1 DEF Left
  <2>2. \A x, y : x # k => (Holds(x, y) <=> Has(x, y))
    BY <1>2, <1>7, <2>1 DEF Holds
  <2>3. \A x \in Keys, y \in Values :
          IF x # k THEN b[x] = y <=> Holds(x, y)
          ELSE IF c.key = k THEN c.value = v /\ (b[x] = y <=> Has(x, y))
          ELSE b[x] = NoValue /\ (Has(x, y) <=> y = v)
    BY <1>1, <1>2 DEF BeforeInv
  <2>4. PICK y \in Values : y = s.value
    BY SlotFacts
  <2> QED
    BY <1>7, <2>2, <2>3, <2>4
<1>10. b[k] = s.value /\ b[k] # NoValue
  <2>1. s.value \in Values /\ NoValue \notin Values
    BY SlotFacts, HashTableAssumption
  <2> QED
    BY <1>8, <1>9, <2>1
<1> DEFINE f == [b EXCEPT ![k] = v]
<1>11. f \in [Keys -> Values \union {NoValue}] /\ f[k] = v /\ \A x \in Keys : x # k => f[x] = b[x]
  OBVIOUS
<1> HIDE DEF f
<1>12. \A x \in Keys, y \in Values : Has(x, y)' <=> f[x] = y
  BY <1>8, <1>9, <1>11
<1>13. [x \in Keys |-> Get(x)]' = f
  BY <1>1, <1>11, <1>12, NewMap
<1> QED
  BY <1>1, <1>2, <1>3, <1>10, <1>13 DEF Map!Set, f

(* A deletion returns the value its key had, and the shift loses no other  *)
(* entry.                                                                  *)
LEMMA ShiftEndMaps ==
  ASSUME IInv, AnswersInv', ShiftEnd
  PROVE  \E k \in Keys : Map!Delete(k)
<1> USE DEF IInv
<1>1. /\ pc = "shift" /\ pc' = "idle" /\ ret' = cur.value /\ inserted' = inserted
  BY DEF ShiftEnd, Return
<1>2. PICK c \in Taken, b \in [Keys -> Values \union {NoValue}] : c = cur /\ b = before
  BY <1>1 DEF TypeOK, InHand
<1>3. c.key \in Keys /\ c.value \in Values /\ NoValue \notin Values
  BY SlotFacts, HashTableAssumption
<1>4. \A i \in Live : entries[i].key # c.key
  BY <1>1, <1>2 DEF HandInv, InHand
<1>5. \A x, y : Has(x, y)' <=> Has(x, y)
  <2>1. Live' = Live /\ \A i \in Live : entries'[i] = entries[i]
    BY ShiftEndStep
  <2> QED
    BY <2>1 DEF Has
<1>6. \A x \in Keys, y \in Values : b[x] = y <=> Has(x, y) \/ (c.key = x /\ c.value = y)
  <2>1. Left = {}
    BY <1>1 DEF Left
  <2> QED
    BY <1>1, <1>2, <2>1 DEF BeforeInv, Holds, InHand
<1>7. b[c.key] = c.value /\ \A y : ~ Has(c.key, y)
  BY <1>3, <1>4, <1>6 DEF Has
<1> DEFINE f == [b EXCEPT ![c.key] = NoValue]
<1>8. /\ f \in [Keys -> Values \union {NoValue}] /\ f[c.key] = NoValue
      /\ \A x \in Keys : x # c.key => f[x] = b[x]
  BY <1>3
<1> HIDE DEF f
<1>9. \A x \in Keys, y \in Values : Has(x, y)' <=> f[x] = y
  BY <1>3, <1>5, <1>6, <1>7, <1>8
<1>10. [x \in Keys |-> Get(x)]' = f
  BY <1>1, <1>8, <1>9, NewMap
<1>11. Map!Delete(c.key)
  BY <1>1, <1>2, <1>7, <1>10 DEF Map!Delete, f
<1> QED
  BY <1>3, <1>11

(* A table that was emptied is the empty map.                              *)
LEMMA ClearMaps ==
  ASSUME IInv, AnswersInv', Clear
  PROVE  Map!Clear
<1>1. /\ pc = "idle" /\ pc' = "idle" /\ entries' = [i \in Slots' |-> Free]
      /\ UNCHANGED result
  BY DEF Clear, ClearedCap, Zeroed, Slots, locals
<1>2. Occupied' = {}
  BY <1>1 DEF Occupied, Free
<1>3. \A x, y : ~ Has(x, y)'
  BY <1>2 DEF Has, Live
<1> DEFINE f == [k \in Keys |-> NoValue]
<1>4. f \in [Keys -> Values \union {NoValue}] /\ \A x \in Keys : f[x] = NoValue
  OBVIOUS
<1> HIDE DEF f
<1>5. \A x \in Keys, y \in Values : Has(x, y)' <=> f[x] = y
  BY <1>3, <1>4, HashTableAssumption
<1>6. [k \in Keys |-> Get(k)]' = f
  BY <1>1, <1>4, <1>5, NewMap
<1> QED
  BY <1>1, <1>6 DEF Map!Clear, result, f

(* The table created is the empty map.                                     *)
LEMMA InitMaps == Init => Map!Init
<1> SUFFICES ASSUME Init PROVE Map!Init
  OBVIOUS
<1>1. IInv /\ AnswersInv
  BY InitIInv, AnswersHold
<1>2. pc = "idle" /\ ret = NoValue /\ inserted = FALSE /\ entries = [i \in Slots |-> Free]
  BY DEF Init, Zeroed, Slots
<1>3. Occupied = {}
  BY <1>2 DEF Occupied, Free
<1>4. \A k, v : ~ Has(k, v)
  BY <1>3 DEF Has, Live
<1>5. \A k \in Keys : Get(k) = NoValue
  BY <1>1, <1>2, <1>4 DEF AnswersInv
<1> QED
  BY <1>2, <1>5 DEF Map!Init

(* Every step of the table is a step of the map, or none.                  *)
LEMMA NextMaps ==
  ASSUME IInv, AnswersInv, AnswersInv', [Next]_vars
  PROVE  [Map!Next]_(Map!vars)
<1>1. ASSUME NEW k \in Keys, Delete(k) PROVE [Map!Next]_(Map!vars)
  <2>1. CASE Found(k)
    BY <1>1, <2>1, BeginStutters DEF Delete, result
  <2>2. CASE ~ Found(k)
    <3>1. pc = "idle" /\ pc' = "idle" /\ ret' = NoValue /\ UNCHANGED <<table, inserted>>
      BY <1>1, <2>2 DEF Delete, locals
    <3>2. [x \in Keys |-> Get(x)]' = [x \in Keys |-> Get(x)]
      BY <3>1, RefusalStutters
    <3>3. Get(k) = NoValue
      BY <2>2 DEF Get
    <3>4. [x \in Keys |-> Get(x)] = [[x \in Keys |-> Get(x)] EXCEPT ![k] = NoValue]
      BY <3>3
    <3>5. Map!Delete(k)
      BY <3>1, <3>2, <3>3, <3>4 DEF Map!Delete
    <3> QED
      BY <3>5 DEF Map!Next
  <2> QED
    BY <2>1, <2>2
<1>2. ASSUME NEW k \in Keys, NEW v \in Values, Set(k, v) PROVE [Map!Next]_(Map!vars)
  <2>1. pc = "idle" /\ pc' # "idle" /\ Began /\ UNCHANGED result
    BY <1>2 DEF Set, TakeInHand
  <2> QED
    BY <2>1, BeginStutters
<1>3. CASE SetOOM
  <2>1. pc = "idle" /\ pc' = "idle" /\ ret' = NoValue /\ inserted' = FALSE /\ UNCHANGED table
    BY <1>3 DEF SetOOM, locals
  <2>2. [x \in Keys |-> Get(x)]' = [x \in Keys |-> Get(x)]
    BY <2>1, RefusalStutters
  <2>3. Map!SetOOM
    BY <2>1, <2>2 DEF Map!SetOOM
  <2> QED
    BY <2>3 DEF Map!Next
<1>4. CASE NextOld
  BY <1>4, Stutter DEF NextOld, TakeInHand, result
<1>5. CASE Grown
  BY <1>5, Stutter DEF Grown, TakeInHand, result
<1>6. CASE Move
  BY <1>6, Stutter DEF Move, result
<1>7. CASE Insert
  <2>1. key \in Keys /\ value \in Values
    BY <1>7 DEF Insert, IInv, TypeOK, Setting
  <2> QED
    BY <1>7, <2>1, InsertMaps DEF Map!Next
<1>8. CASE Update
  <2>1. key \in Keys /\ value \in Values
    BY <1>8 DEF Update, IInv, TypeOK, Setting
  <2> QED
    BY <1>8, <2>1, UpdateMaps DEF Map!Next
<1>9. CASE Probe
  BY <1>9, Stutter DEF Probe, result
<1>10. CASE Shift
  BY <1>10, Stutter DEF Shift, result
<1>11. CASE ShiftEnd
  BY <1>11, ShiftEndMaps DEF Map!Next
<1>12. CASE Clear
  BY <1>12, ClearMaps DEF Map!Next
<1>13. CASE UNCHANGED vars
  <2>1. UNCHANGED <<table, pc, before, result>>
    BY <1>13 DEF vars, locals
  <2>2. \A k : Get(k)' = Get(k)
    BY <2>1, SameAnswers
  <2> QED
    BY <2>1, <2>2 DEF Map!vars, result
<1> QED
  BY <1>1, <1>2, <1>3, <1>4, <1>5, <1>6, <1>7, <1>8, <1>9, <1>10, <1>11, <1>12, <1>13 DEF Next

(* After any operations the table is the map StringMap says it is, with    *)
(* the results StringMap says.                                             *)
THEOREM IsAMap == Spec => ImplementsMap
<1>1. Init => Map!Init
  BY InitMaps
<1>2. IInv => AnswersInv
  BY AnswersHold
<1>3. IInv /\ AnswersInv /\ AnswersInv' /\ [Next]_vars => [Map!Next]_(Map!vars)
  BY NextMaps
<1>4. Spec => []IInv
  BY Invariance
<1>5. Spec => Map!Spec
  BY <1>1, <1>2, <1>3, <1>4, PTL DEF Spec, Map!Spec
<1> QED
  BY <1>5 DEF ImplementsMap
===============================================================================
