------------------------------- MODULE HashTable -------------------------------
(***************************************************************************)
(* The Robin Hood hash table of src/foundation/hash_table.c: open          *)
(* addressing with probe distances, stealing on insertion, backward shift  *)
(* on deletion, doubling at a load of three quarters.  Operations are      *)
(* sequential ("fce_ht_* is NOT thread-safe"); an insertion, a resize and  *)
(* the shift of a deletion are taken round by round of their loops, so     *)
(* that what holds between two rounds can be stated.  hash is the seeded   *)
(* FNV-1a of the keys: any function, as the seed is random.                *)
(***************************************************************************)
EXTENDS Integers, FiniteSets

CONSTANTS
  Keys, Values, NoKey, NoValue,
  Hashes,      \* the functions seeds give, from Keys to Nat
  MinCap       \* the capacity created: HT_MIN_CAP or more, 4 is enough here

ASSUME HashTableAssumption ==
  /\ NoKey \notin Keys /\ NoValue \notin Values
  /\ Hashes \subseteq [Keys -> Nat]
  /\ MinCap \in Nat /\ MinCap >= 4

HT_LOAD_NUM == 3
HT_LOAD_DEN == 4
HT_INITIAL_PSL == 1

VARIABLES
  hash,
  capacity,
  entries,   \* entries[i], i \in 0 .. capacity - 1
  count,
  ret, inserted,   \* what the last operation returned
  pc,              \* the loop the operation in progress is at
  key, value,      \* its arguments
  cur, idx,        \* the entry in hand, or the one deleted, and the slot
  probe,           \* rounds of the probe loop of fce_ht_set
  old, pos,        \* the slots a resize empties, and the next of them
  before,    \* history: what the keys answered when the operation began
  peak       \* history: the largest count ever

table == <<hash, capacity, entries, count>>
result == <<ret, inserted>>
locals == <<pc, key, value, cur, idx, probe, old, pos>>
vars == <<table, result, locals, before, peak>>

Free == [key |-> NoKey, value |-> NoValue, psl |-> 0]

Zeroed(cap) == [i \in 0 .. cap - 1 |-> Free]

Slots == 0 .. capacity - 1

(* h & mask: capacities are powers of two. *)
Mask(h) == h % capacity

(* fce_ht_create *)
Init ==
  /\ hash \in Hashes
  /\ capacity = MinCap /\ entries = Zeroed(MinCap) /\ count = 0
  /\ ret = NoValue /\ inserted = FALSE /\ peak = 0
  /\ pc = "idle" /\ key = NoKey /\ value = NoValue
  /\ cur = Free /\ idx = 0 /\ probe = 0 /\ old = <<>> /\ pos = 0
  /\ before = <<>>

-------------------------------------------------------------------------------
(* Where an entry of key k stands n - 1 slots after its home. *)
At(k, n) == Mask(hash[k] + n - 1)

(* The search of fce_ht_get and fce_ht_delete ends in its n-th round, at a *)
(* free slot, at one whose key is nearer home than k would be, or at k.    *)
SearchEnds(k, n) == entries[At(k, n)].psl < n \/ entries[At(k, n)].key = k

Rounds(k) ==
  CHOOSE n \in 1 .. capacity :
    SearchEnds(k, n) /\ \A m \in 1 .. n - 1 : ~ SearchEnds(k, m)

Found(k) ==
  LET slot == entries[At(k, Rounds(k))]
  IN  slot.psl >= Rounds(k) /\ slot.key = k

(* fce_ht_get *)
Get(k) == IF Found(k) THEN entries[At(k, Rounds(k))].value ELSE NoValue

(* The operation is over, its locals are gone. *)
Return ==
  /\ pc' = "idle" /\ key' = NoKey /\ value' = NoValue
  /\ cur' = Free /\ idx' = 0 /\ probe' = 0 /\ old' = <<>> /\ pos' = 0
  /\ before' = <<>>

Began == before' = [k \in Keys |-> Get(k)]

-------------------------------------------------------------------------------
Loaded_Late == count >= capacity   \* mutant: resizes when the table is full

Loaded == count * HT_LOAD_DEN >= capacity * HT_LOAD_NUM

(* An entry goes to its home, the slot its hash selects. *)
TakeInHand(k, v, l) ==
  /\ cur' = [key |-> k, value |-> v, psl |-> HT_INITIAL_PSL]
  /\ idx' = Mask(hash[k]) /\ probe' = 0 /\ pc' = l

(* fce_ht_set: the table grows before it is touched, or the call fails.    *)
(* The table that grows has its new slots at once; the old ones wait in    *)
(* old.                                                                    *)
Set(k, v) ==
  /\ pc = "idle" /\ Began
  /\ key' = k /\ value' = v
  /\ IF Loaded
     THEN /\ old' = entries /\ pos' = 0 /\ pc' = "grow"
          /\ entries' = Zeroed(2 * capacity) /\ capacity' = 2 * capacity
          /\ UNCHANGED <<cur, idx, probe>>
     ELSE TakeInHand(k, v, "probe") /\ UNCHANGED <<old, pos, entries, capacity>>
  /\ UNCHANGED <<hash, count, result, peak>>

SetOOM ==
  /\ pc = "idle" /\ Loaded
  /\ ret' = NoValue /\ inserted' = FALSE
  /\ UNCHANGED <<table, locals, before, peak>>

(* ht_resize looks at the next old slot, *)
NextOld ==
  /\ pc = "grow" /\ pos \in DOMAIN old
  /\ pos' = pos + 1
  /\ IF old[pos].psl = 0 THEN UNCHANGED <<pc, cur, idx, probe>>
     ELSE TakeInHand(old[pos].key, old[pos].value, "move")
  /\ UNCHANGED <<table, result, key, value, old, before, peak>>

(* and is done when there is none. *)
Grown ==
  /\ pc = "grow" /\ pos \notin DOMAIN old
  /\ TakeInHand(key, value, "probe") /\ old' = <<>> /\ pos' = 0
  /\ UNCHANGED <<table, result, key, value, before, peak>>

Steals_Never(e, slot) == FALSE   \* mutant: plain linear probing

(* Robin Hood: who is further from home takes the slot. *)
Steals(e, slot) == e.psl > slot.psl

(* One round of a probe loop at a slot that is taken. *)
Walk ==
  LET slot == entries[idx]
  IN  /\ IF Steals(cur, slot)
         THEN /\ entries' = [entries EXCEPT ![idx] = cur]
              /\ cur' = [slot EXCEPT !.psl = @ + 1]
         ELSE cur' = [cur EXCEPT !.psl = @ + 1] /\ UNCHANGED entries
      /\ idx' = Mask(idx + 1)

(* The probe loop of ht_resize. *)
Move ==
  /\ pc = "move"
  /\ IF entries[idx].psl = 0
     THEN /\ entries' = [entries EXCEPT ![idx] = cur] /\ pc' = "grow"
          /\ UNCHANGED <<cur, idx>>
     ELSE Walk /\ UNCHANGED pc
  /\ UNCHANGED <<hash, capacity, count, result, key, value, probe, old, pos, before, peak>>

(* The probe loop of fce_ht_set: a free slot, the key, or the next slot;   *)
(* there is no way out at the end of its capacity rounds, which is "never  *)
(* reached".                                                               *)
Insert ==
  /\ pc = "probe" /\ probe < capacity /\ entries[idx].psl = 0
  /\ entries' = [entries EXCEPT ![idx] = cur] /\ count' = count + 1
  /\ peak' = IF count' > peak THEN count' ELSE peak
  /\ ret' = NoValue /\ inserted' = TRUE
  /\ Return /\ UNCHANGED <<hash, capacity>>

Update ==
  /\ pc = "probe" /\ probe < capacity
  /\ entries[idx].psl # 0 /\ entries[idx].key = cur.key
  /\ entries' = [entries EXCEPT ![idx].value = cur.value]
  /\ ret' = entries[idx].value /\ inserted' = FALSE
  /\ Return /\ UNCHANGED <<hash, capacity, count, peak>>

Probe ==
  /\ pc = "probe" /\ probe < capacity
  /\ entries[idx].psl # 0 /\ entries[idx].key # cur.key
  /\ Walk /\ probe' = probe + 1
  /\ UNCHANGED <<hash, capacity, count, result, pc, key, value, old, pos, before, peak>>

-------------------------------------------------------------------------------
(* fce_ht_delete *)
Delete(k) ==
  /\ pc = "idle"
  /\ IF Found(k)
     THEN /\ pc' = "shift" /\ Began /\ count' = count - 1
          /\ idx' = At(k, Rounds(k)) /\ cur' = entries[At(k, Rounds(k))]
          /\ UNCHANGED <<hash, capacity, entries, ret, key, value, probe, old, pos>>
     ELSE ret' = NoValue /\ UNCHANGED <<table, locals, before>>
  /\ UNCHANGED <<inserted, peak>>

(* The backward shift stops at a free slot or an entry at home. *)
ShiftStops(slot) == slot.psl <= HT_INITIAL_PSL

Shifted_SamePsl(slot) == slot   \* mutant: the distance is not updated

Shifted(slot) == [slot EXCEPT !.psl = @ - 1]

(* A round of the shift: the next entry moves into the hole. *)
Shift ==
  LET next == entries[Mask(idx + 1)]
  IN  /\ pc = "shift" /\ ~ ShiftStops(next)
      /\ entries' = [entries EXCEPT ![idx] = Shifted(next)]
      /\ idx' = Mask(idx + 1)
      /\ UNCHANGED <<hash, capacity, count, result, pc, key, value, cur, probe, old, pos,
                     before, peak>>

ShiftEnd ==
  /\ pc = "shift" /\ ShiftStops(entries[Mask(idx + 1)])
  /\ entries' = [entries EXCEPT ![idx] = Free]
  /\ ret' = cur.value
  /\ Return /\ UNCHANGED <<hash, capacity, count, inserted, peak>>

ClearedCap_Initial == MinCap   \* mutant: the memory is given back

ClearedCap == capacity

(* fce_ht_clear *)
Clear ==
  /\ pc = "idle"
  /\ entries' = Zeroed(ClearedCap) /\ capacity' = ClearedCap /\ count' = 0
  /\ UNCHANGED <<hash, result, locals, before, peak>>

Next ==
  \/ \E k \in Keys : Delete(k) \/ \E v \in Values : Set(k, v)
  \/ SetOOM \/ NextOld \/ Grown \/ Move \/ Insert \/ Update \/ Probe
  \/ Shift \/ ShiftEnd \/ Clear

Spec == Init /\ [][Next]_vars

-------------------------------------------------------------------------------
Occupied == {i \in Slots : entries[i].psl > 0}

(* The hole a deletion left still shows an entry that is elsewhere or gone. *)
Live == {i \in Occupied : pc = "shift" => i # idx}

(* The slots a resize has yet to look at. *)
Left == {j \in DOMAIN old : pc \in {"grow", "move"} /\ j >= pos /\ old[j].psl > 0}

Resizing == pc \in {"grow", "move"}

Setting == pc \in {"grow", "move", "probe"}

InHand == pc \in {"move", "probe", "shift"}

Taken == [key : Keys, value : Values, psl : Nat \ {0}]

Entry == Taken \union {Free}

TypeOK ==
  /\ hash \in [Keys -> Nat] /\ capacity \in Nat /\ capacity >= 4
  /\ entries \in [Slots -> Entry]
  /\ count \in Nat /\ peak \in Nat /\ probe \in Nat
  /\ pc \in {"idle", "grow", "move", "probe", "shift"}
  /\ Setting => key \in Keys /\ value \in Values
  /\ InHand => cur \in Taken /\ idx \in Slots
  /\ Resizing => \E m \in 0 .. capacity : old \in [0 .. m - 1 -> Entry] /\ pos \in 0 .. m
  /\ pc # "idle" => before \in [Keys -> Values \union {NoValue}]

(* Entry e may stand in slot i: psl - 1 slots after its home, and after an *)
(* entry at least as far from home, less one.                              *)
Fits(e, i) ==
  /\ i = At(e.key, e.psl)
  /\ e.psl > 1 => entries[Mask(i - 1)].psl >= e.psl - 1

Placed == \A i \in Occupied : Fits(entries[i], i)

(* No key twice: in the table, in hand, in the slots a resize has left.    *)
Unique ==
  /\ \A i, j \in Live : entries[i].key = entries[j].key => i = j
  /\ \A i, j \in Left : old[i].key = old[j].key => i = j
  /\ \A j \in Left : /\ \A i \in Live : entries[i].key # old[j].key
                     /\ pc = "move" => old[j].key # cur.key

(* The entry in hand has come to a slot it fits in; if its key is in the   *)
(* table it is the key being set, and it is further on.                    *)
HandInv ==
  /\ pc \in {"move", "probe"} => Fits(cur, idx)
  /\ InHand => \A i \in Live : entries[i].key = cur.key =>
       pc = "probe" /\ cur.key = key /\ entries[i].psl >= cur.psl
  /\ pc = "shift" => idx \in Occupied

(* No entry is lost, none is counted twice, and a slot stays free. *)
CountInv ==
  /\ Cardinality(Live) + Cardinality(Left) + (IF pc = "move" THEN 1 ELSE 0) = count
  /\ count + (IF pc = "shift" THEN 1 ELSE 0) <= peak
  /\ peak > 0 => (peak - 1) * HT_LOAD_DEN < capacity * HT_LOAD_NUM
  /\ Setting => count * HT_LOAD_DEN < capacity * HT_LOAD_NUM
  /\ pc = "probe" => \E d \in 0 .. capacity - probe - 1 : entries[Mask(idx + d)].psl = 0

(* What key k has when the entry in hand and those left are put back. *)
Has(k, v) == \E i \in Live : entries[i].key = k /\ entries[i].value = v

Holds(k, v) ==
  \/ Has(k, v)
  \/ InHand /\ cur.key = k /\ cur.value = v
  \/ \E j \in Left : old[j].key = k /\ old[j].value = v

(* It is what the key answered when the operation began; a key being set   *)
(* has its old value until its new one is in the table.                    *)
BeforeInv ==
  pc # "idle" =>
    \A k \in Keys, v \in Values :
      IF pc # "probe" \/ k # key THEN before[k] = v <=> Holds(k, v)
      ELSE IF cur.key = key THEN cur.value = value /\ (before[k] = v <=> Has(k, v))
      ELSE before[k] = NoValue /\ (Has(k, v) <=> v = value)

IInv == TypeOK /\ Placed /\ Unique /\ HandInv /\ CountInv /\ BeforeInv

-------------------------------------------------------------------------------
(* The invariant the early exits of fce_ht_get rely on ("Robin Hood        *)
(* guarantee"), between any two rounds of any loop: each entry stands      *)
(* psl - 1 slots after its home, and is preceded by an entry at least as   *)
(* far from home as it is, less one; no key is stored twice, but for the   *)
(* hole of a deletion, which still shows what moved or was deleted.        *)
RobinHood ==
  /\ \A i \in Occupied :
       /\ i = At(entries[i].key, entries[i].psl)
       /\ entries[i].psl > 1 => entries[Mask(i - 1)].psl >= entries[i].psl - 1
  /\ \A i, j \in Occupied :
       entries[i].key = entries[j].key => i = j \/ (pc = "shift" /\ idx \in {i, j})

(* A free slot always exists, and the probe loop of set has one in the     *)
(* rounds it has left: it never ends with a displaced entry in hand, and   *)
(* the shift loop of delete ends.  count is exact.                         *)
FreeSlotExists ==
  /\ \E i \in Slots : entries[i].psl = 0
  /\ pc = "probe" => \E d \in 0 .. capacity - probe - 1 : entries[Mask(idx + d)].psl = 0
  /\ pc = "idle" => count = Cardinality(Occupied)

(* After fce_ht_clear the keys that were there fit again without memory:   *)
(* what the rollback of a batch relies on.                                 *)
ReinsertionFits == peak > 0 => (peak - 1) * HT_LOAD_DEN < capacity * HT_LOAD_NUM

(* The table is a map: what every key answers is what the map holds, after *)
(* any sequence of insertions, updates, failures, deletions and clears.    *)
Map == INSTANCE StringMap WITH
  map <- IF pc = "idle" THEN [k \in Keys |-> Get(k)] ELSE before

ImplementsMap == Map!Spec
===============================================================================
