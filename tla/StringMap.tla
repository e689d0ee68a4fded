------------------------------- MODULE StringMap -------------------------------
(***************************************************************************)
(* What src/foundation/hash_table.h promises: a finite map from keys to    *)
(* values whose insertions may run out of memory and then change nothing.  *)
(***************************************************************************)
CONSTANTS Keys, Values,
          NoValue   \* NULL: the answer for a key that is absent

VARIABLES map,   \* map[k] the value of k, or NoValue
          ret,   \* what the last operation returned
          inserted   \* the inserted flag of the last fce_ht_set

vars == <<map, ret, inserted>>

Init ==
  map = [k \in Keys |-> NoValue] /\ ret = NoValue /\ inserted = FALSE

(* A new key, or a new value for one that is there. *)
Set(k, v) ==
  /\ map' = [map EXCEPT ![k] = v]
  /\ ret' = map[k] /\ inserted' = (map[k] = NoValue)

SetOOM == ret' = NoValue /\ inserted' = FALSE /\ UNCHANGED map

Delete(k) ==
  /\ map' = [map EXCEPT ![k] = NoValue]
  /\ ret' = map[k] /\ UNCHANGED inserted

Clear == map' = [k \in Keys |-> NoValue] /\ UNCHANGED <<ret, inserted>>

Next == \/ \E k \in Keys : Delete(k) \/ \E v \in Values : Set(k, v)
        \/ SetOOM \/ Clear

Spec == Init /\ [][Next]_vars
===============================================================================
