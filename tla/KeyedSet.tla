------------------------------ MODULE KeyedSet ------------------------------
(***************************************************************************)
(* What hash.h promises: a set of data, no two of which are equal, that an *)
(* operation changes completely or not at all.                             *)
(***************************************************************************)
CONSTANTS Items, Key(_), NoItem

VARIABLES items, result   \* the content; what the last operation returned

Equal(i) == {j \in items : Key(j) = Key(i)}

\* The entry, or the one equal to it; NoItem when memory is exhausted.
Insert(i) ==
  IF Equal(i) # {} THEN result' \in Equal(i) /\ UNCHANGED items
  ELSE \/ result' = i /\ items' = items \cup {i}
       \/ result' = NoItem /\ UNCHANGED items

\* What was removed.
Remove(i) ==
  IF Equal(i) = {} THEN result' = NoItem /\ UNCHANGED items
  ELSE result' \in Equal(i) /\ items' = items \ {result'}

\* hash_clear and hash_free
Clear == items' = {} /\ UNCHANGED result

Init == items = {} /\ result = NoItem
Next == Clear \/ \E i \in Items : Insert(i) \/ Remove(i)
Spec == Init /\ [][Next]_<<items, result>>
=============================================================================
