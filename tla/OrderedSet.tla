----------------------------- MODULE OrderedSet -----------------------------
(***************************************************************************)
(* What sys/rbtree.h promises: a set of items, no two with the same key,   *)
(* that can be searched by key and walked in the order of the keys.        *)
(***************************************************************************)
EXTENDS Integers

CONSTANTS Items, Key(_), NoItem

VARIABLES items, ret   \* the content; what the last operation returned

Keys == {Key(i) : i \in Items}

\* The least or, for direction 0, the greatest item of S, or NoItem.
First(S, dir) ==
  IF S = {} THEN NoItem
  ELSE CHOOSE i \in S : \A j \in S : IF dir = 1 THEN Key(i) =< Key(j) ELSE Key(i) >= Key(j)

Insert(i) ==
  /\ i \notin items
  /\ LET same == {j \in items : Key(j) = Key(i)}
     IN  IF same = {} THEN items' = items \cup {i} /\ ret' = i
                      ELSE ret' \in same /\ UNCHANGED items

Remove(i) == i \in items /\ items' = items \ {i} /\ UNCHANGED ret

Find(k) == ret' = First({i \in items : Key(i) = k}, 1) /\ UNCHANGED items
FindGeq(k) == ret' = First({i \in items : Key(i) >= k}, 1) /\ UNCHANGED items
FindLeq(k) == ret' = First({i \in items : Key(i) =< k}, 0) /\ UNCHANGED items

\* The next item in direction dir (1 is up); from NoItem, the end to start from.
Iterate(i, dir) ==
  /\ i \in items \cup {NoItem}
  /\ ret' = First({j \in items : i = NoItem \/ (IF dir = 1 THEN Key(j) > Key(i) ELSE Key(j) < Key(i))}, dir)
  /\ UNCHANGED items

Init == items = {} /\ ret = NoItem

Next ==
  \/ \E i \in Items : Insert(i) \/ Remove(i)
  \/ \E k \in Keys : Find(k) \/ FindGeq(k) \/ FindLeq(k)
  \/ \E i \in Items \cup {NoItem}, dir \in {0, 1} : Iterate(i, dir)

Spec == Init /\ [][Next]_<<items, ret>>
=============================================================================
