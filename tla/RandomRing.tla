----------------------------- MODULE RandomRing -----------------------------
(***************************************************************************)
(* The random pool and the random ring of src/random.c.                    *)
(*                                                                         *)
(* A bucket is the function that gives for each of its slices[] the slice  *)
(* it points to: its list, whose length is its count, and whether its head *)
(* is stale.  neb_random_slice_reverse builds the list on a head of its    *)
(* own and copies that; the first node, or the head of an empty list, then *)
(* links back to a variable that is gone.                                  *)
(* A pool takes from and puts into one bucket; a ring picks from one and   *)
(* puts into another.                                                      *)
(***************************************************************************)
EXTENDS Integers, FiniteSetsExt, SequencesExt

CONSTANTS
  Nodes,         \* the nodes a client may add
  SliceTotal,    \* RANDOM_POOL_SLICE_TOTAL_NUMBER
  SliceRandom    \* RANDOM_POOL_SLICE_RANDOM_NUMBER

ASSUME RandomConstants ==
  SliceTotal \in Nat /\ SliceRandom \in 1 .. SliceTotal

VARIABLES
  ring,          \* a ring, or else a pool
  pickBucket,    \* the ring's pick_bucket, the pool's bucket
  putBucket,     \* the ring's put_bucket
  inUse,         \* the list in_use, whose order is never looked at
  wild,          \* a pointer was used that leads nowhere: behind the end of "slices",
                 \* or to a list "head" that is gone; "no" if none was
  passed         \* history: how often, up to 3, n was picked while m waited in the ring

randomVars == <<ring, pickBucket, putBucket, inUse, wild, passed>>

Slices == 0 .. SliceTotal - 1
Size(b, i) == Len(b[i].list)
Count(b) == Cardinality(UNION {{i} \X (1 .. Size(b, i)) : i \in Slices})
NodesIn(b) == UNION {ToSet(b[i].list) : i \in Slices}
Waiting == NodesIn(pickBucket) \cup NodesIn(putBucket)

\* neb_random_bucket_create
BucketCreate == [i \in Slices |-> [list |-> <<>>, stale |-> FALSE]]

\* The slice at place k moves to place j, by exchanges with each slice in between.
Move(b, k, j) ==
  [i \in Slices |-> CASE i = j            -> b[k]
                      [] k =< i /\ i < j  -> b[i + 1]
                      [] j < i /\ i =< k  -> b[i - 1]
                      [] OTHER            -> b[i]]

\* The last place up to which all slices are shorter than the one at k, and the first
\* place from which all are longer.
RisesTo(b, k) == Max({j \in k .. SliceRandom - 1 : \A i \in k + 1 .. j : Size(b, i) < Size(b, k)})
FallsTo(b, k) == Min({j \in 0 .. k : \A i \in j .. k - 1 : Size(b, i) > Size(b, k)})

\* Mutant: the slice moves up by one place at most.
BugSinkUp(b, k) == Move(b, k, IF RisesTo(b, k) = k THEN k ELSE k + 1)

\* neb_random_bucket_put: a slice that got fuller moves up, within the first SliceRandom.
SinkUp(b, k) == Move(b, k, RisesTo(b, k))

\* neb_random_bucket_pick: one that got shorter moves down.
SinkDown(b, k) == Move(b, k, FallsTo(b, k))

\* The slices neb_random_bucket_put may choose from.
PutChoices(b) == IF Size(b, 0) < Count(b) \div 8 THEN {0} ELSE 0 .. SliceRandom - 1

\* TAILQ_INSERT_TAIL writes to the head of a list that is empty, TAILQ_REMOVE to that
\* of a list whose first node it is given.
LosesHead(b, i) == b[i].stale /\ b[i].list = <<>>
LosesFirst(b, i) == b[i].stale /\ b[i].list # <<>>

\* neb_random_bucket_put
BucketPut(b, n, rn) == SinkUp([b EXCEPT ![rn].list = Append(@, n)], rn)

\* The slices neb_random_bucket_pick may start from.
PickChoices(b) ==
  IF Size(b, SliceTotal - 1) > Count(b) \div 2 THEN {SliceTotal - 1}
  ELSE SliceTotal - SliceRandom .. SliceTotal - 1

\* Its loop: the first slice from rn on that is not empty; SliceTotal if there is none.
PickSlice(b, rn) == Min({i \in rn .. SliceTotal - 1 : b[i].list # <<>>} \cup {SliceTotal})

\* neb_random_bucket_pick, of the first node of slice i.
BucketPick(b, i) == SinkDown([b EXCEPT ![i].list = Tail(@)], i)

\* neb_random_bucket_confuse reverses half of the slices.  The last one it chooses has
\* not been among the first half.
Confusions == {S \in kSubset(SliceTotal \div 2, Slices) : \E i \in S : i >= SliceTotal \div 2}

\* neb_random_slice_reverse of those in S
BucketConfuse(b, S) ==
  [i \in Slices |-> IF i \in S THEN [list |-> Reverse(b[i].list), stale |-> TRUE] ELSE b[i]]

-----------------------------------------------------------------------------
\* neb_random_pool_create and neb_random_ring_create
RandomInit ==
  /\ ring \in BOOLEAN
  /\ pickBucket = BucketCreate /\ putBucket = BucketCreate /\ inUse = {}
  /\ wild = "no"
  /\ passed = [n \in Nodes |-> [m \in Nodes |-> 0]]

\* From here on anything may happen, and no more is said.
Strays(where) == wild' = where /\ UNCHANGED <<ring, pickBucket, putBucket, inUse, passed>>

\* Nodes that enter a bucket have been passed by nobody yet.
Enters(n) == passed' = [k \in Nodes |-> [passed[k] EXCEPT ![n] = 0]]

\* neb_random_pool_add and neb_random_ring_add; the add_range functions are a run of them.
RandomAdd(n, rn) ==
  /\ wild = "no" /\ n \notin Waiting \cup inUse
  /\ rn \in PutChoices(pickBucket)
  /\ IF LosesHead(pickBucket, rn) THEN Strays("head")
     ELSE /\ pickBucket' = BucketPut(pickBucket, n, rn)
          /\ Enters(n)
          /\ UNCHANGED <<ring, putBucket, inUse, wild>>

\* neb_random_pool_confuse and neb_random_ring_confuse
RandomConfuse(S, T) ==
  /\ wild = "no"
  /\ IF \/ \E i \in S : LosesFirst(pickBucket, i)
        \/ ring /\ \E i \in T : LosesFirst(putBucket, i)
       THEN Strays("head")
       ELSE /\ pickBucket' = BucketConfuse(pickBucket, S)
            /\ putBucket' = IF ring THEN BucketConfuse(putBucket, T) ELSE putBucket
            /\ UNCHANGED <<ring, inUse, wild, passed>>

\* Mutant: the ring starts over as soon as something has been put back.
BugTurns == ring /\ Count(putBucket) > 0

\* neb_random_ring_pick: the buckets change places when there is nothing left to pick.
Turns == ring /\ Count(pickBucket) = 0 /\ Count(putBucket) > 0

\* neb_random_pool_pick and neb_random_ring_pick.  Without a node the reordering reads
\* slices[SliceTotal]: the bucket's count, taken for a pointer.
RandomPick(rn) ==
  LET from == IF Turns THEN putBucket ELSE pickBucket
      i == PickSlice(from, rn)
      n == from[i].list[1]
  IN  /\ wild = "no" /\ Count(from) > 0 /\ rn \in PickChoices(from)
      /\ IF i = SliceTotal THEN Strays("slices")
         ELSE IF from[i].stale THEN Strays("head")
         ELSE /\ putBucket' = IF Turns THEN pickBucket ELSE putBucket
              /\ pickBucket' = BucketPick(from, i)
              /\ inUse' = inUse \cup {n}
              /\ passed' = [passed EXCEPT ![n] = [m \in Nodes |->
                              IF ring /\ m \in Waiting \ {n} THEN Min({@[m] + 1, 3}) ELSE @[m]]]
              /\ UNCHANGED <<ring, wild>>

\* neb_random_pool_put and neb_random_ring_put
RandomPut(n, rn) ==
  LET into == IF ring THEN putBucket ELSE pickBucket
  IN  /\ wild = "no" /\ n \in inUse /\ rn \in PutChoices(into)
      /\ IF LosesHead(into, rn) THEN Strays("head")
         ELSE /\ inUse' = inUse \ {n}
              /\ IF ring THEN putBucket' = BucketPut(into, n, rn) /\ UNCHANGED pickBucket
                         ELSE pickBucket' = BucketPut(into, n, rn) /\ UNCHANGED putBucket
              /\ Enters(n)
              /\ UNCHANGED <<ring, wild>>

RandomNext ==
  \/ \E n \in Nodes, rn \in Slices : RandomAdd(n, rn) \/ RandomPut(n, rn)
  \/ \E rn \in Slices : RandomPick(rn)
  \/ \E S, T \in Confusions : RandomConfuse(S, T)

RandomSpec == RandomInit /\ [][RandomNext]_randomVars

-----------------------------------------------------------------------------
(***************************************************************************)
(* "one node won't be selected again before all other nodes have been      *)
(* selected" (random.h): while a node waits in the ring, another one is    *)
(* picked at most twice, once in the round that is on and once in the      *)
(* next, whoever holds which nodes for how long.                           *)
(***************************************************************************)
RingFair == ring => \A n, m \in Nodes : passed[n][m] =< 2

(***************************************************************************)
(* The slices that put chooses from stay in the order of their counts,     *)
(* which is what both reorder loops rely on when they stop early, and the  *)
(* ones behind them get nothing.                                           *)
(***************************************************************************)
SlicesOrdered ==
  \A b \in {pickBucket, putBucket} :
    /\ \A i \in 1 .. SliceRandom - 1 : Size(b, i - 1) =< Size(b, i)
    /\ \A i \in SliceRandom .. SliceTotal - 1 : b[i].list = <<>>

(***************************************************************************)
(* A pick from a pool or ring that is not empty selects a node: the scan   *)
(* of the slices ends within slices[].                                     *)
(***************************************************************************)
PickInBounds == wild # "slices"

(***************************************************************************)
(* Lists that neb_random_bucket_confuse reversed can be used as before: no *)
(* operation writes to the list head that is gone.                         *)
(***************************************************************************)
HeadsValid == wild # "head"

(***************************************************************************)
(* Pool and ring keep their slices in order, and the ring is fair.         *)
(***************************************************************************)
RandomSound == RingFair /\ SlicesOrdered
=============================================================================
