----------------------------- MODULE HashTable -----------------------------
(***************************************************************************)
(* The hash table of compat/hashtable/hash.c (without obstacks), with      *)
(* memory that runs out at any allocation.                                 *)
(*                                                                         *)
(* A bucket in use is the sequence of its data: the first stands in the    *)
(* bucket head, the others in overflow entries; t.bucket has no other      *)
(* buckets.  The free_entry_list is a number.                              *)
(* Thresholds and factors are in percent; size computations are exact and  *)
(* cut off, where the code rounds to float first.                          *)
(***************************************************************************)
EXTENDS Integers, FiniteSets, SequencesExt

CONSTANTS
  Entries,      \* the data a client may insert
  HtKey(_),     \* what the client's hasher and comparator look at
  Tunings,      \* what the client may write into its Hash_tuning
  Candidates,   \* what it may ask for in hash_initialize and hash_rehash
  MaxMallocs,   \* bound: overflow entries one call can allocate
  Gone          \* NULL

ASSUME HashConstants ==
  /\ Gone \notin Entries /\ \A e \in Entries : HtKey(e) \in Nat
  /\ Candidates \subseteq Nat /\ MaxMallocs \in Nat
  /\ \A t \in Tunings : t.shrinkAt \in Nat /\ t.shrinkBy \in Nat /\ t.growAt \in Nat
                        /\ t.growBy \in Nat /\ t.isBuckets \in BOOLEAN

VARIABLES
  ht,           \* the table, Gone when there is none
  user,         \* the client's Hash_tuning, which the table refers to
  hret,         \* what the last operation returned
  aborted,      \* abort() was called
  mallocs       \* history: overflow entries allocated and not freed

hashVars == <<ht, user, hret, aborted, mallocs>>

\* default_tuning
DefaultTuning == [shrinkAt |-> 0, shrinkBy |-> 100, growAt |-> 80, growBy |-> 141, isBuckets |-> FALSE]

\* check_tuning, with an epsilon of 10 percent.
TuningValid(t) ==
  /\ 10 < t.growAt /\ t.growAt < 90 /\ 110 < t.growBy
  /\ t.shrinkAt + 10 < t.shrinkBy /\ t.shrinkBy =< 100 /\ t.shrinkAt + 10 < t.growAt

\* is_prime, for odd candidates
RECURSIVE NoDivisorFrom(_, _)
NoDivisorFrom(n, divisor) ==
  IF divisor * divisor < n /\ n % divisor # 0 THEN NoDivisorFrom(n, divisor + 2) ELSE n % divisor # 0

RECURSIVE OddPrimeFrom(_)
OddPrimeFrom(n) == IF NoDivisorFrom(n, 3) THEN n ELSE OddPrimeFrom(n + 2)

\* next_prime
NextPrime(candidate) ==
  LET least == IF candidate < 10 THEN 10 ELSE candidate
  IN  OddPrimeFrom(least + 1 - (least % 2))

\* compute_bucket_size, of a size that can be allocated.
BucketSize(candidate, tuning) ==
  NextPrime(IF tuning.isBuckets THEN candidate ELSE (candidate * 100) \div tuning.growAt)

-----------------------------------------------------------------------------
(***************************************************************************)
(* Lookup and walking.                                                     *)
(***************************************************************************)
\* safe_hasher with a hasher that takes the key modulo the size, as raw_hasher does.
HashOf(t, e) == HtKey(e) % t.n

UsedBuckets(t) == DOMAIN t.bucket
Contents(t) == UNION {ToSet(t.bucket[i]) : i \in UsedBuckets(t)}
Used(t, e) == HashOf(t, e) \in UsedBuckets(t)

\* hash_lookup: the place in the bucket of the first that matches, or 0.
Match(t, e) ==
  LET b == t.bucket[HashOf(t, e)]
  IN  IF ~Used(t, e) THEN 0 ELSE SelectInSeq(b, LAMBDA d : HtKey(d) = HtKey(e))

Lookup(t, e) == IF Match(t, e) = 0 THEN Gone ELSE t.bucket[HashOf(t, e)][Match(t, e)]

\* The head of the first bucket from i on that is used.
FirstFrom(t, i) ==
  LET usedFrom == {k \in UsedBuckets(t) : k >= i}
  IN  IF usedFrom = {} THEN Gone ELSE t.bucket[Min(usedFrom)][1]

\* hash_get_first
GetFirst(t) == IF t.entries = 0 THEN Gone ELSE FirstFrom(t, 0)

\* Mutant: the walk goes on with the next bucket.
BugSkipsOverflow(t, e) == FirstFrom(t, HashOf(t, e) + 1)

\* hash_get_next, of an entry that is in the table.
GetNext(t, e) ==
  LET i == HashOf(t, e)
      b == t.bucket[i]
      at == CHOOSE j \in DOMAIN b : b[j] = e
  IN  IF at < Len(b) THEN b[at + 1] ELSE FirstFrom(t, i + 1)

-----------------------------------------------------------------------------
(***************************************************************************)
(* Moving entries.  A move is a record of the two tables and the number of *)
(* allocations that will still succeed.                                    *)
(***************************************************************************)
\* Behind the head of a bucket that is used.
PushOverflow(t, e) == [t EXCEPT !.bucket[HashOf(t, e)] = InsertAt(@, 2, e)]

Without(bucket, i) == Restrict(bucket, DOMAIN bucket \ {i})

\* As the head of one that is not.
SetHead(t, e) == [t EXCEPT !.bucket = (HashOf(t, e) :> <<e>>) @@ @, !.used = @ + 1]

\* Mutant: an entry whose data became the head of a bucket is lost.
BugMoveOverflow(t, e) == IF Used(t, e) THEN PushOverflow(t, e) ELSE SetHead(t, e)

\* transfer_entries: an overflow entry is linked again or becomes free.
MoveOverflow(t, e) ==
  IF Used(t, e) THEN PushOverflow(t, e) ELSE [SetHead(t, e) EXCEPT !.free = @ + 1]

\* allocate_entry: from the free list, or allocated.
Allocate(m) == IF m.dst.free > 0 THEN [m EXCEPT !.dst.free = @ - 1] ELSE [m EXCEPT !.mem = @ - 1]
CanAllocate(m) == m.dst.free > 0 \/ m.mem > 0

\* Mutant: the head is moved although there is no entry for it.
BugMoveHead(m, i) ==
  LET e == m.src.bucket[i][1]
  IN  IF Used(m.dst, e) /\ ~CanAllocate(m)
        THEN [m EXCEPT !.ok = FALSE, !.src.bucket = Without(@, i), !.src.used = @ - 1]
      ELSE [(IF Used(m.dst, e) THEN [Allocate(m) EXCEPT !.dst = PushOverflow(@, e)]
                               ELSE [m EXCEPT !.dst = SetHead(@, e)])
              EXCEPT !.src.bucket = Without(@, i), !.src.used = @ - 1]

\* transfer_entries: the head of bucket i moves, unless an allocation fails.
MoveHead(m, i) ==
  LET e == m.src.bucket[i][1]
  IN  IF Used(m.dst, e) /\ ~CanAllocate(m) THEN [m EXCEPT !.ok = FALSE]
      ELSE [(IF Used(m.dst, e) THEN [Allocate(m) EXCEPT !.dst = PushOverflow(@, e)]
                               ELSE [m EXCEPT !.dst = SetHead(@, e)])
              EXCEPT !.src.bucket = Without(@, i), !.src.used = @ - 1]

\* transfer_entries: one bucket, overflow entries first.
TransferBucket(m, i, safe) ==
  IF ~m.ok THEN m
  ELSE LET kept == [m EXCEPT !.dst = FoldLeft(MoveOverflow, @, Tail(m.src.bucket[i])),
                             !.src.bucket[i] = <<m.src.bucket[i][1]>>]
       IN  IF safe THEN kept ELSE MoveHead(kept, i)

\* transfer_entries, from the first bucket in use to the last.
Transfer(m, safe) ==
  FoldLeft(LAMBDA x, i : TransferBucket(x, i, safe), m, SetToSortSeq(UsedBuckets(m.src), <))

\* hash_rehash: what was moved goes back, overflow entries first.
Undo(m) ==
  LET back == [m EXCEPT !.dst = [m.src EXCEPT !.free = m.dst.free], !.src = m.dst, !.ok = TRUE]
  IN  Transfer(Transfer(back, TRUE), FALSE)

AsItIs(t, mem, ok) == [t |-> t, mem |-> mem, ok |-> ok, abort |-> FALSE]

\* hash_rehash, when transfer_entries is through, and when it had to be undone.
Undone(m) == [t |-> m.dst, mem |-> m.mem, ok |-> FALSE, abort |-> ~m.ok]
Moved(m) == IF m.ok THEN AsItIs(m.dst, m.mem, TRUE) ELSE Undone(Undo(m))

\* hash_rehash of t; room says whether the new array can be allocated.
Rehash(t, candidate, tuning, room, mem) ==
  LET size == BucketSize(candidate, tuning)
      empty == [t EXCEPT !.n = size, !.bucket = <<>>, !.used = 0]
  IN  IF size = t.n \/ ~room THEN AsItIs(t, mem, size = t.n)
      ELSE Moved(Transfer([dst |-> empty, src |-> t, mem |-> mem, ok |-> TRUE], FALSE))

-----------------------------------------------------------------------------
(***************************************************************************)
(* The operations.  In each of them mem overflow entries can be allocated, *)
(* and then no more.                                                       *)
(***************************************************************************)
HashInit ==
  /\ ht = Gone /\ user \in Tunings /\ hret = Gone /\ aborted = FALSE /\ mallocs = 0

\* hash_initialize
HashInitialize(candidate, room) ==
  /\ ht = Gone
  /\ LET n == BucketSize(candidate, user)
     IN  ht' = IF ~room \/ ~TuningValid(user) THEN Gone
               ELSE [n |-> n, bucket |-> <<>>, used |-> 0, entries |-> 0,
                     free |-> 0, default |-> FALSE]
  /\ UNCHANGED <<user, hret, aborted, mallocs>>

\* The client writes into its tuning structure.
Retune(t) == ht # Gone /\ user' = t /\ UNCHANGED <<ht, hret, aborted, mallocs>>

\* check_tuning, when a threshold is reached: from then on the default may be used.
TuningOf(t) == IF t.default THEN DefaultTuning ELSE user
Checked(t) == [t EXCEPT !.default = @ \/ ~TuningValid(user)]

Grows(t) == t.used * 100 > TuningOf(t).growAt * t.n
Shrinks(t) == t.used * 100 < TuningOf(t).shrinkAt * t.n

\* The candidate size of a table that grows or shrinks by so many percent.
Resized(t, percent) ==
  IF TuningOf(t).isBuckets THEN (t.n * percent) \div 100
  ELSE (t.n * percent * TuningOf(t).growAt) \div 10000

\* hash_insert_if_absent: the table grown if it has to.
Grown(t, room, mem) ==
  LET checked == IF Grows(t) THEN Checked(t) ELSE t
  IN  IF Grows(t) /\ Grows(checked)
        THEN Rehash(checked, Resized(checked, TuningOf(checked).growBy), TuningOf(checked), room, mem)
        ELSE AsItIs(checked, mem, TRUE)

\* ... and the entry added to it.
Add(m, e) ==
  [(IF Used(m.dst, e) THEN [Allocate(m) EXCEPT !.dst = PushOverflow(@, e)]
                      ELSE [m EXCEPT !.dst = SetHead(@, e)]) EXCEPT !.dst.entries = @ + 1]

\* hash_insert_if_absent and hash_insert; the result is the entry in the table.
InsertInto(grown, e, mem) ==
  LET m == [dst |-> grown.t, mem |-> grown.mem]
      fails == ~grown.ok \/ (Used(grown.t, e) /\ ~CanAllocate(m))
      last == IF fails THEN m ELSE Add(m, e)
  IN  /\ ht' = last.dst
      /\ hret' = IF fails THEN Gone ELSE e
      /\ aborted' = (grown.abort \/ (grown.ok /\ Lookup(grown.t, e) # Gone))
      /\ mallocs' = mallocs + mem - last.mem

HashInsert(e, room, mem) ==
  /\ ht # Gone
  /\ IF Lookup(ht, e) # Gone
       THEN hret' = Lookup(ht, e) /\ UNCHANGED <<ht, aborted, mallocs>>
       ELSE InsertInto(Grown(ht, room, mem), e, mem)
  /\ UNCHANGED user

\* Mutant: an overflow entry that became the head is not put on the free list.
BugUnlink(t, e) ==
  LET i == HashOf(t, e)
      b == RemoveAt(t.bucket[i], Match(t, e))
  IN  IF b = <<>> THEN [t EXCEPT !.bucket = Without(@, i), !.entries = @ - 1, !.used = @ - 1]
      ELSE [t EXCEPT !.bucket[i] = b, !.entries = @ - 1,
                     !.free = IF Match(t, e) > 1 THEN @ + 1 ELSE @]

\* hash_find_entry with delete, and the counts of hash_remove.
Unlink(t, e) ==
  LET i == HashOf(t, e)
      b == RemoveAt(t.bucket[i], Match(t, e))
  IN  IF b = <<>> THEN [t EXCEPT !.bucket = Without(@, i), !.entries = @ - 1, !.used = @ - 1]
      ELSE [t EXCEPT !.bucket[i] = b, !.entries = @ - 1, !.free = @ + 1]

\* hash_remove: the table shrunk when the bucket became empty; if that fails, the
\* free entries are given back.
Shrunk(t, emptied, room, mem) ==
  LET low == emptied /\ Shrinks(t)
      checked == IF low THEN Checked(t) ELSE t
  IN  IF low /\ Shrinks(checked)
        THEN Rehash(checked, Resized(checked, TuningOf(checked).shrinkBy), TuningOf(checked), room, mem)
        ELSE AsItIs(checked, mem, TRUE)

\* hash_remove and hash_delete
HashRemove(e, room, mem) ==
  /\ ht # Gone
  /\ hret' = Lookup(ht, e)
  /\ IF Match(ht, e) = 0 THEN UNCHANGED <<ht, aborted, mallocs>>
     ELSE LET unlinked == Unlink(ht, e)
              shrunk == Shrunk(unlinked, unlinked.used # ht.used, room, mem)
              given == IF shrunk.ok THEN 0 ELSE shrunk.t.free
          IN  /\ ht' = [shrunk.t EXCEPT !.free = @ - given]
              /\ aborted' = shrunk.abort
              /\ mallocs' = mallocs + (mem - shrunk.mem) - given
  /\ UNCHANGED user

\* hash_rehash, called by the client.
HashRehash(candidate, room, mem) ==
  /\ ht # Gone
  /\ LET done == Rehash(ht, candidate, TuningOf(ht), room, mem)
     IN  ht' = done.t /\ aborted' = done.abort /\ mallocs' = mallocs + mem - done.mem
  /\ UNCHANGED <<user, hret>>

\* hash_clear
HashClear ==
  /\ ht # Gone
  /\ ht' = [ht EXCEPT !.bucket = <<>>, !.used = 0, !.entries = 0,
                      !.free = @ + Cardinality(Contents(ht)) - Cardinality(UsedBuckets(ht))]
  /\ UNCHANGED <<user, hret, aborted, mallocs>>

\* hash_free: overflow entries, those on the free list and the table.
HashFree ==
  /\ ht # Gone
  /\ mallocs' = mallocs - ht.free - (Cardinality(Contents(ht)) - Cardinality(UsedBuckets(ht)))
  /\ ht' = Gone
  /\ UNCHANGED <<user, hret, aborted>>

HashNext ==
  \/ \E c \in Candidates, room \in BOOLEAN : HashInitialize(c, room)
  \/ \E t \in Tunings : Retune(t)
  \/ \E e \in Entries, room \in BOOLEAN, mem \in 0 .. MaxMallocs :
       HashInsert(e, room, mem) \/ HashRemove(e, room, mem)
  \/ \E c \in Candidates, room \in BOOLEAN, mem \in 0 .. MaxMallocs : HashRehash(c, room, mem)
  \/ HashClear \/ HashFree

HashSpec == HashInit /\ [][HashNext]_hashVars

-----------------------------------------------------------------------------
\* hash_table_ok
TableOK(t) == Cardinality(UsedBuckets(t)) = t.used /\ Cardinality(Contents(t)) = t.entries

(***************************************************************************)
(* Whatever allocation failed, in the middle of a rehash too, the counts   *)
(* are those hash_table_ok recomputes, every entry is in the bucket its    *)
(* hash selects, once, and the overflow entries in use and on the free     *)
(* list are those allocated.                                               *)
(***************************************************************************)
HashSound ==
  IF ht = Gone THEN mallocs = 0
  ELSE /\ TableOK(ht)
       /\ \A i \in UsedBuckets(ht) : /\ IsInjective(ht.bucket[i])
                                      /\ \A e \in ToSet(ht.bucket[i]) : HashOf(ht, e) = i
       /\ mallocs = ht.free + ht.entries - ht.used

\* "We must undo the partial move before returning failure": hash_rehash has always
\* free entries enough to take back what it moved, and never aborts.
RehashUndoes == ~aborted

RECURSIVE WalkFrom(_, _, _)
WalkFrom(t, e, limit) == IF e = Gone \/ limit = 0 THEN <<>> ELSE <<e>> \o WalkFrom(t, GetNext(t, e), limit - 1)

\* hash_get_first and hash_get_next visit every entry of the table once.
WalkComplete ==
  ht # Gone => LET walk == WalkFrom(ht, GetFirst(ht), ht.entries + 1)
               IN  IsInjective(walk) /\ ToSet(walk) = Contents(ht)

(***************************************************************************)
(* hash.h: an insertion that fails for want of memory changes nothing, one *)
(* that finds an equal entry returns it and changes nothing, and no        *)
(* operation adds or drops an entry but the one it was called for.         *)
(***************************************************************************)
Held == IF ht = Gone THEN {} ELSE Contents(ht)
Keyed == INSTANCE KeyedSet WITH items <- Held, Key <- HtKey, Items <- Entries, NoItem <- Gone, result <- hret
ImplementsKeyedSet == Keyed!Spec

(***************************************************************************)
(* The table after any sequence of calls with failing allocations: its     *)
(* books are right, a failed rehash takes everything back, and a walk      *)
(* visits each entry once.                                                 *)
(***************************************************************************)
TableSound == HashSound /\ RehashUndoes /\ WalkComplete
=============================================================================
