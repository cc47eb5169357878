----------------------------- MODULE MCLibrary -----------------------------
(***************************************************************************)
(* The parts of the library that stand for themselves.  A behaviour is one *)
(* of a single unit; the others stay as they are.                          *)
(***************************************************************************)
EXTENDS RbTree, HashTable, RandomRing, SemSysv, StrBm, SockCsum, Daytime

VARIABLE unit

rbVars == <<tree, ret>>

(***************************************************************************)
(* Item 99 has the key of item 4.  With eight keys all operations come in  *)
(* any order.  Removal climbs from level to level only in larger trees:    *)
(* those grow in one direction, to sixteen items or to twenty-two, and     *)
(* then lose any of the nine items on the side they grew from.             *)
(***************************************************************************)
MCItems == 1 .. 23 \cup {99}
MCRbKey(i) == IF i = 99 THEN 4 ELSE i
FewItems == 1 .. 8 \cup {99}

RbFew == (\E i \in FewItems : RbChange(i)) \/ RbSearch(FewItems)

\* at[1], at[2] and so on come in, in this order, and then the first nine may go.
Grow(at) == \E k \in 1 .. 22 : InTree(tree) = {at[j] : j \in 1 .. k - 1} /\ RbInsert(at[k])
Thin(at, n) ==
  LET First9 == {at[j] : j \in 1 .. 9}
  IN  InTree(tree) \cup First9 = {at[j] : j \in 1 .. n} /\ \E i \in First9 : RbRemove(i)
RbDeep ==
  \E at \in {[j \in 1 .. 22 |-> j], [j \in 1 .. 22 |-> 24 - j]} : Grow(at) \/ \E n \in {16, 22} : Thin(at, n)

\* Of 11 buckets 11 and 22 share one, of 17 buckets 11 and 28; 111 is another datum
\* equal to 11.  Three of 11 buckets in use make the next insertion grow the table.
MCHtKey(e) == IF e = 111 THEN 11 ELSE e
MCTunings ==
  {[shrinkAt |-> 9, shrinkBy |-> 50, growAt |-> 20, growBy |-> 150, isBuckets |-> TRUE],
   [shrinkAt |-> 9, shrinkBy |-> 50, growAt |-> 5, growBy |-> 150, isBuckets |-> FALSE]}

\* All short messages, and three words, so that a carry goes into an addition, with a rest.
MCWords == {<<0, 0, 0, 0>>, <<3, 3, 3, 3>>, <<3, 0, 0, 0>>, <<0, 0, 0, 3>>}
MCMessages ==
  UNION {[1 .. n -> {0, 3}] : n \in 0 .. 6} \cup
  {u \o v \o w \o rest : u, v, w \in MCWords, rest \in {<<>>, <<3>>, <<3, 3>>, <<0, 3, 3>>}}

MCAddresses == {<<0, 3, 1, 2>>, <<3, 3, 3, 3>>}
MCAddresses6 == {<<0, 3, 1, 2, 3, 3, 3, 3, 0, 0, 0, 0, 2, 1, 0, 3>>, [i \in 1 .. 16 |-> 3]}

\* A unit that is not looked at starts in one state.
Idle(u, first) == unit = u \/ first

Init ==
  /\ unit \in {"rbtree", "rbdeep", "hash", "random", "sem", "bm", "csum", "daytime"}
  /\ RbInit
  /\ HashInit /\ Idle("hash", user = CHOOSE t \in Tunings : TRUE)
  /\ RandomInit /\ Idle("random", ~ring)
  /\ SemInit /\ Idle("sem", ~bsd)
  /\ IF unit = "bm" THEN BmInit ELSE pattern = <<>> /\ text = <<>> /\ shift = 0 /\ found = -2
  /\ IF unit = "csum" THEN CsumInit ELSE packet = [kind |-> "icmp4", big |-> FALSE, addr |-> 0, data |-> <<>>]
  /\ IF unit = "daytime" THEN DayInit ELSE now = 0 /\ secOfDay = 0 /\ alarm = -1

Next ==
  \/ unit = "rbtree" /\ RbFew /\ UNCHANGED <<unit, hashVars, randomVars, semVars, bmVars, packet, dayVars>>
  \/ unit = "rbdeep" /\ RbDeep /\ UNCHANGED <<unit, hashVars, randomVars, semVars, bmVars, packet, dayVars>>
  \/ unit = "hash" /\ HashNext /\ UNCHANGED <<unit, rbVars, randomVars, semVars, bmVars, packet, dayVars>>
  \/ unit = "random" /\ RandomNext /\ UNCHANGED <<unit, rbVars, hashVars, semVars, bmVars, packet, dayVars>>
  \/ unit = "sem" /\ SemNext /\ UNCHANGED <<unit, rbVars, hashVars, randomVars, bmVars, packet, dayVars>>
  \/ unit = "bm" /\ BmStep /\ UNCHANGED <<unit, rbVars, hashVars, randomVars, semVars, packet, dayVars>>
  \/ unit = "daytime" /\ DayStep /\ UNCHANGED <<unit, rbVars, hashVars, randomVars, semVars, bmVars, packet>>

vars == <<unit, rbVars, hashVars, randomVars, semVars, bmVars, packet, dayVars>>

Spec == Init /\ [][Next]_vars /\ \A p \in Procs : WF_vars(unit = "sem" /\ SemReturns(p) /\ UNCHANGED <<unit, rbVars, hashVars, randomVars, bmVars, packet, dayVars>>)
=============================================================================
