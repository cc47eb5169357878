-------------------------- MODULE EvdpTimerProofs --------------------------
(***************************************************************************)
(* Proofs about the user timer, for any number of points, nodes and        *)
(* timestamps and any cache sizes.                                         *)
(*                                                                         *)
(* NoDanglingNode is not inductive: that the node a callback left its      *)
(* point on survives depends on what the lists, the references and the     *)
(* control state say of each other.  ListInv states that, IInv collects    *)
(* it.                                                                     *)
(***************************************************************************)
EXTENDS EvdpTimer, TLAPS, FiniteSetTheorems

\* Callbacks that reset their own point leave other points alone afterwards.
Disciplined == "cross" \notin Liberties

NStates == {"tree", "cache", "free"}

UniqueTs == \A m, n \in Nodes :
  nst[m] = "tree" /\ nst[n] = "tree" /\ nts[m] = nts[n] => m = n

ControlInv ==
  /\ (pc \in {"run", "cb"}) <=> (cursor # NoNode)
  /\ (pc = "cb") <=> (running # NoPoint)
  /\ curTs <= now
  /\ cursor # NoNode => nts[cursor] <= curTs

ListInv ==
  /\ \A p \in Points : inl[p] \in Nodes => ref[p] = inl[p]
  /\ \A p \in Points : inl[p] \notin Nodes /\ p # running => ref[p] = NoNode
  /\ running # NoPoint => inl[running] = NoList
  /\ \A p \in Points : pst[p] = "live" <=> (inl[p] # NoList \/ p = running)

IInv == TypeOK /\ UniqueTs /\ ControlInv /\ ListInv /\ NoDanglingNode

-----------------------------------------------------------------------------
(***************************************************************************)
(* The helpers.                                                            *)
(***************************************************************************)

\* rbtree_node_del takes exactly that node out of the tree.
LEMMA NodeDel ==
  ASSUME NEW st \in [Nodes -> NStates], NEW n \in Nodes
  PROVE  /\ RbtreeNodeDel(st, n) \in [Nodes -> NStates]
         /\ RbtreeNodeDel(st, n)[n] # "tree"
         /\ \A m \in Nodes : m # n => RbtreeNodeDel(st, n)[m] = st[m]
  BY DEF RbtreeNodeDel, NStates

\* node_new and insert_node leave the tree with one node for the timestamp and
\* every other node as it was.
LEMMA InsertNode ==
  ASSUME TypeOK, UniqueTs,
         NEW t \in Time, NEW fresh \in Nodes, NEW tn \in Nodes,
         fresh \in RbtreeNodeNew(nst), InsertsAs(fresh, t, tn)
  PROVE  /\ TreeWith(fresh, tn) \in [Nodes -> NStates]
         /\ StampWith(fresh, t, tn) \in [Nodes -> Time]
         /\ TreeWith(fresh, tn)[tn] = "tree"
         /\ StampWith(fresh, t, tn)[tn] = t
         /\ nst[tn] = "tree" => nts[tn] = t
         /\ \A m \in Nodes : nst[m] = "tree" => TreeWith(fresh, tn)[m] = "tree"
         /\ \A m \in Nodes : nst[m] = "tree" => StampWith(fresh, t, tn)[m] = nts[m]
         /\ \A m \in Nodes : TreeWith(fresh, tn)[m] = "tree" =>
                               m = tn \/ nst[m] = "tree"
         /\ \A m \in Nodes : nst[m] = "tree" /\ nts[m] = t => m = tn
  <1>1. nst[fresh] # "tree"
    BY DEF RbtreeNodeNew
  <1>2. CASE tn = fresh
    BY <1>1, <1>2 DEF InsertsAs, TreeWith, StampWith, TypeOK, NStates, Tree
  <1>3. CASE tn # fresh
    <2>1. nst[tn] = "tree" /\ nts[tn] = t
      BY <1>3 DEF InsertsAs, Tree
    <2> DEFINE st == [nst EXCEPT ![fresh] = "free"]
    <2>2. st \in [Nodes -> NStates] /\ \A m \in Nodes : m # fresh => st[m] = nst[m]
      BY DEF TypeOK, NStates
    <2>3. TreeWith(fresh, tn) = RbtreeNodeDel(st, fresh) /\ StampWith(fresh, t, tn) = nts
      BY <1>3 DEF TreeWith, StampWith
    <2>4. /\ RbtreeNodeDel(st, fresh) \in [Nodes -> NStates]
          /\ RbtreeNodeDel(st, fresh)[fresh] # "tree"
          /\ \A m \in Nodes : m # fresh => RbtreeNodeDel(st, fresh)[m] = st[m]
      BY <2>2, NodeDel
    <2> HIDE DEF st
    <2>5. QED
      BY <1>1, <1>3, <2>1, <2>2, <2>3, <2>4 DEF TypeOK, UniqueTs, NStates
  <1>4. QED BY <1>2, <1>3

\* check_del removes a node only when it is nobody's and not the one being run.
LEMMA CheckDel ==
  ASSUME NEW st \in [Nodes -> NStates], NEW ts \in [Nodes -> Time],
         NEW list, NEW n \in Nodes \cup {NoNode}
  PROVE  /\ CheckDelSt(st, n, list) \in [Nodes -> NStates]
         /\ CheckDelTs(ts, n, list) \in [Nodes -> Time]
         /\ \A m \in Nodes : m # n =>
              /\ CheckDelSt(st, n, list)[m] = st[m]
              /\ CheckDelTs(ts, n, list)[m] = ts[m]
         /\ n \in Nodes /\ (n = cursor \/ \E p \in Points : list[p] = n) =>
              /\ CheckDelSt(st, n, list)[n] = st[n]
              /\ CheckDelTs(ts, n, list)[n] = ts[n]
         /\ \A m \in Nodes : CheckDelSt(st, n, list)[m] = "tree" =>
              st[m] = "tree" /\ CheckDelTs(ts, n, list)[m] = ts[m]
  <1>1. CASE CheckDels(n, list)
    <2>1. n \in Nodes /\ n # cursor /\ \A p \in Points : list[p] # n
      BY <1>1 DEF CheckDels
    <2>2. /\ CheckDelSt(st, n, list) = RbtreeNodeDel(st, n)
          /\ CheckDelTs(ts, n, list) = [ts EXCEPT ![n] = 0]
      BY <1>1 DEF CheckDelSt, CheckDelTs
    <2>3. 0 \in Time
      BY TimerConstants DEF Time
    <2>4. QED BY <2>1, <2>2, <2>3, NodeDel
  <1>2. CASE ~CheckDels(n, list)
    BY <1>2 DEF CheckDelSt, CheckDelTs
  <1>3. QED BY <1>1, <1>2

\* A free point is neither running nor on any list.
LEMMA PointFree ==
  ASSUME TypeOK, NEW p \in Points
  PROVE  /\ CblistNodeFree(p) \in [Points -> {"live", "cache", "free"}]
         /\ CblistNodeFree(p)[p] # "live"
         /\ \A q \in Points : q # p => CblistNodeFree(p)[q] = pst[q]
  BY DEF CblistNodeFree, TypeOK

-----------------------------------------------------------------------------
\* neb_evdp_timer_create establishes the inductive invariant.
LEMMA InitIInv == Init => IInv
  BY TimerConstants DEF Init, IInv, TypeOK, UniqueTs, ControlInv, ListInv,
     NoDanglingNode, Time, Off, Forever

(***************************************************************************)
(* One lemma for each action of the client.                                *)
(***************************************************************************)

\* neb_evdp_timer_new_point preserves it.
LEMMA NewPointIInv ==
  ASSUME IInv, NEW t \in Time, NEW fresh \in Nodes, NEW tn \in Nodes,
         NEW p \in Points, NewPoint(t, fresh, tn, p)
  PROVE  IInv'
  <1>1. fresh \in RbtreeNodeNew(nst) /\ InsertsAs(fresh, t, tn)
    BY DEF NewPoint
  <1>2. nst' = TreeWith(fresh, tn) /\ nts' = StampWith(fresh, t, tn)
    BY DEF NewPoint
  <1>3. /\ nst' \in [Nodes -> NStates] /\ nts' \in [Nodes -> Time]
        /\ nst'[tn] = "tree" /\ nts'[tn] = t
        /\ \A m \in Nodes : nst[m] = "tree" => nst'[m] = "tree" /\ nts'[m] = nts[m]
        /\ \A m \in Nodes : nst'[m] = "tree" => m = tn \/ nst[m] = "tree"
        /\ \A m \in Nodes : nst[m] = "tree" /\ nts[m] = t => m = tn
    BY <1>1, <1>2, InsertNode DEF IInv
  <1>4. pst[p] # "live"
    BY DEF NewPoint, CblistNodeNew
  <1>5. /\ pst' = [pst EXCEPT ![p] = "live"]
        /\ ref' = [ref EXCEPT ![p] = tn] /\ inl' = [inl EXCEPT ![p] = tn]
        /\ due' = [due EXCEPT ![p] = t]
        /\ UNCHANGED <<now, loopVars>>
    BY DEF NewPoint
  <1>6. TypeOK'
    BY <1>3, <1>5 DEF IInv, TypeOK, loopVars, NStates
  <1>7. UniqueTs'
    BY <1>3 DEF IInv, UniqueTs
  <1>8. ControlInv'
    BY <1>3, <1>5 DEF IInv, ControlInv, NoDanglingNode, loopVars, TypeOK
  <1>9. ListInv'
    BY <1>3, <1>4, <1>5, TimerConstants DEF IInv, ListInv, TypeOK, loopVars
  <1>10. NoDanglingNode'
    BY <1>3, <1>5 DEF IInv, NoDanglingNode, TypeOK, loopVars
  <1>11. QED BY <1>6, <1>7, <1>8, <1>9, <1>10 DEF IInv

\* ... also when the list node cannot be allocated and the tree node stays.
LEMMA NewPointNoMemIInv ==
  ASSUME IInv, NEW t \in Time, NEW fresh \in Nodes, NEW tn \in Nodes,
         NewPointNoMem(t, fresh, tn)
  PROVE  IInv'
  <1>1. fresh \in RbtreeNodeNew(nst) /\ InsertsAs(fresh, t, tn)
    BY DEF NewPointNoMem
  <1>2. /\ nst' = TreeWith(fresh, tn) /\ nts' = StampWith(fresh, t, tn)
        /\ UNCHANGED <<now, loopVars, pointVars>>
    BY DEF NewPointNoMem
  <1>3. /\ nst' \in [Nodes -> NStates] /\ nts' \in [Nodes -> Time]
        /\ nst'[tn] = "tree" /\ nts'[tn] = t
        /\ \A m \in Nodes : nst[m] = "tree" => nst'[m] = "tree" /\ nts'[m] = nts[m]
        /\ \A m \in Nodes : nst'[m] = "tree" => m = tn \/ nst[m] = "tree"
        /\ \A m \in Nodes : nst[m] = "tree" /\ nts[m] = t => m = tn
    BY <1>1, <1>2, InsertNode DEF IInv
  <1>6. TypeOK'
    BY <1>3, <1>2 DEF IInv, TypeOK, loopVars, pointVars, NStates
  <1>7. UniqueTs'
    BY <1>3 DEF IInv, UniqueTs
  <1>8. ControlInv'
    BY <1>3, <1>2 DEF IInv, ControlInv, NoDanglingNode, loopVars, TypeOK
  <1>9. ListInv'
    BY <1>2 DEF IInv, ListInv, loopVars, pointVars
  <1>10. NoDanglingNode'
    BY <1>3, <1>2 DEF IInv, NoDanglingNode, TypeOK, loopVars, pointVars
  <1>11. QED BY <1>6, <1>7, <1>8, <1>9, <1>10 DEF IInv

\* Deleting another point removes its node only when no point in use needs it:
\* this is where the discipline enters, through the running point.
LEMMA DelPointIInv ==
  ASSUME IInv, Disciplined, NEW p \in Points, DelPoint(p)
  PROVE  IInv'
  <1>1. CASE p = running
    BY <1>1, TimerConstants DEF DelPoint, IInv, TypeOK, UniqueTs, ControlInv, ListInv,
       NoDanglingNode, nodeVars, loopVars, Off
  <1>2. CASE p # running
    <2> DEFINE list == [inl EXCEPT ![p] = NoList]
    <2>1. /\ inl' = list /\ pst' = CblistNodeFree(p)
          /\ ref' = [ref EXCEPT ![p] = NoNode]
          /\ due' = [due EXCEPT ![p] = Off]
          /\ nst' = CheckDelSt(nst, ref[p], list) /\ nts' = CheckDelTs(nts, ref[p], list)
          /\ UNCHANGED <<now, loopVars>>
          /\ pst[p] = "live"
      BY <1>2 DEF DelPoint, Owned
    <2>2. ref[p] \in Nodes \cup {NoNode} /\ nst \in [Nodes -> NStates] /\ nts \in [Nodes -> Time]
      BY DEF IInv, TypeOK, NStates
    <2>3. /\ nst' \in [Nodes -> NStates] /\ nts' \in [Nodes -> Time]
          /\ \A m \in Nodes : m # ref[p] => nst'[m] = nst[m] /\ nts'[m] = nts[m]
          /\ ref[p] \in Nodes /\ (ref[p] = cursor \/ \E q \in Points : list[q] = ref[p]) =>
               nst'[ref[p]] = nst[ref[p]] /\ nts'[ref[p]] = nts[ref[p]]
          /\ \A m \in Nodes : nst'[m] = "tree" => nst[m] = "tree" /\ nts'[m] = nts[m]
      <3> HIDE DEF list
      <3>1. QED BY <2>1, <2>2, CheckDel
    <2>4. /\ pst' \in [Points -> {"live", "cache", "free"}] /\ pst'[p] # "live"
          /\ \A q \in Points : q # p => pst'[q] = pst[q]
      BY <2>1, PointFree DEF IInv
    <2>5. \A q \in Points : q # p => list[q] = inl[q]
      BY DEF IInv, TypeOK
    <2>6. list[p] = NoList
      BY DEF IInv, TypeOK
    <2>7. \* whoever else holds the node keeps it in the tree
          ASSUME NEW q \in Points, q # p, ref[q] = ref[p], ref[p] # NoNode
          PROVE  ref[p] = cursor \/ \E r \in Points : list[r] = ref[p]
      <3>1. CASE q = running
        <4>1. ~Detached
          BY <1>2 DEF DelPoint, MayTouch, Disciplined
        <4>2. pc = "cb"
          BY <3>1, TimerConstants DEF IInv, ControlInv
        <4>3. QED BY <2>7, <3>1, <4>1, <4>2 DEF Detached
      <3>2. CASE q # running
        BY <2>5, <2>7, <3>2 DEF IInv, ListInv, TypeOK
      <3>3. QED BY <3>1, <3>2
    <2> HIDE DEF list
    <2>8. TypeOK'
      BY <2>1, <2>3, <2>4, <2>5, <2>6, TimerConstants DEF IInv, TypeOK, loopVars, NStates, Off, list
    <2>9. UniqueTs'
      BY <2>3 DEF IInv, UniqueTs
    <2>10. ControlInv'
      BY <2>1, <2>2, <2>3 DEF IInv, ControlInv, loopVars, TypeOK
    <2>11. ListInv'
      BY <1>2, <2>1, <2>4, <2>5, <2>6, TimerConstants DEF IInv, ListInv, TypeOK, loopVars
    <2>12. NoDanglingNode'
      <3>1. ASSUME NEW q \in Points, ref'[q] # NoNode
            PROVE  nst'[ref'[q]] = "tree"
        <4>1. q # p /\ ref'[q] = ref[q]
          BY <2>1, <3>1 DEF IInv, TypeOK
        <4>2. ref[q] \in Nodes /\ nst[ref[q]] = "tree"
          BY <3>1, <4>1 DEF IInv, TypeOK, NoDanglingNode
        <4>3. QED BY <2>2, <2>3, <2>7, <3>1, <4>1, <4>2
      <3>2. cursor' # NoNode => nst'[cursor'] = "tree"
        BY <2>1, <2>2, <2>3 DEF IInv, TypeOK, NoDanglingNode, loopVars
      <3>3. QED BY <3>1, <3>2 DEF NoDanglingNode
    <2>13. QED BY <2>8, <2>9, <2>10, <2>11, <2>12 DEF IInv
  <1>3. QED BY <1>1, <1>2

\* neb_evdp_timer_point_reset preserves it: the old node goes only if it is nobody's.
LEMMA PointResetIInv ==
  ASSUME IInv, Disciplined, NEW p \in Points, NEW t \in Time,
         NEW fresh \in Nodes, NEW tn \in Nodes, PointReset(p, t, fresh, tn)
  PROVE  IInv'
  <1> DEFINE st == TreeWith(fresh, tn)
             ts == StampWith(fresh, t, tn)
             list == [inl EXCEPT ![p] = NoList]
  <1>1. fresh \in RbtreeNodeNew(nst) /\ InsertsAs(fresh, t, tn)
    BY DEF PointReset
  <1>2. /\ st \in [Nodes -> NStates] /\ ts \in [Nodes -> Time]
        /\ st[tn] = "tree" /\ ts[tn] = t
        /\ nst[tn] = "tree" => nts[tn] = t
        /\ \A m \in Nodes : nst[m] = "tree" => st[m] = "tree" /\ ts[m] = nts[m]
        /\ \A m \in Nodes : st[m] = "tree" => m = tn \/ nst[m] = "tree"
        /\ \A m \in Nodes : nst[m] = "tree" /\ nts[m] = t => m = tn
    BY <1>1, InsertNode DEF IInv
  <1>3. /\ ref' = [ref EXCEPT ![p] = tn] /\ due' = [due EXCEPT ![p] = t]
        /\ UNCHANGED <<now, loopVars, pst>>
        /\ pst[p] = "live"
    BY DEF PointReset, Owned
  <1>4. CASE ref[p] = tn \/ p = running
    <2>1. nst' = st /\ nts' = ts /\ UNCHANGED inl
      BY <1>4 DEF PointReset
    <2> HIDE DEF st, ts, list
    <2>2. TypeOK'
      BY <1>2, <1>3, <2>1 DEF IInv, TypeOK, loopVars, NStates
    <2>3. UniqueTs'
      BY <1>2, <2>1 DEF IInv, UniqueTs
    <2>4. ControlInv'
      BY <1>2, <1>3, <2>1 DEF IInv, ControlInv, NoDanglingNode, loopVars, TypeOK
    <2>5. ListInv'
      BY <1>3, <1>4, <2>1, TimerConstants DEF IInv, ListInv, TypeOK, loopVars
    <2>6. NoDanglingNode'
      BY <1>2, <1>3, <2>1 DEF IInv, NoDanglingNode, TypeOK, loopVars
    <2>7. QED BY <2>2, <2>3, <2>4, <2>5, <2>6 DEF IInv
  <1>5. CASE ref[p] # tn /\ p # running
    <2>1. /\ nst' = CheckDelSt(st, ref[p], list) /\ nts' = CheckDelTs(ts, ref[p], list)
          /\ inl' = [inl EXCEPT ![p] = tn]
      BY <1>5 DEF PointReset
    <2>2. ref[p] \in Nodes \cup {NoNode}
      BY DEF IInv, TypeOK
    <2>3. /\ nst' \in [Nodes -> NStates] /\ nts' \in [Nodes -> Time]
          /\ \A m \in Nodes : m # ref[p] => nst'[m] = st[m] /\ nts'[m] = ts[m]
          /\ ref[p] \in Nodes /\ (ref[p] = cursor \/ \E q \in Points : list[q] = ref[p]) =>
               nst'[ref[p]] = st[ref[p]] /\ nts'[ref[p]] = ts[ref[p]]
          /\ \A m \in Nodes : nst'[m] = "tree" => st[m] = "tree" /\ nts'[m] = ts[m]
      <3> HIDE DEF list, st, ts
      <3>1. QED BY <1>2, <2>1, <2>2, CheckDel
    <2>4. \A q \in Points : q # p => list[q] = inl[q]
      BY DEF IInv, TypeOK
    <2>5. ASSUME NEW q \in Points, q # p, ref[q] = ref[p], ref[p] # NoNode
          PROVE  ref[p] = cursor \/ \E r \in Points : list[r] = ref[p]
      <3>1. CASE q = running
        <4>1. ~Detached
          BY <1>5 DEF PointReset, MayTouch, Disciplined
        <4>2. pc = "cb"
          BY <3>1, TimerConstants DEF IInv, ControlInv
        <4>3. QED BY <2>5, <3>1, <4>1, <4>2 DEF Detached
      <3>2. CASE q # running
        BY <2>4, <2>5, <3>2 DEF IInv, ListInv, TypeOK
      <3>3. QED BY <3>1, <3>2
    <2> HIDE DEF st, ts, list
    <2>6. TypeOK'
      BY <1>3, <2>1, <2>3 DEF IInv, TypeOK, loopVars, NStates
    <2>7. UniqueTs'
      BY <1>2, <2>3 DEF IInv, UniqueTs
    <2>8. ControlInv'
      BY <1>2, <1>3, <2>2, <2>3 DEF IInv, ControlInv, NoDanglingNode, loopVars, TypeOK
    <2>9. ListInv'
      BY <1>3, <1>5, <2>1, TimerConstants DEF IInv, ListInv, TypeOK, loopVars
    <2>10. NoDanglingNode'
      <3>1. ASSUME NEW q \in Points, ref'[q] # NoNode
            PROVE  nst'[ref'[q]] = "tree"
        <4>1. CASE q = p
          BY <1>2, <1>3, <1>5, <2>3, <4>1 DEF IInv, TypeOK
        <4>2. CASE q # p
          <5>1. ref'[q] = ref[q] /\ ref[q] \in Nodes /\ nst[ref[q]] = "tree"
            BY <1>3, <3>1, <4>2 DEF IInv, TypeOK, NoDanglingNode
          <5>2. QED BY <1>2, <2>2, <2>3, <2>5, <3>1, <4>2, <5>1
        <4>3. QED BY <4>1, <4>2
      <3>2. cursor' # NoNode => nst'[cursor'] = "tree"
        BY <1>2, <1>3, <2>2, <2>3 DEF IInv, TypeOK, NoDanglingNode, loopVars
      <3>3. QED BY <3>1, <3>2 DEF NoDanglingNode
    <2>11. QED BY <2>6, <2>7, <2>8, <2>9, <2>10 DEF IInv
  <1>6. QED BY <1>4, <1>5

\* neb_evdp_timer_destroy preserves it.
LEMMA TimerDestroyIInv == ASSUME IInv, TimerDestroy PROVE IInv'
  <1>1. cursor = NoNode /\ running = NoPoint
    BY DEF TimerDestroy, IInv, ControlInv
  <1>2. /\ nst' \in [Nodes -> NStates] /\ \A n \in Nodes : nst'[n] # "tree"
        /\ nts' \in [Nodes -> Time]
    BY TimerConstants DEF TimerDestroy, Time, NStates
  <1>3. \A p \in Points : pst'[p] # "live" /\ inl'[p] = NoList /\ ref'[p] = NoNode
    BY <1>1, TimerConstants DEF TimerDestroy, Tree, IInv, ListInv, NoDanglingNode, TypeOK
  <1>4. TypeOK'
    BY <1>1, <1>2, <1>3 DEF TimerDestroy, IInv, TypeOK, Off, NStates
  <1>5. UniqueTs'
    BY <1>2 DEF UniqueTs
  <1>6. ControlInv' /\ ListInv' /\ NoDanglingNode'
    BY <1>1, <1>2, <1>3, TimerConstants DEF TimerDestroy, ControlInv, ListInv, NoDanglingNode, IInv
  <1>7. QED BY <1>4, <1>5, <1>6 DEF IInv

\* Every call of a client preserves it.
LEMMA ClientIInv ==
  ASSUME IInv, Disciplined, Client PROVE IInv'
  <1>1. CASE UpdateCurTs
    BY <1>1 DEF UpdateCurTs, IInv, TypeOK, UniqueTs, ControlInv, ListInv, NoDanglingNode,
       nodeVars, pointVars, Time
  <1>2. QED
    BY <1>1, NewPointIInv, NewPointNoMemIInv, DelPointIInv, PointResetIInv DEF Client

-----------------------------------------------------------------------------
(***************************************************************************)
(* The loop and run_until.                                                 *)
(***************************************************************************)
\* The queue's own steps and the clock preserve it: they leave tree and points alone.
LEMMA LoopIInv ==
  ASSUME IInv, WaitEvents \/ EndWait \/ Tick PROVE IInv'
  BY TimerConstants DEF WaitEvents, EndWait, Tick, IInv, TypeOK, UniqueTs, ControlInv, ListInv,
     NoDanglingNode, nodeVars, pointVars, loopVars, Time

\* Entering evdp_timer_run_until preserves it.
LEMMA EnterIInv ==
  ASSUME IInv, RunNothing \/ \E n \in Nodes : RunDue(n) PROVE IInv'
  BY TimerConstants DEF RunDue, RunNothing, IsMin, Tree, IInv, TypeOK, UniqueTs, ControlInv,
     ListInv, NoDanglingNode, nodeVars, pointVars

\* Taking the first point of the list to call it preserves it.
LEMMA FireIInv ==
  ASSUME IInv, NEW p \in Points, Fire(p) PROVE IInv'
  BY TimerConstants DEF Fire, IInv, TypeOK, UniqueTs, ControlInv, ListInv, NoDanglingNode,
     nodeVars, Off

\* The callback returned FREE: the point goes, its node stays with the cursor.
LEMMA CbFreeIInv ==
  ASSUME IInv, NEW p \in Points, NEW ret, CbFree(p, ret) PROVE IInv'
  <1>1. /\ pst' \in [Points -> {"live", "cache", "free"}] /\ pst'[p] # "live"
        /\ \A q \in Points : q # p => pst'[q] = pst[q]
    BY PointFree DEF IInv, CbFree
  <1>2. TypeOK' /\ UniqueTs' /\ ControlInv'
    BY <1>1, TimerConstants DEF CbFree, IInv, TypeOK, UniqueTs, ControlInv, nodeVars, Off
  <1>3. ListInv'
    BY <1>1, TimerConstants DEF CbFree, IInv, TypeOK, ListInv, ControlInv
  <1>4. NoDanglingNode'
    BY TimerConstants DEF CbFree, IInv, TypeOK, NoDanglingNode, nodeVars
  <1>5. QED BY <1>2, <1>3, <1>4 DEF IInv

\* The callback returned KEEP: the point is on keeplist or on its new node.
LEMMA CbKeepIInv ==
  ASSUME IInv, NEW p \in Points, CbKeep(p) PROVE IInv'
  BY TimerConstants DEF CbKeep, IInv, TypeOK, UniqueTs, ControlInv, ListInv, NoDanglingNode,
     nodeVars

\* The node that was run is dropped: nobody refers to it any more.
LEMMA DropIInv ==
  ASSUME IInv, DropCursor, UNCHANGED <<now, curTs, deadline, running, pointVars>>,
         \/ pc' = "idle" /\ cursor' = NoNode
         \/ /\ UNCHANGED pc /\ cursor' \in Tree /\ cursor' # cursor
            /\ nts[cursor'] <= curTs
  PROVE  IInv'
  <1>1. cursor \in Nodes /\ running = NoPoint
    BY DEF DropCursor, IInv, ControlInv, TypeOK
  <1>2. /\ nst' \in [Nodes -> NStates] /\ nst'[cursor] # "tree"
        /\ \A m \in Nodes : m # cursor => nst'[m] = nst[m]
    BY <1>1, NodeDel DEF DropCursor, IInv, TypeOK, NStates
  <1>3. /\ nts' \in [Nodes -> Time]
        /\ \A m \in Nodes : m # cursor => nts'[m] = nts[m]
    BY <1>1, TimerConstants DEF DropCursor, IInv, TypeOK, Time
  <1>4. \A p \in Points : ref[p] # cursor
    BY <1>1, TimerConstants DEF DropCursor, On, IInv, ListInv, TypeOK
  <1>5. TypeOK'
    BY <1>2, <1>3 DEF IInv, TypeOK, pointVars, NStates, Tree
  <1>6. UniqueTs'
    BY <1>2, <1>3 DEF IInv, UniqueTs
  <1>7. ControlInv'
    BY <1>1, <1>3, TimerConstants DEF IInv, ControlInv, DropCursor, Tree, TypeOK
  <1>8. ListInv'
    BY DEF IInv, ListInv, pointVars
  <1>9. NoDanglingNode'
    BY <1>2, <1>4 DEF IInv, NoDanglingNode, TypeOK, pointVars, Tree
  <1>10. QED BY <1>5, <1>6, <1>7, <1>8, <1>9 DEF IInv

\* Every step of evdp_timer_run_until preserves it.
LEMMA RunUntilIInv ==
  ASSUME IInv, RunUntil PROVE IInv'
  <1>1. ASSUME NEW n \in Nodes, RunNext(n) PROVE IInv'
    <2>1. n \in Tree /\ n # cursor
      BY <1>1 DEF RunNext, IsNext, IInv, TypeOK, Time, Tree
    <2>2. QED BY <1>1, <2>1, DropIInv DEF RunNext
  <1>2. CASE RunEnd
    BY <1>2, DropIInv DEF RunEnd
  <1>3. QED BY <1>1, <1>2, EnterIInv, FireIInv DEF RunUntil

\* Every step of the specification preserves it.
LEMMA NextIInv ==
  ASSUME Disciplined, IInv, [Next]_vars PROVE IInv'
  <1>1. CASE UNCHANGED vars
    BY <1>1 DEF vars, IInv, TypeOK, UniqueTs, ControlInv, ListInv, NoDanglingNode
  <1>2. CASE Callback
    BY <1>2, CbFreeIInv, CbKeepIInv DEF Callback
  <1>3. CASE WaitEvents \/ WakeEvent \/ WakeTimeout \/ Tick
    BY <1>3, LoopIInv DEF WakeEvent, WakeTimeout
  <1>4. QED
    BY <1>1, <1>2, <1>3, ClientIInv, TimerDestroyIInv, RunUntilIInv DEF Next

(***************************************************************************)
(* With disciplined callbacks no point refers to a tnode that left the     *)
(* tree and every point in use is on one list.                             *)
(***************************************************************************)
THEOREM Invariance == ASSUME Disciplined PROVE Spec => []IInv
  <1>1. Init => IInv BY InitIInv
  <1>2. IInv /\ [Next]_vars => IInv' BY NextIInv
  <1>3. QED BY <1>1, <1>2, PTL DEF Spec

\* Type correctness of the timer's state.
THEOREM TypeCorrect == ASSUME Disciplined PROVE Spec => []TypeOK
  <1>1. IInv => TypeOK BY DEF IInv
  <1>2. QED BY <1>1, Invariance, PTL

\* run_until and the lists never use a tnode that was cached or freed.
THEOREM NoUseAfterFree == ASSUME Disciplined PROVE Spec => []NoDanglingNode
  <1>1. IInv => NoDanglingNode BY DEF IInv
  <1>2. QED BY <1>1, Invariance, PTL

\* A point handed out is on exactly one list or running, until it is freed.
THEOREM NoPointLost == ASSUME Disciplined PROVE Spec => []PointsAccounted
  <1>1. IInv => PointsAccounted BY DEF IInv, ListInv, PointsAccounted
  <1>2. QED BY <1>1, Invariance, PTL

-----------------------------------------------------------------------------
(***************************************************************************)
(* What is scheduled is what was asked for, if callbacks also do not reset *)
(* their own point to the timestamp being run.                             *)
(***************************************************************************)
OtherTs == "sameTs" \notin Liberties

\* Where a point stands in a step that moves no point and no stamp of the tree.
LEMMA SameSchedule ==
  ASSUME IInv, ScheduledAsAsked, UNCHANGED <<inl, ref, due, running>>,
         \A n \in Nodes :
           nst[n] = "tree" /\ (\E p \in Points : inl[p] = n \/ ref[p] = n)
             => nts'[n] = nts[n],
         cursor' = cursor \/ running = NoPoint
  PROVE  ScheduledAsAsked'
  <1> SUFFICES ASSUME NEW p \in Points PROVE due'[p] = Scheduled(p)'
    BY DEF ScheduledAsAsked
  <1>1. due[p] = Scheduled(p)
    BY DEF ScheduledAsAsked
  <1>2. inl[p] \in Nodes => ref[p] = inl[p] /\ nst[inl[p]] = "tree"
    BY TimerConstants DEF IInv, ListInv, NoDanglingNode
  <1>3. ref[p] # NoNode => ref[p] \in Nodes /\ nst[ref[p]] = "tree"
    BY DEF IInv, TypeOK, NoDanglingNode
  <1>4. p = running => cursor' = cursor
    BY TimerConstants
  <1>5. QED BY <1>1, <1>2, <1>3, <1>4 DEF Scheduled

\* Inserting a node keeps the stamps of the nodes other points wait on.
LEMMA InsertSchedule ==
  ASSUME IInv, NEW t \in Time, NEW fresh \in Nodes, NEW tn \in Nodes,
         fresh \in RbtreeNodeNew(nst), InsertsAs(fresh, t, tn)
  PROVE  /\ StampWith(fresh, t, tn)[tn] = t
         /\ \A m \in Nodes : nst[m] = "tree" => StampWith(fresh, t, tn)[m] = nts[m]
         /\ nst[tn] = "tree" => nts[tn] = t
  BY InsertNode DEF IInv

\* Another point's node keeps its stamp when p leaves its list.
LEMMA OthersKeepStamp ==
  ASSUME IInv, Disciplined, NEW p \in Points, p # running, MayTouch(p),
         NEW ts \in [Nodes -> Time], NEW list, list = [inl EXCEPT ![p] = NoList]
  PROVE  \A q \in Points : q # p /\ ref[q] # NoNode =>
            CheckDelTs(ts, ref[p], list)[ref[q]] = ts[ref[q]]
  <1> SUFFICES ASSUME NEW q \in Points, q # p, ref[q] # NoNode
               PROVE CheckDelTs(ts, ref[p], list)[ref[q]] = ts[ref[q]]
    OBVIOUS
  <1>1. ref[q] \in Nodes /\ ref[p] \in Nodes \cup {NoNode}
    BY DEF IInv, TypeOK
  <1>2. CASE ref[q] # ref[p]
    BY <1>1, <1>2 DEF CheckDelTs
  <1>3. CASE ref[q] = ref[p] /\ q = running
    <2>1. pc = "cb" /\ ~Detached
      BY <1>3, TimerConstants DEF IInv, ControlInv, MayTouch, Disciplined
    <2>2. ref[p] = cursor
      BY <1>3, <2>1 DEF Detached
    <2>3. QED BY <2>2 DEF CheckDelTs, CheckDels
  <1>4. CASE ref[q] = ref[p] /\ q # running
    <2>1. list[q] = ref[p]
      BY <1>4 DEF IInv, ListInv, TypeOK
    <2>2. QED BY <2>1 DEF CheckDelTs, CheckDels
  <1>5. QED BY <1>2, <1>3, <1>4

\* neb_evdp_timer_new_point puts the point where it was asked for, and moves no other.
LEMMA NewPointSched ==
  ASSUME IInv, ScheduledAsAsked, NEW t \in Time, NEW fresh \in Nodes, NEW tn \in Nodes,
         NEW p \in Points, NewPoint(t, fresh, tn, p)
  PROVE  ScheduledAsAsked'
  <1>1. /\ nts' = StampWith(fresh, t, tn)
        /\ ref' = [ref EXCEPT ![p] = tn] /\ inl' = [inl EXCEPT ![p] = tn]
        /\ due' = [due EXCEPT ![p] = t] /\ UNCHANGED <<cursor, running>>
    BY DEF NewPoint, loopVars
  <1>2. /\ nts'[tn] = t
        /\ \A m \in Nodes : nst[m] = "tree" => nts'[m] = nts[m]
    BY <1>1, InsertSchedule DEF NewPoint
  <1> SUFFICES ASSUME NEW q \in Points PROVE due'[q] = Scheduled(q)'
    BY DEF ScheduledAsAsked
  <1>3. CASE q = p
    BY <1>1, <1>2, <1>3 DEF Scheduled, IInv, TypeOK
  <1>4. CASE q # p
    <2>1. due[q] = Scheduled(q) /\ UNCHANGED <<due[q], ref[q], inl[q]>>
      BY <1>1, <1>4 DEF ScheduledAsAsked, IInv, TypeOK
    <2>2. inl[q] \in Nodes => ref[q] = inl[q]
      BY DEF IInv, ListInv
    <2>3. ref[q] # NoNode => ref[q] \in Nodes /\ nst[ref[q]] = "tree"
      BY DEF IInv, TypeOK, NoDanglingNode
    <2>4. QED BY <1>1, <1>2, <2>1, <2>2, <2>3, TimerConstants DEF Scheduled
  <1>5. QED BY <1>3, <1>4

\* neb_evdp_timer_del_point moves no other point.
LEMMA DelPointSched ==
  ASSUME IInv, ScheduledAsAsked, Disciplined, NEW p \in Points, DelPoint(p)
  PROVE  ScheduledAsAsked'
  <1>1. due' = [due EXCEPT ![p] = Off] /\ UNCHANGED <<cursor, running>>
        /\ ref' = [ref EXCEPT ![p] = NoNode]
    BY DEF DelPoint, loopVars
  <1>2. inl' \in [Points -> Nodes \cup {KeepList, NoList}] /\ inl'[p] = NoList
        /\ \A q \in Points : q # p => inl'[q] = inl[q]
    BY TimerConstants DEF DelPoint, IInv, TypeOK, ListInv
  <1>3. \A q \in Points : q # p /\ ref[q] # NoNode => nts'[ref[q]] = nts[ref[q]]
    <2>1. CASE p = running
      BY <2>1 DEF DelPoint, nodeVars
    <2>2. CASE p # running
      <3>1. nts' = CheckDelTs(nts, ref[p], [inl EXCEPT ![p] = NoList]) /\ MayTouch(p)
        BY <2>2 DEF DelPoint
      <3>2. nts \in [Nodes -> Time]
        BY DEF IInv, TypeOK
      <3>3. QED BY <2>2, <3>1, <3>2, OthersKeepStamp
    <2>3. QED BY <2>1, <2>2
  <1> SUFFICES ASSUME NEW q \in Points PROVE due'[q] = Scheduled(q)'
    BY DEF ScheduledAsAsked
  <1>4. CASE q = p
    BY <1>1, <1>2, <1>4, TimerConstants DEF Scheduled, IInv, TypeOK
  <1>5. CASE q # p
    <2>1. due[q] = Scheduled(q) /\ UNCHANGED <<due[q], ref[q], inl[q]>>
      BY <1>1, <1>2, <1>5 DEF ScheduledAsAsked, IInv, TypeOK
    <2>2. inl[q] \in Nodes => ref[q] = inl[q]
      BY DEF IInv, ListInv
    <2>3. QED BY <1>1, <1>3, <1>5, <2>1, <2>2, TimerConstants DEF Scheduled
  <1>6. QED BY <1>4, <1>5

\* neb_evdp_timer_point_reset moves the point to where it was asked for, and no other.
LEMMA PointResetSched ==
  ASSUME IInv, ScheduledAsAsked, Disciplined, OtherTs, NEW p \in Points, NEW t \in Time,
         NEW fresh \in Nodes, NEW tn \in Nodes, PointReset(p, t, fresh, tn)
  PROVE  ScheduledAsAsked'
  <1> DEFINE ts == StampWith(fresh, t, tn)
  <1>1. /\ ref' = [ref EXCEPT ![p] = tn] /\ due' = [due EXCEPT ![p] = t]
        /\ UNCHANGED <<cursor, running>>
    BY DEF PointReset, loopVars
  <1>2. /\ ts[tn] = t /\ \A m \in Nodes : nst[m] = "tree" => ts[m] = nts[m]
        /\ nst[tn] = "tree" => nts[tn] = t
    BY InsertSchedule DEF PointReset
  <1>3. ts \in [Nodes -> Time]
    BY InsertNode DEF PointReset, IInv
  <1>4. /\ \A q \in Points : q # p => inl'[q] = inl[q]
        /\ \A q \in Points : ref[q] # NoNode => ref[q] \in Nodes /\ nst[ref[q]] = "tree"
    BY DEF PointReset, IInv, TypeOK, NoDanglingNode
  <1>5. \A q \in Points : q # p /\ ref[q] # NoNode => nts'[ref[q]] = nts[ref[q]]
    <2>1. CASE ref[p] = tn \/ p = running
      BY <1>2, <1>4, <2>1 DEF PointReset
    <2>2. CASE ref[p] # tn /\ p # running
      <3>1. nts' = CheckDelTs(ts, ref[p], [inl EXCEPT ![p] = NoList]) /\ MayTouch(p)
        BY <2>2 DEF PointReset
      <3> HIDE DEF ts
      <3>2. QED BY <1>2, <1>3, <1>4, <2>2, <3>1, OthersKeepStamp
    <2>3. QED BY <2>1, <2>2
  <1>6. nts'[tn] = t
    <2>1. CASE ref[p] = tn \/ p = running
      BY <1>2, <2>1 DEF PointReset
    <2>2. CASE ref[p] # tn /\ p # running
      BY <1>2, <1>3, <2>2 DEF PointReset, CheckDelTs
    <2>3. QED BY <2>1, <2>2
  <1> HIDE DEF ts
  <1> SUFFICES ASSUME NEW q \in Points PROVE due'[q] = Scheduled(q)'
    BY DEF ScheduledAsAsked
  <1>7. CASE q = p /\ p = running
    <2>1. inl' = inl /\ inl[p] = NoList /\ cursor # NoNode
      BY <1>7, TimerConstants DEF PointReset, IInv, ListInv, ControlInv
    <2>2. tn # cursor
      <3>1. nst[cursor] = "tree" /\ t # nts[cursor]
        BY <1>7, <2>1 DEF PointReset, OtherTs, IInv, NoDanglingNode
      <3>2. QED BY <1>2, <3>1
    <2>3. QED BY <1>1, <1>6, <1>7, <2>1, <2>2, TimerConstants DEF Scheduled, IInv, TypeOK
  <1>8. CASE q = p /\ p # running
    <2>1. inl'[p] = tn
      BY <1>8, TimerConstants DEF PointReset, IInv, ListInv, TypeOK
    <2>2. QED BY <1>1, <1>6, <1>8, <2>1 DEF Scheduled, IInv, TypeOK
  <1>9. CASE q # p
    <2>1. due[q] = Scheduled(q) /\ UNCHANGED <<due[q], ref[q], inl[q]>>
      BY <1>1, <1>4, <1>9 DEF ScheduledAsAsked, IInv, TypeOK
    <2>2. inl[q] \in Nodes => ref[q] = inl[q]
      BY DEF IInv, ListInv
    <2>3. QED BY <1>1, <1>5, <1>9, <2>1, <2>2, TimerConstants DEF Scheduled
  <1>10. QED BY <1>7, <1>8, <1>9

\* evdp_timer_run_until moves no point outside its callback.
LEMMA RunSched ==
  ASSUME IInv, ScheduledAsAsked, RunUntil PROVE ScheduledAsAsked'
  <1>1. ASSUME NEW p \in Points, Fire(p) PROVE ScheduledAsAsked'
    <2>1. /\ running' = p /\ inl' = [inl EXCEPT ![p] = NoList]
          /\ due' = [due EXCEPT ![p] = Off] /\ UNCHANGED <<cursor, nts, ref>>
          /\ inl[p] = cursor
      BY <1>1 DEF Fire, nodeVars
    <2>2. running = NoPoint /\ ref[p] = cursor
      BY <1>1 DEF Fire, IInv, ControlInv, ListInv, TypeOK
    <2> SUFFICES ASSUME NEW q \in Points PROVE due'[q] = Scheduled(q)'
      BY DEF ScheduledAsAsked
    <2>3. due[q] = Scheduled(q)
      BY DEF ScheduledAsAsked
    <2>4. QED BY <2>1, <2>2, <2>3, TimerConstants DEF Scheduled, IInv, TypeOK
  <1>2. CASE RunNothing \/ \E n \in Nodes : RunDue(n)
    <2>1. running = NoPoint /\ UNCHANGED <<inl, ref, due, running, nts>>
      BY <1>2 DEF RunNothing, RunDue, IInv, ControlInv, nodeVars, pointVars
    <2>2. QED BY <2>1, SameSchedule
  <1>3. CASE RunEnd \/ \E n \in Nodes : RunNext(n)
    <2>1. /\ running = NoPoint /\ UNCHANGED <<inl, ref, due, running>>
          /\ nts' = [nts EXCEPT ![cursor] = 0] /\ cursor \in Nodes
          /\ \A p \in Points : inl[p] # cursor
      BY <1>3 DEF RunEnd, RunNext, DropCursor, On, IInv, ControlInv, pointVars, TypeOK
    <2>2. \A p \in Points : ref[p] # cursor
      BY <2>1, TimerConstants DEF IInv, ListInv, TypeOK
    <2>3. \A n \in Nodes : n # cursor => nts'[n] = nts[n]
      BY <2>1 DEF IInv, TypeOK
    <2>4. QED BY <2>1, <2>2, <2>3, SameSchedule
  <1>4. QED BY <1>1, <1>2, <1>3 DEF RunUntil

\* The return of a callback leaves the other points where they were.
LEMMA CallbackSched ==
  ASSUME IInv, ScheduledAsAsked, Callback PROVE ScheduledAsAsked'
  <1>1. ASSUME NEW p \in Points, CbKeep(p) PROVE ScheduledAsAsked'
    <2> SUFFICES ASSUME NEW q \in Points PROVE due'[q] = Scheduled(q)'
      BY DEF ScheduledAsAsked
    <2>1. due[q] = Scheduled(q)
      BY DEF ScheduledAsAsked
    <2>2. inl[p] = NoList /\ p = running /\ running' = NoPoint /\ UNCHANGED <<due, nts, cursor>>
      BY <1>1, TimerConstants DEF CbKeep, IInv, ListInv, nodeVars
    <2>3. CASE q # p
      <3>1. UNCHANGED <<inl[q], ref[q]>>
        BY <1>1, <2>3 DEF CbKeep, IInv, TypeOK
      <3>2. QED BY <2>1, <2>2, <2>3, <3>1, TimerConstants DEF Scheduled
    <2>4. CASE q = p
      <3>1. CASE ref[p] = cursor
        <4>1. inl'[p] = KeepList
          BY <1>1, <3>1 DEF CbKeep, IInv, TypeOK
        <4>2. QED BY <2>1, <2>2, <2>4, <3>1, <4>1, TimerConstants DEF Scheduled
      <3>2. CASE ref[p] # cursor
        <4>1. inl'[p] = ref[p] /\ ref[p] \in Nodes
          BY <1>1, <3>2 DEF CbKeep, IInv, TypeOK
        <4>2. QED BY <2>1, <2>2, <2>4, <3>2, <4>1, TimerConstants DEF Scheduled
      <3>3. QED BY <3>1, <3>2
    <2>5. QED BY <2>3, <2>4
  <1>2. ASSUME NEW p \in Points, NEW ret, CbFree(p, ret) PROVE ScheduledAsAsked'
    <2> SUFFICES ASSUME NEW q \in Points PROVE due'[q] = Scheduled(q)'
      BY DEF ScheduledAsAsked
    <2>1. due[q] = Scheduled(q)
      BY DEF ScheduledAsAsked
    <2>2. /\ inl[p] = NoList /\ p = running /\ running' = NoPoint
          /\ UNCHANGED <<inl, nts, cursor>> /\ due' = [due EXCEPT ![p] = Off]
          /\ ref' = [ref EXCEPT ![p] = NoNode]
      BY <1>2, TimerConstants DEF CbFree, IInv, ListInv, nodeVars
    <2>3. QED BY <2>1, <2>2, TimerConstants DEF Scheduled, IInv, TypeOK
  <1>3. QED BY <1>1, <1>2 DEF Callback

\* No call of a client leaves a point at another timestamp than asked for.
LEMMA ClientSched ==
  ASSUME IInv, ScheduledAsAsked, Disciplined, OtherTs, Client PROVE ScheduledAsAsked'
  <1>1. CASE UpdateCurTs
    BY <1>1, SameSchedule DEF UpdateCurTs, nodeVars, pointVars
  <1>2. ASSUME NEW t \in Time, NEW fresh \in Nodes, NEW tn \in Nodes, NewPointNoMem(t, fresh, tn)
        PROVE  ScheduledAsAsked'
    <2>1. \A m \in Nodes : nst[m] = "tree" => nts'[m] = nts[m]
      BY <1>2, InsertSchedule DEF NewPointNoMem
    <2>2. UNCHANGED <<inl, ref, due, running, cursor>>
      BY <1>2 DEF NewPointNoMem, pointVars, loopVars
    <2>3. QED BY <2>1, <2>2, SameSchedule
  <1>3. QED BY <1>1, <1>2, NewPointSched, DelPointSched, PointResetSched DEF Client

\* neb_evdp_timer_destroy leaves no point.
LEMMA DestroySched ==
  ASSUME IInv, TimerDestroy PROVE ScheduledAsAsked'
  <1>1. cursor = NoNode /\ running = NoPoint
    BY DEF TimerDestroy, IInv, ControlInv
  <1>2. \A p \in Points : inl'[p] = NoList /\ due'[p] = Off
    BY <1>1, TimerConstants DEF TimerDestroy, Tree, IInv, ListInv, NoDanglingNode, TypeOK
  <1>3. running' = NoPoint
    BY <1>1 DEF TimerDestroy
  <1>4. QED BY <1>2, <1>3, TimerConstants DEF ScheduledAsAsked, Scheduled

SchedInv == IInv /\ ScheduledAsAsked

\* Every step preserves the schedule.
LEMMA NextSched ==
  ASSUME Disciplined, OtherTs, SchedInv, [Next]_vars PROVE SchedInv'
  <1>1. IInv'
    BY NextIInv DEF SchedInv
  <1>2. CASE UNCHANGED <<inl, ref, due, running, cursor, nts>>
    <2>1. IInv /\ ScheduledAsAsked
      BY DEF SchedInv
    <2>2. UNCHANGED <<inl, ref, due, running>> /\ cursor' = cursor
          /\ \A n \in Nodes : nts'[n] = nts[n]
      BY <1>2
    <2>3. QED BY <1>1, <2>1, <2>2, SameSchedule DEF SchedInv
  <1>3. CASE WaitEvents \/ WakeEvent \/ WakeTimeout \/ Tick \/ UNCHANGED vars
    <2>1. UNCHANGED <<inl, ref, due, running, cursor, nts>>
      BY <1>3 DEF WaitEvents, WakeEvent, WakeTimeout, EndWait, Tick, nodeVars,
         pointVars, loopVars, vars
    <2>2. QED BY <1>2, <2>1
  <1>4. ScheduledAsAsked'
    BY <1>3, ClientSched, DestroySched, RunSched, CallbackSched DEF Next, SchedInv
  <1>5. QED BY <1>1, <1>4 DEF SchedInv

\* The schedule, together with the inductive invariant it needs, always holds.
LEMMA SchedInvariance == ASSUME Disciplined, OtherTs PROVE Spec => []SchedInv
  <1>1. Init => SchedInv
    BY InitIInv, TimerConstants DEF Init, SchedInv, ScheduledAsAsked, Scheduled
  <1>2. SchedInv /\ [Next]_vars => SchedInv'
    BY NextSched
  <1>3. QED BY <1>1, <1>2, PTL DEF Spec

\* A point waits for the timestamp its client asked for last, and for no other.
THEOREM ScheduleCorrect ==
  ASSUME Disciplined, OtherTs PROVE Spec => []ScheduledAsAsked
  <1>1. SchedInv => ScheduledAsAsked BY DEF SchedInv
  <1>2. QED BY <1>1, SchedInvariance, PTL

(***************************************************************************)
(* The queue never sleeps past a point.                                    *)
(***************************************************************************)
THEOREM NeverOversleeps ==
  ASSUME Disciplined, OtherTs PROVE Spec => []NoOversleep
  <1>1. Init => NoOversleep
    BY DEF Init, NoOversleep
  <1>2. ASSUME SchedInv, NoOversleep, [Next]_vars PROVE NoOversleep'
    <2>1. CASE pc = "wait" /\ pc' = "wait"
      <3>1. Tick \/ UNCHANGED vars
        BY <1>2, <2>1 DEF Next, Client, InClient, NewPoint, NewPointNoMem, DelPoint, PointReset,
           UpdateCurTs, TimerDestroy, WaitEvents, WakeEvent, WakeTimeout, EndWait, RunUntil,
           RunDue, RunNext, RunNothing, RunEnd, DropCursor, Fire, Callback, CbKeep, CbFree
      <3>2. UNCHANGED <<due, deadline>> /\ now' >= now
        BY <3>1, <1>2 DEF Tick, vars, loopVars, pointVars, SchedInv, IInv, TypeOK, Time
      <3>3. now' \in Int /\ now \in Int /\ deadline \in Int
        <4>1. IInv'
          BY <1>2, NextSched DEF SchedInv
        <4>2. QED BY <1>2, <4>1, TimerConstants DEF SchedInv, IInv, TypeOK, Time, Forever
      <3>4. QED BY <1>2, <2>1, <3>2, <3>3 DEF NoOversleep
    <2>2. CASE pc # "wait" /\ pc' = "wait"
      <3>1. WaitEvents
        <4>1. CASE Client \/ Tick \/ UNCHANGED vars
          <5>1. UNCHANGED pc
            <6>1. ASSUME NEW p \in Points, DelPoint(p) PROVE UNCHANGED pc
              BY <6>1 DEF DelPoint, loopVars
            <6>2. ASSUME NEW p \in Points, NEW t \in Time, NEW fresh \in Nodes,
                         NEW tn \in Nodes, PointReset(p, t, fresh, tn)
                  PROVE  UNCHANGED pc
              BY <6>2 DEF PointReset, loopVars
            <6>3. QED
              BY <4>1, <6>1, <6>2 DEF Client, NewPoint, NewPointNoMem, UpdateCurTs, loopVars,
                 Tick, vars
          <5>2. QED BY <2>2, <5>1
        <4>2. CASE TimerDestroy \/ WakeEvent \/ WakeTimeout
          BY <2>2, <4>2 DEF TimerDestroy, WakeEvent, WakeTimeout, EndWait
        <4>3. CASE RunUntil \/ Callback
          BY <2>2, <4>3 DEF RunUntil, RunDue, RunNext, RunNothing, RunEnd, DropCursor, Fire,
             Callback, CbKeep, CbFree
        <4>4. QED BY <1>2, <4>1, <4>2, <4>3 DEF Next
      <3>2. UNCHANGED <<due, now>> /\ NearestTs(deadline')
        BY <3>1 DEF WaitEvents, pointVars
      <3>3. running = NoPoint
        BY <1>2, <3>1 DEF WaitEvents, SchedInv, IInv, ControlInv
      <3>4. ASSUME NEW p \in Points, due[p] # Off
            PROVE  deadline' # Forever /\ (deadline' <= due[p] \/ deadline' <= now)
        <4>1. inl[p] \in Nodes /\ due[p] = nts[inl[p]]
          BY <1>2, <3>3, <3>4, TimerConstants DEF SchedInv, ScheduledAsAsked, Scheduled
        <4>2. inl[p] \in Tree
          BY <1>2, <4>1, TimerConstants DEF SchedInv, IInv, ListInv, NoDanglingNode, Tree
        <4>3. PICK n \in Tree : IsMin(n) /\ deadline' = IF nts[n] > now THEN nts[n] ELSE now
          BY <3>2, <4>2 DEF NearestTs
        <4>4. nts[n] <= due[p]
          BY <4>1, <4>2, <4>3 DEF IsMin
        <4>5. nts[n] \in Nat /\ now \in Nat
          BY <1>2, TimerConstants DEF Tree, SchedInv, IInv, TypeOK, Time
        <4>6. QED BY <4>3, <4>4, <4>5 DEF Forever
      <3>5. QED BY <3>2, <3>4 DEF NoOversleep
    <2>3. QED BY <2>1, <2>2 DEF NoOversleep
  <1>3. QED BY <1>1, <1>2, SchedInvariance, PTL DEF Spec

(***************************************************************************)
(* run_until goes through the timestamps in order and leaves none of its   *)
(* points behind.                                                          *)
(***************************************************************************)
THEOREM OrderedRun == Spec => RunsInOrder
  <1> DEFINE Ordered == cursor # NoNode /\ cursor' # cursor =>
                          /\ On(cursor) = {}
                          /\ cursor' # NoNode => nts[cursor'] > nts[cursor]
             PcInv == cursor # NoNode => pc \in {"run", "cb"}
  <1>1. Init => PcInv
    BY DEF Init
  <1>2. ASSUME PcInv, [Next]_vars PROVE PcInv' /\ [Ordered]_vars
    <2>1. CASE UNCHANGED <<pc, cursor>>
      BY <1>2, <2>1
    <2>2. CASE Client \/ Tick \/ UNCHANGED vars
      <3>1. UNCHANGED <<pc, cursor>>
        <4>1. ASSUME NEW p \in Points, DelPoint(p) PROVE UNCHANGED <<pc, cursor>>
          BY <4>1 DEF DelPoint, loopVars
        <4>2. ASSUME NEW p \in Points, NEW t \in Time, NEW fresh \in Nodes,
                     NEW tn \in Nodes, PointReset(p, t, fresh, tn)
              PROVE  UNCHANGED <<pc, cursor>>
          BY <4>2 DEF PointReset, loopVars
        <4>3. QED
          BY <2>2, <4>1, <4>2 DEF Client, NewPoint, NewPointNoMem, UpdateCurTs, loopVars,
             Tick, vars
      <3>2. QED BY <2>1, <3>1
    <2>3. CASE TimerDestroy \/ WaitEvents \/ WakeEvent \/ WakeTimeout
      BY <1>2, <2>3 DEF TimerDestroy, WaitEvents, WakeEvent, WakeTimeout, EndWait
    <2>4. CASE Callback
      BY <1>2, <2>4 DEF Callback, CbKeep, CbFree
    <2>5. CASE RunUntil
      BY <1>2, <2>5 DEF RunUntil, RunDue, RunNext, RunNothing, RunEnd, DropCursor, Fire, IsNext
    <2>6. QED BY <1>2, <2>2, <2>3, <2>4, <2>5 DEF Next
  <1>3. [Ordered]_vars => [cursor # NoNode /\ cursor' # cursor =>
                             /\ On(cursor) = {}
                             /\ cursor' # NoNode => nts[cursor'] > nts[cursor]]_vars
    OBVIOUS
  <1> HIDE DEF Ordered, PcInv
  <1>4. QED BY <1>1, <1>2, <1>3, PTL DEF Spec, RunsInOrder

(***************************************************************************)
(* Each step of the timer is a step of TimerAbs or a stutter: a callback   *)
(* starts only for an armed point, at or after its timestamp, and one at a *)
(* time.                                                                   *)
(***************************************************************************)
LEMMA StepRefines ==
  ASSUME SchedInv, [Next]_vars PROVE [Abs!Next]_(Abs!vars)
  <1> DEFINE Same == UNCHANGED <<now, due, running>>
  <1>1. CASE Same
    BY <1>1 DEF Abs!vars
  <1>2. ASSUME NEW p \in Points, NEW t \in Time, due' = [due EXCEPT ![p] = t],
               UNCHANGED <<now, running>>
        PROVE  Abs!Next
    BY <1>2 DEF Abs!Next, Abs!Arm, Time
  <1>3. CASE Client
    <2>1. ASSUME NEW t \in Time, NEW fresh \in Nodes, NEW tn \in Nodes, NEW p \in Points,
                 NewPoint(t, fresh, tn, p) \/ PointReset(p, t, fresh, tn)
          PROVE  Abs!Next
      <3>1. due' = [due EXCEPT ![p] = t] /\ UNCHANGED <<now, running>>
        <4>1. CASE NewPoint(t, fresh, tn, p)
          BY <4>1 DEF NewPoint, loopVars
        <4>2. CASE PointReset(p, t, fresh, tn)
          BY <4>2 DEF PointReset, loopVars
        <4>3. QED BY <2>1, <4>1, <4>2
      <3>2. QED BY <1>2, <3>1
    <2>2. ASSUME NEW p \in Points, DelPoint(p) PROVE Abs!Next
      <3>1. due' = [due EXCEPT ![p] = Off] /\ UNCHANGED <<now, running>>
        BY <2>2 DEF DelPoint, loopVars
      <3>2. due' = [q \in Points |-> IF q \in {p} THEN -1 ELSE due[q]]
        BY <3>1 DEF SchedInv, IInv, TypeOK, Off
      <3>3. Abs!Cancel({p})
        BY <3>1, <3>2 DEF Abs!Cancel
      <3>4. QED BY <3>3 DEF Abs!Next
    <2>3. CASE UpdateCurTs
      BY <1>1, <2>3 DEF UpdateCurTs, pointVars
    <2>4. ASSUME NEW t \in Time, NEW fresh \in Nodes, NEW tn \in Nodes,
                 NewPointNoMem(t, fresh, tn)
          PROVE  Same
      BY <2>4 DEF NewPointNoMem, loopVars, pointVars
    <2> HIDE DEF Same
    <2>5. QED BY <1>1, <1>3, <2>1, <2>2, <2>3, <2>4 DEF Client
  <1>4. CASE TimerDestroy
    <2>1. due' = [p \in Points |-> IF p \in Points THEN -1 ELSE due[p]]
      BY <1>4 DEF TimerDestroy, Off
    <2>2. Abs!Cancel(Points)
      BY <1>4, <2>1 DEF TimerDestroy, Abs!Cancel
    <2>3. QED BY <2>2 DEF Abs!Next
  <1>5. CASE WaitEvents \/ WakeEvent \/ WakeTimeout \/ UNCHANGED vars
    <2>1. Same
      BY <1>5 DEF WaitEvents, WakeEvent, WakeTimeout, EndWait, pointVars, vars
    <2>2. QED BY <1>1, <2>1
  <1>6. CASE Tick
    BY <1>6 DEF Tick, loopVars, pointVars, Abs!Next, Abs!Tick
  <1>7. CASE RunUntil
    <2>1. ASSUME NEW p \in Points, Fire(p) PROVE Abs!Next
      <3>1. /\ running = NoPoint /\ running' = p /\ UNCHANGED now
            /\ due' = [due EXCEPT ![p] = Off]
        BY <2>1 DEF Fire, SchedInv, IInv, ControlInv
      <3>2. inl[p] \in Nodes /\ inl[p] = cursor
        BY <2>1 DEF Fire, SchedInv, IInv, ControlInv, TypeOK
      <3>3. due[p] = nts[cursor]
        BY <3>2 DEF SchedInv, ScheduledAsAsked, Scheduled
      <3>4. nts[cursor] <= now /\ nts[cursor] # -1
        <4>1. nts[cursor] \in Nat /\ curTs \in Nat /\ now \in Nat
          BY <3>2, TimerConstants DEF SchedInv, IInv, TypeOK, Time
        <4>2. nts[cursor] <= curTs /\ curTs <= now
          BY <3>2, TimerConstants DEF SchedInv, IInv, ControlInv
        <4>3. QED BY <4>1, <4>2
      <3>5. Abs!Fire(p)
        BY <3>1, <3>3, <3>4 DEF Abs!Fire, Abs!Armed, Off
      <3>6. QED BY <3>5 DEF Abs!Next
    <2>2. ASSUME RunNothing \/ RunEnd \/ \E n \in Nodes : RunDue(n) \/ RunNext(n)
          PROVE  Same
      BY <2>2 DEF RunNothing, RunEnd, RunDue, RunNext, pointVars
    <2> HIDE DEF Same
    <2>3. QED BY <1>1, <1>7, <2>1, <2>2 DEF RunUntil
  <1>8. CASE Callback
    <2>1. ASSUME NEW p \in Points, CbKeep(p) PROVE Abs!Return
      BY <2>1, TimerConstants DEF CbKeep, Abs!Return
    <2>2. ASSUME NEW p \in Points, NEW ret, CbFree(p, ret) PROVE Abs!Return
      BY <2>2, TimerConstants DEF CbFree, Abs!Return, Off
    <2>3. QED BY <1>8, <2>1, <2>2 DEF Callback, Abs!Next
  <1>9. QED BY <1>3, <1>4, <1>5, <1>6, <1>7, <1>8 DEF Next

\* Every behaviour of the timer is one of TimerAbs under the mapping of EvdpTimer.
THEOREM Refinement == ASSUME Disciplined, OtherTs PROVE Spec => ImplementsTimer
  <1>1. Init => Abs!Init
    BY DEF Init, Abs!Init, Off
  <1>2. SchedInv /\ [Next]_vars => [Abs!Next]_(Abs!vars)
    BY StepRefines
  <1>3. QED BY <1>1, <1>2, SchedInvariance, PTL DEF Spec, ImplementsTimer, Abs!Spec

-----------------------------------------------------------------------------
(***************************************************************************)
(* A round of run_until is complete.  The invariant: the tnode that is run *)
(* is the earliest of the tree, as callbacks only ask for what is later.   *)
(***************************************************************************)
NoPast == "past" \notin Liberties

CursorFirst == NoPast /\ cursor # NoNode =>
  \A m \in Nodes : nst[m] = "tree" => nts[cursor] <= nts[m]

\* What a client leaves in the tree was there before, or is later than what is run.
LEMMA ClientTree ==
  ASSUME IInv, NoPast, Client
  PROVE  /\ InClient /\ cursor' = cursor
         /\ \A m \in Nodes : nst'[m] = "tree" =>
              /\ nst[m] = "tree" => nts'[m] = nts[m]
              /\ nst[m] # "tree" /\ pc = "cb" => nts'[m] > curTs
  <1> DEFINE Kept == /\ InClient /\ cursor' = cursor
                     /\ \A m \in Nodes : nst'[m] = "tree" =>
                          /\ nst[m] = "tree" => nts'[m] = nts[m]
                          /\ nst[m] # "tree" /\ pc = "cb" => nts'[m] > curTs
  <1>0. ASSUME NEW t \in Time, NEW fresh \in Nodes, NEW tn \in Nodes, MayAsk(t),
               fresh \in RbtreeNodeNew(nst), InsertsAs(fresh, t, tn),
               NEW m \in Nodes, TreeWith(fresh, tn)[m] = "tree"
        PROVE  /\ nst[m] = "tree" => StampWith(fresh, t, tn)[m] = nts[m]
               /\ nst[m] # "tree" /\ pc = "cb" => StampWith(fresh, t, tn)[m] > curTs
    <2>1. /\ StampWith(fresh, t, tn)[tn] = t
          /\ nst[m] = "tree" => StampWith(fresh, t, tn)[m] = nts[m]
          /\ m = tn \/ nst[m] = "tree"
      BY <1>0, InsertNode DEF IInv
    <2>2. QED BY <1>0, <2>1 DEF MayAsk, NoPast
  <1>1. ASSUME NEW t \in Time, NEW fresh \in Nodes, NEW tn \in Nodes, NEW p \in Points,
               NewPoint(t, fresh, tn, p)
        PROVE  Kept
    BY <1>0, <1>1 DEF NewPoint, loopVars
  <1>2. ASSUME NEW t \in Time, NEW fresh \in Nodes, NEW tn \in Nodes, NewPointNoMem(t, fresh, tn)
        PROVE  Kept
    BY <1>0, <1>2 DEF NewPointNoMem, loopVars
  <1>3. ASSUME NEW p \in Points, DelPoint(p) PROVE Kept
    <2>1. CASE p = running
      BY <1>3, <2>1 DEF DelPoint, nodeVars, loopVars
    <2>2. CASE p # running
      <3> DEFINE list == [inl EXCEPT ![p] = NoList]
      <3>1. /\ nst' = CheckDelSt(nst, ref[p], list) /\ nts' = CheckDelTs(nts, ref[p], list)
            /\ InClient /\ cursor' = cursor
        BY <1>3, <2>2 DEF DelPoint, loopVars
      <3>2. /\ ref[p] \in Nodes \cup {NoNode} /\ nst \in [Nodes -> NStates]
            /\ nts \in [Nodes -> Time]
        BY DEF IInv, TypeOK, NStates
      <3> HIDE DEF list
      <3>3. \A m \in Nodes : nst'[m] = "tree" => nst[m] = "tree" /\ nts'[m] = nts[m]
        BY <3>1, <3>2, CheckDel
      <3>4. QED BY <3>1, <3>3
    <2>3. QED BY <2>1, <2>2
  <1>4. ASSUME NEW p \in Points, NEW t \in Time, NEW fresh \in Nodes, NEW tn \in Nodes,
               PointReset(p, t, fresh, tn)
        PROVE  Kept
    <2> DEFINE st == TreeWith(fresh, tn)  ts == StampWith(fresh, t, tn)
               list == [inl EXCEPT ![p] = NoList]
    <2>1. /\ \/ nst' = st /\ nts' = ts
             \/ nst' = CheckDelSt(st, ref[p], list) /\ nts' = CheckDelTs(ts, ref[p], list)
          /\ InClient /\ cursor' = cursor
      <3>1. CASE ref[p] = tn \/ p = running
        BY <1>4, <3>1 DEF PointReset, loopVars
      <3>2. CASE ~(ref[p] = tn \/ p = running)
        BY <1>4, <3>2 DEF PointReset, loopVars
      <3>3. QED BY <3>1, <3>2
    <2>2. MayAsk(t) /\ fresh \in RbtreeNodeNew(nst) /\ InsertsAs(fresh, t, tn)
      BY <1>4 DEF PointReset
    <2>3. /\ ref[p] \in Nodes \cup {NoNode}
          /\ st \in [Nodes -> NStates] /\ ts \in [Nodes -> Time]
      BY <2>2, InsertNode DEF IInv, TypeOK
    <2>4. \A m \in Nodes : st[m] = "tree" =>
             /\ nst[m] = "tree" => ts[m] = nts[m]
             /\ nst[m] # "tree" /\ pc = "cb" => ts[m] > curTs
      BY <1>0, <2>2
    <2> HIDE DEF st, ts, list
    <2>5. \A m \in Nodes : nst'[m] = "tree" => st[m] = "tree" /\ nts'[m] = ts[m]
      BY <2>1, <2>3, CheckDel
    <2>6. QED BY <2>1, <2>4, <2>5
  <1>5. ASSUME UpdateCurTs PROVE Kept
    BY <1>5 DEF UpdateCurTs, nodeVars
  <1> HIDE DEF Kept
  <1>6. Kept
    BY <1>1, <1>2, <1>3, <1>4, <1>5 DEF Client
  <1>7. QED BY <1>6 DEF Kept

\* Every step keeps the tnode that is run the earliest one.
LEMMA NextFirst ==
  ASSUME Disciplined, IInv, CursorFirst, [Next]_vars
  PROVE  CursorFirst'
  <1> SUFFICES ASSUME NoPast, cursor' # NoNode, NEW m \in Nodes, nst'[m] = "tree"
               PROVE  nts'[cursor'] <= nts'[m]
    BY DEF CursorFirst
  <1>0. /\ \A n \in Nodes : nts[n] \in Int
        /\ curTs \in Int
    BY TimerConstants DEF IInv, TypeOK, Time
  <1>1. CASE UNCHANGED <<cursor, nst, nts>>
    BY <1>1 DEF CursorFirst
  <1>2. CASE Client
    <2>1. InClient /\ cursor' = cursor
      BY <1>2, ClientTree
    <2>2. cursor \in Nodes /\ nts[cursor] <= curTs /\ nst[cursor] = "tree"
      BY <2>1 DEF IInv, TypeOK, ControlInv, NoDanglingNode
    <2>3. pc = "cb"
      BY <2>1, <2>2, TimerConstants DEF InClient, IInv, ControlInv
    <2>4. IInv'
      BY NextIInv
    <2>5. nst'[cursor] = "tree" /\ nts'[m] \in Int
      BY <2>1, <2>2, <2>4, TimerConstants DEF IInv, NoDanglingNode, TypeOK, Time
    <2>6. nts'[cursor] = nts[cursor]
      BY <1>2, <2>2, <2>5, ClientTree
    <2>7. CASE nst[m] = "tree"
      BY <1>2, <2>1, <2>2, <2>6, <2>7, ClientTree DEF CursorFirst
    <2>8. CASE nst[m] # "tree"
      <3>1. nts'[m] > curTs
        BY <1>2, <2>3, <2>8, ClientTree
      <3>2. QED BY <1>0, <2>1, <2>2, <2>5, <2>6, <3>1
    <2>9. QED BY <2>7, <2>8
  <1>3. ASSUME NEW n \in Nodes, RunDue(n) PROVE nts'[cursor'] <= nts'[m]
    BY <1>3 DEF RunDue, IsMin, Tree, nodeVars
  <1>4. ASSUME NEW n \in Nodes, RunNext(n) PROVE nts'[cursor'] <= nts'[m]
    <2>1. /\ cursor' = n /\ n \in Tree /\ nts[n] > nts[cursor] /\ cursor \in Nodes
          /\ \A k \in Tree : nts[k] > nts[cursor] => nts[n] <= nts[k]
          /\ nst' = RbtreeNodeDel(nst, cursor) /\ nts' = [nts EXCEPT ![cursor] = 0]
      BY <1>4 DEF RunNext, IsNext, DropCursor, IInv, ControlInv, TypeOK
    <2>2. m # cursor /\ nst[m] = "tree" /\ n \in Nodes /\ n # cursor
      BY <1>0, <2>1, NodeDel DEF IInv, TypeOK, NStates, Tree
    <2>3. nts[cursor] <= nts[m] /\ nts[m] # nts[cursor]
      BY <2>1, <2>2, TimerConstants DEF CursorFirst, IInv, UniqueTs, NoDanglingNode
    <2>4. nts[n] <= nts[m]
      BY <1>0, <2>1, <2>2, <2>3 DEF Tree
    <2>5. QED BY <2>1, <2>2, <2>4 DEF IInv, TypeOK
  <1>5. CASE RunUntil
    BY <1>1, <1>3, <1>4, <1>5 DEF RunUntil, RunNothing, RunEnd, Fire, nodeVars
  <1>6. CASE Callback
    BY <1>1, <1>6 DEF Callback, CbKeep, CbFree, nodeVars
  <1>7. CASE WaitEvents \/ WakeEvent \/ WakeTimeout \/ Tick \/ UNCHANGED vars
    BY <1>1, <1>7 DEF WaitEvents, WakeEvent, WakeTimeout, EndWait, Tick, nodeVars, loopVars, vars
  <1>8. CASE TimerDestroy
    BY <1>8 DEF TimerDestroy
  <1>9. QED BY <1>2, <1>5, <1>6, <1>7, <1>8 DEF Next

\* When run_until returns, no point that was due by the cur_ts it read last is left.
THEOREM RoundsComplete == ASSUME Disciplined, OtherTs PROVE Spec => RoundComplete
  <1> DEFINE RoundInv == SchedInv /\ CursorFirst
             Complete == pc = "run" /\ pc' = "idle" /\ "past" \notin Liberties =>
                           \A p \in Points : due[p] = Off \/ due[p] > curTs
  <1>1. Init => CursorFirst
    BY DEF Init, CursorFirst
  <1>2. SchedInv /\ CursorFirst /\ [Next]_vars => CursorFirst'
    BY NextFirst DEF SchedInv
  <1>3. ASSUME RoundInv, Next PROVE Complete
    <2> SUFFICES ASSUME pc = "run", pc' = "idle", NoPast, NEW p \in Points, due[p] # Off
                 PROVE  due[p] > curTs
      BY DEF NoPast
    <2>1. RunEnd
      <3>1. ~Client
        <4>1. ASSUME NEW q \in Points, DelPoint(q) PROVE FALSE
          BY <4>1 DEF DelPoint, InClient
        <4>2. ASSUME NEW q \in Points, NEW t \in Time, NEW fresh \in Nodes,
                     NEW tn \in Nodes, PointReset(q, t, fresh, tn)
              PROVE  FALSE
          BY <4>2 DEF PointReset, InClient
        <4>3. QED BY <4>1, <4>2 DEF Client, NewPoint, NewPointNoMem, UpdateCurTs, InClient
      <3>2. QED
        BY <1>3, <3>1 DEF Next, TimerDestroy, WaitEvents, WakeEvent, WakeTimeout, EndWait,
           RunUntil, RunDue, RunNext, RunNothing, Fire, Callback, CbKeep, CbFree, Tick, loopVars
    <2>2. running = NoPoint /\ cursor \in Nodes
      BY <1>3 DEF SchedInv, IInv, ControlInv, TypeOK
    <2>3. inl[p] \in Nodes /\ due[p] = nts[inl[p]]
      BY <1>3, <2>2, TimerConstants DEF SchedInv, ScheduledAsAsked, Scheduled
    <2>4. inl[p] \in Tree /\ inl[p] # cursor
      BY <1>3, <2>1, <2>3, TimerConstants DEF RunEnd, DropCursor, On, SchedInv, IInv, ListInv,
         NoDanglingNode, Tree
    <2>5. nts[cursor] <= nts[inl[p]] /\ nts[inl[p]] # nts[cursor]
      BY <1>3, <2>2, <2>3, <2>4, TimerConstants DEF CursorFirst, SchedInv, IInv, UniqueTs,
         NoDanglingNode, Tree
    <2>6. nts[cursor] \in Int /\ nts[inl[p]] \in Int
      BY <1>3, <2>2, <2>3, TimerConstants DEF SchedInv, IInv, TypeOK, Time
    <2>7. QED BY <2>1, <2>3, <2>4, <2>5, <2>6 DEF RunEnd
  <1>4. RoundInv /\ [Next]_vars => [Complete]_vars
    BY <1>3
  <1>5. QED
    BY <1>1, <1>2, <1>4, SchedInvariance, PTL DEF Spec, RoundComplete

-----------------------------------------------------------------------------
(***************************************************************************)
(* The memory.  That neb_evdp_timer_destroy frees every point rests on     *)
(* IInv: a point in use is on a list of a tnode that is in the tree, or on *)
(* keeplist, or runs.  The caches may have any size, 0 too.                *)
(***************************************************************************)
\* What a cache array holds: of the tnodes, or of the points.
CachedIn(S, st) == {x \in S : st[x] = "cache"}

CacheInv ==
  /\ Cardinality(CachedIn(Nodes, nst)) <= TcacheSize
  /\ Cardinality(CachedIn(Points, pst)) <= LcacheSize
-----------------------------------------------------------------------------
\* A table with no more in the cache than another stays within the bound.
LEMMA FewerCached ==
  ASSUME NEW S, IsFiniteSet(S), NEW st, NEW st2, NEW size \in Nat,
         Cardinality(CachedIn(S, st)) <= size,
         \A x \in S : st2[x] = "cache" => st[x] = "cache"
  PROVE  Cardinality(CachedIn(S, st2)) <= size
  <1>1. CachedIn(S, st) \in SUBSET S /\ CachedIn(S, st2) \in SUBSET CachedIn(S, st)
    BY DEF CachedIn
  <1>2. IsFiniteSet(CachedIn(S, st))
    BY <1>1, FS_Subset
  <1>3. /\ IsFiniteSet(CachedIn(S, st2))
        /\ Cardinality(CachedIn(S, st2)) <= Cardinality(CachedIn(S, st))
    BY <1>1, <1>2, FS_Subset
  <1>4. Cardinality(CachedIn(S, st)) \in Nat /\ Cardinality(CachedIn(S, st2)) \in Nat
    BY <1>2, <1>3, FS_CardinalityType
  <1>5. QED BY <1>3, <1>4

\* What rbtree_node_del and cblist_node_free have in common: one item goes to the
\* cache if it has room, else back to the allocator.
LEMMA OneMoreCached ==
  ASSUME NEW S, IsFiniteSet(S), NEW st, NEW st2, NEW size \in Nat, NEW x \in S,
         Cardinality(CachedIn(S, st)) <= size,
         \A y \in S \ {x} : st2[y] = st[y],
         st2[x] = IF Cardinality(CachedIn(S, st)) < size THEN "cache" ELSE "free"
  PROVE  Cardinality(CachedIn(S, st2)) <= size
  <1>1. CASE Cardinality(CachedIn(S, st)) < size
    <2>1. CachedIn(S, st2) = CachedIn(S, st) \cup {x}
      BY <1>1 DEF CachedIn
    <2>2. CachedIn(S, st) \in SUBSET S
      BY DEF CachedIn
    <2>3. IsFiniteSet(CachedIn(S, st)) /\ Cardinality(CachedIn(S, st)) \in Nat
      BY <2>2, FS_Subset, FS_CardinalityType
    <2>4. \/ Cardinality(CachedIn(S, st2)) = Cardinality(CachedIn(S, st))
          \/ Cardinality(CachedIn(S, st2)) = Cardinality(CachedIn(S, st)) + 1
      BY <2>1, <2>3, FS_AddElement
    <2>5. QED BY <1>1, <2>3, <2>4
  <1>2. CASE ~(Cardinality(CachedIn(S, st)) < size)
    BY <1>2, FewerCached
  <1>3. QED BY <1>1, <1>2

\* The tables are finite and the caches have sizes.
LEMMA Sizes ==
  IsFiniteSet(Nodes) /\ IsFiniteSet(Points) /\ TcacheSize \in Nat /\ LcacheSize \in Nat
  BY TimerConstants

\* evdp_timer_rbtree_node_del does not overfill the cache of tnodes.
LEMMA NodeDelCached ==
  ASSUME NEW st \in [Nodes -> NStates], NEW n \in Nodes,
         Cardinality(CachedIn(Nodes, st)) <= TcacheSize
  PROVE  Cardinality(CachedIn(Nodes, RbtreeNodeDel(st, n))) <= TcacheSize
  <1> DEFINE st2 == RbtreeNodeDel(st, n)
  <1>1. /\ \A y \in Nodes \ {n} : st2[y] = st[y]
        /\ st2[n] = IF Cardinality(CachedIn(Nodes, st)) < TcacheSize THEN "cache" ELSE "free"
    BY DEF RbtreeNodeDel, CachedIn
  <1> HIDE DEF st2
  <1>2. Cardinality(CachedIn(Nodes, st2)) <= TcacheSize
    BY <1>1, Sizes, OneMoreCached
  <1>3. QED BY <1>2 DEF st2

\* evdp_timer_cblist_node_free does not overfill the cache of points.
LEMMA PointFreeCached ==
  ASSUME TypeOK, CacheInv, NEW p \in Points
  PROVE  Cardinality(CachedIn(Points, CblistNodeFree(p))) <= LcacheSize
  <1> DEFINE st2 == CblistNodeFree(p)
  <1>1. /\ \A y \in Points \ {p} : st2[y] = pst[y]
        /\ st2[p] = IF Cardinality(CachedIn(Points, pst)) < LcacheSize THEN "cache" ELSE "free"
    BY DEF CblistNodeFree, CachedIn, TypeOK
  <1> HIDE DEF st2
  <1>2. Cardinality(CachedIn(Points, st2)) <= LcacheSize
    BY <1>1, Sizes, OneMoreCached DEF CacheInv
  <1>3. QED BY <1>2 DEF st2

\* rbtree_node_new and insert_node do not overfill it: the node they took from the cache
\* goes back at most.
LEMMA InsertCached ==
  ASSUME TypeOK, CacheInv, NEW fresh \in Nodes, NEW tn \in Nodes
  PROVE  /\ TreeWith(fresh, tn) \in [Nodes -> NStates]
         /\ Cardinality(CachedIn(Nodes, TreeWith(fresh, tn))) <= TcacheSize
  <1>1. CASE tn = fresh
    <2> DEFINE st2 == [nst EXCEPT ![fresh] = "tree"]
    <2>1. st2 \in [Nodes -> NStates] /\ \A x \in Nodes : st2[x] = "cache" => nst[x] = "cache"
      BY DEF TypeOK, NStates
    <2>2. TreeWith(fresh, tn) = st2
      BY <1>1 DEF TreeWith
    <2> HIDE DEF st2
    <2>3. QED BY <2>1, <2>2, Sizes, FewerCached DEF CacheInv
  <1>2. CASE tn # fresh
    <2> DEFINE st2 == [nst EXCEPT ![fresh] = "free"]
    <2>1. st2 \in [Nodes -> NStates] /\ \A x \in Nodes : st2[x] = "cache" => nst[x] = "cache"
      BY DEF TypeOK, NStates
    <2>2. TreeWith(fresh, tn) = RbtreeNodeDel(st2, fresh)
      BY <1>2 DEF TreeWith
    <2> HIDE DEF st2
    <2>3. Cardinality(CachedIn(Nodes, st2)) <= TcacheSize
      BY <2>1, Sizes, FewerCached DEF CacheInv
    <2>4. QED BY <2>1, <2>2, <2>3, NodeDel, NodeDelCached
  <1>3. QED BY <1>1, <1>2

\* evdp_timer_rbtree_node_check_del does not overfill it.
LEMMA CheckDelCached ==
  ASSUME NEW st \in [Nodes -> NStates], NEW n \in Nodes \cup {NoNode}, NEW list,
         Cardinality(CachedIn(Nodes, st)) <= TcacheSize
  PROVE  Cardinality(CachedIn(Nodes, CheckDelSt(st, n, list))) <= TcacheSize
  <1>1. CASE CheckDels(n, list)
    BY <1>1, NodeDelCached DEF CheckDelSt, CheckDels
  <1>2. CASE ~CheckDels(n, list)
    BY <1>2 DEF CheckDelSt
  <1>3. QED BY <1>1, <1>2
-----------------------------------------------------------------------------
\* No call of a client overfills a cache.
LEMMA ClientCache ==
  ASSUME TypeOK, CacheInv, Client
  PROVE  CacheInv'
  <1>1. ASSUME NEW t \in Time, NEW fresh \in Nodes, NEW tn \in Nodes, NEW p \in Points,
               NewPoint(t, fresh, tn, p)
        PROVE  CacheInv'
    <2>1. nst' = TreeWith(fresh, tn) /\ pst' = [pst EXCEPT ![p] = "live"]
      BY <1>1 DEF NewPoint
    <2>2. \A x \in Points : pst'[x] = "cache" => pst[x] = "cache"
      BY <2>1 DEF TypeOK
    <2>3. Cardinality(CachedIn(Points, pst')) <= LcacheSize
      BY <2>2, Sizes, FewerCached DEF CacheInv
    <2>4. QED BY <2>1, <2>3, InsertCached DEF CacheInv
  <1>2. ASSUME NEW t \in Time, NEW fresh \in Nodes, NEW tn \in Nodes,
               NewPointNoMem(t, fresh, tn)
        PROVE  CacheInv'
    BY <1>2, InsertCached DEF NewPointNoMem, CacheInv, pointVars
  <1>3. ASSUME NEW p \in Points, DelPoint(p) PROVE CacheInv'
    <2>1. CASE p = running
      BY <1>3, <2>1 DEF DelPoint, nodeVars, CacheInv
    <2>2. CASE p # running
      <3> DEFINE list == [inl EXCEPT ![p] = NoList]
      <3>1. nst' = CheckDelSt(nst, ref[p], list) /\ pst' = CblistNodeFree(p)
        BY <1>3, <2>2 DEF DelPoint
      <3>2. nst \in [Nodes -> NStates] /\ ref[p] \in Nodes \cup {NoNode}
        BY DEF TypeOK, NStates
      <3> HIDE DEF list
      <3>3. Cardinality(CachedIn(Nodes, nst')) <= TcacheSize
        BY <3>1, <3>2, CheckDelCached DEF CacheInv
      <3>4. QED BY <3>1, <3>3, PointFreeCached DEF CacheInv
    <2>3. QED BY <2>1, <2>2
  <1>4. ASSUME NEW t \in Time, NEW fresh \in Nodes, NEW tn \in Nodes, NEW p \in Points,
               PointReset(p, t, fresh, tn)
        PROVE  CacheInv'
    <2> DEFINE st == TreeWith(fresh, tn)  list == [inl EXCEPT ![p] = NoList]
    <2>1. UNCHANGED pst /\ (nst' = st \/ nst' = CheckDelSt(st, ref[p], list))
      BY <1>4 DEF PointReset
    <2>2. st \in [Nodes -> NStates] /\ Cardinality(CachedIn(Nodes, st)) <= TcacheSize
      BY InsertCached
    <2>3. ref[p] \in Nodes \cup {NoNode}
      BY DEF TypeOK
    <2> HIDE DEF st, list
    <2>4. QED BY <2>1, <2>2, <2>3, CheckDelCached DEF CacheInv
  <1>5. CASE UpdateCurTs
    BY <1>5 DEF UpdateCurTs, nodeVars, pointVars, CacheInv
  <1>6. QED BY <1>1, <1>2, <1>3, <1>4, <1>5 DEF Client

\* No step overfills a cache, with callbacks of any discipline.
LEMMA NextCache ==
  ASSUME TypeOK, ControlInv, CacheInv, [Next]_vars
  PROVE  CacheInv'
  <1>1. CASE UNCHANGED <<nst, pst>>
    BY <1>1 DEF CacheInv
  <1>2. CASE TimerDestroy
    <2>1. /\ \A x \in Nodes : nst'[x] = "cache" => nst[x] = "cache"
          /\ \A x \in Points : pst'[x] = "cache" => pst[x] = "cache"
      BY <1>2 DEF TimerDestroy, TypeOK
    <2>2. QED BY <2>1, Sizes, FewerCached DEF CacheInv
  <1>3. ASSUME NEW p \in Points, NEW ret, CbFree(p, ret) PROVE CacheInv'
    BY <1>3, PointFreeCached DEF CbFree, nodeVars, CacheInv
  <1>4. CASE RunEnd \/ \E n \in Nodes : RunNext(n)
    <2>1. DropCursor /\ UNCHANGED pst
      BY <1>4 DEF RunEnd, RunNext, pointVars
    <2>2. cursor \in Nodes /\ nst \in [Nodes -> NStates]
      BY <2>1 DEF DropCursor, TypeOK, ControlInv, NStates
    <2>3. QED BY <2>1, <2>2, NodeDelCached DEF DropCursor, CacheInv
  <1>5. CASE RunUntil
    BY <1>1, <1>4, <1>5 DEF RunUntil, RunDue, RunNothing, Fire, nodeVars, pointVars
  <1>6. CASE Callback
    BY <1>1, <1>3, <1>6 DEF Callback, CbKeep, nodeVars
  <1>7. CASE WaitEvents \/ WakeEvent \/ WakeTimeout \/ Tick \/ UNCHANGED vars
    BY <1>1, <1>7 DEF WaitEvents, WakeEvent, WakeTimeout, EndWait, Tick, nodeVars, pointVars, vars
  <1>8. QED BY <1>2, <1>5, <1>6, <1>7, ClientCache DEF Next

\* neb_evdp_timer_destroy frees the points of the tree, of keeplist and of the cache,
\* and nothing is called afterwards.
LEMMA NextFreed ==
  ASSUME IInv, DestroyFreesAll, [Next]_vars
  PROVE  DestroyFreesAll'
  <1> SUFFICES ASSUME pc' = "dead" PROVE \A p \in Points : pst'[p] = "free"
    BY DEF DestroyFreesAll
  <1>1. CASE TimerDestroy
    <2> SUFFICES ASSUME NEW p \in Points PROVE pst'[p] = "free"
      OBVIOUS
    <2>1. running = NoPoint /\ p # running
      BY <1>1, TimerConstants DEF TimerDestroy, IInv, ControlInv
    <2>2. pst[p] = "live" => inl[p] \in Tree \cup {KeepList}
      BY <2>1, TimerConstants DEF IInv, ListInv, NoDanglingNode, TypeOK, Tree
    <2>3. pst[p] \in {"live", "cache", "free"}
      BY DEF IInv, TypeOK
    <2>4. QED BY <1>1, <2>2, <2>3 DEF TimerDestroy
  <1>2. CASE UNCHANGED vars
    BY <1>2 DEF vars, DestroyFreesAll
  <1>3. CASE Client
    <2>1. ASSUME NEW p \in Points, DelPoint(p) PROVE InClient /\ UNCHANGED pc
      BY <2>1 DEF DelPoint, loopVars
    <2>2. ASSUME NEW p \in Points, NEW t \in Time, NEW fresh \in Nodes,
                 NEW tn \in Nodes, PointReset(p, t, fresh, tn)
          PROVE  InClient /\ UNCHANGED pc
      BY <2>2 DEF PointReset, loopVars
    <2>3. InClient /\ UNCHANGED pc
      BY <1>3, <2>1, <2>2 DEF Client, NewPoint, NewPointNoMem, UpdateCurTs, loopVars
    <2>4. QED BY <2>3 DEF InClient
  <1>4. CASE WaitEvents \/ WakeEvent \/ WakeTimeout \/ Tick
    BY <1>4 DEF WaitEvents, WakeEvent, WakeTimeout, EndWait, Tick, loopVars
  <1>5. CASE RunUntil \/ Callback
    BY <1>5 DEF RunUntil, RunDue, RunNext, RunNothing, RunEnd, DropCursor, Fire, Callback,
       CbKeep, CbFree
  <1>6. QED BY <1>1, <1>2, <1>3, <1>4, <1>5 DEF Next

\* Neither cache array of timer.c is written beyond its size, a timestamp has one tnode,
\* and a destroyed timer leaves no point allocated, when callbacks that reset their own
\* point leave other points alone afterwards.
THEOREM MemoryCorrect == ASSUME Disciplined PROVE Spec => []MemorySound
  <1> DEFINE MemInv == IInv /\ CacheInv /\ DestroyFreesAll
  <1>1. Init => MemInv
    <2> SUFFICES ASSUME Init PROVE MemInv
      OBVIOUS
    <2>1. CachedIn(Nodes, nst) = {} /\ CachedIn(Points, pst) = {}
      BY DEF Init, CachedIn
    <2>2. CacheInv
      BY <2>1, FS_EmptySet, TimerConstants DEF CacheInv
    <2>3. DestroyFreesAll
      BY DEF Init, DestroyFreesAll
    <2>4. QED BY <2>2, <2>3, InitIInv
  <1>2. MemInv /\ [Next]_vars => MemInv'
    BY NextIInv, NextCache, NextFreed DEF IInv
  <1>3. MemInv => MemorySound
    BY DEF MemorySound, NodesSound, CacheInv, CachedIn, IInv, UniqueTs, Tree
  <1> HIDE DEF MemInv
  <1>4. QED BY <1>1, <1>2, <1>3, PTL DEF Spec
=============================================================================
