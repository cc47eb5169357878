----------------------------- MODULE EvdpTimer -----------------------------
(***************************************************************************)
(* The user timer of the event dispatcher (evdp/timer.c), driven by the    *)
(* loop of neb_evdp_queue_run (evdp/core.c).                               *)
(*                                                                         *)
(* A timer is a red-black tree of tnodes, one for each distinct timestamp. *)
(* A tnode holds the list (cblist) of the points that expire then; a point *)
(* that fired and was kept is on keeplist.  Removed tnodes and points go   *)
(* to a bounded cache, or back to the allocator when the cache is full.    *)
(*                                                                         *)
(* Abstracted: a list is the set of its members (no property depends on    *)
(* the order within one timestamp), a cache is the set of what it holds,   *)
(* and calloc fails exactly when every address is in use.                  *)
(***************************************************************************)
EXTENDS Integers, FiniteSets

CONSTANTS
  Points,      \* addresses of struct evdp_timer_cblist_node
  Nodes,       \* addresses of struct evdp_timer_rbtree_node
  NoPoint, NoNode, KeepList, NoList,
  TcacheSize, LcacheSize,
  MaxTime,     \* bound of the clock and of every requested timestamp
  Liberties    \* what timeout callbacks may do beyond the base discipline:
               \*  "past"   ask for a timestamp that has already been reached
               \*  "sameTs" reset their own point to the timestamp being run
               \*  "cross"  delete or reset another point after they have
               \*           reset their own

ASSUME TimerConstants ==
  /\ IsFiniteSet(Points) /\ IsFiniteSet(Nodes)
  /\ NoPoint \notin Points
  /\ NoNode \notin Nodes /\ KeepList \notin Nodes /\ NoList \notin Nodes
  /\ KeepList # NoList /\ KeepList # NoNode /\ NoList # NoNode
  /\ TcacheSize \in Nat /\ LcacheSize \in Nat /\ MaxTime \in Nat
  /\ Liberties \subseteq {"past", "sameTs", "cross"}

VARIABLES
  now,       \* the clock read by neb_time_gettime_fast
  curTs,     \* q->cur_ts, which run_until reads through a pointer
  pc,        \* where the thread of the queue is
  deadline,  \* when the current wait times out
  nst, nts,  \* tnodes: where each one is, and the timestamp of those in the tree
  pst,       \* points: in use, cached or free
  inl,       \* the list a point is on: a tnode's cblist, keeplist or none
  ref,       \* ref_tnode of each point
  cursor,    \* tn of run_until: the tnode being run
  running,   \* the point whose callback runs (ln->running)
  due        \* what the client asked for: the expiry of each point, or Off

vars == <<now, curTs, pc, deadline, nst, nts, pst, inl, ref, cursor, running, due>>
nodeVars  == <<nst, nts>>
pointVars == <<pst, inl, ref, due>>
loopVars  == <<curTs, pc, deadline, cursor, running>>

Time == 0 .. MaxTime
Off == -1
Forever == -1

Tree == {n \in Nodes : nst[n] = "tree"}
On(n) == {p \in Points : inl[p] = n}

(***************************************************************************)
(* Node management.  The operators take the tables they work on, because a *)
(* single call of the API allocates, inserts and removes.                  *)
(***************************************************************************)

\* evdp_timer_rbtree_node_new: the nodes it may return, {} when calloc fails.
RbtreeNodeNew(st) ==
  LET cached == {n \in Nodes : st[n] = "cache"}
  IN  IF cached # {} THEN cached ELSE {n \in Nodes : st[n] = "free"}

\* Mutant: "<=" for "<" against the size of the cache.
BugCacheOffByOne(st, n) ==
  [st EXCEPT ![n] =
     IF Cardinality({m \in Nodes : st[m] = "cache"}) <= TcacheSize
     THEN "cache" ELSE "free"]

\* evdp_timer_rbtree_node_del: the node goes to the cache unless it is full.
RbtreeNodeDel(st, n) ==
  [st EXCEPT ![n] =
     IF Cardinality({m \in Nodes : st[m] = "cache"}) < TcacheSize
     THEN "cache" ELSE "free"]

\* evdp_timer_cblist_node_new and evdp_timer_cblist_node_free.
CblistNodeNew ==
  LET cached == {p \in Points : pst[p] = "cache"}
  IN  IF cached # {} THEN cached ELSE {p \in Points : pst[p] = "free"}

CblistNodeFree(p) ==
  [pst EXCEPT ![p] =
     IF Cardinality({m \in Points : pst[m] = "cache"}) < LcacheSize
     THEN "cache" ELSE "free"]

(***************************************************************************)
(* rbtree_node_new followed by rb_tree_insert_node: fresh is the node just *)
(* allocated, tn the one that ends up in the tree for timestamp t.  When   *)
(* one was there already the fresh node is given up again.                 *)
(***************************************************************************)
InsertsAs(fresh, t, tn) ==
  \/ tn \in Tree /\ nts[tn] = t
  \/ tn = fresh /\ \A n \in Tree : nts[n] # t

TreeWith(fresh, tn) ==
  IF tn = fresh THEN [nst EXCEPT ![fresh] = "tree"]
                ELSE RbtreeNodeDel([nst EXCEPT ![fresh] = "free"], fresh)

\* Mutant: the timestamp is not copied into the new node.
BugNoStamp(fresh, t, tn) == nts

StampWith(fresh, t, tn) == IF tn = fresh THEN [nts EXCEPT ![fresh] = t] ELSE nts

\* Mutant: no_auto_del is not honoured.
BugAutoDel(n, list) == n # NoNode /\ \A p \in Points : list[p] # n

(***************************************************************************)
(* evdp_timer_rbtree_node_check_del(tn) against the tables st, ts: a tnode *)
(* nobody is on any more leaves the tree, unless run_until holds it        *)
(* (no_auto_del, set exactly while tn is its cursor).                      *)
(***************************************************************************)
CheckDels(n, list) == n # NoNode /\ n # cursor /\ \A p \in Points : list[p] # n

CheckDelSt(st, n, list) == IF CheckDels(n, list) THEN RbtreeNodeDel(st, n) ELSE st

\* The stamp of a node outside the tree is never read: forget it.
CheckDelTs(ts, n, list) == IF CheckDels(n, list) THEN [ts EXCEPT ![n] = 0] ELSE ts

-----------------------------------------------------------------------------
(***************************************************************************)
(* The client.  It runs in event handlers ("events"), between rounds       *)
(* ("idle") and in timeout callbacks ("cb").                               *)
(***************************************************************************)
InClient == pc \in {"events", "idle", "cb"}

\* The running point has been reset in its callback and hangs on ref alone.
Detached == pc = "cb" /\ ref[running] \notin {NoNode, cursor}

MayAsk(t) == pc = "cb" => t > curTs \/ "past" \in Liberties

MayTouch(p) == (Detached /\ p # running) => "cross" \in Liberties

\* A point may be named while the client still owns it.
Owned(p) == pst[p] = "live" /\ ~(p = running /\ ref[p] = NoNode)

\* neb_evdp_timer_new_point
NewPoint(t, fresh, tn, p) ==
  /\ InClient /\ MayAsk(t)
  /\ fresh \in RbtreeNodeNew(nst) /\ InsertsAs(fresh, t, tn)
  /\ nst' = TreeWith(fresh, tn) /\ nts' = StampWith(fresh, t, tn)
  /\ p \in CblistNodeNew
  /\ pst' = [pst EXCEPT ![p] = "live"]
  /\ ref' = [ref EXCEPT ![p] = tn]
  /\ inl' = [inl EXCEPT ![p] = tn]
  /\ due' = [due EXCEPT ![p] = t]
  /\ UNCHANGED <<now, loopVars>>

\* ... out of memory for the point: the tnode stays in the tree, empty.
NewPointNoMem(t, fresh, tn) ==
  /\ InClient /\ MayAsk(t)
  /\ fresh \in RbtreeNodeNew(nst) /\ InsertsAs(fresh, t, tn)
  /\ nst' = TreeWith(fresh, tn) /\ nts' = StampWith(fresh, t, tn)
  /\ CblistNodeNew = {}
  /\ UNCHANGED <<now, loopVars, pointVars>>

\* neb_evdp_timer_del_point
DelPoint(p) ==
  /\ InClient /\ Owned(p) /\ MayTouch(p)
  /\ due' = [due EXCEPT ![p] = Off]
  /\ IF p = running
     THEN /\ ref' = [ref EXCEPT ![p] = NoNode]
          /\ UNCHANGED <<nodeVars, pst, inl>>
     ELSE LET list == [inl EXCEPT ![p] = NoList]
          IN  /\ inl' = list
              /\ pst' = CblistNodeFree(p)
              /\ ref' = [ref EXCEPT ![p] = NoNode]
              /\ nst' = CheckDelSt(nst, ref[p], list)
              /\ nts' = CheckDelTs(nts, ref[p], list)
  /\ UNCHANGED <<now, loopVars>>

\* neb_evdp_timer_point_reset
PointReset(p, t, fresh, tn) ==
  /\ InClient /\ Owned(p) /\ MayTouch(p) /\ MayAsk(t)
  /\ p = running => t # nts[cursor] \/ "sameTs" \in Liberties
  /\ fresh \in RbtreeNodeNew(nst) /\ InsertsAs(fresh, t, tn)
  /\ due' = [due EXCEPT ![p] = t]
  /\ IF ref[p] = tn \/ p = running
     THEN /\ ref' = [ref EXCEPT ![p] = tn]
          /\ nst' = TreeWith(fresh, tn) /\ nts' = StampWith(fresh, t, tn)
          /\ UNCHANGED inl
     ELSE LET list == [inl EXCEPT ![p] = NoList]
          IN  /\ nst' = CheckDelSt(TreeWith(fresh, tn), ref[p], list)
              /\ nts' = CheckDelTs(StampWith(fresh, t, tn), ref[p], list)
              /\ ref' = [ref EXCEPT ![p] = tn]
              /\ inl' = [inl EXCEPT ![p] = tn]
  /\ UNCHANGED <<now, loopVars, pst>>

\* neb_evdp_queue_update_cur_ts, also from a callback inside run_until.
UpdateCurTs ==
  /\ InClient /\ curTs' = now
  /\ UNCHANGED <<now, pc, deadline, cursor, running, nodeVars, pointVars>>

\* Mutant: keeplist is forgotten.
BugDestroyKeeps ==
  /\ pc = "idle" /\ pc' = "dead"
  /\ nst' = [n \in Nodes |-> "free"] /\ nts' = [n \in Nodes |-> 0]
  /\ LET gone == {p \in Points : inl[p] \in Tree \/ pst[p] = "cache"}
     IN  /\ pst' = [p \in Points |-> IF p \in gone THEN "free" ELSE pst[p]]
         /\ inl' = [p \in Points |-> IF p \in gone THEN NoList ELSE inl[p]]
         /\ ref' = [p \in Points |-> IF p \in gone THEN NoNode ELSE ref[p]]
  /\ due' = [p \in Points |-> Off]
  /\ UNCHANGED <<now, curTs, deadline, cursor, running>>

\* neb_evdp_timer_destroy: tnodes with their points, keeplist, both caches.
TimerDestroy ==
  /\ pc = "idle" /\ pc' = "dead"
  /\ nst' = [n \in Nodes |-> "free"] /\ nts' = [n \in Nodes |-> 0]
  /\ LET gone == {p \in Points : inl[p] \in Tree \cup {KeepList} \/ pst[p] = "cache"}
     IN  /\ pst' = [p \in Points |-> IF p \in gone THEN "free" ELSE pst[p]]
         /\ inl' = [p \in Points |-> IF p \in gone THEN NoList ELSE inl[p]]
         /\ ref' = [p \in Points |-> IF p \in gone THEN NoNode ELSE ref[p]]
  /\ due' = [p \in Points |-> Off]
  /\ UNCHANGED <<now, curTs, deadline, cursor, running>>

-----------------------------------------------------------------------------
(***************************************************************************)
(* The loop: wait until the nearest timestamp, handle events, run what is  *)
(* due.                                                                    *)
(***************************************************************************)
IsMin(n) == n \in Tree /\ \A m \in Tree : nts[n] <= nts[m]
IsNext(n, tn) ==
  /\ n \in Tree /\ nts[n] > nts[tn]
  /\ \A m \in Tree : nts[m] > nts[tn] => nts[n] <= nts[m]

\* Mutant: any tnode (the root, say) instead of the minimum.
BugNotNearest(d) ==
  \/ Tree = {} /\ d = Forever
  \/ \E n \in Tree : d = IF nts[n] > now THEN nts[n] ELSE now

\* evdp_timer_fetch_neareast_ts, as the absolute end of the wait.
NearestTs(d) ==
  \/ Tree = {} /\ d = Forever
  \/ \E n \in Tree : IsMin(n) /\ d = IF nts[n] > now THEN nts[n] ELSE now

WaitEvents ==
  /\ pc = "idle" /\ pc' = "wait"
  /\ curTs' = now
  /\ deadline' \in Time \cup {Forever} /\ NearestTs(deadline')
  /\ UNCHANGED <<now, cursor, running, nodeVars, pointVars>>

EndWait ==
  /\ pc = "wait" /\ pc' = "events"
  /\ curTs' = now /\ deadline' = Forever
  /\ UNCHANGED <<now, cursor, running, nodeVars, pointVars>>

\* An event or a signal ends the wait at any time, the timeout when it is over.
WakeEvent == EndWait
WakeTimeout == deadline # Forever /\ now >= deadline /\ EndWait

\* Mutant: the first tnode is run whether it is due or not.
BugRunEarly(n) ==
  /\ pc = "events" /\ IsMin(n)
  /\ pc' = "run" /\ cursor' = n
  /\ UNCHANGED <<now, curTs, deadline, running, nodeVars, pointVars>>

\* evdp_timer_run_until, entry: go to the first tnode if it is due.
RunDue(n) ==
  /\ pc = "events" /\ IsMin(n) /\ nts[n] <= curTs
  /\ pc' = "run" /\ cursor' = n
  /\ UNCHANGED <<now, curTs, deadline, running, nodeVars, pointVars>>

RunNothing ==
  /\ pc = "events" /\ \A n \in Tree : nts[n] > curTs
  /\ pc' = "idle"
  /\ UNCHANGED <<now, curTs, deadline, cursor, running, nodeVars, pointVars>>

\* The inner loop takes a point off the list and calls it; ref_tnode is kept.
Fire(p) ==
  /\ pc = "run" /\ inl[p] = cursor
  /\ pc' = "cb" /\ running' = p
  /\ inl' = [inl EXCEPT ![p] = NoList]
  /\ due' = [due EXCEPT ![p] = Off]
  /\ UNCHANGED <<now, curTs, deadline, cursor, nodeVars, pst, ref>>

\* Mutant: the point is not given back.
BugLeakPoint(p, ret) ==
  /\ pc = "cb" /\ p = running
  /\ ref[p] = NoNode \/ ret = "FREE"
  /\ pc' = "run" /\ running' = NoPoint
  /\ ref' = [ref EXCEPT ![p] = NoNode]
  /\ due' = [due EXCEPT ![p] = Off]
  /\ UNCHANGED <<now, curTs, deadline, cursor, nodeVars, pst, inl>>

\* The callback returned and its point is freed: deleted in it, or FREE.
CbFree(p, ret) ==
  /\ pc = "cb" /\ p = running
  /\ ref[p] = NoNode \/ ret = "FREE"
  /\ pc' = "run" /\ running' = NoPoint
  /\ ref' = [ref EXCEPT ![p] = NoNode]
  /\ pst' = CblistNodeFree(p)
  /\ due' = [due EXCEPT ![p] = Off]
  /\ UNCHANGED <<now, curTs, deadline, cursor, nodeVars, inl>>

\* Mutant: no check whether the point was deleted in its callback.
BugKeepDeleted(p) ==
  /\ pc = "cb" /\ p = running
  /\ pc' = "run" /\ running' = NoPoint
  /\ IF ref[p] = cursor
     THEN /\ ref' = [ref EXCEPT ![p] = NoNode]
          /\ inl' = [inl EXCEPT ![p] = KeepList]
     ELSE inl' = [inl EXCEPT ![p] = ref[p]] /\ UNCHANGED ref
  /\ UNCHANGED <<now, curTs, deadline, cursor, nodeVars, pst, due>>

\* Mutant: a kept point always goes to keeplist, reset or not.
BugKeepForgetsReset(p) ==
  /\ pc = "cb" /\ p = running
  /\ ref[p] # NoNode
  /\ pc' = "run" /\ running' = NoPoint
  /\ ref' = [ref EXCEPT ![p] = NoNode]
  /\ inl' = [inl EXCEPT ![p] = KeepList]
  /\ UNCHANGED <<now, curTs, deadline, cursor, nodeVars, pst, due>>

\* The callback returned KEEP: to keeplist, or to the list it was reset to.
CbKeep(p) ==
  /\ pc = "cb" /\ p = running
  /\ ref[p] # NoNode
  /\ pc' = "run" /\ running' = NoPoint
  /\ IF ref[p] = cursor
     THEN /\ ref' = [ref EXCEPT ![p] = NoNode]
          /\ inl' = [inl EXCEPT ![p] = KeepList]
     ELSE inl' = [inl EXCEPT ![p] = ref[p]] /\ UNCHANGED ref
  /\ UNCHANGED <<now, curTs, deadline, cursor, nodeVars, pst, due>>

\* Mutant: one callback per tnode.
BugDropNonEmpty ==
  /\ pc = "run"
  /\ nst' = RbtreeNodeDel(nst, cursor)
  /\ nts' = [nts EXCEPT ![cursor] = 0]

\* The list is empty: drop the tnode and go to its successor while it is due.
DropCursor ==
  /\ pc = "run" /\ On(cursor) = {}
  /\ nst' = RbtreeNodeDel(nst, cursor)
  /\ nts' = [nts EXCEPT ![cursor] = 0]

RunNext(n) ==
  /\ DropCursor
  /\ IsNext(n, cursor) /\ nts[n] <= curTs
  /\ cursor' = n
  /\ UNCHANGED <<now, curTs, pc, deadline, running, pointVars>>

\* Mutant: one tnode per round.
BugOneNodeOnly ==
  /\ DropCursor
  /\ pc' = "idle" /\ cursor' = NoNode
  /\ UNCHANGED <<now, curTs, deadline, running, pointVars>>

RunEnd ==
  /\ DropCursor
  /\ \A n \in Tree : nts[n] > nts[cursor] => nts[n] > curTs
  /\ pc' = "idle" /\ cursor' = NoNode
  /\ UNCHANGED <<now, curTs, deadline, running, pointVars>>

Tick ==
  /\ pc # "dead" /\ now < MaxTime /\ now' = now + 1
  /\ UNCHANGED <<loopVars, nodeVars, pointVars>>

-----------------------------------------------------------------------------
\* neb_evdp_timer_create
Init ==
  /\ now = 0 /\ curTs = 0 /\ pc = "idle" /\ deadline = Forever
  /\ nst = [n \in Nodes |-> "free"] /\ nts = [n \in Nodes |-> 0]
  /\ pst = [p \in Points |-> "free"] /\ inl = [p \in Points |-> NoList]
  /\ ref = [p \in Points |-> NoNode] /\ due = [p \in Points |-> Off]
  /\ cursor = NoNode /\ running = NoPoint

Client ==
  \/ \E t \in Time, fresh, tn \in Nodes :
       \/ \E p \in Points : NewPoint(t, fresh, tn, p) \/ PointReset(p, t, fresh, tn)
       \/ NewPointNoMem(t, fresh, tn)
  \/ \E p \in Points : DelPoint(p)
  \/ UpdateCurTs

Callback ==
  \E p \in Points : CbKeep(p) \/ \E ret \in {"KEEP", "FREE"} : CbFree(p, ret)

RunUntil ==
  \/ \E n \in Nodes : RunDue(n) \/ RunNext(n)
  \/ RunNothing \/ RunEnd
  \/ \E p \in Points : Fire(p)

Next ==
  \/ Client \/ TimerDestroy
  \/ WaitEvents \/ WakeEvent \/ WakeTimeout
  \/ RunUntil \/ Callback
  \/ Tick

Spec == Init /\ [][Next]_vars

\* The thread keeps running, every callback returns and time passes; the client
\* may always do nothing.
Fairness ==
  /\ WF_vars(WaitEvents) /\ WF_vars(WakeTimeout)
  /\ WF_vars(RunUntil) /\ WF_vars(Callback)
  /\ WF_vars(Tick)

LiveSpec == Spec /\ Fairness
-----------------------------------------------------------------------------
\* The types of the timer's state: addresses stay addresses of their own pool.
TypeOK ==
  /\ now \in Time /\ curTs \in Time
  /\ pc \in {"idle", "wait", "events", "run", "cb", "dead"}
  /\ deadline \in Time \cup {Forever}
  /\ nst \in [Nodes -> {"tree", "cache", "free"}]
  /\ nts \in [Nodes -> Time]
  /\ pst \in [Points -> {"live", "cache", "free"}]
  /\ inl \in [Points -> Nodes \cup {KeepList, NoList}]
  /\ ref \in [Points -> Nodes \cup {NoNode}]
  /\ cursor \in Nodes \cup {NoNode}
  /\ running \in Points \cup {NoPoint}
  /\ due \in [Points -> Time \cup {Off}]

(***************************************************************************)
(* No point in use refers to a tnode outside the tree: neither a point on  *)
(* a list, nor the running point that run_until will insert into           *)
(* ref_tnode->cblist once its callback returns, nor run_until itself.      *)
(* ("The insert will happen after the callback" relies on it.)             *)
(***************************************************************************)
NoDanglingNode ==
  /\ \A p \in Points : ref[p] # NoNode => nst[ref[p]] = "tree"
  /\ cursor # NoNode => nst[cursor] = "tree"

(***************************************************************************)
(* What is scheduled is what the client asked for: a point waits on the    *)
(* cblist of the timestamp last passed to new_point or point_reset, and on *)
(* none when it has fired, was kept or deleted.  While its callback runs,  *)
(* the pending insert has the right timestamp.                             *)
(***************************************************************************)
Scheduled(p) ==
  IF inl[p] \in Nodes THEN nts[inl[p]]
  ELSE IF p = running /\ ref[p] \notin {NoNode, cursor} THEN nts[ref[p]]
  ELSE Off

ScheduledAsAsked == \A p \in Points : due[p] = Scheduled(p)

(***************************************************************************)
(* Every point handed out is on exactly one list of the timer, or is the   *)
(* one being called: none is lost, none is on a list after it was freed.   *)
(***************************************************************************)
PointsAccounted ==
  \A p \in Points : (pst[p] = "live") <=> (inl[p] # NoList \/ p = running)

(***************************************************************************)
(* The queue never sleeps past a point: while it waits, the timeout taken  *)
(* from evdp_timer_fetch_neareast_ts ends when the client's earliest point *)
(* expires, or has ended already.                                          *)
(***************************************************************************)
NoOversleep ==
  pc = "wait" =>
    \A p \in Points : due[p] # Off =>
      deadline # Forever /\ (deadline <= due[p] \/ deadline <= now)

\* neb_evdp_timer_destroy: "all pending and kept points will also be freed".
DestroyFreesAll == pc = "dead" => \A p \in Points : pst[p] = "free"

(***************************************************************************)
(* No cache array is written beyond its size, and each timestamp has one   *)
(* tnode, so that all points of a timestamp are run together.              *)
(***************************************************************************)
NodesSound ==
  /\ Cardinality({n \in Nodes : nst[n] = "cache"}) <= TcacheSize
  /\ Cardinality({p \in Points : pst[p] = "cache"}) <= LcacheSize
  /\ \A m, n \in Tree : nts[m] = nts[n] => m = n

(***************************************************************************)
(* run_until visits timestamps in order: it moves on only to a later one   *)
(* and leaves no point of the earlier one behind.                          *)
(***************************************************************************)
RunsInOrder ==
  [][ cursor # NoNode /\ cursor' # cursor =>
        /\ On(cursor) = {}
        /\ cursor' # NoNode => nts[cursor'] > nts[cursor] ]_vars

(***************************************************************************)
(* After run_until nothing that was due when it last read cur_ts is left,  *)
(* apart from what callbacks asked for in the past: the client sees every  *)
(* timeout of a round in that round.                                       *)
(***************************************************************************)
RoundComplete ==
  [][ pc = "run" /\ pc' = "idle" /\ "past" \notin Liberties =>
        \A p \in Points : due[p] = Off \/ due[p] > curTs ]_vars

\* The timer implements its abstract specification: the client's view of what
\* is armed, and the callback in progress.
Abs == INSTANCE TimerAbs WITH sched <- due, firing <- running
ImplementsTimer == Abs!Spec

\* A point that is due is eventually called, or withdrawn by its client.
DueFires ==
  \A p \in Points : \A t \in Time :
    (due[p] = t /\ now >= t) ~> (due[p] # t \/ pc = "dead")

(***************************************************************************)
(* Memory, whichever allocation failed and whatever callbacks did: neither *)
(* cache of timer.c is filled beyond its array, a timestamp has one tnode, *)
(* and neb_evdp_timer_destroy leaves no point allocated.                   *)
(***************************************************************************)
MemorySound == NodesSound /\ DestroyFreesAll

(***************************************************************************)
(* evdp_timer_run_until serves what is due: a round leaves nothing due     *)
(* behind, and every point whose time has come is called, moved or         *)
(* withdrawn.                                                              *)
(***************************************************************************)
DueServed == RoundComplete /\ DueFires
=============================================================================
