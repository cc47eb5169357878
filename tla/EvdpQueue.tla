----------------------------- MODULE EvdpQueue -----------------------------
(***************************************************************************)
(* The event queue that is common to all drivers (evdp/core.c, the list    *)
(* macros of evdp/core.h): the pending and running lists and their         *)
(* counters, the batch of fetched events, detach protection, the foreach   *)
(* cursor and the control state of neb_evdp_queue_run and                  *)
(* neb_evdp_queue_destroy.  A driver module extends this one and combines  *)
(* these steps with its own.                                               *)
(*                                                                         *)
(* Lists are sets.  New members go to the head of running_qs, in front of  *)
(* the foreach cursor, so of the order only this matters: which members    *)
(* are still ahead of the cursor.  The batch is the set of sources that    *)
(* have an unhandled event; it is handled in any order.                    *)
(***************************************************************************)
EXTENDS Integers, FiniteSets

CONSTANTS
  Sources,      \* addresses of struct neb_evdp_source
  NoSource,
  Typed,        \* the sources with a non-zero utype
  BatchSize,    \* q->batch_size
  IdMod,        \* foreach_id counts modulo this (2^32 in the code)
  MaxForeach    \* bound: how often foreach_start is called

ASSUME QueueConstants ==
  /\ NoSource \notin Sources
  /\ Typed \subseteq Sources
  /\ BatchSize \in Nat \ {0} /\ IdMod \in Nat \ {0} /\ MaxForeach \in Nat
  /\ IsFiniteSet(Sources)

VARIABLES
  loc,          \* where a source is: freed, unattached, on pending_qs or running_qs
  nPend, nRun,  \* stats.pending and stats.running, each counting its list head
  noDetach,     \* s->no_detach
  ev,           \* the unhandled events of the batch: the flags for each source
  pc,           \* control state of the thread that owns the queue
  cur,          \* the source of the event being handled
  foreachId, fid, inForeach,  \* q->foreach_id, s->foreach_id, q->in_foreach
  ahead,        \* the running sources behind foreach_s in the list
  each,         \* the source whose foreach callback runs
  captured,     \* s of EVDP_QUEUE_FOREACH_NEXT_ONE: what REMOVE will detach
  called        \* history: what the current foreach has called so far

listVars  == <<loc, nPend, nRun>>
eachVars  == <<foreachId, fid, inForeach, each, captured, called>>
queueVars == <<listVars, noDetach, ev, pc, cur, eachVars, ahead>>

Attached == {s \in Sources : loc[s] \in {"pend", "run"}}
Pending == {s \in Sources : loc[s] = "pend"}
Running == {s \in Sources : loc[s] = "run"}

QueueInit ==
  /\ loc = [s \in Sources |-> "free"]
  /\ nPend = 1 /\ nRun = 1
  /\ noDetach = [s \in Sources |-> FALSE]
  /\ ev = [s \in Sources |-> {}]
  /\ pc = "out" /\ cur = NoSource
  /\ foreachId = 0 /\ fid = [s \in Sources |-> 0] /\ inForeach = FALSE
  /\ ahead = {} /\ each = NoSource /\ captured = NoSource /\ called = {}

\* Where client code runs: outside the loop, in an event callback or on_remove, or
\* in the timeout, batch and event handlers; a foreach callback is nested in one.
InClient == pc \in {"out", "stopped", "cb", "removed", "post"}
\* ... and in the on_remove callbacks that neb_evdp_queue_destroy calls.
InDestroy == pc \in {"rmPend", "rmRun"}
Live == pc \in {"out", "flush", "wait", "batch", "dispatch", "cb", "removed", "post"}

-----------------------------------------------------------------------------
(***************************************************************************)
(* List moves.                                                             *)
(***************************************************************************)

\* EVDP_SLIST_PENDING_INSERT and EVDP_SLIST_RUNNING_INSERT of a source that is
\* on no list.
InsertPending(s) ==
  /\ loc' = [loc EXCEPT ![s] = "pend"]
  /\ nPend' = nPend + 1
  /\ UNCHANGED <<nRun, ahead>>

InsertRunning(s) ==
  /\ loc' = [loc EXCEPT ![s] = "run"]
  /\ nRun' = nRun + 1
  /\ UNCHANGED <<nPend, ahead>>

\* EVDP_SLIST_REMOVE, stats.running--, EVDP_SLIST_PENDING_INSERT.
RunningToPending(s) ==
  /\ loc' = [loc EXCEPT ![s] = "pend"]
  /\ nRun' = nRun - 1 /\ nPend' = nPend + 1
  /\ ahead' = ahead \ {s}

\* EVDP_SLIST_REMOVE, stats.pending--, EVDP_SLIST_RUNNING_INSERT.
PendingToRunning(s) ==
  /\ loc' = [loc EXCEPT ![s] = "run"]
  /\ nPend' = nPend - 1 /\ nRun' = nRun + 1
  /\ UNCHANGED ahead

\* Mutant: the counter of the list the source left is not adjusted.
BugFlushNoStats(S) ==
  /\ loc' = [s \in Sources |-> IF s \in S THEN "run" ELSE loc[s]]
  /\ nRun' = nRun + Cardinality(S)
  /\ UNCHANGED <<nPend, ahead>>

\* evdp_queue_flush_pending_sources moves all of S.
FlushMoves(S) ==
  /\ loc' = [s \in Sources |-> IF s \in S THEN "run" ELSE loc[s]]
  /\ nPend' = nPend - Cardinality(S) /\ nRun' = nRun + Cardinality(S)
  /\ UNCHANGED ahead

\* Mutant: one of the two counters is put right.
BugHalfCounted(S) ==
  /\ loc' = [s \in Sources |-> IF s \in S THEN "run" ELSE loc[s]]
  /\ nPend' = nPend - Cardinality(S)
  /\ UNCHANGED <<nRun, ahead>>

\* ... and gives up in the middle: what it moved so far is not counted.
FlushAborts(S) ==
  /\ loc' = [s \in Sources |-> IF s \in S THEN "run" ELSE loc[s]]
  /\ UNCHANGED <<nPend, nRun, ahead>>

\* Mutant: the events already fetched for the source stay in the batch.
BugStaleBatch(s) ==
  /\ loc' = [loc EXCEPT ![s] = "idle"]
  /\ IF loc[s] = "pend" THEN nPend' = nPend - 1 /\ UNCHANGED nRun
                        ELSE nRun' = nRun - 1 /\ UNCHANGED nPend
  /\ ahead' = ahead \ {s}
  /\ UNCHANGED ev

\* Mutant: the counter of the pending list pays for every detach.
BugWrongCounter(s) ==
  /\ loc' = [loc EXCEPT ![s] = "idle"]
  /\ nPend' = nPend - 1 /\ UNCHANGED nRun
  /\ ahead' = ahead \ {s}
  /\ ev' = [ev EXCEPT ![s] = {}]

(***************************************************************************)
(* do_detach_from_queue but for the driver's part: forget the events of    *)
(* the source that are still in the batch and take it off its list.  What  *)
(* on_remove does then, deleting the source included, are client steps.    *)
(***************************************************************************)
DetachFromQueue(s) ==
  /\ loc' = [loc EXCEPT ![s] = "idle"]
  /\ IF loc[s] = "pend" THEN nPend' = nPend - 1 /\ UNCHANGED nRun
                        ELSE nRun' = nRun - 1 /\ UNCHANGED nPend
  /\ ahead' = ahead \ {s}
  /\ ev' = [ev EXCEPT ![s] = {}]

\* neb_evdp_queue_attach: the checks before the driver is asked.
AttachAllowed(s) == InClient /\ loc[s] = "idle"

\* Mutant: a protected source may be detached.
BugNoProtection(s) == (InClient \/ InDestroy) /\ s \in Attached

\* neb_evdp_queue_detach: the checks before do_detach_from_queue.
DetachAllowed(s) == (InClient \/ InDestroy) /\ s \in Attached /\ ~noDetach[s]

-----------------------------------------------------------------------------
(***************************************************************************)
(* foreach.  One step is one round of evdp_queue_foreach_next_all or       *)
(* _batched; the two differ only in how many rounds a call takes.  Not     *)
(* modelled: foreach_next called by a foreach callback, a return value of  *)
(* the callback that is none of the enum's, and, as MaxForeach < IdMod in  *)
(* the runs, foreach_id coming round to an id that sources still carry.    *)
(***************************************************************************)

ForeachStart ==
  /\ InClient /\ ~inForeach /\ foreachId < MaxForeach
  /\ foreachId' = (foreachId + 1) % IdMod
  /\ inForeach' = TRUE
  /\ ahead' = Running
  /\ called' = {}
  /\ UNCHANGED <<listVars, noDetach, ev, pc, cur, fid, each, captured>>

SetEnd == inForeach' = FALSE /\ ahead' = {} /\ called' = {}

\* neb_evdp_queue_foreach_set_end
ForeachSetEnd ==
  /\ InClient /\ inForeach
  /\ SetEnd
  /\ UNCHANGED <<listVars, noDetach, ev, pc, cur, foreachId, fid, each, captured>>

Eligible == {s \in ahead : fid[s] # foreachId /\ s \in Typed}

\* Mutant: the cursor stays where it was.
BugCursorStays(s, skipped) ==
  /\ InClient /\ inForeach /\ each = NoSource
  /\ s \in Eligible /\ skipped \subseteq ahead \ Eligible
  /\ each' = s
  /\ noDetach' = [noDetach EXCEPT ![s] = TRUE]
  /\ captured' \in (IF skipped = {} THEN {s} ELSE skipped)
  /\ called' = called \cup {s}
  /\ UNCHANGED <<listVars, ev, pc, cur, ahead, fid, foreachId, inForeach>>

\* Mutant: what to remove is read when the cursor has already moved on.
BugCapturesNext(s, skipped) ==
  /\ InClient /\ inForeach /\ each = NoSource
  /\ s \in Eligible /\ skipped \subseteq ahead \ Eligible
  /\ fid' = [fid EXCEPT ![s] = foreachId]
  /\ ahead' = ahead \ (skipped \cup {s})
  /\ each' = s
  /\ noDetach' = [noDetach EXCEPT ![s] = TRUE]
  /\ captured' \in (IF ahead' = {} THEN {s} ELSE ahead')
  /\ called' = called \cup {s}
  /\ UNCHANGED <<listVars, ev, pc, cur, foreachId, inForeach>>

\* evdp_queue_foreach_next_one up to the callback.  The sources it skips stand
\* between the cursor and s; the caller has captured the first source of all.
ForeachNextOne(s, skipped) ==
  /\ InClient /\ inForeach /\ each = NoSource
  /\ s \in Eligible /\ skipped \subseteq ahead \ Eligible
  /\ fid' = [fid EXCEPT ![s] = foreachId]
  /\ ahead' = ahead \ (skipped \cup {s})
  /\ each' = s
  /\ noDetach' = [noDetach EXCEPT ![s] = TRUE]
  /\ captured' \in (IF skipped = {} THEN {s} ELSE skipped)
  /\ called' = called \cup {s}
  /\ UNCHANGED <<listVars, ev, pc, cur, foreachId, inForeach>>

\* Nothing eligible is left behind the cursor: END_FOREACH without a callback.
ForeachNextNone ==
  /\ InClient /\ inForeach /\ each = NoSource
  /\ ahead # {} /\ Eligible = {}
  /\ SetEnd
  /\ UNCHANGED <<listVars, noDetach, ev, pc, cur, foreachId, fid, each, captured>>

\* The foreach callback returned CONTINUE or END_FOREACH.
EachReturn(ret) ==
  /\ InClient /\ each # NoSource
  /\ noDetach' = [noDetach EXCEPT ![each] = FALSE]
  /\ each' = NoSource /\ captured' = NoSource
  /\ \/ ret = "CONTINUE" /\ UNCHANGED <<inForeach, ahead, called>>
     \/ ret = "END_FOREACH" /\ SetEnd
  /\ UNCHANGED <<listVars, ev, pc, cur, foreachId, fid>>

\* ... or REMOVE or CLOSE; the driver adds its part for the captured source.
EachRemove ==
  /\ InClient /\ each # NoSource
  /\ noDetach' = [noDetach EXCEPT ![each] = FALSE]
  /\ each' = NoSource /\ captured' = NoSource
  /\ DetachFromQueue(captured)
  /\ UNCHANGED <<pc, cur, foreachId, fid, inForeach, called>>

-----------------------------------------------------------------------------
(***************************************************************************)
(* neb_evdp_queue_run                                                      *)
(***************************************************************************)
Goto(from, to) == pc = from /\ pc' = to

\* handle_event fetches an event whose source is still attached.
FetchEvent(s) ==
  /\ Goto("batch", "dispatch") /\ ev[s] # {}
  /\ cur' = s
  /\ noDetach' = [noDetach EXCEPT ![s] = TRUE]
  /\ ev' = [ev EXCEPT ![s] = {}]
  /\ UNCHANGED <<eachVars, ahead>>

BatchDone ==
  /\ Goto("batch", "post") /\ \A s \in Sources : ev[s] = {}
  /\ UNCHANGED <<listVars, noDetach, ev, cur, eachVars, ahead>>

\* handle_event: the handler returned BREAK_*; the rest of the batch is dropped.
HandleBreak ==
  /\ pc' = "stopped" /\ cur' = NoSource
  /\ noDetach' = [noDetach EXCEPT ![cur] = FALSE]
  /\ ev' = [s \in Sources |-> {}]
  /\ UNCHANGED <<listVars, eachVars, ahead>>

\* handle_event: CONTINUE.
HandleContinue ==
  /\ pc' = "batch" /\ cur' = NoSource
  /\ noDetach' = [noDetach EXCEPT ![cur] = FALSE]
  /\ UNCHANGED <<ev, eachVars>>

\* handle_event: REMOVE or CLOSE, up to the call of on_remove.
HandleRemove ==
  /\ pc' = "removed" /\ cur' = NoSource
  /\ noDetach' = [noDetach EXCEPT ![cur] = FALSE]
  /\ DetachFromQueue(cur)
  /\ UNCHANGED eachVars

\* Timeouts and the batch handler have run: CONTINUE or BREAK_*.
RoundDone(to) ==
  /\ each = NoSource /\ to \in {"flush", "stopped"}
  /\ Goto("post", to)
  /\ UNCHANGED <<listVars, noDetach, ev, cur, eachVars, ahead>>

(***************************************************************************)
(* neb_evdp_queue_destroy: detach what is pending, then what is running.   *)
(* Each half is skipped when its counter is zero.  The foreach cursor is   *)
(* not deleted as its q_in_use is set; left in running_qs it is detached   *)
(* there like a source, although stats.running never counted it.           *)
(***************************************************************************)
\* Mutant: the second half looks at the counter of the first.
BugSkipsRunning == IF nPend # 1 THEN "destroyRun" ELSE "dead"

RunningHalf == IF nRun # 0 THEN "destroyRun" ELSE "dead"

DestroyStart ==
  /\ pc \in {"out", "stopped"} /\ each = NoSource
  /\ pc' = IF nPend # 0 THEN "destroyPend" ELSE RunningHalf
  /\ ahead' = {}
  /\ UNCHANGED <<listVars, noDetach, ev, cur, eachVars>>

DestroyDetach(s) ==
  /\ \/ Goto("destroyPend", "rmPend") /\ loc[s] = "pend"
     \/ Goto("destroyRun", "rmRun") /\ loc[s] = "run"
  /\ DetachFromQueue(s)
  /\ UNCHANGED <<noDetach, cur, eachVars>>

DestroyCursor ==
  /\ pc = "destroyRun" /\ inForeach
  /\ inForeach' = FALSE /\ nRun' = nRun - 1
  /\ UNCHANGED <<loc, nPend, noDetach, ev, pc, cur, foreachId, fid, each, captured, called, ahead>>

DestroyNext ==
  /\ \/ pc = "destroyPend" /\ Pending = {} /\ pc' = RunningHalf
     \/ Goto("destroyRun", "dead") /\ Running = {} /\ ~inForeach
  /\ UNCHANGED <<listVars, noDetach, ev, cur, eachVars, ahead>>

\* on_remove returned.
RemoveReturn ==
  /\ each = NoSource
  /\ \/ Goto("removed", "batch")
     \/ Goto("rmPend", "destroyPend")
     \/ Goto("rmRun", "destroyRun")
  /\ UNCHANGED <<listVars, noDetach, ev, cur, eachVars, ahead>>

-----------------------------------------------------------------------------
\* The types of the queue's state.
QueueTypeOK ==
  /\ loc \in [Sources -> {"free", "idle", "pend", "run"}]
  /\ nPend \in Int /\ nRun \in Int
  /\ noDetach \in [Sources -> BOOLEAN]
  /\ ev \in [Sources -> SUBSET {"IN", "OUT", "HUP", "ERR"}]
  /\ pc \in {"out", "flush", "wait", "batch", "dispatch", "cb", "removed", "post",
             "stopped", "destroyPend", "rmPend", "destroyRun", "rmRun", "dead"}
  /\ cur \in Sources \cup {NoSource}
  /\ foreachId \in 0 .. IdMod - 1 /\ fid \in [Sources -> 0 .. IdMod - 1]
  /\ inForeach \in BOOLEAN /\ ahead \subseteq Sources
  /\ each \in Sources \cup {NoSource} /\ captured \in Sources \cup {NoSource}
  /\ called \subseteq Sources

(***************************************************************************)
(* The counters that foreach_start returns and destroy tests are exact     *)
(* while the loop goes on: each is the size of its list plus its head,     *)
(* whatever moved sources between the lists.                               *)
(***************************************************************************)
StatsExact ==
  Live => nPend = 1 + Cardinality(Pending) /\ nRun = 1 + Cardinality(Running)

(***************************************************************************)
(* "detach protected": the source whose event or foreach callback is being *)
(* executed stays attached until the callback is over.                     *)
(***************************************************************************)
CallbackSourceAttached ==
  /\ cur # NoSource => cur \in Attached
  /\ each # NoSource => each \in Attached

(***************************************************************************)
(* The batch holds no event of a source that left the queue (detach must   *)
(* clear it: the source may have been deleted in on_remove).               *)
(***************************************************************************)
NoEventForDetached == \A s \in Sources : ev[s] # {} => s \in Attached

(***************************************************************************)
(* One foreach calls a source at most once, and only sources with a utype  *)
(* ("sources without utype set will be skipped").                          *)
(***************************************************************************)
ForeachOnce ==
  [][ each' # each /\ each' # NoSource =>
        each' \in Typed /\ each' \notin called ]_<<each, called, ev, loc, pc>>

(***************************************************************************)
(* "sources without utype set will be skipped": what a foreach callback    *)
(* asks to remove is the source it was called for, not one that was        *)
(* skipped on the way to it.                                               *)
(***************************************************************************)
ForeachRemovesCalled == each # NoSource => captured = each

(***************************************************************************)
(* "always safe as user can not alter pending_qs within on_remove cb":     *)
(* nothing is pending any more once destroy has freed pending_qs, and in   *)
(* the end no source refers to the queue.                                  *)
(***************************************************************************)
PendingDrained == pc \in {"destroyRun", "rmRun", "dead"} => Pending = {}
DestroyDrains == PendingDrained /\ (pc = "dead" => Attached = {})

(***************************************************************************)
(* What a flush moved before it failed is counted for the wrong list, and  *)
(* nothing else is: destroy, which tests stats.pending, still goes through *)
(* pending_qs, but may take running_qs for empty.                          *)
(***************************************************************************)
Miscounted == nPend - 1 - Cardinality(Pending)
MiscountBounded ==
  Live \/ pc = "stopped" => Miscounted >= 0 /\ nRun = 1 + Cardinality(Running) - Miscounted
=============================================================================
