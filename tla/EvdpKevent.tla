----------------------------- MODULE EvdpKevent -----------------------------
(***************************************************************************)
(* The kevent driver (evdp/driver/kevent) under the event queue: its       *)
(* notes on each filter of a source, and the kernel's kqueue as the driver *)
(* uses it.                                                                *)
(*                                                                         *)
(* Read and write of an oneshot fd are two filters, two changes and two    *)
(* entries of the batch; want[s] is here what is still to be added         *)
(* (to_add).  Flush hands full batches to the kernel and leaves the rest   *)
(* in q->nevents for wait, which makes the changes and waits in one call.  *)
(* Timers have no fd: nothing is read, and its and ticks play no part.     *)
(* After a BREAK q->nevents would count the old batch as changes; no       *)
(* liberty to run again is granted here.  Where an oneshot fd with two     *)
(* changes comes to the last place of c->ee, the second is written behind  *)
(* its end; what that may do is left out.                                  *)
(***************************************************************************)
EXTENDS EvdpHandle

ASSUME KeventConstants == ~May("rerun")

VARIABLES
  kAdded,   \* os: which of sc->rd.added and sc->wr.added is set
  counted,  \* os: sc->stats_updated
  timerOn,  \* timers: sc->attached
  knote,    \* kernel: the filters that are in the kqueue
  eof,      \* the entries of the batch with EV_EOF
  asked,    \* history: what next_read and next_write asked for, not called yet
  refused   \* history: the sources with filters from a flush that failed

histVars == <<asked, refused>>
keventVars == <<kAdded, counted, timerOn, knote, eof, histVars>>

KeventInit ==
  /\ kAdded = [s \in Sources |-> {}] /\ timerOn = [s \in Sources |-> FALSE]
  /\ knote = [s \in Sources |-> {}] /\ eof = [s \in Sources |-> {}]
  /\ counted = [s \in Sources |-> FALSE]
  /\ asked = [s \in Sources |-> {}] /\ refused = {}

-----------------------------------------------------------------------------
(***************************************************************************)
(* Sources.                                                                *)
(***************************************************************************)
\* evdp_create_source_os_fd_context, _ro_fd_context, _itimer_context and
\* _abstimer_context.
KCreateOsFd(s) == NewOsFd(s)
KCreateRoFd(s) == NewRoFd(s)
KCreateItimer(s) == NewItimer(s)
KCreateAbstimer(s) == NewAbstimer(s)
KNew(s) ==
  /\ KCreateOsFd(s) \/ KCreateRoFd(s) \/ KCreateItimer(s) \/ KCreateAbstimer(s)
  /\ UNCHANGED keventVars

KDel(s) ==
  /\ SourceDel(s)
  /\ asked' = [asked EXCEPT ![s] = {}] /\ counted' = [counted EXCEPT ![s] = FALSE]
  /\ UNCHANGED <<kAdded, timerOn, knote, eof, refused>>

\* evdp_reset_source_os_fd_context
KReset(s) ==
  /\ OsFdReset(s)
  /\ kAdded' = [kAdded EXCEPT ![s] = {}] /\ asked' = [asked EXCEPT ![s] = {}]
  /\ UNCHANGED <<counted, timerOn, knote, eof, refused>>

\* evdp_source_os_fd_attach, _ro_fd_attach, _itimer_attach and _abstimer_attach.
KOsFdAdd(s) ==
  /\ OsFdAttach(s)
  /\ counted' = [counted EXCEPT ![s] = @ /\ want[s] = {}]
  /\ UNCHANGED timerOn
KRoFdAdd(s) == RoFdAttach(s) /\ UNCHANGED <<timerOn, counted>>
TimerAdd(s) ==
  TimerAttach(s) /\ timerOn' = [timerOn EXCEPT ![s] = TRUE] /\ UNCHANGED counted
KItimerAdd(s) == kind[s] = "itm" /\ TimerAdd(s)
KAbstimerAdd(s) == kind[s] = "abs" /\ TimerAdd(s)

\* neb_evdp_queue_attach
KAttach(s) ==
  /\ SourceAttach(s)
  /\ KOsFdAdd(s) \/ KRoFdAdd(s) \/ KItimerAdd(s) \/ KAbstimerAdd(s)
  /\ UNCHANGED <<kAdded, knote, eof, histVars>>

\* EV_DELETE, for which ENOENT is no error.
Delete(s, filters) == knote' = [knote EXCEPT ![s] = @ \ filters]

\* Mutant: only the read filter is deleted.
BugDeletesRead(s, toClose) ==
  /\ Oneshot(s)
  /\ Delete(s, IF toClose THEN IO ELSE kAdded[s] \cap {"IN"})
  /\ kAdded' = [kAdded EXCEPT ![s] = {}]
  /\ UNCHANGED timerOn

\* evdp_source_os_fd_detach.  With toClose the fd is closed before the next wait.
KOsFdDetach(s, toClose) ==
  /\ Oneshot(s)
  /\ Delete(s, IF toClose THEN IO ELSE kAdded[s])
  /\ kAdded' = [kAdded EXCEPT ![s] = {}]
  /\ UNCHANGED timerOn

\* evdp_source_ro_fd_detach
KRoFdDetach(s, toClose) ==
  /\ kind[s] = "ro"
  /\ Delete(s, IF toClose \/ loc[s] # "pend" THEN {"IN"} ELSE {})
  /\ UNCHANGED <<kAdded, timerOn>>

\* evdp_source_itimer_detach and _abstimer_detach
TimerDelete(s) ==
  /\ Delete(s, IF timerOn[s] /\ loc[s] # "pend" THEN {"IN"} ELSE {})
  /\ timerOn' = [timerOn EXCEPT ![s] = FALSE]
  /\ UNCHANGED kAdded

KItimerDetach(s) == kind[s] = "itm" /\ TimerDelete(s)
KAbstimerDetach(s) == kind[s] = "abs" /\ TimerDelete(s)

\* do_detach_from_queue: evdp_queue_rm_pending_events and the detach functions.  The
\* interest that was not added yet stays for the next attach.
KeventDetach(s, toClose) ==
  /\ eof' = [eof EXCEPT ![s] = {}]
  /\ KOsFdDetach(s, toClose) \/ KRoFdDetach(s, toClose) \/ KItimerDetach(s) \/ KAbstimerDetach(s)
  /\ asked' = [asked EXCEPT ![s] = IF Oneshot(s) THEN want[s] ELSE {}]
  /\ UNCHANGED <<its, ticks, counted, refused>>

\* neb_evdp_queue_detach
KDetach(s, toClose) == SourceDetach(s) /\ KeventDetach(s, toClose)

\* evdp_source_abstimer_regulate: a timer that runs is added again.
KRegulate(s) ==
  /\ InClient /\ kind[s] = "abs" /\ loc[s] # "free"
  /\ ev[s] = {} \/ May("regulate")
  /\ knote' = [knote EXCEPT ![s] = IF timerOn[s] /\ loc[s] = "run" THEN {"IN"} ELSE @]
  /\ UNCHANGED <<queueVars, handleVars, kAdded, counted, timerOn, eof, histVars>>

\* evdp_source_os_fd_init_{read,write}
KInitIO(s, d, on) ==
  /\ InitIO(s, d, on)
  /\ asked' = [asked EXCEPT ![s] = IF on THEN @ \cup {d} ELSE @ \ {d}]
  /\ UNCHANGED <<kAdded, counted, timerOn, knote, eof, refused>>

KMayNextIO(s) ==
  /\ Oneshot(s) /\ s \in Attached
  /\ InClient \/ (InDestroy /\ May("removeIO"))

\* Mutant: a source in its own callback is left for the handle function to move.
BugNotInCallback(s, d) ==
  /\ KMayNextIO(s)
  /\ hand' = [hand EXCEPT ![s] = @ \cup {d}] /\ asked' = [asked EXCEPT ![s] = @ \cup {d}]
  /\ want' = [want EXCEPT ![s] = IF d \in kAdded[s] THEN @ ELSE @ \cup {d}]
  /\ IF d \in kAdded[s] \/ loc[s] = "pend" \/ InCallback(s)
       THEN UNCHANGED <<listVars, ahead>>
       ELSE RunningToPending(s)
  /\ UNCHANGED <<noDetach, ev, pc, cur, eachVars, its, ticks, stepVars,
                 kAdded, counted, timerOn, knote, eof, refused>>

\* evdp_source_os_fd_reset_{read,write}: nothing to do for a filter that is added;
\* another makes the source pending, in its own callback too.
KResetIO(s, d) ==
  /\ KMayNextIO(s)
  /\ hand' = [hand EXCEPT ![s] = @ \cup {d}] /\ asked' = [asked EXCEPT ![s] = @ \cup {d}]
  /\ want' = [want EXCEPT ![s] = IF d \in kAdded[s] THEN @ ELSE @ \cup {d}]
  /\ IF d \in kAdded[s] \/ loc[s] = "pend"
       THEN UNCHANGED <<listVars, ahead>>
       ELSE RunningToPending(s)
  /\ UNCHANGED <<noDetach, ev, pc, cur, eachVars, its, ticks, stepVars,
                 kAdded, counted, timerOn, knote, eof, refused>>

\* Mutant: a filter that is added stays in the kqueue.
BugKeepsFilter(s, d) ==
  /\ KMayNextIO(s)
  /\ d \notin ev[s] \/ May("cross")
  /\ hand' = [hand EXCEPT ![s] = @ \ {d}] /\ asked' = [asked EXCEPT ![s] = @ \ {d}]
  /\ want' = [want EXCEPT ![s] = @ \ {d}]
  /\ IF loc[s] = "pend" /\ want[s] \ {d} = {}
       THEN PendingToRunning(s)
       ELSE UNCHANGED <<listVars, ahead>>
  /\ UNCHANGED <<noDetach, ev, pc, cur, eachVars, its, ticks, stepVars,
                 kAdded, counted, timerOn, knote, eof, refused>>

\* evdp_source_os_fd_unset_{read,write}: with do_del_os_fd_{rd,wr}, or the last
\* interest takes a pending source off the pending list.
KUnsetIO(s, d) ==
  /\ KMayNextIO(s)
  /\ d \notin ev[s] \/ May("cross")
  /\ hand' = [hand EXCEPT ![s] = @ \ {d}] /\ asked' = [asked EXCEPT ![s] = @ \ {d}]
  /\ IF d \in kAdded[s]
       THEN /\ Delete(s, {d}) /\ kAdded' = [kAdded EXCEPT ![s] = @ \ {d}]
            /\ UNCHANGED <<want, listVars, ahead>>
       ELSE /\ want' = [want EXCEPT ![s] = @ \ {d}]
            /\ IF loc[s] = "pend" /\ want[s] \ {d} = {}
                 THEN PendingToRunning(s)
                 ELSE UNCHANGED <<listVars, ahead>>
            /\ UNCHANGED <<knote, kAdded>>
  /\ UNCHANGED <<noDetach, ev, pc, cur, eachVars, its, ticks, stepVars, counted, timerOn, eof, refused>>

-----------------------------------------------------------------------------
(***************************************************************************)
(* One round of neb_evdp_queue_run.                                        *)
(***************************************************************************)
\* The changes evdp_queue_flush_pending_sources copies to c->ee for S.
Changes(S) == UNION {{s} \X (IF Oneshot(s) THEN want[s] ELSE {"IN"}) : s \in S}

\* The sources with a second change.
Repeated(S) == {s \in S : Oneshot(s) /\ want[s] = IO}

\* The sources whose stats_updated was set by a flush before this one.
Stale(S) == {s \in S : Oneshot(s) /\ counted[s]}

\* Mutant: the second change of a source is counted too.
BugCountsTwice(S, stale) ==
  LET changes == Cardinality(Changes(S))
  IN  /\ loc' = [s \in Sources |-> IF s \in S \ stale THEN "run" ELSE loc[s]]
      /\ nPend' = nPend - changes
      /\ nRun' = nRun + changes
      /\ counted' = [s \in Sources |-> counted[s] \/ (s \in S /\ Oneshot(s))]
      /\ UNCHANGED ahead

\* The sources of a batch of changes go from pending_qs to running_qs: at their first
\* change, unless stats_updated is set; a change that finds it set is not counted.
ChangesMove(S, stale) ==
  LET changes == Cardinality(Changes(S))
      uncounted == Cardinality(Repeated(S)) + Cardinality(stale)
  IN  /\ loc' = [s \in Sources |-> IF s \in S \ stale THEN "run" ELSE loc[s]]
      /\ nPend' = (nPend - changes) + uncounted
      /\ nRun' = (nRun + changes) - uncounted
      /\ counted' = [s \in Sources |-> counted[s] \/ (s \in S /\ Oneshot(s))]
      /\ UNCHANGED ahead

\* ... and their filters count as added.
ChangesAdded(S) ==
  /\ kAdded' = [s \in Sources |-> IF s \in S /\ Oneshot(s) THEN kAdded[s] \cup want[s] ELSE kAdded[s]]
  /\ want' = [s \in Sources |-> IF s \in S /\ Oneshot(s) THEN {} ELSE want[s]]

\* The kqueue after the changes in C.
WithChanges(C) == [s \in Sources |-> knote[s] \cup {d \in IO : <<s, d>> \in C}]

\* count reaches q->batch_size with the last source of S, in some order of the list.
FullBatch(S) == S \subseteq Pending /\ Cardinality(Changes(S)) = BatchSize

\* evdp_queue_flush_pending_sources clears stats_updated of the sources it looks at.
LookedAt(S) == counted' = [s \in Sources |-> counted[s] /\ s \notin S]

\* ... and calls do_batch_flush.
BatchFlush(S) ==
  /\ pc = "flush" /\ FullBatch(S)
  /\ ChangesMove(S, {}) /\ ChangesAdded(S)
  /\ knote' = WithChanges(Changes(S))
  /\ UNCHANGED <<noDetach, ev, pc, cur, eachVars, hand, its, ticks, stepVars, timerOn, eof, histVars>>

\* ... which fails when the kernel has made the changes in done; nothing is noted.
BatchFlushFails(S, done) ==
  /\ Goto("flush", "stopped") /\ FullBatch(S) /\ May("nomem")
  /\ done \subseteq Changes(S)
  /\ LookedAt(S)
  /\ knote' = WithChanges(done)
  /\ refused' = refused \cup {change[1] : change \in done}
  /\ UNCHANGED <<listVars, noDetach, ev, cur, eachVars, ahead, handleVars, kAdded, timerOn, eof, asked>>

\* Mutant: stats_updated stays set from the flush before.
BugNotLookedAt ==
  /\ Goto("flush", "wait") /\ Cardinality(Changes(Pending)) < BatchSize
  /\ UNCHANGED <<listVars, noDetach, ev, cur, eachVars, ahead, handleVars, keventVars>>

\* "the last ones will be added during wait_events"
FlushRest ==
  /\ Goto("flush", "wait") /\ Cardinality(Changes(Pending)) < BatchSize
  /\ LookedAt(Pending)
  /\ UNCHANGED <<listVars, noDetach, ev, cur, eachVars, ahead, handleVars, kAdded, timerOn, knote, eof, histVars>>

\* The filters that kevent takes out of the kqueue when it reports them.
IsOneshot(entry) == kind[entry[1]] \in {"os", "abs"}

(***************************************************************************)
(* evdp_queue_wait_events: make the changes that are left, then wait for   *)
(* nothing (a timeout or a signal) or a batch, some of it with EV_EOF.     *)
(***************************************************************************)
KWait(batch, hup) ==
  LET watched == WithChanges(Changes(Pending))
  IN  /\ Goto("wait", "batch")
      /\ Cardinality(batch) =< BatchSize
      /\ \A e \in batch : e[2] \in watched[e[1]]
      /\ hup \subseteq {e \in batch : ~IsTimer(e[1])}
      /\ ChangesMove(Pending, Stale(Pending)) /\ ChangesAdded(Pending)
      /\ ev' = [s \in Sources |-> {d \in IO : <<s, d>> \in batch}]
      /\ eof' = [s \in Sources |-> {d \in IO : <<s, d>> \in hup}]
      /\ knote' = [s \in Sources |-> {d \in watched[s] : ~(<<s, d>> \in batch /\ IsOneshot(<<s, d>>))}]
      /\ UNCHANGED <<noDetach, cur, eachVars, hand, its, ticks, stepVars, timerOn, histVars>>

\* Mutant: on failure the sources stay on pending_qs.
BugStillPending(done) ==
  /\ Goto("wait", "stopped")
  /\ done \subseteq Changes(Pending)
  /\ knote' = WithChanges(done)
  /\ UNCHANGED <<listVars, ahead, noDetach, ev, cur, eachVars, handleVars, kAdded, counted, timerOn, eof, histVars>>

\* ... kevent fails, or the kernel refuses some changes and made those in done:
\* evdp_queue_fetch_event finds EV_ERROR, and handle_event returns BREAK_ERR.
KWaitFails(done) ==
  /\ Goto("wait", "stopped")
  /\ done \subseteq Changes(Pending)
  /\ ChangesMove(Pending, Stale(Pending)) /\ ChangesAdded(Pending)
  /\ knote' = WithChanges(done)
  /\ UNCHANGED <<noDetach, ev, cur, eachVars, hand, its, ticks, stepVars, timerOn, eof, histVars>>

\* evdp_queue_fetch_event of the entry for filter d, and the first assignment of
\* evdp_source_os_fd_handle and _abstimer_handle.
KFetch(s, d) ==
  /\ Goto("batch", "dispatch") /\ d \in ev[s]
  /\ cur' = s
  /\ noDetach' = [noDetach EXCEPT ![s] = TRUE]
  /\ ev' = [ev EXCEPT ![s] = @ \ {d}] /\ eof' = [eof EXCEPT ![s] = @ \ {d}]
  /\ todo' = {d} \cup (IF d \in eof[s] THEN {"HUP"} ELSE {})
  /\ kAdded' = [kAdded EXCEPT ![s] = IF Oneshot(s) THEN @ \ {d} ELSE @]
  /\ timerOn' = [timerOn EXCEPT ![s] = @ /\ kind[s] # "abs"]
  /\ UNCHANGED <<listVars, eachVars, ahead, want, hand, its, ticks, calling, counted, knote, histVars>>

\* evdp_source_os_fd_handle: read, then hup; or hup, then write.  The handlers are
\* not looked at before they are called.
KOsFdCall(flag) ==
  /\ CallHandler(flag) /\ Oneshot(cur)
  /\ asked' = [asked EXCEPT ![cur] = @ \ {flag}]
  /\ UNCHANGED <<want, ticks, kAdded, counted, timerOn, knote, eof, refused>>

\* evdp_source_ro_fd_handle
KRoFdCall(flag) == RoFdCall(flag) /\ UNCHANGED keventVars

\* evdp_source_itimer_handle, and evdp_source_abstimer_handle up to the callback.
KTimerCall(k) ==
  /\ CallHandler("IN") /\ kind[cur] = k
  /\ UNCHANGED <<want, ticks, keventVars>>

KItimerCall == KTimerCall("itm")
KAbstimerCall == KTimerCall("abs")

\* Mutant: the absolute timer is not set for the next day.
BugOneDay ==
  /\ Handled /\ UNCHANGED <<listVars, ahead, keventVars>>

\* handle_event after the callbacks.  An absolute timer is set for the next day: it
\* is pending again.
KHandled ==
  /\ Handled
  /\ IF kind[cur] = "abs"
       THEN RunningToPending(cur) /\ timerOn' = [timerOn EXCEPT ![cur] = TRUE]
       ELSE UNCHANGED <<listVars, ahead, timerOn>>
  /\ UNCHANGED <<kAdded, counted, knote, eof, histVars>>

\* ... unless there is no next day: evdp_source_abstimer_regulate failed.
KRegulateFails ==
  /\ pc = "dispatch" /\ kind[cur] = "abs" /\ Callable = {} /\ May("nomem")
  /\ HandleBreak
  /\ todo' = {} /\ eof' = [s \in Sources |-> {}]
  /\ UNCHANGED <<want, hand, its, ticks, calling, kAdded, counted, timerOn, knote, histVars>>

KBreak ==
  /\ CbBreak
  /\ eof' = [s \in Sources |-> {}]
  /\ UNCHANGED <<kAdded, counted, timerOn, knote, histVars>>

-----------------------------------------------------------------------------
KClient ==
  \E s \in Sources :
    \/ KNew(s) \/ KDel(s) \/ KReset(s) \/ KAttach(s) \/ KRegulate(s)
    \/ \E toClose \in BOOLEAN : KDetach(s, toClose)
    \/ \E d \in IO : KResetIO(s, d) \/ KUnsetIO(s, d)
    \/ \E d \in IO, on \in BOOLEAN : KInitIO(s, d, on)

KRound ==
  \/ FlushRest \/ \E S \in SUBSET Pending : BatchFlush(S)
  \/ \E S \in SUBSET Pending, done \in SUBSET Changes(Pending) : BatchFlushFails(S, done)
  \/ \E batch \in SUBSET (Sources \X IO) : \E hup \in SUBSET batch : KWait(batch, hup)
  \/ \E done \in SUBSET Changes(Pending) : KWaitFails(done)
  \/ \E s \in Sources, d \in IO : KFetch(s, d)

KHandling ==
  \/ \E flag \in {"IN", "HUP", "OUT"} : KOsFdCall(flag) \/ KRoFdCall(flag)
  \/ KItimerCall \/ KAbstimerCall \/ KHandled \/ KRegulateFails \/ KBreak
  \/ \E toClose \in BOOLEAN : CbRemove /\ KeventDetach(cur, toClose)
  \/ (WaitFails \/ CbContinue \/ Returns) /\ UNCHANGED keventVars

KDestroy ==
  \/ DestroyStep /\ UNCHANGED keventVars
  \/ \E s \in Sources : DestroyRemove(s) /\ KeventDetach(s, FALSE)

KeventNext == KClient \/ KRound \/ KHandling \/ KDestroy \/ (Run /\ UNCHANGED keventVars)

-----------------------------------------------------------------------------
\* The types of the driver's state; its counters never go below zero, failures included.
KeventTypeOK ==
  /\ HandleTypeOK
  /\ driver = "kevent" => nPend \in Nat /\ nRun \in Nat
  /\ kAdded \in [Sources -> SUBSET IO] /\ timerOn \in [Sources -> BOOLEAN]
  /\ knote \in [Sources -> SUBSET IO] /\ eof \in [Sources -> SUBSET IO]
  /\ counted \in [Sources -> BOOLEAN]
  /\ asked \in [Sources -> SUBSET IO] /\ refused \subseteq Sources

(***************************************************************************)
(* What next_read and next_write asked for is not forgotten while the loop *)
(* goes on: until its callback is called, the filter is in the kqueue, in  *)
(* the batch, or among the changes of a pending source.                    *)
(***************************************************************************)
FilterWatched ==
  Live => \A s \in Attached : \A d \in asked[s] :
    \/ d \in knote[s] \/ d \in ev[s] \/ (s = cur /\ d \in todo)
    \/ (loc[s] = "pend" /\ d \in want[s])

(***************************************************************************)
(* "NOTE this may lead to pending status of s invalid": nevertheless the   *)
(* kqueue holds filters of attached sources only, and those of a oneshot   *)
(* fd are the ones its context says were added: also after a wait that     *)
(* failed when the kernel had made some of the changes, and during         *)
(* destroy.  The exception are the sources whose filters do_batch_flush    *)
(* added before it failed: they are still pending, so that a detach finds  *)
(* nothing to delete.                                                      *)
(***************************************************************************)
NoStrayFilter ==
  \A s \in Sources \ refused : knote[s] # {} =>
    s \in Attached /\ (Oneshot(s) => knote[s] \subseteq kAdded[s])

(***************************************************************************)
(* A timer that is attached goes on: it is in the kqueue, about to be put  *)
(* there, or its expiration is being handled.                              *)
(***************************************************************************)
TimerGoesOn ==
  driver = "kevent" /\ Live => \A s \in Attached :
    IsTimer(s) => "IN" \in knote[s] \/ loc[s] = "pend" \/ ev[s] # {} \/ s = cur

(***************************************************************************)
(* evdp_source_os_fd_handle calls do_read and do_write as it finds them:   *)
(* the one it is about to call is set, and was asked for.                  *)
(* "set to null if you want to disable write"                              *)
(***************************************************************************)
HandlerSet ==
  driver = "kevent" /\ pc = "dispatch" /\ Oneshot(cur) => todo \cap IO \subseteq hand[cur] \cap asked[cur]
=============================================================================
