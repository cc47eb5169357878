----------------------------- MODULE EvdpHandle -----------------------------
(***************************************************************************)
(* Sources and the handling of their events, as far as it does not depend  *)
(* on the driver: io_base.c, sys_timer.c, the attach functions and the     *)
(* order in which the handlers of the Linux drivers call the client.       *)
(*                                                                         *)
(* A source is a oneshot fd ("os"), a read-only fd ("ro"), an absolute     *)
(* timer ("abs") or an interval timer ("itm"), both of the latter with a   *)
(* timerfd.  Source s owns one fd; the two share a name.  The client may   *)
(* call every operation wherever its code runs, but for the uses listed in *)
(* Liberties, each of which a run can grant to show what the code does:    *)
(*   cross       next_read/next_write of a source with an unhandled event  *)
(*   rearm       asking an armed source, not yet fired, for more           *)
(*   reattach    epoll: attaching again, or a new source for, an fd that a *)
(*               REMOVE after an event left registered                     *)
(*   inFlight    poll requests: detaching a source that has one            *)
(*   rerun       neb_evdp_queue_run again after it returned                *)
(*   foreachInCb foreach_next in the event callback of a source it reaches *)
(*   regulate    abstimer_regulate of a timer with an unhandled event      *)
(*   removeIO    next_read/next_write in on_remove during destroy          *)
(*   nomem       the kernel refuses a request for lack of memory           *)
(*   partial     aio_poll: it takes only some of the requests it is given  *)
(***************************************************************************)
EXTENDS EvdpQueue

CONSTANTS
  Drivers,   \* the drivers a run looks at
  Kinds,     \* the ways it assigns kinds to the sources
  Liberties

ASSUME SourceConstants ==
  /\ Drivers \subseteq {"epoll", "aio", "uring", "kevent", "port"}
  /\ Kinds \subseteq [Sources -> {"os", "ro", "abs", "itm"}]
  /\ Liberties \subseteq {"cross", "rearm", "reattach", "inFlight", "rerun",
                          "foreachInCb", "regulate", "removeIO", "nomem", "partial"}

VARIABLES
  driver, kind,  \* the driver the library was built with; s->type
  want,          \* the read and write flags of sc->ctl_event
  hand,          \* which of do_read/do_wakeup ("IN") and do_write ("OUT") is set
  its,           \* timers: its.it_value is not zero
  ticks,         \* kernel: the timerfd has expired and was not read
  todo, calling  \* the event's flags still to look at; the flag whose callback runs

fixedVars == <<driver, kind>>
stepVars == <<todo, calling>>
handleVars == <<want, hand, its, ticks, stepVars>>

IO == {"IN", "OUT"}
Oneshot(s) == kind[s] = "os"
IsTimer(s) == kind[s] \in {"abs", "itm"}
May(liberty) == liberty \in Liberties

HandleInit ==
  /\ QueueInit
  /\ driver \in Drivers /\ kind \in Kinds
  /\ want = [s \in Sources |-> {}] /\ hand = [s \in Sources |-> {}]
  /\ its = [s \in Sources |-> FALSE] /\ ticks = [s \in Sources |-> FALSE]
  /\ todo = {} /\ calling = "none"

-----------------------------------------------------------------------------
(***************************************************************************)
(* Sources.                                                                *)
(***************************************************************************)

\* evdp_source_new_empty
NewEmpty(s) ==
  /\ InClient /\ loc[s] = "free"
  /\ loc' = [loc EXCEPT ![s] = "idle"]
  /\ fid' = [fid EXCEPT ![s] = 0]
  /\ UNCHANGED <<nPend, nRun, noDetach, ev, pc, cur, foreachId, inForeach, ahead, each,
                 captured, called, want, ticks, stepVars>>

\* neb_evdp_source_new_ro_fd
NewRoFd(s) ==
  /\ NewEmpty(s) /\ kind[s] = "ro"
  /\ hand' = [hand EXCEPT ![s] = {"IN"}]
  /\ UNCHANGED its

\* neb_evdp_source_new_os_fd: the handlers of read and write come later.
NewOsFd(s) ==
  /\ NewEmpty(s) /\ Oneshot(s)
  /\ hand' = [hand EXCEPT ![s] = {}]
  /\ UNCHANGED its

SetTimer(s) ==
  /\ hand' = [hand EXCEPT ![s] = {"IN"}]
  /\ its' = [its EXCEPT ![s] = TRUE]

\* neb_evdp_source_new_itimer_s and _itimer_ms
NewItimer(s) == NewEmpty(s) /\ kind[s] = "itm" /\ SetTimer(s)

\* neb_evdp_source_new_abstimer, which regulates it.
NewAbstimer(s) == NewEmpty(s) /\ kind[s] = "abs" /\ SetTimer(s)

\* neb_evdp_source_del
SourceDel(s) ==
  /\ InClient \/ InDestroy
  /\ loc[s] = "idle"
  /\ loc' = [loc EXCEPT ![s] = "free"]
  /\ want' = [want EXCEPT ![s] = {}] /\ hand' = [hand EXCEPT ![s] = {}]
  /\ its' = [its EXCEPT ![s] = FALSE]
  /\ UNCHANGED <<nPend, nRun, noDetach, ev, pc, cur, eachVars, ahead, ticks, stepVars>>

\* neb_evdp_source_os_fd_reset
OsFdReset(s) ==
  /\ InClient /\ Oneshot(s) /\ loc[s] = "idle"
  /\ want' = [want EXCEPT ![s] = {}]
  /\ UNCHANGED <<queueVars, hand, its, ticks, stepVars>>

\* evdp_source_os_fd_attach, _ro_fd_attach, _itimer_attach and _abstimer_attach; a
\* timer is set from its, which forgets expirations.
OsFdAttach(s) ==
  /\ Oneshot(s)
  /\ IF want[s] # {} THEN InsertPending(s) ELSE InsertRunning(s)
  /\ UNCHANGED <<want, ticks>>

RoFdAttach(s) ==
  /\ kind[s] = "ro"
  /\ want' = [want EXCEPT ![s] = {"IN"}]
  /\ InsertPending(s)
  /\ UNCHANGED ticks

TimerAttach(s) ==
  /\ IsTimer(s)
  /\ ticks' = [ticks EXCEPT ![s] = FALSE]
  /\ want' = [want EXCEPT ![s] = {"IN"}]
  /\ InsertPending(s)

\* neb_evdp_queue_attach but for the driver's attach function.
SourceAttach(s) ==
  /\ AttachAllowed(s)
  /\ fid' = [fid EXCEPT ![s] = foreachId]
  /\ UNCHANGED <<noDetach, ev, pc, cur, foreachId, inForeach, each, captured, called,
                 hand, its, stepVars>>

\* With a timerfd evdp_source_itimer_detach and _abstimer_detach set the timer to
\* zero, and its.it_value stays zero.
StopTimer(s) ==
  /\ its' = [its EXCEPT ![s] = @ /\ ~IsTimer(s)]
  /\ ticks' = [ticks EXCEPT ![s] = @ /\ ~IsTimer(s)]

\* neb_evdp_queue_detach, also possible in on_remove during destroy, but for the
\* driver's detach function, which says what becomes of a timer.
SourceDetach(s) ==
  /\ DetachAllowed(s)
  /\ DetachFromQueue(s)
  /\ UNCHANGED <<noDetach, pc, cur, eachVars, stepVars, want, hand>>

(***************************************************************************)
(* neb_evdp_source_abstimer_regulate.  Setting an attached timer forgets   *)
(* an expiration that was not read.                                        *)
(***************************************************************************)
Regulate(s) ==
  /\ InClient /\ kind[s] = "abs" /\ loc[s] # "free"
  /\ ev[s] = {} \/ May("regulate")
  /\ its' = [its EXCEPT ![s] = TRUE]
  /\ ticks' = [ticks EXCEPT ![s] = @ /\ s \notin Attached]
  /\ UNCHANGED <<queueVars, want, hand, stepVars>>

(***************************************************************************)
(* neb_evdp_source_os_fd_next_read and _next_write, direction d.           *)
(***************************************************************************)
MayNextIO(s) ==
  /\ Oneshot(s) /\ loc[s] # "free"
  /\ InClient \/ (InDestroy /\ May("removeIO"))
  /\ ev[s] = {} \/ May("cross")

InCallback(s) == pc = "cb" /\ cur = s

\* evdp_source_os_fd_init_{read,write}: the source is not attached.
InitIO(s, d, on) ==
  /\ MayNextIO(s) /\ s \notin Attached
  /\ want' = [want EXCEPT ![s] = IF on THEN @ \cup {d} ELSE @ \ {d}]
  /\ hand' = [hand EXCEPT ![s] = IF on THEN @ \cup {d} ELSE @ \ {d}]
  /\ UNCHANGED <<queueVars, its, ticks, stepVars>>

\* evdp_source_os_fd_reset_{read,write} but for what the driver tells the kernel of
\* a source that is armed.
AskIO(s, d, armed) ==
  /\ MayNextIO(s) /\ s \in Attached
  /\ hand' = [hand EXCEPT ![s] = @ \cup {d}] /\ want' = [want EXCEPT ![s] = @ \cup {d}]
  /\ IF ~armed /\ ~InCallback(s) /\ loc[s] # "pend"
       THEN RunningToPending(s)
       ELSE UNCHANGED <<listVars, ahead>>
  /\ UNCHANGED <<noDetach, ev, pc, cur, eachVars, its, ticks, stepVars>>

\* evdp_source_os_fd_unset_{read,write}, likewise: the last interest takes a pending
\* source off the pending list.
DropIO(s, d, armed) ==
  /\ MayNextIO(s) /\ s \in Attached
  /\ hand' = [hand EXCEPT ![s] = @ \ {d}] /\ want' = [want EXCEPT ![s] = @ \ {d}]
  /\ IF ~armed /\ loc[s] = "pend" /\ want[s] \ {d} = {}
       THEN PendingToRunning(s)
       ELSE UNCHANGED <<listVars, ahead>>
  /\ UNCHANGED <<noDetach, ev, pc, cur, eachVars, its, ticks, stepVars>>

\* ... and takes an armed one back from the kernel.
LastIO(s, d) == d \in want[s] /\ want[s] \ {d} = {}

-----------------------------------------------------------------------------
(***************************************************************************)
(* foreach and destroy, of the common queue, where no source is detached.  *)
(***************************************************************************)
ForeachNext(s, skipped) ==
  /\ s # cur \/ May("foreachInCb")
  /\ ForeachNextOne(s, skipped)
  /\ UNCHANGED handleVars

ForeachStep ==
  \/ (ForeachStart \/ ForeachSetEnd \/ ForeachNextNone) /\ UNCHANGED handleVars
  \/ \E s \in Sources, skipped \in SUBSET Sources : ForeachNext(s, skipped)
  \/ \E ret \in {"CONTINUE", "END_FOREACH"} : EachReturn(ret) /\ UNCHANGED handleVars

ForeachRemove == EachRemove /\ UNCHANGED <<stepVars, want, hand>>

DestroyStep == (DestroyStart \/ DestroyCursor \/ DestroyNext) /\ UNCHANGED handleVars
DestroyRemove(s) == DestroyDetach(s) /\ UNCHANGED <<stepVars, want, hand>>

-----------------------------------------------------------------------------
(***************************************************************************)
(* The loop, but for flush and wait.                                       *)
(***************************************************************************)
\* A thread event that ends the run before its first round changes nothing here.
Run ==
  /\ pc = "out" \/ (pc = "stopped" /\ May("rerun"))
  /\ pc' = "flush"
  /\ each = NoSource
  /\ UNCHANGED <<listVars, noDetach, ev, cur, eachVars, ahead, handleVars>>

\* The driver's wait or the clock fails.
WaitFails ==
  /\ Goto("wait", "stopped")
  /\ UNCHANGED <<listVars, noDetach, ev, cur, eachVars, ahead, handleVars>>

\* External: a timerfd that is set expires, again and again.
TimerExpires(s) ==
  /\ IsTimer(s) /\ s \in Attached /\ its[s] /\ ~ticks[s] /\ pc # "dead"
  /\ ticks' = [ticks EXCEPT ![s] = TRUE]
  /\ UNCHANGED <<queueVars, want, hand, its, stepVars>>

\* evdp_queue_fetch_event
Fetch(s) ==
  /\ FetchEvent(s)
  /\ todo' = ev[s]
  /\ UNCHANGED <<listVars, want, hand, its, ticks, calling>>

\* The handle functions look at read, hup and write in this order.
After(flag) == CASE flag = "IN" -> {"HUP", "OUT"} [] flag = "HUP" -> {"OUT"} [] OTHER -> {}

\* The flag is reported, and its callback is set; the hup handler always is.
Callable == {flag \in todo \ {"ERR"} : flag = "HUP" \/ flag \in hand[cur]}

CallHandler(flag) ==
  /\ Goto("dispatch", "cb")
  /\ flag \in Callable /\ Callable \ {flag} \subseteq After(flag)
  /\ todo' = todo \cap After(flag)
  /\ calling' = flag
  /\ UNCHANGED <<listVars, noDetach, ev, cur, eachVars, ahead, hand, its>>

\* evdp_source_os_fd_handle calls do_read, do_hup or do_write: oneshot, so the
\* interest in what is called is over.
OsFdCall(flag) ==
  /\ CallHandler(flag) /\ Oneshot(cur)
  /\ want' = [want EXCEPT ![cur] = @ \ {flag}]
  /\ UNCHANGED ticks

\* evdp_source_ro_fd_handle
RoFdCall(flag) ==
  /\ CallHandler(flag) /\ kind[cur] = "ro"
  /\ UNCHANGED <<want, ticks>>

\* evdp_source_itimer_handle and _abstimer_handle: the timerfd is read first.
TimerCall(kinds) ==
  /\ CallHandler("IN") /\ kind[cur] \in kinds /\ ticks[cur]
  /\ ticks' = [ticks EXCEPT ![cur] = FALSE]
  /\ UNCHANGED want

\* In both the read may fail: BREAK_ERR.
TimerReadFails ==
  /\ pc = "dispatch" /\ IsTimer(cur) /\ todo # {} /\ ~ticks[cur]
  /\ HandleBreak
  /\ todo' = {}
  /\ UNCHANGED <<want, hand, its, ticks, calling>>

\* The callback returned: CONTINUE, BREAK_*, or REMOVE and CLOSE; the hup handler's
\* CONTINUE counts as REMOVE.
CbContinue ==
  /\ Goto("cb", "dispatch") /\ each = NoSource /\ calling # "HUP"
  /\ calling' = "none"
  /\ UNCHANGED <<listVars, noDetach, ev, cur, eachVars, ahead, want, hand, its, ticks, todo>>

CbBreak ==
  /\ pc = "cb" /\ each = NoSource
  /\ HandleBreak
  /\ todo' = {} /\ calling' = "none"
  /\ UNCHANGED <<want, hand, its, ticks>>

CbRemove ==
  /\ pc = "cb" /\ each = NoSource
  /\ HandleRemove
  /\ todo' = {} /\ calling' = "none"
  /\ UNCHANGED <<want, hand>>

\* No callback is left; the driver may have to make the source pending again.
Handled ==
  /\ pc = "dispatch" /\ Callable = {}
  /\ HandleContinue
  /\ todo' = {}
  /\ UNCHANGED <<want, hand, its, ticks, calling>>

\* The ends of a batch, of on_remove and of a round.
Returns ==
  /\ BatchDone \/ RemoveReturn \/ \E to \in {"flush", "stopped"} : RoundDone(to)
  /\ UNCHANGED handleVars

-----------------------------------------------------------------------------
\* The types of queue, sources and handlers.
HandleTypeOK ==
  /\ QueueTypeOK
  /\ driver \in Drivers /\ kind \in Kinds
  /\ want \in [Sources -> SUBSET IO] /\ hand \in [Sources -> SUBSET IO]
  /\ its \in [Sources -> BOOLEAN] /\ ticks \in [Sources -> BOOLEAN]
  /\ todo \subseteq {"IN", "OUT", "HUP", "ERR"}
  /\ calling \in {"none", "IN", "OUT", "HUP"}

(***************************************************************************)
(* "os", oneshot: after do_read or do_write was called it is not called    *)
(* again before the client asks for it with next_read or next_write.       *)
(***************************************************************************)
OneshotHonoured ==
  [][ pc = "dispatch" /\ pc' = "cb" /\ Oneshot(cur) /\ calling' \in IO =>
        calling' \in want[cur] ]_<<pc, calling, want>>

\* "should not happen": the read of a timerfd that was reported fails.
TimerReadable == pc = "dispatch" /\ IsTimer(cur) /\ todo # {} => ticks[cur]

(***************************************************************************)
(* "a daily sys timer which will be wakeup after sec_of_day reached": when *)
(* the expiration of a timer is consumed, its callback is called.          *)
(***************************************************************************)
TimerWakes ==
  [][ pc = "dispatch" /\ IsTimer(cur) /\ ticks[cur] /\ ~ticks'[cur] => pc' = "cb" ]_<<pc, ticks>>

(***************************************************************************)
(* A source waiting to be armed is armed, or taken off the queue, unless   *)
(* the loop stops: no batch of events and callbacks keeps it waiting.      *)
(***************************************************************************)
PendingFlushed ==
  \A s \in Sources :
    loc[s] = "pend" /\ pc \notin {"out", "stopped"} /\ Live ~> loc[s] # "pend" \/ ~Live
=============================================================================
