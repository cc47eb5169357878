------------------------------ MODULE EvdpPoll ------------------------------
(***************************************************************************)
(* The aio_poll and io_uring drivers under the event queue.  Both hand the *)
(* kernel poll requests that carry the address of their source and that    *)
(* nobody can take back: a request that is cancelled, or whose fd is       *)
(* closed, still completes through the ring.  They differ in these points: *)
(*   aio     a request is over with its completion; flush submits in       *)
(*           batches and sets sc->submitted                                *)
(*   uring   the requests of read-only sources and timers are multishot;   *)
(*           flush does not set sc->submitted, so neither detach nor       *)
(*           next_read and next_write know that a request is in flight     *)
(*                                                                         *)
(* A fd's request completes when the loop waits; a timer's completes when  *)
(* the timer expires.  A batch has at most one completion of each source   *)
(* (the completions of one multishot request count as one): all there can  *)
(* be unless Liberties has rearm, and then exact for BatchSize = 1.  After *)
(* a BREAK io_uring would report the rest of the batch again; no liberty   *)
(* to run again is granted here.  foreach, which the queue does without    *)
(* the driver but for the detach it has in common with Detach, is explored *)
(* in EvdpEpoll only.                                                      *)
(***************************************************************************)
EXTENDS EvdpHandle, SequencesExt

CONSTANT MaxRequests  \* bound: requests of a source that are in flight

ASSUME PollConstants ==
  /\ Drivers \subseteq {"aio", "uring"}
  /\ MaxRequests \in Nat \ {0}
  /\ ~May("rerun") /\ ~May("reattach")

VARIABLES
  submitted,  \* sc->submitted
  reqs,       \* kernel: the masks of the requests in flight for a source
  late        \* kernel: the timer was set again when its request had completed

pollVars == <<submitted, reqs, late>>
vars == <<fixedVars, queueVars, handleVars, pollVars>>

Multishot(s) == driver = "uring" /\ ~Oneshot(s)
InFlight(s) == reqs[s] # <<>>

Init ==
  /\ HandleInit
  /\ submitted = [s \in Sources |-> FALSE]
  /\ reqs = [s \in Sources |-> <<>>]
  /\ late = [s \in Sources |-> FALSE]

-----------------------------------------------------------------------------
(***************************************************************************)
(* Sources.  While the loop may still wait, the disciplined client leaves  *)
(* a source alone that has a request in flight.                            *)
(***************************************************************************)
Quiet(s) == ~InFlight(s) \/ pc = "stopped"

\* evdp_create_source_os_fd_context, _ro_fd_context, _itimer_context and
\* _abstimer_context; the last three make the source multishot for io_uring.
CreateOsFd(s) == NewOsFd(s) /\ UNCHANGED pollVars
CreateRoFd(s) == NewRoFd(s) /\ UNCHANGED pollVars
CreateItimer(s) == NewItimer(s) /\ UNCHANGED pollVars
CreateAbstimer(s) == NewAbstimer(s) /\ UNCHANGED pollVars
New(s) == CreateOsFd(s) \/ CreateRoFd(s) \/ CreateItimer(s) \/ CreateAbstimer(s)

\* evdp_destroy_source_*_context; what is in flight for a timer whose fd is closed
\* cannot complete any more.
Del(s) ==
  /\ SourceDel(s)
  /\ reqs' = [reqs EXCEPT ![s] = IF IsTimer(s) /\ ~late[s] THEN <<>> ELSE @]
  /\ UNCHANGED <<submitted, late>>

\* evdp_reset_source_os_fd_context
Reset(s) ==
  /\ OsFdReset(s)
  /\ submitted' = [submitted EXCEPT ![s] = FALSE]
  /\ UNCHANGED <<reqs, late>>

\* evdp_source_os_fd_attach, _ro_fd_attach, _itimer_attach and _abstimer_attach.
OsFdAdd(s) == OsFdAttach(s)
RoFdAdd(s) == RoFdAttach(s)
ItimerAdd(s) == kind[s] = "itm" /\ TimerAttach(s)
AbstimerAdd(s) == kind[s] = "abs" /\ TimerAttach(s)

\* neb_evdp_queue_attach
Attach(s) ==
  /\ SourceAttach(s)
  /\ OsFdAdd(s) \/ RoFdAdd(s) \/ ItimerAdd(s) \/ AbstimerAdd(s)
  /\ UNCHANGED pollVars

\* neb_io_uring_cancel_fd and neb_aio_poll_cancel: cancelled or not, what is in
\* flight stays there until it completes.
Cancel(s) ==
  /\ submitted' = [submitted EXCEPT ![s] = FALSE]
  /\ UNCHANGED <<reqs, late>>

\* evdp_source_os_fd_detach, _ro_fd_detach, _itimer_detach and _abstimer_detach.
OsFdDetach(s) == Oneshot(s) /\ Cancel(s) /\ UNCHANGED <<its, ticks>>
RoFdDetach(s) == kind[s] = "ro" /\ Cancel(s) /\ UNCHANGED <<its, ticks>>
ItimerDetach(s) == kind[s] = "itm" /\ StopTimer(s) /\ Cancel(s)
AbstimerDetach(s) == kind[s] = "abs" /\ StopTimer(s) /\ Cancel(s)

DriverDetach(s) == OsFdDetach(s) \/ RoFdDetach(s) \/ ItimerDetach(s) \/ AbstimerDetach(s)

\* neb_evdp_queue_detach
Detach(s) ==
  /\ Quiet(s) \/ InDestroy \/ May("inFlight")
  /\ SourceDetach(s)
  /\ DriverDetach(s)

\* evdp_source_abstimer_regulate
RegulateTimer(s) ==
  /\ Quiet(s) \/ ~ticks[s] \/ May("regulate")
  /\ Regulate(s)
  /\ late' = [late EXCEPT ![s] = @ \/ (InFlight(s) /\ ticks[s])]
  /\ UNCHANGED <<submitted, reqs>>

\* evdp_source_os_fd_reset_{read,write}: do_submit_os_fd adds a request with all of
\* the interest to the one in flight.
ResetIO(s, d) ==
  LET again == submitted[s] /\ d \notin want[s]
  IN  /\ ~InFlight(s) \/ (submitted[s] /\ ~again) \/ May("rearm")
      /\ again => Len(reqs[s]) < MaxRequests
      /\ AskIO(s, d, submitted[s])
      /\ reqs' = [reqs EXCEPT ![s] = IF again THEN Append(@, want[s] \cup {d}) ELSE @]
      /\ UNCHANGED <<submitted, late>>

\* evdp_source_os_fd_unset_{read,write}: do_cancel_os_fd for the last interest.
UnsetIO(s, d) ==
  /\ DropIO(s, d, submitted[s])
  /\ submitted' = [submitted EXCEPT ![s] = @ /\ ~LastIO(s, d)]
  /\ UNCHANGED <<reqs, late>>

-----------------------------------------------------------------------------
(***************************************************************************)
(* One round of neb_evdp_queue_run: flush, wait, handle the batch.         *)
(***************************************************************************)
\* Mutant: the mask is made from the handlers that are set.
BugSubmitHandlers(S) ==
  /\ \A s \in S : Len(reqs[s]) < MaxRequests
  /\ reqs' = [s \in Sources |-> IF s \in S THEN Append(reqs[s], hand[s]) ELSE reqs[s]]
  /\ UNCHANGED late

\* io_submit, io_uring_prep_poll_add or _multishot and io_uring_submit.
Submit(S) ==
  /\ \A s \in S : Len(reqs[s]) < MaxRequests
  /\ reqs' = [s \in Sources |-> IF s \in S THEN Append(reqs[s], want[s]) ELSE reqs[s]]
  /\ UNCHANGED late

\* do_batch_flush, for io_uring evdp_queue_flush_pending_sources.
SetSubmitted(S) ==
  submitted' = [s \in Sources |-> submitted[s] \/ (s \in S /\ driver = "aio")]

(***************************************************************************)
(* evdp_queue_flush_pending_sources.  io_submit takes one iocb of a batch  *)
(* at least, or fails; that it took fewer than it was given goes unnoticed *)
(* in do_batch_flush.                                                      *)
(***************************************************************************)
LastBatch == ((Cardinality(Pending) - 1) % BatchSize) + 1

Flush(refused) ==
  /\ Goto("flush", "wait")
  /\ refused \subseteq Pending
  /\ refused # {} => May("partial") /\ driver = "aio" /\ Cardinality(refused) < LastBatch
  /\ FlushMoves(Pending)
  /\ SetSubmitted(Pending)
  /\ Submit(Pending \ refused)
  /\ UNCHANGED <<noDetach, ev, cur, eachVars, handleVars>>

\* io_submit fails: the batches before it, done, are counted.
AioFlushFails(done) ==
  /\ Goto("flush", "stopped") /\ driver = "aio" /\ May("nomem")
  /\ done \subseteq Pending /\ done # Pending /\ Cardinality(done) % BatchSize = 0
  /\ FlushMoves(done)
  /\ SetSubmitted(done)
  /\ Submit(done)
  /\ UNCHANGED <<noDetach, ev, cur, eachVars, handleVars>>

\* The ring is full when done have been prepared, or io_uring_submit fails.
UringFlushFails(done) ==
  /\ Goto("flush", "stopped") /\ driver = "uring" /\ May("nomem")
  /\ done \subseteq Pending /\ Pending # {}
  /\ FlushAborts(done)
  /\ UNCHANGED <<noDetach, ev, cur, eachVars, handleVars, pollVars>>

\* How the request with this mask may complete; "ERR" stands for no flag that a
\* handler looks at, which is how a cancelled request ends.
Completions(s, mask) ==
  IF IsTimer(s) THEN {f \in {{"IN"}} : ticks[s] \/ late[s]}
  ELSE ((SUBSET (mask \cup {"HUP"})) \ {{}}) \cup {{"ERR"}}

\* evdp_queue_wait_events: nothing (a timeout or a signal) or a batch, in which
\* request i[s] of source s completes.
Wait(batch) ==
  /\ Goto("wait", "batch")
  /\ Cardinality(batch) =< BatchSize
  /\ \E i \in [batch -> 1 .. MaxRequests] :
       /\ \A s \in batch : i[s] \in DOMAIN reqs[s]
       /\ \E f \in [batch -> UNION {Completions(s, reqs[s][i[s]]) : s \in batch}] :
            /\ \A s \in batch : f[s] \in Completions(s, reqs[s][i[s]])
            /\ ev' = [s \in Sources |-> IF s \in batch THEN f[s] ELSE {}]
       /\ reqs' = [s \in Sources |-> IF s \in batch /\ ~Multishot(s)
                                       THEN RemoveAt(reqs[s], i[s]) ELSE reqs[s]]
  /\ late' = [s \in Sources |-> late[s] /\ s \notin batch]
  /\ UNCHANGED <<listVars, noDetach, cur, eachVars, ahead, handleVars, submitted>>

\* evdp_queue_fetch_event, and the first assignment of every handle function.
FetchCompletion(s) ==
  /\ Fetch(s)
  /\ submitted' = [submitted EXCEPT ![s] = FALSE]
  /\ UNCHANGED <<reqs, late>>

\* Mutant: with io_uring too a read-only source or a timer is polled again.
BugPolledTwice(s) == want[s] # {}

\* Mutant: with aio too a read-only source or a timer is polled only once.
BugNotPolledAgain(s) == Oneshot(s) /\ want[s] # {}

\* The end of the handle functions: a request that is over has to be made again.
PollAgain(s) == IF Oneshot(s) THEN want[s] # {} ELSE driver = "aio"

\* ... for io_uring with "an extra pending check", which only stats.running gets.
Repend(s) ==
  IF driver = "uring" /\ loc[s] = "pend"
    THEN nPend' = nPend + 1 /\ UNCHANGED <<loc, nRun, ahead>>
    ELSE RunningToPending(s)

\* evdp_source_itimer_handle and _abstimer_handle
ItimerCall == TimerCall({"itm"})
AbstimerCall == TimerCall({"abs"})

EventHandled ==
  /\ Handled
  /\ IF PollAgain(cur) THEN Repend(cur) ELSE UNCHANGED <<listVars, ahead>>

\* REMOVE and CLOSE in an event callback.
RemoveCurrent ==
  /\ CbRemove
  /\ Quiet(cur) \/ May("inFlight")
  /\ DriverDetach(cur)

-----------------------------------------------------------------------------
Client ==
  \E s \in Sources :
    \/ New(s) \/ Del(s) \/ Reset(s) \/ Attach(s) \/ Detach(s) \/ RegulateTimer(s)
    \/ \E d \in IO : ResetIO(s, d) \/ UnsetIO(s, d)
    \/ \E d \in IO, on \in BOOLEAN : InitIO(s, d, on) /\ UNCHANGED pollVars

\* The steps that leave the driver's state and the requests alone.
Handling ==
  /\ \/ WaitFails \/ TimerReadFails \/ CbContinue \/ CbBreak \/ EventHandled \/ Returns
     \/ ItimerCall \/ AbstimerCall
     \/ \E flag \in {"IN", "HUP", "OUT"} : OsFdCall(flag) \/ RoFdCall(flag)
  /\ UNCHANGED pollVars

Loop ==
  \/ \E S \in SUBSET Sources : Flush(S) \/ AioFlushFails(S) \/ UringFlushFails(S) \/ Wait(S)
  \/ \E s \in Sources : FetchCompletion(s)
  \/ RemoveCurrent \/ Handling

Destroy ==
  \/ DestroyStep /\ UNCHANGED pollVars
  \/ \E s \in Sources : DestroyRemove(s) /\ DriverDetach(s)

Next ==
  /\ \/ Client \/ Loop \/ Destroy
     \/ (Run \/ \E s \in Sources : TimerExpires(s)) /\ UNCHANGED pollVars
  /\ UNCHANGED fixedVars

Spec == Init /\ [][Next]_vars

-----------------------------------------------------------------------------
\* The types of queue, sources and driver.  Unless the client asks an armed source
\* for more, a source has one request in flight at most.
TypeOK ==
  /\ HandleTypeOK
  /\ submitted \in [Sources -> BOOLEAN] /\ late \in [Sources -> BOOLEAN]
  /\ \A s \in Sources :
       /\ Len(reqs[s]) =< (IF May("rearm") THEN MaxRequests ELSE 1)
       /\ \A i \in DOMAIN reqs[s] : reqs[s][i] \subseteq IO

(***************************************************************************)
(* What an attached source waits for is not forgotten: unless its event is *)
(* being handled or waits in the batch, it is pending, or a request for    *)
(* its interest is in flight (for a direction next_read or next_write      *)
(* dropped there may be one too).                                          *)
(***************************************************************************)
InterestRequested ==
  Live => \A s \in Attached :
    want[s] # {} /\ s # cur /\ ev[s] = {} =>
      loc[s] = "pend" \/ \E i \in DOMAIN reqs[s] : want[s] \subseteq reqs[s][i]

(***************************************************************************)
(* "if (!ne.source) { // source detached": no completion that the loop may *)
(* still fetch carries the address of a source that is detached, and maybe *)
(* deleted.                                                                *)
(***************************************************************************)
NoStrayCompletion == Live => \A s \in Sources : InFlight(s) => s \in Attached

(***************************************************************************)
(* The driver's books: the counters match the lists, interest asked for is *)
(* pending or has its request in flight, a source has no second request,   *)
(* and a timer that completed can be read.                                 *)
(***************************************************************************)
RequestsSound == TypeOK /\ StatsExact /\ InterestRequested /\ TimerReadable
=============================================================================
