------------------------------ MODULE EvdpPort ------------------------------
(***************************************************************************)
(* The event_port driver (evdp/driver/event_port) under the event queue:   *)
(* its notes on each source, and the port as the driver uses it.           *)
(*                                                                         *)
(* An fd is associated with the port for one report, a oneshot fd with the *)
(* mask in sc->events (want), a read-only fd with POLLIN.  A timer is      *)
(* created and set when it is attached and never flushed: its says that    *)
(* its.it_value is set, ticks that its expiration is queued at the port.   *)
(***************************************************************************)
EXTENDS EvdpHandle

VARIABLES
  assoc,   \* fds: sc->associated
  pmask    \* kernel: the events an fd is associated for, {} if it is not

portVars == <<assoc, pmask>>

PortInit ==
  /\ assoc = [s \in Sources |-> FALSE]
  /\ pmask = [s \in Sources |-> {}]

\* port_associate, which replaces an association, and port_dissociate, for which
\* ENOENT means the same to the driver.
Associate(s, mask) == pmask' = [pmask EXCEPT ![s] = mask] /\ assoc' = [assoc EXCEPT ![s] = TRUE]
Dissociate(s) == pmask' = [pmask EXCEPT ![s] = {}] /\ assoc' = [assoc EXCEPT ![s] = FALSE]

-----------------------------------------------------------------------------
(***************************************************************************)
(* Sources.                                                                *)
(***************************************************************************)
\* evdp_create_source_os_fd_context, _ro_fd_context, _itimer_context and
\* _abstimer_context.
PCreateOsFd(s) == NewOsFd(s)
PCreateRoFd(s) == NewRoFd(s)
PCreateItimer(s) == NewItimer(s)
PCreateAbstimer(s) == NewAbstimer(s)
PNew(s) ==
  /\ PCreateOsFd(s) \/ PCreateRoFd(s) \/ PCreateItimer(s) \/ PCreateAbstimer(s)
  /\ UNCHANGED portVars

\* evdp_reset_source_os_fd_context
PReset(s) ==
  /\ OsFdReset(s)
  /\ assoc' = [assoc EXCEPT ![s] = FALSE]
  /\ UNCHANGED pmask

\* evdp_source_itimer_attach and _abstimer_attach: timer_create and timer_settime.
CreateTimer(s) ==
  /\ ticks' = [ticks EXCEPT ![s] = FALSE]
  /\ InsertRunning(s)
  /\ UNCHANGED want

PItimerAttach(s) == kind[s] = "itm" /\ CreateTimer(s)
PAbstimerAttach(s) == kind[s] = "abs" /\ CreateTimer(s)

\* neb_evdp_queue_attach
PAttach(s) ==
  /\ SourceAttach(s)
  /\ OsFdAttach(s) \/ RoFdAttach(s) \/ PItimerAttach(s) \/ PAbstimerAttach(s)
  /\ UNCHANGED portVars

\* Mutant: a fd that is not closed is forgotten too.
BugNotDissociated(s, toClose) ==
  /\ assoc' = [assoc EXCEPT ![s] = FALSE]
  /\ IF toClose THEN pmask' = [pmask EXCEPT ![s] = {}] ELSE UNCHANGED pmask

\* With toClose the client closes the fd, which takes it off the port.
FdDetach(s, toClose) ==
  IF toClose \/ assoc[s] THEN Dissociate(s) ELSE UNCHANGED portVars

\* evdp_source_os_fd_detach and _ro_fd_detach
POsFdDetach(s, toClose) == Oneshot(s) /\ FdDetach(s, toClose) /\ UNCHANGED ticks
PRoFdDetach(s, toClose) == kind[s] = "ro" /\ FdDetach(s, toClose) /\ UNCHANGED ticks

\* timer_delete, with what is queued.
DeleteTimer(s) == ticks' = [ticks EXCEPT ![s] = FALSE] /\ UNCHANGED portVars

\* evdp_source_itimer_detach and _abstimer_detach
PItimerDetach(s) == kind[s] = "itm" /\ DeleteTimer(s)
PAbstimerDetach(s) == kind[s] = "abs" /\ DeleteTimer(s)

\* do_detach_from_queue: evdp_queue_rm_pending_events and the detach functions.
PortDetach(s, toClose) ==
  /\ POsFdDetach(s, toClose) \/ PRoFdDetach(s, toClose) \/ PItimerDetach(s) \/ PAbstimerDetach(s)
  /\ UNCHANGED its

\* neb_evdp_queue_detach
PDetach(s, toClose) == SourceDetach(s) /\ PortDetach(s, toClose)

\* evdp_source_abstimer_regulate: what is queued stays queued.
PRegulate(s) ==
  /\ InClient /\ kind[s] = "abs" /\ loc[s] # "free"
  /\ its' = [its EXCEPT ![s] = TRUE]
  /\ UNCHANGED <<queueVars, want, hand, ticks, stepVars, portVars>>

\* evdp_source_os_fd_init_{read,write}
PInitIO(s, d, on) == InitIO(s, d, on) /\ UNCHANGED portVars

\* Mutant: an association is left with the mask it has.
BugMaskStays(s, d) == AskIO(s, d, assoc[s]) /\ UNCHANGED portVars

\* evdp_source_os_fd_reset_{read,write}
PResetIO(s, d) ==
  /\ AskIO(s, d, assoc[s])
  /\ IF assoc[s] /\ d \notin want[s]
       THEN Associate(s, want[s] \cup {d})
       ELSE UNCHANGED portVars

\* evdp_source_os_fd_unset_{read,write}: only the last interest changes the
\* association.
PUnsetIO(s, d) ==
  /\ DropIO(s, d, assoc[s])
  /\ IF assoc[s] /\ LastIO(s, d) THEN Dissociate(s) ELSE UNCHANGED portVars

-----------------------------------------------------------------------------
(***************************************************************************)
(* One round of neb_evdp_queue_run.                                        *)
(***************************************************************************)
\* Mutant: the mask is made from the handlers that are set.
BugAssociateHandlers(S) ==
  /\ pmask' = [s \in Sources |-> IF s \in S THEN hand[s] ELSE pmask[s]]
  /\ assoc' = [s \in Sources |-> assoc[s] \/ s \in S]

\* do_associate_os_fd and do_associate_ro_fd for all of S.
AssociateAll(S) ==
  /\ pmask' = [s \in Sources |-> IF s \in S THEN want[s] ELSE pmask[s]]
  /\ assoc' = [s \in Sources |-> assoc[s] \/ s \in S]

\* Mutant: nothing is flushed before the loop waits.
BugPFlushSkips ==
  /\ Goto("flush", "wait")
  /\ UNCHANGED <<listVars, noDetach, ev, cur, eachVars, ahead, handleVars, portVars>>

\* evdp_queue_flush_pending_sources
PFlush ==
  /\ Goto("flush", "wait")
  /\ FlushMoves(Pending) /\ AssociateAll(Pending)
  /\ UNCHANGED <<noDetach, ev, cur, eachVars, handleVars>>

\* ... port_associate fails after those in done.
PFlushFails(done) ==
  /\ Goto("flush", "stopped") /\ May("nomem")
  /\ done \subseteq Pending /\ done # Pending
  /\ FlushAborts(done) /\ AssociateAll(done)
  /\ UNCHANGED <<noDetach, ev, cur, eachVars, handleVars>>

\* What port_getn may report of s.  No handler looks at POLLERR, so it is here only
\* where nothing else is reported.
PReports(s) ==
  IF IsTimer(s) THEN {f \in {{"IN"}} : ticks[s] /\ s \in Attached}
  ELSE IF pmask[s] = {} THEN {}
  ELSE ((SUBSET (pmask[s] \cup {"HUP"})) \ {{}}) \cup {{"ERR"}}

(***************************************************************************)
(* evdp_queue_wait_events: nothing (a timeout or a signal) or a batch.     *)
(* What is reported is off the port.                                       *)
(***************************************************************************)
PWait(batch) ==
  /\ Goto("wait", "batch")
  /\ Cardinality(batch) =< BatchSize
  /\ \E f \in [batch -> UNION {PReports(s) : s \in batch}] :
       /\ \A s \in batch : f[s] \in PReports(s)
       /\ ev' = [s \in Sources |-> IF s \in batch THEN f[s] ELSE {}]
  /\ pmask' = [s \in Sources |-> IF s \in batch THEN {} ELSE pmask[s]]
  /\ ticks' = [s \in Sources |-> ticks[s] /\ s \notin batch]
  /\ UNCHANGED <<listVars, noDetach, cur, eachVars, ahead, want, hand, its, stepVars, assoc>>

\* evdp_queue_fetch_event, and the first assignment of evdp_source_os_fd_handle and
\* _ro_fd_handle.
PFetch(s) ==
  /\ Fetch(s)
  /\ assoc' = [assoc EXCEPT ![s] = FALSE]
  /\ UNCHANGED pmask

\* evdp_source_os_fd_handle and _ro_fd_handle up to a callback.
POsFdCall(flag) == OsFdCall(flag)
PRoFdCall(flag) == RoFdCall(flag)

\* evdp_source_itimer_handle
PItimerCall == CallHandler("IN") /\ kind[cur] = "itm" /\ UNCHANGED <<want, ticks>>

(***************************************************************************)
(* evdp_source_abstimer_handle, like that of the Linux drivers, looks for  *)
(* do_wakeup in an evdp_conf_itimer, behind the end of the                 *)
(* evdp_conf_abstimer.  What lies there is undefined: 0 is no callback,    *)
(* which is the outcome modelled; anything else would be called as a       *)
(* function, and no step of the model could follow.                        *)
(***************************************************************************)
PAbstimerCall ==
  /\ pc = "dispatch" /\ kind[cur] = "abs" /\ todo # {}
  /\ todo' = {}
  /\ HandleContinue
  /\ UNCHANGED <<listVars, ahead, want, hand, its, ticks, calling>>

\* The ends of the handle functions: a oneshot fd with an interest left and a
\* read-only fd become pending again.
PHandled ==
  /\ Handled
  /\ IF (Oneshot(cur) /\ want[cur] # {}) \/ kind[cur] = "ro"
       THEN RunningToPending(cur)
       ELSE UNCHANGED <<listVars, ahead>>

-----------------------------------------------------------------------------
PClient ==
  \E s \in Sources :
    \/ PNew(s) \/ (SourceDel(s) /\ UNCHANGED portVars)
    \/ PReset(s) \/ PAttach(s) \/ PRegulate(s)
    \/ \E toClose \in BOOLEAN : PDetach(s, toClose)
    \/ \E d \in IO : PResetIO(s, d) \/ PUnsetIO(s, d)
    \/ \E d \in IO, on \in BOOLEAN : PInitIO(s, d, on)

\* The steps that leave the driver's state and the port alone.
PHandling ==
  /\ \/ WaitFails \/ PItimerCall \/ PAbstimerCall \/ PHandled \/ CbContinue \/ CbBreak \/ Returns
     \/ \E flag \in {"IN", "HUP", "OUT"} : POsFdCall(flag) \/ PRoFdCall(flag)
  /\ UNCHANGED portVars

PRound ==
  \/ PFlush \/ \E done \in SUBSET Pending : PFlushFails(done)
  \/ \E batch \in SUBSET Sources : PWait(batch)
  \/ \E s \in Sources : PFetch(s)
  \/ \E toClose \in BOOLEAN : CbRemove /\ PortDetach(cur, toClose)
  \/ PHandling

PDestroy ==
  \/ DestroyStep /\ UNCHANGED portVars
  \/ \E s \in Sources : DestroyRemove(s) /\ PortDetach(s, FALSE)

PortNext ==
  \/ PClient \/ PRound \/ PDestroy
  \/ (Run \/ \E s \in Sources : TimerExpires(s)) /\ UNCHANGED portVars

-----------------------------------------------------------------------------
\* The types of the driver's state.
PortTypeOK == assoc \in [Sources -> BOOLEAN] /\ pmask \in [Sources -> SUBSET IO]

(***************************************************************************)
(* A report takes an fd off the port, so that it must be associated again: *)
(* unless its event is being handled or waits in the batch, an attached fd *)
(* is pending or the port watches for all that the client asked for.       *)
(***************************************************************************)
InterestAssociated ==
  driver = "port" /\ Live => \A s \in Attached :
    ~IsTimer(s) /\ want[s] # {} /\ s # cur /\ ev[s] = {} =>
      loc[s] = "pend" \/ (assoc[s] /\ want[s] \subseteq pmask[s])

(***************************************************************************)
(* The port can report only fds of attached sources, which the driver will *)
(* dissociate when it detaches them: portev_user never points to a deleted *)
(* source.                                                                 *)
(***************************************************************************)
NoStrayAssociation ==
  \A s \in Sources : pmask[s] # {} => s \in Attached /\ assoc[s]

(***************************************************************************)
(* Oneshot: the handler that evdp_source_os_fd_handle is about to call is  *)
(* one the client has asked for since it was last called.                  *)
(***************************************************************************)
CalledWhenAsked ==
  driver = "port" /\ pc = "dispatch" /\ Oneshot(cur) => Callable \ {"HUP"} \subseteq want[cur]
=============================================================================
