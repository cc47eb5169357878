----------------------------- MODULE EvdpEpoll -----------------------------
(***************************************************************************)
(* The epoll driver (evdp/driver/epoll) under the event queue: the epoll   *)
(* operation and state it keeps per source, and the kernel's epoll set as  *)
(* the driver uses it.                                                     *)
(***************************************************************************)
EXTENDS EvdpHandle

CONSTANT MaxMiscount   \* bound: how many sources failed flushes leave miscounted

ASSUME EpollConstants == MaxMiscount \in Nat

VARIABLES
  ctlOp, added,  \* sc->ctl_op, sc->added
  kreg, karm     \* kernel: the fd is in the epoll set; its mask, {} when disarmed

epollVars == <<ctlOp, added, kreg, karm>>
vars == <<fixedVars, queueVars, handleVars, epollVars>>

Init ==
  /\ HandleInit
  /\ ctlOp = [s \in Sources |-> "ADD"] /\ added = [s \in Sources |-> FALSE]
  /\ kreg = [s \in Sources |-> FALSE] /\ karm = [s \in Sources |-> {}]

-----------------------------------------------------------------------------
(***************************************************************************)
(* Sources.                                                                *)
(***************************************************************************)

\* do_del_os_fd and the other EPOLL_CTL_DEL calls.  The fd is found, as added
\* implies that it is registered; closing it has the same effect.
CtlDel(s) ==
  /\ kreg' = [kreg EXCEPT ![s] = FALSE] /\ karm' = [karm EXCEPT ![s] = {}]
KeepReg == UNCHANGED <<kreg, karm>>

\* A source is made for an fd the epoll set does not know (fresh), as a timer's is,
\* or for the one the last source left in it.
OnFd(s, fresh) ==
  /\ fresh \/ May("reattach")
  /\ IF fresh THEN CtlDel(s) ELSE KeepReg

\* evdp_create_source_os_fd_context, _ro_fd_context, _itimer_context and
\* _abstimer_context; the latter two open a timerfd.
CreateOsFd(s, fresh) == NewOsFd(s) /\ OnFd(s, fresh)
CreateRoFd(s, fresh) == NewRoFd(s) /\ OnFd(s, fresh)
CreateItimer(s) == NewItimer(s) /\ CtlDel(s)
CreateAbstimer(s) == NewAbstimer(s) /\ CtlDel(s)

New(s) ==
  /\ \/ \E fresh \in BOOLEAN : CreateOsFd(s, fresh) \/ CreateRoFd(s, fresh)
     \/ CreateItimer(s) \/ CreateAbstimer(s)
  /\ UNCHANGED <<ctlOp, added>>

\* evdp_destroy_source_os_fd_context and _ro_fd_context leave the fd alone,
\* _itimer_context and _abstimer_context close theirs.
DelFd(s) == ~IsTimer(s) /\ SourceDel(s) /\ KeepReg
DelTimer(s) == IsTimer(s) /\ SourceDel(s) /\ CtlDel(s)

Del(s) ==
  /\ DelFd(s) \/ DelTimer(s)
  /\ ctlOp' = [ctlOp EXCEPT ![s] = "ADD"]
  /\ UNCHANGED added

\* evdp_reset_source_os_fd_context, to an fd the epoll set does not know.
Reset(s) ==
  /\ OsFdReset(s)
  /\ added' = [added EXCEPT ![s] = FALSE]
  /\ CtlDel(s)
  /\ UNCHANGED ctlOp

\* evdp_source_os_fd_attach, _ro_fd_attach, _itimer_attach and _abstimer_attach.
AddFirst(s) == ctlOp' = [ctlOp EXCEPT ![s] = "ADD"]
OsFdAdd(s) == OsFdAttach(s) /\ AddFirst(s)
RoFdAdd(s) == RoFdAttach(s) /\ AddFirst(s)
ItimerAdd(s) == kind[s] = "itm" /\ TimerAttach(s) /\ AddFirst(s)
AbstimerAdd(s) == kind[s] = "abs" /\ TimerAttach(s) /\ AddFirst(s)

\* neb_evdp_queue_attach
Attach(s) ==
  /\ May("reattach") \/ ~kreg[s]
  /\ SourceAttach(s)
  /\ OsFdAdd(s) \/ RoFdAdd(s) \/ ItimerAdd(s) \/ AbstimerAdd(s)
  /\ UNCHANGED <<added, kreg, karm>>

\* Mutant: the fd is not taken out of the epoll set.
BugOsNoDel(s, toClose) ==
  /\ Oneshot(s)
  /\ added' = [added EXCEPT ![s] = FALSE]
  /\ KeepReg
  /\ UNCHANGED ctlOp

\* evdp_source_os_fd_detach.  With toClose the fd is closed before the next wait.
OsFdDetach(s, toClose) ==
  /\ Oneshot(s)
  /\ added' = [added EXCEPT ![s] = FALSE]
  /\ IF toClose \/ added[s] THEN CtlDel(s) ELSE KeepReg
  /\ ctlOp' = [ctlOp EXCEPT ![s] = IF added[s] /\ ~toClose THEN "ADD" ELSE @]

\* Mutant: a read-only source is not taken out of the epoll set.
BugRoNoDel(s, toClose) ==
  /\ kind[s] = "ro"
  /\ added' = [added EXCEPT ![s] = FALSE]
  /\ KeepReg
  /\ UNCHANGED ctlOp

\* evdp_source_ro_fd_detach
RoFdDetach(s, toClose) ==
  /\ kind[s] = "ro"
  /\ added' = [added EXCEPT ![s] = FALSE]
  /\ IF toClose \/ added[s] THEN CtlDel(s) ELSE KeepReg
  /\ UNCHANGED ctlOp

\* evdp_source_itimer_detach and _abstimer_detach, when the timer is stopped.
TimerDetach(s) ==
  /\ added' = [added EXCEPT ![s] = FALSE]
  /\ IF added[s] THEN CtlDel(s) ELSE KeepReg
  /\ UNCHANGED ctlOp

ItimerDetach(s) == kind[s] = "itm" /\ TimerDetach(s)
AbstimerDetach(s) == kind[s] = "abs" /\ TimerDetach(s)

DriverDetach(s, toClose) ==
  /\ StopTimer(s)
  /\ OsFdDetach(s, toClose) \/ RoFdDetach(s, toClose) \/ ItimerDetach(s) \/ AbstimerDetach(s)

\* neb_evdp_queue_detach
Detach(s, toClose) == SourceDetach(s) /\ DriverDetach(s, toClose)

\* do_ctl_os_fd of an armed source: MOD sets the mask; ADD, which ctl_op is until
\* the first event, fails and leaves the mask as it was.
CtlOsFd(s, mask) ==
  karm' = [karm EXCEPT ![s] = IF ctlOp[s] = "MOD" THEN mask ELSE @]

\* evdp_source_os_fd_reset_{read,write}
ResetIO(s, d) ==
  /\ ~added[s] \/ d \in want[s] \/ ctlOp[s] = "MOD" \/ May("rearm")
  /\ AskIO(s, d, added[s])
  /\ IF added[s] /\ d \notin want[s]
       THEN CtlOsFd(s, want[s] \cup {d})
       ELSE UNCHANGED karm
  /\ UNCHANGED <<ctlOp, added, kreg>>

(***************************************************************************)
(* evdp_source_os_fd_unset_{read,write}.  The last interest takes an armed *)
(* source out of the epoll set; the kernel is not told of a direction      *)
(* dropped while the other one stays.                                      *)
(***************************************************************************)
UnsetIO(s, d) ==
  LET del == added[s] /\ LastIO(s, d)
  IN  /\ DropIO(s, d, added[s])
      /\ added' = [added EXCEPT ![s] = @ /\ ~del]
      /\ ctlOp' = [ctlOp EXCEPT ![s] = IF del THEN "ADD" ELSE @]
      /\ IF del THEN CtlDel(s) ELSE KeepReg

-----------------------------------------------------------------------------
(***************************************************************************)
(* One round of neb_evdp_queue_run: flush, wait, handle the batch.         *)
(***************************************************************************)
\* The kernel answers EEXIST or ENOENT.
CtlFails(s) == (ctlOp[s] = "ADD") = kreg[s]

\* Mutant: the mask is made from the handlers that are set.
BugArmHandlers(S) ==
  /\ added' = [s \in Sources |-> added[s] \/ s \in S]
  /\ kreg' = [s \in Sources |-> kreg[s] \/ s \in S]
  /\ karm' = [s \in Sources |-> IF s \in S THEN hand[s] ELSE karm[s]]

KernelArms(S) ==
  /\ added' = [s \in Sources |-> added[s] \/ s \in S]
  /\ kreg' = [s \in Sources |-> kreg[s] \/ s \in S]
  /\ karm' = [s \in Sources |-> IF s \in S THEN want[s] ELSE karm[s]]

\* Mutant: nothing is flushed before the loop waits.
BugFlushSkips ==
  /\ Goto("flush", "wait")
  /\ UNCHANGED <<listVars, noDetach, ev, cur, eachVars, ahead, handleVars, epollVars>>

\* evdp_queue_flush_pending_sources
FlushAll ==
  /\ Goto("flush", "wait")
  /\ \A s \in Pending : ~CtlFails(s)
  /\ FlushMoves(Pending)
  /\ KernelArms(Pending)
  /\ UNCHANGED <<noDetach, ev, cur, eachVars, handleVars, ctlOp>>

\* ... the epoll_ctl for f fails when it has armed those in done.
FlushFail(f, done) ==
  /\ Goto("flush", "stopped")
  /\ f \in Pending /\ done \subseteq Pending \ {f}
  /\ CtlFails(f) \/ May("nomem")
  /\ Miscounted + Cardinality(done) =< MaxMiscount
  /\ \A s \in done : ~CtlFails(s)
  /\ FlushAborts(done)
  /\ KernelArms(done)
  /\ UNCHANGED <<noDetach, ev, cur, eachVars, handleVars, ctlOp>>

\* What epoll_wait may report of s.  No handler looks at EPOLLERR, so it is here
\* only where nothing else is reported.
Reports(s) ==
  IF karm[s] = {} THEN {}
  ELSE IF IsTimer(s) THEN {f \in {{"IN"}} : ticks[s]}
  ELSE ((SUBSET (karm[s] \cup {"HUP"})) \ {{}}) \cup {{"ERR"}}

(***************************************************************************)
(* evdp_queue_wait_events: nothing (a timeout or a signal) or a batch.     *)
(* What the kernel reports of a oneshot source it also disarms.            *)
(***************************************************************************)
Wait(batch) ==
  /\ Goto("wait", "batch")
  /\ Cardinality(batch) =< BatchSize
  /\ \E f \in [batch -> UNION {Reports(s) : s \in batch}] :
       /\ \A s \in batch : f[s] \in Reports(s)
       /\ ev' = [s \in Sources |-> IF s \in batch THEN f[s] ELSE {}]
  /\ karm' = [s \in Sources |-> IF s \in batch /\ Oneshot(s) THEN {} ELSE karm[s]]
  /\ UNCHANGED <<listVars, noDetach, cur, eachVars, ahead, handleVars, ctlOp, added, kreg>>

\* Mutant: the source is still taken for armed while its event is handled.
BugStillAdded(s) == UNCHANGED <<added, ctlOp>>

\* The head of evdp_source_os_fd_handle: the kernel has disarmed the source.
OsFdFired(s) ==
  /\ added' = [added EXCEPT ![s] = @ /\ ~Oneshot(s)]
  /\ ctlOp' = [ctlOp EXCEPT ![s] = IF Oneshot(s) THEN "MOD" ELSE @]

(***************************************************************************)
(* evdp_source_abstimer_handle takes the evdp_conf_abstimer of the source  *)
(* for an evdp_conf_itimer and so reads do_wakeup behind its end.  What it *)
(* finds is undefined; in a 64-bit glibc build it is the padding of the    *)
(* block that calloc zeroed: no callback.                                  *)
(***************************************************************************)
AbstimerCall ==
  /\ pc = "dispatch" /\ kind[cur] = "abs" /\ todo # {} /\ ticks[cur]
  /\ ticks' = [ticks EXCEPT ![cur] = FALSE]
  /\ todo' = {}
  /\ HandleContinue
  /\ UNCHANGED <<listVars, ahead, want, hand, its, calling>>

\* Mutant: what is left of the interest is not armed again.
BugNoRepend == Handled /\ UNCHANGED <<listVars, ahead>>

\* A oneshot source with an interest becomes pending again.
EventHandled ==
  /\ Handled
  /\ IF Oneshot(cur) /\ want[cur] # {}
       THEN RunningToPending(cur)
       ELSE UNCHANGED <<listVars, ahead>>

-----------------------------------------------------------------------------
Client ==
  \E s \in Sources :
    \/ New(s) \/ Del(s) \/ Reset(s) \/ Attach(s)
    \/ \E toClose \in BOOLEAN : Detach(s, toClose)
    \/ \E d \in IO : ResetIO(s, d) \/ UnsetIO(s, d)
    \/ (Regulate(s) \/ \E d \in IO, on \in BOOLEAN : InitIO(s, d, on)) /\ UNCHANGED epollVars

Foreach ==
  \/ ForeachStep /\ UNCHANGED epollVars
  \/ \E toClose \in BOOLEAN : ForeachRemove /\ DriverDetach(captured, toClose)

\* The steps that leave the driver's state and the epoll set alone.
Handling ==
  /\ \/ WaitFails \/ TimerReadFails \/ CbContinue \/ CbBreak \/ EventHandled \/ Returns
     \/ TimerCall({"itm"}) \/ AbstimerCall
     \/ \E flag \in {"IN", "HUP", "OUT"} : OsFdCall(flag) \/ RoFdCall(flag)
  /\ UNCHANGED epollVars

Loop ==
  \/ FlushAll \/ \E f \in Sources, done \in SUBSET Sources : FlushFail(f, done)
  \/ \E batch \in SUBSET Sources : Wait(batch)
  \/ \E s \in Sources : Fetch(s) /\ OsFdFired(s) /\ KeepReg
  \/ \E toClose \in BOOLEAN : CbRemove /\ DriverDetach(cur, toClose)
  \/ Handling

Destroy ==
  \/ DestroyStep /\ UNCHANGED epollVars
  \/ \E s \in Sources : DestroyRemove(s) /\ DriverDetach(s, FALSE)

Next ==
  /\ \/ Client \/ Foreach \/ Loop \/ Destroy
     \/ (Run \/ \E s \in Sources : TimerExpires(s)) /\ UNCHANGED epollVars
  /\ UNCHANGED fixedVars

Spec == Init /\ [][Next]_vars

\* Callbacks return, and the loop goes on while it can.
LiveSpec == Spec /\ WF_vars(Loop /\ UNCHANGED fixedVars)

-----------------------------------------------------------------------------
\* The types of queue, sources and driver; the counters never go below zero.
TypeOK ==
  /\ HandleTypeOK
  /\ nPend \in Nat /\ nRun \in Nat
  /\ ctlOp \in [Sources -> {"ADD", "MOD"}] /\ added \in [Sources -> BOOLEAN]
  /\ kreg \in [Sources -> BOOLEAN] /\ karm \in [Sources -> SUBSET IO]

(***************************************************************************)
(* What the client asked a oneshot source for is not forgotten: unless its *)
(* event is being handled or waits in the batch, an attached source with   *)
(* an interest is pending or the kernel watches for all of it.             *)
(***************************************************************************)
InterestArmed ==
  Live => \A s \in Attached :
    Oneshot(s) /\ want[s] # {} /\ s # cur /\ ev[s] = {} =>
      loc[s] = "pend" \/ (added[s] /\ want[s] \subseteq karm[s])

(***************************************************************************)
(* The kernel can report only sources that are attached and that the       *)
(* driver knows as armed: data.ptr never points to a deleted source.       *)
(***************************************************************************)
NoStrayEvent ==
  /\ \A s \in Sources : karm[s] # {} => s \in Attached /\ added[s]
  /\ \A s \in Sources : added[s] => kreg[s]

\* evdp_queue_flush_pending_sources: no epoll_ctl of the next flush can fail with EEXIST or ENOENT.
FlushSucceeds == pc = "flush" => \A s \in Pending : ~CtlFails(s)

(***************************************************************************)
(* The queue's books: types, counters that match the two lists after each  *)
(* call of client, handler or flush, and a destroy that removes every      *)
(* source.                                                                 *)
(***************************************************************************)
QueueSound == TypeOK /\ StatsExact /\ DestroyDrains

(***************************************************************************)
(* What the driver notes (ctl_op, added, ctl_event) agrees with the epoll  *)
(* set: interest asked for is armed or pending, and no epoll_ctl of a      *)
(* flush fails because an fd is registered or is not.                      *)
(***************************************************************************)
KernelAgrees == InterestArmed /\ FlushSucceeds

(***************************************************************************)
(* A source that was detached is not heard of again, neither from the rest *)
(* of the batch (evdp_queue_rm_pending_events) nor from the epoll set.     *)
(***************************************************************************)
DetachedSilent == NoEventForDetached /\ NoStrayEvent

(***************************************************************************)
(* When epoll_ctl fails in the middle of a flush, and after the loop was   *)
(* run again: no source is lost to the counters or to destroy's first      *)
(* half, and the epoll set reports attached sources only.                  *)
(***************************************************************************)
FailuresHarmless == MiscountBounded /\ PendingDrained /\ NoStrayEvent
=============================================================================
