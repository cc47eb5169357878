-------------------------- MODULE EvdpEpollProofs --------------------------
(***************************************************************************)
(* Proofs about the epoll driver, for any number of sources, any kinds of  *)
(* them, any batch size and any foreach_id that does not come round.  The  *)
(* liberties of the client and of the kernel that a theorem has to exclude *)
(* are its hypotheses; it allows all others.                               *)
(*                                                                         *)
(* None of the properties is inductive.  ArmedInv ties the notes of the    *)
(* driver to the epoll set and to the batch.  With EachInv, from           *)
(* EvdpHandleProofs, it shows that a source in a callback is running       *)
(* (CurRuns), which the counters need: at the end of the handlers the      *)
(* macro counts one off the running list whatever list the source is on.   *)
(* CtlInv tells when ADD and when MOD is right, so that no flush fails     *)
(* with EEXIST or ENOENT; InterestInv and AskedInv carry the interest of   *)
(* the client from next_read through the epoll set and the batch to the    *)
(* callback.                                                               *)
(***************************************************************************)
EXTENDS EvdpEpoll, EvdpHandleProofs

\* evdp_queue_flush_pending_sources and evdp_queue_wait_events

FlushStep == FlushAll \/ \E f \in Sources, done \in SUBSET Sources : FlushFail(f, done)
WaitStep == \E batch \in SUBSET Sources : Wait(batch)

\* Every step but flush and wait does to the queue what it does under any driver.
LEMMA NextQueueStep == [Next]_vars => QueueStep \/ FlushStep \/ WaitStep
  <1> SUFFICES ASSUME [Next]_vars PROVE QueueStep \/ FlushStep \/ WaitStep
    OBVIOUS
  <1>1. CASE UNCHANGED vars
    BY <1>1 DEF vars, QueueStep
  <1>2. CASE Client
    <2>1. PICK s \in Sources :
            \/ New(s) \/ Del(s) \/ Reset(s) \/ Attach(s)
            \/ \E toClose \in BOOLEAN : Detach(s, toClose)
            \/ \E d \in IO : ResetIO(s, d) \/ UnsetIO(s, d)
            \/ /\ Regulate(s) \/ \E d \in IO, on \in BOOLEAN : InitIO(s, d, on)
               /\ UNCHANGED epollVars
      BY <1>2 DEF Client
    <2>2. CASE New(s) \/ Del(s) \/ \E toClose \in BOOLEAN : Detach(s, toClose)
      BY <2>2
      DEF New, CreateOsFd, CreateRoFd, CreateItimer, CreateAbstimer, NewOsFd, NewRoFd,
          NewItimer, NewAbstimer, Del, DelFd, DelTimer, Detach, QueueStep, ClientStep
    <2>3. CASE Attach(s)
      BY <2>3
      DEF Attach, OsFdAdd, RoFdAdd, ItimerAdd, AbstimerAdd, OsFdAttach, RoFdAttach,
          TimerAttach, QueueStep, ClientStep
    <2>4. CASE Reset(s) \/ Regulate(s) \/ \E d \in IO, on \in BOOLEAN : InitIO(s, d, on)
      BY <2>4 DEF Reset, OsFdReset, Regulate, InitIO, QueueStep
    <2>5. ASSUME NEW d \in IO, ResetIO(s, d) PROVE QueueStep
      BY <2>5 DEF ResetIO, AskIO, MayNextIO, QueueStep, ClientStep, Attached, queueVars
    <2>6. ASSUME NEW d \in IO, UnsetIO(s, d) PROVE QueueStep
      BY <2>6 DEF UnsetIO, DropIO, MayNextIO, QueueStep, ClientStep, queueVars
    <2>7. QED BY <2>1, <2>2, <2>3, <2>4, <2>5, <2>6
  <1>3. CASE Foreach
    BY <1>3 DEF Foreach, QueueStep
  <1>4. CASE Loop
    <2>1. CASE Handling
      BY <2>1
      DEF Handling, EventHandled, Handled, TimerCall, OsFdCall, RoFdCall, AbstimerCall,
          QueueStep, HandlingStep
    <2>2. QED BY <1>4, <2>1 DEF Loop, FlushStep, WaitStep, QueueStep, HandlingStep
  <1>5. CASE Destroy
    BY <1>5 DEF Destroy, QueueStep
  <1>6. CASE Run \/ \E s \in Sources : TimerExpires(s)
    BY <1>6 DEF QueueStep, HandlingStep, TimerExpires
  <1>7. QED BY <1>1, <1>2, <1>3, <1>4, <1>5, <1>6 DEF Next

-----------------------------------------------------------------------------
\* The types of the driver, and all types.
CtlTypes == ctlOp \in [Sources -> {"ADD", "MOD"}] /\ karm \in [Sources -> SUBSET IO]
RegTypes == added \in [Sources -> BOOLEAN] /\ kreg \in [Sources -> BOOLEAN]

Types == QueueInv /\ HandTypes /\ TimerTypes /\ FixedTypes /\ CtlTypes /\ RegTypes

\* The types hold at the start.
LEMMA InitTypes == Init => Types
  <1> SUFFICES ASSUME Init PROVE Types
    OBVIOUS
  <1>1. QueueInv
    BY QueueInitInv DEF Init, HandleInit
  <1>2. HandTypes /\ CtlTypes
    BY DEF Init, HandleInit, HandTypes, CtlTypes, IO
  <1>3. TimerTypes /\ RegTypes
    BY DEF Init, HandleInit, TimerTypes, RegTypes
  <1>4. QED BY <1>1, <1>2, <1>3 DEF Init, HandleInit, FixedTypes, Types

\* evdp_source_*_detach, in the four places where a source is detached.
LEMMA DetachTypes ==
  ASSUME Types, NEW s \in Sources, NEW toClose \in BOOLEAN, DriverDetach(s, toClose)
  PROVE  TimerTypes' /\ CtlTypes' /\ RegTypes'
  <1>1. TimerTypes'
    BY DEF Types, TimerTypes, DriverDetach, StopTimer
  <1>2. CtlTypes'
    BY DEF Types, CtlTypes, IO, DriverDetach, OsFdDetach, RoFdDetach, ItimerDetach,
        AbstimerDetach, TimerDetach, CtlDel, KeepReg
  <1>3. RegTypes'
    BY DEF Types, RegTypes, DriverDetach, OsFdDetach, RoFdDetach, ItimerDetach,
        AbstimerDetach, TimerDetach, CtlDel, KeepReg
  <1>4. QED BY <1>1, <1>2, <1>3

\* The calls of the client keep the types of the handlers, the timers and the driver.
LEMMA ClientTypes ==
  ASSUME Types, Client
  PROVE  HandTypes' /\ TimerTypes' /\ CtlTypes' /\ RegTypes'
  <1>1. PICK s \in Sources :
          \/ New(s) \/ Del(s) \/ Reset(s) \/ Attach(s)
          \/ \E toClose \in BOOLEAN : Detach(s, toClose)
          \/ \E d \in IO : ResetIO(s, d) \/ UnsetIO(s, d)
          \/ /\ Regulate(s) \/ \E d \in IO, on \in BOOLEAN : InitIO(s, d, on)
             /\ UNCHANGED epollVars
    BY DEF Client
  <1> USE DEF Types, stepVars, CtlDel, KeepReg
  <1>2. CASE New(s)
    <2> USE <1>2 DEF New, CreateOsFd, CreateRoFd, CreateItimer, CreateAbstimer, OnFd
    <2>1. HandTypes' /\ TimerTypes'
      <3> USE DEF NewOsFd, NewRoFd, NewItimer, NewAbstimer, NewEmpty, SetTimer
      <3>1. HandTypes'
        BY DEF HandTypes, IO
      <3>2. TimerTypes'
        BY DEF TimerTypes
      <3>3. QED BY <3>1, <3>2
    <2>2. CtlTypes' /\ RegTypes'
      BY DEF CtlTypes, RegTypes, IO
    <2>3. QED BY <2>1, <2>2
  <1>3. CASE Del(s) \/ Reset(s)
    <2> USE <1>3 DEF Del, DelFd, DelTimer, Reset
    <2>1. HandTypes' /\ TimerTypes'
      BY DEF HandTypes, TimerTypes, IO, SourceDel, OsFdReset
    <2>2. CtlTypes' /\ RegTypes'
      BY DEF CtlTypes, RegTypes, IO
    <2>3. QED BY <2>1, <2>2
  <1>4. CASE Attach(s)
    <2> USE <1>4 DEF Attach, OsFdAdd, RoFdAdd, ItimerAdd, AbstimerAdd, AddFirst
    <2>1. HandTypes' /\ TimerTypes'
      <3> USE DEF OsFdAttach, RoFdAttach, TimerAttach, SourceAttach
      <3>1. HandTypes'
        BY DEF HandTypes, IO
      <3>2. TimerTypes'
        BY DEF TimerTypes
      <3>3. QED BY <3>1, <3>2
    <2>2. CtlTypes' /\ RegTypes'
      BY DEF CtlTypes, RegTypes
    <2>3. QED BY <2>1, <2>2
  <1>5. ASSUME NEW toClose \in BOOLEAN, Detach(s, toClose)
        PROVE  HandTypes' /\ TimerTypes' /\ CtlTypes' /\ RegTypes'
    <2> USE <1>5 DEF Detach, SourceDetach
    <2>1. HandTypes'
      BY DEF HandTypes
    <2>2. TimerTypes' /\ CtlTypes' /\ RegTypes'
      BY DetachTypes
    <2>3. QED BY <2>1, <2>2
  <1>6. ASSUME NEW d \in IO, ResetIO(s, d) \/ UnsetIO(s, d)
        PROVE  HandTypes' /\ TimerTypes' /\ CtlTypes' /\ RegTypes'
    <2> USE <1>6 DEF ResetIO, UnsetIO
    <2>1. HandTypes' /\ TimerTypes'
      <3>1. HandTypes'
        BY DEF HandTypes, IO, AskIO, DropIO
      <3>2. TimerTypes'
        BY DEF TimerTypes, AskIO, DropIO
      <3>3. QED BY <3>1, <3>2
    <2>2. CtlTypes'
      BY DEF CtlTypes, HandTypes, IO, CtlOsFd
    <2>3. RegTypes'
      BY DEF RegTypes
    <2>4. QED BY <2>1, <2>2, <2>3
  <1>7. CASE Regulate(s) /\ UNCHANGED epollVars
    BY <1>7 DEF Regulate, HandTypes, TimerTypes, epollVars, CtlTypes, RegTypes
  <1>8. ASSUME NEW d \in IO, NEW on \in BOOLEAN, InitIO(s, d, on), UNCHANGED epollVars
        PROVE  HandTypes' /\ TimerTypes' /\ CtlTypes' /\ RegTypes'
    <2>1. HandTypes'
      BY <1>8 DEF InitIO, HandTypes, IO
    <2>2. TimerTypes' /\ CtlTypes' /\ RegTypes'
      BY <1>8 DEF InitIO, TimerTypes, epollVars, CtlTypes, RegTypes
    <2>3. QED BY <2>1, <2>2
  <1>9. QED BY <1>1, <1>2, <1>3, <1>4, <1>5, <1>6, <1>7, <1>8

\* So do flush, wait and the handling of a batch.
LEMMA LoopTypes ==
  ASSUME Types, Loop
  PROVE  HandTypes' /\ TimerTypes' /\ CtlTypes' /\ RegTypes'
  <1> USE DEF Types, stepVars, handleVars
  <1>1. ASSUME NEW S \in SUBSET Sources, KernelArms(S), UNCHANGED <<handleVars, ctlOp>>
        PROVE  HandTypes' /\ TimerTypes' /\ CtlTypes' /\ RegTypes'
    BY <1>1 DEF KernelArms, HandTypes, TimerTypes, CtlTypes, RegTypes
  <1>2. CASE FlushAll \/ \E f \in Sources, done \in SUBSET Sources : FlushFail(f, done)
    BY <1>1, <1>2 DEF FlushAll, FlushFail, Pending
  <1>3. ASSUME NEW batch \in SUBSET Sources, Wait(batch)
        PROVE  HandTypes' /\ TimerTypes' /\ CtlTypes' /\ RegTypes'
    BY <1>3 DEF Wait, HandTypes, TimerTypes, CtlTypes, RegTypes
  <1>4. ASSUME NEW s \in Sources, Fetch(s), OsFdFired(s), KeepReg
        PROVE  HandTypes' /\ TimerTypes' /\ CtlTypes' /\ RegTypes'
    <2>1. HandTypes' /\ TimerTypes'
      BY <1>4 DEF Fetch, HandTypes, TimerTypes, QueueInv, ListTypes
    <2>2. CtlTypes' /\ RegTypes'
      BY <1>4 DEF OsFdFired, KeepReg, CtlTypes, RegTypes
    <2>3. QED BY <2>1, <2>2
  <1>5. ASSUME NEW toClose \in BOOLEAN, CbRemove, DriverDetach(cur, toClose)
        PROVE  HandTypes' /\ TimerTypes' /\ CtlTypes' /\ RegTypes'
    <2>1. cur \in Sources
      BY <1>5 DEF CbRemove, QueueInv, FlowInv, ListTypes
    <2>2. HandTypes'
      BY <1>5 DEF CbRemove, HandTypes
    <2>3. QED BY <1>5, <2>1, <2>2, DetachTypes
  <1>6. CASE Handling
    <2>1. CtlTypes' /\ RegTypes'
      BY <1>6 DEF Handling, epollVars, CtlTypes, RegTypes
    <2>2. HandTypes'
      BY <1>6
      DEF Handling, WaitFails, TimerReadFails, CbContinue, CbBreak, EventHandled,
          Handled, Returns, TimerCall, AbstimerCall, OsFdCall, RoFdCall, CallHandler,
          HandTypes, IO
    <2>3. TimerTypes'
      BY <1>6
      DEF Handling, WaitFails, TimerReadFails, CbContinue, CbBreak, EventHandled,
          Handled, Returns, TimerCall, AbstimerCall, OsFdCall, RoFdCall, CallHandler,
          TimerTypes
    <2>4. QED BY <2>1, <2>2, <2>3
  <1>7. QED BY <1>2, <1>3, <1>4, <1>5, <1>6 DEF Loop

\* So do foreach, destroy, run and the expiry of a timer.
LEMMA OtherTypes ==
  ASSUME Types, \/ Foreach \/ Destroy
                \/ (Run \/ \E s \in Sources : TimerExpires(s)) /\ UNCHANGED epollVars
  PROVE  HandTypes' /\ TimerTypes' /\ CtlTypes' /\ RegTypes'
  <1> USE DEF Types, stepVars, handleVars, epollVars
  <1>1. CASE (ForeachStep \/ DestroyStep \/ Run) /\ UNCHANGED epollVars
    BY <1>1
    DEF ForeachStep, ForeachNext, DestroyStep, Run, HandTypes, TimerTypes, CtlTypes,
        RegTypes
  <1>2. ASSUME NEW toClose \in BOOLEAN, ForeachRemove, DriverDetach(captured, toClose)
        PROVE  HandTypes' /\ TimerTypes' /\ CtlTypes' /\ RegTypes'
    <2>1. captured \in Sources
      BY <1>2 DEF ForeachRemove, EachRemove, QueueInv, FlowInv, ListTypes
    <2>2. HandTypes'
      BY <1>2 DEF ForeachRemove, HandTypes
    <2>3. QED BY <1>2, <2>1, <2>2, DetachTypes
  <1>3. ASSUME NEW s \in Sources, DestroyRemove(s), DriverDetach(s, FALSE)
        PROVE  HandTypes' /\ TimerTypes' /\ CtlTypes' /\ RegTypes'
    <2>1. HandTypes'
      BY <1>3 DEF DestroyRemove, HandTypes
    <2>2. QED BY <1>3, <2>1, DetachTypes
  <1>4. ASSUME NEW s \in Sources, TimerExpires(s), UNCHANGED epollVars
        PROVE  HandTypes' /\ TimerTypes' /\ CtlTypes' /\ RegTypes'
    BY <1>4 DEF TimerExpires, HandTypes, TimerTypes, CtlTypes, RegTypes
  <1>5. QED BY <1>1, <1>2, <1>3, <1>4 DEF Foreach, Destroy

\* Flush and wait keep what every other step keeps.
LEMMA RoundQueueInv ==
  ASSUME Types, FlushStep \/ WaitStep
  PROVE  QueueInv'
  <1>1. CASE FlushStep
    BY <1>1, FlushQueueInv DEF FlushStep, FlushAll, FlushFail, Goto, Types
  <1>2. ASSUME NEW batch \in SUBSET Sources, Wait(batch) PROVE QueueInv'
    <2>1. ev' \in [Sources -> SUBSET {"IN", "OUT", "HUP", "ERR"}]
      BY <1>2 DEF Wait, Reports, Types, CtlTypes, IO
    <2>2. QED BY <1>2, <2>1, WaitQueueInv DEF Wait, Types
  <1>3. QED BY <1>1, <1>2 DEF WaitStep

\* Every step keeps the types.
LEMMA NextTypes == Types /\ [Next]_vars => Types'
  <1> SUFFICES ASSUME Types, [Next]_vars PROVE Types'
    OBVIOUS
  <1>1. QueueInv'
    BY NextQueueStep, RoundQueueInv, StepQueueInv DEF Types
  <1>2. FixedTypes'
    BY DEF Next, vars, fixedVars, Types, FixedTypes
  <1>3. CASE UNCHANGED vars
    BY <1>3, <1>1, <1>2
    DEF vars, handleVars, stepVars, epollVars, Types, HandTypes, TimerTypes, CtlTypes,
        RegTypes
  <1>4. QED BY <1>1, <1>2, <1>3, ClientTypes, LoopTypes, OtherTypes DEF Next, Types

-----------------------------------------------------------------------------
\* next_read and next_write leave a source alone that has an unhandled event.
NoCross == ~May("cross")

(***************************************************************************)
(* What the driver notes as armed is running and registered, the kernel    *)
(* watches nothing else, and a oneshot source that the kernel has reported *)
(* is armed neither in the kernel nor, once it is being handled, in the    *)
(* notes of the driver.                                                    *)
(***************************************************************************)
ArmedInv ==
  /\ \A s \in Sources : added[s] => kreg[s] /\ loc[s] = "run"
  /\ \A s \in Sources : karm[s] # {} => added[s]
  /\ \A s \in Sources : ev[s] # {} => added[s] /\ (Oneshot(s) => karm[s] = {})
  /\ cur # NoSource /\ Oneshot(cur) => ~added[cur]

\* Where nothing it speaks of changes.
LEMMA SameArmed ==
  ASSUME ArmedInv, UNCHANGED <<kind, loc, ev, cur, added, kreg, karm>>
  PROVE  ArmedInv'
  BY DEF ArmedInv, Oneshot

\* evdp_source_*_detach of a source that leaves the queue.
LEMMA DetachArmed ==
  ASSUME Types, ArmedInv, NEW s \in Sources, NEW toClose \in BOOLEAN,
         DriverDetach(s, toClose),
         DetachFromQueue(s), cur' \in {cur, NoSource}, UNCHANGED kind
  PROVE  ArmedInv'
  BY DEF Types, QueueInv, ListTypes, CtlTypes, RegTypes, ArmedInv, Oneshot,
      DetachFromQueue, DriverDetach, OsFdDetach, RoFdDetach, ItimerDetach,
      AbstimerDetach, TimerDetach, CtlDel, KeepReg

\* The calls of the client keep ArmedInv; next_read and next_write only for lack of
\* "cross", as otherwise a fired source is armed again while its event waits.
LEMMA ClientArmed ==
  ASSUME NoCross, Types, ArmedInv, Client, UNCHANGED fixedVars
  PROVE  ArmedInv'
  <1>1. PICK s \in Sources :
          \/ New(s) \/ Del(s) \/ Reset(s) \/ Attach(s)
          \/ \E toClose \in BOOLEAN : Detach(s, toClose)
          \/ \E d \in IO : ResetIO(s, d) \/ UnsetIO(s, d)
          \/ /\ Regulate(s) \/ \E d \in IO, on \in BOOLEAN : InitIO(s, d, on)
             /\ UNCHANGED epollVars
    BY DEF Client
  <1> USE DEF fixedVars
  <1>2. CASE New(s)
    BY <1>2
    DEF New, CreateOsFd, CreateRoFd, CreateItimer, CreateAbstimer, OnFd, CtlDel,
        KeepReg, NewOsFd, NewRoFd, NewItimer, NewAbstimer, NewEmpty, Types, QueueInv,
        ListTypes, CtlTypes, RegTypes, ArmedInv, Oneshot
  <1>3. CASE Del(s) \/ Reset(s)
    BY <1>3
    DEF Del, DelFd, DelTimer, Reset, SourceDel, OsFdReset, queueVars, listVars, CtlDel,
        KeepReg, Types, QueueInv, ListTypes, CtlTypes, RegTypes, ArmedInv, Oneshot
  <1>4. CASE Attach(s)
    BY <1>4
    DEF Attach, OsFdAdd, RoFdAdd, ItimerAdd, AbstimerAdd, OsFdAttach, RoFdAttach,
        TimerAttach, SourceAttach, AttachAllowed, InsertPending, InsertRunning, Types,
        QueueInv, ListTypes, CtlTypes, RegTypes, ArmedInv, Oneshot
  <1>5. ASSUME NEW toClose \in BOOLEAN, Detach(s, toClose) PROVE ArmedInv'
    BY <1>5, DetachArmed DEF Detach, SourceDetach
  <1>6. ASSUME NEW d \in IO, ResetIO(s, d) PROVE ArmedInv'
    BY <1>6
    DEF ResetIO, AskIO, MayNextIO, NoCross, RunningToPending, CtlOsFd, listVars,
        Attached, Types, QueueInv, ListTypes, CtlTypes, RegTypes, ArmedInv, Oneshot
  <1>7. ASSUME NEW d \in IO, UnsetIO(s, d) PROVE ArmedInv'
    BY <1>7
    DEF UnsetIO, DropIO, MayNextIO, NoCross, PendingToRunning, CtlDel, KeepReg,
        listVars, Attached, Types, QueueInv, ListTypes, CtlTypes, RegTypes, ArmedInv,
        Oneshot
  <1>8. CASE /\ Regulate(s) \/ \E d \in IO, on \in BOOLEAN : InitIO(s, d, on)
             /\ UNCHANGED epollVars
    BY <1>8, SameArmed DEF Regulate, InitIO, queueVars, listVars, epollVars
  <1>9. QED BY <1>1, <1>2, <1>3, <1>4, <1>5, <1>6, <1>7, <1>8

\* A round of the loop keeps it: flush arms what it moves, wait disarms what it reports.
LEMMA LoopArmed ==
  ASSUME Types, ArmedInv, Loop, UNCHANGED fixedVars
  PROVE  ArmedInv'
  <1> USE DEF fixedVars
  <1>1. ASSUME NEW S \in SUBSET Pending, KernelArms(S), FlushMoves(S) \/ FlushAborts(S),
               pc = "flush",
               UNCHANGED <<ev, cur>>
        PROVE  ArmedInv'
    <2>1. \A s \in Sources : ev'[s] = {}
      BY <1>1 DEF Types, QueueInv, FlowInv
    <2>2. cur' = NoSource
      BY <1>1 DEF Types, QueueInv, FlowInv
    <2>3. /\ loc' = [s \in Sources |-> IF s \in S THEN "run" ELSE loc[s]]
          /\ added' = [s \in Sources |-> added[s] \/ s \in S]
          /\ kreg' = [s \in Sources |-> kreg[s] \/ s \in S]
          /\ karm' = [s \in Sources |-> IF s \in S THEN want[s] ELSE karm[s]]
      BY <1>1 DEF KernelArms, FlushMoves, FlushAborts
    <2>4. QED BY <2>1, <2>2, <2>3 DEF ArmedInv
  <1>2. CASE FlushStep
    BY <1>1, <1>2 DEF FlushStep, FlushAll, FlushFail, Goto
  <1>3. ASSUME NEW batch \in SUBSET Sources, Wait(batch) PROVE ArmedInv'
    BY <1>3
    DEF Wait, Reports, Goto, listVars, Types, QueueInv, ListTypes, FlowInv, CtlTypes,
        RegTypes, ArmedInv, Oneshot
  <1>4. ASSUME NEW s \in Sources, Fetch(s), OsFdFired(s), KeepReg PROVE ArmedInv'
    BY <1>4, QueueConstants
    DEF Fetch, FetchEvent, Goto, listVars, OsFdFired, KeepReg, Types, QueueInv,
        ListTypes, FlowInv, CtlTypes, RegTypes, ArmedInv, Oneshot
  <1>5. ASSUME NEW toClose \in BOOLEAN, CbRemove, DriverDetach(cur, toClose) PROVE ArmedInv'
    <2>1. cur \in Sources
      BY <1>5 DEF CbRemove, Types, QueueInv, FlowInv, ListTypes
    <2>2. QED BY <1>5, <2>1, DetachArmed DEF CbRemove, HandleRemove
  <1>6. CASE Handling
    <2>1. CASE EventHandled
      BY <2>1, <1>6
      DEF Handling, EventHandled, Handled, HandleContinue, RunningToPending, listVars,
          epollVars, Types, QueueInv, ListTypes, FlowInv, RegTypes, ArmedInv, Oneshot
    <2>2. CASE AbstimerCall \/ TimerReadFails \/ CbBreak
      BY <2>2, <1>6
      DEF Handling, AbstimerCall, TimerReadFails, CbBreak, HandleBreak, HandleContinue,
          listVars, epollVars, ArmedInv, Oneshot
    <2>3. QED
      BY <1>6, <2>1, <2>2, SameArmed
      DEF Handling, WaitFails, CbContinue, Returns, BatchDone, RemoveReturn, RoundDone,
          TimerCall, OsFdCall, RoFdCall, CallHandler, listVars, epollVars
  <1>7. QED BY <1>2, <1>3, <1>4, <1>5, <1>6 DEF Loop, FlushStep

\* So do foreach, destroy, run and the expiry of a timer.
LEMMA OtherArmed ==
  ASSUME Types, ArmedInv, UNCHANGED fixedVars,
         \/ Foreach \/ Destroy
         \/ (Run \/ \E s \in Sources : TimerExpires(s)) /\ UNCHANGED epollVars
  PROVE  ArmedInv'
  <1> USE DEF fixedVars, epollVars, listVars
  <1>1. CASE (ForeachStep \/ DestroyStep) /\ UNCHANGED epollVars
    BY <1>1, SameArmed
    DEF ForeachStep, ForeachNext, ForeachNextOne, ForeachStart, ForeachSetEnd,
        ForeachNextNone, EachReturn, DestroyStep, DestroyStart, DestroyCursor,
        DestroyNext
  <1>2. ASSUME NEW toClose \in BOOLEAN, ForeachRemove, DriverDetach(captured, toClose)
        PROVE  ArmedInv'
    <2>1. captured \in Sources
      BY <1>2 DEF ForeachRemove, EachRemove, Types, QueueInv, FlowInv
    <2>2. QED BY <1>2, <2>1, DetachArmed DEF ForeachRemove, EachRemove
  <1>3. ASSUME NEW s \in Sources, DestroyRemove(s), DriverDetach(s, FALSE) PROVE ArmedInv'
    BY <1>3, DetachArmed DEF DestroyRemove, DestroyDetach
  <1>4. CASE (Run \/ \E s \in Sources : TimerExpires(s)) /\ UNCHANGED epollVars
    BY <1>4, SameArmed DEF Run, TimerExpires, queueVars
  <1>5. QED BY <1>1, <1>2, <1>3, <1>4 DEF Foreach, Destroy

\* Every step keeps it.
LEMMA NextArmed ==
  ASSUME NoCross, Types, ArmedInv, [Next]_vars
  PROVE  ArmedInv'
  <1>1. CASE UNCHANGED vars
    BY <1>1, SameArmed DEF vars, fixedVars, queueVars, listVars, epollVars
  <1>2. QED BY <1>1, ClientArmed, LoopArmed, OtherArmed DEF Next

\* ArmedInv is an invariant.
LEMMA ArmedHolds == ASSUME NoCross PROVE Spec => [](Types /\ ArmedInv)
  <1>1. Init => Types /\ ArmedInv
    <2>1. Init => ArmedInv
      BY DEF Init, HandleInit, QueueInit, ArmedInv
    <2>2. QED BY <2>1, InitTypes
  <1>2. Types /\ ArmedInv /\ [Next]_vars => (Types /\ ArmedInv)'
    BY NextTypes, NextArmed
  <1>3. QED BY <1>1, <1>2, PTL DEF Spec

\* A source that was detached is not heard of again, neither from the batch nor from the
\* epoll set, whatever the client and the kernel do, as long as NoCross holds.
THEOREM DetachedStaySilent == ASSUME NoCross PROVE Spec => []DetachedSilent
  <1>1. Types /\ ArmedInv => DetachedSilent
    BY DEF ArmedInv, DetachedSilent, NoEventForDetached, NoStrayEvent, Attached
  <1>2. QED BY <1>1, ArmedHolds, PTL

-----------------------------------------------------------------------------
\* A source is running while its event is handled.
CurRuns == cur # NoSource => loc[cur] = "run"

\* Flush and wait come when no callback runs.
LEMMA RoundEachInv ==
  ASSUME Types, EachInv, FlushStep \/ WaitStep
  PROVE  EachInv'
  <1>1. cur = NoSource /\ each = NoSource
    BY DEF FlushStep, WaitStep, FlushAll, FlushFail, Wait, Goto, Types, QueueInv,
        FlowInv, InClient
  <1>2. UNCHANGED <<cur, each, fid, foreachId, ahead>>
    BY DEF FlushStep, WaitStep, FlushAll, FlushFail, FlushMoves, FlushAborts, Wait,
        eachVars
  <1>3. QED BY <1>1, <1>2 DEF EachInv

\* Client code in a callback leaves the source of that callback on the running list.
LEMMA ClientCurRuns ==
  ASSUME Types, EachInv, CurRuns, Client
  PROVE  CurRuns'
  <1>1. PICK s \in Sources :
          \/ New(s) \/ Del(s) \/ Reset(s) \/ Attach(s)
          \/ \E toClose \in BOOLEAN : Detach(s, toClose)
          \/ \E d \in IO : ResetIO(s, d) \/ UnsetIO(s, d)
          \/ /\ Regulate(s) \/ \E d \in IO, on \in BOOLEAN : InitIO(s, d, on)
             /\ UNCHANGED epollVars
    BY DEF Client
  <1> USE DEF Types, QueueInv, ListTypes, FlowInv, EachInv, CurRuns, Attached
  <1>2. CASE New(s)
    BY <1>2
    DEF New, CreateOsFd, CreateRoFd, CreateItimer, CreateAbstimer, NewOsFd, NewRoFd,
        NewItimer, NewAbstimer, NewEmpty
  <1>3. CASE Del(s) \/ Reset(s)
    BY <1>3 DEF Del, DelFd, DelTimer, Reset, SourceDel, OsFdReset, queueVars, listVars
  <1>4. CASE Attach(s)
    BY <1>4
    DEF Attach, OsFdAdd, RoFdAdd, ItimerAdd, AbstimerAdd, OsFdAttach, RoFdAttach,
        TimerAttach, SourceAttach, AttachAllowed, InsertPending, InsertRunning
  <1>5. ASSUME NEW toClose \in BOOLEAN, Detach(s, toClose) PROVE CurRuns'
    BY <1>5 DEF Detach, SourceDetach, DetachAllowed, DetachFromQueue
  <1>6. ASSUME NEW d \in IO, ResetIO(s, d) \/ UnsetIO(s, d) PROVE CurRuns'
    BY <1>6
    DEF ResetIO, UnsetIO, AskIO, DropIO, MayNextIO, InCallback, InClient, InDestroy,
        RunningToPending, PendingToRunning, listVars
  <1>7. CASE /\ Regulate(s) \/ \E d \in IO, on \in BOOLEAN : InitIO(s, d, on)
             /\ UNCHANGED epollVars
    BY <1>7 DEF Regulate, InitIO, queueVars, listVars
  <1>8. QED BY <1>1, <1>2, <1>3, <1>4, <1>5, <1>6, <1>7

\* So does every step, and a source is running when its event is fetched.
LEMMA NextCurRuns ==
  ASSUME Types, ArmedInv, EachInv, CurRuns, [Next]_vars
  PROVE  CurRuns'
  <1>1. CASE Client
    BY <1>1, ClientCurRuns
  <1>2. CASE Foreach
    BY <1>2
    DEF Foreach, ForeachStep, ForeachNext, ForeachNextOne, ForeachStart, ForeachSetEnd,
        ForeachNextNone, EachReturn, ForeachRemove, EachRemove, DetachFromQueue,
        listVars, EachInv, CurRuns, Types, QueueInv, ListTypes
  <1>3. CASE FlushStep \/ WaitStep
    <2>1. cur' = NoSource
      BY <1>3
      DEF FlushStep, WaitStep, FlushAll, FlushFail, Wait, Goto, Types, QueueInv, FlowInv
    <2>2. QED BY <2>1 DEF CurRuns
  <1>4. CASE \E s \in Sources : Fetch(s) /\ OsFdFired(s) /\ KeepReg
    BY <1>4 DEF Fetch, FetchEvent, listVars, ArmedInv, CurRuns
  <1>5. CASE Handling \/ \E toClose \in BOOLEAN : CbRemove /\ DriverDetach(cur, toClose)
    BY <1>5
    DEF Handling, WaitFails, TimerReadFails, CbContinue, CbBreak, CbRemove,
        EventHandled, Handled, Returns, BatchDone, RemoveReturn, RoundDone, TimerCall,
        AbstimerCall, OsFdCall, RoFdCall, CallHandler, HandleBreak, HandleContinue,
        HandleRemove, listVars, CurRuns
  <1>6. CASE Destroy
    BY <1>6
    DEF Destroy, DestroyStep, DestroyStart, DestroyCursor, DestroyNext, DestroyRemove,
        DestroyDetach, Goto, listVars, CurRuns, Types, QueueInv, FlowInv
  <1>7. CASE Run \/ \E s \in Sources : TimerExpires(s)
    BY <1>7 DEF Run, TimerExpires, queueVars, listVars, CurRuns
  <1>8. CASE UNCHANGED vars
    BY <1>8 DEF vars, queueVars, listVars, CurRuns
  <1>9. QED BY <1>1, <1>2, <1>3, <1>4, <1>5, <1>6, <1>7, <1>8
            DEF Next, Loop, FlushStep, WaitStep

CallbackInv == Types /\ ArmedInv /\ EachInv /\ CurRuns

\* The invariants of the callbacks are inductive together.
LEMMA NextCallbackInv ==
  ASSUME NoCross, OrderlyForeach, CallbackInv, [Next]_vars
  PROVE  CallbackInv'
  <1> USE DEF CallbackInv
  <1>1. NoEventForDetached
    BY DEF ArmedInv, NoEventForDetached, Attached
  <1>2. EachInv'
    BY <1>1, NextQueueStep, RoundEachInv, StepEachInv DEF Types
  <1>3. QED BY <1>2, NextTypes, NextArmed, NextCurRuns

\* They hold.
LEMMA CallbackHolds == ASSUME NoCross, OrderlyForeach PROVE Spec => []CallbackInv
  <1>1. Init => CallbackInv
    <2>1. Init => ArmedInv /\ CurRuns
      BY DEF Init, HandleInit, QueueInit, ArmedInv, CurRuns
    <2>2. Init => EachInv
      BY QueueInitEach DEF Init, HandleInit
    <2>3. QED BY <2>1, <2>2, InitTypes DEF CallbackInv
  <1>2. CallbackInv /\ [Next]_vars => CallbackInv'
    BY NextCallbackInv
  <1>3. QED BY <1>1, <1>2, PTL DEF Spec

\* neb_evdp_queue_detach and "detach protected": whatever a callback detaches, and
\* whatever a foreach callback asks to remove, the source of an event or foreach callback
\* stays attached until the callback is over, also where foreach_next is called from an
\* event callback.
THEOREM CallbackStaysAttached ==
  ASSUME NoCross, OrderlyForeach
  PROVE  Spec => []CallbackSourceAttached
  <1>1. CallbackInv => CallbackSourceAttached
    BY DEF CallbackInv, EachInv, CallbackSourceAttached
  <1>2. QED BY <1>1, CallbackHolds, PTL

\* neb_evdp_queue_foreach_next calls only sources with a utype, and none of them twice
\* between a foreach_start and the next, however foreach is used.
THEOREM ForeachCallsOnce == Spec => ForeachOnce
  <1>1. Types /\ [Next]_vars =>
          [ each' # each /\ each' # NoSource =>
              each' \in Typed /\ each' \notin called ]_<<each, called, ev, loc, pc>>
    <2> SUFFICES ASSUME Types, [Next]_vars, each' # each, each' # NoSource
                 PROVE  each' \in Typed /\ each' \notin called
      OBVIOUS
    <2>1. CASE QueueStep
      <3>1. CASE \E s \in Sources, skipped \in SUBSET Sources : ForeachNext(s, skipped)
        BY <3>1 DEF ForeachNext, ForeachNextOne, Eligible, Types, QueueInv, FlowInv
      <3>2. QED
        BY <2>1, <3>1
        DEF QueueStep, queueVars, eachVars, ClientStep, NewEmpty, SourceDel,
            SourceDetach, SourceAttach, Fetch, FetchEvent, DestroyRemove, DestroyDetach,
            ForeachStep, ForeachStart, ForeachSetEnd, ForeachNextNone, EachReturn,
            ForeachRemove, EachRemove, DestroyStep, DestroyStart, DestroyCursor,
            DestroyNext, HandlingStep, Run, WaitFails, Returns, BatchDone, RemoveReturn,
            RoundDone, CallHandler, TimerReadFails, CbContinue, CbBreak, CbRemove,
            HandleBreak, HandleContinue, HandleRemove
    <2>2. CASE FlushStep \/ WaitStep
      BY <2>2 DEF FlushStep, WaitStep, FlushAll, FlushFail, Wait, eachVars
    <2>3. QED BY <2>1, <2>2, NextQueueStep
  <1>2. Spec => []Types
    BY InitTypes, NextTypes, PTL DEF Spec
  <1>3. QED BY <1>1, <1>2, PTL DEF Spec, ForeachOnce

-----------------------------------------------------------------------------
(***************************************************************************)
(* The counters.                                                           *)
(***************************************************************************)
FlushFails == \E f \in Sources, done \in SUBSET Sources : FlushFail(f, done)

\* A flush that fails, and the foreach cursor when destroy meets it, are the only steps
\* that do not count what they move.
LEMMA StepCounts ==
  ASSUME CallbackInv, [Next]_vars
  PROVE  FlushFails \/ DestroyCursor \/ Balanced
  <1> USE DEF CallbackInv
  <1>1. CASE QueueStep
    <2>1. pc = "dispatch" => loc[cur] = "run"
      BY DEF CurRuns, Types, QueueInv, FlowInv
    <2>2. /\ cur # NoSource => cur \in Attached
          /\ each # NoSource => captured \in Attached
      BY DEF EachInv
    <2>3. QED BY <1>1, <2>1, <2>2, StepBalanced DEF Types
  <1>2. CASE FlushAll
    BY <1>2, FlushBalanced DEF FlushAll, Types, QueueInv
  <1>3. CASE WaitStep
    BY <1>3, StillBalanced DEF WaitStep, Wait
  <1>4. QED BY <1>1, <1>2, <1>3, NextQueueStep DEF FlushStep, FlushFails

\* What stats.pending has too much is what stats.running lacks, as long as destroy has
\* not done with pending_qs; from then on nothing is pending.
CountsInv ==
  /\ ~Ending => Miscounted >= 0 /\ nRun = 1 + Cardinality(Running) - Miscounted
  /\ Ending => Pending = {}

\* evdp_queue_flush_pending_sources, when an epoll_ctl fails: what was moved is counted
\* for pending_qs from now on.
LEMMA FailedFlush ==
  ASSUME Types, CountsInv, FlushFails
  PROVE  CountsInv'
  <1>1. PICK f \in Sources, done \in SUBSET Sources : FlushFail(f, done)
    BY DEF FlushFails
  <1>2. ~Ending /\ ~Ending'
    BY <1>1 DEF FlushFail, Goto, Ending
  <1>3. /\ Cardinality(done) \in Nat
        /\ Cardinality(Pending') = Cardinality(Pending) - Cardinality(done)
        /\ Cardinality(Running') = Cardinality(Running) + Cardinality(done)
    BY <1>1, FlushCounts DEF FlushFail, FlushAborts, Types, QueueInv
  <1>4. UNCHANGED <<nPend, nRun>>
    BY <1>1 DEF FlushFail, FlushAborts
  <1>5. /\ nPend \in Int /\ nRun \in Int
        /\ Cardinality(Pending) \in Nat /\ Cardinality(Running) \in Nat
    BY ListsFinite DEF Types, QueueInv, ListTypes
  <1>6. Miscounted >= 0 /\ nRun = 1 + Cardinality(Running) - Miscounted
    BY <1>2 DEF CountsInv
  <1>7. Miscounted' = Miscounted + Cardinality(done)
    BY <1>3, <1>4, <1>5 DEF Miscounted
  <1>8. (Miscounted >= 0 /\ nRun = 1 + Cardinality(Running) - Miscounted)'
    <2>1. Miscounted \in Int
      BY <1>5 DEF Miscounted
    <2>2. QED BY <1>3, <1>4, <1>5, <1>6, <1>7, <2>1
  <1>9. QED BY <1>2, <1>8 DEF CountsInv

\* Every other step counts what it moves until destroy has done with pending_qs.
LEMMA CountedStep ==
  ASSUME ~May("removeIO"), CallbackInv, CallbackInv', CountsInv, [Next]_vars, ~FlushFails
  PROVE  CountsInv'
  <1>1. QueueInv /\ QueueInv'
    BY DEF CallbackInv, Types
  <1>2. QueueStep \/ (Balanced /\ ~Ending /\ ~Ending')
    <2>1. CASE FlushAll \/ WaitStep
      <3>1. Balanced
        BY <2>1, StepCounts DEF FlushAll, WaitStep, Wait, Goto, DestroyCursor
      <3>2. ~Ending /\ ~Ending'
        BY <2>1 DEF FlushAll, WaitStep, Wait, Goto, Ending
      <3>3. QED BY <3>1, <3>2
    <2>2. QED BY <2>1, NextQueueStep DEF FlushStep, FlushFails
  <1>3. CASE Ending
    <2>1. QueueStep
      BY <1>2, <1>3
    <2>2. Ending' /\ Pending' \subseteq Pending
      BY <1>1, <1>3, <2>1, EndingStep
    <2>3. QED BY <1>3, <2>2 DEF CountsInv
  <1>4. CASE ~Ending
    <2>1. Balanced
      BY <1>4, StepCounts DEF DestroyCursor, Ending
    <2>2. /\ nPend \in Int /\ nRun \in Int /\ nPend' \in Int /\ nRun' \in Int
          /\ Cardinality(Pending) \in Nat /\ Cardinality(Running) \in Nat
      BY <1>1, ListsFinite DEF QueueInv, ListTypes
    <2>3. (Cardinality(Pending) \in Nat /\ Cardinality(Running) \in Nat)'
      BY ListsFinite, PTL
    <2>4. Miscounted >= 0 /\ nRun = 1 + Cardinality(Running) - Miscounted
      BY <1>4 DEF CountsInv
    <2>5. (Miscounted >= 0 /\ nRun = 1 + Cardinality(Running) - Miscounted)'
      BY <2>1, <2>2, <2>3, <2>4 DEF Balanced, Miscounted
    <2>6. nPend # 0
      BY <2>2, <2>4 DEF Miscounted
    <2>7. Ending' => Pending' = {}
      BY <1>1, <1>2, <1>4, <2>6, EndingBegins
    <2>8. QED BY <2>5, <2>7 DEF CountsInv
  <1>5. QED BY <1>3, <1>4

\* When an epoll_ctl fails in a flush, for lack of memory or because the fd is still
\* registered, and after the client has run the loop again, any number of times: the
\* counters are wrong by what the failed flushes moved and by nothing else, destroy does
\* not miss a pending source, and the epoll set reports attached sources only.
THEOREM FailuresAreHarmless ==
  ASSUME NoCross, OrderlyForeach, ~May("removeIO")
  PROVE  Spec => []FailuresHarmless
  <1>1. Init => CountsInv
    <2>1. Init => /\ nPend = 1 + Cardinality(Pending) /\ nRun = 1 + Cardinality(Running)
                  /\ pc = "out"
      BY InitCounts DEF Init, HandleInit, QueueInit
    <2>2. QED BY <2>1, ListsFinite DEF CountsInv, Miscounted, Ending
  <1>2. CallbackInv /\ CallbackInv' /\ CountsInv /\ [Next]_vars => CountsInv'
    <2>1. ASSUME CallbackInv, CallbackInv', CountsInv, [Next]_vars PROVE CountsInv'
      BY <2>1, FailedFlush, CountedStep DEF CallbackInv
    <2>2. QED BY <2>1
  <1>3. CallbackInv /\ CountsInv => FailuresHarmless
    <2>1. CallbackInv => NoStrayEvent
      BY DEF CallbackInv, ArmedInv, NoStrayEvent, Attached
    <2>2. CountsInv => MiscountBounded /\ PendingDrained
      BY DEF CountsInv, MiscountBounded, PendingDrained, Live, Ending
    <2>3. QED BY <2>1, <2>2 DEF FailuresHarmless
  <1>4. QED BY <1>1, <1>2, <1>3, CallbackHolds, PTL DEF Spec

-----------------------------------------------------------------------------
\* The flush of an attached source that is not armed would be taken: ADD of an fd that is
\* not registered, MOD of one that is.
CtlInv == \A s \in Attached : ~added[s] => ((ctlOp[s] = "ADD") <=> ~kreg[s])

\* Where nothing it speaks of changes.
LEMMA SameCtl ==
  ASSUME CtlInv, UNCHANGED <<loc, added, kreg, ctlOp>>
  PROVE  CtlInv'
  BY DEF CtlInv, Attached

\* evdp_source_*_detach of a source that leaves the queue.
LEMMA DetachCtl ==
  ASSUME Types, CtlInv, NEW s \in Sources, NEW toClose \in BOOLEAN,
         DriverDetach(s, toClose), DetachFromQueue(s)
  PROVE  CtlInv'
  BY DEF Types, QueueInv, ListTypes, CtlTypes, RegTypes, CtlInv, Attached,
      DetachFromQueue, DriverDetach, OsFdDetach, RoFdDetach, ItimerDetach,
      AbstimerDetach, TimerDetach, CtlDel, KeepReg

\* The calls of the client keep CtlInv; attach only for lack of "reattach".
LEMMA ClientCtl ==
  ASSUME ~May("reattach"), Types, ArmedInv, CtlInv, Client
  PROVE  CtlInv'
  <1>1. PICK s \in Sources :
          \/ New(s) \/ Del(s) \/ Reset(s) \/ Attach(s)
          \/ \E toClose \in BOOLEAN : Detach(s, toClose)
          \/ \E d \in IO : ResetIO(s, d) \/ UnsetIO(s, d)
          \/ /\ Regulate(s) \/ \E d \in IO, on \in BOOLEAN : InitIO(s, d, on)
             /\ UNCHANGED epollVars
    BY DEF Client
  <1> USE DEF Types, QueueInv, ListTypes, CtlTypes, RegTypes, CtlInv, Attached
  <1>2. CASE New(s)
    BY <1>2
    DEF New, CreateOsFd, CreateRoFd, CreateItimer, CreateAbstimer, OnFd, CtlDel,
        KeepReg, NewOsFd, NewRoFd, NewItimer, NewAbstimer, NewEmpty
  <1>3. CASE Del(s) \/ Reset(s)
    BY <1>3
    DEF Del, DelFd, DelTimer, Reset, SourceDel, OsFdReset, queueVars, listVars, CtlDel,
        KeepReg
  <1>4. CASE Attach(s)
    BY <1>4
    DEF Attach, OsFdAdd, RoFdAdd, ItimerAdd, AbstimerAdd, AddFirst, OsFdAttach,
        RoFdAttach, TimerAttach, InsertPending, InsertRunning
  <1>5. ASSUME NEW toClose \in BOOLEAN, Detach(s, toClose) PROVE CtlInv'
    BY <1>5, DetachCtl DEF Detach, SourceDetach
  <1>6. ASSUME NEW d \in IO, ResetIO(s, d) PROVE CtlInv'
    BY <1>6 DEF ResetIO, AskIO, RunningToPending, listVars
  <1>7. ASSUME NEW d \in IO, UnsetIO(s, d) PROVE CtlInv'
    BY <1>7 DEF UnsetIO, DropIO, PendingToRunning, CtlDel, KeepReg, listVars
  <1>8. CASE /\ Regulate(s) \/ \E d \in IO, on \in BOOLEAN : InitIO(s, d, on)
             /\ UNCHANGED epollVars
    BY <1>8, SameCtl DEF Regulate, InitIO, queueVars, listVars, epollVars
  <1>9. QED BY <1>1, <1>2, <1>3, <1>4, <1>5, <1>6, <1>7, <1>8

\* A round of the loop keeps it.
LEMMA LoopCtl ==
  ASSUME CallbackInv, CtlInv, Loop
  PROVE  CtlInv'
  <1> USE DEF CallbackInv, Types, QueueInv, ListTypes, CtlTypes, RegTypes
  <1>1. ASSUME NEW S \in SUBSET Pending, KernelArms(S), FlushMoves(S) \/ FlushAborts(S),
               UNCHANGED ctlOp
        PROVE  CtlInv'
    <2>1. /\ loc' = [s \in Sources |-> IF s \in S THEN "run" ELSE loc[s]]
          /\ added' = [s \in Sources |-> added[s] \/ s \in S]
          /\ kreg' = [s \in Sources |-> kreg[s] \/ s \in S]
      BY <1>1 DEF KernelArms, FlushMoves, FlushAborts
    <2>2. QED BY <1>1, <2>1 DEF CtlInv, Attached
  <1>2. CASE FlushStep
    BY <1>1, <1>2 DEF FlushStep, FlushAll, FlushFail
  <1>3. CASE WaitStep
    BY <1>3, SameCtl DEF WaitStep, Wait, listVars
  <1>4. ASSUME NEW s \in Sources, Fetch(s), OsFdFired(s), KeepReg PROVE CtlInv'
    BY <1>4
    DEF Fetch, FetchEvent, listVars, OsFdFired, KeepReg, ArmedInv, CtlInv, Attached
  <1>5. ASSUME NEW toClose \in BOOLEAN, CbRemove, DriverDetach(cur, toClose) PROVE CtlInv'
    <2>1. cur \in Sources
      BY <1>5 DEF CbRemove, FlowInv
    <2>2. QED BY <1>5, <2>1, DetachCtl DEF CbRemove, HandleRemove
  <1>6. CASE Handling
    <2>1. CASE EventHandled
      <3>1. cur \in Sources /\ loc[cur] = "run"
        BY <2>1 DEF EventHandled, Handled, FlowInv, CurRuns
      <3>2. QED BY <2>1, <3>1, <1>6
                DEF Handling, EventHandled, RunningToPending, listVars, epollVars,
                    CtlInv, Attached
    <2>2. QED
      BY <1>6, <2>1, SameCtl
      DEF Handling, WaitFails, TimerReadFails, CbContinue, CbBreak, Returns, BatchDone,
          RemoveReturn, RoundDone, TimerCall, AbstimerCall, OsFdCall, RoFdCall,
          CallHandler, HandleBreak, listVars, epollVars
  <1>7. QED BY <1>2, <1>3, <1>4, <1>5, <1>6 DEF Loop, FlushStep, WaitStep

\* Every step keeps it.
LEMMA NextCtl ==
  ASSUME ~May("reattach"), CallbackInv, CtlInv, [Next]_vars
  PROVE  CtlInv'
  <1> USE DEF epollVars, listVars, CallbackInv
  <1>1. CASE (ForeachStep \/ DestroyStep) /\ UNCHANGED epollVars
    BY <1>1, SameCtl
    DEF ForeachStep, ForeachNext, ForeachNextOne, ForeachStart, ForeachSetEnd,
        ForeachNextNone, EachReturn, DestroyStep, DestroyStart, DestroyCursor,
        DestroyNext
  <1>2. ASSUME NEW toClose \in BOOLEAN, ForeachRemove, DriverDetach(captured, toClose)
        PROVE  CtlInv'
    <2>1. captured \in Sources
      BY <1>2 DEF ForeachRemove, EachRemove, Types, QueueInv, FlowInv
    <2>2. QED BY <1>2, <2>1, DetachCtl DEF ForeachRemove, EachRemove
  <1>3. ASSUME NEW s \in Sources, DestroyRemove(s), DriverDetach(s, FALSE) PROVE CtlInv'
    BY <1>3, DetachCtl DEF DestroyRemove, DestroyDetach
  <1>4. CASE (Run \/ \E s \in Sources : TimerExpires(s)) /\ UNCHANGED epollVars
    BY <1>4, SameCtl DEF Run, TimerExpires, queueVars
  <1>5. CASE UNCHANGED vars
    BY <1>5, SameCtl DEF vars, queueVars
  <1>6. QED BY <1>1, <1>2, <1>3, <1>4, <1>5, ClientCtl, LoopCtl
            DEF Next, Foreach, Destroy

AgreeInv == CallbackInv /\ CtlInv

\* It holds.
LEMMA AgreeHolds ==
  ASSUME NoCross, OrderlyForeach, ~May("reattach")
  PROVE  Spec => []AgreeInv
  <1>1. Init => CtlInv
    BY DEF Init, HandleInit, QueueInit, CtlInv, Attached
  <1>2. CallbackInv /\ CtlInv /\ [Next]_vars => CtlInv'
    BY NextCtl
  <1>3. QED BY <1>1, <1>2, CallbackHolds, PTL DEF Spec, AgreeInv

-----------------------------------------------------------------------------
(***************************************************************************)
(* Interest.                                                               *)
(***************************************************************************)
\* The interest of s is looked after.
Watched(s) ==
  Oneshot(s) /\ want[s] # {} /\ s # cur /\ ev[s] = {} =>
    loc[s] = "pend" \/ (added[s] /\ want[s] \subseteq karm[s])

InterestInv == \A s \in Attached : Watched(s)

\* Where nothing it speaks of changes.
LEMMA SameInterest ==
  ASSUME InterestInv, UNCHANGED <<kind, loc, want, cur, ev, added, karm>>
  PROVE  InterestInv'
  BY DEF InterestInv, Watched, Attached, Oneshot

\* evdp_source_*_detach of a source that leaves the queue.
LEMMA DetachInterest ==
  ASSUME Types, InterestInv, NEW s \in Sources, NEW toClose \in BOOLEAN,
         DriverDetach(s, toClose), DetachFromQueue(s),
         cur' = cur \/ cur = s, UNCHANGED <<kind, want>>
  PROVE  InterestInv'
  BY DEF Types, QueueInv, ListTypes, CtlTypes, RegTypes, InterestInv, Watched, Oneshot,
      Attached, DetachFromQueue, DriverDetach, OsFdDetach, RoFdDetach, ItimerDetach,
      AbstimerDetach, TimerDetach, CtlDel, KeepReg

\* The calls of the client keep InterestInv; next_read and next_write only for lack of
\* "rearm".
LEMMA ClientInterest ==
  ASSUME ~May("rearm"), CallbackInv, InterestInv, Client, UNCHANGED fixedVars
  PROVE  InterestInv'
  <1>1. PICK s \in Sources :
          \/ New(s) \/ Del(s) \/ Reset(s) \/ Attach(s)
          \/ \E toClose \in BOOLEAN : Detach(s, toClose)
          \/ \E d \in IO : ResetIO(s, d) \/ UnsetIO(s, d)
          \/ /\ Regulate(s) \/ \E d \in IO, on \in BOOLEAN : InitIO(s, d, on)
             /\ UNCHANGED epollVars
    BY DEF Client
  <1> USE DEF CallbackInv, Types, QueueInv, ListTypes, CtlTypes, RegTypes, HandTypes,
          fixedVars, InterestInv, Watched, Attached, Oneshot
  <1>2. CASE New(s)
    BY <1>2
    DEF New, CreateOsFd, CreateRoFd, CreateItimer, CreateAbstimer, OnFd, CtlDel,
        KeepReg, NewOsFd, NewRoFd, NewItimer, NewAbstimer, NewEmpty
  <1>3. CASE Del(s) \/ Reset(s)
    BY <1>3
    DEF Del, DelFd, DelTimer, Reset, SourceDel, OsFdReset, queueVars, listVars, CtlDel,
        KeepReg
  <1>4. CASE Attach(s)
    BY <1>4
    DEF Attach, OsFdAdd, RoFdAdd, ItimerAdd, AbstimerAdd, OsFdAttach, RoFdAttach,
        TimerAttach, SourceAttach, AttachAllowed, InsertPending, InsertRunning
  <1>5. ASSUME NEW toClose \in BOOLEAN, Detach(s, toClose) PROVE InterestInv'
    BY <1>5, DetachInterest DEF Detach, SourceDetach
  <1>6. ASSUME NEW d \in IO, ResetIO(s, d) PROVE InterestInv'
    <2>1. ASSUME NEW t \in Attached', t # s PROVE Watched(t)'
      BY <1>6, <2>1 DEF ResetIO, AskIO, RunningToPending, CtlOsFd, listVars
    <2>2. Watched(s)'
      BY <1>6
      DEF ResetIO, AskIO, InCallback, RunningToPending, CtlOsFd, listVars, ArmedInv
    <2>3. QED BY <2>1, <2>2
  <1>7. ASSUME NEW d \in IO, UnsetIO(s, d) PROVE InterestInv'
    <2>1. ASSUME NEW t \in Attached', t # s PROVE Watched(t)'
      BY <1>7, <2>1 DEF UnsetIO, DropIO, PendingToRunning, CtlDel, KeepReg, listVars
    <2>2. Watched(s)'
      BY <1>7
      DEF UnsetIO, DropIO, LastIO, PendingToRunning, CtlDel, KeepReg, listVars, ArmedInv
    <2>3. QED BY <2>1, <2>2
  <1>8. CASE Regulate(s) /\ UNCHANGED epollVars
    BY <1>8, SameInterest DEF Regulate, queueVars, listVars, epollVars
  <1>9. CASE (\E d \in IO, on \in BOOLEAN : InitIO(s, d, on)) /\ UNCHANGED epollVars
    BY <1>9 DEF InitIO, queueVars, listVars, epollVars
  <1>10. QED BY <1>1, <1>2, <1>3, <1>4, <1>5, <1>6, <1>7, <1>8, <1>9

\* A round of the loop keeps it, unless it ends the loop.
LEMMA LoopInterest ==
  ASSUME CallbackInv, InterestInv, Loop, UNCHANGED fixedVars, pc' # "stopped"
  PROVE  InterestInv'
  <1> USE DEF CallbackInv, Types, QueueInv, ListTypes, CtlTypes, RegTypes, HandTypes,
          fixedVars
  <1>1. CASE FlushAll
    <2>1. /\ loc' = [s \in Sources |-> IF s \in Pending THEN "run" ELSE loc[s]]
          /\ added' = [s \in Sources |-> added[s] \/ s \in Pending]
          /\ karm' = [s \in Sources |-> IF s \in Pending THEN want[s] ELSE karm[s]]
          /\ UNCHANGED <<kind, want, cur, ev>>
      BY <1>1 DEF FlushAll, FlushMoves, KernelArms, handleVars
    <2>2. QED BY <2>1 DEF InterestInv, Watched, Attached, Oneshot, Pending
  <1>2. ASSUME NEW batch \in SUBSET Sources, Wait(batch) PROVE InterestInv'
    <2>1. \A s \in batch : ev'[s] # {}
      <3>1. ASSUME NEW s \in batch PROVE {} \notin Reports(s)
        <4>1. {"IN"} # {} /\ {"ERR"} # {}
          OBVIOUS
        <4>2. CASE karm[s] = {} \/ IsTimer(s)
          BY <4>1, <4>2 DEF Reports
        <4>3. CASE ~(karm[s] = {} \/ IsTimer(s))
          <5>1. Reports(s) = ((SUBSET (karm[s] \cup {"HUP"})) \ {{}}) \cup {{"ERR"}}
            BY <4>3 DEF Reports
          <5>2. QED BY <4>1, <5>1
        <4>4. QED BY <4>2, <4>3
      <3>2. \A s \in batch : ev'[s] \in Reports(s)
        BY <1>2 DEF Wait
      <3>3. QED BY <3>1, <3>2
    <2>2. \A s \in Sources \ batch : ev'[s] = {} /\ karm'[s] = karm[s]
      BY <1>2 DEF Wait
    <2>3. \A s \in Sources : ev[s] = {}
      BY <1>2 DEF Wait, Goto, FlowInv
    <2>4. UNCHANGED <<kind, loc, want, cur, added>>
      BY <1>2 DEF Wait, listVars, handleVars
    <2>5. QED BY <2>1, <2>2, <2>3, <2>4 DEF InterestInv, Watched, Attached, Oneshot
  <1>3. ASSUME NEW s \in Sources, Fetch(s), OsFdFired(s), KeepReg PROVE InterestInv'
    BY <1>3, QueueConstants
    DEF Fetch, FetchEvent, Goto, FlowInv, listVars, OsFdFired, KeepReg, InterestInv,
        Watched, Attached, Oneshot
  <1>4. ASSUME NEW toClose \in BOOLEAN, CbRemove, DriverDetach(cur, toClose)
        PROVE  InterestInv'
    <2>1. cur \in Sources
      BY <1>4 DEF CbRemove, FlowInv
    <2>2. QED BY <1>4, <2>1, DetachInterest DEF CbRemove, HandleRemove
  <1>5. CASE Handling
    <2> USE <1>5 DEF InterestInv, Watched, Attached, Oneshot, listVars, epollVars
    <2>1. CASE EventHandled
      BY <2>1
      DEF Handling, EventHandled, Handled, HandleContinue, RunningToPending, FlowInv
    <2>2. CASE AbstimerCall
      BY <2>2 DEF Handling, AbstimerCall, HandleContinue
    <2>3. CASE \E flag \in {"IN", "HUP", "OUT"} : OsFdCall(flag)
      BY <2>3 DEF Handling, OsFdCall, CallHandler
    <2>4. QED
      BY <2>1, <2>2, <2>3, SameInterest
      DEF Handling, WaitFails, TimerReadFails, CbContinue, CbBreak, HandleBreak, Goto,
          Returns, BatchDone, RemoveReturn, RoundDone, TimerCall, RoFdCall, CallHandler,
          handleVars
  <1>6. QED BY <1>1, <1>2, <1>3, <1>4, <1>5 DEF Loop, FlushFail, Goto

\* Every step of a loop that goes on keeps it.
LEMMA NextInterest ==
  ASSUME ~May("rearm"), CallbackInv, InterestInv, [Next]_vars, Live'
  PROVE  InterestInv'
  <1> USE DEF epollVars, listVars, CallbackInv, fixedVars, handleVars
  <1>1. CASE ForeachStep /\ UNCHANGED <<fixedVars, epollVars>>
    BY <1>1, SameInterest
    DEF ForeachStep, ForeachNext, ForeachNextOne, ForeachStart, ForeachSetEnd,
        ForeachNextNone, EachReturn
  <1>2. CASE DestroyStep /\ UNCHANGED <<fixedVars, epollVars>>
    BY <1>2, SameInterest DEF DestroyStep, DestroyStart, DestroyCursor, DestroyNext
  <1>3. ASSUME NEW toClose \in BOOLEAN, ForeachRemove, DriverDetach(captured, toClose),
               UNCHANGED fixedVars
        PROVE  InterestInv'
    <2>1. captured \in Sources
      BY <1>3 DEF ForeachRemove, EachRemove, Types, QueueInv, FlowInv
    <2>2. QED BY <1>3, <2>1, DetachInterest DEF ForeachRemove, EachRemove
  <1>4. ASSUME NEW s \in Sources, DestroyRemove(s), DriverDetach(s, FALSE),
               UNCHANGED fixedVars
        PROVE  InterestInv'
    BY <1>4, DetachInterest DEF DestroyRemove, DestroyDetach
  <1>5. CASE (Run \/ \E s \in Sources : TimerExpires(s)) /\ UNCHANGED <<fixedVars, epollVars>>
    BY <1>5, SameInterest DEF Run, TimerExpires, queueVars
  <1>6. CASE UNCHANGED vars
    BY <1>6, SameInterest DEF vars, queueVars
  <1>7. CASE Loop /\ UNCHANGED fixedVars
    BY <1>7, LoopInterest DEF Live
  <1>8. QED BY <1>1, <1>2, <1>3, <1>4, <1>5, <1>6, <1>7, ClientInterest
            DEF Next, Foreach, Destroy

\* What the driver notes agrees with the epoll set as long as the loop goes on.
THEOREM KernelAlwaysAgrees ==
  ASSUME NoCross, OrderlyForeach, ~May("rearm"), ~May("rerun"), ~May("reattach")
  PROVE  Spec => []KernelAgrees
  <1>1. Init => InterestArmed
    BY DEF Init, HandleInit, QueueInit, InterestArmed, Attached
  <1>2. InterestArmed <=> (Live => InterestInv)
    BY DEF InterestArmed, InterestInv, Watched
  <1>3. CallbackInv /\ InterestArmed /\ [Next]_vars => InterestArmed'
    <2> SUFFICES ASSUME CallbackInv, InterestArmed, [Next]_vars, Live' PROVE InterestInv'
      BY <1>2, PTL
    <2>1. Live
      BY NextQueueStep, LiveBefore
      DEF FlushStep, WaitStep, FlushAll, FlushFail, Wait, Goto, Live
    <2>2. QED BY <2>1, <1>2, NextInterest
  <1>4. AgreeInv /\ InterestArmed => KernelAgrees
    BY DEF AgreeInv, CallbackInv, Types, QueueInv, ListTypes, RegTypes, CtlTypes,
        ArmedInv, CtlInv, KernelAgrees, FlushSucceeds, CtlFails, Pending, Attached
  <1>5. QED BY <1>1, <1>3, <1>4, AgreeHolds, CallbackHolds, PTL DEF Spec

-----------------------------------------------------------------------------
\* The queue's books, where no epoll_ctl of a flush fails and on_remove does not ask for
\* I/O during destroy: the counters are exact and do not fall below zero, and destroy
\* leaves no source attached.  The client may run the loop again after it has stopped.
THEOREM QueueCorrect ==
  ASSUME NoCross, OrderlyForeach, ~May("reattach"), ~May("nomem"), ~May("removeIO")
  PROVE  Spec => []QueueSound
  <1>1. Init => BooksInv
    <2>1. Init => nPend = 1 + Cardinality(Pending) /\ nRun = 1 + Cardinality(Running) /\ pc = "out"
      BY InitCounts DEF Init, HandleInit, QueueInit
    <2>2. QED BY <2>1, ListsFinite DEF BooksInv, Ending
  <1>2. AgreeInv /\ BooksInv /\ [Next]_vars => BooksInv'
    <2> SUFFICES ASSUME AgreeInv, BooksInv, [Next]_vars PROVE BooksInv'
      OBVIOUS
    <2> USE DEF AgreeInv, CallbackInv
    <2>1. QueueInv /\ QueueInv'
      BY NextTypes DEF Types
    <2>2. ~FlushFails
      BY DEF FlushFails, FlushFail, CtlFails, Pending, Attached, CtlInv, ArmedInv,
          Types, QueueInv, ListTypes, CtlTypes, RegTypes
    <2>3. CASE QueueStep
      BY <2>1, <2>2, <2>3, StepCounts, StepBooksInv
    <2>4. CASE FlushAll \/ WaitStep
      <3>1. Balanced
        BY <2>4, StepCounts, <2>2 DEF FlushAll, WaitStep, Wait, Goto, DestroyCursor
      <3>2. pc \in {"flush", "wait"} /\ pc' \in {"wait", "batch"}
        BY <2>4 DEF FlushAll, WaitStep, Wait, Goto
      <3>3. nPend = 1 + Cardinality(Pending) /\ nRun = 1 + Cardinality(Running)
        BY <3>2 DEF BooksInv, Ending
      <3>4. /\ nPend' = 1 + Cardinality(Pending')
            /\ nRun' = 1 + Cardinality(Running') /\ nRun' >= Cardinality(Running')
        BY <2>1, <3>1, <3>3, BalancedExact DEF QueueInv, BooksInv
      <3>5. QED BY <3>2, <3>4 DEF BooksInv, Ending
    <2>5. QED BY <2>2, <2>3, <2>4, NextQueueStep DEF FlushStep, FlushFails
  <1>3. AgreeInv /\ BooksInv => QueueSound
    <2> SUFFICES ASSUME AgreeInv, BooksInv PROVE QueueSound
      OBVIOUS
    <2>1. nPend \in Nat /\ nRun \in Nat
      <3>1. Cardinality(Pending) \in Nat /\ Cardinality(Running) \in Nat /\ nRun \in Int
        BY ListsFinite DEF AgreeInv, CallbackInv, Types, QueueInv, ListTypes
      <3>2. QED BY <3>1 DEF BooksInv
    <2>2. QueueTypeOK
      BY DEF AgreeInv, CallbackInv, Types, QueueInv, ListTypes, EachTypes, FlagType,
          QueueTypeOK
    <2>3. TypeOK
      BY <2>1, <2>2
      DEF TypeOK, HandleTypeOK, AgreeInv, CallbackInv, Types, HandTypes, TimerTypes,
          FixedTypes, CtlTypes, RegTypes
    <2>4. StatsExact
      BY DEF BooksInv, StatsExact, Live, Ending
    <2>5. DestroyDrains
      BY DEF BooksInv, DestroyDrains, PendingDrained, Ending, Attached, Pending, Running
    <2>6. QED BY <2>3, <2>4, <2>5 DEF QueueSound
  <1>4. QED BY <1>1, <1>2, <1>3, AgreeHolds, PTL DEF Spec

-----------------------------------------------------------------------------
(***************************************************************************)
(* Oneshot.  What the kernel watches for, has reported or is looked at for *)
(* a oneshot source is wanted, or its handler was taken away: next_read    *)
(* and next_write change handler and interest together, and the call of a  *)
(* handler takes the flag out of what is looked at.                        *)
(***************************************************************************)
Asked(s) ==
  Oneshot(s) => /\ karm[s] \cap hand[s] \subseteq want[s]
                /\ ev[s] \cap IO \cap hand[s] \subseteq want[s]
                /\ s = cur => todo \cap IO \cap hand[s] \subseteq want[s]

AskedInv == \A s \in Sources : Asked(s)

\* Where nothing it speaks of changes.
LEMMA SameAsked ==
  ASSUME AskedInv, UNCHANGED <<kind, karm, ev, want, hand>>,
         (UNCHANGED <<cur, todo>>) \/ cur' = NoSource
  PROVE  AskedInv'
  BY QueueConstants DEF AskedInv, Asked, Oneshot

\* evdp_source_*_detach of a source that leaves the queue.
LEMMA DetachAsked ==
  ASSUME Types, AskedInv, NEW s \in Sources, NEW toClose \in BOOLEAN,
         DriverDetach(s, toClose), DetachFromQueue(s),
         UNCHANGED <<cur, todo>> \/ cur' = NoSource, UNCHANGED <<kind, want, hand>>
  PROVE  AskedInv'
  BY QueueConstants
  DEF Types, QueueInv, ListTypes, CtlTypes, RegTypes, AskedInv, Asked, Oneshot,
      DetachFromQueue, DriverDetach, OsFdDetach, RoFdDetach, ItimerDetach,
      AbstimerDetach, TimerDetach, CtlDel, KeepReg

\* The calls of the client keep AskedInv.
LEMMA ClientAsked ==
  ASSUME NoCross, CallbackInv, AskedInv, Client, UNCHANGED fixedVars
  PROVE  AskedInv'
  <1>1. PICK s \in Sources :
          \/ New(s) \/ Del(s) \/ Reset(s) \/ Attach(s)
          \/ \E toClose \in BOOLEAN : Detach(s, toClose)
          \/ \E d \in IO : ResetIO(s, d) \/ UnsetIO(s, d)
          \/ /\ Regulate(s) \/ \E d \in IO, on \in BOOLEAN : InitIO(s, d, on)
             /\ UNCHANGED epollVars
    BY DEF Client
  <1> USE DEF CallbackInv, Types, QueueInv, ListTypes, CtlTypes, RegTypes, HandTypes,
          fixedVars, stepVars
  <1>2. CASE loc[s] \in {"free", "idle"}
    <2>1. karm[s] = {} /\ ev[s] = {} /\ s # cur
      BY <1>2, QueueConstants DEF ArmedInv, EachInv, Attached
    <2>2. CASE New(s)
      BY <2>1, <2>2
      DEF New, CreateOsFd, CreateRoFd, CreateItimer, CreateAbstimer, OnFd, CtlDel,
          KeepReg, NewOsFd, NewRoFd, NewItimer, NewAbstimer, NewEmpty, SetTimer,
          AskedInv, Asked, Oneshot
    <2>3. CASE Del(s) \/ Reset(s)
      BY <2>1, <2>3
      DEF Del, DelFd, DelTimer, Reset, SourceDel, OsFdReset, queueVars, CtlDel, KeepReg,
          AskedInv, Asked, Oneshot
    <2>4. CASE Attach(s)
      BY <2>1, <2>4
      DEF Attach, OsFdAdd, RoFdAdd, ItimerAdd, AbstimerAdd, OsFdAttach, RoFdAttach,
          TimerAttach, SourceAttach, AskedInv, Asked, Oneshot
    <2>5. CASE (\E d \in IO, on \in BOOLEAN : InitIO(s, d, on)) /\ UNCHANGED epollVars
      BY <2>1, <2>5 DEF InitIO, queueVars, epollVars, AskedInv, Asked, Oneshot
    <2>6. CASE Regulate(s) /\ UNCHANGED epollVars
      BY <2>6, SameAsked DEF Regulate, queueVars, epollVars
    <2>7. QED BY <1>1, <1>2, <2>2, <2>3, <2>4, <2>5, <2>6
              DEF Detach, SourceDetach, DetachAllowed, ResetIO, AskIO, UnsetIO, DropIO,
                  Attached
  <1>3. ASSUME NEW toClose \in BOOLEAN, Detach(s, toClose) PROVE AskedInv'
    BY <1>3, DetachAsked DEF Detach, SourceDetach
  <1>4. ASSUME NEW d \in IO, ResetIO(s, d) PROVE AskedInv'
    BY <1>4 DEF ResetIO, AskIO, CtlOsFd, AskedInv, Asked, Oneshot
  <1>5. ASSUME NEW d \in IO, UnsetIO(s, d) PROVE AskedInv'
    BY <1>5 DEF UnsetIO, DropIO, CtlDel, KeepReg, AskedInv, Asked, Oneshot
  <1>6. CASE Regulate(s) /\ UNCHANGED epollVars
    BY <1>6, SameAsked DEF Regulate, queueVars, epollVars
  <1>7. QED
    BY <1>1, <1>2, <1>3, <1>4, <1>5, <1>6
    DEF New, CreateOsFd, CreateRoFd, CreateItimer, CreateAbstimer, NewOsFd, NewRoFd,
        NewItimer, NewAbstimer, NewEmpty, Del, DelFd, DelTimer, SourceDel, Reset,
        OsFdReset, Attach, SourceAttach, AttachAllowed, InitIO, Attached

\* A round of the loop keeps it: the kernel reports what it was asked for.
LEMMA LoopAsked ==
  ASSUME CallbackInv, AskedInv, Loop, UNCHANGED fixedVars
  PROVE  AskedInv'
  <1> USE DEF CallbackInv, Types, QueueInv, ListTypes, CtlTypes, RegTypes, HandTypes,
          fixedVars, handleVars, stepVars
  <1>1. ASSUME NEW S \in SUBSET Sources, KernelArms(S), UNCHANGED <<ev, cur, handleVars>>
        PROVE  AskedInv'
    BY <1>1 DEF KernelArms, AskedInv, Asked, Oneshot
  <1>2. CASE FlushStep
    BY <1>1, <1>2 DEF FlushStep, FlushAll, FlushFail, Pending
  <1>3. ASSUME NEW batch \in SUBSET Sources, Wait(batch) PROVE AskedInv'
    <2>1. \A s \in batch : Oneshot(s) => ev'[s] \cap IO \subseteq karm[s]
      <3>1. \A s \in batch : ev'[s] \in Reports(s)
        BY <1>3 DEF Wait
      <3>2. ASSUME NEW s \in batch, Oneshot(s)
            PROVE  ev'[s] \subseteq karm[s] \cup {"HUP", "ERR"}
        BY <3>1, <3>2 DEF Reports, Oneshot, IsTimer
      <3>3. QED BY <3>2 DEF IO
    <2>2. \A s \in Sources \ batch : ev'[s] = {}
      BY <1>3 DEF Wait
    <2>3. \A s \in Sources : karm'[s] \subseteq karm[s]
      BY <1>3 DEF Wait
    <2>4. UNCHANGED <<kind, want, hand, cur, todo>>
      BY <1>3 DEF Wait
    <2>5. QED BY <2>1, <2>2, <2>3, <2>4 DEF AskedInv, Asked, Oneshot
  <1>4. ASSUME NEW s \in Sources, Fetch(s), OsFdFired(s), KeepReg PROVE AskedInv'
    BY <1>4 DEF Fetch, FetchEvent, KeepReg, AskedInv, Asked, Oneshot
  <1>5. ASSUME NEW toClose \in BOOLEAN, CbRemove, DriverDetach(cur, toClose) PROVE AskedInv'
    <2>1. cur \in Sources
      BY <1>5 DEF CbRemove, FlowInv
    <2>2. QED BY <1>5, <2>1, DetachAsked DEF CbRemove, HandleRemove
  <1>6. CASE Handling
    <2> USE <1>6 DEF epollVars
    <2>1. ASSUME NEW flag \in {"IN", "HUP", "OUT"}, OsFdCall(flag) PROVE AskedInv'
      <3>1. cur \in Sources /\ karm[cur] = {} /\ ev[cur] = {}
        BY <2>1 DEF OsFdCall, CallHandler, Goto, FlowInv, ArmedInv
      <3>2. flag \notin todo'
        BY <2>1 DEF OsFdCall, CallHandler, After
      <3>3. QED BY <2>1, <3>1, <3>2
                DEF Handling, OsFdCall, CallHandler, AskedInv, Asked, Oneshot
    <2>2. CASE TimerReadFails \/ CbBreak
      BY <2>2, QueueConstants
      DEF Handling, TimerReadFails, CbBreak, HandleBreak, AskedInv, Asked, Oneshot
    <2>3. CASE EventHandled \/ AbstimerCall
      BY <2>3, SameAsked
      DEF Handling, EventHandled, Handled, AbstimerCall, HandleContinue
    <2>4. ASSUME NEW flag \in {"IN", "HUP", "OUT"}, RoFdCall(flag) PROVE AskedInv'
      BY <2>4 DEF Handling, RoFdCall, CallHandler, AskedInv, Asked, Oneshot
    <2>5. CASE TimerCall({"itm"})
      BY <2>5 DEF Handling, TimerCall, CallHandler, AskedInv, Asked, Oneshot
    <2>6. QED
      BY <2>1, <2>2, <2>3, <2>4, <2>5, SameAsked
      DEF Handling, WaitFails, CbContinue, Returns, BatchDone, RemoveReturn, RoundDone
  <1>7. QED BY <1>2, <1>3, <1>4, <1>5, <1>6 DEF Loop, FlushStep

\* Every step keeps it.
LEMMA NextAsked ==
  ASSUME NoCross, CallbackInv, AskedInv, [Next]_vars
  PROVE  AskedInv'
  <1> USE DEF epollVars, CallbackInv, fixedVars, handleVars, stepVars
  <1>1. CASE ForeachStep /\ UNCHANGED <<fixedVars, epollVars>>
    BY <1>1, SameAsked
    DEF ForeachStep, ForeachNext, ForeachNextOne, ForeachStart, ForeachSetEnd,
        ForeachNextNone, EachReturn
  <1>2. CASE DestroyStep /\ UNCHANGED <<fixedVars, epollVars>>
    BY <1>2, SameAsked DEF DestroyStep, DestroyStart, DestroyCursor, DestroyNext
  <1>3. ASSUME NEW toClose \in BOOLEAN, ForeachRemove, DriverDetach(captured, toClose),
               UNCHANGED fixedVars
        PROVE  AskedInv'
    <2>1. captured \in Sources
      BY <1>3 DEF ForeachRemove, EachRemove, Types, QueueInv, FlowInv
    <2>2. QED BY <1>3, <2>1, DetachAsked DEF ForeachRemove, EachRemove
  <1>4. ASSUME NEW s \in Sources, DestroyRemove(s), DriverDetach(s, FALSE),
               UNCHANGED fixedVars
        PROVE  AskedInv'
    BY <1>4, DetachAsked DEF DestroyRemove, DestroyDetach
  <1>5. CASE (Run \/ \E s \in Sources : TimerExpires(s)) /\ UNCHANGED <<fixedVars, epollVars>>
    BY <1>5, SameAsked DEF Run, TimerExpires, queueVars
  <1>6. CASE UNCHANGED vars
    BY <1>6, SameAsked DEF vars, queueVars
  <1>7. QED BY <1>1, <1>2, <1>3, <1>4, <1>5, <1>6, LoopAsked, ClientAsked
            DEF Next, Foreach, Destroy

\* After do_read or do_write of a oneshot fd was called it is not called again before the
\* client asks for it.
THEOREM OneshotAlwaysHonoured ==
  ASSUME NoCross, OrderlyForeach
  PROVE  Spec => OneshotHonoured
  <1>1. Init => AskedInv
    BY DEF Init, HandleInit, QueueInit, AskedInv, Asked
  <1>2. CallbackInv /\ AskedInv /\ [Next]_vars => AskedInv'
    BY NextAsked
  <1>3. CallbackInv /\ AskedInv /\ [Next]_vars =>
          [ pc = "dispatch" /\ pc' = "cb" /\ Oneshot(cur) /\ calling' \in IO =>
              calling' \in want[cur] ]_<<pc, calling, want>>
    <2> SUFFICES ASSUME CallbackInv, AskedInv, [Next]_vars, pc = "dispatch", pc' = "cb",
                        Oneshot(cur), calling' \in IO
                 PROVE  calling' \in want[cur]
      OBVIOUS
    <2>1. cur \in Sources
      BY DEF CallbackInv, Types, QueueInv, ListTypes, FlowInv
    <2>2. \E flag \in {"IN", "HUP", "OUT"} : CallHandler(flag)
      <3>1. CASE QueueStep
        BY <3>1
        DEF QueueStep, queueVars, ClientStep, NewEmpty, SourceDel, SourceDetach,
            SourceAttach, Fetch, FetchEvent, DestroyRemove, DestroyDetach, DestroyStep,
            DestroyStart, DestroyCursor, DestroyNext, ForeachStep, ForeachStart,
            ForeachSetEnd, ForeachNextNone, ForeachNext, ForeachNextOne, EachReturn,
            ForeachRemove, EachRemove, HandlingStep, Run, WaitFails, Returns, BatchDone,
            RemoveReturn, RoundDone, TimerReadFails, CbContinue, CbBreak, CbRemove,
            HandleBreak, HandleContinue, HandleRemove, Goto
      <3>2. QED BY <3>1, NextQueueStep
                DEF FlushStep, WaitStep, FlushAll, FlushFail, Wait, Goto
    <2>3. PICK flag \in {"IN", "HUP", "OUT"} : CallHandler(flag)
      BY <2>2
    <2>4. calling' = flag /\ flag \in Callable
      BY <2>3 DEF CallHandler
    <2>5. flag \in todo /\ flag \in IO /\ flag \in hand[cur]
      BY <2>4 DEF Callable, IO
    <2>6. todo \cap IO \cap hand[cur] \subseteq want[cur]
      BY <2>1 DEF AskedInv, Asked
    <2>7. QED BY <2>4, <2>5, <2>6
  <1>4. QED BY <1>1, <1>2, <1>3, CallbackHolds, PTL DEF Spec, OneshotHonoured
=============================================================================
