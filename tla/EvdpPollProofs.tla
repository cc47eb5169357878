--------------------------- MODULE EvdpPollProofs ---------------------------
(***************************************************************************)
(* Proofs about the aio_poll and io_uring drivers, for any number of       *)
(* sources, any kinds of them and any batch size.  The liberties that the  *)
(* theorems exclude are listed in Tame; io_submit may fail.                *)
(*                                                                         *)
(* The loop is never run again after it has ended, so that the invariants  *)
(* are about a loop that goes on (Live).  BatchInv follows a request from  *)
(* flush to the end of the handlers.  It needs the disciplined client:     *)
(* nothing else keeps a source with a request in flight from being         *)
(* detached, or from being made pending a second time.  InterestInv,       *)
(* TimerInv and AskedInv then say what a source on this way waits for,     *)
(* that its timerfd can be read, and which of its handlers may be called.  *)
(***************************************************************************)
EXTENDS EvdpPoll, EvdpHandleProofs

(***************************************************************************)
(* Requests.  Under the hypotheses of the theorems a source has one at     *)
(* most, so that a sequence of requests is empty or has one element.       *)
(***************************************************************************)
Requests == {<<>>} \cup {<<mask>> : mask \in SUBSET IO}

\* The first request of a source.
LEMMA FirstRequest ==
  ASSUME NEW mask \in SUBSET IO
  PROVE  Append(<<>>, mask) = <<mask>> /\ <<mask>> \in Requests /\ <<mask>> # <<>>
  BY DEF Requests

\* The completion of the only request of a source.
LEMMA OnlyRequest ==
  ASSUME NEW r \in Requests, NEW i \in DOMAIN r
  PROVE  /\ r = <<r[i]>> /\ r[i] \in SUBSET IO
         /\ RemoveAt(r, i) = <<>>
  <1>1. r # <<>>
    OBVIOUS
  <1>2. PICK mask \in SUBSET IO : r = <<mask>>
    BY <1>1 DEF Requests
  <1>3. DOMAIN r = {1} /\ r[1] = mask /\ i = 1
    BY <1>2
  <1>4. RemoveAt(<<mask>>, 1) = <<>>
    BY DEF RemoveAt
  <1>5. QED BY <1>2, <1>3, <1>4

-----------------------------------------------------------------------------
\* The types of the driver, and all types.
NoteTypes == submitted \in [Sources -> BOOLEAN] /\ late \in [Sources -> BOOLEAN]
ReqTypes == reqs \in [Sources -> Requests]

Types == QueueInv /\ HandTypes /\ TimerTypes /\ FixedTypes /\ NoteTypes /\ ReqTypes

\* What the client does not do here, and what the kernel does not.
Tame ==
  /\ ~May("cross") /\ ~May("rearm") /\ ~May("inFlight") /\ ~May("regulate")
  /\ ~May("partial")

(***************************************************************************)
(* While the loop goes on: a source that has a request in flight, or an    *)
(* unhandled event, is running; sc->submitted says no more than that; a    *)
(* request that is not multishot is over when its completion is fetched    *)
(* from the ring; and the source of a callback is protected.               *)
(***************************************************************************)
BatchInv ==
  \A s \in Sources :
    /\ InFlight(s) \/ ev[s] # {} \/ submitted[s] \/ s = cur => loc[s] = "run"
    /\ s = cur => noDetach[s] /\ ev[s] = {} /\ ~submitted[s]
    /\ submitted[s] => InFlight(s) \/ ev[s] # {}
    /\ ~Multishot(s) /\ (ev[s] # {} \/ s = cur) => ~InFlight(s)

\* evdp_queue_flush_pending_sources and evdp_queue_wait_events
FlushStep == \E S \in SUBSET Sources : Flush(S) \/ AioFlushFails(S) \/ UringFlushFails(S)
WaitStep == \E S \in SUBSET Sources : Wait(S)

\* In the handlers the source of the event is running.
LEMMA CurrentRuns ==
  ASSUME QueueInv, Live => BatchInv, cur # NoSource
  PROVE  cur \in Sources /\ loc[cur] = "run" /\ Live
  BY DEF QueueInv, ListTypes, FlowInv, Live, BatchInv

\* Every step but flush and wait does to the queue what it does under any driver; the
\* "extra pending check" of io_uring never applies.
LEMMA NextQueueStep ==
  ASSUME QueueInv, Live => BatchInv, [Next]_vars
  PROVE  QueueStep \/ FlushStep \/ WaitStep
  <1>1. CASE UNCHANGED vars
    BY <1>1 DEF vars, QueueStep
  <1>2. CASE Client
    <2>1. PICK s \in Sources :
            \/ New(s) \/ Del(s) \/ Reset(s) \/ Attach(s) \/ Detach(s) \/ RegulateTimer(s)
            \/ \E d \in IO : ResetIO(s, d) \/ UnsetIO(s, d)
            \/ \E d \in IO, on \in BOOLEAN : InitIO(s, d, on) /\ UNCHANGED pollVars
      BY <1>2 DEF Client
    <2>2. CASE New(s) \/ Del(s) \/ Detach(s)
      BY <2>2
      DEF New, CreateOsFd, CreateRoFd, CreateItimer, CreateAbstimer, NewOsFd, NewRoFd,
          NewItimer, NewAbstimer, Del, Detach, QueueStep, ClientStep
    <2>3. CASE Attach(s)
      BY <2>3
      DEF Attach, OsFdAdd, RoFdAdd, ItimerAdd, AbstimerAdd, OsFdAttach, RoFdAttach,
          TimerAttach, QueueStep, ClientStep
    <2>4. CASE Reset(s) \/ RegulateTimer(s) \/ \E d \in IO, on \in BOOLEAN : InitIO(s, d, on)
      BY <2>4 DEF Reset, OsFdReset, RegulateTimer, Regulate, InitIO, QueueStep
    <2>5. ASSUME NEW d \in IO, ResetIO(s, d) PROVE QueueStep
      BY <2>5 DEF ResetIO, AskIO, MayNextIO, QueueStep, ClientStep, Attached, queueVars
    <2>6. ASSUME NEW d \in IO, UnsetIO(s, d) PROVE QueueStep
      BY <2>6 DEF UnsetIO, DropIO, MayNextIO, QueueStep, ClientStep, queueVars
    <2>7. QED BY <2>1, <2>2, <2>3, <2>4, <2>5, <2>6
  <1>3. CASE Loop
    <2>1. CASE EventHandled
      <3>1. loc[cur] = "run"
        BY <2>1, CurrentRuns DEF EventHandled, Handled, QueueInv, FlowInv
      <3>2. QED BY <2>1, <3>1 DEF EventHandled, Handled, Repend, QueueStep, HandlingStep
    <2>2. CASE Handling
      BY <2>1, <2>2
      DEF Handling, TimerCall, ItimerCall, AbstimerCall, OsFdCall, RoFdCall, QueueStep,
          HandlingStep
    <2>3. QED
      BY <1>3, <2>2
      DEF Loop, FlushStep, WaitStep, FetchCompletion, RemoveCurrent, QueueStep,
          HandlingStep
  <1>4. CASE Destroy
    BY <1>4 DEF Destroy, QueueStep
  <1>5. CASE Run \/ \E s \in Sources : TimerExpires(s)
    BY <1>5 DEF QueueStep, HandlingStep, TimerExpires
  <1>6. QED BY <1>1, <1>2, <1>3, <1>4, <1>5 DEF Next

-----------------------------------------------------------------------------
\* The types hold at the start.
LEMMA InitTypes == Init => Types
  <1> SUFFICES ASSUME Init PROVE Types
    OBVIOUS
  <1>1. QueueInv
    BY QueueInitInv DEF Init, HandleInit
  <1>2. HandTypes
    BY DEF Init, HandleInit, HandTypes, IO
  <1>3. TimerTypes /\ NoteTypes
    BY DEF Init, HandleInit, TimerTypes, NoteTypes
  <1>4. ReqTypes
    BY DEF Init, ReqTypes, Requests
  <1>5. QED BY <1>1, <1>2, <1>3, <1>4 DEF Init, HandleInit, FixedTypes, Types

\* evdp_source_*_detach, in the three places where a source is detached.
LEMMA DetachTypes ==
  ASSUME Types, NEW s \in Sources, DriverDetach(s)
  PROVE  TimerTypes' /\ NoteTypes' /\ ReqTypes'
  <1> USE DEF Types, DriverDetach, OsFdDetach, RoFdDetach, ItimerDetach, AbstimerDetach,
          StopTimer, Cancel
  <1>1. TimerTypes'
    BY DEF TimerTypes
  <1>2. NoteTypes' /\ ReqTypes'
    BY DEF NoteTypes, ReqTypes
  <1>3. QED BY <1>1, <1>2

\* The calls of the client keep the types of the handlers, the timers and the driver.
LEMMA ClientTypes ==
  ASSUME Tame, Types, Client
  PROVE  HandTypes' /\ TimerTypes' /\ NoteTypes' /\ ReqTypes'
  <1>1. PICK s \in Sources :
          \/ New(s) \/ Del(s) \/ Reset(s) \/ Attach(s) \/ Detach(s) \/ RegulateTimer(s)
          \/ \E d \in IO : ResetIO(s, d) \/ UnsetIO(s, d)
          \/ \E d \in IO, on \in BOOLEAN : InitIO(s, d, on) /\ UNCHANGED pollVars
    BY DEF Client
  <1> USE DEF Types, stepVars, pollVars
  <1>2. CASE New(s)
    <2> USE <1>2
        DEF New, CreateOsFd, CreateRoFd, CreateItimer, CreateAbstimer, NewOsFd, NewRoFd,
            NewItimer, NewAbstimer, NewEmpty, SetTimer
    <2>1. HandTypes'
      BY DEF HandTypes, IO
    <2>2. TimerTypes'
      BY DEF TimerTypes
    <2>3. NoteTypes' /\ ReqTypes'
      BY DEF NoteTypes, ReqTypes
    <2>4. QED BY <2>1, <2>2, <2>3
  <1>3. CASE Del(s) \/ Reset(s)
    <2> USE <1>3 DEF Del, Reset, SourceDel, OsFdReset
    <2>1. HandTypes'
      BY DEF HandTypes, IO
    <2>2. TimerTypes'
      BY DEF TimerTypes
    <2>3. NoteTypes' /\ ReqTypes'
      BY DEF NoteTypes, ReqTypes, Requests
    <2>4. QED BY <2>1, <2>2, <2>3
  <1>4. CASE Attach(s)
    <2> USE <1>4
        DEF Attach, OsFdAdd, RoFdAdd, ItimerAdd, AbstimerAdd, OsFdAttach, RoFdAttach,
            TimerAttach, SourceAttach
    <2>1. HandTypes'
      BY DEF HandTypes, IO
    <2>2. TimerTypes'
      BY DEF TimerTypes
    <2>3. NoteTypes' /\ ReqTypes'
      BY DEF NoteTypes, ReqTypes
    <2>4. QED BY <2>1, <2>2, <2>3
  <1>5. CASE Detach(s)
    <2>1. HandTypes'
      BY <1>5 DEF Detach, SourceDetach, HandTypes
    <2>2. QED BY <1>5, <2>1, DetachTypes DEF Detach
  <1>6. CASE RegulateTimer(s)
    <2> USE <1>6 DEF RegulateTimer, Regulate
    <2>1. HandTypes' /\ ReqTypes'
      BY DEF HandTypes, ReqTypes
    <2>2. TimerTypes' /\ NoteTypes'
      BY DEF TimerTypes, NoteTypes
    <2>3. QED BY <2>1, <2>2
  <1>7. ASSUME NEW d \in IO, ResetIO(s, d)
        PROVE  HandTypes' /\ TimerTypes' /\ NoteTypes' /\ ReqTypes'
    <2> USE <1>7 DEF ResetIO
    <2>1. HandTypes'
      BY DEF AskIO, HandTypes
    <2>2. TimerTypes' /\ NoteTypes'
      BY DEF AskIO, TimerTypes, NoteTypes
    <2>3. want[s] \cup {d} \in SUBSET IO
      BY DEF HandTypes
    <2>4. CASE submitted[s] /\ d \notin want[s]
      <3>1. reqs[s] = <<>>
        BY <2>4 DEF InFlight, Tame
      <3>2. reqs' = [reqs EXCEPT ![s] = <<want[s] \cup {d}>>]
        BY <2>3, <2>4, <3>1, FirstRequest DEF ReqTypes
      <3>3. ReqTypes'
        BY <2>3, <3>2, FirstRequest DEF ReqTypes
      <3>4. QED BY <2>1, <2>2, <3>3
    <2>5. CASE ~(submitted[s] /\ d \notin want[s])
      BY <2>1, <2>2, <2>5 DEF ReqTypes
    <2>6. QED BY <2>4, <2>5
  <1>8. ASSUME NEW d \in IO, UnsetIO(s, d)
        PROVE  HandTypes' /\ TimerTypes' /\ NoteTypes' /\ ReqTypes'
    <2> USE <1>8 DEF UnsetIO, DropIO
    <2>1. HandTypes' /\ ReqTypes'
      BY DEF HandTypes, ReqTypes
    <2>2. TimerTypes' /\ NoteTypes'
      BY DEF TimerTypes, NoteTypes
    <2>3. QED BY <2>1, <2>2
  <1>9. ASSUME NEW d \in IO, NEW on \in BOOLEAN, InitIO(s, d, on), UNCHANGED pollVars
        PROVE  HandTypes' /\ TimerTypes' /\ NoteTypes' /\ ReqTypes'
    <2> USE <1>9 DEF InitIO
    <2>1. HandTypes' /\ ReqTypes'
      BY DEF HandTypes, ReqTypes
    <2>2. TimerTypes' /\ NoteTypes'
      BY DEF TimerTypes, NoteTypes
    <2>3. QED BY <2>1, <2>2
  <1>10. QED BY <1>1, <1>2, <1>3, <1>4, <1>5, <1>6, <1>7, <1>8, <1>9

\* io_submit or io_uring_submit of sources that have no request.
LEMMA SubmitTypes ==
  ASSUME Types, NEW S \in SUBSET Sources, Submit(S), \A s \in S : ~InFlight(s)
  PROVE  /\ ReqTypes'
         /\ \A s \in Sources : reqs'[s] = IF s \in S THEN <<want[s]>> ELSE reqs[s]
  <1>1. \A s \in S : Append(reqs[s], want[s]) = <<want[s]>> /\ <<want[s]>> \in Requests
    BY FirstRequest DEF Types, HandTypes, InFlight
  <1>2. QED BY <1>1 DEF Submit, Types, ReqTypes

\* What a completion reports.
LEMMA CompletionTypes ==
  ASSUME NEW s \in Sources, NEW mask \in SUBSET IO, NEW flags \in Completions(s, mask)
  PROVE  /\ flags \in SUBSET {"IN", "OUT", "HUP", "ERR"} /\ flags # {}
         /\ IsTimer(s) => flags = {"IN"} /\ (ticks[s] \/ late[s])
         /\ ~IsTimer(s) => flags \cap IO \subseteq mask
  <1>1. CASE IsTimer(s)
    BY <1>1 DEF Completions
  <1>2. CASE ~IsTimer(s)
    <2>1. flags \in ((SUBSET (mask \cup {"HUP"})) \ {{}}) \cup {{"ERR"}}
      BY <1>2 DEF Completions
    <2>2. QED BY <1>2, <2>1 DEF IO
  <1>3. QED BY <1>1, <1>2

\* A batch of completions.
LEMMA WaitTypes ==
  ASSUME Types, NEW batch \in SUBSET Sources, Wait(batch)
  PROVE  /\ ReqTypes' /\ NoteTypes'
         /\ ev' \in [Sources -> SUBSET {"IN", "OUT", "HUP", "ERR"}]
         /\ \A s \in Sources \ batch : ev'[s] = {} /\ reqs'[s] = reqs[s]
         /\ \A s \in batch :
              /\ ~Multishot(s) => reqs'[s] = <<>>
              /\ Multishot(s) => reqs'[s] = reqs[s]
              /\ \E mask \in SUBSET IO : /\ reqs[s] = <<mask>>
                                         /\ ev'[s] \in Completions(s, mask)
  <1>1. PICK i \in [batch -> 1 .. MaxRequests] :
          /\ \A s \in batch : i[s] \in DOMAIN reqs[s]
          /\ \E f \in [batch -> UNION {Completions(s, reqs[s][i[s]]) : s \in batch}] :
               /\ \A s \in batch : f[s] \in Completions(s, reqs[s][i[s]])
               /\ ev' = [s \in Sources |-> IF s \in batch THEN f[s] ELSE {}]
          /\ reqs' = [s \in Sources |-> IF s \in batch /\ ~Multishot(s)
                                          THEN RemoveAt(reqs[s], i[s]) ELSE reqs[s]]
    BY DEF Wait
  <1>2. \A s \in batch : /\ reqs[s] = <<reqs[s][i[s]]>> /\ reqs[s][i[s]] \in SUBSET IO
                         /\ RemoveAt(reqs[s], i[s]) = <<>>
    BY <1>1, OnlyRequest DEF Types, ReqTypes
  <1>4. \A s \in Sources \ batch : ev'[s] = {}
    BY <1>1
  <1>5. \A s \in batch : ev'[s] \in Completions(s, reqs[s][i[s]])
    BY <1>1
  <1>6. ASSUME NEW s \in batch
        PROVE  \E mask \in SUBSET IO : /\ reqs[s] = <<mask>>
                                       /\ ev'[s] \in Completions(s, mask)
    BY <1>2, <1>5
  <1>7. \A s \in batch : ev'[s] \in SUBSET {"IN", "OUT", "HUP", "ERR"}
    BY <1>6, CompletionTypes
  <1>8. ev' \in [Sources -> SUBSET {"IN", "OUT", "HUP", "ERR"}]
    <2>1. \A s \in Sources : ev'[s] \in SUBSET {"IN", "OUT", "HUP", "ERR"}
      BY <1>4, <1>7
    <2>2. ev' = [s \in Sources |-> ev'[s]]
      BY <1>1
    <2>3. QED BY <2>1, <2>2
  <1>9. NoteTypes'
    BY DEF Wait, Types, NoteTypes
  <1>10. /\ ReqTypes'
         /\ \A s \in Sources \ batch : reqs'[s] = reqs[s]
         /\ \A s \in batch : /\ ~Multishot(s) => reqs'[s] = <<>>
                             /\ Multishot(s) => reqs'[s] = reqs[s]
    <2> HIDE DEF Multishot
    <2>1. <<>> \in Requests
      BY DEF Requests
    <2>2. QED BY <1>1, <1>2, <2>1 DEF Types, ReqTypes
  <1>11. QED BY <1>4, <1>6, <1>8, <1>9, <1>10

\* So do flush, wait and the handling of a batch.
LEMMA LoopTypes ==
  ASSUME Types, Live => BatchInv, Loop
  PROVE  HandTypes' /\ TimerTypes' /\ NoteTypes' /\ ReqTypes'
  <1> USE DEF Types, stepVars, handleVars
  <1>1. ASSUME NEW S \in SUBSET Sources, NEW T \in SUBSET Sources, pc = "flush",
               S \subseteq Pending, SetSubmitted(T), Submit(S), UNCHANGED handleVars
        PROVE  HandTypes' /\ TimerTypes' /\ NoteTypes' /\ ReqTypes'
    <2>1. \A s \in S : ~InFlight(s)
      BY <1>1 DEF Live, BatchInv, Pending
    <2>2. ReqTypes'
      BY <1>1, <2>1, SubmitTypes
    <2>3. HandTypes'
      BY <1>1 DEF HandTypes
    <2>4. TimerTypes' /\ NoteTypes'
      BY <1>1 DEF TimerTypes, NoteTypes, SetSubmitted, Submit
    <2>5. QED BY <2>2, <2>3, <2>4
  <1>2. ASSUME NEW S \in SUBSET Sources, Flush(S) \/ AioFlushFails(S) \/ UringFlushFails(S)
        PROVE  HandTypes' /\ TimerTypes' /\ NoteTypes' /\ ReqTypes'
    <2>1. Pending \in SUBSET Sources /\ Pending \ S \in SUBSET Sources
      BY DEF Pending
    <2>2. CASE Flush(S)
      BY <1>1, <2>1, <2>2 DEF Flush, Goto
    <2>3. CASE AioFlushFails(S)
      BY <1>1, <2>3 DEF AioFlushFails, Goto
    <2>4. CASE UringFlushFails(S)
      <3>1. HandTypes' /\ ReqTypes'
        BY <2>4 DEF UringFlushFails, pollVars, HandTypes, ReqTypes
      <3>2. TimerTypes' /\ NoteTypes'
        BY <2>4 DEF UringFlushFails, pollVars, TimerTypes, NoteTypes
      <3>3. QED BY <3>1, <3>2
    <2>5. QED BY <1>2, <2>2, <2>3, <2>4
  <1>3. ASSUME NEW batch \in SUBSET Sources, Wait(batch)
        PROVE  HandTypes' /\ TimerTypes' /\ NoteTypes' /\ ReqTypes'
    <2>1. HandTypes'
      BY <1>3 DEF Wait, HandTypes
    <2>2. TimerTypes'
      BY <1>3 DEF Wait, TimerTypes
    <2>3. QED BY <1>3, <2>1, <2>2, WaitTypes
  <1>4. ASSUME NEW s \in Sources, FetchCompletion(s)
        PROVE  HandTypes' /\ TimerTypes' /\ NoteTypes' /\ ReqTypes'
    <2>1. HandTypes' /\ ReqTypes'
      BY <1>4 DEF FetchCompletion, Fetch, HandTypes, QueueInv, ListTypes, ReqTypes
    <2>2. TimerTypes' /\ NoteTypes'
      BY <1>4 DEF FetchCompletion, Fetch, TimerTypes, NoteTypes
    <2>3. QED BY <2>1, <2>2
  <1>5. CASE RemoveCurrent
    <2>1. cur \in Sources
      BY <1>5 DEF RemoveCurrent, CbRemove, QueueInv, FlowInv, ListTypes
    <2>2. HandTypes'
      BY <1>5 DEF RemoveCurrent, CbRemove, HandTypes
    <2>3. QED BY <1>5, <2>1, <2>2, DetachTypes DEF RemoveCurrent
  <1>6. CASE Handling
    <2>1. NoteTypes' /\ ReqTypes'
      BY <1>6 DEF Handling, pollVars, NoteTypes, ReqTypes
    <2>2. HandTypes'
      BY <1>6
      DEF Handling, WaitFails, TimerReadFails, CbContinue, CbBreak, EventHandled,
          Handled, Returns, TimerCall, ItimerCall, AbstimerCall, OsFdCall, RoFdCall,
          CallHandler, HandTypes, IO
    <2>3. TimerTypes'
      BY <1>6
      DEF Handling, WaitFails, TimerReadFails, CbContinue, CbBreak, EventHandled,
          Handled, Returns, TimerCall, ItimerCall, AbstimerCall, OsFdCall, RoFdCall,
          CallHandler, TimerTypes
    <2>4. QED BY <2>1, <2>2, <2>3
  <1>7. QED BY <1>2, <1>3, <1>4, <1>5, <1>6 DEF Loop

\* Every step keeps the types.
LEMMA NextTypes ==
  ASSUME Tame, Types, Live => BatchInv, [Next]_vars
  PROVE  Types'
  <1>1. QueueInv'
    <2>1. CASE QueueStep
      BY <2>1, StepQueueInv DEF Types
    <2>2. CASE FlushStep
      <3>1. Pending \in SUBSET Pending
        OBVIOUS
      <3>2. QED BY <2>2, <3>1, FlushQueueInv
                DEF FlushStep, Flush, AioFlushFails, UringFlushFails, Goto, Types
    <2>3. CASE WaitStep
      BY <2>3, WaitQueueInv, WaitTypes DEF WaitStep, Wait, Types
    <2>4. QED BY <2>1, <2>2, <2>3, NextQueueStep DEF Types
  <1>2. FixedTypes'
    BY DEF Next, vars, fixedVars, Types, FixedTypes
  <1>3. CASE Destroy
    <2>1. HandTypes' /\ TimerTypes' /\ NoteTypes' /\ ReqTypes'
      <3>1. HandTypes'
        BY <1>3
        DEF Destroy, DestroyStep, DestroyRemove, Types, HandTypes, handleVars, stepVars
      <3>2. CASE DestroyStep /\ UNCHANGED pollVars
        <4>1. TimerTypes' /\ NoteTypes'
          BY <3>2 DEF DestroyStep, Types, TimerTypes, NoteTypes, handleVars, pollVars
        <4>2. ReqTypes'
          BY <3>2 DEF Types, ReqTypes, pollVars
        <4>3. QED BY <3>1, <4>1, <4>2
      <3>3. QED BY <1>3, <3>1, <3>2, DetachTypes DEF Destroy
    <2>2. QED BY <1>1, <1>2, <2>1 DEF Types
  <1>4. CASE (Run \/ \E s \in Sources : TimerExpires(s)) /\ UNCHANGED pollVars
    <2>1. HandTypes' /\ ReqTypes'
      BY <1>4
      DEF Run, TimerExpires, Types, HandTypes, ReqTypes, handleVars, stepVars, pollVars
    <2>2. TimerTypes' /\ NoteTypes'
      BY <1>4 DEF Run, TimerExpires, Types, TimerTypes, NoteTypes, handleVars, pollVars
    <2>3. QED BY <1>1, <1>2, <2>1, <2>2 DEF Types
  <1>5. CASE UNCHANGED vars
    <2>1. HandTypes' /\ ReqTypes'
      BY <1>5 DEF vars, Types, HandTypes, ReqTypes, handleVars, stepVars, pollVars
    <2>2. TimerTypes' /\ NoteTypes'
      BY <1>5 DEF vars, Types, TimerTypes, NoteTypes, handleVars, pollVars
    <2>3. QED BY <1>1, <1>2, <2>1, <2>2 DEF Types
  <1>6. QED BY <1>1, <1>2, <1>3, <1>4, <1>5, ClientTypes, LoopTypes DEF Next, Types

-----------------------------------------------------------------------------
\* A loop that goes on has gone on before.
LEMMA LiveStep ==
  ASSUME QueueInv, Live => BatchInv, [Next]_vars, Live'
  PROVE  Live
  <1>1. ~May("rerun")
    BY PollConstants
  <1>2. CASE QueueStep
    BY <1>1, <1>2, LiveBefore
  <1>3. CASE FlushStep \/ WaitStep
    BY <1>3
    DEF FlushStep, WaitStep, Flush, AioFlushFails, UringFlushFails, Wait, Goto, Live
  <1>4. QED BY <1>2, <1>3, NextQueueStep

\* What a step of a loop that goes on is.
LEMMA LiveSteps ==
  ASSUME Live, Live', [Next]_vars
  PROVE  \/ Client /\ UNCHANGED fixedVars
         \/ /\ UNCHANGED fixedVars
            /\ \/ \E S \in SUBSET Sources : Flush(S) \/ Wait(S)
               \/ \E s \in Sources : FetchCompletion(s)
               \/ RemoveCurrent
               \/ /\ \/ CbContinue \/ EventHandled \/ Returns \/ ItimerCall \/ AbstimerCall
                     \/ \E flag \in {"IN", "HUP", "OUT"} : OsFdCall(flag) \/ RoFdCall(flag)
                  /\ UNCHANGED pollVars
         \/ (Run \/ \E s \in Sources : TimerExpires(s)) /\ UNCHANGED <<fixedVars, pollVars>>
         \/ UNCHANGED vars
  <1>1. ~Destroy
    BY DEF Live, Destroy, DestroyStep, DestroyStart, DestroyCursor, DestroyNext,
        DestroyRemove, DestroyDetach, RunningHalf, Goto
  <1>2. ~WaitFails /\ ~TimerReadFails /\ ~CbBreak
    BY DEF Live, WaitFails, TimerReadFails, CbBreak, HandleBreak, Goto
  <1>3. \A S \in SUBSET Sources : ~AioFlushFails(S) /\ ~UringFlushFails(S)
    BY DEF Live, AioFlushFails, UringFlushFails, Goto
  <1>4. QED BY <1>1, <1>2, <1>3 DEF Next, Loop, Handling

\* Where nothing it speaks of changes.
LEMMA SameBatch ==
  ASSUME BatchInv, UNCHANGED <<fixedVars, loc, ev, cur, noDetach, submitted, reqs>>
  PROVE  BatchInv'
  BY DEF BatchInv, InFlight, Multishot, Oneshot, fixedVars

\* A source that leaves the queue while the loop goes on has no request in flight.
LEMMA DetachBatch ==
  ASSUME Types, BatchInv, NEW s \in Sources, ~InFlight(s), DriverDetach(s),
         DetachFromQueue(s), UNCHANGED fixedVars,
         \/ s # cur /\ UNCHANGED <<cur, noDetach>>
         \/ s = cur /\ cur' = NoSource
  PROVE  BatchInv'
  <1> USE QueueConstants
      DEF DriverDetach, OsFdDetach, RoFdDetach, ItimerDetach, AbstimerDetach, Cancel,
          DetachFromQueue, fixedVars, Types, QueueInv, ListTypes, NoteTypes, BatchInv,
          InFlight, Multishot, Oneshot
  <1>1. CASE s # cur
    BY <1>1
  <1>2. CASE s = cur /\ cur' = NoSource
    BY <1>2
  <1>3. QED BY <1>1, <1>2

\* The calls of the client keep BatchInv.
LEMMA ClientBatch ==
  ASSUME Tame, Types, BatchInv, Live, Client, UNCHANGED fixedVars
  PROVE  BatchInv'
  <1>1. PICK s \in Sources :
          \/ New(s) \/ Del(s) \/ Reset(s) \/ Attach(s) \/ Detach(s) \/ RegulateTimer(s)
          \/ \E d \in IO : ResetIO(s, d) \/ UnsetIO(s, d)
          \/ \E d \in IO, on \in BOOLEAN : InitIO(s, d, on) /\ UNCHANGED pollVars
    BY DEF Client
  <1> USE DEF fixedVars, pollVars
  <1>2. CASE New(s)
    BY <1>2
    DEF New, CreateOsFd, CreateRoFd, CreateItimer, CreateAbstimer, NewOsFd, NewRoFd,
        NewItimer, NewAbstimer, NewEmpty, Types, QueueInv, ListTypes, BatchInv,
        InFlight, Multishot, Oneshot
  <1>3. CASE Del(s)
    <2>1. reqs[s] = <<>>
      BY <1>3 DEF Del, SourceDel, BatchInv, InFlight
    <2>2. reqs' = reqs
      BY <1>3, <2>1 DEF Del, Types, ReqTypes
    <2>3. QED
      BY <1>3, <2>2
      DEF Del, SourceDel, Types, QueueInv, ListTypes, BatchInv, InFlight, Multishot,
          Oneshot
  <1>4. CASE Reset(s)
    BY <1>4
    DEF Reset, OsFdReset, queueVars, listVars, Types, NoteTypes, BatchInv, InFlight,
        Multishot, Oneshot
  <1>5. CASE Attach(s)
    BY <1>5
    DEF Attach, OsFdAdd, RoFdAdd, ItimerAdd, AbstimerAdd, OsFdAttach, RoFdAttach,
        TimerAttach, SourceAttach, AttachAllowed, InsertPending, InsertRunning, Types,
        QueueInv, ListTypes, BatchInv, InFlight, Multishot, Oneshot
  <1>6. CASE Detach(s)
    <2>1. ~InFlight(s) /\ s # cur
      BY <1>6
      DEF Detach, Quiet, InDestroy, Live, Tame, SourceDetach, DetachAllowed, BatchInv
    <2>2. QED BY <1>6, <2>1, DetachBatch DEF Detach, SourceDetach
  <1>7. CASE RegulateTimer(s)
    BY <1>7, SameBatch DEF RegulateTimer, Regulate, queueVars, listVars
  <1>8. ASSUME NEW d \in IO, ResetIO(s, d) PROVE BatchInv'
    <2>1. ev[s] = {} /\ s \in Attached
      BY <1>8 DEF ResetIO, AskIO, MayNextIO, Tame
    <2>2. ~InFlight(s) => ~submitted[s]
      BY <2>1 DEF BatchInv
    <2>3. reqs' = reqs
      BY <1>8, <2>2 DEF ResetIO, Tame, Types, ReqTypes
    <2>4. CASE UNCHANGED <<listVars, ahead>>
      BY <1>8, <2>3, <2>4, SameBatch DEF ResetIO, AskIO, listVars
    <2>5. CASE ~submitted[s] /\ ~InCallback(s) /\ RunningToPending(s)
      <3>1. s # cur
        BY <1>8, <2>5, QueueConstants
        DEF ResetIO, AskIO, MayNextIO, InCallback, InClient, InDestroy, Live, Types,
            QueueInv, FlowInv
      <3>2. ~InFlight(s)
        BY <1>8, <2>5 DEF ResetIO, Tame
      <3>3. QED
        BY <1>8, <2>1, <2>3, <2>5, <3>1, <3>2
        DEF ResetIO, AskIO, RunningToPending, Types, QueueInv, ListTypes, BatchInv,
            InFlight, Multishot, Oneshot
    <2>6. QED BY <1>8, <2>4, <2>5 DEF ResetIO, AskIO
  <1>9. ASSUME NEW d \in IO, UnsetIO(s, d) PROVE BatchInv'
    BY <1>9
    DEF UnsetIO, DropIO, PendingToRunning, listVars, Types, QueueInv, ListTypes,
        NoteTypes, BatchInv, InFlight, Multishot, Oneshot
  <1>10. ASSUME NEW d \in IO, NEW on \in BOOLEAN, InitIO(s, d, on), UNCHANGED pollVars
         PROVE  BatchInv'
    BY <1>10, SameBatch DEF InitIO, queueVars, listVars
  <1>11. QED BY <1>1, <1>2, <1>3, <1>4, <1>5, <1>6, <1>7, <1>8, <1>9, <1>10

\* A round of the loop keeps it.
LEMMA LoopBatch ==
  ASSUME Tame, Types, BatchInv, Live, Live', [Next]_vars, ~Client
  PROVE  BatchInv'
  <1> USE DEF fixedVars, pollVars
  <1>1. ASSUME NEW S \in SUBSET Sources, Flush(S), UNCHANGED fixedVars PROVE BatchInv'
    <2>1. S = {} /\ Pending \ S = Pending /\ Pending \in SUBSET Sources
      BY <1>1 DEF Flush, Tame, Pending
    <2>2. \A s \in Pending : ~InFlight(s) /\ ev[s] = {} /\ s # cur
      BY DEF Pending, BatchInv
    <2>3. \A s \in Sources : reqs'[s] = IF s \in Pending THEN <<want[s]>> ELSE reqs[s]
      BY <1>1, <2>1, <2>2, SubmitTypes DEF Flush
    <2>4. \A s \in Sources : InFlight(s)' <=> s \in Pending \/ InFlight(s)
      BY <2>3, FirstRequest DEF InFlight, Types, HandTypes
    <2>5. \A s \in Sources : /\ loc'[s] = IF s \in Pending THEN "run" ELSE loc[s]
                             /\ submitted'[s] => submitted[s] \/ s \in Pending
      BY <1>1 DEF Flush, FlushMoves, SetSubmitted
    <2>6. UNCHANGED <<kind, driver, ev, cur, noDetach>>
      BY <1>1 DEF Flush
    <2>7. \A s \in Sources : Multishot(s)' <=> Multishot(s)
      BY <2>6 DEF Multishot, Oneshot
    <2> HIDE DEF InFlight, Multishot
    <2>8. QED BY <2>2, <2>4, <2>5, <2>6, <2>7 DEF BatchInv
  <1>2. ASSUME NEW batch \in SUBSET Sources, Wait(batch), UNCHANGED fixedVars
        PROVE  BatchInv'
    <2>1. UNCHANGED <<kind, driver, loc, cur, noDetach, submitted>> /\ cur = NoSource
          /\ \A s \in Sources : ev[s] = {}
      BY <1>2 DEF Wait, Goto, listVars, Types, QueueInv, FlowInv
    <2>2. \A s \in Sources : Multishot(s)' <=> Multishot(s)
      BY <2>1 DEF Multishot, Oneshot
    <2>3. \A s \in batch : /\ InFlight(s) /\ ev'[s] # {}
                           /\ ~Multishot(s) => ~InFlight(s)'
      BY <1>2, WaitTypes, CompletionTypes, FirstRequest DEF InFlight
    <2>4. \A s \in Sources \ batch : ev'[s] = {} /\ (InFlight(s)' <=> InFlight(s))
      BY <1>2, WaitTypes DEF InFlight
    <2>5. \A s \in Sources : InFlight(s)' => InFlight(s)
      BY <2>3, <2>4
    <2> HIDE DEF InFlight, Multishot
    <2>6. \A s \in Sources : s # cur
      BY <2>1, QueueConstants
    <2>7. QED BY <2>1, <2>2, <2>3, <2>4, <2>5, <2>6 DEF BatchInv
  <1>3. ASSUME NEW s \in Sources, FetchCompletion(s), UNCHANGED fixedVars PROVE BatchInv'
    <2>1. cur = NoSource /\ ev[s] # {}
      BY <1>3 DEF FetchCompletion, Fetch, FetchEvent, Goto, Types, QueueInv, FlowInv
    <2>2. QED
      BY <1>3, <2>1, QueueConstants
      DEF FetchCompletion, Fetch, FetchEvent, listVars, Types, QueueInv, ListTypes,
          NoteTypes, BatchInv, InFlight, Multishot, Oneshot
  <1>4. CASE RemoveCurrent /\ UNCHANGED fixedVars
    <2>1. cur \in Sources /\ ~InFlight(cur)
      BY <1>4
      DEF RemoveCurrent, CbRemove, Quiet, Tame, Types, QueueInv, ListTypes, FlowInv
    <2>2. QED BY <1>4, <2>1, DetachBatch DEF RemoveCurrent, CbRemove, HandleRemove
  <1>5. CASE EventHandled /\ UNCHANGED <<fixedVars, pollVars>>
    <2>1. cur \in Sources /\ loc[cur] = "run"
      BY <1>5, CurrentRuns DEF EventHandled, Handled, Types, QueueInv, FlowInv
    <2>2. PollAgain(cur) => ~Multishot(cur)
      BY DEF PollAgain, Multishot, Types, FixedTypes
    <2>3. QED
      BY <1>5, <2>1, <2>2, QueueConstants
      DEF EventHandled, Handled, HandleContinue, Repend, RunningToPending, listVars,
          Types, QueueInv, ListTypes, BatchInv, InFlight, Multishot, Oneshot
  <1>6. CASE /\ \/ CbContinue \/ Returns \/ ItimerCall \/ AbstimerCall
                \/ \E flag \in {"IN", "HUP", "OUT"} : OsFdCall(flag) \/ RoFdCall(flag)
             /\ UNCHANGED <<fixedVars, pollVars>>
    BY <1>6, SameBatch
    DEF CbContinue, Returns, BatchDone, RemoveReturn, RoundDone, ItimerCall,
        AbstimerCall, TimerCall, OsFdCall, RoFdCall, CallHandler, listVars
  <1>7. CASE (Run \/ \E s \in Sources : TimerExpires(s)) /\ UNCHANGED <<fixedVars, pollVars>>
    BY <1>7, SameBatch DEF Run, TimerExpires, queueVars, listVars
  <1>8. CASE UNCHANGED vars
    BY <1>8, SameBatch DEF vars, queueVars, listVars
  <1>9. QED BY <1>1, <1>2, <1>3, <1>4, <1>5, <1>6, <1>7, <1>8, LiveSteps

-----------------------------------------------------------------------------
(***************************************************************************)
(* Interest: what a running source waits for has its request, but for the  *)
(* time from its completion to the end of the handlers; a multishot        *)
(* request does not even end then.                                         *)
(***************************************************************************)
Covered(s) == \E mask \in SUBSET IO : reqs[s] = <<mask>> /\ want[s] \subseteq mask

InterestInv ==
  \A s \in Sources :
    loc[s] = "run" /\ want[s] # {} =>
      Covered(s) \/ (~Multishot(s) /\ (s = cur \/ ev[s] # {}))

\* Where nothing it speaks of changes.
LEMMA SameInterest ==
  ASSUME InterestInv, UNCHANGED <<fixedVars, loc, ev, cur, want, reqs>>
  PROVE  InterestInv'
  BY DEF InterestInv, Covered, Multishot, Oneshot, fixedVars

\* A source that is not running has nothing to wait for.
LEMMA OtherInterest ==
  ASSUME InterestInv, NEW s \in Sources, loc'[s] = "run" => want'[s] = {},
         UNCHANGED <<fixedVars, cur>> \/ (UNCHANGED fixedVars /\ cur = s),
         \A r \in Sources \ {s} :
           loc'[r] = loc[r] /\ ev'[r] = ev[r] /\ want'[r] = want[r] /\ reqs'[r] = reqs[r]
  PROVE  InterestInv'
  <1> SUFFICES ASSUME NEW r \in Sources, loc'[r] = "run", want'[r] # {}
               PROVE  (Covered(r) \/ (~Multishot(r) /\ (r = cur \/ ev[r] # {})))'
    BY DEF InterestInv
  <1>1. r # s
    OBVIOUS
  <1>2. QED BY <1>1 DEF InterestInv, Covered, Multishot, Oneshot, fixedVars

\* The calls of the client keep InterestInv.
LEMMA ClientInterest ==
  ASSUME Tame, Types, BatchInv, InterestInv, Live, Client, UNCHANGED fixedVars
  PROVE  InterestInv'
  <1>1. PICK s \in Sources :
          \/ New(s) \/ Del(s) \/ Reset(s) \/ Attach(s) \/ Detach(s) \/ RegulateTimer(s)
          \/ \E d \in IO : ResetIO(s, d) \/ UnsetIO(s, d)
          \/ \E d \in IO, on \in BOOLEAN : InitIO(s, d, on) /\ UNCHANGED pollVars
    BY DEF Client
  <1> USE DEF pollVars
  <1>2. CASE New(s)
    BY <1>2, OtherInterest
    DEF New, CreateOsFd, CreateRoFd, CreateItimer, CreateAbstimer, NewOsFd, NewRoFd,
        NewItimer, NewAbstimer, NewEmpty, Types, QueueInv, ListTypes
  <1>3. CASE Del(s)
    BY <1>3, OtherInterest
    DEF Del, SourceDel, Types, QueueInv, ListTypes, HandTypes, ReqTypes
  <1>4. CASE Reset(s)
    BY <1>4, OtherInterest DEF Reset, OsFdReset, queueVars, listVars, Types, HandTypes
  <1>5. CASE Attach(s)
    BY <1>5, OtherInterest
    DEF Attach, OsFdAdd, RoFdAdd, ItimerAdd, AbstimerAdd, OsFdAttach, RoFdAttach,
        TimerAttach, SourceAttach, InsertPending, InsertRunning, Types, QueueInv,
        ListTypes, HandTypes
  <1>6. CASE Detach(s)
    BY <1>6, OtherInterest
    DEF Detach, SourceDetach, DetachFromQueue, DriverDetach, OsFdDetach, RoFdDetach,
        ItimerDetach, AbstimerDetach, Cancel, Types, QueueInv, ListTypes
  <1>7. CASE RegulateTimer(s)
    BY <1>7, SameInterest DEF RegulateTimer, Regulate, queueVars, listVars
  <1>8. ASSUME NEW d \in IO, ResetIO(s, d) PROVE InterestInv'
    <2>1. ev[s] = {} /\ loc[s] \in {"pend", "run"} /\ Oneshot(s)
      BY <1>8 DEF ResetIO, AskIO, MayNextIO, Tame, Attached
    <2>2. reqs' = reqs
      BY <1>8, <2>1 DEF ResetIO, Tame, Types, ReqTypes, BatchInv
    <2>3. CASE submitted[s] /\ d \in want[s]
      BY <1>8, <2>2, <2>3, SameInterest DEF ResetIO, AskIO, listVars, Types, HandTypes
    <2>4. CASE InFlight(s) /\ ~(submitted[s] /\ d \in want[s])
      BY <1>8, <2>4 DEF ResetIO, Tame
    <2>5. CASE ~InFlight(s) /\ ~submitted[s]
      <3>1. CASE loc'[s] # "run"
        BY <1>8, <2>2, <3>1, OtherInterest
        DEF ResetIO, AskIO, RunningToPending, listVars, Types, QueueInv, ListTypes,
            HandTypes
      <3>2. CASE loc'[s] = "run"
        <4>1. InCallback(s) /\ UNCHANGED <<listVars, ahead>>
          BY <1>8, <2>1, <2>5, <3>2
          DEF ResetIO, AskIO, RunningToPending, listVars, Types, QueueInv, ListTypes
        <4>2. s = cur /\ ~Multishot(s)
          BY <4>1, <2>1 DEF InCallback, Multishot
        <4>3. QED
          BY <1>8, <2>2, <4>1, <4>2
          DEF ResetIO, AskIO, listVars, Types, HandTypes, InterestInv, Covered,
              Multishot, Oneshot, fixedVars
      <3>3. QED BY <3>1, <3>2
    <2>6. QED BY <2>1, <2>3, <2>4, <2>5 DEF BatchInv
  <1>9. ASSUME NEW d \in IO, UnsetIO(s, d) PROVE InterestInv'
    <2>1. /\ want' = [want EXCEPT ![s] = @ \ {d}] /\ reqs' = reqs
          /\ UNCHANGED <<ev, cur>>
          /\ \/ loc' = [loc EXCEPT ![s] = "run"] /\ want[s] \ {d} = {}
             \/ UNCHANGED loc
      BY <1>9 DEF UnsetIO, DropIO, PendingToRunning, listVars
    <2>2. QED
      BY <2>1
      DEF Types, QueueInv, ListTypes, HandTypes, InterestInv, Covered, Multishot,
          Oneshot, fixedVars
  <1>10. ASSUME NEW d \in IO, NEW on \in BOOLEAN, InitIO(s, d, on), UNCHANGED pollVars
         PROVE  InterestInv'
    BY <1>10, OtherInterest DEF InitIO, queueVars, listVars, Types, HandTypes, Attached
  <1>11. QED BY <1>1, <1>2, <1>3, <1>4, <1>5, <1>6, <1>7, <1>8, <1>9, <1>10

\* A round of the loop keeps it.
LEMMA LoopInterest ==
  ASSUME Tame, Types, BatchInv, InterestInv, Live, Live', [Next]_vars, ~Client
  PROVE  InterestInv'
  <1> USE DEF fixedVars, pollVars
  <1>1. ASSUME NEW S \in SUBSET Sources, Flush(S), UNCHANGED fixedVars PROVE InterestInv'
    <2>1. S = {} /\ Pending \ S = Pending /\ Pending \in SUBSET Sources
      BY <1>1 DEF Flush, Tame, Pending
    <2>2. \A s \in Pending : ~InFlight(s)
      BY DEF Pending, BatchInv
    <2>3. \A s \in Sources : reqs'[s] = IF s \in Pending THEN <<want[s]>> ELSE reqs[s]
      BY <1>1, <2>1, <2>2, SubmitTypes DEF Flush
    <2>4. \A s \in Sources : loc'[s] = IF s \in Pending THEN "run" ELSE loc[s]
      BY <1>1 DEF Flush, FlushMoves
    <2>5. UNCHANGED <<kind, driver, ev, cur, want>>
      BY <1>1 DEF Flush, handleVars
    <2>6. \A s \in Pending : Covered(s)'
      BY <2>1, <2>3, <2>5 DEF Covered, Types, HandTypes
    <2>7. \A s \in Sources \ Pending : Covered(s)' <=> Covered(s)
      BY <2>3, <2>5 DEF Covered
    <2>8. \A s \in Sources : Multishot(s)' <=> Multishot(s)
      BY <2>5 DEF Multishot, Oneshot
    <2> HIDE DEF Covered, Multishot
    <2>9. QED BY <2>4, <2>5, <2>6, <2>7, <2>8 DEF InterestInv
  <1>2. ASSUME NEW batch \in SUBSET Sources, Wait(batch), UNCHANGED fixedVars
        PROVE  InterestInv'
    <2>1. UNCHANGED <<kind, driver, loc, cur, want>> /\ cur = NoSource
          /\ \A s \in Sources : ev[s] = {}
      BY <1>2 DEF Wait, Goto, listVars, handleVars, Types, QueueInv, FlowInv
    <2>2. \A s \in Sources : Multishot(s)' <=> Multishot(s)
      BY <2>1 DEF Multishot, Oneshot
    <2>3. \A s \in batch : /\ ev'[s] # {}
                           /\ Multishot(s) => reqs'[s] = reqs[s]
      BY <1>2, WaitTypes, CompletionTypes
    <2>4. \A s \in Sources \ batch : reqs'[s] = reqs[s]
      BY <1>2, WaitTypes
    <2>5. \A s \in Sources : Multishot(s) \/ s \notin batch => (Covered(s)' <=> Covered(s))
      BY <2>1, <2>3, <2>4 DEF Covered
    <2> HIDE DEF Covered, Multishot
    <2>6. \A s \in Sources : s # cur
      BY <2>1, QueueConstants
    <2>7. QED BY <2>1, <2>2, <2>3, <2>5, <2>6 DEF InterestInv
  <1>3. ASSUME NEW s \in Sources, FetchCompletion(s), UNCHANGED fixedVars PROVE InterestInv'
    <2>1. cur = NoSource
      BY <1>3 DEF FetchCompletion, Fetch, FetchEvent, Goto, Types, QueueInv, FlowInv
    <2>2. QED
      BY <1>3, <2>1, QueueConstants
      DEF FetchCompletion, Fetch, FetchEvent, listVars, Types, QueueInv, ListTypes,
          InterestInv, Covered, Multishot, Oneshot
  <1>4. CASE RemoveCurrent /\ UNCHANGED fixedVars
    <2>1. cur \in Sources
      BY <1>4 DEF RemoveCurrent, CbRemove, Types, QueueInv, ListTypes, FlowInv
    <2>2. QED
      BY <1>4, <2>1, OtherInterest
      DEF RemoveCurrent, CbRemove, HandleRemove, DetachFromQueue, DriverDetach,
          OsFdDetach, RoFdDetach, ItimerDetach, AbstimerDetach, Cancel, Types, QueueInv,
          ListTypes
  <1>5. CASE EventHandled /\ UNCHANGED <<fixedVars, pollVars>>
    <2>1. cur \in Sources /\ loc[cur] = "run" /\ cur' = NoSource /\ UNCHANGED <<ev, want>>
      BY <1>5, CurrentRuns
      DEF EventHandled, Handled, HandleContinue, Types, QueueInv, FlowInv
    <2>2. CASE PollAgain(cur)
      BY <1>5, <2>1, <2>2, OtherInterest
      DEF EventHandled, Repend, RunningToPending, Types, QueueInv, ListTypes
    <2>3. CASE ~PollAgain(cur)
      <3>1. want[cur] = {} \/ Multishot(cur)
        BY <2>3, PollConstants DEF PollAgain, Multishot, Types, FixedTypes
      <3>2. UNCHANGED loc
        BY <1>5, <2>3 DEF EventHandled, listVars
      <3>3. QED
        BY <1>5, <2>1, <3>1, <3>2, QueueConstants
        DEF InterestInv, Covered, Multishot, Oneshot
    <2>4. QED BY <2>2, <2>3
  <1>6. ASSUME NEW flag, OsFdCall(flag), UNCHANGED <<fixedVars, pollVars>>
        PROVE  InterestInv'
    <2>1. cur \in Sources /\ Oneshot(cur)
      BY <1>6 DEF OsFdCall, CallHandler, Goto, Types, QueueInv, ListTypes, FlowInv
    <2>2. QED
      BY <1>6, <2>1
      DEF OsFdCall, CallHandler, listVars, Types, HandTypes, InterestInv, Covered,
          Multishot, Oneshot
  <1>7. CASE /\ \/ CbContinue \/ Returns \/ ItimerCall \/ AbstimerCall
                \/ \E flag \in {"IN", "HUP", "OUT"} : RoFdCall(flag)
             /\ UNCHANGED <<fixedVars, pollVars>>
    BY <1>7, SameInterest
    DEF CbContinue, Returns, BatchDone, RemoveReturn, RoundDone, ItimerCall,
        AbstimerCall, TimerCall, RoFdCall, CallHandler, listVars, handleVars
  <1>8. CASE (Run \/ \E s \in Sources : TimerExpires(s)) /\ UNCHANGED <<fixedVars, pollVars>>
    BY <1>8, SameInterest DEF Run, TimerExpires, queueVars, listVars, handleVars
  <1>9. CASE UNCHANGED vars
    BY <1>9, SameInterest DEF vars, queueVars, listVars, handleVars
  <1>10. QED BY <1>1, <1>2, <1>3, <1>4, <1>5, <1>6, <1>7, <1>8, <1>9, LiveSteps

-----------------------------------------------------------------------------
(***************************************************************************)
(* Timers: one whose completion waits in the batch has expired and was not *)
(* read, as long as nobody sets it again with its request in flight.       *)
(***************************************************************************)
TimerInv ==
  /\ \A s \in Sources : ~late[s]
  /\ \A s \in Sources : IsTimer(s) /\ ev[s] # {} => ticks[s] /\ ev[s] = {"IN"}
  /\ cur # NoSource /\ IsTimer(cur) => /\ todo \subseteq {"IN"}
                                       /\ pc = "cb" => todo = {}
                                       /\ todo # {} => ticks[cur]

\* Where nothing it speaks of changes, or no timer.
LEMMA SameTimer ==
  ASSUME TimerInv, UNCHANGED <<fixedVars, ev, cur, late, ticks, todo>>,
         pc' # "cb" \/ pc = "cb"
  PROVE  TimerInv'
  BY DEF TimerInv, IsTimer, fixedVars

\* The calls of the client keep TimerInv.
LEMMA ClientTimer ==
  ASSUME Tame, Types, BatchInv, TimerInv, Live, Client, UNCHANGED fixedVars
  PROVE  TimerInv'
  <1>1. PICK s \in Sources :
          \/ New(s) \/ Del(s) \/ Reset(s) \/ Attach(s) \/ Detach(s) \/ RegulateTimer(s)
          \/ \E d \in IO : ResetIO(s, d) \/ UnsetIO(s, d)
          \/ \E d \in IO, on \in BOOLEAN : InitIO(s, d, on) /\ UNCHANGED pollVars
    BY DEF Client
  <1> USE DEF pollVars, stepVars
  <1>2. CASE New(s) \/ Del(s) \/ Reset(s)
    BY <1>2, SameTimer
    DEF New, CreateOsFd, CreateRoFd, CreateItimer, CreateAbstimer, NewOsFd, NewRoFd,
        NewItimer, NewAbstimer, NewEmpty, Del, SourceDel, Reset, OsFdReset, queueVars
  <1>3. CASE Attach(s)
    <2>1. ev[s] = {} /\ s # cur
      BY <1>3 DEF Attach, SourceAttach, AttachAllowed, BatchInv
    <2>2. QED
      BY <1>3, <2>1
      DEF Attach, SourceAttach, OsFdAdd, RoFdAdd, ItimerAdd, AbstimerAdd, OsFdAttach,
          RoFdAttach, TimerAttach, Types, TimerTypes, QueueInv, ListTypes, TimerInv,
          IsTimer, fixedVars
  <1>4. CASE Detach(s)
    <2>1. s # cur
      BY <1>4 DEF Detach, SourceDetach, DetachAllowed, BatchInv
    <2>2. QED
      BY <1>4, <2>1
      DEF Detach, SourceDetach, DetachFromQueue, DriverDetach, OsFdDetach, RoFdDetach,
          ItimerDetach, AbstimerDetach, StopTimer, Cancel, Types, TimerTypes, QueueInv,
          ListTypes, TimerInv, IsTimer, fixedVars
  <1>5. CASE RegulateTimer(s)
    <2>1. ev[s] = {} /\ InClient
      BY <1>5 DEF RegulateTimer, Regulate, Tame
    <2>2. late' = late
      BY <1>5
      DEF RegulateTimer, Quiet, Live, Tame, Types, NoteTypes, TimerTypes, TimerInv
    <2>3. s = cur => pc = "cb"
      BY <2>1, QueueConstants DEF InClient, Types, QueueInv, FlowInv
    <2>4. QED
      BY <1>5, <2>1, <2>2, <2>3
      DEF RegulateTimer, Regulate, queueVars, Types, TimerTypes, TimerInv, IsTimer,
          fixedVars
  <1>6. ASSUME NEW d \in IO, ResetIO(s, d) \/ UnsetIO(s, d) PROVE TimerInv'
    BY <1>6, SameTimer DEF ResetIO, AskIO, UnsetIO, DropIO
  <1>7. ASSUME NEW d \in IO, NEW on \in BOOLEAN, InitIO(s, d, on), UNCHANGED pollVars
        PROVE  TimerInv'
    BY <1>7, SameTimer DEF InitIO, queueVars
  <1>8. QED BY <1>1, <1>2, <1>3, <1>4, <1>5, <1>6, <1>7

\* A round of the loop keeps it.
LEMMA LoopTimer ==
  ASSUME Tame, Types, BatchInv, TimerInv, Live, Live', [Next]_vars, ~Client
  PROVE  TimerInv'
  <1> USE DEF pollVars, stepVars
  <1>1. ASSUME NEW S \in SUBSET Sources, Flush(S), UNCHANGED fixedVars PROVE TimerInv'
    BY <1>1, SameTimer DEF Flush, Submit, Goto, handleVars
  <1>2. ASSUME NEW batch \in SUBSET Sources, Wait(batch), UNCHANGED fixedVars
        PROVE  TimerInv'
    <2>1. UNCHANGED <<kind, driver, cur, ticks>> /\ cur = NoSource
          /\ \A s \in Sources : ~late'[s]
      BY <1>2 DEF Wait, Goto, fixedVars, handleVars, Types, QueueInv, FlowInv, TimerInv
    <2>2. \A s \in batch : IsTimer(s) => ev'[s] = {"IN"} /\ ticks[s]
      BY <1>2, WaitTypes, CompletionTypes DEF TimerInv
    <2>3. \A s \in Sources \ batch : ev'[s] = {}
      BY <1>2, WaitTypes
    <2>4. QED BY <2>1, <2>2, <2>3 DEF TimerInv, IsTimer
  <1>3. ASSUME NEW s \in Sources, FetchCompletion(s), UNCHANGED fixedVars PROVE TimerInv'
    BY <1>3
    DEF FetchCompletion, Fetch, FetchEvent, Goto, Types, QueueInv, ListTypes, TimerInv,
        IsTimer, fixedVars
  <1>4. CASE RemoveCurrent /\ UNCHANGED fixedVars
    BY <1>4, QueueConstants
    DEF RemoveCurrent, CbRemove, HandleRemove, DetachFromQueue, DriverDetach,
        OsFdDetach, RoFdDetach, ItimerDetach, AbstimerDetach, StopTimer, Cancel, Types,
        TimerTypes, QueueInv, ListTypes, FlowInv, TimerInv, IsTimer, fixedVars
  <1>5. CASE EventHandled /\ UNCHANGED <<fixedVars, pollVars>>
    BY <1>5 DEF EventHandled, Handled, HandleContinue, TimerInv, IsTimer, fixedVars
  <1>6. ASSUME NEW flag \in {"IN", "HUP", "OUT"}, CallHandler(flag),
               UNCHANGED <<fixedVars, late>>,
               \/ UNCHANGED ticks
               \/ ticks' = [ticks EXCEPT ![cur] = FALSE]
        PROVE  TimerInv'
    <2>1. cur \in Sources /\ ev[cur] = {}
      BY <1>6 DEF CallHandler, Goto, Types, QueueInv, ListTypes, FlowInv, BatchInv
    <2>2. ASSUME IsTimer(cur) PROVE todo' = {}
      <3>1. flag = "IN"
        BY <1>6, <2>1, <2>2, QueueConstants DEF CallHandler, Callable, TimerInv
      <3>2. QED BY <1>6, <2>1, <2>2, <3>1, QueueConstants
                DEF CallHandler, After, TimerInv
    <2>3. QED
      BY <1>6, <2>1, <2>2
      DEF CallHandler, Types, TimerTypes, TimerInv, IsTimer, fixedVars
  <1>7. CASE /\ \/ ItimerCall \/ AbstimerCall
                \/ \E flag \in {"IN", "HUP", "OUT"} : OsFdCall(flag) \/ RoFdCall(flag)
             /\ UNCHANGED <<fixedVars, pollVars>>
    BY <1>6, <1>7 DEF ItimerCall, AbstimerCall, TimerCall, OsFdCall, RoFdCall
  <1>8. CASE (CbContinue \/ Returns) /\ UNCHANGED <<fixedVars, pollVars>>
    BY <1>8, SameTimer
    DEF CbContinue, Returns, BatchDone, RemoveReturn, RoundDone, Goto, handleVars
  <1>9. ASSUME NEW s \in Sources, TimerExpires(s), UNCHANGED <<fixedVars, pollVars>>
        PROVE  TimerInv'
    BY <1>9 DEF TimerExpires, queueVars, Types, TimerTypes, TimerInv, IsTimer, fixedVars
  <1>10. CASE Run /\ UNCHANGED <<fixedVars, pollVars>>
    BY <1>10, SameTimer DEF Run, handleVars
  <1>11. CASE UNCHANGED vars
    BY <1>11, SameTimer DEF vars, queueVars, handleVars
  <1>12. QED BY <1>1, <1>2, <1>3, <1>4, <1>5, <1>7, <1>8, <1>9, <1>10, <1>11, LiveSteps

-----------------------------------------------------------------------------
(***************************************************************************)
(* What is asked for, reported or still to be looked at for the handler of *)
(* a oneshot source is wanted, or its handler was taken away.              *)
(***************************************************************************)
Asked(s) ==
  Oneshot(s) =>
    /\ \A mask \in SUBSET IO : reqs[s] = <<mask>> => mask \cap hand[s] \subseteq want[s]
    /\ ev[s] \cap IO \cap hand[s] \subseteq want[s]
    /\ s = cur => todo \cap IO \cap hand[s] \subseteq want[s]

AskedInv == \A s \in Sources : Asked(s)

\* Where nothing it speaks of changes.
LEMMA SameAsked ==
  ASSUME AskedInv, UNCHANGED <<fixedVars, reqs, ev, want, hand>>,
         (UNCHANGED <<cur, todo>>) \/ cur' = NoSource
  PROVE  AskedInv'
  BY QueueConstants DEF AskedInv, Asked, Oneshot, fixedVars

\* A source without request and event has nothing to ask for.
LEMMA OtherAsked ==
  ASSUME AskedInv, NEW s \in Sources, UNCHANGED fixedVars,
         (UNCHANGED <<cur, todo>>) \/ cur' = NoSource,
         s # cur', reqs'[s] = <<>>, ev'[s] = {},
         \A r \in Sources \ {s} :
           reqs'[r] = reqs[r] /\ ev'[r] = ev[r] /\ want'[r] = want[r] /\ hand'[r] = hand[r]
  PROVE  AskedInv'
  <1>1. Asked(s)'
    BY FirstRequest DEF Asked
  <1>2. \A r \in Sources \ {s} : Asked(r)'
    BY QueueConstants DEF AskedInv, Asked, Oneshot, fixedVars
  <1>3. QED BY <1>1, <1>2 DEF AskedInv

\* The calls of the client keep AskedInv: next_read and next_write set handler and
\* interest together.
LEMMA ClientAsked ==
  ASSUME Tame, Types, BatchInv, AskedInv, Live, Client, UNCHANGED fixedVars
  PROVE  AskedInv'
  <1>1. PICK s \in Sources :
          \/ New(s) \/ Del(s) \/ Reset(s) \/ Attach(s) \/ Detach(s) \/ RegulateTimer(s)
          \/ \E d \in IO : ResetIO(s, d) \/ UnsetIO(s, d)
          \/ \E d \in IO, on \in BOOLEAN : InitIO(s, d, on) /\ UNCHANGED pollVars
    BY DEF Client
  <1> USE DEF pollVars, stepVars
  <1>2. CASE New(s) \/ Del(s) \/ Reset(s) \/ Attach(s)
    <2>1. reqs[s] = <<>> /\ ev[s] = {} /\ s # cur
      BY <1>2
      DEF New, CreateOsFd, CreateRoFd, CreateItimer, CreateAbstimer, NewOsFd, NewRoFd,
          NewItimer, NewAbstimer, NewEmpty, Del, SourceDel, Reset, OsFdReset, Attach,
          SourceAttach, AttachAllowed, BatchInv, InFlight
    <2>2. reqs' = reqs
      BY <1>2, <2>1
      DEF New, CreateOsFd, CreateRoFd, CreateItimer, CreateAbstimer, Del, Reset, Attach,
          Types, ReqTypes
    <2>3. UNCHANGED <<ev, cur, todo>>
      BY <1>2
      DEF New, CreateOsFd, CreateRoFd, CreateItimer, CreateAbstimer, NewOsFd, NewRoFd,
          NewItimer, NewAbstimer, NewEmpty, Del, SourceDel, Reset, OsFdReset, Attach,
          SourceAttach, queueVars
    <2>4. \A r \in Sources \ {s} : want'[r] = want[r] /\ hand'[r] = hand[r]
      BY <1>2
      DEF New, CreateOsFd, CreateRoFd, CreateItimer, CreateAbstimer, NewOsFd, NewRoFd,
          NewItimer, NewAbstimer, NewEmpty, SetTimer, Del, SourceDel, Reset, OsFdReset,
          Attach, OsFdAdd, RoFdAdd, ItimerAdd, AbstimerAdd, OsFdAttach, RoFdAttach,
          TimerAttach, SourceAttach, Types, HandTypes
    <2>5. QED BY <2>1, <2>2, <2>3, <2>4, OtherAsked
  <1>3. CASE Detach(s)
    <2>1. s # cur /\ reqs[s] = <<>>
      BY <1>3
      DEF Detach, Quiet, InDestroy, Live, Tame, SourceDetach, DetachAllowed, BatchInv,
          InFlight
    <2>2. QED
      BY <1>3, <2>1, OtherAsked
      DEF Detach, SourceDetach, DetachFromQueue, DriverDetach, OsFdDetach, RoFdDetach,
          ItimerDetach, AbstimerDetach, Cancel, Types, QueueInv, ListTypes
  <1>4. CASE RegulateTimer(s)
    BY <1>4, SameAsked DEF RegulateTimer, Regulate, queueVars
  <1>5. ASSUME NEW d \in IO, UNCHANGED <<reqs, ev, cur, todo>>,
               \/ /\ hand' = [hand EXCEPT ![s] = @ \cup {d}]
                  /\ want' = [want EXCEPT ![s] = @ \cup {d}]
               \/ /\ hand' = [hand EXCEPT ![s] = @ \ {d}]
                  /\ want' = [want EXCEPT ![s] = @ \ {d}]
        PROVE  AskedInv'
    BY <1>5 DEF AskedInv, Asked, Oneshot, Types, HandTypes, fixedVars
  <1>6. ASSUME NEW d \in IO, ResetIO(s, d) PROVE AskedInv'
    <2>1. ev[s] = {}
      BY <1>6 DEF ResetIO, AskIO, MayNextIO, Tame
    <2>2. reqs' = reqs
      BY <1>6, <2>1 DEF ResetIO, Tame, Types, ReqTypes, BatchInv
    <2>3. QED BY <1>5, <1>6, <2>2 DEF ResetIO, AskIO
  <1>7. ASSUME NEW d \in IO, UnsetIO(s, d) PROVE AskedInv'
    BY <1>5, <1>7 DEF UnsetIO, DropIO
  <1>8. ASSUME NEW d \in IO, NEW on \in BOOLEAN, InitIO(s, d, on), UNCHANGED pollVars
        PROVE  AskedInv'
    BY <1>5, <1>8 DEF InitIO, queueVars
  <1>9. QED BY <1>1, <1>2, <1>3, <1>4, <1>6, <1>7, <1>8

\* A round of the loop keeps it: the kernel reports what it was asked for.
LEMMA LoopAsked ==
  ASSUME Tame, Types, BatchInv, AskedInv, Live, Live', [Next]_vars, ~Client
  PROVE  AskedInv'
  <1> USE DEF pollVars, stepVars
  <1>1. ASSUME NEW S \in SUBSET Sources, Flush(S), UNCHANGED fixedVars PROVE AskedInv'
    <2>1. S = {} /\ Pending \ S = Pending /\ Pending \in SUBSET Sources
      BY <1>1 DEF Flush, Tame, Pending
    <2>2. \A s \in Pending : ~InFlight(s)
      BY DEF Pending, BatchInv
    <2>3. \A s \in Sources : reqs'[s] = IF s \in Pending THEN <<want[s]>> ELSE reqs[s]
      BY <1>1, <2>1, <2>2, SubmitTypes DEF Flush
    <2>4. UNCHANGED <<kind, ev, cur, want, hand, todo>>
      BY <1>1 DEF Flush, handleVars, fixedVars
    <2>5. \A s \in Sources, mask \in SUBSET IO :
            reqs'[s] = <<mask>> => mask = want[s] \/ reqs[s] = <<mask>>
      <3> SUFFICES ASSUME NEW s \in Pending, NEW mask, reqs'[s] = <<mask>>
                   PROVE  mask = want[s]
        BY <2>3
      <3>1. <<mask>> = <<want[s]>>
        BY <2>1, <2>3
      <3>2. <<mask>>[1] = <<want[s]>>[1]
        BY <3>1
      <3>3. QED BY <3>2
    <2>6. QED BY <2>4, <2>5 DEF AskedInv, Asked, Oneshot
  <1>2. ASSUME NEW batch \in SUBSET Sources, Wait(batch), UNCHANGED fixedVars
        PROVE  AskedInv'
    <2>1. UNCHANGED <<kind, cur, want, hand, todo>> /\ cur = NoSource
      BY <1>2 DEF Wait, Goto, fixedVars, handleVars, Types, QueueInv, FlowInv
    <2>2. \A s \in Sources : s # cur
      BY <2>1, QueueConstants
    <2>3. ASSUME NEW s \in Sources, Oneshot(s) PROVE Asked(s)'
      <3>1. CASE s \in batch
        <4>1. PICK mask \in SUBSET IO : reqs[s] = <<mask>> /\ ev'[s] \in Completions(s, mask)
          BY <1>2, <3>1, WaitTypes
        <4>2. ev'[s] \cap IO \subseteq mask
          BY <2>3, <4>1, CompletionTypes DEF Oneshot, IsTimer
        <4>3. mask \cap hand[s] \subseteq want[s]
          BY <2>3, <4>1 DEF AskedInv, Asked
        <4>4. reqs'[s] = <<>>
          BY <1>2, <2>3, <3>1, WaitTypes DEF Multishot
        <4>5. \A m \in SUBSET IO : reqs'[s] # <<m>>
          BY <4>4, FirstRequest
        <4>6. QED BY <2>1, <2>2, <4>2, <4>3, <4>5 DEF Asked
      <3>2. CASE s \notin batch
        <4>1. ev'[s] = {} /\ reqs'[s] = reqs[s]
          BY <1>2, <3>2, WaitTypes
        <4>2. QED BY <2>1, <2>2, <2>3, <4>1 DEF AskedInv, Asked
      <3>3. QED BY <3>1, <3>2
    <2>4. QED BY <2>1, <2>3 DEF AskedInv, Asked, Oneshot
  <1>3. ASSUME NEW s \in Sources, FetchCompletion(s), UNCHANGED fixedVars PROVE AskedInv'
    BY <1>3
    DEF FetchCompletion, Fetch, FetchEvent, Types, QueueInv, ListTypes, AskedInv, Asked,
        Oneshot, fixedVars
  <1>4. CASE RemoveCurrent /\ UNCHANGED fixedVars
    <2>1. cur \in Sources /\ reqs[cur] = <<>>
      BY <1>4
      DEF RemoveCurrent, CbRemove, Quiet, Tame, InFlight, Types, QueueInv, ListTypes,
          FlowInv
    <2>2. QED
      BY <1>4, <2>1, QueueConstants, OtherAsked
      DEF RemoveCurrent, CbRemove, HandleRemove, DetachFromQueue, DriverDetach,
          OsFdDetach, RoFdDetach, ItimerDetach, AbstimerDetach, Cancel, Types, QueueInv,
          ListTypes
  <1>5. CASE EventHandled /\ UNCHANGED <<fixedVars, pollVars>>
    BY <1>5, SameAsked DEF EventHandled, Handled, HandleContinue
  <1>6. ASSUME NEW flag \in {"IN", "HUP", "OUT"}, OsFdCall(flag),
               UNCHANGED <<fixedVars, pollVars>>
        PROVE  AskedInv'
    <2>1. cur \in Sources /\ ev[cur] = {} /\ reqs[cur] = <<>>
      BY <1>6
      DEF OsFdCall, CallHandler, Goto, Types, QueueInv, ListTypes, FlowInv, BatchInv,
          InFlight, Multishot
    <2>2. /\ todo' \subseteq todo /\ flag \notin todo' /\ UNCHANGED <<ev, cur, hand, kind>>
          /\ want' = [want EXCEPT ![cur] = @ \ {flag}]
      BY <1>6 DEF OsFdCall, CallHandler, After, fixedVars
    <2>3. \A mask \in SUBSET IO : reqs'[cur] # <<mask>>
      BY <1>6, <2>1, FirstRequest
    <2>4. Asked(cur)'
      BY <1>6, <2>1, <2>2, <2>3 DEF OsFdCall, Types, HandTypes, AskedInv, Asked
    <2>5. \A s \in Sources \ {cur} : Asked(s)'
      BY <1>6, <2>1, <2>2 DEF Types, HandTypes, AskedInv, Asked, Oneshot
    <2>6. QED BY <2>2, <2>4, <2>5 DEF AskedInv
  <1>7. ASSUME NEW flag \in {"IN", "HUP", "OUT"}, CallHandler(flag),
               UNCHANGED <<fixedVars, pollVars, want>>
        PROVE  AskedInv'
    BY <1>7 DEF CallHandler, AskedInv, Asked, Oneshot, fixedVars
  <1>8. CASE (CbContinue \/ Returns) /\ UNCHANGED <<fixedVars, pollVars>>
    BY <1>8, SameAsked
    DEF CbContinue, Returns, BatchDone, RemoveReturn, RoundDone, handleVars
  <1>9. CASE (Run \/ \E s \in Sources : TimerExpires(s)) /\ UNCHANGED <<fixedVars, pollVars>>
    BY <1>9, SameAsked DEF Run, TimerExpires, queueVars, handleVars
  <1>10. CASE UNCHANGED vars
    BY <1>10, SameAsked DEF vars, queueVars, handleVars
  <1>11. QED
    BY <1>1, <1>2, <1>3, <1>4, <1>5, <1>6, <1>7, <1>8, <1>9, <1>10, LiveSteps
    DEF ItimerCall, AbstimerCall, TimerCall, RoFdCall

-----------------------------------------------------------------------------
\* What the loop keeps as long as it goes on, and the inductive invariant.
RoundInv == BatchInv /\ InterestInv /\ TimerInv /\ AskedInv
PollInv == Types /\ (Live => RoundInv)

\* The invariants hold at the start.
LEMMA InitPollInv == Init => PollInv
  <1> SUFFICES ASSUME Init PROVE PollInv
    OBVIOUS
  <1> USE DEF Init, HandleInit, QueueInit
  <1>1. BatchInv
    BY QueueConstants DEF BatchInv, InFlight
  <1>2. InterestInv
    BY DEF InterestInv
  <1>3. TimerInv
    BY DEF TimerInv
  <1>4. AskedInv
    BY DEF AskedInv, Asked
  <1>5. QED BY <1>1, <1>2, <1>3, <1>4, InitTypes DEF PollInv, RoundInv

\* Together they are inductive.
LEMMA NextPollInv ==
  ASSUME Tame, PollInv, [Next]_vars
  PROVE  PollInv'
  <1> USE DEF PollInv, RoundInv
  <1>1. Types'
    BY NextTypes
  <1>2. ASSUME Live' PROVE RoundInv'
    <2>1. Live /\ RoundInv
      BY <1>2, LiveStep DEF Types
    <2>2. CASE Client /\ UNCHANGED fixedVars
      BY <2>1, <2>2, ClientBatch, ClientInterest, ClientTimer, ClientAsked
    <2>3. CASE ~Client
      BY <1>2, <2>1, <2>3, LoopBatch, LoopInterest, LoopTimer, LoopAsked
    <2>4. QED BY <2>2, <2>3 DEF Next, vars
  <1>3. QED BY <1>1, <1>2

\* They hold.
LEMMA PollHolds == ASSUME Tame PROVE Spec => []PollInv
  <1>1. Init => PollInv
    BY InitPollInv
  <1>2. PollInv /\ [Next]_vars => PollInv'
    BY NextPollInv
  <1>3. QED BY <1>1, <1>2, PTL DEF Spec

\* foreach, which is not explored here, does not run.
LEMMA NoForeach == Spec => [](each = NoSource)
  <1>1. Init => each = NoSource
    BY DEF Init, HandleInit, QueueInit
  <1>2. ASSUME [Next]_vars PROVE each' = each
    <2> USE DEF eachVars
    <2>1. CASE Client
      BY <2>1
      DEF Client, New, CreateOsFd, CreateRoFd, CreateItimer, CreateAbstimer, NewOsFd,
          NewRoFd, NewItimer, NewAbstimer, NewEmpty, Del, SourceDel, Reset, OsFdReset,
          Attach, SourceAttach, Detach, SourceDetach, RegulateTimer, Regulate, ResetIO,
          AskIO, UnsetIO, DropIO, InitIO, queueVars
    <2>2. CASE Loop
      BY <2>2
      DEF Loop, Flush, AioFlushFails, UringFlushFails, Wait, FetchCompletion, Fetch,
          FetchEvent, RemoveCurrent, CbRemove, HandleRemove, Handling, WaitFails,
          TimerReadFails, CbContinue, CbBreak, HandleBreak, EventHandled, Handled,
          HandleContinue, Returns, BatchDone, RemoveReturn, RoundDone, ItimerCall,
          AbstimerCall, TimerCall, OsFdCall, RoFdCall, CallHandler
    <2>3. CASE Destroy
      BY <2>3
      DEF Destroy, DestroyStep, DestroyStart, DestroyCursor, DestroyNext, DestroyRemove,
          DestroyDetach
    <2>4. CASE Run \/ \E s \in Sources : TimerExpires(s)
      BY <2>4 DEF Run, TimerExpires, queueVars
    <2>5. CASE UNCHANGED vars
      BY <2>5 DEF vars, queueVars
    <2>6. QED BY <1>2, <2>1, <2>2, <2>3, <2>4, <2>5 DEF Next
  <1>3. each = NoSource /\ [Next]_vars => (each = NoSource)'
    BY <1>2
  <1>4. QED BY <1>1, <1>3, PTL DEF Spec

\* A step of a loop that goes on counts what it moves.
LEMMA StepCounts ==
  ASSUME PollInv, each = NoSource, [Next]_vars, Live, Live'
  PROVE  Balanced
  <1> USE DEF PollInv, RoundInv
  <1>1. CASE QueueStep
    <2>1. /\ cur # NoSource => cur \in Attached
          /\ pc = "dispatch" => loc[cur] = "run"
      BY CurrentRuns DEF Types, QueueInv, FlowInv, Attached
    <2>2. ~DestroyCursor
      BY DEF DestroyCursor, Live
    <2>3. QED BY <1>1, <2>1, <2>2, StepBalanced DEF Types
  <1>2. CASE FlushStep
    <2>1. Pending \in SUBSET Pending
      OBVIOUS
    <2>2. QED
      BY <1>2, <2>1, FlushBalanced
      DEF FlushStep, Flush, AioFlushFails, UringFlushFails, Goto, Live, Types, QueueInv
  <1>3. CASE WaitStep
    BY <1>3, StillBalanced DEF WaitStep, Wait
  <1>4. QED BY <1>1, <1>2, <1>3, NextQueueStep DEF Types

\* aio_poll and io_uring: the counters match the lists, the interest of an attached source
\* is pending or has its request in flight, a source has no second request, and the
\* timerfd of a completion can be read.
THEOREM RequestsCorrect == ASSUME Tame PROVE Spec => []RequestsSound
  <1>1. Init => StatsExact
    BY InitCounts DEF Init, HandleInit, StatsExact
  <1>2. PollInv /\ PollInv' /\ each = NoSource /\ StatsExact /\ [Next]_vars => StatsExact'
    <2> SUFFICES ASSUME PollInv, PollInv', each = NoSource, StatsExact, [Next]_vars
                 PROVE  StatsExact'
      OBVIOUS
    <2>1. Live' => Live
      BY LiveStep DEF PollInv, RoundInv, Types
    <2>2. Live' => Balanced
      BY <2>1, StepCounts
    <2>3. QED BY <2>1, <2>2, StatsStep DEF PollInv, Types, QueueInv
  <1>3. PollInv => TypeOK
    <2> SUFFICES ASSUME PollInv PROVE TypeOK
      OBVIOUS
    <2>1. ASSUME NEW s \in Sources
          PROVE  /\ Len(reqs[s]) =< (IF May("rearm") THEN MaxRequests ELSE 1)
                 /\ \A i \in DOMAIN reqs[s] : reqs[s][i] \subseteq IO
      <3>1. CASE reqs[s] = <<>>
        BY <3>1, PollConstants
      <3>2. ASSUME NEW mask \in SUBSET IO, reqs[s] = <<mask>>
            PROVE  /\ Len(reqs[s]) =< (IF May("rearm") THEN MaxRequests ELSE 1)
                   /\ \A i \in DOMAIN reqs[s] : reqs[s][i] \subseteq IO
        BY <3>2, PollConstants
      <3>3. QED BY <3>1, <3>2 DEF PollInv, Types, ReqTypes, Requests
    <2>2. QueueTypeOK
      BY DEF PollInv, Types, QueueInv, ListTypes, EachTypes, FlagType, QueueTypeOK
    <2>3. HandleTypeOK
      BY <2>2 DEF PollInv, Types, HandTypes, TimerTypes, FixedTypes, HandleTypeOK
    <2>4. QED BY <2>1, <2>3 DEF PollInv, Types, NoteTypes, TypeOK
  <1>4. PollInv => InterestRequested
    <2> SUFFICES ASSUME PollInv, Live, NEW s \in Attached, want[s] # {}, s # cur,
                        ev[s] = {},
                        loc[s] # "pend"
                 PROVE  \E i \in DOMAIN reqs[s] : want[s] \subseteq reqs[s][i]
      BY DEF InterestRequested
    <2>1. Covered(s)
      BY DEF PollInv, RoundInv, InterestInv, Attached
    <2>2. PICK mask \in SUBSET IO : reqs[s] = <<mask>> /\ want[s] \subseteq mask
      BY <2>1 DEF Covered
    <2>3. 1 \in DOMAIN reqs[s] /\ reqs[s][1] = mask
      BY <2>2
    <2>4. QED BY <2>2, <2>3
  <1>5. PollInv => TimerReadable
    BY DEF PollInv, RoundInv, TimerInv, TimerReadable, Live, Types, QueueInv, FlowInv
  <1>6. QED
    BY <1>1, <1>2, <1>3, <1>4, <1>5, PollHolds, NoForeach, PTL DEF Spec, RequestsSound

\* "source detached": a client that detaches no source with a request in flight never gets
\* a completion for a source that is detached or deleted.
THEOREM NoneStray == ASSUME Tame PROVE Spec => []NoStrayCompletion
  <1>1. PollInv => NoStrayCompletion
    BY DEF PollInv, RoundInv, BatchInv, NoStrayCompletion, Attached
  <1>2. QED BY <1>1, PollHolds, PTL

\* After do_read or do_write of a oneshot fd was called it is not called again before the
\* client asks for it, whichever completions the two drivers get.
THEOREM OneshotAlwaysHonoured == ASSUME Tame PROVE Spec => OneshotHonoured
  <1>1. PollInv /\ [Next]_vars =>
          [ pc = "dispatch" /\ pc' = "cb" /\ Oneshot(cur) /\ calling' \in IO =>
              calling' \in want[cur] ]_<<pc, calling, want>>
    <2> SUFFICES ASSUME PollInv, [Next]_vars, pc = "dispatch", pc' = "cb", Oneshot(cur),
                        calling' \in IO
                 PROVE  calling' \in want[cur]
      OBVIOUS
    <2>1. cur \in Sources /\ Live /\ Live'
      BY DEF PollInv, Types, QueueInv, ListTypes, FlowInv, Live
    <2>2. \E flag \in {"IN", "HUP", "OUT"} : CallHandler(flag)
      <3>1. ~Client
        BY DEF Client, New, CreateOsFd, CreateRoFd, CreateItimer, CreateAbstimer,
            NewOsFd, NewRoFd, NewItimer, NewAbstimer, NewEmpty, Del, SourceDel, Reset,
            OsFdReset, Attach, SourceAttach, Detach, SourceDetach, RegulateTimer,
            Regulate, ResetIO, AskIO, UnsetIO, DropIO, InitIO, queueVars
      <3>2. QED
        BY <2>1, <3>1, LiveSteps
        DEF Flush, Wait, FetchCompletion, Fetch, FetchEvent, RemoveCurrent, CbRemove,
            CbContinue, EventHandled, Handled, HandleContinue, Returns, BatchDone,
            RemoveReturn, RoundDone, ItimerCall, AbstimerCall, TimerCall, OsFdCall,
            RoFdCall, Run, TimerExpires, vars, queueVars, Goto
    <2>3. PICK flag \in {"IN", "HUP", "OUT"} : CallHandler(flag)
      BY <2>2
    <2>4. calling' = flag /\ flag \in Callable
      BY <2>3 DEF CallHandler
    <2>5. flag \in todo /\ flag \in IO /\ flag \in hand[cur]
      BY <2>4 DEF Callable, IO
    <2>6. todo \cap IO \cap hand[cur] \subseteq want[cur]
      BY <2>1 DEF PollInv, RoundInv, AskedInv, Asked
    <2>7. QED BY <2>4, <2>5, <2>6
  <1>2. QED BY <1>1, PollHolds, PTL DEF Spec, OneshotHonoured
=============================================================================
