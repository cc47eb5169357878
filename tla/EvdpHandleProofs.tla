-------------------------- MODULE EvdpHandleProofs --------------------------
(***************************************************************************)
(* What the proofs about the drivers share: the steps of the queue that    *)
(* every driver takes (QueueStep), and what each of them keeps, whatever   *)
(* the driver does in the same step to its own state.                      *)
(***************************************************************************)
EXTENDS EvdpHandle, TLAPS, FiniteSetTheorems

\* The types of the queue, by what the provers have to keep apart.
ListTypes ==
  /\ loc \in [Sources -> {"free", "idle", "pend", "run"}]
  /\ nPend \in Int /\ nRun \in Int
  /\ noDetach \in [Sources -> BOOLEAN]
  /\ ev \in [Sources -> SUBSET {"IN", "OUT", "HUP", "ERR"}]
  /\ pc \in {"out", "flush", "wait", "batch", "dispatch", "cb", "removed", "post",
             "stopped", "destroyPend", "rmPend", "destroyRun", "rmRun", "dead"}
  /\ cur \in Sources \cup {NoSource}

EachTypes ==
  /\ foreachId \in 0 .. IdMod - 1 /\ fid \in [Sources -> 0 .. IdMod - 1]
  /\ ahead \subseteq Sources
  /\ each \in Sources \cup {NoSource} /\ captured \in Sources \cup {NoSource}
  /\ called \subseteq Sources

FlagType == inForeach \in BOOLEAN

\* The types of the sources and handlers, likewise.
HandTypes ==
  /\ want \in [Sources -> SUBSET IO] /\ hand \in [Sources -> SUBSET IO]
  /\ todo \subseteq {"IN", "OUT", "HUP", "ERR"}
  /\ calling \in {"none", "IN", "OUT", "HUP"}
TimerTypes == its \in [Sources -> BOOLEAN] /\ ticks \in [Sources -> BOOLEAN]
FixedTypes == driver \in Drivers /\ kind \in Kinds

\* Where the loop stands tells whether an event is being handled and whether the batch
\* may hold one; a foreach callback runs only where client code does; and the sources
\* that foreach has still to look at are running and were not called.
FlowInv ==
  /\ cur # NoSource <=> pc \in {"dispatch", "cb"}
  /\ each # NoSource => InClient /\ captured \in Sources
  /\ \A s \in Sources : ev[s] # {} => pc \in {"batch", "dispatch", "cb", "removed"}
  /\ ahead \subseteq Running /\ ahead \cap called = {}

QueueInv == ListTypes /\ EachTypes /\ FlagType /\ FlowInv

(***************************************************************************)
(* The steps of the queue that all drivers have in common.                 *)
(***************************************************************************)
ClientStep(s) ==
  \/ NewEmpty(s) \/ SourceDel(s) \/ SourceDetach(s)
  \/ SourceAttach(s) /\ (InsertPending(s) \/ InsertRunning(s))
  \/ /\ InClient \/ (InDestroy /\ May("removeIO"))
     /\ \/ loc[s] = "run" /\ RunningToPending(s)
        \/ loc[s] = "pend" /\ PendingToRunning(s)
     /\ UNCHANGED <<noDetach, ev, pc, cur, eachVars>>

HandlingStep ==
  \/ Run \/ WaitFails \/ Returns
  \/ \E flag \in {"IN", "HUP", "OUT"} : CallHandler(flag)
  \/ TimerReadFails \/ CbContinue \/ CbBreak \/ CbRemove
  \/ /\ pc = "dispatch" /\ HandleContinue
     /\ RunningToPending(cur) \/ UNCHANGED <<listVars, ahead>>

QueueStep ==
  \/ UNCHANGED queueVars
  \/ \E s \in Sources : ClientStep(s) \/ Fetch(s) \/ DestroyRemove(s)
  \/ ForeachStep \/ ForeachRemove \/ DestroyStep \/ HandlingStep

-----------------------------------------------------------------------------
\* neb_evdp_queue_create leaves the queue so.
LEMMA QueueInitInv == QueueInit => QueueInv
  <1> SUFFICES ASSUME QueueInit PROVE QueueInv
    OBVIOUS
  <1> USE QueueConstants DEF QueueInit
  <1>1. ListTypes
    BY DEF ListTypes
  <1>2. EachTypes
    BY DEF EachTypes
  <1>3. FlagType
    BY DEF FlagType
  <1>4. FlowInv
    BY DEF FlowInv
  <1>5. QED BY <1>1, <1>2, <1>3, <1>4 DEF QueueInv

\* The calls of the client keep QueueInv: new, del, attach, detach, and the list macros
\* behind next_read and next_write.
LEMMA ClientQueueInv ==
  ASSUME QueueInv, NEW s \in Sources, ClientStep(s)
  PROVE  QueueInv'
  <1> USE QueueConstants
      DEF QueueInv, ClientStep, NewEmpty, SourceDel, SourceDetach, SourceAttach,
          AttachAllowed, InsertPending, InsertRunning, RunningToPending,
          PendingToRunning, DetachFromQueue, eachVars
  <1>1. ListTypes' /\ EachTypes' /\ FlowInv'
    BY DEF ListTypes, EachTypes, FlowInv, InClient, InDestroy, Running
  <1>2. FlagType'
    BY DEF FlagType
  <1>3. QED BY <1>1, <1>2

\* So do foreach_start, foreach_next and foreach_set_end.
LEMMA ForeachQueueInv ==
  ASSUME QueueInv, ForeachStep \/ ForeachRemove
  PROVE  QueueInv'
  <1> USE QueueConstants DEF QueueInv
  <1>1. CASE ForeachStart \/ ForeachSetEnd \/ ForeachNextNone
    <2> USE <1>1 DEF ForeachStart, ForeachSetEnd, ForeachNextNone, SetEnd, listVars
    <2>1. ListTypes' /\ EachTypes' /\ FlowInv'
      BY DEF ListTypes, EachTypes, FlowInv, InClient, Running
    <2>2. FlagType'
      BY DEF FlagType
    <2>3. QED BY <2>1, <2>2
  <1>2. ASSUME NEW s \in Sources, NEW skipped \in SUBSET Sources, ForeachNextOne(s, skipped)
        PROVE  QueueInv'
    <2> USE <1>2 DEF ForeachNextOne, listVars
    <2>1. ListTypes' /\ EachTypes' /\ FlowInv'
      BY DEF ListTypes, EachTypes, FlowInv, InClient, Running, Eligible
    <2>2. FlagType'
      BY DEF FlagType
    <2>3. QED BY <2>1, <2>2
  <1>3. ASSUME NEW ret, EachReturn(ret) PROVE QueueInv'
    <2> USE <1>3 DEF EachReturn, SetEnd, listVars
    <2>1. ListTypes' /\ EachTypes' /\ FlowInv'
      BY DEF ListTypes, EachTypes, FlowInv, InClient, Running
    <2>2. FlagType'
      BY DEF FlagType
    <2>3. QED BY <2>1, <2>2
  <1>4. CASE ForeachRemove
    <2> USE <1>4 DEF ForeachRemove, EachRemove, DetachFromQueue
    <2>1. ListTypes' /\ EachTypes' /\ FlowInv'
      BY DEF ListTypes, EachTypes, FlowInv, InClient, Running
    <2>2. FlagType'
      BY DEF FlagType
    <2>3. QED BY <2>1, <2>2
  <1>5. QED BY <1>1, <1>2, <1>3, <1>4 DEF ForeachStep, ForeachNext

\* So does the handling of a batch.
LEMMA HandlingQueueInv ==
  ASSUME QueueInv, HandlingStep \/ \E s \in Sources : Fetch(s)
  PROVE  QueueInv'
  <1> USE QueueConstants
      DEF QueueInv, HandlingStep, Run, WaitFails, Returns, BatchDone, RemoveReturn,
          RoundDone, CallHandler, TimerReadFails, CbContinue, CbBreak, CbRemove,
          HandleBreak, HandleContinue, HandleRemove, DetachFromQueue, RunningToPending,
          Goto, Fetch, FetchEvent, eachVars, listVars
  <1>1. FlagType'
    BY DEF FlagType
  <1>2. ListTypes' /\ EachTypes' /\ FlowInv'
    <2> USE DEF FlowInv, InClient, Running, ListTypes, EachTypes
    <2>1. CASE Run \/ WaitFails \/ Returns \/ CbContinue
      BY <2>1
    <2>2. CASE \E flag \in {"IN", "HUP", "OUT"} : CallHandler(flag)
      BY <2>2
    <2>3. CASE TimerReadFails \/ CbBreak
      BY <2>3
    <2>4. CASE CbRemove
      BY <2>4
    <2>5. CASE /\ pc = "dispatch" /\ HandleContinue
               /\ RunningToPending(cur) \/ UNCHANGED <<listVars, ahead>>
      BY <2>5
    <2>6. CASE \E s \in Sources : Fetch(s)
      BY <2>6
    <2>7. QED BY <2>1, <2>2, <2>3, <2>4, <2>5, <2>6
  <1>3. QED BY <1>1, <1>2

\* So does neb_evdp_queue_destroy.
LEMMA DestroyQueueInv ==
  ASSUME QueueInv, DestroyStep \/ \E s \in Sources : DestroyRemove(s)
  PROVE  QueueInv'
  <1> USE QueueConstants
      DEF QueueInv, DestroyStep, DestroyStart, DestroyCursor, DestroyNext,
          DestroyRemove, DestroyDetach, RunningHalf, DetachFromQueue, Goto, eachVars,
          listVars
  <1>1. ListTypes' /\ EachTypes' /\ FlowInv'
    BY DEF ListTypes, EachTypes, FlowInv, InClient, Running
  <1>2. FlagType'
    BY DEF FlagType
  <1>3. QED BY <1>1, <1>2

\* Every common step keeps QueueInv.
LEMMA StepQueueInv == QueueInv /\ QueueStep => QueueInv'
  <1>1. QueueInv /\ UNCHANGED queueVars => QueueInv'
    BY DEF QueueInv, queueVars, eachVars, listVars, ListTypes, EachTypes, FlagType,
        FlowInv, Running, InClient
  <1>2. QED BY <1>1, ClientQueueInv, ForeachQueueInv, HandlingQueueInv, DestroyQueueInv
            DEF QueueStep

\* evdp_queue_flush_pending_sources of any driver keeps QueueInv when it moves only
\* sources that were pending.
LEMMA FlushQueueInv ==
  ASSUME QueueInv, NEW S \in SUBSET Pending, FlushMoves(S) \/ FlushAborts(S), pc = "flush",
         pc' \in {"wait", "stopped"}, UNCHANGED <<noDetach, ev, cur, eachVars>>
  PROVE  QueueInv'
  <1> USE QueueConstants DEF QueueInv, eachVars
  <1>1. IsFiniteSet(Pending)
    BY FS_Subset DEF Pending
  <1>2. Cardinality(S) \in Nat
    BY <1>1, FS_Subset, FS_CardinalityType
  <1>3. ListTypes'
    BY <1>2 DEF ListTypes, FlushMoves, FlushAborts
  <1>4. EachTypes' /\ FlowInv'
    BY DEF ListTypes, EachTypes, FlowInv, InClient, Running, FlushMoves, FlushAborts
  <1>5. FlagType'
    BY DEF FlagType
  <1>6. QED BY <1>3, <1>4, <1>5

\* So does evdp_queue_wait_events.
LEMMA WaitQueueInv ==
  ASSUME QueueInv, Goto("wait", "batch"),
         ev' \in [Sources -> SUBSET {"IN", "OUT", "HUP", "ERR"}],
         UNCHANGED <<listVars, noDetach, cur, eachVars, ahead>>
  PROVE  QueueInv'
  <1> USE QueueConstants DEF QueueInv, Goto, listVars, eachVars
  <1>1. ListTypes' /\ EachTypes' /\ FlowInv'
    BY DEF ListTypes, EachTypes, FlowInv, InClient, Running
  <1>2. FlagType'
    BY DEF FlagType
  <1>3. QED BY <1>1, <1>2

-----------------------------------------------------------------------------
\* foreach is used as it is meant to be: foreach_next is not called in the event
\* callback of a source it reaches, all sources have a utype or none has, and
\* foreach_id does not come round again.
OrderlyForeach ==
  ~May("foreachInCb") /\ Typed \in {{}, Sources} /\ MaxForeach < IdMod

\* The source of a running callback is protected; the one a foreach callback asks to
\* remove is the one it was called for, as foreach has skipped none.
EachInv ==
  /\ \A s \in Sources : fid[s] <= foreachId
  /\ \A s \in ahead : fid[s] < foreachId
  /\ each # NoSource => /\ captured = each /\ each # cur
                        /\ noDetach[each] /\ each \in Attached
  /\ cur # NoSource => noDetach[cur] /\ cur \in Attached

\* EachInv holds at the start.
LEMMA QueueInitEach == QueueInit => EachInv
  BY QueueConstants DEF QueueInit, EachInv

\* The calls of the client keep EachInv: detach refuses a source that is in a callback.
LEMMA ClientEachInv ==
  ASSUME QueueInv, EachInv, NEW s \in Sources, ClientStep(s)
  PROVE  EachInv'
  <1> USE QueueConstants
      DEF QueueInv, EachInv, ListTypes, EachTypes, FlowInv, Attached, Running
  <1>1. CASE NewEmpty(s)
    BY <1>1 DEF NewEmpty
  <1>2. CASE SourceDel(s)
    BY <1>2 DEF SourceDel, eachVars
  <1>3. CASE SourceDetach(s)
    BY <1>3 DEF SourceDetach, DetachAllowed, DetachFromQueue, eachVars
  <1>4. CASE SourceAttach(s) /\ (InsertPending(s) \/ InsertRunning(s))
    BY <1>4 DEF SourceAttach, AttachAllowed, InsertPending, InsertRunning
  <1>5. CASE /\ \/ loc[s] = "run" /\ RunningToPending(s)
                \/ loc[s] = "pend" /\ PendingToRunning(s)
             /\ UNCHANGED <<noDetach, ev, pc, cur, eachVars>>
    BY <1>5 DEF RunningToPending, PendingToRunning, eachVars
  <1>6. QED BY <1>1, <1>2, <1>3, <1>4, <1>5 DEF ClientStep

\* So does foreach, as no source is skipped and foreach_id only grows.
LEMMA ForeachEachInv ==
  ASSUME OrderlyForeach, QueueInv, EachInv, ForeachStep \/ ForeachRemove
  PROVE  EachInv'
  <1> USE QueueConstants
      DEF QueueInv, EachInv, ListTypes, EachTypes, FlowInv, Attached, Running,
          OrderlyForeach
  <1>1. CASE ForeachStart
    <2>1. foreachId' = foreachId + 1
      BY <1>1 DEF ForeachStart
    <2>2. QED BY <1>1, <2>1 DEF ForeachStart, listVars
  <1>2. CASE ForeachSetEnd \/ ForeachNextNone
    BY <1>2 DEF ForeachSetEnd, ForeachNextNone, SetEnd, listVars
  <1>3. ASSUME NEW s \in Sources, NEW skipped \in SUBSET Sources, ForeachNext(s, skipped)
        PROVE  EachInv'
    <2>1. skipped = {} /\ s # cur
      BY <1>3 DEF ForeachNext, ForeachNextOne, Eligible
    <2>2. QED BY <1>3, <2>1 DEF ForeachNext, ForeachNextOne, Eligible, listVars
  <1>4. ASSUME NEW ret, EachReturn(ret) PROVE EachInv'
    BY <1>4 DEF EachReturn, SetEnd, listVars
  <1>5. CASE ForeachRemove
    BY <1>5 DEF ForeachRemove, EachRemove, DetachFromQueue
  <1>6. QED BY <1>1, <1>2, <1>3, <1>4, <1>5 DEF ForeachStep

\* So does the handling of a batch, of attached sources only.
LEMMA HandlingEachInv ==
  ASSUME QueueInv, EachInv, NoEventForDetached, HandlingStep \/ \E s \in Sources : Fetch(s)
  PROVE  EachInv'
  <1> USE QueueConstants
      DEF QueueInv, EachInv, ListTypes, EachTypes, FlowInv, Attached, Running, InClient,
          Goto, eachVars, listVars
  <1>1. CASE Run \/ WaitFails \/ Returns \/ CbContinue
    BY <1>1 DEF Run, WaitFails, Returns, BatchDone, RemoveReturn, RoundDone, CbContinue
  <1>2. CASE \E flag \in {"IN", "HUP", "OUT"} : CallHandler(flag)
    BY <1>2 DEF CallHandler
  <1>3. CASE TimerReadFails \/ CbBreak
    BY <1>3 DEF TimerReadFails, CbBreak, HandleBreak
  <1>4. CASE CbRemove
    BY <1>4 DEF CbRemove, HandleRemove, DetachFromQueue
  <1>5. CASE /\ pc = "dispatch" /\ HandleContinue
             /\ RunningToPending(cur) \/ UNCHANGED <<listVars, ahead>>
    BY <1>5 DEF HandleContinue, RunningToPending
  <1>6. CASE \E s \in Sources : Fetch(s)
    BY <1>6 DEF Fetch, FetchEvent, NoEventForDetached
  <1>7. QED BY <1>1, <1>2, <1>3, <1>4, <1>5, <1>6 DEF HandlingStep

\* So does neb_evdp_queue_destroy.
LEMMA DestroyEachInv ==
  ASSUME QueueInv, EachInv, DestroyStep \/ \E s \in Sources : DestroyRemove(s)
  PROVE  EachInv'
  BY QueueConstants
  DEF QueueInv, EachInv, ListTypes, EachTypes, FlowInv, Attached, Running, InClient,
      DestroyStep, DestroyStart, DestroyCursor, DestroyNext, DestroyRemove,
      DestroyDetach, RunningHalf, DetachFromQueue, Goto, eachVars, listVars

\* Every common step keeps EachInv.
LEMMA StepEachInv ==
  ASSUME OrderlyForeach, QueueInv, EachInv, NoEventForDetached, QueueStep
  PROVE  EachInv'
  <1>1. CASE UNCHANGED queueVars
    BY <1>1 DEF EachInv, queueVars, eachVars, listVars, Attached
  <1>2. QED BY <1>1, ClientEachInv, ForeachEachInv, HandlingEachInv, DestroyEachInv
            DEF QueueStep

-----------------------------------------------------------------------------
(***************************************************************************)
(* The counters.                                                           *)
(***************************************************************************)
\* A step counts what it moves: each counter stays as far from the size of its list.
Balanced ==
  /\ nPend' - Cardinality(Pending') = nPend - Cardinality(Pending)
  /\ nRun' - Cardinality(Running') = nRun - Cardinality(Running)

\* The lists are finite.
LEMMA ListsFinite ==
  /\ IsFiniteSet(Pending) /\ Cardinality(Pending) \in Nat
  /\ IsFiniteSet(Running) /\ Cardinality(Running) \in Nat
  BY QueueConstants, FS_Subset, FS_CardinalityType DEF Pending, Running

\* The sizes of the lists when source s goes from one place to another.
LEMMA MoveCounts ==
  ASSUME ListTypes, NEW s \in Sources, NEW to \in {"free", "idle", "pend", "run"},
         loc' = [loc EXCEPT ![s] = to]
  PROVE  /\ Cardinality(Pending') = (Cardinality(Pending) - (IF loc[s] = "pend" THEN 1 ELSE 0))
                                    + (IF to = "pend" THEN 1 ELSE 0)
         /\ Cardinality(Running') = (Cardinality(Running) - (IF loc[s] = "run" THEN 1 ELSE 0))
                                    + (IF to = "run" THEN 1 ELSE 0)
  <1>1. /\ Pending' = IF to = "pend" THEN Pending \cup {s} ELSE Pending \ {s}
        /\ Running' = IF to = "run" THEN Running \cup {s} ELSE Running \ {s}
        /\ s \in Pending <=> loc[s] = "pend"
        /\ s \in Running <=> loc[s] = "run"
    BY DEF ListTypes, Pending, Running
  <1>2. ASSUME NEW S, IsFiniteSet(S)
        PROVE  /\ Cardinality(S) \in Nat
               /\ Cardinality(S \cup {s}) = IF s \in S THEN Cardinality(S) ELSE Cardinality(S) + 1
               /\ Cardinality(S \ {s}) = IF s \in S THEN Cardinality(S) - 1 ELSE Cardinality(S)
    BY <1>2, FS_AddElement, FS_RemoveElement, FS_CardinalityType
  <1>3. /\ Cardinality(Pending \cup {s}) = Cardinality(Pending) + (IF loc[s] = "pend" THEN 0 ELSE 1)
        /\ Cardinality(Pending \ {s}) = Cardinality(Pending) - (IF loc[s] = "pend" THEN 1 ELSE 0)
        /\ Cardinality(Running \cup {s}) = Cardinality(Running) + (IF loc[s] = "run" THEN 0 ELSE 1)
        /\ Cardinality(Running \ {s}) = Cardinality(Running) - (IF loc[s] = "run" THEN 1 ELSE 0)
    <2>1. /\ Cardinality(Pending) \in Nat
          /\ Cardinality(Pending \cup {s}) = IF s \in Pending THEN Cardinality(Pending) ELSE Cardinality(Pending) + 1
          /\ Cardinality(Pending \ {s}) = IF s \in Pending THEN Cardinality(Pending) - 1 ELSE Cardinality(Pending)
      BY <1>2, ListsFinite
    <2>2. /\ Cardinality(Running) \in Nat
          /\ Cardinality(Running \cup {s}) = IF s \in Running THEN Cardinality(Running) ELSE Cardinality(Running) + 1
          /\ Cardinality(Running \ {s}) = IF s \in Running THEN Cardinality(Running) - 1 ELSE Cardinality(Running)
      BY <1>2, ListsFinite
    <2>3. QED BY <1>1, <2>1, <2>2
  <1>4. CASE to = "pend"
    BY <1>1, <1>3, <1>4, ListsFinite
  <1>5. CASE to = "run"
    BY <1>1, <1>3, <1>5, ListsFinite
  <1>6. CASE to \notin {"pend", "run"}
    BY <1>1, <1>3, <1>6, ListsFinite
  <1>7. QED BY <1>4, <1>5, <1>6

\* Every list macro, and the detach of an attached source, counts what it moves.
LEMMA MoveBalanced ==
  ASSUME ListTypes, NEW s \in Sources,
         \/ loc[s] \in {"free", "idle"} /\ (InsertPending(s) \/ InsertRunning(s))
         \/ loc[s] = "run" /\ RunningToPending(s)
         \/ loc[s] = "pend" /\ PendingToRunning(s)
         \/ s \in Attached /\ DetachFromQueue(s)
         \/ loc[s] \in {"free", "idle"} /\ UNCHANGED <<nPend, nRun>>
            /\ \E to \in {"free", "idle"} : loc' = [loc EXCEPT ![s] = to]
  PROVE  Balanced
  <1> DEFINE p == Cardinality(Pending)
             r == Cardinality(Running)
             isPend(x) == IF x = "pend" THEN 1 ELSE 0
             isRun(x) == IF x = "run" THEN 1 ELSE 0
  <1>1. ASSUME NEW to \in {"free", "idle", "pend", "run"}, loc' = [loc EXCEPT ![s] = to],
               nPend' = (nPend - isPend(loc[s])) + isPend(to),
               nRun' = (nRun - isRun(loc[s])) + isRun(to)
        PROVE  Balanced
    <2>1. p' = (p - isPend(loc[s])) + isPend(to) /\ r' = (r - isRun(loc[s])) + isRun(to)
      BY <1>1, MoveCounts
    <2>2. p \in Nat /\ r \in Nat /\ nPend \in Int /\ nRun \in Int
      BY ListsFinite DEF ListTypes
    <2>3. nPend' - p' = nPend - p /\ nRun' - r' = nRun - r
      <3> HIDE DEF p, r
      <3>1. QED BY <1>1, <2>1, <2>2
    <2>4. QED BY <2>3 DEF Balanced
  <1> USE DEF ListTypes
  <1>2. CASE loc[s] \in {"free", "idle"} /\ (InsertPending(s) \/ InsertRunning(s))
    BY <1>2, <1>1 DEF InsertPending, InsertRunning
  <1>3. CASE loc[s] = "run" /\ RunningToPending(s)
    BY <1>3, <1>1 DEF RunningToPending
  <1>4. CASE loc[s] = "pend" /\ PendingToRunning(s)
    BY <1>4, <1>1 DEF PendingToRunning
  <1>5. CASE s \in Attached /\ DetachFromQueue(s)
    <2>1. CASE loc[s] = "pend"
      BY <1>5, <1>1, <2>1 DEF DetachFromQueue
    <2>2. CASE loc[s] = "run"
      BY <1>5, <1>1, <2>2 DEF DetachFromQueue
    <2>3. QED BY <1>5, <2>1, <2>2 DEF Attached
  <1>6. CASE /\ loc[s] \in {"free", "idle"} /\ UNCHANGED <<nPend, nRun>>
             /\ \E to \in {"free", "idle"} : loc' = [loc EXCEPT ![s] = to]
    <2>1. PICK to \in {"free", "idle"} : loc' = [loc EXCEPT ![s] = to]
      BY <1>6
    <2>2. nPend' = (nPend - isPend(loc[s])) + isPend(to) /\ nRun' = (nRun - isRun(loc[s])) + isRun(to)
      BY <1>6
    <2>3. QED BY <1>1, <2>1, <2>2
  <1>7. QED BY <1>2, <1>3, <1>4, <1>5, <1>6

\* Where no list changes.
LEMMA StillBalanced == UNCHANGED listVars => Balanced
  BY DEF Balanced, Pending, Running, listVars

\* The sizes of the lists when flush moves S, or moved S before it gave up.
LEMMA FlushCounts ==
  ASSUME ListTypes, NEW S \in SUBSET Pending,
         loc' = [s \in Sources |-> IF s \in S THEN "run" ELSE loc[s]]
  PROVE  /\ Cardinality(S) \in Nat
         /\ Cardinality(Pending') = Cardinality(Pending) - Cardinality(S)
         /\ Cardinality(Running') = Cardinality(Running) + Cardinality(S)
  <1>1. Pending' = Pending \ S /\ Running' = Running \cup S /\ Running \cap S = {} /\ Pending \cap S = S
    BY DEF ListTypes, Pending, Running
  <1>2. IsFiniteSet(S)
    BY ListsFinite, FS_Subset
  <1>3. Cardinality(Pending \ S) = Cardinality(Pending) - Cardinality(S)
    BY <1>1, <1>2, ListsFinite, FS_Difference
  <1>4. Cardinality(Running \cup S) = Cardinality(Running) + Cardinality(S)
    <2>1. Cardinality(Running \cap S) = 0
      BY <1>1, FS_EmptySet
    <2>2. Cardinality(Running \cup S) = Cardinality(Running) + Cardinality(S) - Cardinality(Running \cap S)
      BY <1>2, ListsFinite, FS_Union
    <2>3. Cardinality(Running) \in Nat /\ Cardinality(S) \in Nat
      BY <1>2, ListsFinite, FS_CardinalityType
    <2>4. QED BY <2>1, <2>2, <2>3
  <1>5. Cardinality(S) \in Nat
    BY <1>2, FS_CardinalityType
  <1>6. QED BY <1>1, <1>3, <1>4, <1>5

\* evdp_queue_flush_pending_sources counts what it moves.
LEMMA FlushBalanced ==
  ASSUME ListTypes, NEW S \in SUBSET Pending, FlushMoves(S)
  PROVE  Balanced
  <1>1. /\ Cardinality(S) \in Nat
        /\ Cardinality(Pending') = Cardinality(Pending) - Cardinality(S)
        /\ Cardinality(Running') = Cardinality(Running) + Cardinality(S)
    BY FlushCounts DEF FlushMoves
  <1>2. /\ nPend \in Int /\ nRun \in Int
        /\ nPend' = nPend - Cardinality(S) /\ nRun' = nRun + Cardinality(S)
    BY DEF FlushMoves, ListTypes
  <1>3. Cardinality(Pending) \in Nat /\ Cardinality(Running) \in Nat
    BY ListsFinite
  <1>4. QED BY <1>1, <1>2, <1>3 DEF Balanced

\* Every step of the queue counts what it moves, except that destroy detaches the
\* foreach cursor from a list that never counted it.
LEMMA StepBalanced ==
  ASSUME QueueInv, QueueStep, ~DestroyCursor,
         cur # NoSource => cur \in Attached, each # NoSource => captured \in Attached,
         pc = "dispatch" /\ nPend' # nPend => loc[cur] = "run"
  PROVE  Balanced
  <1> USE QueueConstants DEF QueueInv
  <1>1. CASE UNCHANGED queueVars
    BY <1>1, StillBalanced DEF queueVars
  <1>2. ASSUME NEW s \in Sources, ClientStep(s) PROVE Balanced
    <2>1. CASE NewEmpty(s) \/ SourceDel(s)
      BY <2>1, MoveBalanced DEF NewEmpty, SourceDel
    <2>2. CASE SourceDetach(s)
      BY <2>2, MoveBalanced DEF SourceDetach, DetachAllowed
    <2>3. CASE SourceAttach(s) /\ (InsertPending(s) \/ InsertRunning(s))
      BY <2>3, MoveBalanced DEF SourceAttach, AttachAllowed
    <2>4. QED BY <1>2, <2>1, <2>2, <2>3, MoveBalanced DEF ClientStep
  <1>3. ASSUME NEW s \in Sources, Fetch(s) \/ DestroyRemove(s) PROVE Balanced
    BY <1>3, MoveBalanced, StillBalanced
    DEF Fetch, DestroyRemove, DestroyDetach, Attached
  <1>4. CASE ForeachStep
    BY <1>4, StillBalanced
    DEF ForeachStep, ForeachStart, ForeachSetEnd, ForeachNextNone, ForeachNext,
        ForeachNextOne, EachReturn
  <1>5. CASE ForeachRemove
    BY <1>5, MoveBalanced DEF ForeachRemove, EachRemove, EachTypes, Attached
  <1>6. CASE DestroyStep
    BY <1>6, StillBalanced DEF DestroyStep, DestroyStart, DestroyNext
  <1>7. CASE HandlingStep
    <2>1. CASE CbRemove
      BY <2>1, MoveBalanced DEF CbRemove, HandleRemove, FlowInv, ListTypes, Attached
    <2>2. CASE /\ pc = "dispatch" /\ HandleContinue
               /\ RunningToPending(cur) \/ UNCHANGED <<listVars, ahead>>
      <3>1. cur \in Sources
        BY <2>2 DEF FlowInv, ListTypes
      <3>2. RunningToPending(cur) => nPend' # nPend
        BY DEF RunningToPending, ListTypes
      <3>3. QED BY <3>1, <3>2, <2>2, MoveBalanced, StillBalanced
    <2>3. QED
      BY <1>7, <2>1, <2>2, StillBalanced
      DEF HandlingStep, Run, WaitFails, Returns, BatchDone, RemoveReturn, RoundDone,
          CallHandler, TimerReadFails, CbContinue, CbBreak, HandleBreak
  <1>8. QED BY <1>1, <1>2, <1>3, <1>4, <1>5, <1>6, <1>7 DEF QueueStep

\* The counters start right.
LEMMA InitCounts == QueueInit => nPend = 1 + Cardinality(Pending) /\ nRun = 1 + Cardinality(Running)
  <1>1. QueueInit => Pending = {} /\ Running = {} /\ nPend = 1 /\ nRun = 1
    BY DEF QueueInit, Pending, Running
  <1>2. QED BY <1>1, FS_EmptySet

\* Unless the client runs it again, a loop that has ended does not come back.
LEMMA LiveBefore ==
  ASSUME ~May("rerun"), QueueStep, Live'
  PROVE  Live
  <1> USE DEF Live
  <1>1. CASE UNCHANGED pc
    BY <1>1
  <1>2. CASE \E s \in Sources : Fetch(s) \/ DestroyRemove(s)
    BY <1>2 DEF Fetch, FetchEvent, DestroyRemove, DestroyDetach, Goto
  <1>3. CASE DestroyStep
    BY <1>3 DEF DestroyStep, DestroyStart, DestroyCursor, DestroyNext, RunningHalf, Goto
  <1>4. CASE HandlingStep
    BY <1>4
    DEF HandlingStep, Run, WaitFails, Returns, BatchDone, RemoveReturn, RoundDone,
        CallHandler, TimerReadFails, CbContinue, CbBreak, CbRemove, HandleBreak,
        HandleContinue, HandleRemove, Goto
  <1>5. QED
    BY <1>1, <1>2, <1>3, <1>4
    DEF QueueStep, queueVars, ClientStep, NewEmpty, SourceDel, SourceDetach,
        SourceAttach, ForeachStep, ForeachStart, ForeachSetEnd, ForeachNextNone,
        ForeachNext, ForeachNextOne, EachReturn, ForeachRemove, EachRemove

\* Exact counters stay exact in a step that counts what it moves.
LEMMA BalancedExact ==
  ASSUME ListTypes, ListTypes', Balanced
  PROVE  /\ nPend = 1 + Cardinality(Pending) => nPend' = 1 + Cardinality(Pending')
         /\ nRun = 1 + Cardinality(Running) => nRun' = 1 + Cardinality(Running')
         /\ nRun >= Cardinality(Running) => nRun' >= Cardinality(Running')
  <1>1. Cardinality(Pending) \in Nat /\ Cardinality(Running) \in Nat
    BY ListsFinite
  <1>2. (Cardinality(Pending) \in Nat /\ Cardinality(Running) \in Nat)'
    BY ListsFinite, PTL
  <1>3. QED BY <1>1, <1>2 DEF ListTypes, Balanced

\* ... for the counters that foreach_start returns and destroy tests.
LEMMA StatsStep ==
  ASSUME ListTypes, ListTypes', StatsExact, Live' => Live /\ Balanced
  PROVE  StatsExact'
  BY BalancedExact DEF StatsExact

-----------------------------------------------------------------------------
(***************************************************************************)
(* neb_evdp_queue_destroy.                                                 *)
(***************************************************************************)
Ending == pc \in {"destroyRun", "rmRun", "dead"}

\* The counters are exact, but for the foreach cursor that destroy takes off the running
\* list; the lists are empty when their half of destroy is over.
BooksInv ==
  /\ nPend = 1 + Cardinality(Pending) /\ nRun >= Cardinality(Running)
  /\ inForeach \/ ~Ending => nRun = 1 + Cardinality(Running)
  /\ Ending => Pending = {}
  /\ pc = "dead" => Running = {} /\ ~inForeach

\* The second half of destroy only ever detaches.
LEMMA EndingStep ==
  ASSUME ~May("removeIO"), QueueInv, QueueStep, Ending
  PROVE  /\ Ending' /\ Pending' \subseteq Pending /\ Running' \subseteq Running
         /\ inForeach' => inForeach
         /\ pc = "dead" => pc' = "dead"
  <1> USE DEF Ending, Pending, Running, QueueInv, ListTypes
  <1>1. CASE UNCHANGED queueVars
    BY <1>1 DEF queueVars, listVars, eachVars
  <1>2. ASSUME NEW s \in Sources, ClientStep(s)
        PROVE  UNCHANGED <<pc, inForeach>> /\ loc' \in {[loc EXCEPT ![s] = "idle"], [loc EXCEPT ![s] = "free"]}
    BY <1>2
    DEF ClientStep, NewEmpty, SourceDel, SourceDetach, DetachAllowed, DetachFromQueue,
        SourceAttach, AttachAllowed, InClient, eachVars
  <1>3. ASSUME NEW s \in Sources, Fetch(s) \/ DestroyRemove(s)
        PROVE  pc # "dead" /\ pc' = "rmRun" /\ UNCHANGED inForeach /\ loc' = [loc EXCEPT ![s] = "idle"]
    BY <1>3
    DEF Fetch, FetchEvent, DestroyRemove, DestroyDetach, DetachFromQueue, Goto, eachVars
  <1>4. CASE DestroyStep
    BY <1>4
    DEF DestroyStep, DestroyStart, DestroyCursor, DestroyNext, Goto, listVars, eachVars
  <1>5. CASE HandlingStep
    BY <1>5
    DEF HandlingStep, Run, WaitFails, Returns, BatchDone, RemoveReturn, RoundDone,
        CallHandler, TimerReadFails, CbContinue, CbBreak, CbRemove, Goto, listVars,
        eachVars
  <1>6. ~ForeachStep /\ ~ForeachRemove
    BY DEF ForeachStep, ForeachStart, ForeachSetEnd, ForeachNextNone, ForeachNext,
        ForeachNextOne, EachReturn, ForeachRemove, EachRemove, InClient
  <1>7. QED BY <1>1, <1>2, <1>3, <1>4, <1>5, <1>6 DEF QueueStep

\* It begins when nothing is pending, provided that stats.pending was not zero.
LEMMA EndingBegins ==
  ASSUME QueueInv, nPend # 0, QueueStep, ~Ending, Ending'
  PROVE  Pending' = {} /\ (nRun # 0 => pc' # "dead")
  <1>1. DestroyStep
    BY DEF Ending, QueueStep, queueVars, ClientStep, NewEmpty, SourceDel, SourceDetach,
        SourceAttach, Fetch, FetchEvent, DestroyRemove, DestroyDetach, ForeachStep,
        ForeachStart, ForeachSetEnd, ForeachNextNone, ForeachNext, ForeachNextOne,
        EachReturn, ForeachRemove, EachRemove, HandlingStep, Run, WaitFails, Returns,
        BatchDone, RemoveReturn, RoundDone, CallHandler, TimerReadFails, CbContinue,
        CbBreak, CbRemove, HandleBreak, HandleContinue, HandleRemove, Goto
  <1>2. QED
    BY <1>1
    DEF DestroyStep, DestroyStart, DestroyCursor, DestroyNext, RunningHalf, Ending,
        Goto, Pending, listVars

\* Every common step that counts what it moves keeps BooksInv, and so does destroy when
\* it meets the foreach cursor.
LEMMA StepBooksInv ==
  ASSUME ~May("removeIO"), QueueInv, QueueInv', BooksInv, QueueStep,
         DestroyCursor \/ Balanced
  PROVE  BooksInv'
  <1>1. CASE DestroyCursor
    <2>1. Ending /\ Ending' /\ pc' # "dead" /\ ~inForeach' /\ inForeach /\ Pending' = Pending /\ Running' = Running
      BY <1>1 DEF DestroyCursor, Ending, Pending, Running
    <2>2. nPend' = nPend /\ nRun' = nRun - 1
      BY <1>1 DEF DestroyCursor
    <2>3. nRun = 1 + Cardinality(Running)
      BY <2>1 DEF BooksInv
    <2>4. nRun - 1 >= Cardinality(Running)
      BY <2>3, ListsFinite
    <2>5. QED BY <2>1, <2>2, <2>4 DEF BooksInv
  <1>2. CASE Balanced
    <2>1. /\ nPend' = 1 + Cardinality(Pending') /\ nRun' >= Cardinality(Running')
          /\ nRun = 1 + Cardinality(Running) => nRun' = 1 + Cardinality(Running')
      BY <1>2, BalancedExact DEF BooksInv, QueueInv
    <2>2. inForeach' => inForeach \/ ~Ending
      BY EndingStep
    <2>3. ~Ending' => ~Ending
      BY EndingStep
    <2>4. inForeach' \/ ~Ending' => nRun' = 1 + Cardinality(Running')
      BY <2>1, <2>2, <2>3 DEF BooksInv
    <2>5. nPend # 0 /\ (~Ending => nRun # 0)
      BY ListsFinite DEF BooksInv
    <2>6. Ending' => Pending' = {}
      BY <2>5, EndingStep, EndingBegins DEF BooksInv
    <2>7. ASSUME pc' = "dead" PROVE Running' = {} /\ ~inForeach'
      <3>1. Ending
        BY <2>5, <2>7, EndingBegins DEF Ending
      <3>2. CASE pc = "dead"
        BY <3>1, <3>2, EndingStep DEF BooksInv
      <3>3. CASE pc # "dead"
        <4>1. DestroyStep
          BY <3>1, <3>3, <2>7
          DEF Ending, QueueStep, queueVars, ClientStep, NewEmpty, SourceDel,
              SourceDetach, SourceAttach, Fetch, FetchEvent, DestroyRemove,
              DestroyDetach, ForeachStep, ForeachStart, ForeachSetEnd, ForeachNextNone,
              ForeachNext, ForeachNextOne, EachReturn, ForeachRemove, EachRemove,
              HandlingStep, Run, WaitFails, Returns, BatchDone, RemoveReturn, RoundDone,
              CallHandler, TimerReadFails, CbContinue, CbBreak, CbRemove, HandleBreak,
              HandleContinue, HandleRemove, Goto
        <4>2. QED
          BY <3>1, <3>3, <4>1, <2>7
          DEF DestroyStep, DestroyStart, DestroyCursor, DestroyNext, RunningHalf,
              Ending, Goto, Running, listVars, eachVars
      <3>4. QED BY <3>2, <3>3
    <2>8. QED BY <2>1, <2>4, <2>6, <2>7 DEF BooksInv
  <1>3. QED BY <1>1, <1>2
=============================================================================
