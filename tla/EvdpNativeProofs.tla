-------------------------- MODULE EvdpNativeProofs --------------------------
(***************************************************************************)
(* Proofs about the kevent and event_port drivers, for any number of       *)
(* sources, any kinds of them and any batch size.  The liberties that the  *)
(* theorems exclude are listed in Orderly: changing one's mind about an    *)
(* event that is already in the batch.  Requests may fail, the client may  *)
(* ask an armed source for more, and may use it in on_remove.              *)
(*                                                                         *)
(* The two drivers share the queue: NativeStep says what a step of either  *)
(* does to it, and QueueKept follows whatever the driver notes.  Then each *)
(* driver has an invariant of its own, KSource and PSource, for a single   *)
(* source.                                                                 *)
(***************************************************************************)
EXTENDS EvdpNative, EvdpHandleProofs

\* What the client does not do here.
Orderly == ~May("cross") /\ ~May("regulate")

\* The history variables are changed, and left alone, together.
USE DEF histVars

\* The types of the drivers' state.
KeventTypes ==
  /\ kAdded \in [Sources -> SUBSET IO] /\ knote \in [Sources -> SUBSET IO]
  /\ eof \in [Sources -> SUBSET IO] /\ asked \in [Sources -> SUBSET IO]
MaskTypes == pmask \in [Sources -> SUBSET IO]
NoteTypes == timerOn \in [Sources -> BOOLEAN] /\ assoc \in [Sources -> BOOLEAN]
CountTypes == counted \in [Sources -> BOOLEAN] /\ refused \subseteq Sources

Types ==
  /\ QueueInv /\ HandTypes /\ TimerTypes /\ FixedTypes
  /\ KeventTypes /\ MaskTypes /\ NoteTypes /\ CountTypes

\* No foreach runs here; the source of a callback is protected, and the batch holds
\* events of attached sources only.
QueueKept == EachInv /\ NoEventForDetached /\ each = NoSource /\ ~inForeach

\* Both counters are right.
Exact == nPend = 1 + Cardinality(Pending) /\ nRun = 1 + Cardinality(Running)

(***************************************************************************)
(* kevent, while the loop goes on.  A filter of a oneshot fd is added as   *)
(* long as it is in the kqueue or in the batch.  What is still to be added *)
(* is not added yet, and both were asked for and have a handler.  What was *)
(* asked for is to be added, is in the kqueue or in the batch, or is about *)
(* to be handled: then it is neither added nor to be added.                *)
(***************************************************************************)
KFilter(s, d) ==
  /\ d \in kAdded[s] <=> d \in knote[s] \/ d \in ev[s]
  /\ ~(d \in knote[s] /\ d \in ev[s])
  /\ d \in kAdded[s] => s \in Attached /\ d \notin want[s]
  /\ d \in kAdded[s] \/ d \in want[s] => d \in hand[s] /\ d \in asked[s]
  /\ d \in asked[s] => d \in want[s] \/ d \in kAdded[s] \/ (s = cur /\ d \in todo)
  /\ s = cur /\ pc = "dispatch" /\ d \in todo =>
       d \in hand[s] /\ d \in asked[s] /\ d \notin kAdded[s] /\ d \notin want[s]

\* A oneshot fd that is attached is pending if and only if a filter is to be added; a
\* batch entry is for one filter; what hup leaves undone, the removal settles.
KOneshot(s) ==
  /\ \A d \in IO : KFilter(s, d)
  /\ loc[s] \in {"free", "run"} => want[s] = {}
  /\ loc[s] = "pend" => want[s] # {}
  /\ s = cur /\ pc = "dispatch" => ~("IN" \in todo /\ "OUT" \in todo)
  /\ s = cur /\ pc = "cb" /\ calling # "HUP" => "IN" \notin todo /\ "OUT" \notin todo

\* A source of another kind has one filter, and only while it is running.
KPlain(s) ==
  /\ asked[s] = {} /\ kAdded[s] = {}
  /\ knote[s] \subseteq {"IN"} /\ (knote[s] # {} => loc[s] = "run")

\* A timer that is pending or in the kqueue is on.  An absolute timer leaves the kqueue
\* when it is reported, and is off while it is handled.
KTimer(s) ==
  /\ ev[s] \subseteq {"IN"}
  /\ knote[s] # {} \/ loc[s] = "pend" => timerOn[s]
  /\ ev[s] # {} \/ s = cur => loc[s] = "run"
  /\ s = cur => ev[s] = {}
  /\ kind[s] = "abs" /\ (ev[s] # {} \/ s = cur) => knote[s] = {}
  /\ kind[s] = "abs" /\ s = cur => ~timerOn[s]
  /\ loc[s] = "run" => knote[s] # {} \/ (kind[s] = "abs" /\ (ev[s] # {} \/ s = cur))

KSource(s) ==
  /\ Oneshot(s) => KOneshot(s)
  /\ ~Oneshot(s) => KPlain(s)
  /\ IsTimer(s) => KTimer(s)

(***************************************************************************)
(* kevent, whether the loop goes on or not.  When wait is called, flush    *)
(* has cleared stats_updated of all that is pending.  What the kqueue      *)
(* holds of a source is what its detach function will delete.              *)
(***************************************************************************)
FlagInv == pc = "wait" => Stale(Pending) = {}

KStray(s) ==
  knote[s] # {} =>
    /\ s \in Attached
    /\ Oneshot(s) => knote[s] \subseteq kAdded[s]
    /\ ~Oneshot(s) => loc[s] = "run" /\ knote[s] \subseteq {"IN"}
    /\ IsTimer(s) => timerOn[s]

StrayInv == \A s \in Sources \ refused : KStray(s)

KeventInv ==
  driver = "kevent" =>
    /\ Exact
    /\ Live => \A s \in Sources : KSource(s)
    /\ FlagInv
    /\ StrayInv

(***************************************************************************)
(* event_port, whether the loop goes on or not.  What the port watches,    *)
(* the driver has noted; it watches, reports and handles running sources   *)
(* only; a source is watched no more once it is reported; and of what it   *)
(* watches, reports or handles for a oneshot fd, the client still wants    *)
(* what it has a handler for.                                              *)
(***************************************************************************)
PSource(s) ==
  /\ pmask[s] # {} => assoc[s]
  /\ assoc[s] \/ ev[s] # {} \/ s = cur => loc[s] = "run"
  /\ s = cur => ~assoc[s] /\ ev[s] = {}
  /\ ev[s] # {} => pmask[s] = {}
  /\ IsTimer(s) => ~assoc[s] /\ loc[s] # "pend"
  /\ Oneshot(s) => \A d \in hand[s] :
       d \in pmask[s] \/ d \in ev[s] \/ (s = cur /\ d \in todo) => d \in want[s]

\* While it goes on, an fd that the client wants events of and that has none is pending
\* or watched.
PWatched(s) ==
  s \in Attached /\ ~IsTimer(s) /\ want[s] # {} /\ s # cur /\ ev[s] = {} =>
    loc[s] = "pend" \/ (assoc[s] /\ want[s] \subseteq pmask[s])

PortInv ==
  driver = "port" =>
    /\ \A s \in Sources : PSource(s)
    /\ Live => Exact /\ \A s \in Sources : PWatched(s)

\* The driver that was not built in has noted nothing.
OtherIdle ==
  /\ driver # "kevent" => \A s \in Sources : knote[s] = {} /\ asked[s] = {}
  /\ driver # "port" => \A s \in Sources : pmask[s] = {}
  /\ driver \notin {"kevent", "port"} => Exact

NativeInv == Types /\ QueueKept /\ KeventInv /\ PortInv /\ OtherIdle

-----------------------------------------------------------------------------
(***************************************************************************)
(* The queue under both drivers.                                           *)
(***************************************************************************)
\* The steps of the queue that do not depend on the driver.
PlainStep ==
  \/ UNCHANGED queueVars
  \/ \E s \in Sources : ClientStep(s) \/ DestroyRemove(s)
  \/ DestroyStep \/ HandlingStep

\* handle_event takes some or all of the flags of a source.
FetchStep ==
  \E s \in Sources, flags \in SUBSET {"IN", "OUT", "HUP", "ERR"} :
    /\ Goto("batch", "dispatch") /\ ev[s] # {}
    /\ cur' = s
    /\ noDetach' = [noDetach EXCEPT ![s] = TRUE]
    /\ ev' = [ev EXCEPT ![s] = @ \ flags]
    /\ UNCHANGED <<listVars, eachVars, ahead>>

\* A handle function failed.
BreakStep == pc = "dispatch" /\ HandleBreak

\* Flush and wait make sources running and fill the batch with events of such.
Moves(S) == loc' = [s \in Sources |-> IF s \in S THEN "run" ELSE loc[s]]

RoundStep ==
  /\ pc \in {"flush", "wait"} /\ pc' \in {"flush", "wait", "batch", "stopped"}
  /\ \E S \in SUBSET Pending : Moves(S)
  /\ nPend' \in Int /\ nRun' \in Int
  /\ ev' \in [Sources -> SUBSET {"IN", "OUT", "HUP", "ERR"}]
  /\ \A s \in Sources : ev'[s] # {} => pc' = "batch" /\ loc'[s] = "run"
  /\ UNCHANGED <<ahead, noDetach, cur, eachVars>>

NativeStep == PlainStep \/ FetchStep \/ BreakStep \/ RoundStep

\* A plain step is one of the steps that all drivers have.
LEMMA PlainIsCommon == PlainStep => QueueStep
  BY DEF PlainStep, QueueStep

\* What a step does to the queue keeps its books.
LEMMA StepQueue ==
  ASSUME QueueInv, NativeStep
  PROVE  QueueInv'
  <1> USE QueueConstants DEF QueueInv, Goto, listVars, eachVars
  <1>1. CASE PlainStep
    BY <1>1, PlainIsCommon, StepQueueInv
  <1>2. CASE FetchStep
    <2> USE <1>2 DEF FetchStep
    <2>1. ListTypes' /\ EachTypes' /\ FlowInv'
      BY DEF ListTypes, EachTypes, FlowInv, InClient, Running
    <2>2. FlagType'
      BY DEF FlagType
    <2>3. QED BY <2>1, <2>2
  <1>3. CASE BreakStep
    <2> USE <1>3 DEF BreakStep, HandleBreak
    <2>1. ListTypes' /\ EachTypes' /\ FlowInv'
      BY DEF ListTypes, EachTypes, FlowInv, InClient, Running
    <2>2. FlagType'
      BY DEF FlagType
    <2>3. QED BY <2>1, <2>2
  <1>4. CASE RoundStep
    <2> USE <1>4 DEF RoundStep, Moves
    <2>1. ListTypes'
      BY DEF ListTypes
    <2>2. EachTypes' /\ FlowInv'
      BY DEF ListTypes, EachTypes, FlowInv, InClient, Running
    <2>3. FlagType'
      BY DEF FlagType
    <2>4. QED BY <2>1, <2>2, <2>3
  <1>5. QED BY <1>1, <1>2, <1>3, <1>4 DEF NativeStep

\* The batch keeps to attached sources: detach clears the entries of its source.
LEMMA StepNoEvent ==
  ASSUME QueueInv, NoEventForDetached, NativeStep
  PROVE  NoEventForDetached'
  <1> USE QueueConstants DEF QueueInv, ListTypes, NoEventForDetached, Attached
  <1>1. CASE PlainStep
    <2>1. CASE UNCHANGED queueVars
      BY <2>1 DEF queueVars, listVars
    <2>2. ASSUME NEW s \in Sources, ClientStep(s) PROVE NoEventForDetached'
      BY <2>2
      DEF ClientStep, NewEmpty, SourceDel, SourceDetach, SourceAttach, InsertPending,
          InsertRunning, RunningToPending, PendingToRunning, DetachFromQueue, AttachAllowed
    <2>3. ASSUME NEW s \in Sources, DestroyRemove(s) PROVE NoEventForDetached'
      BY <2>3 DEF DestroyRemove, DestroyDetach, DetachFromQueue
    <2>4. CASE DestroyStep
      BY <2>4 DEF DestroyStep, DestroyStart, DestroyCursor, DestroyNext, listVars
    <2>5. CASE HandlingStep
      <3>1. CASE CbRemove
        BY <3>1 DEF CbRemove, HandleRemove, DetachFromQueue, FlowInv
      <3>2. QED
        BY <2>5, <3>1
        DEF HandlingStep, Run, WaitFails, Returns, BatchDone, RemoveReturn, RoundDone,
            CallHandler, TimerReadFails, CbContinue, CbBreak, HandleBreak,
            HandleContinue, RunningToPending, listVars
    <2>6. QED BY <1>1, <2>1, <2>2, <2>3, <2>4, <2>5 DEF PlainStep
  <1>2. CASE FetchStep
    BY <1>2 DEF FetchStep, listVars
  <1>3. CASE BreakStep
    BY <1>3 DEF BreakStep, HandleBreak, listVars
  <1>4. CASE RoundStep
    BY <1>4 DEF RoundStep
  <1>5. QED BY <1>1, <1>2, <1>3, <1>4 DEF NativeStep

\* No step of these drivers begins a foreach, and the source of a callback stays
\* protected.
LEMMA StepKept ==
  ASSUME QueueInv, QueueKept, NativeStep
  PROVE  QueueKept'
  <1>1. NoEventForDetached'
    BY StepNoEvent DEF QueueKept
  <1>2. each' = NoSource /\ ~inForeach'
    BY DEF QueueKept, NativeStep, PlainStep, queueVars, eachVars, ClientStep, NewEmpty,
        SourceDel, SourceDetach, SourceAttach, DestroyRemove, DestroyDetach,
        DestroyStep, DestroyStart, DestroyCursor, DestroyNext, HandlingStep, Run,
        WaitFails, Returns, BatchDone, RemoveReturn, RoundDone, CallHandler,
        TimerReadFails, CbContinue, CbBreak, CbRemove, HandleBreak, HandleContinue,
        HandleRemove, FetchStep, BreakStep, RoundStep
  <1>3. EachInv'
    <2> USE DEF QueueKept
    <2>1. CASE PlainStep
      <3>1. CASE UNCHANGED queueVars
        BY <3>1 DEF EachInv, queueVars, eachVars, listVars, Attached
      <3>2. QED BY <2>1, <3>1, ClientEachInv, HandlingEachInv, DestroyEachInv DEF PlainStep
    <2> USE QueueConstants
        DEF EachInv, QueueInv, ListTypes, EachTypes, FlowInv, Attached, Running, Goto,
            eachVars, listVars
    <2>2. CASE FetchStep
      BY <2>2 DEF FetchStep, NoEventForDetached
    <2>3. CASE BreakStep
      BY <2>3 DEF BreakStep, HandleBreak
    <2>4. CASE RoundStep
      BY <2>4 DEF RoundStep, Moves, Pending
    <2>5. QED BY <2>1, <2>2, <2>3, <2>4 DEF NativeStep
  <1>4. QED BY <1>1, <1>2, <1>3 DEF QueueKept

\* A loop that has ended does not come back.
LEMMA StepLive ==
  ASSUME NativeStep, Live'
  PROVE  Live
  <1>1. CASE PlainStep
    BY <1>1, PlainIsCommon, LiveBefore, KeventConstants
  <1>2. CASE FetchStep \/ BreakStep \/ RoundStep
    BY <1>2 DEF FetchStep, BreakStep, HandleBreak, RoundStep, Goto, Live
  <1>3. QED BY <1>1, <1>2 DEF NativeStep

\* Every step but flush and wait counts what it moves.
LEMMA StepCounts ==
  ASSUME QueueInv, QueueKept, PlainStep \/ FetchStep \/ BreakStep,
         pc = "dispatch" /\ nPend' # nPend => loc[cur] = "run"
  PROVE  Balanced
  <1>1. CASE PlainStep
    <2>1. ~DestroyCursor
      BY DEF DestroyCursor, QueueKept
    <2>2. cur # NoSource => cur \in Attached
      BY DEF QueueKept, EachInv
    <2>3. each # NoSource => captured \in Attached
      BY DEF QueueKept
    <2>4. QED BY <1>1, <2>1, <2>2, <2>3, PlainIsCommon, StepBalanced
  <1>2. CASE FetchStep
    BY <1>2, StillBalanced DEF FetchStep
  <1>3. CASE BreakStep
    BY <1>3, StillBalanced DEF BreakStep, HandleBreak
  <1>4. QED BY <1>1, <1>2, <1>3 DEF NativeStep

\* Exact counters stay exact in a step that counts what it moves.
LEMMA StepExact ==
  ASSUME QueueInv, QueueInv', Exact, Balanced
  PROVE  Exact'
  BY BalancedExact DEF QueueInv, Exact

-----------------------------------------------------------------------------
(***************************************************************************)
(* kevent: the changes of a batch.                                         *)
(***************************************************************************)
\* The changes that flush copies to c->ee: the filters that are to be added of a oneshot
\* fd, and one for every other source.
LEMMA ChangesOf ==
  ASSUME NEW S \in SUBSET Sources, NEW s \in Sources, NEW d
  PROVE  <<s, d>> \in Changes(S) <=> s \in S /\ (IF Oneshot(s) THEN d \in want[s] ELSE d = "IN")
  BY DEF Changes

\* There are as many pairs with one second component for each s in T as T has elements.
LEMMA OneEach ==
  ASSUME NEW T, IsFiniteSet(T), NEW f
  PROVE  LET P == {<<s, f[s]>> : s \in T}
         IN  IsFiniteSet(P) /\ Cardinality(P) = Cardinality(T)
  <1> DEFINE P == {<<s, f[s]>> : s \in T}
             g == [s \in T |-> <<s, f[s]>>]
  <1>1. g \in Injection(T, P)
    BY DEF Injection, IsInjective
  <1>2. g \in Surjection(T, P)
    BY DEF Surjection
  <1>3. ExistsBijection(T, P)
    BY <1>1, <1>2 DEF ExistsBijection, Bijection
  <1>4. QED BY <1>3, FS_Bijection

\* stats_updated: the changes of pending sources, without the second of those that have
\* two, are as many as the sources.
LEMMA ChangesCount ==
  ASSUME HandTypes, NEW S \in SUBSET Sources,
         \A s \in S : Oneshot(s) => want[s] # {}
  PROVE  /\ Cardinality(Changes(S)) \in Nat /\ Cardinality(Repeated(S)) \in Nat
         /\ Cardinality(S) \in Nat
         /\ Cardinality(Changes(S)) = Cardinality(S) + Cardinality(Repeated(S))
  <1> DEFINE first == [s \in Sources |-> IF Oneshot(s) /\ "IN" \notin want[s] THEN "OUT" ELSE "IN"]
             second == [s \in Sources |-> "OUT"]
             A == {<<s, first[s]>> : s \in S}
             B == {<<s, second[s]>> : s \in Repeated(S)}
  <1>1. IsFiniteSet(S) /\ IsFiniteSet(Repeated(S))
    BY QueueConstants, FS_Subset DEF Repeated
  <1>2. IsFiniteSet(A) /\ Cardinality(A) = Cardinality(S)
    <2> HIDE DEF first
    <2>1. QED BY <1>1, OneEach
  <1>3. IsFiniteSet(B) /\ Cardinality(B) = Cardinality(Repeated(S))
    <2> HIDE DEF second
    <2>1. QED BY <1>1, OneEach
  <1>4. Changes(S) = A \cup B
    <2>1. ASSUME NEW e \in Changes(S) PROVE e \in A \cup B
      <3>1. PICK s \in S : e \in {s} \X (IF Oneshot(s) THEN want[s] ELSE {"IN"})
        BY <2>1 DEF Changes
      <3>2. PICK d \in (IF Oneshot(s) THEN want[s] ELSE {"IN"}) : e = <<s, d>>
        BY <3>1
      <3>3. d = first[s] \/ (s \in Repeated(S) /\ d = "OUT")
        BY <3>2 DEF Repeated, HandTypes, IO
      <3>4. QED BY <3>2, <3>3 DEF Repeated
    <2>2. ASSUME NEW s \in S PROVE <<s, first[s]>> \in Changes(S)
      <3>1. Oneshot(s) => first[s] \in want[s]
        BY DEF HandTypes, IO
      <3>2. ~Oneshot(s) => first[s] = "IN"
        OBVIOUS
      <3>3. QED BY <3>1, <3>2, ChangesOf
    <2>3. ASSUME NEW s \in Repeated(S) PROVE <<s, second[s]>> \in Changes(S)
      BY ChangesOf DEF Repeated, IO
    <2>4. QED BY <2>1, <2>2, <2>3
  <1>5. A \cap B = {}
    <2>1. ASSUME NEW s \in S, NEW r \in Repeated(S) PROVE <<s, first[s]>> # <<r, second[r]>>
      BY DEF Repeated, IO
    <2>2. QED BY <2>1
  <1>6. Cardinality(A \cup B) = Cardinality(A) + Cardinality(B)
    <2> HIDE DEF A, B
    <2>1. Cardinality(A \cup B) = Cardinality(A) + Cardinality(B) - Cardinality(A \cap B)
      BY <1>2, <1>3, FS_Union
    <2>2. Cardinality(A \cap B) = 0
      BY <1>5, FS_EmptySet
    <2>3. Cardinality(A) \in Nat /\ Cardinality(B) \in Nat
      BY <1>2, <1>3, FS_CardinalityType
    <2>4. QED BY <2>1, <2>2, <2>3
  <1>7. Cardinality(S) \in Nat /\ Cardinality(Repeated(S)) \in Nat
    BY <1>1, FS_CardinalityType
  <1>8. QED BY <1>2, <1>3, <1>4, <1>6, <1>7

\* So that do_batch_flush and wait move the counters by the number of sources.
LEMMA ChangesCounted ==
  ASSUME ListTypes, HandTypes, NEW S \in SUBSET Pending, ChangesMove(S, {}),
         \A s \in S : Oneshot(s) => want[s] # {}
  PROVE  FlushMoves(S)
  <1>1. S \in SUBSET Sources
    BY DEF Pending
  <1> DEFINE n == Cardinality(Changes(S))
             m == Cardinality(Repeated(S))
             k == Cardinality(S)
  <1>2. n \in Nat /\ m \in Nat /\ k \in Nat /\ n = k + m
    BY <1>1, ChangesCount
  <1>3. nPend' = (nPend - n) + (m + 0) /\ nRun' = (nRun + n) - (m + 0)
    <2>1. Cardinality({}) = 0
      BY FS_EmptySet
    <2>2. QED BY <2>1 DEF ChangesMove
  <1>4. nPend' = nPend - k /\ nRun' = nRun + k
    <2> HIDE DEF n, m, k
    <2>1. QED BY <1>2, <1>3 DEF ListTypes
  <1>5. QED BY <1>4 DEF ChangesMove, FlushMoves

-----------------------------------------------------------------------------
(***************************************************************************)
(* kevent: what its steps do to the queue.                                 *)
(***************************************************************************)
\* kevent is told of changes and waits.
KFlushStep ==
  \/ FlushRest \/ \E S \in SUBSET Pending : BatchFlush(S)
  \/ \E S \in SUBSET Pending, done \in SUBSET Changes(Pending) : BatchFlushFails(S, done)
KWaitStep ==
  \/ \E batch \in SUBSET (Sources \X IO) : \E hup \in SUBSET batch : KWait(batch, hup)
  \/ \E done \in SUBSET Changes(Pending) : KWaitFails(done)

\* A filter that the kernel watches, or will when the changes are made, is one of an
\* attached source.
LEMMA WatchedAttached ==
  ASSUME Types, \A s \in Sources : KSource(s), NEW S \in SUBSET Pending,
         NEW s \in Sources, NEW d \in WithChanges(Changes(S))[s]
  PROVE  d \in IO /\ (s \in S \/ s \in Attached)
  <1>1. S \in SUBSET Sources
    BY DEF Pending
  <1>2. d \in knote[s] \/ (d \in IO /\ <<s, d>> \in Changes(S))
    BY DEF WithChanges
  <1>3. CASE d \in knote[s]
    <2>1. d \in IO
      BY <1>3 DEF Types, KeventTypes
    <2>2. CASE Oneshot(s)
      BY <1>3, <2>1, <2>2 DEF KSource, KOneshot, KFilter
    <2>3. CASE ~Oneshot(s)
      BY <1>3, <2>1, <2>3 DEF KSource, KPlain, Attached
    <2>4. QED BY <2>2, <2>3, <2>1
  <1>4. CASE d \in IO /\ <<s, d>> \in Changes(S)
    BY <1>1, <1>4, ChangesOf
  <1>5. QED BY <1>2, <1>3, <1>4

\* Flush and wait count what they move.
LEMMA KeventRoundStep ==
  ASSUME Types, \A s \in Sources : KSource(s), FlagInv, KFlushStep \/ KWaitStep
  PROVE  RoundStep /\ Balanced
  <1> USE DEF Types
  <1>1. /\ ListTypes
        /\ pc \in {"flush", "wait"} => ev \in [Sources -> {{}}]
        /\ Pending \in SUBSET Pending /\ {} \in SUBSET Pending
    BY DEF QueueInv, ListTypes, FlowInv
  <1>2. ASSUME NEW S \in SUBSET Pending, ChangesMove(S, {})
        PROVE  Balanced /\ Moves(S) /\ nPend' \in Int /\ nRun' \in Int /\ UNCHANGED ahead
    <2>1. \A s \in S : Oneshot(s) => want[s] # {}
      BY <1>2 DEF KSource, KOneshot, Pending
    <2>2. FlushMoves(S)
      BY <1>1, <1>2, <2>1, ChangesCounted
    <2>3. S \in SUBSET Sources
      BY DEF Pending
    <2>4. Cardinality(S) \in Nat
      BY <2>1, <2>3, ChangesCount
    <2>5. nPend' \in Int /\ nRun' \in Int
      BY <1>1, <2>2, <2>4 DEF FlushMoves, ListTypes
    <2>6. QED BY <1>1, <2>2, <2>5, FlushBalanced DEF FlushMoves, Moves
  <1>3. ASSUME UNCHANGED listVars
        PROVE  Balanced /\ Moves({}) /\ nPend' \in Int /\ nRun' \in Int
    BY <1>1, <1>3, StillBalanced DEF listVars, Moves, ListTypes
  <1>4. CASE FlushRest
    BY <1>4, <1>1, <1>3 DEF FlushRest, RoundStep, Goto
  <1>5. ASSUME NEW S \in SUBSET Pending, BatchFlush(S) PROVE RoundStep /\ Balanced
    BY <1>5, <1>1, <1>2 DEF BatchFlush, RoundStep
  <1>6. ASSUME NEW S, NEW done, BatchFlushFails(S, done) PROVE RoundStep /\ Balanced
    BY <1>6, <1>1, <1>3 DEF BatchFlushFails, RoundStep, Goto
  <1>7. ASSUME NEW batch \in SUBSET (Sources \X IO), NEW hup \in SUBSET batch, KWait(batch, hup)
        PROVE  RoundStep /\ Balanced
    <2>1. Balanced /\ Moves(Pending) /\ nPend' \in Int /\ nRun' \in Int /\ UNCHANGED ahead
      BY <1>1, <1>2, <1>7 DEF KWait, FlagInv, Goto
    <2>2. ev' \in [Sources -> SUBSET {"IN", "OUT", "HUP", "ERR"}]
      BY <1>7 DEF KWait, IO
    <2>3. ASSUME NEW s \in Sources, ev'[s] # {} PROVE loc'[s] = "run"
      <3>1. PICK d \in IO : <<s, d>> \in batch
        BY <1>7, <2>3 DEF KWait
      <3>2. d \in WithChanges(Changes(Pending))[s]
        BY <1>7, <3>1 DEF KWait
      <3>3. s \in Pending \/ s \in Attached
        BY <1>1, <3>2, WatchedAttached
      <3>4. QED BY <3>3, <2>1 DEF Pending, Attached, Moves
    <2>4. QED BY <1>7, <1>1, <2>1, <2>2, <2>3 DEF KWait, RoundStep, Goto
  <1>8. ASSUME NEW done, KWaitFails(done) PROVE RoundStep /\ Balanced
    BY <1>8, <1>1, <1>2 DEF KWaitFails, RoundStep, Goto, FlagInv
  <1>9. QED BY <1>4, <1>5, <1>6, <1>7, <1>8 DEF KFlushStep, KWaitStep

\* Where the driver moves the source of an event, that source is running.
CurrentMoves == pc = "dispatch" /\ nPend' # nPend => loc[cur] = "run"

\* The calls of the client.
LEMMA KeventClientStep ==
  ASSUME Types, KClient
  PROVE  PlainStep /\ CurrentMoves
  <1>1. PICK s \in Sources :
          \/ KNew(s) \/ KDel(s) \/ KReset(s) \/ KAttach(s) \/ KRegulate(s)
          \/ \E toClose \in BOOLEAN : KDetach(s, toClose)
          \/ \E d \in IO : KResetIO(s, d) \/ KUnsetIO(s, d)
          \/ \E d \in IO, on \in BOOLEAN : KInitIO(s, d, on)
    BY DEF KClient
  <1>2. CASE KNew(s) \/ KDel(s) \/ \E toClose \in BOOLEAN : KDetach(s, toClose)
    BY <1>2
    DEF KNew, KCreateOsFd, KCreateRoFd, KCreateItimer, KCreateAbstimer, NewOsFd, NewRoFd,
        NewItimer, NewAbstimer, NewEmpty, KDel, SourceDel, KDetach, SourceDetach,
        DetachAllowed, PlainStep, ClientStep, CurrentMoves, InClient, InDestroy
  <1>3. CASE KAttach(s)
    BY <1>3
    DEF KAttach, KOsFdAdd, KRoFdAdd, KItimerAdd, KAbstimerAdd, TimerAdd, OsFdAttach, RoFdAttach,
        TimerAttach, SourceAttach, AttachAllowed, PlainStep, ClientStep, CurrentMoves,
        InClient
  <1>4. CASE KReset(s) \/ KRegulate(s) \/ \E d \in IO, on \in BOOLEAN : KInitIO(s, d, on)
    BY <1>4
    DEF KReset, OsFdReset, KRegulate, KInitIO, InitIO, PlainStep, CurrentMoves,
        queueVars, listVars
  <1>5. ASSUME NEW d \in IO, KResetIO(s, d) PROVE PlainStep /\ CurrentMoves
    <2>1. CurrentMoves
      BY <1>5 DEF KResetIO, KMayNextIO, CurrentMoves, InClient, InDestroy
    <2>2. CASE d \in kAdded[s] \/ loc[s] = "pend"
      BY <1>5, <2>1, <2>2 DEF KResetIO, PlainStep, queueVars
    <2>3. CASE ~(d \in kAdded[s] \/ loc[s] = "pend")
      BY <1>5, <2>1, <2>3 DEF KResetIO, KMayNextIO, PlainStep, ClientStep, Attached
    <2>4. QED BY <2>2, <2>3
  <1>6. ASSUME NEW d \in IO, KUnsetIO(s, d) PROVE PlainStep /\ CurrentMoves
    <2>1. CurrentMoves
      BY <1>6 DEF KUnsetIO, KMayNextIO, CurrentMoves, InClient, InDestroy
    <2>2. CASE d \notin kAdded[s] /\ loc[s] = "pend" /\ want[s] \ {d} = {}
      BY <1>6, <2>1, <2>2 DEF KUnsetIO, KMayNextIO, PlainStep, ClientStep
    <2>3. CASE ~(d \notin kAdded[s] /\ loc[s] = "pend" /\ want[s] \ {d} = {})
      BY <1>6, <2>1, <2>3 DEF KUnsetIO, PlainStep, queueVars
    <2>4. QED BY <2>2, <2>3
  <1>7. QED BY <1>1, <1>2, <1>3, <1>4, <1>5, <1>6

\* The handling of a batch, and destroy.
LEMMA KeventHandlingStep ==
  ASSUME Types, Live => \A s \in Sources : KSource(s),
         \/ KHandling \/ KDestroy \/ Run
         \/ \E s \in Sources, d \in IO : KFetch(s, d)
  PROVE  (PlainStep \/ FetchStep \/ BreakStep) /\ CurrentMoves
  <1>1. ASSUME NEW s \in Sources, NEW d \in IO, KFetch(s, d) PROVE FetchStep /\ CurrentMoves
    BY <1>1 DEF KFetch, FetchStep, CurrentMoves, Goto, IO
  <1>2. CASE KHandled
    <2>1. cur \in Sources /\ Live /\ pc = "dispatch"
      BY <1>2 DEF KHandled, Handled, Types, QueueInv, ListTypes, FlowInv, Live
    <2>2. kind[cur] = "abs" => loc[cur] = "run"
      BY <2>1 DEF KSource, KTimer, IsTimer
    <2>3. PlainStep
      BY <1>2 DEF KHandled, Handled, PlainStep, HandlingStep
    <2>4. CurrentMoves
      BY <1>2, <2>2 DEF KHandled, CurrentMoves, listVars
    <2>5. QED BY <2>3, <2>4
  <1>3. CASE KRegulateFails
    BY <1>3 DEF KRegulateFails, BreakStep, HandleBreak, CurrentMoves, listVars
  <1>4. CASE KHandling /\ ~KHandled /\ ~KRegulateFails
    <2>1. PlainStep
      BY <1>4
      DEF KHandling, KOsFdCall, KRoFdCall, RoFdCall, KItimerCall, KAbstimerCall,
          KTimerCall, KBreak, PlainStep, HandlingStep
    <2>2. CurrentMoves
      BY <1>4
      DEF KHandling, KOsFdCall, KRoFdCall, RoFdCall, KItimerCall, KAbstimerCall,
          KTimerCall, CallHandler, KBreak, CbBreak, CbRemove, WaitFails, CbContinue,
          Returns, BatchDone, RemoveReturn, RoundDone, CurrentMoves, Goto, listVars
    <2>3. QED BY <2>1, <2>2
  <1>5. CASE KDestroy
    BY <1>5
    DEF KDestroy, PlainStep, CurrentMoves, DestroyStep, DestroyStart, DestroyCursor,
        DestroyNext, DestroyRemove, DestroyDetach, Goto, listVars
  <1>6. CASE Run
    BY <1>6 DEF Run, PlainStep, HandlingStep, CurrentMoves, listVars
  <1>7. QED BY <1>1, <1>2, <1>3, <1>4, <1>5, <1>6

-----------------------------------------------------------------------------
(***************************************************************************)
(* The types.                                                              *)
(***************************************************************************)
\* What a driver may disturb of them.
DriverTypes == HandTypes /\ TimerTypes /\ KeventTypes /\ MaskTypes /\ NoteTypes

\* The types hold at the start.
LEMMA InitTypes == NativeInit => Types
  <1> SUFFICES ASSUME NativeInit PROVE Types
    OBVIOUS
  <1> USE DEF NativeInit, HandleInit, KeventInit, PortInit
  <1>1. QueueInv
    BY QueueInitInv
  <1>2. HandTypes /\ KeventTypes /\ MaskTypes
    BY DEF HandTypes, KeventTypes, MaskTypes, IO
  <1>3. TimerTypes /\ NoteTypes
    BY DEF TimerTypes, NoteTypes
  <1>4. CountTypes
    BY DEF CountTypes
  <1>5. QED BY <1>1, <1>2, <1>3, <1>4 DEF FixedTypes, Types

\* new, del, reset and attach keep the types of the sources under both drivers.
LEMMA SourceTypes ==
  ASSUME Types, NEW s \in Sources,
         \/ NewOsFd(s) \/ NewRoFd(s) \/ NewItimer(s) \/ NewAbstimer(s)
         \/ SourceDel(s) \/ OsFdReset(s)
         \/ SourceAttach(s) /\ (OsFdAttach(s) \/ RoFdAttach(s) \/ TimerAttach(s) \/ CreateTimer(s))
         \/ \E d \in IO, on \in BOOLEAN : InitIO(s, d, on)
  PROVE  HandTypes' /\ TimerTypes'
  <1> USE DEF Types, stepVars
  <1>1. CASE NewOsFd(s) \/ NewRoFd(s) \/ NewItimer(s) \/ NewAbstimer(s)
    <2> USE <1>1 DEF NewOsFd, NewRoFd, NewItimer, NewAbstimer, NewEmpty, SetTimer
    <2>1. HandTypes'
      BY DEF HandTypes, IO
    <2>2. TimerTypes'
      BY DEF TimerTypes
    <2>3. QED BY <2>1, <2>2
  <1>2. CASE SourceDel(s) \/ OsFdReset(s)
    <2> USE <1>2 DEF SourceDel, OsFdReset
    <2>1. HandTypes'
      BY DEF HandTypes, IO
    <2>2. TimerTypes'
      BY DEF TimerTypes
    <2>3. QED BY <2>1, <2>2
  <1>3. CASE SourceAttach(s) /\ (OsFdAttach(s) \/ RoFdAttach(s) \/ TimerAttach(s) \/ CreateTimer(s))
    <2> USE <1>3 DEF SourceAttach, OsFdAttach, RoFdAttach, TimerAttach, CreateTimer
    <2>1. HandTypes'
      BY DEF HandTypes, IO
    <2>2. TimerTypes'
      BY DEF TimerTypes
    <2>3. QED BY <2>1, <2>2
  <1>4. ASSUME NEW d \in IO, NEW on \in BOOLEAN, InitIO(s, d, on)
        PROVE  HandTypes' /\ TimerTypes'
    <2> USE <1>4 DEF InitIO
    <2>1. HandTypes'
      BY DEF HandTypes
    <2>2. TimerTypes'
      BY DEF TimerTypes
    <2>3. QED BY <2>1, <2>2
  <1>5. QED BY <1>1, <1>2, <1>3, <1>4

\* So does what the drivers have in common of the handling of a batch.
LEMMA CommonTypes ==
  ASSUME Types,
         \/ Run \/ WaitFails \/ CbContinue \/ CbBreak \/ Returns \/ Handled
         \/ DestroyStep
         \/ (CbRemove \/ \E s \in Sources : DestroyRemove(s) \/ SourceDetach(s)) /\ UNCHANGED <<its, ticks>>
         \/ \E flag \in {"IN", "HUP", "OUT"} :
              CallHandler(flag) /\ UNCHANGED ticks /\ (UNCHANGED want \/ OsFdCall(flag))
  PROVE  HandTypes' /\ TimerTypes'
  <1> USE DEF Types, stepVars, handleVars, Run, WaitFails, CbContinue, CbBreak, Returns,
          Handled, DestroyStep, CbRemove, DestroyRemove, SourceDetach, CallHandler,
          OsFdCall
  <1>1. HandTypes'
    BY DEF HandTypes
  <1>2. TimerTypes'
    BY DEF TimerTypes
  <1>3. QED BY <1>1, <1>2

\* evdp_source_*_detach of kevent.
LEMMA KeventDetachTypes ==
  ASSUME Types, NEW s \in Sources, NEW toClose \in BOOLEAN, KeventDetach(s, toClose)
  PROVE  KeventTypes' /\ timerOn' \in [Sources -> BOOLEAN]
  <1> USE DEF Types, KeventDetach, KOsFdDetach, KRoFdDetach, KItimerDetach, KAbstimerDetach,
          TimerDelete, Delete
  <1>1. KeventTypes'
    BY DEF KeventTypes, HandTypes, IO
  <1>2. timerOn' \in [Sources -> BOOLEAN]
    BY DEF NoteTypes
  <1>3. QED BY <1>1, <1>2

\* The calls of the client under kevent.
LEMMA KeventClientTypes ==
  ASSUME Types, KClient, UNCHANGED portVars
  PROVE  DriverTypes'
  <1>1. PICK s \in Sources :
          \/ KNew(s) \/ KDel(s) \/ KReset(s) \/ KAttach(s) \/ KRegulate(s)
          \/ \E toClose \in BOOLEAN : KDetach(s, toClose)
          \/ \E d \in IO : KResetIO(s, d) \/ KUnsetIO(s, d)
          \/ \E d \in IO, on \in BOOLEAN : KInitIO(s, d, on)
    BY DEF KClient
  <1>2. MaskTypes' /\ assoc' \in [Sources -> BOOLEAN]
    BY DEF Types, MaskTypes, NoteTypes, portVars
  <1>3. ASSUME HandTypes' /\ TimerTypes', KeventTypes', timerOn' \in [Sources -> BOOLEAN]
        PROVE  DriverTypes'
    BY <1>2, <1>3 DEF DriverTypes, NoteTypes
  <1>4. CASE KNew(s)
    <2>1. HandTypes' /\ TimerTypes'
      BY <1>4, SourceTypes
      DEF KNew, KCreateOsFd, KCreateRoFd, KCreateItimer, KCreateAbstimer
    <2>2. QED BY <1>4, <1>3, <2>1 DEF KNew, keventVars, Types, KeventTypes, NoteTypes
  <1>5. CASE KDel(s) \/ KReset(s)
    <2>1. HandTypes' /\ TimerTypes'
      BY <1>5, SourceTypes DEF KDel, KReset
    <2>2. KeventTypes'
      BY <1>5 DEF KDel, KReset, Types, KeventTypes, IO
    <2>3. QED BY <1>5, <1>3, <2>1, <2>2 DEF KDel, KReset, Types, NoteTypes
  <1>6. CASE KAttach(s)
    <2>1. HandTypes' /\ TimerTypes'
      BY <1>6, SourceTypes DEF KAttach, KOsFdAdd, KRoFdAdd, KItimerAdd, KAbstimerAdd, TimerAdd
    <2>2. KeventTypes'
      BY <1>6 DEF KAttach, Types, KeventTypes
    <2>3. timerOn' \in [Sources -> BOOLEAN]
      BY <1>6 DEF KAttach, KOsFdAdd, KRoFdAdd, KItimerAdd, KAbstimerAdd, TimerAdd, Types, NoteTypes
    <2>4. QED BY <1>3, <2>1, <2>2, <2>3
  <1>7. CASE KRegulate(s)
    <2>1. HandTypes' /\ KeventTypes'
      BY <1>7 DEF KRegulate, handleVars, stepVars, Types, HandTypes, KeventTypes, IO
    <2>2. TimerTypes' /\ timerOn' \in [Sources -> BOOLEAN]
      BY <1>7 DEF KRegulate, handleVars, Types, TimerTypes, NoteTypes
    <2>3. QED BY <1>3, <2>1, <2>2
  <1>8. ASSUME NEW toClose \in BOOLEAN, KDetach(s, toClose) PROVE DriverTypes'
    <2>1. HandTypes' /\ TimerTypes'
      BY <1>8, CommonTypes DEF KDetach, KeventDetach
    <2>2. QED BY <1>8, <1>3, <2>1, KeventDetachTypes DEF KDetach
  <1>9. ASSUME NEW d \in IO, KResetIO(s, d) \/ KUnsetIO(s, d) PROVE DriverTypes'
    <2>1. TimerTypes' /\ timerOn' \in [Sources -> BOOLEAN]
      BY <1>9 DEF KResetIO, KUnsetIO, Types, TimerTypes, NoteTypes
    <2>2. CASE KResetIO(s, d)
      <3>1. HandTypes'
        BY <2>2 DEF KResetIO, Types, HandTypes, stepVars
      <3>2. KeventTypes'
        BY <2>2 DEF KResetIO, Types, KeventTypes
      <3>3. QED BY <1>3, <2>1, <3>1, <3>2
    <2>3. CASE KUnsetIO(s, d)
      <3>1. HandTypes'
        BY <2>3 DEF KUnsetIO, Types, HandTypes, stepVars
      <3>2. KeventTypes'
        BY <2>3 DEF KUnsetIO, Types, KeventTypes, Delete
      <3>3. QED BY <1>3, <2>1, <3>1, <3>2
    <2>4. QED BY <1>9, <2>2, <2>3
  <1>10. ASSUME NEW d \in IO, NEW on \in BOOLEAN, KInitIO(s, d, on) PROVE DriverTypes'
    <2>1. HandTypes' /\ TimerTypes'
      BY <1>10, SourceTypes DEF KInitIO
    <2>2. KeventTypes'
      BY <1>10 DEF KInitIO, Types, KeventTypes
    <2>3. QED BY <1>10, <1>3, <2>1, <2>2 DEF KInitIO, Types, NoteTypes
  <1>11. QED BY <1>1, <1>4, <1>5, <1>6, <1>7, <1>8, <1>9, <1>10

\* Flush and wait under kevent.
LEMMA KeventRoundTypes ==
  ASSUME Types, KRound, UNCHANGED portVars
  PROVE  DriverTypes'
  <1>1. MaskTypes' /\ assoc' \in [Sources -> BOOLEAN]
    BY DEF Types, MaskTypes, NoteTypes, portVars
  <1>2. ASSUME HandTypes', TimerTypes', KeventTypes', timerOn' \in [Sources -> BOOLEAN]
        PROVE  DriverTypes'
    BY <1>1, <1>2 DEF DriverTypes, NoteTypes
  <1>3. \A C : WithChanges(C) \in [Sources -> SUBSET IO]
    BY DEF WithChanges, Types, KeventTypes
  <1>4. \A S : ChangesAdded(S) => /\ kAdded' \in [Sources -> SUBSET IO]
                                  /\ want' \in [Sources -> SUBSET IO]
    BY DEF ChangesAdded, Types, KeventTypes, HandTypes
  <1> USE DEF Types, stepVars, handleVars
  <1>5. ASSUME NEW S, NEW done, FlushRest \/ BatchFlush(S) \/ BatchFlushFails(S, done) \/ KWaitFails(done)
        PROVE  DriverTypes'
    <2> USE <1>5 DEF FlushRest, BatchFlush, BatchFlushFails, KWaitFails, keventVars
    <2>1. HandTypes'
      BY <1>4 DEF HandTypes
    <2>2. KeventTypes'
      BY <1>3, <1>4 DEF KeventTypes
    <2>3. TimerTypes' /\ timerOn' \in [Sources -> BOOLEAN]
      BY DEF TimerTypes, NoteTypes
    <2>4. QED BY <1>2, <2>1, <2>2, <2>3
  <1>6. ASSUME NEW batch, NEW hup, KWait(batch, hup) PROVE DriverTypes'
    <2> USE <1>6 DEF KWait
    <2>1. HandTypes'
      BY <1>4 DEF HandTypes
    <2>2. knote' \in [Sources -> SUBSET IO]
      <3>1. WithChanges(Changes(Pending)) \in [Sources -> SUBSET IO]
        BY <1>3
      <3>2. QED BY <3>1
    <2>3. eof' \in [Sources -> SUBSET IO] /\ asked' = asked
      OBVIOUS
    <2>4. TimerTypes' /\ timerOn' \in [Sources -> BOOLEAN]
      BY DEF TimerTypes, NoteTypes
    <2>5. QED BY <1>2, <1>4, <2>1, <2>2, <2>3, <2>4 DEF KeventTypes
  <1>7. ASSUME NEW s \in Sources, NEW d \in IO, KFetch(s, d) PROVE DriverTypes'
    <2> USE <1>7 DEF KFetch
    <2>1. HandTypes'
      BY DEF HandTypes, IO
    <2>2. KeventTypes'
      BY DEF KeventTypes
    <2>3. TimerTypes' /\ timerOn' \in [Sources -> BOOLEAN]
      BY DEF TimerTypes, NoteTypes
    <2>4. QED BY <1>2, <2>1, <2>2, <2>3
  <1>8. QED BY <1>5, <1>6, <1>7 DEF KRound

\* The handling of a batch and destroy under kevent.
LEMMA KeventHandlingTypes ==
  ASSUME Types, KHandling \/ KDestroy \/ (Run /\ UNCHANGED keventVars), UNCHANGED portVars
  PROVE  DriverTypes'
  <1>1. MaskTypes' /\ assoc' \in [Sources -> BOOLEAN]
    BY DEF Types, MaskTypes, NoteTypes, portVars
  <1>2. ASSUME HandTypes' /\ TimerTypes', KeventTypes', timerOn' \in [Sources -> BOOLEAN]
        PROVE  DriverTypes'
    BY <1>1, <1>2 DEF DriverTypes, NoteTypes
  <1>3. ASSUME UNCHANGED keventVars PROVE KeventTypes' /\ timerOn' \in [Sources -> BOOLEAN]
    BY <1>3 DEF Types, KeventTypes, NoteTypes, keventVars
  <1>4. ASSUME NEW s \in Sources, NEW toClose \in BOOLEAN, KeventDetach(s, toClose),
               CbRemove \/ DestroyRemove(s)
        PROVE  DriverTypes'
    <2>1. HandTypes' /\ TimerTypes'
      BY <1>4, CommonTypes DEF KeventDetach
    <2>2. QED BY <1>2, <1>4, <2>1, KeventDetachTypes
  <1>5. CASE KHandled \/ KBreak
    <2>1. HandTypes' /\ TimerTypes'
      BY <1>5, CommonTypes DEF KHandled, KBreak
    <2>2. KeventTypes'
      BY <1>5 DEF KHandled, KBreak, Types, KeventTypes, IO
    <2>3. timerOn' \in [Sources -> BOOLEAN]
      BY <1>5 DEF KHandled, KBreak, Types, NoteTypes
    <2>4. QED BY <1>2, <2>1, <2>2, <2>3
  <1>6. CASE KRegulateFails
    <2> USE <1>6 DEF KRegulateFails, Types
    <2>1. HandTypes' /\ KeventTypes'
      BY DEF HandTypes, KeventTypes, IO
    <2>2. TimerTypes' /\ timerOn' \in [Sources -> BOOLEAN]
      BY DEF TimerTypes, NoteTypes
    <2>3. QED BY <1>2, <2>1, <2>2
  <1>7. ASSUME NEW flag \in {"IN", "HUP", "OUT"}, KOsFdCall(flag) PROVE DriverTypes'
    <2>1. HandTypes' /\ TimerTypes'
      BY <1>7, CommonTypes DEF KOsFdCall
    <2>2. KeventTypes'
      BY <1>7 DEF KOsFdCall, Types, KeventTypes
    <2>3. QED BY <1>7, <1>2, <2>1, <2>2 DEF KOsFdCall, Types, NoteTypes
  <1>8. ASSUME NEW flag \in {"IN", "HUP", "OUT"}, KRoFdCall(flag) PROVE DriverTypes'
    BY <1>8, <1>2, <1>3, CommonTypes DEF KRoFdCall, RoFdCall
  <1>9. CASE KItimerCall \/ KAbstimerCall
    BY <1>9, <1>2, <1>3, CommonTypes DEF KItimerCall, KAbstimerCall, KTimerCall, keventVars
  <1>10. CASE (WaitFails \/ CbContinue \/ Returns \/ DestroyStep \/ Run) /\ UNCHANGED keventVars
    BY <1>10, <1>2, <1>3, CommonTypes
  <1>11. CASE \E toClose \in BOOLEAN : CbRemove /\ KeventDetach(cur, toClose)
    <2>1. cur \in Sources
      BY <1>11 DEF CbRemove, Types, QueueInv, FlowInv, ListTypes
    <2>2. QED BY <1>4, <1>11, <2>1
  <1>12. QED
    BY <1>4, <1>5, <1>6, <1>7, <1>8, <1>9, <1>10, <1>11 DEF KHandling, KDestroy

-----------------------------------------------------------------------------
(***************************************************************************)
(* kevent: every step of a loop that goes on keeps KSource.                *)
(***************************************************************************)
\* A step leaves alone what KSource says of x.
KUntouched(x) ==
  /\ loc'[x] = loc[x] /\ ev'[x] = ev[x] /\ want'[x] = want[x] /\ hand'[x] = hand[x]
  /\ kAdded'[x] = kAdded[x] /\ knote'[x] = knote[x] /\ asked'[x] = asked[x]
  /\ timerOn'[x] <=> timerOn[x]
  /\ UNCHANGED <<pc, cur, todo, calling>> \/ (x # cur /\ x # cur')

\* Then it still holds.
LEMMA KSourceKept ==
  ASSUME NEW x \in Sources, KSource(x), KUntouched(x), UNCHANGED kind
  PROVE  KSource(x)'
  <1> USE DEF KSource, KUntouched, Oneshot, IsTimer, Attached
  <1>1. Oneshot(x) => KOneshot(x)'
    BY DEF KOneshot, KFilter, IO
  <1>2. ~Oneshot(x) => KPlain(x)'
    BY DEF KPlain
  <1>3. IsTimer(x) => KTimer(x)'
    BY DEF KTimer
  <1>4. QED BY <1>1, <1>2, <1>3

\* Most steps are about one source.
LEMMA KOneTouched ==
  ASSUME UNCHANGED kind, \A x \in Sources : KSource(x), NEW s \in Sources,
         \A x \in Sources \ {s} : KUntouched(x),
         Oneshot(s) => KOneshot(s)', ~Oneshot(s) => KPlain(s)', IsTimer(s) => KTimer(s)'
  PROVE  (\A x \in Sources : KSource(x))'
  <1>1. ASSUME NEW x \in Sources, x # s PROVE KSource(x)'
    BY <1>1, KSourceKept
  <1>2. KSource(s)'
    BY DEF KSource, Oneshot, IsTimer
  <1>3. QED BY <1>1, <1>2

\* In the handlers the source of the event is protected.
LEMMA CurrentProtected ==
  ASSUME Types, QueueKept
  PROVE  /\ cur # NoSource => cur \in Sources /\ cur \in Attached /\ noDetach[cur]
         /\ pc \in {"dispatch", "cb"} <=> cur # NoSource
         /\ NoSource \notin Sources
  BY QueueConstants DEF Types, QueueInv, ListTypes, FlowInv, QueueKept, EachInv

\* What the lemmas of this section assume.
KeventLive == Types /\ QueueKept /\ Live /\ \A s \in Sources : KSource(s)

\* The source s of a step is among the sources whose invariant holds.
LEMMA KCases ==
  ASSUME KeventLive, NEW s \in Sources
  PROVE  /\ Oneshot(s) => KOneshot(s) /\ ~IsTimer(s)
         /\ ~Oneshot(s) => KPlain(s)
         /\ IsTimer(s) => KTimer(s) /\ ~Oneshot(s)
  BY DEF KeventLive, KSource, Oneshot, IsTimer

\* A source that is on no list has nothing in the kqueue or in the batch.
LEMMA KDetached ==
  ASSUME KeventLive, NEW s \in Sources, s \notin Attached
  PROVE  knote[s] = {} /\ kAdded[s] = {} /\ ev[s] = {} /\ s # cur
  <1>1. ev[s] = {} /\ s # cur
    BY CurrentProtected DEF KeventLive, QueueKept, NoEventForDetached
  <1>2. knote[s] \in SUBSET IO /\ kAdded[s] \in SUBSET IO
    BY DEF KeventLive, Types, KeventTypes
  <1>3. CASE Oneshot(s)
    <2>1. \A d \in IO : d \notin kAdded[s] /\ d \notin knote[s]
      BY <1>3, KCases DEF KOneshot, KFilter
    <2>2. QED BY <1>1, <1>2, <2>1
  <1>4. CASE ~Oneshot(s)
    BY <1>1, <1>4, KCases DEF KPlain, Attached
  <1>5. QED BY <1>3, <1>4

\* new, del and reset.
LEMMA KNewKeeps ==
  ASSUME KeventLive, NEW s \in Sources, UNCHANGED fixedVars, KNew(s) \/ KDel(s) \/ KReset(s)
  PROVE  (\A x \in Sources : KSource(x))'
  <1>1. s \notin Attached /\ loc[s] \in {"free", "idle"} /\ loc'[s] \in {"free", "idle"}
    BY DEF KeventLive, Types, QueueInv, ListTypes, KNew, KCreateOsFd, KCreateRoFd,
        KCreateItimer, KCreateAbstimer, NewOsFd, NewRoFd, NewItimer, NewAbstimer,
        NewEmpty, KDel, SourceDel, KReset, OsFdReset, Attached, queueVars, listVars
  <1>2. knote[s] = {} /\ kAdded[s] = {} /\ ev[s] = {} /\ s # cur
    BY <1>1, KDetached
  <1>3. UNCHANGED <<cur, pc, ev, knote, timerOn, todo, calling>> /\ kAdded'[s] = {}
    BY <1>2
    DEF KNew, KCreateOsFd, KCreateRoFd, KCreateItimer, KCreateAbstimer, NewOsFd,
        NewRoFd, NewItimer, NewAbstimer, NewEmpty, KDel, SourceDel, KReset, OsFdReset,
        keventVars, queueVars, stepVars, KeventLive, Types, KeventTypes
  <1>4. ASSUME NEW x \in Sources \ {s} PROVE KUntouched(x)
    <2>1. /\ loc'[x] = loc[x] /\ want'[x] = want[x] /\ hand'[x] = hand[x]
          /\ kAdded'[x] = kAdded[x] /\ asked'[x] = asked[x]
      BY DEF KeventLive, Types, QueueInv, ListTypes, HandTypes, KeventTypes, KNew,
          KCreateOsFd, KCreateRoFd, KCreateItimer, KCreateAbstimer, NewOsFd, NewRoFd,
          NewItimer, NewAbstimer, NewEmpty, SetTimer, KDel, SourceDel, KReset, OsFdReset,
          keventVars, queueVars, listVars
    <2>2. QED BY <1>3, <2>1 DEF KUntouched
  <1>5. CASE Oneshot(s)
    <2>1. KOneshot(s)
      BY <1>5, KCases
    <2>2. loc[s] = "free" => want[s] = {} /\ asked[s] = {}
      BY <1>2, <2>1 DEF KOneshot, KFilter, KeventLive, Types, KeventTypes
    <2>3. want'[s] = {} /\ asked'[s] = {}
      <3>1. \/ KNew(s) /\ loc[s] = "free" /\ UNCHANGED <<want, asked>>
            \/ want'[s] = {} /\ asked'[s] = {}
        BY <1>5
        DEF KeventLive, Types, HandTypes, KeventTypes, KNew, KCreateOsFd, KCreateRoFd,
            KCreateItimer, KCreateAbstimer, NewOsFd, NewRoFd, NewItimer, NewAbstimer,
            NewEmpty, KDel, SourceDel, KReset, OsFdReset, keventVars
      <3>2. QED BY <2>2, <3>1
    <2>4. KOneshot(s)'
      BY <1>1, <1>2, <1>3, <2>3 DEF KOneshot, KFilter, IO
    <2>5. QED BY <1>4, <1>5, <2>4, KCases, KOneTouched DEF KeventLive, fixedVars
  <1>6. CASE ~Oneshot(s)
    <2>1. KPlain(s)
      BY <1>6, KCases
    <2>2. asked'[s] = {}
      BY <2>1
      DEF KPlain, KeventLive, Types, KeventTypes, KNew, KDel, KReset, keventVars
    <2>3. KPlain(s)'
      BY <1>2, <1>3, <2>2 DEF KPlain
    <2>4. IsTimer(s) => KTimer(s)'
      BY <1>1, <1>2, <1>3 DEF KTimer
    <2>5. QED BY <1>4, <1>6, <2>3, <2>4, KOneTouched DEF KeventLive, fixedVars
  <1>7. QED BY <1>5, <1>6

\* attach: what the client asked for before is now to be added, and a timer is on.
LEMMA KAttachKeeps ==
  ASSUME KeventLive, NEW s \in Sources, UNCHANGED fixedVars, KAttach(s)
  PROVE  (\A x \in Sources : KSource(x))'
  <1>1. s \notin Attached /\ loc[s] = "idle"
    BY DEF KAttach, SourceAttach, AttachAllowed, Attached
  <1>2. knote[s] = {} /\ kAdded[s] = {} /\ ev[s] = {} /\ s # cur
    BY <1>1, KDetached
  <1>3. UNCHANGED <<cur, pc, ev, knote, kAdded, asked, hand, todo, calling>>
    BY DEF KAttach, SourceAttach, stepVars
  <1>4. ASSUME NEW x \in Sources \ {s} PROVE KUntouched(x)
    <2>1. loc'[x] = loc[x] /\ want'[x] = want[x]
      BY DEF KeventLive, Types, QueueInv, ListTypes, HandTypes, KAttach, KOsFdAdd,
          KRoFdAdd, KItimerAdd, KAbstimerAdd, TimerAdd, OsFdAttach, RoFdAttach, TimerAttach,
          InsertPending, InsertRunning
    <2>2. timerOn'[x] <=> timerOn[x]
      BY DEF KeventLive, Types, NoteTypes, KAttach, KOsFdAdd, KRoFdAdd, KItimerAdd,
          KAbstimerAdd, TimerAdd
    <2>3. QED BY <1>3, <2>1, <2>2 DEF KUntouched
  <1>5. CASE Oneshot(s)
    <2>1. want' = want /\ loc'[s] = IF want[s] # {} THEN "pend" ELSE "run"
      BY <1>5
      DEF KeventLive, Types, QueueInv, ListTypes, KAttach, KOsFdAdd, KRoFdAdd,
          KItimerAdd, KAbstimerAdd, TimerAdd, OsFdAttach, RoFdAttach, TimerAttach, Oneshot,
          IsTimer, InsertPending, InsertRunning
    <2>2. KOneshot(s)
      BY <1>5, KCases
    <2>3. KOneshot(s)'
      BY <1>2, <1>3, <2>1, <2>2 DEF KOneshot, KFilter, IO
    <2>4. QED BY <1>4, <1>5, <2>3, KCases, KOneTouched DEF KeventLive, fixedVars
  <1>6. CASE ~Oneshot(s)
    <2>1. loc'[s] = "pend"
      BY <1>6
      DEF KeventLive, Types, QueueInv, ListTypes, KAttach, KOsFdAdd, KRoFdAdd,
          KItimerAdd, KAbstimerAdd, TimerAdd, OsFdAttach, RoFdAttach, TimerAttach, InsertPending
    <2>2. IsTimer(s) => timerOn'[s]
      BY <1>6
      DEF KeventLive, Types, NoteTypes, KAttach, KOsFdAdd, KRoFdAdd, KItimerAdd,
          KAbstimerAdd, TimerAdd, OsFdAttach, RoFdAttach, IsTimer, Oneshot
    <2>3. KPlain(s)'
      BY <1>2, <1>3, <1>6, KCases DEF KPlain
    <2>4. IsTimer(s) => KTimer(s)'
      BY <1>2, <1>3, <2>1, <2>2 DEF KTimer
    <2>5. QED BY <1>4, <1>6, <2>3, <2>4, KOneTouched DEF KeventLive, fixedVars
  <1>7. QED BY <1>5, <1>6

\* detach, by the client or after the callback: nothing of the source is left in the
\* kqueue, and only what was not added yet is kept for the next attach.
LEMMA KDetachKeeps ==
  ASSUME KeventLive, NEW s \in Sources, NEW toClose \in BOOLEAN, UNCHANGED fixedVars,
         s \in Attached, DetachFromQueue(s), KeventDetach(s, toClose), UNCHANGED <<want, hand>>,
         \/ s # cur /\ UNCHANGED <<pc, cur, todo, calling>>
         \/ s = cur /\ cur' = NoSource
  PROVE  (\A x \in Sources : KSource(x))'
  <1>1. loc'[s] = "idle" /\ ev'[s] = {} /\ s # cur'
    BY CurrentProtected DEF KeventLive, Types, QueueInv, ListTypes, DetachFromQueue
  <1>2. ASSUME NEW x \in Sources \ {s} PROVE KUntouched(x)
    <2>1. loc'[x] = loc[x] /\ ev'[x] = ev[x]
      BY DEF KeventLive, Types, QueueInv, ListTypes, DetachFromQueue
    <2>2. kAdded'[x] = kAdded[x] /\ knote'[x] = knote[x] /\ asked'[x] = asked[x]
      BY DEF KeventLive, Types, KeventTypes, KeventDetach, KOsFdDetach, KRoFdDetach,
          KItimerDetach, KAbstimerDetach, TimerDelete, Delete
    <2>3. timerOn'[x] <=> timerOn[x]
      BY DEF KeventLive, Types, NoteTypes, KeventDetach, KOsFdDetach, KRoFdDetach,
          KItimerDetach, KAbstimerDetach, TimerDelete
    <2>4. UNCHANGED <<pc, cur, todo, calling>> \/ (x # cur /\ x # cur')
      BY QueueConstants
    <2>5. QED BY <2>1, <2>2, <2>3, <2>4 DEF KUntouched
  <1>3. CASE Oneshot(s)
    <2>1. KOneshot(s)
      BY <1>3, KCases
    <2>2. /\ kAdded'[s] = {} /\ asked'[s] = want[s] /\ want'[s] = want[s] /\ hand'[s] = hand[s]
          /\ knote'[s] = knote[s] \ (IF toClose THEN IO ELSE kAdded[s])
      BY <1>3
      DEF KeventLive, Types, KeventTypes, KeventDetach, KOsFdDetach, KRoFdDetach,
          KItimerDetach, KAbstimerDetach, Delete, Oneshot
    <2>3. \A d \in IO : d \notin knote'[s]
      BY <2>1, <2>2 DEF KOneshot, KFilter
    <2>4. KOneshot(s)'
      BY <1>1, <2>1, <2>2, <2>3 DEF KOneshot, KFilter
    <2>5. QED BY <1>2, <1>3, <2>4, KCases, KOneTouched DEF KeventLive, fixedVars
  <1>4. CASE ~Oneshot(s)
    <2>1. KPlain(s) /\ (IsTimer(s) => KTimer(s))
      BY <1>4, KCases
    <2>2. asked'[s] = {} /\ kAdded'[s] = {}
      BY <1>4, <2>1
      DEF KeventLive, Types, KeventTypes, KeventDetach, KOsFdDetach, KRoFdDetach,
          KItimerDetach, KAbstimerDetach, TimerDelete, KPlain
    <2>3. knote'[s] = {}
      <3>1. \/ kind[s] = "ro" /\ knote'[s] = knote[s] \ (IF toClose \/ loc[s] # "pend" THEN {"IN"} ELSE {})
            \/ IsTimer(s) /\ knote'[s] = knote[s] \ (IF timerOn[s] /\ loc[s] # "pend" THEN {"IN"} ELSE {})
        BY <1>4
        DEF KeventLive, Types, KeventTypes, KeventDetach, KOsFdDetach, KRoFdDetach,
            KItimerDetach, KAbstimerDetach, TimerDelete, Delete, IsTimer
      <3>2. QED BY <2>1, <3>1 DEF KPlain, KTimer
    <2>4. KPlain(s)'
      BY <2>2, <2>3 DEF KPlain
    <2>5. IsTimer(s) => KTimer(s)'
      BY <1>1, <2>3 DEF KTimer
    <2>6. QED BY <1>2, <1>4, <2>4, <2>5, KOneTouched DEF KeventLive, fixedVars
  <1>5. QED BY <1>3, <1>4

\* regulate: a timer that is on and running is in the kqueue.
LEMMA KRegulateKeeps ==
  ASSUME Orderly, KeventLive, NEW s \in Sources, UNCHANGED fixedVars, KRegulate(s)
  PROVE  (\A x \in Sources : KSource(x))'
  <1>1. UNCHANGED <<loc, ev, pc, cur, todo, calling, want, hand, kAdded, timerOn, asked>>
    BY DEF KRegulate, queueVars, listVars, handleVars, stepVars
  <1>2. ASSUME NEW x \in Sources \ {s} PROVE KUntouched(x)
    BY <1>1 DEF KUntouched, KRegulate, KeventLive, Types, KeventTypes
  <1>3. IsTimer(s) /\ ~Oneshot(s) /\ KPlain(s) /\ KTimer(s) /\ ev[s] = {}
    BY KCases DEF KRegulate, IsTimer, Orderly
  <1>4. knote'[s] = IF timerOn[s] /\ loc[s] = "run" THEN {"IN"} ELSE knote[s]
    BY DEF KRegulate, KeventLive, Types, KeventTypes
  <1>5. KPlain(s)'
    BY <1>1, <1>3, <1>4 DEF KPlain
  <1>6. KTimer(s)'
    BY <1>1, <1>3, <1>4, kind' = kind DEF KTimer, fixedVars
  <1>7. QED BY <1>2, <1>3, <1>5, <1>6, KOneTouched DEF KeventLive, fixedVars

\* next_read and next_write of a source that is not attached, ...
LEMMA KInitIOKeeps ==
  ASSUME KeventLive, NEW s \in Sources, NEW d \in IO, NEW on \in BOOLEAN,
         UNCHANGED fixedVars, KInitIO(s, d, on)
  PROVE  (\A x \in Sources : KSource(x))'
  <1>1. UNCHANGED <<loc, ev, pc, cur, todo, calling, kAdded, timerOn, knote>>
    BY DEF KInitIO, InitIO, queueVars, listVars, stepVars
  <1>2. ASSUME NEW x \in Sources \ {s} PROVE KUntouched(x)
    BY <1>1
    DEF KUntouched, KInitIO, InitIO, KeventLive, Types, KeventTypes, HandTypes
  <1>3. Oneshot(s) /\ s \notin Attached /\ loc[s] = "idle" /\ KOneshot(s)
    BY KCases
    DEF KInitIO, InitIO, MayNextIO, Attached, KeventLive, Types, QueueInv, ListTypes
  <1>4. knote[s] = {} /\ kAdded[s] = {} /\ ev[s] = {} /\ s # cur
    BY <1>3, KDetached
  <1>5. \/ on /\ want'[s] = want[s] \cup {d} /\ hand'[s] = hand[s] \cup {d} /\ asked'[s] = asked[s] \cup {d}
        \/ ~on /\ want'[s] = want[s] \ {d} /\ hand'[s] = hand[s] \ {d} /\ asked'[s] = asked[s] \ {d}
    BY DEF KInitIO, InitIO, KeventLive, Types, KeventTypes, HandTypes
  <1>6. KOneshot(s)'
    BY <1>1, <1>3, <1>4, <1>5 DEF KOneshot, KFilter
  <1>7. QED BY <1>2, <1>3, <1>6, KCases, KOneTouched DEF KeventLive, fixedVars

\* ... asking for a filter that is added or to be added, ...
LEMMA KResetIOKeeps ==
  ASSUME KeventLive, NEW s \in Sources, NEW d \in IO, UNCHANGED fixedVars, KResetIO(s, d)
  PROVE  (\A x \in Sources : KSource(x))'
  <1>1. UNCHANGED <<ev, pc, cur, todo, calling, kAdded, timerOn, knote>>
    BY DEF KResetIO, stepVars
  <1>2. ASSUME NEW x \in Sources \ {s} PROVE KUntouched(x)
    <2>1. loc'[x] = loc[x]
      BY DEF KResetIO, RunningToPending, listVars, KeventLive, Types, QueueInv, ListTypes
    <2>2. want'[x] = want[x] /\ hand'[x] = hand[x] /\ asked'[x] = asked[x]
      BY DEF KResetIO, KeventLive, Types, KeventTypes, HandTypes
    <2>3. QED BY <1>1, <2>1, <2>2 DEF KUntouched
  <1>3. Oneshot(s) /\ s \in Attached /\ KOneshot(s) /\ pc # "dispatch"
    BY KCases
    DEF KResetIO, KMayNextIO, InClient, InDestroy
  <1>4. /\ hand'[s] = hand[s] \cup {d} /\ asked'[s] = asked[s] \cup {d}
        /\ want'[s] = IF d \in kAdded[s] THEN want[s] ELSE want[s] \cup {d}
        /\ loc'[s] = IF d \in kAdded[s] THEN loc[s] ELSE "pend"
    BY <1>3
    DEF KResetIO, RunningToPending, listVars, KeventLive, Types, QueueInv, ListTypes,
        KeventTypes, HandTypes, Attached
  <1>5. KOneshot(s)'
    <2>1. \A c \in IO : KFilter(s, c)'
      BY <1>1, <1>3, <1>4 DEF KOneshot, KFilter, Attached
    <2>2. QED BY <1>1, <1>3, <1>4, <2>1 DEF KOneshot, Attached
  <1>6. QED BY <1>2, <1>3, <1>5, KCases, KOneTouched DEF KeventLive, fixedVars

\* ... and taking one back, which is not in the batch.
LEMMA KUnsetIOKeeps ==
  ASSUME Orderly, KeventLive, NEW s \in Sources, NEW d \in IO, UNCHANGED fixedVars, KUnsetIO(s, d)
  PROVE  (\A x \in Sources : KSource(x))'
  <1>1. UNCHANGED <<ev, pc, cur, todo, calling, timerOn>>
    BY DEF KUnsetIO, stepVars
  <1>2. ASSUME NEW x \in Sources \ {s} PROVE KUntouched(x)
    <2>1. loc'[x] = loc[x]
      BY DEF KUnsetIO, PendingToRunning, listVars, KeventLive, Types, QueueInv, ListTypes
    <2>2. want'[x] = want[x] /\ hand'[x] = hand[x] /\ asked'[x] = asked[x]
      BY DEF KUnsetIO, KeventLive, Types, KeventTypes, HandTypes
    <2>3. kAdded'[x] = kAdded[x] /\ knote'[x] = knote[x]
      BY DEF KUnsetIO, Delete, KeventLive, Types, KeventTypes
    <2>4. QED BY <1>1, <2>1, <2>2, <2>3 DEF KUntouched
  <1>3. Oneshot(s) /\ s \in Attached /\ KOneshot(s) /\ pc # "dispatch" /\ d \notin ev[s]
    BY KCases
    DEF KUnsetIO, KMayNextIO, InClient, InDestroy, Orderly
  <1>4. hand'[s] = hand[s] \ {d} /\ asked'[s] = asked[s] \ {d}
    BY DEF KUnsetIO, KeventLive, Types, KeventTypes, HandTypes
  <1>5. CASE d \in kAdded[s]
    <2>1. /\ knote'[s] = knote[s] \ {d} /\ kAdded'[s] = kAdded[s] \ {d}
          /\ want'[s] = want[s] /\ loc'[s] = loc[s]
      BY <1>5 DEF KUnsetIO, Delete, KeventLive, Types, KeventTypes, listVars
    <2>2. \A c \in IO : KFilter(s, c)'
      BY <1>1, <1>3, <1>4, <1>5, <2>1 DEF KOneshot, KFilter, Attached
    <2>3. KOneshot(s)'
      BY <1>1, <1>3, <2>1, <2>2 DEF KOneshot
    <2>4. QED BY <1>2, <1>3, <2>3, KCases, KOneTouched DEF KeventLive, fixedVars
  <1>6. CASE d \notin kAdded[s]
    <2>1. /\ knote'[s] = knote[s] /\ kAdded'[s] = kAdded[s] /\ want'[s] = want[s] \ {d}
          /\ loc'[s] = IF loc[s] = "pend" /\ want[s] \ {d} = {} THEN "run" ELSE loc[s]
      BY <1>6
      DEF KUnsetIO, PendingToRunning, listVars, KeventLive, Types, QueueInv, ListTypes,
          HandTypes
    <2>2. \A c \in IO : KFilter(s, c)'
      BY <1>1, <1>3, <1>4, <1>6, <2>1 DEF KOneshot, KFilter, Attached
    <2>3. KOneshot(s)'
      BY <1>1, <1>3, <2>1, <2>2 DEF KOneshot, Attached
    <2>4. QED BY <1>2, <1>3, <2>3, KCases, KOneTouched DEF KeventLive, fixedVars
  <1>7. QED BY <1>5, <1>6

\* The filters that the kernel watches when the changes of S are made.
LEMMA WatchedFilters ==
  ASSUME NEW S \in SUBSET Sources, NEW x \in Sources, NEW d \in IO
  PROVE  d \in WithChanges(Changes(S))[x] <=>
           d \in knote[x] \/ (x \in S /\ (IF Oneshot(x) THEN d \in want[x] ELSE d = "IN"))
  BY ChangesOf DEF WithChanges

\* Flush and wait: what was to be added is now added, and oneshot filters that are
\* reported leave the kqueue.
LEMMA KChangesKeep ==
  ASSUME KeventLive, NEW S \in SUBSET Pending, UNCHANGED fixedVars,
         pc \in {"flush", "wait"}, Moves(S), ChangesAdded(S),
         UNCHANGED <<hand, asked, timerOn, cur>>,
         \A x \in Sources :
           /\ ev'[x] \subseteq WithChanges(Changes(S))[x]
           /\ knote'[x] = {d \in WithChanges(Changes(S))[x] : ~(d \in ev'[x] /\ kind[x] \in {"os", "abs"})}
  PROVE  (\A x \in Sources : KSource(x))'
  <1> SUFFICES ASSUME NEW x \in Sources PROVE KSource(x)'
    OBVIOUS
  <1>1. ev[x] = {} /\ x # cur /\ x # cur'
    BY CurrentProtected DEF KeventLive, Types, QueueInv, FlowInv
  <1>2. S \in SUBSET Sources /\ (x \in S => loc[x] = "pend")
    BY DEF Pending
  <1>3. loc'[x] = IF x \in S THEN "run" ELSE loc[x]
    BY DEF Moves
  <1>4. /\ kAdded'[x] = IF x \in S /\ Oneshot(x) THEN kAdded[x] \cup want[x] ELSE kAdded[x]
        /\ want'[x] = IF x \in S /\ Oneshot(x) THEN {} ELSE want[x]
    BY DEF ChangesAdded
  <1> DEFINE W == WithChanges(Changes(S))[x]
  <1>5. W \in SUBSET IO
    BY DEF WithChanges, KeventLive, Types, KeventTypes
  <1>6. \A d \in IO : d \in W <=> d \in knote[x] \/ (x \in S /\ (IF Oneshot(x) THEN d \in want[x] ELSE d = "IN"))
    BY <1>2, WatchedFilters
  <1>7. ev'[x] \subseteq W /\ knote'[x] = {d \in W : ~(d \in ev'[x] /\ kind[x] \in {"os", "abs"})}
    OBVIOUS
  <1> HIDE DEF W
  <1>8. CASE Oneshot(x)
    <2>1. KOneshot(x) /\ ~IsTimer(x)
      BY <1>8, KCases
    <2>2. \A d \in IO : d \in knote'[x] <=> d \in W /\ d \notin ev'[x]
      BY <1>5, <1>7, <1>8 DEF Oneshot
    <2>3. ASSUME NEW d \in IO PROVE KFilter(x, d)'
      <3>1. KFilter(x, d)
        BY <2>1 DEF KOneshot
      <3>2. d \in kAdded'[x] <=> d \in W
        BY <1>1, <1>4, <1>6, <1>8, <3>1 DEF KFilter
      <3>3. x \in Attached' <=> x \in Attached
        BY <1>2, <1>3 DEF Attached
      <3>4. d \in want'[x] <=> d \in want[x] /\ x \notin S
        BY <1>4, <1>8
      <3>5. x \in S => x \in Attached
        BY <1>2 DEF Attached
      <3>6. d \in ev'[x] => d \in W
        BY <1>7
      <3>7. QED
        BY <1>1, <1>6, <1>8, <2>2, <3>1, <3>2, <3>3, <3>4, <3>5, <3>6 DEF KFilter
    <2>4. KOneshot(x)'
      BY <1>1, <1>2, <1>3, <1>4, <1>8, <2>1, <2>3 DEF KOneshot
    <2>5. QED BY <1>8, <2>1, <2>4 DEF KSource, Oneshot, IsTimer, fixedVars
  <1>9. CASE ~Oneshot(x)
    <2>1. KPlain(x) /\ (IsTimer(x) => KTimer(x))
      BY <1>9, KCases
    <2>2. W \subseteq {"IN"} /\ ("IN" \in W <=> "IN" \in knote[x] \/ x \in S)
      <3>1. "IN" \in IO
        BY DEF IO
      <3>2. QED BY <1>5, <1>6, <1>9, <2>1, <3>1 DEF KPlain
    <2>3. knote'[x] \subseteq W /\ ev'[x] \subseteq {"IN"}
      BY <1>7, <2>2
    <2>4. KPlain(x)'
      BY <1>3, <1>4, <1>9, <2>1, <2>2, <2>3 DEF KPlain
    <2>5. ASSUME IsTimer(x) PROVE KTimer(x)'
      <3>1. /\ W # {} => timerOn'[x] /\ loc'[x] = "run"
            /\ loc'[x] = "pend" => timerOn'[x]
        BY <1>2, <1>3, <2>1, <2>2, <2>5 DEF KTimer, KPlain
      <3>2. loc'[x] = "run" => W # {}
        BY <1>1, <1>3, <2>1, <2>2, <2>5 DEF KTimer, KPlain
      <3>3. kind[x] = "abs" => (ev'[x] # {} <=> W # {} /\ knote'[x] = {})
        BY <1>7, <2>2, <2>3
      <3>4. kind[x] # "abs" => knote'[x] = W
        BY <1>7, <1>9 DEF Oneshot
      <3>5. QED
        BY <1>1, <1>7, <2>3, <3>1, <3>2, <3>3, <3>4, kind' = kind DEF KTimer, fixedVars
    <2>6. QED BY <1>9, <2>4, <2>5 DEF KSource, Oneshot, IsTimer, fixedVars
  <1>10. QED BY <1>8, <1>9

\* do_batch_flush and evdp_queue_wait_events, when they succeed.
LEMMA KRoundKeeps ==
  ASSUME KeventLive, FlagInv, UNCHANGED fixedVars, KFlushStep \/ KWaitStep, Live'
  PROVE  (\A x \in Sources : KSource(x))'
  <1>1. CASE FlushRest
    <2>1. \A x \in Sources : x # cur
      BY <1>1, CurrentProtected DEF FlushRest, Goto, KeventLive
    <2>2. \A x \in Sources : KUntouched(x)
      BY <1>1, <2>1
      DEF FlushRest, KUntouched, listVars, handleVars, stepVars, keventVars
    <2>3. QED BY <2>2, KSourceKept DEF KeventLive, fixedVars
  <1>2. ASSUME NEW S \in SUBSET Pending, BatchFlush(S) PROVE (\A x \in Sources : KSource(x))'
    <2>1. pc = "flush" /\ ev' = ev /\ knote' = WithChanges(Changes(S)) /\ ChangesAdded(S) /\ Moves(S)
      BY <1>2 DEF BatchFlush, ChangesMove, Moves
    <2>2. \A x \in Sources : ev[x] = {}
      BY <2>1 DEF KeventLive, Types, QueueInv, FlowInv
    <2>3. \A x \in Sources : /\ ev'[x] \subseteq WithChanges(Changes(S))[x]
                             /\ knote'[x] = {d \in WithChanges(Changes(S))[x] : ~(d \in ev'[x] /\ kind[x] \in {"os", "abs"})}
      BY <2>1, <2>2
    <2>4. UNCHANGED <<hand, asked, timerOn, cur>>
      BY <1>2 DEF BatchFlush
    <2>5. QED BY <2>1, <2>3, <2>4, KChangesKeep
  <1>3. ASSUME NEW batch \in SUBSET (Sources \X IO), NEW hup \in SUBSET batch, KWait(batch, hup)
        PROVE  (\A x \in Sources : KSource(x))'
    <2> DEFINE W == WithChanges(Changes(Pending))
    <2>1. pc = "wait" /\ ChangesAdded(Pending) /\ Moves(Pending)
      BY <1>3 DEF KWait, ChangesMove, Moves, Goto, FlagInv
    <2>2. UNCHANGED <<hand, asked, timerOn, cur>>
      BY <1>3 DEF KWait
    <2>3. ASSUME NEW x \in Sources
          PROVE  /\ ev'[x] \subseteq W[x]
                 /\ knote'[x] = {d \in W[x] : ~(d \in ev'[x] /\ kind[x] \in {"os", "abs"})}
      <3>1. \A d \in IO : d \in ev'[x] <=> <<x, d>> \in batch
        BY <1>3 DEF KWait
      <3>2. ev'[x] \subseteq IO
        BY <1>3 DEF KWait
      <3>3. \A e \in batch : e[2] \in W[e[1]]
        BY <1>3 DEF KWait
      <3>4. W[x] \in SUBSET IO
        BY DEF WithChanges, KeventLive, Types, KeventTypes
      <3>5. knote'[x] = {d \in W[x] : ~(<<x, d>> \in batch /\ kind[x] \in {"os", "abs"})}
        BY <1>3 DEF KWait, IsOneshot
      <3> HIDE DEF W
      <3>6. ev'[x] \subseteq W[x]
        BY <3>1, <3>2, <3>3
      <3>7. \A d \in W[x] : <<x, d>> \in batch <=> d \in ev'[x]
        BY <3>1, <3>4
      <3>8. QED BY <3>5, <3>6, <3>7
    <2>4. Pending \in SUBSET Pending
      OBVIOUS
    <2>5. QED BY <2>1, <2>2, <2>3, <2>4, KChangesKeep
  <1>4. (\A S, done : ~BatchFlushFails(S, done)) /\ (\A done : ~KWaitFails(done))
    BY DEF BatchFlushFails, KWaitFails, Goto, Live
  <1>5. QED BY <1>1, <1>2, <1>3, <1>4 DEF KFlushStep, KWaitStep

\* An event is fetched: its filter is no longer added, and about to be handled.
LEMMA KFetchKeeps ==
  ASSUME KeventLive, NEW s \in Sources, NEW d \in IO, UNCHANGED fixedVars, KFetch(s, d)
  PROVE  (\A x \in Sources : KSource(x))'
  <1>1. /\ pc = "batch" /\ pc' = "dispatch" /\ cur = NoSource /\ cur' = s /\ d \in ev[s]
        /\ UNCHANGED <<loc, want, hand, knote, asked>>
    BY CurrentProtected DEF KFetch, Goto, listVars, KeventLive
  <1>2. ev'[s] = ev[s] \ {d} /\ todo' \cap IO = {d} /\ d \in todo'
    BY DEF KFetch, KeventLive, Types, QueueInv, ListTypes, IO
  <1>3. kAdded'[s] = IF Oneshot(s) THEN kAdded[s] \ {d} ELSE kAdded[s]
    BY DEF KFetch, KeventLive, Types, KeventTypes
  <1>4. timerOn'[s] <=> timerOn[s] /\ kind[s] # "abs"
    BY DEF KFetch, KeventLive, Types, NoteTypes
  <1>5. ASSUME NEW x \in Sources \ {s} PROVE KUntouched(x)
    <2>1. timerOn'[x] <=> timerOn[x]
      BY DEF KFetch, KeventLive, Types, NoteTypes
    <2>2. ev'[x] = ev[x] /\ kAdded'[x] = kAdded[x] /\ x # cur /\ x # cur'
      BY <1>1, QueueConstants
      DEF KFetch, KeventLive, Types, QueueInv, ListTypes, KeventTypes
    <2>3. QED BY <1>1, <2>1, <2>2 DEF KUntouched
  <1>6. CASE Oneshot(s)
    <2>1. KOneshot(s) /\ ~IsTimer(s)
      BY <1>6, KCases
    <2>2. ASSUME NEW c \in IO PROVE KFilter(s, c)'
      <3>1. KFilter(s, c) /\ KFilter(s, d)
        BY <2>1 DEF KOneshot
      <3>2. c \in todo' <=> c = d
        BY <1>2
      <3>3. s # cur /\ (s \in Attached' <=> s \in Attached)
        BY <1>1, QueueConstants DEF Attached
      <3>4. QED BY <1>1, <1>2, <1>3, <1>6, <3>1, <3>2, <3>3 DEF KFilter
    <2>3. ~("IN" \in todo' /\ "OUT" \in todo')
      BY <1>2 DEF IO
    <2>4. KOneshot(s)'
      BY <1>1, <2>1, <2>2, <2>3 DEF KOneshot
    <2>5. QED BY <1>5, <1>6, <2>1, <2>4, KOneTouched DEF KeventLive, fixedVars
  <1>7. CASE ~Oneshot(s)
    <2>1. KPlain(s) /\ (IsTimer(s) => KTimer(s))
      BY <1>7, KCases
    <2>2. KPlain(s)'
      BY <1>1, <1>3, <1>7, <2>1 DEF KPlain
    <2>3. IsTimer(s) => KTimer(s)'
      BY <1>1, <1>2, <1>4, <2>1, kind' = kind DEF KTimer, fixedVars
    <2>4. QED BY <1>5, <1>7, <2>2, <2>3, KOneTouched DEF KeventLive, fixedVars
  <1>8. QED BY <1>6, <1>7

\* A handler is called: of a oneshot fd, one that is set and was asked for.
LEMMA KCallKeeps ==
  ASSUME KeventLive, UNCHANGED fixedVars, NEW flag \in {"IN", "HUP", "OUT"},
         KOsFdCall(flag) \/ KRoFdCall(flag) \/ KItimerCall \/ KAbstimerCall
  PROVE  (\A x \in Sources : KSource(x))'
  <1>1. PICK f \in {"IN", "HUP", "OUT"} :
          /\ CallHandler(f) /\ UNCHANGED <<want, kAdded, timerOn, knote>>
          /\ \/ Oneshot(cur) /\ asked' = [asked EXCEPT ![cur] = @ \ {f}]
             \/ ~Oneshot(cur) /\ UNCHANGED asked
    BY DEF KOsFdCall, KRoFdCall, RoFdCall, KItimerCall, KAbstimerCall, KTimerCall,
        keventVars, Oneshot
  <1>2. /\ pc = "dispatch" /\ pc' = "cb" /\ todo' = todo \cap After(f) /\ calling' = f
        /\ f \in Callable /\ Callable \ {f} \subseteq After(f)
        /\ UNCHANGED <<loc, ev, cur, hand>>
    BY <1>1 DEF CallHandler, Goto, listVars
  <1>3. PICK s \in Sources : s = cur
    BY <1>2, CurrentProtected DEF KeventLive
  <1>4. ASSUME NEW x \in Sources \ {s} PROVE KUntouched(x)
    BY <1>1, <1>2, <1>3 DEF KUntouched, KeventLive, Types, KeventTypes
  <1>5. CASE Oneshot(s)
    <2>1. KOneshot(s) /\ ~IsTimer(s)
      BY <1>5, KCases
    <2>2. asked'[s] = asked[s] \ {f}
      BY <1>1, <1>3, <1>5 DEF KeventLive, Types, KeventTypes
    <2>3. \A d \in IO : d \in todo => d \in Callable
      BY <1>2, <1>3, <2>1 DEF KOneshot, KFilter, Callable, IO
    <2>4. f \in todo
      BY <1>2 DEF Callable
    <2>5. \A d \in IO : d \in todo => d = f \/ d \in todo'
      BY <1>2, <2>3
    <2>6. f # "HUP" => "IN" \notin todo' /\ "OUT" \notin todo'
      BY <1>2, <1>3, <2>1, <2>4 DEF KOneshot, After
    <2>7. ASSUME NEW d \in IO PROVE KFilter(s, d)'
      <3>1. KFilter(s, d)
        BY <2>1 DEF KOneshot
      <3>2. d = f => d \notin kAdded[s] /\ d \notin want[s]
        BY <1>2, <1>3, <2>4, <3>1 DEF KFilter
      <3>3. s \in Attached' <=> s \in Attached
        BY <1>2 DEF Attached
      <3>4. QED BY <1>1, <1>2, <2>2, <2>5, <3>1, <3>2, <3>3 DEF KFilter
    <2>8. KOneshot(s)'
      BY <1>1, <1>2, <2>1, <2>6, <2>7 DEF KOneshot
    <2>9. QED BY <1>4, <1>5, <2>1, <2>8, KOneTouched DEF KeventLive, fixedVars
  <1>6. CASE ~Oneshot(s)
    <2>1. KPlain(s) /\ (IsTimer(s) => KTimer(s))
      BY <1>6, KCases
    <2>2. KPlain(s)'
      BY <1>1, <1>2, <1>3, <1>6, <2>1 DEF KPlain
    <2>3. IsTimer(s) => KTimer(s)'
      BY <1>1, <1>2, <2>1, kind' = kind DEF KTimer, fixedVars
    <2>4. QED BY <1>4, <1>6, <2>2, <2>3, KOneTouched DEF KeventLive, fixedVars
  <1>7. QED BY <1>5, <1>6

\* The callback returned CONTINUE: only hup leaves a flag undone.
LEMMA KContinueKeeps ==
  ASSUME KeventLive, UNCHANGED fixedVars, CbContinue, UNCHANGED keventVars
  PROVE  (\A x \in Sources : KSource(x))'
  <1>1. /\ pc = "cb" /\ pc' = "dispatch" /\ calling # "HUP"
        /\ UNCHANGED <<loc, ev, cur, want, hand, todo, kAdded, timerOn, knote, asked>>
    BY DEF CbContinue, Goto, listVars, keventVars
  <1>2. PICK s \in Sources : s = cur
    BY <1>1, CurrentProtected DEF KeventLive
  <1>3. \A x \in Sources \ {s} : KUntouched(x)
    BY <1>1, <1>2 DEF KUntouched
  <1>4. ASSUME Oneshot(s) PROVE KOneshot(s)'
    <2>1. KOneshot(s)
      BY <1>4, KCases
    <2>2. "IN" \notin todo /\ "OUT" \notin todo
      BY <1>1, <1>2, <2>1 DEF KOneshot
    <2>3. QED BY <1>1, <2>1, <2>2 DEF KOneshot, KFilter, Attached, IO
  <1>5. ~Oneshot(s) => KPlain(s)'
    BY <1>1, KCases DEF KPlain
  <1>6. IsTimer(s) => KTimer(s)'
    BY <1>1, KCases, kind' = kind DEF KTimer, fixedVars
  <1>7. QED BY <1>3, <1>4, <1>5, <1>6, KOneTouched DEF KeventLive, fixedVars

\* No callback is left, so nothing that was asked for is; an absolute timer is pending.
LEMMA KHandledKeeps ==
  ASSUME KeventLive, UNCHANGED fixedVars, KHandled
  PROVE  (\A x \in Sources : KSource(x))'
  <1>1. /\ pc = "dispatch" /\ Callable = {} /\ cur' = NoSource
        /\ UNCHANGED <<ev, want, hand, kAdded, knote, asked>>
    BY DEF KHandled, Handled, HandleContinue
  <1>2. PICK s \in Sources : s = cur
    BY <1>1, CurrentProtected DEF KeventLive
  <1>3. s # cur'
    BY <1>1, QueueConstants
  <1>4. ASSUME NEW x \in Sources \ {s} PROVE KUntouched(x)
    <2>1. loc'[x] = loc[x]
      BY <1>2
      DEF KHandled, RunningToPending, listVars, KeventLive, Types, QueueInv, ListTypes
    <2>2. timerOn'[x] <=> timerOn[x]
      BY <1>2 DEF KHandled, KeventLive, Types, NoteTypes
    <2>3. QED BY <1>1, <1>2, <2>1, <2>2, QueueConstants DEF KUntouched
  <1>5. ASSUME Oneshot(s) PROVE KOneshot(s)'
    <2>1. KOneshot(s)
      BY <1>5, KCases
    <2>2. \A d \in IO : d \notin todo
      BY <1>1, <1>2, <2>1 DEF KOneshot, KFilter, Callable, IO
    <2>3. loc' = loc
      BY <1>2, <1>5 DEF KHandled, Oneshot, listVars
    <2>4. QED BY <1>1, <1>3, <2>1, <2>2, <2>3 DEF KOneshot, KFilter, Attached
  <1>6. ASSUME ~Oneshot(s) PROVE KPlain(s)' /\ (IsTimer(s) => KTimer(s)')
    <2>1. KPlain(s) /\ (IsTimer(s) => KTimer(s))
      BY <1>6, KCases
    <2>2. CASE kind[s] = "abs"
      <3>1. loc'[s] = "pend"
        BY <1>2, <2>2
        DEF KHandled, RunningToPending, KeventLive, Types, QueueInv, ListTypes
      <3>2. timerOn'[s]
        BY <1>2, <2>2 DEF KHandled, KeventLive, Types, NoteTypes
      <3>3. knote[s] = {} /\ ev[s] = {}
        BY <1>2, <2>1, <2>2 DEF KTimer, IsTimer
      <3>4. QED BY <1>1, <1>3, <2>1, <3>1, <3>2, <3>3 DEF KPlain, KTimer
    <2>3. CASE kind[s] # "abs"
      <3>1. loc' = loc /\ timerOn' = timerOn
        BY <1>2, <2>3 DEF KHandled, listVars
      <3>2. QED BY <1>1, <1>3, <2>1, <2>3, <3>1, kind' = kind DEF KPlain, KTimer, fixedVars
    <2>4. QED BY <2>2, <2>3
  <1>7. QED BY <1>4, <1>5, <1>6, KCases, KOneTouched DEF KeventLive, fixedVars

\* The steps between two events, and the first round.
LEMMA KReturnsKeeps ==
  ASSUME KeventLive, UNCHANGED fixedVars, Returns \/ Run, UNCHANGED keventVars
  PROVE  (\A x \in Sources : KSource(x))'
  <1>1. pc \notin {"dispatch", "cb"} /\ UNCHANGED <<loc, ev, cur, want, hand>>
    BY DEF Returns, BatchDone, RemoveReturn, RoundDone, Run, Goto, listVars, handleVars,
        queueVars
  <1>2. \A x \in Sources : x # cur
    BY <1>1, CurrentProtected DEF KeventLive
  <1>3. \A x \in Sources : KUntouched(x)
    BY <1>1, <1>2 DEF KUntouched, keventVars
  <1>4. QED BY <1>3, KSourceKept DEF KeventLive, fixedVars

\* The calls of the client.
LEMMA KClientKeeps ==
  ASSUME Orderly, KeventLive, UNCHANGED fixedVars, KClient
  PROVE  (\A x \in Sources : KSource(x))'
  <1>1. PICK s \in Sources :
          \/ KNew(s) \/ KDel(s) \/ KReset(s) \/ KAttach(s) \/ KRegulate(s)
          \/ \E toClose \in BOOLEAN : KDetach(s, toClose)
          \/ \E d \in IO : KResetIO(s, d) \/ KUnsetIO(s, d)
          \/ \E d \in IO, on \in BOOLEAN : KInitIO(s, d, on)
    BY DEF KClient
  <1>2. ASSUME NEW toClose \in BOOLEAN, KDetach(s, toClose) PROVE (\A x \in Sources : KSource(x))'
    <2>1. s \in Attached /\ ~noDetach[s] /\ UNCHANGED <<pc, cur, todo, calling, want, hand>>
      BY <1>2 DEF KDetach, SourceDetach, DetachAllowed, stepVars
    <2>2. s # cur
      BY <2>1, CurrentProtected DEF KeventLive
    <2>3. QED BY <1>2, <2>1, <2>2, KDetachKeeps DEF KDetach, SourceDetach
  <1>3. QED
    BY <1>1, <1>2, KNewKeeps, KAttachKeeps, KRegulateKeeps, KInitIOKeeps, KResetIOKeeps,
       KUnsetIOKeeps

\* Every step of a loop that goes on keeps KSource.
LEMMA KeventKeeps ==
  ASSUME Orderly, KeventLive, FlagInv, UNCHANGED fixedVars, KeventNext, Live'
  PROVE  (\A x \in Sources : KSource(x))'
  <1>1. CASE KClient
    BY <1>1, KClientKeeps
  <1>2. CASE KRound
    BY <1>2, KRoundKeeps, KFetchKeeps DEF KRound, KFlushStep, KWaitStep
  <1>3. CASE KHandling
    <2>1. ~KRegulateFails /\ ~KBreak /\ ~WaitFails
      BY DEF KRegulateFails, KBreak, CbBreak, HandleBreak, WaitFails, Goto, Live
    <2>2. ASSUME NEW toClose \in BOOLEAN, CbRemove, KeventDetach(cur, toClose)
          PROVE  (\A x \in Sources : KSource(x))'
      <3>1. PICK s \in Sources : s = cur
        BY <2>2, CurrentProtected DEF CbRemove, KeventLive
      <3>2. s \in Attached /\ DetachFromQueue(s) /\ cur' = NoSource /\ UNCHANGED <<want, hand>>
        BY <2>2, <3>1, CurrentProtected DEF CbRemove, HandleRemove, KeventLive
      <3>3. QED BY <2>2, <3>1, <3>2, KDetachKeeps
    <2>3. QED
      BY <1>3, <2>1, <2>2, KCallKeeps, KHandledKeeps, KContinueKeeps, KReturnsKeeps
      DEF KHandling
  <1>4. CASE KDestroy
    BY <1>4
    DEF KDestroy, DestroyStep, DestroyStart, DestroyCursor, DestroyNext, DestroyRemove,
        DestroyDetach, RunningHalf, Goto, Live
  <1>5. CASE Run /\ UNCHANGED keventVars
    BY <1>5, KReturnsKeeps
  <1>6. QED BY <1>1, <1>2, <1>3, <1>4, <1>5 DEF KeventNext

\* stats_updated and the history of failed flushes keep their types.
LEMMA KCountTypes ==
  ASSUME Types, KeventNext
  PROVE  CountTypes'
  <1> USE DEF Types, CountTypes
  <1>1. CASE KClient
    <2>1. PICK s \in Sources :
            \/ KNew(s) \/ KDel(s) \/ KReset(s) \/ KAttach(s) \/ KRegulate(s)
            \/ \E toClose \in BOOLEAN : KDetach(s, toClose)
            \/ \E d \in IO : KResetIO(s, d) \/ KUnsetIO(s, d)
            \/ \E d \in IO, on \in BOOLEAN : KInitIO(s, d, on)
      BY <1>1 DEF KClient
    <2>2. refused' = refused
      BY <2>1
      DEF KNew, KDel, KReset, KAttach, KRegulate, KDetach, KeventDetach, KResetIO,
          KUnsetIO, KInitIO, keventVars
    <2>3. \/ counted' = counted \/ counted' = [counted EXCEPT ![s] = FALSE]
          \/ counted' = [counted EXCEPT ![s] = @ /\ want[s] = {}]
      BY <2>1
      DEF KNew, KDel, KReset, KAttach, KOsFdAdd, KRoFdAdd, KItimerAdd, KAbstimerAdd, TimerAdd,
          KRegulate, KDetach, KeventDetach, KResetIO, KUnsetIO, KInitIO, keventVars
    <2>4. counted' \in [Sources -> BOOLEAN]
      BY <2>3
    <2>5. QED BY <2>2, <2>4
  <1>2. CASE KRound
    <2>1. ASSUME NEW S \in SUBSET Pending, NEW done \in SUBSET Changes(Pending),
                 BatchFlushFails(S, done)
          PROVE  CountTypes'
      <3>1. \A change \in done : change[1] \in Sources
        BY DEF Changes, Pending
      <3>2. refused' \subseteq Sources
        BY <2>1, <3>1 DEF BatchFlushFails
      <3>3. counted' \in [Sources -> BOOLEAN]
        BY <2>1 DEF BatchFlushFails, LookedAt
      <3>4. QED BY <3>2, <3>3
    <2>2. CASE ~\E S \in SUBSET Pending, done \in SUBSET Changes(Pending) : BatchFlushFails(S, done)
      <3>1. refused' = refused
        BY <1>2, <2>2 DEF KRound, FlushRest, BatchFlush, KWait, KWaitFails, KFetch
      <3>2. \/ counted' = counted
            \/ counted' = [s \in Sources |-> counted[s] /\ s \notin Pending]
            \/ \E S \in SUBSET Pending : counted' = [s \in Sources |-> counted[s] \/ (s \in S /\ Oneshot(s))]
        BY <1>2, <2>2
        DEF KRound, FlushRest, LookedAt, BatchFlush, KWait, KWaitFails, KFetch, ChangesMove
      <3>3. counted' \in [Sources -> BOOLEAN]
        BY <3>2 DEF Oneshot
      <3>4. QED BY <3>1, <3>3
    <2>3. QED BY <2>1, <2>2
  <1>3. CASE KHandling \/ KDestroy \/ (Run /\ UNCHANGED keventVars)
    BY <1>3
    DEF KHandling, KDestroy, KOsFdCall, KRoFdCall, KItimerCall, KAbstimerCall, KTimerCall,
        KHandled, KRegulateFails, KBreak, KeventDetach, keventVars
  <1>4. QED BY <1>1, <1>2, <1>3 DEF KeventNext

\* Only a flush that has looked at all pending sources leads to wait.
LEMMA KFlagStep ==
  ASSUME Types, FlagInv, KeventNext
  PROVE  FlagInv'
  <1>1. CASE FlushRest
    BY <1>1 DEF FlushRest, LookedAt, FlagInv, Stale, Pending, listVars
  <1>2. ASSUME ~FlushRest PROVE pc' # "wait"
    <2>1. CASE KClient
      <3>1. PICK s \in Sources :
              \/ KNew(s) \/ KDel(s) \/ KReset(s) \/ KAttach(s) \/ KRegulate(s)
              \/ \E toClose \in BOOLEAN : KDetach(s, toClose)
              \/ \E d \in IO : KResetIO(s, d) \/ KUnsetIO(s, d)
              \/ \E d \in IO, on \in BOOLEAN : KInitIO(s, d, on)
        BY <2>1 DEF KClient
      <3>2. InClient \/ InDestroy
        BY <3>1
        DEF KNew, KCreateOsFd, KCreateRoFd, KCreateItimer, KCreateAbstimer, NewOsFd, NewRoFd,
            NewItimer, NewAbstimer, NewEmpty, KDel, SourceDel, KReset, OsFdReset, KAttach,
            SourceAttach, AttachAllowed, KRegulate, KDetach, SourceDetach, DetachAllowed,
            KResetIO, KUnsetIO, KMayNextIO, KInitIO, InitIO, MayNextIO
      <3>3. pc' = pc
        BY <3>1
        DEF KNew, KCreateOsFd, KCreateRoFd, KCreateItimer, KCreateAbstimer, NewOsFd, NewRoFd,
            NewItimer, NewAbstimer, NewEmpty, KDel, SourceDel, KReset, OsFdReset, KAttach,
            SourceAttach, KRegulate, KDetach, SourceDetach, KResetIO, KUnsetIO, KInitIO,
            InitIO, queueVars
      <3>4. QED BY <3>2, <3>3 DEF InClient, InDestroy
    <2>2. CASE KRound
      BY <1>2, <2>2
      DEF KRound, BatchFlush, BatchFlushFails, KWait, KWaitFails, KFetch, Goto
    <2>3. CASE KHandling
      BY <2>3
      DEF KHandling, KOsFdCall, KRoFdCall, RoFdCall, KItimerCall, KAbstimerCall, KTimerCall,
          CallHandler, KHandled, Handled, HandleContinue, KRegulateFails, KBreak, CbBreak,
          HandleBreak, CbRemove, HandleRemove, WaitFails, CbContinue, Returns, BatchDone,
          RemoveReturn, RoundDone, Goto
    <2>4. CASE KDestroy \/ Run
      BY <2>4
      DEF KDestroy, DestroyStep, DestroyStart, DestroyCursor, DestroyNext, DestroyRemove,
          DestroyDetach, RunningHalf, Run, Goto
    <2>5. QED BY <2>1, <2>2, <2>3, <2>4 DEF KeventNext
  <1>3. QED BY <1>1, <1>2 DEF FlagInv

\* What KStray says of x survives when what the driver noted of x does.
LEMMA KStraySame ==
  ASSUME NEW x \in Sources, KStray(x), UNCHANGED fixedVars,
         knote'[x] = knote[x], kAdded'[x] = kAdded[x], timerOn'[x] <=> timerOn[x],
         \/ loc'[x] = loc[x] \/ (Oneshot(x) /\ x \in Attached')
         \/ (loc[x] = "pend" /\ loc'[x] = "run")
  PROVE  KStray(x)'
  BY DEF KStray, Oneshot, IsTimer, Attached, fixedVars

\* KStray follows from what holds while the loop goes on.
LEMMA KSourceStray ==
  ASSUME NEW x \in Sources, KSource(x)', knote'[x] \in SUBSET IO
  PROVE  KStray(x)'
  <1>1. CASE Oneshot(x)'
    <2>1. \A d \in IO : KFilter(x, d)'
      BY <1>1 DEF KSource, KOneshot
    <2>2. QED BY <1>1, <2>1 DEF KStray, KFilter, Oneshot, IsTimer
  <1>2. CASE ~Oneshot(x)'
    BY <1>2 DEF KStray, KSource, KPlain, KTimer, Attached
  <1>3. QED BY <1>1, <1>2

\* A detach function leaves nothing of its source in the kqueue.
LEMMA KStrayDetach ==
  ASSUME Types, \A x \in Sources \ refused : KStray(x), UNCHANGED <<fixedVars, refused>>,
         NEW s \in Sources, NEW toClose \in BOOLEAN, DetachFromQueue(s), KeventDetach(s, toClose)
  PROVE  (\A x \in Sources \ refused : KStray(x))'
  <1>1. ASSUME NEW x \in Sources \ refused, x # s PROVE KStray(x)'
    <2>1. loc'[x] = loc[x] /\ kAdded'[x] = kAdded[x] /\ knote'[x] = knote[x]
      BY <1>1
      DEF Types, QueueInv, ListTypes, DetachFromQueue, KeventTypes, KeventDetach,
          KOsFdDetach, KRoFdDetach, KItimerDetach, KAbstimerDetach, TimerDelete, Delete
    <2>2. timerOn'[x] <=> timerOn[x]
      BY <1>1
      DEF Types, NoteTypes, KeventDetach, KOsFdDetach, KRoFdDetach, KItimerDetach,
          KAbstimerDetach, TimerDelete
    <2>3. QED BY <1>1, <2>1, <2>2, KStraySame
  <1>2. ASSUME s \notin refused PROVE knote'[s] = {}
    <2>1. KStray(s) /\ knote[s] \in SUBSET IO
      BY <1>2 DEF Types, KeventTypes
    <2>2. \/ Oneshot(s) /\ knote'[s] = knote[s] \ (IF toClose THEN IO ELSE kAdded[s])
          \/ kind[s] = "ro" /\ knote'[s] = knote[s] \ (IF toClose \/ loc[s] # "pend" THEN {"IN"} ELSE {})
          \/ IsTimer(s) /\ knote'[s] = knote[s] \ (IF timerOn[s] /\ loc[s] # "pend" THEN {"IN"} ELSE {})
      BY DEF Types, KeventTypes, KeventDetach, KOsFdDetach, KRoFdDetach, KItimerDetach,
          KAbstimerDetach, TimerDelete, Delete, IsTimer
    <2>3. QED BY <2>1, <2>2 DEF KStray, Oneshot, IsTimer
  <1>3. QED BY <1>1, <1>2 DEF KStray

\* The calls of the client, also when the loop has ended.
LEMMA KStrayClient ==
  ASSUME Types, \A x \in Sources \ refused : KStray(x), UNCHANGED fixedVars, KClient
  PROVE  (\A x \in Sources \ refused : KStray(x))'
  <1>1. PICK s \in Sources :
          \/ KNew(s) \/ KDel(s) \/ KReset(s) \/ KAttach(s) \/ KRegulate(s)
          \/ \E toClose \in BOOLEAN : KDetach(s, toClose)
          \/ \E d \in IO : KResetIO(s, d) \/ KUnsetIO(s, d)
          \/ \E d \in IO, on \in BOOLEAN : KInitIO(s, d, on)
    BY DEF KClient
  <1>2. refused' = refused
    BY <1>1
    DEF KNew, KDel, KReset, KAttach, KRegulate, KDetach, KeventDetach, KResetIO, KUnsetIO,
        KInitIO, keventVars
  <1>3. ASSUME NEW toClose \in BOOLEAN, KDetach(s, toClose)
        PROVE  (\A x \in Sources \ refused : KStray(x))'
    BY <1>2, <1>3, KStrayDetach DEF KDetach, SourceDetach
  <1>4. SUFFICES ASSUME NEW x \in Sources \ refused, \A toClose \in BOOLEAN : ~KDetach(s, toClose)
                 PROVE  KStray(x)'
    BY <1>2, <1>3
  <1>5. CASE x # s
    <2>1. loc'[x] = loc[x] /\ knote'[x] = knote[x] /\ kAdded'[x] = kAdded[x]
      BY <1>1, <1>4, <1>5
      DEF Types, QueueInv, ListTypes, KeventTypes, KNew, KCreateOsFd, KCreateRoFd,
          KCreateItimer, KCreateAbstimer, NewOsFd, NewRoFd, NewItimer, NewAbstimer, NewEmpty,
          KDel, SourceDel, KReset, OsFdReset, KAttach, KOsFdAdd, KRoFdAdd, KItimerAdd,
          KAbstimerAdd, TimerAdd, OsFdAttach, RoFdAttach, TimerAttach, InsertPending,
          InsertRunning, KRegulate, KResetIO, RunningToPending, KUnsetIO, PendingToRunning,
          Delete, KInitIO, InitIO, keventVars, queueVars, listVars
    <2>2. timerOn'[x] <=> timerOn[x]
      BY <1>1, <1>4, <1>5
      DEF Types, NoteTypes, KNew, KDel, KReset, KAttach, KOsFdAdd, KRoFdAdd, KItimerAdd,
          KAbstimerAdd, TimerAdd, KRegulate, KResetIO, KUnsetIO, KInitIO, keventVars
    <2>3. QED BY <2>1, <2>2, KStraySame
  <1>6. CASE x = s
    <2>1. KStray(s) /\ knote[s] \in SUBSET IO
      BY <1>6 DEF Types, KeventTypes
    <2>2. CASE KNew(s) \/ KDel(s) \/ KReset(s) \/ KAttach(s) \/ \E d \in IO, on \in BOOLEAN : KInitIO(s, d, on)
      <3>1. s \notin Attached /\ knote' = knote
        BY <2>2
        DEF KNew, KCreateOsFd, KCreateRoFd, KCreateItimer, KCreateAbstimer, NewOsFd,
            NewRoFd, NewItimer, NewAbstimer, NewEmpty, KDel, SourceDel, KReset, OsFdReset,
            KAttach, SourceAttach, AttachAllowed, KInitIO, InitIO, keventVars, Attached
      <3>2. QED BY <1>6, <2>1, <3>1 DEF KStray
    <2>3. CASE KRegulate(s)
      <3>1. knote'[s] = IF timerOn[s] /\ loc[s] = "run" THEN {"IN"} ELSE knote[s]
        BY <2>3 DEF KRegulate, Types, KeventTypes
      <3>2. UNCHANGED <<loc, kAdded, timerOn, kind>> /\ kind[s] = "abs"
        BY <2>3 DEF KRegulate, queueVars, listVars, fixedVars
      <3>3. QED BY <1>6, <2>1, <3>1, <3>2 DEF KStray, Attached, Oneshot, IsTimer
    <2>4. ASSUME NEW d \in IO, KResetIO(s, d) PROVE KStray(x)'
      <3>1. Oneshot(s) /\ s \in Attached' /\ UNCHANGED <<knote, kAdded, timerOn>>
        BY <2>4
        DEF KResetIO, KMayNextIO, RunningToPending, listVars, Attached, Types, QueueInv,
            ListTypes
      <3>2. QED BY <1>6, <2>1, <3>1, KStraySame
    <2>5. ASSUME NEW d \in IO, KUnsetIO(s, d) PROVE KStray(x)'
      <3>1. Oneshot(s) /\ s \in Attached' /\ timerOn' = timerOn
        BY <2>5
        DEF KUnsetIO, KMayNextIO, PendingToRunning, listVars, Attached, Types, QueueInv,
            ListTypes
      <3>2. \/ knote'[s] = knote[s] /\ kAdded'[s] = kAdded[s]
            \/ knote'[s] = knote[s] \ {d} /\ kAdded'[s] = kAdded[s] \ {d}
        BY <2>5 DEF KUnsetIO, Delete, Types, KeventTypes
      <3>3. QED BY <1>6, <2>1, <3>1, <3>2 DEF KStray, Oneshot, IsTimer, fixedVars
    <2>6. QED BY <1>1, <1>4, <2>2, <2>3, <2>4, <2>5
  <1>7. QED BY <1>5, <1>6

\* A wait that failed: what the kernel had added belongs to sources that are running now.
LEMMA KStrayWaitFails ==
  ASSUME Types, FlagInv, \A x \in Sources : KSource(x), \A x \in Sources \ refused : KStray(x),
         UNCHANGED fixedVars, NEW done, KWaitFails(done)
  PROVE  (\A x \in Sources \ refused : KStray(x))'
  <1>1. /\ done \subseteq Changes(Pending) /\ ChangesAdded(Pending) /\ Moves(Pending)
        /\ knote' = WithChanges(done) /\ UNCHANGED <<timerOn, refused>>
    BY DEF KWaitFails, ChangesMove, Moves, Goto, FlagInv
  <1> SUFFICES ASSUME NEW x \in Sources \ refused PROVE KStray(x)'
    BY <1>1
  <1>2. loc'[x] = IF x \in Pending THEN "run" ELSE loc[x]
    BY <1>1 DEF Moves
  <1>3. kAdded'[x] = IF x \in Pending /\ Oneshot(x) THEN kAdded[x] \cup want[x] ELSE kAdded[x]
    BY <1>1 DEF ChangesAdded
  <1>4. Pending \in SUBSET Sources
    BY DEF Pending
  <1>5. ASSUME NEW d \in knote'[x], d \notin knote[x]
        PROVE  x \in Pending /\ (IF Oneshot(x) THEN d \in want[x] ELSE d = "IN")
    <2>1. <<x, d>> \in Changes(Pending)
      BY <1>1, <1>5 DEF WithChanges
    <2>2. QED BY <1>4, <2>1, ChangesOf
  <1>6. CASE x \in Pending
    <2>1. loc[x] = "pend" /\ loc'[x] = "run"
      BY <1>2, <1>6 DEF Pending
    <2>2. KStray(x) /\ (IsTimer(x) => timerOn[x])
      BY <2>1 DEF KSource, KTimer
    <2>3. QED BY <1>1, <1>3, <1>5, <1>6, <2>1, <2>2 DEF KStray, Attached, Oneshot, IsTimer, fixedVars
  <1>7. CASE x \notin Pending
    <2>1. knote'[x] \subseteq knote[x] /\ loc'[x] = loc[x] /\ kAdded'[x] = kAdded[x]
      BY <1>2, <1>3, <1>5, <1>7
    <2>2. QED BY <1>1, <2>1 DEF KStray, Attached, Oneshot, IsTimer, fixedVars
  <1>8. QED BY <1>6, <1>7

\* Every step keeps StrayInv: by KSource while the loop goes on, and afterwards because
\* the detach functions go by what KStray says.
LEMMA KStrayStep ==
  ASSUME Types, Types', QueueKept, FlagInv, Live => \A x \in Sources : KSource(x), StrayInv,
         UNCHANGED fixedVars, KeventNext, Live' => (\A x \in Sources : KSource(x))'
  PROVE  StrayInv'
  <1> USE DEF StrayInv
  <1>1. CASE Live'
    <2>1. ASSUME NEW x \in Sources PROVE KStray(x)'
      <3>1. KSource(x)' /\ knote'[x] \in SUBSET IO
        BY <1>1 DEF Types, KeventTypes
      <3>2. QED BY <3>1, KSourceStray
    <2>2. QED BY <2>1
  <1>2. CASE ~Live'
    <2>1. CASE KClient
      BY <2>1, KStrayClient
    <2>2. ASSUME NEW done, KWaitFails(done) PROVE StrayInv'
      <3>1. Live
        BY <2>2 DEF KWaitFails, Goto, Live
      <3>2. QED BY <2>2, <3>1, KStrayWaitFails
    <2>3. ASSUME NEW S, NEW done, BatchFlushFails(S, done) PROVE StrayInv'
      <3>1. UNCHANGED <<loc, kAdded, timerOn>> /\ knote' = WithChanges(done)
        BY <2>3 DEF BatchFlushFails, listVars
      <3>2. ASSUME NEW x \in Sources, x \notin refused'
            PROVE  x \notin refused /\ \A d : <<x, d>> \notin done
        BY <2>3, <3>2 DEF BatchFlushFails
      <3>3. ASSUME NEW x \in Sources, x \notin refused' PROVE KStray(x)'
        <4>1. knote'[x] = knote[x]
          BY <3>1, <3>2, <3>3 DEF WithChanges, Types, KeventTypes
        <4>2. QED BY <3>1, <3>2, <3>3, <4>1, KStraySame
      <3>4. QED BY <3>3
    <2>4. ASSUME NEW s \in Sources, NEW toClose \in BOOLEAN, DetachFromQueue(s),
                 KeventDetach(s, toClose)
          PROVE  StrayInv'
      <3>1. refused' = refused
        BY <2>4 DEF KeventDetach
      <3>2. QED BY <2>4, <3>1, KStrayDetach
    <2>5. ASSUME UNCHANGED <<loc, kAdded, knote, timerOn, refused>> PROVE StrayInv'
      BY <2>5, KStraySame
    <2>6. CASE KRound
      <3>1. ~FlushRest /\ \A S, batch, hup, s, d : ~BatchFlush(S) /\ ~KWait(batch, hup) /\ ~KFetch(s, d)
        BY <1>2 DEF FlushRest, BatchFlush, KWait, KFetch, Goto, Live
      <3>2. QED BY <2>2, <2>3, <2>6, <3>1 DEF KRound
    <2>7. CASE KHandling
      <3>1. CASE \E toClose \in BOOLEAN : CbRemove /\ KeventDetach(cur, toClose)
        BY <1>2, <3>1 DEF CbRemove, HandleRemove, Live
      <3>2. ~KHandled /\ ~KItimerCall /\ ~KAbstimerCall /\ \A flag : ~KOsFdCall(flag) /\ ~KRoFdCall(flag)
        BY <1>2
        DEF KHandled, Handled, HandleContinue, KItimerCall, KAbstimerCall, KTimerCall,
            KOsFdCall, KRoFdCall, RoFdCall, CallHandler, Goto, Live
      <3>3. CASE KRegulateFails \/ KBreak \/ ((WaitFails \/ CbContinue \/ Returns) /\ UNCHANGED keventVars)
        BY <2>5, <3>3
        DEF KRegulateFails, KBreak, CbBreak, HandleBreak, WaitFails, CbContinue, Returns,
            BatchDone, RemoveReturn, RoundDone, listVars, keventVars
      <3>4. QED BY <2>7, <3>1, <3>2, <3>3 DEF KHandling
    <2>8. CASE KDestroy
      <3>1. ASSUME NEW s \in Sources, DestroyRemove(s), KeventDetach(s, FALSE) PROVE StrayInv'
        BY <2>4, <3>1 DEF DestroyRemove, DestroyDetach
      <3>2. CASE DestroyStep /\ UNCHANGED keventVars
        BY <2>5, <3>2
        DEF DestroyStep, DestroyStart, DestroyCursor, DestroyNext, listVars, keventVars
      <3>3. QED BY <2>8, <3>1, <3>2 DEF KDestroy
    <2>9. CASE Run /\ UNCHANGED keventVars
      BY <1>2, <2>9 DEF Run, Live
    <2>10. QED BY <2>1, <2>6, <2>7, <2>8, <2>9 DEF KeventNext
  <1>3. QED BY <1>1, <1>2

\* Every step of kevent keeps the types and its invariant.
LEMMA KeventStep ==
  ASSUME Orderly, Types, QueueKept, KeventInv, driver = "kevent", UNCHANGED fixedVars,
         KeventNext, UNCHANGED portVars
  PROVE  Types' /\ QueueKept' /\ KeventInv'
  <1>1. Exact /\ (Live => \A s \in Sources : KSource(s)) /\ FlagInv /\ StrayInv
    BY DEF KeventInv
  <1>2. DriverTypes'
    BY KeventClientTypes, KeventRoundTypes, KeventHandlingTypes DEF KeventNext
  <1>3. NativeStep /\ Balanced
    <2>1. CASE KFlushStep \/ KWaitStep
      <3>1. Live
        BY <2>1
        DEF KFlushStep, KWaitStep, FlushRest, BatchFlush, BatchFlushFails, KWait,
            KWaitFails, Goto, Live
      <3>2. QED BY <1>1, <2>1, <3>1, KeventRoundStep DEF NativeStep
    <2>2. CASE ~(KFlushStep \/ KWaitStep)
      <3>1. (PlainStep \/ FetchStep \/ BreakStep) /\ CurrentMoves
        BY <1>1, <2>2, KeventClientStep, KeventHandlingStep
        DEF KeventNext, KRound, KFlushStep, KWaitStep
      <3>2. QED BY <3>1, StepCounts DEF NativeStep, CurrentMoves, Types
    <2>3. QED BY <2>1, <2>2
  <1>4. QueueInv'
    BY <1>3, StepQueue DEF Types
  <1>5. Types'
    BY <1>2, <1>4, KCountTypes DEF Types, DriverTypes, FixedTypes, fixedVars
  <1>6. QueueKept'
    BY <1>3, StepKept DEF Types
  <1>7. Exact'
    BY <1>1, <1>3, <1>4, StepExact DEF Types
  <1>8. ASSUME Live' PROVE (\A s \in Sources : KSource(s))'
    BY <1>1, <1>3, <1>8, StepLive, KeventKeeps DEF KeventLive
  <1>9. FlagInv' /\ StrayInv'
    BY <1>1, <1>5, <1>8, KFlagStep, KStrayStep
  <1>10. QED BY <1>5, <1>6, <1>7, <1>8, <1>9 DEF KeventInv

-----------------------------------------------------------------------------
(***************************************************************************)
(* event_port: what its steps do to the queue and to the types.            *)
(***************************************************************************)
\* What the port may report.
LEMMA PortReports ==
  ASSUME Types, NEW s \in Sources, NEW flags \in PReports(s)
  PROVE  /\ flags \in SUBSET {"IN", "OUT", "HUP", "ERR"} /\ flags # {}
         /\ IsTimer(s) => s \in Attached
         /\ ~IsTimer(s) => pmask[s] # {} /\ \A d \in IO : d \in flags => d \in pmask[s]
  <1>1. CASE IsTimer(s)
    BY <1>1 DEF PReports
  <1>2. CASE ~IsTimer(s)
    <2>1. pmask[s] # {} /\ flags \in ((SUBSET (pmask[s] \cup {"HUP"})) \ {{}}) \cup {{"ERR"}}
      BY <1>2 DEF PReports
    <2>2. pmask[s] \in SUBSET {"IN", "OUT"}
      BY DEF Types, MaskTypes, IO
    <2>3. QED BY <1>2, <2>1, <2>2 DEF IO
  <1>3. QED BY <1>1, <1>2

\* What a batch holds then.
LEMMA PortBatch ==
  ASSUME Types, NEW batch \in SUBSET Sources, PWait(batch)
  PROVE  /\ ev' \in [Sources -> SUBSET {"IN", "OUT", "HUP", "ERR"}]
         /\ \A s \in Sources \ batch : ev'[s] = {}
         /\ \A s \in batch : ev'[s] \in PReports(s)
  <1>1. PICK f \in [batch -> UNION {PReports(s) : s \in batch}] :
          /\ \A s \in batch : f[s] \in PReports(s)
          /\ ev' = [s \in Sources |-> IF s \in batch THEN f[s] ELSE {}]
    BY DEF PWait
  <1>2. \A s \in batch : ev'[s] \in PReports(s)
    BY <1>1
  <1>3. \A s \in Sources : ev'[s] \in SUBSET {"IN", "OUT", "HUP", "ERR"}
    BY <1>1, <1>2, PortReports
  <1>4. ev' = [s \in Sources |-> ev'[s]]
    BY <1>1
  <1>5. QED BY <1>1, <1>2, <1>3, <1>4

\* port_associate and port_getn.
PFlushStep == PFlush \/ \E done \in SUBSET Pending : PFlushFails(done)
PWaitStep == \E batch \in SUBSET Sources : PWait(batch)

\* Flush and wait; flush counts what it moves, unless it fails and the loop ends.
LEMMA PortRoundStep ==
  ASSUME Types, \A s \in Sources : PSource(s), PFlushStep \/ PWaitStep
  PROVE  RoundStep /\ (Live' => Balanced)
  <1> USE DEF Types
  <1>1. /\ ListTypes
        /\ pc \in {"flush", "wait"} => ev \in [Sources -> {{}}]
        /\ Pending \in SUBSET Pending
    BY DEF QueueInv, ListTypes, FlowInv
  <1>2. CASE PFlush
    <2>1. FlushMoves(Pending) /\ Balanced
      BY <1>1, <1>2, FlushBalanced DEF PFlush
    <2>2. nPend' \in Int /\ nRun' \in Int
      BY <1>1, <2>1, ListsFinite DEF FlushMoves, ListTypes
    <2>3. QED BY <1>1, <1>2, <2>1, <2>2 DEF PFlush, FlushMoves, RoundStep, Moves, Goto
  <1>3. ASSUME NEW done \in SUBSET Pending, PFlushFails(done) PROVE RoundStep /\ (Live' => Balanced)
    <2>1. ~Live'
      BY <1>3 DEF PFlushFails, Goto, Live
    <2>2. QED BY <1>1, <1>3, <2>1 DEF PFlushFails, FlushAborts, RoundStep, Moves, Goto, ListTypes
  <1>4. ASSUME NEW batch \in SUBSET Sources, PWait(batch) PROVE RoundStep /\ Balanced
    <2>1. Moves({}) /\ nPend' \in Int /\ nRun' \in Int /\ loc' = loc
      BY <1>1, <1>4 DEF PWait, Moves, listVars, ListTypes
    <2>2. /\ ev' \in [Sources -> SUBSET {"IN", "OUT", "HUP", "ERR"}]
          /\ \A s \in Sources \ batch : ev'[s] = {}
          /\ \A s \in batch : ev'[s] \in PReports(s)
      BY <1>4, PortBatch
    <2>3. ASSUME NEW s \in Sources, ev'[s] # {} PROVE loc'[s] = "run"
      <3>1. ev'[s] \in PReports(s)
        BY <2>2, <2>3
      <3>2. CASE IsTimer(s)
        BY <2>1, <3>1, <3>2, PortReports DEF PSource, Attached
      <3>3. CASE ~IsTimer(s)
        BY <2>1, <3>1, <3>3, PortReports DEF PSource
      <3>4. QED BY <3>2, <3>3
    <2>4. Balanced
      BY <1>4, StillBalanced DEF PWait
    <2>5. {} \in SUBSET Pending
      OBVIOUS
    <2>6. QED BY <1>4, <2>1, <2>2, <2>3, <2>4, <2>5 DEF PWait, RoundStep, Goto
  <1>5. QED BY <1>2, <1>3, <1>4 DEF PFlushStep, PWaitStep

\* The calls of the client.
LEMMA PortClientStep ==
  ASSUME Types, PClient
  PROVE  PlainStep /\ CurrentMoves
  <1>1. PICK s \in Sources :
          \/ PNew(s) \/ SourceDel(s) \/ PReset(s) \/ PAttach(s) \/ PRegulate(s)
          \/ \E toClose \in BOOLEAN : PDetach(s, toClose)
          \/ \E d \in IO : PResetIO(s, d) \/ PUnsetIO(s, d)
          \/ \E d \in IO, on \in BOOLEAN : PInitIO(s, d, on)
    BY DEF PClient
  <1>2. CASE PNew(s) \/ SourceDel(s) \/ \E toClose \in BOOLEAN : PDetach(s, toClose)
    BY <1>2
    DEF PNew, PCreateOsFd, PCreateRoFd, PCreateItimer, PCreateAbstimer, NewOsFd, NewRoFd,
        NewItimer, NewAbstimer, NewEmpty, SourceDel, PDetach, SourceDetach,
        DetachAllowed, PlainStep, ClientStep, CurrentMoves, InClient, InDestroy
  <1>3. CASE PAttach(s)
    BY <1>3
    DEF PAttach, OsFdAttach, RoFdAttach, PItimerAttach, PAbstimerAttach, CreateTimer,
        SourceAttach, AttachAllowed, PlainStep, ClientStep, CurrentMoves, InClient
  <1>4. CASE PReset(s) \/ PRegulate(s) \/ \E d \in IO, on \in BOOLEAN : PInitIO(s, d, on)
    BY <1>4
    DEF PReset, OsFdReset, PRegulate, PInitIO, InitIO, PlainStep, CurrentMoves,
        queueVars, listVars
  <1>5. ASSUME NEW d \in IO, PResetIO(s, d) PROVE PlainStep /\ CurrentMoves
    BY <1>5
    DEF PResetIO, AskIO, MayNextIO, PlainStep, ClientStep, CurrentMoves, Attached,
        InClient, InDestroy, queueVars
  <1>6. ASSUME NEW d \in IO, PUnsetIO(s, d) PROVE PlainStep /\ CurrentMoves
    BY <1>6
    DEF PUnsetIO, DropIO, MayNextIO, PlainStep, ClientStep, CurrentMoves, InClient,
        InDestroy, queueVars
  <1>7. QED BY <1>1, <1>2, <1>3, <1>4, <1>5, <1>6

\* The handling of a batch, destroy and the timers.
LEMMA PortHandlingStep ==
  ASSUME Types, QueueKept, \A s \in Sources : PSource(s),
         \/ PHandling \/ PDestroy \/ Run \/ \E s \in Sources : TimerExpires(s)
         \/ \E s \in Sources : PFetch(s)
         \/ \E toClose \in BOOLEAN : CbRemove /\ PortDetach(cur, toClose)
  PROVE  (PlainStep \/ FetchStep) /\ CurrentMoves
  <1>1. ASSUME NEW s \in Sources, PFetch(s) PROVE FetchStep /\ CurrentMoves
    <2>1. ev' = [ev EXCEPT ![s] = @ \ ev[s]] /\ ev[s] \in SUBSET {"IN", "OUT", "HUP", "ERR"}
      BY <1>1 DEF PFetch, Fetch, FetchEvent, Types, QueueInv, ListTypes
    <2>2. QED BY <1>1, <2>1 DEF PFetch, Fetch, FetchEvent, FetchStep, CurrentMoves, Goto
  <1>2. CurrentMoves
    <2>1. pc = "dispatch" => loc[cur] = "run"
      BY CurrentProtected DEF PSource
    <2>2. QED BY <2>1 DEF CurrentMoves
  <1>3. CASE PHandling
    BY <1>2, <1>3
    DEF PHandling, PItimerCall, PAbstimerCall, PHandled, Handled, POsFdCall, OsFdCall,
        PRoFdCall, RoFdCall, PlainStep, HandlingStep
  <1>4. CASE PDestroy \/ Run \/ \E s \in Sources : TimerExpires(s)
    BY <1>2, <1>4 DEF PDestroy, PlainStep, HandlingStep, TimerExpires
  <1>5. CASE CbRemove
    BY <1>2, <1>5 DEF PlainStep, HandlingStep
  <1>6. QED BY <1>1, <1>3, <1>4, <1>5

\* evdp_source_*_detach of event_port.
LEMMA PortDetachTypes ==
  ASSUME Types, NEW s \in Sources, NEW toClose \in BOOLEAN, PortDetach(s, toClose),
         UNCHANGED <<want, hand>>, todo' \in {todo, {}}, calling' \in {calling, "none"}
  PROVE  HandTypes' /\ TimerTypes' /\ MaskTypes' /\ assoc' \in [Sources -> BOOLEAN]
  <1> USE DEF Types, PortDetach, POsFdDetach, PRoFdDetach, PItimerDetach, PAbstimerDetach,
          FdDetach, DeleteTimer, Dissociate, portVars
  <1>1. HandTypes'
    BY DEF HandTypes
  <1>2. TimerTypes'
    BY DEF TimerTypes
  <1>3. MaskTypes'
    BY DEF MaskTypes, IO
  <1>4. assoc' \in [Sources -> BOOLEAN]
    BY DEF NoteTypes
  <1>5. QED BY <1>1, <1>2, <1>3, <1>4

\* Every step of event_port keeps the types.
LEMMA PortTypes ==
  ASSUME Types, PortNext, UNCHANGED keventVars
  PROVE  DriverTypes'
  <1>1. KeventTypes' /\ timerOn' \in [Sources -> BOOLEAN]
    BY DEF Types, KeventTypes, NoteTypes, keventVars
  <1>2. ASSUME HandTypes' /\ TimerTypes', MaskTypes' /\ assoc' \in [Sources -> BOOLEAN]
        PROVE  DriverTypes'
    BY <1>1, <1>2 DEF DriverTypes, NoteTypes
  <1>3. ASSUME UNCHANGED portVars PROVE MaskTypes' /\ assoc' \in [Sources -> BOOLEAN]
    BY <1>3 DEF Types, MaskTypes, NoteTypes, portVars
  <1>4. CASE PClient
    <2>1. PICK s \in Sources :
            \/ PNew(s) \/ (SourceDel(s) /\ UNCHANGED portVars)
            \/ PReset(s) \/ PAttach(s) \/ PRegulate(s)
            \/ \E toClose \in BOOLEAN : PDetach(s, toClose)
            \/ \E d \in IO : PResetIO(s, d) \/ PUnsetIO(s, d)
            \/ \E d \in IO, on \in BOOLEAN : PInitIO(s, d, on)
      BY <1>4 DEF PClient
    <2>2. CASE PNew(s) \/ (SourceDel(s) /\ UNCHANGED portVars)
      BY <1>2, <1>3, <2>2, SourceTypes
      DEF PNew, PCreateOsFd, PCreateRoFd, PCreateItimer, PCreateAbstimer
    <2>3. CASE PReset(s)
      BY <1>2, <2>3, SourceTypes DEF PReset, Types, MaskTypes, NoteTypes
    <2>4. CASE PAttach(s)
      BY <1>2, <1>3, <2>4, SourceTypes DEF PAttach, PItimerAttach, PAbstimerAttach
    <2>5. CASE PRegulate(s)
      <3>1. HandTypes'
        BY <2>5 DEF PRegulate, Types, HandTypes, stepVars
      <3>2. TimerTypes'
        BY <2>5 DEF PRegulate, Types, TimerTypes
      <3>3. QED BY <1>2, <1>3, <2>5, <3>1, <3>2 DEF PRegulate
    <2>6. ASSUME NEW toClose \in BOOLEAN, PDetach(s, toClose) PROVE DriverTypes'
      BY <1>2, <2>6, PortDetachTypes DEF PDetach, SourceDetach, stepVars
    <2>7. ASSUME NEW d \in IO, NEW on \in BOOLEAN, PInitIO(s, d, on) PROVE DriverTypes'
      BY <1>2, <1>3, <2>7, SourceTypes DEF PInitIO
    <2>8. ASSUME NEW d \in IO, PResetIO(s, d) PROVE DriverTypes'
      <3>1. HandTypes'
        BY <2>8 DEF PResetIO, AskIO, Types, HandTypes, stepVars
      <3>2. TimerTypes'
        BY <2>8 DEF PResetIO, AskIO, Types, TimerTypes
      <3>3. MaskTypes'
        BY <2>8 DEF PResetIO, Associate, portVars, Types, MaskTypes, HandTypes
      <3>4. assoc' \in [Sources -> BOOLEAN]
        BY <2>8 DEF PResetIO, Associate, portVars, Types, NoteTypes
      <3>5. QED BY <1>2, <3>1, <3>2, <3>3, <3>4
    <2>9. ASSUME NEW d \in IO, PUnsetIO(s, d) PROVE DriverTypes'
      <3>1. HandTypes'
        BY <2>9 DEF PUnsetIO, DropIO, Types, HandTypes, stepVars
      <3>2. TimerTypes'
        BY <2>9 DEF PUnsetIO, DropIO, Types, TimerTypes
      <3>3. MaskTypes'
        BY <2>9 DEF PUnsetIO, Dissociate, portVars, Types, MaskTypes, IO
      <3>4. assoc' \in [Sources -> BOOLEAN]
        BY <2>9 DEF PUnsetIO, Dissociate, portVars, Types, NoteTypes
      <3>5. QED BY <1>2, <3>1, <3>2, <3>3, <3>4
    <2>10. QED BY <2>1, <2>2, <2>3, <2>4, <2>5, <2>6, <2>7, <2>8, <2>9
  <1>5. ASSUME NEW S \in SUBSET Pending, AssociateAll(S), UNCHANGED handleVars PROVE DriverTypes'
    <2> USE <1>5 DEF Types, handleVars, stepVars, AssociateAll
    <2>1. HandTypes'
      BY DEF HandTypes
    <2>2. TimerTypes'
      BY DEF TimerTypes
    <2>3. MaskTypes'
      BY DEF MaskTypes, HandTypes
    <2>4. assoc' \in [Sources -> BOOLEAN]
      BY DEF NoteTypes
    <2>5. QED BY <1>2, <2>1, <2>2, <2>3, <2>4
  <1>6. CASE PFlushStep
    <2>1. Pending \in SUBSET Pending
      OBVIOUS
    <2>2. QED BY <1>5, <1>6, <2>1 DEF PFlushStep, PFlush, PFlushFails
  <1>7. ASSUME NEW batch \in SUBSET Sources, PWait(batch) PROVE DriverTypes'
    <2>1. HandTypes'
      BY <1>7 DEF PWait, Types, HandTypes, stepVars
    <2>2. TimerTypes'
      BY <1>7 DEF PWait, Types, TimerTypes
    <2>3. MaskTypes'
      BY <1>7 DEF PWait, Types, MaskTypes, IO
    <2>4. assoc' \in [Sources -> BOOLEAN]
      BY <1>7 DEF PWait, Types, NoteTypes
    <2>5. QED BY <1>2, <2>1, <2>2, <2>3, <2>4
  <1>8. ASSUME NEW s \in Sources, PFetch(s) PROVE DriverTypes'
    <2>1. HandTypes'
      BY <1>8 DEF PFetch, Fetch, Types, HandTypes, QueueInv, ListTypes
    <2>2. TimerTypes'
      BY <1>8 DEF PFetch, Fetch, Types, TimerTypes
    <2>3. MaskTypes' /\ assoc' \in [Sources -> BOOLEAN]
      BY <1>8 DEF PFetch, Types, MaskTypes, NoteTypes
    <2>4. QED BY <1>2, <2>1, <2>2, <2>3
  <1>9. ASSUME NEW toClose \in BOOLEAN, CbRemove, PortDetach(cur, toClose) PROVE DriverTypes'
    <2>1. cur \in Sources
      BY <1>9 DEF CbRemove, Types, QueueInv, FlowInv, ListTypes
    <2>2. QED BY <1>2, <1>9, <2>1, PortDetachTypes DEF CbRemove
  <1>10. CASE PHandling
    <2>1. CASE PAbstimerCall
      <3>1. HandTypes'
        BY <2>1 DEF PAbstimerCall, Types, HandTypes
      <3>2. TimerTypes'
        BY <2>1 DEF PAbstimerCall, Types, TimerTypes
      <3>3. QED BY <1>2, <1>3, <1>10, <3>1, <3>2 DEF PHandling
    <2>2. CASE ~PAbstimerCall
      <3>1. HandTypes' /\ TimerTypes'
        BY <1>10, <2>2, CommonTypes
        DEF PHandling, PItimerCall, PHandled, POsFdCall, OsFdCall, PRoFdCall, RoFdCall
      <3>2. QED BY <1>2, <1>3, <1>10, <3>1 DEF PHandling
    <2>3. QED BY <2>1, <2>2
  <1>11. ASSUME NEW s \in Sources, DestroyRemove(s), PortDetach(s, FALSE) PROVE DriverTypes'
    BY <1>2, <1>11, PortDetachTypes DEF DestroyRemove, stepVars
  <1>12. CASE (DestroyStep \/ Run) /\ UNCHANGED portVars
    BY <1>2, <1>3, <1>12, CommonTypes
  <1>13. ASSUME NEW s \in Sources, TimerExpires(s), UNCHANGED portVars PROVE DriverTypes'
    <2>1. HandTypes'
      BY <1>13 DEF TimerExpires, Types, HandTypes, stepVars
    <2>2. TimerTypes'
      BY <1>13 DEF TimerExpires, Types, TimerTypes
    <2>3. QED BY <1>2, <1>3, <1>13, <2>1, <2>2
  <1>14. QED
    BY <1>4, <1>6, <1>7, <1>8, <1>9, <1>10, <1>11, <1>12, <1>13
    DEF PortNext, PRound, PFlushStep, PDestroy

-----------------------------------------------------------------------------
(***************************************************************************)
(* event_port: every step keeps PSource, and PWatched while the loop goes  *)
(* on.                                                                     *)
(***************************************************************************)
PHolds(s) == PSource(s) /\ (Live => PWatched(s))

\* What the lemmas of this section assume of the state, and of a step.
PortKept == Types /\ QueueKept /\ \A s \in Sources : PHolds(s)
PortFrame == UNCHANGED fixedVars /\ (Live' => Live)

\* A step leaves alone what PHolds says of x.
PUntouched(x) ==
  /\ loc'[x] = loc[x] /\ ev'[x] = ev[x] /\ want'[x] = want[x] /\ hand'[x] = hand[x]
  /\ pmask'[x] = pmask[x]
  /\ assoc'[x] <=> assoc[x]
  /\ UNCHANGED <<cur, todo>> \/ (x # cur /\ x # cur')

\* Most steps are about one source.
LEMMA POneTouched ==
  ASSUME PortFrame, \A x \in Sources : PHolds(x), NEW s \in Sources,
         \A x \in Sources \ {s} : PUntouched(x), PSource(s)', Live' => PWatched(s)'
  PROVE  (\A x \in Sources : PHolds(x))'
  <1>1. ASSUME NEW x \in Sources, x # s PROVE PHolds(x)'
    <2>1. PUntouched(x) /\ PHolds(x) /\ kind' = kind
      BY <1>1 DEF PortFrame, fixedVars
    <2>2. PSource(x)'
      BY <2>1 DEF PUntouched, PHolds, PSource, IsTimer, Oneshot
    <2>3. Live' => PWatched(x)'
      BY <2>1 DEF PUntouched, PHolds, PWatched, IsTimer, Attached, PortFrame
    <2>4. QED BY <2>2, <2>3 DEF PHolds
  <1>2. PHolds(s)'
    BY DEF PHolds
  <1>3. QED BY <1>1, <1>2

\* A step that leaves every source alone.
LEMMA PNoneTouched ==
  ASSUME PortFrame, \A x \in Sources : PHolds(x), \A x \in Sources : PUntouched(x)
  PROVE  (\A x \in Sources : PHolds(x))'
  <1> SUFFICES ASSUME NEW x \in Sources PROVE PHolds(x)'
    OBVIOUS
  <1>1. PUntouched(x) /\ PHolds(x) /\ kind' = kind
    BY DEF PortFrame, fixedVars
  <1>2. PSource(x)'
    BY <1>1 DEF PUntouched, PHolds, PSource, IsTimer, Oneshot
  <1>3. Live' => PWatched(x)'
    BY <1>1 DEF PUntouched, PHolds, PWatched, IsTimer, Attached, PortFrame
  <1>4. QED BY <1>2, <1>3 DEF PHolds

\* A source that is on no list has nothing at the port or in the batch.
LEMMA PDetached ==
  ASSUME PortKept, NEW s \in Sources, s \notin Attached
  PROVE  ~assoc[s] /\ pmask[s] = {} /\ ev[s] = {} /\ s # cur
  BY DEF PortKept, PHolds, PSource, Attached

\* So there is nothing more to say of it.
LEMMA PIdle ==
  ASSUME NEW s \in Sources, loc'[s] \in {"free", "idle"}, ~assoc'[s], pmask'[s] = {},
         ev'[s] = {}, s # cur'
  PROVE  PSource(s)' /\ PWatched(s)'
  <1>1. PSource(s)'
    BY DEF PSource
  <1>2. PWatched(s)'
    BY DEF PWatched, Attached
  <1>3. QED BY <1>1, <1>2

\* new, del, reset, and next_read and next_write of a source that is not attached.
LEMMA PNewKeeps ==
  ASSUME PortKept, PortFrame, NEW s \in Sources,
         \/ PNew(s) \/ (SourceDel(s) /\ UNCHANGED portVars) \/ PReset(s)
         \/ \E d \in IO, on \in BOOLEAN : PInitIO(s, d, on)
  PROVE  (\A x \in Sources : PHolds(x))'
  <1>1. s \notin Attached /\ loc'[s] \in {"free", "idle"}
    BY DEF PortKept, Types, QueueInv, ListTypes, PNew, PCreateOsFd, PCreateRoFd,
        PCreateItimer, PCreateAbstimer, NewOsFd, NewRoFd, NewItimer, NewAbstimer,
        NewEmpty, SourceDel, PReset, OsFdReset, PInitIO, InitIO, Attached, queueVars,
        listVars
  <1>2. ~assoc[s] /\ pmask[s] = {} /\ ev[s] = {} /\ s # cur
    BY <1>1, PDetached
  <1>3. UNCHANGED <<cur, todo, ev, pmask>>
    BY DEF PNew, PCreateOsFd, PCreateRoFd, PCreateItimer, PCreateAbstimer, NewOsFd,
        NewRoFd, NewItimer, NewAbstimer, NewEmpty, SourceDel, PReset, OsFdReset, PInitIO,
        InitIO, portVars, queueVars, stepVars
  <1>4. /\ ~assoc'[s]
        /\ \A x \in Sources \ {s} : assoc'[x] <=> assoc[x]
    BY <1>2 DEF PortKept, Types, NoteTypes, PNew, PReset, PInitIO, portVars
  <1>5. ASSUME NEW x \in Sources \ {s} PROVE PUntouched(x)
    <2>1. loc'[x] = loc[x]
      BY DEF PortKept, Types, QueueInv, ListTypes, PNew, PCreateOsFd, PCreateRoFd,
          PCreateItimer, PCreateAbstimer, NewOsFd, NewRoFd, NewItimer, NewAbstimer,
          NewEmpty, SourceDel, PReset, OsFdReset, PInitIO, InitIO, queueVars, listVars
    <2>2. want'[x] = want[x] /\ hand'[x] = hand[x]
      BY DEF PortKept, Types, HandTypes, PNew, PCreateOsFd, PCreateRoFd, PCreateItimer,
          PCreateAbstimer, NewOsFd, NewRoFd, NewItimer, NewAbstimer, NewEmpty, SetTimer,
          SourceDel, PReset, OsFdReset, PInitIO, InitIO
    <2>3. QED BY <1>3, <1>4, <2>1, <2>2 DEF PUntouched
  <1>6. PSource(s)' /\ PWatched(s)'
    BY <1>1, <1>2, <1>3, <1>4, PIdle
  <1>7. QED BY <1>5, <1>6, POneTouched DEF PortKept

\* attach: an fd with an interest is pending.
LEMMA PAttachKeeps ==
  ASSUME PortKept, PortFrame, NEW s \in Sources, PAttach(s)
  PROVE  (\A x \in Sources : PHolds(x))'
  <1>1. s \notin Attached
    BY DEF PAttach, SourceAttach, AttachAllowed, Attached
  <1>2. ~assoc[s] /\ pmask[s] = {} /\ ev[s] = {} /\ s # cur
    BY <1>1, PDetached
  <1>3. UNCHANGED <<cur, todo, ev, hand, pmask, assoc>>
    BY DEF PAttach, SourceAttach, portVars, stepVars
  <1>4. ASSUME NEW x \in Sources \ {s} PROVE PUntouched(x)
    <2>1. loc'[x] = loc[x] /\ want'[x] = want[x]
      BY DEF PortKept, Types, QueueInv, ListTypes, HandTypes, PAttach, OsFdAttach,
          RoFdAttach, PItimerAttach, PAbstimerAttach, CreateTimer, InsertPending,
          InsertRunning
    <2>2. QED BY <1>3, <2>1 DEF PUntouched
  <1>5. /\ IsTimer(s) => loc'[s] = "run"
        /\ ~IsTimer(s) => loc'[s] = "pend" \/ want'[s] = {}
    BY DEF PortKept, Types, QueueInv, ListTypes, HandTypes, PAttach, OsFdAttach,
        RoFdAttach, PItimerAttach, PAbstimerAttach, CreateTimer, InsertPending,
        InsertRunning, IsTimer, Oneshot
  <1>6. PSource(s)'
    BY <1>2, <1>3, <1>5 DEF PSource, PortFrame, fixedVars, IsTimer
  <1>7. PWatched(s)'
    BY <1>5 DEF PWatched, PortFrame, fixedVars, IsTimer
  <1>8. QED BY <1>4, <1>6, <1>7, POneTouched DEF PortKept

\* detach, by the client, after the callback or in destroy: what the port watches is
\* dissociated.
LEMMA PDetachKeeps ==
  ASSUME PortKept, PortFrame, NEW s \in Sources, NEW toClose \in BOOLEAN,
         DetachFromQueue(s), PortDetach(s, toClose), UNCHANGED <<want, hand>>,
         \/ s # cur /\ UNCHANGED <<cur, todo>>
         \/ s = cur /\ cur' = NoSource
  PROVE  (\A x \in Sources : PHolds(x))'
  <1>1. loc'[s] = "idle" /\ ev'[s] = {} /\ s # cur'
    BY QueueConstants DEF PortKept, Types, QueueInv, ListTypes, DetachFromQueue
  <1>2. PSource(s)
    BY DEF PortKept, PHolds
  <1>3. /\ ~assoc'[s] /\ pmask'[s] = {}
        /\ \A x \in Sources \ {s} : (assoc'[x] <=> assoc[x]) /\ pmask'[x] = pmask[x]
    <2>1. CASE ~IsTimer(s) /\ (toClose \/ assoc[s])
      <3>1. Dissociate(s)
        BY <2>1
        DEF PortDetach, POsFdDetach, PRoFdDetach, PItimerDetach, PAbstimerDetach,
            FdDetach, IsTimer
      <3>2. QED BY <3>1 DEF Dissociate, PortKept, Types, MaskTypes, NoteTypes
    <2>2. CASE IsTimer(s) \/ ~(toClose \/ assoc[s])
      <3>1. UNCHANGED portVars
        BY <2>2
        DEF PortDetach, POsFdDetach, PRoFdDetach, PItimerDetach, PAbstimerDetach,
            FdDetach, DeleteTimer, IsTimer, Oneshot
      <3>2. QED BY <1>2, <2>2, <3>1 DEF PSource, portVars
    <2>3. QED BY <2>1, <2>2
  <1>4. ASSUME NEW x \in Sources \ {s} PROVE PUntouched(x)
    <2>1. loc'[x] = loc[x] /\ ev'[x] = ev[x]
      BY DEF PortKept, Types, QueueInv, ListTypes, DetachFromQueue
    <2>2. QED BY <1>3, <2>1, QueueConstants DEF PUntouched
  <1>5. PSource(s)' /\ PWatched(s)'
    BY <1>1, <1>3, PIdle
  <1>6. QED BY <1>4, <1>5, POneTouched DEF PortKept

\* next_read and next_write: the mask of an association follows a new interest, ...
LEMMA PResetIOKeeps ==
  ASSUME Orderly, PortKept, PortFrame, NEW s \in Sources, NEW d \in IO, PResetIO(s, d)
  PROVE  (\A x \in Sources : PHolds(x))'
  <1>1. UNCHANGED <<cur, todo, ev>> /\ ev[s] = {} /\ Oneshot(s) /\ ~IsTimer(s) /\ s \in Attached
    BY DEF PResetIO, AskIO, MayNextIO, Orderly, stepVars, Oneshot, IsTimer
  <1>2. PSource(s) /\ (Live => PWatched(s))
    BY DEF PortKept, PHolds
  <1>3. hand'[s] = hand[s] \cup {d} /\ want'[s] = want[s] \cup {d}
    BY DEF PResetIO, AskIO, PortKept, Types, HandTypes
  <1>4. s = cur => InCallback(s)
    BY CurrentProtected
    DEF PResetIO, AskIO, MayNextIO, InCallback, InClient, InDestroy, PortKept
  <1>5. loc'[s] = IF ~assoc[s] /\ s # cur THEN "pend" ELSE loc[s]
    BY <1>1, <1>4
    DEF PResetIO, AskIO, InCallback, RunningToPending, listVars, PortKept, Types,
        QueueInv, ListTypes, Attached
  <1>6. IF assoc[s] /\ d \notin want[s]
          THEN assoc'[s] /\ pmask'[s] = want[s] \cup {d}
          ELSE (assoc'[s] <=> assoc[s]) /\ pmask'[s] = pmask[s]
    BY DEF PResetIO, Associate, portVars, PortKept, Types, MaskTypes, NoteTypes
  <1>7. ASSUME NEW x \in Sources \ {s} PROVE PUntouched(x)
    <2>1. loc'[x] = loc[x] /\ want'[x] = want[x] /\ hand'[x] = hand[x]
      BY DEF PResetIO, AskIO, RunningToPending, listVars, PortKept, Types, QueueInv,
          ListTypes, HandTypes
    <2>2. pmask'[x] = pmask[x] /\ (assoc'[x] <=> assoc[x])
      BY DEF PResetIO, Associate, portVars, PortKept, Types, MaskTypes, NoteTypes
    <2>3. QED BY <1>1, <2>1, <2>2 DEF PUntouched
  <1>8. PSource(s)'
    <2>1. /\ pmask'[s] # {} => assoc'[s]
          /\ assoc'[s] \/ s = cur' => loc'[s] = "run"
          /\ s = cur' => ~assoc'[s]
      BY <1>1, <1>2, <1>5, <1>6 DEF PSource
    <2>2. ASSUME NEW c \in hand'[s], c \in pmask'[s] \/ (s = cur /\ c \in todo) PROVE c \in want'[s]
      BY <1>2, <1>1, <1>3, <1>6, <2>2 DEF PSource
    <2>3. QED BY <1>1, <2>1, <2>2 DEF PSource, PortFrame, fixedVars, IsTimer, Oneshot
  <1>9. ASSUME Live' PROVE PWatched(s)'
    <2>1. CASE ~assoc[s]
      BY <1>1, <1>5, <2>1 DEF PWatched
    <2>2. CASE assoc[s]
      <3>1. loc[s] = "run" /\ s # cur
        BY <1>2, <2>2 DEF PSource
      <3>2. want[s] \subseteq pmask[s] \/ want[s] = {}
        BY <1>1, <1>2, <1>9, <3>1 DEF PWatched, PortFrame
      <3>3. want'[s] \subseteq pmask'[s] /\ assoc'[s]
        BY <1>3, <1>6, <2>2, <3>2
      <3>4. QED BY <3>3 DEF PWatched
    <2>3. QED BY <2>1, <2>2
  <1>10. QED BY <1>7, <1>8, <1>9, POneTouched DEF PortKept

\* ... and goes with the last one.
LEMMA PUnsetIOKeeps ==
  ASSUME Orderly, PortKept, PortFrame, NEW s \in Sources, NEW d \in IO, PUnsetIO(s, d)
  PROVE  (\A x \in Sources : PHolds(x))'
  <1>1. UNCHANGED <<cur, todo, ev>> /\ ev[s] = {} /\ Oneshot(s) /\ ~IsTimer(s) /\ s \in Attached
    BY DEF PUnsetIO, DropIO, MayNextIO, Orderly, stepVars, Oneshot, IsTimer
  <1>2. PSource(s) /\ (Live => PWatched(s))
    BY DEF PortKept, PHolds
  <1>3. hand'[s] = hand[s] \ {d} /\ want'[s] = want[s] \ {d}
    BY DEF PUnsetIO, DropIO, PortKept, Types, HandTypes
  <1>4. loc'[s] = IF ~assoc[s] /\ loc[s] = "pend" /\ want[s] \ {d} = {} THEN "run" ELSE loc[s]
    BY DEF PUnsetIO, DropIO, PendingToRunning, listVars, PortKept, Types, QueueInv,
        ListTypes
  <1>5. IF assoc[s] /\ LastIO(s, d)
          THEN ~assoc'[s] /\ pmask'[s] = {}
          ELSE (assoc'[s] <=> assoc[s]) /\ pmask'[s] = pmask[s]
    BY DEF PUnsetIO, Dissociate, portVars, PortKept, Types, MaskTypes, NoteTypes
  <1>6. ASSUME NEW x \in Sources \ {s} PROVE PUntouched(x)
    <2>1. loc'[x] = loc[x] /\ want'[x] = want[x] /\ hand'[x] = hand[x]
      BY DEF PUnsetIO, DropIO, PendingToRunning, listVars, PortKept, Types, QueueInv,
          ListTypes, HandTypes
    <2>2. pmask'[x] = pmask[x] /\ (assoc'[x] <=> assoc[x])
      BY DEF PUnsetIO, Dissociate, portVars, PortKept, Types, MaskTypes, NoteTypes
    <2>3. QED BY <1>1, <2>1, <2>2 DEF PUntouched
  <1>7. PSource(s)'
    <2>1. /\ pmask'[s] # {} => assoc'[s]
          /\ assoc'[s] \/ s = cur' => loc'[s] = "run"
          /\ s = cur' => ~assoc'[s]
      BY <1>1, <1>2, <1>4, <1>5 DEF PSource
    <2>2. ASSUME NEW c \in hand'[s], c \in pmask'[s] \/ (s = cur /\ c \in todo) PROVE c \in want'[s]
      BY <1>2, <1>1, <1>3, <1>5, <2>2 DEF PSource
    <2>3. QED BY <1>1, <2>1, <2>2 DEF PSource, PortFrame, fixedVars, IsTimer, Oneshot
  <1>8. ASSUME Live' PROVE PWatched(s)'
    BY <1>1, <1>2, <1>3, <1>4, <1>5, <1>8 DEF PWatched, PortFrame, LastIO, Attached
  <1>9. QED BY <1>6, <1>7, <1>8, POneTouched DEF PortKept

\* The calls of the client.
LEMMA PClientKeeps ==
  ASSUME Orderly, PortKept, PortFrame, PClient
  PROVE  (\A x \in Sources : PHolds(x))'
  <1>1. PICK s \in Sources :
          \/ PNew(s) \/ (SourceDel(s) /\ UNCHANGED portVars)
          \/ PReset(s) \/ PAttach(s) \/ PRegulate(s)
          \/ \E toClose \in BOOLEAN : PDetach(s, toClose)
          \/ \E d \in IO : PResetIO(s, d) \/ PUnsetIO(s, d)
          \/ \E d \in IO, on \in BOOLEAN : PInitIO(s, d, on)
    BY DEF PClient
  <1>2. ASSUME NEW toClose \in BOOLEAN, PDetach(s, toClose) PROVE (\A x \in Sources : PHolds(x))'
    <2>1. s \in Attached /\ ~noDetach[s] /\ UNCHANGED <<cur, todo, want, hand>>
      BY <1>2 DEF PDetach, SourceDetach, DetachAllowed, stepVars
    <2>2. s # cur
      BY <2>1, CurrentProtected DEF PortKept
    <2>3. QED BY <1>2, <2>1, <2>2, PDetachKeeps DEF PDetach, SourceDetach
  <1>3. ASSUME PRegulate(s) PROVE (\A x \in Sources : PHolds(x))'
    <2>1. \A x \in Sources : PUntouched(x)
      BY <1>3 DEF PRegulate, PUntouched, portVars, queueVars, listVars, stepVars
    <2>2. QED BY <2>1, PNoneTouched DEF PortKept
  <1>4. QED
    BY <1>1, <1>2, <1>3, PNewKeeps, PAttachKeeps, PResetIOKeeps, PUnsetIOKeeps

\* A flush associates fds that are pending, with all that the client wants of them.
LEMMA PAssociateKeeps ==
  ASSUME PortKept, PortFrame, NEW S \in SUBSET Pending, pc = "flush",
         Moves(S), AssociateAll(S), UNCHANGED <<ev, cur, todo, want, hand>>
  PROVE  (\A x \in Sources : PHolds(x))'
  <1> SUFFICES ASSUME NEW s \in Sources PROVE PHolds(s)'
    OBVIOUS
  <1>1. PSource(s) /\ (Live => PWatched(s)) /\ ev[s] = {} /\ s # cur /\ s # cur'
    BY CurrentProtected DEF PortKept, PHolds, Types, QueueInv, FlowInv
  <1>2. CASE s \in S
    <2>1. loc[s] = "pend" /\ ~IsTimer(s)
      BY <1>1, <1>2 DEF Pending, PSource
    <2>2. loc'[s] = "run" /\ assoc'[s] /\ pmask'[s] = want'[s]
      BY <1>2 DEF Moves, AssociateAll
    <2>3. PSource(s)'
      BY <1>1, <2>1, <2>2 DEF PSource, PortFrame, fixedVars, IsTimer
    <2>4. PWatched(s)'
      BY <2>2 DEF PWatched
    <2>5. QED BY <2>3, <2>4 DEF PHolds
  <1>3. CASE s \notin S
    <2>1. /\ loc'[s] = loc[s] /\ pmask'[s] = pmask[s]
          /\ assoc'[s] <=> assoc[s]
      BY <1>3 DEF Moves, AssociateAll, PortKept, Types, NoteTypes
    <2>2. PSource(s)'
      BY <1>1, <2>1 DEF PSource, PortFrame, fixedVars, IsTimer, Oneshot
    <2>3. Live' => PWatched(s)'
      BY <1>1, <2>1 DEF PWatched, PortFrame, fixedVars, IsTimer, Attached
    <2>4. QED BY <2>2, <2>3 DEF PHolds
  <1>4. QED BY <1>2, <1>3

\* What is reported is off the port and in the batch.
LEMMA PWaitKeeps ==
  ASSUME PortKept, PortFrame, NEW batch \in SUBSET Sources, PWait(batch)
  PROVE  (\A x \in Sources : PHolds(x))'
  <1>1. pc = "wait" /\ UNCHANGED <<loc, cur, todo, want, hand, assoc>>
    BY DEF PWait, Goto, listVars, stepVars
  <1>2. /\ \A s \in Sources \ batch : ev'[s] = {}
        /\ \A s \in batch : ev'[s] \in PReports(s)
    BY PortBatch DEF PortKept
  <1>3. ASSUME NEW s \in Sources PROVE PHolds(s)'
    <2>1. PSource(s) /\ (Live => PWatched(s)) /\ ev[s] = {} /\ s # cur /\ s # cur'
      BY <1>1, CurrentProtected DEF PortKept, PHolds, Types, QueueInv, FlowInv
    <2>2. CASE s \in batch
      <3>1. /\ ev'[s] # {}
            /\ IsTimer(s) => s \in Attached
            /\ ~IsTimer(s) => pmask[s] # {} /\ \A d \in IO : d \in ev'[s] => d \in pmask[s]
        BY <1>2, <2>2, PortReports DEF PortKept
      <3>2. pmask'[s] = {} /\ hand[s] \in SUBSET IO
        BY <2>2 DEF PWait, PortKept, Types, HandTypes
      <3>3. loc[s] = "run"
        BY <2>1, <3>1 DEF PSource, Attached
      <3>4. ~IsTimer(s) => PSource(s)'
        BY <1>1, <2>1, <3>1, <3>2, <3>3 DEF PSource, PortFrame, fixedVars, IsTimer, Oneshot
      <3>5. IsTimer(s) => PSource(s)'
        BY <1>1, <2>1, <3>2, <3>3 DEF PSource, PortFrame, fixedVars, IsTimer, Oneshot
      <3>6. PWatched(s)'
        BY <3>1 DEF PWatched
      <3>7. QED BY <3>4, <3>5, <3>6 DEF PHolds
    <2>3. CASE s \notin batch
      <3>1. ev'[s] = {} /\ pmask'[s] = pmask[s]
        BY <1>2, <2>3 DEF PWait
      <3>2. PSource(s)'
        BY <1>1, <2>1, <3>1 DEF PSource, PortFrame, fixedVars, IsTimer, Oneshot
      <3>3. Live' => PWatched(s)'
        BY <1>1, <2>1, <3>1 DEF PWatched, PortFrame, fixedVars, IsTimer, Attached
      <3>4. QED BY <3>2, <3>3 DEF PHolds
    <2>4. QED BY <2>2, <2>3
  <1>4. QED BY <1>3

\* A source whose event is fetched is neither watched nor in the batch.
LEMMA PFetchKeeps ==
  ASSUME PortKept, PortFrame, NEW s \in Sources, PFetch(s)
  PROVE  (\A x \in Sources : PHolds(x))'
  <1>1. /\ pc = "batch" /\ cur = NoSource /\ cur' = s /\ ev[s] # {} /\ todo' = ev[s]
        /\ UNCHANGED <<loc, want, hand, pmask>>
    BY CurrentProtected DEF PFetch, Fetch, FetchEvent, Goto, listVars, PortKept
  <1>2. ev'[s] = {} /\ ~assoc'[s]
    BY DEF PFetch, Fetch, FetchEvent, PortKept, Types, QueueInv, ListTypes, NoteTypes
  <1>3. ASSUME NEW x \in Sources \ {s} PROVE PUntouched(x)
    <2>1. assoc'[x] <=> assoc[x]
      BY DEF PFetch, PortKept, Types, NoteTypes
    <2>2. ev'[x] = ev[x] /\ x # cur /\ x # cur'
      BY <1>1, QueueConstants
      DEF PFetch, Fetch, FetchEvent, PortKept, Types, QueueInv, ListTypes
    <2>3. QED BY <1>1, <2>1, <2>2 DEF PUntouched
  <1>4. PSource(s)
    BY DEF PortKept, PHolds
  <1>5. PSource(s)'
    BY <1>1, <1>2, <1>4 DEF PSource, PortFrame, fixedVars, IsTimer, Oneshot
  <1>6. PWatched(s)'
    BY <1>1 DEF PWatched
  <1>7. QED BY <1>3, <1>5, <1>6, POneTouched DEF PortKept

\* A oneshot fd is wanted no more for what is called, and still for what comes after it.
LEMMA PCallKeeps ==
  ASSUME PortKept, PortFrame, NEW flag \in {"IN", "HUP", "OUT"},
         POsFdCall(flag) \/ PRoFdCall(flag) \/ PItimerCall, UNCHANGED portVars
  PROVE  (\A x \in Sources : PHolds(x))'
  <1>1. PICK f \in {"IN", "HUP", "OUT"} :
          /\ CallHandler(f)
          /\ \/ Oneshot(cur) /\ want' = [want EXCEPT ![cur] = @ \ {f}]
             \/ ~Oneshot(cur) /\ UNCHANGED want
    BY DEF POsFdCall, OsFdCall, PRoFdCall, RoFdCall, PItimerCall, Oneshot
  <1>2. /\ pc = "dispatch" /\ todo' = todo \cap After(f)
        /\ UNCHANGED <<loc, ev, cur, hand, pmask, assoc>>
    BY <1>1 DEF CallHandler, Goto, listVars, portVars
  <1>3. PICK s \in Sources : s = cur
    BY <1>2, CurrentProtected DEF PortKept
  <1>4. PSource(s)
    BY DEF PortKept, PHolds
  <1>5. ASSUME NEW x \in Sources \ {s} PROVE PUntouched(x)
    BY <1>1, <1>2, <1>3 DEF PUntouched, PortKept, Types, HandTypes
  <1>6. PSource(s)'
    <2>1. CASE Oneshot(s)
      <3>1. want'[s] = want[s] \ {f} /\ f \notin todo'
        BY <1>1, <1>2, <1>3, <2>1 DEF PortKept, Types, HandTypes, After
      <3>2. QED
        BY <1>2, <1>3, <1>4, <2>1, <3>1
        DEF PSource, PortFrame, fixedVars, IsTimer, Oneshot
    <2>2. CASE ~Oneshot(s)
      BY <1>2, <1>4, <2>2 DEF PSource, PortFrame, fixedVars, IsTimer, Oneshot
    <2>3. QED BY <2>1, <2>2
  <1>7. PWatched(s)'
    BY <1>2, <1>3 DEF PWatched
  <1>8. QED BY <1>5, <1>6, <1>7, POneTouched DEF PortKept

\* No callback is left: an fd that the client wants more of is pending.
LEMMA PHandledKeeps ==
  ASSUME PortKept, PortFrame, PHandled \/ PAbstimerCall, UNCHANGED portVars
  PROVE  (\A x \in Sources : PHolds(x))'
  <1>1. /\ pc = "dispatch" /\ cur' = NoSource
        /\ UNCHANGED <<ev, want, hand, pmask, assoc>>
    BY DEF PHandled, PAbstimerCall, Handled, HandleContinue, portVars
  <1>2. PICK s \in Sources : s = cur
    BY <1>1, CurrentProtected DEF PortKept
  <1>3. s # cur' /\ PSource(s)
    BY <1>1, QueueConstants DEF PortKept, PHolds
  <1>4. ASSUME NEW x \in Sources \ {s} PROVE PUntouched(x)
    <2>1. loc'[x] = loc[x]
      BY <1>2
      DEF PHandled, PAbstimerCall, RunningToPending, listVars, PortKept, Types, QueueInv,
          ListTypes
    <2>2. QED BY <1>1, <1>2, <2>1, QueueConstants DEF PUntouched
  <1>5. IF (Oneshot(s) /\ want[s] # {}) \/ kind[s] = "ro"
          THEN loc'[s] = "pend"
          ELSE loc'[s] = loc[s]
    BY <1>2
    DEF PHandled, PAbstimerCall, RunningToPending, listVars, Oneshot, PortKept, Types,
        QueueInv, ListTypes
  <1>6. kind[s] \in {"os", "ro", "abs", "itm"}
    BY SourceConstants DEF PortKept, Types, FixedTypes
  <1>7. ~assoc[s] /\ pmask[s] = {} /\ ev[s] = {} /\ (IsTimer(s) => loc[s] # "pend")
    BY <1>2, <1>3 DEF PSource
  <1>8. PSource(s)'
    BY <1>1, <1>3, <1>5, <1>7 DEF PSource, PortFrame, fixedVars, IsTimer, Oneshot
  <1>9. PWatched(s)'
    BY <1>1, <1>5, <1>6 DEF PWatched, PortFrame, fixedVars, IsTimer, Oneshot
  <1>10. QED BY <1>4, <1>8, <1>9, POneTouched DEF PortKept

\* The callback stopped the loop: the rest of the batch is lost.
LEMMA PBreakKeeps ==
  ASSUME PortKept, PortFrame, CbBreak, UNCHANGED portVars
  PROVE  (\A x \in Sources : PHolds(x))'
  <1> SUFFICES ASSUME NEW s \in Sources PROVE PHolds(s)'
    OBVIOUS
  <1>1. /\ cur' = NoSource /\ ev'[s] = {} /\ ~Live'
        /\ UNCHANGED <<loc, want, hand, pmask, assoc>>
    BY DEF CbBreak, HandleBreak, Live, portVars, listVars
  <1>2. PSource(s) /\ s # cur'
    BY <1>1, QueueConstants DEF PortKept, PHolds
  <1>3. PSource(s)'
    BY <1>1, <1>2 DEF PSource, PortFrame, fixedVars, IsTimer, Oneshot
  <1>4. QED BY <1>1, <1>3 DEF PHolds

\* The steps between two events, of destroy but for the removals, and of the timers.
LEMMA PIdleKeeps ==
  ASSUME PortKept, PortFrame,
         \/ CbContinue \/ Returns \/ WaitFails \/ Run \/ DestroyStep
         \/ \E s \in Sources : TimerExpires(s),
         UNCHANGED portVars
  PROVE  (\A x \in Sources : PHolds(x))'
  <1>1. UNCHANGED <<loc, ev, cur, todo, want, hand>>
    BY DEF CbContinue, Returns, BatchDone, RemoveReturn, RoundDone, WaitFails, Run,
        DestroyStep, DestroyStart, DestroyCursor, DestroyNext, TimerExpires, listVars,
        queueVars, handleVars, stepVars
  <1>2. \A x \in Sources : PUntouched(x)
    BY <1>1 DEF PUntouched, portVars
  <1>3. QED BY <1>2, PNoneTouched DEF PortKept

\* Every step keeps PHolds.
LEMMA PortKeeps ==
  ASSUME Orderly, PortKept, PortFrame, PortNext
  PROVE  (\A x \in Sources : PHolds(x))'
  <1>1. CASE PClient
    BY <1>1, PClientKeeps
  <1>2. CASE PRound
    <2>1. ASSUME PFlush PROVE (\A x \in Sources : PHolds(x))'
      <3>1. Pending \in SUBSET Pending /\ pc = "flush" /\ Moves(Pending)
        BY <2>1 DEF PFlush, FlushMoves, Moves, Goto
      <3>2. QED BY <2>1, <3>1, PAssociateKeeps DEF PFlush, handleVars, stepVars
    <2>2. ASSUME NEW done \in SUBSET Pending, PFlushFails(done)
          PROVE  (\A x \in Sources : PHolds(x))'
      <3>1. pc = "flush" /\ Moves(done)
        BY <2>2 DEF PFlushFails, FlushAborts, Moves, Goto
      <3>2. QED BY <2>2, <3>1, PAssociateKeeps DEF PFlushFails, handleVars, stepVars
    <2>3. ASSUME NEW toClose \in BOOLEAN, CbRemove, PortDetach(cur, toClose)
          PROVE  (\A x \in Sources : PHolds(x))'
      <3>1. PICK s \in Sources : s = cur
        BY <2>3, CurrentProtected DEF CbRemove, PortKept, Types, QueueInv, FlowInv
      <3>2. DetachFromQueue(s) /\ cur' = NoSource /\ UNCHANGED <<want, hand>>
        BY <2>3, <3>1 DEF CbRemove, HandleRemove
      <3>3. QED BY <2>3, <3>1, <3>2, PDetachKeeps
    <2>4. ASSUME PHandling PROVE (\A x \in Sources : PHolds(x))'
      BY <2>4, PIdleKeeps, PCallKeeps, PHandledKeeps, PBreakKeeps DEF PHandling
    <2>5. QED BY <1>2, <2>1, <2>2, <2>3, <2>4, PWaitKeeps, PFetchKeeps DEF PRound
  <1>3. CASE PDestroy
    <2>1. ASSUME NEW s \in Sources, DestroyRemove(s), PortDetach(s, FALSE)
          PROVE  (\A x \in Sources : PHolds(x))'
      <3>1. cur = NoSource /\ DetachFromQueue(s) /\ UNCHANGED <<cur, todo, want, hand>>
        BY <2>1
        DEF DestroyRemove, DestroyDetach, Goto, stepVars, PortKept, Types, QueueInv, FlowInv
      <3>2. QED BY <2>1, <3>1, QueueConstants, PDetachKeeps
    <2>2. QED BY <1>3, <2>1, PIdleKeeps DEF PDestroy
  <1>4. CASE (Run \/ \E s \in Sources : TimerExpires(s)) /\ UNCHANGED portVars
    BY <1>4, PIdleKeeps
  <1>5. QED BY <1>1, <1>2, <1>3, <1>4 DEF PortNext

\* Every step of event_port keeps the types and its invariant.
LEMMA PortStep ==
  ASSUME Orderly, Types, QueueKept, PortInv, driver = "port", UNCHANGED fixedVars,
         PortNext, UNCHANGED keventVars
  PROVE  Types' /\ QueueKept' /\ PortInv'
  <1>1. /\ \A s \in Sources : PSource(s)
        /\ Live => Exact /\ \A s \in Sources : PWatched(s)
    BY DEF PortInv
  <1>2. DriverTypes'
    BY PortTypes
  <1>3. NativeStep /\ (Live' => Balanced)
    <2>1. CASE PFlushStep \/ PWaitStep
      BY <1>1, <2>1, PortRoundStep DEF NativeStep
    <2>2. CASE ~(PFlushStep \/ PWaitStep)
      <3>1. (PlainStep \/ FetchStep) /\ CurrentMoves
        BY <1>1, <2>2, PortClientStep, PortHandlingStep
        DEF PortNext, PRound, PFlushStep, PWaitStep
      <3>2. QED BY <3>1, StepCounts DEF NativeStep, CurrentMoves, Types
    <2>3. QED BY <2>1, <2>2
  <1>4. QueueInv'
    BY <1>3, StepQueue DEF Types
  <1>5. Types'
    BY <1>2, <1>4 DEF Types, DriverTypes, FixedTypes, fixedVars, CountTypes, keventVars
  <1>6. QueueKept'
    BY <1>3, StepKept DEF Types
  <1>7. Live' => Live
    BY <1>3, StepLive
  <1>8. Live' => Exact'
    BY <1>1, <1>3, <1>4, <1>7, StepExact DEF Types
  <1>9. (\A s \in Sources : PHolds(s))'
    <2>1. \A s \in Sources : PHolds(s)
      BY <1>1 DEF PHolds
    <2>2. QED BY <1>7, <2>1, PortKeeps DEF PortKept, PortFrame
  <1>10. QED BY <1>5, <1>6, <1>8, <1>9 DEF PHolds, PortInv

-----------------------------------------------------------------------------
(***************************************************************************)
(* NativeInv is an invariant of both drivers.                              *)
(***************************************************************************)
\* It holds when the queue is created.
LEMMA NativeInitInv == NativeInit => NativeInv
  <1> SUFFICES ASSUME NativeInit PROVE NativeInv
    OBVIOUS
  <1> USE DEF NativeInit, HandleInit, KeventInit, PortInit
  <1>1. Types
    BY InitTypes
  <1>2. \A s \in Sources : loc[s] = "free" /\ ev[s] = {} /\ s # cur
    BY QueueConstants DEF QueueInit
  <1>3. QueueKept
    BY <1>2, QueueInitEach DEF QueueKept, NoEventForDetached, QueueInit
  <1>4. Exact
    BY InitCounts DEF Exact
  <1>5. ASSUME NEW s \in Sources PROVE KSource(s)
    BY <1>2, <1>5 DEF KSource, KOneshot, KFilter, KPlain, KTimer, Attached
  <1>6. ASSUME NEW s \in Sources PROVE PSource(s) /\ PWatched(s)
    BY <1>2, <1>6 DEF PSource, PWatched, Attached
  <1>7. FlagInv /\ StrayInv
    BY DEF FlagInv, StrayInv, KStray, QueueInit
  <1>8. KeventInv /\ PortInv
    BY <1>4, <1>5, <1>6, <1>7 DEF KeventInv, PortInv
  <1>9. OtherIdle
    BY <1>4 DEF OtherIdle
  <1>10. QED BY <1>1, <1>3, <1>8, <1>9 DEF NativeInv

\* A stuttering step keeps it.
LEMMA NativeStutter ==
  ASSUME NativeInv, UNCHANGED nativeVars
  PROVE  NativeInv'
  <1> USE DEF NativeInv, nativeVars, queueVars, handleVars, fixedVars, stepVars,
          keventVars, portVars, listVars, eachVars
  <1>1. QueueInv' /\ QueueKept' /\ Exact' = Exact /\ Live' = Live
    <2>1. NativeStep
      BY DEF NativeStep, PlainStep
    <2>2. Exact' = Exact /\ Live' = Live
      BY DEF Exact, Live, Pending, Running
    <2>3. QED BY <2>1, <2>2, StepQueue, StepKept DEF Types
  <1>2. Types'
    BY <1>1
    DEF Types, HandTypes, TimerTypes, FixedTypes, KeventTypes, MaskTypes, NoteTypes, CountTypes
  <1>3. ASSUME NEW s \in Sources PROVE KSource(s)' = KSource(s)
    BY DEF KSource, KOneshot, KFilter, KPlain, KTimer, Attached, Oneshot, IsTimer
  <1>4. ASSUME NEW s \in Sources PROVE PSource(s)' = PSource(s) /\ PWatched(s)' = PWatched(s)
    BY DEF PSource, PWatched, Attached, Oneshot, IsTimer
  <1>5. FlagInv' = FlagInv /\ StrayInv' = StrayInv
    BY DEF FlagInv, Stale, Pending, StrayInv, KStray, Attached, Oneshot, IsTimer
  <1>6. KeventInv' /\ PortInv'
    BY <1>1, <1>3, <1>4, <1>5 DEF KeventInv, PortInv
  <1>7. OtherIdle'
    BY <1>1 DEF OtherIdle
  <1>8. QED BY <1>1, <1>2, <1>6, <1>7

\* Every step keeps it.
LEMMA NativeStepInv ==
  ASSUME Orderly, NativeInv, [NativeNext]_nativeVars
  PROVE  NativeInv'
  <1> USE DEF NativeInv
  <1>1. CASE UNCHANGED nativeVars
    BY <1>1, NativeStutter
  <1>2. CASE driver = "kevent" /\ KeventNext /\ UNCHANGED portVars /\ UNCHANGED fixedVars
    <2>1. Types' /\ QueueKept' /\ KeventInv'
      BY <1>2, KeventStep
    <2>2. driver' = driver /\ pmask' = pmask
      BY <1>2 DEF fixedVars, portVars
    <2>3. PortInv' /\ OtherIdle'
      BY <1>2, <2>2 DEF PortInv, OtherIdle
    <2>4. QED BY <2>1, <2>3
  <1>3. CASE driver = "port" /\ PortNext /\ UNCHANGED keventVars /\ UNCHANGED fixedVars
    <2>1. Types' /\ QueueKept' /\ PortInv'
      BY <1>3, PortStep
    <2>2. driver' = driver /\ knote' = knote /\ asked' = asked
      BY <1>3 DEF fixedVars, keventVars
    <2>3. KeventInv' /\ OtherIdle'
      BY <1>3, <2>2 DEF KeventInv, OtherIdle
    <2>4. QED BY <2>1, <2>3
  <1>4. QED BY <1>1, <1>2, <1>3 DEF NativeNext

LEMMA NativeInvariant == Orderly /\ NativeSpec => []NativeInv
  <1>1. Orderly /\ NativeInv /\ [NativeNext]_nativeVars => NativeInv'
    BY NativeStepInv
  <1>2. Orderly => []Orderly
    <2>1. Orderly => Orderly'
      BY DEF Orderly, May
    <2>2. QED BY <2>1, PTL
  <1>3. QED BY <1>1, <1>2, NativeInitInv, PTL DEF NativeSpec

-----------------------------------------------------------------------------
(***************************************************************************)
(* What the drivers promise.                                               *)
(***************************************************************************)
\* The types, and counters that match the lists.
LEMMA InvSound == NativeInv => NativeSound
  <1> SUFFICES ASSUME NativeInv PROVE NativeSound
    OBVIOUS
  <1> USE DEF NativeInv, Types
  <1>1. HandleTypeOK
    <2>1. QueueTypeOK
      BY DEF QueueInv, ListTypes, EachTypes, FlagType, QueueTypeOK
    <2>2. HandTypes /\ TimerTypes /\ FixedTypes
      OBVIOUS
    <2>3. QED BY <2>1, <2>2 DEF HandTypes, TimerTypes, FixedTypes, HandleTypeOK
  <1>2. driver = "kevent" => nPend \in Nat /\ nRun \in Nat
    BY ListsFinite DEF KeventInv, Exact
  <1>3. KeventTypeOK
    BY <1>1, <1>2 DEF KeventTypes, NoteTypes, CountTypes, KeventTypeOK
  <1>4. PortTypeOK
    BY DEF MaskTypes, NoteTypes, PortTypeOK
  <1>5. StatsExact
    BY DEF KeventInv, PortInv, OtherIdle, Exact, StatsExact
  <1>6. QED BY <1>3, <1>4, <1>5 DEF NativeTypeOK, NativeSound

\* What the client asked for is on its way.
LEMMA InvWatched == NativeInv => InterestWatched
  <1> SUFFICES ASSUME NativeInv PROVE InterestWatched
    OBVIOUS
  <1> USE DEF NativeInv
  <1>1. FilterWatched
    <2>1. SUFFICES ASSUME Live, NEW s \in Attached, NEW d \in asked[s]
                   PROVE  \/ d \in knote[s] \/ d \in ev[s] \/ (s = cur /\ d \in todo)
                          \/ (loc[s] = "pend" /\ d \in want[s])
      BY DEF FilterWatched
    <2>2. s \in Sources /\ driver = "kevent"
      BY DEF OtherIdle, Attached
    <2>3. KSource(s) /\ asked[s] \in SUBSET IO
      BY <2>1, <2>2 DEF KeventInv, Types, KeventTypes
    <2>4. Oneshot(s) /\ KOneshot(s) /\ KFilter(s, d)
      BY <2>3 DEF KSource, KPlain, KOneshot
    <2>5. d \in want[s] => loc[s] = "pend"
      BY <2>4 DEF KOneshot, Attached
    <2>6. QED BY <2>4, <2>5 DEF KFilter
  <1>2. TimerGoesOn
    <2>1. SUFFICES ASSUME driver = "kevent", Live, NEW s \in Attached, IsTimer(s)
                   PROVE  "IN" \in knote[s] \/ loc[s] = "pend" \/ ev[s] # {} \/ s = cur
      BY DEF TimerGoesOn
    <2>2. s \in Sources /\ KSource(s)
      BY <2>1 DEF KeventInv, Attached
    <2>3. KPlain(s) /\ KTimer(s)
      BY <2>1, <2>2 DEF KSource, IsTimer, Oneshot
    <2>4. QED BY <2>3 DEF KPlain, KTimer, Attached
  <1>3. InterestAssociated
    BY DEF PortInv, PWatched, InterestAssociated, Attached
  <1>4. QED BY <1>1, <1>2, <1>3 DEF InterestWatched

\* Nothing is left of what was detached.
LEMMA InvStray == NativeInv => NothingStray
  <1> SUFFICES ASSUME NativeInv PROVE NothingStray
    OBVIOUS
  <1> USE DEF NativeInv
  <1>1. NoStrayFilter
    <2>1. SUFFICES ASSUME NEW s \in Sources \ refused, knote[s] # {}
                   PROVE  s \in Attached /\ (Oneshot(s) => knote[s] \subseteq kAdded[s])
      BY DEF NoStrayFilter
    <2>2. QED BY <2>1 DEF OtherIdle, KeventInv, StrayInv, KStray
  <1>2. NoStrayAssociation
    <2>1. SUFFICES ASSUME NEW s \in Sources, pmask[s] # {} PROVE s \in Attached /\ assoc[s]
      BY DEF NoStrayAssociation
    <2>2. PSource(s)
      BY <2>1 DEF OtherIdle, PortInv
    <2>3. QED BY <2>1, <2>2 DEF PSource, Attached
  <1>3. QED BY <1>1, <1>2 DEF NothingStray

\* What is called was asked for.
LEMMA InvAsked == NativeInv => HandlersAsked
  <1> SUFFICES ASSUME NativeInv PROVE HandlersAsked
    OBVIOUS
  <1> USE DEF NativeInv
  <1>1. HandlerSet
    <2>1. SUFFICES ASSUME driver = "kevent", pc = "dispatch", Oneshot(cur),
                          NEW d \in todo \cap IO
                   PROVE  d \in hand[cur] /\ d \in asked[cur]
      BY DEF HandlerSet
    <2>2. cur \in Sources
      BY <2>1, CurrentProtected
    <2>3. KFilter(cur, d)
      BY <2>1, <2>2 DEF KeventInv, Live, KSource, KOneshot
    <2>4. QED BY <2>1, <2>3 DEF KFilter
  <1>2. CalledWhenAsked
    <2>1. SUFFICES ASSUME driver = "port", pc = "dispatch", Oneshot(cur),
                          NEW flag \in Callable \ {"HUP"}
                   PROVE  flag \in want[cur]
      BY DEF CalledWhenAsked
    <2>2. cur \in Sources
      BY <2>1, CurrentProtected
    <2>3. flag \in todo /\ flag \in hand[cur]
      BY DEF Callable
    <2>4. QED BY <2>1, <2>2, <2>3 DEF PortInv, PSource
  <1>3. QED BY <1>1, <1>2 DEF HandlersAsked

(***************************************************************************)
(* stats.pending and stats.running match the lists as long as the loop     *)
(* goes on, whatever evdp_queue_flush_pending_sources moves, also for a    *)
(* source with two changes in one batch, and nothing else gets out of      *)
(* type.                                                                   *)
(***************************************************************************)
THEOREM NativeBooks == Orderly /\ NativeSpec => []NativeSound
  BY NativeInvariant, InvSound, PTL

(***************************************************************************)
(* What next_read, next_write or a timer asked for is not forgotten while  *)
(* the loop goes on: the kernel watches it, the batch holds its event, its *)
(* handler is about to be called, or the source is pending.                *)
(***************************************************************************)
THEOREM NativeWatches == Orderly /\ NativeSpec => []InterestWatched
  BY NativeInvariant, InvWatched, PTL

(***************************************************************************)
(* evdp_source_*_detach leave no filter in the kqueue and no association   *)
(* at the port, so that neither reports a source that was deleted: also    *)
(* when the loop has ended because a wait or port_associate failed half    *)
(* way, and during neb_evdp_queue_destroy.  The exception are sources      *)
(* whose filters a do_batch_flush that failed has added.                   *)
(***************************************************************************)
THEOREM NativeNothingStray == Orderly /\ NativeSpec => []NothingStray
  BY NativeInvariant, InvStray, PTL

(***************************************************************************)
(* evdp_source_os_fd_handle of either driver calls do_read and do_write    *)
(* only if they are set and were asked for since the last call.            *)
(***************************************************************************)
THEOREM NativeAsked == Orderly /\ NativeSpec => []HandlersAsked
  BY NativeInvariant, InvAsked, PTL
=============================================================================
