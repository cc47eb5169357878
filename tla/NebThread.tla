----------------------------- MODULE NebThread -----------------------------
(***************************************************************************)
(* Threads of a process (thread.c with sem_posix.c): the registry of the   *)
(* running threads, the ready notification a creator waits for, and the    *)
(* destruction of a thread through a signal that its event loop notices    *)
(* (signal.c, events.c and the head of neb_evdp_queue_run).                *)
(*                                                                         *)
(* A created thread registers, sets itself ready, runs a queue without an  *)
(* event handler of its own and leaves when the queue does.  The main      *)
(* thread creates and destroys.  A pthread_t is used again once its thread *)
(* was joined.  thread_rbt_lock makes each access to the tree one step.    *)
(***************************************************************************)
EXTENDS Integers, FiniteSets

CONSTANTS
  Threads,      \* values of pthread_t
  NoThread,
  MaxSignals,   \* bound: SIGCHLDs that are delivered to some thread
  MaxTimeouts   \* bound: creations that time out

ASSUME ThreadConstants ==
  IsFiniteSet(Threads) /\ NoThread \notin Threads /\ MaxSignals \in Nat /\ MaxTimeouts \in Nat

VARIABLES
  wpc,          \* control state of each thread
  events,       \* thread_events, thread local
  tree,         \* the keys in thread_rbt
  sem,          \* the value of thread_ready_sem
  mpc, target,  \* control state of the main thread and the thread it is about
  ok,           \* threads for which neb_thread_create returned 0
  late,         \* threads whose creation timed out: the caller has the pthread_t
  timeouts,     \* history: creations that timed out
  signals

threadVars == <<wpc, events, tree>>
mainVars   == <<mpc, target, ok, late>>
vars == <<threadVars, mainVars, sem, timeouts, signals>>

Init ==
  /\ wpc = [t \in Threads |-> "none"]
  /\ events = [t \in Threads |-> {}]
  /\ tree = {} /\ sem = 0
  /\ mpc = "idle" /\ target = NoThread
  /\ ok = {} /\ late = {} /\ timeouts = 0 /\ signals = 0

Starting == {"start", "keyed", "registered"}
Looping == {"loop", "clear", "checked", "sleep"}

Step(t, from, to) == wpc[t] = from /\ wpc' = [wpc EXCEPT ![t] = to]
-----------------------------------------------------------------------------
(***************************************************************************)
(* The created thread.                                                     *)
(***************************************************************************)

\* neb_thread_register sets the exit key ...
SetExitKey(t) ==
  /\ Step(t, "start", "keyed")
  /\ UNCHANGED <<events, tree, mainVars, sem, timeouts, signals>>

\* Mutant: the thread forgets to enter the tree.
BugNoAdd(t) ==
  /\ Step(t, "keyed", "registered")
  /\ UNCHANGED <<events, tree, mainVars, sem, timeouts, signals>>

\* ... and then adds the thread to the tree.
RbtAdd(t) ==
  /\ Step(t, "keyed", "registered")
  /\ t \notin tree
  /\ tree' = tree \cup {t}
  /\ UNCHANGED <<events, mainVars, sem, timeouts, signals>>

\* neb_thread_set_ready; the thread then runs its queue.
SetReady(t) ==
  /\ Step(t, "registered", "loop")
  /\ sem' = sem + 1
  /\ UNCHANGED <<events, tree, mainVars, timeouts, signals>>

(***************************************************************************)
(* The head of neb_evdp_queue_run.  A QUIT ends the loop, other events are *)
(* forgotten by `thread_events = 0', which is another access.              *)
(***************************************************************************)
LoopHead(t) ==
  /\ \/ events[t] = {} /\ Step(t, "loop", "checked")
     \/ "QUIT" \in events[t] /\ Step(t, "loop", "unwind")
     \/ events[t] = {"CHLD"} /\ Step(t, "loop", "clear")
  /\ UNCHANGED <<events, tree, mainVars, sem, timeouts, signals>>

\* Mutant: the word is set to T_E_MORE, not to T_E_NONE.
BugClearsWrong(t) ==
  /\ Step(t, "clear", "checked")
  /\ events' = [events EXCEPT ![t] = {"MORE"}]
  /\ UNCHANGED <<tree, mainVars, sem, timeouts, signals>>

ClearEvents(t) ==
  /\ Step(t, "clear", "checked")
  /\ events' = [events EXCEPT ![t] = {}]
  /\ UNCHANGED <<tree, mainVars, sem, timeouts, signals>>

\* The queue waits for events, and returns when there is one.
Sleep(t) ==
  /\ Step(t, "checked", "sleep")
  /\ UNCHANGED <<events, tree, mainVars, sem, timeouts, signals>>

WakeEvent(t) ==
  /\ Step(t, "sleep", "loop")
  /\ UNCHANGED <<events, tree, mainVars, sem, timeouts, signals>>

\* The thread may also leave for a reason of its own: a callback ends the loop.
Leave(t) ==
  /\ wpc[t] \in {"checked", "sleep"} /\ wpc' = [wpc EXCEPT ![t] = "unwind"]
  /\ UNCHANGED <<events, tree, mainVars, sem, timeouts, signals>>

\* Mutant: the destructor of the key leaves the tree alone.
BugStays(t) ==
  /\ Step(t, "unwind", "dead")
  /\ UNCHANGED <<events, tree, mainVars, sem, timeouts, signals>>

\* thread_rbt_del, the destructor of the exit key, when the thread exits.
RbtDel(t) ==
  /\ Step(t, "unwind", "dead")
  /\ tree' = tree \ {t}
  /\ UNCHANGED <<events, mainVars, sem, timeouts, signals>>

\* A handler sets its bit in thread_events of the thread it runs in; a wait that
\* it interrupts ends with EINTR.
Handle(t, e) ==
  /\ events' = [events EXCEPT ![t] = @ \cup {e}]
  /\ wpc' = [wpc EXCEPT ![t] = IF @ = "sleep" THEN "loop" ELSE @]

\* neb_sigchld_action in some thread.
SigChld(t) ==
  /\ wpc[t] \in Looping /\ signals < MaxSignals
  /\ Handle(t, "CHLD") /\ signals' = signals + 1
  /\ UNCHANGED <<tree, mainVars, sem, timeouts>>
-----------------------------------------------------------------------------
(***************************************************************************)
(* neb_thread_create in the main thread.                                   *)
(***************************************************************************)
Create(t) ==
  /\ mpc = "idle" /\ wpc[t] = "none"
  /\ wpc' = [wpc EXCEPT ![t] = "start"]
  /\ events' = [events EXCEPT ![t] = {}]
  /\ mpc' = "create" /\ target' = t
  /\ UNCHANGED <<tree, ok, late, sem, timeouts, signals>>

Return == mpc' = "idle" /\ target' = NoThread

\* Mutant: the creator does not take the notification.
BugNoTake ==
  /\ mpc = "create" /\ sem > 0
  /\ ok' = ok \cup {target}
  /\ Return
  /\ UNCHANGED <<threadVars, late, sem, timeouts, signals>>

\* neb_sem_notify_timedwait returns 0 ...
CreateReady ==
  /\ mpc = "create" /\ sem > 0
  /\ sem' = sem - 1
  /\ ok' = ok \cup {target}
  /\ Return
  /\ UNCHANGED <<threadVars, late, timeouts, signals>>

\* ... or its second is over; the thread has been created all the same.
CreateTimeout ==
  /\ mpc = "create" /\ sem = 0 /\ timeouts < MaxTimeouts
  /\ late' = late \cup {target} /\ timeouts' = timeouts + 1
  /\ Return
  /\ UNCHANGED <<threadVars, ok, sem, signals>>

(***************************************************************************)
(* neb_thread_destroy.  A thread that is not in the tree is joined without *)
(* a signal and without a limit.                                           *)
(***************************************************************************)
Destroy(t) ==
  /\ mpc = "idle" /\ t \in ok \cup late
  /\ mpc' = IF t \in tree THEN "kill" ELSE "join"
  /\ target' = t
  /\ UNCHANGED <<threadVars, ok, late, sem, timeouts, signals>>

\* pthread_kill with the signal of neb_sigterm_handler; for a thread that has exited
\* and is not joined it does nothing.
Kill ==
  /\ mpc = "kill" /\ mpc' = "timedjoin"
  /\ IF wpc[target] = "dead" THEN UNCHANGED <<wpc, events>> ELSE Handle(target, "QUIT")
  /\ UNCHANGED <<tree, target, ok, late, sem, timeouts, signals>>

\* ... or, with an older libc, ESRCH: the thread is not joined.
KillFails ==
  /\ mpc = "kill" /\ wpc[target] = "dead"
  /\ Return
  /\ UNCHANGED <<threadVars, ok, late, sem, timeouts, signals>>

\* pthread_join and pthread_clockjoin_np return with the thread.
Join ==
  /\ mpc \in {"join", "timedjoin"} /\ Step(target, "dead", "none")
  /\ ok' = ok \ {target} /\ late' = late \ {target}
  /\ Return
  /\ UNCHANGED <<events, tree, sem, timeouts, signals>>

JoinTimeout ==
  /\ mpc = "timedjoin" /\ wpc[target] # "dead"
  /\ Return
  /\ UNCHANGED <<threadVars, ok, late, sem, timeouts, signals>>

Worker(t) ==
  SetExitKey(t) \/ RbtAdd(t) \/ SetReady(t) \/ LoopHead(t) \/ ClearEvents(t) \/ Sleep(t) \/ RbtDel(t)

Main == CreateReady \/ CreateTimeout \/ Kill \/ KillFails \/ Join \/ JoinTimeout

Next ==
  \/ Main
  \/ \E t \in Threads :
       Worker(t) \/ WakeEvent(t) \/ Leave(t) \/ SigChld(t) \/ Create(t) \/ Destroy(t)

Spec == Init /\ [][Next]_vars

(***************************************************************************)
(* Threads that can run do run and the waits of the main thread are timed. *)
(* Nothing promises an event to a queue that waits, a signal, or a         *)
(* callback that ends the loop.                                            *)
(***************************************************************************)
LiveSpec == Spec /\ WF_vars(Main) /\ \A t \in Threads : WF_vars(Worker(t))
-----------------------------------------------------------------------------
Unready == {t \in Threads : wpc[t] \in Starting}
Exited == {t \in Threads : wpc[t] \in {"none", "dead"}}

\* Types of the thread's words, the registry, and the main thread (thread.c).
TypeOK ==
  /\ wpc \in [Threads -> Starting \cup Looping \cup {"none", "unwind", "dead"}]
  /\ events \in [Threads -> SUBSET {"QUIT", "CHLD"}]
  /\ tree \subseteq Threads
  /\ sem \in Nat /\ timeouts \in 0..MaxTimeouts /\ signals \in 0..MaxSignals
  /\ mpc \in {"idle", "create", "kill", "join", "timedjoin"}
  /\ target \in Threads \cup {NoThread}
  /\ ok \subseteq Threads /\ late \subseteq Threads

\* What neb_thread_is_running answers: a thread that left is never found, so that a
\* pthread_t used again does not inherit an entry (thread_rbt_add would fail with
\* "already existed"), and every thread that runs a queue is.
RegistryExact ==
  /\ tree \cap Exited = {}
  /\ \A t \in Threads : wpc[t] \in Looping => t \in tree

\* thread_ready_sem is shared by all creations.  Each leaves one notification, taken
\* by some creator: what is left over or still to come is owed to creations that
\* timed out, and to the one under way.
ReadyCredit ==
  sem + Cardinality(Unready) = timeouts + (IF mpc = "create" THEN 1 ELSE 0)

\* neb_thread_create returned 0: the thread has set itself ready, unless some
\* creation timed out before and its late notification was taken for this one's.
ReadyWhenCreated == timeouts = 0 => ok \cap Unready = {}

\* neb_thread_create and neb_thread_destroy return: the join without a limit is only
\* reached for a thread that has exited, again unless some creation timed out.
CallsReturn == (mpc # "idle" /\ timeouts = 0) ~> (mpc = "idle")

\* A thread whose queue is running and that gets T_E_QUIT leaves it.
QuitHeeded == \A t \in Threads :
  (wpc[t] \in Looping /\ "QUIT" \in events[t]) ~> (wpc[t] \in {"unwind", "dead", "none"})

(***************************************************************************)
(* The tree of running threads follows the threads: each one in its loop   *)
(* is in it, none that has exited.                                         *)
(***************************************************************************)
RegistrySound == TypeOK /\ RegistryExact

(***************************************************************************)
(* thread_ready_sem: posts and waits balance, and a creation that          *)
(* succeeded means a thread that is ready, unless one timed out before.    *)
(***************************************************************************)
ReadyExact == ReadyCredit /\ ReadyWhenCreated
=============================================================================
