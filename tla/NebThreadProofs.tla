-------------------------- MODULE NebThreadProofs --------------------------
(***************************************************************************)
(* Proofs about thread.c, for any number of threads, signals and creations *)
(* that time out.                                                          *)
(*                                                                         *)
(* Neither property of the run is inductive.  The registry is determined   *)
(* by where each thread is (TreeInv).  That a creation which succeeded     *)
(* means a ready thread needs the balance of the semaphore and that the    *)
(* main thread only knows threads it has not joined yet (KnownInv).        *)
(***************************************************************************)
EXTENDS NebThread, TLAPS, FiniteSetTheorems

\* Between thread_rbt_add and the destructor of the exit key.
Registered == {"registered", "unwind"} \cup Looping

TreeInv == \A t \in Threads : t \in tree <=> wpc[t] \in Registered

\* The threads the main thread can name are created and not joined.
KnownInv ==
  /\ mpc # "idle" => target \in Threads
  /\ \A t \in ok \cup late : wpc[t] # "none"
  /\ mpc # "idle" => wpc[target] # "none"
  /\ timeouts = 0 => late = {}

\* The join without a limit finds a thread that has exited.
JoinEnds == mpc = "join" /\ timeouts = 0 => wpc[target] = "dead"

IInv == TypeOK /\ TreeInv /\ KnownInv /\ ReadyCredit /\ ReadyWhenCreated /\ JoinEnds

-----------------------------------------------------------------------------
(***************************************************************************)
(* The threads that have not set themselves ready yet.                     *)
(***************************************************************************)

\* They can be counted.
LEMMA UnreadyFinite == IsFiniteSet(Unready) /\ Cardinality(Unready) \in Nat
  <1>1. Unready \in SUBSET Threads /\ IsFiniteSet(Threads)
    BY ThreadConstants DEF Unready
  <1>2. IsFiniteSet(Unready)
    BY <1>1, FS_Subset
  <1>3. QED BY <1>2, FS_CardinalityType

\* None is left when their number is 0.
LEMMA UnreadyNone ==
  ASSUME Cardinality(Unready) = 0
  PROVE  Unready = {}
  BY UnreadyFinite, FS_EmptySet

\* A step that moves no thread into or out of neb_thread_register and
\* neb_thread_set_ready leaves them as they are.
LEMMA UnreadySame ==
  ASSUME \A t \in Threads : wpc'[t] \in Starting <=> wpc[t] \in Starting
  PROVE  Unready' = Unready
  BY DEF Unready
-----------------------------------------------------------------------------
\* Before the first thread is created the inductive invariant holds.
LEMMA InitIInv == Init => IInv
  <1> SUFFICES ASSUME Init PROVE IInv
    OBVIOUS
  <1>1. TypeOK
    BY ThreadConstants DEF Init, TypeOK
  <1>2. TreeInv /\ KnownInv /\ JoinEnds /\ ReadyWhenCreated
    BY DEF Init, TreeInv, KnownInv, JoinEnds, ReadyWhenCreated, Registered, Looping
  <1>3. Unready = {}
    BY DEF Init, Unready, Starting
  <1>4. ReadyCredit
    BY <1>3, FS_EmptySet DEF Init, ReadyCredit
  <1>5. QED BY <1>1, <1>2, <1>4 DEF IInv

\* Steps of a thread that leave its registration, its readiness, the semaphore and the
\* main thread alone preserve it: the queue, its events and signals.
LEMMA QuietIInv ==
  ASSUME IInv, TypeOK', UNCHANGED <<tree, mainVars, sem, timeouts>>,
         \A t \in Threads :
           /\ wpc'[t] \in Registered <=> wpc[t] \in Registered
           /\ wpc'[t] \in Starting <=> wpc[t] \in Starting
           /\ wpc'[t] = "none" <=> wpc[t] = "none"
           /\ wpc[t] = "dead" => wpc'[t] = "dead"
  PROVE  IInv'
  <1> USE DEF IInv, mainVars
  <1>1. TreeInv'
    BY DEF TreeInv
  <1>2. KnownInv'
    BY DEF KnownInv, TypeOK
  <1>3. Unready' = Unready
    BY UnreadySame
  <1>4. ReadyCredit' /\ ReadyWhenCreated'
    BY <1>3 DEF ReadyCredit, ReadyWhenCreated
  <1>5. JoinEnds'
    BY DEF JoinEnds, KnownInv
  <1>6. QED BY <1>1, <1>2, <1>4, <1>5

\* The queue of a thread preserves it.
LEMMA QueueIInv ==
  ASSUME IInv, NEW t \in Threads,
         SetExitKey(t) \/ LoopHead(t) \/ ClearEvents(t) \/ Sleep(t) \/ WakeEvent(t) \/ Leave(t)
  PROVE  IInv'
  <1> USE DEF SetExitKey, LoopHead, ClearEvents, Sleep, WakeEvent, Leave, Step
  <1>1. TypeOK'
    BY DEF IInv, TypeOK, Starting, Looping, mainVars
  <1>2. UNCHANGED <<tree, mainVars, sem, timeouts>>
    BY DEF mainVars
  <1>3. ASSUME NEW u \in Threads
        PROVE  /\ wpc'[u] \in Registered <=> wpc[u] \in Registered
               /\ wpc'[u] \in Starting <=> wpc[u] \in Starting
               /\ wpc'[u] = "none" <=> wpc[u] = "none"
               /\ wpc[u] = "dead" => wpc'[u] = "dead"
    BY DEF IInv, TypeOK, Registered, Starting, Looping
  <1>4. QED BY <1>1, <1>2, <1>3, QuietIInv

\* A signal handler in a thread leaves it where it was, or ends its wait.
LEMMA HandleQuiet ==
  ASSUME TypeOK, NEW t \in Threads, NEW e \in {"QUIT", "CHLD"}, Handle(t, e)
  PROVE  /\ wpc' \in [Threads -> Starting \cup Looping \cup {"none", "unwind", "dead"}]
         /\ events' \in [Threads -> SUBSET {"QUIT", "CHLD"}]
         /\ \A u \in Threads :
              /\ wpc'[u] \in Registered <=> wpc[u] \in Registered
              /\ wpc'[u] \in Starting <=> wpc[u] \in Starting
              /\ wpc'[u] = "none" <=> wpc[u] = "none"
              /\ wpc[u] = "dead" => wpc'[u] = "dead"
  BY DEF Handle, TypeOK, Registered, Starting, Looping

\* SIGCHLD preserves it.
LEMMA SigChldIInv ==
  ASSUME IInv, NEW t \in Threads, SigChld(t)
  PROVE  IInv'
  <1>1. Handle(t, "CHLD") /\ signals < MaxSignals /\ signals' = signals + 1
    BY DEF SigChld
  <1>2. UNCHANGED <<tree, mainVars, sem, timeouts>>
    BY DEF SigChld
  <1>3. TypeOK'
    BY <1>1, <1>2, HandleQuiet, ThreadConstants DEF IInv, TypeOK, mainVars
  <1>4. QED BY <1>1, <1>2, <1>3, HandleQuiet, QuietIInv DEF IInv

\* thread_rbt_add preserves it.
LEMMA RbtAddIInv ==
  ASSUME IInv, NEW t \in Threads, RbtAdd(t)
  PROVE  IInv'
  <1> USE DEF IInv, RbtAdd, Step, mainVars
  <1>1. TypeOK'
    BY DEF TypeOK, Starting
  <1>2. TreeInv'
    BY DEF TreeInv, TypeOK, Registered
  <1>3. KnownInv'
    BY DEF KnownInv, TypeOK
  <1>4. Unready' = Unready
    BY UnreadySame DEF TypeOK, Starting
  <1>5. ReadyCredit' /\ ReadyWhenCreated'
    BY <1>4 DEF ReadyCredit, ReadyWhenCreated
  <1>6. JoinEnds'
    BY DEF JoinEnds, KnownInv, TypeOK
  <1>7. QED BY <1>1, <1>2, <1>3, <1>5, <1>6

\* neb_thread_set_ready preserves it: the notification it posts was owed.
LEMMA SetReadyIInv ==
  ASSUME IInv, NEW t \in Threads, SetReady(t)
  PROVE  IInv'
  <1> USE DEF IInv, SetReady, Step, mainVars
  <1>1. TypeOK'
    BY DEF TypeOK, Looping
  <1>2. TreeInv'
    BY DEF TreeInv, TypeOK, Registered, Looping
  <1>3. KnownInv'
    BY DEF KnownInv, TypeOK
  <1>4. Unready' = Unready \ {t} /\ t \in Unready
    BY DEF Unready, TypeOK, Starting
  <1>5. Cardinality(Unready') = Cardinality(Unready) - 1
    BY <1>4, UnreadyFinite, FS_RemoveElement
  <1>6. ReadyCredit'
    BY <1>5, UnreadyFinite DEF ReadyCredit, TypeOK
  <1>7. ReadyWhenCreated'
    BY <1>4 DEF ReadyWhenCreated
  <1>8. JoinEnds'
    BY DEF JoinEnds, KnownInv, TypeOK
  <1>9. QED BY <1>1, <1>2, <1>3, <1>6, <1>7, <1>8

\* thread_rbt_del preserves it.
LEMMA RbtDelIInv ==
  ASSUME IInv, NEW t \in Threads, RbtDel(t)
  PROVE  IInv'
  <1> USE DEF IInv, RbtDel, Step, mainVars
  <1>1. TypeOK'
    BY DEF TypeOK
  <1>2. TreeInv'
    BY DEF TreeInv, TypeOK, Registered, Looping
  <1>3. KnownInv'
    BY DEF KnownInv, TypeOK
  <1>4. Unready' = Unready
    BY UnreadySame DEF TypeOK, Starting
  <1>5. ReadyCredit' /\ ReadyWhenCreated'
    BY <1>4 DEF ReadyCredit, ReadyWhenCreated
  <1>6. JoinEnds'
    BY DEF JoinEnds, KnownInv, TypeOK
  <1>7. QED BY <1>1, <1>2, <1>3, <1>5, <1>6
-----------------------------------------------------------------------------
\* pthread_create preserves it: a new thread is unready, and the creator is owed one
\* notification more.
LEMMA CreateIInv ==
  ASSUME IInv, NEW t \in Threads, Create(t)
  PROVE  IInv'
  <1> USE DEF IInv, Create
  <1>1. TypeOK'
    BY DEF TypeOK, Starting
  <1>2. TreeInv'
    BY DEF TreeInv, TypeOK, Registered, Looping
  <1>3. KnownInv'
    BY DEF KnownInv, TypeOK
  <1>4. Unready' = Unready \cup {t} /\ t \notin Unready
    BY DEF Unready, TypeOK, Starting
  <1>5. Cardinality(Unready') = Cardinality(Unready) + 1
    BY <1>4, UnreadyFinite, FS_AddElement
  <1>6. ReadyCredit'
    BY <1>5, UnreadyFinite DEF ReadyCredit, TypeOK
  <1>7. ReadyWhenCreated'
    BY <1>4 DEF ReadyWhenCreated, KnownInv
  <1>8. JoinEnds'
    BY DEF JoinEnds
  <1>9. QED BY <1>1, <1>2, <1>3, <1>6, <1>7, <1>8

\* neb_sem_notify_timedwait preserves it: without a creation that timed out, the
\* notification it takes is the only one, so that nobody is left to become ready.
LEMMA CreateReadyIInv ==
  ASSUME IInv, CreateReady
  PROVE  IInv'
  <1> USE DEF IInv, CreateReady, Return, threadVars
  <1>1. TypeOK'
    BY DEF TypeOK, KnownInv
  <1>2. TreeInv'
    BY DEF TreeInv
  <1>3. KnownInv'
    BY DEF KnownInv, TypeOK
  <1>4. Unready' = Unready
    BY DEF Unready
  <1>5. ReadyCredit'
    BY <1>4, UnreadyFinite DEF ReadyCredit, TypeOK
  <1>6. timeouts = 0 => Cardinality(Unready) = 0
    BY UnreadyFinite DEF ReadyCredit, TypeOK
  <1>7. ReadyWhenCreated'
    BY <1>4, <1>6, UnreadyNone DEF ReadyWhenCreated
  <1>8. JoinEnds'
    BY DEF JoinEnds
  <1>9. QED BY <1>1, <1>2, <1>3, <1>5, <1>7, <1>8

\* A creation that times out preserves it.
LEMMA CreateTimeoutIInv ==
  ASSUME IInv, CreateTimeout
  PROVE  IInv'
  <1> USE DEF IInv, CreateTimeout, Return, threadVars
  <1>1. TypeOK'
    BY ThreadConstants DEF TypeOK, KnownInv
  <1>2. TreeInv'
    BY DEF TreeInv
  <1>3. KnownInv'
    BY ThreadConstants DEF KnownInv, TypeOK
  <1>4. Unready' = Unready
    BY DEF Unready
  <1>5. ReadyCredit'
    BY <1>4, UnreadyFinite, ThreadConstants DEF ReadyCredit, TypeOK
  <1>6. ReadyWhenCreated' /\ JoinEnds'
    BY ThreadConstants DEF ReadyWhenCreated, JoinEnds, TypeOK
  <1>7. QED BY <1>1, <1>2, <1>3, <1>5, <1>6

\* The lookup of neb_thread_destroy preserves it: a thread that set itself ready and
\* is not in the tree has exited.
LEMMA DestroyIInv ==
  ASSUME IInv, NEW t \in Threads, Destroy(t)
  PROVE  IInv'
  <1> USE DEF IInv, Destroy, threadVars
  <1>1. TypeOK'
    BY DEF TypeOK
  <1>2. TreeInv' /\ KnownInv'
    BY DEF TreeInv, KnownInv
  <1>3. Unready' = Unready
    BY DEF Unready
  <1>4. ReadyCredit' /\ ReadyWhenCreated'
    BY <1>3 DEF ReadyCredit, ReadyWhenCreated
  <1>5. ASSUME timeouts = 0, t \notin tree PROVE wpc[t] = "dead"
    <2>1. wpc[t] # "none" /\ t \notin Unready
      BY <1>5 DEF KnownInv, ReadyWhenCreated
    <2>2. QED
      BY <1>5, <2>1 DEF TreeInv, TypeOK, Unready, Registered
  <1>6. JoinEnds'
    BY <1>5 DEF JoinEnds
  <1>7. QED BY <1>1, <1>2, <1>4, <1>6

\* pthread_kill preserves it.
LEMMA KillIInv ==
  ASSUME IInv, Kill
  PROVE  IInv'
  <1>1. target \in Threads
    BY DEF IInv, KnownInv, Kill
  <1>2. /\ wpc' \in [Threads -> Starting \cup Looping \cup {"none", "unwind", "dead"}]
        /\ events' \in [Threads -> SUBSET {"QUIT", "CHLD"}]
        /\ \A u \in Threads :
             /\ wpc'[u] \in Registered <=> wpc[u] \in Registered
             /\ wpc'[u] \in Starting <=> wpc[u] \in Starting
             /\ wpc'[u] = "none" <=> wpc[u] = "none"
             /\ wpc[u] = "dead" => wpc'[u] = "dead"
    <2>1. CASE wpc[target] = "dead"
      BY <2>1 DEF Kill, IInv, TypeOK
    <2>2. CASE wpc[target] # "dead"
      BY <1>1, <2>2, HandleQuiet DEF Kill, IInv
    <2>3. QED BY <2>1, <2>2
  <1> USE DEF IInv, Kill
  <1>3. TypeOK'
    BY <1>2 DEF TypeOK
  <1>4. TreeInv'
    BY <1>2 DEF TreeInv
  <1>5. KnownInv'
    BY <1>2 DEF KnownInv, TypeOK
  <1>6. Unready' = Unready
    BY <1>2, UnreadySame
  <1>7. ReadyCredit' /\ ReadyWhenCreated' /\ JoinEnds'
    BY <1>6 DEF ReadyCredit, ReadyWhenCreated, JoinEnds
  <1>8. QED BY <1>3, <1>4, <1>5, <1>7

\* The ends of neb_thread_destroy that leave the thread alone preserve it.
LEMMA GiveUpIInv ==
  ASSUME IInv, KillFails \/ JoinTimeout
  PROVE  IInv'
  <1> USE DEF IInv, KillFails, JoinTimeout, Return, threadVars
  <1>1. TypeOK'
    BY DEF TypeOK
  <1>2. TreeInv' /\ KnownInv' /\ JoinEnds'
    BY DEF TreeInv, KnownInv, JoinEnds
  <1>3. Unready' = Unready
    BY DEF Unready
  <1>4. ReadyCredit' /\ ReadyWhenCreated'
    BY <1>3 DEF ReadyCredit, ReadyWhenCreated
  <1>5. QED BY <1>1, <1>2, <1>4

\* pthread_join preserves it: the thread leaves everything the main thread knows.
LEMMA JoinIInv ==
  ASSUME IInv, Join
  PROVE  IInv'
  <1> USE DEF IInv, Join, Return, Step
  <1>0. target \in Threads
    BY DEF KnownInv
  <1>1. TypeOK'
    BY <1>0 DEF TypeOK
  <1>2. TreeInv'
    BY <1>0 DEF TreeInv, TypeOK, Registered, Looping
  <1>3. KnownInv'
    BY <1>0 DEF KnownInv, TypeOK
  <1>4. Unready' = Unready
    BY <1>0, UnreadySame DEF TypeOK, Starting
  <1>5. ReadyCredit' /\ ReadyWhenCreated'
    BY <1>4 DEF ReadyCredit, ReadyWhenCreated
  <1>6. JoinEnds'
    BY DEF JoinEnds
  <1>7. QED BY <1>1, <1>2, <1>3, <1>5, <1>6

\* Every step of every thread preserves the inductive invariant.
LEMMA NextIInv == IInv /\ [Next]_vars => IInv'
  <1> SUFFICES ASSUME IInv, [Next]_vars
               PROVE  IInv'
    OBVIOUS
  <1>1. CASE UNCHANGED vars
    <2> USE <1>1 DEF vars, threadVars, mainVars, IInv
    <2>1. TypeOK' /\ TreeInv' /\ KnownInv' /\ JoinEnds'
      BY DEF TypeOK, TreeInv, KnownInv, JoinEnds
    <2>2. Unready' = Unready
      BY DEF Unready
    <2>3. ReadyCredit' /\ ReadyWhenCreated'
      BY <2>2 DEF ReadyCredit, ReadyWhenCreated
    <2>4. QED BY <2>1, <2>3
  <1>2. CASE Main
    BY <1>2, CreateReadyIInv, CreateTimeoutIInv, KillIInv, GiveUpIInv, JoinIInv DEF Main
  <1>3. ASSUME NEW t \in Threads, Worker(t) \/ WakeEvent(t) \/ Leave(t) PROVE IInv'
    BY <1>3, QueueIInv, RbtAddIInv, SetReadyIInv, RbtDelIInv DEF Worker
  <1>4. QED
    BY <1>1, <1>2, <1>3, SigChldIInv, CreateIInv, DestroyIInv DEF Next

\* The inductive invariant holds always.
LEMMA InvariantHolds == Spec => []IInv
  BY InitIInv, NextIInv, PTL DEF Spec
-----------------------------------------------------------------------------
\* thread_rbt holds every thread that runs its queue and none that has exited, for any
\* interleaving of exits, signals, creations and joins of any number of threads.
THEOREM RegistryCorrect == Spec => []RegistrySound
  <1>1. IInv => RegistrySound
    BY DEF IInv, RegistrySound, RegistryExact, TreeInv, Registered, Looping, Exited
  <1>2. QED BY <1>1, InvariantHolds, PTL

\* thread_ready_sem never loses or invents a notification, and unless a creation timed
\* out neb_thread_create returns 0 only for a thread that is ready.
THEOREM ReadyCorrect == Spec => []ReadyExact
  <1>1. IInv => ReadyExact
    BY DEF IInv, ReadyExact
  <1>2. QED BY <1>1, InvariantHolds, PTL

\* Unless a creation timed out, pthread_join without a limit (the branch of
\* neb_thread_destroy for a thread that is not in the tree) is only reached when the
\* thread has exited: it does not block.
THEOREM UntimedJoinEnds == Spec => []JoinEnds
  <1>1. IInv => JoinEnds
    BY DEF IInv
  <1>2. QED BY <1>1, InvariantHolds, PTL
=============================================================================
