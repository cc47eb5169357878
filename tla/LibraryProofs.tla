--------------------------- MODULE LibraryProofs ---------------------------
(***************************************************************************)
(* Proofs about the parts of the library that stand for themselves: the    *)
(* semaphores, the random pool and ring, the time of day, the search and   *)
(* the checksums.  Each part has one section, with the invariant its proof *)
(* rests on.                                                               *)
(***************************************************************************)
EXTENDS SemSysv, RandomRing, Daytime, StrBm, SockCsum, TLAPS, FiniteSetTheorems, SequenceTheorems

\* Induction over the naturals, as a fact about a set: if n were missing, adding 1 would
\* send 0 .. n to 1 .. n without two going to the same place.
LEMMA Induction ==
  ASSUME NEW P \in SUBSET Nat, 0 \in P, \A x \in P : x + 1 \in P
  PROVE  \A n \in Nat : n \in P
  <1>1. SUFFICES ASSUME NEW n \in Nat, n \notin P PROVE FALSE
    OBVIOUS
  <1> DEFINE f == [x \in 0 .. n |-> IF x \in P THEN x + 1 ELSE x]
  <1>2. f \in [0 .. n -> 1 .. n]
    <2>1. SUFFICES ASSUME NEW x \in 0 .. n PROVE (IF x \in P THEN x + 1 ELSE x) \in 1 .. n
      OBVIOUS
    <2>2. CASE x \in P
      <3>1. x # n
        BY <1>1, <2>2
      <3>2. QED BY <2>2, <3>1
    <2>3. CASE x \notin P
      <3>1. x # 0
        BY <2>3
      <3>2. QED BY <2>3, <3>1
    <2>4. QED BY <2>2, <2>3
  <1>3. /\ IsFiniteSet(0 .. n) /\ Cardinality(0 .. n) = n + 1
        /\ IsFiniteSet(1 .. n) /\ Cardinality(1 .. n) = n
    BY FS_Interval
  <1>4. PICK x, y \in 0 .. n : x # y /\ f[x] = f[y]
    <2>1. Cardinality(1 .. n) < Cardinality(0 .. n)
      BY <1>3
    <2> HIDE DEF f
    <2>2. QED BY <1>2, <1>3, <2>1, FS_PigeonHole
  <1>5. CASE x \in P /\ y \notin P
    BY <1>4, <1>5
  <1>6. CASE y \in P /\ x \notin P
    BY <1>4, <1>6
  <1>7. QED BY <1>4, <1>5, <1>6

\* A set of naturals that is not empty has a least element, and if it is bounded a
\* greatest (Min and Max of FiniteSetsExt).
LEMMA LeastElement ==
  ASSUME NEW T \in SUBSET Nat, T # {}
  PROVE  Min(T) \in T /\ \A t \in T : Min(T) =< t
  <1> DEFINE below == {x \in Nat : \A t \in T : x =< t}
  <1>1. SUFFICES ASSUME \A m \in T : m \notin below PROVE FALSE
    BY DEF Min
  <1>2. \A x \in below : x + 1 \in below
    <2>1. SUFFICES ASSUME NEW x \in below, NEW t \in T PROVE x + 1 =< t
      OBVIOUS
    <2>2. x \notin T /\ x =< t
      BY <1>1, <2>1
    <2>3. QED BY <2>2
  <1>3. \A n \in Nat : n \in below
    <2>1. 0 \in below /\ below \in SUBSET Nat
      OBVIOUS
    <2>2. QED BY <1>2, <2>1, Induction
  <1>4. PICK t \in T : TRUE
    OBVIOUS
  <1>5. t + 1 \in below
    BY <1>3, <1>4
  <1>6. QED BY <1>4, <1>5

LEMMA GreatestElement ==
  ASSUME NEW N \in Int, NEW T \in SUBSET Int, T # {}, \A t \in T : t =< N
  PROVE  Max(T) \in T /\ \A t \in T : Max(T) >= t
  <1> DEFINE M == {x \in Nat : N - x \in T}
  <1>1. ASSUME NEW t \in T PROVE N - t \in M
    <2>1. t \in Int /\ t =< N /\ N - (N - t) = t
      OBVIOUS
    <2>2. QED BY <1>1, <2>1
  <1>2. M \in SUBSET Nat /\ M # {}
    BY <1>1
  <1>3. PICK m \in M : \A x \in M : m =< x
    BY <1>2, LeastElement
  <1>4. ASSUME NEW t \in T PROVE N - m >= t
    <2>1. m =< N - t /\ t \in Int /\ m \in Nat
      BY <1>1, <1>3
    <2>2. QED BY <2>1
  <1>5. N - m \in T /\ \A t \in T : N - m >= t
    BY <1>3, <1>4
  <1>6. QED BY <1>5 DEF Max

-----------------------------------------------------------------------------
(***************************************************************************)
(* The semaphores between processes, for any number of processes,          *)
(* semaphores and sets, any values and any timeouts.                       *)
(*                                                                         *)
(* SemSound is not inductive.  SemInv adds that the semaphore of           *)
(* wait_removed is never posted (IdleInv), so that such a wait cannot take *)
(* anything; that ids are not used again (IdInv), so that a removal stays  *)
(* true after the next neb_sem_proc_create; and that a wait which has no   *)
(* try left has made one (TriedInv).                                       *)
(***************************************************************************)
Calls == [op : Ops, id : Nat, sub : Subs, count : Nat, left : Nat, short : BOOLEAN]
Results == [op : Ops \cup {"none"}, id : Nat, ok : BOOLEAN, timedout : BOOLEAN, short : BOOLEAN]

\* Types of the semaphores, the waits and their results (sem_sysv.c).
SemTypeOK ==
  /\ bsd \in BOOLEAN /\ made \in Nat /\ live \in Nat /\ interrupts \in Nat
  /\ val \in [Subs -> Nat] /\ due \in [Subs -> Nat]
  /\ call \in [Procs -> Calls \cup {NoCall}]
  /\ res \in Results

IdInv ==
  /\ live <= made
  /\ \A p \in Procs : call[p] # NoCall => call[p].id \in 1 .. made
  /\ res.id <= made /\ (res.op # "none" => res.id > 0)

\* What the calls ask for.
AskInv == \A p \in Procs : call[p] # NoCall =>
  /\ call[p].op = "removed" <=> call[p].sub = IdleSub
  /\ call[p].op = "count" <=> call[p].count > 0

IdleInv == val[IdleSub] = 0

TriedInv == \A p \in Procs : call[p] # NoCall => call[p].left > 0 \/ call[p].short

SemInv == SemTypeOK /\ IdInv /\ AskInv /\ IdleInv /\ TriedInv /\ SemSound
-----------------------------------------------------------------------------
\* The semaphores are numbered from 0; the last one is the one of wait_removed.
LEMMA IdleIsSub == IdleSub \in Subs
  <1> DEFINE n == Cardinality(Subs)
  <1>1. Subs = 0 .. n - 1 /\ n > 1
    BY SemConstants
  <1>2. n \in Nat
    BY SemConstants, FS_CardinalityType
  <1>3. QED BY <1>1, <1>2 DEF IdleSub

\* neb_sem_timedop without semtimedop tries at least once for a timeout above zero: the
\* timeout is rounded up to milliseconds.
LEMMA PollsRoundsUp ==
  ASSUME NEW ticks \in Nat
  PROVE  Polls(ticks) \in Nat /\ (ticks > 0 => Polls(ticks) > 0)
  <1> DEFINE q == ticks \div TicksPerMs  r == ticks % TicksPerMs
  <1>1. TicksPerMs \in Nat /\ TicksPerMs > 0
    BY SemConstants
  <1>2. q \in Nat /\ r \in Nat /\ ticks = TicksPerMs * q + r
    BY <1>1
  <1>3. ticks > 0 /\ r = 0 => q > 0
    BY <1>1, <1>2
  <1>4. QED BY <1>2, <1>3 DEF Polls
-----------------------------------------------------------------------------
\* Before the first set is created the inductive invariant holds.
LEMMA InitSemInv == SemInit => SemInv
  <1> SUFFICES ASSUME SemInit PROVE SemInv
    OBVIOUS
  <1>1. res.op = "none" /\ res.id = 0 /\ res.ok = FALSE /\ res.timedout = FALSE
    BY DEF SemInit, NoResult
  <1>2. SemTypeOK
    BY DEF SemInit, SemTypeOK, NoResult, Results
  <1>3. IdInv /\ AskInv /\ IdleInv /\ TriedInv
    BY <1>1, IdleIsSub DEF SemInit, IdInv, AskInv, IdleInv, TriedInv
  <1>4. SemSound
    BY <1>1 DEF SemInit, SemSound, PostsAccounted, RemovedIsGone, TimeoutTried
  <1>5. QED BY <1>2, <1>3, <1>4 DEF SemInv

\* neb_sem_proc_create preserves it: the id of the new set is not one of a wait that
\* was told of a removal.
LEMMA CreateSemInv ==
  ASSUME SemInv, SemCreate
  PROVE  SemInv'
  <1> USE DEF SemInv, SemCreate
  <1>1. SemTypeOK'
    BY DEF SemTypeOK
  <1>2. IdInv'
    BY DEF IdInv, SemTypeOK, Results
  <1>3. AskInv' /\ TriedInv'
    BY DEF AskInv, TriedInv
  <1>4. IdleInv'
    BY IdleIsSub DEF IdleInv
  <1>5. PostsAccounted'
    BY DEF PostsAccounted
  <1>6. RemovedIsGone'
    BY DEF RemovedIsGone, IdInv, SemTypeOK, Results
  <1>7. TimeoutTried'
    BY DEF SemSound, TimeoutTried
  <1>8. QED BY <1>1, <1>2, <1>3, <1>4, <1>5, <1>6, <1>7 DEF SemSound

\* neb_sem_proc_destroy preserves it.
LEMMA DestroySemInv ==
  ASSUME SemInv, SemDestroy
  PROVE  SemInv'
  <1> USE DEF SemInv, SemDestroy
  <1>1. SemTypeOK'
    BY DEF SemTypeOK
  <1>2. IdInv'
    BY DEF IdInv, SemTypeOK, Results
  <1>3. AskInv' /\ TriedInv'
    BY DEF AskInv, TriedInv
  <1>4. IdleInv'
    BY IdleIsSub DEF IdleInv
  <1>5. PostsAccounted'
    BY DEF PostsAccounted
  <1>6. RemovedIsGone'
    BY DEF RemovedIsGone, IdInv, SemTypeOK, Results
  <1>7. TimeoutTried'
    BY DEF SemSound, TimeoutTried
  <1>8. QED BY <1>1, <1>2, <1>3, <1>4, <1>5, <1>6, <1>7 DEF SemSound

\* neb_sem_proc_setval and neb_sem_proc_post preserve it: value and account move alike.
LEMMA ChangeSemInv ==
  ASSUME SemInv, NEW s \in Subs, NEW v \in Nat, SemPost(s) \/ SemSetval(s, v)
  PROVE  SemInv'
  <1> USE DEF SemInv, SemPost, SemSetval
  <1>1. SemTypeOK'
    BY DEF SemTypeOK
  <1>2. IdInv'
    BY DEF IdInv
  <1>3. AskInv' /\ TriedInv'
    BY DEF AskInv, TriedInv
  <1>4. IdleInv'
    BY IdleIsSub DEF IdleInv, SemTypeOK
  <1>5. PostsAccounted'
    BY DEF PostsAccounted, SemSound, SemTypeOK
  <1>6. RemovedIsGone' /\ TimeoutTried'
    BY DEF SemSound, RemovedIsGone, TimeoutTried
  <1>7. QED BY <1>1, <1>2, <1>3, <1>4, <1>5, <1>6 DEF SemSound

\* The call of a wait preserves it.
LEMMA WaitSemInv ==
  ASSUME SemInv, NEW p \in Procs, NEW op \in Ops, NEW s \in Subs, NEW count \in Nat,
         NEW ticks \in Nat, Wait(p, op, s, count, ticks)
  PROVE  SemInv'
  <1> USE DEF SemInv
  <1> DEFINE c == [op |-> op, id |-> made, sub |-> s, count |-> count,
                   left |-> Polls(ticks), short |-> ticks = 0]
  <1>1. /\ call' = [call EXCEPT ![p] = c] /\ made > 0
        /\ op = "removed" <=> s = IdleSub
        /\ op = "count" <=> count > 0
        /\ UNCHANGED <<bsd, made, live, val, res, due, interrupts>>
    BY DEF Wait
  <1>2. /\ c \in Calls /\ c.id = made /\ c.op = op /\ c.sub = s /\ c.count = count
        /\ c.left > 0 \/ c.short
    <2>1. Polls(ticks) \in Nat /\ (Polls(ticks) > 0 \/ ticks = 0)
      BY PollsRoundsUp
    <2>2. c \in Calls
      BY <2>1 DEF Calls, SemTypeOK
    <2>3. c.left = Polls(ticks) /\ c.short = (ticks = 0)
      OBVIOUS
    <2>4. QED BY <2>1, <2>2, <2>3
  <1> HIDE DEF c
  <1>3. SemTypeOK'
    BY <1>1, <1>2 DEF SemTypeOK
  <1>4. \A q \in Procs : call'[q] = IF q = p THEN c ELSE call[q]
    BY <1>1 DEF SemTypeOK
  <1>5. IdInv'
    BY <1>1, <1>2, <1>4 DEF IdInv, SemTypeOK
  <1>6. AskInv'
    BY <1>1, <1>2, <1>4 DEF AskInv
  <1>7. TriedInv'
    BY <1>2, <1>4 DEF TriedInv
  <1>8. IdleInv'
    BY <1>1 DEF IdleInv
  <1>9. SemSound'
    BY <1>1 DEF SemSound, PostsAccounted, RemovedIsGone, TimeoutTried
  <1>10. QED BY <1>3, <1>5, <1>6, <1>7, <1>8, <1>9

\* A wait that is under way is a call of one of the three functions.
LEMMA CallOfWait ==
  ASSUME SemInv, NEW p \in Procs, call[p] # NoCall
  PROVE  call[p] \in Calls
  BY DEF SemInv, SemTypeOK

\* What a return does to the calls and the result, for any outcome that tells the truth
\* of the removal and of the tries.
LEMMA ReturnSemInv ==
  ASSUME SemInv, NEW p \in Procs, call[p] # NoCall,
         NEW ok \in BOOLEAN, NEW timedout \in BOOLEAN, Returns(p, ok, timedout),
         call[p].op = "removed" /\ ok => call[p].id # live,
         timedout => ~bsd \/ call[p].short,
         UNCHANGED <<bsd, made, live>>
  PROVE  /\ call' \in [Procs -> Calls \cup {NoCall}] /\ res' \in Results
         /\ IdInv' /\ AskInv' /\ TriedInv' /\ RemovedIsGone' /\ TimeoutTried'
  <1> USE DEF SemInv, Returns
  <1>1. call[p] \in Calls
    BY CallOfWait
  <1>2. call' \in [Procs -> Calls \cup {NoCall}]
    BY DEF SemTypeOK
  <1>3. /\ res' \in Results /\ res'.op = call[p].op /\ res'.id = call[p].id
        /\ res'.ok = ok /\ res'.timedout = timedout /\ res'.short = (~bsd \/ call[p].short)
    BY <1>1 DEF SemTypeOK, Results, Calls
  <1>4. \A q \in Procs : call'[q] = IF q = p THEN NoCall ELSE call[q]
    BY DEF SemTypeOK
  <1>5. IdInv'
    BY <1>3, <1>4 DEF IdInv, SemTypeOK
  <1>6. AskInv' /\ TriedInv'
    BY <1>4 DEF AskInv, TriedInv
  <1>7. RemovedIsGone' /\ TimeoutTried'
    BY <1>3 DEF RemovedIsGone, TimeoutTried
  <1>8. QED BY <1>2, <1>3, <1>5, <1>6, <1>7

\* A wait that succeeds preserves it: it takes from value and account alike, and a wait
\* for the removal finds nothing to take.
LEMMA WaitDoneSemInv ==
  ASSUME SemInv, NEW p \in Procs, WaitDone(p)
  PROVE  SemInv'
  <1> USE DEF SemInv
  <1>1. call[p] \in Calls /\ call[p] # NoCall
    BY CallOfWait DEF WaitDone
  <1>2. call[p].op # "removed" /\ call[p].sub # IdleSub
    <2>1. Exists(p) /\ Possible(p)
      BY DEF WaitDone
    <2>2. call[p].op # "removed"
      BY <1>1, <2>1 DEF Possible, Takes, AskInv, IdleInv
    <2>3. QED BY <1>1, <2>2 DEF AskInv
  <1> DEFINE k == Takes(call[p])  s == call[p].sub
  <1>3. s \in Subs /\ k \in Nat /\ val[s] >= k
    BY <1>1, <1>2 DEF WaitDone, Possible, Takes, Calls, AskInv, SemTypeOK, Ops
  <1>4. /\ val' = [val EXCEPT ![s] = @ - k] /\ due' = [due EXCEPT ![s] = @ - k]
        /\ UNCHANGED <<bsd, made, live, interrupts>> /\ live = call[p].id
        /\ Returns(p, TRUE, FALSE)
    BY <1>2 DEF WaitDone, Exists
  <1> HIDE DEF k, s
  <1>5. live # 0
    BY <1>1, <1>4 DEF IdInv
  <1>6. due[s] = val[s]
    BY <1>3, <1>5 DEF SemSound, PostsAccounted
  <1>7. /\ call' \in [Procs -> Calls \cup {NoCall}] /\ res' \in Results
        /\ IdInv' /\ AskInv' /\ TriedInv' /\ RemovedIsGone' /\ TimeoutTried'
    BY <1>1, <1>2, <1>4, ReturnSemInv
  <1>8. SemTypeOK'
    BY <1>3, <1>4, <1>6, <1>7 DEF SemTypeOK
  <1>9. IdleInv'
    BY <1>2, <1>4 DEF IdleInv, SemTypeOK, s
  <1>10. PostsAccounted'
    BY <1>3, <1>4, <1>5, <1>6 DEF SemSound, PostsAccounted, SemTypeOK
  <1>11. QED BY <1>7, <1>8, <1>9, <1>10 DEF SemSound

\* A return that takes nothing preserves it.
LEMMA FailSemInv ==
  ASSUME SemInv, NEW p \in Procs, call[p] # NoCall,
         NEW ok \in BOOLEAN, NEW timedout \in BOOLEAN, Returns(p, ok, timedout),
         call[p].op = "removed" /\ ok => call[p].id # live,
         timedout => ~bsd \/ call[p].short,
         UNCHANGED <<bsd, made, live, val, due>>, interrupts' \in Nat
  PROVE  SemInv'
  <1>1. /\ call' \in [Procs -> Calls \cup {NoCall}] /\ res' \in Results
        /\ IdInv' /\ AskInv' /\ TriedInv' /\ RemovedIsGone' /\ TimeoutTried'
    BY ReturnSemInv
  <1>2. SemTypeOK' /\ IdleInv' /\ PostsAccounted'
    BY <1>1 DEF SemInv, SemTypeOK, IdleInv, SemSound, PostsAccounted
  <1>3. QED BY <1>1, <1>2 DEF SemInv, SemSound

\* The end of the time preserves it: a system without semtimedop has used up its tries.
LEMMA WaitTimesOutSemInv ==
  ASSUME SemInv, NEW p \in Procs, WaitTimesOut(p)
  PROVE  SemInv'
  <1>1. call[p] # NoCall /\ call[p] \in Calls
    BY CallOfWait DEF WaitTimesOut
  <1>2. ~bsd \/ call[p].short
    BY <1>1 DEF WaitTimesOut, SemInv, TriedInv, Calls
  <1>3. Returns(p, FALSE, TRUE) /\ UNCHANGED <<bsd, made, live, val, due>> /\ interrupts' \in Nat
    BY DEF WaitTimesOut, SemInv, SemTypeOK
  <1>4. QED BY <1>1, <1>2, <1>3, FailSemInv

\* EINVAL and EIDRM preserve it: the set is gone.
LEMMA WaitRemovedSemInv ==
  ASSUME SemInv, NEW p \in Procs, WaitRemoved(p)
  PROVE  SemInv'
  <1>1. call[p] # NoCall /\ call[p].id # live
    BY DEF WaitRemoved, Exists
  <1>2. /\ FailsOK(p, TRUE) \in BOOLEAN /\ Returns(p, FailsOK(p, TRUE), FALSE)
        /\ UNCHANGED <<bsd, made, live, val, due>> /\ interrupts' \in Nat
    BY DEF WaitRemoved, FailsOK, SemInv, SemTypeOK
  <1>3. QED BY <1>1, <1>2, FailSemInv

\* EINTR preserves it: it is not taken for the removal.
LEMMA WaitInterruptedSemInv ==
  ASSUME SemInv, NEW p \in Procs, WaitInterrupted(p)
  PROVE  SemInv'
  <1>1. /\ call[p] # NoCall /\ interrupts' \in Nat
        /\ UNCHANGED <<bsd, made, live, val, due>>
    BY DEF WaitInterrupted, SemInv, SemTypeOK
  <1>2. CASE Returns(p, FailsOK(p, FALSE), FALSE)
    <2>1. FailsOK(p, FALSE) = FALSE
      BY DEF FailsOK
    <2>2. QED BY <1>1, <1>2, <2>1, FailSemInv
  <1>3. CASE UNCHANGED <<call, res>>
    BY <1>1, <1>3 DEF SemInv, SemTypeOK, IdInv, AskInv, IdleInv, TriedInv, SemSound,
       PostsAccounted, RemovedIsGone, TimeoutTried
  <1>4. QED BY <1>2, <1>3 DEF WaitInterrupted

\* A try that is used up changes nothing else of the call.
LEMMA TryUsed ==
  ASSUME NEW r \in Calls, r.left > 0
  PROVE  LET c == [r EXCEPT !.left = @ - 1, !.short = TRUE]
         IN  /\ c \in Calls /\ c.id = r.id /\ c.op = r.op /\ c.sub = r.sub
             /\ c.count = r.count /\ c.short
  <1>1. r.left - 1 \in Nat
    BY DEF Calls
  <1>2. [r EXCEPT !.left = @ - 1, !.short = TRUE] \in Calls
    BY <1>1 DEF Calls
  <1>3. QED BY <1>2 DEF Calls

\* A try that failed preserves it.
LEMMA WaitPollSemInv ==
  ASSUME SemInv, NEW p \in Procs, WaitPoll(p)
  PROVE  SemInv'
  <1> USE DEF SemInv
  <1>1. call[p] \in Calls /\ call[p] # NoCall /\ call[p].left > 0
    BY CallOfWait DEF WaitPoll
  <1> DEFINE c == [call[p] EXCEPT !.left = @ - 1, !.short = TRUE]
  <1>2. call' = [call EXCEPT ![p] = c] /\ UNCHANGED <<bsd, made, live, val, res, due, interrupts>>
    BY DEF WaitPoll, SemTypeOK
  <1>3. /\ c \in Calls /\ c.id = call[p].id /\ c.op = call[p].op /\ c.sub = call[p].sub
        /\ c.count = call[p].count /\ c.short
    BY <1>1, TryUsed
  <1> HIDE DEF c
  <1>4. SemTypeOK'
    BY <1>2, <1>3 DEF SemTypeOK
  <1>5. \A q \in Procs : call'[q] = IF q = p THEN c ELSE call[q]
    BY <1>2 DEF SemTypeOK
  <1>6. IdInv'
    BY <1>1, <1>2, <1>3, <1>5 DEF IdInv
  <1>7. AskInv' /\ TriedInv'
    BY <1>1, <1>3, <1>5 DEF AskInv, TriedInv
  <1>8. IdleInv' /\ SemSound'
    BY <1>2 DEF IdleInv, SemSound, PostsAccounted, RemovedIsGone, TimeoutTried
  <1>9. QED BY <1>4, <1>6, <1>7, <1>8

\* Every step of every process preserves the inductive invariant.
LEMMA NextSemInv == SemInv /\ [SemNext]_semVars => SemInv'
  <1> SUFFICES ASSUME SemInv, [SemNext]_semVars
               PROVE  SemInv'
    OBVIOUS
  <1>1. CASE UNCHANGED semVars
    BY <1>1 DEF semVars, SemInv, SemTypeOK, IdInv, AskInv, IdleInv, TriedInv, SemSound,
       PostsAccounted, RemovedIsGone, TimeoutTried
  <1>2. ASSUME NEW s \in Subs, SemPost(s) PROVE SemInv'
    BY <1>2, ChangeSemInv
  <1>3. ASSUME NEW s \in Subs, NEW v \in 0 .. MaxValue, SemSetval(s, v) PROVE SemInv'
    <2>1. v \in Nat
      BY SemConstants
    <2>2. QED BY <1>3, <2>1, ChangeSemInv
  <1>4. ASSUME NEW p \in Procs, NEW op \in Ops, NEW s \in Subs, NEW count \in 0 .. MaxValue,
               NEW ticks \in 0 .. MaxTimeout, Wait(p, op, s, count, ticks)
        PROVE  SemInv'
    <2>1. count \in Nat /\ ticks \in Nat
      BY SemConstants
    <2>2. QED BY <1>4, <2>1, WaitSemInv
  <1>5. ASSUME NEW p \in Procs, SemReturns(p) \/ WaitInterrupted(p) PROVE SemInv'
    BY <1>5, WaitDoneSemInv, WaitPollSemInv, WaitTimesOutSemInv, WaitRemovedSemInv,
       WaitInterruptedSemInv DEF SemReturns
  <1>6. QED
    BY <1>1, <1>2, <1>3, <1>4, <1>5, CreateSemInv, DestroySemInv DEF SemNext
-----------------------------------------------------------------------------
\* The waits of any number of processes on any sets: no post is lost or taken twice,
\* wait_removed reports success only when the set is gone for good, and a wait with a
\* timeout above zero does not give up without having tried.
THEOREM SemCorrect == SemSpec => []SemSound
  <1>1. SemInit /\ [][SemNext]_semVars => []SemInv
    BY InitSemInv, NextSemInv, PTL
  <1>2. SemInv => SemSound
    BY DEF SemInv
  <1>3. SemSpec => SemInit /\ [][SemNext]_semVars
    BY PTL DEF SemSpec
  <1>4. QED BY <1>1, <1>2, <1>3, PTL

-----------------------------------------------------------------------------
(***************************************************************************)
(* The random pool and ring, for any number of nodes and slices.           *)
(***************************************************************************)
Bucket == [Slices -> [list : Seq(Nodes), stale : BOOLEAN]]

\* A node is in one place of a bucket only.
Once(b) ==
  \A i, j \in Slices : \A k \in 1 .. Size(b, i), l \in 1 .. Size(b, j) :
    b[i].list[k] = b[j].list[l] => i = j /\ k = l

\* SlicesOrdered of one bucket.
InOrder(b) ==
  /\ \A i \in 1 .. SliceRandom - 1 : Size(b, i - 1) =< Size(b, i)
  /\ \A i \in SliceRandom .. SliceTotal - 1 : b[i].list = <<>>

LEMMA SlicesNat == SliceTotal \in Nat /\ SliceRandom \in Nat /\ 1 =< SliceRandom /\ SliceRandom =< SliceTotal
  BY RandomConstants

LEMMA PlacesOfBucket ==
  ASSUME NEW b \in Bucket, NEW i \in Slices
  PROVE  /\ b[i] \in [list : Seq(Nodes), stale : BOOLEAN]
         /\ b[i].list \in Seq(Nodes) /\ b[i].stale \in BOOLEAN
         /\ Size(b, i) \in Nat /\ DOMAIN b[i].list = 1 .. Size(b, i)
         /\ b[i].list = <<>> <=> Size(b, i) = 0
         /\ \A k \in 1 .. Size(b, i) : b[i].list[k] \in Nodes
  BY DEF Bucket, Size

LEMMA NodesOfBucket ==
  ASSUME NEW b \in Bucket
  PROVE  /\ NodesIn(b) \subseteq Nodes
         /\ \A n : n \in NodesIn(b) <=> \E i \in Slices : \E k \in 1 .. Size(b, i) : b[i].list[k] = n
  <1>1. \A i \in Slices : ToSet(b[i].list) = {b[i].list[k] : k \in 1 .. Size(b, i)}
    BY PlacesOfBucket DEF ToSet
  <1>2. \A n : n \in NodesIn(b) <=> \E i \in Slices : n \in ToSet(b[i].list)
    BY DEF NodesIn
  <1>3. ASSUME NEW n PROVE n \in NodesIn(b) <=> \E i \in Slices : \E k \in 1 .. Size(b, i) : b[i].list[k] = n
    <2>1. \A i \in Slices : n \in ToSet(b[i].list) <=> \E k \in 1 .. Size(b, i) : b[i].list[k] = n
      BY <1>1
    <2>2. QED BY <1>2, <2>1, Zenon
  <1>4. QED BY <1>3, PlacesOfBucket

\* An empty bucket has a count of 0, and no other has.
LEMMA CountOfEmpty ==
  ASSUME NEW b \in Bucket
  PROVE  Count(b) = 0 <=> NodesIn(b) = {}
  <1> DEFINE f == [i \in Slices |-> {i} \X (1 .. Size(b, i))]
             Sets == {{i} \X (1 .. Size(b, i)) : i \in Slices}
             Places == UNION Sets
  <1>1. f \in Surjection(Slices, Sets)
    BY DEF Surjection
  <1>2. IsFiniteSet(Sets)
    <2>1. IsFiniteSet(Slices)
      BY SlicesNat, FS_Interval DEF Slices
    <2> HIDE DEF f, Sets
    <2>2. QED BY <1>1, <2>1, FS_Surjection
  <1>3. \A T \in Sets : IsFiniteSet(T)
    <2>1. SUFFICES ASSUME NEW i \in Slices PROVE IsFiniteSet({i} \X (1 .. Size(b, i)))
      OBVIOUS
    <2>2. IsFiniteSet({i}) /\ IsFiniteSet(1 .. Size(b, i))
      <3>1. IsFiniteSet({i})
        BY FS_Singleton
      <3>2. Size(b, i) \in Int
        BY PlacesOfBucket
      <3>3. QED BY <3>1, <3>2, FS_Interval
    <2>3. QED BY <2>2, FS_Product
  <1>4. IsFiniteSet(Places)
    <2> HIDE DEF Sets
    <2>1. QED BY <1>2, <1>3, FS_UNION
  <1>5. Count(b) = 0 <=> Places = {}
    <2>1. Count(b) = Cardinality(Places)
      BY DEF Count
    <2> HIDE DEF Places
    <2>2. QED BY <1>4, <2>1, FS_EmptySet
  <1>6. Places = {} <=> NodesIn(b) = {}
    <2>1. \A i \in Slices : \A k \in 1 .. Size(b, i) : <<i, k>> \in Places
      <3>1. SUFFICES ASSUME NEW i \in Slices, NEW k \in 1 .. Size(b, i) PROVE <<i, k>> \in Places
        OBVIOUS
      <3>2. <<i, k>> \in {i} \X (1 .. Size(b, i)) /\ {i} \X (1 .. Size(b, i)) \in Sets
        OBVIOUS
      <3> HIDE DEF Sets
      <3>3. QED BY <3>2
    <2>2. \A p \in Places : \E i \in Slices : \E k \in 1 .. Size(b, i) : TRUE
      OBVIOUS
    <2> HIDE DEF Places
    <2>3. NodesIn(b) = {} <=> ~ \E i \in Slices : \E k \in 1 .. Size(b, i) : TRUE
      <3>1. \A n : n \in NodesIn(b) <=> \E i \in Slices : \E k \in 1 .. Size(b, i) : b[i].list[k] = n
        BY NodesOfBucket
      <3>2. ASSUME NEW i \in Slices, NEW k \in 1 .. Size(b, i) PROVE b[i].list[k] \in NodesIn(b)
        BY <3>1, <3>2
      <3>3. QED BY <3>1, <3>2
    <2>4. QED BY <2>1, <2>2, <2>3
  <1>7. QED BY <1>5, <1>6

\* Moving a slice rearranges a bucket: where the slice at each place comes from.
Origin(k, j) ==
  [i \in Slices |-> CASE i = j -> k [] k =< i /\ i < j -> i + 1 [] j < i /\ i =< k -> i - 1 [] OTHER -> i]

LEMMA MoveRearranges ==
  ASSUME NEW b \in Bucket, NEW k \in Slices, NEW j \in Slices
  PROVE  /\ Origin(k, j) \in [Slices -> Slices]
         /\ \A i, h \in Slices : Origin(k, j)[i] = Origin(k, j)[h] => i = h
         /\ \A h \in Slices : \E i \in Slices : Origin(k, j)[i] = h
         /\ \A i \in Slices : Move(b, k, j)[i] = b[Origin(k, j)[i]]
         /\ Move(b, k, j) \in Bucket
  <1> DEFINE from == Origin(k, j)
  <1> USE SlicesNat DEF Slices, Origin
  <1>1. from \in [Slices -> Slices]
    OBVIOUS
  <1>2. \A i, h \in Slices : from[i] = from[h] => i = h
    OBVIOUS
  <1>3. ASSUME NEW h \in Slices PROVE \E i \in Slices : from[i] = h
    <2>1. CASE h = k
      <3>1. from[j] = h
        BY <2>1
      <3>2. QED BY <3>1
    <2>2. CASE k < h /\ h =< j
      <3>1. h - 1 \in Slices /\ from[h - 1] = h
        BY <2>2
      <3>2. QED BY <3>1
    <2>3. CASE j =< h /\ h < k
      <3>1. h + 1 \in Slices /\ from[h + 1] = h
        BY <2>3
      <3>2. QED BY <3>1
    <2>4. CASE (h < k /\ h < j) \/ (h > k /\ h > j)
      <3>1. from[h] = h
        BY <2>4
      <3>2. QED BY <3>1
    <2>5. QED BY <2>1, <2>2, <2>3, <2>4
  <1>4. \A i \in Slices : Move(b, k, j)[i] = b[from[i]]
    BY DEF Move
  <1>5. Move(b, k, j) \in Bucket
    BY DEF Move, Bucket
  <1>6. QED BY <1>1, <1>2, <1>3, <1>4, <1>5

LEMMA MoveKeeps ==
  ASSUME NEW b \in Bucket, NEW k \in Slices, NEW j \in Slices
  PROVE  LET c == Move(b, k, j)
         IN  c \in Bucket /\ NodesIn(c) = NodesIn(b) /\ (Once(b) => Once(c))
  <1> DEFINE c == Move(b, k, j)
  <1>1. /\ Origin(k, j) \in [Slices -> Slices]
        /\ \A i, h \in Slices : Origin(k, j)[i] = Origin(k, j)[h] => i = h
        /\ \A h \in Slices : \E i \in Slices : Origin(k, j)[i] = h
        /\ \A i \in Slices : c[i] = b[Origin(k, j)[i]]
        /\ c \in Bucket
    BY MoveRearranges
  <1> HIDE DEF c
  <1>2. c \in Bucket /\ \A i \in Slices : c[i] = b[Origin(k, j)[i]] /\ Size(c, i) = Size(b, Origin(k, j)[i])
    BY <1>1 DEF Size
  <1>3. \A n : n \in NodesIn(c) <=> n \in NodesIn(b)
    <2>1. ASSUME NEW n PROVE n \in NodesIn(c) <=> n \in NodesIn(b)
      <3>1. n \in NodesIn(c) <=> \E i \in Slices : \E x \in 1 .. Size(b, Origin(k, j)[i]) : b[Origin(k, j)[i]].list[x] = n
        BY <1>2, NodesOfBucket
      <3>2. n \in NodesIn(b) <=> \E h \in Slices : \E x \in 1 .. Size(b, h) : b[h].list[x] = n
        BY NodesOfBucket
      <3>3. QED BY <1>1, <3>1, <3>2
    <2>2. QED BY <2>1
  <1>4. Once(b) => Once(c)
    BY <1>1, <1>2 DEF Once
  <1>5. QED BY <1>2, <1>3, <1>4 DEF c

\* A node goes to the end of slice rn.
LEMMA AppendKeeps ==
  ASSUME NEW b \in Bucket, NEW rn \in Slices, NEW n \in Nodes
  PROVE  LET c == [b EXCEPT ![rn].list = Append(@, n)]
         IN  /\ c \in Bucket /\ NodesIn(c) = NodesIn(b) \cup {n}
             /\ Once(b) /\ n \notin NodesIn(b) => Once(c)
             /\ \A i \in Slices : Size(c, i) = IF i = rn THEN Size(b, i) + 1 ELSE Size(b, i)
  <1> DEFINE c == [b EXCEPT ![rn].list = Append(@, n)]
  <1>1. c \in Bucket
    BY DEF Bucket
  <1>2. \A i \in Slices \ {rn} : c[i] = b[i] /\ Size(c, i) = Size(b, i)
    BY DEF Bucket, Size
  <1>3. c[rn].list = Append(b[rn].list, n)
    BY DEF Bucket
  <1> HIDE DEF c
  <1>4. /\ Size(c, rn) = Size(b, rn) + 1 /\ c[rn].list[Size(b, rn) + 1] = n
        /\ \A k \in 1 .. Size(b, rn) : c[rn].list[k] = b[rn].list[k]
    BY <1>3, PlacesOfBucket DEF Size
  <1>5. ASSUME NEW i \in Slices, NEW k \in 1 .. Size(c, i)
        PROVE  \/ i = rn /\ k = Size(b, rn) + 1 /\ c[i].list[k] = n
               \/ k \in 1 .. Size(b, i) /\ c[i].list[k] = b[i].list[k]
    <2>1. CASE i # rn
      BY <1>2, <2>1
    <2>2. CASE i = rn
      BY <1>4, <2>2, PlacesOfBucket
    <2>3. QED BY <2>1, <2>2
  <1>6. ASSUME NEW i \in Slices, NEW k \in 1 .. Size(b, i)
        PROVE  k \in 1 .. Size(c, i) /\ c[i].list[k] = b[i].list[k]
    BY <1>2, <1>4, PlacesOfBucket
  <1>7. ASSUME NEW m PROVE m \in NodesIn(c) <=> m \in NodesIn(b) \cup {n}
    <2>1. m \in NodesIn(c) <=> \E i \in Slices : \E k \in 1 .. Size(c, i) : c[i].list[k] = m
      BY <1>1, NodesOfBucket
    <2>2. m \in NodesIn(b) <=> \E i \in Slices : \E k \in 1 .. Size(b, i) : b[i].list[k] = m
      BY NodesOfBucket
    <2>3. Size(b, rn) + 1 \in 1 .. Size(c, rn)
      BY <1>4, PlacesOfBucket
    <2>4. QED BY <1>4, <1>5, <1>6, <2>1, <2>2, <2>3
  <1>8. ASSUME Once(b), n \notin NodesIn(b) PROVE Once(c)
    <2>1. SUFFICES ASSUME NEW i \in Slices, NEW j \in Slices, NEW k \in 1 .. Size(c, i), NEW l \in 1 .. Size(c, j),
                          c[i].list[k] = c[j].list[l]
                   PROVE  i = j /\ k = l
      BY DEF Once
    <2>2. \A h \in Slices : \A x \in 1 .. Size(b, h) : b[h].list[x] # n
      BY <1>8, NodesOfBucket
    <2>3. QED BY <1>5, <1>8, <2>1, <2>2 DEF Once
  <1>9. \A i \in Slices : Size(c, i) = IF i = rn THEN Size(b, i) + 1 ELSE Size(b, i)
    BY <1>2, <1>4
  <1>10. QED BY <1>1, <1>7, <1>8, <1>9 DEF c

\* The first node of slice rn is taken out.
LEMMA TailKeeps ==
  ASSUME NEW b \in Bucket, NEW rn \in Slices, Size(b, rn) # 0, Once(b)
  PROVE  LET c == [b EXCEPT ![rn].list = Tail(@)]
         IN  /\ c \in Bucket /\ NodesIn(c) = NodesIn(b) \ {b[rn].list[1]} /\ Once(c)
             /\ b[rn].list[1] \in NodesIn(b)
             /\ \A i \in Slices : Size(c, i) = IF i = rn THEN Size(b, i) - 1 ELSE Size(b, i)
  <1> DEFINE c == [b EXCEPT ![rn].list = Tail(@)]
             n == b[rn].list[1]
  <1>0. Size(b, rn) \in Nat \ {0} /\ b[rn].list # <<>>
    BY PlacesOfBucket
  <1>1. c \in Bucket
    <2>1. Tail(b[rn].list) \in Seq(Nodes)
      BY <1>0, PlacesOfBucket
    <2>2. QED BY <2>1 DEF Bucket
  <1>2. \A i \in Slices \ {rn} : c[i] = b[i] /\ Size(c, i) = Size(b, i)
    BY DEF Bucket, Size
  <1>3. c[rn].list = Tail(b[rn].list)
    BY DEF Bucket
  <1> HIDE DEF c
  <1>4. /\ Size(c, rn) = Size(b, rn) - 1
        /\ \A k \in 1 .. Size(b, rn) - 1 : c[rn].list[k] = b[rn].list[k + 1]
    BY <1>0, <1>3, PlacesOfBucket DEF Size
  <1> DEFINE old(i, k) == IF i = rn THEN k + 1 ELSE k
  <1>5. ASSUME NEW i \in Slices, NEW k \in 1 .. Size(c, i)
        PROVE  /\ old(i, k) \in 1 .. Size(b, i) /\ c[i].list[k] = b[i].list[old(i, k)]
               /\ ~(i = rn /\ old(i, k) = 1)
    BY <1>0, <1>2, <1>4
  <1>6. ASSUME NEW i \in Slices, NEW k \in 1 .. Size(b, i)
        PROVE  (i = rn /\ k = 1) \/ \E l \in 1 .. Size(c, i) : c[i].list[l] = b[i].list[k]
    <2>1. CASE i # rn
      BY <1>2, <2>1
    <2>2. CASE i = rn /\ k # 1
      <3>1. k - 1 \in 1 .. Size(c, rn) /\ c[rn].list[k - 1] = b[rn].list[(k - 1) + 1] /\ (k - 1) + 1 = k
        BY <1>0, <1>4, <2>2
      <3>2. QED BY <2>2, <3>1
    <2>3. QED BY <2>1, <2>2
  <1>7. 1 \in 1 .. Size(b, rn)
    BY <1>0
  <1>8. ASSUME NEW m PROVE m \in NodesIn(c) <=> m \in NodesIn(b) \ {n}
    <2>1. m \in NodesIn(c) <=> \E i \in Slices : \E k \in 1 .. Size(c, i) : c[i].list[k] = m
      BY <1>1, NodesOfBucket
    <2>2. m \in NodesIn(b) <=> \E i \in Slices : \E k \in 1 .. Size(b, i) : b[i].list[k] = m
      BY NodesOfBucket
    <2> HIDE DEF old
    <2>3. m \in NodesIn(c) => m \in NodesIn(b) /\ m # n
      <3>1. SUFFICES ASSUME NEW i \in Slices, NEW k \in 1 .. Size(c, i), c[i].list[k] = m
                     PROVE  m \in NodesIn(b) /\ m # n
        BY <2>1
      <3>2. QED BY <1>5, <1>7, <2>2, <3>1 DEF Once
    <2>4. m \in NodesIn(b) /\ m # n => m \in NodesIn(c)
      BY <1>6, <2>1, <2>2
    <2>5. QED BY <2>3, <2>4
  <1>9. Once(c)
    <2>1. SUFFICES ASSUME NEW i \in Slices, NEW j \in Slices, NEW k \in 1 .. Size(c, i), NEW l \in 1 .. Size(c, j),
                          c[i].list[k] = c[j].list[l]
                   PROVE  i = j /\ k = l
      BY DEF Once
    <2>2. i = j /\ old(i, k) = old(j, l)
      <3> HIDE DEF old
      <3>1. QED BY <1>5, <2>1 DEF Once
    <2>3. QED BY <2>2
  <1>10. \A i \in Slices : Size(c, i) = IF i = rn THEN Size(b, i) - 1 ELSE Size(b, i)
    BY <1>2, <1>4
  <1>11. n \in NodesIn(b)
    BY <1>7, NodesOfBucket
  <1>12. QED BY <1>1, <1>8, <1>9, <1>10, <1>11 DEF c

\* Reversed lists have the same nodes.
LEMMA ConfuseKeeps ==
  ASSUME NEW b \in Bucket, NEW S
  PROVE  LET c == BucketConfuse(b, S)
         IN  /\ c \in Bucket /\ NodesIn(c) = NodesIn(b) /\ (Once(b) => Once(c))
             /\ \A i \in Slices : Size(c, i) = Size(b, i)
  <1> DEFINE c == BucketConfuse(b, S)
             old(i, k) == IF i \in S THEN (Size(b, i) - k) + 1 ELSE k
  <1>1. ASSUME NEW i \in Slices
        PROVE  /\ c[i] \in [list : Seq(Nodes), stale : BOOLEAN] /\ Size(c, i) = Size(b, i)
               /\ \A k \in 1 .. Size(b, i) : c[i].list[k] = b[i].list[old(i, k)] /\ old(i, k) \in 1 .. Size(b, i)
               /\ \A k \in 1 .. Size(b, i) : old(i, old(i, k)) = k
    <2>1. CASE i \notin S
      <3>1. c[i] = b[i]
        BY <2>1 DEF BucketConfuse
      <3>2. QED BY <2>1, <3>1, PlacesOfBucket DEF Size
    <2>2. CASE i \in S
      <3>1. c[i] = [list |-> Reverse(b[i].list), stale |-> TRUE]
        BY <2>2 DEF BucketConfuse
      <3>2. Reverse(b[i].list) = [k \in 1 .. Size(b, i) |-> b[i].list[(Size(b, i) - k) + 1]]
        BY DEF Reverse, Size
      <3>3. \A k \in 1 .. Size(b, i) : (Size(b, i) - k) + 1 \in 1 .. Size(b, i)
        BY PlacesOfBucket
      <3>4. Reverse(b[i].list) \in [1 .. Size(b, i) -> Nodes]
        BY <3>2, <3>3, PlacesOfBucket
      <3>5. Reverse(b[i].list) \in Seq(Nodes) /\ Len(Reverse(b[i].list)) = Size(b, i)
        BY <3>4, PlacesOfBucket
      <3>6. c[i] \in [list : Seq(Nodes), stale : BOOLEAN] /\ Size(c, i) = Size(b, i)
        BY <3>1, <3>5 DEF Size
      <3>7. \A k \in 1 .. Size(b, i) : c[i].list[k] = b[i].list[old(i, k)] /\ old(i, k) \in 1 .. Size(b, i)
        BY <2>2, <3>1, <3>2, <3>3
      <3>8. \A k \in 1 .. Size(b, i) : old(i, old(i, k)) = k
        BY <2>2, PlacesOfBucket
      <3>9. QED BY <3>6, <3>7, <3>8
    <2>3. QED BY <2>1, <2>2
  <1>2. c \in Bucket
    BY <1>1 DEF Bucket, BucketConfuse
  <1> HIDE DEF c, old
  <1>3. ASSUME NEW m PROVE m \in NodesIn(c) <=> m \in NodesIn(b)
    <2>1. m \in NodesIn(c) <=> \E i \in Slices : \E k \in 1 .. Size(c, i) : c[i].list[k] = m
      BY <1>2, NodesOfBucket
    <2>2. m \in NodesIn(b) <=> \E i \in Slices : \E k \in 1 .. Size(b, i) : b[i].list[k] = m
      BY NodesOfBucket
    <2>3. \A i \in Slices : (\E k \in 1 .. Size(c, i) : c[i].list[k] = m) <=> \E k \in 1 .. Size(b, i) : b[i].list[k] = m
      BY <1>1
    <2>4. QED BY <2>1, <2>2, <2>3
  <1>4. Once(b) => Once(c)
    <2>1. SUFFICES ASSUME Once(b),
                          NEW i \in Slices, NEW j \in Slices, NEW k \in 1 .. Size(c, i), NEW l \in 1 .. Size(c, j),
                          c[i].list[k] = c[j].list[l]
                   PROVE  i = j /\ k = l
      BY DEF Once
    <2>2. k \in 1 .. Size(b, i) /\ l \in 1 .. Size(b, j)
      BY <1>1
    <2>3. i = j /\ old(i, k) = old(j, l)
      BY <1>1, <2>1, <2>2 DEF Once
    <2>4. QED BY <1>1, <2>2, <2>3
  <1>5. QED BY <1>1, <1>2, <1>3, <1>4 DEF c

\* The reorder loop of put: it stops at a place of the first SliceRandom, behind what is
\* shorter and before what is not.
LEMMA RisesToPlace ==
  ASSUME NEW b \in Bucket, NEW k \in 0 .. SliceRandom - 1
  PROVE  /\ RisesTo(b, k) \in k .. SliceRandom - 1
         /\ \A i \in k + 1 .. RisesTo(b, k) : Size(b, i) < Size(b, k)
         /\ RisesTo(b, k) < SliceRandom - 1 => Size(b, k) =< Size(b, RisesTo(b, k) + 1)
  <1> USE SlicesNat
  <1> DEFINE T == {j \in k .. SliceRandom - 1 : \A i \in k + 1 .. j : Size(b, i) < Size(b, k)}
             top == RisesTo(b, k)
  <1>1. T \in SUBSET Int /\ k \in T /\ SliceRandom - 1 \in Int /\ \A j \in T : j =< SliceRandom - 1
    OBVIOUS
  <1>2. top \in T /\ \A j \in T : top >= j
    <2>1. top = Max(T)
      BY DEF RisesTo
    <2> HIDE DEF T, top
    <2>2. QED BY <1>1, <2>1, GreatestElement
  <1>3. ASSUME top < SliceRandom - 1 PROVE Size(b, k) =< Size(b, top + 1)
    <2>1. top \in Int /\ top + 1 \in k .. SliceRandom - 1 /\ top + 1 \notin T
      BY <1>2, <1>3
    <2>2. PICK i \in k + 1 .. top + 1 : ~(Size(b, i) < Size(b, k))
      BY <2>1
    <2>3. i = top + 1
      BY <1>2, <2>1, <2>2
    <2>4. Size(b, k) \in Nat /\ Size(b, i) \in Nat
      BY <2>1, <2>3, PlacesOfBucket DEF Slices
    <2>5. QED BY <2>2, <2>3, <2>4
  <1>4. QED BY <1>2, <1>3

\* That of pick.
LEMMA FallsToPlace ==
  ASSUME NEW b \in Bucket, NEW k \in Slices
  PROVE  /\ FallsTo(b, k) \in 0 .. k
         /\ \A i \in FallsTo(b, k) .. k - 1 : Size(b, i) > Size(b, k)
         /\ FallsTo(b, k) > 0 => Size(b, FallsTo(b, k) - 1) =< Size(b, k)
  <1> USE SlicesNat DEF Slices
  <1> DEFINE T == {j \in 0 .. k : \A i \in j .. k - 1 : Size(b, i) > Size(b, k)}
             low == FallsTo(b, k)
  <1>1. T \in SUBSET Nat /\ k \in T
    OBVIOUS
  <1>2. low \in T /\ \A j \in T : low =< j
    <2>1. low = Min(T)
      BY DEF FallsTo
    <2> HIDE DEF T, low
    <2>2. QED BY <1>1, <2>1, LeastElement
  <1>3. ASSUME low > 0 PROVE Size(b, low - 1) =< Size(b, k)
    <2>1. low \in Int /\ low - 1 \in 0 .. k /\ low - 1 \notin T
      BY <1>2, <1>3
    <2>2. PICK i \in low - 1 .. k - 1 : ~(Size(b, i) > Size(b, k))
      BY <2>1
    <2>3. i = low - 1
      BY <1>2, <2>1, <2>2
    <2>4. Size(b, k) \in Nat /\ Size(b, i) \in Nat
      BY <2>1, <2>3, PlacesOfBucket
    <2>5. QED BY <2>2, <2>3, <2>4
  <1>4. QED BY <1>2, <1>3

\* A slice of an ordered bucket that got longer goes to its place.
LEMMA SinkUpOrders ==
  ASSUME NEW b \in Bucket, NEW k \in 0 .. SliceRandom - 1,
         \A i \in 1 .. SliceRandom - 1 : i # k + 1 => Size(b, i - 1) =< Size(b, i),
         k > 0 /\ k < SliceRandom - 1 => Size(b, k - 1) =< Size(b, k + 1),
         \A i \in SliceRandom .. SliceTotal - 1 : b[i].list = <<>>
  PROVE  InOrder(SinkUp(b, k))
  <1> DEFINE j == RisesTo(b, k)
             c == SinkUp(b, k)
  <1> USE SlicesNat DEF Slices
  <1>1. /\ j \in k .. SliceRandom - 1
        /\ \A i \in k + 1 .. j : Size(b, i) < Size(b, k)
        /\ j < SliceRandom - 1 => Size(b, k) =< Size(b, j + 1)
    BY RisesToPlace
  <1>2. \A i \in Slices : Size(b, i) \in Nat
    BY PlacesOfBucket
  <1> HIDE DEF j
  <1>3. \A i \in Slices : c[i] = IF i = j THEN b[k] ELSE IF k =< i /\ i < j THEN b[i + 1] ELSE b[i]
    BY <1>1 DEF SinkUp, Move, j
  <1>4. \A i \in Slices : Size(c, i) = IF i = j THEN Size(b, k) ELSE IF k =< i /\ i < j THEN Size(b, i + 1) ELSE Size(b, i)
    BY <1>3 DEF Size
  <1> HIDE DEF c
  <1>5. \A i \in 1 .. SliceRandom - 1 : Size(c, i - 1) =< Size(c, i)
    <2>1. SUFFICES ASSUME NEW i \in 1 .. SliceRandom - 1 PROVE Size(c, i - 1) =< Size(c, i)
      OBVIOUS
    <2>2. CASE i < k \/ i > j + 1
      <3>1. Size(c, i - 1) = Size(b, i - 1) /\ Size(c, i) = Size(b, i)
        BY <1>1, <1>4, <2>2
      <3>2. QED BY <1>1, <2>2, <3>1
    <2>3. CASE i = j + 1
      <3>1. Size(c, i - 1) = Size(b, k) /\ Size(c, i) = Size(b, j + 1)
        BY <1>1, <1>4, <2>3
      <3>2. QED BY <1>1, <2>3, <3>1
    <2>4. CASE k < i /\ i < j
      <3>1. Size(c, i - 1) = Size(b, (i + 1) - 1) /\ Size(c, i) = Size(b, i + 1)
        BY <1>1, <1>4, <2>4
      <3>2. QED BY <1>1, <2>4, <3>1
    <2>5. CASE i = k
      <3>1. Size(c, i - 1) = Size(b, k - 1)
        BY <1>1, <1>4, <2>5
      <3>2. CASE j = k
        <4>1. Size(c, i) = Size(b, k)
          BY <1>4, <2>5, <3>2
        <4>2. QED BY <2>5, <3>1, <4>1
      <3>3. CASE j # k
        <4>1. Size(c, i) = Size(b, k + 1)
          BY <1>1, <1>4, <2>5, <3>3
        <4>2. QED BY <1>1, <2>5, <3>1, <3>3, <4>1
      <3>4. QED BY <3>2, <3>3
    <2>6. CASE k < i /\ i = j
      <3>1. Size(c, i - 1) = Size(b, i) /\ Size(c, i) = Size(b, k)
        BY <1>1, <1>4, <2>6
      <3>2. QED BY <1>1, <1>2, <2>6, <3>1
    <2>7. QED BY <1>1, <2>2, <2>3, <2>4, <2>5, <2>6
  <1>6. \A i \in SliceRandom .. SliceTotal - 1 : c[i].list = <<>>
    BY <1>1, <1>3
  <1>7. QED BY <1>5, <1>6 DEF InOrder, c

\* And one that got shorter.
LEMMA SinkDownOrders ==
  ASSUME NEW b \in Bucket, NEW k \in 0 .. SliceRandom - 1,
         \A i \in 1 .. SliceRandom - 1 : i # k => Size(b, i - 1) =< Size(b, i),
         k > 0 /\ k < SliceRandom - 1 => Size(b, k - 1) =< Size(b, k + 1),
         \A i \in SliceRandom .. SliceTotal - 1 : b[i].list = <<>>
  PROVE  InOrder(SinkDown(b, k))
  <1> DEFINE j == FallsTo(b, k)
             c == SinkDown(b, k)
  <1> USE SlicesNat DEF Slices
  <1>1. /\ j \in 0 .. k
        /\ \A i \in j .. k - 1 : Size(b, i) > Size(b, k)
        /\ j > 0 => Size(b, j - 1) =< Size(b, k)
    BY FallsToPlace
  <1>2. \A i \in Slices : Size(b, i) \in Nat
    BY PlacesOfBucket
  <1> HIDE DEF j
  <1>3. \A i \in Slices : c[i] = IF i = j THEN b[k] ELSE IF j < i /\ i =< k THEN b[i - 1] ELSE b[i]
    BY <1>1 DEF SinkDown, Move, j
  <1>4. \A i \in Slices : Size(c, i) = IF i = j THEN Size(b, k) ELSE IF j < i /\ i =< k THEN Size(b, i - 1) ELSE Size(b, i)
    BY <1>3 DEF Size
  <1> HIDE DEF c
  <1>5. \A i \in 1 .. SliceRandom - 1 : Size(c, i - 1) =< Size(c, i)
    <2>1. SUFFICES ASSUME NEW i \in 1 .. SliceRandom - 1 PROVE Size(c, i - 1) =< Size(c, i)
      OBVIOUS
    <2>2. CASE i < j \/ i > k + 1
      <3>1. Size(c, i - 1) = Size(b, i - 1) /\ Size(c, i) = Size(b, i)
        BY <1>1, <1>4, <2>2
      <3>2. QED BY <1>1, <2>2, <3>1
    <2>3. CASE i = j
      <3>1. Size(c, i - 1) = Size(b, j - 1) /\ Size(c, i) = Size(b, k)
        BY <1>1, <1>4, <2>3
      <3>2. QED BY <1>1, <2>3, <3>1
    <2>4. CASE j + 1 < i /\ i =< k
      <3>1. Size(c, i - 1) = Size(b, (i - 1) - 1) /\ Size(c, i) = Size(b, i - 1)
        BY <1>1, <1>4, <2>4
      <3>2. QED BY <1>1, <2>4, <3>1
    <2>5. CASE i = j + 1 /\ i =< k
      <3>1. Size(c, i - 1) = Size(b, k) /\ Size(c, i) = Size(b, j)
        BY <1>1, <1>4, <2>5
      <3>2. QED BY <1>1, <1>2, <2>5, <3>1
    <2>6. CASE i = k + 1
      <3>1. Size(c, i) = Size(b, k + 1)
        BY <1>1, <1>4, <2>6
      <3>2. CASE j = k
        <4>1. Size(c, i - 1) = Size(b, k)
          BY <1>4, <2>6, <3>2
        <4>2. QED BY <2>6, <3>1, <4>1
      <3>3. CASE j # k
        <4>1. Size(c, i - 1) = Size(b, k - 1)
          BY <1>1, <1>4, <2>6, <3>3
        <4>2. QED BY <1>1, <2>6, <3>1, <3>3, <4>1
      <3>4. QED BY <3>2, <3>3
    <2>7. QED BY <1>1, <2>2, <2>3, <2>4, <2>5, <2>6
  <1>6. \A i \in SliceRandom .. SliceTotal - 1 : c[i].list = <<>>
    BY <1>1, <1>3
  <1>7. QED BY <1>5, <1>6 DEF InOrder, c

\* neb_random_bucket_put and neb_random_bucket_pick on an ordered bucket.
LEMMA PutKeeps ==
  ASSUME NEW b \in Bucket, InOrder(b), Once(b), NEW n \in Nodes, n \notin NodesIn(b), NEW rn \in PutChoices(b)
  PROVE  LET c == BucketPut(b, n, rn)
         IN  c \in Bucket /\ InOrder(c) /\ Once(c) /\ NodesIn(c) = NodesIn(b) \cup {n}
  <1> USE SlicesNat
  <1> DEFINE a == [b EXCEPT ![rn].list = Append(@, n)]
  <1>1. rn \in 0 .. SliceRandom - 1 /\ rn \in Slices
    BY DEF PutChoices, Slices
  <1>2. /\ a \in Bucket /\ NodesIn(a) = NodesIn(b) \cup {n} /\ Once(a)
        /\ \A i \in Slices : Size(a, i) = IF i = rn THEN Size(b, i) + 1 ELSE Size(b, i)
    BY <1>1, AppendKeeps
  <1>3. \A i \in Slices : Size(b, i) \in Nat /\ (b[i].list = <<>> <=> Size(b, i) = 0)
    BY PlacesOfBucket
  <1>4. \A i \in Slices : a[i].list = <<>> <=> Size(a, i) = 0
    BY <1>2, PlacesOfBucket
  <1> HIDE DEF a
  <1>5. /\ \A i \in 1 .. SliceRandom - 1 : i # rn + 1 => Size(a, i - 1) =< Size(a, i)
        /\ rn > 0 /\ rn < SliceRandom - 1 => Size(a, rn - 1) =< Size(a, rn + 1)
        /\ \A i \in SliceRandom .. SliceTotal - 1 : a[i].list = <<>>
    <2>1. ASSUME NEW i \in 1 .. SliceRandom - 1, i # rn + 1 PROVE Size(a, i - 1) =< Size(a, i)
      <3>1. Size(b, i - 1) =< Size(b, i) /\ i - 1 \in Slices /\ i \in Slices
        BY DEF InOrder, Slices
      <3>2. QED BY <1>2, <1>3, <2>1, <3>1
    <2>2. ASSUME rn > 0, rn < SliceRandom - 1 PROVE Size(a, rn - 1) =< Size(a, rn + 1)
      <3>1. rn \in 1 .. SliceRandom - 1 /\ rn + 1 \in 1 .. SliceRandom - 1 /\ rn - 1 \in Slices /\ rn + 1 \in Slices
        BY <1>1, <2>2 DEF Slices
      <3>2. Size(b, rn - 1) =< Size(b, rn) /\ Size(b, (rn + 1) - 1) =< Size(b, rn + 1)
        BY <3>1 DEF InOrder
      <3>3. Size(a, rn - 1) = Size(b, rn - 1) /\ Size(a, rn + 1) = Size(b, rn + 1)
        BY <1>1, <1>2, <3>1
      <3>4. (rn + 1) - 1 = rn
        BY <1>1
      <3>5. QED BY <1>1, <1>3, <3>1, <3>2, <3>3, <3>4
    <2>3. ASSUME NEW i \in SliceRandom .. SliceTotal - 1 PROVE a[i].list = <<>>
      <3>1. i \in Slices /\ i # rn /\ b[i].list = <<>>
        BY <1>1 DEF InOrder, Slices
      <3>2. QED BY <1>2, <1>3, <1>4, <3>1
    <2>4. QED BY <2>1, <2>2, <2>3
  <1>6. BucketPut(b, n, rn) = SinkUp(a, rn)
    BY DEF BucketPut, a
  <1>7. InOrder(SinkUp(a, rn))
    BY <1>1, <1>2, <1>5, SinkUpOrders
  <1>8. RisesTo(a, rn) \in Slices
    BY <1>1, <1>2, RisesToPlace DEF Slices
  <1>9. QED BY <1>1, <1>2, <1>6, <1>7, <1>8, MoveKeeps DEF SinkUp

\* The scan of pick ends at a slice with a node, or behind the end.
LEMMA PickSlicePlace ==
  ASSUME NEW b \in Bucket, InOrder(b), NEW rn \in PickChoices(b), PickSlice(b, rn) # SliceTotal
  PROVE  LET i == PickSlice(b, rn)
         IN  i \in 0 .. SliceRandom - 1 /\ i \in Slices /\ Size(b, i) # 0
  <1> USE SlicesNat
  <1> DEFINE T == {i \in rn .. SliceTotal - 1 : b[i].list # <<>>} \cup {SliceTotal}
  <1>1. rn \in Slices
    BY DEF PickChoices, Slices
  <1>2. T \in SUBSET Nat /\ T # {}
    BY <1>1 DEF Slices
  <1>3. PickSlice(b, rn) \in T
    <2>1. PickSlice(b, rn) = Min(T)
      BY DEF PickSlice
    <2> HIDE DEF T
    <2>2. QED BY <1>2, <2>1, LeastElement
  <1>4. PickSlice(b, rn) \in Slices /\ b[PickSlice(b, rn)].list # <<>>
    BY <1>1, <1>3 DEF Slices
  <1>5. PickSlice(b, rn) \in 0 .. SliceRandom - 1
    BY <1>4 DEF InOrder, Slices
  <1>6. QED BY <1>4, <1>5, PlacesOfBucket

LEMMA PickKeeps ==
  ASSUME NEW b \in Bucket, InOrder(b), Once(b), NEW i \in 0 .. SliceRandom - 1, i \in Slices, Size(b, i) # 0
  PROVE  LET c == BucketPick(b, i)
             n == b[i].list[1]
         IN  /\ c \in Bucket /\ InOrder(c) /\ Once(c)
             /\ n \in NodesIn(b) /\ NodesIn(c) = NodesIn(b) \ {n}
  <1> USE SlicesNat
  <1> DEFINE a == [b EXCEPT ![i].list = Tail(@)]
             n == b[i].list[1]
  <1>1. /\ a \in Bucket /\ NodesIn(a) = NodesIn(b) \ {n} /\ Once(a) /\ n \in NodesIn(b)
        /\ \A j \in Slices : Size(a, j) = IF j = i THEN Size(b, j) - 1 ELSE Size(b, j)
    BY TailKeeps
  <1>2. \A j \in Slices : Size(b, j) \in Nat /\ (b[j].list = <<>> <=> Size(b, j) = 0)
    BY PlacesOfBucket
  <1>3. \A j \in Slices : a[j].list = <<>> <=> Size(a, j) = 0
    BY <1>1, PlacesOfBucket
  <1> HIDE DEF a, n
  <1>4. /\ \A j \in 1 .. SliceRandom - 1 : j # i => Size(a, j - 1) =< Size(a, j)
        /\ i > 0 /\ i < SliceRandom - 1 => Size(a, i - 1) =< Size(a, i + 1)
        /\ \A j \in SliceRandom .. SliceTotal - 1 : a[j].list = <<>>
    <2>1. ASSUME NEW j \in 1 .. SliceRandom - 1, j # i PROVE Size(a, j - 1) =< Size(a, j)
      <3>1. Size(b, j - 1) =< Size(b, j) /\ j - 1 \in Slices /\ j \in Slices
        BY DEF InOrder, Slices
      <3>2. QED BY <1>1, <1>2, <2>1, <3>1
    <2>2. ASSUME i > 0, i < SliceRandom - 1 PROVE Size(a, i - 1) =< Size(a, i + 1)
      <3>1. i \in 1 .. SliceRandom - 1 /\ i + 1 \in 1 .. SliceRandom - 1 /\ i - 1 \in Slices /\ i + 1 \in Slices
        BY <2>2 DEF Slices
      <3>2. Size(b, i - 1) =< Size(b, i) /\ Size(b, (i + 1) - 1) =< Size(b, i + 1)
        BY <3>1 DEF InOrder
      <3>3. Size(a, i - 1) = Size(b, i - 1) /\ Size(a, i + 1) = Size(b, i + 1) /\ (i + 1) - 1 = i
        BY <1>1, <3>1
      <3>4. QED BY <1>2, <3>1, <3>2, <3>3
    <2>3. ASSUME NEW j \in SliceRandom .. SliceTotal - 1 PROVE a[j].list = <<>>
      <3>1. j \in Slices /\ j # i /\ b[j].list = <<>>
        BY DEF InOrder, Slices
      <3>2. QED BY <1>1, <1>2, <1>3, <3>1
    <2>4. QED BY <2>1, <2>2, <2>3
  <1>5. BucketPick(b, i) = SinkDown(a, i)
    BY DEF BucketPick, a
  <1>6. InOrder(SinkDown(a, i))
    BY <1>1, <1>4, SinkDownOrders
  <1>7. FallsTo(a, i) \in Slices
    BY <1>1, FallsToPlace DEF Slices
  <1>8. SinkDown(a, i) \in Bucket /\ Once(SinkDown(a, i)) /\ NodesIn(SinkDown(a, i)) = NodesIn(a)
    BY <1>1, <1>7, MoveKeeps DEF SinkDown
  <1>9. QED BY <1>1, <1>5, <1>6, <1>8 DEF n

LEMMA ConfuseOrders ==
  ASSUME NEW b \in Bucket, InOrder(b), NEW S
  PROVE  InOrder(BucketConfuse(b, S))
  <1> USE SlicesNat
  <1> DEFINE c == BucketConfuse(b, S)
  <1>1. c \in Bucket /\ \A i \in Slices : Size(c, i) = Size(b, i)
    BY ConfuseKeeps
  <1> HIDE DEF c
  <1>2. \A i \in Slices : c[i].list = <<>> <=> b[i].list = <<>>
    BY <1>1, PlacesOfBucket
  <1>3. QED BY <1>1, <1>2 DEF InOrder, Slices, c

-----------------------------------------------------------------------------
RandomTypes ==
  /\ ring \in BOOLEAN /\ pickBucket \in Bucket /\ putBucket \in Bucket /\ inUse \in SUBSET Nodes
  /\ passed \in [Nodes -> [Nodes -> Nat]]

\* A node is in one list of one bucket, or in use, or not in the pool or ring yet.
NodesApart ==
  /\ Once(pickBucket) /\ Once(putBucket)
  /\ NodesIn(pickBucket) \cap NodesIn(putBucket) = {}
  /\ inUse \cap (NodesIn(pickBucket) \cup NodesIn(putBucket)) = {}

(***************************************************************************)
(* How often n may have been picked while m waits.  In the round that is   *)
(* on, n is picked before m is only if n has left pick_bucket; a node in   *)
(* put_bucket came there in this round, and was not there for any pick but *)
(* this round's.                                                           *)
(***************************************************************************)
PassedInv ==
  ring => \A n, m \in Nodes :
    /\ passed[n][m] =< 2
    /\ n \in NodesIn(pickBucket) /\ m \in NodesIn(pickBucket) => passed[n][m] =< 1
    /\ m \in NodesIn(putBucket) => passed[n][m] =< 1
    /\ n \in NodesIn(pickBucket) /\ m \in NodesIn(putBucket) => passed[n][m] = 0
    /\ n \notin Waiting \cup inUse => passed[n][m] = 0

RandomInv ==
  RandomTypes /\ InOrder(pickBucket) /\ InOrder(putBucket) /\ NodesApart /\ PassedInv

LEMMA RandomInitInv == RandomInit => RandomInv
  <1> SUFFICES ASSUME RandomInit PROVE RandomInv
    OBVIOUS
  <1> USE SlicesNat DEF RandomInit
  <1> DEFINE b == BucketCreate
  <1>1. b \in Bucket /\ \A i \in Slices : b[i].list = <<>> /\ Size(b, i) = 0
    BY DEF BucketCreate, Bucket, Size
  <1> HIDE DEF b
  <1>2. InOrder(b)
    BY <1>1 DEF InOrder, Slices
  <1>3. NodesIn(b) = {} /\ Once(b)
    BY <1>1, NodesOfBucket DEF Once
  <1>4. RandomTypes
    BY <1>1 DEF RandomTypes, b
  <1>5. pickBucket = b /\ putBucket = b
    BY DEF b
  <1>6. NodesApart
    BY <1>3, <1>5 DEF NodesApart
  <1>7. PassedInv
    BY DEF PassedInv
  <1>8. QED BY <1>2, <1>4, <1>5, <1>6, <1>7 DEF RandomInv

\* Nothing but wild changes: no more is said.
LEMMA StraysKeeps ==
  ASSUME RandomInv, NEW where, Strays(where)
  PROVE  RandomInv'
  <1> USE DEF Strays
  <1>1. RandomTypes' /\ NodesApart' /\ PassedInv'
    BY DEF RandomInv, RandomTypes, NodesApart, PassedInv, Waiting
  <1>2. InOrder(pickBucket)' /\ InOrder(putBucket)'
    BY DEF RandomInv
  <1>3. QED BY <1>1, <1>2 DEF RandomInv

LEMMA EntersType ==
  ASSUME RandomTypes, NEW n \in Nodes, Enters(n)
  PROVE  /\ passed' \in [Nodes -> [Nodes -> Nat]]
         /\ \A k, m \in Nodes : passed'[k][m] = IF m = n THEN 0 ELSE passed[k][m]
  BY DEF RandomTypes, Enters

LEMMA AddKeeps ==
  ASSUME RandomInv, NEW n \in Nodes, NEW rn \in Slices, RandomAdd(n, rn)
  PROVE  RandomInv'
  <1> USE DEF RandomInv
  <1>1. CASE Strays("head")
    BY <1>1, StraysKeeps
  <1>2. CASE ~Strays("head")
    <2>1. /\ n \notin Waiting \cup inUse /\ rn \in PutChoices(pickBucket)
          /\ pickBucket' = BucketPut(pickBucket, n, rn) /\ Enters(n)
          /\ UNCHANGED <<ring, putBucket, inUse>>
      BY <1>2 DEF RandomAdd
    <2>2. /\ pickBucket' \in Bucket /\ InOrder(pickBucket') /\ Once(pickBucket')
          /\ NodesIn(pickBucket') = NodesIn(pickBucket) \cup {n}
      BY <2>1, PutKeeps DEF RandomTypes, NodesApart, Waiting
    <2>3. passed' \in [Nodes -> [Nodes -> Nat]] /\ \A k, m \in Nodes : passed'[k][m] = IF m = n THEN 0 ELSE passed[k][m]
      BY <2>1, EntersType
    <2>4. RandomTypes'
      BY <2>1, <2>2, <2>3 DEF RandomTypes
    <2>5. NodesApart'
      BY <2>1, <2>2 DEF NodesApart, Waiting
    <2>6. PassedInv'
      <3>1. Waiting' = Waiting \cup {n}
        BY <2>1, <2>2 DEF Waiting
      <3>2. ring => \A m \in Nodes : passed[n][m] = 0
        BY <2>1 DEF PassedInv
      <3>3. QED BY <2>1, <2>2, <2>3, <3>1, <3>2 DEF PassedInv
    <2>7. QED BY <2>1, <2>2, <2>4, <2>5, <2>6
  <1>3. QED BY <1>1, <1>2

LEMMA PutBackKeeps ==
  ASSUME RandomInv, NEW n \in Nodes, NEW rn \in Slices, RandomPut(n, rn)
  PROVE  RandomInv'
  <1> USE DEF RandomInv
  <1> DEFINE into == IF ring THEN putBucket ELSE pickBucket
  <1>1. CASE Strays("head")
    BY <1>1, StraysKeeps
  <1>2. CASE ~Strays("head")
    <2>1. /\ n \in inUse /\ rn \in PutChoices(into)
          /\ inUse' = inUse \ {n} /\ Enters(n) /\ ring' = ring
          /\ ring => putBucket' = BucketPut(putBucket, n, rn) /\ pickBucket' = pickBucket
          /\ ~ring => pickBucket' = BucketPut(pickBucket, n, rn) /\ putBucket' = putBucket
      BY <1>2 DEF RandomPut
    <2>2. passed' \in [Nodes -> [Nodes -> Nat]] /\ \A k, m \in Nodes : passed'[k][m] = IF m = n THEN 0 ELSE passed[k][m]
      BY <2>1, EntersType
    <2>3. n \notin NodesIn(pickBucket) /\ n \notin NodesIn(putBucket)
      BY <2>1 DEF NodesApart
    <2>4. CASE ring
      <3>1. /\ putBucket' \in Bucket /\ InOrder(putBucket') /\ Once(putBucket')
            /\ NodesIn(putBucket') = NodesIn(putBucket) \cup {n}
        BY <2>1, <2>3, <2>4, PutKeeps DEF RandomTypes, NodesApart
      <3>2. RandomTypes'
        BY <2>1, <2>2, <2>4, <3>1 DEF RandomTypes
      <3>3. NodesApart'
        BY <2>1, <2>3, <2>4, <3>1 DEF NodesApart
      <3>4. PassedInv'
        <4>1. Waiting' \cup inUse' = Waiting \cup inUse
          BY <2>1, <2>4, <3>1 DEF Waiting
        <4>2. QED BY <2>1, <2>2, <2>3, <2>4, <3>1, <4>1 DEF PassedInv
      <3>5. QED BY <2>1, <2>4, <3>1, <3>2, <3>3, <3>4
    <2>5. CASE ~ring
      <3>1. /\ pickBucket' \in Bucket /\ InOrder(pickBucket') /\ Once(pickBucket')
            /\ NodesIn(pickBucket') = NodesIn(pickBucket) \cup {n}
        BY <2>1, <2>3, <2>5, PutKeeps DEF RandomTypes, NodesApart
      <3>2. RandomTypes'
        BY <2>1, <2>2, <2>5, <3>1 DEF RandomTypes
      <3>3. NodesApart'
        BY <2>1, <2>3, <2>5, <3>1 DEF NodesApart
      <3>4. PassedInv'
        BY <2>1, <2>5 DEF PassedInv
      <3>5. QED BY <2>1, <2>5, <3>1, <3>2, <3>3, <3>4
    <2>6. QED BY <2>4, <2>5
  <1>3. QED BY <1>1, <1>2

LEMMA ConfusingKeeps ==
  ASSUME RandomInv, NEW S, NEW T, RandomConfuse(S, T)
  PROVE  RandomInv'
  <1> USE DEF RandomInv
  <1>1. CASE Strays("head")
    BY <1>1, StraysKeeps
  <1>2. CASE ~Strays("head")
    <2>1. /\ pickBucket' = BucketConfuse(pickBucket, S)
          /\ putBucket' = IF ring THEN BucketConfuse(putBucket, T) ELSE putBucket
          /\ UNCHANGED <<ring, inUse, passed>>
      BY <1>2 DEF RandomConfuse
    <2>2. /\ pickBucket' \in Bucket /\ InOrder(pickBucket') /\ Once(pickBucket')
          /\ NodesIn(pickBucket') = NodesIn(pickBucket)
      BY <2>1, ConfuseKeeps, ConfuseOrders DEF RandomTypes, NodesApart
    <2>3. /\ putBucket' \in Bucket /\ InOrder(putBucket') /\ Once(putBucket')
          /\ NodesIn(putBucket') = NodesIn(putBucket)
      <3>1. CASE ring
        BY <2>1, <3>1, ConfuseKeeps, ConfuseOrders DEF RandomTypes, NodesApart
      <3>2. CASE ~ring
        BY <2>1, <3>2 DEF RandomTypes, NodesApart
      <3>3. QED BY <3>1, <3>2
    <2>4. RandomTypes' /\ NodesApart'
      BY <2>1, <2>2, <2>3 DEF RandomTypes, NodesApart
    <2>5. PassedInv'
      BY <2>1, <2>2, <2>3 DEF PassedInv, Waiting
    <2>6. QED BY <2>1, <2>2, <2>3, <2>4, <2>5
  <1>3. QED BY <1>1, <1>2

\* A pick takes from pick_bucket; before that the two may have changed places, which
\* begins a round.
LEMMA PickingKeeps ==
  ASSUME RandomInv, NEW rn \in Slices, RandomPick(rn)
  PROVE  RandomInv'
  <1> USE DEF RandomInv
  <1> DEFINE from == IF Turns THEN putBucket ELSE pickBucket
             rest == IF Turns THEN pickBucket ELSE putBucket
             i == PickSlice(from, rn)
             n == from[i].list[1]
  <1>1. CASE Strays("head") \/ Strays("slices")
    BY <1>1, StraysKeeps
  <1>2. CASE ~(Strays("head") \/ Strays("slices"))
    <2>1. /\ Count(from) > 0 /\ rn \in PickChoices(from) /\ i # SliceTotal
          /\ putBucket' = rest /\ pickBucket' = BucketPick(from, i)
          /\ inUse' = inUse \cup {n}
          /\ passed' = [passed EXCEPT ![n] = [m \in Nodes |->
                          IF ring /\ m \in Waiting \ {n} THEN Min({@[m] + 1, 3}) ELSE @[m]]]
          /\ ring' = ring
      BY <1>2 DEF RandomPick
    <2>2. /\ from \in Bucket /\ InOrder(from) /\ Once(from)
          /\ rest \in Bucket /\ InOrder(rest) /\ Once(rest)
          /\ NodesIn(from) \cap NodesIn(rest) = {}
          /\ Waiting = NodesIn(from) \cup NodesIn(rest)
      BY DEF RandomTypes, NodesApart, Waiting
    <2> HIDE DEF from, rest
    <2>3. i \in 0 .. SliceRandom - 1 /\ i \in Slices /\ Size(from, i) # 0
      BY <2>1, <2>2, PickSlicePlace
    <2> HIDE DEF i
    <2>4. /\ pickBucket' \in Bucket /\ InOrder(pickBucket') /\ Once(pickBucket')
          /\ n \in NodesIn(from) /\ NodesIn(pickBucket') = NodesIn(from) \ {n}
      BY <2>1, <2>2, <2>3, PickKeeps
    <2> HIDE DEF n
    <2>5. n \in Nodes
      BY <2>2, <2>4, NodesOfBucket
    <2>6. \A x \in Nat : Min({x + 1, 3}) \in Nat /\ Min({x + 1, 3}) =< x + 1
      <3>1. SUFFICES ASSUME NEW x \in Nat PROVE Min({x + 1, 3}) \in Nat /\ Min({x + 1, 3}) =< x + 1
        OBVIOUS
      <3> DEFINE T == {x + 1, 3}
      <3>2. T \in SUBSET Nat /\ T # {} /\ x + 1 \in T
        OBVIOUS
      <3> HIDE DEF T
      <3>3. Min(T) \in T /\ Min(T) =< x + 1
        BY <3>2, LeastElement
      <3>4. QED BY <3>2, <3>3 DEF T
    <2>7. /\ passed' \in [Nodes -> [Nodes -> Nat]]
          /\ \A k, m \in Nodes : passed'[k][m] =< passed[k][m] + 1
          /\ \A k, m \in Nodes : k # n \/ m \notin Waiting => passed'[k][m] = passed[k][m]
      <3> DEFINE up(x) == Min({x + 1, 3})
                 row == [m \in Nodes |-> IF ring /\ m \in Waiting \ {n} THEN up(passed[n][m]) ELSE passed[n][m]]
      <3>1. passed' = [passed EXCEPT ![n] = row]
        BY <2>1
      <3>2. passed \in [Nodes -> [Nodes -> Nat]]
        BY DEF RandomTypes
      <3>3. \A x \in Nat : up(x) \in Nat /\ up(x) =< x + 1
        BY <2>6
      <3> HIDE DEF up
      <3>4. /\ row \in [Nodes -> Nat]
            /\ \A m \in Nodes : row[m] =< passed[n][m] + 1 /\ (m \notin Waiting => row[m] = passed[n][m])
        BY <2>5, <3>2, <3>3
      <3> HIDE DEF row
      <3>5. QED BY <2>5, <3>1, <3>2, <3>4
    <2>8. RandomTypes'
      BY <2>1, <2>2, <2>4, <2>5, <2>7 DEF RandomTypes
    <2>9. NodesApart'
      BY <2>1, <2>2, <2>4 DEF NodesApart, Waiting
    <2>10. PassedInv'
      <3>1. SUFFICES ASSUME ring, NEW k \in Nodes, NEW m \in Nodes
                     PROVE  /\ passed'[k][m] =< 2
                            /\ k \in NodesIn(pickBucket') /\ m \in NodesIn(pickBucket') => passed'[k][m] =< 1
                            /\ m \in NodesIn(putBucket') => passed'[k][m] =< 1
                            /\ k \in NodesIn(pickBucket') /\ m \in NodesIn(putBucket') => passed'[k][m] = 0
                            /\ k \notin Waiting' \cup inUse' => passed'[k][m] = 0
        BY <2>1 DEF PassedInv
      <3>2. Waiting' \cup inUse' = Waiting \cup inUse
        BY <2>1, <2>2, <2>4 DEF Waiting
      <3>3. passed[k][m] \in Nat /\ passed'[k][m] \in Nat
        BY <2>7 DEF RandomTypes
      <3>4. k = n => k \in NodesIn(from) /\ k \notin NodesIn(pickBucket')
        BY <2>4
      <3>5. k \in NodesIn(from) /\ m \in NodesIn(from) => passed[k][m] =< 1
        BY <3>1 DEF PassedInv, from
      <3>6. CASE ~Turns
        <4>1. from = pickBucket /\ rest = putBucket
          BY <3>6 DEF from, rest
        <4>2. QED BY <2>1, <2>2, <2>4, <2>7, <3>1, <3>2, <3>3, <3>4, <3>5, <4>1 DEF PassedInv
      <3>7. CASE Turns
        <4>1. from = putBucket /\ rest = pickBucket /\ NodesIn(rest) = {}
          <5>1. pickBucket \in Bucket /\ Count(pickBucket) = 0
            BY <3>7 DEF Turns, RandomTypes
          <5>2. NodesIn(pickBucket) = {}
            BY <5>1, CountOfEmpty
          <5>3. QED BY <3>7, <5>2 DEF from, rest
        <4>2. QED BY <2>1, <2>2, <2>4, <2>7, <3>1, <3>2, <3>3, <3>4, <3>5, <4>1 DEF PassedInv
      <3>8. QED BY <3>6, <3>7
    <2>11. QED BY <2>1, <2>2, <2>4, <2>8, <2>9, <2>10
  <1>3. QED BY <1>1, <1>2

LEMMA RandomInvariant == RandomSpec => []RandomInv
  <1>1. RandomInit => RandomInv
    BY RandomInitInv
  <1>2. RandomInv /\ [RandomNext]_randomVars => RandomInv'
    <2>1. SUFFICES ASSUME RandomInv, [RandomNext]_randomVars PROVE RandomInv'
      OBVIOUS
    <2>2. ASSUME NEW n \in Nodes, NEW rn \in Slices, RandomAdd(n, rn) PROVE RandomInv'
      BY <2>1, <2>2, AddKeeps
    <2>3. ASSUME NEW n \in Nodes, NEW rn \in Slices, RandomPut(n, rn) PROVE RandomInv'
      BY <2>1, <2>3, PutBackKeeps
    <2>4. ASSUME NEW rn \in Slices, RandomPick(rn) PROVE RandomInv'
      BY <2>1, <2>4, PickingKeeps
    <2>5. ASSUME NEW S, NEW T, RandomConfuse(S, T) PROVE RandomInv'
      BY <2>1, <2>5, ConfusingKeeps
    <2>6. CASE UNCHANGED randomVars
      <3>1. RandomTypes' /\ NodesApart' /\ PassedInv'
        BY <2>1, <2>6 DEF randomVars, RandomInv, RandomTypes, NodesApart, PassedInv, Waiting
      <3>2. InOrder(pickBucket)' /\ InOrder(putBucket)'
        BY <2>1, <2>6 DEF randomVars, RandomInv
      <3>3. QED BY <3>1, <3>2 DEF RandomInv
    <2>7. QED BY <2>1, <2>2, <2>3, <2>4, <2>5, <2>6 DEF RandomNext
  <1>3. QED BY <1>1, <1>2, PTL DEF RandomSpec

(***************************************************************************)
(* The ring is fair whatever is added, picked, put back and confused, and  *)
(* the slices of both buckets stay in the order of their counts, which the *)
(* reorder loops of neb_random_bucket_put and _pick rely on.               *)
(***************************************************************************)
THEOREM RandomCorrect == RandomSpec => []RandomSound
  <1>1. RandomInv => RandomSound
    <2>1. SUFFICES ASSUME RandomInv PROVE RandomSound
      OBVIOUS
    <2>2. RingFair
      BY <2>1 DEF RandomInv, PassedInv, RingFair
    <2>3. SlicesOrdered
      BY <2>1 DEF RandomInv, InOrder, SlicesOrdered
    <2>4. QED BY <2>2, <2>3 DEF RandomSound
  <1>2. QED BY <1>1, RandomInvariant, PTL

-----------------------------------------------------------------------------
(***************************************************************************)
(* The next time of a time of day, for days and hours of any length.       *)
(***************************************************************************)
LEMMA Division ==
  ASSUME NEW x \in Nat, NEW d \in Nat \ {0}
  PROVE  x \div d \in Nat /\ x % d \in 0 .. d - 1 /\ x = d * (x \div d) + (x % d)
  OBVIOUS

\* Quotient and remainder are the only ones.
LEMMA Remainder ==
  ASSUME NEW d \in Nat \ {0}, NEW q \in Nat, NEW r \in 0 .. d - 1
  PROVE  (q * d + r) % d = r
  <1> DEFINE x == q * d + r
             p == x \div d
             s == x % d
  <1>1. x \in Nat
    OBVIOUS
  <1>2. p \in Nat /\ s \in 0 .. d - 1 /\ x = d * p + s
    BY <1>1, Division
  <1> HIDE DEF p, s
  <1>3. d * q - d * p = s - r
    BY <1>2
  <1>4. d * (q - p) = s - r
    BY <1>2, <1>3
  <1>5. CASE q - p >= 1
    BY <1>2, <1>4, <1>5
  <1>6. CASE q - p =< -1
    BY <1>2, <1>4, <1>6
  <1>7. q = p
    BY <1>2, <1>5, <1>6
  <1>8. QED BY <1>2, <1>4, <1>7 DEF s

LEMMA DayNat == HourLength \in Nat \ {0} /\ Day \in Nat \ {0}
  BY DaytimeConstants DEF Day

LEMMA OffsetNat == \A t \in Int : Offset(t) \in Nat
  BY DayNat DEF Offset

\* Hours, minutes and seconds add up to the second of the day.
LEMMA SplitIsWhole == \A sec \in Nat : Split(sec) = sec
  BY DayNat, Division DEF Split

DayTypes == now \in Nat /\ secOfDay \in 0 .. Day - 1

(***************************************************************************)
(* The alarm is today's if that is still to come, and tomorrow's if not:   *)
(* the loop at the end adds one day at most.                               *)
(***************************************************************************)
LEMMA NearestIs ==
  ASSUME DayTypes
  PROVE  LET s == LocalTime(now)
         IN  /\ s \in 0 .. Day - 1 /\ LocalDay(now) \in Nat
             /\ now + Offset(now) = LocalDay(now) * Day + s
             /\ Nearest = IF secOfDay > s THEN now + (secOfDay - s) ELSE now + (secOfDay - s) + Day
  <1> USE DayNat DEF DayTypes
  <1> DEFINE D == LocalDay(now)
             s == LocalTime(now)
             t == Mktime(D, Split(secOfDay))
  <1>1. Offset(now) \in Nat
    BY OffsetNat
  <1>2. now + Offset(now) \in Nat
    BY <1>1
  <1>3. D \in Nat /\ s \in 0 .. Day - 1 /\ now + Offset(now) = Day * D + s
    BY <1>2, Division DEF LocalDay, LocalTime
  <1> HIDE DEF D, s
  <1>4. D * Day = Day * D /\ D * Day \in Nat
    BY <1>3
  <1>5. t = D * Day + secOfDay - Offset(now)
    BY SplitIsWhole DEF Mktime
  <1>6. t = now + (secOfDay - s) /\ t \in Int
    <2> DEFINE N == D * Day
    <2>1. N \in Nat /\ now + Offset(now) = N + s /\ t = N + secOfDay - Offset(now) /\ s \in Nat
      BY <1>3, <1>4, <1>5
    <2> HIDE DEF N, t
    <2>2. now \in Nat /\ secOfDay \in Nat
      OBVIOUS
    <2>3. QED BY ONLY <1>1, <2>1, <2>2
  <1>7. Nearest = NextAfter(t, now)
    BY DEF Nearest, D
  <1> HIDE DEF t
  <1>8. CASE secOfDay > s
    <2>1. ~(t =< now)
      BY <1>3, <1>6, <1>8
    <2>2. QED BY <1>3, <1>4, <1>6, <1>7, <1>8, <2>1 DEF NextAfter, D, s
  <1>9. CASE ~(secOfDay > s)
    <2>1. t =< now /\ now - t \in 0 .. Day - 1
      BY <1>3, <1>6, <1>9
    <2>2. (now - t) \div Day = 0
      <3> DEFINE x == now - t
                 q == x \div Day
                 r == x % Day
      <3>1. q \in Nat /\ r \in 0 .. Day - 1 /\ x = Day * q + r /\ x \in Nat /\ x < Day
        <4>1. x \in Nat /\ x < Day
          BY <2>1
        <4> HIDE DEF x
        <4>2. QED BY <4>1, Division
      <3> HIDE DEF q, r, x
      <3>2. CASE q >= 1
        <4>1. Day * q >= Day
          BY <3>1, <3>2
        <4>2. QED BY <3>1, <4>1
      <3>3. QED BY <3>1, <3>2 DEF q, x
    <2>3. Nearest = t + (0 + 1) * Day
      BY <1>7, <2>1, <2>2 DEF NextAfter
    <2>4. QED BY <1>3, <1>4, <1>6, <1>9, <2>3 DEF D, s
  <1>10. QED BY <1>8, <1>9

\* The local time a while after now, before the clocks change.
LEMMA LocalTimeLater ==
  ASSUME DayTypes, NEW h \in Nat, Offset(now + h) = Offset(now)
  PROVE  LET s == LocalTime(now)
         IN  LocalTime(now + h) = IF s + h < Day THEN s + h ELSE IF s + h < 2 * Day THEN s + h - Day
                                  ELSE LocalTime(now + h)
  <1> USE DayNat DEF DayTypes
  <1> DEFINE D == LocalDay(now)
             s == LocalTime(now)
  <1>1. D \in Nat /\ s \in 0 .. Day - 1 /\ now + Offset(now) = D * Day + s
    BY NearestIs
  <1>2. Offset(now) \in Nat
    BY OffsetNat
  <1> HIDE DEF D, s
  <1>3. (now + h) + Offset(now + h) = D * Day + (s + h)
    BY <1>1, <1>2
  <1>4. LocalTime(now + h) = (D * Day + (s + h)) % Day
    BY <1>3 DEF LocalTime
  <1>5. CASE s + h < Day
    <2>1. s + h \in 0 .. Day - 1
      BY <1>1, <1>5
    <2>2. (D * Day + (s + h)) % Day = s + h
      BY <1>1, <2>1, Remainder
    <2>3. QED BY <1>4, <1>5, <2>2 DEF s
  <1>6. CASE s + h >= Day /\ s + h < 2 * Day
    <2>1. s + h - Day \in 0 .. Day - 1 /\ D + 1 \in Nat
      BY <1>1, <1>6
    <2>2. ((D + 1) * Day + (s + h - Day)) % Day = s + h - Day
      BY <2>1, Remainder
    <2>3. (D + 1) * Day + (s + h - Day) = D * Day + (s + h)
      BY <1>1
    <2>4. ~(s + h < Day)
      BY <1>1, <1>6
    <2>5. QED BY <1>4, <1>6, <2>2, <2>3, <2>4 DEF s
  <1>7. QED BY <1>1, <1>5, <1>6 DEF s

LEMMA NearestRight ==
  ASSUME DayTypes, alarm = Nearest
  PROVE  AlarmNearest
  <1> USE DayNat DEF DayTypes
  <1> DEFINE s == LocalTime(now)
             h == IF secOfDay > s THEN secOfDay - s ELSE secOfDay - s + Day
  <1>1. s \in 0 .. Day - 1 /\ alarm = now + h
    <2>1. s \in 0 .. Day - 1
      BY NearestIs
    <2>2. Nearest = IF secOfDay > s THEN now + (secOfDay - s) ELSE now + (secOfDay - s) + Day
      BY NearestIs
    <2> HIDE DEF s
    <2>3. QED BY <2>1, <2>2
  <1> HIDE DEF s
  <1>2. h \in 1 .. Day
    BY <1>1
  <1> HIDE DEF h
  <1>3. now < alarm /\ alarm =< now + Day
    BY <1>1, <1>2
  <1>4. ASSUME \A t \in now .. alarm : Offset(t) = Offset(now)
        PROVE  LocalTime(alarm) = secOfDay /\ \A t \in now + 1 .. alarm - 1 : LocalTime(t) # secOfDay
    <2>1. \A k \in 0 .. h : Offset(now + k) = Offset(now)
      BY <1>1, <1>2, <1>4
    <2>2. ASSUME NEW k \in 0 .. h
          PROVE  LocalTime(now + k) = IF s + k < Day THEN s + k ELSE s + k - Day
      <3>1. k \in Nat /\ Offset(now + k) = Offset(now) /\ s + k < 2 * Day
        BY <1>1, <1>2, <2>1, <2>2
      <3>2. LocalTime(now + k) = IF s + k < Day THEN s + k ELSE IF s + k < 2 * Day THEN s + k - Day ELSE LocalTime(now + k)
        BY <3>1, LocalTimeLater DEF s
      <3>3. QED BY <3>1, <3>2
    <2>3. LocalTime(alarm) = secOfDay
      <3>1. LocalTime(now + h) = IF s + h < Day THEN s + h ELSE s + h - Day
        BY <1>2, <2>2
      <3>2. QED BY <1>1, <3>1 DEF h
    <2>4. ASSUME NEW t \in now + 1 .. alarm - 1 PROVE LocalTime(t) # secOfDay
      <3>1. t - now \in 1 .. h - 1 /\ now + (t - now) = t /\ t - now \in 0 .. h
        BY <1>1, <1>2, <2>4
      <3>2. LocalTime(t) = IF s + (t - now) < Day THEN s + (t - now) ELSE s + (t - now) - Day
        BY <2>2, <3>1
      <3>3. QED BY <1>1, <3>1, <3>2 DEF h
    <2>5. QED BY <2>3, <2>4
  <1>5. QED BY <1>3, <1>4 DEF AlarmNearest

(***************************************************************************)
(* neb_daytime_abs_nearest returns the next time the clock will show the   *)
(* second of the day asked for, whatever the zone's offset, the length of  *)
(* a day and the time of the call, unless the clocks change before.        *)
(***************************************************************************)
THEOREM AlarmCorrect == DaySpec => []AlarmNearest
  <1> DEFINE Inv == DayTypes /\ (alarm = -1 \/ alarm = Nearest)
  <1>1. DayInit => Inv
    BY DaytimeConstants DEF DayInit, DayTypes
  <1>2. Inv /\ [DayStep]_dayVars => Inv'
    BY DEF DayStep, dayVars, DayTypes, Nearest, Mktime, LocalDay, Offset
  <1>3. Inv => AlarmNearest
    <2>1. ASSUME DayTypes, alarm = -1 PROVE AlarmNearest
      BY <2>1 DEF AlarmNearest
    <2>2. QED BY <2>1, NearestRight
  <1> HIDE DEF Inv
  <1>4. QED BY <1>1, <1>2, <1>3, PTL DEF DaySpec

-----------------------------------------------------------------------------
(***************************************************************************)
(* The search, for patterns and texts of any length over any alphabet.     *)
(***************************************************************************)
\* What suffixes starts with, and the loop as an equation: the function that SuffixLoop
\* chooses exists.
SuffixStart(m) == [suff |-> [i \in 0 .. m - 1 |-> m], f |-> 0, g |-> m - 1]

LEMMA SuffixLoopRuns ==
  ASSUME NEW x, NEW m \in Nat \ {0}, Length(x) = m
  PROVE  SuffixLoop(x) = [k \in 0 .. m - 1 |->
           IF k = 0 THEN SuffixStart(m) ELSE SuffixStep(x, SuffixLoop(x)[k - 1], m - 1 - k)]
  <1> DEFINE Run(f, n) == [k \in 0 .. n |-> IF k = 0 THEN SuffixStart(m) ELSE SuffixStep(x, f[k - 1], m - 1 - k)]
             P == {n \in Nat : \E f : f = Run(f, n)}
  <1>1. 0 \in P
    <2> DEFINE f == [k \in 0 .. 0 |-> SuffixStart(m)]
    <2>1. f = Run(f, 0)
      OBVIOUS
    <2>2. QED BY <2>1
  <1>2. ASSUME NEW n \in P PROVE n + 1 \in P
    <2>1. PICK f : f = Run(f, n)
      OBVIOUS
    <2> DEFINE h == [k \in 0 .. n + 1 |-> IF k =< n THEN f[k] ELSE SuffixStep(x, f[n], m - 1 - k)]
    <2>2. ASSUME NEW k \in 0 .. n + 1
          PROVE  h[k] = IF k = 0 THEN SuffixStart(m) ELSE SuffixStep(x, h[k - 1], m - 1 - k)
      <3>0. n \in Nat
        OBVIOUS
      <3>1. CASE k = 0
        <4>1. f[0] = SuffixStart(m)
          BY <2>1, <3>0
        <4>2. QED BY <3>0, <3>1, <4>1
      <3>2. CASE k \in 1 .. n
        <4>1. f[k] = SuffixStep(x, f[k - 1], m - 1 - k)
          BY <2>1, <3>0, <3>2
        <4>2. h[k] = f[k] /\ h[k - 1] = f[k - 1]
          BY <3>0, <3>2
        <4>3. QED BY <3>2, <4>1, <4>2
      <3>3. CASE k = n + 1
        <4>1. h[k] = SuffixStep(x, f[n], m - 1 - k) /\ h[k - 1] = f[n] /\ k # 0
          BY <3>0, <3>3
        <4>2. QED BY <4>1
      <3>4. QED BY <3>0, <3>1, <3>2, <3>3
    <2>3. h = Run(h, n + 1)
      BY <2>2
    <2> HIDE DEF h
    <2>4. \E q : q = Run(q, n + 1)
      BY <2>3
    <2>5. n + 1 \in Nat
      OBVIOUS
    <2>6. QED BY <2>4, <2>5
  <1>3. \A n \in Nat : n \in P
    <2>1. P \in SUBSET Nat
      OBVIOUS
    <2> HIDE DEF P
    <2>2. QED BY <1>1, <1>2, <2>1, Induction
  <1>4. \E f : f = Run(f, m - 1)
    <2>1. m - 1 \in P
      BY <1>3
    <2>2. QED BY <2>1
  <1>5. SuffixLoop(x) = CHOOSE f : f = Run(f, m - 1)
    BY DEF SuffixLoop, SuffixStart
  <1>6. QED BY <1>4, <1>5

LEMMA LengthOf ==
  ASSUME NEW m \in Nat, NEW x \in [0 .. m - 1 -> Alphabet]
  PROVE  Length(x) = m
  BY FS_Interval DEF Length

\* The inner loop stops at a place where the repetition ends, or before the first.
LEMMA MismatchPlace ==
  ASSUME NEW x, NEW g \in Int, g >= -1, NEW dist \in Int
  PROVE  /\ Mismatch(x, g, dist) \in -1 .. g
         /\ Mismatch(x, g, dist) = -1 \/ x[Mismatch(x, g, dist)] # x[Mismatch(x, g, dist) + dist]
         /\ \A h \in Mismatch(x, g, dist) + 1 .. g : x[h] = x[h + dist]
  <1> DEFINE T == {-1} \cup {h \in 0 .. g : x[h] # x[h + dist]}
             at == Mismatch(x, g, dist)
  <1>1. T \in SUBSET Int /\ T # {} /\ \A h \in T : h =< g
    OBVIOUS
  <1>2. at \in T /\ \A h \in T : at >= h
    <2>1. at = Max(T)
      BY DEF Mismatch
    <2> HIDE DEF T, at
    <2>2. QED BY <1>1, <2>1, GreatestElement
  <1> HIDE DEF at
  <1>3. at \in -1 .. g /\ (at = -1 \/ x[at] # x[at + dist])
    BY <1>2
  <1>4. ASSUME NEW h \in at + 1 .. g PROVE x[h] = x[h + dist]
    <2>1. h \in 0 .. g /\ ~(at >= h)
      BY <1>3, <1>4
    <2>2. QED BY <1>2, <2>1
  <1>5. QED BY <1>3, <1>4 DEF at

-----------------------------------------------------------------------------
\* n is the number of characters up to i that are a suffix of x, of length m.
SuffixAt(x, m, i, n) ==
  /\ n \in 0 .. i + 1
  /\ \A p \in 0 .. n - 1 : x[i - p] = x[m - 1 - p]
  /\ n = i + 1 \/ x[i - n] # x[m - 1 - n]

LEMMA SuffixUnique ==
  ASSUME NEW x, NEW m \in Nat, NEW i \in Nat, NEW n, NEW k, SuffixAt(x, m, i, n), SuffixAt(x, m, i, k)
  PROVE  n = k
  <1>1. n \in Nat /\ k \in Nat /\ n =< i + 1 /\ k =< i + 1
    BY DEF SuffixAt
  <1>2. CASE n < k
    <2>1. n \in 0 .. k - 1 /\ n # i + 1
      BY <1>1, <1>2
    <2>2. QED BY <2>1 DEF SuffixAt
  <1>3. CASE k < n
    <2>1. k \in 0 .. n - 1 /\ k # i + 1
      BY <1>1, <1>3
    <2>2. QED BY <2>1 DEF SuffixAt
  <1>4. QED BY <1>1, <1>2, <1>3

\* The stretch g + 1 .. f repeats the end of x.
Repeats(x, m, f, g) == \A p \in g + 1 .. f : x[p] = x[p + (m - 1 - f)]

\* At a place in such a stretch, what is known of the corresponding place at the end of x
\* holds as far as the stretch goes.
LEMMA StretchRepeats ==
  ASSUME NEW m \in Nat \ {0}, NEW x, NEW i \in 0 .. m - 2, NEW f \in i + 1 .. m - 2, NEW g \in -1 .. i - 1,
         Repeats(x, m, f, g), NEW p \in 0 .. i - g - 1
  PROVE  x[i - p] = x[(i + m - 1 - f) - p]
  <1>1. i - p \in g + 1 .. f /\ (i - p) + (m - 1 - f) = (i + m - 1 - f) - p
    OBVIOUS
  <1>2. x[i - p] = x[(i - p) + (m - 1 - f)]
    BY <1>1 DEF Repeats
  <1>3. QED BY <1>1, <1>2

LEMMA CopiedRight ==
  ASSUME NEW m \in Nat \ {0}, NEW x, NEW i \in 0 .. m - 2, NEW f \in i + 1 .. m - 2, NEW g \in -1 .. i - 1,
         Repeats(x, m, f, g), NEW n \in Nat, SuffixAt(x, m, i + m - 1 - f, n), n < i - g
  PROVE  SuffixAt(x, m, i, n)
  <1> DEFINE at == i + m - 1 - f
  <1>1. at \in i + 1 .. m - 2 /\ n \in 0 .. i + 1 /\ n # at + 1
    OBVIOUS
  <1>2. \A p \in 0 .. i - g - 1 : x[i - p] = x[at - p]
    BY StretchRepeats
  <1>3. (\A p \in 0 .. n - 1 : x[at - p] = x[m - 1 - p]) /\ x[at - n] # x[m - 1 - n]
    BY <1>1 DEF SuffixAt
  <1> HIDE DEF at
  <1>4. ASSUME NEW p \in 0 .. n - 1 PROVE x[i - p] = x[m - 1 - p]
    <2>1. p \in 0 .. i - g - 1
      OBVIOUS
    <2>2. QED BY <1>2, <1>3, <2>1
  <1>5. x[i - n] # x[m - 1 - n]
    <2>1. n \in 0 .. i - g - 1
      OBVIOUS
    <2>2. QED BY <1>2, <1>3, <2>1
  <1>6. QED BY <1>1, <1>4, <1>5 DEF SuffixAt

\* A stretch that is compared from i on, or from where the last one ended.
LEMMA ComparedRight ==
  ASSUME NEW m \in Nat \ {0}, NEW x, NEW i \in 0 .. m - 2, NEW start \in -1 .. i, Repeats(x, m, i, start)
  PROVE  LET g == Mismatch(x, start, m - 1 - i)
         IN  g \in -1 .. i /\ Repeats(x, m, i, g) /\ i - g \in Nat /\ SuffixAt(x, m, i, i - g)
  <1> DEFINE g == Mismatch(x, start, m - 1 - i)
             dist == m - 1 - i
  <1>1. /\ g \in -1 .. start /\ (g = -1 \/ x[g] # x[g + dist])
        /\ \A q \in g + 1 .. start : x[q] = x[q + dist]
    <2>1. dist \in Int /\ start \in Int /\ start >= -1
      OBVIOUS
    <2> HIDE DEF dist
    <2>2. g = Mismatch(x, start, dist)
      BY DEF dist
    <2> HIDE DEF g
    <2>3. QED BY <2>1, <2>2, MismatchPlace
  <1> HIDE DEF g
  <1>2. ASSUME NEW q \in g + 1 .. i PROVE x[q] = x[q + (m - 1 - i)]
    <2>1. CASE q =< start
      BY <1>1, <2>1
    <2>2. CASE q > start
      <3>1. q \in start + 1 .. i
        BY <1>1, <2>2
      <3>2. QED BY <3>1 DEF Repeats
    <2>3. QED BY <1>1, <2>1, <2>2
  <1>3. ASSUME NEW p \in 0 .. (i - g) - 1 PROVE x[i - p] = x[m - 1 - p]
    <2>1. i - p \in g + 1 .. i /\ (i - p) + (m - 1 - i) = m - 1 - p
      BY <1>1
    <2>2. x[i - p] = x[(i - p) + (m - 1 - i)]
      BY <1>2, <2>1
    <2>3. QED BY <2>1, <2>2
  <1>4. i - g = i + 1 \/ x[i - (i - g)] # x[m - 1 - (i - g)]
    <2>1. i - (i - g) = g /\ m - 1 - (i - g) = g + dist /\ (g = -1 => i - g = i + 1)
      BY <1>1
    <2>2. QED BY <1>1, <2>1
  <1>5. i - g \in 0 .. i + 1 /\ i - g \in Nat /\ g \in -1 .. i
    BY <1>1
  <1>6. SuffixAt(x, m, i, i - g)
    BY <1>3, <1>4, <1>5 DEF SuffixAt
  <1>7. QED BY <1>2, <1>5, <1>6 DEF Repeats, g

\* The last stretch need not be compared again.
LEMMA KnownRepeats ==
  ASSUME NEW m \in Nat \ {0}, NEW x, NEW i \in 0 .. m - 2, NEW f \in i + 1 .. m - 2, NEW g \in -1 .. i - 1,
         Repeats(x, m, f, g), NEW n \in Nat, SuffixAt(x, m, i + m - 1 - f, n), n >= i - g
  PROVE  Repeats(x, m, i, g)
  <1>1. SUFFICES ASSUME NEW q \in g + 1 .. i PROVE x[q] = x[q + (m - 1 - i)]
    BY DEF Repeats
  <1>2. i - q \in 0 .. i - g - 1 /\ i - q \in 0 .. n - 1
    OBVIOUS
  <1> DEFINE p == i - q
  <1>3. p \in 0 .. i - g - 1 /\ p \in 0 .. n - 1 /\ i - p = q /\ m - 1 - p = q + (m - 1 - i)
    BY <1>2
  <1> HIDE DEF p
  <1>4. x[i - p] = x[(i + m - 1 - f) - p]
    BY <1>3, StretchRepeats
  <1>5. x[(i + m - 1 - f) - p] = x[m - 1 - p]
    BY <1>3 DEF SuffixAt
  <1>6. QED BY <1>3, <1>4, <1>5

(***************************************************************************)
(* The loop of suffixes, after the round for i: what is computed is right, *)
(* and the stretch g + 1 .. f, which the next rounds look things up in,    *)
(* repeats the end of x.                                                   *)
(***************************************************************************)
SuffixInv(x, m, s, i) ==
  /\ s \in [suff : [0 .. m - 1 -> Nat], f : Int, g : Int]
  /\ \A h \in i .. m - 1 : SuffixAt(x, m, h, s.suff[h])
  /\ i = m - 1 => s.g = m - 1
  /\ i < m - 1 => s.f \in i .. m - 2 /\ s.g \in -1 .. s.f /\ Repeats(x, m, s.f, s.g)

LEMMA SuffixStepRight ==
  ASSUME NEW m \in Nat \ {0}, NEW x \in [0 .. m - 1 -> Alphabet], NEW i \in 0 .. m - 2,
         NEW s, SuffixInv(x, m, s, i + 1)
  PROVE  SuffixInv(x, m, SuffixStep(x, s, i), i)
  <1> DEFINE table == s.suff
             f == s.f
             g == s.g
             n == table[i + m - 1 - f]
             start == IF i < g THEN i ELSE g
             low == Mismatch(x, start, m - 1 - i)
  <1>1. /\ s = [suff |-> table, f |-> f, g |-> g] /\ table \in [0 .. m - 1 -> Nat] /\ f \in Int /\ g \in Int
        /\ \A h \in i + 1 .. m - 1 : SuffixAt(x, m, h, table[h])
        /\ i + 1 = m - 1 => g = m - 1
        /\ i + 1 < m - 1 => f \in i + 1 .. m - 2 /\ g \in -1 .. f /\ Repeats(x, m, f, g)
    BY DEF SuffixInv
  <1>2. SuffixStep(x, s, i) = IF i > g /\ n < i - g THEN [s EXCEPT !.suff[i] = n]
                              ELSE [suff |-> [table EXCEPT ![i] = i - low], f |-> i, g |-> low]
    <2>1. Length(x) = m
      BY LengthOf
    <2>2. QED BY <2>1 DEF SuffixStep
  <1>3. [s EXCEPT !.suff[i] = n] = [suff |-> [table EXCEPT ![i] = n], f |-> f, g |-> g]
    <2>1. [s EXCEPT !.suff[i] = n] = [s EXCEPT !.suff = [table EXCEPT ![i] = n]]
      OBVIOUS
    <2> DEFINE new == [table EXCEPT ![i] = n]
    <2> HIDE DEF new, table, f, g, n
    <2>2. [s EXCEPT !.suff = new] = [suff |-> new, f |-> f, g |-> g]
      BY <1>1
    <2>3. QED BY <2>1, <2>2 DEF new, table, f, g, n
  <1> HIDE DEF table, f, g
  <1>4. i > g => i + 1 < m - 1 /\ f \in i + 1 .. m - 2 /\ g \in -1 .. i - 1 /\ Repeats(x, m, f, g)
    BY <1>1
  <1>5. i > g => n \in Nat /\ SuffixAt(x, m, i + m - 1 - f, n)
    <2>1. i > g => i + m - 1 - f \in i + 1 .. m - 1 /\ i + m - 1 - f \in 0 .. m - 1
      BY <1>4
    <2>2. QED BY <1>1, <2>1
  <1> HIDE DEF n
  <1>6. ASSUME NEW k \in Nat, NEW f1 \in i .. m - 2, NEW g1 \in -1 .. f1,
               SuffixAt(x, m, i, k), Repeats(x, m, f1, g1)
        PROVE  SuffixInv(x, m, [suff |-> [table EXCEPT ![i] = k], f |-> f1, g |-> g1], i)
    <2> DEFINE new == [table EXCEPT ![i] = k]
    <2>1. new \in [0 .. m - 1 -> Nat] /\ new[i] = k /\ \A h \in i + 1 .. m - 1 : new[h] = table[h]
      BY <1>1
    <2> HIDE DEF new
    <2>2. \A h \in i .. m - 1 : h = i \/ h \in i + 1 .. m - 1
      OBVIOUS
    <2>3. \A h \in i .. m - 1 : SuffixAt(x, m, h, new[h])
      BY <1>1, <1>6, <2>1, <2>2
    <2>4. f1 \in Int /\ g1 \in Int /\ ~(i = m - 1)
      OBVIOUS
    <2>5. SuffixInv(x, m, [suff |-> new, f |-> f1, g |-> g1], i)
      BY <1>6, <2>1, <2>3, <2>4 DEF SuffixInv
    <2>6. QED BY <2>5 DEF new
  <1>7. CASE i > g /\ n < i - g
    <2>1. SuffixAt(x, m, i, n)
      BY <1>4, <1>5, <1>7, CopiedRight
    <2>2. f \in i .. m - 2 /\ g \in -1 .. f
      BY <1>1, <1>4, <1>7
    <2>3. SuffixInv(x, m, [suff |-> [table EXCEPT ![i] = n], f |-> f, g |-> g], i)
      BY <1>4, <1>5, <1>6, <1>7, <2>1, <2>2
    <2>4. QED BY <1>2, <1>3, <1>7, <2>3
  <1>8. CASE ~(i > g /\ n < i - g)
    <2>1. start \in -1 .. i
      BY <1>1, <1>4
    <2>2. Repeats(x, m, i, start)
      <3>1. CASE i > g
        <4>1. start = g /\ n >= i - g
          BY <1>1, <1>5, <1>8, <3>1
        <4>2. QED BY <1>4, <1>5, <3>1, <4>1, KnownRepeats
      <3>2. CASE ~(i > g)
        <4>1. start = i
          BY <1>1, <3>2
        <4>2. QED BY <4>1 DEF Repeats
      <3>3. QED BY <3>1, <3>2
    <2> HIDE DEF start
    <2>3. low \in -1 .. i /\ Repeats(x, m, i, low) /\ i - low \in Nat /\ SuffixAt(x, m, i, i - low)
      BY <2>1, <2>2, ComparedRight
    <2> HIDE DEF low
    <2>4. i \in i .. m - 2
      OBVIOUS
    <2>5. SuffixInv(x, m, [suff |-> [table EXCEPT ![i] = i - low], f |-> i, g |-> low], i)
      BY <1>6, <2>3, <2>4
    <2>6. QED BY <1>2, <1>8, <2>5 DEF low
  <1>9. QED BY <1>7, <1>8

\* suffixes computes, for every place, how many characters up to it are a suffix.
LEMMA SuffixTableRight ==
  ASSUME NEW m \in Nat \ {0}, NEW x \in [0 .. m - 1 -> Alphabet]
  PROVE  \A h \in 0 .. m - 1 : SuffixAt(x, m, h, SuffixTable(x)[h])
  <1> DEFINE loop == SuffixLoop(x)
             P == {k \in Nat : k =< m - 1 => SuffixInv(x, m, loop[k], m - 1 - k)}
  <1>1. Length(x) = m
    BY LengthOf
  <1>2. /\ loop[0] = SuffixStart(m)
        /\ \A k \in 1 .. m - 1 : loop[k] = SuffixStep(x, loop[k - 1], m - 1 - k)
    <2> DEFINE Body(k) == IF k = 0 THEN SuffixStart(m) ELSE SuffixStep(x, loop[k - 1], m - 1 - k)
    <2>1. loop = [k \in 0 .. m - 1 |-> Body(k)]
      BY <1>1, SuffixLoopRuns
    <2> HIDE DEF loop
    <2>2. 0 \in 0 .. m - 1 /\ \A k \in 1 .. m - 1 : k \in 0 .. m - 1 /\ k # 0
      OBVIOUS
    <2> HIDE DEF Body
    <2>3. \A k \in 0 .. m - 1 : loop[k] = Body(k)
      BY <2>1
    <2>4. QED BY <2>2, <2>3 DEF Body
  <1> HIDE DEF loop
  <1>3. 0 \in P
    <2> DEFINE table == [i \in 0 .. m - 1 |-> m]
    <2>1. table \in [0 .. m - 1 -> Nat] /\ table[m - 1] = m
      OBVIOUS
    <2> HIDE DEF table
    <2>2. SuffixAt(x, m, m - 1, table[m - 1])
      BY <2>1 DEF SuffixAt
    <2>3. \A h \in m - 1 .. m - 1 : h = m - 1
      OBVIOUS
    <2>4. SuffixInv(x, m, [suff |-> table, f |-> 0, g |-> m - 1], m - 1)
      BY <2>1, <2>2, <2>3 DEF SuffixInv
    <2>5. m - 1 - 0 = m - 1
      OBVIOUS
    <2>6. QED BY <1>2, <2>4, <2>5 DEF SuffixStart, table
  <1>4. ASSUME NEW k \in P PROVE k + 1 \in P
    <2>1. SUFFICES ASSUME k + 1 =< m - 1 PROVE SuffixInv(x, m, loop[k + 1], m - 1 - (k + 1))
      OBVIOUS
    <2> DEFINE i == m - 1 - (k + 1)
    <2>2. k \in Nat /\ SuffixInv(x, m, loop[k], i + 1)
      <3>1. k \in Nat /\ SuffixInv(x, m, loop[k], m - 1 - k)
        BY <2>1
      <3>2. m - 1 - k = i + 1
        BY <3>1
      <3>3. QED BY <3>1, <3>2
    <2>3. i \in 0 .. m - 2 /\ k + 1 \in 1 .. m - 1 /\ k + 1 - 1 = k
      BY <2>1, <2>2
    <2>4. loop[k + 1] = SuffixStep(x, loop[k], i)
      BY <1>2, <2>3
    <2> HIDE DEF i, P
    <2>5. SuffixInv(x, m, SuffixStep(x, loop[k], i), i)
      BY <2>2, <2>3, SuffixStepRight
    <2>6. QED BY <2>4, <2>5 DEF i
  <1>5. \A n \in Nat : n \in P
    <2>1. P \in SUBSET Nat
      OBVIOUS
    <2> HIDE DEF P
    <2>2. QED BY <1>3, <1>4, <2>1, Induction
  <1>6. SuffixInv(x, m, loop[m - 1], 0)
    <2>1. m - 1 \in P /\ m - 1 - (m - 1) = 0
      BY <1>5
    <2>2. QED BY <2>1
  <1>7. QED BY <1>1, <1>6 DEF SuffixTable, SuffixInv, loop

-----------------------------------------------------------------------------
\* The pattern may occur e further on, if what is behind j matched and j did not.
Compatible(x, m, j, e) ==
  /\ \A q \in j + 1 .. m - 1 : q - e >= 0 => x[q - e] = x[q]
  /\ j - e >= 0 => x[j - e] # x[j]

\* If it may, the table of suffixes shows it at m - 1 - e.
LEMMA CompatibleShown ==
  ASSUME NEW m \in Nat \ {0}, NEW x, NEW j \in 0 .. m - 1, NEW e \in 1 .. m - 1, Compatible(x, m, j, e)
  PROVE  IF e =< j THEN SuffixAt(x, m, m - 1 - e, m - 1 - j) ELSE SuffixAt(x, m, m - 1 - e, m - e)
  <1> DEFINE h == m - 1 - e
             n == IF e =< j THEN m - 1 - j ELSE m - e
  <1>1. h \in Nat /\ n \in 0 .. h + 1
    OBVIOUS
  <1>2. ASSUME NEW p \in 0 .. n - 1 PROVE x[h - p] = x[m - 1 - p]
    <2> DEFINE q == m - 1 - p
    <2>1. q \in j + 1 .. m - 1 /\ q - e >= 0 /\ q - e = h - p
      OBVIOUS
    <2> HIDE DEF q
    <2>2. x[q - e] = x[q]
      BY <2>1 DEF Compatible
    <2>3. QED BY <2>1, <2>2 DEF q
  <1>3. n = h + 1 \/ x[h - n] # x[m - 1 - n]
    <2>1. CASE e =< j
      <3>1. h - n = j - e /\ m - 1 - n = j /\ j - e >= 0
        BY <2>1
      <3>2. QED BY <3>1 DEF Compatible
    <2>2. CASE ~(e =< j)
      BY <2>2
    <2>3. QED BY <2>1, <2>2
  <1>4. SuffixAt(x, m, h, n)
    BY <1>1, <1>2, <1>3 DEF SuffixAt
  <1>5. QED BY <1>4

\* preBmGs: no smaller shift is possible.
LEMMA GoodSuffixRight ==
  ASSUME NEW m \in Nat \ {0}, NEW x \in [0 .. m - 1 -> Alphabet], NEW j \in 0 .. m - 1
  PROVE  /\ GoodSuffix(x, j) \in 1 .. m
         /\ \A e \in 1 .. GoodSuffix(x, j) - 1 : ~Compatible(x, m, j, e)
  <1> DEFINE suff == SuffixTable(x)
             again == {i \in 0 .. m - 2 : m - 1 - suff[i] = j}
             prefix == {i \in 0 .. m - 1 : suff[i] = i + 1 /\ j < m - 1 - i}
             d == GoodSuffix(x, j)
  <1>1. d = IF again # {} THEN m - 1 - Max(again)
            ELSE IF prefix # {} THEN m - 1 - Max(prefix) ELSE m
    <2>1. Length(x) = m
      BY LengthOf
    <2>2. QED BY <2>1 DEF GoodSuffix
  <1>2. \A h \in 0 .. m - 1 : SuffixAt(x, m, h, suff[h])
    BY SuffixTableRight
  <1> HIDE DEF suff, d
  <1>3. again # {} => Max(again) \in again /\ \A h \in again : Max(again) >= h
    <2>1. again \in SUBSET Int /\ m \in Int /\ \A h \in again : h =< m
      OBVIOUS
    <2> HIDE DEF again
    <2>2. QED BY <2>1, GreatestElement
  <1>4. prefix # {} => Max(prefix) \in prefix /\ \A h \in prefix : Max(prefix) >= h
    <2>1. prefix \in SUBSET Int /\ m \in Int /\ \A h \in prefix : h =< m
      OBVIOUS
    <2> HIDE DEF prefix
    <2>2. QED BY <2>1, GreatestElement
  <1>5. /\ \A h \in again : h \in 0 .. m - 2 /\ m - 1 - suff[h] = j /\ suff[h] \in 0 .. h + 1
        /\ \A h \in prefix : h \in 0 .. m - 1 /\ suff[h] = h + 1 /\ j < m - 1 - h
    <2>1. \A h \in 0 .. m - 1 : suff[h] \in 0 .. h + 1
      BY <1>2 DEF SuffixAt
    <2>2. QED BY <2>1
  <1>6. ASSUME NEW h \in 0 .. m - 2, m - 1 - suff[h] = j PROVE h \in again
    BY <1>6
  <1>7. ASSUME NEW h \in 0 .. m - 1, suff[h] = h + 1, j < m - 1 - h PROVE h \in prefix
    BY <1>7
  <1> HIDE DEF again, prefix
  <1>8. d \in 1 .. m
    <2>1. CASE again # {}
      <3> DEFINE a == Max(again)
      <3>1. a \in 0 .. m - 2 /\ d = m - 1 - a
        BY <1>1, <1>3, <1>5, <2>1
      <3> HIDE DEF a
      <3>2. QED BY <3>1
    <2>2. CASE again = {} /\ prefix # {}
      <3> DEFINE a == Max(prefix)
      <3>1. a \in 0 .. m - 1 /\ j < m - 1 - a /\ d = m - 1 - a
        BY <1>1, <1>4, <1>5, <2>2
      <3> HIDE DEF a
      <3>2. QED BY <3>1
    <2>3. CASE again = {} /\ prefix = {}
      BY <1>1, <2>3
    <2>4. QED BY <2>1, <2>2, <2>3
  <1>9. ASSUME NEW e \in 1 .. d - 1, Compatible(x, m, j, e) PROVE FALSE
    <2> DEFINE h == m - 1 - e
    <2>1. e \in 1 .. m - 1 /\ h \in 0 .. m - 2 /\ h \in 0 .. m - 1 /\ h \in Nat
      BY <1>8
    <2>2. IF e =< j THEN SuffixAt(x, m, h, m - 1 - j) ELSE SuffixAt(x, m, h, m - e)
      BY <1>9, <2>1, CompatibleShown
    <2>3. SuffixAt(x, m, h, suff[h])
      BY <1>2, <2>1
    <2>4. CASE e =< j
      <3>1. suff[h] = m - 1 - j
        <4> DEFINE n == m - 1 - j
        <4>1. SuffixAt(x, m, h, n)
          BY <2>2, <2>4
        <4> HIDE DEF n, h
        <4>2. suff[h] = n
          BY <2>1, <2>3, <4>1, SuffixUnique
        <4>3. QED BY <4>2 DEF n
      <3>2. m - 1 - suff[h] = j
        BY <3>1
      <3>3. h \in again
        BY <1>6, <2>1, <3>2
      <3> DEFINE a == Max(again)
      <3>4. a >= h /\ d = m - 1 - a /\ a \in 0 .. m - 2
        BY <1>1, <1>3, <1>5, <3>3
      <3> HIDE DEF a
      <3>5. QED BY <2>1, <3>4
    <2>5. CASE ~(e =< j)
      <3>1. suff[h] = h + 1
        <4> DEFINE n == m - e
        <4>1. SuffixAt(x, m, h, n) /\ n = h + 1
          BY <2>1, <2>2, <2>5
        <4> HIDE DEF n, h
        <4>2. suff[h] = n
          BY <2>1, <2>3, <4>1, SuffixUnique
        <4>3. QED BY <4>1, <4>2
      <3>2. j < m - 1 - h
        BY <2>1, <2>5
      <3>3. h \in prefix
        BY <1>7, <2>1, <3>1, <3>2
      <3>4. CASE again # {}
        <4> DEFINE a == Max(again)
        <4>1. d = m - 1 - a /\ a \in 0 .. m - 2 /\ m - 1 - suff[a] = j /\ suff[a] \in 0 .. a + 1
          BY <1>1, <1>3, <1>5, <3>4
        <4> HIDE DEF a
        <4>2. d =< j + 1
          BY <4>1
        <4>3. QED BY <2>5, <4>1, <4>2
      <3>5. CASE again = {}
        <4> DEFINE a == Max(prefix)
        <4>1. a >= h /\ d = m - 1 - a /\ a \in 0 .. m - 1
          BY <1>1, <1>4, <1>5, <3>3, <3>5
        <4> HIDE DEF a
        <4>2. QED BY <2>1, <4>1
      <3>6. QED BY <3>4, <3>5
    <2>6. QED BY <2>4, <2>5
  <1>10. QED BY <1>8, <1>9 DEF d

\* preBmBc: no smaller shift brings c to the place i of the mismatch.
LEMMA BadCharacterRight ==
  ASSUME NEW m \in Nat \ {0}, NEW x \in [0 .. m - 1 -> Alphabet], NEW c, NEW i \in 0 .. m - 1
  PROVE  /\ BadCharacter(x, c) \in 1 .. m
         /\ \A e \in 1 .. BadCharacter(x, c) - m + i : e =< i /\ x[i - e] # c
  <1> DEFINE at == {h \in 0 .. m - 2 : x[h] = c}
             b == BadCharacter(x, c)
             a == Max(at)
  <1>1. b = IF at = {} THEN m ELSE m - 1 - a
    <2>1. Length(x) = m
      BY LengthOf
    <2>2. QED BY <2>1 DEF BadCharacter
  <1>2. at # {} => a \in at /\ \A h \in at : a >= h
    <2>1. at \in SUBSET Int /\ m \in Int /\ \A h \in at : h =< m
      OBVIOUS
    <2> HIDE DEF at
    <2>2. QED BY <2>1, GreatestElement
  <1> HIDE DEF a, b
  <1>3. b \in 1 .. m
    BY <1>1, <1>2
  <1>4. ASSUME NEW e \in 1 .. b - m + i PROVE e =< i /\ x[i - e] # c
    <2>1. e =< i /\ i - e \in 0 .. m - 2
      BY <1>3
    <2>2. ASSUME x[i - e] = c PROVE FALSE
      <3>1. i - e \in at
        BY <2>1, <2>2
      <3>2. b = m - 1 - a /\ a >= i - e /\ a \in 0 .. m - 2
        BY <1>1, <1>2, <3>1
      <3>3. QED BY <2>1, <3>2
    <2>3. QED BY <2>1, <2>2
  <1>5. QED BY <1>3, <1>4 DEF b

(***************************************************************************)
(* What holds while the pattern is searched: the two strings stay what     *)
(* they are, and nothing was jumped over.                                  *)
(***************************************************************************)
SearchInv ==
  /\ Length(pattern) \in Nat \ {0} /\ pattern \in [0 .. Length(pattern) - 1 -> Alphabet]
  /\ Length(text) \in Nat /\ text \in [0 .. Length(text) - 1 -> Alphabet]
  /\ shift \in Nat /\ found \in Int
  /\ FirstFound

LEMMA ComparedPlace ==
  ASSUME SearchInv
  PROVE  LET i == Compared(shift)
         IN  /\ i \in -1 .. Length(pattern) - 1
             /\ i >= 0 => pattern[i] # text[i + shift]
             /\ \A q \in i + 1 .. Length(pattern) - 1 : pattern[q] = text[q + shift]
  <1> DEFINE m == Length(pattern)
             T == {-1} \cup {q \in 0 .. m - 1 : pattern[q] # text[q + shift]}
             i == Compared(shift)
  <1>1. m \in Nat \ {0}
    BY DEF SearchInv
  <1>2. i = Max(T)
    BY DEF Compared
  <1> HIDE DEF m, i
  <1>3. T \in SUBSET Int /\ T # {} /\ m \in Int /\ \A h \in T : h =< m
    BY <1>1
  <1>4. i \in T /\ \A h \in T : i >= h
    <2> HIDE DEF T
    <2>1. QED BY <1>2, <1>3, GreatestElement
  <1>5. i \in -1 .. m - 1 /\ (i >= 0 => pattern[i] # text[i + shift])
    BY <1>1, <1>4
  <1>6. ASSUME NEW q \in i + 1 .. m - 1 PROVE pattern[q] = text[q + shift]
    <2>1. q \in 0 .. m - 1 /\ ~(i >= q)
      BY <1>1, <1>5
    <2>2. QED BY <1>4, <2>1
  <1>7. QED BY <1>5, <1>6 DEF m, i

\* An iteration that does not find the pattern moves on, and over no occurrence.
LEMMA AdvanceRight ==
  ASSUME SearchInv, Compared(shift) >= 0
  PROVE  LET d == Advance(Compared(shift), shift)
         IN  d \in Nat \ {0} /\ \A e \in 0 .. d - 1 : ~OccursAt(shift + e)
  <1> DEFINE m == Length(pattern)
             i == Compared(shift)
             c == text[i + shift]
             good == GoodSuffix(pattern, i)
             bad == BadCharacter(pattern, c)
             d == Advance(i, shift)
  <1>1. m \in Nat \ {0} /\ pattern \in [0 .. m - 1 -> Alphabet] /\ shift \in Nat
    BY DEF SearchInv
  <1>2. i \in 0 .. m - 1 /\ pattern[i] # c /\ \A q \in i + 1 .. m - 1 : pattern[q] = text[q + shift]
    <2>1. /\ i \in -1 .. m - 1 /\ (i >= 0 => pattern[i] # text[i + shift])
          /\ \A q \in i + 1 .. m - 1 : pattern[q] = text[q + shift]
      BY ComparedPlace
    <2> HIDE DEF m
    <2>2. i >= 0
      OBVIOUS
    <2> HIDE DEF i
    <2>3. QED BY <1>1, <2>1, <2>2
  <1>3. d = Max({good, bad - m + 1 + i})
    BY DEF Advance
  <1>4. DOMAIN pattern = 0 .. m - 1
    BY <1>1
  <1>5. ASSUME NEW e \in Nat, OccursAt(shift + e), NEW q \in 0 .. m - 1
        PROVE  text[shift + e + q] = pattern[q]
    BY <1>4, <1>5 DEF OccursAt
  <1> HIDE DEF m, i
  <1>6. good \in 1 .. m /\ \A e \in 1 .. good - 1 : ~Compatible(pattern, m, i, e)
    BY <1>1, <1>2, GoodSuffixRight
  <1> HIDE DEF c
  <1>7. bad \in 1 .. m /\ \A e \in 1 .. bad - m + i : e =< i /\ pattern[i - e] # c
    BY <1>1, <1>2, BadCharacterRight
  <1> HIDE DEF good, bad, d
  <1>8. d \in {good, bad - m + 1 + i} /\ d >= good
    <2> DEFINE T == {good, bad - m + 1 + i}
               N == IF good < bad - m + 1 + i THEN bad - m + 1 + i ELSE good
    <2>1. T \in SUBSET Int /\ T # {} /\ N \in Int /\ \A t \in T : t =< N
      BY <1>1, <1>2, <1>6, <1>7
    <2>2. good \in T /\ d = Max(T)
      BY <1>3
    <2> HIDE DEF T, N
    <2>3. d \in T /\ d >= good
      BY <2>1, <2>2, GreatestElement
    <2>4. QED BY <2>3 DEF T
  <1>9. d \in Nat \ {0}
    BY <1>1, <1>2, <1>6, <1>7, <1>8
  <1>10. ASSUME NEW e \in 0 .. d - 1, OccursAt(shift + e) PROVE FALSE
    <2>1. CASE e = 0
      <3>1. text[shift + e + i] = pattern[i] /\ shift + e + i = i + shift
        BY <1>1, <1>2, <1>5, <1>10, <2>1
      <3>2. QED BY <1>2, <3>1 DEF c
    <2>2. CASE e # 0 /\ d = good
      <3>0. e \in 1 .. good - 1 /\ e \in Nat
        BY <1>6, <2>2
      <3>1. ASSUME NEW q \in i .. m - 1, q - e >= 0 PROVE text[q + shift] = pattern[q - e]
        <4> DEFINE p == q - e
        <4>1. p \in 0 .. m - 1 /\ shift + e + p = q + shift
          BY <1>1, <1>2, <3>0, <3>1
        <4> HIDE DEF p
        <4>2. text[shift + e + p] = pattern[p]
          BY <1>5, <1>10, <3>0, <4>1
        <4>3. QED BY <4>1, <4>2 DEF p
      <3>2. ASSUME NEW q \in i + 1 .. m - 1, q - e >= 0 PROVE pattern[q - e] = pattern[q]
        <4>1. q \in i .. m - 1
          BY <1>1, <1>2
        <4>2. QED BY <1>2, <3>1, <3>2, <4>1
      <3>3. ASSUME i - e >= 0 PROVE pattern[i - e] # pattern[i]
        <4>1. i \in i .. m - 1
          BY <1>1, <1>2
        <4>2. text[i + shift] = pattern[i - e]
          BY <3>1, <3>3, <4>1
        <4>3. QED BY <1>2, <4>2 DEF c
      <3>4. Compatible(pattern, m, i, e)
        BY <3>2, <3>3 DEF Compatible
      <3>5. QED BY <1>6, <3>0, <3>4
    <2>3. CASE e # 0 /\ d = bad - m + 1 + i
      <3>1. e \in 1 .. bad - m + i /\ e \in Nat
        BY <1>1, <1>2, <1>7, <2>3
      <3>2. e =< i /\ pattern[i - e] # c
        BY <1>7, <3>1
      <3> DEFINE p == i - e
      <3>3. p \in 0 .. m - 1 /\ shift + e + p = i + shift
        BY <1>1, <1>2, <3>1, <3>2
      <3> HIDE DEF p
      <3>4. text[shift + e + p] = pattern[p]
        BY <1>5, <1>10, <3>1, <3>3
      <3>5. QED BY <3>2, <3>3, <3>4 DEF p, c
    <2>4. QED BY <1>8, <2>1, <2>2, <2>3
  <1>11. QED BY <1>9, <1>10 DEF d, i


LEMMA SearchStarts == BmInit => SearchInv
  <1>1. SUFFICES ASSUME BmInit PROVE SearchInv
    OBVIOUS
  <1>2. ASSUME NEW least \in Nat, NEW most \in Nat, NEW x \in Strings(least, most)
        PROVE  Length(x) \in least .. most /\ x \in [0 .. Length(x) - 1 -> Alphabet]
    <2>1. PICK n \in least .. most : x \in [0 .. n - 1 -> Alphabet]
      BY <1>2 DEF Strings
    <2>2. Length(x) = n
      BY <1>2, <2>1, LengthOf
    <2>3. QED BY <2>1, <2>2
  <1>3. Length(pattern) \in Nat \ {0} /\ pattern \in [0 .. Length(pattern) - 1 -> Alphabet]
    <2>1. Length(pattern) \in 1 .. MaxPattern /\ pattern \in [0 .. Length(pattern) - 1 -> Alphabet]
      BY <1>1, <1>2, BmConstants DEF BmInit
    <2>2. QED BY <2>1, BmConstants
  <1>4. Length(text) \in Nat /\ text \in [0 .. Length(text) - 1 -> Alphabet]
    <2>1. Length(text) \in 0 .. MaxText /\ text \in [0 .. Length(text) - 1 -> Alphabet]
      BY <1>1, <1>2, BmConstants DEF BmInit
    <2>2. QED BY <2>1, BmConstants
  <1>5. shift \in Nat /\ found \in Int /\ ~(found >= 0)
    BY <1>1 DEF BmInit
  <1>6. \A k \in 0 .. shift - 1 : ~OccursAt(k)
    BY <1>1 DEF BmInit
  <1>7. ASSUME found = -1, NEW k \in 0 .. Length(text) PROVE ~OccursAt(k)
    <2>1. Length(pattern) > Length(text)
      BY <1>1, <1>7 DEF BmInit
    <2>2. QED BY <1>3, <1>4, <2>1 DEF OccursAt
  <1>8. QED BY <1>3, <1>4, <1>5, <1>6, <1>7 DEF SearchInv, FirstFound

LEMMA SearchStep == SearchInv /\ [BmStep]_bmVars => SearchInv'
  <1>1. SUFFICES ASSUME SearchInv, [BmStep]_bmVars PROVE SearchInv'
    OBVIOUS
  <1> DEFINE m == Length(pattern)
             n == Length(text)
             i == Compared(shift)
             d == Advance(i, shift)
  <1>2. m \in Nat \ {0} /\ n \in Nat /\ shift \in Nat /\ found \in Int /\ FirstFound
    BY <1>1 DEF SearchInv
  <1>3. pattern' = pattern /\ text' = text
    BY <1>1 DEF BmStep, bmVars
  <1>4. \A k : OccursAt(k)' <=> OccursAt(k)
    BY <1>3 DEF OccursAt
  <1>5. SUFFICES shift' \in Nat /\ found' \in Int /\ FirstFound'
    BY <1>1, <1>3 DEF SearchInv, Length
  <1>6. n' = n
    BY <1>3 DEF Length
  <1>7. CASE UNCHANGED bmVars
    <2>1. shift' = shift /\ found' = found
      BY <1>7 DEF bmVars
    <2>2. QED BY <1>2, <1>4, <1>6, <2>1 DEF FirstFound
  <1>8. CASE BmStep
    <2>1. CASE shift > n - m
      <3>1. shift' = shift /\ found' = -1
        BY <1>8, <2>1 DEF BmStep
      <3>2. ASSUME NEW k \in 0 .. n PROVE ~OccursAt(k)
        <4>1. CASE k < shift
          BY <1>2, <4>1 DEF FirstFound
        <4>2. CASE ~(k < shift)
          <5>1. ~(k + m =< n)
            BY <1>2, <2>1, <4>2
          <5>2. QED BY <5>1 DEF OccursAt
        <4>3. QED BY <4>1, <4>2
      <3>3. \A k \in 0 .. shift - 1 : ~OccursAt(k)
        BY <1>2 DEF FirstFound
      <3>4. QED BY <1>2, <1>4, <1>6, <3>1, <3>2, <3>3 DEF FirstFound
    <2>2. CASE ~(shift > n - m) /\ i < 0
      <3>1. shift' = shift /\ found' = shift
        BY <1>8, <2>2 DEF BmStep
      <3>2. OccursAt(shift)
        <4>1. /\ i \in -1 .. m - 1
              /\ \A q \in i + 1 .. m - 1 : pattern[q] = text[q + shift]
          BY <1>1, ComparedPlace
        <4>2. DOMAIN pattern = 0 .. m - 1
          BY <1>1 DEF SearchInv
        <4>3. i + 1 = 0 /\ shift + m =< n
          BY <1>2, <2>2, <4>1
        <4> HIDE DEF i
        <4>4. ASSUME NEW q \in DOMAIN pattern PROVE text[shift + q] = pattern[q]
          <5>1. q \in 0 .. m - 1 /\ q \in i + 1 .. m - 1 /\ shift + q = q + shift
            BY <1>2, <4>2, <4>3, <4>4
          <5>2. QED BY <4>1, <5>1
        <4>5. QED BY <4>3, <4>4 DEF OccursAt
      <3>3. \A k \in 0 .. shift - 1 : ~OccursAt(k)
        BY <1>2 DEF FirstFound
      <3>4. shift # -1
        BY <1>2
      <3>5. QED BY <1>2, <1>4, <1>6, <3>1, <3>2, <3>3, <3>4 DEF FirstFound
    <2>3. CASE ~(shift > n - m) /\ ~(i < 0)
      <3>1. shift' = shift + d /\ found' = found /\ found = -2
        BY <1>8, <2>3 DEF BmStep
      <3>2. i >= 0
        <4>1. i \in -1 .. m - 1
          BY <1>1, ComparedPlace
        <4> HIDE DEF i
        <4>2. QED BY <1>2, <2>3, <4>1
      <3>3. d \in Nat \ {0} /\ \A e \in 0 .. d - 1 : ~OccursAt(shift + e)
        BY <1>1, <3>2, AdvanceRight
      <3> HIDE DEF d
      <3>4. ASSUME NEW k \in 0 .. shift' - 1 PROVE ~OccursAt(k)
        <4>1. CASE k < shift
          BY <1>2, <4>1 DEF FirstFound
        <4>2. CASE ~(k < shift)
          <5> DEFINE e == k - shift
          <5>1. e \in 0 .. d - 1 /\ shift + e = k
            BY <1>2, <3>1, <3>3, <4>2
          <5> HIDE DEF e
          <5>2. QED BY <3>3, <5>1
        <4>3. QED BY <4>1, <4>2
      <3>5. shift' \in Nat /\ found' \in Int /\ ~(found' >= 0) /\ found' # -1
        BY <1>2, <3>1, <3>3
      <3>6. \A k \in 0 .. shift' - 1 : ~OccursAt(k)'
        BY <1>4, <3>4
      <3>7. QED BY <3>5, <3>6 DEF FirstFound
    <2>4. QED BY <2>1, <2>2, <2>3
  <1>9. QED BY <1>1, <1>7, <1>8

(***************************************************************************)
(* For patterns and texts of every length over every alphabet: the search  *)
(* of str/bm.c returns the first occurrence, jumps over none and moves on  *)
(* in every iteration.                                                     *)
(***************************************************************************)
THEOREM SearchCorrect == BmSpec => []SearchRight
  <1>1. SearchInv => SearchRight
    <2>1. SUFFICES ASSUME SearchInv PROVE FirstFound /\ BmAdvances
      BY DEF SearchRight
    <2>2. ASSUME Compared(shift) >= 0 PROVE Advance(Compared(shift), shift) > 0
      <3> DEFINE d == Advance(Compared(shift), shift)
      <3>1. d \in Nat \ {0}
        BY <2>1, <2>2, AdvanceRight
      <3> HIDE DEF d
      <3>2. d > 0
        BY <3>1
      <3>3. QED BY <3>2 DEF d
    <2>3. QED BY <2>1, <2>2 DEF SearchInv, BmAdvances
  <1>2. QED BY <1>1, SearchStarts, SearchStep, PTL DEF BmSpec

-----------------------------------------------------------------------------
(***************************************************************************)
(* The checksums, for any number of values of a byte, messages of any      *)
(* length and any addresses.                                               *)
(*                                                                         *)
(* Same(a, s): a stands for the sum s in one's complement.  They are equal *)
(* modulo the greatest short, and a is 0 when the sum is.                  *)
(***************************************************************************)
Ones == Short - 1
Same(a, s) == a \in Nat /\ s \in Nat /\ (\E k \in Int : a = s + k * Ones) /\ (s = 0 => a = 0)

LEMMA Sizes == Byte \in Nat /\ Byte >= 2 /\ Short \in Nat /\ Short >= 4 /\ Short >= 2 * Byte /\ Word \in Nat
  <1>1. Byte \in Nat /\ Byte >= 2
    BY CsumConstants
  <1>2. Short \in Nat /\ Short >= 2 * Byte
    BY <1>1 DEF Short
  <1>3. Word \in Nat
    BY <1>2 DEF Word
  <1>4. QED BY <1>1, <1>2, <1>3

LEMMA OnesNat == Ones \in Nat /\ Ones >= 3 /\ Short = Ones + 1 /\ Word = (Ones + 1) * (Ones + 1)
  BY Sizes DEF Ones, Word

LEMMA WordBig == Word >= 4 * Short /\ Word - 1 = (Ones + 2) * Ones
  <1>1. \A x \in Nat : x >= 4 => x * x >= 4 * x
    OBVIOUS
  <1>2. Word >= 4 * Short
    BY <1>1, Sizes DEF Word
  <1>3. \A x \in Nat : (x + 1) * (x + 1) - 1 = (x + 2) * x
    OBVIOUS
  <1>4. QED BY <1>2, <1>3, OnesNat

LEMMA SameItself == ASSUME NEW a \in Nat PROVE Same(a, a)
  <1>1. a = a + 0 * Ones
    BY OnesNat
  <1>2. QED BY <1>1 DEF Same

LEMMA SameAdd ==
  ASSUME NEW a, NEW s, NEW b, NEW t, Same(a, s), Same(b, t)
  PROVE  Same(a + b, s + t)
  <1>1. PICK k \in Int : a = s + k * Ones
    BY DEF Same
  <1>2. PICK l \in Int : b = t + l * Ones
    BY DEF Same
  <1>3. (k + l) * Ones = k * Ones + l * Ones /\ k + l \in Int /\ k * Ones \in Int /\ l * Ones \in Int
    BY OnesNat
  <1>4. a \in Nat /\ s \in Nat /\ b \in Nat /\ t \in Nat /\ (s = 0 => a = 0) /\ (t = 0 => b = 0)
    BY DEF Same
  <1>5. a + b = (s + t) + (k + l) * Ones
    BY <1>1, <1>2, <1>3, <1>4
  <1>6. a + b \in Nat /\ s + t \in Nat /\ (s + t = 0 => a + b = 0)
    BY <1>4
  <1>7. QED BY <1>3, <1>5, <1>6 DEF Same

LEMMA SameTrans ==
  ASSUME NEW a, NEW b, NEW s, Same(a, b), Same(b, s)
  PROVE  Same(a, s)
  <1>1. PICK k \in Int : a = b + k * Ones
    BY DEF Same
  <1>2. PICK l \in Int : b = s + l * Ones
    BY DEF Same
  <1>3. (k + l) * Ones = k * Ones + l * Ones /\ k + l \in Int /\ k * Ones \in Int /\ l * Ones \in Int
    BY OnesNat
  <1>4. a \in Nat /\ s \in Nat /\ b \in Nat /\ (s = 0 => a = 0)
    BY DEF Same
  <1>5. a = s + (k + l) * Ones
    BY <1>1, <1>2, <1>3, <1>4
  <1>6. QED BY <1>3, <1>4, <1>5 DEF Same

LEMMA SameTimes ==
  ASSUME NEW a, NEW s, Same(a, s), NEW c \in Nat
  PROVE  Same(a * c, s * c)
  <1>1. PICK k \in Int : a = s + k * Ones
    BY DEF Same
  <1>2. a \in Nat /\ s \in Nat /\ (s = 0 => a = 0)
    BY DEF Same
  <1>3. a * c = s * c + (k * c) * Ones /\ k * c \in Int /\ a * c \in Nat /\ s * c \in Nat
    BY <1>1, <1>2, OnesNat
  <1>4. s * c = 0 => a * c = 0
    <2>1. \A x, y \in Nat : x * y = 0 => x = 0 \/ y = 0
      OBVIOUS
    <2>2. s * c = 0 => s = 0 \/ c = 0
      BY <1>2, <2>1
    <2>3. 0 * c = 0 /\ a * 0 = 0
      BY <1>2
    <2>4. QED BY <1>2, <2>2, <2>3
  <1>5. QED BY <1>3, <1>4 DEF Same

\* Multiples of the greatest short may be left out, if something is left.
LEMMA SameLess ==
  ASSUME NEW q \in Nat, NEW r \in Nat
  PROVE  Same(r + q, r + q * Short) /\ Same(r + q, r + q * Word)
  <1>1. \A j \in Nat : (q * j) * Ones \in Nat /\ q * j \in Nat /\ q * j * Ones = q * (j * Ones)
    BY OnesNat
  <1>2. q * Short = q + q * Ones /\ q * Ones \in Nat /\ -(q * Ones) = (-q) * Ones
    BY OnesNat
  <1>3. r + q = (r + q * Short) + (-q) * Ones
    BY <1>2
  <1>4. r + q * Short = 0 => r + q = 0
    BY <1>2
  <1>5. Same(r + q, r + q * Short)
    BY <1>2, <1>3, <1>4 DEF Same
  <1> DEFINE j == q * (Ones + 2)
  <1>6. j \in Nat /\ j * Ones \in Nat /\ (-j) * Ones = -(j * Ones)
    BY OnesNat
  <1>7. q * Word = q + j * Ones
    <2>1. Word = 1 + (Ones + 2) * Ones /\ (Ones + 2) * Ones \in Nat
      BY WordBig, OnesNat, Sizes
    <2>2. \A x \in Nat : q * (1 + (x + 2) * x) = q + (q * (x + 2)) * x
      OBVIOUS
    <2>3. QED BY <2>1, <2>2, OnesNat
  <1> HIDE DEF j
  <1>8. r + q = (r + q * Word) + (-j) * Ones
    BY <1>6, <1>7
  <1>9. (r + q * Word = 0 => r + q = 0) /\ r + q * Word \in Nat
    BY <1>6, <1>7
  <1>10. Same(r + q, r + q * Word)
    BY <1>6, <1>8, <1>9 DEF Same
  <1>11. QED BY <1>5, <1>10

LEMMA SameMore ==
  ASSUME NEW q \in Nat, NEW r \in Nat
  PROVE  Same(r + q * Short, r + q)
  <1>1. q * Short = q + q * Ones /\ q * Ones \in Nat
    BY OnesNat
  <1>2. r + q * Short = (r + q) + q * Ones /\ r + q \in Nat /\ r + q * Short \in Nat
    BY <1>1
  <1>3. r + q = 0 => r + q * Short = 0
    <2>1. ASSUME r + q = 0 PROVE r = 0 /\ q = 0
      BY <2>1
    <2>2. 0 + 0 * Short = 0
      BY Sizes
    <2>3. QED BY <2>1, <2>2
  <1>4. q \in Int
    OBVIOUS
  <1>5. QED BY <1>2, <1>3, <1>4 DEF Same

LEMMA DivMod ==
  ASSUME NEW x \in Nat, NEW d \in Nat \ {0}
  PROVE  x \div d \in Nat /\ x % d \in 0 .. d - 1 /\ x = (x % d) + (x \div d) * d
  OBVIOUS

LEMMA FoldSame ==
  ASSUME NEW x \in Nat
  PROVE  /\ Same(FoldOnce(x), x) /\ FoldOnce(x) \in Nat
         /\ x < Word => FoldOnce(x) =< 2 * Short - 2
         /\ x =< 2 * Short - 2 => FoldOnce(x) =< Short - 1
  <1> DEFINE r == x % Short
             q == x \div Short
  <1>1. q \in Nat /\ r \in 0 .. Short - 1 /\ x = r + q * Short
    BY DivMod, Sizes
  <1>2. FoldOnce(x) = r + q
    BY DEF FoldOnce
  <1> HIDE DEF r, q
  <1>3. Same(r + q, r + q * Short)
    BY <1>1, SameLess
  <1>4. ASSUME x < Word PROVE q =< Short - 1
    <2>1. SUFFICES ASSUME q >= Short PROVE FALSE
      BY <1>1, Sizes
    <2>2. \A a, b \in Nat : a >= b => a * b >= b * b
      OBVIOUS
    <2>3. q * Short >= Short * Short
      BY <1>1, <2>1, <2>2, Sizes
    <2>4. q * Short \in Nat
      BY <1>1, Sizes
    <2>5. QED BY <1>1, <1>4, <2>3, <2>4, Sizes DEF Word
  <1>5. ASSUME x =< 2 * Short - 2 PROVE r + q =< Short - 1
    <2>1. CASE q = 0
      BY <1>1, <2>1, Sizes
    <2>2. CASE q = 1
      BY <1>1, <1>5, <2>2, Sizes
    <2>3. CASE q >= 2
      <3>1. \A a, b \in Nat : a >= 2 => a * b >= 2 * b
        OBVIOUS
      <3>2. q * Short >= 2 * Short /\ q * Short \in Nat
        BY <1>1, <2>3, <3>1, Sizes
      <3>3. QED BY <1>1, <1>5, <3>2, Sizes
    <2>4. QED BY <1>1, <2>1, <2>2, <2>3
  <1>6. QED BY <1>1, <1>2, <1>3, <1>4, <1>5, Sizes

\* from32to16: two foldings are enough.
LEMMA From32To16Same ==
  ASSUME NEW x \in Nat, x < Word
  PROVE  Same(From32To16(x), x) /\ From32To16(x) \in 0 .. Short - 1
  <1> DEFINE y == FoldOnce(x)
  <1>1. Same(y, x) /\ y \in Nat /\ y =< 2 * Short - 2
    BY FoldSame
  <1> HIDE DEF y
  <1>2. Same(FoldOnce(y), y) /\ FoldOnce(y) \in Nat /\ FoldOnce(y) =< Short - 1
    BY <1>1, FoldSame
  <1>3. Same(FoldOnce(y), x)
    BY <1>1, <1>2, SameTrans
  <1>4. FoldOnce(y) \in 0 .. Short - 1
    BY <1>2, Sizes
  <1>5. QED BY <1>3, <1>4 DEF From32To16, y

-----------------------------------------------------------------------------
\* What a byte, a short and a word in memory are.
Bytes == 0 .. Byte - 1

LEMMA Load16Range ==
  ASSUME NEW b, NEW i \in Nat, b[i] \in Bytes, b[i + 1] \in Bytes, NEW big \in BOOLEAN
  PROVE  Load16(b, i, big) \in 0 .. Short - 1
  <1>1. \A x, y \in Bytes : x * Byte + y \in 0 .. Short - 1
    <2>1. SUFFICES ASSUME NEW x \in Bytes, NEW y \in Bytes PROVE x * Byte + y \in 0 .. Byte * Byte - 1
      BY DEF Short
    <2>2. x * Byte \in Nat /\ x * Byte =< (Byte - 1) * Byte /\ (Byte - 1) * Byte = Byte * Byte - Byte
      BY Sizes DEF Bytes
    <2>3. Byte * Byte \in Nat /\ y \in Nat /\ y =< Byte - 1
      BY Sizes DEF Bytes
    <2>4. QED BY <2>2, <2>3, Sizes
  <1>2. b[i] + b[i + 1] * Byte = b[i + 1] * Byte + b[i]
    BY Sizes DEF Bytes
  <1>3. QED BY <1>1, <1>2 DEF Load16

LEMMA Load32Same ==
  ASSUME NEW b, NEW i \in Nat, \A j \in 0 .. 3 : b[i + j] \in Bytes, NEW big \in BOOLEAN
  PROVE  /\ Load32(b, i, big) \in 0 .. Word - 1
         /\ Same(Load32(b, i, big), Load16(b, i, big) + Load16(b, i + 2, big))
  <1> DEFINE x == Load16(b, i, big)
             y == Load16(b, i + 2, big)
  <1>1. x \in 0 .. Short - 1
    <2>1. b[i] \in Bytes /\ b[i + 1] \in Bytes
      <3>1. 0 \in 0 .. 3 /\ 1 \in 0 .. 3 /\ i + 0 = i
        OBVIOUS
      <3>2. QED BY <3>1
    <2>2. QED BY <2>1, Load16Range
  <1>2. y \in 0 .. Short - 1
    <2>1. b[i + 2] \in Bytes /\ b[i + 2 + 1] \in Bytes /\ i + 2 \in Nat
      <3>1. 2 \in 0 .. 3 /\ 3 \in 0 .. 3 /\ i + 2 + 1 = i + 3
        OBVIOUS
      <3>2. QED BY <3>1
    <2>2. QED BY <2>1, Load16Range
  <1>3. Load32(b, i, big) = IF big THEN x * Short + y ELSE x + y * Short
    BY DEF Load32
  <1> HIDE DEF x, y
  <1>4. ASSUME NEW q \in 0 .. Short - 1, NEW r \in 0 .. Short - 1
        PROVE  r + q * Short \in 0 .. Word - 1 /\ Same(r + q * Short, r + q)
    <2>1. q * Short \in Nat /\ q * Short =< (Short - 1) * Short /\ (Short - 1) * Short = Short * Short - Short
      BY Sizes
    <2>2. r + q * Short \in 0 .. Word - 1
      BY <2>1, Sizes DEF Word
    <2>3. q \in Nat /\ r \in Nat
      BY Sizes
    <2>4. QED BY <2>2, <2>3, SameMore
  <1>5. x * Short + y = y + x * Short /\ y + x = x + y
    BY <1>1, <1>2, Sizes
  <1>6. Load32(b, i, big) \in 0 .. Word - 1 /\ Same(Load32(b, i, big), x + y)
    <2>1. CASE big
      <3>1. y + x * Short \in 0 .. Word - 1 /\ Same(y + x * Short, y + x)
        BY <1>1, <1>2, <1>4
      <3>2. QED BY <1>3, <1>5, <2>1, <3>1
    <2>2. CASE ~big
      <3>1. x + y * Short \in 0 .. Word - 1 /\ Same(x + y * Short, x + y)
        BY <1>1, <1>2, <1>4
      <3>2. QED BY <1>3, <2>2, <3>1
    <2>3. QED BY <2>1, <2>2
  <1>7. QED BY <1>6 DEF x, y

\* An addition that wraps around is made good by adding the carry.
LEMMA WrapSame ==
  ASSUME NEW s \in 0 .. Word - 1, NEW w \in 0 .. Word - 1
  PROVE  LET r == (s + w) % Word
         IN  /\ r \in 0 .. Word - 1
             /\ IF s + w < Word THEN r = s + w /\ r >= w ELSE r = s + w - Word /\ r < w /\ r =< Word - 2
             /\ Same(IF r < w THEN r + 1 ELSE r, s + w)
  <1> DEFINE r == (s + w) % Word
  <1>1. s + w \in Nat /\ Word \in Nat \ {0} /\ s + w < 2 * Word
    BY Sizes, WordBig
  <1> DEFINE q == (s + w) \div Word
  <1>2. q \in Nat /\ r \in 0 .. Word - 1 /\ s + w = r + q * Word
    BY <1>1, DivMod
  <1> HIDE DEF r, q
  <1>3. IF s + w < Word THEN r = s + w /\ r >= w ELSE r = s + w - Word /\ r < w /\ r =< Word - 2
    <2>1. CASE q = 0
      BY <1>1, <1>2, <2>1
    <2>2. CASE q = 1
      BY <1>1, <1>2, <2>2
    <2>3. CASE q >= 2
      <3>1. \A a, b \in Nat : a >= 2 => a * b >= 2 * b
        OBVIOUS
      <3>2. q * Word >= 2 * Word /\ q * Word \in Nat
        BY <1>1, <1>2, <2>3, <3>1
      <3>3. QED BY <1>1, <1>2, <3>2
    <2>4. QED BY <1>2, <2>1, <2>2, <2>3
  <1>4. r \in 0 .. Word - 1
    BY <1>2
  <1>5. Same(IF r < w THEN r + 1 ELSE r, s + w)
    <2>1. CASE s + w < Word
      <3>1. r = s + w /\ ~(r < w)
        BY <1>1, <1>3, <1>4, <2>1
      <3>2. QED BY <1>1, <3>1, SameItself
    <2>2. CASE ~(s + w < Word)
      <3>1. Same(r + 1, r + 1 * Word)
        BY <1>4, SameLess
      <3>2. r + 1 * Word = s + w /\ r < w
        BY <1>1, <1>3, <1>4, <2>2
      <3>3. QED BY <3>1, <3>2
    <2>3. QED BY <2>1, <2>2
  <1>6. QED BY <1>3, <1>4, <1>5 DEF r

\* do_csum: the carry goes into the next addition, which it cannot make wrap around twice.
LEMMA AddWordSame ==
  ASSUME NEW acc \in [sum : 0 .. Word - 1, carry : 0 .. 1], acc.sum + acc.carry < Word,
         NEW w \in 0 .. Word - 1
  PROVE  LET new == AddWord(acc, w)
         IN  /\ new \in [sum : 0 .. Word - 1, carry : 0 .. 1] /\ new.sum + new.carry < Word
             /\ Same(new.sum + new.carry, (acc.sum + acc.carry) + w)
  <1> DEFINE s == acc.sum + acc.carry
             r == (s + w) % Word
             c == IF w > r THEN 1 ELSE 0
  <1>1. s \in 0 .. Word - 1
    BY Sizes
  <1>2. AddWord(acc, w) = [sum |-> r, carry |-> c]
    BY DEF AddWord
  <1> HIDE DEF s
  <1>3. /\ r \in 0 .. Word - 1
        /\ IF s + w < Word THEN r = s + w /\ r >= w ELSE r = s + w - Word /\ r < w /\ r =< Word - 2
        /\ Same(IF r < w THEN r + 1 ELSE r, s + w)
    BY <1>1, WrapSame
  <1> HIDE DEF r
  <1>4. r + c = IF r < w THEN r + 1 ELSE r
    BY <1>3, Sizes
  <1>5. r + c < Word /\ c \in 0 .. 1
    BY <1>1, <1>3, <1>4, Sizes
  <1> HIDE DEF c
  <1>6. Same(r + c, s + w)
    BY <1>3, <1>4
  <1>7. QED BY <1>2, <1>3, <1>5, <1>6 DEF s

LEMMA AddCarrySame ==
  ASSUME NEW s \in 0 .. Word - 1, NEW w \in 0 .. Word - 1
  PROVE  AddCarry(s, w) \in 0 .. Word - 1 /\ Same(AddCarry(s, w), s + w)
  <1> DEFINE r == (s + w) % Word
  <1>1. /\ r \in 0 .. Word - 1
        /\ IF s + w < Word THEN r = s + w /\ r >= w ELSE r = s + w - Word /\ r < w /\ r =< Word - 2
        /\ Same(IF r < w THEN r + 1 ELSE r, s + w)
    BY WrapSame
  <1>2. AddCarry(s, w) = IF r < w THEN r + 1 ELSE r
    BY DEF AddCarry
  <1> HIDE DEF r
  <1>3. QED BY <1>1, <1>2, Sizes

-----------------------------------------------------------------------------
\* A recursion over 0 .. n has a solution.
Solves(f, n, c, G) == f[0] = c /\ \A k \in 1 .. n : f[k] = G[k][f[k - 1]]

LEMMA Recursion ==
  ASSUME NEW n \in Nat, NEW S, NEW c \in S, NEW G \in [1 .. n -> [S -> S]]
  PROVE  \E f \in [0 .. n -> S] : Solves(f, n, c, G)
  <1> USE DEF Solves
  <1> DEFINE P == {m \in Nat : m =< n => \E f \in [0 .. m -> S] : Solves(f, m, c, G)}
  <1>1. 0 \in P
    <2> DEFINE f == [k \in 0 .. 0 |-> c]
    <2>1. f \in [0 .. 0 -> S] /\ Solves(f, 0, c, G)
      OBVIOUS
    <2>2. QED BY <2>1
  <1>2. ASSUME NEW m \in P PROVE m + 1 \in P
    <2>0. m \in Nat /\ m + 1 \in Nat
      OBVIOUS
    <2>1. SUFFICES ASSUME m + 1 =< n PROVE \E f \in [0 .. m + 1 -> S] : Solves(f, m + 1, c, G)
      BY <2>0
    <2>2. m \in Nat /\ m =< n
      BY <2>0, <2>1
    <2>3. PICK f \in [0 .. m -> S] : Solves(f, m, c, G)
      BY <2>2
    <2> DEFINE last == G[m + 1][f[m]]
               h == [k \in 0 .. m + 1 |-> IF k = m + 1 THEN last ELSE f[k]]
    <2>4. last \in S
      <3>1. m + 1 \in 1 .. n /\ f[m] \in S
        BY <2>1, <2>2
      <3>2. QED BY <3>1
    <2> HIDE DEF last
    <2>5. h \in [0 .. m + 1 -> S]
      BY <2>2, <2>4
    <2>6. h[m + 1] = last /\ \A k \in 0 .. m : h[k] = f[k]
      BY <2>2
    <2> HIDE DEF h
    <2>7. ASSUME NEW k \in 1 .. m + 1 PROVE h[k] = G[k][h[k - 1]]
      <3>1. CASE k = m + 1
        <4>1. k - 1 = m /\ m \in 0 .. m
          BY <2>2, <3>1
        <4>2. QED BY <2>6, <3>1, <4>1 DEF last
      <3>2. CASE k # m + 1
        <4>1. k \in 1 .. m /\ k \in 0 .. m /\ k - 1 \in 0 .. m
          BY <2>2, <3>2
        <4>2. QED BY <2>3, <2>6, <4>1
      <3>3. QED BY <3>1, <3>2
    <2>8. h[0] = c
      BY <2>2, <2>3, <2>6
    <2>9. QED BY <2>5, <2>7, <2>8
  <1>3. \A m \in Nat : m \in P
    <2>1. P \in SUBSET Nat
      OBVIOUS
    <2> HIDE DEF P
    <2>2. QED BY <1>1, <1>2, <2>1, Induction
  <1>4. n \in P
    BY <1>3
  <1>5. QED BY <1>4

\* Memory, with zeros behind the message.
LEMMA PaddedBytes ==
  ASSUME NEW b \in Seq(Bytes)
  PROVE  /\ \A i \in 1 .. 2 * Len(b) + 1 : Padded(b)[i] \in Bytes
         /\ \A i \in 1 .. Len(b) : Padded(b)[i] = b[i] /\ b[i] \in Bytes
         /\ \A i \in Len(b) + 1 .. 2 * Len(b) + 1 : Padded(b)[i] = 0
  <1> DEFINE n == Len(b)
  <1>1. n \in Nat /\ \A i \in 1 .. n : b[i] \in Bytes
    OBVIOUS
  <1>2. 0 \in Bytes
    BY Sizes DEF Bytes
  <1>3. Padded(b) = [i \in 1 .. 2 * n + 1 |-> IF i =< n THEN b[i] ELSE 0]
    BY DEF Padded
  <1> HIDE DEF n
  <1>4. \A i \in 1 .. 2 * n + 1 : Padded(b)[i] = IF i =< n THEN b[i] ELSE 0
    BY <1>3
  <1>5. ASSUME NEW i \in 1 .. n PROVE Padded(b)[i] = b[i] /\ b[i] \in Bytes
    BY <1>1, <1>4
  <1>6. ASSUME NEW i \in n + 1 .. 2 * n + 1 PROVE Padded(b)[i] = 0
    BY <1>1, <1>4
  <1>7. \A i \in 1 .. 2 * n + 1 : i \in 1 .. n \/ i \in n + 1 .. 2 * n + 1
    BY <1>1
  <1>8. QED BY <1>2, <1>5, <1>6, <1>7 DEF n

LEMMA PaddedLoad ==
  ASSUME NEW b \in Seq(Bytes), NEW i \in 1 .. 2 * Len(b), NEW big \in BOOLEAN
  PROVE  /\ Load16(Padded(b), i, big) \in 0 .. Short - 1
         /\ i < Len(b) => Load16(Padded(b), i, big) = Load16(b, i, big)
  <1>1. i \in 1 .. 2 * Len(b) + 1 /\ i + 1 \in 1 .. 2 * Len(b) + 1 /\ i \in Nat /\ Len(b) \in Nat
    OBVIOUS
  <1>2. Padded(b)[i] \in Bytes /\ Padded(b)[i + 1] \in Bytes
    BY <1>1, PaddedBytes
  <1>3. i < Len(b) => Padded(b)[i] = b[i] /\ Padded(b)[i + 1] = b[i + 1]
    BY <1>1, PaddedBytes
  <1>4. QED BY <1>1, <1>2, <1>3, Load16Range DEF Load16

\* The sums are those of the words.
LEMMA PartialSumsAre ==
  ASSUME NEW b \in Seq(Bytes), NEW at \in 0 .. 1, NEW big \in BOOLEAN
  PROVE  LET sums == PartialSums(b, at, big)
         IN  /\ sums \in [0 .. Len(b) -> Nat] /\ sums[0] = 0
             /\ \A k \in 1 .. Len(b) :
                  /\ sums[k] = sums[k - 1] + Load16(Padded(b), at + 2 * k - 1, big)
                  /\ Load16(Padded(b), at + 2 * k - 1, big) \in 0 .. Short - 1
  <1> DEFINE n == Len(b)
             word(k) == Load16(Padded(b), at + 2 * k - 1, big)
             G == [k \in 1 .. n |-> [s \in Nat |-> s + word(k)]]
  <1>1. n \in Nat
    OBVIOUS
  <1>2. ASSUME NEW k \in 1 .. n PROVE word(k) \in 0 .. Short - 1 /\ word(k) \in Nat
    <2>1. at + 2 * k - 1 \in 1 .. 2 * n
      BY <1>1
    <2>2. QED BY <2>1, PaddedLoad, Sizes
  <1> HIDE DEF n, word
  <1>3. G \in [1 .. n -> [Nat -> Nat]] /\ \A k \in 1 .. n, s \in Nat : G[k][s] = s + word(k)
    BY <1>2
  <1> HIDE DEF G
  <1>4. PICK f \in [0 .. n -> Nat] : f[0] = 0 /\ \A k \in 1 .. n : f[k] = G[k][f[k - 1]]
    <2>1. 0 \in Nat /\ G \in [1 .. n -> [Nat -> Nat]]
      BY <1>3
    <2>2. \E f \in [0 .. n -> Nat] : Solves(f, n, 0, G)
      BY <1>1, <2>1, Recursion
    <2>3. QED BY <2>2 DEF Solves
  <1>5. \A k \in 1 .. n : f[k] = f[k - 1] + word(k)
    <2>1. \A k \in 1 .. n : f[k - 1] \in Nat
      BY <1>1, <1>4
    <2>2. QED BY <1>3, <1>4, <2>1
  <1> DEFINE Sums(g) == [k \in 0 .. n |-> IF k = 0 THEN 0 ELSE g[k - 1] + word(k)]
  <1>6. f = Sums(f)
    <2>1. \A k \in 0 .. n : f[k] = Sums(f)[k]
      <3>1. \A k \in 0 .. n : k = 0 \/ k \in 1 .. n
        BY <1>1
      <3>2. QED BY <1>4, <1>5, <3>1
    <2>2. QED BY <1>4, <2>1
  <1> DEFINE sums == PartialSums(b, at, big)
  <1>7. sums = CHOOSE g : g = Sums(g)
    BY DEF PartialSums, word, n
  <1>8. sums = Sums(sums)
    <2> HIDE DEF sums
    <2>1. \E g : g = Sums(g)
      BY <1>6
    <2>2. QED BY <1>7, <2>1
  <1> HIDE DEF sums
  <1>9. sums[0] = 0 /\ \A k \in 1 .. n : sums[k] = sums[k - 1] + word(k)
    <2>1. 0 \in 0 .. n /\ \A k \in 1 .. n : k \in 0 .. n /\ k # 0
      BY <1>1
    <2>2. \A k \in 0 .. n : sums[k] = IF k = 0 THEN 0 ELSE sums[k - 1] + word(k)
      BY <1>8
    <2>3. QED BY <2>1, <2>2
  <1>10. sums \in [0 .. n -> Nat]
    <2> DEFINE P == {k \in Nat : k =< n => sums[k] \in Nat}
    <2>1. 0 \in P
      BY <1>9
    <2>2. ASSUME NEW k \in P PROVE k + 1 \in P
      <3>1. SUFFICES ASSUME k + 1 =< n PROVE sums[k + 1] \in Nat
        OBVIOUS
      <3>2. k + 1 \in 1 .. n /\ sums[k] \in Nat /\ k + 1 - 1 = k
        BY <1>1, <3>1
      <3>3. QED BY <1>2, <1>9, <3>2
    <2>3. \A k \in Nat : k \in P
      <3>1. P \in SUBSET Nat
        OBVIOUS
      <3> HIDE DEF P
      <3>2. QED BY <2>1, <2>2, <3>1, Induction
    <2>4. \A k \in 0 .. n : sums[k] \in Nat
      BY <1>1, <2>3
    <2>5. QED BY <1>8, <2>4
  <1>11. QED BY <1>2, <1>9, <1>10 DEF sums, word, n

-----------------------------------------------------------------------------
\* A word of the message is two of the shorts that are summed up.
LEMMA WordOfMessage ==
  ASSUME NEW b \in Seq(Bytes), NEW at \in 0 .. 1, NEW big \in BOOLEAN,
         NEW j \in Nat, at + 2 * j + 4 =< Len(b)
  PROVE  LET sums == PartialSums(b, at, big)
             w == Load32(b, at + 2 * j + 1, big)
         IN  /\ w \in 0 .. Word - 1 /\ sums[j] \in Nat /\ sums[j + 2] \in Nat
             /\ \A a, s \in Nat : Same(a, s + sums[j]) => Same(a + w, s + sums[j + 2])
  <1> DEFINE sums == PartialSums(b, at, big)
             i == at + 2 * j + 1
             w == Load32(b, i, big)
             x == Load16(b, i, big)
             y == Load16(b, i + 2, big)
             n == Len(b)
  <1>1. /\ n \in Nat /\ i \in Nat /\ i + 2 \in Nat
        /\ i \in 1 .. 2 * n /\ i < n /\ i + 2 \in 1 .. 2 * n /\ i + 2 < n
    OBVIOUS
  <1>2. /\ j \in 0 .. n /\ j + 1 \in 1 .. n /\ j + 2 \in 1 .. n
        /\ at + 2 * (j + 1) - 1 = i /\ at + 2 * (j + 2) - 1 = i + 2 /\ (j + 1) - 1 = j /\ (j + 2) - 1 = j + 1
    OBVIOUS
  <1>3. x \in Nat /\ y \in Nat /\ Load16(Padded(b), i, big) = x /\ Load16(Padded(b), i + 2, big) = y
    <2> HIDE DEF i
    <2>1. Load16(Padded(b), i, big) \in 0 .. Short - 1 /\ Load16(Padded(b), i, big) = x
      BY <1>1, PaddedLoad
    <2> DEFINE l == i + 2
    <2>2. l \in 1 .. 2 * Len(b) /\ l < Len(b)
      BY <1>1
    <2> HIDE DEF l
    <2>3. Load16(Padded(b), l, big) \in 0 .. Short - 1 /\ Load16(Padded(b), l, big) = Load16(b, l, big)
      BY <2>2, PaddedLoad
    <2>4. QED BY <2>1, <2>3, Sizes DEF l
  <1>4. w \in 0 .. Word - 1 /\ Same(w, x + y)
    <2>1. \A l \in 0 .. 3 : i + l \in 1 .. n
      BY <1>1
    <2> HIDE DEF i
    <2>2. \A l \in 0 .. 3 : b[i + l] \in Bytes
      BY <2>1
    <2>3. QED BY <1>1, <2>2, Load32Same
  <1>5. /\ sums[j] \in Nat
        /\ sums[j + 1] = sums[j] + x /\ sums[j + 2] = sums[j + 1] + y
    <2>1. /\ sums \in [0 .. n -> Nat]
          /\ \A k \in 1 .. n : sums[k] = sums[k - 1] + Load16(Padded(b), at + 2 * k - 1, big)
      BY PartialSumsAre
    <2> HIDE DEF sums, n, i, x, y
    <2>2. sums[j + 1] = sums[j] + x
      BY <1>2, <1>3, <2>1
    <2>3. sums[j + 2] = sums[j + 1] + y
      BY <1>2, <1>3, <2>1
    <2>4. QED BY <1>2, <2>1, <2>2, <2>3
  <1> HIDE DEF sums, w, x, y, i, n
  <1>6. ASSUME NEW a \in Nat, NEW s \in Nat, Same(a, s + sums[j]) PROVE Same(a + w, s + sums[j + 2])
    <2>1. Same(a + w, (s + sums[j]) + (x + y))
      BY <1>4, <1>6, SameAdd
    <2>2. (s + sums[j]) + (x + y) = s + sums[j + 2]
      BY <1>3, <1>5
    <2>3. QED BY <2>1, <2>2
  <1>7. sums[j + 2] \in Nat
    BY <1>3, <1>5
  <1>8. QED BY <1>4, <1>5, <1>6, <1>7 DEF sums, w, i

\* The loop over the words.
LEMMA AddWordsSame ==
  ASSUME NEW b \in Seq(Bytes), NEW odd \in 0 .. 1, NEW big \in BOOLEAN, NEW h \in 0 .. 1,
         NEW n \in Nat, odd + 2 * h + 4 * n =< Len(b),
         NEW start \in Nat, start =< 2 * Short - 2, NEW first \in Nat,
         Same(start, first + PartialSums(b, odd, big)[h])
  PROVE  LET sum == AddWords(start, b, odd + 2 * h, n, big)
         IN  sum \in Nat /\ sum =< 2 * Short - 2 /\ Same(sum, first + PartialSums(b, odd, big)[h + 2 * n])
  <1> DEFINE sums == PartialSums(b, odd, big)
             at == odd + 2 * h
             word(k) == Load32(b, at + 4 * k - 3, big)
             S == {a \in [sum : 0 .. Word - 1, carry : 0 .. 1] : a.sum + a.carry < Word}
             c == [sum |-> start, carry |-> 0]
             Loop(f) == [k \in 0 .. n |-> IF k = 0 THEN c ELSE AddWord(f[k - 1], word(k))]
             acc == CHOOSE f : f = Loop(f)
             total(k) == acc[k].sum + acc[k].carry
             result == AddWords(start, b, at, n, big)
  <1>1. /\ c \in S /\ c.sum + c.carry = start
        /\ start < Word
    <2>1. start < Word /\ start \in 0 .. Word - 1
      BY Sizes, WordBig
    <2>2. QED BY <2>1
  <1>2. ASSUME NEW k \in 0 .. n - 1
        PROVE  /\ word(k + 1) \in 0 .. Word - 1 /\ sums[h + 2 * k] \in Nat /\ sums[h + 2 * (k + 1)] \in Nat
               /\ \A a, s \in Nat : Same(a, s + sums[h + 2 * k]) => Same(a + word(k + 1), s + sums[h + 2 * (k + 1)])
    <2> DEFINE j == h + 2 * k
    <2>1. j \in Nat /\ odd + 2 * j + 4 =< Len(b)
      OBVIOUS
    <2>2. odd + 2 * j + 1 = at + 4 * (k + 1) - 3 /\ j + 2 = h + 2 * (k + 1)
      OBVIOUS
    <2> HIDE DEF j
    <2>3. /\ Load32(b, odd + 2 * j + 1, big) \in 0 .. Word - 1 /\ sums[j] \in Nat /\ sums[j + 2] \in Nat
          /\ \A a, s \in Nat : Same(a, s + sums[j]) => Same(a + Load32(b, odd + 2 * j + 1, big), s + sums[j + 2])
      BY <2>1, WordOfMessage
    <2> HIDE DEF sums, at
    <2>4. QED BY <2>2, <2>3 DEF j
  <1>3. result = IF n = 0 THEN start ELSE FoldOnce(total(n) % Word)
    BY DEF AddWords
  <1> HIDE DEF word, c, sums, at
  <1>4. ASSUME NEW a \in S, NEW w \in 0 .. Word - 1
        PROVE  AddWord(a, w) \in S /\ Same(AddWord(a, w).sum + AddWord(a, w).carry, (a.sum + a.carry) + w)
    BY AddWordSame
  <1>5. \A k \in 1 .. n : k - 1 \in 0 .. n - 1 /\ (k - 1) + 1 = k
    OBVIOUS
  <1>6. \A k \in 1 .. n : word(k) \in 0 .. Word - 1
    BY <1>2, <1>5
  <1>7. acc = Loop(acc)
    <2> DEFINE G == [k \in 1 .. n |-> [a \in S |-> AddWord(a, word(k))]]
    <2> HIDE DEF S
    <2>1. G \in [1 .. n -> [S -> S]] /\ \A k \in 1 .. n, a \in S : G[k][a] = AddWord(a, word(k))
      BY <1>4, <1>6
    <2> HIDE DEF G
    <2>2. PICK f \in [0 .. n -> S] : Solves(f, n, c, G)
      BY <1>1, <2>1, Recursion
    <2>3. \A k \in 0 .. n : f[k] = IF k = 0 THEN c ELSE AddWord(f[k - 1], word(k))
      <3>1. \A k \in 0 .. n : k = 0 \/ (k \in 1 .. n /\ f[k - 1] \in S)
        OBVIOUS
      <3>2. QED BY <2>1, <2>2, <3>1 DEF Solves
    <2>4. f = Loop(f)
      BY <2>3
    <2> HIDE DEF Loop
    <2>5. QED BY <2>4
  <1> HIDE DEF acc
  <1>8. acc[0] = c /\ \A k \in 0 .. n - 1 : acc[k + 1] = AddWord(acc[k], word(k + 1))
    <2>1. \A k \in 0 .. n : acc[k] = IF k = 0 THEN c ELSE AddWord(acc[k - 1], word(k))
      BY <1>7
    <2> HIDE DEF Loop
    <2>2. 0 \in 0 .. n /\ \A k \in 0 .. n - 1 : k + 1 \in 0 .. n /\ k + 1 # 0 /\ (k + 1) - 1 = k
      OBVIOUS
    <2>3. QED BY <2>1, <2>2
  <1> HIDE DEF Loop
  <1> DEFINE P == {k \in Nat : k =< n => acc[k] \in S /\ Same(total(k), first + sums[h + 2 * k])}
  <1>9. 0 \in P
    <2>1. h + 2 * 0 = h
      OBVIOUS
    <2>2. Same(start, first + sums[h])
      BY DEF sums
    <2> HIDE DEF S
    <2>3. QED BY <1>1, <1>8, <2>1, <2>2
  <1>10. ASSUME NEW k \in P PROVE k + 1 \in P
    <2>0. k \in Nat /\ k + 1 \in Nat
      OBVIOUS
    <2>1. SUFFICES ASSUME k + 1 =< n
                   PROVE  acc[k + 1] \in S /\ Same(total(k + 1), first + sums[h + 2 * (k + 1)])
      BY <2>0
    <2>2. k \in 0 .. n - 1 /\ acc[k] \in S /\ Same(total(k), first + sums[h + 2 * k])
      BY <2>0, <2>1
    <2> HIDE DEF P
    <2>3. total(k) \in Nat
      BY <2>2
    <2>4. Same(total(k) + word(k + 1), first + sums[h + 2 * (k + 1)])
      BY <1>2, <2>2, <2>3
    <2>5. acc[k + 1] \in S /\ Same(total(k + 1), total(k) + word(k + 1))
      <3> HIDE DEF S
      <3>1. QED BY <1>2, <1>4, <1>8, <2>2
    <2>6. QED BY <2>4, <2>5, SameTrans
  <1>11. \A k \in Nat : k \in P
    <2>1. P \in SUBSET Nat
      OBVIOUS
    <2> HIDE DEF P
    <2>2. QED BY <1>9, <1>10, <2>1, Induction
  <1>12. acc[n] \in S /\ Same(total(n), first + sums[h + 2 * n])
    <2>1. n \in P
      BY <1>11
    <2>2. QED BY <2>1
  <1>13. result \in Nat /\ result =< 2 * Short - 2 /\ Same(result, first + sums[h + 2 * n])
    <2>1. CASE n = 0
      <3>1. h + 2 * n = h /\ result = start
        BY <1>3, <2>1
      <3>2. QED BY <3>1 DEF sums
    <2>2. CASE n # 0
      <3> DEFINE t == total(n)
      <3>1. t \in Nat /\ t < Word /\ Same(t, first + sums[h + 2 * n])
        BY <1>12
      <3>2. result = FoldOnce(t % Word)
        BY <1>3, <2>2
      <3> HIDE DEF t
      <3>3. t % Word = t
        BY <3>1, Sizes
      <3>4. Same(FoldOnce(t), t) /\ FoldOnce(t) \in Nat /\ FoldOnce(t) =< 2 * Short - 2
        BY <3>1, FoldSame
      <3>5. QED BY <3>1, <3>2, <3>3, <3>4, SameTrans
    <2>3. QED BY <2>1, <2>2
  <1>14. QED BY <1>13 DEF sums, at

\* A short, and the last byte with a zero, are the next of the sums.
LEMMA ShortOfMessage ==
  ASSUME NEW b \in Seq(Bytes), NEW at \in 0 .. 1, NEW big \in BOOLEAN, NEW j \in Nat, at + 2 * j < Len(b)
  PROVE  LET sums == PartialSums(b, at, big)
             w == IF at + 2 * j + 2 =< Len(b) THEN Load16(b, at + 2 * j + 1, big)
                  ELSE IF big THEN b[Len(b)] * Byte ELSE b[Len(b)]
         IN  /\ w \in 0 .. Short - 1 /\ sums[j] \in Nat /\ sums[j + 1] = sums[j] + w
  <1> DEFINE sums == PartialSums(b, at, big)
             n == Len(b)
             i == at + 2 * j + 1
             w == IF at + 2 * j + 2 =< n THEN Load16(b, i, big) ELSE IF big THEN b[n] * Byte ELSE b[n]
  <1>1. /\ n \in Nat /\ i \in Nat /\ i \in 1 .. 2 * n /\ i =< n
        /\ j \in 0 .. n /\ j + 1 \in 1 .. n /\ at + 2 * (j + 1) - 1 = i /\ (j + 1) - 1 = j
        /\ (at + 2 * j + 2 =< n <=> i < n)
    OBVIOUS
  <1>2. /\ sums \in [0 .. n -> Nat]
        /\ \A k \in 1 .. n : /\ sums[k] = sums[k - 1] + Load16(Padded(b), at + 2 * k - 1, big)
                             /\ Load16(Padded(b), at + 2 * k - 1, big) \in 0 .. Short - 1
    BY PartialSumsAre
  <1>3. i < n => Load16(Padded(b), i, big) = Load16(b, i, big)
    <2> HIDE DEF i
    <2>1. QED BY <1>1, PaddedLoad
  <1>4. i = n => Load16(Padded(b), i, big) = IF big THEN b[n] * Byte ELSE b[n]
    <2>1. SUFFICES ASSUME i = n PROVE Load16(Padded(b), n, big) = IF big THEN b[n] * Byte ELSE b[n]
      OBVIOUS
    <2>2. n \in 1 .. n /\ n + 1 \in n + 1 .. 2 * n + 1
      BY <1>1, <2>1
    <2>3. Padded(b)[n] = b[n] /\ b[n] \in Bytes /\ Padded(b)[n + 1] = 0
      BY <2>2, PaddedBytes
    <2>4. b[n] * Byte + 0 = b[n] * Byte /\ b[n] + 0 * Byte = b[n]
      BY <2>3, Sizes DEF Bytes
    <2>5. QED BY <2>3, <2>4 DEF Load16
  <1> HIDE DEF sums, n, i
  <1>5. Load16(Padded(b), i, big) = w
    BY <1>1, <1>3, <1>4
  <1>6. sums[j] \in Nat
    BY <1>1, <1>2
  <1>7. sums[j + 1] = sums[j] + w /\ w \in 0 .. Short - 1
    <2> HIDE DEF w
    <2>1. QED BY <1>1, <1>2, <1>5
  <1>8. QED BY <1>6, <1>7 DEF sums, n, i

LEMMA AddRestSame ==
  ASSUME NEW b \in Seq(Bytes), NEW odd \in 0 .. 1, NEW big \in BOOLEAN, NEW j \in Nat,
         Len(b) - (odd + 2 * j) \in 0 .. 3,
         NEW sum \in Nat, sum =< 2 * Short - 2, NEW first \in Nat,
         Same(sum, first + PartialSums(b, odd, big)[j])
  PROVE  LET all == AddRest(sum, b, odd + 2 * j, big)
         IN  /\ all \in Nat /\ all =< 4 * Short - 4
             /\ Same(all, first + PartialSums(b, odd, big)[(Len(b) - odd + 1) \div 2])
  <1> DEFINE sums == PartialSums(b, odd, big)
             n == Len(b)
             at == odd + 2 * j
             left == n - at
             x == Load16(b, at + 1, big)
             y == IF big THEN b[n] * Byte ELSE b[n]
             all == AddRest(sum, b, at, big)
             last == (n - odd + 1) \div 2
  <1>0. n \in Nat /\ at \in Nat /\ left \in 0 .. 3
    OBVIOUS
  <1>1. all = sum + (IF left >= 2 THEN x ELSE 0) + (IF left % 2 = 0 THEN 0 ELSE y)
    BY DEF AddRest
  <1>2. \A a, w \in Nat : \A l \in Nat :
          Same(a, first + sums[l]) /\ sums[l] \in Nat /\ sums[l + 1] = sums[l] + w => Same(a + w, first + sums[l + 1])
    <2>1. SUFFICES ASSUME NEW a \in Nat, NEW w \in Nat, NEW l \in Nat, Same(a, first + sums[l]),
                          sums[l] \in Nat, sums[l + 1] = sums[l] + w
                   PROVE  Same(a + w, first + sums[l + 1])
      OBVIOUS
    <2> HIDE DEF sums
    <2>2. Same(a + w, (first + sums[l]) + w)
      BY <2>1, SameItself, SameAdd
    <2>3. (first + sums[l]) + w = first + sums[l + 1]
      BY <2>1
    <2>4. QED BY <2>2, <2>3
  <1>3. Same(sum, first + sums[j])
    OBVIOUS
  <1>4. left >= 2 => x \in 0 .. Short - 1 /\ sums[j] \in Nat /\ sums[j + 1] = sums[j] + x
    <2>1. left >= 2 => at + 2 =< n /\ at < n
      BY <1>0
    <2>2. QED BY <2>1, ShortOfMessage
  <1>5. left = 1 => y \in 0 .. Short - 1 /\ sums[j] \in Nat /\ sums[j + 1] = sums[j] + y
    <2>1. left = 1 => ~(at + 2 =< n) /\ at < n
      BY <1>0
    <2>2. QED BY <2>1, ShortOfMessage
  <1>6. left = 3 => y \in 0 .. Short - 1 /\ sums[j + 1] \in Nat /\ sums[(j + 1) + 1] = sums[j + 1] + y
    <2> DEFINE k == j + 1
    <2>1. k \in Nat /\ (left = 3 => ~(odd + 2 * k + 2 =< n) /\ odd + 2 * k < n)
      BY <1>0
    <2> HIDE DEF k
    <2>2. QED BY <2>1, ShortOfMessage DEF k
  <1>7. last = IF left = 0 THEN j ELSE IF left = 3 THEN (j + 1) + 1 ELSE j + 1
    <2>1. n - odd + 1 = 2 * j + left + 1
      BY <1>0
    <2>2. \A l \in 0 .. 3 : (2 * j + l + 1) \div 2 = IF l = 0 THEN j ELSE IF l = 3 THEN (j + 1) + 1 ELSE j + 1
      OBVIOUS
    <2>3. QED BY <1>0, <2>1, <2>2
  <1> HIDE DEF sums, n, at, x, y, last, left, all
  <1>8. CASE left = 0
    <2>1. all = sum
      BY <1>1, <1>8
    <2>2. all \in Nat /\ all =< 4 * Short - 4 /\ Same(all, first + sums[last])
      BY <1>3, <1>7, <1>8, <2>1, Sizes
    <2>3. QED BY <2>2 DEF all, sums, last, n, at
  <1>9. CASE left = 1
    <2>1. all = sum + y /\ y \in Nat /\ y =< Short - 1
      BY <1>1, <1>5, <1>9, Sizes
    <2>2. Same(sum + y, first + sums[j + 1])
      BY <1>2, <1>3, <1>5, <1>9, <2>1
    <2>3. all \in Nat /\ all =< 4 * Short - 4 /\ Same(all, first + sums[last])
      BY <1>7, <1>9, <2>1, <2>2, Sizes
    <2>4. QED BY <2>3 DEF all, sums, last, n, at
  <1>10. CASE left = 2
    <2>1. all = sum + x /\ x \in Nat /\ x =< Short - 1
      BY <1>1, <1>4, <1>10, Sizes
    <2>2. Same(sum + x, first + sums[j + 1])
      BY <1>2, <1>3, <1>4, <1>10, <2>1
    <2>3. all \in Nat /\ all =< 4 * Short - 4 /\ Same(all, first + sums[last])
      BY <1>7, <1>10, <2>1, <2>2, Sizes
    <2>4. QED BY <2>3 DEF all, sums, last, n, at
  <1>11. CASE left = 3
    <2>1. all = sum + x + y /\ x \in Nat /\ x =< Short - 1 /\ y \in Nat /\ y =< Short - 1
      BY <1>1, <1>4, <1>6, <1>11, Sizes
    <2>2. Same(sum + x, first + sums[j + 1])
      BY <1>2, <1>3, <1>4, <1>11, <2>1
    <2>3. Same((sum + x) + y, first + sums[(j + 1) + 1])
      <3> DEFINE a == sum + x
                 l == j + 1
      <3>1. a \in Nat /\ l \in Nat
        BY <2>1
      <3> HIDE DEF a, l
      <3>2. Same(a, first + sums[l]) /\ sums[l] \in Nat /\ sums[l + 1] = sums[l] + y
        BY <1>6, <1>11, <2>2 DEF a, l
      <3>3. Same(a + y, first + sums[l + 1])
        BY <1>2, <2>1, <3>1, <3>2
      <3>4. QED BY <3>3 DEF a, l
    <2>4. all \in Nat /\ all =< 4 * Short - 4 /\ Same(all, first + sums[last])
      BY <1>7, <1>11, <2>1, <2>3, Sizes
    <2>5. QED BY <2>4 DEF all, sums, last, n, at
  <1>12. QED BY <1>0, <1>8, <1>9, <1>10, <1>11

-----------------------------------------------------------------------------
\* A byte as the first of two.
Upper(x, big) == IF big THEN x * Byte ELSE x

\* The words from the second byte on, with the first byte, are the words from the first
\* byte on with their bytes exchanged.
LEMMA OddSame ==
  ASSUME NEW b \in Seq(Bytes), NEW big \in BOOLEAN, Len(b) > 0, NEW m \in 0 .. Len(b)
  PROVE  LET first == IF big THEN b[1] ELSE b[1] * Byte
         IN  Same((first + PartialSums(b, 1, big)[m]) * Byte,
                  PartialSums(b, 0, big)[m] + Upper(Padded(b)[2 * m + 1], big))
  <1> DEFINE n == Len(b)
             p == Padded(b)
             first == IF big THEN b[1] ELSE b[1] * Byte
             sums == PartialSums(b, 0, big)
             shifted == PartialSums(b, 1, big)
             P == {k \in Nat : k =< n => Same((first + shifted[k]) * Byte, sums[k] + Upper(p[2 * k + 1], big))}
  <1>1. n \in Nat /\ n > 0 /\ \A i \in 1 .. 2 * n + 1 : p[i] \in Nat
    BY PaddedBytes DEF Bytes
  <1>2. sums \in [0 .. n -> Nat] /\ sums[0] = 0 /\
        \A k \in 1 .. n : sums[k] = sums[k - 1] + Load16(p, 2 * k - 1, big)
    <2>1. 0 \in 0 .. 1 /\ \A k \in 1 .. n : 0 + 2 * k - 1 = 2 * k - 1
      OBVIOUS
    <2>2. sums \in [0 .. n -> Nat] /\ sums[0] = 0 /\
          \A k \in 1 .. n : sums[k] = sums[k - 1] + Load16(p, 0 + 2 * k - 1, big)
      BY <2>1, PartialSumsAre
    <2> HIDE DEF sums, n, p
    <2>3. QED BY <2>1, <2>2
  <1>3. shifted \in [0 .. n -> Nat] /\ shifted[0] = 0 /\
        \A k \in 1 .. n : shifted[k] = shifted[k - 1] + Load16(p, 2 * k, big)
    <2>1. 1 \in 0 .. 1 /\ \A k \in 1 .. n : 1 + 2 * k - 1 = 2 * k
      OBVIOUS
    <2>2. shifted \in [0 .. n -> Nat] /\ shifted[0] = 0 /\
          \A k \in 1 .. n : shifted[k] = shifted[k - 1] + Load16(p, 1 + 2 * k - 1, big)
      BY <2>1, PartialSumsAre
    <2> HIDE DEF shifted, n, p
    <2>3. QED BY <2>1, <2>2
  <1>4. p[1] = b[1] /\ b[1] \in Nat
    <2>1. 1 \in 1 .. n
      BY <1>1
    <2>2. QED BY <2>1, PaddedBytes DEF Bytes
  <1> HIDE DEF n, p, sums, shifted
  <1>5. first \in Nat
    BY <1>4, Sizes
  <1>6. 0 \in P
    <2>1. 2 * 0 + 1 = 1 /\ (first + 0) * Byte = first * Byte /\ 0 + Upper(b[1], big) = Upper(b[1], big)
      BY <1>4, <1>5, Sizes DEF Upper
    <2>2. Same(first * Byte, Upper(b[1], big))
      <3>1. CASE big
        <4>1. b[1] * Byte \in Nat
          BY <1>4, Sizes
        <4>2. QED BY <3>1, <4>1, SameItself DEF Upper
      <3>2. CASE ~big
        <4>1. (b[1] * Byte) * Byte = 0 + b[1] * Short /\ 0 + b[1] = b[1]
          BY <1>4, Sizes DEF Short
        <4>2. Same(0 + b[1] * Short, 0 + b[1])
          BY <1>4, SameMore
        <4>3. QED BY <3>2, <4>1, <4>2 DEF Upper
      <3>3. QED BY <3>1, <3>2
    <2> HIDE DEF first
    <2>3. QED BY <1>2, <1>3, <1>4, <2>1, <2>2
  <1> HIDE DEF first
  <1>7. ASSUME NEW k \in P PROVE k + 1 \in P
    <2>0. k \in Nat /\ k + 1 \in Nat
      OBVIOUS
    <2>1. SUFFICES ASSUME k + 1 =< n
                   PROVE  Same((first + shifted[k + 1]) * Byte, sums[k + 1] + Upper(p[2 * (k + 1) + 1], big))
      BY <2>0
    <2> DEFINE t == p[2 * k + 1]
               u == p[2 * k + 2]
               v == p[2 * k + 3]
               x == (first + shifted[k]) * Byte
    <2>2. Same(x, sums[k] + Upper(t, big))
      BY <1>1, <2>0, <2>1
    <2> HIDE DEF P
    <2>3. t \in Nat /\ u \in Nat /\ v \in Nat
      <3>1. 2 * k + 1 \in 1 .. 2 * n + 1 /\ 2 * k + 2 \in 1 .. 2 * n + 1 /\ 2 * k + 3 \in 1 .. 2 * n + 1
        BY <1>1, <2>0, <2>1
      <3>2. QED BY <1>1, <3>1
    <2>4. /\ k + 1 \in 1 .. n /\ k \in 0 .. n /\ (k + 1) - 1 = k /\ 2 * (k + 1) - 1 = 2 * k + 1
          /\ 2 * (k + 1) = 2 * k + 2 /\ (2 * k + 1) + 1 = 2 * k + 2 /\ (2 * k + 2) + 1 = 2 * k + 3
          /\ 2 * (k + 1) + 1 = 2 * k + 3
      BY <1>1, <2>0, <2>1
    <2>5. sums[k] \in Nat /\ shifted[k] \in Nat
      BY <1>2, <1>3, <2>4
    <2>6. sums[k + 1] = sums[k] + (IF big THEN t * Byte + u ELSE t + u * Byte)
      <3>1. sums[k + 1] = sums[k] + Load16(p, 2 * k + 1, big)
        BY <1>2, <2>4
      <3>2. QED BY <2>4, <3>1 DEF Load16
    <2>7. shifted[k + 1] = shifted[k] + (IF big THEN u * Byte + v ELSE u + v * Byte)
      <3>1. shifted[k + 1] = shifted[k] + Load16(p, 2 * k + 2, big)
        BY <1>3, <2>4
      <3>2. QED BY <2>4, <3>1 DEF Load16
    <2>8. p[2 * (k + 1) + 1] = v
      BY <2>4
    <2> HIDE DEF t, u, v
    <2>9. CASE big
      <3> DEFINE w == u * Byte + v
      <3>1. w * Byte = v * Byte + u * Short /\ w \in Nat /\ v * Byte \in Nat /\ t * Byte \in Nat
        BY <2>3, Sizes DEF Short
      <3>2. Same(v * Byte + u * Short, v * Byte + u)
        BY <2>3, <3>1, SameMore
      <3>3. (first + (shifted[k] + w)) * Byte = x + w * Byte
        <4> HIDE DEF w
        <4>1. QED BY <1>5, <2>5, <3>1, Sizes
      <3>4. Same(x + w * Byte, (sums[k] + t * Byte) + (v * Byte + u))
        <4> HIDE DEF w, x
        <4>1. Same(x, sums[k] + t * Byte)
          BY <2>2, <2>9 DEF Upper
        <4>2. Same(w * Byte, v * Byte + u)
          BY <3>1, <3>2
        <4>3. QED BY <4>1, <4>2, SameAdd
      <3>5. (sums[k] + t * Byte) + (v * Byte + u) = (sums[k] + (t * Byte + u)) + v * Byte
        BY <2>3, <2>5, <3>1
      <3> HIDE DEF x
      <3>6. QED BY <2>6, <2>7, <2>8, <2>9, <3>3, <3>4, <3>5 DEF Upper
    <2>10. CASE ~big
      <3> DEFINE w == u + v * Byte
      <3>1. w * Byte = u * Byte + v * Short /\ w \in Nat /\ u * Byte \in Nat
        BY <2>3, Sizes DEF Short
      <3>2. Same(u * Byte + v * Short, u * Byte + v)
        BY <2>3, <3>1, SameMore
      <3>3. (first + (shifted[k] + w)) * Byte = x + w * Byte
        <4> HIDE DEF w
        <4>1. QED BY <1>5, <2>5, <3>1, Sizes
      <3>4. Same(x + w * Byte, (sums[k] + t) + (u * Byte + v))
        <4> HIDE DEF w, x
        <4>1. Same(x, sums[k] + t)
          BY <2>2, <2>10 DEF Upper
        <4>2. Same(w * Byte, u * Byte + v)
          BY <3>1, <3>2
        <4>3. QED BY <4>1, <4>2, SameAdd
      <3>5. (sums[k] + t) + (u * Byte + v) = (sums[k] + (t + u * Byte)) + v
        BY <2>3, <2>5, <3>1
      <3> HIDE DEF x
      <3>6. QED BY <2>6, <2>7, <2>8, <2>10, <3>3, <3>4, <3>5 DEF Upper
    <2>11. QED BY <2>9, <2>10
  <1>8. \A k \in Nat : k \in P
    <2>1. P \in SUBSET Nat
      OBVIOUS
    <2> HIDE DEF P
    <2>2. QED BY <1>6, <1>7, <2>1, Induction
  <1>9. m \in P /\ m =< n /\ m \in Nat
    BY <1>1, <1>8 DEF n
  <1>10. QED BY <1>9 DEF first, shifted, sums, p

\* do_csum is right for every message at every address.
LEMMA DoCsumSame ==
  ASSUME NEW b \in Seq(Bytes), NEW addr \in Nat, NEW big \in BOOLEAN
  PROVE  DoCsum(b, addr, big) \in 0 .. Short - 1 /\ Same(DoCsum(b, addr, big), Sum16(b, big))
  <1> DEFINE len == Len(b)
             odd == addr % 2
             sums == PartialSums(b, odd, big)
             first == IF odd = 0 THEN 0 ELSE IF big THEN b[1] ELSE b[1] * Byte
             half == len - odd >= 2 /\ (addr + odd) % 4 = 2
             start == IF half THEN first + Load16(b, odd + 1, big) ELSE first
             at == IF half THEN odd + 2 ELSE odd
             n == (len - at) \div 4
             words == AddWords(start, b, at, n, big)
             rest == AddRest(words, b, at + 4 * n, big)
             sum == From32To16(rest)
             h == IF half THEN 1 ELSE 0
             j == h + 2 * n
  <1>1. DoCsum(b, addr, big) = IF b = <<>> THEN 0 ELSE IF odd = 1 THEN (sum \div Byte) + (sum % Byte) * Byte ELSE sum
    BY DEF DoCsum
  <1>2. len \in Nat /\ odd \in 0 .. 1 /\ (b # <<>> => len > 0) /\ half \in BOOLEAN
    OBVIOUS
  <1>3. CASE b = <<>>
    <2>1. len = 0 /\ (len + 1) \div 2 = 0
      BY <1>3
    <2>2. PartialSums(b, 0, big)[0] = 0
      BY PartialSumsAre
    <2>3. Sum16(b, big) = 0
      BY <2>1, <2>2 DEF Sum16
    <2>4. QED BY <1>1, <1>3, <2>3, SameItself, Sizes
  <1>4. CASE b # <<>>
    <2>1. len > 0 /\ b[1] \in Bytes
      BY <1>2, <1>4
    <2> HIDE DEF odd
    <2>2. first \in Nat /\ first =< Short - 1
      <3>1. \A x \in Bytes : x \in Nat /\ x =< Short - 1 /\ x * Byte \in Nat /\ x * Byte =< Short - 1
        <4>1. SUFFICES ASSUME NEW x \in Bytes
                       PROVE  x \in Nat /\ x =< Byte * Byte - 1 /\ x * Byte \in Nat /\ x * Byte =< Byte * Byte - 1
          BY DEF Short
        <4>2. x * Byte \in Nat /\ x * Byte =< (Byte - 1) * Byte /\ (Byte - 1) * Byte = Byte * Byte - Byte
          BY Sizes DEF Bytes
        <4>3. Byte * Byte \in Nat /\ x \in Nat /\ x =< x * Byte
          BY Sizes DEF Bytes
        <4>4. QED BY <4>2, <4>3, Sizes
      <3>2. QED BY <1>2, <2>1, <3>1, Sizes
    <2> HIDE DEF first, half
    <2>3. start \in Nat /\ start =< 2 * Short - 2 /\ start = first + sums[h] /\ sums[h] \in Nat
      <3>1. sums[0] = 0
        BY <1>2, PartialSumsAre
      <3>2. CASE ~half
        BY <2>2, <3>1, <3>2, Sizes
      <3>3. CASE half
        <4> DEFINE x == Load16(b, odd + 1, big)
        <4>1. odd + 2 * 0 < len /\ odd + 2 * 0 + 2 =< len /\ odd + 2 * 0 + 1 = odd + 1 /\ 0 \in Nat /\ 0 + 1 = 1
          BY <1>2, <3>3 DEF half
        <4>2. x \in 0 .. Short - 1 /\ sums[0] \in Nat /\ sums[0 + 1] = sums[0] + x
          <5>1. Load16(b, odd + 2 * 0 + 1, big) = x
            BY <4>1
          <5> HIDE DEF x, sums
          <5>2. QED BY <1>2, <4>1, <5>1, ShortOfMessage DEF sums
        <4> HIDE DEF x, sums
        <4>3. sums[1] = x
          BY <3>1, <4>1, <4>2
        <4>4. QED BY <2>2, <3>3, <4>2, <4>3, Sizes DEF x
      <3>4. QED BY <3>2, <3>3
    <2>4. h \in 0 .. 1 /\ at = odd + 2 * h /\ at =< len /\ at \in Nat
      BY <1>2, <2>1 DEF half
    <2> HIDE DEF h, at
    <2>5. n \in Nat /\ odd + 2 * h + 4 * n =< len /\ len - (odd + 2 * j) \in 0 .. 3 /\ at + 4 * n = odd + 2 * j
      <3>1. len - at \in Nat
        BY <1>2, <2>4
      <3>2. n \in Nat /\ (len - at) - 4 * n \in 0 .. 3
        BY <3>1
      <3> HIDE DEF n
      <3>3. QED BY <1>2, <2>4, <3>2
    <2> HIDE DEF n
    <2>6. j \in Nat
      BY <2>4, <2>5
    <2> HIDE DEF start, sums
    <2>7. words \in Nat /\ words =< 2 * Short - 2 /\ Same(words, first + sums[j])
      <3>1. Same(start, first + sums[h])
        BY <2>3, SameItself
      <3> HIDE DEF sums
      <3>2. words = AddWords(start, b, odd + 2 * h, n, big)
        BY <2>4
      <3> HIDE DEF words
      <3>3. QED BY <1>2, <2>2, <2>3, <2>4, <2>5, <3>1, <3>2, AddWordsSame DEF sums
    <2> HIDE DEF words, j
    <2> DEFINE last == (len - odd + 1) \div 2
    <2>8. rest \in Nat /\ rest =< 4 * Short - 4 /\ Same(rest, first + sums[last])
      <3>1. rest = AddRest(words, b, odd + 2 * j, big)
        BY <2>5
      <3> HIDE DEF rest
      <3>2. QED BY <1>2, <2>2, <2>5, <2>6, <2>7, <3>1, AddRestSame DEF sums
    <2> HIDE DEF rest
    <2>9. sum \in 0 .. Short - 1 /\ Same(sum, first + sums[last])
      <3>1. rest < Word
        BY <2>8, Sizes, WordBig
      <3>2. Same(sum, rest) /\ sum \in 0 .. Short - 1
        BY <2>8, <3>1, From32To16Same
      <3> HIDE DEF sum, last
      <3>3. QED BY <2>8, <3>2, SameTrans
    <2> HIDE DEF sum
    <2>10. CASE odd = 0
      <3>1. first = 0 /\ last = (len + 1) \div 2 /\ DoCsum(b, addr, big) = sum
        BY <1>1, <1>2, <1>4, <2>10 DEF first
      <3>2. sums[last] = Sum16(b, big)
        BY <2>10, <3>1 DEF sums, Sum16
      <3>3. sums[last] \in Nat
        <4>1. last \in 0 .. len
          BY <1>2, <2>1, <3>1
        <4>2. sums \in [0 .. len -> Nat]
          BY <1>2, PartialSumsAre DEF sums
        <4>3. QED BY <4>1, <4>2
      <3>4. first + sums[last] = sums[last]
        BY <3>1, <3>3
      <3> HIDE DEF last
      <3>5. Same(sum, sums[last])
        BY <2>9, <3>4
      <3>6. QED BY <2>9, <3>1, <3>2, <3>5
    <2>11. CASE odd = 1
      <3> DEFINE q == sum \div Byte
                 r == sum % Byte
                 swapped == q + r * Byte
                 m == len \div 2
                 plain == PartialSums(b, 0, big)
      <3>1. DoCsum(b, addr, big) = swapped
        BY <1>1, <1>4, <2>11
      <3>2. sum \in Nat /\ q \in Nat /\ r \in 0 .. Byte - 1 /\ sum = r + q * Byte
        <4>1. sum \in Nat /\ Byte \in Nat \ {0}
          BY <2>9, Sizes
        <4>2. QED BY <4>1, DivMod
      <3> HIDE DEF q, r
      <3>3. q =< Byte - 1
        <4>1. SUFFICES ASSUME q >= Byte PROVE FALSE
          BY <3>2, Sizes
        <4>2. \A x, y \in Nat : x >= y => x * y >= y * y
          OBVIOUS
        <4>3. q * Byte >= Byte * Byte /\ q * Byte \in Nat
          BY <3>2, <4>1, <4>2, Sizes
        <4>4. sum < Byte * Byte
          <5>1. sum < Short
            BY <2>9, Sizes
          <5>2. QED BY <5>1 DEF Short
        <4>5. QED BY <3>2, <4>3, <4>4, Sizes
      <3>4. swapped \in 0 .. Short - 1
        <4>1. r * Byte \in Nat /\ r * Byte =< (Byte - 1) * Byte /\ (Byte - 1) * Byte = Byte * Byte - Byte
          BY <3>2, Sizes
        <4>2. Byte * Byte \in Nat
          BY Sizes
        <4>3. QED BY <3>2, <3>3, <4>1, <4>2, Sizes DEF Short
      <3>5. Same(swapped, sum * Byte)
        <4>1. r * Byte \in Nat /\ sum * Byte = r * Byte + q * Short /\ swapped = r * Byte + q
          BY <3>2, Sizes DEF Short
        <4>2. Same(r * Byte + q, r * Byte + q * Short)
          BY <3>2, <4>1, SameLess
        <4>3. QED BY <4>1, <4>2
      <3> HIDE DEF swapped
      <3>6. last = m /\ m \in 0 .. len
        BY <1>2, <2>11
      <3>7. first = IF big THEN b[1] ELSE b[1] * Byte
        BY <2>11 DEF first
      <3>8. Same(sum * Byte, (first + sums[m]) * Byte)
        <4> HIDE DEF m, last
        <4>1. QED BY <2>9, <3>6, SameTimes, Sizes
      <3>9. Same((first + sums[m]) * Byte, plain[m] + Upper(Padded(b)[2 * m + 1], big))
        <4> HIDE DEF m
        <4>1. Same((first + PartialSums(b, 1, big)[m]) * Byte, plain[m] + Upper(Padded(b)[2 * m + 1], big))
          BY <2>1, <3>6, <3>7, OddSame
        <4>2. QED BY <2>11, <4>1 DEF sums
      <3>10. plain[m] + Upper(Padded(b)[2 * m + 1], big) = Sum16(b, big)
        <4>0. plain[m] \in Nat
          <5>1. plain \in [0 .. len -> Nat]
            BY PartialSumsAre
          <5> HIDE DEF plain, m
          <5>2. QED BY <3>6, <5>1
        <4>1. CASE len % 2 = 0
          <5>1. 2 * m + 1 \in len + 1 .. 2 * len + 1 /\ (len + 1) \div 2 = m
            BY <1>2, <4>1
          <5>2. Padded(b)[2 * m + 1] = 0
            BY <5>1, PaddedBytes
          <5>3. Upper(0, big) = 0
            BY Sizes DEF Upper
          <5> HIDE DEF plain, m
          <5>4. plain[m] + 0 = plain[m]
            BY <4>0
          <5>5. QED BY <5>1, <5>2, <5>3, <5>4 DEF Sum16, plain
        <4>2. CASE len % 2 # 0
          <5>1. 2 * m + 1 = len /\ (len + 1) \div 2 = m + 1 /\ len \in 1 .. len /\ m \in Nat
            BY <1>2, <4>2
          <5>2. Padded(b)[2 * m + 1] = b[len]
            BY <5>1, PaddedBytes
          <5> HIDE DEF m
          <5>3. 0 + 2 * m < len /\ ~(0 + 2 * m + 2 =< len) /\ 0 \in 0 .. 1
            BY <5>1
          <5>4. plain[m + 1] = plain[m] + (IF big THEN b[len] * Byte ELSE b[len])
            BY <5>1, <5>3, ShortOfMessage
          <5> HIDE DEF plain, len
          <5>5. Sum16(b, big) = plain[m + 1]
            BY <5>1 DEF Sum16, plain, len
          <5>6. QED BY <5>2, <5>4, <5>5 DEF Upper
        <4>3. QED BY <4>1, <4>2
      <3> HIDE DEF m, plain
      <3>11. Same(swapped, Sum16(b, big))
        BY <3>5, <3>8, <3>9, <3>10, SameTrans
      <3>12. QED BY <3>1, <3>4, <3>11
    <2>12. QED BY <1>2, <2>10, <2>11
  <1>5. QED BY <1>3, <1>4

-----------------------------------------------------------------------------
\* The complement of the sum, added to it, is all ones.
LEMMA Complement ==
  ASSUME NEW t, NEW c \in 0 .. Short - 1, Same(c, t)
  PROVE  LET f == Short - 1 - c
         IN  f \in 0 .. Short - 1 /\ t + f > 0 /\ (t + f) % (Short - 1) = 0
  <1> DEFINE f == Short - 1 - c
  <1>1. t \in Nat /\ (t = 0 => c = 0)
    BY DEF Same
  <1>2. PICK k \in Int : c = t + k * Ones
    BY DEF Same
  <1>3. f \in 0 .. Short - 1 /\ t + f > 0 /\ t + f = t + Ones - c
    BY <1>1, Sizes DEF Ones
  <1> HIDE DEF f
  <1>4. k * Ones \in Int /\ (1 - k) * Ones = Ones - k * Ones /\ 1 - k \in Int
    BY OnesNat
  <1> DEFINE x == t + f
             q == x \div Ones
             r == x % Ones
  <1>5. x \in Nat /\ x = (1 - k) * Ones
    BY <1>1, <1>2, <1>3, <1>4, OnesNat, Sizes
  <1> HIDE DEF x
  <1>6. q \in Nat /\ r \in 0 .. Ones - 1 /\ x = r + q * Ones
    <2>1. x \in Nat /\ Ones \in Nat \ {0}
      BY <1>5, OnesNat
    <2>2. QED BY <2>1, DivMod
  <1> HIDE DEF q, r
  <1> DEFINE d == (1 - k) - q
  <1>7. d \in Int /\ d * Ones = r
    <2>1. d * Ones = (1 - k) * Ones - q * Ones /\ q * Ones \in Int /\ d \in Int
      BY <1>4, <1>6, OnesNat
    <2> HIDE DEF d
    <2>2. QED BY <1>5, <1>6, <2>1
  <1> HIDE DEF d
  <1>8. r = 0
    <2>1. CASE d = 0
      BY <1>7, <2>1, OnesNat
    <2>2. CASE d >= 1
      <3>1. \A y, z \in Nat : y >= 1 => y * z >= z
        OBVIOUS
      <3>2. d * Ones >= Ones
        BY <1>7, <2>2, <3>1, OnesNat
      <3>3. QED BY <1>6, <1>7, <3>2, OnesNat
    <2>3. CASE d =< -1
      <3>1. \A y, z \in Nat : y >= 1 => (-y) * z =< -z
        OBVIOUS
      <3>2. d * Ones =< -Ones
        <4>1. -d \in Nat /\ -d >= 1 /\ -(-d) = d
          BY <1>7, <2>3
        <4>2. QED BY <3>1, <4>1, OnesNat
      <3>3. QED BY <1>6, <1>7, <3>2, OnesNat
    <2>4. QED BY <1>7, <2>1, <2>2, <2>3
  <1>9. x % (Short - 1) = 0
    BY <1>8 DEF r, Ones
  <1>10. QED BY <1>3, <1>9 DEF f, x

\* csum_partial from zero is do_csum.
LEMMA PartialSame ==
  ASSUME NEW b \in Seq(Bytes), NEW addr \in Nat, NEW big \in BOOLEAN
  PROVE  /\ CsumPartial(b, addr, big, 0) \in 0 .. Short - 1
         /\ Same(CsumPartial(b, addr, big, 0), Sum16(b, big)) /\ Sum16(b, big) \in Nat
  <1> DEFINE d == DoCsum(b, addr, big)
  <1>1. d \in 0 .. Short - 1 /\ Same(d, Sum16(b, big))
    BY DoCsumSame
  <1>2. CsumPartial(b, addr, big, 0) = IF 0 > (d + 0) % Word THEN ((d + 0) % Word) + 1 ELSE (d + 0) % Word
    BY DEF CsumPartial
  <1> HIDE DEF d
  <1>3. (d + 0) % Word = d /\ ~(0 > d)
    BY <1>1, Sizes, WordBig
  <1>4. QED BY <1>1, <1>2, <1>3 DEF Same

\* from64to32: a sum below four words is folded to one.
LEMMA FoldWord ==
  ASSUME NEW s \in Nat, s < 4 * Word
  PROVE  LET y == (s % Word) + (s \div Word)
             z == (y % Word) + (y \div Word)
         IN  z \in Nat /\ z < Word /\ Same(z, s)
  <1>0. Word \in Nat \ {0} /\ Word >= 16
    BY Sizes, WordBig
  <1>1. ASSUME NEW x \in Nat
        PROVE  LET q == x \div Word
                   r == x % Word
               IN  q \in Nat /\ r \in 0 .. Word - 1 /\ x = r + q * Word /\ Same(r + q, x)
    <2> DEFINE q == x \div Word
               r == x % Word
    <2>1. q \in Nat /\ r \in 0 .. Word - 1 /\ x = r + q * Word
      BY <1>0, DivMod
    <2> HIDE DEF q, r
    <2>2. Same(r + q, x)
      BY <2>1, SameLess
    <2>3. QED BY <2>1, <2>2 DEF q, r
  <1> DEFINE q == s \div Word
             r == s % Word
             y == r + q
             v == y \div Word
             u == y % Word
  <1>2. q \in Nat /\ r \in 0 .. Word - 1 /\ s = r + q * Word /\ Same(y, s)
    BY <1>1
  <1> HIDE DEF q, r
  <1>3. q =< 3
    <2>1. \A a, b \in Nat : a >= 4 => a * b >= 4 * b
      OBVIOUS
    <2>2. q >= 4 => q * Word >= 4 * Word
      BY <1>0, <1>2, <2>1
    <2>3. q * Word \in Nat
      BY <1>0, <1>2
    <2>4. QED BY <1>0, <1>2, <2>2, <2>3
  <1>4. y \in Nat /\ y =< Word + 2
    BY <1>0, <1>2, <1>3
  <1> HIDE DEF y
  <1>5. v \in Nat /\ u \in 0 .. Word - 1 /\ y = u + v * Word /\ Same(u + v, y)
    BY <1>1, <1>4
  <1> HIDE DEF v, u
  <1>6. u + v < Word
    <2>1. CASE v = 0
      BY <1>0, <1>5, <2>1
    <2>2. CASE v = 1
      BY <1>0, <1>4, <1>5, <2>2
    <2>3. CASE v >= 2
      <3>1. \A a, b \in Nat : a >= 2 => a * b >= 2 * b
        OBVIOUS
      <3>2. v * Word >= 2 * Word /\ v * Word \in Nat
        BY <1>0, <1>5, <2>3, <3>1
      <3>3. QED BY <1>0, <1>4, <1>5, <3>2
    <2>4. QED BY <1>5, <2>1, <2>2, <2>3
  <1>7. Same(u + v, s)
    BY <1>2, <1>5, SameTrans
  <1>8. u + v \in Nat
    BY <1>5
  <1>9. QED BY <1>6, <1>7, <1>8 DEF u, v, y, q, r

LEMMA Load32Equal ==
  ASSUME NEW b, NEW c, NEW i \in Nat, NEW l \in Nat, NEW big \in BOOLEAN, \A j \in 0 .. 3 : b[i + j] = c[l + j]
  PROVE  Load32(b, i, big) = Load32(c, l, big)
  <1>1. i + 0 = i /\ l + 0 = l /\ i + 2 + 1 = i + 3 /\ l + 2 + 1 = l + 3 /\ \A j \in {0, 1, 2, 3} : j \in 0 .. 3
    OBVIOUS
  <1>2. b[i] = c[l] /\ b[i + 1] = c[l + 1] /\ b[i + 2] = c[l + 2] /\ b[i + 3] = c[l + 3]
    BY <1>1
  <1>3. QED BY <1>1, <1>2 DEF Load32, Load16

\* The number of a short, from its bytes.
LEMMA ShortBytes ==
  ASSUME NEW x \in 0 .. Short - 1
  PROVE  x \div Byte \in Bytes /\ x % Byte \in Bytes /\ x = (x % Byte) + (x \div Byte) * Byte
  <1> DEFINE q == x \div Byte
             r == x % Byte
  <1>1. x \in Nat /\ Byte \in Nat \ {0}
    BY Sizes
  <1>2. q \in Nat /\ r \in 0 .. Byte - 1 /\ x = r + q * Byte
    BY <1>1, DivMod
  <1> HIDE DEF q, r
  <1>3. q =< Byte - 1
    <2>1. \A a, b \in Nat : a >= b => a * b >= b * b
      OBVIOUS
    <2>2. q >= Byte => q * Byte >= Byte * Byte
      BY <1>1, <1>2, <2>1
    <2>3. q * Byte \in Nat /\ x < Short
      BY <1>1, <1>2, Sizes
    <2>4. x < Byte * Byte /\ Byte * Byte \in Nat
      BY <2>3, Sizes DEF Short
    <2>5. QED BY <1>1, <1>2, <2>2, <2>3, <2>4
  <1>4. QED BY <1>2, <1>3, Sizes DEF q, r, Bytes

-----------------------------------------------------------------------------
\* A function on 1 .. n is a sequence of that length, and what two of them are in a row.
LEMMA OfLength ==
  ASSUME NEW n \in Nat, NEW S, NEW f \in [1 .. n -> S]
  PROVE  f \in Seq(S) /\ Len(f) = n
  <1>1. f \in Seq(S)
    BY SeqDef
  <1>2. Len(f) \in Nat /\ 1 .. Len(f) = 1 .. n
    BY <1>1, LenProperties
  <1>3. ASSUME Len(f) # n PROVE FALSE
    <2>1. CASE Len(f) > n
      <3>1. Len(f) \in 1 .. Len(f) /\ Len(f) \notin 1 .. n
        BY <1>2, <2>1
      <3>2. QED BY <1>2, <3>1
    <2>2. CASE Len(f) < n
      <3>1. n \in 1 .. n /\ n \notin 1 .. Len(f)
        BY <1>2, <2>2
      <3>2. QED BY <1>2, <3>1
    <2>3. QED BY <1>2, <1>3, <2>1, <2>2
  <1>4. QED BY <1>1, <1>3

LEMMA Joined ==
  ASSUME NEW s \in Seq(Bytes), NEW t \in Seq(Bytes)
  PROVE  /\ s \o t \in Seq(Bytes) /\ Len(s \o t) = Len(s) + Len(t)
         /\ \A i \in 1 .. Len(s) : (s \o t)[i] = s[i]
         /\ \A i \in 1 .. Len(t) : (s \o t)[Len(s) + i] = t[i]
  <1> DEFINE g == s \o t
             m == Len(s)
             n == Len(t)
  <1>1. g \in Seq(Bytes) /\ Len(g) = m + n /\ \A i \in 1 .. m + n : g[i] = IF i =< m THEN s[i] ELSE t[i - m]
    BY ConcatProperties
  <1>2. m \in Nat /\ n \in Nat
    OBVIOUS
  <1> HIDE DEF g, m, n
  <1>3. ASSUME NEW i \in 1 .. m PROVE g[i] = s[i]
    <2>1. i \in 1 .. m + n /\ i =< m
      BY <1>2
    <2>2. QED BY <1>1, <2>1
  <1>4. ASSUME NEW i \in 1 .. n PROVE g[m + i] = t[i]
    <2>1. m + i \in 1 .. m + n /\ ~(m + i =< m) /\ (m + i) - m = i
      BY <1>2
    <2>2. QED BY <1>1, <2>1
  <1>5. QED BY <1>1, <1>3, <1>4 DEF g, m, n

-----------------------------------------------------------------------------
\* csum_tcpudp_magic is right for every pair of addresses and every sum of a message.
Header4(src, dst, len) == src \o dst \o <<0, ProtoTcp, len \div Byte, len % Byte>>

LEMMA Tcp4Same ==
  ASSUME NEW src \in [1 .. 4 -> Bytes], NEW dst \in [1 .. 4 -> Bytes], NEW len \in 0 .. Short - 1,
         NEW big \in BOOLEAN, NEW sum \in 0 .. Short - 1, NEW d, Same(sum, d)
  PROVE  LET h == Header4(src, dst, len)
         IN  \E c \in 0 .. Short - 1 :
               /\ CsumTcpudpMagic(src, dst, len, ProtoTcp, big, sum) = Short - 1 - c
               /\ Same(c, d + Sum16(h, big)) /\ Sum16(h, big) \in Nat
  <1> DEFINE q == len \div Byte
             r == len % Byte
             tail == <<0, ProtoTcp, q, r>>
             h == src \o dst \o tail
             sums == PartialSums(h, 0, big)
             a == Load32(src, 1, big)
             b == Load32(dst, 1, big)
             x == (ProtoTcp + len) * (IF big THEN 1 ELSE Byte)
             s == sum + a + b + x
  <1>1. q \in Bytes /\ r \in Bytes /\ len = r + q * Byte /\ ProtoTcp \in Bytes /\ 0 \in Bytes
    <2>1. q \in Bytes /\ r \in Bytes /\ len = r + q * Byte
      BY ShortBytes
    <2>2. ProtoTcp \in Bytes /\ 0 \in Bytes
      BY CsumConstants, Sizes DEF Bytes
    <2>3. QED BY <2>1, <2>2
  <1> HIDE DEF q, r
  <1>2. /\ h \in Seq(Bytes) /\ Len(h) = 12
        /\ \A i \in 1 .. 4 : h[i] = src[i] /\ h[4 + i] = dst[i] /\ h[8 + i] = tail[i]
    <2>1. src \in Seq(Bytes) /\ dst \in Seq(Bytes) /\ Len(src) = 4 /\ Len(dst) = 4
      BY OfLength
    <2>2. tail \in Seq(Bytes) /\ Len(tail) = 4
      BY <1>1
    <2> HIDE DEF tail
    <2> DEFINE g == src \o dst
    <2>3. g \in Seq(Bytes) /\ Len(g) = 8 /\ \A i \in 1 .. 4 : g[i] = src[i] /\ g[4 + i] = dst[i]
      <3>1. /\ g \in Seq(Bytes) /\ Len(g) = Len(src) + Len(dst)
            /\ (\A i \in 1 .. Len(src) : g[i] = src[i]) /\ \A i \in 1 .. Len(dst) : g[Len(src) + i] = dst[i]
        BY <2>1, Joined
      <3> HIDE DEF g
      <3>2. QED BY <2>1, <3>1
    <2>4. h = g \o tail
      OBVIOUS
    <2> HIDE DEF g, h
    <2>5. h \in Seq(Bytes) /\ Len(h) = 12 /\ (\A i \in 1 .. 8 : h[i] = g[i]) /\ \A i \in 1 .. 4 : h[8 + i] = tail[i]
      <3>1. /\ h \in Seq(Bytes) /\ Len(h) = Len(g) + Len(tail)
            /\ (\A i \in 1 .. Len(g) : h[i] = g[i]) /\ \A i \in 1 .. Len(tail) : h[Len(g) + i] = tail[i]
        BY <2>2, <2>3, <2>4, Joined
      <3>2. QED BY <2>2, <2>3, <3>1
    <2>6. \A i \in 1 .. 4 : i \in 1 .. 8 /\ 4 + i \in 1 .. 8
      OBVIOUS
    <2>7. QED BY <2>3, <2>5, <2>6
  <1>3. h[9] = 0 /\ h[10] = ProtoTcp /\ h[11] = q /\ h[12] = r
    <2>1. h[8 + 1] = tail[1] /\ h[8 + 2] = tail[2] /\ h[8 + 3] = tail[3] /\ h[8 + 4] = tail[4]
      BY <1>2
    <2> HIDE DEF h
    <2>2. QED BY <2>1
  <1> HIDE DEF h, tail
  <1>4. a = Load32(h, 1, big) /\ b = Load32(h, 5, big)
    <2>1. ASSUME NEW j \in 0 .. 3 PROVE h[1 + j] = src[1 + j] /\ h[5 + j] = dst[1 + j]
      <3>1. 1 + j \in 1 .. 4 /\ 5 + j = 4 + (1 + j)
        OBVIOUS
      <3>2. QED BY <1>2, <3>1
    <2>2. QED BY <2>1, Load32Equal
  <1> HIDE DEF a, b
  <1>5. /\ a \in 0 .. Word - 1 /\ sums[0] = 0 /\ sums[2] \in Nat
        /\ \A u, v \in Nat : Same(u, v + sums[0]) => Same(u + a, v + sums[2])
    <2>1. 0 \in 0 .. 1 /\ 0 \in Nat /\ 0 + 2 * 0 + 4 =< Len(h) /\ 0 + 2 * 0 + 1 = 1 /\ 0 + 2 = 2
      BY <1>2
    <2>2. sums[0] = 0
      BY <1>2, <2>1, PartialSumsAre
    <2> HIDE DEF sums
    <2>3. QED BY <1>2, <1>4, <2>1, <2>2, WordOfMessage DEF sums
  <1>6. /\ b \in 0 .. Word - 1 /\ sums[4] \in Nat
        /\ \A u, v \in Nat : Same(u, v + sums[2]) => Same(u + b, v + sums[4])
    <2>1. 0 \in 0 .. 1 /\ 2 \in Nat /\ 0 + 2 * 2 + 4 =< Len(h) /\ 0 + 2 * 2 + 1 = 5 /\ 2 + 2 = 4
      BY <1>2
    <2> HIDE DEF sums
    <2>2. QED BY <1>2, <1>4, <2>1, WordOfMessage DEF sums
  <1> DEFINE y == Load16(h, 9, big)
             z == Load16(h, 11, big)
  <1>7. y \in Nat /\ z \in Nat /\ sums[6] = sums[4] + (y + z) /\ Sum16(h, big) = sums[6]
    <2>1. ASSUME NEW j \in 4 .. 5
          PROVE  LET w == Load16(h, 2 * j + 1, big)
                 IN  w \in 0 .. Short - 1 /\ sums[j] \in Nat /\ sums[j + 1] = sums[j] + w
      <3> DEFINE all == 0 + 2 * j + 2 =< Len(h)
                 w == Load16(h, 0 + 2 * j + 1, big)
                 v == IF all THEN w ELSE IF big THEN h[Len(h)] * Byte ELSE h[Len(h)]
      <3>1. 0 \in 0 .. 1 /\ j \in Nat /\ 0 + 2 * j < Len(h) /\ all /\ 0 + 2 * j + 1 = 2 * j + 1
        BY <1>2
      <3>2. v \in 0 .. Short - 1 /\ sums[j] \in Nat /\ sums[j + 1] = sums[j] + v
        BY <1>2, <3>1, ShortOfMessage
      <3>3. v = w
        BY <3>1
      <3> HIDE DEF v
      <3>4. w = Load16(h, 2 * j + 1, big)
        BY <3>1
      <3> HIDE DEF sums, w
      <3>5. QED BY <3>2, <3>3, <3>4
    <2>2. y \in 0 .. Short - 1 /\ sums[4] \in Nat /\ sums[5] = sums[4] + y
      <3>1. 2 * 4 + 1 = 9 /\ 4 + 1 = 5 /\ 4 \in 4 .. 5
        OBVIOUS
      <3> HIDE DEF sums
      <3>2. QED BY <2>1, <3>1
    <2>3. z \in 0 .. Short - 1 /\ sums[5] \in Nat /\ sums[6] = sums[5] + z
      <3>1. 2 * 5 + 1 = 11 /\ 5 + 1 = 6 /\ 5 \in 4 .. 5
        OBVIOUS
      <3> HIDE DEF sums
      <3>2. QED BY <2>1, <3>1
    <2> HIDE DEF y, z, sums
    <2>4. Sum16(h, big) = sums[6]
      <3>1. (Len(h) + 1) \div 2 = 6
        BY <1>2
      <3>2. QED BY <3>1 DEF sums, Sum16
    <2>5. QED BY <2>2, <2>3, <2>4, Sizes
  <1>8. Same(x, y + z) /\ x \in Nat /\ x =< Word - 1
    <2>1. 9 + 1 = 10 /\ 11 + 1 = 12
      OBVIOUS
    <2>2. y = IF big THEN 0 * Byte + ProtoTcp ELSE 0 + ProtoTcp * Byte
      BY <1>3, <2>1 DEF Load16
    <2>3. z = IF big THEN q * Byte + r ELSE q + r * Byte
      BY <1>3, <2>1 DEF Load16
    <2> HIDE DEF y, z
    <2>4. q \in Nat /\ r \in Nat /\ ProtoTcp \in Nat /\ ProtoTcp =< Byte - 1 /\ len \in Nat /\ len =< Short - 1
      BY <1>1, Sizes DEF Bytes
    <2>5. CASE big
      <3>1. x = ProtoTcp + len /\ y = ProtoTcp /\ z = len
        BY <1>1, <2>2, <2>3, <2>4, <2>5, Sizes
      <3>2. x \in Nat /\ x =< Word - 1
        BY <2>4, <3>1, Sizes, WordBig
      <3>3. Same(x, x)
        BY <3>2, SameItself
      <3>4. QED BY <3>1, <3>2, <3>3
    <2>6. CASE ~big
      <3> DEFINE e == (ProtoTcp + r) * Byte
      <3>1. e \in Nat /\ e = ProtoTcp * Byte + r * Byte /\ ProtoTcp * Byte \in Nat /\ r * Byte \in Nat
        BY <2>4, Sizes
      <3>2. x = e + q * Short
        <4>1. x = (ProtoTcp + (r + q * Byte)) * Byte
          BY <1>1, <2>6
        <4>2. (ProtoTcp + (r + q * Byte)) * Byte = (ProtoTcp + r) * Byte + q * (Byte * Byte)
          BY <2>4, Sizes
        <4>3. QED BY <4>1, <4>2 DEF Short
      <3>3. y + z = e + q
        BY <2>2, <2>3, <2>4, <2>6, <3>1
      <3>4. x \in Nat /\ x =< Word - 1
        <4>1. x = (ProtoTcp + len) * Byte
          BY <2>6
        <4> DEFINE p == ProtoTcp + len
        <4>2. p \in Nat /\ p + 1 =< 2 * Short
          BY <2>4, Sizes
        <4>3. \A f, g \in Nat : f + 1 =< 2 * g => f * Byte =< (2 * g) * Byte - Byte
          BY Sizes
        <4> HIDE DEF p
        <4>4. p * Byte =< (2 * Short) * Byte - Byte /\ p * Byte \in Nat
          BY <4>2, <4>3, Sizes
        <4>5. (2 * Short) * Byte = Short * (2 * Byte) /\ Short * (2 * Byte) =< Short * Short
          BY Sizes
        <4>6. (2 * Short) * Byte =< Word /\ (2 * Short) * Byte \in Nat
          BY <4>5, Sizes DEF Word
        <4> HIDE DEF x
        <4>7. QED BY <4>1, <4>4, <4>6, Sizes DEF p
      <3> HIDE DEF e, x
      <3>5. Same(e + q * Short, e + q)
        BY <2>4, <3>1, SameMore
      <3>6. QED BY <3>2, <3>3, <3>4, <3>5
    <2>7. QED BY <2>5, <2>6
  <1> HIDE DEF x, y, z, sums
  <1>9. sum \in Nat /\ d \in Nat /\ Same(s, d + sums[6])
    <2>1. sum \in Nat /\ d \in Nat /\ d + 0 = d /\ sum + a \in Nat
      BY <1>5, Sizes DEF Same
    <2>2. Same(sum + a, d + sums[2])
      BY <1>5, <2>1
    <2>3. Same(sum + a + b, d + sums[4])
      BY <1>6, <2>1, <2>2
    <2>4. Same(sum + a + b + x, (d + sums[4]) + (y + z))
      BY <1>8, <2>3, SameAdd
    <2>5. (d + sums[4]) + (y + z) = d + sums[6]
      BY <1>6, <1>7, <2>1
    <2>6. QED BY <2>1, <2>4, <2>5
  <1>10. s \in Nat /\ s < 4 * Word
    BY <1>5, <1>6, <1>8, Sizes, WordBig
  <1> DEFINE fold(w) == (w % Word) + (w \div Word)
             t == fold(fold(s))
  <1>11. CsumTcpudpMagic(src, dst, len, ProtoTcp, big, sum) = Short - 1 - From32To16(t)
    BY DEF CsumTcpudpMagic, CsumFold, a, b, x
  <1> HIDE DEF s
  <1>12. t \in Nat /\ t < Word /\ Same(t, s)
    BY <1>10, FoldWord
  <1> HIDE DEF t
  <1>13. From32To16(t) \in 0 .. Short - 1 /\ Same(From32To16(t), t)
    BY <1>12, From32To16Same
  <1>14. Same(From32To16(t), d + Sum16(h, big))
    BY <1>7, <1>9, <1>12, <1>13, SameTrans
  <1>15. Sum16(h, big) \in Nat
    BY <1>6, <1>7
  <1>16. QED BY <1>11, <1>13, <1>14, <1>15 DEF Header4, h, tail, q, r

-----------------------------------------------------------------------------
\* htobe32 stores the bytes of a short behind two zeros.
LEMMA Int32Bytes ==
  ASSUME NEW x \in 0 .. Short - 1
  PROVE  Int32(x) \in Seq(Bytes) /\ Len(Int32(x)) = 4
  <1>0. x \in Nat /\ Byte \in Nat \ {0} /\ Short \in Nat \ {0} /\ x < Short
    BY Sizes
  <1>1. ASSUME NEW y \in Nat PROVE y % Byte \in Bytes
    <2>1. y % Byte \in 0 .. Byte - 1
      BY <1>0, DivMod
    <2>2. QED BY <2>1 DEF Bytes
  <1>2. x \div Short \in Nat /\ x \div Byte \in Nat
    BY <1>0, DivMod
  <1>3. x \div (Short * Byte) \in Bytes
    <2> DEFINE e == Short * Byte
               q == x \div e
               r == x % e
    <2>1. e \in Nat \ {0} /\ e >= Short
      BY <1>0
    <2> HIDE DEF e
    <2>2. q \in Nat /\ r \in 0 .. e - 1 /\ x = r + q * e
      BY <1>0, <2>1, DivMod
    <2> HIDE DEF q, r
    <2>3. q = 0
      <3>1. \A a, b \in Nat : a >= 1 => a * b >= b
        OBVIOUS
      <3>2. q >= 1 => q * e >= e
        BY <2>1, <2>2, <3>1
      <3>3. q * e \in Nat
        BY <2>1, <2>2
      <3>4. QED BY <1>0, <2>1, <2>2, <3>2, <3>3
    <2>4. 0 \in Bytes
      BY Sizes DEF Bytes
    <2>5. QED BY <2>3, <2>4 DEF q, e
  <1> DEFINE a == x \div (Short * Byte)
             b == (x \div Short) % Byte
             c == (x \div Byte) % Byte
             d == x % Byte
  <1>4. a \in Bytes /\ b \in Bytes /\ c \in Bytes /\ d \in Bytes
    BY <1>0, <1>1, <1>2, <1>3
  <1>5. Int32(x) = <<a, b, c, d>>
    BY DEF Int32
  <1> HIDE DEF a, b, c, d
  <1>6. QED BY <1>4, <1>5

\* csum_ipv6_magic is right for every pair of addresses and every sum of a message.
LEMMA Tcp6Same ==
  ASSUME NEW src \in [1 .. 16 -> Bytes], NEW dst \in [1 .. 16 -> Bytes], NEW len \in 0 .. Short - 1,
         NEW big \in BOOLEAN, NEW sum \in 0 .. Short - 1, NEW d, Same(sum, d)
  PROVE  LET h == src \o dst \o Int32(len) \o Int32(ProtoTcp)
         IN  \E c \in 0 .. Short - 1 :
               /\ CsumIpv6Magic(src, dst, len, ProtoTcp, big, sum) = Short - 1 - c
               /\ Same(c, d + Sum16(h, big)) /\ Sum16(h, big) \in Nat
  <1> DEFINE l == Int32(len)
             p == Int32(ProtoTcp)
             f1 == src \o dst
             f2 == f1 \o l
             h == f2 \o p
             sums == PartialSums(h, 0, big)
             word(k) == CASE k \in 1 .. 4 -> Load32(src, 4 * k - 3, big)
                          [] k \in 5 .. 8 -> Load32(dst, 4 * (k - 4) - 3, big)
                          [] k = 9         -> Htobe32(len, big)
                          [] k = 10        -> Htobe32(ProtoTcp, big)
             Loop(f) == [k \in 0 .. 10 |-> IF k = 0 THEN sum ELSE AddCarry(f[k - 1], word(k))]
             acc == CHOOSE f : f = Loop(f)
  <1>1. /\ src \in Seq(Bytes) /\ dst \in Seq(Bytes) /\ Len(src) = 16 /\ Len(dst) = 16
        /\ l \in Seq(Bytes) /\ p \in Seq(Bytes) /\ Len(l) = 4 /\ Len(p) = 4
    <2>1. 16 \in Nat
      OBVIOUS
    <2>2. src \in Seq(Bytes) /\ dst \in Seq(Bytes) /\ Len(src) = 16 /\ Len(dst) = 16
      BY <2>1, OfLength
    <2>3. ProtoTcp \in 0 .. Short - 1
      BY CsumConstants, Sizes
    <2>4. QED BY <2>2, <2>3, Int32Bytes
  <1>2. CsumIpv6Magic(src, dst, len, ProtoTcp, big, sum) = Short - 1 - From32To16(acc[10])
    BY DEF CsumIpv6Magic, CsumFold
  <1>3. /\ h \in Seq(Bytes) /\ Len(h) = 40
        /\ \A i \in 1 .. 16 : h[i] = src[i] /\ h[16 + i] = dst[i]
        /\ \A i \in 1 .. 4 : h[32 + i] = l[i] /\ h[36 + i] = p[i]
    <2> HIDE DEF l, p
    <2>1. /\ f1 \in Seq(Bytes) /\ Len(f1) = Len(src) + Len(dst)
          /\ (\A i \in 1 .. Len(src) : f1[i] = src[i]) /\ \A i \in 1 .. Len(dst) : f1[Len(src) + i] = dst[i]
      BY <1>1, Joined
    <2> HIDE DEF f1
    <2>2. /\ f2 \in Seq(Bytes) /\ Len(f2) = Len(f1) + Len(l)
          /\ (\A i \in 1 .. Len(f1) : f2[i] = f1[i]) /\ \A i \in 1 .. Len(l) : f2[Len(f1) + i] = l[i]
      BY <1>1, <2>1, Joined
    <2> HIDE DEF f2
    <2>3. /\ h \in Seq(Bytes) /\ Len(h) = Len(f2) + Len(p)
          /\ (\A i \in 1 .. Len(f2) : h[i] = f2[i]) /\ \A i \in 1 .. Len(p) : h[Len(f2) + i] = p[i]
      BY <1>1, <2>2, Joined
    <2> HIDE DEF h
    <2>4. Len(f1) = 32 /\ Len(f2) = 36 /\ Len(h) = 40
      BY <1>1, <2>1, <2>2, <2>3
    <2>5. ASSUME NEW i \in 1 .. 16 PROVE h[i] = src[i] /\ h[16 + i] = dst[i]
      <3>1. i \in 1 .. 32 /\ i \in 1 .. 36 /\ 16 + i \in 1 .. 32 /\ 16 + i \in 1 .. 36
        OBVIOUS
      <3>2. f1[i] = src[i] /\ f1[16 + i] = dst[i]
        BY <1>1, <2>1
      <3>3. f2[i] = f1[i] /\ f2[16 + i] = f1[16 + i]
        BY <2>2, <2>4, <3>1
      <3>4. h[i] = f2[i] /\ h[16 + i] = f2[16 + i]
        BY <2>3, <2>4, <3>1
      <3>5. QED BY <3>2, <3>3, <3>4
    <2>6. ASSUME NEW i \in 1 .. 4 PROVE h[32 + i] = l[i] /\ h[36 + i] = p[i]
      <3>1. 32 + i \in 1 .. 36
        OBVIOUS
      <3>2. f2[32 + i] = l[i]
        BY <1>1, <2>2, <2>4
      <3>3. h[32 + i] = f2[32 + i]
        BY <2>3, <2>4, <3>1
      <3>4. h[36 + i] = p[i]
        BY <1>1, <2>3, <2>4
      <3>5. QED BY <3>2, <3>3, <3>4
    <2>7. QED BY <2>3, <2>4, <2>5, <2>6
  <1> HIDE DEF h, f1, f2, l, p
  <1>4. ASSUME NEW k \in 1 .. 10 PROVE word(k) = Load32(h, 4 * k - 3, big)
    <2>1. 4 * k - 3 \in Nat
      OBVIOUS
    <2>2. CASE k \in 1 .. 4
      <3>1. ASSUME NEW j \in 0 .. 3 PROVE src[4 * k - 3 + j] = h[4 * k - 3 + j]
        <4>1. 4 * k - 3 + j \in 1 .. 16
          BY <2>2
        <4>2. QED BY <1>3, <4>1
      <3>2. Load32(src, 4 * k - 3, big) = Load32(h, 4 * k - 3, big)
        BY <2>1, <3>1, Load32Equal
      <3>3. QED BY <2>2, <3>2
    <2>3. CASE k \in 5 .. 8
      <3>0. 4 * (k - 4) - 3 \in Nat
        BY <2>3
      <3>1. ASSUME NEW j \in 0 .. 3 PROVE dst[4 * (k - 4) - 3 + j] = h[4 * k - 3 + j]
        <4>1. 4 * (k - 4) - 3 + j \in 1 .. 16 /\ 16 + (4 * (k - 4) - 3 + j) = 4 * k - 3 + j
          BY <2>3
        <4>2. QED BY <1>3, <4>1
      <3>2. Load32(dst, 4 * (k - 4) - 3, big) = Load32(h, 4 * k - 3, big)
        BY <2>1, <3>0, <3>1, Load32Equal
      <3>3. k \notin 1 .. 4
        BY <2>3
      <3>4. QED BY <2>3, <3>2, <3>3
    <2>4. CASE k = 9
      <3> DEFINE i == 1
      <3>0. i \in Nat
        OBVIOUS
      <3>1. ASSUME NEW j \in 0 .. 3 PROVE l[i + j] = h[4 * k - 3 + j]
        <4>1. i + j \in 1 .. 4 /\ 32 + (i + j) = 4 * k - 3 + j
          BY <2>4
        <4>2. QED BY <1>3, <4>1
      <3>2. Load32(l, i, big) = Load32(h, 4 * k - 3, big)
        <4> HIDE DEF i
        <4>1. QED BY <2>1, <3>0, <3>1, Load32Equal
      <3>3. k \notin 1 .. 4 /\ k \notin 5 .. 8
        BY <2>4
      <3>4. QED BY <2>4, <3>2, <3>3 DEF Htobe32, l
    <2>5. CASE k = 10
      <3> DEFINE i == 1
      <3>0. i \in Nat
        OBVIOUS
      <3>1. ASSUME NEW j \in 0 .. 3 PROVE p[i + j] = h[4 * k - 3 + j]
        <4>1. i + j \in 1 .. 4 /\ 36 + (i + j) = 4 * k - 3 + j
          BY <2>5
        <4>2. QED BY <1>3, <4>1
      <3>2. Load32(p, i, big) = Load32(h, 4 * k - 3, big)
        <4> HIDE DEF i
        <4>1. QED BY <2>1, <3>0, <3>1, Load32Equal
      <3>3. k \notin 1 .. 4 /\ k \notin 5 .. 8 /\ k # 9
        BY <2>5
      <3>4. QED BY <2>5, <3>2, <3>3 DEF Htobe32, p
    <2>6. QED BY <2>2, <2>3, <2>4, <2>5
  <1> HIDE DEF word
  <1>5. ASSUME NEW k \in 0 .. 9
        PROVE  /\ word(k + 1) \in 0 .. Word - 1 /\ sums[2 * k] \in Nat /\ sums[2 * (k + 1)] \in Nat
               /\ \A a, s \in Nat : Same(a, s + sums[2 * k]) => Same(a + word(k + 1), s + sums[2 * (k + 1)])
    <2> DEFINE j == 2 * k
    <2>1. 0 \in 0 .. 1 /\ j \in Nat /\ 0 + 2 * j + 4 =< Len(h)
      <3>1. Len(h) = 40
        BY <1>3
      <3>2. QED BY <3>1
    <2>2. 0 + 2 * j + 1 = 4 * (k + 1) - 3 /\ j + 2 = 2 * (k + 1) /\ k + 1 \in 1 .. 10
      OBVIOUS
    <2> HIDE DEF j
    <2>3. /\ Load32(h, 0 + 2 * j + 1, big) \in 0 .. Word - 1 /\ sums[j] \in Nat /\ sums[j + 2] \in Nat
          /\ \A a, s \in Nat : Same(a, s + sums[j]) => Same(a + Load32(h, 0 + 2 * j + 1, big), s + sums[j + 2])
      BY <1>3, <2>1, WordOfMessage
    <2> HIDE DEF sums
    <2>4. word(k + 1) = Load32(h, 0 + 2 * j + 1, big)
      BY <1>4, <2>2
    <2>5. QED BY <2>2, <2>3, <2>4 DEF j
  <1>6. sums[0] = 0 /\ Sum16(h, big) = sums[20]
    <2>1. sums[0] = 0
      <3>1. 0 \in 0 .. 1
        OBVIOUS
      <3>2. QED BY <1>3, <3>1, PartialSumsAre
    <2>2. (Len(h) + 1) \div 2 = 20
      BY <1>3
    <2>3. QED BY <2>1, <2>2 DEF Sum16
  <1> HIDE DEF sums
  <1> DEFINE S == 0 .. Word - 1
  <1>7. \A k \in 1 .. 10 : word(k) \in S
    <2>1. \A k \in 1 .. 10 : k - 1 \in 0 .. 9 /\ (k - 1) + 1 = k
      OBVIOUS
    <2>2. QED BY <1>5, <2>1
  <1>8. sum \in S
    BY Sizes, WordBig
  <1>9. acc = Loop(acc)
    <2> DEFINE G == [k \in 1 .. 10 |-> [a \in S |-> AddCarry(a, word(k))]]
    <2>0. \A a \in S, k \in 1 .. 10 : AddCarry(a, word(k)) \in S
      BY <1>7, AddCarrySame
    <2> HIDE DEF S
    <2>1. G \in [1 .. 10 -> [S -> S]] /\ \A k \in 1 .. 10, a \in S : G[k][a] = AddCarry(a, word(k))
      BY <2>0
    <2> HIDE DEF G
    <2>2. PICK f \in [0 .. 10 -> S] : Solves(f, 10, sum, G)
      <3>1. 10 \in Nat
        OBVIOUS
      <3>2. QED BY <1>8, <2>1, <3>1, Recursion
    <2>3. \A k \in 0 .. 10 : f[k] = IF k = 0 THEN sum ELSE AddCarry(f[k - 1], word(k))
      <3>1. \A k \in 0 .. 10 : k = 0 \/ (k \in 1 .. 10 /\ f[k - 1] \in S)
        OBVIOUS
      <3>2. QED BY <2>1, <2>2, <3>1 DEF Solves
    <2>4. f = Loop(f)
      BY <2>3
    <2> HIDE DEF Loop
    <2>5. QED BY <2>4
  <1> HIDE DEF acc
  <1>10. acc[0] = sum /\ \A k \in 0 .. 9 : acc[k + 1] = AddCarry(acc[k], word(k + 1))
    <2>1. \A k \in 0 .. 10 : acc[k] = IF k = 0 THEN sum ELSE AddCarry(acc[k - 1], word(k))
      BY <1>9
    <2> HIDE DEF Loop
    <2>2. 0 \in 0 .. 10 /\ \A k \in 0 .. 9 : k + 1 \in 0 .. 10 /\ k + 1 # 0 /\ (k + 1) - 1 = k
      OBVIOUS
    <2>3. QED BY <2>1, <2>2
  <1> HIDE DEF Loop
  <1>11. d \in Nat
    BY DEF Same
  <1> DEFINE P == {k \in Nat : k =< 10 => acc[k] \in S /\ Same(acc[k], d + sums[2 * k])}
  <1>12. 0 \in P
    <2>1. 2 * 0 = 0 /\ d + 0 = d
      BY <1>11
    <2> HIDE DEF S
    <2>2. QED BY <1>6, <1>8, <1>10, <2>1
  <1>13. ASSUME NEW k \in P PROVE k + 1 \in P
    <2>0. k \in Nat /\ k + 1 \in Nat
      OBVIOUS
    <2>1. SUFFICES ASSUME k + 1 =< 10 PROVE acc[k + 1] \in S /\ Same(acc[k + 1], d + sums[2 * (k + 1)])
      BY <2>0
    <2>2. k \in 0 .. 9 /\ acc[k] \in S /\ Same(acc[k], d + sums[2 * k])
      BY <2>0, <2>1
    <2> HIDE DEF P
    <2>3. acc[k] \in Nat
      BY <2>2
    <2>4. Same(acc[k] + word(k + 1), d + sums[2 * (k + 1)])
      BY <1>5, <1>11, <2>2, <2>3
    <2>5. AddCarry(acc[k], word(k + 1)) \in S /\ Same(AddCarry(acc[k], word(k + 1)), acc[k] + word(k + 1))
      BY <1>5, <2>2, AddCarrySame
    <2>6. acc[k + 1] = AddCarry(acc[k], word(k + 1))
      BY <1>10, <2>2
    <2> HIDE DEF S
    <2>7. QED BY <2>4, <2>5, <2>6, SameTrans
  <1>14. \A k \in Nat : k \in P
    <2>1. P \in SUBSET Nat
      OBVIOUS
    <2> HIDE DEF P
    <2>2. QED BY <1>12, <1>13, <2>1, Induction
  <1>15. acc[10] \in S /\ Same(acc[10], d + sums[20])
    <2>1. 10 \in P /\ 2 * 10 = 20
      BY <1>14
    <2> HIDE DEF S
    <2>2. QED BY <2>1
  <1>16. From32To16(acc[10]) \in 0 .. Short - 1 /\ Same(From32To16(acc[10]), acc[10])
    BY <1>15, From32To16Same, Sizes
  <1>17. Same(From32To16(acc[10]), d + Sum16(h, big))
    BY <1>6, <1>15, <1>16, SameTrans
  <1>18. Sum16(h, big) \in Nat
    <2>1. 9 \in 0 .. 9 /\ 2 * (9 + 1) = 20
      OBVIOUS
    <2>2. QED BY <1>5, <1>6, <2>1
  <1>19. QED BY <1>2, <1>16, <1>17, <1>18 DEF h, f2, f1, l, p

\* The packets there are.
LEMMA PacketType ==
  ASSUME CsumInit
  PROVE  /\ packet.kind \in {"tcp4", "tcp6", "icmp4", "ip4"} /\ packet.big \in BOOLEAN /\ packet.addr \in Nat
         /\ packet.data \in Seq(Bytes) /\ Len(packet.data) \in 0 .. Short - 1
         /\ packet.kind = "tcp4" => packet.src \in [1 .. 4 -> Bytes] /\ packet.dst \in [1 .. 4 -> Bytes]
         /\ packet.kind = "tcp6" => packet.src \in [1 .. 16 -> Bytes] /\ packet.dst \in [1 .. 16 -> Bytes]
  <1>1. PICK kind \in {"tcp4", "tcp6", "icmp4", "ip4"}, big \in BOOLEAN, addr \in 0 .. 3, data \in Messages :
          \E src, dst \in (IF kind = "tcp6" THEN Addresses6 ELSE Addresses) :
            /\ kind = "ip4" => Len(data) % 4 = 0
            /\ kind \in {"ip4", "icmp4"} => src = dst /\ src = CHOOSE a \in Addresses : TRUE
            /\ packet = [kind |-> kind, big |-> big, addr |-> addr, src |-> src, dst |-> dst, data |-> data]
    BY DEF CsumInit
  <1>2. PICK src \in (IF kind = "tcp6" THEN Addresses6 ELSE Addresses),
             dst \in (IF kind = "tcp6" THEN Addresses6 ELSE Addresses) :
            packet = [kind |-> kind, big |-> big, addr |-> addr, src |-> src, dst |-> dst, data |-> data]
    BY <1>1
  <1>3. /\ packet.kind = kind /\ packet.big = big /\ packet.addr = addr
        /\ packet.src = src /\ packet.dst = dst /\ packet.data = data
    BY <1>2
  <1>4. data \in Seq(0 .. Byte - 1) /\ Len(data) < Byte * Byte
    BY CsumConstants
  <1>5. data \in Seq(Bytes)
    BY <1>4 DEF Bytes
  <1>6. Len(data) \in 0 .. Short - 1
    BY <1>4, Sizes DEF Short
  <1>7. kind = "tcp4" => src \in [1 .. 4 -> Bytes] /\ dst \in [1 .. 4 -> Bytes]
    BY CsumConstants DEF Bytes
  <1>8. kind = "tcp6" => src \in [1 .. 16 -> Bytes] /\ dst \in [1 .. 16 -> Bytes]
    BY CsumConstants DEF Bytes
  <1>9. addr \in Nat
    OBVIOUS
  <1>10. QED BY <1>3, <1>5, <1>6, <1>7, <1>8, <1>9

(***************************************************************************)
(* The checksum that neb_sock_csum_*_fill store is right: for every byte   *)
(* order and alignment, every length, all bytes and all addresses, what a  *)
(* receiver adds up is all ones.                                           *)
(***************************************************************************)
THEOREM ChecksumCorrect == CsumInit => ChecksumRight
  <1> SUFFICES ASSUME CsumInit PROVE ChecksumRight
    OBVIOUS
  <1> DEFINE p == packet
             h == Sum16(Pseudo(p), p.big)
             m == Sum16(p.data, p.big)
             partial == CsumPartial(p.data, p.addr, p.big, 0)
             src == p.src
             dst == p.dst
             len == Len(p.data)
             big == p.big
  <1>1. /\ p.kind \in {"tcp4", "tcp6", "icmp4", "ip4"} /\ p.big \in BOOLEAN /\ p.addr \in Nat
        /\ p.data \in Seq(Bytes) /\ Len(p.data) \in 0 .. Short - 1
        /\ p.kind = "tcp4" => p.src \in [1 .. 4 -> Bytes] /\ p.dst \in [1 .. 4 -> Bytes]
        /\ p.kind = "tcp6" => p.src \in [1 .. 16 -> Bytes] /\ p.dst \in [1 .. 16 -> Bytes]
    BY PacketType
  <1>2. partial \in 0 .. Short - 1 /\ Same(partial, m) /\ m \in Nat
    BY <1>1, PartialSame
  <1>3. Fill(p) = CASE p.kind = "tcp4" -> CsumTcpudpMagic(p.src, p.dst, Len(p.data), ProtoTcp, p.big, partial)
                    [] p.kind = "tcp6" -> CsumIpv6Magic(p.src, p.dst, Len(p.data), ProtoTcp, p.big, partial)
                    [] p.kind = "icmp4" -> CsumFold(partial)
                    [] p.kind = "ip4" -> Short - 1 - DoCsum(p.data, p.addr, p.big)
    BY DEF Fill
  <1> HIDE DEF partial, m
  <1>4. \E c \in 0 .. Short - 1 : Fill(p) = Short - 1 - c /\ Same(c, m + h) /\ h \in Nat
    <2>1. CASE p.kind = "tcp4"
      <3>1. Fill(p) = CsumTcpudpMagic(src, dst, len, ProtoTcp, big, partial)
        BY <1>3, <2>1
      <3> DEFINE g == Header4(src, dst, len)
      <3>2. Pseudo(p) = g
        BY <2>1 DEF Pseudo, Header4
      <3>3. \E c \in 0 .. Short - 1 :
              /\ CsumTcpudpMagic(src, dst, len, ProtoTcp, big, partial) = Short - 1 - c
              /\ Same(c, m + Sum16(g, big)) /\ Sum16(g, big) \in Nat
        <4>1. /\ src \in [1 .. 4 -> Bytes] /\ dst \in [1 .. 4 -> Bytes]
              /\ len \in 0 .. Short - 1 /\ big \in BOOLEAN /\ partial \in 0 .. Short - 1 /\ Same(partial, m)
          BY <1>1, <1>2, <2>1
        <4> HIDE DEF src, dst, len, big
        <4>2. QED BY <4>1, Tcp4Same
      <3> HIDE DEF g
      <3>4. QED BY <3>1, <3>2, <3>3
    <2>2. CASE p.kind = "tcp6"
      <3>1. Fill(p) = CsumIpv6Magic(src, dst, len, ProtoTcp, big, partial)
        BY <1>3, <2>2
      <3> DEFINE g == src \o dst \o Int32(len) \o Int32(ProtoTcp)
      <3>2. Pseudo(p) = g
        BY <2>2 DEF Pseudo
      <3>3. \E c \in 0 .. Short - 1 :
              /\ CsumIpv6Magic(src, dst, len, ProtoTcp, big, partial) = Short - 1 - c
              /\ Same(c, m + Sum16(g, big)) /\ Sum16(g, big) \in Nat
        <4>1. /\ src \in [1 .. 16 -> Bytes] /\ dst \in [1 .. 16 -> Bytes]
              /\ len \in 0 .. Short - 1 /\ big \in BOOLEAN /\ partial \in 0 .. Short - 1 /\ Same(partial, m)
          BY <1>1, <1>2, <2>2
        <4> HIDE DEF src, dst, len, big
        <4>2. QED BY <4>1, Tcp6Same
      <3> HIDE DEF g
      <3>4. QED BY <3>1, <3>2, <3>3
    <2>3. ASSUME p.kind \in {"icmp4", "ip4"} PROVE h = 0 /\ m + h = m
      <3>1. Pseudo(p) = <<>>
        BY <2>3 DEF Pseudo
      <3>2. <<>> \in Seq(Bytes) /\ Len(<<>>) = 0 /\ (0 + 1) \div 2 = 0 /\ 0 \in 0 .. 1
        OBVIOUS
      <3>3. PartialSums(<<>>, 0, p.big)[0] = 0
        BY <1>1, <3>2, PartialSumsAre
      <3>4. h = 0
        BY <3>1, <3>2, <3>3 DEF Sum16
      <3>5. QED BY <1>2, <3>4
    <2>4. CASE p.kind = "icmp4"
      <3> DEFINE c == From32To16(partial)
      <3>1. Fill(p) = Short - 1 - c
        BY <1>3, <2>4 DEF CsumFold
      <3>2. partial \in Nat /\ partial < Word
        BY <1>2, Sizes, WordBig
      <3>3. c \in 0 .. Short - 1 /\ Same(c, partial)
        BY <3>2, From32To16Same
      <3> HIDE DEF c
      <3>4. Same(c, m)
        BY <1>2, <3>3, SameTrans
      <3>5. h \in Nat /\ m + h = m
        BY <2>3, <2>4
      <3>6. QED BY <3>1, <3>3, <3>4, <3>5
    <2>5. CASE p.kind = "ip4"
      <3> DEFINE c == DoCsum(p.data, p.addr, p.big)
      <3>1. Fill(p) = Short - 1 - c
        BY <1>3, <2>5
      <3>2. c \in 0 .. Short - 1 /\ Same(c, m)
        BY <1>1, DoCsumSame DEF m
      <3> HIDE DEF c
      <3>3. h \in Nat /\ m + h = m
        BY <2>3, <2>5
      <3>4. QED BY <3>1, <3>2, <3>3
    <2>6. QED BY <1>1, <2>1, <2>2, <2>4, <2>5
  <1> HIDE DEF h
  <1>5. PICK c \in 0 .. Short - 1 : Fill(p) = Short - 1 - c /\ Same(c, m + h) /\ h \in Nat
    BY <1>4
  <1> DEFINE f == Fill(p)
  <1>6. f \in 0 .. Short - 1 /\ (m + h) + f > 0 /\ ((m + h) + f) % (Short - 1) = 0
    BY <1>5, Complement
  <1> HIDE DEF f
  <1>7. (m + h) + f = h + m + f
    BY <1>2, <1>5, <1>6
  <1>8. QED BY <1>6, <1>7 DEF ChecksumRight, h, m, f
=============================================================================
