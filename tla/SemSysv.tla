------------------------------ MODULE SemSysv ------------------------------
(***************************************************************************)
(* The inter-process semaphores of src/sem_sysv.c.  A process creates a    *)
(* set and hands its id down to the processes it forks.  Systems with      *)
(* semtimedop wait in the kernel; the others try every millisecond.        *)
(***************************************************************************)
EXTENDS Integers, FiniteSets

CONSTANTS
  Procs,
  Subs,          \* the semaphores of a set; the last is used for wait_removed only
  MaxSets,       \* bound: sets created
  MaxValue,      \* bound: the value of a semaphore
  TicksPerMs,    \* the unit of timeouts
  MaxTimeout,    \* bound: the timeout of a wait, in ticks
  MaxInterrupts  \* bound: waits interrupted by a signal

ASSUME SemConstants ==
  /\ IsFiniteSet(Subs) /\ Subs = 0 .. Cardinality(Subs) - 1 /\ Cardinality(Subs) > 1
  /\ {MaxSets, MaxValue, MaxTimeout, MaxInterrupts} \subseteq Nat /\ TicksPerMs \in Nat \ {0}

VARIABLES
  bsd,           \* no semtimedop
  made,          \* the sets created so far: the ids are 1 .. made
  live,          \* the id of the set that exists, or 0
  val,           \* its values
  call,          \* the wait each process is in
  res,           \* what the last wait that returned was and returned
  due,           \* history: of each semaphore, posts less what successful waits took
  interrupts     \* history

semVars == <<bsd, made, live, val, call, res, due, interrupts>>

IdleSub == Cardinality(Subs) - 1
Ops == {"count", "zeroed", "removed"}
NoCall == [op |-> "none", id |-> 0, sub |-> 0, count |-> 0, left |-> 0, short |-> FALSE]
NoResult == [op |-> "none", id |-> 0, ok |-> FALSE, timedout |-> FALSE, short |-> FALSE]

SemInit ==
  /\ bsd \in BOOLEAN /\ made = 0 /\ live = 0 /\ val = [s \in Subs |-> 0]
  /\ call = [p \in Procs |-> NoCall] /\ res = NoResult
  /\ due = [s \in Subs |-> 0] /\ interrupts = 0

\* neb_sem_proc_create: with IPC_EXCL it fails while the set exists.  The kernel zeroes
\* a new set; the loop zeroes its first semaphore, again and again.
SemCreate ==
  /\ live = 0 /\ made < MaxSets
  /\ made' = made + 1 /\ live' = made'
  /\ val' = [s \in Subs |-> 0] /\ due' = val'
  /\ UNCHANGED <<bsd, call, res, interrupts>>

\* neb_sem_proc_destroy
SemDestroy ==
  /\ live # 0 /\ live' = 0
  /\ val' = [s \in Subs |-> 0] /\ due' = val'
  /\ UNCHANGED <<bsd, made, call, res, interrupts>>

\* neb_sem_proc_setval; the client starts counting from there.
SemSetval(s, v) ==
  /\ live # 0 /\ s # IdleSub /\ v # val[s]
  /\ val' = [val EXCEPT ![s] = v]
  /\ due' = [due EXCEPT ![s] = v]
  /\ UNCHANGED <<bsd, made, live, call, res, interrupts>>

\* neb_sem_proc_post
SemPost(s) ==
  /\ live # 0 /\ s # IdleSub /\ val[s] < MaxValue
  /\ val' = [val EXCEPT ![s] = @ + 1] /\ due' = [due EXCEPT ![s] = @ + 1]
  /\ UNCHANGED <<bsd, made, live, call, res, interrupts>>

-----------------------------------------------------------------------------
(***************************************************************************)
(* Waiting.                                                                *)
(***************************************************************************)
\* Mutant: what is below a millisecond is cut off.
BugPolls(ticks) == ticks \div TicksPerMs

\* How often a system without semtimedop tries: the timeout in milliseconds, rounded up.
Polls(ticks) == (ticks \div TicksPerMs) + (IF ticks % TicksPerMs # 0 THEN 1 ELSE 0)

\* A process calls neb_sem_proc_wait_count, _wait_zeroed or _wait_removed, with a valid
\* timeout: the EINVAL of an invalid one would be taken for the removal.
Wait(p, op, s, count, ticks) ==
  /\ call[p] = NoCall /\ made > 0
  /\ op = "removed" <=> s = IdleSub
  /\ op = "count" <=> count > 0
  /\ call' = [call EXCEPT ![p] = [op |-> op, id |-> made, sub |-> s, count |-> count,
                                  left |-> Polls(ticks), short |-> ticks = 0]]
  /\ UNCHANGED <<bsd, made, live, val, res, due, interrupts>>

\* The kernel's view: the set is there, and the operation can be done.
Exists(p) == call[p].id = live
Takes(c) == IF c.op = "removed" THEN 1 ELSE c.count
Possible(p) ==
  LET c == call[p] IN IF c.op = "zeroed" THEN val[c.sub] = 0 ELSE val[c.sub] >= Takes(c)

Returns(p, ok, timedout) ==
  /\ call' = [call EXCEPT ![p] = NoCall]
  /\ res' = [op |-> call[p].op, id |-> call[p].id, ok |-> ok, timedout |-> timedout,
              short |-> ~bsd \/ call[p].short]

\* The system does the operation; one that waited for the removal failed.
WaitDone(p) ==
  /\ call[p] # NoCall /\ Exists(p) /\ Possible(p) /\ (bsd => call[p].left > 0)
  /\ val' = [val EXCEPT ![call[p].sub] = @ - Takes(call[p])]
  /\ Returns(p, call[p].op # "removed", FALSE)
  /\ due' = [due EXCEPT ![call[p].sub] = @ - (IF call[p].op = "removed" THEN 0 ELSE Takes(call[p]))]
  /\ UNCHANGED <<bsd, made, live, interrupts>>

\* Mutant: the tries are not counted.
BugPoll(p) ==
  /\ bsd /\ call[p] # NoCall /\ Exists(p) /\ ~Possible(p) /\ call[p].left > 0
  /\ call' = [call EXCEPT ![p].short = TRUE]
  /\ UNCHANGED <<bsd, made, live, val, res, due, interrupts>>

\* It cannot be done yet: EAGAIN, and a millisecond later another try.
WaitPoll(p) ==
  /\ bsd /\ call[p] # NoCall /\ Exists(p) /\ ~Possible(p) /\ call[p].left > 0
  /\ call' = [call EXCEPT ![p].left = @ - 1, ![p].short = TRUE]
  /\ UNCHANGED <<bsd, made, live, val, res, due, interrupts>>

\* The time is over.
WaitTimesOut(p) ==
  /\ call[p] # NoCall
  /\ IF bsd THEN call[p].left = 0 ELSE Exists(p) /\ ~Possible(p)
  /\ Returns(p, FALSE, TRUE)
  /\ UNCHANGED <<bsd, made, live, val, due, interrupts>>

\* Mutant: every error that ends the wait is taken for the removal.
BugFailsOK(p, removed) == call[p].op = "removed"

\* Of the errors, EINVAL and EIDRM are what neb_sem_proc_wait_removed waits for.
FailsOK(p, removed) == call[p].op = "removed" /\ removed

\* EINVAL or EIDRM.
WaitRemoved(p) ==
  /\ call[p] # NoCall /\ ~Exists(p) /\ (bsd => call[p].left > 0)
  /\ Returns(p, FailsOK(p, TRUE), FALSE)
  /\ UNCHANGED <<bsd, made, live, val, due, interrupts>>

\* Mutant: an interrupted wait is taken for one that is done.
BugInterrupted(p) ==
  /\ call[p] # NoCall /\ Exists(p) /\ ~Possible(p) /\ interrupts < MaxInterrupts
  /\ interrupts' = interrupts + 1
  /\ Returns(p, TRUE, FALSE)
  /\ due' = [due EXCEPT ![call[p].sub] = @ - Takes(call[p])]
  /\ UNCHANGED <<bsd, made, live, val>>

\* EINTR: the wait fails; neb_sem_timedop without semtimedop tries again.
WaitInterrupted(p) ==
  /\ call[p] # NoCall /\ Exists(p) /\ ~Possible(p) /\ interrupts < MaxInterrupts
  /\ (bsd => call[p].left > 0)
  /\ interrupts' = interrupts + 1
  /\ IF bsd /\ call[p].op # "removed" THEN UNCHANGED <<call, res>> ELSE Returns(p, FailsOK(p, FALSE), FALSE)
  /\ UNCHANGED <<bsd, made, live, val, due>>

SemReturns(p) == WaitDone(p) \/ WaitPoll(p) \/ WaitTimesOut(p) \/ WaitRemoved(p)

SemNext ==
  \/ SemCreate \/ SemDestroy
  \/ \E s \in Subs : SemPost(s) \/ \E v \in 0 .. MaxValue : SemSetval(s, v)
  \/ \E p \in Procs :
       \/ \E op \in Ops, s \in Subs, count \in 0 .. MaxValue, ticks \in 0 .. MaxTimeout : Wait(p, op, s, count, ticks)
       \/ SemReturns(p) \/ WaitInterrupted(p)

SemSpec == SemInit /\ [][SemNext]_semVars /\ \A p \in Procs : WF_semVars(SemReturns(p))

-----------------------------------------------------------------------------
(***************************************************************************)
(* A post is either still in the semaphore or was taken by a wait that     *)
(* returned 0, whichever waits timed out, were interrupted or failed.      *)
(***************************************************************************)
PostsAccounted == live # 0 => \A s \in Subs : val[s] = due[s]

\* neb_sem_proc_wait_removed returns 0 only when the set is gone for good.
RemovedIsGone == res.op = "removed" /\ res.ok => res.id # live

\* A wait with a timeout above zero gives up only after it found the semaphore short.
TimeoutTried == res.timedout => res.short

\* Every wait returns, with the set destroyed under it and with signals too.
WaitsEnd == \A p \in Procs : call[p] # NoCall ~> call[p] = NoCall

(***************************************************************************)
(* Waits of several processes on one set: no post is lost or taken twice,  *)
(* removal is reported only when the set is gone, and nobody gives up      *)
(* without having tried.                                                   *)
(***************************************************************************)
SemSound == PostsAccounted /\ RemovedIsGone /\ TimeoutTried
=============================================================================
