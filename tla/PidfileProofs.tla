--------------------------- MODULE PidfileProofs ---------------------------
(***************************************************************************)
(* Proofs about the pid file, for any number of processes and files.       *)
(*                                                                         *)
(* DaemonSound is not inductive.  That two daemons exclude each other      *)
(* rests on the lock that every process past SetLk holds on the inode of   *)
(* its descriptor (LockInv), and on all descriptors of processes that are  *)
(* not about to end being of the inode at the path (PathInv).  That the    *)
(* file names the daemon, and that a blocked caller reads that name, rests *)
(* on the offset of a descriptor that was not read or written yet          *)
(* (OffsetInv).                                                            *)
(*                                                                         *)
(* Each theorem names the liberties it excludes: PathInv needs the file to *)
(* stay while others have it open, OffsetInv needs that neb_pidfile_write  *)
(* is not called again after it has read the pid.                          *)
(***************************************************************************)
EXTENDS Pidfile, TLAPS

NoUnlink == "unlink" \notin Liberties
NoRetry == "retry" \notin Liberties

Holding == {"locked", "truncated", "running", "failed", "leaving"}
Unread == {"out", "opened", "locked", "truncated"} \cup Reading

LockInv ==
  /\ \A p \in Procs : fd[p] = None <=> pc[p] \in {"out", "gone"}
  /\ \A p \in Procs : pc[p] \in Holding => lock[fd[p]] = p

PathInv == NoUnlink =>
  \A p \in Procs : fd[p] # None /\ pc[p] # "leaving" => fd[p] = path

OffsetInv == NoRetry => \A p \in Procs : pc[p] \in Unread => ~offset[p]

ContentInv == NoRetry => Published

IInv == TypeOK /\ LockInv /\ PathInv /\ OffsetInv /\ ContentInv

-----------------------------------------------------------------------------
\* Before any process has opened the file the inductive invariant holds.
LEMMA InitIInv == Init => IInv
  BY PidfileConstants DEF Init, IInv, TypeOK, LockInv, PathInv, OffsetInv, ContentInv,
     Published, Holding, Reading, APIs

\* A descriptor that is open is of an inode.
LEMMA OpenFd ==
  ASSUME IInv, NEW p \in Procs, pc[p] \notin {"out", "gone"}
  PROVE  fd[p] \in Inodes
  BY DEF IInv, TypeOK, LockInv

\* openat with O_CREAT preserves it.
LEMMA OpenIInv ==
  ASSUME IInv, NEW p \in Procs, NEW a \in APIs, Open(p, a)
  PROVE  IInv'
  <1> USE DEF IInv, Open, Step
  <1>1. PICK i \in Inodes :
          /\ IF path = None THEN i \notin used ELSE i = path
          /\ path' = i /\ used' = used \cup {i}
          /\ fd' = [fd EXCEPT ![p] = i]
    OBVIOUS
  <1>2. TypeOK'
    BY <1>1 DEF TypeOK
  <1>3. LockInv'
    BY <1>1, PidfileConstants DEF LockInv, TypeOK, Holding
  <1>4. PathInv'
    BY <1>1 DEF PathInv, TypeOK
  <1>5. OffsetInv'
    BY DEF OffsetInv, TypeOK, Unread
  <1>6. ContentInv'
    BY <1>1 DEF ContentInv, Published, TypeOK
  <1>7. QED BY <1>2, <1>3, <1>4, <1>5, <1>6

\* F_GETLK of neb_pidfile_open preserves it.
LEMMA GetLkIInv ==
  ASSUME IInv, NEW p \in Procs, GetLk(p)
  PROVE  IInv'
  <1> USE DEF IInv, GetLk, Blocked, Step, fileVars, procVars
  <1>1. TypeOK'
    BY DEF TypeOK, Reading
  <1>2. LockInv'
    BY DEF LockInv, TypeOK, Holding
  <1>3. PathInv'
    BY DEF PathInv, TypeOK
  <1>4. OffsetInv'
    BY DEF OffsetInv, TypeOK, Unread
  <1>5. ContentInv'
    BY DEF ContentInv, Published, TypeOK
  <1>6. QED BY <1>1, <1>2, <1>3, <1>4, <1>5

\* F_SETLK preserves it: a process takes the lock of its inode only when no other has
\* it, and its descriptor was not read since open.
LEMMA SetLkIInv ==
  ASSUME IInv, NEW p \in Procs, SetLk(p)
  PROVE  IInv'
  <1> USE DEF IInv
  <1>0. pc[p] \in {"checked", "failed", "opened"} /\ MayLock(p) /\ fd[p] \in Inodes
    BY OpenFd DEF SetLk, MayLock
  <1>1. CASE Blocked(p, IF api[p] = "pidlock" THEN "open_blocked" ELSE "write_blocked")
    <2> USE DEF Blocked, fileVars, procVars
    <2>1. TypeOK'
      BY <1>1 DEF TypeOK, Reading
    <2>2. LockInv'
      BY <1>0, <1>1 DEF LockInv, TypeOK, Holding
    <2>3. PathInv'
      BY <1>0, <1>1 DEF PathInv, TypeOK
    <2>4. OffsetInv'
      BY <1>0, <1>1 DEF OffsetInv, TypeOK, Unread, MayLock, NoRetry
    <2>5. ContentInv'
      BY <1>0, <1>1 DEF ContentInv, Published, TypeOK
    <2>6. QED BY <2>1, <2>2, <2>3, <2>4, <2>5
  <1>2. CASE /\ ~LockedByOther(p)
             /\ lock' = [lock EXCEPT ![fd[p]] = p]
             /\ pc' = [pc EXCEPT ![p] = "locked"]
             /\ UNCHANGED <<path, used, content, procVars>>
    <2> USE DEF procVars
    <2>1. TypeOK'
      BY <1>0, <1>2 DEF TypeOK, Reading
    <2>2. LockInv'
      BY <1>0, <1>2, PidfileConstants DEF LockInv, TypeOK, Holding, LockedByOther
    <2>3. PathInv'
      BY <1>0, <1>2 DEF PathInv, TypeOK
    <2>4. OffsetInv'
      BY <1>0, <1>2 DEF OffsetInv, TypeOK, Unread, MayLock, NoRetry
    <2>5. ContentInv'
      BY <1>0, <1>2 DEF ContentInv, Published, TypeOK
    <2>6. QED BY <2>1, <2>2, <2>3, <2>4, <2>5
  <1>3. QED BY <1>1, <1>2 DEF SetLk

\* Processes past SetLk that have the same inode open are the same process.
LEMMA LockExcludes ==
  ASSUME IInv, NEW p \in Procs, NEW q \in Procs,
         pc[p] \in Holding, pc[q] \in Holding, fd[p] = fd[q]
  PROVE  p = q
  BY DEF IInv, LockInv

\* ftruncate of set_pid preserves it: it empties no file of a running daemon.
LEMMA TruncateIInv ==
  ASSUME IInv, NEW p \in Procs, Truncate(p)
  PROVE  IInv'
  <1> USE DEF IInv, Truncate, Step, procVars
  <1>1. TypeOK'
    BY DEF TypeOK
  <1>2. LockInv'
    BY DEF LockInv, TypeOK, Holding
  <1>3. PathInv'
    BY DEF PathInv, TypeOK
  <1>4. OffsetInv'
    BY DEF OffsetInv, TypeOK, Unread
  <1>5. ContentInv'
    BY LockExcludes DEF ContentInv, Published, TypeOK, Holding
  <1>6. QED BY <1>1, <1>2, <1>3, <1>4, <1>5

\* write of set_pid preserves it: at offset 0 it leaves the pid in the file.
LEMMA WritePidIInv ==
  ASSUME IInv, NEW p \in Procs, WritePid(p)
  PROVE  IInv'
  <1> USE DEF IInv, WritePid, Step
  <1>0. fd[p] \in Inodes
    BY OpenFd
  <1>1. TypeOK'
    BY DEF TypeOK
  <1>2. LockInv'
    BY DEF LockInv, TypeOK, Holding
  <1>3. PathInv'
    BY DEF PathInv, TypeOK
  <1>4. OffsetInv'
    BY DEF OffsetInv, TypeOK, Unread, Reading
  <1>5. ContentInv'
    BY <1>0, LockExcludes DEF ContentInv, Published, TypeOK, Holding, OffsetInv, Unread
  <1>6. QED BY <1>1, <1>2, <1>3, <1>4, <1>5

\* An error of set_pid preserves it.
LEMMA WriteFailsIInv ==
  ASSUME IInv, NEW p \in Procs, WriteFails(p)
  PROVE  IInv'
  <1> USE DEF IInv, WriteFails, fileVars, procVars
  <1>1. TypeOK'
    BY DEF TypeOK
  <1>2. LockInv'
    BY DEF LockInv, TypeOK, Holding
  <1>3. PathInv'
    BY DEF PathInv, TypeOK
  <1>4. OffsetInv'
    BY DEF OffsetInv, TypeOK, Unread, Reading
  <1>5. ContentInv'
    BY DEF ContentInv, Published, TypeOK
  <1>6. QED BY <1>1, <1>2, <1>3, <1>4, <1>5

\* So does a write that was cut short, on a descriptor that is not written again.
LEMMA WritePartIInv ==
  ASSUME IInv, NEW p \in Procs, WritePart(p)
  PROVE  IInv'
  <1> USE DEF IInv, WritePart
  <1>1. TypeOK'
    BY DEF TypeOK
  <1>2. LockInv'
    BY DEF LockInv, TypeOK, Holding
  <1>3. PathInv'
    BY DEF PathInv, TypeOK
  <1>4. OffsetInv'
    BY DEF OffsetInv, TypeOK, Unread, Reading
  <1>5. ContentInv'
    BY LockExcludes DEF ContentInv, Published, TypeOK, Holding
  <1>6. QED BY <1>1, <1>2, <1>3, <1>4, <1>5

\* get_pid preserves it.
LEMMA ReportLockerIInv ==
  ASSUME IInv, NEW p \in Procs, ReportLocker(p)
  PROVE  IInv'
  <1> USE DEF IInv, ReportLocker, fileVars
  <1>1. TypeOK'
    BY DEF TypeOK, get_pid
  <1>2. LockInv'
    BY DEF LockInv, TypeOK, Holding, Reading
  <1>3. PathInv'
    BY DEF PathInv, TypeOK, Reading
  <1>4. OffsetInv'
    BY DEF OffsetInv, TypeOK, Unread, Reading
  <1>5. ContentInv'
    BY DEF ContentInv, Published, TypeOK, Reading
  <1>6. QED BY <1>1, <1>2, <1>3, <1>4, <1>5

\* The end of a descriptor, by close or with its process, preserves it.
LEMMA ReleaseIInv ==
  ASSUME IInv, NEW p \in Procs, NEW to \in {"out", "gone"}, Release(p, to)
  PROVE  IInv'
  <1> USE DEF IInv, Release
  <1>1. TypeOK'
    BY DEF TypeOK
  <1>2. LockInv'
    BY DEF LockInv, TypeOK, Holding
  <1>3. PathInv'
    BY DEF PathInv, TypeOK
  <1>4. OffsetInv'
    BY DEF OffsetInv, TypeOK
  <1>5. ContentInv'
    BY DEF ContentInv, Published, TypeOK
  <1>6. QED BY <1>1, <1>2, <1>3, <1>4, <1>5

\* neb_pidfile_remove preserves it: no other process has the file open.
LEMMA RemoveIInv ==
  ASSUME IInv, NEW p \in Procs, Remove(p)
  PROVE  IInv'
  <1> USE DEF IInv, Remove, Step, procVars
  <1>1. TypeOK'
    BY DEF TypeOK
  <1>2. LockInv'
    BY DEF LockInv, TypeOK, Holding
  <1>3. PathInv'
    BY DEF PathInv, TypeOK, NoUnlink
  <1>4. OffsetInv'
    BY DEF OffsetInv, TypeOK, Unread, Reading
  <1>5. ContentInv'
    BY DEF ContentInv, Published, TypeOK
  <1>6. QED BY <1>1, <1>2, <1>3, <1>4, <1>5

\* Every step of every process preserves the inductive invariant.
LEMMA NextIInv == IInv /\ [Next]_vars => IInv'
  <1> SUFFICES ASSUME IInv, [Next]_vars
               PROVE  IInv'
    OBVIOUS
  <1>1. CASE UNCHANGED vars
    BY <1>1 DEF vars, fileVars, procVars, IInv, TypeOK, LockInv, PathInv, OffsetInv,
       ContentInv, Published
  <1>2. ASSUME NEW p \in Procs, Close(p) PROVE IInv'
    BY <1>2, ReleaseIInv DEF Close
  <1>3. ASSUME NEW p \in Procs, Crash(p) PROVE IInv'
    BY <1>3, ReleaseIInv DEF Crash
  <1>4. QED
    BY <1>1, <1>2, <1>3, OpenIInv, GetLkIInv, SetLkIInv, TruncateIInv, WritePidIInv,
       WriteFailsIInv, WritePartIInv, ReportLockerIInv, RemoveIInv DEF Next

\* The inductive invariant holds always, whatever the liberties.
LEMMA InvariantHolds == Spec => []IInv
  BY InitIInv, NextIInv, PTL DEF Spec
-----------------------------------------------------------------------------
\* Whatever the callers of pidfile.c do, even remove the file while it is open or retry
\* neb_pidfile_write: no two daemons run on the same file.
THEOREM OneDaemonPerFile ==
  Spec => [](\A p, q \in Procs :
               pc[p] = "running" /\ pc[q] = "running" /\ fd[p] = fd[q] => p = q)
  <1>1. IInv => \A p, q \in Procs :
                  pc[p] = "running" /\ pc[q] = "running" /\ fd[p] = fd[q] => p = q
    BY LockExcludes DEF Holding
  <1>2. QED BY <1>1, InvariantHolds, PTL

\* When neb_pidfile_remove waits until no other process has the file open,
\* neb_pidfile_write and neb_pidlock succeed for one process at a time.
THEOREM DaemonAlone == NoUnlink => (Spec => []OneDaemon)
  <1> SUFFICES ASSUME NoUnlink PROVE Spec => []OneDaemon
    OBVIOUS
  <1>1. IInv => OneDaemon
    <2> SUFFICES ASSUME IInv, NEW p \in Procs, NEW q \in Procs,
                        pc[p] = "running", pc[q] = "running"
                 PROVE  p = q
      BY DEF OneDaemon
    <2>1. fd[p] = path /\ fd[q] = path
      BY DEF IInv, PathInv, LockInv
    <2>2. QED BY <2>1, LockExcludes DEF Holding
  <1>2. QED BY <1>1, InvariantHolds, PTL

\* When neb_pidfile_write is not retried on a descriptor it has read the pid from, the
\* file of a running daemon names it, through every crash of other processes.
THEOREM DaemonPublished == NoRetry => (Spec => []Published)
  <1> SUFFICES ASSUME NoRetry PROVE Spec => []Published
    OBVIOUS
  <1>1. IInv => Published
    BY DEF IInv, ContentInv
  <1>2. QED BY <1>1, InvariantHolds, PTL

\* What the run checks: without both liberties the pid file does what it is for.
THEOREM PidfileSound == NoUnlink /\ NoRetry => (Spec => []DaemonSound)
  <1> SUFFICES ASSUME NoUnlink, NoRetry PROVE Spec => []DaemonSound
    OBVIOUS
  <1>1. IInv => TypeOK
    BY DEF IInv
  <1>2. TypeOK /\ OneDaemon /\ Published => DaemonSound
    BY DEF DaemonSound
  <1>3. QED BY <1>1, <1>2, InvariantHolds, DaemonAlone, DaemonPublished, PTL

\* A step of get_pid in a caller that is blocked while a daemon runs on the same file
\* answers that daemon's pid; no other step returns from a blocked call.
THEOREM BlockedCallerTold == NoRetry => (Spec => RunningReported)
  <1> SUFFICES ASSUME NoRetry PROVE Spec => RunningReported
    OBVIOUS
  <1> DEFINE Told == \A p, q \in Procs :
               (/\ pc[p] \in Reading /\ pc'[p] \in {"closing", "checked"}
                /\ pc[q] = "running" /\ fd[q] = fd[p])
               => answer'[p] = q
  <1>1. IInv /\ [Next]_vars => [Told]_vars
    <2> SUFFICES ASSUME IInv, Next, NEW p \in Procs, NEW q \in Procs,
                        pc[p] \in Reading, pc'[p] \in {"closing", "checked"},
                        pc[q] = "running", fd[q] = fd[p]
                 PROVE  answer'[p] = q
      BY DEF vars
    <2>1. ~offset[p] /\ content[fd[p]] = q
      BY DEF IInv, OffsetInv, Unread, ContentInv, Published
    <2>2. ReportLocker(p)
      BY DEF Next, Open, GetLk, SetLk, MayLock, Blocked, Truncate, WritePid, WriteFails, WritePart,
         ReportLocker, Close, Remove, Crash, Release, Step, Reading, IInv, TypeOK
    <2>3. get_pid(p) = {q}
      BY <2>1 DEF get_pid
    <2>4. QED
      BY <2>2, <2>3 DEF ReportLocker, IInv, TypeOK
  <1>2. QED
    BY <1>1, InvariantHolds, PTL DEF RunningReported, Spec
=============================================================================
