------------------------------ MODULE Pidfile ------------------------------
(***************************************************************************)
(* Processes that contend for one pid file (pidfile.c).                    *)
(*                                                                         *)
(* A process becomes the daemon by neb_pidfile_open and neb_pidfile_write, *)
(* or by neb_pidlock.  Every system call is a step, as other processes run *)
(* between them; a process may be killed at any step and its locks then go *)
(* with it.  The pid a blocked caller is told is read from the file.       *)
(*                                                                         *)
(* Liberties are uses that the header does not forbid:                     *)
(*   "retry"   neb_pidfile_write is called again on a descriptor that it   *)
(*             has read the locker from or written part of a pid to;       *)
(*   "unlink"  neb_pidfile_remove while others have the file open.         *)
(***************************************************************************)
EXTENDS Naturals, FiniteSets

CONSTANTS
  Procs,        \* pids; that of a killed process is not used again
  Inodes,       \* bound: files that are created at the path
  Liberties,
  None

ASSUME PidfileConstants ==
  /\ IsFiniteSet(Procs) /\ IsFiniteSet(Inodes)
  /\ None \notin Procs \cup Inodes
  /\ Liberties \subseteq {"retry", "unlink"}

VARIABLES
  path,         \* the inode at the path
  used,         \* inodes created so far
  content,      \* of each inode: the pid in it, or why there is none
  lock,         \* the process with the write lock on each inode
  pc, api, fd,  \* control state, the function called, the inode of the descriptor
  offset,       \* the file offset of the descriptor is not 0
  answer        \* *locker, or what neb_pidfile_write returned

fileVars == <<path, used, content, lock>>
procVars == <<api, fd, offset, answer>>
vars == <<fileVars, pc, procVars>>

APIs == {"pidfile", "pidlock"}
Reading == {"open_blocked", "write_blocked"}   \* get_pid is called next

Init ==
  /\ path = None /\ used = {}
  /\ content = [i \in Inodes |-> "empty"] /\ lock = [i \in Inodes |-> None]
  /\ pc = [p \in Procs |-> "out"]
  /\ api = [p \in Procs |-> "pidfile"] /\ fd = [p \in Procs |-> None]
  /\ offset = [p \in Procs |-> FALSE]
  /\ answer = [p \in Procs |-> None]

Step(p, from, to) == pc[p] = from /\ pc' = [pc EXCEPT ![p] = to]

\* The descriptor of p is closed, by p or with p: the lock goes with it.
Release(p, to) ==
  /\ pc' = [pc EXCEPT ![p] = to]
  /\ lock' = [i \in Inodes |-> IF lock[i] = p THEN None ELSE lock[i]]
  /\ fd' = [fd EXCEPT ![p] = None] /\ offset' = [offset EXCEPT ![p] = FALSE]
  /\ answer' = [answer EXCEPT ![p] = None]
  /\ UNCHANGED <<path, used, content, api>>

LockedByOther(p) == lock[fd[p]] \notin {None, p}
-----------------------------------------------------------------------------
\* Mutant: the file is opened with O_TRUNC.
BugOpenTruncates(p, a) ==
  /\ Step(p, "out", "opened")
  /\ \E i \in Inodes :
       /\ IF path = None THEN i \notin used ELSE i = path
       /\ path' = i /\ used' = used \cup {i}
       /\ fd' = [fd EXCEPT ![p] = i]
       /\ content' = [content EXCEPT ![i] = "empty"]
  /\ api' = [api EXCEPT ![p] = a]
  /\ UNCHANGED <<lock, offset, answer>>

\* open with O_CREAT: the inode at the path, or a new one.
Open(p, a) ==
  /\ Step(p, "out", "opened")
  /\ \E i \in Inodes :
       /\ IF path = None THEN i \notin used ELSE i = path
       /\ path' = i /\ used' = used \cup {i}
       /\ fd' = [fd EXCEPT ![p] = i]
  /\ api' = [api EXCEPT ![p] = a]
  /\ UNCHANGED <<content, lock, offset, answer>>

\* A lock of another process is in the way; who holds it is read next.
Blocked(p, to) ==
  /\ LockedByOther(p)
  /\ pc' = [pc EXCEPT ![p] = to]
  /\ UNCHANGED <<fileVars, procVars>>

\* F_GETLK of neb_pidfile_open; the descriptor is returned when there is no lock.
GetLk(p) ==
  /\ pc[p] = "opened" /\ api[p] = "pidfile"
  /\ \/ Blocked(p, "open_blocked")
     \/ ~LockedByOther(p) /\ Step(p, "opened", "checked") /\ UNCHANGED <<fileVars, procVars>>

\* neb_pidfile_write is called on a descriptor of neb_pidfile_open, or again after it
\* failed; neb_pidlock goes on from openat.
MayLock(p) ==
  \/ pc[p] \in {"checked", "failed"} /\ (offset[p] => "retry" \in Liberties)
  \/ pc[p] = "opened" /\ api[p] = "pidlock"

\* Mutant: only the lock test is relied on.
BugNoLock(p) ==
  /\ MayLock(p) /\ ~LockedByOther(p)
  /\ pc' = [pc EXCEPT ![p] = "locked"]
  /\ UNCHANGED <<fileVars, procVars>>

\* F_SETLK.
SetLk(p) ==
  /\ MayLock(p)
  /\ \/ Blocked(p, IF api[p] = "pidlock" THEN "open_blocked" ELSE "write_blocked")
     \/ /\ ~LockedByOther(p)
        /\ lock' = [lock EXCEPT ![fd[p]] = p]
        /\ pc' = [pc EXCEPT ![p] = "locked"]
        /\ UNCHANGED <<path, used, content, procVars>>

\* set_pid truncates the file ...
Truncate(p) ==
  /\ Step(p, "locked", "truncated")
  /\ content' = [content EXCEPT ![fd[p]] = "empty"]
  /\ UNCHANGED <<path, used, lock, procVars>>

\* ... and writes at the offset of the descriptor, where a read has left it: behind it
\* the pid follows bytes of 0, which are no number.
WritePid(p) ==
  /\ Step(p, "truncated", "running")
  /\ content' = [content EXCEPT ![fd[p]] = IF offset[p] THEN "garbled" ELSE p]
  /\ offset' = [offset EXCEPT ![p] = TRUE]
  /\ UNCHANGED <<path, used, lock, api, fd, answer>>

\* ftruncate or write fails: neb_pidlock closes, neb_pidfile_write returns with the lock.
WriteFails(p) ==
  /\ pc[p] \in {"locked", "truncated"}
  /\ pc' = [pc EXCEPT ![p] = IF api[p] = "pidlock" THEN "closing" ELSE "failed"]
  /\ UNCHANGED <<fileVars, procVars>>

\* "not all data written": part of a pid, the number of some other process, is left.
WritePart(p) ==
  /\ pc[p] = "truncated"
  /\ pc' = [pc EXCEPT ![p] = IF api[p] = "pidlock" THEN "closing" ELSE "failed"]
  /\ content' = [content EXCEPT ![fd[p]] = IF offset[p] THEN "garbled" ELSE "part"]
  /\ offset' = [offset EXCEPT ![p] = TRUE]
  /\ UNCHANGED <<path, used, lock, api, fd, answer>>

\* Mutant: what is no number is not refused.
BugNotRefused(p) == {content[fd[p]]}

\* Mutant: the end of the string is set one byte early.
BugCutsLast(p) == IF content[fd[p]] \in Procs THEN {"garbled"} ELSE {"invalid"}

\* get_pid: the pid in the file, or the part of it that was written.  A descriptor that
\* was read before is at the end of what it found then, and gives nothing or the rest
\* of another pid.
get_pid(p) ==
  IF offset[p] THEN {"invalid", "garbled"}
  ELSE IF content[fd[p]] \in Procs THEN {content[fd[p]]}
  ELSE IF content[fd[p]] = "part" THEN {"garbled"}
  ELSE {"invalid"}

\* A caller that was blocked is told the pid.  neb_pidfile_open and neb_pidlock then
\* close the descriptor, neb_pidfile_write leaves that to its caller.
ReportLocker(p) ==
  /\ pc[p] \in Reading
  /\ \E a \in get_pid(p) : answer' = [answer EXCEPT ![p] = a]
  /\ offset' = [offset EXCEPT ![p] = @ \/ content[fd[p]] # "empty"]
  /\ pc' = [pc EXCEPT ![p] = IF @ = "open_blocked" THEN "closing" ELSE "checked"]
  /\ UNCHANGED <<fileVars, api, fd>>

\* neb_pidfile_close, and the close of the error paths: "lock gone after close".
Close(p) ==
  /\ pc[p] \in {"checked", "closing", "failed", "running", "leaving"}
  /\ Release(p, "out")

\* neb_pidfile_remove by a daemon that is about to end.
Remove(p) ==
  /\ Step(p, "running", "leaving")
  /\ "unlink" \in Liberties \/ \A q \in Procs \ {p} : fd[q] = None
  /\ path' = None
  /\ UNCHANGED <<used, content, lock, procVars>>

Crash(p) ==
  /\ pc[p] \notin {"out", "gone"}
  /\ Release(p, "gone")

Next == \E p \in Procs :
  \/ \E a \in APIs : Open(p, a)
  \/ GetLk(p) \/ SetLk(p) \/ Truncate(p) \/ WritePid(p) \/ WriteFails(p) \/ WritePart(p)
  \/ ReportLocker(p) \/ Close(p) \/ Remove(p) \/ Crash(p)

Spec == Init /\ [][Next]_vars
-----------------------------------------------------------------------------
\* Types of the file system's and the processes' state (pidfile.c).
TypeOK ==
  /\ path \in Inodes \cup {None} /\ used \subseteq Inodes
  /\ content \in [Inodes -> Procs \cup {"empty", "part", "garbled"}]
  /\ lock \in [Inodes -> Procs \cup {None}]
  /\ pc \in [Procs -> Reading \cup {"out", "opened", "checked", "locked", "truncated",
                                    "running", "failed", "closing", "leaving", "gone"}]
  /\ api \in [Procs -> APIs] /\ fd \in [Procs -> Inodes \cup {None}]
  /\ offset \in [Procs -> BOOLEAN]
  /\ answer \in [Procs -> Procs \cup {None, "invalid", "garbled"}]

\* What the pid file is for: neb_pidfile_write returns 0, or neb_pidlock a descriptor,
\* to one process at a time, whatever others are in the middle of.
OneDaemon ==
  \A p, q \in Procs : pc[p] = "running" /\ pc[q] = "running" => p = q

\* While a daemon runs, the file it holds names it: no process that comes too late, and
\* none that was killed before, has touched the file since set_pid.
Published == \A p \in Procs : pc[p] = "running" => content[fd[p]] = p

\* A caller blocked by a daemon that has written its pid, and still runs, is told it.
RunningReported == [][\A p, q \in Procs :
  (/\ pc[p] \in Reading /\ pc'[p] \in {"closing", "checked"}
   /\ pc[q] = "running" /\ fd[q] = fd[p])
  => answer'[p] = q]_vars

(***************************************************************************)
(* Whatever processes open, lock, write, crash and remove in between: at   *)
(* most one daemon runs on a pid file, and the file holds its pid.         *)
(***************************************************************************)
DaemonSound == TypeOK /\ OneDaemon /\ Published
=============================================================================
