------------------------------ MODULE TimerAbs ------------------------------
(***************************************************************************)
(* What a user timer promises, whatever it is built from: a point the      *)
(* client armed for a timestamp fires once, not before that timestamp, one *)
(* callback at a time; a cancelled point does not fire.                    *)
(***************************************************************************)
EXTENDS Integers

CONSTANTS Points, NoPoint, MaxTime

VARIABLES
  now,     \* the clock
  sched,   \* the timestamp a point is armed for, or -1
  firing   \* the point whose callback is running, or NoPoint

vars == <<now, sched, firing>>

Armed(p) == sched[p] # -1

Init == now = 0 /\ sched = [p \in Points |-> -1] /\ firing = NoPoint

Arm(p, t) ==
  /\ sched' = [sched EXCEPT ![p] = t]
  /\ UNCHANGED <<now, firing>>

Cancel(S) ==
  /\ sched' = [p \in Points |-> IF p \in S THEN -1 ELSE sched[p]]
  /\ UNCHANGED <<now, firing>>

Fire(p) ==
  /\ firing = NoPoint /\ Armed(p) /\ sched[p] <= now
  /\ firing' = p
  /\ sched' = [sched EXCEPT ![p] = -1]
  /\ UNCHANGED now

\* A callback returns; FREE also cancels what it armed for itself.
Return ==
  /\ firing # NoPoint /\ firing' = NoPoint
  /\ \/ UNCHANGED sched
     \/ sched' = [sched EXCEPT ![firing] = -1]
  /\ UNCHANGED now

Tick == now < MaxTime /\ now' = now + 1 /\ UNCHANGED <<sched, firing>>

Next ==
  \/ \E p \in Points, t \in 0 .. MaxTime : Arm(p, t)
  \/ \E p \in Points : Fire(p) \/ Cancel({p})
  \/ Cancel(Points)
  \/ Return \/ Tick

Spec == Init /\ [][Next]_vars
=============================================================================
