----------------------------- MODULE EvdpNative -----------------------------
(***************************************************************************)
(* The event queue on the drivers outside Linux: EvdpKevent or EvdpPort,   *)
(* whichever the library was built with, and what the two promise.         *)
(***************************************************************************)
EXTENDS EvdpKevent, EvdpPort

NativeInit == HandleInit /\ KeventInit /\ PortInit

NativeNext ==
  /\ \/ driver = "kevent" /\ KeventNext /\ UNCHANGED portVars
     \/ driver = "port" /\ PortNext /\ UNCHANGED keventVars
  /\ UNCHANGED fixedVars

\* The types of the state of both drivers; the counters never go below zero.
NativeTypeOK == KeventTypeOK /\ PortTypeOK

nativeVars == <<queueVars, handleVars, fixedVars, keventVars, portVars>>

NativeLoop ==
  /\ \/ driver = "kevent" /\ (KRound \/ KHandling) /\ UNCHANGED portVars
     \/ driver = "port" /\ PRound /\ UNCHANGED keventVars
  /\ UNCHANGED fixedVars

\* Callbacks return, and the loop goes on while it can.
NativeSpec == NativeInit /\ [][NativeNext]_nativeVars /\ WF_nativeVars(NativeLoop)

(***************************************************************************)
(* The books of the queue under both drivers: types, and counters that     *)
(* match the lists, also for a source with two changes in one batch.       *)
(***************************************************************************)
NativeSound == NativeTypeOK /\ StatsExact

(***************************************************************************)
(* What the client asked for is watched by the kernel, waits in the batch, *)
(* or is on its way there (kevent: filters and timers; event_port:         *)
(* associations).                                                          *)
(***************************************************************************)
InterestWatched == FilterWatched /\ TimerGoesOn /\ InterestAssociated

(***************************************************************************)
(* The kqueue and the port hold nothing of a source that is detached, even *)
(* if the wait that made its changes or an association failed.             *)
(***************************************************************************)
NothingStray == NoStrayFilter /\ NoStrayAssociation

(***************************************************************************)
(* A handler that evdp_source_os_fd_handle of either driver calls is set,  *)
(* and was asked for since its last call.                                  *)
(***************************************************************************)
HandlersAsked == HandlerSet /\ CalledWhenAsked
=============================================================================
