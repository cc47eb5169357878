---------------------------- MODULE MCNebThread ----------------------------
(***************************************************************************)
(* Small instances of NebThread for TLC.                                   *)
(***************************************************************************)
EXTENDS NebThread

CONSTANTS t1, t2

MCThreads == {t1, t2}
=============================================================================
