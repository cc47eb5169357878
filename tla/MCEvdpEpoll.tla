---------------------------- MODULE MCEvdpEpoll ----------------------------
\* Small instances of EvdpEpoll for TLC.
EXTENDS EvdpEpoll, TLC

CONSTANTS a, b, c

OneshotAndReadOnly == {(a :> "os") @@ (b :> "ro")}
OneshotAndAbstimer == {(a :> "os") @@ (b :> "abs")}
OneshotAndTimers == {(a :> "os") @@ (b :> "abs") @@ (c :> "itm")}
=============================================================================
