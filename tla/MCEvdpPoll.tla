----------------------------- MODULE MCEvdpPoll -----------------------------
\* Small instances of EvdpPoll for TLC.
EXTENDS EvdpPoll

CONSTANTS a, b, c

OneshotAndReadOnly == {(a :> "os") @@ (b :> "ro")}
FdsAndATimer == {(a :> "os") @@ (b :> "ro") @@ (c :> timer) : timer \in {"abs", "itm"}}
=============================================================================
