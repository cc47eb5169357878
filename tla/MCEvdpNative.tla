---------------------------- MODULE MCEvdpNative ----------------------------
\* Small instances of EvdpNative for TLC.
EXTENDS EvdpNative, TLC

CONSTANTS a, b

OneshotAndAnother == {(a :> "os") @@ (b :> k) : k \in {"os", "ro", "abs", "itm"}}
=============================================================================
