--------------------------- MODULE MCShutdownGate ---------------------------
(* Small instances of ShutdownGate for TLC.                                *)
EXTENDS ShutdownGate

CONSTANTS o1, o2, d1, d2

TwoOpeners == {o1, o2}
TwoDestroyers == {d1, d2}
OneOpener == {o1}
OneDestroyer == {d1}
=============================================================================
