-------------------------- MODULE MCSessionServer --------------------------
(* Small instances of SessionServer for TLC.                               *)
EXTENDS SessionServer

CONSTANTS c1, c2

OneClient == {c1}
TwoClients == {c1, c2}
============================================================================
