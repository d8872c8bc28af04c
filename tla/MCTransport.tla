---------------------------- MODULE MCTransport ----------------------------
(* An instance of Transport for TLC: one task with its socket, against the  *)
(* reader and a closer.                                                     *)
EXTENDS Transport
=============================================================================
