------------------------------ MODULE MCSocket ------------------------------
(* Instances of Socket for TLC; the constants are in the Socket_*.cfg files. *)
EXTENDS SocketInv
=============================================================================
