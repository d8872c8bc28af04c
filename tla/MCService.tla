----------------------------- MODULE MCService -----------------------------
(* An instance of Service for TLC; the constants are in Service.cfg.        *)
EXTENDS Service
=============================================================================
