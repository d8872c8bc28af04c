----------------------------- MODULE MCStartup -----------------------------
(* An instance of Startup for TLC; the constants are in Startup.cfg.        *)
EXTENDS Startup
=============================================================================
