-------------------------- MODULE MCConnectionMgr --------------------------
(* Instances of ConnectionMgr for TLC.  One client runs at a time.  Devices *)
(* fail while there is no wait-for client; the device in recovery mode is   *)
(* plugged in only for that client, which must not be answered by it.       *)
EXTENDS ConnectionMgr

Instances ==
  IF selector = "none" THEN plugged' \subseteq Devices \ Recovery ELSE fails' = 0

MCSpec ==
  Init /\ (track = "over" \/ wait = "over") /\ [][Next /\ Instances]_vars /\ Fairness
=============================================================================
