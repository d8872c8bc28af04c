----------------------------- MODULE MCReverse -----------------------------
(* Instances of Reverse for TLC: many commands and one inbound connection,  *)
(* or few commands and enough connections to fill the channel.              *)
EXTENDS Reverse

Mix == cmds' <= 2 \/ Len(inbound') <= 1

MCSpec == Init /\ [][Next /\ Mix]_vars /\ Fairness
=============================================================================
