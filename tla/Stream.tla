------------------------------- MODULE Stream -------------------------------
(***************************************************************************)
(* What a socket of a transport promises to the code that uses it: two     *)
(* byte streams between the host and the device, each with a window, and   *)
(* how they end.  Socket implements it (StreamImplemented); Service is     *)
(* built on it.                                                            *)
(***************************************************************************)
EXTENDS Naturals

CONSTANTS
  DevWindow,   \* bytes the device lets the host write ahead of it
  HostWindow   \* bytes the host lets the device write ahead of it

VARIABLES
  reader,      \* the host's reading end: off (not open, failed or dropped), on, eof
  hostClosed,  \* the host has closed the socket
  devClosed,   \* the device has closed its end, or never opened it
  known,       \* the host has learnt that the device closed first
  failed,      \* the transport has failed
  wrote,       \* bytes the host has written
  devGot,      \* of these, bytes the device has received
  devWrote,    \* bytes the device has written
  read         \* of these, bytes the host has read

ends == <<reader, hostClosed, devClosed, known, failed>>
flow == <<wrote, devGot, devWrote, read>>
vars == <<ends, flow>>

Init ==
  /\ reader = "off" /\ hostClosed = FALSE /\ devClosed = FALSE /\ known = FALSE
  /\ failed = FALSE /\ wrote = 0 /\ devGot = 0 /\ devWrote = 0 /\ read = 0

Open ==
  /\ reader = "off" /\ ~hostClosed /\ reader' = "on"
  /\ UNCHANGED <<hostClosed, devClosed, known, failed, flow>>

Write ==
  /\ ~failed /\ ~hostClosed /\ ~known /\ wrote' \in wrote + 1 .. devGot + DevWindow
  /\ UNCHANGED <<ends, devGot, devWrote, read>>

DevGet ==
  /\ ~failed /\ ~devClosed /\ devGot' \in devGot + 1 .. wrote
  /\ UNCHANGED <<ends, wrote, devWrote, read>>

DevWrite ==
  /\ ~failed /\ ~devClosed /\ devWrote' \in devWrote + 1 .. read + HostWindow
  /\ UNCHANGED <<ends, wrote, devGot, read>>

Read ==
  /\ ~failed /\ reader = "on" /\ read' \in read + 1 .. devWrote
  /\ UNCHANGED <<ends, wrote, devGot, devWrote>>

\* End of file: after the last byte, unless the host closed the socket itself.
Eof ==
  /\ ~failed /\ reader = "on" /\ (hostClosed \/ (known /\ read = devWrote))
  /\ reader' = "eof"
  /\ UNCHANGED <<hostClosed, devClosed, known, failed, flow>>

\* The host shuts the socket down when the device has all that was written.
\* The device is to close both directions.
Shutdown ==
  /\ ~failed /\ ~hostClosed /\ ~known /\ devGot = wrote /\ hostClosed' = TRUE
  /\ UNCHANGED <<reader, devClosed, known, failed, flow>>

\* The host drops the socket, which closes it if nobody has.
Drop ==
  /\ reader' = "off" /\ hostClosed' = (hostClosed \/ ~(known \/ failed))
  /\ UNCHANGED <<devClosed, known, failed, flow>>

DevClose ==
  /\ ~failed /\ ~devClosed /\ devClosed' = TRUE
  /\ UNCHANGED <<reader, hostClosed, known, failed, flow>>

Learn ==
  /\ ~failed /\ devClosed /\ ~hostClosed /\ known' = TRUE
  /\ UNCHANGED <<reader, hostClosed, devClosed, failed, flow>>

\* The transport fails, and a pending read may be the one that finds out.
Fail ==
  /\ failed' = TRUE /\ reader' \in {reader, "off"}
  /\ UNCHANGED <<hostClosed, devClosed, known, flow>>

Next ==
  \/ Open \/ Write \/ Read \/ Eof \/ Shutdown \/ Drop
  \/ DevGet \/ DevWrite \/ DevClose \/ Learn \/ Fail

Spec == Init /\ [][Next]_vars

=============================================================================
