------------------------------ MODULE Service ------------------------------
(***************************************************************************)
(* A device service: SmartSocket::run and the first half of handle_service *)
(* (smart_socket/mod.rs and services.rs).  The task copies between the     *)
(* client's TCP connection and a socket of the device, which is the Stream *)
(* that Socket implements, and ends both.                                  *)
(*                                                                         *)
(* socket_to_conn and conn_to_socket are polled side by side by select!;   *)
(* a step is what one of them does without waiting.  TCP is external: it   *)
(* buffers, and it answers bytes that nobody will read with a reset, which *)
(* takes with it what the client has not received.                         *)
(***************************************************************************)
EXTENDS Naturals

CONSTANTS
  DevWindow, HostWindow,  \* windows of the device socket (see Stream)
  TcpBuf,     \* bytes TCP holds on the way to the client
  MaxClient,  \* bound: bytes the client sends
  MaxDevice,  \* bound: bytes the device sends
  MayFail     \* whether the transport may fail

ASSUME ServiceAssumption ==
  /\ DevWindow \in Nat \ {0} /\ HostWindow \in Nat \ {0} /\ TcpBuf \in Nat \ {0}
  /\ MaxClient \in Nat /\ MaxDevice \in Nat /\ MayFail \in BOOLEAN

VARIABLES
  \* The device socket.
  reader, hostClosed, devClosed, known, failed, wrote, devGot, devWrote, read,
  \* The task.
  pc,        \* service, respond, copy, drain, over
  c2s,       \* conn_to_socket: copy, shutdown, done
  sent,      \* bytes written to the TCP connection
  fin,       \* the TCP connection is shut down for writing, or closed
  taken,     \* bytes read from the TCP connection
  timedOut,  \* the read to the end took too long
  \* The client.
  answer,    \* what it was told: none, okay, fail
  clGot,     \* bytes it has received
  clEnd,     \* how its input ended: open, fin, rst
  clSent,    \* bytes it has sent
  clFin      \* its output: no (open), first or after (it was shut down before or
             \* after its input ended), gone (both are closed)

Sock == INSTANCE Stream

sockVars == <<reader, hostClosed, devClosed, known, failed, wrote, devGot, devWrote,
              read>>
taskVars == <<pc, c2s, sent, fin, taken, timedOut>>
clVars   == <<answer, clGot, clEnd, clSent, clFin>>
vars     == <<sockVars, taskVars, clVars>>

Init ==
  /\ Sock!Init
  /\ pc = "service" /\ c2s = "copy" /\ sent = 0 /\ fin = FALSE /\ taken = 0
  /\ timedOut = FALSE /\ answer = "none" /\ clGot = 0 /\ clEnd = "open" /\ clSent = 0
  /\ clFin = "no"

-----------------------------------------------------------------------------
(* Until the client is answered.                                           *)

\* handle_service returns: the task drops the TCP connection.
Hangup ==
  /\ pc' = "over" /\ fin' = TRUE
  /\ clEnd' = IF clSent > taken /\ clFin # "gone" THEN "rst" ELSE clEnd
  /\ UNCHANGED <<c2s, sent, clGot, clSent, clFin>>

\* open_socket returns a socket.
OpenSocket ==
  /\ pc = "service" /\ clFin # "gone" /\ Sock!Open /\ pc' = "respond"
  /\ UNCHANGED <<c2s, sent, fin, taken, timedOut, clVars>>

\* pick_connection, handle_reverse, upgrade or open_socket fails, and run tells
\* the client; or the client has left without asking for anything.
Refuse ==
  /\ pc = "service" /\ Hangup
  /\ answer' = IF clFin = "gone" THEN answer ELSE "fail"
  /\ UNCHANGED <<sockVars, taken, timedOut>>

\* The client gets OKAY.
Respond ==
  /\ pc = "respond" /\ pc' = "copy" /\ answer' = "okay"
  /\ UNCHANGED <<sockVars, c2s, sent, fin, taken, timedOut, clGot, clEnd, clSent, clFin>>

\* The client has gone: the answer cannot be written, and the socket is dropped.
RespondFails ==
  /\ pc = "respond" /\ clFin = "gone" /\ Sock!Drop /\ Hangup
  /\ UNCHANGED <<taken, timedOut, answer>>

-----------------------------------------------------------------------------
(* socket_to_conn: copy_buf from the socket to the client.                 *)

\* It ends: the TCP connection is shut down, and the loop breaks, which
\* cancels conn_to_socket.
EndToConn == pc' = "drain" /\ fin' = TRUE /\ UNCHANGED <<c2s, sent, taken, timedOut, clVars>>

\* poll_read fills the empty buffer.
SocketRead == pc = "copy" /\ sent = read /\ Sock!Read /\ UNCHANGED <<taskVars, clVars>>

ConnWrite ==
  /\ pc = "copy"
  /\ sent' \in {k \in sent + 1 .. read : k <= clGot + TcpBuf}
  /\ UNCHANGED <<sockVars, pc, c2s, fin, taken, timedOut, clVars>>

ConnWriteFails ==
  /\ pc = "copy" /\ sent < read /\ clFin = "gone" /\ EndToConn /\ UNCHANGED sockVars

SocketEof == pc = "copy" /\ sent = read /\ Sock!Eof /\ EndToConn

SocketError ==
  /\ pc = "copy" /\ sent = read /\ failed /\ Sock!Fail /\ reader' = "off" /\ EndToConn

SocketToConn == SocketRead \/ ConnWrite \/ ConnWriteFails \/ SocketEof \/ SocketError

-----------------------------------------------------------------------------
(* conn_to_socket: copy_buf from the client to the socket.                 *)

ConnRead ==
  /\ pc = "copy" /\ c2s = "copy" /\ wrote = taken /\ taken' \in taken + 1 .. clSent
  /\ UNCHANGED <<sockVars, pc, c2s, sent, fin, timedOut, clVars>>

SocketWrite ==
  /\ pc = "copy" /\ c2s = "copy" /\ Sock!Write /\ wrote' <= taken
  /\ UNCHANGED <<taskVars, clVars>>

MutCopied == taken = clSent

\* At the end of the client's output everything was read and written.
Copied == taken = clSent /\ wrote = taken

\* copy_buf returns: the client's output has ended (its flush waits as that of
\* the shutdown does), a read fails because the client has gone, or a write
\* because the socket was closed.
CopyEnds ==
  /\ pc = "copy" /\ c2s = "copy" /\ c2s' = "shutdown"
  /\ \/ Copied /\ clFin # "no"
     \/ clFin = "gone" /\ wrote = taken
     \/ wrote < taken /\ (failed \/ known)
  /\ UNCHANGED <<sockVars, pc, sent, fin, taken, timedOut, clVars>>

MutAfterShutdown == "drain"

\* select! took the branch of conn_to_socket: the loop goes on.
AfterShutdown == "copy"

MutSocketShutdown ==
  /\ pc = "copy" /\ c2s = "shutdown" /\ c2s' = "done" /\ pc' = AfterShutdown
  /\ UNCHANGED <<sockVars, sent, fin, taken, timedOut, clVars>>

\* shutdown of the socket, which fails if the device closed it before.
SocketShutdown ==
  /\ pc = "copy" /\ c2s = "shutdown" /\ c2s' = "done" /\ pc' = AfterShutdown
  /\ Sock!Shutdown \/ ((failed \/ known) /\ UNCHANGED sockVars)
  /\ UNCHANGED <<sent, fin, taken, timedOut, clVars>>

ConnToSocket == ConnRead \/ SocketWrite \/ CopyEnds \/ SocketShutdown

-----------------------------------------------------------------------------
(* The read to the end of the client's output, before the return.          *)

ConnDiscard ==
  /\ pc = "drain" /\ taken' \in taken + 1 .. clSent
  /\ UNCHANGED <<sockVars, pc, c2s, sent, fin, timedOut, clVars>>

MutDrained == TRUE

\* The client's output has ended and was read to its end, or cannot be read.
Drained == clFin = "gone" \/ (clFin # "no" /\ taken = clSent)

\* The task returns, and drops the socket and the TCP connection.
Return ==
  /\ pc = "drain" /\ Drained /\ Sock!Drop /\ Hangup
  /\ UNCHANGED <<taken, timedOut, answer>>

\* So it does after five seconds.
Timeout ==
  /\ pc = "drain" /\ timedOut' = TRUE /\ Sock!Drop /\ Hangup
  /\ UNCHANGED <<taken, answer>>

-----------------------------------------------------------------------------
(* The client and the device.                                              *)

\* Bytes that arrive at a closed connection are answered with a reset.
ClientSend ==
  /\ answer = "okay" /\ clFin = "no" /\ clEnd # "rst"
  /\ clSent' \in clSent + 1 .. MaxClient
  /\ clEnd' = IF pc = "over" THEN "rst" ELSE clEnd
  /\ UNCHANGED <<sockVars, taskVars, answer, clGot, clFin>>

ClientRecv ==
  /\ clEnd = "open" /\ clFin # "gone"
  /\ \/ clGot' \in clGot + 1 .. sent /\ UNCHANGED clEnd
     \/ fin /\ clGot = sent /\ clEnd' = "fin" /\ UNCHANGED clGot
  /\ UNCHANGED <<sockVars, taskVars, answer, clSent, clFin>>

ClientShutdown ==
  /\ answer = "okay" /\ clFin = "no"
  /\ clFin' = IF clEnd = "open" THEN "first" ELSE "after"
  /\ UNCHANGED <<sockVars, taskVars, answer, clGot, clEnd, clSent>>

ClientClose ==
  /\ clFin # "gone" /\ clFin' = "gone"
  /\ UNCHANGED <<sockVars, taskVars, answer, clGot, clEnd, clSent>>

\* The device, and the reader task that learns of its close.
DeviceStep ==
  /\ pc # "service"
  /\ \/ Sock!DevGet \/ Sock!DevClose \/ Sock!Learn
     \/ Sock!DevWrite /\ devWrote' <= MaxDevice
     \/ MayFail /\ ~failed /\ Sock!Fail /\ reader' = reader
  /\ UNCHANGED <<taskVars, clVars>>

-----------------------------------------------------------------------------

Answering == OpenSocket \/ Refuse \/ Respond \/ RespondFails
Draining  == ConnDiscard \/ Return \/ Timeout
Client    == ClientSend \/ ClientRecv \/ ClientShutdown \/ ClientClose

Next == Answering \/ SocketToConn \/ ConnToSocket \/ Draining \/ Client \/ DeviceStep

Spec == Init /\ [][Next]_vars

\* The runtime polls both copy loops, and the timer fires.  A client that has
\* not gone reads, and the device takes what the host writes (as Socket's
\* fairness has it).  Nobody has to send, shut down or close.
Fairness ==
  /\ WF_vars(SocketToConn) /\ WF_vars(ConnToSocket)
  /\ WF_vars(ConnDiscard \/ Return) /\ WF_vars(Timeout)
  /\ WF_vars(ClientRecv) /\ WF_vars((Sock!DevGet \/ Sock!Learn) /\ UNCHANGED <<taskVars, clVars>>)

FairSpec == Spec /\ Fairness

-----------------------------------------------------------------------------

\* "Emulate half-close on tcp side, so client can read buffered data after the
\* socket is closed": a client that did not close its output first gets, before
\* its input ends in order, every byte that the device wrote before it closed,
\* also when its own writes were failing by then.
WholeOutput ==
  clEnd = "fin" /\ answer = "okay" /\ clFin \in {"no", "after"} /\ ~failed
    => devClosed /\ clGot = devWrote

\* "otherwise it can RST when TcpStream is dropped": the client's connection is
\* reset only if the client goes on for longer than the task reads.
NoReset == clEnd = "rst" => timedOut

\* When the socket is closed for a client that closed its output, the device
\* has every byte of it.
WholeInput ==
  hostClosed /\ ~devClosed /\ pc \in {"copy", "drain"} /\ clFin # "gone"
    => devGot = clSent

\* Whichever side ends first, and however, the task returns and both
\* connections are given up: neither copy loop waits for ever for the other.
SessionEnds ==
  pc = "copy" /\ (devClosed \/ failed \/ clFin # "no") ~> pc = "over"

=============================================================================
