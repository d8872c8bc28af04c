----------------------------- MODULE SocketInv -----------------------------
(***************************************************************************)
(* The inductive invariant of Socket's two streams, in named parts (TLC    *)
(* checks it on a small instance, SocketProofs proves it), and the         *)
(* abstract stream that the socket implements.                             *)
(***************************************************************************)
EXTENDS Socket

\* The socket as the stream its users see.
Abs == INSTANCE Stream WITH
         reader <- IF rd \in {"on", "eof"} THEN rd ELSE "off",
         devClosed <- dev = "closed", known <- closed /\ ~hostClosed, failed <- error

Idx(q, c) == {i \in 1..Len(q) : q[i].cmd = c}

\* The messages of command c in q carry the intervals that make up a..b, in
\* order and without gaps or overlaps.
Tiles(q, c, a, b) ==
  /\ a <= b
  /\ Idx(q, c) = {} => a = b
  /\ \A i \in Idx(q, c) : a <= q[i].lo /\ q[i].hi <= b
  /\ \A i \in Idx(q, c) : (\A j \in Idx(q, c) : i <= j) => q[i].lo = a
  /\ \A i \in Idx(q, c) : (\A j \in Idx(q, c) : j <= i) => q[i].hi = b
  /\ \A i, j \in Idx(q, c) : i < j =>
       /\ q[i].hi <= q[j].lo
       /\ (\A k \in Idx(q, c) : ~(i < k /\ k < j)) => q[i].hi = q[j].lo

\* Until open_socket or accept has written its message, nothing has happened
\* on the stream.
FreshInv ==
  /\ pc \in {"open_new", "open_write"} => dev = "none"
  /\ pc \in {"acc_new", "acc_write"} => dev = "opening"
  /\ pc \in {"open_new", "acc_new", "open_write", "acc_write"} =>
       /\ out.cmd \in {"none", "OTHER"} /\ toHost = <<>>
       /\ acknowledged + wrote = granted
  /\ out.cmd = "OPEN" => dev = "none"
  /\ out.cmd = "OKAY" => dev # "none"
  /\ dev = "none" => granted = 0
  /\ dev \in {"none", "opening"} => devLimit = 0
  /\ dev \in {"opening", "open"} => DevWindow <= granted

\* Credit is conserved: what poll_write has left and what it used, with the
\* OKAYs under way, is what the device granted, and the device grants no more
\* than its window beyond what it received.
CreditInv ==
  /\ acknowledged + wrote <= granted
  /\ granted <= DevWindow + devGot
  /\ devGot <= wrote
  /\ out.cmd = "WRTE" => out.hi = wrote
  /\ initial = IF remote_id THEN DevWindow ELSE 0
  /\ ~remote_id => acknowledged = 0 /\ wrote = 0
  /\ \A i \in Idx(toHost, "OKAY") : toHost[i].lo = 0 => toHost[i].hi = DevWindow
  /\ registered => Tiles(toHost, "OKAY", acknowledged + wrote, granted)

\* The device's bytes are in order in the host's hands or under way, within
\* the window; a CLSE is the last thing the device sends.
StreamInv ==
  /\ read + read_buffer <= devWrote
  /\ devWrote <= devLimit
  /\ devLimit <= HostWindow + read
  /\ out.cmd \in {"OPEN", "OKAY"} => devLimit + (out.hi - out.lo) <= HostWindow + read
  /\ registered => Tiles(toHost, "WRTE", read + read_buffer, devWrote)
  /\ \A i \in Idx(toHost, "CLSE") : i = Len(toHost) /\ dev = "closed"
  /\ registered /\ closed => hostClosed
  /\ closed /\ ~hostClosed => dev = "closed" /\ read + read_buffer = devWrote
  /\ rd = "eof" /\ ~hostClosed => closed /\ read_buffer = 0

\* Both streams are conserved: every byte and every unit of credit is in
\* exactly one place (the device, a message under way, the socket's counters).
StreamsConserved == FreshInv /\ CreditInv /\ StreamInv

\* The socket implements the stream: within the window the device announced,
\* every byte arrives in order and once, no end of file comes before the last
\* byte, shutdown closes only what the device has received, whichever of the
\* two ends closes first and wherever the transport fails.
StreamImplemented == Abs!Spec

=============================================================================
