------------------------------- MODULE Socket -------------------------------
(***************************************************************************)
(* One stream multiplexed over a transport: the host end of it             *)
(* (packages/transport/src/socket.rs, and open_socket, accept, on_error    *)
(* and handle_message of transport.rs), the OUT endpoint it shares with    *)
(* the other sockets, and the device that answers it.                      *)
(*                                                                         *)
(* Bytes are stream positions: a WRTE carries the bytes lo+1..hi of its    *)
(* direction, an OKAY the credit (avail) hi - lo.  A poll function holds   *)
(* the state mutex and the connection mutex, so a poll is one step, except *)
(* poll_shutdown, which lets go of both half way and is two.  The device   *)
(* is external: the peer that delayed_ack flow control presupposes.        *)
(***************************************************************************)
EXTENDS Integers, Sequences

CONSTANTS
  DevWindow,   \* credit the device grants (in the OKAY for OPEN, or its own OPEN)
  HostWindow,  \* DELAYED_ACK_BYTES
  MaxPayload,  \* MAX_PAYLOAD
  MaxWrite,    \* bound: bytes the application writes
  MaxDevWrite, \* bound: bytes the device writes
  MaxChunk,    \* bound: largest buffer passed to poll_read and poll_write
  MaxInFlight, \* bound: messages of the device that the host has not read
  MaxOthers,   \* bound: messages the other sockets put on the connection
  MayFail      \* whether the transport may fail or be closed

ASSUME WindowAssumption ==
  DevWindow \in Nat \ {0} /\ HostWindow \in Nat \ {0} /\ MaxPayload \in Nat \ {0}

ASSUME BoundAssumption ==
  /\ MaxWrite \in Nat /\ MaxDevWrite \in Nat /\ MaxChunk \in Nat
  /\ MaxInFlight \in Nat /\ MaxOthers \in Nat /\ MayFail \in BOOLEAN

VARIABLES
  \* State of the SocketBackend, and its entry in TransportBackend.sockets.
  remote_id,    \* the remote id is known (is not 0)
  closed,
  read_buffer,  \* bytes left in the queued cursors
  initial,      \* initial_acknowledgment
  acknowledged,
  registered,   \* the socket is in the sockets map
  \* The transport: its connection's OUT endpoint and its error.
  out,          \* the message being transferred
  usb,          \* idle, busy, done (completed, not reaped) or failed
  wakers,       \* halves whose flush waits for the endpoint (write_wakers)
  error,        \* TransportBackend.error is set; the connection is gone
  others,       \* messages the other sockets have written
  \* The task that owns the socket.
  pc,           \* where its writing half is
  rd,           \* its reading half: off, on, eof, err
  parked,       \* halves that returned Pending and were not woken
  timer,        \* write_throttle: off, armed (will wake the writing half), fired
  \* The device, and the messages on their way to the host.
  dev, toHost,
  \* How far the streams have got.
  wrote,        \* bytes taken by poll_write
  devGot,       \* of these, bytes received by the device
  granted,      \* credit the device has sent
  devWrote,     \* bytes the device has sent
  read,         \* of these, bytes returned by poll_read
  devLimit,     \* credit the device has received
  hostClosed    \* shutdown() closed the socket before the device did

sockVars == <<remote_id, closed, read_buffer, initial, acknowledged, registered>>
connVars == <<out, usb, wakers, error>>
taskVars == <<pc, rd, parked, timer>>
devVars  == <<dev, toHost, devGot, granted, devWrote, devLimit>>
hostVars == <<wrote, read, hostClosed>>
vars     == <<sockVars, connVars, others, taskVars, devVars, hostVars>>

-----------------------------------------------------------------------------
(* Messages. *)

Msg(cmd, lo, hi) == [cmd |-> cmd, lo |-> lo, hi |-> hi]

NoMsg == Msg("none", 0, 0)

\* CLSE names the remote id: hi = 1 if the sender knew it, 0 if it was 0.
Clse(known) == Msg("CLSE", 0, IF known THEN 1 ELSE 0)

Message ==
  {m \in [cmd : {"none", "OPEN", "OKAY", "WRTE", "CLSE", "OTHER"}, lo : Nat, hi : Nat] :
     m.lo <= m.hi}

Min(a, b) == IF a <= b THEN a ELSE b

-----------------------------------------------------------------------------
(* The connection.                                                         *)

\* With the caller's waker registered instead of the collection's.
MutAwaitFlush(h) ==
  /\ wakers' = {h} /\ parked' = parked \cup {h}
  /\ UNCHANGED <<out, usb, error>>

\* poll_flush returned Pending: the endpoint holds the waker of the
\* collection, to which the waker of half h was added.
AwaitFlush(h) ==
  /\ wakers' = wakers \cup {h} /\ parked' = parked \cup {h}
  /\ UNCHANGED <<out, usb, error>>

FlushPending(h) == ~error /\ usb = "busy" /\ AwaitFlush(h)

FlushReady == ~error /\ usb \in {"idle", "done"}

\* The poll writes nothing after the flush.
Reaped == FlushReady /\ usb' = "idle" /\ UNCHANGED <<out, wakers, error>>

\* After the flush, write_message submits m.
Submit(m) == FlushReady /\ usb' = "busy" /\ out' = m /\ UNCHANGED <<wakers, error>>

\* As Submit, and a second poll_flush finds the transfer under way.
SubmitAndAwait(m) ==
  /\ FlushReady /\ usb' = "busy" /\ out' = m
  /\ wakers' = wakers \cup {"w"} /\ parked' = parked \cup {"w"}
  /\ UNCHANGED error

MutNotified == {"r"}

\* The halves that notifying both wakers of the socket reaches: the AsyncWrite
\* polls and open_socket's wait register write_waker, write_message_async
\* does not.
Notified == {"r"} \cup (IF pc \in {"open_wait", "open", "shutdown", "wr_done"}
                          THEN {"w"} ELSE {})

\* TransportBackend::on_error: the connection goes with its transfer and with
\* write_wakers, and the sockets in the map are notified.
OnError ==
  /\ error' = TRUE /\ usb' = "idle" /\ out' = NoMsg /\ wakers' = {}
  /\ parked' = IF registered THEN parked \ Notified ELSE parked

\* The transport has failed, or poll_flush finds a failed transfer.
FlushFails ==
  \/ error /\ UNCHANGED <<connVars, parked>>
  \/ ~error /\ usb = "failed" /\ OnError

-----------------------------------------------------------------------------
(* Opening: Transport::open_socket and PendingSocket::accept.              *)

Init ==
  /\ closed = FALSE /\ read_buffer = 0 /\ registered = FALSE
  /\ out = NoMsg /\ usb = "idle" /\ wakers = {} /\ error = FALSE /\ others = 0
  /\ rd = "off" /\ parked = {} /\ timer = "off" /\ toHost = <<>>
  /\ wrote = 0 /\ devGot = 0 /\ devWrote = 0 /\ read = 0 /\ devLimit = 0
  /\ hostClosed = FALSE
  /\ \/ /\ pc = "open_new" /\ dev = "none" /\ remote_id = FALSE
        /\ granted = 0 /\ initial = 0 /\ acknowledged = 0
     \/ /\ pc = "acc_new" /\ dev = "opening" /\ remote_id = TRUE
        /\ granted = DevWindow /\ initial = DevWindow /\ acknowledged = DevWindow

\* Socket::new and sockets.insert; open_socket has checked the error.
Register ==
  /\ \/ pc = "open_new" /\ ~error /\ pc' = "open_write"
     \/ pc = "acc_new" /\ pc' = "acc_write"
  /\ registered' = TRUE
  /\ UNCHANGED <<remote_id, closed, read_buffer, initial, acknowledged, connVars,
                 others, rd, parked, timer, devVars, hostVars>>

\* open_socket's check_error fails: nothing was created.
OpenRefused ==
  /\ pc = "open_new" /\ error /\ pc' = "gone"
  /\ UNCHANGED <<sockVars, connVars, others, rd, parked, timer, devVars, hostVars>>

MutDropSocket(failed) ==
  /\ registered' = FALSE /\ rd' = "off" /\ timer' = "off"
  /\ pc' = "gone" /\ closed' = TRUE /\ hostClosed' = (hostClosed \/ ~closed)
  /\ UNCHANGED <<remote_id, read_buffer, initial, acknowledged>>

\* Drop for Socket takes the socket out of the map; Drop for SocketBackend
\* spawns a task that closes it if it is still open.
DropSocket(failed) ==
  /\ registered' = FALSE /\ rd' = "off" /\ timer' = "off"
  /\ IF failed \/ closed
       THEN pc' = "gone" /\ UNCHANGED <<closed, hostClosed>>
       ELSE pc' = "drop_write" /\ closed' = TRUE /\ hostClosed' = TRUE
  /\ UNCHANGED <<remote_id, read_buffer, initial, acknowledged>>

\* The message that write_message_async is called with: OPEN and its window,
\* accept's OKAY, or the CLSE of a dropped socket.
AsyncMsg ==
  IF pc = "drop_write" THEN Clse(remote_id)
  ELSE Msg(IF pc = "open_write" THEN "OPEN" ELSE "OKAY", 0, HostWindow)

\* The stage after write_message (of a _write) or after its flush (of a _flush).
Following ==
  [open_write |-> "open_flush", open_flush |-> "open_wait",
   acc_write  |-> "acc_flush",  acc_flush  |-> "open",
   drop_write |-> "drop_flush", drop_flush |-> "gone"]

\* write_message_async flushes, writes the message and flushes again.  A
\* caller that gets an error drops the socket.
PollWriteAsync ==
  /\ pc \in DOMAIN Following /\ "w" \notin parked
  /\ \/ /\ pc \in {"open_write", "acc_write", "drop_write"}
        /\ SubmitAndAwait(AsyncMsg)
        /\ pc' = Following[pc]
        /\ UNCHANGED <<sockVars, rd, timer, hostClosed>>
     \/ /\ pc \in {"open_flush", "acc_flush", "drop_flush"}
        /\ Reaped
        /\ pc' = Following[pc]
        /\ rd' = IF pc = "acc_flush" THEN "on" ELSE rd
        /\ UNCHANGED <<sockVars, parked, timer, hostClosed>>
     \/ FlushPending("w") /\ UNCHANGED <<sockVars, pc, rd, timer, hostClosed>>
     \/ FlushFails /\ DropSocket(TRUE)
  /\ UNCHANGED <<others, devVars, wrote, read>>

MutOpenAnswered == remote_id

\* The device's answer has come.
OpenAnswered == remote_id \/ closed

\* The poll_fn in which open_socket waits for the device's answer.
PollOpenWait ==
  /\ pc = "open_wait" /\ "w" \notin parked
  /\ \/ /\ ~error /\ remote_id
        /\ pc' = "open" /\ rd' = "on"
        /\ UNCHANGED <<sockVars, parked, timer, hostClosed>>
     \/ /\ error \/ (~remote_id /\ OpenAnswered)
        /\ DropSocket(error) /\ UNCHANGED parked
     \/ /\ ~error /\ ~OpenAnswered
        /\ parked' = parked \cup {"w"}
        /\ UNCHANGED <<sockVars, pc, rd, timer, hostClosed>>
  /\ UNCHANGED <<connVars, others, devVars, wrote, read>>

-----------------------------------------------------------------------------
(* The AsyncRead and AsyncWrite implementations.                           *)

Usable == pc \in {"open", "shutdown", "wr_done"}

MutReadLen(cap) == cap

\* Bytes poll_read copies into a buffer of cap bytes.
ReadLen(cap) == Min(cap, read_buffer)

MutReadOkay(cap) == Msg("OKAY", 0, cap)

MutShortReadOkay(cap) == Msg("OKAY", 0, 1)

\* The OKAY that acknowledges them.
ReadOkay(cap) == Msg("OKAY", 0, ReadLen(cap))

MutAtEof(n) == TRUE

\* poll_read copied n bytes on a closed socket: end of file if there are none.
AtEof(n) == n = 0

PollRead(cap) ==
  /\ Usable /\ rd = "on" /\ "r" \notin parked
  /\ \/ FlushFails /\ rd' = "err" /\ UNCHANGED <<read_buffer, read>>
     \/ FlushPending("r") /\ UNCHANGED <<rd, read_buffer, read>>
     \/ /\ closed /\ Reaped
        /\ read_buffer' = read_buffer - ReadLen(cap) /\ read' = read + ReadLen(cap)
        /\ rd' = IF AtEof(ReadLen(cap)) THEN "eof" ELSE "on"
        /\ UNCHANGED parked
     \/ /\ ~closed /\ ReadLen(cap) = 0 /\ Reaped
        /\ parked' = parked \cup {"r"}
        /\ UNCHANGED <<rd, read_buffer, read>>
     \/ /\ ~closed /\ ReadLen(cap) > 0 /\ Submit(ReadOkay(cap))
        /\ read_buffer' = read_buffer - ReadLen(cap) /\ read' = read + ReadLen(cap)
        /\ UNCHANGED <<rd, parked>>
  /\ UNCHANGED <<remote_id, closed, initial, acknowledged, registered, others, pc,
                 timer, devVars, wrote, hostClosed>>

MutWriteLen(n) == Min(n, MaxPayload)

\* Bytes poll_write takes from a buffer of n bytes.
WriteLen(n) == Min(Min(n, acknowledged), MaxPayload)

\* At most half of the credit is left: poll_write waits for write_throttle.
Throttled == acknowledged <= initial \div 2

\* poll_write with a buffer of n bytes.  A copy loop that gets an error goes
\* on to shut the socket down, or drops it.
PollWrite(n) ==
  /\ pc = "open" /\ "w" \notin parked /\ wrote + n <= MaxWrite
  /\ \/ /\ ~error /\ closed /\ pc' = "shutdown"
        /\ UNCHANGED <<connVars, parked, timer, acknowledged, wrote>>
     \/ /\ error \/ ~closed
        /\ FlushFails /\ pc' = "shutdown"
        /\ UNCHANGED <<timer, acknowledged, wrote>>
     \/ ~closed /\ FlushPending("w") /\ UNCHANGED <<pc, timer, acknowledged, wrote>>
     \/ /\ ~closed /\ Reaped /\ parked' = parked \cup {"w"}
        /\ \/ acknowledged = 0 /\ UNCHANGED timer
           \/ acknowledged > 0 /\ Throttled /\ timer # "fired" /\ timer' = "armed"
        /\ UNCHANGED <<pc, acknowledged, wrote>>
     \/ /\ ~closed /\ acknowledged > 0
        /\ Submit(Msg("WRTE", wrote, wrote + WriteLen(n)))
        /\ acknowledged' = acknowledged - WriteLen(n)
        /\ wrote' = wrote + WriteLen(n)
        /\ timer' = IF Throttled THEN "off" ELSE timer
        /\ UNCHANGED <<pc, parked>>
  /\ UNCHANGED <<remote_id, closed, read_buffer, initial, registered, others, rd,
                 devVars, read, hostClosed>>

MutAllAcknowledged == acknowledged > 0

\* poll_flush is Ready only when every byte has been acknowledged.
AllAcknowledged == acknowledged = initial

\* poll_flush, as the copy loops call it between writes.
PollFlush ==
  /\ pc = "open" /\ "w" \notin parked
  /\ \/ FlushFails /\ pc' = "shutdown"
     \/ FlushPending("w") /\ UNCHANGED pc
     \/ /\ Reaped
        /\ \/ AllAcknowledged /\ UNCHANGED <<pc, parked>>
           \/ ~AllAcknowledged /\ closed /\ pc' = "shutdown" /\ UNCHANGED parked
           \/ ~AllAcknowledged /\ ~closed /\ parked' = parked \cup {"w"} /\ UNCHANGED pc
  /\ UNCHANGED <<sockVars, others, rd, timer, devVars, hostVars>>

\* The application has no more to write.
BeginShutdown ==
  /\ pc = "open" /\ "w" \notin parked /\ pc' = "shutdown"
  /\ UNCHANGED <<sockVars, connVars, others, rd, parked, timer, devVars, hostVars>>

MutPollShutdown ==
  /\ pc = "shutdown" /\ "w" \notin parked
  /\ \/ FlushFails /\ pc' = "wr_done" /\ UNCHANGED <<closed, hostClosed>>
     \/ FlushPending("w") /\ UNCHANGED <<pc, closed, hostClosed>>
     \/ /\ Reaped
        /\ \/ ~closed /\ closed' = TRUE /\ hostClosed' = TRUE /\ pc' = "sd_write"
           \/ closed /\ pc' = "wr_done" /\ UNCHANGED <<closed, hostClosed>>
        /\ UNCHANGED parked
  /\ UNCHANGED <<remote_id, read_buffer, initial, acknowledged, registered, others,
                 rd, timer, devVars, wrote, read>>

\* poll_shutdown until shutdown() has returned: poll_flush has taken the
\* connection mutex and released it.
PollShutdown ==
  /\ pc = "shutdown" /\ "w" \notin parked
  /\ \/ FlushFails /\ pc' = "wr_done" /\ UNCHANGED <<closed, hostClosed>>
     \/ FlushPending("w") /\ UNCHANGED <<pc, closed, hostClosed>>
     \/ /\ Reaped
        /\ \/ /\ AllAcknowledged /\ ~closed /\ closed' = TRUE /\ hostClosed' = TRUE
              /\ pc' = "sd_write" /\ UNCHANGED parked
           \/ closed /\ pc' = "wr_done" /\ UNCHANGED <<closed, hostClosed, parked>>
           \/ /\ ~AllAcknowledged /\ ~closed /\ parked' = parked \cup {"w"}
              /\ UNCHANGED <<closed, hostClosed, pc>>
  /\ UNCHANGED <<remote_id, read_buffer, initial, acknowledged, registered, others,
                 rd, timer, devVars, wrote, read>>

\* The rest of poll_shutdown: it takes the connection mutex again and writes
\* CLSE.  write_message asserts that the endpoint has nothing pending.
ShutdownWrite ==
  /\ pc = "sd_write"
  /\ \/ /\ usb = "idle" /\ SubmitAndAwait(Clse(remote_id)) /\ pc' = "shutdown"
        /\ UNCHANGED <<registered, rd>>
     \/ /\ error /\ pc' = "wr_done"
        /\ UNCHANGED <<connVars, registered, rd, parked>>
     \/ \* the task panics, and drops a socket that is marked closed
        /\ ~error /\ usb # "idle"
        /\ pc' = "panicked" /\ registered' = FALSE /\ rd' = "off"
        /\ UNCHANGED <<connVars, parked>>
  /\ UNCHANGED <<remote_id, closed, read_buffer, initial, acknowledged, others, timer,
                 devVars, hostVars>>

\* The owner drops the socket, or aborts a task inside open_socket.
Drop ==
  /\ pc \in {"open_write", "open_flush", "open_wait", "open", "shutdown", "wr_done"}
  /\ DropSocket(error)
  /\ parked' = {} /\ wakers' = {}
  /\ UNCHANGED <<out, usb, error, others, devVars, wrote, read>>

-----------------------------------------------------------------------------
(* The reader task: handle_message of TransportBackend and SocketBackend.  *)

Notify(halves) == parked' = parked \ (halves \cap Notified)

MutHandleOkay(m) ==
  /\ m.cmd = "OKAY" /\ initial' = m.hi - m.lo /\ remote_id' = TRUE
  /\ acknowledged' = acknowledged + (m.hi - m.lo)
  /\ Notify({"w"})
  /\ UNCHANGED <<read_buffer, closed>>

HandleOkay(m) ==
  /\ m.cmd = "OKAY"
  /\ initial' = IF remote_id THEN initial ELSE m.hi - m.lo
  /\ remote_id' = TRUE
  /\ acknowledged' = acknowledged + (m.hi - m.lo)
  /\ Notify({"w"})
  /\ UNCHANGED <<read_buffer, closed>>

MutHandleWrte(m) ==
  /\ m.cmd = "WRTE"
  /\ read_buffer' = read_buffer + (m.hi - m.lo)
  /\ UNCHANGED <<remote_id, initial, acknowledged, closed, parked>>

HandleWrte(m) ==
  /\ m.cmd = "WRTE"
  /\ read_buffer' = read_buffer + (m.hi - m.lo)
  /\ Notify({"r"})
  /\ UNCHANGED <<remote_id, initial, acknowledged, closed>>

MutHandleClse(m) ==
  /\ m.cmd = "CLSE" /\ closed' = TRUE
  /\ Notify({"r"})
  /\ UNCHANGED <<remote_id, initial, acknowledged, read_buffer>>

MutMuteHandleClse(m) ==
  /\ m.cmd = "CLSE" /\ closed' = TRUE
  /\ Notify({"w"})
  /\ UNCHANGED <<remote_id, initial, acknowledged, read_buffer>>

HandleClse(m) ==
  /\ m.cmd = "CLSE" /\ closed' = TRUE
  /\ Notify({"r", "w"})
  /\ UNCHANGED <<remote_id, initial, acknowledged, read_buffer>>

\* A message for this socket.  A socket found closed leaves the map, and
\* later messages find no socket.
HandleMessage ==
  /\ ~error /\ toHost # <<>> /\ toHost' = Tail(toHost)
  /\ LET m == Head(toHost) IN
     \/ /\ registered /\ (HandleOkay(m) \/ HandleWrte(m) \/ HandleClse(m))
        /\ registered' = ~closed'
     \/ ~registered /\ UNCHANGED <<sockVars, parked>>
  /\ UNCHANGED <<connVars, others, pc, rd, timer, dev, devGot, granted, devWrote,
                 devLimit, hostVars>>

-----------------------------------------------------------------------------
(* The environment: device, other sockets, timers, faults.                 *)

\* The OUT transfer ends, and wakes everyone in write_wakers.
Complete(status) ==
  /\ ~error /\ usb = "busy" /\ usb' = status /\ out' = NoMsg
  /\ wakers' = {} /\ parked' = parked \ wakers
  /\ UNCHANGED error

Send(m) == Len(toHost) < MaxInFlight /\ toHost' = Append(toHost, m)

\* The device takes the message of the OUT transfer.
DevReceive ==
  /\ Complete("done")
  /\ \/ /\ out.cmd = "OPEN"
        /\ \/ /\ dev' = "open" /\ Send(Msg("OKAY", 0, DevWindow))
              /\ granted' = DevWindow /\ devLimit' = devLimit + (out.hi - out.lo)
           \/ /\ dev' = "closed" /\ Send(Clse(TRUE)) /\ UNCHANGED <<granted, devLimit>>
        /\ UNCHANGED devGot
     \/ /\ out.cmd = "OKAY" /\ dev' = IF dev = "opening" THEN "open" ELSE dev
        /\ devLimit' = devLimit + (out.hi - out.lo)
        /\ UNCHANGED <<toHost, granted, devGot>>
     \/ /\ out.cmd = "WRTE" /\ devGot' = IF dev = "open" THEN out.hi ELSE devGot
        /\ UNCHANGED <<dev, toHost, granted, devLimit>>
     \/ /\ out = Clse(TRUE) /\ dev # "closed" /\ dev' = "closed"
        /\ Send(Clse(TRUE)) \/ UNCHANGED toHost
        /\ UNCHANGED <<granted, devLimit, devGot>>
     \/ /\ out.cmd = "OTHER" \/ out = Clse(FALSE) \/ (out = Clse(TRUE) /\ dev = "closed")
        /\ UNCHANGED <<dev, toHost, granted, devLimit, devGot>>
  /\ UNCHANGED <<sockVars, others, pc, rd, timer, devWrote, hostVars>>

\* The device consumes n bytes and acknowledges them.
DevConsume(n) ==
  /\ ~error /\ dev = "open" /\ n > 0 /\ granted + n <= DevWindow + devGot
  /\ Send(Msg("OKAY", granted, granted + n)) /\ granted' = granted + n
  /\ UNCHANGED <<sockVars, connVars, others, taskVars, dev, devGot, devWrote, devLimit,
                 hostVars>>

\* The device writes n bytes, within its credit.
DevWrite(n) ==
  /\ ~error /\ dev = "open" /\ n > 0
  /\ devWrote + n <= devLimit /\ devWrote + n <= MaxDevWrite
  /\ Send(Msg("WRTE", devWrote, devWrote + n)) /\ devWrote' = devWrote + n
  /\ UNCHANGED <<sockVars, connVars, others, taskVars, dev, devGot, granted, devLimit,
                 hostVars>>

\* The device closes its end.  A device that has not got the OKAY for its
\* own OPEN does not know the host's id, and waits.
DevClose ==
  /\ ~error /\ dev = "open" /\ dev' = "closed" /\ Send(Clse(TRUE))
  /\ UNCHANGED <<sockVars, connVars, others, taskVars, devGot, granted, devWrote,
                 devLimit, hostVars>>

\* Another task flushes the connection and writes a message of its own.
OtherWrite ==
  /\ others < MaxOthers /\ others' = others + 1 /\ Submit(Msg("OTHER", 0, 0))
  /\ UNCHANGED <<sockVars, taskVars, devVars, hostVars>>

TransferError ==
  /\ MayFail /\ Complete("failed")
  /\ UNCHANGED <<sockVars, others, pc, rd, timer, devVars, hostVars>>

\* The reader task meets an error, or Transport::close is called.
TransportError ==
  /\ MayFail /\ ~error /\ OnError
  /\ UNCHANGED <<sockVars, others, pc, rd, timer, devVars, hostVars>>

\* write_throttle ticks.
TimerTick ==
  /\ timer = "armed" /\ timer' = "fired" /\ parked' = parked \ {"w"}
  /\ UNCHANGED <<sockVars, connVars, others, pc, rd, devVars, hostVars>>

\* The task is polled for another reason: its other I/O object, or a waker
\* left over from an earlier poll.
TaskPolled ==
  /\ parked # {} /\ parked' = {}
  /\ UNCHANGED <<sockVars, connVars, others, pc, rd, timer, devVars, hostVars>>

-----------------------------------------------------------------------------

OwnerStep ==
  \/ Register \/ OpenRefused \/ PollWriteAsync \/ PollOpenWait
  \/ \E n \in 1..MaxChunk : PollRead(n) \/ PollWrite(n)
  \/ PollFlush \/ BeginShutdown \/ PollShutdown \/ ShutdownWrite \/ Drop

DeviceStep ==
  \/ DevReceive \/ DevClose
  \/ \E n \in 1..DevWindow : DevConsume(n)
  \/ \E n \in 1..HostWindow : DevWrite(n)

EnvStep == OtherWrite \/ TransferError \/ TransportError \/ TimerTick \/ TaskPolled

Next == OwnerStep \/ HandleMessage \/ DeviceStep \/ EnvStep

Spec == Init /\ [][Next]_vars

\* The runtime polls a task that was woken, the reader task keeps reading, the
\* timer ticks.  The device (external) takes every transfer and keeps consuming
\* what it got.  Nothing makes the application write, shut the socket down or
\* drop it, and no parked task is polled by chance.
Fairness ==
  /\ WF_vars(Register) /\ WF_vars(PollWriteAsync) /\ WF_vars(PollOpenWait)
  /\ WF_vars(\E n \in 1..MaxChunk : PollRead(n))
  /\ WF_vars(PollShutdown) /\ WF_vars(ShutdownWrite)
  /\ WF_vars(HandleMessage) /\ WF_vars(TimerTick)
  /\ WF_vars(DevReceive) /\ WF_vars(\E n \in 1..DevWindow : DevConsume(n))

FairSpec == Spec /\ Fairness

-----------------------------------------------------------------------------
(* Safety.                                                                 *)

\* The types of the variables: counters never go negative (strict_sub).
TypeOK ==
  /\ remote_id \in BOOLEAN /\ closed \in BOOLEAN /\ registered \in BOOLEAN
  /\ read_buffer \in Nat /\ initial \in Nat /\ acknowledged \in Nat
  /\ out \in Message /\ usb \in {"idle", "busy", "done", "failed"}
  /\ wakers \subseteq {"r", "w"} /\ error \in BOOLEAN /\ others \in Nat
  /\ pc \in {"open_new", "acc_new", "open", "open_wait", "shutdown", "sd_write",
             "wr_done", "gone", "panicked"} \cup DOMAIN Following
  /\ rd \in {"off", "on", "eof", "err"} /\ parked \subseteq {"r", "w"}
  /\ timer \in {"off", "armed", "fired"}
  /\ dev \in {"none", "opening", "open", "closed"} /\ toHost \in Seq(Message)
  /\ wrote \in Nat /\ devGot \in Nat /\ granted \in Nat
  /\ devWrote \in Nat /\ read \in Nat /\ devLimit \in Nat
  /\ hostClosed \in BOOLEAN

\* poll_write never takes more bytes than the device has granted, whatever
\* OKAYs are still under way: the device's buffer is never overrun.
NoOverrun == wrote <= granted

\* poll_flush compares acknowledged with initial_acknowledgment for equality.
\* When an opened socket passes that test, the device has received and
\* acknowledged every byte that poll_write took.
FlushMeansAcknowledged ==
  remote_id /\ AllAcknowledged => devGot = wrote /\ granted = DevWindow + wrote

\* The OKAYs of poll_read never let the device send more than the window that
\* OPEN or accept's OKAY announced leaves free, so read_buffer is bounded by it.
ReadWindow == read_buffer <= HostWindow /\ devLimit <= HostWindow + read

\* poll_read's OKAYs give back all it took: once the endpoint has nothing under
\* way, an open socket's device has the whole window to write into again.
WindowRestored ==
  Usable /\ ~closed /\ ~error /\ dev = "open" /\ usb \in {"idle", "done"}
    => devLimit >= HostWindow + read

\* End of file is reported only after every byte the device sent before its
\* CLSE, unless this end closed the socket itself.
NoTruncation == rd = "eof" /\ ~hostClosed => read = devWrote

\* on_error leaves no half asleep that waits through the wakers of a socket
\* in the map, neither a poll_read nor a poll of the writing half that
\* registered write_waker: each poll that follows it sees the error.
SocketsNotified ==
  error /\ registered =>
    /\ "r" \notin parked
    /\ "w" \in parked => pc \notin {"open_wait", "open", "shutdown", "wr_done"}

\* poll_shutdown's comment and write_message's assertion: nothing is pending on
\* the endpoint when poll_shutdown writes CLSE.
FlushedBeforeWrite == pc = "sd_write" /\ ~error => usb = "idle"

\* on_error's closing trace: after an error nobody waits for the transport.
AllWaitersNotified == error => parked = {}

-----------------------------------------------------------------------------
(* Liveness, while the transport lives.                                    *)

\* A task that waits in the writing half (for the endpoint, for credit, for
\* the answer to OPEN or for the throttle) is woken again: no wakeup is lost
\* between write_wakers, write_waker and the reader task.
WriterWoken == "w" \in parked ~> "w" \notin parked

\* What the device has sent is read, as long as the reading half goes on and
\* this end does not close the socket.
Delivered ==
  \A k \in 1..MaxDevWrite :
    devWrote >= k /\ rd = "on" ~> read >= k \/ hostClosed \/ rd # "on"

\* The reader of a socket that the device closed gets its end of file.
EofReported == closed /\ ~hostClosed /\ rd = "on" ~> rd # "on"

\* open_socket returns, whether or not the device accepts the socket.
OpenReturns == pc = "open_new" ~> pc \in {"open", "gone"}

\* poll_shutdown completes.
ShutdownReturns == pc = "shutdown" ~> pc \notin {"shutdown", "sd_write"}

\* Closing the socket at this end, by poll_shutdown or by dropping it, closes
\* it on the device too.
CloseReachesDevice == hostClosed /\ remote_id ~> dev = "closed" \/ pc = "panicked"

=============================================================================
