--------------------------- MODULE UsbConnection ---------------------------
(***************************************************************************)
(* Messages over two bulk endpoints                                        *)
(* (packages/transport/src/connection/usb.rs): poll_read_message with its  *)
(* queue of IN transfers, write_message and poll_flush with the OUT        *)
(* transfers, and the host controller and the device (external) that move  *)
(* packets.  A message is a header and a payload of as many bytes as the   *)
(* header says; what is kept of them is their packets.                     *)
(***************************************************************************)
EXTENDS Naturals, Sequences

CONSTANTS
  PacketSize, \* packet_size
  HeaderLen,  \* AdbMessageHeader::LENGTH
  Lengths,    \* payload lengths
  MaxIn,      \* bound: messages the device sends
  MaxOut,     \* bound: messages the host writes
  MayFail     \* whether transfers may fail

\* UsbConnection::new refuses packets smaller than a header; bulk packets have
\* 8, 16, 32, 64, 512 or 1024 bytes, so a header (24) is a short packet.
ASSUME PacketAssumption ==
  /\ PacketSize \in Nat /\ HeaderLen \in Nat \ {0} /\ HeaderLen < PacketSize
  /\ Lengths \subseteq Nat /\ MaxIn \in Nat /\ MaxOut \in Nat /\ MayFail \in BOOLEAN

VARIABLES
  \* IN
  devSent,   \* the messages the device has sent
  pipe,      \* its packets that are not transferred yet
  in_queue,  \* in_endpoint: transfers submitted and not returned
  in_header, \* the header whose payload is awaited, or None
  returned,  \* the messages poll_read_message has returned
  reader,    \* ready, parked (returned Pending), failed (a transfer) or malformed
  in_timeout, \* off, armed (will wake the reader) or elapsed
  \* OUT
  written,   \* the messages passed to write_message
  out_queue, \* out_endpoint: the packets left of each pending transfer
  writer,    \* flush, parked (poll_flush returned Pending), write (it was Ready)
             \* or failed
  devBuffer, \* packets of the transfer the device is receiving
  devHeader, \* the header the device has received last, or None
  devGot     \* the messages the device has received

inVars  == <<devSent, pipe, in_queue, in_header, returned, reader, in_timeout>>
outVars == <<written, out_queue, writer, devBuffer, devHeader, devGot>>
vars    == <<inVars, outVars>>

-----------------------------------------------------------------------------
(* Messages and packets. *)

\* Packet k of message i (0 is its header); data is the header's data_length.
Packet(i, k, len, data) == [msg |-> i, index |-> k, len |-> len, data |-> data]

Header(i, n) == Packet(i, 0, HeaderLen, n)

ZeroPacket == Packet(0, 0, 0, 0)

None == Packet(0, 0, HeaderLen, 0)

Rest(n, k) == IF n - (k - 1) * PacketSize < PacketSize
                THEN n - (k - 1) * PacketSize ELSE PacketSize

Payload(i, n) ==
  [k \in 1..(n + PacketSize - 1) \div PacketSize |-> Packet(i, k, Rest(n, k), 0)]

Message(i, n) == [header |-> Header(i, n), payload |-> Payload(i, n)]

Transfer(size) == [size |-> size, data |-> <<>>, done |-> FALSE]

Init ==
  /\ devSent = <<>> /\ pipe = <<>> /\ in_queue = <<>> /\ in_header = None
  /\ returned = <<>> /\ reader = "ready" /\ in_timeout = "off"
  /\ written = <<>> /\ out_queue = <<>> /\ writer = "flush"
  /\ devBuffer = <<>> /\ devHeader = None /\ devGot = <<>>

-----------------------------------------------------------------------------
(* IN. *)

\* The device sends a message (it ends no payload with an empty packet).
DevSend(n) ==
  /\ Len(devSent) < MaxIn
  /\ LET m == Message(Len(devSent) + 1, n) IN
     devSent' = Append(devSent, m) /\ pipe' = pipe \o <<m.header>> \o m.payload
  /\ UNCHANGED <<in_queue, in_header, returned, reader, in_timeout, outVars>>

\* The controller puts a packet into the first transfer that is not done.  The
\* transfer is done when its buffer is full or the packet is short; packets
\* before the last have PacketSize bytes.  The wakeup of the reader may get
\* lost, as the comment in poll_read_message reports.
Transferred(lost) ==
  /\ reader # "failed" /\ pipe # <<>> /\ pipe' = Tail(pipe)
  /\ \E j \in DOMAIN in_queue :
       LET t == in_queue[j]
           p == Head(pipe)
           full == Len(t.data) * PacketSize + p.len >= t.size
       IN  /\ ~t.done /\ \A k \in 1..(j - 1) : in_queue[k].done
           /\ in_queue' = [in_queue EXCEPT ![j] =
                [size |-> t.size, data |-> Append(t.data, p),
                 done |-> p.len < PacketSize \/ full]]
           /\ reader' = IF reader = "parked" /\ in_queue'[1].done /\ ~lost
                          THEN "ready" ELSE reader
  /\ UNCHANGED <<devSent, in_header, returned, in_timeout, outVars>>

MutPayloadSize(n) == (n \div PacketSize + 1) * PacketSize

\* The buffer for a payload of n bytes: next_multiple_of(packet_size).
PayloadSize(n) == ((n + PacketSize - 1) \div PacketSize) * PacketSize

\* What poll_read_message submits when it has a header of n bytes of payload:
\* a buffer for the payload, then one for the next header.
Submitted(n) ==
  IF n > 0 THEN <<Transfer(PayloadSize(n)), Transfer(PacketSize)>>
           ELSE <<Transfer(PacketSize)>>

\* The first poll finds nothing submitted.
PollFirst ==
  /\ reader = "ready" /\ in_queue = <<>> /\ in_queue' = <<Transfer(PacketSize)>>
  /\ UNCHANGED <<devSent, pipe, in_header, returned, reader, in_timeout, outVars>>

MutTicked == IF in_timeout = "elapsed" THEN "off" ELSE "armed"

\* poll_tick: a tick that has elapsed is taken and the timer polled again, so
\* that it is armed whenever the poll returns Pending.
Ticked == "armed"

PollPending ==
  /\ reader = "ready" /\ in_queue # <<>> /\ ~in_queue[1].done
  /\ reader' = "parked" /\ in_timeout' = Ticked
  /\ UNCHANGED <<devSent, pipe, in_queue, in_header, returned, outVars>>

\* A transfer is returned while a header waits for its payload.
PollPayload ==
  /\ reader = "ready" /\ in_queue # <<>> /\ in_queue[1].done /\ in_header # None
  /\ returned' = Append(returned, [header |-> in_header, payload |-> in_queue[1].data])
  /\ in_header' = None /\ in_queue' = Tail(in_queue) /\ in_timeout' = "armed"
  /\ UNCHANGED <<devSent, pipe, reader, outVars>>

\* A transfer is returned that must hold a header.
PollHeader ==
  /\ reader = "ready" /\ in_queue # <<>> /\ in_queue[1].done /\ in_header = None
  /\ in_timeout' = "armed"
  /\ LET h == in_queue[1].data[1] IN
     \/ /\ Len(in_queue[1].data) = 1 /\ h.index = 0 /\ h.len = HeaderLen
        /\ in_queue' = Tail(in_queue) \o Submitted(h.data)
        /\ \/ h.data > 0 /\ in_header' = h /\ UNCHANGED returned
           \/ /\ h.data = 0 /\ returned' = Append(returned, [header |-> h, payload |-> <<>>])
              /\ UNCHANGED in_header
        /\ UNCHANGED reader
     \/ \* AdbMessageHeader::read fails
        /\ Len(in_queue[1].data) # 1 \/ h.index # 0 \/ h.len # HeaderLen
        /\ reader' = "malformed" /\ in_queue' = Tail(in_queue)
        /\ UNCHANGED <<in_header, returned>>
  /\ UNCHANGED <<devSent, pipe, outVars>>

\* The next transfer has failed.
PollError ==
  /\ MayFail /\ reader = "ready" /\ in_queue # <<>> /\ ~in_queue[1].done
  /\ reader' = "failed" /\ in_queue' = Tail(in_queue) /\ in_timeout' = Ticked
  /\ UNCHANGED <<devSent, pipe, in_header, returned, outVars>>

\* in_timeout ticks after ten seconds.
Timeout ==
  /\ in_timeout = "armed" /\ in_timeout' = "elapsed"
  /\ reader' = IF reader = "parked" THEN "ready" ELSE reader
  /\ UNCHANGED <<devSent, pipe, in_queue, in_header, returned, outVars>>

-----------------------------------------------------------------------------
(* OUT. *)

MutNeedsZero(n) == FALSE

\* A payload that ends with a full packet is followed by an empty one.
NeedsZero(n) == n > 0 /\ n % PacketSize = 0

MutTransfers(m, n) ==
  (IF n > 0 THEN <<m.payload>> ELSE <<>>) \o <<<<m.header>>>>

\* The transfers of a message: its header, and its payload if it has one.
Transfers(m, n) ==
  <<<<m.header>>>> \o ((IF n > 0 THEN <<m.payload>> ELSE <<>>)
    \o (IF NeedsZero(n) THEN <<<<ZeroPacket>>>> ELSE <<>>))

WriteMessage(n) ==
  /\ writer = "write" /\ Len(written) < MaxOut /\ writer' = "flush"
  /\ LET m == Message(Len(written) + 1, n) IN
     written' = Append(written, m) /\ out_queue' = out_queue \o Transfers(m, n)
  /\ UNCHANGED <<inVars, devBuffer, devHeader, devGot>>

\* How many transfers poll_flush takes out: the completed ones, up to the first
\* that is not.
Completed ==
  CHOOSE d \in 0..Len(out_queue) :
    /\ \A k \in 1..d : out_queue[k] = <<>>
    /\ d < Len(out_queue) => out_queue[d + 1] # <<>>

Remaining == SubSeq(out_queue, Completed + 1, Len(out_queue))

FlushReady == Remaining = <<>>

\* poll_flush is Ready, Pending, or meets a failed transfer.
PollFlush ==
  /\ writer = "flush"
  /\ \/ FlushReady /\ writer' = "write" /\ out_queue' = Remaining
     \/ ~FlushReady /\ writer' = "parked" /\ out_queue' = Remaining
     \/ MayFail /\ ~FlushReady /\ writer' = "failed" /\ out_queue' = Tail(Remaining)
  /\ UNCHANGED <<inVars, written, devBuffer, devHeader, devGot>>

\* The device has received data, the packets up to a short one; the first such
\* transfer is a header, the next its payload, if the header announces one.
Received(data) ==
  \/ /\ devHeader # None /\ devHeader' = None
     /\ devGot' = Append(devGot, [header |-> devHeader, payload |-> data])
  \/ /\ devHeader = None /\ data[1].data > 0 /\ devHeader' = data[1] /\ UNCHANGED devGot
  \/ /\ devHeader = None /\ data[1].data = 0
     /\ devGot' = Append(devGot, [header |-> data[1], payload |-> Tail(data)])
     /\ UNCHANGED devHeader

\* The controller sends a packet of the first transfer that has any left.  The
\* end of a transfer wakes the writer.
Taken ==
  \E j \in DOMAIN out_queue :
    /\ writer # "failed" /\ out_queue[j] # <<>> /\ \A k \in 1..(j - 1) : out_queue[k] = <<>>
    /\ out_queue' = [out_queue EXCEPT ![j] = Tail(@)]
    /\ writer' = IF writer = "parked" /\ Len(out_queue[j]) = 1 THEN "flush" ELSE writer
    /\ LET p == Head(out_queue[j])
           data == IF p = ZeroPacket THEN devBuffer ELSE Append(devBuffer, p) IN
       \/ /\ p.len = PacketSize /\ devBuffer' = data
          /\ UNCHANGED <<devHeader, devGot>>
       \/ p.len < PacketSize /\ devBuffer' = <<>> /\ Received(data)
    /\ UNCHANGED <<inVars, written>>

-----------------------------------------------------------------------------

Next ==
  \/ \E n \in Lengths : DevSend(n) \/ WriteMessage(n)
  \/ \E lost \in BOOLEAN : Transferred(lost)
  \/ PollFirst \/ PollPending \/ PollPayload \/ PollHeader \/ PollError \/ Timeout
  \/ PollFlush \/ Taken

Spec == Init /\ [][Next]_vars

\* The controller moves packets, the runtime polls who was woken, the timer
\* ticks.  Nothing makes the device or the host send a message.
Fairness ==
  /\ WF_vars(\E lost \in BOOLEAN : Transferred(lost)) /\ WF_vars(Taken)
  /\ WF_vars(PollFirst \/ PollPending \/ PollPayload \/ PollHeader)
  /\ WF_vars(Timeout) /\ WF_vars(PollFlush)

FairSpec == Spec /\ Fairness

-----------------------------------------------------------------------------

In == INSTANCE MessagePipe WITH sent <- devSent, got <- returned

Out == INSTANCE MessagePipe WITH sent <- written, got <- devGot

\* poll_read_message returns the messages of the device, whole and in order,
\* however the packets, the polls and the ticks of in_timeout fall.
InFramed == In!PipeSpec

\* The device gets the messages passed to write_message, whole and in order.
OutFramed == Out!PipeSpec

\* When poll_flush is Ready the assertion of write_message holds, and the
\* device has every message that was written.
FlushComplete == writer = "write" => out_queue = <<>> /\ devGot = written

\* Every message the device sends is returned, though the endpoint may lose
\* wakeups: in_timeout makes up for them again and again.
Arrives == \A i \in 1..MaxIn : Len(devSent) >= i ~> Len(returned) >= i \/ reader = "failed"

=============================================================================
