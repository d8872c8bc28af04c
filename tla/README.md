# A TLA+ verification of adb-daemon-rs

adb-daemon-rs is a replacement for the `adb` server: it owns the USB connections
to Android devices, multiplexes streams over each of them, and serves clients
over TCP with the "smart socket" protocol. This directory holds TLA+ modules of
its protocol and concurrency core, TLC configurations that check them on small
instances, and proofs, checked by TLAPS, of the central safety properties.

Paths below are relative to the repository; `transport/` stands for
`packages/transport/src/`.

## 1. Inventory

| Component | State | Operations | Interacts with |
|---|---|---|---|
| Socket (`transport/socket.rs`) | remote id, closed flag, read buffer, credit (`acknowledged`, `initial_acknowledgment`), throttle timer, two wakers | `poll_read`, `poll_write`, `poll_flush`, `poll_shutdown`, drop, `handle_message` | locks its state, then the connection; the reader task calls `handle_message` |
| Transport (`transport/transport.rs`) | connection mutex, `error`, `sockets` map, `close_notify`, `last_id`, channel of inbound sockets | `open_socket`, `accept_socket`, `close`, reader task, `on_error` | sockets, USB connection, connection manager |
| Authentication (`transport/transport.rs`, `auth.rs`) | the last challenge | `AuthTransport::new`, `auth`, `handle_cnxn` | USB connection; makes a transport |
| USB connection (`transport/connection/usb.rs`) | queues of IN and OUT transfers, `in_header`, `in_timeout` | `poll_read_message`, `write_message`, `poll_flush` | host controller, device |
| Connection manager (`src/connection/`) | `by_serial`, `by_id`, broadcast of updates | `run` loop, `refresh_usb`, `new_connection`, `remove_closed_connections`, `accept_sockets_task` | USB, transports, clients |
| Smart socket (`src/smart_socket/`) | the client's TCP stream, device selector | dispatch of services, device selection, `track-devices`, `wait-for-any-device`, copy loops | manager, transports, forwarding |
| Forwarding (`src/forward.rs`) | listeners by port, reverse rules by connection | add, remove, list, `forward_task`, `handle_socket` | smart socket, manager, transports |
| Start-up (`src/daemon.rs`, `main.rs`, `sys/unix.rs`) | the server port | `check_adb_server`, `bind_smartsocket`, `start_daemon`, host:kill | other starts, an adb server |
| Log, configuration, platform (`src/log.rs`, `config.rs`, `sys/`) | files | I/O | - |

What is hard here:

- *Flow control across an unreliable interleaving.* Credit and data travel in
  opposite directions in separate messages, while both halves of a socket and
  all other sockets share one OUT endpoint that takes one message at a time.
- *Wakeups.* Every wait is a waker stored in one of four places (socket wakers,
  `write_wakers`, `close_notify`, timers); a poll that stores its waker in the
  wrong one, or an event that looks in the wrong one, puts a task to sleep.
- *Locks.* State mutex, connection mutex and map lock are taken in different
  orders by polls, the reader task and `on_error`.
- *Failure in the middle.* A transport can fail, be closed, or be dropped at
  every point of every operation, and its device come back under the same serial.
- *Boundaries.* Payloads that fill packets exactly, credit that is used up, bounded
  channels that are full or lag.

For each component the properties that make it correct: a socket never overruns
its peer, never loses, repeats or reorders bytes, reports end of file only after
the last byte, and wakes whoever waits; a transport that fails stops, and tells
everyone; a connection carries messages whole and in order; the manager lists
the devices that work, brings back those that fail and tells its clients; the
forwarding manager forwards exactly what its rules say; a service hands a client
all of a device's output and a device all of a client's input, whoever ends first;
starts of the daemon end with one of them serving. `PROJECT.json` lists the
hazards line by line with the properties that cover them.

## 2. Modules

### Socket

One stream, with the device at its other end. A byte is its position in the
stream: a WRTE carries the interval `lo+1..hi`, an OKAY the credit `hi - lo`. The
counters `wrote`, `devGot`, `granted`, `devWrote`, `read` and `devLimit` say how far
each side has got; `acknowledged`, `initial`, `read_buffer`, `closed`, `remote_id`
are the fields of `State`.

`poll_read`, `poll_write` and `poll_flush` hold the state mutex and the connection
mutex from beginning to end, and each is one action (`PollRead`, `PollWrite`,
`PollFlush`). `poll_shutdown` releases both after its flush and takes the
connection again, and is two (`PollShutdown`, `ShutdownWrite`). `open_socket` and
`accept` are sequences of `Register`, `PollWriteAsync` and `PollOpenWait`; `Drop`
covers dropping the socket and aborting a task inside `open_socket`.
`HandleMessage` is the reader task's share. `parked` holds the halves (r, w) that
returned Pending and were not woken; `wakers` those in `write_wakers`. A timer
(`write_throttle`) has no clock: it may be ready when it is polled, or tick later.

External: the OUT endpoint (`Complete`), the device (`Dev*`), the other sockets
(`OtherWrite`), faults. The device keeps the protocol: it sends within its
credit, grants its window again as it consumes, sends nothing after CLSE, and does
not close a socket of its own before the host has answered its OPEN (it does not
know the host's id before).

### Stream

What a user of a socket may rely on, without messages, credit or locks: a window of
bytes in each direction, `Write` up to the window, `Read` of what has come, `Eof` after
the last byte, `Shutdown` once everything has arrived, `Drop` at any time, `Fail` of the
transport, and a device end that gets, writes and closes. `SocketInv.StreamImplemented`
says that Socket implements it. In the mapping the stream knows of the device's close
(`known`) when the host has handled its CLSE, that is `closed /\ ~hostClosed`, and the
reader is on or at end of file as Socket's `rd` is; the counters are Socket's own. Service
uses Stream in Socket's place.

### Transport

The same code at the grain of locks, for the question what happens when a
transport fails. `on_error` is four steps (`SetError`, `TakeConnection`,
`NotifyReader`, `NotifySockets`), called by the reader, by a closer
(`Transport::close`) or from inside a poll that holds its state mutex. A poll is
register, check, lock, flush. `open_socket` is the insert into the map, the OPEN
(`WriteMessage`) and polls for the answer (`PollAnswer`). The reader task has its
`check_error`, the creation of the `select!` futures, the read, the map lookup, the
handler and the bounded channel as separate steps, because `notify_waiters` reaches only
futures that exist; when there is no receiver it closes the inbound socket, with
`WriteMessage` again. A task in `WriteMessage` that finds the endpoint busy is `asleep`,
and only the endpoint wakes it, through the `write_wakers` that `on_error` drops.

Whether a reader that waits for room in the channel is ever released depends on the
receiver, which is part of the `Transport` and lives as long as the `Arc<Connection>`.
The variable `strong` says who holds one: `create_usb_connection` until it has spawned
`accept_sockets_task`, the two maps of the manager, `accept_sockets_task` while it is in
`accept_socket`, and every task in `open_socket` (services.rs:27, forward.rs:111). An
upgrade fails when nobody does. The caller of `Transport::close` holds one too, as long as
its `on_error` lasts, and "features" (services.rs:93) for the write of a reply of a few
hundred bytes; these are left out. `Displaced` is the insert
of another connection under the same serial, which ConnectionMgr shows to happen.

`ReaderStops` says what the code does achieve, with its exceptions by name. They
are consequences of finding 2 and of the two steps of `new_connection`: a reader
may stay in `send_async` for ever when the channel is full, `handle_socket` does not
return, and a task that was asleep in `open_socket` when the connection was taken, or an
entry of `by_id` that was inserted after the removal or displaced in `by_serial`, keeps the
receiver alive (`Clogged`); or it is itself asleep over the CLSE of an inbound socket when
the connection is taken. TLC finds a behaviour for each of the three when its exception is
left out. What stays behind is the reader task, its transport and the tasks in the channel.

Assumed of the libraries: `MutexGuard::unlocked` releases and takes back the
mutex; a DashMap reader does not wait for a waiting writer (dashmap 6: readers
look at the writer bit only); all keys share a shard, which is the worst case.
What a flush waits for is left to Socket.

### MessagePipe, UsbConnection

MessagePipe is the promise of a `Connection`: messages come out whole, in order,
once. UsbConnection implements it twice, for IN and for OUT, at the grain of
transfers and packets: `InFramed` and `OutFramed` are `MessagePipe` instances under
the mappings `sent <- devSent, got <- returned` and `sent <- written, got <- devGot`.
A message is a header packet and payload packets. A transfer is done when its
buffer is full or a short packet arrives (external: the USB rules). The IN
endpoint may lose a wakeup, as the comment in `poll_read_message` reports. The
device ends no payload with an empty packet, as `poll_read_message` presupposes,
and takes a short or empty packet for the end of a transfer, as `write_message`
presupposes.

### ConnectionMgr

The manager's loop step by step (`Wake`, `RefreshCheck`, `RefreshOpen`,
`RemoveClosed`, `RemoveOne`, `LoopEnd`), the task of each connection from the
handshake (`AuthAsked`, `AuthDone`, `AuthFailed`) through the three steps of
`new_connection`, failures and the "reconnect" service, and the clients
`track-devices` and `wait-for-any-device` with their broadcast receivers. A device
stands for its serial; its interface is claimed by at most one connection.
No order is assumed between the tasks of two connections of one device.

Observed while modelling, and not contradicted by any doc: a connection can fail between
its CNXN and its `by_serial.insert` (manager.rs:68), which gives the interface back; if
the loop opens another one and its task comes first, the late insert overwrites a
connection that works with one that does not. `remove_closed_connections` then removes
the late one, and the connection that works stays open, claims the interface so that every
`refresh_usb` fails to open the device, and is not listed until it fails or the device is
pulled out. The history variable `overrun` records which connections this has happened to;
`LiveListed` and `Reconnects` say that nothing else takes a connection that works, or a
device that stays, out of the lists. A connection that
fails and is removed between the two inserts of `new_connection` stays in `by_id`, as
does one that was overwritten; `by_id` is never read, but it keeps the transport alive (see
Transport). `track-devices` misses an update that is sent between its
first list and its subscription.

### Forward

The listeners of ForwardingMgr. A client's command is `Request`, then `Clean`, `Pick`
and one of `Rebind`, `Add`, `Remove`: each takes the lock of the map once, and other
clients come in between. `Add` holds the lock across `bind`, which does not wait.
`forward_task` is `Accept`, `ReadRule`, `Opened`; the runtime's share is external and
follows tokio: a task that is aborted while no thread polls it is dropped without
running again (`Cancel`), one that is being polled runs on until its poll returns
(`Pending`). Until then it owns its port, and `bind` fails. A connection is `up`,
`closed`, or `gone` once its last `Arc` is dropped; a task inside `open_socket` holds
one. The history variables `rule`, `backlog` and `hand` remember which rules were
answered with OKAY since a TCP connection came in. Not claimed: that a task aborted
in the middle of a poll takes no further connection; it may, until the poll returns.

### Service

A device service, from the request of a client to the return of its task:
`handle_service` opens the device's socket (a `Stream`, by INSTANCE), answers, and runs
two copy loops inside `select!`. `socket_to_conn` is `SocketRead`, `ConnWrite` and its
three ends (`SocketEof`, `SocketError`, `ConnWriteFails`); `conn_to_socket` is `ConnRead`,
`SocketWrite`, `CopyEnds`, `SocketShutdown`. Each loop has one buffer, which it fills when
it is empty. Then comes the read to the end of the client's output (`ConnDiscard`,
`Return`, `Timeout`). TCP is external: it holds `TcpBuf` bytes on the way to the client, and
resets a connection that is dropped with input unread or that gets input later.

Observed, and not contradicted by any doc: a client that shuts down its output first
closes the device's socket in both directions, because ADB has no half-close, and the
device's later output is lost. `WholeOutput` is about the other clients.

### Reverse

The reverse rules of one connection, on the host (`reverse_forwards`) and on the device
(`rules`, external). A command is `HandleReverse`, under the lock of the map, and later
`OpenSocket`, so that the device hears of it (`DevCommand`) after the host has acted on it
and perhaps after another client's command. A connection at the device (`DevConnect`)
goes through the reader (`ReaderStep`) and its bounded channel to `accept_sockets_task`
(`AcceptSocket`, then `CheckRule`, `Connect`, `Accepted` or `CloseSocket` of
`handle_socket`). The reader is one queue for answers and inbound sockets, as it is in the
code: a full channel holds up the answers behind it. History variables remember which
addresses had two commands under way at once (`overlapped`), which rules the device
refused, and of each inbound socket whether its rule was left alone since.

Observed, and not contradicted by any doc: a rule that the device refuses stays in the
host's map and allows its local port; every tcp:0 rule is stored under the key tcp:0, so
that the second replaces the first on the host and not on the device.

### Startup

Processes that start the daemon side by side, and adb servers (external) that come up
at the same port. `check_adb_server` is `Probe` or `ProbeRefused`, `ProbeAnswered`, `Kill` or
`KillRefused`; `bind_smartsocket` adds `Bind`, which starts over when the port is in use;
`Serve` and `StartFails` are `start_daemon`. A listener's backlog takes connections before its
process accepts, so that a probe waits for a daemon that is still coming up. `HandleKill`
is the server's side of host:kill: it answers some of those that asked and exits.
The shim of `sys/unix.rs` binds in the same way and hands the socket to a child, whose
`Serve` it is.

Observed, and not contradicted by any doc: with a `listen_address` that 127.0.0.1 does not
reach, a second start finds nobody to ask and the address in use, and tries again without
end. A start that asked an adb server can stop a daemon that has taken its place.

## 3. Runs

The runs of Socket, Transport, UsbConnection, Service, Reverse and Startup have
`CHECK_DEADLOCK FALSE`: a socket that is gone, a transport that has stopped, a device that
sends nothing more, a service that has returned, clients without further commands and
starts that are over have no further step. The manager and the forwards never stop, and are checked for it.

| Run | Instance | Shows |
|---|---|---|
| socket_safety | windows 2, streams of 3 bytes, buffers up to 2, 3 messages in flight, one foreign message, faults | `NoOverrun`, `FlushMeansAcknowledged`, `ReadWindow`, `WindowRestored`, `NoTruncation`, `SocketsNotified`, types; Socket implements `Stream` |
| socket_live | windows 2 and 1, streams of 2 bytes, one foreign message, no faults | `WriterWoken`, `Delivered`, `EofReported`, `OpenReturns`, `ShutdownReturns`, `CloseReachesDevice`, and the inductive invariant `StreamsConserved` |
| socket_assert (violation) | small | `FlushedBeforeWrite` fails: finding 1 |
| socket_notify (violation) | small | `AllWaitersNotified` fails: finding 2 |
| transport | one task that opens a socket, the reader, a closer, channel of 1 | `NoSleeper`, `PollReturns`, `ReaderStops`, `ErrorHandled` |
| usb | packets of 2, payloads 0..4; three messages in or four out | `InFramed`, `Arrives`; `OutFramed`, `FlushComplete` |
| manager | one device and a tracking client, or two devices, one of them in recovery mode, and a waiting client; 3 plugs, 3 connections, one failure, lag after 2 updates | `LiveListed`, `Reconnects`, `TrackerCurrent`, `WaitReturns` |
| forward_safety | two clients (symmetric), two devices, one port, two tasks, one failure of accept | `RuleObeyed`, `NoOrphan` |
| forward_rebind (violation) | one client, no failures of accept | `ForwardListens` fails: finding 3 |
| service | windows 2, 3 bytes each way, TCP buffer of 1, the transport may fail | `WholeOutput`, `NoReset`, `WholeInput`, `SessionEnds` |
| reverse | two clients, one address of the device and tcp:0, a TCP port and another local address, channel of 1; 3 commands and one connection, or 2 and 3 | `RulesAgree`, `RuleHonoured`, `InboundAnswered`, `CommandReturns` |
| startup | four processes, two adb servers, one daemon that fails to come up; the address reachable at 127.0.0.1 or not | `Settled`, `DaemonSpared`, `StartEnds` |

Why the bounds are enough for the questions asked: a stream longer than the window
makes the writer run out of credit, wait and go on; buffers smaller than a message
make short reads; one foreign message is enough to be in the way of each of the
socket's own; a channel of one is full after one message; payloads 0..4 with packets
of 2 are empty, short, exact, one over and two exact; connections are as many as
plugs and failures can consume; with two tasks one can hold a port of which the
other's entry is in the map or to come, and forwards of different ports share
nothing but the lock. Three bytes over windows of two let either copy loop of a service
have its buffer full and the peer's window used up; three inbound sockets are one at
`handle_socket`, one in the channel and one that the reader holds; with four processes
one can serve, one wait to kill it, one bind and one probe. Two directions of a USB
connection share only the lock, and two kinds of manager clients share nothing, so that
`MCUsbConnection` and `MCConnectionMgr` take them one at a time.

Findings:

1. `poll_shutdown` (socket.rs:309-313) flushes the connection, gives up its mutex,
   takes it again and writes CLSE, relying on the flush. Another socket's message
   can be pending by then; `write_message` asserts that none is, and the task
   panics. The socket is marked closed already, so that its drop sends no CLSE and
   the device keeps its end open.
2. `on_error` (transport.rs:195-206) traces "notified all waiters". Tasks inside
   `write_message_async`, and those that flush for a socket no longer in the map,
   have their waker in `write_wakers` only, which is dropped with the connection.
3. `ForwardCommand::Add` (forward.rs:155-170) cleans under one lock and looks its port
   up under the next. The listener's task can end in between (its device vanished
   and a connection came in): the entry is rebound and answered with OKAY, and
   nobody listens, against what the test
   `fixed_port_rebind_preserves_listener_and_norebind_preserves_target` expects of a
   rebind. The next command that cleans removes the entry.

### Fairness

Safety runs use none. `FairSpec` of each module assumes weak fairness of what the
tokio runtime does (a task that was woken is polled, the reader and manager loops
go on, timers tick) and of what the hardware does (a transfer ends). Transport
assumes strong fairness for taking a lock that is free again and again (the reader's of a
state mutex, the tasks' of the map): parking_lot hands a mutex to its longest waiter, and
readers of the map hold it briefly. It assumes nothing of the OUT endpoint.
Forward assumes it for the return of a poll, which tokio's budget forces on a task
that always finds something to do. Of
the device it is assumed, where stated, that it takes transfers, keeps consuming,
and completes a handshake when it stays plugged in. Nothing makes the application
write, shut down or drop, the device send, `handle_socket` return, or a parked task
be polled by chance. In Service a client that has not gone reads (a client that neither
reads nor leaves does block its own task), and the timer of the read to the end fires; in
Reverse connecting to a local port comes to an end and the device answers; in Startup
processes run and servers answer. Next-state constraints of the MC modules restrict only
steps that no fairness condition asks for.

## 4. Proofs

For all values of the constants. The assumptions are `WindowAssumption` and
`BoundAssumption` of Socket and `ServiceAssumption` (windows, payload limit and TCP
buffer are positive naturals, bounds naturals), `TransportAssumption` (finitely many
tasks, a channel with room for something), `StartupAssumption` (processes are none of
the names used for other listeners, bounds are naturals), `PacketAssumption` (a header
is shorter than a packet, lengths are naturals), and `ManagerAssumption`,
`PortAssumption` and `ReverseAssumption` (names that stand for "none" are not devices,
tasks, addresses or ports, channels have room, bounds are naturals).

- `SocketProofs`: `TypeCorrect`, the types, in particular that no counter goes
  negative (`strict_sub` does not panic); `StreamsCorrect`, and from it
  `CreditNeverOverrun`, `FlushCorrect`, `ReadBufferBounded`, `EofAfterLastByte`;
  `WindowGivenBack`; `ErrorWakesSockets`: after `on_error` no half sleeps that waits
  through a waker of a socket in the map; `SocketImplementsStream`: Socket implements
  Stream.
- `TransportProofs`: `TypeCorrect`, and `NobodySleeps`, which is `NoSleeper`
  for any number of tasks and any capacity of the channel.
- `UsbProofs`: `FlushReadyMeansReceived`, and `OutImplementsPipe` and
  `InImplementsPipe`: either direction implements MessagePipe, for every packet size and
  every set of payload lengths; `ReaderHasTimer` and `WriterHasTransfer`: a half that
  returned Pending has somebody to wake it.
- `ConnectionMgrProofs.LiveConnectionsListed`: `LiveListed` for any number of devices,
  connections and failures: only the late insert of a connection that had failed takes one
  that works out of `by_serial`.
- `ForwardProofs`: `ListenersReachable` and `RulesObeyed` for any number of clients,
  ports and tasks.
- `ReverseProofs`: `ReverseRulesAgree` and `AgreedRuleHonoured` for any number of
  clients, addresses, commands and inbound sockets.
- `ServiceProofs`: `OutputWhole`, `NeverReset` and `InputWhole` for streams of any length.
- `StartupProofs`: `StartsSettle` and `DaemonsSpared` for any number of processes.

### The socket

None of the properties is inductive by itself. `NoOverrun` (`wrote <= granted`) needs
to know that the credit left and the credit used never exceed what was granted,
which needs to know what the OKAYs under way carry. The invariant
`StreamsConserved` (SocketInv) says where every unit is:

- *Credit*: `acknowledged + wrote <= granted <= DevWindow + devGot` and
  `devGot <= wrote`; `initial = DevWindow` once the remote id is known; the OKAYs in
  the queue tile the interval from `acknowledged + wrote` to `granted`. So
  `acknowledged = initial` squeezes all of them to equality, which is
  `FlushMeansAcknowledged`.
- *Bytes*: the WRTEs in the queue tile `read + read_buffer .. devWrote`, and the
  device's limit plus the OKAY on the endpoint is at most `HostWindow + read`, which
  is `ReadWindow`. A CLSE is the last message of the queue, so that when it is
  handled nothing is under way: `read + read_buffer = devWrote`, which makes end of
  file on an empty buffer `NoTruncation`.
- *Fresh*: nothing has happened before OPEN or accept's OKAY is written.

`Tiles` says of a queue that the intervals of one command follow each other without
gap or overlap; the lemmas `TilesAppend`, `TilesTail` (and their versions for other
commands) say what Append and Tail do to it. `Effects` groups the actions by what
they do to the counters, so that the induction has one case per kind of effect.

The refinement adds one fact to `StreamsConserved`, `LifeInv`: before a socket is open
nobody reads it and the host has not closed it, and closing marks it closed. Opening,
reading, end of file, writing, dropping, the failure and what the device does map to the
stream's steps of the same name. A shutdown needs the argument of
`FlushMeansAcknowledged` (everything written has arrived), a write the credit invariant,
the device's write the read window, and the handling of CLSE is `Learn` because a CLSE in
the queue means that the device has closed. Everything else, wakers, foreign messages and
the handling of OKAY and WRTE included, is a stutter.

`WindowRestored` needs the opposite bound of `ReadWindow`: `WindowInv` says that, while
both ends are open and the transport is up, the device's limit and the credit of an OKAY
on the endpoint make at least `HostWindow + read`, and that the first OKAY or OPEN
carries the whole window. No step but `poll_read` moves `read`, and it writes the OKAY
for what it took in the same step, on an endpoint it has found flushed.

### USB

OUT: `write_message` is called with nothing pending, so that at most one message is under
way. `OutInv` says how far it is: all transfers left, part of the payload with the rest in
the device's buffer, or the empty packet alone with the whole payload in the buffer.
`Left` allows for completed transfers that poll_flush has not taken out yet. The
arithmetic is in `CountBounds`, `Remainder` and `RestBounds`: all packets of a payload but
the last are full, and the last one is full exactly when `NeedsZero` asks for the empty
packet. So the device's short packet is always the last of a header or of a payload.

IN: the packets that are not transferred are numbered without gaps up to the last packet
of the last message sent (`PipeInv`), and the transfers are in step with them
(`FramedAt`): either there is one transfer, for a header, or a header is held and there
are two, for its payload and for the next header, and the next packet in the pipe is the
next one the first unfinished transfer wants. `PayloadInto` is the heart: a buffer of
`next_multiple_of(packet_size)` bytes is done with the last packet of its payload and not
before, whether that packet is short or full. `reader` never becomes "malformed".

### The other components

`NobodySleeps` does not follow from the order of the stages alone: two calls of
`on_error` can overlap, and a task can register before, between and after them.
`SleepInv` says that

- a task inside a poll has its waker in its socket or has been woken;
- once nobody is inside `on_error`, every task in the map whose poll had found no error has
  been woken: the sleepers, and those that are between the check and the sleep.

The second is what keeps a task from going to sleep after the last notification: a poll of
`open_socket` for the answer does not look at the connection after its check, and sleeps
whether it is there or not.

`StartInv` of Startup says who listens (`OwnerInv`: the listener is the one process that
has bound, and whoever waits for an answer waits for it), that without a daemon some
start is still on its way to `bind` (`PursuitInv`: whoever stops a server goes on to
bind), and that without adb servers nobody is in the branch that kills (`SparedInv`).

`ServiceInv` orders the counters along both directions, from the client through the task
to the device and back (`OrderInv`), ties them to the stage of the task (`StageInv`), and
says why each loop may have ended: the loop toward the client at the device's last byte
(`OutputInv`), the loop toward the device when everything was written or one side was
gone (`InputInv`). It uses the socket only through the steps of Stream, so that together
with `SocketImplementsStream` it speaks of the real socket.

`MgrInv` of ConnectionMgr rests on the claim of the interface: a connection that works, or
may come to, holds its device's interface, so that each device has one (`ClaimInv`). When
`by_serial.insert` replaces a connection that works, the new one therefore does not work,
and the old one is in `overrun`. `MapInv` says that the map holds connections that were
inserted, which the "reconnect" service closes.

`ForwardInv`: a task is in the map for its own port only, a task that goes on accepting is
the map's (dropping an entry aborts its task, and a port is bound anew only when nobody
listens), the `Forward` it shares with its entry is the rule its port was last given, and
every connection that waits, or was accepted, has seen that rule in place.

`ReverseInv` follows the commands: a client that waits has its OPEN or the answer to it
under way exactly once (`QueueInv`); a command that the device has not carried out has been
carried out by the host (`PendingInv`), and without such a command the rules agree
(`AgreeInv`). Sockets opened through a rule that no command followed have the host's rule
(`CalmInv`), which `handle_socket` therefore finds (`DenyInv`).

Only model-checked: liveness, which is outside the prover's reach. These are
`WriterWoken`, `Delivered`, `EofReported`, `OpenReturns`, `ShutdownReturns` and
`CloseReachesDevice` of Socket, `PollReturns`, `ReaderStops` and `ErrorHandled` of
Transport, `Arrives` of UsbConnection, `Reconnects`, `TrackerCurrent` and `WaitReturns` of
ConnectionMgr, `SessionEnds` of Service, `InboundAnswered` and `CommandReturns` of
Reverse, and `StartEnds` of Startup. Every invariant and every refinement that a passing
run checks is stated by a theorem.

## 5. Not modelled, and plan

Left out, with the reason:

- `log.rs`: names, rotation and contents of the log files. Nothing in the program reads
  them, so that no other component's behaviour depends on it.
- `config.rs`, `util.rs`, `sys/windows.rs`, and of `sys/unix.rs` the mechanics of fork, exec
  and file descriptors: settings and system calls without protocol state. The shim's bind
  is Startup's.
- Encoding of headers, keys and banners, and the cryptography of the handshake: data.
- Services that only read (version, features, devices) and change no state.
- The copying of a forwarded connection, in either direction, which is tokio's
  `copy_bidirectional` over two streams.
- The wrap of `last_id` at 2^32: an id space small enough for TLC would reuse ids that
  the code keeps apart.

Planned, in this order:

1. The safety half of `WriterWoken`: in Socket, a half that sleeps while the transport is
   up has its waker where the event it waits for looks.
2. The safety half of `TrackerCurrent` and `WaitReturns`: a client that waits for an update
   has seen the current list, or an update is on its way to it.
3. The safety half of `ReaderStops`: who holds which lock, and that nobody waits in a circle.
