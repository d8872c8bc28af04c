----------------------------- MODULE Transport -----------------------------
(***************************************************************************)
(* How a transport fails: on_error of packages/transport/src/transport.rs  *)
(* against the reader task, the polls of the sockets, open_socket, the     *)
(* queue of inbound sockets and the strong references that keep the queue's *)
(* receiver alive, at the grain of their locks.                            *)
(*                                                                         *)
(* Locks: the mutex of each socket's state, the mutex of the connection,   *)
(* and the lock of the sockets map (DashMap; one shard, the worst case),   *)
(* which readers share past waiting writers.  A step takes the locks it    *)
(* releases again without waiting in between.  The waits of a socket's     *)
(* polls for the OUT endpoint are in Socket.                               *)
(***************************************************************************)
EXTENDS Naturals, Sequences, FiniteSets

CONSTANTS
  Tasks,  \* tasks, each with a socket of its own
  Cap     \* capacity of the channel of inbound sockets (3)

ASSUME TransportAssumption ==
  /\ IsFiniteSet(Tasks) /\ Cap \in Nat \ {0}
  /\ Tasks \cap {"reader", "closer", "none", "creator", "by_serial", "by_id", "acceptor"} = {}

Actors == Tasks \cup {"reader", "closer"}

VARIABLES
  error,      \* TransportBackend.error is set
  connection, \* the connection has not been taken
  sockets,    \* the sockets map
  stateLock,  \* holder of each socket's state mutex, or "none"
  connLock,   \* holder of the connection mutex, or "none"
  shared,     \* holders of read locks on the sockets map (write locks are
              \* taken and released within a step)
  pc,         \* where each actor is
  msg,        \* the socket the reader's message is for, or "none"
  notified,   \* close_notify has reached the reader's select!
  sinks,      \* tasks whose waker is registered with their socket
  woken,      \* tasks that were woken since their poll began
  queue,      \* inbound sockets in the channel
  strong,     \* who holds an Arc<Connection>: the maps of the manager, the task
              \* that creates the connection, accept_sockets_task in accept_socket
              \* and tasks in open_socket
  acceptor    \* create_usb_connection (serial, id), then the task it
              \* spawns, accept_sockets_task (upgrade, recv, busy, gone)

lockVars == <<stateLock, connLock, shared>>
wakeVars == <<notified, sinks, woken>>
chanVars == <<queue, strong, acceptor>>
vars == <<error, connection, sockets, lockVars, pc, msg, wakeVars, chanVars>>

\* The channel's receiver is in the Transport, which lives as long as its
\* Connection; upgrade of a WeakConnection succeeds for as long.
receiver == strong # {}

Goto(a, stage) == pc' = [pc EXCEPT ![a] = stage]

Init ==
  /\ error = FALSE /\ connection = TRUE /\ sockets = {}
  /\ stateLock = [t \in Tasks |-> "none"] /\ connLock = "none" /\ shared = {}
  /\ pc = [a \in Actors |-> CASE a = "reader" -> "check" [] a = "closer" -> "idle"
                              [] OTHER -> "new"]
  /\ msg = "none" /\ notified = FALSE /\ sinks = {} /\ woken = {}
  /\ queue = 0 /\ strong = {"creator"} /\ acceptor = "serial"

-----------------------------------------------------------------------------
(* on_error, called by the reader, by Transport::close and by polls.       *)

MutStages == <<"oe_set", "oe_notify", "oe_take", "oe_walk">>

\* The stages of on_error, in order.
Stages == <<"oe_set", "oe_take", "oe_notify", "oe_walk">>

\* Where an actor goes on after on_error: the guard of a task's poll locks the
\* connection again, the reader task ends.
Return(a) == IF a \in Tasks THEN "relock" ELSE "done"

After(a, stage) ==
  LET i == CHOOSE i \in DOMAIN Stages : Stages[i] = stage
  IN  IF i = Len(Stages) THEN Return(a) ELSE Stages[i + 1]

\* OnceLock::set: only the first error goes on.
SetError(a) ==
  /\ pc[a] = "oe_set" /\ error' = TRUE
  /\ Goto(a, IF error THEN Return(a) ELSE After(a, "oe_set"))
  /\ UNCHANGED <<connection, sockets, lockVars, msg, wakeVars, chanVars>>

TakeConnection(a) ==
  /\ pc[a] = "oe_take" /\ connLock = "none" /\ connection' = FALSE
  /\ Goto(a, After(a, "oe_take"))
  /\ UNCHANGED <<error, sockets, lockVars, msg, wakeVars, chanVars>>

\* notify_waiters reaches a select! under way, and stores nothing for later.
NotifyReader(a) ==
  /\ pc[a] = "oe_notify"
  /\ notified' = (notified \/ pc["reader"] \in {"read", "wait"})
  /\ Goto(a, After(a, "oe_notify"))
  /\ UNCHANGED <<error, connection, sockets, lockVars, msg, sinks, woken, chanVars>>

MutIterable == shared = {}

\* The shared iterator waits for a writer of the map only, and none holds its
\* lock from one step to the next.
Iterable == TRUE

\* A notified waker is taken out of its sink.
Wake(ts) == woken' = woken \cup (ts \cap sinks) /\ sinks' = sinks \ ts

NotifySockets(a) ==
  /\ pc[a] = "oe_walk" /\ Iterable /\ Wake(sockets)
  /\ Goto(a, After(a, "oe_walk"))
  /\ UNCHANGED <<error, connection, sockets, lockVars, msg, notified, chanVars>>

OnError(a) == SetError(a) \/ TakeConnection(a) \/ NotifyReader(a) \/ NotifySockets(a)

\* Transport::close, of the "reconnect" service, which finds the connection in
\* the map and upgrades it (it lets go again when on_error is done).
Close ==
  /\ pc["closer"] = "idle" /\ receiver /\ acceptor # "serial" /\ Goto("closer", "oe_set")
  /\ UNCHANGED <<error, connection, sockets, lockVars, msg, wakeVars, chanVars>>

-----------------------------------------------------------------------------
(* The tasks: open_socket, polls of their sockets, and dropping them.      *)

\* A task that has picked the connection upgrades it, and holds it until
\* open_socket returns; open_socket's check_error.
OpenSocket(t) ==
  /\ pc[t] = "new" /\ acceptor # "serial"
  /\ \/ receiver /\ ~error /\ Goto(t, "insert") /\ strong' = strong \cup {t}
     \/ (~receiver \/ error) /\ Goto(t, "gone") /\ UNCHANGED strong
  /\ UNCHANGED <<error, connection, sockets, lockVars, msg, wakeVars, queue, acceptor>>

\* sockets.insert, which waits for the readers of the map.
Insert(t) ==
  /\ pc[t] = "insert" /\ shared = {} /\ sockets' = sockets \cup {t} /\ Goto(t, "write")
  /\ UNCHANGED <<error, connection, lockVars, msg, wakeVars, chanVars>>

MutUnlocked(a) == a

\* MutexGuard::unlocked releases the connection while on_error runs.
Unlocked(a) == "none"

\* A poll of write_message_async, for the OPEN of a task and for the CLSE of an
\* inbound socket that the reader cannot pass on: the message is out, the
\* endpoint is busy (its waker is then in write_wakers only), or the write fails
\* (and reader_task's own on_error finds the error set).
WriteMessage(a) ==
  /\ pc[a] = "write" /\ connLock = "none"
  /\ \/ connection /\ Goto(a, IF a \in Tasks THEN "idle" ELSE "check") /\ UNCHANGED connLock
     \/ connection /\ Goto(a, "asleep") /\ UNCHANGED connLock
     \/ connection /\ Goto(a, "oe_set") /\ connLock' = Unlocked(a)
     \/ ~connection /\ Goto(a, IF a \in Tasks THEN "drop" ELSE "oe_set") /\ UNCHANGED connLock
  /\ UNCHANGED <<error, connection, sockets, stateLock, shared, msg, wakeVars, chanVars>>

\* A transfer completes and wakes write_wakers, which on_error drops with the
\* connection.
WriterWoken(a) ==
  /\ pc[a] = "asleep" /\ connection /\ Goto(a, "write")
  /\ UNCHANGED <<error, connection, sockets, lockVars, msg, wakeVars, chanVars>>

MutRegistered(t) == sinks

Registered(t) == sinks \cup {t}

\* A poll begins by registering the task's waker.  A parked task is polled
\* when it was woken.
PollBegin(t) ==
  /\ pc[t] = "idle" \/ (pc[t] = "parked" /\ t \in woken)
  /\ sinks' = Registered(t) /\ woken' = woken \ {t} /\ Goto(t, "check")
  /\ UNCHANGED <<error, connection, sockets, lockVars, msg, notified, chanVars>>

\* check_transport_error.  The owner of a socket whose poll fails drops it.
PollCheck(t) ==
  /\ pc[t] = "check" /\ Goto(t, IF error THEN "drop" ELSE "lock")
  /\ UNCHANGED <<error, connection, sockets, lockVars, msg, wakeVars, chanVars>>

PollLock(t) ==
  /\ pc[t] = "lock" /\ stateLock[t] = "none"
  /\ stateLock' = [stateLock EXCEPT ![t] = t] /\ Goto(t, "flush")
  /\ UNCHANGED <<error, connection, sockets, connLock, shared, msg, wakeVars, chanVars>>

\* The device has closed the socket.
Closed(t) == t \notin sockets \/ (pc["reader"] = "remove" /\ msg = t)

\* With the state locked the last poll_fn of open_socket looks for the answer:
\* it has come, the device has closed the socket, or nothing has come.
PollAnswer(t) ==
  /\ pc[t] = "flush" /\ t \in strong
  /\ \/ Goto(t, "idle") /\ strong' = strong \ {t}
     \/ Goto(t, IF Closed(t) THEN "drop" ELSE "parked") /\ UNCHANGED strong
  /\ stateLock' = [stateLock EXCEPT ![t] = "none"]
  /\ UNCHANGED <<error, connection, sockets, connLock, shared, msg, wakeVars, queue, acceptor>>

\* With the state locked a poll of an open socket locks the connection and
\* flushes it; if that succeeds it returns with something, or Pending.
PollFlush(t) ==
  /\ pc[t] = "flush" /\ t \notin strong /\ connLock = "none"
  /\ \/ /\ connection
        /\ Goto(t, "idle") \/ Goto(t, "parked")
        /\ stateLock' = [stateLock EXCEPT ![t] = "none"] /\ UNCHANGED connLock
     \/ /\ connection /\ Goto(t, "oe_set") /\ connLock' = Unlocked(t)
        /\ UNCHANGED stateLock
     \/ /\ ~connection /\ Goto(t, "drop")
        /\ stateLock' = [stateLock EXCEPT ![t] = "none"] /\ UNCHANGED connLock
  /\ UNCHANGED <<error, connection, sockets, shared, msg, wakeVars, chanVars>>

\* The guard has its mutex back, and the poll returns the error.
PollRelock(t) ==
  /\ pc[t] = "relock" /\ connLock = "none"
  /\ stateLock' = [stateLock EXCEPT ![t] = "none"] /\ Goto(t, "drop")
  /\ UNCHANGED <<error, connection, sockets, connLock, shared, msg, wakeVars, chanVars>>

\* The owner drops a socket that is not being polled, or is aborted while it
\* waits in open_socket.
BeginDrop(t) ==
  /\ pc[t] \in {"parked", "asleep"} \/ (pc[t] = "idle" /\ t \notin strong)
  /\ Goto(t, "drop")
  /\ UNCHANGED <<error, connection, sockets, lockVars, msg, wakeVars, chanVars>>

\* Drop for Socket: sockets.remove.  An open_socket that fails is left.
DropSocket(t) ==
  /\ pc[t] = "drop" /\ shared = {} /\ sockets' = sockets \ {t} /\ Goto(t, "gone")
  /\ strong' = strong \ {t}
  /\ UNCHANGED <<error, connection, lockVars, msg, wakeVars, queue, acceptor>>

-----------------------------------------------------------------------------
(* The reader task.                                                        *)

\* handle_message's check_error.
ReaderCheck ==
  /\ pc["reader"] = "check" /\ Goto("reader", IF error THEN "oe_set" ELSE "select")
  /\ UNCHANGED <<error, connection, sockets, lockVars, msg, wakeVars, chanVars>>

\* select! makes its two futures; from here on a notification reaches it.
ReaderSelect ==
  /\ pc["reader"] = "select" /\ Goto("reader", "read")
  /\ UNCHANGED <<error, connection, sockets, lockVars, msg, wakeVars, chanVars>>

\* select! polls the connection: it is gone or fails (or the message is
\* malformed), has nothing, a message for a socket, an OPEN, or a message that
\* is ignored.
ReaderRead ==
  /\ pc["reader"] = "read" /\ connLock = "none"
  /\ \/ connection /\ Goto("reader", "wait") /\ UNCHANGED <<msg, notified>>
     \/ connection /\ Goto("reader", "get") /\ msg' \in Tasks /\ notified' = FALSE
     \/ /\ \/ Goto("reader", "oe_set")
           \/ connection /\ (Goto("reader", "send") \/ Goto("reader", "check"))
        /\ UNCHANGED msg /\ notified' = FALSE
  /\ UNCHANGED <<error, connection, sockets, lockVars, sinks, woken, chanVars>>

\* The IN transfer of the connection completes (or in_timeout ticks).
ReaderWoken ==
  /\ pc["reader"] = "wait" /\ connection /\ Goto("reader", "read")
  /\ UNCHANGED <<error, connection, sockets, lockVars, msg, wakeVars, chanVars>>

\* select! sees close_notify: handle_message returns, the loop goes on.
ReaderNotified ==
  /\ pc["reader"] \in {"read", "wait"} /\ notified /\ notified' = FALSE
  /\ Goto("reader", "check")
  /\ UNCHANGED <<error, connection, sockets, lockVars, msg, sinks, woken, chanVars>>

\* sockets.get keeps the map locked for reading.
ReaderGet ==
  /\ pc["reader"] = "get"
  /\ \/ /\ msg \in sockets /\ shared' = shared \cup {"reader"} /\ Goto("reader", "handle")
        /\ UNCHANGED msg
     \/ msg \notin sockets /\ Goto("reader", "check") /\ msg' = "none" /\ UNCHANGED shared
  /\ UNCHANGED <<error, connection, sockets, stateLock, connLock, wakeVars, chanVars>>

\* SocketBackend::handle_message locks the state, notifies the task and says
\* whether the socket is closed; a malformed OKAY ends the transport.
ReaderHandle ==
  /\ pc["reader"] = "handle" /\ stateLock[msg] = "none"
  /\ shared' = shared \ {"reader"}
  /\ \/ \E next \in {"check", "remove"} :
          /\ Goto("reader", next) /\ msg' = IF next = "remove" THEN msg ELSE "none"
          /\ Wake({msg})
     \/ Goto("reader", "oe_set") /\ msg' = "none" /\ UNCHANGED <<sinks, woken>>
  /\ UNCHANGED <<error, connection, sockets, stateLock, connLock, notified, chanVars>>

\* sockets.remove of a closed socket.
ReaderRemove ==
  /\ pc["reader"] = "remove" /\ shared = {} /\ sockets' = sockets \ {msg}
  /\ Goto("reader", "check") /\ msg' = "none"
  /\ UNCHANGED <<error, connection, lockVars, wakeVars, chanVars>>

\* The bounded channel takes another socket.
Room == queue < Cap

\* send_async of a PendingSocket waits while the channel is full; without a
\* receiver the socket is closed.
ReaderSend ==
  /\ pc["reader"] = "send"
  /\ \/ receiver /\ Room /\ queue' = queue + 1 /\ Goto("reader", "check")
     \/ ~receiver /\ Goto("reader", "write") /\ UNCHANGED queue
  /\ UNCHANGED <<error, connection, sockets, lockVars, msg, wakeVars, strong, acceptor>>

-----------------------------------------------------------------------------
(* create_usb_connection, accept_sockets_task, and the connection manager.  *)

\* new_connection: by_serial.insert and by_id.insert.
InsertSerial ==
  /\ acceptor = "serial" /\ acceptor' = "id" /\ strong' = strong \cup {"by_serial"}
  /\ UNCHANGED <<error, connection, sockets, lockVars, pc, msg, wakeVars, queue>>

\* Then accept_sockets_task is spawned, and create_usb_connection lets go.
InsertId ==
  /\ acceptor = "id" /\ acceptor' = "upgrade"
  /\ strong' = (strong \ {"creator"}) \cup {"by_id"}
  /\ UNCHANGED <<error, connection, sockets, lockVars, pc, msg, wakeVars, queue>>

\* The loop of accept_sockets_task upgrades the connection, or ends.
Upgrade ==
  /\ acceptor = "upgrade"
  /\ \/ receiver /\ acceptor' = "recv" /\ strong' = strong \cup {"acceptor"}
     \/ ~receiver /\ acceptor' = "gone" /\ UNCHANGED strong
  /\ UNCHANGED <<error, connection, sockets, lockVars, pc, msg, wakeVars, queue>>

MutLetGo == strong

\* The strong reference ends with the block around accept_socket.
LetGo == strong \ {"acceptor"}

\* accept_socket returns a socket, or fails because the reader task has dropped
\* the sender.
Accept ==
  /\ acceptor = "recv" /\ strong' = LetGo
  /\ \/ queue > 0 /\ queue' = queue - 1 /\ acceptor' = "busy"
     \/ queue = 0 /\ pc["reader"] = "done" /\ acceptor' = "gone" /\ UNCHANGED queue
  /\ UNCHANGED <<error, connection, sockets, lockVars, pc, msg, wakeVars>>

\* handle_socket returns (it may also never do: it connects to a TCP port, and
\* answers through write_message_async).
Handled ==
  /\ acceptor = "busy" /\ acceptor' = "upgrade"
  /\ UNCHANGED <<error, connection, sockets, lockVars, pc, msg, wakeVars, queue, strong>>

\* remove_closed_connections takes the connection out of by_serial, and out of
\* by_id if it is there (one step: only what is in by_id afterwards matters).
RemoveClosed ==
  /\ error /\ "by_serial" \in strong /\ strong' = strong \ {"by_serial", "by_id"}
  /\ UNCHANGED <<error, connection, sockets, lockVars, pc, msg, wakeVars, queue, acceptor>>

\* Another connection of the device is inserted under the same serial (see
\* ConnectionMgr).
Displaced ==
  /\ "by_serial" \in strong /\ strong' = strong \ {"by_serial"}
  /\ UNCHANGED <<error, connection, sockets, lockVars, pc, msg, wakeVars, queue, acceptor>>

-----------------------------------------------------------------------------

TaskStep(t) ==
  \/ OpenSocket(t) \/ Insert(t) \/ WriteMessage(t) \/ PollBegin(t) \/ PollCheck(t)
  \/ PollLock(t) \/ PollAnswer(t) \/ PollFlush(t) \/ PollRelock(t) \/ DropSocket(t)

ReaderStep ==
  \/ ReaderCheck \/ ReaderSelect \/ ReaderRead \/ ReaderNotified \/ ReaderGet \/ ReaderHandle
  \/ ReaderRemove \/ ReaderSend \/ WriteMessage("reader")

CreateStep == InsertSerial \/ InsertId

Next ==
  \/ \E a \in Actors : OnError(a) \/ WriterWoken(a)
  \/ \E t \in Tasks : TaskStep(t) \/ BeginDrop(t)
  \/ ReaderStep \/ ReaderWoken \/ Close
  \/ CreateStep \/ Upgrade \/ Accept \/ Handled \/ RemoveClosed \/ Displaced

Spec == Init /\ [][Next]_vars

\* The runtime runs what can run; the manager's loop removes closed connections.
\* A lock that is free again and again is got at last: parking_lot hands a mutex
\* to its longest waiter, and the readers of the map hold it briefly.  Nothing
\* makes the application close the transport or drop a socket, the device send
\* or receive, or handle_socket return.
Fairness ==
  /\ \A a \in Actors : WF_vars(OnError(a))
  /\ \A t \in Tasks : WF_vars(TaskStep(t)) /\ SF_vars(Insert(t)) /\ SF_vars(DropSocket(t))
  /\ WF_vars(ReaderStep) /\ SF_vars(ReaderHandle)
  /\ WF_vars(CreateStep) /\ WF_vars(Upgrade) /\ WF_vars(Accept) /\ WF_vars(RemoveClosed)

FairSpec == Spec /\ Fairness

-----------------------------------------------------------------------------

\* The types of the variables.
TypeOK ==
  /\ error \in BOOLEAN /\ connection \in BOOLEAN /\ sockets \subseteq Tasks
  /\ stateLock \in [Tasks -> Tasks \cup {"none"}] /\ connLock \in Actors \cup {"none"}
  /\ shared \subseteq {"reader"} /\ msg \in Tasks \cup {"none"} /\ notified \in BOOLEAN
  /\ sinks \subseteq Tasks /\ woken \subseteq Tasks
  /\ queue \in 0..Cap
  /\ strong \subseteq Tasks \cup {"creator", "by_serial", "by_id", "acceptor"}
  /\ acceptor \in {"serial", "id", "upgrade", "recv", "busy", "gone"}
  /\ pc \in [Actors -> {"new", "insert", "idle", "check", "lock", "flush", "relock", "drop",
                        "gone", "parked", "select", "read", "wait", "get", "handle", "remove", "send",
                        "write", "asleep", "oe_set", "oe_take", "oe_notify", "oe_walk", "done"}]

\* When on_error has been through, no task sleeps in a poll of a socket in the
\* map: whatever order the poll's register, check and lock took against the
\* error's set, take and notify.
NoSleeper ==
  error /\ (\A a \in Actors : pc[a] \notin {"oe_set", "oe_take", "oe_notify", "oe_walk"})
    => \A t \in sockets : pc[t] = "parked" => t \in woken

\* Every poll returns: no circle of state mutex, connection mutex and map lock.
PollReturns ==
  LET resting == {"idle", "parked", "asleep", "gone"} IN
  \A t \in Tasks : pc[t] \notin resting ~> pc[t] \in resting

\* Asleep in write_message_async when on_error has dropped its waker.
Lost(a) == pc[a] = "asleep" /\ ~connection

\* by_id was inserted after remove_closed_connections had removed the connection,
\* or another one has taken its place in by_serial: nobody will remove it.
Leaked == "by_id" \in strong /\ "by_serial" \notin strong

\* The channel is full, nobody receives, and the receiver is kept alive for ever.
Clogged ==
  /\ queue = Cap /\ acceptor = "busy"
  /\ Leaked \/ \E t \in Tasks \cap strong : Lost(t)

\* A transport that failed stops its reader task: the task misses no
\* close_notify, is not stuck on a lock, and is not stuck on a full channel
\* either, unless handle_socket does not return and a leaked entry of by_id, or
\* a task lost in open_socket, keeps the receiver; or the reader itself is lost
\* while it refuses an inbound socket.
ReaderStops ==
  <>error /\ []<>~(Lost("reader") \/ (pc["reader"] = "send" /\ Clogged))
    => <>(pc["reader"] = "done")

\* on_error runs to its end and leaves no connection behind.
ErrorHandled == error ~> ~connection /\ pc["closer"] \in {"idle", "done"}

=============================================================================
