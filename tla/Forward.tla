------------------------------- MODULE Forward -------------------------------
(* ForwardingMgr's listeners: clients add, rebind, kill and list forwards,    *)
(* each listener's task accepts TCP connections and opens a socket on the     *)
(* device its rule names, connections close, and the runtime cancels the      *)
(* tasks whose entries are dropped.                                           *)
EXTENDS Naturals, FiniteSets

CONSTANTS
  Clients,   \* smart socket tasks
  Conns,     \* connections to devices
  Remotes,   \* services on a device
  Ports,     \* TCP ports of this machine, positive numbers
  Tasks,     \* forward_tasks
  MaxFails   \* bound on failures of accept

ASSUME PortAssumption == 0 \notin Ports /\ "none" \notin Tasks

Target == [conn : Conns, remote : Remotes]
NoTarget == [conn |-> "none", remote |-> "none"]

\* ForwardCommand, as parse makes it from the service; port 0 lets the system
\* choose one.
Commands ==
  [op : {"add"}, port : Ports \cup {0}, remote : Remotes, norebind : BOOLEAN]
    \cup [op : {"remove"}, port : Ports] \cup [op : {"removeAll", "list"}]

VARIABLES
  conn,       \* each connection: up, closed, gone (its last Arc is dropped)
  listeners,  \* the task in the map for each port, or "none"
  port,       \* the port each task's TcpListener is bound to
  target,     \* the Forward shared by each task and its entry
  task,       \* forward_task: accept, read, open, done
  got,        \* the connection and the remote a task has copied
  polled,     \* tasks a thread is polling
  aborted,    \* tasks whose ForwardTask is dropped
  cl,         \* handle_forward: idle, clean, pick, commit
  cmd,        \* the command of each client
  picked,     \* the connection it has picked
  fails,      \* failures of accept so far
  rule,       \* history: the last forward answered with OKAY for each port
  backlog,    \* history: the rules in place since the connection that waits
  hand        \* ... and the one the task works on came in, or none: {}

connVars == <<conn, fails>>
mapVars  == <<listeners, port, target, aborted, rule>>
taskVars == <<task, got, polled>>
cmdVars  == <<cl, cmd, picked>>
tcpVars  == <<backlog, hand>>
vars == <<connVars, mapVars, taskVars, cmdVars, tcpVars>>

List == [op |-> "list"]

Init ==
  /\ conn = [c \in Conns |-> "up"] /\ fails = 0
  /\ listeners = [p \in Ports |-> "none"] /\ port = [t \in Tasks |-> 0]
  /\ target = [t \in Tasks |-> NoTarget] /\ aborted = {}
  /\ rule = [p \in Ports |-> NoTarget]
  /\ task = [t \in Tasks |-> "done"] /\ got = [t \in Tasks |-> NoTarget] /\ polled = {}
  /\ cl = [k \in Clients |-> "idle"] /\ cmd = [k \in Clients |-> List]
  /\ picked = [k \in Clients |-> "none"]
  /\ backlog = [t \in Tasks |-> {}] /\ hand = [t \in Tasks |-> {}]

InMap(t) == \E p \in Ports : listeners[p] = t

\* The task that owns the TcpListener of a port.
Owns(t, p) == task[t] # "done" /\ port[t] = p

-----------------------------------------------------------------------------
(* Connections.                                                            *)

Close(c) ==
  /\ conn[c] = "up" /\ conn' = [conn EXCEPT ![c] = "closed"]
  /\ UNCHANGED <<fails, mapVars, taskVars, cmdVars, tcpVars>>

\* The manager drops a closed connection; a task inside open_socket holds it.
Vanish(c) ==
  /\ conn[c] = "closed" /\ conn' = [conn EXCEPT ![c] = "gone"]
  /\ \A t \in Tasks : task[t] = "open" => got[t].conn # c
  /\ UNCHANGED <<fails, mapVars, taskVars, cmdVars, tcpVars>>

-----------------------------------------------------------------------------
(* forward_task.                                                           *)

\* The kernel completes a connection to a port somebody listens on.
Connect(t) ==
  /\ task[t] # "done" /\ backlog[t] = {}
  /\ backlog' = [backlog EXCEPT ![t] = {rule[port[t]]}]
  /\ UNCHANGED <<connVars, mapVars, taskVars, cmdVars, hand>>

\* The runtime polls a task that is not cancelled.
Poll(t) ==
  /\ task[t] # "done" /\ t \notin polled /\ t \notin aborted /\ polled' = polled \cup {t}
  /\ UNCHANGED <<connVars, mapVars, task, got, cmdVars, tcpVars>>

\* The task ends, its listener is closed and what waited there is reset.
Finish(t) ==
  /\ task' = [task EXCEPT ![t] = "done"] /\ got' = [got EXCEPT ![t] = NoTarget]
  /\ polled' = polled \ {t}
  /\ backlog' = [backlog EXCEPT ![t] = {}] /\ hand' = [hand EXCEPT ![t] = {}]

\* accept returns a connection, or fails.
Accept(t) ==
  /\ t \in polled /\ task[t] = "accept"
  /\ \/ /\ backlog[t] # {} /\ task' = [task EXCEPT ![t] = "read"]
        /\ hand' = [hand EXCEPT ![t] = backlog[t]] /\ backlog' = [backlog EXCEPT ![t] = {}]
        /\ UNCHANGED <<fails, got, polled>>
     \/ fails < MaxFails /\ fails' = fails + 1 /\ Finish(t)
  /\ UNCHANGED <<conn, mapVars, cmdVars>>

\* The rule is copied and its connection upgraded under one read lock.
ReadRule(t) ==
  /\ t \in polled /\ task[t] = "read"
  /\ \/ /\ conn[target[t].conn] # "gone" /\ task' = [task EXCEPT ![t] = "open"]
        /\ got' = [got EXCEPT ![t] = target[t]] /\ UNCHANGED <<polled, tcpVars>>
     \/ conn[target[t].conn] = "gone" /\ Finish(t)
  /\ UNCHANGED <<connVars, mapVars, cmdVars>>

\* open_socket returns: a task that copies takes over, or both ends are dropped.
Opened(t) ==
  /\ t \in polled /\ task[t] = "open" /\ task' = [task EXCEPT ![t] = "accept"]
  /\ got' = [got EXCEPT ![t] = NoTarget] /\ hand' = [hand EXCEPT ![t] = {}]
  /\ UNCHANGED <<connVars, mapVars, polled, cmdVars, backlog>>

\* The poll returns Pending; a task that was aborted meanwhile is dropped.
Pending(t) ==
  /\ t \in polled /\ task[t] \in {"accept", "open"}
  /\ \/ t \in aborted /\ Finish(t)
     \/ t \notin aborted /\ polled' = polled \ {t} /\ UNCHANGED <<task, got, tcpVars>>
  /\ UNCHANGED <<connVars, mapVars, cmdVars>>

\* The runtime drops an aborted task that no thread is polling.
Cancel(t) ==
  /\ t \in aborted /\ t \notin polled /\ task[t] # "done" /\ Finish(t)
  /\ UNCHANGED <<connVars, mapVars, cmdVars>>

-----------------------------------------------------------------------------
(* handle_forward.                                                         *)

\* A client sends a command; killforward-all does not clean.
Request(k) ==
  /\ cl[k] = "idle"
  /\ \E c \in Commands :
       /\ cmd' = [cmd EXCEPT ![k] = c]
       /\ cl' = [cl EXCEPT ![k] = IF c.op = "removeAll" THEN "commit" ELSE "clean"]
  /\ UNCHANGED <<connVars, mapVars, taskVars, picked, tcpVars>>

MutAborted(ts) == {t \in ts : task[t] = "open"}

\* ForwardTask::drop.
Aborted(ts) == ts

\* Entries leave the map and are dropped.
Drop(ps) ==
  /\ listeners' = [p \in Ports |-> IF p \in ps THEN "none" ELSE listeners[p]]
  /\ aborted' = aborted \cup Aborted({listeners[p] : p \in ps} \ {"none"})
  /\ UNCHANGED <<port, target, rule>>

\* What clean_forwards does not retain.
Stale(t) == conn[target[t].conn] # "up" \/ task[t] = "done"

\* clean_forwards.
Clean(k) ==
  /\ cl[k] = "clean"
  /\ cl' = [cl EXCEPT ![k] = CASE cmd[k].op = "add" -> "pick"
                               [] cmd[k].op = "remove" -> "commit"
                               [] cmd[k].op = "list" -> "idle"]
  /\ Drop({p \in Ports : listeners[p] # "none" /\ Stale(listeners[p])})
  /\ UNCHANGED <<connVars, taskVars, cmd, picked, tcpVars>>

\* The handler answers, or fails, and the client is done.
Answer(k) ==
  /\ cl' = [cl EXCEPT ![k] = "idle"] /\ cmd' = [cmd EXCEPT ![k] = List]
  /\ picked' = [picked EXCEPT ![k] = "none"]

\* pick_connection finds a connection that works, returns the one an earlier
\* host:tport has cached, or finds none; a local end that is no TCP port fails
\* here too.
Pick(k) ==
  /\ cl[k] = "pick"
  /\ \/ /\ \E c \in Conns : picked' = [picked EXCEPT ![k] = c]
        /\ cl' = [cl EXCEPT ![k] = "commit"] /\ UNCHANGED cmd
     \/ Answer(k)
  /\ UNCHANGED <<connVars, mapVars, taskVars, tcpVars>>

\* The rule a client asks for.
Asked(k) == [conn |-> picked[k], remote |-> cmd[k].remote]

\* A connection that waits or is worked on may see the new rule of its port.
SeenToo(seen, t, r) == [seen EXCEPT ![t] = IF @ = {} THEN @ ELSE @ \cup {r}]

MutWritten(k, t) == target[t]

\* What a rebind leaves in the shared Forward.
Written(k, t) == Asked(k)

\* The port is in the map: the Forward of its running task is replaced, unless
\* the client asked for norebind.
Rebind(k) ==
  /\ cl[k] = "commit" /\ cmd[k].op = "add" /\ cmd[k].port # 0
  /\ listeners[cmd[k].port] # "none"
  /\ LET t == listeners[cmd[k].port] IN
     \/ cmd[k].norebind /\ UNCHANGED <<target, rule, tcpVars>>
     \/ /\ ~cmd[k].norebind
        /\ target' = [target EXCEPT ![t] = Written(k, t)]
        /\ rule' = [rule EXCEPT ![cmd[k].port] = Asked(k)]
        /\ backlog' = SeenToo(backlog, t, Asked(k)) /\ hand' = SeenToo(hand, t, Asked(k))
  /\ Answer(k)
  /\ UNCHANGED <<connVars, listeners, port, aborted, taskVars>>

\* The ports bind may return.
Bindable(k) ==
  {p \in Ports : (cmd[k].port \in {0, p}) /\ \A t \in Tasks : ~Owns(t, p)}

\* The port is not in the map: bind, then a task of its own.  An entry left by
\* a task that has ended may be replaced when the system chooses its port.
Add(k) ==
  /\ cl[k] = "commit" /\ cmd[k].op = "add"
  /\ cmd[k].port # 0 => listeners[cmd[k].port] = "none"
  /\ \/ \E p \in Bindable(k), t \in {u \in Tasks : task[u] = "done" /\ ~InMap(u)} :
          /\ listeners' = [listeners EXCEPT ![p] = t] /\ port' = [port EXCEPT ![t] = p]
          /\ target' = [target EXCEPT ![t] = Asked(k)] /\ task' = [task EXCEPT ![t] = "accept"]
          /\ aborted' = (aborted \cup Aborted({listeners[p]} \ {"none"})) \ {t}
          /\ rule' = [rule EXCEPT ![p] = Asked(k)]
     \/ UNCHANGED <<listeners, port, target, task, aborted, rule>>
  /\ Answer(k)
  /\ UNCHANGED <<connVars, got, polled, tcpVars>>

\* killforward and killforward-all.
Remove(k) ==
  /\ cl[k] = "commit" /\ cmd[k].op \in {"remove", "removeAll"}
  /\ Drop(IF cmd[k].op = "remove" THEN {cmd[k].port} ELSE Ports)
  /\ Answer(k)
  /\ UNCHANGED <<connVars, taskVars, tcpVars>>

-----------------------------------------------------------------------------

Running(t) == Accept(t) \/ ReadRule(t) \/ Opened(t) \/ Pending(t)

Handler(k) == Clean(k) \/ Pick(k) \/ Rebind(k) \/ Add(k) \/ Remove(k)

Next ==
  \/ \E c \in Conns : Close(c) \/ Vanish(c)
  \/ \E t \in Tasks : Connect(t) \/ Poll(t) \/ Running(t) \/ Cancel(t)
  \/ \E k \in Clients : Request(k) \/ Handler(k)

Spec == Init /\ [][Next]_vars

\* Threads run the tasks they poll, every poll returns in the end (a task that
\* always finds connections to accept runs out of tokio's budget), the runtime
\* drops aborted tasks, and handlers that can run do.
Fairness ==
  /\ \A t \in Tasks : WF_vars(Running(t)) /\ SF_vars(Pending(t)) /\ WF_vars(Cancel(t))
  /\ \A k \in Clients : WF_vars(Handler(k))

FairSpec == Spec /\ Fairness

-----------------------------------------------------------------------------

\* A connection that comes in after a rebind was answered is never taken to
\* the forward's earlier target: forward_task opens a rule that was in place
\* since the connection came in.
RuleObeyed ==
  \A t \in Tasks : task[t] = "open" /\ t \notin aborted => got[t] \in hand[t]

\* No listener escapes the map: a task that may go on accepting is the one its
\* port stands for, whatever commands raced, so that killforward can reach it.
NoOrphan ==
  \A t \in Tasks : task[t] # "done" /\ t \notin aborted => listeners[port[t]] = t

\* A forward to a device that is there, once answered with OKAY, has somebody
\* who listens: rebinding keeps the listener and changes where it leads.
ForwardListens ==
  [][\A p \in Ports :
       rule'[p] # rule[p] /\ conn[rule'[p].conn] = "up"
         => listeners'[p] # "none" /\ task'[listeners'[p]] # "done"]_vars

=============================================================================
