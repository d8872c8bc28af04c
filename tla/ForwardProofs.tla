---------------------------- MODULE ForwardProofs ----------------------------
(***************************************************************************)
(* Every listener that may go on accepting is in the map, and no          *)
(* connection is taken to a rule that was replaced before it came in: for *)
(* any number of clients, devices, ports and tasks.                        *)
(***************************************************************************)
EXTENDS Forward, TLAPS

\* A task that goes on accepting.
Serving(t) == task[t] # "done" /\ t \notin aborted

\* The domains of the functions; what a task that has ended holds.
TaskInv ==
  /\ listeners \in [Ports -> Tasks \cup {"none"}]
  /\ DOMAIN port = Tasks /\ DOMAIN target = Tasks /\ DOMAIN task = Tasks
  /\ DOMAIN got = Tasks /\ DOMAIN backlog = Tasks /\ DOMAIN hand = Tasks
  /\ DOMAIN rule = Ports
  /\ \A t \in Tasks : task[t] \in {"accept", "read", "open", "done"}
  /\ \A t \in Tasks : task[t] # "done" => port[t] \in Ports
  /\ \A t \in Tasks : task[t] = "done" => backlog[t] = {} /\ hand[t] = {}

\* A task is in the map for its own port only.
MapInv == \A p \in Ports : listeners[p] # "none" => port[listeners[p]] = p

\* The Forward that a serving task shares with its entry is the rule its port
\* was last given, and every connection that waits has seen that rule in place.
RuleInv ==
  \A t \in Tasks : Serving(t) =>
    /\ target[t] = rule[port[t]]
    /\ backlog[t] # {} => rule[port[t]] \in backlog[t]
    /\ task[t] \in {"read", "open"} => rule[port[t]] \in hand[t]

ForwardInv == TaskInv /\ MapInv /\ NoOrphan /\ RuleInv /\ RuleObeyed

\* The port an add names.
CmdInv ==
  /\ DOMAIN cmd = Clients
  /\ \A k \in Clients : cmd[k].op = "add" => cmd[k].port \in Ports \cup {0}

Parts == <<listeners, port, target, aborted, rule, task, got, backlog, hand>>

\* Steps that touch neither the tasks nor the map.
LEMMA QuietKeeps == ASSUME ForwardInv, UNCHANGED Parts PROVE ForwardInv'
BY DEF ForwardInv, TaskInv, MapInv, NoOrphan, RuleInv, RuleObeyed, Serving, Parts

\* A task that ends is of no further concern.
LEMMA FinishKeeps ==
  ASSUME ForwardInv, NEW t \in Tasks, Finish(t), UNCHANGED mapVars
  PROVE  ForwardInv'
<1> USE DEF ForwardInv, Finish, mapVars, Serving
<1>1. TaskInv' /\ MapInv'
  BY DEF TaskInv, MapInv
<1>2. NoOrphan'
  BY DEF TaskInv, NoOrphan
<1>3. RuleInv' /\ RuleObeyed'
  BY DEF TaskInv, RuleInv, RuleObeyed
<1> QED
  BY Zenon, <1>1, <1>2, <1>3

\* The steps of a task that goes on, and of the kernel at its listener.
LEMMA TaskKeeps ==
  ASSUME ForwardInv, NEW t \in Tasks, Connect(t) \/ Poll(t) \/ Running(t) \/ Cancel(t)
  PROVE  ForwardInv'
<1> USE DEF ForwardInv, mapVars, connVars, taskVars, tcpVars, Serving
<1>1. CASE Connect(t)
  <2>1. TaskInv' /\ MapInv' /\ NoOrphan'
    BY <1>1 DEF Connect, TaskInv, MapInv, NoOrphan
  <2>2. RuleInv' /\ RuleObeyed'
    BY <1>1 DEF Connect, TaskInv, RuleInv, RuleObeyed
  <2> QED
    BY Zenon, <2>1, <2>2
<1>2. CASE Poll(t)
  BY Zenon, <1>2, QuietKeeps DEF Poll, Parts
<1>3. CASE Accept(t)
  <2>1. CASE Finish(t) /\ UNCHANGED mapVars
    BY Zenon, <2>1, FinishKeeps
  <2>2. CASE /\ task[t] = "accept" /\ backlog[t] # {} /\ task' = [task EXCEPT ![t] = "read"]
             /\ hand' = [hand EXCEPT ![t] = backlog[t]] /\ backlog' = [backlog EXCEPT ![t] = {}]
             /\ got' = got /\ UNCHANGED mapVars
    <3>1. TaskInv' /\ MapInv' /\ NoOrphan'
      BY <2>2 DEF TaskInv, MapInv, NoOrphan
    <3>2. RuleInv' /\ RuleObeyed'
      BY <2>2 DEF TaskInv, RuleInv, RuleObeyed
    <3> QED
      BY Zenon, <3>1, <3>2
  <2> QED
    BY Zenon, <1>3, <2>1, <2>2 DEF Accept
<1>4. CASE ReadRule(t)
  <2>1. CASE Finish(t) /\ UNCHANGED mapVars
    BY Zenon, <2>1, FinishKeeps
  <2>2. CASE /\ task[t] = "read" /\ task' = [task EXCEPT ![t] = "open"]
             /\ got' = [got EXCEPT ![t] = target[t]] /\ UNCHANGED <<tcpVars, mapVars>>
    <3>1. TaskInv' /\ MapInv' /\ NoOrphan'
      BY <2>2 DEF TaskInv, MapInv, NoOrphan
    <3>2. RuleInv' /\ RuleObeyed'
      BY <2>2 DEF TaskInv, RuleInv, RuleObeyed
    <3> QED
      BY Zenon, <3>1, <3>2
  <2> QED
    BY Zenon, <1>4, <2>1, <2>2 DEF ReadRule
<1>5. CASE Opened(t)
  <2>1. TaskInv' /\ MapInv' /\ NoOrphan'
    BY <1>5 DEF Opened, TaskInv, MapInv, NoOrphan
  <2>2. RuleInv' /\ RuleObeyed'
    BY <1>5 DEF Opened, TaskInv, RuleInv, RuleObeyed
  <2> QED
    BY Zenon, <2>1, <2>2
<1>6. CASE Pending(t) \/ Cancel(t)
  <2>1. CASE Finish(t) /\ UNCHANGED mapVars
    BY Zenon, <2>1, FinishKeeps
  <2>2. CASE UNCHANGED Parts
    BY Zenon, <2>2, QuietKeeps
  <2> QED
    BY Zenon, <1>6, <2>1, <2>2 DEF Pending, Cancel, Parts
<1> QED
  BY Zenon, <1>1, <1>2, <1>3, <1>4, <1>5, <1>6 DEF Running

\* Whoever drops an entry aborts its task.
LEMMA DropKeeps ==
  ASSUME ForwardInv, NEW ps, Drop(ps), UNCHANGED <<taskVars, tcpVars>>
  PROVE  ForwardInv'
<1> USE DEF ForwardInv, Drop, Aborted, taskVars, tcpVars, Serving
<1>1. TaskInv' /\ MapInv'
  BY DEF TaskInv, MapInv
<1>2. NoOrphan'
  <2> SUFFICES ASSUME NEW t \in Tasks, task'[t] # "done", t \notin aborted'
               PROVE  listeners'[port'[t]] = t
    BY DEF NoOrphan
  <2>1. listeners[port[t]] = t /\ port[t] \in Ports
    BY DEF NoOrphan, TaskInv
  <2>2. t # "none"
    BY PortAssumption
  <2>3. port[t] \notin ps
    BY <2>1, <2>2
  <2> QED
    BY <2>1, <2>3
<1>3. RuleInv' /\ RuleObeyed'
  BY DEF TaskInv, RuleInv, RuleObeyed
<1> QED
  BY Zenon, <1>1, <1>2, <1>3

\* A rebind replaces the rule of a port in all the places that stand for it.
LEMMA RebindKeeps ==
  ASSUME ForwardInv, CmdInv, NEW k \in Clients, Rebind(k)
  PROVE  ForwardInv'
<1> DEFINE p == cmd[k].port
           t == listeners[p]
           r == Asked(k)
<1>1. CASE UNCHANGED <<target, rule, tcpVars>>
  BY Zenon, <1>1, QuietKeeps DEF Rebind, Parts, tcpVars, taskVars
<1>2. CASE /\ target' = [target EXCEPT ![t] = r] /\ rule' = [rule EXCEPT ![p] = r]
           /\ backlog' = SeenToo(backlog, t, r) /\ hand' = SeenToo(hand, t, r)
  <2>0. /\ UNCHANGED <<listeners, port, aborted, task, got>> /\ t # "none"
    BY Zenon DEF Rebind, taskVars
  <2>1. p \in Ports
    BY DEF Rebind, CmdInv
  <2> HIDE DEF p, t, r
  <2>2. t \in Tasks /\ listeners[p] = t /\ port[t] = p
    BY <2>0, <2>1 DEF t, ForwardInv, TaskInv, MapInv
  <2>3. \A u \in Tasks : Serving(u) /\ port[u] = p => u = t
    BY Zenon, <2>2 DEF ForwardInv, NoOrphan, Serving
  <2>4. TaskInv' /\ MapInv' /\ NoOrphan'
    BY <1>2, <2>0, <2>2 DEF ForwardInv, TaskInv, MapInv, NoOrphan, SeenToo
  <2>5. RuleInv'
    BY <1>2, <2>0, <2>1, <2>2, <2>3 DEF ForwardInv, TaskInv, RuleInv, SeenToo, Serving
  <2>6. RuleObeyed'
    BY <1>2, <2>0, <2>2 DEF ForwardInv, TaskInv, RuleObeyed, SeenToo
  <2> QED
    BY Zenon, <2>4, <2>5, <2>6 DEF ForwardInv
<1> QED
  BY Zenon, <1>1, <1>2 DEF Rebind, Written

\* A new listener takes the place of an entry, whose task is aborted.
LEMMA AddKeeps ==
  ASSUME ForwardInv, NEW k \in Clients, Add(k)
  PROVE  ForwardInv'
<1>1. CASE UNCHANGED <<listeners, port, target, task, aborted, rule>>
  BY Zenon, <1>1, QuietKeeps DEF Add, Parts, tcpVars
<1>2. ASSUME NEW p \in Bindable(k), NEW t \in {u \in Tasks : task[u] = "done" /\ ~InMap(u)},
             /\ listeners' = [listeners EXCEPT ![p] = t] /\ port' = [port EXCEPT ![t] = p]
             /\ target' = [target EXCEPT ![t] = Asked(k)]
             /\ task' = [task EXCEPT ![t] = "accept"]
             /\ aborted' = (aborted \cup Aborted({listeners[p]} \ {"none"})) \ {t}
             /\ rule' = [rule EXCEPT ![p] = Asked(k)]
      PROVE  ForwardInv'
  <2> DEFINE r == Asked(k)
  <2> HIDE DEF r
  <2>0. UNCHANGED <<got, backlog, hand>>
    BY Zenon DEF Add, tcpVars
  <2>1. /\ p \in Ports /\ t \in Tasks /\ t # "none" /\ task[t] = "done"
        /\ \A q \in Ports : listeners[q] # t
    BY <1>2, PortAssumption DEF Bindable, InMap
  <2>2. /\ listeners' = [listeners EXCEPT ![p] = t] /\ port' = [port EXCEPT ![t] = p]
        /\ target' = [target EXCEPT ![t] = r] /\ task' = [task EXCEPT ![t] = "accept"]
        /\ aborted' = (aborted \cup ({listeners[p]} \ {"none"})) \ {t}
        /\ rule' = [rule EXCEPT ![p] = r]
    BY Zenon, <1>2 DEF r, Aborted
  <2>3. TaskInv'
    BY <2>0, <2>1, <2>2 DEF ForwardInv, TaskInv
  <2>4. MapInv'
    BY <2>1, <2>2 DEF ForwardInv, TaskInv, MapInv
  <2>5. ASSUME NEW u \in Tasks, u # t, Serving(u)'
        PROVE  Serving(u) /\ port[u] \in Ports /\ port[u] # p /\ listeners[port[u]] = u
    <3>1. Serving(u)
      BY <2>1, <2>2, <2>5 DEF Serving, ForwardInv, TaskInv
    <3>2. port[u] \in Ports /\ listeners[port[u]] = u /\ u # "none"
      BY <3>1, PortAssumption DEF Serving, ForwardInv, TaskInv, NoOrphan
    <3>3. u # listeners[p]
      BY <2>2, <2>5, <3>2 DEF Serving
    <3> QED
      BY <3>1, <3>2, <3>3
  <2>6. NoOrphan'
    BY <2>1, <2>2, <2>5 DEF NoOrphan, Serving, ForwardInv, TaskInv
  <2>7. RuleInv'
    <3> SUFFICES ASSUME NEW u \in Tasks, Serving(u)'
                 PROVE  /\ target'[u] = rule'[port'[u]]
                        /\ backlog'[u] # {} => rule'[port'[u]] \in backlog'[u]
                        /\ task'[u] \in {"read", "open"} => rule'[port'[u]] \in hand'[u]
      BY Zenon DEF RuleInv
    <3>1. CASE u = t
      BY <3>1, <2>0, <2>1, <2>2 DEF ForwardInv, TaskInv
    <3>2. CASE u # t
      <4>1. Serving(u) /\ port[u] \in Ports /\ port[u] # p
        BY Zenon, <2>5, <3>2
      <4> QED
        BY <3>2, <4>1, <2>0, <2>1, <2>2 DEF ForwardInv, TaskInv, RuleInv
    <3> QED
      BY Zenon, <3>1, <3>2
  <2>8. RuleObeyed'
    BY <2>0, <2>1, <2>2, <2>5 DEF ForwardInv, TaskInv, RuleObeyed, Serving
  <2> QED
    BY Zenon, <2>3, <2>4, <2>6, <2>7, <2>8 DEF ForwardInv
<1> QED
  BY Zenon, <1>1, <1>2 DEF Add

\* The commands of the clients.
LEMMA ClientKeeps ==
  ASSUME ForwardInv, CmdInv, NEW k \in Clients, Request(k) \/ Handler(k)
  PROVE  ForwardInv'
<1>1. CASE Request(k) \/ Pick(k)
  BY Zenon, <1>1, QuietKeeps DEF Request, Pick, Parts, mapVars, taskVars, tcpVars
<1>2. CASE Clean(k) \/ Remove(k)
  BY Zenon, <1>2, DropKeeps DEF Clean, Remove
<1> QED
  BY Zenon, <1>1, <1>2, RebindKeeps, AddKeeps DEF Handler

\* A client's command stays well formed.
LEMMA CmdKeeps == ASSUME CmdInv, Next PROVE CmdInv'
<1>1. CASE cmd' = cmd
  BY Zenon, <1>1 DEF CmdInv
<1>2. ASSUME NEW k \in Clients, NEW c,
             c.op = "add" => c.port \in Ports \cup {0}, cmd' = [cmd EXCEPT ![k] = c]
      PROVE  CmdInv'
  BY <1>2 DEF CmdInv
<1>3. ASSUME NEW k \in Clients, Answer(k) PROVE CmdInv'
  <2>1. List.op = "add" => List.port \in Ports \cup {0}
    BY DEF List
  <2> QED
    BY Zenon, <1>2, <1>3, <2>1 DEF Answer
<1>4. ASSUME NEW k \in Clients, Request(k) PROVE CmdInv'
  <2>1. PICK c \in Commands : cmd' = [cmd EXCEPT ![k] = c]
    BY Zenon, <1>4 DEF Request
  <2>2. c.op = "add" => c.port \in Ports \cup {0}
    BY <2>1 DEF Commands
  <2> QED
    BY Zenon, <1>2, <2>1, <2>2
<1>5. ASSUME NEW k \in Clients, Handler(k) PROVE CmdInv'
  BY Zenon, <1>1, <1>3, <1>5 DEF Handler, Clean, Pick, Rebind, Add, Remove
<1>6. ASSUME NEW c \in Conns, Close(c) \/ Vanish(c) PROVE CmdInv'
  BY Zenon, <1>1, <1>6 DEF Close, Vanish, cmdVars
<1>7. ASSUME NEW t \in Tasks, Connect(t) \/ Poll(t) \/ Running(t) \/ Cancel(t) PROVE CmdInv'
  BY Zenon, <1>1, <1>7 DEF Connect, Poll, Running, Accept, ReadRule, Opened, Pending, Cancel,
     cmdVars
<1> QED
  BY Zenon, <1>4, <1>5, <1>6, <1>7 DEF Next

\* The invariant holds in every reachable state.
LEMMA ForwardInductive == Spec => [](ForwardInv /\ CmdInv)
<1>1. ASSUME Init PROVE ForwardInv /\ CmdInv
  <2>1. TaskInv /\ MapInv
    BY <1>1 DEF Init, TaskInv, MapInv
  <2>2. NoOrphan /\ RuleInv /\ RuleObeyed
    BY <1>1 DEF Init, NoOrphan, RuleInv, RuleObeyed, Serving
  <2>3. CmdInv
    BY <1>1 DEF Init, CmdInv, List
  <2> QED
    BY Zenon, <2>1, <2>2, <2>3 DEF ForwardInv
<1>2. ASSUME ForwardInv, CmdInv, [Next]_vars PROVE ForwardInv' /\ CmdInv'
  <2>1. ASSUME NEW c \in Conns, Close(c) \/ Vanish(c) PROVE ForwardInv'
    BY Zenon, <1>2, <2>1, QuietKeeps DEF Close, Vanish, Parts, mapVars, taskVars, tcpVars
  <2>2. CASE Next
    BY Zenon, <1>2, <2>1, <2>2, TaskKeeps, ClientKeeps, CmdKeeps DEF Next
  <2>3. CASE UNCHANGED vars
    <3>1. UNCHANGED Parts /\ cmd' = cmd
      BY Zenon, <2>3 DEF vars, mapVars, taskVars, cmdVars, tcpVars, Parts
    <3>2. CmdInv'
      BY Zenon, <1>2, <3>1 DEF CmdInv
    <3> QED
      BY Zenon, <1>2, <3>1, <3>2, QuietKeeps
  <2> QED
    BY Zenon, <1>2, <2>2, <2>3
<1> QED
  BY <1>1, <1>2, PTL DEF Spec

\* No listener escapes the map: a task that may go on accepting is the one its
\* port stands for, so that killforward reaches it, whichever of the clean,
\* the look-up and the bind of several clients interleave.
THEOREM ListenersReachable == Spec => []NoOrphan
<1>1. ForwardInv => NoOrphan
  BY DEF ForwardInv
<1> QED
  BY <1>1, ForwardInductive, PTL

\* forward_task opens a rule that was in place at some time since the
\* connection came in, whatever rebinds fell between accept and the copy of
\* the rule.
THEOREM RulesObeyed == Spec => []RuleObeyed
<1>1. ForwardInv => RuleObeyed
  BY DEF ForwardInv
<1> QED
  BY <1>1, ForwardInductive, PTL

=============================================================================
