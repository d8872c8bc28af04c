------------------------------ MODULE Reverse ------------------------------
(***************************************************************************)
(* Reverse forwarding on one connection: handle_reverse and handle_socket  *)
(* of forward.rs, the order in which handle_service calls handle_reverse   *)
(* and open_socket, and accept_sockets_task behind the reader task and its *)
(* bounded channel.                                                        *)
(*                                                                         *)
(* The host keeps a rule for each remote address so as to know which local *)
(* ports the device may ask for; the device keeps the rules that count.    *)
(* The host changes its rules first, and the command reaches the device    *)
(* later, by open_socket.  The device is external: it can refuse to bind.  *)
(***************************************************************************)
EXTENDS Naturals, Sequences

CONSTANTS
  Clients,   \* smart socket clients
  Remotes,   \* addresses of the device
  Locals,    \* addresses of the host
  OtherLocals, \* those that are not TCP ports
  Cap,       \* capacity of the channel of inbound sockets (3)
  MaxCmds,   \* bound: commands
  MaxIn      \* bound: connections that come in at the device

ASSUME ReverseAssumption ==
  /\ OtherLocals \subseteq Locals /\ "none" \notin Locals /\ {"zero", "none"} \cap Remotes = {}
  /\ Cap \in Nat \ {0} /\ MaxCmds \in Nat /\ MaxIn \in Nat

\* The remote of a command: an address, or tcp:0.
Keys == Remotes \cup {"zero"}

List == [op |-> "list", key |-> "none", local |-> "none"]

\* ForwardCommand; addnew is Add with norebind.
Commands ==
  [op : {"add", "addnew"}, key : Keys, local : Locals]
    \cup [op : {"remove"}, key : Remotes, local : {"none"}]
    \cup {[op |-> "all", key |-> "none", local |-> "none"], List}

NoRule == [via |-> "none", local |-> "none"]

VARIABLES
  reverse_forwards, \* the host's local address for each key, or "none"
  st, cmd,     \* of each client: idle, open (handle_reverse has returned) or wait,
               \* and its command (List when there is none)
  cmds,        \* how many commands there were
  wire,        \* clients whose OPEN is on the way to the device
  rules,       \* the device's rule for each address, and the key it was made with
  toHost,      \* what the device has sent: answers and OPENs
  channel,     \* inbound sockets that the reader task has queued
  acceptor,    \* accept_sockets_task: recv, check, connect, accept, close
  cur,         \* the inbound socket it handles, or 0
  inbound,     \* each inbound socket: its address, whether the rule behind it has
               \* been left alone since, and new, okay, denied or failed
  overlapped,  \* addresses with two commands under way at once
  refused      \* addresses whose last rule the device did not take

hostVars == <<reverse_forwards, st, cmd, cmds>>
devVars  == <<rules, refused>>
accVars  == <<channel, acceptor, cur>>
vars     == <<hostVars, overlapped, wire, devVars, toHost, accVars, inbound>>

Init ==
  /\ reverse_forwards = [k \in Keys |-> "none"]
  /\ st = [c \in Clients |-> "idle"] /\ cmd = [c \in Clients |-> List] /\ cmds = 0
  /\ wire = <<>> /\ rules = [r \in Remotes |-> NoRule] /\ toHost = <<>>
  /\ channel = <<>> /\ acceptor = "recv" /\ cur = 0 /\ inbound = <<>>
  /\ overlapped = {} /\ refused = {}

-----------------------------------------------------------------------------
(* The clients: handle_service.                                            *)

\* The addresses a command is about.
Touched(m) == IF m.op = "all" THEN Remotes ELSE {m.key} \cap Remotes

UnderWay(r) == {c \in Clients : st[c] # "idle" /\ r \in Touched(cmd[c])}

MutStored(m) ==
  IF reverse_forwards[m.key] # "none" THEN reverse_forwards
  ELSE [reverse_forwards EXCEPT ![m.key] = m.local]

\* forwards.insert.
Stored(m) == [reverse_forwards EXCEPT ![m.key] = m.local]

\* The host's rules after the command.
Updated(m) ==
  CASE m.op \in {"add", "addnew"} -> Stored(m)
    [] m.op = "remove" -> [reverse_forwards EXCEPT ![m.key] = "none"]
    [] m.op = "all"    -> [k \in Keys |-> "none"]
    [] m.op = "list"   -> reverse_forwards

\* handle_reverse, under the write lock of the rules.  A norebind for a key that
\* is there fails, and the device does not hear of it.
HandleReverse(c, m) ==
  /\ st[c] = "idle" /\ cmds < MaxCmds /\ cmds' = cmds + 1
  /\ \/ /\ m.op = "addnew" /\ reverse_forwards[m.key] # "none"
        /\ UNCHANGED <<reverse_forwards, st, cmd, overlapped, inbound>>
     \/ /\ m.op = "addnew" => reverse_forwards[m.key] = "none"
        /\ reverse_forwards' = Updated(m)
        /\ st' = [st EXCEPT ![c] = "open"] /\ cmd' = [cmd EXCEPT ![c] = m]
        /\ overlapped' = overlapped \cup {r \in Touched(m) : UnderWay(r) # {}}
        /\ inbound' = [i \in DOMAIN inbound |->
                         [inbound[i] EXCEPT !.calm = @ /\ inbound[i].remote \notin Touched(m)]]
  /\ UNCHANGED <<wire, devVars, toHost, accVars>>

\* open_socket writes OPEN.
OpenSocket(c) ==
  /\ st[c] = "open" /\ st' = [st EXCEPT ![c] = "wait"] /\ wire' = Append(wire, c)
  /\ UNCHANGED <<reverse_forwards, cmd, cmds, overlapped, devVars, toHost, accVars, inbound>>

-----------------------------------------------------------------------------
(* The device.                                                             *)

Send(m) == toHost' = Append(toHost, m)

Answer(c) == [client |-> c, socket |-> 0]

Bind(r, m) == rules' = [rules EXCEPT ![r] = [via |-> m.key, local |-> m.local]]

\* The device carries a command out, and answers.
DevCommand ==
  /\ wire # <<>> /\ wire' = Tail(wire) /\ Send(Answer(Head(wire)))
  /\ LET m == cmd[Head(wire)] IN
     \/ /\ m.op = "add" /\ m.key \in Remotes /\ rules[m.key] # NoRule /\ Bind(m.key, m)
        /\ refused' = refused \ {m.key}
     \/ /\ m.op \in {"add", "addnew"}
        /\ \E r \in IF m.key = "zero" THEN Remotes ELSE {m.key} :
             rules[r] = NoRule /\ Bind(r, m)
        /\ refused' = refused \ {m.key}
     \/ \* it is bound, or cannot be
        /\ m.op \in {"add", "addnew"}
        /\ m.op = "add" /\ m.key \in Remotes => rules[m.key] = NoRule
        /\ refused' = refused \cup ({m.key} \cap Remotes) /\ UNCHANGED rules
     \/ /\ m.op \in {"remove", "all"}
        /\ rules' = [r \in Remotes |-> IF r \in Touched(m) THEN NoRule ELSE rules[r]]
        /\ refused' = refused \ Touched(m)
     \/ m.op = "list" /\ UNCHANGED devVars
  /\ UNCHANGED <<hostVars, overlapped, accVars, inbound>>

\* A connection comes in at r: the device opens a socket for the rule's local
\* address.  It is calm if both ends have had the same rule.
DevConnect(r) ==
  /\ rules[r] # NoRule /\ Len(inbound) < MaxIn
  /\ inbound' = Append(inbound,
       [remote |-> r, local |-> rules[r].local, status |-> "new",
        calm |-> rules[r].via = r /\ UnderWay(r) = {} /\ r \notin overlapped \cup refused])
  /\ Send([client |-> "none", socket |-> Len(inbound')])
  /\ UNCHANGED <<hostVars, overlapped, wire, devVars, accVars>>

-----------------------------------------------------------------------------
(* The reader task and accept_sockets_task.                                *)

\* The reader hands an answer to its client, whose command is over then; or
\* queues an inbound socket, for which it waits while the channel is full.
ReaderStep ==
  /\ toHost # <<>> /\ toHost' = Tail(toHost)
  /\ LET m == Head(toHost) IN
     \/ /\ m.socket = 0 /\ st' = [st EXCEPT ![m.client] = "idle"]
        /\ cmd' = [cmd EXCEPT ![m.client] = List] /\ UNCHANGED channel
     \/ /\ m.socket # 0 /\ Len(channel) < Cap /\ channel' = Append(channel, m.socket)
        /\ UNCHANGED <<st, cmd>>
  /\ UNCHANGED <<reverse_forwards, cmds, overlapped, wire, devVars, acceptor, cur,
                 inbound>>

\* accept_socket.
AcceptSocket ==
  /\ acceptor = "recv" /\ channel # <<>>
  /\ cur' = Head(channel) /\ channel' = Tail(channel) /\ acceptor' = "check"
  /\ UNCHANGED <<hostVars, overlapped, wire, devVars, toHost, inbound>>

MutAllowed(l) == l \in Remotes /\ reverse_forwards[l] # "none"

\* Some rule has this local address.
Allowed(l) == \E k \in Keys : reverse_forwards[k] = l

\* handle_socket: only TCP ports that some rule names.
CheckRule ==
  /\ acceptor = "check"
  /\ LET l == inbound[cur].local IN
     acceptor' = IF l \notin OtherLocals /\ Allowed(l) THEN "connect" ELSE "close"
  /\ UNCHANGED <<hostVars, overlapped, wire, devVars, toHost, channel, cur, inbound>>

\* TcpStream::connect.
Connect ==
  /\ acceptor = "connect"
  /\ \/ acceptor' = "accept" /\ UNCHANGED inbound
     \/ acceptor' = "close" /\ inbound' = [inbound EXCEPT ![cur].status = "failed"]
  /\ UNCHANGED <<hostVars, overlapped, wire, devVars, toHost, channel, cur>>

\* accept sends OKAY, and a task of its own copies.
Accepted ==
  /\ acceptor = "accept" /\ acceptor' = "recv" /\ cur' = 0
  /\ inbound' = [inbound EXCEPT ![cur].status = "okay"]
  /\ UNCHANGED <<hostVars, overlapped, wire, devVars, toHost, channel>>

MutClosed == UNCHANGED inbound

MutAfterClose == "gone"

\* Where accept_sockets_task goes on after a socket it could not accept.
AfterClose == "recv"

\* close sends CLSE.
Closed == inbound' = [inbound EXCEPT ![cur].status =
                        IF @ = "failed" THEN "unreachable" ELSE "denied"]

CloseSocket ==
  /\ acceptor = "close" /\ acceptor' = AfterClose /\ Closed /\ cur' = 0
  /\ UNCHANGED <<hostVars, overlapped, wire, devVars, toHost, channel>>

-----------------------------------------------------------------------------

AcceptorStep == AcceptSocket \/ CheckRule \/ Connect \/ Accepted \/ CloseSocket

Next ==
  \/ \E c \in Clients : OpenSocket(c) \/ \E m \in Commands : HandleReverse(c, m)
  \/ DevCommand \/ \E r \in Remotes : DevConnect(r)
  \/ ReaderStep \/ AcceptorStep

Spec == Init /\ [][Next]_vars

\* The tasks run, connecting to a local port comes to an end, and the device
\* answers.  Nobody has to give a command or to connect.
Fairness ==
  /\ \A c \in Clients : WF_vars(OpenSocket(c))
  /\ WF_vars(DevCommand) /\ WF_vars(ReaderStep) /\ WF_vars(AcceptorStep)

FairSpec == Spec /\ Fairness

-----------------------------------------------------------------------------

\* The host's rule for an address is the device's once no command about it is
\* under way, though the host changes its rule before the device has agreed:
\* unless two commands about it overlapped, the device did not take the last
\* rule, or the rule was made for tcp:0.
RulesAgree ==
  \A r \in Remotes \ (overlapped \cup refused) :
    UnderWay(r) = {} =>
      reverse_forwards[r] = IF rules[r].via = r THEN rules[r].local ELSE "none"

\* A connection through a rule that both ends agreed on is not denied, as long
\* as no command about the rule follows: handle_socket looks the rule up late,
\* after the reader's channel and the sockets that were queued before.
RuleHonoured ==
  \A i \in DOMAIN inbound :
    inbound[i].status = "denied" => ~inbound[i].calm \/ inbound[i].local \in OtherLocals

\* The device gets an answer to every socket it opens.
InboundAnswered ==
  \A i \in 1..MaxIn :
    i \in DOMAIN inbound
      ~> i \in DOMAIN inbound /\ inbound[i].status \in {"okay", "denied", "unreachable"}

\* Every command returns: the reader, which waits for accept_sockets_task while
\* the channel is full, hands its answer over at last.
CommandReturns == \A c \in Clients : st[c] # "idle" ~> st[c] = "idle"

=============================================================================
