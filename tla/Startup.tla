------------------------------ MODULE Startup ------------------------------
(***************************************************************************)
(* Starting the daemon: check_adb_server, bind_smartsocket and             *)
(* start_daemon of daemon.rs, for processes that start side by side (from  *)
(* main, or from the adb shim of sys/unix.rs, which forks after the bind)  *)
(* and a real adb server (external) on the same port.                      *)
(*                                                                         *)
(* A process asks whoever listens what it is, asks it to exit if it is not *)
(* a daemon of this program, and binds; each of these is a step, and other *)
(* processes act in between.  A server that exits closes its port and      *)
(* resets the connections it has not answered.  Commands of a user to stop *)
(* the server are left out.                                                *)
(***************************************************************************)
EXTENDS Naturals, FiniteSets

CONSTANTS
  Procs,     \* processes that may be started
  MaxAdb,    \* bound: how often an adb server is started
  MaxFails   \* bound: how many daemons fail to start (no private key)

ASSUME StartupAssumption ==
  {"none", "adb"} \cap Procs = {} /\ MaxAdb \in Nat /\ MaxFails \in Nat

VARIABLES
  reachable, \* whether listen_address can be reached at 127.0.0.1
  owner,     \* who listens: "none", "adb" or a process
  pc,        \* idle, probe, asked, kill, stopping, bind, bound, serving; running,
             \* error and killed are ends
  peer,      \* the server a process has asked
  adbs, fails \* how often the bounded events have happened

vars == <<reachable, owner, pc, peer, adbs, fails>>

Init ==
  /\ reachable \in BOOLEAN /\ owner = "none" /\ pc = [p \in Procs |-> "idle"]
  /\ peer = [p \in Procs |-> "none"] /\ adbs = 0 /\ fails = 0

Goto(p, stage) == pc' = [pc EXCEPT ![p] = stage]

Ends == {"running", "error", "killed"}

-----------------------------------------------------------------------------
(* check_adb_server.                                                       *)

Start(p) ==
  /\ pc[p] = "idle" /\ Goto(p, "probe") /\ UNCHANGED <<reachable, owner, peer, adbs, fails>>

\* The server at 127.0.0.1, if there is one.
Server == IF reachable THEN owner ELSE "none"

\* run_service connects; the listener's backlog takes the connection also when
\* its daemon does not accept yet.
Ask(p, from, to) ==
  /\ pc[p] = from /\ Server # "none" /\ Goto(p, to)
  /\ peer' = [peer EXCEPT ![p] = Server] /\ UNCHANGED <<reachable, owner, adbs, fails>>

Probe(p) == Ask(p, "probe", "asked")

\* ConnectionRefused: there is nobody to stop.
ProbeRefused(p) ==
  /\ pc[p] = "probe" /\ Server = "none" /\ Goto(p, "bind")
  /\ UNCHANGED <<reachable, owner, peer, adbs, fails>>

Answers(s) == s = "adb" \/ (s \in Procs /\ pc[s] = "serving")

MutVerdict(s) == "kill"

MutAlready(s) == IF s = "adb" THEN "kill" ELSE "bind"

\* The answer to is-adb-daemon-rs: OKAY of a daemon, FAIL of adb.
Verdict(s) == IF s = "adb" THEN "kill" ELSE "running"

ProbeAnswered(p) ==
  /\ pc[p] = "asked" /\ Answers(peer[p]) /\ Goto(p, Verdict(peer[p]))
  /\ peer' = [peer EXCEPT ![p] = "none"] /\ UNCHANGED <<reachable, owner, adbs, fails>>

\* host:kill goes to whoever listens by now.
Kill(p) == Ask(p, "kill", "stopping")

\* Nobody does: the start fails.
KillRefused(p) ==
  /\ pc[p] = "kill" /\ Server = "none" /\ Goto(p, "error")
  /\ UNCHANGED <<reachable, owner, peer, adbs, fails>>

\* Server s exits.  The processes in told got their OKAY first; of the others
\* that were connected, run_service fails.
Exit(s, told) ==
  /\ owner' = "none"
  /\ pc' = [p \in Procs |-> CASE p = s /\ pc[p] = "bound" -> "error"
                              [] p = s /\ pc[p] = "serving" -> "killed"
                              [] p \in told -> "bind"
                              [] peer[p] = s /\ p \notin told -> "error"
                              [] OTHER -> pc[p]]
  /\ peer' = [p \in Procs |-> IF peer[p] = s THEN "none" ELSE peer[p]]

\* A server handles host:kill, perhaps from several processes at once.
HandleKill(s) ==
  /\ Answers(s) /\ owner = s
  /\ \E told \in SUBSET {p \in Procs : pc[p] = "stopping" /\ peer[p] = s} :
       told # {} /\ Exit(s, told)
  /\ UNCHANGED <<reachable, adbs, fails>>

-----------------------------------------------------------------------------
(* bind_smartsocket and start_daemon.                                      *)

MutInUse == "error"

\* AddrInUse: the loop begins again.
InUse == "probe"

Bind(p) ==
  /\ pc[p] = "bind"
  /\ \/ owner = "none" /\ owner' = p /\ Goto(p, "bound")
     \/ owner # "none" /\ Goto(p, InUse) /\ UNCHANGED owner
  /\ UNCHANGED <<reachable, peer, adbs, fails>>

\* AdbDaemon::new has returned, and serve_smartsocket accepts.
Serve(p) ==
  /\ pc[p] = "bound" /\ Goto(p, "serving") /\ UNCHANGED <<reachable, owner, peer, adbs, fails>>

\* AdbDaemon::new fails, and the process ends.
StartFails(p) ==
  /\ pc[p] = "bound" /\ fails < MaxFails /\ fails' = fails + 1 /\ Exit(p, {})
  /\ UNCHANGED <<reachable, adbs>>

\* Somebody starts an adb server.  It listens at 127.0.0.1, so that it neither
\* gets in the way of an address elsewhere nor is taken for its owner.
AdbStart ==
  /\ reachable /\ owner = "none" /\ adbs < MaxAdb /\ adbs' = adbs + 1
  /\ owner' = "adb"
  /\ UNCHANGED <<reachable, pc, peer, fails>>

-----------------------------------------------------------------------------

Step(p) ==
  \/ Probe(p) \/ ProbeRefused(p) \/ ProbeAnswered(p) \/ Kill(p) \/ KillRefused(p)
  \/ Bind(p) \/ Serve(p)

Next ==
  \/ \E p \in Procs : Start(p) \/ Step(p) \/ StartFails(p)
  \/ \E s \in Procs \cup {"adb"} : HandleKill(s)
  \/ AdbStart

Spec == Init /\ [][Next]_vars

\* Processes run and servers answer.  Nobody has to be started.
Fairness ==
  /\ \A p \in Procs : WF_vars(Step(p))
  /\ \A s \in Procs \cup {"adb"} : WF_vars(HandleKill(s))

FairSpec == Spec /\ Fairness

-----------------------------------------------------------------------------

\* Once no start is under way, some daemon serves, if any process was started
\* and none failed for want of its key: starts that stop each other's servers
\* or lose the port to one another do not end in nobody serving.
Settled ==
  (\A p \in Procs : pc[p] \in Ends \cup {"idle", "serving"})
    /\ (\E p \in Procs : pc[p] # "idle") /\ fails = 0
    => \E p \in Procs : pc[p] = "serving" /\ owner = p

\* A daemon is stopped by a start only where an adb server has been around:
\* starts of this program alone do not stop each other's daemon, in whatever
\* order they ask, bind and come up.
DaemonSpared == (\E p \in Procs : pc[p] = "killed") => adbs > 0

\* Every start comes to an end, as a daemon or with an error, if the address can
\* be reached at 127.0.0.1.  (If not, a second start finds nobody to ask and
\* the address in use, for ever.)
StartEnds ==
  \A p \in Procs : pc[p] = "probe" /\ reachable ~> pc[p] \in Ends \cup {"serving"}

=============================================================================
