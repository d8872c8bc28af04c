--------------------------- MODULE StartupProofs ---------------------------
(***************************************************************************)
(* How starts of the daemon settle, proved for any number of processes and *)
(* of adb servers.                                                         *)
(***************************************************************************)
EXTENDS Startup, TLAPS

Places == {"idle", "probe", "asked", "kill", "stopping", "bind", "bound", "serving",
           "running", "error", "killed"}

TypeInv ==
  /\ pc \in [Procs -> Places] /\ peer \in [Procs -> Procs \cup {"none", "adb"}]
  /\ owner \in Procs \cup {"none", "adb"} /\ adbs \in Nat /\ fails \in Nat

\* The listener is a process that came up, and whoever is connected is connected
\* to it.
OwnerInv ==
  /\ owner \in Procs => pc[owner] \in {"bound", "serving"}
  /\ \A p \in Procs : pc[p] \in {"bound", "serving"} => owner = p
  /\ \A p \in Procs : peer[p] # "none" => peer[p] = owner
  /\ \A p \in Procs : pc[p] \in {"asked", "stopping"} <=> peer[p] # "none"
  /\ owner = "adb" => reachable

\* Without a daemon some start is still going to bind, or to deal with adb: a
\* server is stopped by a start that then binds.
PursuitInv ==
  (\E p \in Procs : pc[p] # "idle") /\ fails = 0 =>
    /\ owner = "none" => \E r \in Procs : pc[r] \in {"probe", "bind"}
    /\ owner = "adb" => \E r \in Procs : pc[r] \in {"probe", "asked", "kill", "stopping", "bind"}

\* Nobody is told to stop unless an adb server was met.
SparedInv ==
  adbs = 0 => owner # "adb" /\ \A p \in Procs : pc[p] \notin {"kill", "stopping", "killed"}

StartInv == TypeInv /\ OwnerInv /\ PursuitInv /\ SparedInv

\* A step of one process that leaves the listener alone.
LEMMA OwnSteps ==
  ASSUME StartInv, NEW p \in Procs,
         Start(p) \/ Probe(p) \/ ProbeRefused(p) \/ ProbeAnswered(p) \/ Kill(p) \/ KillRefused(p)
           \/ Serve(p) \/ (Bind(p) /\ owner' = owner)
  PROVE  StartInv'
<1> USE StartupAssumption DEF StartInv, Goto, Ask, Server
<1>1. CASE Start(p) \/ Serve(p)
  BY <1>1 DEF Start, Serve, TypeInv, OwnerInv, PursuitInv, SparedInv, Places
<1>2. CASE Probe(p) \/ Kill(p)
  BY <1>2 DEF Probe, Kill, TypeInv, OwnerInv, PursuitInv, SparedInv, Places
<1>3. CASE ProbeRefused(p) \/ KillRefused(p)
  BY <1>3 DEF ProbeRefused, KillRefused, TypeInv, OwnerInv, PursuitInv, SparedInv, Places
<1>4. CASE ProbeAnswered(p)
  BY <1>4 DEF ProbeAnswered, Answers, Verdict, TypeInv, OwnerInv, PursuitInv, SparedInv, Places
<1>5. CASE Bind(p) /\ owner' = owner
  BY <1>5 DEF Bind, InUse, TypeInv, OwnerInv, PursuitInv, SparedInv, Places
<1> QED
  BY Zenon, <1>1, <1>2, <1>3, <1>4, <1>5

\* A process, or an adb server, gets the port.
LEMMA Takes ==
  ASSUME StartInv, AdbStart \/ \E p \in Procs : Bind(p) /\ owner' # owner
  PROVE  StartInv'
<1> USE StartupAssumption DEF StartInv, Goto
<1>1. CASE AdbStart
  BY <1>1 DEF AdbStart, TypeInv, OwnerInv, PursuitInv, SparedInv
<1>2. ASSUME NEW p \in Procs, Bind(p), owner' # owner PROVE StartInv'
  BY <1>2 DEF Bind, TypeInv, OwnerInv, PursuitInv, SparedInv, Places
<1> QED
  BY Zenon, <1>1, <1>2

\* What the exit of the listener does to everyone.
LEMMA ExitEffect ==
  ASSUME StartInv, owner \in Procs \cup {"adb"}, NEW told \in SUBSET Procs, Exit(owner, told),
         \A p \in told : pc[p] = "stopping"
  PROVE  /\ owner' = "none" /\ pc' \in [Procs -> Places] /\ peer' = [p \in Procs |-> "none"]
         /\ \A p \in told : pc'[p] = "bind"
         /\ \A p \in Procs : pc'[p] \in {"bound", "serving", "asked", "stopping"} => FALSE
         /\ \A p \in Procs : pc'[p] = "kill" => pc[p] = "kill"
         /\ \A p \in Procs : pc[p] = "idle" => pc'[p] = "idle"
         /\ \A p \in Procs : pc'[p] = "killed" => pc[p] = "killed" \/ pc[p] = "serving"
<1> USE StartupAssumption DEF StartInv, OwnerInv, TypeInv, Exit
<1>1. owner' = "none" /\ peer' = [p \in Procs |-> "none"] /\ DOMAIN pc' = Procs
  OBVIOUS
<1>2. ASSUME NEW p \in Procs
      PROVE  pc'[p] = IF p \in told THEN "bind"
                      ELSE IF pc[p] = "bound" THEN "error"
                      ELSE IF pc[p] = "serving" THEN "killed"
                      ELSE IF peer[p] = owner THEN "error" ELSE pc[p]
  OBVIOUS
<1>3. pc' = [p \in Procs |-> pc'[p]]
  OBVIOUS
<1> QED
  BY <1>1, <1>2, <1>3 DEF Places

\* The listener stops, told to by starts that go on to bind.
LEMMA Stops ==
  ASSUME StartInv, NEW s \in Procs \cup {"adb"}, HandleKill(s)
  PROVE  StartInv'
<1>1. PICK told \in SUBSET {p \in Procs : pc[p] = "stopping" /\ peer[p] = s} :
        told # {} /\ Exit(s, told)
  BY Zenon DEF HandleKill
<1>2. /\ told \in SUBSET Procs /\ \A p \in told : pc[p] = "stopping"
      /\ owner \in Procs \cup {"adb"} /\ Exit(owner, told)
  BY <1>1 DEF HandleKill
<1>3. UNCHANGED <<reachable, adbs, fails>>
  BY Zenon DEF HandleKill
<1>4. PICK r \in Procs : r \in told
  BY <1>1, <1>2
<1>5. adbs # 0
  BY <1>2, <1>4 DEF StartInv, SparedInv
<1> QED
  BY <1>2, <1>3, <1>4, <1>5, ExitEffect, StartupAssumption DEF StartInv, TypeInv, OwnerInv, PursuitInv, SparedInv

\* A daemon fails to come up.
LEMMA Fails == ASSUME StartInv, NEW p \in Procs, StartFails(p) PROVE StartInv'
<1>1. /\ owner = p /\ Exit(owner, {}) /\ fails' = fails + 1 /\ UNCHANGED <<reachable, adbs>>
  BY DEF StartFails, StartInv, OwnerInv
<1>2. \A q \in Procs : pc[q] = "serving" => FALSE
  BY <1>1 DEF StartFails, StartInv, OwnerInv
<1>3. fails' # 0 /\ fails' \in Nat
  BY <1>1 DEF StartInv, TypeInv
<1> QED
  BY <1>1, <1>2, <1>3, ExitEffect, StartupAssumption DEF StartInv, TypeInv, OwnerInv, PursuitInv, SparedInv

\* The invariant holds in every reachable state.
LEMMA StartInductive == Spec => []StartInv
<1>1. ASSUME Init PROVE StartInv
  BY <1>1, StartupAssumption DEF Init, StartInv, TypeInv, OwnerInv, PursuitInv, SparedInv, Places
<1>2. ASSUME StartInv, [Next]_vars PROVE StartInv'
  <2>1. ASSUME NEW p \in Procs, Start(p) \/ Step(p) \/ StartFails(p) PROVE StartInv'
    BY Zenon, <1>2, <2>1, OwnSteps, Takes, Fails DEF Step
  <2>2. CASE UNCHANGED vars
    BY <1>2, <2>2 DEF vars, StartInv, TypeInv, OwnerInv, PursuitInv, SparedInv
  <2> QED
    BY Zenon, <1>2, <2>1, <2>2, Stops, Takes DEF Next
<1> QED
  BY <1>1, <1>2, PTL DEF Spec

\* Starts that have come to rest leave a daemon serving, however many processes
\* start, stop each other's server and lose the port to one another.
THEOREM StartsSettle == Spec => []Settled
<1>1. StartInv => Settled
  <2> SUFFICES ASSUME StartInv, \A p \in Procs : pc[p] \in Ends \cup {"idle", "serving"},
                      \E p \in Procs : pc[p] # "idle", fails = 0
               PROVE  \E p \in Procs : pc[p] = "serving" /\ owner = p
    BY Zenon DEF Settled
  <2>1. \A p \in Procs : pc[p] \notin {"probe", "asked", "kill", "stopping", "bind", "bound"}
    BY DEF Ends
  <2>2. owner # "none" /\ owner # "adb"
    BY <2>1 DEF StartInv, PursuitInv
  <2>3. owner \in Procs /\ pc[owner] \in {"bound", "serving"}
    BY <2>2 DEF StartInv, TypeInv, OwnerInv
  <2> QED
    BY <2>1, <2>3
<1> QED
  BY <1>1, StartInductive, PTL

\* Without an adb server no start stops a daemon.
THEOREM DaemonsSpared == Spec => []DaemonSpared
<1>1. StartInv => DaemonSpared
  BY DEF StartInv, TypeInv, SparedInv, DaemonSpared
<1> QED
  BY <1>1, StartInductive, PTL

=============================================================================
