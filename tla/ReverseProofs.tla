---------------------------- MODULE ReverseProofs ----------------------------
(***************************************************************************)
(* The host's reverse rules and the device's agree, and a connection      *)
(* through a rule they agree on is not denied: for any number of clients,  *)
(* addresses, commands and connections.                                    *)
(***************************************************************************)
EXTENDS Reverse, TLAPS

Addresses == Locals \cup {"none"}

Rule == [via : Keys \cup {"none"}, local : Addresses]

Inbound == [remote : Remotes, local : Addresses,
            status : {"new", "okay", "failed", "denied", "unreachable"}, calm : BOOLEAN]

TypeInv ==
  /\ reverse_forwards \in [Keys -> Addresses] /\ rules \in [Remotes -> Rule]
  /\ st \in [Clients -> {"idle", "open", "wait"}] /\ cmd \in [Clients -> Commands]
  /\ wire \in Seq(Clients) /\ channel \in Seq(Nat) /\ inbound \in Seq(Inbound)
  /\ toHost \in Seq([client : Clients \cup {"none"}, socket : Nat])

\* A client that waits has its OPEN or the answer to it under way, once.
QueueInv ==
  /\ \A i \in 1..Len(wire) : st[wire[i]] = "wait"
  /\ \A i, j \in 1..Len(wire) : wire[i] = wire[j] => i = j
  /\ \A i \in 1..Len(toHost) : toHost[i].socket = 0 =>
       /\ toHost[i].client \in Clients /\ st[toHost[i].client] = "wait"
       /\ \A j \in 1..Len(wire) : wire[j] # toHost[i].client
  /\ \A i, j \in 1..Len(toHost) :
       toHost[i].socket = 0 /\ toHost[j] = toHost[i] => i = j

\* The inbound sockets that the reader and the acceptor have are there.
SocketInv ==
  /\ \A i \in 1..Len(toHost) : toHost[i].socket <= Len(inbound)
  /\ \A i \in 1..Len(channel) : channel[i] \in 1..Len(inbound)
  /\ acceptor # "recv" => cur \in 1..Len(inbound)

\* The device has not carried out the command of c.
Pending(c) == st[c] = "open" \/ \E i \in 1..Len(wire) : wire[i] = c

\* What a command about an address makes of the host's rule.
Result(m) == IF m.op \in {"add", "addnew"} THEN m.local ELSE "none"

\* One command at a time is about an address, unless two overlapped.
OneInv == \A r \in Remotes \ overlapped : \A c, d \in UnderWay(r) : c = d

\* The host has carried out the command that the device has not.
PendingInv ==
  \A r \in Remotes \ overlapped : \A c \in UnderWay(r) :
    Pending(c) => reverse_forwards[r] = Result(cmd[c])

\* Without such a command both have the same rule.
Agree(r) == reverse_forwards[r] = IF rules[r].via = r THEN rules[r].local ELSE "none"

AgreeInv ==
  \A r \in Remotes \ (overlapped \cup refused) :
    (\A c \in UnderWay(r) : ~Pending(c)) => Agree(r)

\* The rule behind a calm socket is the host's.
CalmInv ==
  \A i \in 1..Len(inbound) :
    inbound[i].calm => reverse_forwards[inbound[i].remote] = inbound[i].local

\* A socket that may be denied.
Deniable(i) == ~inbound[i].calm \/ inbound[i].local \in OtherLocals

\* A socket is about to be closed because it may be denied or the port cannot
\* be reached.
DenyInv ==
  /\ acceptor = "close" => inbound[cur].status = "failed" \/ Deniable(cur)
  /\ \A i \in 1..Len(inbound) : inbound[i].status = "denied" => Deniable(i)

ReverseInv ==
  /\ TypeInv /\ QueueInv /\ SocketInv /\ OneInv /\ PendingInv /\ AgreeInv /\ CalmInv
  /\ DenyInv

-----------------------------------------------------------------------------

\* What Append and Tail do to the elements of a queue.
LEMMA AppendElements ==
  ASSUME NEW S, NEW q \in Seq(S), NEW e \in S
  PROVE  /\ Append(q, e) \in Seq(S) /\ Len(Append(q, e)) = Len(q) + 1
         /\ \A i \in 1..Len(q) : Append(q, e)[i] = q[i]
         /\ Append(q, e)[Len(q) + 1] = e /\ Len(q) \in Nat
OBVIOUS

LEMMA TailElements ==
  ASSUME NEW S, NEW q \in Seq(S), q # <<>>
  PROVE  /\ Tail(q) \in Seq(S) /\ Len(Tail(q)) = Len(q) - 1 /\ Len(q) \in Nat \ {0}
         /\ \A i \in 1..(Len(q) - 1) : Tail(q)[i] = q[i + 1]
         /\ Head(q) = q[1] /\ Head(q) \in S
OBVIOUS

LEMMA ElementType == ASSUME NEW S, NEW q \in Seq(S) PROVE \A i \in 1..Len(q) : q[i] \in S
OBVIOUS

\* The fields of a command, and the addresses it is about.
LEMMA CommandFields ==
  ASSUME NEW m \in Commands
  PROVE  /\ m.op \in {"add", "addnew", "remove", "all", "list"} /\ m.local \in Addresses
         /\ m.op \in {"add", "addnew"} => m.key \in Keys /\ m.local \in Locals
         /\ m.op = "remove" => m.key \in Remotes
         /\ m.op = "list" => m.key = "none"
BY DEF Commands, List, Addresses, Keys

LEMMA TouchedBy ==
  ASSUME NEW m \in Commands, NEW r \in Remotes
  PROVE  /\ m.op = "all" => r \in Touched(m)
         /\ m.op # "all" => (r \in Touched(m) <=> m.key = r)
         /\ m.op = "list" => r \notin Touched(m)
BY CommandFields, ReverseAssumption DEF Touched

\* The host's rules after a command.
LEMMA UpdatedType ==
  ASSUME reverse_forwards \in [Keys -> Addresses], NEW m \in Commands
  PROVE  Updated(m) \in [Keys -> Addresses]
BY CommandFields DEF Updated, Stored, Addresses

LEMMA UpdatedRule ==
  ASSUME reverse_forwards \in [Keys -> Addresses], NEW m \in Commands, NEW r \in Remotes
  PROVE  /\ r \in Touched(m) => Updated(m)[r] = Result(m)
         /\ r \notin Touched(m) => Updated(m)[r] = reverse_forwards[r]
<1>0. r \in Keys /\ m.op \in {"add", "addnew", "remove", "all", "list"}
  BY CommandFields DEF Keys
<1>1. CASE m.op \in {"add", "addnew"}
  <2>1. Updated(m) = [reverse_forwards EXCEPT ![m.key] = m.local]
    BY <1>1 DEF Updated, Stored
  <2> QED
    BY <1>0, <1>1, <2>1, CommandFields, TouchedBy DEF Result
<1>2. CASE m.op = "remove"
  <2>1. Updated(m) = [reverse_forwards EXCEPT ![m.key] = "none"]
    BY <1>2 DEF Updated
  <2> QED
    BY <1>0, <1>2, <2>1, CommandFields, TouchedBy DEF Result, Addresses
<1>3. CASE m.op = "all"
  <2>1. Updated(m) = [k \in Keys |-> "none"]
    BY <1>3 DEF Updated
  <2> QED
    BY <1>0, <1>3, <2>1, TouchedBy DEF Result, Addresses
<1>4. CASE m.op = "list"
  <2>1. Updated(m) = reverse_forwards
    BY <1>4 DEF Updated
  <2> QED
    BY <1>4, <2>1, TouchedBy
<1> QED
  BY <1>0, <1>1, <1>2, <1>3, <1>4

Parts == <<reverse_forwards, st, cmd, wire, rules, refused, toHost, channel, acceptor, cur,
           inbound, overlapped>>

LEMMA QuietKeeps == ASSUME ReverseInv, UNCHANGED Parts PROVE ReverseInv'
<1> USE DEF Parts, ReverseInv, Pending, UnderWay
<1>1. TypeInv' /\ QueueInv' /\ SocketInv'
  BY DEF TypeInv, QueueInv, SocketInv
<1>2. OneInv' /\ PendingInv' /\ AgreeInv'
  BY DEF OneInv, PendingInv, AgreeInv, Agree
<1>3. CalmInv' /\ DenyInv'
  BY DEF CalmInv, DenyInv, Deniable
<1> QED
  BY Zenon, <1>1, <1>2, <1>3

-----------------------------------------------------------------------------

\* handle_reverse carries a command out on the host's rules.  The rules behind
\* the sockets that stay calm are not touched.
LEMMA CommandKeeps ==
  ASSUME ReverseInv, NEW c \in Clients, NEW m \in Commands, st[c] = "idle",
         reverse_forwards' = Updated(m),
         st' = [st EXCEPT ![c] = "open"], cmd' = [cmd EXCEPT ![c] = m],
         overlapped' = overlapped \cup {r \in Touched(m) : UnderWay(r) # {}},
         inbound' = [i \in DOMAIN inbound |->
                       [inbound[i] EXCEPT !.calm = @ /\ inbound[i].remote \notin Touched(m)]],
         UNCHANGED <<wire, rules, refused, toHost, channel, acceptor, cur>>
  PROVE  ReverseInv'
<1> USE DEF ReverseInv
<1>1. /\ inbound' \in Seq(Inbound) /\ Len(inbound') = Len(inbound) /\ Len(inbound) \in Nat
      /\ \A i \in 1..Len(inbound) :
           /\ inbound[i] \in Inbound
           /\ inbound'[i].remote = inbound[i].remote /\ inbound'[i].local = inbound[i].local
           /\ inbound'[i].status = inbound[i].status
           /\ inbound'[i].calm => inbound[i].calm /\ inbound[i].remote \notin Touched(m)
  <2>1. inbound \in Seq(Inbound) /\ DOMAIN inbound = 1..Len(inbound) /\ Len(inbound) \in Nat
    BY DEF TypeInv
  <2>2. \A i \in 1..Len(inbound) : inbound[i] \in Inbound
    BY <2>1
  <2>3. \A i \in 1..Len(inbound) :
          /\ inbound'[i] \in Inbound
          /\ inbound'[i].remote = inbound[i].remote /\ inbound'[i].local = inbound[i].local
          /\ inbound'[i].status = inbound[i].status
          /\ inbound'[i].calm => inbound[i].calm /\ inbound[i].remote \notin Touched(m)
    BY <2>1, <2>2 DEF Inbound
  <2>4. inbound' \in [1..Len(inbound) -> Inbound]
    BY <2>1, <2>3
  <2>5. inbound' \in Seq(Inbound) /\ Len(inbound') = Len(inbound)
    BY <2>1, <2>4
  <2> QED
    BY Zenon, <2>1, <2>2, <2>3, <2>5
<1>2. \A i \in 1..Len(wire) : wire[i] # c
  BY DEF QueueInv
<1>3. TypeInv'
  <2>1. reverse_forwards' \in [Keys -> Addresses]
    BY UpdatedType DEF TypeInv
  <2>2. st' \in [Clients -> {"idle", "open", "wait"}] /\ cmd' \in [Clients -> Commands]
    BY DEF TypeInv
  <2> QED
    BY Zenon, <1>1, <2>1, <2>2 DEF TypeInv
<1>4. QueueInv'
  BY DEF TypeInv, QueueInv
<1>5. SocketInv'
  BY <1>1 DEF SocketInv
<1>6. /\ \A d \in Clients : d # c => st'[d] = st[d] /\ cmd'[d] = cmd[d]
      /\ st'[c] = "open" /\ cmd'[c] = m /\ st'[c] # "idle"
  BY DEF TypeInv
<1>7. ASSUME NEW r \in Remotes, r \notin overlapped'
      PROVE  /\ r \notin overlapped
             /\ r \in Touched(m) => c \in UnderWay(r)' /\ \A d \in UnderWay(r)' : d = c
             /\ r \notin Touched(m) => UnderWay(r)' = UnderWay(r)
  <2>1. r \notin overlapped /\ (r \in Touched(m) => UnderWay(r) = {})
    BY <1>7
  <2>2. \A d \in Clients \ {c} : d \in UnderWay(r)' <=> d \in UnderWay(r)
    BY <1>6 DEF UnderWay, Touched
  <2>3. c \in UnderWay(r)' <=> r \in Touched(m)
    BY <1>6 DEF UnderWay, Touched
  <2>4. c \notin UnderWay(r)
    BY DEF UnderWay
  <2>5. CASE r \in Touched(m)
    <3>1. \A d \in UnderWay(r)' : d = c
      BY <2>1, <2>2, <2>5 DEF UnderWay
    <3> QED
      BY Zenon, <2>1, <2>3, <2>5, <3>1
  <2>6. CASE r \notin Touched(m)
    <3>1. UnderWay(r)' = UnderWay(r)
      BY <2>2, <2>3, <2>4, <2>6 DEF UnderWay
    <3> QED
      BY Zenon, <2>1, <2>6, <3>1
  <2> QED
    BY Zenon, <2>5, <2>6
<1>8. \A d \in Clients \ {c} : Pending(d)' <=> Pending(d)
  BY <1>6 DEF Pending
<1>9. OneInv'
  BY <1>7 DEF OneInv
<1>10. PendingInv'
  <2> SUFFICES ASSUME NEW r \in Remotes \ overlapped', NEW d \in UnderWay(r)', Pending(d)'
               PROVE  reverse_forwards'[r] = Result(cmd'[d])
    BY DEF PendingInv
  <2>1. CASE r \in Touched(m)
    <3>1. d = c
      BY <1>7, <2>1 DEF UnderWay
    <3> QED
      BY <1>6, <2>1, <3>1, UpdatedRule DEF TypeInv
  <2>2. CASE r \notin Touched(m)
    <3>1. d \in UnderWay(r) /\ r \notin overlapped /\ d \in Clients /\ d # c
      BY <1>7, <2>2 DEF UnderWay
    <3>2. reverse_forwards[r] = Result(cmd[d])
      BY <1>8, <3>1 DEF PendingInv
    <3> QED
      BY <1>6, <2>2, <3>1, <3>2, UpdatedRule DEF TypeInv
  <2> QED
    BY <2>1, <2>2
<1>11. AgreeInv'
  <2> SUFFICES ASSUME NEW r \in Remotes, r \notin overlapped', r \notin refused,
                      \A d \in UnderWay(r)' : ~Pending(d)'
               PROVE  Agree(r)'
    BY DEF AgreeInv
  <2>1. r \notin Touched(m)
    BY <1>6, <1>7 DEF Pending
  <2>2. UnderWay(r)' = UnderWay(r) /\ r \notin overlapped
    BY <1>7, <2>1
  <2>3. \A d \in UnderWay(r) : d \in Clients /\ d # c
    BY DEF UnderWay
  <2>4. Agree(r)
    BY <1>8, <2>2, <2>3 DEF AgreeInv
  <2> QED
    BY <2>1, <2>4, UpdatedRule DEF Agree, TypeInv
<1>12. CalmInv'
  <2>1. ASSUME NEW i \in 1..Len(inbound'), inbound'[i].calm
        PROVE  reverse_forwards'[inbound'[i].remote] = inbound'[i].local
    <3>1. i \in 1..Len(inbound) /\ inbound[i].calm /\ inbound[i].remote \in Remotes \ Touched(m)
      BY <1>1, <2>1 DEF Inbound
    <3>2. reverse_forwards[inbound[i].remote] = inbound[i].local
      BY Zenon, <3>1 DEF CalmInv
    <3> QED
      BY <1>1, <3>1, <3>2, UpdatedRule DEF TypeInv
  <2> QED
    BY Zenon, <2>1 DEF CalmInv
<1>13. DenyInv'
  <2>1. \A i \in 1..Len(inbound) : Deniable(i) => Deniable(i)'
    BY <1>1 DEF Deniable
  <2>2. acceptor = "close" => cur \in 1..Len(inbound)
    BY DEF SocketInv
  <2> QED
    BY <1>1, <2>1, <2>2 DEF DenyInv
<1> QED
  BY Zenon, <1>3, <1>4, <1>5, <1>9, <1>10, <1>11, <1>12, <1>13

\* open_socket writes the OPEN of a command.
LEMMA OpenKeeps == ASSUME ReverseInv, NEW c \in Clients, OpenSocket(c) PROVE ReverseInv'
<1> USE DEF ReverseInv, OpenSocket, devVars, accVars
<1>1. /\ wire \in Seq(Clients) /\ wire' \in Seq(Clients) /\ Len(wire') = Len(wire) + 1
      /\ \A i \in 1..Len(wire) : wire'[i] = wire[i]
      /\ wire'[Len(wire) + 1] = c /\ Len(wire) \in Nat
  BY AppendElements DEF TypeInv
<1>2. /\ st[c] = "open" /\ st'[c] = "wait" /\ \A d \in Clients : d # c => st'[d] = st[d]
      /\ st' \in [Clients -> {"idle", "open", "wait"}]
  BY DEF TypeInv
<1>3. \A i \in 1..Len(wire) : wire[i] # c
  BY <1>2 DEF QueueInv
<1>4. TypeInv'
  BY Zenon, <1>1, <1>2 DEF TypeInv
<1>5. QueueInv'
  <2>1. \A i \in 1..Len(wire') : i \in 1..Len(wire) \/ i = Len(wire) + 1
    BY <1>1
  <2>2. \A i \in 1..Len(wire') : st'[wire'[i]] = "wait"
    BY <1>1, <1>2, <2>1 DEF QueueInv
  <2>3. \A i, j \in 1..Len(wire') : wire'[i] = wire'[j] => i = j
    BY <1>1, <1>3, <2>1 DEF QueueInv
  <2>4. \A i \in 1..Len(toHost) : toHost[i].socket = 0 =>
          /\ toHost[i].client \in Clients /\ st[toHost[i].client] = "wait"
          /\ \A j \in 1..Len(wire) : wire[j] # toHost[i].client
    BY Zenon DEF QueueInv
  <2>5. \A i \in 1..Len(toHost) : toHost[i].socket = 0 =>
          /\ toHost[i].client \in Clients /\ st'[toHost[i].client] = "wait"
          /\ \A j \in 1..Len(wire') : wire'[j] # toHost[i].client
    BY <1>1, <1>2, <2>1, <2>4
  <2>6. \A i, j \in 1..Len(toHost) :
          toHost[i].socket = 0 /\ toHost[j] = toHost[i] => i = j
    BY Zenon DEF QueueInv
  <2>7. toHost' = toHost
    BY Zenon
  <2> QED
    BY <2>2, <2>3, <2>5, <2>6, <2>7 DEF QueueInv
<1>6. \A d \in Clients : Pending(d)' <=> Pending(d)
  <2>1. \A i \in 1..Len(wire') : i \in 1..Len(wire) \/ i = Len(wire) + 1
    BY <1>1
  <2>2. \A i \in 1..Len(wire) : i \in 1..Len(wire')
    BY <1>1
  <2>3. Len(wire) + 1 \in 1..Len(wire')
    BY <1>1
  <2> QED
    BY Zenon, <1>1, <1>2, <2>1, <2>2, <2>3 DEF Pending
<1>7. \A r \in Remotes : UnderWay(r)' = UnderWay(r)
  BY <1>2 DEF UnderWay
<1>8. \A r \in Remotes : \A d \in UnderWay(r) : d \in Clients
  BY DEF UnderWay
<1>9. OneInv' /\ PendingInv'
  BY <1>6, <1>7, <1>8 DEF OneInv, PendingInv
<1>10. AgreeInv'
  BY <1>6, <1>7, <1>8 DEF AgreeInv, Agree
<1>11. SocketInv' /\ CalmInv' /\ DenyInv'
  BY Zenon DEF SocketInv, CalmInv, DenyInv, Deniable
<1> QED
  BY Zenon, <1>4, <1>5, <1>9, <1>10, <1>11

\* The queue of the device's messages gets one more.
LEMMA SendElements ==
  ASSUME TypeInv, NEW m \in [client : Clients \cup {"none"}, socket : Nat], Send(m)
  PROVE  /\ toHost' \in Seq([client : Clients \cup {"none"}, socket : Nat])
         /\ Len(toHost') = Len(toHost) + 1 /\ Len(toHost) \in Nat
         /\ \A i \in 1..Len(toHost) : toHost'[i] = toHost[i]
         /\ toHost'[Len(toHost) + 1] = m
         /\ \A i \in 1..Len(toHost') : i \in 1..Len(toHost) \/ i = Len(toHost) + 1
<1> DEFINE S == [client : Clients \cup {"none"}, socket : Nat]
<1> HIDE DEF S
<1>1. toHost \in Seq(S) /\ m \in S /\ toHost' = Append(toHost, m)
  BY Zenon DEF TypeInv, Send, S
<1>2. /\ toHost' \in Seq(S) /\ Len(toHost') = Len(toHost) + 1 /\ Len(toHost) \in Nat
      /\ \A i \in 1..Len(toHost) : toHost'[i] = toHost[i]
      /\ toHost'[Len(toHost) + 1] = m
  BY <1>1, AppendElements
<1>3. \A i \in 1..Len(toHost') : i \in 1..Len(toHost) \/ i = Len(toHost) + 1
  BY <1>2
<1> QED
  BY Zenon, <1>2, <1>3 DEF S

\* What a command that the device carries out makes of a rule that the host
\* has, or has not, changed before.
LEMMA RuleCarriedOut ==
  ASSUME ReverseInv, DevCommand, NEW r \in Remotes
  PROVE  LET m == cmd[Head(wire)] IN
         /\ r \in Touched(m) /\ r \notin refused' =>
              (IF rules'[r].via = r THEN rules'[r].local ELSE "none") = Result(m)
         /\ r \notin Touched(m) =>
              /\ r \in refused' <=> r \in refused
              /\ (IF rules'[r].via = r THEN rules'[r].local ELSE "none")
                   = (IF rules[r].via = r THEN rules[r].local ELSE "none")
         /\ rules' \in [Remotes -> Rule]
<1> DEFINE m == cmd[Head(wire)]
<1> USE DEF ReverseInv
<1>1. Head(wire) \in Clients /\ m \in Commands
  BY TailElements DEF DevCommand, TypeInv
<1> HIDE DEF m
<1>2. /\ r # "none" /\ r # "zero" /\ r \in Keys
      /\ NoRule.via = "none" /\ NoRule.local = "none" /\ NoRule \in Rule
  BY ReverseAssumption DEF NoRule, Rule, Keys, Addresses
<1>3. rules \in [Remotes -> Rule]
  BY DEF TypeInv
<1>4. /\ m.op \in {"add", "addnew"} => m.key \in Keys /\ m.local \in Addresses
      /\ m.op \in {"add", "addnew"} => (r \in Touched(m) <=> m.key = r)
  BY <1>1, CommandFields, TouchedBy DEF Addresses
<1>5. ASSUME NEW q \in Remotes, Bind(q, m), m.op \in {"add", "addnew"}
      PROVE  /\ rules' \in [Remotes -> Rule]
             /\ rules'[q].via = m.key /\ rules'[q].local = m.local
             /\ \A x \in Remotes : x # q => rules'[x] = rules[x]
  BY <1>3, <1>4, <1>5 DEF Bind, Rule
<1>6. CASE m.op = "add" /\ m.key \in Remotes /\ rules[m.key] # NoRule /\ Bind(m.key, m)
           /\ refused' = refused \ {m.key}
  BY <1>2, <1>4, <1>5, <1>6 DEF m, Result
<1>7. ASSUME m.op \in {"add", "addnew"}, refused' = refused \ {m.key},
             NEW q \in (IF m.key = "zero" THEN Remotes ELSE {m.key}),
             rules[q] = NoRule, Bind(q, m)
      PROVE  /\ r \in Touched(m) /\ r \notin refused' =>
                  (IF rules'[r].via = r THEN rules'[r].local ELSE "none") = Result(m)
             /\ r \notin Touched(m) =>
                  /\ r \in refused' <=> r \in refused
                  /\ (IF rules'[r].via = r THEN rules'[r].local ELSE "none")
                       = (IF rules[r].via = r THEN rules[r].local ELSE "none")
             /\ rules' \in [Remotes -> Rule]
  <2>1. q \in Remotes
    BY <1>4, <1>7 DEF Keys
  <2>2. /\ rules' \in [Remotes -> Rule] /\ rules'[q].via = m.key /\ rules'[q].local = m.local
        /\ \A x \in Remotes : x # q => rules'[x] = rules[x]
    BY <1>5, <1>7, <2>1
  <2>3. CASE m.key = "zero"
    BY <1>2, <1>4, <1>7, <2>1, <2>2, <2>3
  <2>4. CASE m.key # "zero"
    BY <1>2, <1>4, <1>7, <2>1, <2>2, <2>4 DEF Result
  <2> QED
    BY Zenon, <2>3, <2>4
<1>8. CASE /\ m.op \in {"add", "addnew"}
           /\ refused' = refused \cup ({m.key} \cap Remotes) /\ UNCHANGED rules
  BY <1>3, <1>4, <1>8 DEF m
<1>9. CASE /\ m.op \in {"remove", "all"}
           /\ rules' = [x \in Remotes |-> IF x \in Touched(m) THEN NoRule ELSE rules[x]]
           /\ refused' = refused \ Touched(m)
  BY <1>2, <1>3, <1>9 DEF m, Result
<1>10. CASE m.op = "list" /\ UNCHANGED devVars
  <2>1. r \notin Touched(m)
    BY <1>1, <1>10, TouchedBy
  <2> QED
    BY <1>3, <1>10, <2>1 DEF m, devVars
<1> QED
  BY Zenon, <1>6, <1>7, <1>8, <1>9, <1>10 DEF DevCommand, m

\* The device carries out the first command on the wire and answers.
LEMMA DevCommandKeeps == ASSUME ReverseInv, DevCommand PROVE ReverseInv'
<1>c. PICK c : c = Head(wire)
  OBVIOUS
<1> USE DEF ReverseInv
<1>0. /\ wire # <<>> /\ wire' = Tail(wire) /\ Send(Answer(c)) /\ UNCHANGED hostVars
      /\ overlapped' = overlapped /\ UNCHANGED accVars /\ inbound' = inbound
  BY Zenon, <1>c DEF DevCommand
<1>1. /\ wire' \in Seq(Clients) /\ Len(wire') = Len(wire) - 1 /\ Len(wire) \in Nat \ {0}
      /\ \A i \in 1..(Len(wire) - 1) : wire'[i] = wire[i + 1]
      /\ c = wire[1] /\ c \in Clients
  BY <1>0, <1>c, TailElements DEF TypeInv
<1>2. \A i \in 1..Len(wire') : i \in 1..Len(wire) - 1 /\ i + 1 \in 1..Len(wire) /\ i + 1 # 1
  BY <1>1
<1>3. /\ st[c] = "wait" /\ \A i \in 1..Len(wire) : wire[i] = c => i = 1
  BY <1>1 DEF QueueInv
<1>4. \A i \in 1..Len(wire') : wire'[i] # c
  BY <1>1, <1>2, <1>3
<1>5. Answer(c) \in [client : Clients \cup {"none"}, socket : Nat]
  BY <1>1 DEF Answer
<1>6. /\ toHost' \in Seq([client : Clients \cup {"none"}, socket : Nat])
      /\ Len(toHost') = Len(toHost) + 1 /\ Len(toHost) \in Nat
      /\ \A i \in 1..Len(toHost) : toHost'[i] = toHost[i]
      /\ toHost'[Len(toHost) + 1] = Answer(c)
      /\ \A i \in 1..Len(toHost') : i \in 1..Len(toHost) \/ i = Len(toHost) + 1
  BY Zenon, <1>0, <1>5, SendElements
<1>7. TypeInv'
  <2>1. rules' \in [Remotes -> Rule]
    <3>1. CASE Remotes = {}
      BY <3>1, <1>0 DEF DevCommand, Bind, devVars, TypeInv
    <3>2. CASE Remotes # {}
      BY <3>2, RuleCarriedOut
    <3> QED
      BY Zenon, <3>1, <3>2
  <2> QED
    BY Zenon, <1>0, <1>1, <1>6, <2>1 DEF TypeInv, hostVars, accVars
<1>8. QueueInv'
  <2>0. st' = st /\ Answer(c).socket = 0 /\ Answer(c).client = c
    BY <1>0 DEF hostVars, Answer
  <2>1. \A i \in 1..Len(wire') : st'[wire'[i]] = "wait"
    BY <1>1, <1>2, <2>0 DEF QueueInv
  <2>2. \A i, j \in 1..Len(wire') : wire'[i] = wire'[j] => i = j
    <3>1. ASSUME NEW i \in 1..Len(wire'), NEW j \in 1..Len(wire'), wire'[i] = wire'[j]
          PROVE  i = j
      <4>1. i + 1 \in 1..Len(wire) /\ j + 1 \in 1..Len(wire) /\ wire[i + 1] = wire[j + 1]
        BY <1>1, <1>2, <3>1
      <4>2. i + 1 = j + 1
        BY Zenon, <4>1 DEF QueueInv
      <4> QED
        BY <4>2
    <3> QED
      BY Zenon, <3>1
  <2>3. \A i \in 1..Len(toHost) : toHost[i].socket = 0 =>
          /\ toHost[i].client \in Clients /\ st[toHost[i].client] = "wait"
          /\ \A j \in 1..Len(wire) : wire[j] # toHost[i].client
    BY Zenon DEF QueueInv
  <2>4. \A i \in 1..Len(toHost') : toHost'[i].socket = 0 =>
          /\ toHost'[i].client \in Clients /\ st'[toHost'[i].client] = "wait"
          /\ \A j \in 1..Len(wire') : wire'[j] # toHost'[i].client
    <3>1. ASSUME NEW i \in 1..Len(toHost), toHost[i].socket = 0
          PROVE  /\ st'[toHost[i].client] = "wait"
                 /\ \A j \in 1..Len(wire') : wire'[j] # toHost[i].client
      BY <1>1, <1>2, <2>0, <2>3, <3>1
    <3>2. ASSUME NEW i \in 1..Len(toHost'), toHost'[i].socket = 0
          PROVE  /\ toHost'[i].client \in Clients /\ st'[toHost'[i].client] = "wait"
                 /\ \A j \in 1..Len(wire') : wire'[j] # toHost'[i].client
      <4>1. CASE i \in 1..Len(toHost)
        BY <1>6, <2>3, <3>1, <3>2, <4>1
      <4>2. CASE i = Len(toHost) + 1
        BY <1>1, <1>3, <1>4, <1>6, <2>0, <4>2
      <4> QED
        BY Zenon, <1>6, <4>1, <4>2
    <3> QED
      BY Zenon, <3>2
  <2>5. \A i \in 1..Len(toHost) : toHost[i].socket = 0 => toHost[i].client # c
    BY <1>1, <2>3
  <2>6. \A i, j \in 1..Len(toHost') :
          toHost'[i].socket = 0 /\ toHost'[j] = toHost'[i] => i = j
    BY <1>6, <2>0, <2>5 DEF QueueInv
  <2> QED
    BY Zenon, <2>1, <2>2, <2>4, <2>6 DEF QueueInv
<1>9. SocketInv'
  <2>1. Answer(c).socket = 0 /\ Len(inbound) \in Nat
    BY DEF Answer, TypeInv
  <2>2. \A i \in 1..Len(toHost') : toHost'[i].socket <= Len(inbound)
    BY <1>6, <2>1 DEF SocketInv
  <2> QED
    BY Zenon, <1>0, <2>2 DEF SocketInv, accVars
<1>10. \A d \in Clients : Pending(d)' <=> Pending(d) /\ d # c
  <2>1. st' = st
    BY <1>0 DEF hostVars
  <2>2. ~Pending(c)'
    BY <1>3, <1>4, <2>1 DEF Pending
  <2>3. ASSUME NEW d \in Clients, d # c PROVE Pending(d)' <=> Pending(d)
    <3>1. ASSUME NEW i \in 1..Len(wire), wire[i] = d PROVE \E j \in 1..Len(wire') : wire'[j] = d
      <4>1. i # 1 /\ i - 1 \in 1..(Len(wire) - 1) /\ i - 1 \in 1..Len(wire')
        BY <1>1, <2>3, <3>1
      <4>2. wire'[i - 1] = wire[i]
        BY <1>1, <4>1
      <4> QED
        BY <3>1, <4>1, <4>2
    <3>2. ASSUME NEW j \in 1..Len(wire'), wire'[j] = d PROVE \E i \in 1..Len(wire) : wire[i] = d
      BY <1>1, <1>2, <3>2
    <3> QED
      BY Zenon, <2>1, <3>1, <3>2 DEF Pending
  <2> QED
    BY Zenon, <2>2, <2>3
<1>11. /\ \A r \in Remotes : UnderWay(r)' = UnderWay(r)
       /\ \A r \in Remotes : \A d \in UnderWay(r) : d \in Clients
       /\ reverse_forwards' = reverse_forwards /\ cmd' = cmd
  BY <1>0 DEF UnderWay, hostVars
<1>12. OneInv' /\ PendingInv'
  BY <1>0, <1>10, <1>11 DEF OneInv, PendingInv
<1>13. AgreeInv'
  <2>1. ASSUME NEW r \in Remotes, r \notin overlapped, r \notin refused',
               \A d \in UnderWay(r) : ~Pending(d)'
        PROVE  Agree(r)'
    <3>1. CASE r \in Touched(cmd[c])
      <4>1. c \in UnderWay(r) /\ Pending(c)
        BY <1>1, <1>3, <3>1 DEF UnderWay, Pending
      <4>2. reverse_forwards[r] = Result(cmd[c])
        BY <2>1, <4>1 DEF PendingInv
      <4> QED
        BY <1>11, <2>1, <3>1, <4>2, <1>c, RuleCarriedOut DEF Agree
    <3>2. CASE r \notin Touched(cmd[c])
      <4>1. c \notin UnderWay(r)
        BY <3>2 DEF UnderWay
      <4>2. \A d \in UnderWay(r) : ~Pending(d)
        BY <1>10, <1>11, <2>1, <4>1
      <4>3. r \notin refused
        BY <2>1, <3>2, <1>c, RuleCarriedOut
      <4>4. Agree(r)
        BY <2>1, <4>2, <4>3 DEF AgreeInv
      <4> QED
        BY <1>11, <2>1, <3>2, <4>4, <1>c, RuleCarriedOut DEF Agree
    <3> QED
      BY Zenon, <3>1, <3>2
  <2> QED
    BY <1>0, <1>11, <2>1 DEF AgreeInv
<1>14. CalmInv' /\ DenyInv'
  BY Zenon, <1>0, <1>11 DEF CalmInv, DenyInv, Deniable, accVars
<1> QED
  BY Zenon, <1>7, <1>8, <1>9, <1>12, <1>13, <1>14

\* A connection comes in at the device.  It is calm only if both ends have the
\* same rule.
LEMMA DevConnectKeeps == ASSUME ReverseInv, NEW r \in Remotes, DevConnect(r) PROVE ReverseInv'
<1> USE DEF ReverseInv
<1>i. PICK e : e = [remote |-> r, local |-> rules[r].local, status |-> "new",
                    calm |-> rules[r].via = r /\ UnderWay(r) = {}
                               /\ r \notin overlapped \cup refused]
  OBVIOUS
<1>e. e \in Inbound
  <2>1. rules[r].local \in Addresses
    BY DEF TypeInv, Rule
  <2> QED
    BY <1>i, <2>1 DEF Inbound
<1>0. /\ inbound' = Append(inbound, e) /\ Send([client |-> "none", socket |-> Len(inbound')])
      /\ UNCHANGED <<hostVars, overlapped, wire, devVars, accVars>>
  BY Zenon, <1>i DEF DevConnect
<1>1. /\ inbound' \in Seq(Inbound) /\ Len(inbound') = Len(inbound) + 1 /\ Len(inbound) \in Nat
      /\ \A i \in 1..Len(inbound) : inbound'[i] = inbound[i]
      /\ inbound'[Len(inbound) + 1] = e
  BY <1>e, <1>0, AppendElements DEF TypeInv
<1>2. \A i \in 1..Len(inbound') : i \in 1..Len(inbound) \/ i = Len(inbound) + 1
  BY <1>1
<1>m. PICK m : m = [client |-> "none", socket |-> Len(inbound')]
  OBVIOUS
<1>3. m \in [client : Clients \cup {"none"}, socket : Nat] /\ m.socket = Len(inbound) + 1
  BY <1>1, <1>m
<1>4. /\ toHost' \in Seq([client : Clients \cup {"none"}, socket : Nat])
      /\ Len(toHost') = Len(toHost) + 1 /\ Len(toHost) \in Nat
      /\ \A i \in 1..Len(toHost) : toHost'[i] = toHost[i]
      /\ toHost'[Len(toHost) + 1] = m
      /\ \A i \in 1..Len(toHost') : i \in 1..Len(toHost) \/ i = Len(toHost) + 1
  BY Zenon, <1>0, <1>m, <1>3, SendElements
<1>5. TypeInv'
  BY Zenon, <1>0, <1>1, <1>4 DEF TypeInv, hostVars, devVars, accVars
<1>6. QueueInv'
  <2>1. m.socket # 0
    BY <1>1, <1>3
  <2>2. ASSUME NEW i \in 1..Len(toHost'), toHost'[i].socket = 0
        PROVE  i \in 1..Len(toHost) /\ toHost'[i] = toHost[i]
    BY <1>4, <2>1, <2>2
  <2>3. UNCHANGED <<st, wire>>
    BY Zenon, <1>0 DEF hostVars
  <2>4. \A i \in 1..Len(toHost') : toHost'[i].socket = 0 =>
          /\ toHost'[i].client \in Clients /\ st'[toHost'[i].client] = "wait"
          /\ \A j \in 1..Len(wire') : wire'[j] # toHost'[i].client
    BY <2>2, <2>3 DEF QueueInv
  <2>5. \A i, j \in 1..Len(toHost') :
          toHost'[i].socket = 0 /\ toHost'[j] = toHost'[i] => i = j
    BY <2>2 DEF QueueInv
  <2>6. /\ \A i \in 1..Len(wire') : st'[wire'[i]] = "wait"
        /\ \A i, j \in 1..Len(wire') : wire'[i] = wire'[j] => i = j
    BY <2>3 DEF QueueInv
  <2> QED
    BY Zenon, <2>4, <2>5, <2>6 DEF QueueInv
<1>7. SocketInv'
  <2>1. /\ \A i \in 1..Len(toHost) : toHost[i].socket <= Len(inbound) /\ toHost[i].socket \in Nat
        /\ \A i \in 1..Len(channel) : channel[i] \in 1..Len(inbound)
        /\ acceptor # "recv" => cur \in 1..Len(inbound)
    <3>1. \A i \in 1..Len(toHost) : toHost[i] \in [client : Clients \cup {"none"}, socket : Nat]
      BY Zenon, ElementType DEF TypeInv
    <3>2. \A i \in 1..Len(toHost) : toHost[i].socket \in Nat
      BY <3>1
    <3> QED
      BY Zenon, <3>2 DEF SocketInv
  <2>2. \A i \in 1..Len(toHost') : toHost'[i].socket <= Len(inbound')
    <3>1. ASSUME NEW i \in 1..Len(toHost) PROVE toHost'[i].socket <= Len(inbound')
      <4>1. toHost'[i] = toHost[i] /\ toHost[i].socket <= Len(inbound) /\ toHost[i].socket \in Nat
        BY Zenon, <1>4, <2>1
      <4> QED
        BY <1>1, <4>1
    <3>2. toHost'[Len(toHost) + 1].socket <= Len(inbound')
      BY <1>1, <1>3, <1>4
    <3> QED
      BY Zenon, <1>4, <3>1, <3>2
  <2>3. UNCHANGED <<channel, acceptor, cur>> /\ \A x \in 1..Len(inbound) : x \in 1..Len(inbound')
    BY <1>0, <1>1 DEF accVars
  <2> QED
    BY <2>1, <2>2, <2>3 DEF SocketInv
<1>8. OneInv' /\ PendingInv' /\ AgreeInv'
  BY <1>0 DEF OneInv, PendingInv, AgreeInv, Agree, UnderWay, Pending, hostVars, devVars
<1>9. CalmInv'
  <2>1. e.calm => reverse_forwards[e.remote] = e.local
    <3>1. ASSUME e.calm PROVE rules[r].via = r /\ UnderWay(r) = {} /\ r \notin overlapped \cup refused
      BY <1>i, <3>1
    <3>2. ASSUME e.calm PROVE Agree(r)
      BY <3>1, <3>2 DEF AgreeInv
    <3>3. ASSUME e.calm PROVE reverse_forwards[r] = rules[r].local
      BY <3>1, <3>2, <3>3 DEF Agree
    <3> QED
      BY <1>i, <3>3
  <2>2. reverse_forwards' = reverse_forwards
    BY <1>0 DEF hostVars
  <2>3. ASSUME NEW i \in 1..Len(inbound'), inbound'[i].calm
        PROVE  reverse_forwards'[inbound'[i].remote] = inbound'[i].local
    <3>1. CASE i \in 1..Len(inbound)
      BY <1>1, <2>2, <2>3, <3>1 DEF CalmInv
    <3>2. CASE i = Len(inbound) + 1
      BY <1>1, <2>1, <2>2, <2>3, <3>2
    <3> QED
      BY Zenon, <1>2, <3>1, <3>2
  <2> QED
    BY Zenon, <2>3 DEF CalmInv
<1>10. DenyInv'
  <2>1. e.status # "denied" /\ UNCHANGED <<acceptor, cur>>
    BY <1>0, <1>i DEF accVars
  <2>2. \A i \in 1..Len(inbound) : Deniable(i)' <=> Deniable(i)
    BY <1>1 DEF Deniable
  <2>3. acceptor = "close" => cur \in 1..Len(inbound)
    BY DEF SocketInv
  <2>4. acceptor' = "close" => inbound'[cur'].status = "failed" \/ Deniable(cur)'
    BY <1>1, <2>1, <2>2, <2>3 DEF DenyInv
  <2>5. \A i \in 1..Len(inbound') : inbound'[i].status = "denied" => Deniable(i)'
    BY <1>1, <1>2, <2>1, <2>2 DEF DenyInv
  <2> QED
    BY Zenon, <2>1, <2>4, <2>5 DEF DenyInv
<1> QED
  BY Zenon, <1>5, <1>6, <1>7, <1>8, <1>9, <1>10

\* The reader takes the first message of the device.
LEMMA ReaderKeeps == ASSUME ReverseInv, ReaderStep PROVE ReverseInv'
<1> USE DEF ReverseInv
<1>0. /\ toHost # <<>> /\ toHost' = Tail(toHost)
      /\ UNCHANGED <<reverse_forwards, overlapped, wire, rules, refused, acceptor, cur, inbound>>
  BY Zenon DEF ReaderStep, devVars
<1>m. PICK m : m = Head(toHost)
  OBVIOUS
<1>1. /\ toHost' \in Seq([client : Clients \cup {"none"}, socket : Nat])
      /\ Len(toHost') = Len(toHost) - 1 /\ Len(toHost) \in Nat \ {0}
      /\ \A i \in 1..(Len(toHost) - 1) : toHost'[i] = toHost[i + 1]
      /\ m = toHost[1] /\ m \in [client : Clients \cup {"none"}, socket : Nat]
  <2> DEFINE S == [client : Clients \cup {"none"}, socket : Nat]
  <2> HIDE DEF S
  <2>1. toHost \in Seq(S)
    BY Zenon DEF TypeInv, S
  <2>2. /\ toHost' \in Seq(S) /\ Len(toHost') = Len(toHost) - 1 /\ Len(toHost) \in Nat \ {0}
        /\ \A i \in 1..(Len(toHost) - 1) : toHost'[i] = toHost[i + 1]
        /\ m = toHost[1] /\ m \in S
    BY <1>0, <1>m, <2>1, TailElements
  <2> QED
    BY Zenon, <2>2 DEF S
<1>2. \A i \in 1..Len(toHost') :
        /\ i + 1 \in 1..Len(toHost) /\ i + 1 # 1 /\ toHost'[i] = toHost[i + 1]
  BY <1>1
<1>3. /\ \A i \in 1..Len(toHost') : toHost'[i].socket <= Len(inbound')
      /\ m.socket <= Len(inbound)
  BY <1>0, <1>1, <1>2 DEF SocketInv
<1>4. \A i, j \in 1..Len(toHost') :
        toHost'[i].socket = 0 /\ toHost'[j] = toHost'[i] => i = j
  <2>1. ASSUME NEW i \in 1..Len(toHost'), NEW j \in 1..Len(toHost'), toHost'[i].socket = 0,
               toHost'[j] = toHost'[i]
        PROVE  i = j
    <3>1. i + 1 = j + 1
      BY <1>2, <2>1 DEF QueueInv
    <3> QED
      BY <3>1
  <2> QED
    BY Zenon, <2>1
<1>5. CalmInv' /\ DenyInv'
  BY Zenon, <1>0 DEF CalmInv, DenyInv, Deniable
<1>6. CASE /\ m.socket # 0 /\ channel' = Append(channel, m.socket) /\ UNCHANGED <<st, cmd>>
  <2>1. /\ channel' \in Seq(Nat) /\ Len(channel') = Len(channel) + 1 /\ Len(channel) \in Nat
        /\ \A i \in 1..Len(channel) : channel'[i] = channel[i]
        /\ channel'[Len(channel) + 1] = m.socket /\ m.socket \in Nat
    BY <1>1, <1>6, AppendElements DEF TypeInv
  <2>2. TypeInv'
    BY Zenon, <1>0, <1>1, <1>6, <2>1 DEF TypeInv
  <2>3. QueueInv'
    <3>1. \A i \in 1..Len(toHost') : toHost'[i].socket = 0 =>
            /\ toHost'[i].client \in Clients /\ st'[toHost'[i].client] = "wait"
            /\ \A j \in 1..Len(wire') : wire'[j] # toHost'[i].client
      BY <1>0, <1>2, <1>6 DEF QueueInv
    <3>2. /\ \A i \in 1..Len(wire') : st'[wire'[i]] = "wait"
          /\ \A i, j \in 1..Len(wire') : wire'[i] = wire'[j] => i = j
      BY <1>0, <1>6 DEF QueueInv
    <3> QED
      BY Zenon, <1>4, <3>1, <3>2 DEF QueueInv
  <2>4. SocketInv'
    <3>1. m.socket \in 1..Len(inbound)
      BY <1>3, <1>6, <2>1 DEF TypeInv
    <3>2. \A i \in 1..Len(channel') : channel'[i] \in 1..Len(inbound)
      <4>1. \A i \in 1..Len(channel') : i \in 1..Len(channel) \/ i = Len(channel) + 1
        BY <2>1
      <4>2. \A i \in 1..Len(channel) : channel[i] \in 1..Len(inbound)
        BY Zenon DEF SocketInv
      <4> QED
        BY Zenon, <2>1, <3>1, <4>1, <4>2
    <3>3. acceptor' # "recv" => cur' \in 1..Len(inbound')
      BY <1>0 DEF SocketInv
    <3>4. \A i \in 1..Len(channel') : channel'[i] \in 1..Len(inbound')
      BY <1>0, <3>2
    <3> QED
      BY Zenon, <1>3, <3>3, <3>4 DEF SocketInv
  <2>5. OneInv' /\ PendingInv' /\ AgreeInv'
    BY <1>0, <1>6 DEF OneInv, PendingInv, AgreeInv, Agree, UnderWay, Pending
  <2> QED
    BY Zenon, <1>5, <2>2, <2>3, <2>4, <2>5
<1>7. CASE /\ m.socket = 0 /\ st' = [st EXCEPT ![m.client] = "idle"]
           /\ cmd' = [cmd EXCEPT ![m.client] = List] /\ UNCHANGED channel
  <2>c. PICK c : c = m.client
    OBVIOUS
  <2>1. c \in Clients /\ st[c] = "wait" /\ \A j \in 1..Len(wire) : wire[j] # c
    BY <1>1, <1>7, <2>c DEF QueueInv
  <2>2. /\ st' = [st EXCEPT ![c] = "idle"] /\ cmd' = [cmd EXCEPT ![c] = List]
        /\ st \in [Clients -> {"idle", "open", "wait"}] /\ cmd \in [Clients -> Commands]
    BY Zenon, <1>7, <2>c DEF TypeInv
  <2>3. /\ \A d \in Clients : d # c => st'[d] = st[d] /\ cmd'[d] = cmd[d]
        /\ st'[c] = "idle" /\ st' \in [Clients -> {"idle", "open", "wait"}]
        /\ cmd' \in [Clients -> Commands]
    BY <2>1, <2>2 DEF Commands
  <2>4. TypeInv'
    BY Zenon, <1>0, <1>1, <1>7, <2>3 DEF TypeInv
  <2>5. QueueInv'
    <3>1. ASSUME NEW i \in 1..Len(toHost'), toHost'[i].socket = 0
          PROVE  /\ toHost'[i].client \in Clients /\ st'[toHost'[i].client] = "wait"
                 /\ \A j \in 1..Len(wire') : wire'[j] # toHost'[i].client
      <4>1. i + 1 \in 1..Len(toHost) /\ i + 1 # 1 /\ toHost'[i] = toHost[i + 1]
        BY <1>2
      <4>2. 1 \in 1..Len(toHost)
        BY <1>1
      <4>3. toHost[i + 1] # toHost[1]
        BY <3>1, <4>1, <4>2 DEF QueueInv
      <4>4. toHost[i + 1] \in [client : Clients \cup {"none"}, socket : Nat]
        BY Zenon, <4>1, ElementType DEF TypeInv
      <4>5. toHost[i + 1].client # c
        <5>1. ASSUME NEW x \in [client : Clients \cup {"none"}, socket : Nat],
                     NEW y \in [client : Clients \cup {"none"}, socket : Nat],
                     x.socket = y.socket, x.client = y.client
              PROVE  x = y
          BY <5>1
        <5>2. toHost[i + 1].socket = m.socket
          BY <1>7, <3>1, <4>1
        <5> QED
          BY Zenon, <1>1, <2>c, <4>3, <4>4, <5>1, <5>2
      <4>6. /\ toHost[i + 1].client \in Clients /\ st[toHost[i + 1].client] = "wait"
            /\ \A j \in 1..Len(wire) : wire[j] # toHost[i + 1].client
        BY <3>1, <4>1 DEF QueueInv
      <4> QED
        BY <1>0, <2>3, <4>1, <4>5, <4>6
    <3>2. /\ \A i \in 1..Len(wire') : st'[wire'[i]] = "wait"
          /\ \A i, j \in 1..Len(wire') : wire'[i] = wire'[j] => i = j
      BY <1>0, <2>1, <2>3 DEF QueueInv, TypeInv
    <3> QED
      BY Zenon, <1>4, <3>1, <3>2 DEF QueueInv
  <2>6. SocketInv'
    <3>1. /\ \A i \in 1..Len(channel') : channel'[i] \in 1..Len(inbound')
          /\ acceptor' # "recv" => cur' \in 1..Len(inbound')
      BY <1>0, <1>7 DEF SocketInv
    <3> QED
      BY Zenon, <1>3, <3>1 DEF SocketInv
  <2>7. \A d \in Clients : d # c => (Pending(d)' <=> Pending(d))
    BY <1>0, <2>3 DEF Pending
  <2>8. ~Pending(c)
    BY <2>1 DEF Pending
  <2>9. \A r \in Remotes : \A d \in UnderWay(r) : d \in Clients /\ (d # c => d \in UnderWay(r)')
    BY <2>3 DEF UnderWay
  <2>10. \A r \in Remotes : \A d \in UnderWay(r)' : d \in Clients /\ d # c /\ d \in UnderWay(r)
    BY <2>3 DEF UnderWay
  <2>11. OneInv'
    BY <1>0, <2>10 DEF OneInv
  <2>12. PendingInv'
    BY <1>0, <2>3, <2>7, <2>10 DEF PendingInv
  <2>13. AgreeInv'
    BY <1>0, <2>7, <2>8, <2>9 DEF AgreeInv, Agree
  <2> QED
    BY Zenon, <1>5, <2>4, <2>5, <2>6, <2>11, <2>12, <2>13
<1> QED
  BY Zenon, <1>m, <1>6, <1>7 DEF ReaderStep

\* A step of accept_sockets_task on the socket it handles, or between two.
LEMMA StatusKeeps ==
  ASSUME ReverseInv, acceptor # "recv", NEW s \in {"okay", "failed", "denied", "unreachable"},
         inbound' = [inbound EXCEPT ![cur].status = s],
         UNCHANGED <<reverse_forwards, st, cmd, wire, rules, refused, toHost, channel, overlapped>>,
         acceptor' # "recv" => cur' = cur,
         acceptor' = "close" => s = "failed",
         s = "denied" => Deniable(cur)
  PROVE  ReverseInv'
<1> USE DEF ReverseInv
<1>1. /\ cur \in 1..Len(inbound) /\ Len(inbound) \in Nat /\ inbound \in Seq(Inbound)
      /\ \A i \in 1..Len(inbound) : inbound[i] \in Inbound
  BY ElementType DEF SocketInv, TypeInv
<1>2. /\ inbound' \in Seq(Inbound) /\ Len(inbound') = Len(inbound)
      /\ \A i \in 1..Len(inbound) :
           /\ inbound'[i].remote = inbound[i].remote /\ inbound'[i].local = inbound[i].local
           /\ inbound'[i].calm = inbound[i].calm
           /\ i # cur => inbound'[i].status = inbound[i].status
      /\ inbound'[cur].status = s
  <2>1. [inbound[cur] EXCEPT !.status = s] \in Inbound
    BY <1>1 DEF Inbound
  <2>2. inbound' \in Seq(Inbound) /\ Len(inbound') = Len(inbound)
    BY <1>1, <2>1
  <2>3. \A i \in 1..Len(inbound) :
          /\ inbound'[i].remote = inbound[i].remote /\ inbound'[i].local = inbound[i].local
          /\ inbound'[i].calm = inbound[i].calm
          /\ i # cur => inbound'[i].status = inbound[i].status
    BY <1>1 DEF Inbound
  <2>4. inbound'[cur].status = s
    BY <1>1 DEF Inbound
  <2> QED
    BY Zenon, <2>2, <2>3, <2>4
<1>3. TypeInv'
  BY Zenon, <1>2 DEF TypeInv
<1>4. QueueInv'
  BY Zenon DEF QueueInv
<1>5. SocketInv'
  BY <1>2 DEF SocketInv
<1>6. OneInv' /\ PendingInv' /\ AgreeInv'
  BY DEF OneInv, PendingInv, AgreeInv, Agree, UnderWay, Pending
<1>7. CalmInv'
  BY Zenon, <1>2 DEF CalmInv
<1>8. DenyInv'
  <2>1. \A i \in 1..Len(inbound) : Deniable(i)' <=> Deniable(i)
    BY Zenon, <1>2 DEF Deniable
  <2>2. \A i \in 1..Len(inbound') : inbound'[i].status = "denied" => Deniable(i)'
    BY <1>1, <1>2, <2>1 DEF DenyInv
  <2>3. acceptor' = "close" => inbound'[cur'].status = "failed"
    BY <1>2
  <2> QED
    BY Zenon, <2>2, <2>3 DEF DenyInv
<1> QED
  BY Zenon, <1>3, <1>4, <1>5, <1>6, <1>7, <1>8

LEMMA AcceptorKeeps == ASSUME ReverseInv, AcceptorStep PROVE ReverseInv'
<1> USE DEF ReverseInv
<1>1. CASE AcceptSocket
  <2> USE <1>1 DEF AcceptSocket, hostVars, devVars
  <2>1. /\ channel' \in Seq(Nat) /\ Len(channel') = Len(channel) - 1 /\ Len(channel) \in Nat \ {0}
        /\ \A i \in 1..(Len(channel) - 1) : channel'[i] = channel[i + 1]
        /\ cur' = channel[1]
    BY TailElements DEF TypeInv
  <2>2. TypeInv'
    BY Zenon, <2>1 DEF TypeInv
  <2>3. SocketInv'
    BY <2>1 DEF SocketInv
  <2>4. QueueInv' /\ CalmInv'
    BY Zenon DEF QueueInv, CalmInv
  <2>5. OneInv' /\ PendingInv' /\ AgreeInv'
    BY DEF OneInv, PendingInv, AgreeInv, Agree, UnderWay, Pending
  <2>6. DenyInv'
    BY DEF DenyInv, Deniable
  <2> QED
    BY Zenon, <2>2, <2>3, <2>4, <2>5, <2>6
<1>2. ASSUME acceptor # "recv", acceptor' \in {"connect", "accept", "close"},
             acceptor' = "close" => Deniable(cur),
             UNCHANGED <<hostVars, overlapped, wire, devVars, toHost, channel, cur, inbound>>
      PROVE  ReverseInv'
  <2> USE <1>2 DEF hostVars, devVars
  <2>1. TypeInv' /\ QueueInv' /\ CalmInv'
    BY Zenon DEF TypeInv, QueueInv, CalmInv
  <2>2. SocketInv'
    BY DEF SocketInv
  <2>3. OneInv' /\ PendingInv' /\ AgreeInv'
    BY DEF OneInv, PendingInv, AgreeInv, Agree, UnderWay, Pending
  <2>4. DenyInv'
    BY DEF DenyInv, Deniable
  <2> QED
    BY Zenon, <2>1, <2>2, <2>3, <2>4
<1>3. CASE CheckRule
  <2>1. acceptor = "check" /\ acceptor # "recv" /\ cur \in 1..Len(inbound)
    BY <1>3 DEF CheckRule, SocketInv
  <2>2. acceptor' = "close" => Deniable(cur)
    <3>1. inbound[cur] \in Inbound
      BY Zenon, <2>1, ElementType DEF TypeInv
    <3>2. inbound[cur].calm => Allowed(inbound[cur].local)
      <4>1. inbound[cur].remote \in Keys
        BY <3>1 DEF Inbound, Keys
      <4> QED
        BY Zenon, <2>1, <4>1 DEF Allowed, CalmInv
    <3> QED
      BY <1>3, <3>2 DEF CheckRule, Deniable
  <2>3. acceptor' \in {"connect", "accept", "close"}
    BY <1>3 DEF CheckRule
  <2> QED
    BY Zenon, <1>2, <1>3, <2>1, <2>2, <2>3 DEF CheckRule
<1>4. CASE Connect
  <2>1. acceptor # "recv"
    BY <1>4 DEF Connect
  <2>2. CASE acceptor' = "accept" /\ UNCHANGED inbound
    <3>1. acceptor' \in {"connect", "accept", "close"} /\ acceptor' # "close"
      BY <2>2
    <3> QED
      BY Zenon, <1>2, <1>4, <2>1, <2>2, <3>1 DEF Connect
  <2>3. CASE acceptor' = "close" /\ inbound' = [inbound EXCEPT ![cur].status = "failed"]
    <3>1. "failed" \in {"okay", "failed", "denied", "unreachable"} /\ "failed" # "denied"
      OBVIOUS
    <3> QED
      BY Zenon, <1>4, <2>1, <2>3, <3>1, StatusKeeps DEF Connect, hostVars, devVars
  <2> QED
    BY Zenon, <1>4, <2>2, <2>3 DEF Connect
<1>5. CASE Accepted
  <2>1. acceptor # "recv" /\ acceptor' = "recv" /\ acceptor' # "close"
    BY <1>5 DEF Accepted
  <2>2. "okay" \in {"okay", "failed", "denied", "unreachable"} /\ "okay" # "denied"
    OBVIOUS
  <2> QED
    BY Zenon, <1>5, <2>1, <2>2, StatusKeeps DEF Accepted, hostVars, devVars
<1>6. CASE CloseSocket
  <2>1. acceptor = "close" /\ acceptor # "recv" /\ acceptor' = "recv" /\ acceptor' # "close"
    BY <1>6 DEF CloseSocket, AfterClose
  <2>s. PICK s : s = IF inbound[cur].status = "failed" THEN "unreachable" ELSE "denied"
    OBVIOUS
  <2>2. inbound' = [inbound EXCEPT ![cur].status = s]
    BY Zenon, <1>6, <2>s DEF CloseSocket, Closed
  <2>3. s \in {"okay", "failed", "denied", "unreachable"} /\ (s = "denied" => Deniable(cur))
    BY <2>s, <2>1 DEF DenyInv
  <2> QED
    BY Zenon, <1>6, <2>1, <2>2, <2>3, StatusKeeps DEF CloseSocket, hostVars, devVars
<1> QED
  BY Zenon, <1>1, <1>3, <1>4, <1>5, <1>6 DEF AcceptorStep

-----------------------------------------------------------------------------

\* The invariant holds in every reachable state.
LEMMA ReverseInductive == Spec => []ReverseInv
<1>1. ASSUME Init PROVE ReverseInv
  <2> USE <1>1 DEF Init
  <2>1. TypeInv
    BY DEF TypeInv, Rule, NoRule, Addresses, Commands
  <2>2. QueueInv /\ SocketInv /\ CalmInv /\ DenyInv
    BY DEF QueueInv, SocketInv, CalmInv, DenyInv
  <2>3. \A r \in Remotes : UnderWay(r) = {} /\ Agree(r)
    BY ReverseAssumption DEF UnderWay, Agree, NoRule, Keys
  <2>4. OneInv /\ PendingInv /\ AgreeInv
    BY <2>3 DEF OneInv, PendingInv, AgreeInv
  <2> QED
    BY Zenon, <2>1, <2>2, <2>4 DEF ReverseInv
<1>2. ASSUME ReverseInv, [Next]_vars PROVE ReverseInv'
  <2>1. ASSUME NEW c \in Clients, NEW m \in Commands, HandleReverse(c, m) PROVE ReverseInv'
    <3>1. CASE UNCHANGED <<reverse_forwards, st, cmd, overlapped, inbound>>
      BY Zenon, <1>2, <2>1, <3>1, QuietKeeps DEF HandleReverse, Parts, devVars, accVars
    <3>2. CASE ~UNCHANGED <<reverse_forwards, st, cmd, overlapped, inbound>>
      BY Zenon, <1>2, <2>1, <3>2, CommandKeeps DEF HandleReverse, devVars, accVars
    <3> QED
      BY Zenon, <3>1, <3>2
  <2>2. CASE UNCHANGED vars
    BY Zenon, <1>2, <2>2, QuietKeeps DEF vars, hostVars, devVars, accVars, Parts
  <2> QED
    BY Zenon, <1>2, <2>1, <2>2, OpenKeeps, DevCommandKeeps, DevConnectKeeps, ReaderKeeps,
       AcceptorKeeps DEF Next
<1> QED
  BY <1>1, <1>2, PTL DEF Spec

\* The host's rule for an address is the device's once no command about it is
\* under way, although handle_reverse changes the host's rules before the device
\* hears of the command, and whatever other commands are under way.
THEOREM ReverseRulesAgree == Spec => []RulesAgree
<1>1. ASSUME ReverseInv PROVE RulesAgree
  BY <1>1 DEF ReverseInv, AgreeInv, Agree, RulesAgree
<1> QED
  BY <1>1, ReverseInductive, PTL

\* handle_socket does not deny a connection through a rule that both ends
\* agreed on, however late it looks the rule up, unless a command about that
\* rule followed.
THEOREM AgreedRuleHonoured == Spec => []RuleHonoured
<1>1. ASSUME ReverseInv PROVE RuleHonoured
  <2>1. DOMAIN inbound = 1..Len(inbound)
    BY <1>1 DEF ReverseInv, TypeInv
  <2> QED
    BY Zenon, <1>1, <2>1 DEF ReverseInv, DenyInv, Deniable, RuleHonoured
<1> QED
  BY <1>1, ReverseInductive, PTL

=============================================================================
