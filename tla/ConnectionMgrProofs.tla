------------------------ MODULE ConnectionMgrProofs ------------------------
(***************************************************************************)
(* A connection that works is lost from the manager's map in one way only: *)
(* for any set of devices and any number of connections, plugs, failures.  *)
(***************************************************************************)
EXTENDS ConnectionMgr, TLAPS

Stages == {"none", "hello", "signed", "offered", "dead", "ready", "half", "added", "up"}

\* The stages after by_serial.insert.
Inserted == {"half", "added", "up"}

TypeInv ==
  /\ dev \in [Ids -> Devices \cup {"none"}] /\ st \in [Ids -> Stages]
  /\ claimed \in [Devices -> Nat] /\ by_serial \in [Devices -> Nat]
  /\ \A c \in Ids : st[c] # "none" => dev[c] \in Devices

\* A connection that works, or may come to work, holds its device's interface,
\* so that there is one of them for each device.
ClaimInv ==
  \A c \in Ids : st[c] \in Authenticating \/ Live(c) => claimed[dev[c]] = c

\* The map by serial holds connections that were inserted.
MapInv ==
  \A d \in Devices : by_serial[d] # 0 => by_serial[d] \in Ids /\ st[by_serial[d]] \in Inserted

MgrInv == TypeInv /\ ClaimInv /\ MapInv /\ LiveListed

Parts == <<dev, st, closed, claimed, by_serial, overrun>>

\* Steps of the clients, and of the loop when it leaves the map by serial alone.
LEMMA QuietKeeps == ASSUME MgrInv, UNCHANGED Parts PROVE MgrInv'
BY DEF MgrInv, TypeInv, ClaimInv, MapInv, LiveListed, Live, Parts

\* Inserted connections that are closed no longer work, and give their
\* interface back.
LEMMA CloseKeeps ==
  ASSUME MgrInv, NEW c \in Ids, st[c] # "none", st[c] \notin Authenticating,
         closed' = closed \cup {c}, Release(c), UNCHANGED <<dev, st, by_serial, overrun>>
  PROVE  MgrInv'
<1> USE DEF MgrInv, Release, Live
<1>1. TypeInv' /\ MapInv'
  BY DEF TypeInv, MapInv, Ids
<1>2. ClaimInv'
  BY DEF TypeInv, ClaimInv, Ids
<1>3. LiveListed'
  BY DEF LiveListed
<1> QED
  BY Zenon, <1>1, <1>2, <1>3

\* A handshake that fails does the same.
LEMMA DeadKeeps ==
  ASSUME MgrInv, NEW c \in Ids, st[c] \in Authenticating, SetStage(c, "dead"), Release(c),
         UNCHANGED <<dev, closed, by_serial, overrun>>
  PROVE  MgrInv'
<1> USE DEF MgrInv, Release, Live, SetStage, Authenticating
<1>1. TypeInv'
  BY DEF TypeInv, Stages, Ids
<1>2. MapInv'
  BY DEF TypeInv, MapInv, Inserted
<1>3. ClaimInv'
  BY DEF TypeInv, ClaimInv, Ids
<1>4. LiveListed'
  BY DEF TypeInv, LiveListed
<1> QED
  BY Zenon, <1>1, <1>2, <1>3, <1>4

\* A connection moves on without a change to the maps and the claims: within
\* the handshake, or after it was inserted.
LEMMA StageKeeps ==
  ASSUME MgrInv, NEW c \in Ids, NEW s, SetStage(c, s),
         UNCHANGED <<dev, closed, claimed, by_serial, overrun>>,
         \/ st[c] \in Authenticating /\ s \in Authenticating
         \/ st[c] \in Inserted /\ s \in Inserted
  PROVE  MgrInv'
<1> USE DEF MgrInv, Live, SetStage, Authenticating, Inserted
<1>1. TypeInv' /\ MapInv'
  BY DEF TypeInv, Stages, MapInv
<1>2. ClaimInv'
  BY DEF TypeInv, ClaimInv
<1>3. LiveListed'
  BY DEF TypeInv, LiveListed
<1> QED
  BY Zenon, <1>1, <1>2, <1>3

\* CNXN comes for a connection that holds the interface.
LEMMA AuthDoneKeeps == ASSUME MgrInv, NEW c \in Ids, AuthDone(c) PROVE MgrInv'
<1> USE DEF AuthDone, SetStage, MgrInv, Live, Authenticating, mapVars
<1>1. TypeInv' /\ MapInv'
  BY DEF TypeInv, Stages, MapInv, Inserted
<1>2. ClaimInv'
  BY DEF TypeInv, ClaimInv
<1>3. LiveListed'
  BY DEF TypeInv, LiveListed
<1> QED
  BY Zenon, <1>1, <1>2, <1>3

\* by_serial.insert replaces a connection that works only when the new one does
\* not: of two that work, both would hold the interface.
LEMMA InsertKeeps == ASSUME MgrInv, NEW c \in Ids, InsertSerial(c) PROVE MgrInv'
<1> USE DEF InsertSerial, SetStage, MgrInv, Live, Authenticating
<1>1. TypeInv' /\ MapInv'
  BY DEF TypeInv, Stages, MapInv, Inserted, Ids
<1>2. ClaimInv'
  BY DEF TypeInv, ClaimInv
<1>3. ASSUME NEW b \in Ids \ overrun', Live(b)', st'[b] # "ready" PROVE by_serial'[dev[b]] = b
  <2>1. CASE b = c
    BY <2>1 DEF TypeInv
  <2>2. CASE b # c /\ dev[b] # dev[c]
    BY <1>3, <2>2 DEF TypeInv, LiveListed
  <2>3. CASE b # c /\ dev[b] = dev[c]
    <3>1. Live(b) /\ st[b] # "ready" /\ b \notin overrun
      BY <1>3, <2>3 DEF TypeInv
    <3>2. by_serial[dev[c]] = b /\ b # 0
      BY <2>3, <3>1 DEF LiveListed, Ids
    <3>3. c \notin closed
      BY <1>3, <3>2
    <3>4. claimed[dev[c]] = b /\ claimed[dev[c]] = c
      BY <2>3, <3>1, <3>3 DEF ClaimInv
    <3> QED
      BY <2>3, <3>4
  <2> QED
    BY <2>1, <2>2, <2>3
<1>4. LiveListed'
  BY <1>3 DEF LiveListed
<1> QED
  BY Zenon, <1>1, <1>2, <1>4

\* A new connection is made only when nobody holds the interface.
LEMMA OpenKeeps == ASSUME MgrInv, NEW d \in Devices, RefreshOpen(d) PROVE MgrInv'
<1>1. CASE UNCHANGED <<dev, st, claimed>>
  BY Zenon, <1>1, QuietKeeps DEF RefreshOpen, Parts, mapVars
<1>2. ASSUME NEW c \in Ids, claimed[d] = 0, st[c] = "none", SetStage(c, "hello"),
             dev' = [dev EXCEPT ![c] = d], claimed' = [claimed EXCEPT ![d] = c]
      PROVE  MgrInv'
  <2>0. UNCHANGED <<closed, by_serial, overrun>>
    BY Zenon DEF RefreshOpen, mapVars
  <2> USE <1>2, <2>0 DEF MgrInv, SetStage, Live, Authenticating
  <2>1. TypeInv' /\ MapInv'
    BY DEF TypeInv, Stages, MapInv, Inserted, Ids
  <2>2. ClaimInv'
    BY DEF TypeInv, ClaimInv, Ids
  <2>3. LiveListed'
    BY DEF TypeInv, LiveListed
  <2> QED
    BY Zenon, <2>1, <2>2, <2>3
<1> QED
  BY Zenon, <1>1, <1>2 DEF RefreshOpen

\* remove_closed_connections takes out closed connections only.
LEMMA RemoveKeeps == ASSUME MgrInv, RemoveClosed PROVE MgrInv'
<1> USE DEF RemoveClosed, Stale, MgrInv, Live, connVars
<1>1. TypeInv' /\ MapInv'
  BY DEF TypeInv, MapInv
<1>2. ClaimInv' /\ LiveListed'
  BY DEF TypeInv, ClaimInv, LiveListed, Authenticating
<1> QED
  BY Zenon, <1>1, <1>2

\* The steps of the manager's loop, and of what happens to devices.
LEMMA LoopKeeps ==
  ASSUME MgrInv, MgrStep \/ \E d \in Devices : Plug(d) \/ Reconnect(d)
  PROVE  MgrInv'
<1>1. ASSUME NEW d \in Devices, Reconnect(d) PROVE MgrInv'
  <2>1. by_serial[d] \in Ids /\ st[by_serial[d]] \in Inserted
    BY Zenon, <1>1 DEF Reconnect, Listed, MgrInv, MapInv
  <2>2. st[by_serial[d]] # "none" /\ st[by_serial[d]] \notin Authenticating
    BY <2>1 DEF Inserted, Authenticating
  <2> QED
    BY Zenon, <1>1, <2>1, <2>2, CloseKeeps DEF Reconnect, mapVars
<1>2. ASSUME NEW d \in Devices, Plug(d) \/ RefreshCheck(d) PROVE MgrInv'
  BY Zenon, <1>2, QuietKeeps DEF Plug, RefreshCheck, Parts, connVars, mapVars
<1>3. ASSUME Wake \/ LoopEnd \/ \E c \in Ids : RemoveOne(c) PROVE MgrInv'
  BY Zenon, <1>3, QuietKeeps DEF Wake, LoopEnd, RemoveOne, Parts, connVars, mapVars
<1> QED
  BY Zenon, <1>1, <1>2, <1>3, OpenKeeps, RemoveKeeps DEF MgrStep

\* The steps of a connection.
LEMMA ConnKeeps ==
  ASSUME MgrInv, NEW c \in Ids,
         Fail(c) \/ AuthAsked(c) \/ AuthDone(c) \/ AuthFailed(c) \/ ConnStep(c)
  PROVE  MgrInv'
<1>1. CASE Fail(c)
  <2>1. st[c] # "none" /\ st[c] \notin Authenticating
    BY <1>1 DEF Fail, Live, Authenticating
  <2> QED
    BY Zenon, <1>1, <2>1, CloseKeeps DEF Fail, mapVars
<1>2. CASE AuthAsked(c)
  <2>1. CASE st[c] = "hello" /\ SetStage(c, "signed") /\ claimed' = claimed
    <3>1. st[c] \in Authenticating /\ "signed" \in Authenticating
      BY <2>1 DEF Authenticating
    <3> QED
      BY Zenon, <1>2, <2>1, <3>1, StageKeeps DEF AuthAsked, mapVars
  <2>2. CASE st[c] = "signed" /\ SetStage(c, "offered") /\ claimed' = claimed
    <3>1. st[c] \in Authenticating /\ "offered" \in Authenticating
      BY <2>2 DEF Authenticating
    <3> QED
      BY Zenon, <1>2, <2>2, <3>1, StageKeeps DEF AuthAsked, mapVars
  <2>3. CASE st[c] = "offered" /\ SetStage(c, "dead") /\ Release(c)
    <3>1. st[c] \in Authenticating
      BY <2>3 DEF Authenticating
    <3> QED
      BY Zenon, <1>2, <2>3, <3>1, DeadKeeps DEF AuthAsked, mapVars
  <2> QED
    BY Zenon, <1>2, <2>1, <2>2, <2>3 DEF AuthAsked
<1>3. CASE AuthFailed(c)
  BY Zenon, <1>3, DeadKeeps DEF AuthFailed, mapVars
<1>4. CASE InsertId(c) \/ SendAdded(c)
  <2>1. st[c] \in Inserted /\ "added" \in Inserted /\ "up" \in Inserted
    BY <1>4 DEF InsertId, SendAdded, Inserted
  <2> QED
    BY Zenon, <1>4, <2>1, StageKeeps DEF InsertId, SendAdded, mapVars
<1> QED
  BY Zenon, <1>1, <1>2, <1>3, <1>4, AuthDoneKeeps, InsertKeeps DEF ConnStep

\* The invariant holds in every reachable state.
LEMMA MgrInductive == Spec => []MgrInv
<1>1. ASSUME Init PROVE MgrInv
  <2>1. TypeInv /\ ClaimInv /\ MapInv
    BY <1>1 DEF Init, TypeInv, ClaimInv, MapInv, Live, Authenticating, Stages
  <2>2. LiveListed
    BY <1>1 DEF Init, LiveListed, Live
  <2> QED
    BY Zenon, <2>1, <2>2 DEF MgrInv
<1>2. ASSUME MgrInv, [Next]_vars PROVE MgrInv'
  <2>1. CASE \/ TrackList \/ TrackSubscribe \/ TrackRecv \/ TrackClose
             \/ WaitSubscribe \/ WaitCheck \/ WaitRecv \/ WaitClose \/ UNCHANGED vars
    BY Zenon, <1>2, <2>1, QuietKeeps DEF TrackList, TrackSubscribe, TrackRecv, TrackClose,
       WaitSubscribe, WaitCheck, WaitRecv, WaitClose, vars, Parts, connVars, mapVars
  <2> QED
    BY Zenon, <1>2, <2>1, LoopKeeps, ConnKeeps DEF Next
<1> QED
  BY <1>1, <1>2, PTL DEF Spec

\* A connection that works is the one its serial stands for in by_serial: it is
\* taken out neither by remove_closed_connections nor by new_connection of a
\* connection that works, however the loop, the handshakes and the failures
\* interleave.  What does take it out is the by_serial.insert of a connection
\* of its device that had failed before.
THEOREM LiveConnectionsListed == Spec => []LiveListed
<1>1. MgrInv => LiveListed
  BY DEF MgrInv
<1> QED
  BY <1>1, MgrInductive, PTL

=============================================================================
