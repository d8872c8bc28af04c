--------------------------- MODULE ConnectionMgr ---------------------------
(***************************************************************************)
(* The connection manager (src/connection/manager.rs, usb.rs, types.rs):   *)
(* its loop, the task that authenticates each new connection               *)
(* (AuthTransport of packages/transport), the maps by serial and by id,    *)
(* the broadcast of device updates, and two clients of it: "track-devices" *)
(* and "wait-for-any-device" (smart_socket/services.rs, devices.rs).       *)
(*                                                                         *)
(* A device stands for its serial.  Its USB interface can be claimed by    *)
(* one connection at a time (external: the operating system).              *)
(***************************************************************************)
EXTENDS Naturals, FiniteSets

CONSTANTS
  Devices,
  Recovery,  \* devices whose banner does not say "device"
  MaxConns,  \* bound: connections
  MaxPlugs,  \* bound: times a device is plugged in or out
  MaxFails,  \* bound: failures of a plugged device, and reconnects
  Cap,       \* capacity of the broadcast channel (128)
  Clients    \* which clients run: a subset of {"track", "wait"}

ASSUME ManagerAssumption ==
  /\ Recovery \subseteq Devices /\ {"any", "none"} \cap Devices = {}
  /\ MaxConns \in Nat /\ MaxPlugs \in Nat /\ MaxFails \in Nat /\ Cap \in Nat \ {0}
  /\ Clients \subseteq {"track", "wait"}

VARIABLES
  plugged,   \* devices that are plugged in (external)
  plugs, fails, \* how often the bounded events have happened
  dev, st,   \* the device and the stage of each connection
  closed,    \* connections whose transport has an error
  claimed,   \* the connection that holds each device's interface, or 0
  by_serial, \* the connection of each device in the map, or 0
  by_id,     \* the connections in the map by id
  overrun,   \* history: the connections whose entry in by_serial was overwritten
             \* by the insert of one that had already failed
  mgr,       \* the loop: sleep, check, open, remove
  todo,      \* what is left of the list of devices
  cur,       \* the device being opened, or "none"
  removed,   \* what is left of the connections taken out of by_serial
  track,     \* track-devices: start, listed, recv, over
  shown,     \* the list it has sent last
  missed,    \* an update was sent between its listing and its subscription
  wait,      \* wait-for-any-device: start, check, recv, done, over
  selector,  \* the device asked for, "any", or "none" when nobody waits
  picked,    \* the connection cached in SmartSocket.device, or 0
  unread     \* updates that each client has not received

deviceVars == <<plugged, plugs, fails>>
connVars   == <<dev, st, closed, claimed>>
mapVars    == <<by_serial, by_id, overrun>>
mgrVars    == <<mgr, todo, cur, removed>>
trackVars  == <<track, shown>>
waitVars   == <<wait, selector, picked>>
updateVars == <<missed, unread>>
vars == <<deviceVars, connVars, mapVars, mgrVars, trackVars, waitVars, updateVars>>

Ids == 1..MaxConns

Init ==
  /\ plugged = {} /\ plugs = 0 /\ fails = 0
  /\ dev = [c \in Ids |-> "none"] /\ st = [c \in Ids |-> "none"]
  /\ closed = {} /\ claimed = [d \in Devices |-> 0]
  /\ by_serial = [d \in Devices |-> 0] /\ by_id = {} /\ overrun = {} /\ mgr = "sleep" /\ todo = {}
  /\ cur = "none" /\ removed = {}
  /\ track \in (IF "track" \in Clients THEN {"start", "over"} ELSE {"over"}) /\ shown = {}
  /\ wait \in (IF "wait" \in Clients THEN {"start", "over"} ELSE {"over"})
  /\ selector \in (IF wait = "start" THEN Devices \cup {"any"} ELSE {"none"})
  /\ picked = 0 /\ missed = FALSE /\ unread = [a \in Clients |-> 0]

\* ConnectionMgr::iter and get: the connections that are not closed.
Listed == {d \in Devices : by_serial[d] # 0 /\ by_serial[d] \notin closed}

\* A client that has subscribed.
Subscribed == {a \in Clients : IF a = "track" THEN track = "recv"
                                              ELSE wait \in {"check", "recv"}}

\* device_updates.send.
SendUpdate ==
  /\ unread' = [a \in Clients |-> IF a \in Subscribed THEN unread[a] + 1 ELSE unread[a]]
  /\ missed' = (missed \/ track = "listed")

SetStage(c, s) == st' = [st EXCEPT ![c] = s]

\* The connection is dropped, and its claim on the interface with it.
Release(c) == claimed' = [claimed EXCEPT ![dev[c]] = IF @ = c THEN 0 ELSE @]

-----------------------------------------------------------------------------
(* Devices come and go, and transports fail.                               *)

Plug(d) ==
  /\ plugs < MaxPlugs /\ plugs' = plugs + 1
  /\ plugged' = IF d \in plugged THEN plugged \ {d} ELSE plugged \cup {d}
  /\ UNCHANGED <<fails, connVars, mapVars, mgrVars, trackVars, waitVars, updateVars>>

Authenticating == {"hello", "signed", "offered"}

Live(c) == st[c] \in {"ready", "half", "added", "up"} /\ c \notin closed

\* The transport meets an error: the device is gone, or one that is there fails.
Fail(c) ==
  /\ Live(c)
  /\ \/ dev[c] \notin plugged /\ UNCHANGED fails
     \/ dev[c] \in plugged /\ fails < MaxFails /\ fails' = fails + 1
  /\ closed' = closed \cup {c} /\ Release(c)
  /\ UNCHANGED <<plugged, plugs, dev, st, mapVars, mgrVars, trackVars, waitVars, updateVars>>

\* The "reconnect" service closes the transport of a connection it has picked.
Reconnect(d) ==
  /\ d \in Listed /\ fails < MaxFails /\ fails' = fails + 1
  /\ closed' = closed \cup {by_serial[d]} /\ Release(by_serial[d])
  /\ UNCHANGED <<plugged, plugs, dev, st, mapVars, mgrVars, trackVars, waitVars, updateVars>>

-----------------------------------------------------------------------------
(* The manager's loop.                                                     *)

\* The watcher or the sleep ends the select!; refresh_usb lists the devices,
\* which may fail.
Wake ==
  /\ mgr = "sleep" /\ mgr' = "check"
  /\ \/ todo' = plugged /\ UNCHANGED fails
     \/ todo' = {} /\ fails < MaxFails /\ fails' = fails + 1
  /\ UNCHANGED <<plugged, plugs, connVars, mapVars, cur, removed, trackVars, waitVars,
                 updateVars>>

\* contains_key.
RefreshCheck(d) ==
  /\ mgr = "check" /\ d \in todo /\ todo' = todo \ {d}
  /\ \/ by_serial[d] # 0 /\ UNCHANGED <<mgr, cur>>
     \/ by_serial[d] = 0 /\ mgr' = "open" /\ cur' = d
  /\ UNCHANGED <<deviceVars, connVars, mapVars, removed, trackVars, waitVars, updateVars>>

\* UsbConnection::new, then MaybeConnection::alloc and the task of the new
\* connection, unless the device is gone, its interface is claimed, or it fails.
RefreshOpen(d) ==
  /\ mgr = "open" /\ cur = d /\ mgr' = "check" /\ cur' = "none"
  /\ \/ /\ d \in plugged /\ claimed[d] = 0 /\ UNCHANGED fails
        /\ \E c \in Ids :
             /\ st[c] = "none" /\ \A b \in Ids : b < c => st[b] # "none"
             /\ SetStage(c, "hello") /\ dev' = [dev EXCEPT ![c] = d]
             /\ claimed' = [claimed EXCEPT ![d] = c]
     \/ /\ \/ (d \notin plugged \/ claimed[d] # 0) /\ UNCHANGED fails
           \/ d \in plugged /\ claimed[d] = 0 /\ fails < MaxFails /\ fails' = fails + 1
        /\ UNCHANGED <<dev, st, claimed>>
  /\ UNCHANGED <<plugged, plugs, closed, mapVars, todo, removed, trackVars, waitVars, updateVars>>

MutStale == {d \in Devices : by_serial[d] # 0 /\ by_serial[d] \notin closed}

MutNoStale == {}

\* The entries that retain drops.
Stale == {d \in Devices : by_serial[d] # 0 /\ by_serial[d] \in closed}

\* refresh_usb is done: remove_closed_connections collects the closed ones.
RemoveClosed ==
  /\ mgr = "check" /\ todo = {} /\ mgr' = "remove"
  /\ removed' = {by_serial[d] : d \in Stale}
  /\ by_serial' = [d \in Devices |-> IF d \in Stale THEN 0 ELSE by_serial[d]]
  /\ UNCHANGED <<deviceVars, connVars, by_id, overrun, todo, cur, trackVars, waitVars, updateVars>>

MutRemoveOne(c) ==
  /\ mgr = "remove" /\ c \in removed /\ removed' = removed \ {c} /\ by_id' = by_id \ {c}
  /\ UNCHANGED <<deviceVars, connVars, by_serial, overrun, mgr, todo, cur, trackVars,
                 waitVars, updateVars>>

RemoveOne(c) ==
  /\ mgr = "remove" /\ c \in removed /\ removed' = removed \ {c}
  /\ by_id' = by_id \ {c} /\ SendUpdate
  /\ UNCHANGED <<deviceVars, connVars, by_serial, overrun, mgr, todo, cur, trackVars,
                 waitVars>>

LoopEnd ==
  /\ mgr = "remove" /\ removed = {} /\ mgr' = "sleep"
  /\ UNCHANGED <<deviceVars, connVars, mapVars, todo, cur, removed, trackVars, waitVars, updateVars>>

-----------------------------------------------------------------------------
(* create_usb_connection: authentication and new_connection.               *)

\* The device asks for authentication: auth signs its challenge once; when it
\* is asked again the second auth offers the key; a third time is a rejection.
AuthAsked(c) ==
  /\ dev[c] \in plugged
  /\ \/ st[c] = "hello" /\ SetStage(c, "signed") /\ UNCHANGED <<claimed, fails>>
     \/ st[c] = "signed" /\ SetStage(c, "offered") /\ UNCHANGED <<claimed, fails>>
     \/ /\ st[c] = "offered" /\ fails < MaxFails /\ fails' = fails + 1
        /\ SetStage(c, "dead") /\ Release(c)
  /\ UNCHANGED <<plugged, plugs, dev, closed, mapVars, mgrVars, trackVars, waitVars,
                 updateVars>>

\* CNXN: handle_cnxn makes the transport and starts its reader task.
AuthDone(c) ==
  /\ dev[c] \in plugged /\ st[c] \in Authenticating /\ SetStage(c, "ready")
  /\ UNCHANGED <<deviceVars, dev, closed, claimed, mapVars, mgrVars, trackVars, waitVars,
                 updateVars>>

\* The handshake fails: the device is gone, or sends something malformed.
AuthFailed(c) ==
  /\ st[c] \in Authenticating
  /\ \/ dev[c] \notin plugged /\ UNCHANGED fails
     \/ dev[c] \in plugged /\ fails < MaxFails /\ fails' = fails + 1
  /\ SetStage(c, "dead") /\ Release(c)
  /\ UNCHANGED <<plugged, plugs, dev, closed, mapVars, mgrVars, trackVars, waitVars,
                 updateVars>>

\* new_connection: by_serial.insert, by_id.insert, and the update.  The
\* connection may have failed by now, and another one be in the map.
InsertSerial(c) ==
  /\ st[c] = "ready" /\ SetStage(c, "half")
  /\ by_serial' = [by_serial EXCEPT ![dev[c]] = c]
  /\ overrun' = IF c \in closed THEN overrun \cup ({by_serial[dev[c]]} \ {0}) ELSE overrun
  /\ UNCHANGED <<deviceVars, dev, closed, claimed, by_id, mgrVars, trackVars, waitVars,
                 updateVars>>

InsertId(c) ==
  /\ st[c] = "half" /\ SetStage(c, "added") /\ by_id' = by_id \cup {c}
  /\ UNCHANGED <<deviceVars, dev, closed, claimed, by_serial, overrun, mgrVars, trackVars,
                 waitVars, updateVars>>

SendAdded(c) ==
  /\ st[c] = "added" /\ SetStage(c, "up") /\ SendUpdate
  /\ UNCHANGED <<deviceVars, dev, closed, claimed, mapVars, mgrVars, trackVars, waitVars>>

-----------------------------------------------------------------------------
(* track-devices.                                                          *)

\* The first list goes out, and then the client subscribes.
TrackList ==
  /\ track = "start" /\ track' = "listed" /\ shown' = Listed
  /\ UNCHANGED <<deviceVars, connVars, mapVars, mgrVars, waitVars, updateVars>>

TrackSubscribe ==
  /\ track = "listed" /\ track' = "recv"
  /\ UNCHANGED <<deviceVars, connVars, mapVars, mgrVars, shown, waitVars, updateVars>>

\* recv returns an update, or fails because the receiver lags behind.
TrackRecv ==
  /\ track = "recv" /\ unread["track"] > 0
  /\ \/ /\ unread["track"] <= Cap /\ unread' = [unread EXCEPT !["track"] = @ - 1]
        /\ shown' = Listed /\ UNCHANGED track
     \/ unread["track"] > Cap /\ track' = "over" /\ UNCHANGED <<unread, shown>>
  /\ UNCHANGED <<deviceVars, connVars, mapVars, mgrVars, waitVars, missed>>

\* The client closes its connection.
TrackClose ==
  /\ track = "recv" /\ track' = "over"
  /\ UNCHANGED <<deviceVars, connVars, mapVars, mgrVars, shown, waitVars, updateVars>>

-----------------------------------------------------------------------------
(* wait-for-any-device.                                                    *)

\* The client subscribes before it looks for a device.
WaitSubscribe ==
  /\ wait = "start" /\ wait' = "check"
  /\ UNCHANGED <<deviceVars, connVars, mapVars, mgrVars, trackVars, selector, picked,
                 updateVars>>

\* The devices the selector stands for.
Matching == IF selector = "any" THEN Listed ELSE Listed \cap {selector}

MutRestored == picked

\* self.device as pick_connection finds it: the selector is put back before
\* each pick, so that no connection is cached.
Restored == 0

\* pick_connection.
WaitCheck ==
  /\ wait = "check"
  /\ LET ds == IF Restored # 0 THEN {dev[Restored]} ELSE Matching IN
     \/ ds = {} /\ wait' = "recv" /\ picked' = 0
     \/ \E d \in ds :
          /\ ds = {d} /\ picked' = (IF Restored # 0 THEN Restored ELSE by_serial[d])
          /\ wait' = IF d \in Recovery THEN "recv" ELSE "done"
     \/ Cardinality(ds) > 1 /\ wait' = "over" /\ UNCHANGED picked
  /\ UNCHANGED <<deviceVars, connVars, mapVars, mgrVars, trackVars, selector, updateVars>>

WaitRecv ==
  /\ wait = "recv" /\ unread["wait"] > 0
  /\ \/ /\ unread["wait"] <= Cap /\ unread' = [unread EXCEPT !["wait"] = @ - 1]
        /\ wait' = "check"
     \/ unread["wait"] > Cap /\ wait' = "over" /\ UNCHANGED unread
  /\ UNCHANGED <<deviceVars, connVars, mapVars, mgrVars, trackVars, selector, picked, missed>>

\* The client closes its connection.
WaitClose ==
  /\ wait = "recv" /\ wait' = "over"
  /\ UNCHANGED <<deviceVars, connVars, mapVars, mgrVars, trackVars, selector, picked,
                 updateVars>>

-----------------------------------------------------------------------------

MgrStep ==
  \/ Wake \/ RemoveClosed \/ LoopEnd \/ \E c \in Ids : RemoveOne(c)
  \/ \E d \in Devices : RefreshCheck(d) \/ RefreshOpen(d)

ConnStep(c) == InsertSerial(c) \/ InsertId(c) \/ SendAdded(c)

Next ==
  \/ \E d \in Devices : Plug(d) \/ Reconnect(d)
  \/ MgrStep
  \/ \E c \in Ids : Fail(c) \/ AuthAsked(c) \/ AuthDone(c) \/ AuthFailed(c) \/ ConnStep(c)
  \/ TrackList \/ TrackSubscribe \/ TrackRecv \/ TrackClose
  \/ WaitSubscribe \/ WaitCheck \/ WaitRecv \/ WaitClose

Spec == Init /\ [][Next]_vars

\* Tasks that can run do; the manager's sleep ends; a device that is there
\* completes the handshake; one that is gone makes its transfers fail.  Nobody
\* has to plug, fail, ask again or reconnect.
Fairness ==
  /\ WF_vars(MgrStep)
  /\ \A c \in Ids :
       /\ WF_vars(AuthDone(c)) /\ WF_vars(ConnStep(c))
       /\ WF_vars(dev[c] \notin plugged /\ (Fail(c) \/ AuthFailed(c)))
  /\ WF_vars(TrackList \/ TrackSubscribe \/ TrackRecv)
  /\ WF_vars(WaitSubscribe \/ WaitCheck \/ WaitRecv)

FairSpec == Spec /\ Fairness

-----------------------------------------------------------------------------

\* A connection that works is the one its serial stands for, whatever the loop
\* removes around it: it drops out of the lists only when another connection of
\* its device, which failed between CNXN and its insert, is inserted after it.
LiveListed ==
  \A c \in Ids \ overrun : Live(c) /\ st[c] # "ready" => by_serial[dev[c]] = c

\* A device that stays plugged in is listed in the end, however often it was
\* pulled out, failed, asked again or was reconnected before; unless a
\* connection that works was so overrun, and keeps the interface claimed.
Reconnects ==
  \A d \in Devices :
    <>[](d \in plugged) => <>[](d \in Listed \/ \E c \in overrun : dev[c] = d /\ Live(c))

\* track-devices ends up with the list as it is, unless an update fell between
\* its first list and its subscription.
TrackerCurrent == <>[](track = "recv" => missed \/ shown = Listed)

\* wait-for-any-device returns once the device it waits for stays: it misses no
\* update, and no device in recovery mode that it saw before holds it up.
WaitReturns ==
  <>[](Matching # {} /\ Matching \cap Recovery = {}) => <>(wait \in {"done", "over"})

=============================================================================
