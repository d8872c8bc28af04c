-------------------------- MODULE TransportProofs --------------------------
(***************************************************************************)
(* A failed transport leaves no task asleep, proved for any number of      *)
(* tasks and any capacity of the channel.                                  *)
(***************************************************************************)
EXTENDS Transport, TLAPS

Places == {"new", "insert", "idle", "check", "lock", "flush", "relock", "drop",
           "gone", "parked", "select", "read", "wait", "get", "handle", "remove", "send",
           "write", "asleep", "oe_set", "oe_take", "oe_notify", "oe_walk", "done"}

\* Where the stages of on_error lead.
LEMMA AfterValues ==
  ASSUME NEW a
  PROVE  /\ After(a, "oe_set") = "oe_take" /\ After(a, "oe_take") = "oe_notify"
         /\ After(a, "oe_notify") = "oe_walk" /\ After(a, "oe_walk") = Return(a)
<1> DEFINE At(s) == CHOOSE i \in DOMAIN Stages : Stages[i] = s
<1>1. /\ DOMAIN Stages = 1..4 /\ Len(Stages) = 4 /\ Stages[1] = "oe_set"
      /\ Stages[2] = "oe_take" /\ Stages[3] = "oe_notify" /\ Stages[4] = "oe_walk"
  BY DEF Stages
<1>2. ASSUME NEW s, \E i \in DOMAIN Stages : Stages[i] = s
      PROVE  At(s) \in DOMAIN Stages /\ Stages[At(s)] = s
  BY <1>2
<1>3. \A s : After(a, s) = IF At(s) = Len(Stages) THEN Return(a) ELSE Stages[At(s) + 1]
  BY DEF After
<1> HIDE DEF At
<1>4. At("oe_set") = 1 /\ At("oe_take") = 2 /\ At("oe_notify") = 3 /\ At("oe_walk") = 4
  <2>1. /\ At("oe_set") \in 1..4 /\ Stages[At("oe_set")] = "oe_set"
        /\ At("oe_take") \in 1..4 /\ Stages[At("oe_take")] = "oe_take"
        /\ At("oe_notify") \in 1..4 /\ Stages[At("oe_notify")] = "oe_notify"
        /\ At("oe_walk") \in 1..4 /\ Stages[At("oe_walk")] = "oe_walk"
    BY <1>1, <1>2
  <2>2. \A k \in 1..4 : k = 1 \/ k = 2 \/ k = 3 \/ k = 4
    OBVIOUS
  <2> QED
    BY <1>1, <2>1, <2>2
<1> QED
  BY <1>1, <1>3, <1>4

\* A move keeps pc a function to places.
LEMMA GotoPlaces ==
  ASSUME pc \in [Actors -> Places], NEW a \in Actors, NEW s \in Places, Goto(a, s)
  PROVE  pc' \in [Actors -> Places] /\ pc'[a] = s /\ \A b \in Actors \ {a} : pc'[b] = pc[b]
BY DEF Goto

LEMMA ActorFacts ==
  /\ "reader" \in Actors /\ "closer" \in Actors /\ \A t \in Tasks : t \in Actors
  /\ \A a \in Actors : Return(a) \in {"relock", "done"}
BY DEF Actors, Return

\* The steps that create, accept for and remove the connection.
ConnectionStep ==
  CreateStep \/ Upgrade \/ Accept \/ Handled \/ RemoveClosed \/ Displaced

\* They change the channel and the references only.
LEMMA ConnectionChanges ==
  ASSUME ConnectionStep
  PROVE  UNCHANGED <<error, connection, sockets, stateLock, connLock, shared, pc, msg, notified,
                     sinks, woken>>
BY Zenon DEF ConnectionStep, CreateStep, InsertSerial, InsertId, Upgrade, Accept, Handled,
   RemoveClosed, Displaced, lockVars, wakeVars

\* Every step moves one actor at most, between places.
LEMMA PlaceStep ==
  ASSUME pc \in [Actors -> Places], Next
  PROVE  pc' \in [Actors -> Places]
<1>0. \A s \in {"relock", "done", "oe_set", "oe_take", "oe_notify", "oe_walk", "new", "insert",
                "idle", "check", "lock", "flush", "drop", "gone", "parked", "select", "read",
                "wait", "get", "handle", "remove", "send", "write", "asleep"} : s \in Places
  BY DEF Places
<1>m. ASSUME NEW a \in Actors, NEW s \in Places, Goto(a, s) PROVE pc' \in [Actors -> Places]
  BY <1>m, GotoPlaces
<1>1. ASSUME NEW a \in Actors, OnError(a) PROVE pc' \in [Actors -> Places]
  <2>1. Return(a) \in Places
    BY Zenon, <1>0, ActorFacts
  <2>2. \E s \in Places : Goto(a, s)
    BY Zenon, <1>0, <1>1, <2>1, AfterValues DEF OnError, SetError, TakeConnection, NotifyReader, NotifySockets
  <2> QED
    BY Zenon, <1>m, <2>2
<1>2. ASSUME NEW t \in Tasks, TaskStep(t) \/ BeginDrop(t) PROVE pc' \in [Actors -> Places]
  <2>1. \E s \in Places : Goto(t, s)
    BY Zenon, <1>0, <1>2 DEF TaskStep, OpenSocket, Insert, WriteMessage, PollBegin, PollCheck, PollLock, PollAnswer,
       PollFlush, PollRelock, DropSocket, BeginDrop
  <2> QED
    BY Zenon, <1>m, <2>1, ActorFacts
<1>3. ASSUME ReaderStep \/ ReaderWoken PROVE pc' \in [Actors -> Places]
  <2>1. \E s \in Places : Goto("reader", s)
    BY Zenon, <1>0, <1>3 DEF ReaderStep, ReaderWoken, ReaderCheck, ReaderSelect, ReaderRead,
       ReaderNotified, ReaderGet, ReaderHandle, ReaderRemove, ReaderSend, WriteMessage
  <2> QED
    BY Zenon, <1>m, <2>1, ActorFacts
<1>4. ASSUME Close PROVE pc' \in [Actors -> Places]
  BY Zenon, <1>0, <1>m, <1>4, ActorFacts DEF Close
<1>5. ASSUME ConnectionStep PROVE pc' \in [Actors -> Places]
  BY Zenon, <1>5, ConnectionChanges
<1>6. ASSUME NEW a \in Actors, WriterWoken(a) PROVE pc' \in [Actors -> Places]
  BY Zenon, <1>0, <1>m, <1>6 DEF WriterWoken
<1> QED
  BY Zenon, <1>1, <1>2, <1>3, <1>4, <1>5, <1>6 DEF Next, ConnectionStep

LockTypes ==
  /\ stateLock \in [Tasks -> Tasks \cup {"none"}] /\ connLock \in Actors \cup {"none"}
  /\ shared \subseteq {"reader"} /\ msg \in Tasks \cup {"none"}
  /\ sockets \subseteq Tasks /\ sinks \subseteq Tasks /\ woken \subseteq Tasks

FlagTypes ==
  /\ error \in BOOLEAN /\ connection \in BOOLEAN /\ notified \in BOOLEAN
  /\ strong \subseteq Tasks \cup {"creator", "by_serial", "by_id", "acceptor"}
  /\ acceptor \in {"serial", "id", "upgrade", "recv", "busy", "gone"}

\* Locks, the map and the wakers keep their types.
LEMMA LockStep == ASSUME LockTypes, Next PROVE LockTypes'
<1> USE DEF LockTypes, lockVars, wakeVars, chanVars
<1>1. ASSUME NEW a \in Actors, OnError(a) PROVE LockTypes'
  BY <1>1 DEF OnError, SetError, TakeConnection, NotifyReader, NotifySockets, Wake
<1>2. ASSUME NEW t \in Tasks, OpenSocket(t) \/ Insert(t) \/ PollBegin(t) \/ PollCheck(t) PROVE LockTypes'
  BY <1>2 DEF OpenSocket, Insert, PollBegin, Registered, PollCheck
<1>3. ASSUME NEW t \in Tasks, PollLock(t) \/ PollRelock(t) PROVE LockTypes'
  BY <1>3 DEF PollLock, PollRelock
<1>4. ASSUME NEW t \in Tasks, PollFlush(t) PROVE LockTypes'
  BY <1>4 DEF PollFlush, Unlocked
<1>5. ASSUME NEW t \in Tasks, DropSocket(t) \/ BeginDrop(t) PROVE LockTypes'
  BY <1>5 DEF DropSocket, BeginDrop
<1>6. ASSUME ReaderCheck \/ ReaderSelect \/ ReaderNotified \/ ReaderWoken \/ ReaderSend \/ WriteMessage("reader")
      PROVE  LockTypes'
  BY <1>6 DEF ReaderCheck, ReaderSelect, ReaderNotified, ReaderWoken, ReaderSend, WriteMessage,
     Unlocked
<1>7. ASSUME ReaderRead \/ ReaderGet \/ ReaderRemove PROVE LockTypes'
  BY <1>7 DEF ReaderRead, ReaderGet, ReaderRemove
<1>8. ASSUME ReaderHandle PROVE LockTypes'
  BY <1>8 DEF ReaderHandle, Wake
<1>9. ASSUME Close PROVE LockTypes'
  BY <1>9 DEF Close
<1>10. ASSUME ConnectionStep PROVE LockTypes'
  BY <1>10, ConnectionChanges
<1>11. ASSUME NEW a \in Actors, WriterWoken(a) PROVE LockTypes'
  BY <1>11 DEF WriterWoken
<1>12. ASSUME NEW t \in Tasks, PollAnswer(t) \/ WriteMessage(t) PROVE LockTypes'
  BY <1>12 DEF PollAnswer, WriteMessage, Unlocked
<1> QED
  BY Zenon, <1>1, <1>2, <1>3, <1>4, <1>5, <1>6, <1>7, <1>8, <1>9, <1>10, <1>11, <1>12
  DEF Next, TaskStep, ReaderStep, ConnectionStep

\* The flags and the acceptor keep their types.
LEMMA FlagStep == ASSUME FlagTypes, Next PROVE FlagTypes'
<1> USE DEF FlagTypes, lockVars, wakeVars, chanVars
<1>1. ASSUME NEW a \in Actors, OnError(a) PROVE FlagTypes'
  BY Zenon, <1>1 DEF OnError, SetError, TakeConnection, NotifyReader, NotifySockets
<1>2. ASSUME NEW t \in Tasks, TaskStep(t) \/ BeginDrop(t) PROVE FlagTypes'
  BY Zenon, <1>2 DEF TaskStep, OpenSocket, Insert, WriteMessage, PollBegin, PollCheck, PollLock, PollAnswer,
     PollFlush, PollRelock, DropSocket, BeginDrop
<1>3. ASSUME ReaderStep \/ ReaderWoken PROVE FlagTypes'
  BY Zenon, <1>3 DEF ReaderStep, ReaderWoken, ReaderCheck, ReaderSelect, ReaderRead,
     ReaderNotified, ReaderGet, ReaderHandle, ReaderRemove, ReaderSend, WriteMessage
<1>4. ASSUME Close PROVE FlagTypes'
  BY Zenon, <1>4 DEF Close
<1>5. ASSUME NEW a \in Actors, WriterWoken(a) PROVE FlagTypes'
  BY Zenon, <1>5 DEF WriterWoken
<1>6. ASSUME ConnectionStep PROVE FlagTypes'
  BY <1>6 DEF ConnectionStep, CreateStep, InsertSerial, InsertId, Upgrade, Accept, LetGo, Handled,
     RemoveClosed, Displaced
<1> QED
  BY Zenon, <1>1, <1>2, <1>3, <1>4, <1>5, <1>6 DEF Next, ConnectionStep

\* The channel holds no more than its capacity.
LEMMA QueueStep == ASSUME queue \in 0..Cap, Next PROVE queue' \in 0..Cap
<1>1. queue' = queue \/ (queue < Cap /\ queue' = queue + 1) \/ (queue > 0 /\ queue' = queue - 1)
  <2> USE DEF chanVars
  <2>1. ASSUME NEW a \in Actors, OnError(a) PROVE queue' = queue
    BY Zenon, <2>1 DEF OnError, SetError, TakeConnection, NotifyReader, NotifySockets
  <2>2. ASSUME NEW t \in Tasks, TaskStep(t) \/ BeginDrop(t) PROVE queue' = queue
    BY Zenon, <2>2 DEF TaskStep, OpenSocket, Insert, WriteMessage, PollBegin, PollCheck, PollLock, PollAnswer,
       PollFlush, PollRelock, DropSocket, BeginDrop
  <2>3. ASSUME ReaderStep \/ ReaderWoken \/ Close
        PROVE  queue' = queue \/ (queue < Cap /\ queue' = queue + 1)
    BY Zenon, <2>3 DEF ReaderStep, ReaderWoken, ReaderCheck, ReaderSelect, ReaderRead, Room, Close,
       ReaderNotified, ReaderGet, ReaderHandle, ReaderRemove, ReaderSend, WriteMessage
  <2>4. ASSUME ConnectionStep PROVE queue' = queue \/ (queue > 0 /\ queue' = queue - 1)
    BY Zenon, <2>4 DEF ConnectionStep, CreateStep, InsertSerial, InsertId, Upgrade, Accept, Handled,
       RemoveClosed, Displaced
  <2>5. ASSUME NEW a \in Actors, WriterWoken(a) PROVE queue' = queue
    BY Zenon, <2>5 DEF WriterWoken
  <2> QED
    BY Zenon, <2>1, <2>2, <2>3, <2>4, <2>5 DEF Next, ConnectionStep
<1> QED
  BY <1>1, TransportAssumption

TypeInv == pc \in [Actors -> Places] /\ LockTypes /\ FlagTypes /\ queue \in 0..Cap

\* The types hold in every reachable state.
LEMMA TypeInductive == Spec => []TypeInv
<1>1. ASSUME Init PROVE TypeInv
  <2>1. pc \in [Actors -> Places]
    BY <1>1 DEF Init, Places
  <2>2. LockTypes
    BY <1>1 DEF Init, LockTypes
  <2>3. FlagTypes
    BY <1>1 DEF Init, FlagTypes
  <2>4. queue \in 0..Cap
    BY <1>1, TransportAssumption DEF Init
  <2> QED
    BY Zenon, <2>1, <2>2, <2>3, <2>4 DEF TypeInv
<1>2. ASSUME TypeInv, [Next]_vars PROVE TypeInv'
  <2>1. CASE Next
    BY Zenon, <1>2, <2>1, PlaceStep, LockStep, FlagStep, QueueStep DEF TypeInv
  <2>2. CASE UNCHANGED vars
    BY Zenon, <1>2, <2>2 DEF TypeInv, LockTypes, FlagTypes, vars, lockVars, wakeVars, chanVars
  <2> QED
    BY Zenon, <1>2, <2>1, <2>2
<1> QED
  BY <1>1, <1>2, PTL DEF Spec

\* The variables keep their types: among them the channel, which never holds
\* more inbound sockets than its capacity.
THEOREM TypeCorrect == Spec => []TypeOK
<1>1. TypeInv => TypeOK
  BY Zenon DEF TypeInv, LockTypes, FlagTypes, Places, TypeOK
<1> QED
  BY <1>1, TypeInductive, PTL

-----------------------------------------------------------------------------
(* No sleeper.                                                             *)

Handling == {"oe_take", "oe_notify", "oe_walk"}
Checked  == {"lock", "flush", "parked"}
Polling  == Checked \cup {"check"}

\* A task in a poll has its waker in its socket or was woken; once nobody is
\* inside on_error, every task of the map whose poll had found no error (it may
\* sleep already, or go to sleep without another look) was woken.
SleepInv ==
  /\ \A t \in Tasks : pc[t] \in Polling => t \in woken \cup sinks
  /\ error /\ (\A a \in Actors : pc[a] \notin Handling)
       => \A t \in sockets : pc[t] \in Checked => t \in woken

\* A step of actor a that does nothing to the error and the wakers,
\* and does not take a poll past its check when there is an error.
Calm(a) ==
  /\ UNCHANGED <<error, sinks, woken>> /\ sockets' \subseteq sockets \cup ({a} \cap Tasks)
  /\ \A b \in Actors \ {a} : pc'[b] = pc[b]
  /\ pc[a] \notin Handling /\ pc'[a] \notin Handling
  /\ a \in Tasks /\ pc'[a] \in Polling => pc[a] \in Polling
  /\ a \in Tasks /\ pc'[a] \in Checked => (pc[a] \in Checked \/ ~error) /\ sockets' \subseteq sockets

\* Such a step keeps the invariant.
LEMMA CalmKeeps == ASSUME SleepInv, LockTypes, NEW a \in Actors, Calm(a) PROVE SleepInv'
<1>1. /\ sockets \subseteq Tasks /\ \A t \in Tasks : t \in Actors
      /\ UNCHANGED <<error, sinks, woken>> /\ sockets' \subseteq sockets \cup ({a} \cap Tasks)
      /\ \A b \in Actors \ {a} : pc'[b] = pc[b]
  BY DEF Calm, LockTypes, Actors
<1>2. \A t \in Tasks : pc'[t] \in Polling => t \in woken' \cup sinks'
  BY <1>1 DEF SleepInv, Calm
<1>3. ASSUME error', \A b \in Actors : pc'[b] \notin Handling, NEW t \in sockets', pc'[t] \in Checked
      PROVE  t \in woken'
  <2>1. \A b \in Actors : pc[b] \notin Handling
    BY <1>1, <1>3 DEF Calm
  <2>2. \A u \in sockets : pc[u] \in Checked => u \in woken
    BY Zenon, <1>1, <1>3, <2>1 DEF SleepInv
  <2>3. t \in sockets /\ pc[t] \in Checked
    <3>1. CASE t # a
      BY <1>1, <1>3, <3>1
    <3>2. CASE t = a /\ t \in Tasks
      BY <1>1, <1>3, <3>2 DEF Calm
    <3> QED
      BY <1>1, <1>3, <3>1, <3>2
  <2> QED
    BY <1>1, <2>2, <2>3
<1> QED
  BY Zenon, <1>2, <1>3 DEF SleepInv

\* on_error: setting, taking and walking.
LEMMA ErrorKeeps == ASSUME SleepInv, TypeInv, NEW a \in Actors, OnError(a) PROVE SleepInv'
<1> USE DEF wakeVars
<1>0. pc \in [Actors -> Places] /\ sockets \subseteq Tasks /\ \A t \in Tasks : t \in Actors
  BY DEF TypeInv, LockTypes, Actors
<1>1. CASE SetError(a)
  <2>1. /\ UNCHANGED <<connection, sockets, sinks, woken>> /\ error' = TRUE
        /\ pc' = [pc EXCEPT ![a] = IF error THEN Return(a) ELSE "oe_take"] /\ pc[a] = "oe_set"
    BY Zenon, <1>1, AfterValues DEF SetError, Goto
  <2>2. CASE error
    <3>1. Calm(a)
      BY <1>0, <2>1, <2>2, ActorFacts DEF Calm, Handling, Polling, Checked, TypeInv, FlagTypes
    <3> QED
      BY Zenon, <3>1, CalmKeeps DEF TypeInv
  <2>3. CASE ~error
    BY <1>0, <2>1, <2>3 DEF SleepInv, Handling, Polling, Checked
  <2> QED
    BY Zenon, <2>2, <2>3
<1>2. CASE TakeConnection(a)
  <2>1. /\ UNCHANGED <<error, sockets, sinks, woken>> /\ connection' = FALSE
        /\ pc' = [pc EXCEPT ![a] = "oe_notify"] /\ pc[a] = "oe_take"
    BY Zenon, <1>2, AfterValues DEF TakeConnection, Goto
  <2> QED
    BY <1>0, <2>1 DEF SleepInv, Handling, Polling, Checked
<1>3. CASE NotifyReader(a)
  <2>1. /\ UNCHANGED <<error, connection, sockets, sinks, woken>>
        /\ pc' = [pc EXCEPT ![a] = "oe_walk"] /\ pc[a] = "oe_notify"
    BY Zenon, <1>3, AfterValues DEF NotifyReader, Goto
  <2> QED
    BY <1>0, <2>1 DEF SleepInv, Handling, Polling, Checked
<1>4. CASE NotifySockets(a)
  <2>1. /\ UNCHANGED <<error, connection, sockets>> /\ Wake(sockets)
        /\ pc' = [pc EXCEPT ![a] = Return(a)] /\ pc[a] = "oe_walk"
    BY Zenon, <1>4, AfterValues DEF NotifySockets, Goto
  <2>2. Return(a) \notin Handling \cup Polling
    BY ActorFacts DEF Handling, Polling, Checked
  <2>3. \A b \in Actors : pc'[b] = IF b = a THEN Return(a) ELSE pc[b]
    BY <1>0, <2>1
  <2>4. \A t \in Tasks : pc'[t] \in Polling => pc[t] \in Polling /\ pc'[t] = pc[t]
    BY <1>0, <2>2, <2>3
  <2>6. \A t \in Tasks : pc'[t] \in Polling => t \in woken' \cup sinks'
    BY <2>1, <2>4 DEF SleepInv, Wake
  <2>7. \A t \in sockets' : pc'[t] \in Checked => t \in woken'
    BY <1>0, <2>1, <2>4 DEF SleepInv, Wake, Polling
  <2> QED
    BY Zenon, <2>6, <2>7 DEF SleepInv
<1> QED
  BY Zenon, <1>1, <1>2, <1>3, <1>4 DEF OnError

\* The polls: a poll registers before it looks at the error.
LEMMA TaskKeeps ==
  ASSUME SleepInv, TypeInv, NEW t \in Tasks, TaskStep(t) \/ BeginDrop(t)
  PROVE  SleepInv'
<1> USE DEF wakeVars
<1>0. pc \in [Actors -> Places] /\ sockets \subseteq Tasks /\ t \in Actors
      /\ \A u \in Tasks : u \in Actors
  BY DEF TypeInv, LockTypes, Actors
<1>m. ASSUME NEW s, Goto(t, s) PROVE pc'[t] = s /\ \A b \in Actors \ {t} : pc'[b] = pc[b]
  BY <1>0, <1>m DEF Goto
<1>c. ASSUME Calm(t) PROVE SleepInv'
  BY Zenon, <1>0, <1>c, CalmKeeps DEF TypeInv
<1>1. CASE PollBegin(t)
  <2>1. /\ UNCHANGED <<error, connection, sockets>> /\ sinks' = sinks \cup {t}
        /\ woken' = woken \ {t} /\ pc[t] \in {"idle", "parked"} /\ pc'[t] = "check"
        /\ \A b \in Actors \ {t} : pc'[b] = pc[b]
    BY <1>1, <1>m DEF PollBegin, Registered
  <2> QED
    BY <1>0, <2>1 DEF SleepInv, Handling, Polling, Checked
<1>2. CASE PollFlush(t) \/ PollAnswer(t)
  <2>1. /\ UNCHANGED <<error, sockets, sinks, woken>> /\ pc[t] = "flush"
        /\ \A b \in Actors \ {t} : pc'[b] = pc[b]
        /\ pc'[t] \in {"idle", "oe_set", "drop", "parked"}
    BY Zenon, <1>2, <1>m DEF PollFlush, PollAnswer
  <2>2. Calm(t)
    BY <2>1 DEF Calm, Handling, Polling, Checked
  <2> QED
    BY Zenon, <1>c, <2>2
<1>3. CASE OpenSocket(t) \/ Insert(t) \/ WriteMessage(t)
  <2>1. Calm(t)
    BY <1>m, <1>3 DEF OpenSocket, Insert, WriteMessage, Calm, Handling, Polling, Checked
  <2> QED
    BY Zenon, <2>1, <1>c
<1>4. CASE PollCheck(t) \/ PollLock(t) \/ PollRelock(t)
  <2>1. Calm(t)
    BY <1>m, <1>4 DEF PollCheck, PollLock, PollRelock, Calm, Handling, Polling, Checked
  <2> QED
    BY Zenon, <2>1, <1>c
<1>5. CASE DropSocket(t) \/ BeginDrop(t)
  <2>1. Calm(t)
    BY <1>m, <1>5 DEF DropSocket, BeginDrop, Calm, Handling, Polling, Checked
  <2> QED
    BY Zenon, <2>1, <1>c
<1> QED
  BY Zenon, <1>1, <1>2, <1>3, <1>4, <1>5 DEF TaskStep

\* The reader: it wakes a task for which it has a message.
LEMMA ReaderKeeps ==
  ASSUME SleepInv, TypeInv, ReaderStep \/ ReaderWoken
  PROVE  SleepInv'
<1> USE DEF wakeVars
<1>0. /\ pc \in [Actors -> Places] /\ sockets \subseteq Tasks /\ "reader" \in Actors
      /\ "reader" \notin Tasks /\ \A u \in Tasks : u \in Actors
  BY TransportAssumption DEF TypeInv, LockTypes, Actors
<1>m. ASSUME NEW s, Goto("reader", s)
      PROVE  pc'["reader"] = s /\ \A b \in Actors \ {"reader"} : pc'[b] = pc[b]
  BY <1>0, <1>m DEF Goto
<1>c. ASSUME Calm("reader") PROVE SleepInv'
  BY Zenon, <1>0, <1>c, CalmKeeps DEF TypeInv
<1>1. CASE ReaderHandle
  <2>1. /\ UNCHANGED <<error, connection, sockets>>
        /\ Wake({msg}) \/ UNCHANGED <<sinks, woken>>
        /\ pc["reader"] = "handle" /\ pc'["reader"] \in {"check", "remove", "oe_set"}
        /\ \A b \in Actors \ {"reader"} : pc'[b] = pc[b]
    BY Zenon, <1>1, <1>m DEF ReaderHandle
  <2>2. woken \subseteq woken' /\ woken \cup sinks \subseteq woken' \cup sinks'
    BY <2>1 DEF Wake
  <2>3. \A b \in Actors : pc'[b] \in Handling \/ pc[b] \in Handling => pc'[b] = pc[b]
    BY <1>0, <2>1 DEF Handling
  <2>4. \A t \in Tasks : pc'[t] = pc[t]
    BY Zenon, <1>0, <2>1
  <2> QED
    BY <1>0, <2>1, <2>2, <2>3, <2>4 DEF SleepInv
<1>2. CASE ReaderCheck \/ ReaderSelect \/ ReaderRead \/ ReaderNotified \/ ReaderWoken
  <2>1. Calm("reader")
    BY <1>0, <1>m, <1>2 DEF ReaderCheck, ReaderSelect, ReaderRead, ReaderNotified, ReaderWoken,
       Calm, Handling, Polling, Checked
  <2> QED
    BY Zenon, <2>1, <1>c
<1>3. CASE ReaderGet \/ ReaderRemove \/ ReaderSend \/ WriteMessage("reader")
  <2>1. Calm("reader")
    BY <1>0, <1>m, <1>3 DEF ReaderGet, ReaderRemove, ReaderSend, WriteMessage, Calm, Handling,
       Polling
  <2> QED
    BY Zenon, <2>1, <1>c
<1> QED
  BY Zenon, <1>1, <1>2, <1>3 DEF ReaderStep

\* Closing begins on_error, a completed transfer lets a writer go on; the
\* channel and the manager move nobody.
LEMMA OtherKeeps ==
  ASSUME SleepInv, TypeInv, Close \/ ConnectionStep \/ \E a \in Actors : WriterWoken(a)
  PROVE  SleepInv'
<1> USE DEF wakeVars
<1>0. /\ pc \in [Actors -> Places] /\ "closer" \in Actors /\ "closer" \notin Tasks
  BY TransportAssumption DEF TypeInv, Actors
<1>1. CASE Close
  <2>1. Calm("closer")
    BY <1>0, <1>1 DEF Close, Goto, Calm, Handling
  <2> QED
    BY Zenon, <1>0, <2>1, CalmKeeps DEF TypeInv
<1>2. CASE ConnectionStep
  <2>1. UNCHANGED <<error, sockets, pc, sinks, woken>>
    BY Zenon, <1>2, ConnectionChanges
  <2> QED
    BY <2>1 DEF SleepInv
<1>3. ASSUME NEW a \in Actors, WriterWoken(a) PROVE SleepInv'
  <2>1. Calm(a)
    BY <1>0, <1>3 DEF WriterWoken, Goto, Calm, Handling, Polling, Checked
  <2> QED
    BY Zenon, <2>1, CalmKeeps DEF TypeInv
<1> QED
  BY Zenon, <1>1, <1>2, <1>3

\* When on_error has been through, no task sleeps in a poll of a socket in the
\* map, for any number of tasks that register, check and lock meanwhile.
THEOREM NobodySleeps == Spec => []NoSleeper
<1>1. ASSUME Init PROVE SleepInv
  <2>1. \A t \in Tasks : pc[t] \notin Polling
    BY <1>1, TransportAssumption DEF Init, Actors, Polling, Checked
  <2>2. error = FALSE
    BY <1>1 DEF Init
  <2> QED
    BY Zenon, <2>1, <2>2 DEF SleepInv
<1>2. ASSUME SleepInv, TypeInv, [Next]_vars PROVE SleepInv'
  <2>1. CASE Next
    BY Zenon, <1>2, <2>1, ErrorKeeps, TaskKeeps, ReaderKeeps, OtherKeeps
    DEF Next, ConnectionStep
  <2>2. CASE UNCHANGED vars
    BY <1>2, <2>2 DEF SleepInv, vars, wakeVars
  <2> QED
    BY Zenon, <1>2, <2>1, <2>2
<1>3. SleepInv => NoSleeper
  BY DEF SleepInv, NoSleeper, Handling, Checked
<1> QED
  BY <1>1, <1>2, <1>3, TypeInductive, PTL DEF Spec

=============================================================================
