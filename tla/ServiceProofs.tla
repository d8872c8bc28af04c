--------------------------- MODULE ServiceProofs ---------------------------
(***************************************************************************)
(* What the client and the device of a service get, proved for every       *)
(* window, TCP buffer and length of the two streams.                       *)
(***************************************************************************)
EXTENDS Service, TLAPS

TypeInv ==
  /\ wrote \in Nat /\ devGot \in Nat /\ devWrote \in Nat /\ read \in Nat
  /\ sent \in Nat /\ taken \in Nat /\ clGot \in Nat /\ clSent \in Nat
  /\ hostClosed \in BOOLEAN /\ devClosed \in BOOLEAN /\ known \in BOOLEAN
  /\ failed \in BOOLEAN /\ fin \in BOOLEAN /\ timedOut \in BOOLEAN
  /\ pc \in {"service", "respond", "copy", "drain", "over"}
  /\ c2s \in {"copy", "shutdown", "done"} /\ answer \in {"none", "okay", "fail"}
  /\ clEnd \in {"open", "fin", "rst"} /\ clFin \in {"no", "first", "after", "gone"}

\* Bytes are taken from each stage no further than the stage before it has got.
OrderInv ==
  /\ clGot <= sent /\ sent <= read /\ read <= devWrote
  /\ devGot <= wrote /\ wrote <= taken /\ taken <= clSent
  /\ known => devClosed

\* What goes with the stage of the task.
StageInv ==
  /\ pc \in {"service", "respond"} => answer = "none" /\ c2s = "copy" /\ ~hostClosed
  /\ pc \in {"copy", "drain"} => answer = "okay"
  /\ answer # "okay" => clSent = 0
  /\ fin <=> pc \in {"drain", "over"}
  /\ timedOut => pc = "over"

\* The task has returned in time only if the client's output had ended.
ResetInv ==
  /\ pc = "over" /\ answer = "okay" /\ ~timedOut => clFin # "no"
  /\ clEnd = "rst" => timedOut

\* The socket is not closed by the host before the client's output has ended,
\* and without that the loop toward the client ends at the device's last byte.
OutputInv ==
  /\ clEnd = "fin" => fin /\ clGot = sent
  /\ clFin = "after" => clEnd # "open"
  /\ pc = "copy" /\ clFin = "no" => ~hostClosed
  /\ fin /\ answer = "okay" /\ ~failed /\ clFin \in {"no", "after"}
       => devClosed /\ sent = devWrote

\* The socket is shut down when everything was written, or for a client or a
\* device that is gone.
InputInv ==
  /\ pc = "copy" /\ c2s = "shutdown" /\ clFin = "no" => failed \/ known
  /\ pc = "copy" /\ c2s = "shutdown" /\ clFin # "gone" /\ ~failed /\ ~devClosed
       => wrote = clSent
  /\ pc \in {"copy", "drain"} /\ hostClosed /\ ~devClosed /\ clFin # "gone"
       => devGot = clSent /\ clFin # "no"

ServiceInv == TypeInv /\ OrderInv /\ StageInv /\ ResetInv /\ OutputInv /\ InputInv

\* Until the client is answered.
LEMMA AnsweringKeeps == ASSUME ServiceInv, Answering PROVE ServiceInv'
<1> USE DEF ServiceInv, Answering, sockVars, taskVars, clVars, Hangup
<1>1. CASE OpenSocket
  <2> USE <1>1 DEF OpenSocket, Sock!Open, Sock!flow
  <2>1. TypeInv' /\ OrderInv' /\ StageInv'
    BY DEF TypeInv, OrderInv, StageInv
  <2>2. ResetInv' /\ OutputInv' /\ InputInv'
    BY DEF TypeInv, StageInv, ResetInv, OutputInv, InputInv
  <2> QED
    BY Zenon, <2>1, <2>2
<1>2. CASE Refuse
  <2> USE <1>2 DEF Refuse
  <2>1. TypeInv' /\ OrderInv' /\ StageInv'
    BY DEF TypeInv, OrderInv, StageInv
  <2>2. ResetInv' /\ OutputInv' /\ InputInv'
    BY DEF TypeInv, OrderInv, StageInv, ResetInv, OutputInv, InputInv
  <2> QED
    BY Zenon, <2>1, <2>2
<1>3. CASE Respond
  <2> USE <1>3 DEF Respond
  <2>1. TypeInv' /\ OrderInv' /\ StageInv'
    BY DEF TypeInv, OrderInv, StageInv
  <2>2. ResetInv' /\ OutputInv' /\ InputInv'
    BY DEF TypeInv, OrderInv, StageInv, ResetInv, OutputInv, InputInv
  <2> QED
    BY Zenon, <2>1, <2>2
<1>4. CASE RespondFails
  <2> USE <1>4 DEF RespondFails, Sock!Drop, Sock!flow
  <2>1. TypeInv' /\ OrderInv' /\ StageInv'
    BY DEF TypeInv, OrderInv, StageInv
  <2>2. ResetInv' /\ OutputInv' /\ InputInv'
    BY DEF TypeInv, OrderInv, StageInv, ResetInv, OutputInv, InputInv
  <2> QED
    BY Zenon, <2>1, <2>2
<1> QED
  BY Zenon, <1>1, <1>2, <1>3, <1>4

\* The loop toward the client.
LEMMA SocketToConnKeeps == ASSUME ServiceInv, SocketToConn PROVE ServiceInv'
<1> USE DEF ServiceInv, sockVars, taskVars, clVars, EndToConn
<1>1. CASE SocketRead
  <2> USE <1>1 DEF SocketRead, Sock!Read, Sock!ends
  <2>1. TypeInv' /\ OrderInv' /\ StageInv'
    BY DEF TypeInv, OrderInv, StageInv
  <2>2. ResetInv' /\ OutputInv' /\ InputInv'
    BY DEF TypeInv, OrderInv, StageInv, ResetInv, OutputInv, InputInv
  <2> QED
    BY Zenon, <2>1, <2>2
<1>2. CASE ConnWrite
  <2> USE <1>2 DEF ConnWrite
  <2>1. TypeInv' /\ OrderInv' /\ StageInv'
    BY ServiceAssumption DEF TypeInv, OrderInv, StageInv
  <2>2. ResetInv' /\ OutputInv' /\ InputInv'
    BY DEF TypeInv, OrderInv, StageInv, ResetInv, OutputInv, InputInv
  <2> QED
    BY Zenon, <2>1, <2>2
<1>3. CASE ConnWriteFails
  <2> USE <1>3 DEF ConnWriteFails
  <2>1. TypeInv' /\ OrderInv' /\ StageInv'
    BY DEF TypeInv, OrderInv, StageInv
  <2>2. ResetInv' /\ OutputInv' /\ InputInv'
    BY DEF TypeInv, OrderInv, StageInv, ResetInv, OutputInv, InputInv
  <2> QED
    BY Zenon, <2>1, <2>2
<1>4. CASE SocketEof
  <2> USE <1>4 DEF SocketEof, Sock!Eof, Sock!flow
  <2>1. TypeInv' /\ OrderInv' /\ StageInv'
    BY DEF TypeInv, OrderInv, StageInv
  <2>2. ResetInv' /\ OutputInv' /\ InputInv'
    BY DEF TypeInv, OrderInv, StageInv, ResetInv, OutputInv, InputInv
  <2> QED
    BY Zenon, <2>1, <2>2
<1>5. CASE SocketError
  <2> USE <1>5 DEF SocketError, Sock!Fail, Sock!flow
  <2>1. TypeInv' /\ OrderInv' /\ StageInv'
    BY DEF TypeInv, OrderInv, StageInv
  <2>2. ResetInv' /\ OutputInv' /\ InputInv'
    BY DEF TypeInv, OrderInv, StageInv, ResetInv, OutputInv, InputInv
  <2> QED
    BY Zenon, <2>1, <2>2
<1> QED
  BY Zenon, <1>1, <1>2, <1>3, <1>4, <1>5 DEF SocketToConn

\* The loop toward the device.
LEMMA ConnToSocketKeeps == ASSUME ServiceInv, ConnToSocket PROVE ServiceInv'
<1> USE DEF ServiceInv, sockVars, taskVars, clVars
<1>1. CASE ConnRead
  <2> USE <1>1 DEF ConnRead
  <2>1. TypeInv' /\ OrderInv' /\ StageInv'
    BY DEF TypeInv, OrderInv, StageInv
  <2>2. ResetInv' /\ OutputInv' /\ InputInv'
    BY DEF TypeInv, OrderInv, StageInv, ResetInv, OutputInv, InputInv
  <2> QED
    BY Zenon, <2>1, <2>2
<1>2. CASE SocketWrite
  <2> USE <1>2 DEF SocketWrite, Sock!Write, Sock!ends
  <2>1. TypeInv' /\ OrderInv' /\ StageInv'
    BY DEF TypeInv, OrderInv, StageInv
  <2>2. ResetInv' /\ OutputInv' /\ InputInv'
    BY DEF TypeInv, OrderInv, StageInv, ResetInv, OutputInv, InputInv
  <2> QED
    BY Zenon, <2>1, <2>2
<1>3. CASE CopyEnds
  <2> USE <1>3 DEF CopyEnds, Copied
  <2>1. TypeInv' /\ OrderInv' /\ StageInv'
    BY DEF TypeInv, OrderInv, StageInv
  <2>2. ResetInv' /\ OutputInv' /\ InputInv'
    BY DEF TypeInv, OrderInv, StageInv, ResetInv, OutputInv, InputInv
  <2> QED
    BY Zenon, <2>1, <2>2
<1>4. CASE SocketShutdown
  <2>0. /\ pc = "copy" /\ c2s = "shutdown" /\ c2s' = "done" /\ pc' = "copy"
        /\ UNCHANGED <<wrote, devGot, devWrote, read, devClosed, known, failed, clVars,
                       sent, fin, taken, timedOut>>
        /\ \/ ~failed /\ ~known /\ devGot = wrote /\ hostClosed' = TRUE
           \/ (failed \/ known) /\ hostClosed' = hostClosed
    BY Zenon, <1>4 DEF SocketShutdown, AfterShutdown, Sock!Shutdown, Sock!flow
  <2>1. TypeInv' /\ OrderInv' /\ StageInv'
    BY <2>0 DEF TypeInv, OrderInv, StageInv
  <2>2. ResetInv' /\ OutputInv' /\ InputInv'
    BY <2>0 DEF TypeInv, OrderInv, StageInv, ResetInv, OutputInv, InputInv
  <2> QED
    BY Zenon, <2>1, <2>2
<1> QED
  BY Zenon, <1>1, <1>2, <1>3, <1>4 DEF ConnToSocket

\* The read to the end, and the return.
LEMMA DrainingKeeps == ASSUME ServiceInv, Draining PROVE ServiceInv'
<1> USE DEF ServiceInv, sockVars, taskVars, clVars, Hangup
<1>1. CASE ConnDiscard
  <2> USE <1>1 DEF ConnDiscard
  <2>1. TypeInv' /\ OrderInv' /\ StageInv'
    BY DEF TypeInv, OrderInv, StageInv
  <2>2. ResetInv' /\ OutputInv' /\ InputInv'
    BY DEF TypeInv, OrderInv, StageInv, ResetInv, OutputInv, InputInv
  <2> QED
    BY Zenon, <2>1, <2>2
<1>2. CASE Return
  <2> USE <1>2 DEF Return, Drained, Sock!Drop, Sock!flow
  <2>1. TypeInv' /\ OrderInv' /\ StageInv'
    BY DEF TypeInv, OrderInv, StageInv
  <2>2. ResetInv' /\ OutputInv' /\ InputInv'
    BY DEF TypeInv, OrderInv, StageInv, ResetInv, OutputInv, InputInv
  <2> QED
    BY Zenon, <2>1, <2>2
<1>3. CASE Timeout
  <2> USE <1>3 DEF Timeout, Sock!Drop, Sock!flow
  <2>1. TypeInv' /\ OrderInv' /\ StageInv'
    BY DEF TypeInv, OrderInv, StageInv
  <2>2. ResetInv' /\ OutputInv' /\ InputInv'
    BY DEF TypeInv, OrderInv, StageInv, ResetInv, OutputInv, InputInv
  <2> QED
    BY Zenon, <2>1, <2>2
<1> QED
  BY Zenon, <1>1, <1>2, <1>3 DEF Draining

\* The client.
LEMMA ClientKeeps == ASSUME ServiceInv, Client PROVE ServiceInv'
<1> USE DEF ServiceInv, sockVars, taskVars, clVars
<1>1. CASE ClientSend
  <2> USE <1>1 DEF ClientSend
  <2>1. TypeInv' /\ OrderInv' /\ StageInv'
    BY ServiceAssumption DEF TypeInv, OrderInv, StageInv
  <2>2. ResetInv' /\ OutputInv' /\ InputInv'
    BY DEF TypeInv, OrderInv, StageInv, ResetInv, OutputInv, InputInv
  <2> QED
    BY Zenon, <2>1, <2>2
<1>2. CASE ClientRecv
  <2> USE <1>2 DEF ClientRecv
  <2>1. TypeInv' /\ OrderInv' /\ StageInv'
    BY DEF TypeInv, OrderInv, StageInv
  <2>2. ResetInv' /\ OutputInv' /\ InputInv'
    BY DEF TypeInv, OrderInv, StageInv, ResetInv, OutputInv, InputInv
  <2> QED
    BY Zenon, <2>1, <2>2
<1>3. CASE ClientShutdown
  <2> USE <1>3 DEF ClientShutdown
  <2>1. TypeInv' /\ OrderInv' /\ StageInv'
    BY DEF TypeInv, OrderInv, StageInv
  <2>2. ResetInv' /\ OutputInv' /\ InputInv'
    BY DEF TypeInv, OrderInv, StageInv, ResetInv, OutputInv, InputInv
  <2> QED
    BY Zenon, <2>1, <2>2
<1>4. CASE ClientClose
  <2> USE <1>4 DEF ClientClose
  <2>1. TypeInv' /\ OrderInv' /\ StageInv'
    BY DEF TypeInv, OrderInv, StageInv
  <2>2. ResetInv' /\ OutputInv' /\ InputInv'
    BY DEF TypeInv, OrderInv, StageInv, ResetInv, OutputInv, InputInv
  <2> QED
    BY Zenon, <2>1, <2>2
<1> QED
  BY Zenon, <1>1, <1>2, <1>3, <1>4 DEF Client

\* The device, and what becomes known of it.
LEMMA DeviceKeeps == ASSUME ServiceInv, DeviceStep PROVE ServiceInv'
<1> USE DEF ServiceInv, sockVars, taskVars, clVars, DeviceStep
<1>1. CASE Sock!DevGet
  <2> USE <1>1 DEF Sock!DevGet, Sock!ends
  <2>1. TypeInv' /\ OrderInv' /\ StageInv'
    BY DEF TypeInv, OrderInv, StageInv
  <2>2. ResetInv' /\ OutputInv' /\ InputInv'
    BY DEF TypeInv, OrderInv, StageInv, ResetInv, OutputInv, InputInv
  <2> QED
    BY Zenon, <2>1, <2>2
<1>2. CASE Sock!DevClose
  <2> USE <1>2 DEF Sock!DevClose, Sock!flow
  <2>1. TypeInv' /\ OrderInv' /\ StageInv'
    BY DEF TypeInv, OrderInv, StageInv
  <2>2. ResetInv' /\ OutputInv' /\ InputInv'
    BY DEF TypeInv, OrderInv, StageInv, ResetInv, OutputInv, InputInv
  <2> QED
    BY Zenon, <2>1, <2>2
<1>5. CASE Sock!Learn
  <2> USE <1>5 DEF Sock!Learn, Sock!flow
  <2>1. TypeInv' /\ OrderInv' /\ StageInv'
    BY DEF TypeInv, OrderInv, StageInv
  <2>2. ResetInv' /\ OutputInv' /\ InputInv'
    BY DEF TypeInv, OrderInv, StageInv, ResetInv, OutputInv, InputInv
  <2> QED
    BY Zenon, <2>1, <2>2
<1>3. CASE Sock!DevWrite
  <2> USE <1>3 DEF Sock!DevWrite, Sock!ends
  <2>1. TypeInv' /\ OrderInv' /\ StageInv'
    BY ServiceAssumption DEF TypeInv, OrderInv, StageInv
  <2>2. ResetInv' /\ OutputInv' /\ InputInv'
    BY DEF TypeInv, OrderInv, StageInv, ResetInv, OutputInv, InputInv
  <2> QED
    BY Zenon, <2>1, <2>2
<1>4. CASE Sock!Fail /\ reader' = reader
  <2> USE <1>4 DEF Sock!Fail, Sock!flow
  <2>1. TypeInv' /\ OrderInv' /\ StageInv'
    BY DEF TypeInv, OrderInv, StageInv
  <2>2. ResetInv' /\ OutputInv' /\ InputInv'
    BY DEF TypeInv, OrderInv, StageInv, ResetInv, OutputInv, InputInv
  <2> QED
    BY Zenon, <2>1, <2>2
<1> QED
  BY Zenon, <1>1, <1>2, <1>3, <1>4, <1>5 DEF DeviceStep

\* The invariant holds in every reachable state.
LEMMA ServiceInductive == Spec => []ServiceInv
<1>1. ASSUME Init PROVE ServiceInv
  <2> USE <1>1 DEF Init, Sock!Init
  <2>0. TypeInv
    <3>1. /\ wrote \in Nat /\ devGot \in Nat /\ devWrote \in Nat /\ read \in Nat
          /\ sent \in Nat /\ taken \in Nat /\ clGot \in Nat /\ clSent \in Nat
      BY <1>1
    <3>2. /\ hostClosed \in BOOLEAN /\ devClosed \in BOOLEAN /\ known \in BOOLEAN
          /\ failed \in BOOLEAN /\ fin \in BOOLEAN /\ timedOut \in BOOLEAN
      BY Zenon, <1>1
    <3>3. /\ pc \in {"service", "respond", "copy", "drain", "over"}
          /\ c2s \in {"copy", "shutdown", "done"} /\ answer \in {"none", "okay", "fail"}
          /\ clEnd \in {"open", "fin", "rst"} /\ clFin \in {"no", "first", "after", "gone"}
      BY <1>1
    <3> QED
      BY Zenon, <3>1, <3>2, <3>3 DEF TypeInv
  <2>1. TypeInv /\ OrderInv
    BY <2>0 DEF TypeInv, OrderInv
  <2>2. StageInv /\ ResetInv /\ OutputInv /\ InputInv
    BY DEF StageInv, ResetInv, OutputInv, InputInv
  <2> QED
    BY Zenon, <2>1, <2>2 DEF ServiceInv
<1>2. ASSUME ServiceInv, [Next]_vars PROVE ServiceInv'
  <2>1. CASE Next
    BY Zenon, <1>2, <2>1, AnsweringKeeps, SocketToConnKeeps, ConnToSocketKeeps, DrainingKeeps,
       ClientKeeps, DeviceKeeps DEF Next
  <2>2. CASE UNCHANGED vars
    <3> USE <1>2, <2>2 DEF vars, sockVars, taskVars, clVars, ServiceInv
    <3>1. TypeInv' /\ OrderInv' /\ StageInv'
      BY DEF TypeInv, OrderInv, StageInv
    <3>2. ResetInv' /\ OutputInv' /\ InputInv'
      BY DEF ResetInv, OutputInv, InputInv
    <3> QED
      BY Zenon, <3>1, <3>2
  <2> QED
    BY Zenon, <1>2, <2>1, <2>2
<1> QED
  BY <1>1, <1>2, PTL DEF Spec

\* A client that did not end its output first gets the whole output of the
\* device before its input ends.
THEOREM OutputWhole == Spec => []WholeOutput
<1>1. ServiceInv => WholeOutput
  BY DEF ServiceInv, TypeInv, OutputInv, WholeOutput
<1> QED
  BY <1>1, ServiceInductive, PTL

\* The task resets the client's connection only after its time was up.
THEOREM NeverReset == Spec => []NoReset
<1>1. ServiceInv => NoReset
  BY DEF ServiceInv, ResetInv, NoReset
<1> QED
  BY <1>1, ServiceInductive, PTL

\* The socket of a client that ended its output is closed when the device has
\* the whole of it.
THEOREM InputWhole == Spec => []WholeInput
<1>1. ServiceInv => WholeInput
  BY DEF ServiceInv, InputInv, WholeInput
<1> QED
  BY <1>1, ServiceInductive, PTL

=============================================================================
