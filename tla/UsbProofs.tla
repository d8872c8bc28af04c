------------------------------ MODULE UsbProofs ------------------------------
(***************************************************************************)
(* Proofs about UsbConnection, for every packet size, header length, set   *)
(* of payload lengths and number of messages.                              *)
(***************************************************************************)
EXTENDS UsbConnection, SequenceTheorems, TLAPS

-----------------------------------------------------------------------------
(* Packets. *)

Count(n) == (n + PacketSize - 1) \div PacketSize

\* A payload of n bytes has Count(n) packets, full but for the last.
LEMMA CountBounds ==
  ASSUME NEW n \in Nat
  PROVE  /\ Count(n) \in Nat
         /\ n <= Count(n) * PacketSize
         /\ n + PacketSize - 1 >= Count(n) * PacketSize
         /\ n > 0 => Count(n) >= 1
<1> DEFINE P == PacketSize  c == Count(n)
<1>1. P \in Nat /\ P > 0
  BY PacketAssumption
<1> HIDE DEF P
<1>2. c = (n + P - 1) \div P
  BY DEF Count, P
<1>3. n + P - 1 \in Nat
  BY <1>1
<1>4. c \in Int /\ c * P <= n + P - 1 /\ n + P - 1 < c * P + P
  BY <1>1, <1>2, <1>3, SMTT(30)
<1>5. c >= 0
  BY <1>1, <1>2, <1>3, SMTT(30)
<1>6. c * P \in Int
  BY <1>1, <1>4
<1> QED
  BY <1>1, <1>4, <1>5, <1>6 DEF P

LEMMA Remainder ==
  ASSUME NEW n \in Nat
  PROVE  n % PacketSize = 0 <=> n = Count(n) * PacketSize
<1> DEFINE P == PacketSize  c == Count(n)
<1>1. P \in Nat /\ P > 0
  BY PacketAssumption
<1>2. c \in Nat /\ n <= c * P /\ n + P - 1 >= c * P
  BY CountBounds
<1> HIDE DEF P, c
<1>3. ASSUME n = c * P PROVE n % P = 0
  BY <1>1, <1>2, <1>3, SMTT(30)
<1>4. ASSUME n % P = 0 PROVE n = c * P
  <2>1. PICK k \in Int : n = k * P
    BY <1>1, <1>4, SMTT(30)
  <2> QED
    BY <1>1, <1>2, <2>1, SMTT(30)
<1> QED
  BY <1>3, <1>4 DEF P, c

Pkt == [msg : Nat, index : Nat, len : Nat, data : Nat]

Msgs == [header : Pkt, payload : Seq(Pkt)]

\* The bytes of packet k of a payload: all but the last packet are full, and the
\* last is full exactly when NeedsZero says so.
LEMMA RestBounds ==
  ASSUME NEW n \in Nat, NEW k \in 1..Count(n)
  PROVE  /\ Rest(n, k) \in Nat /\ Rest(n, k) <= PacketSize
         /\ k < Count(n) => Rest(n, k) = PacketSize
         /\ k = Count(n) => (Rest(n, k) = PacketSize <=> NeedsZero(n))
<1> DEFINE P == PacketSize  c == Count(n)
<1>1. P \in Nat /\ P > 0
  BY PacketAssumption
<1>2. c \in Nat /\ n <= c * P /\ n + P - 1 >= c * P /\ k \in 1..c
  BY CountBounds
<1>3. n % P = 0 <=> n = c * P
  BY Remainder
<1>4. Rest(n, k) = IF n - (k - 1) * P < P THEN n - (k - 1) * P ELSE P
  BY DEF Rest
<1>5. NeedsZero(n) <=> n > 0 /\ n = c * P
  BY <1>3 DEF NeedsZero
<1> HIDE DEF P, c
<1>6. (k - 1) * P = k * P - P /\ k * P \in Int /\ c * P \in Int
  BY <1>1, <1>2
<1>7. k <= c - 1 => k * P <= (c - 1) * P
  BY <1>1, <1>2
<1>8. (c - 1) * P = c * P - P
  BY <1>1, <1>2
<1>9. P <= c * P
  BY <1>1, <1>2
<1>10. n \in Nat /\ n > 0
  BY <1>1, <1>2, <1>6, <1>9
<1>11. CASE k < c
  <2>1. k * P <= c * P - P
    BY <1>2, <1>7, <1>8, <1>11
  <2>2. ~(n - (k - 1) * P < P)
    BY <1>1, <1>2, <1>6, <1>10, <2>1
  <2> QED
    BY <1>1, <1>2, <1>4, <1>11, <2>2 DEF P, c
<1>12. CASE k = c
  <2>1. n - (k - 1) * P = n - c * P + P
    BY <1>1, <1>6, <1>10, <1>12
  <2>2. Rest(n, k) \in Nat /\ Rest(n, k) <= P /\ (Rest(n, k) = P <=> n = c * P)
    BY <1>1, <1>2, <1>4, <1>6, <1>10, <2>1
  <2> QED
    BY <1>2, <1>5, <1>10, <1>12, <2>2 DEF P, c
<1> QED
  BY <1>2, <1>11, <1>12

LEMMA PayloadLength ==
  ASSUME NEW i \in Nat, NEW n \in Nat
  PROVE  /\ Payload(i, n) \in Seq(Pkt) /\ Len(Payload(i, n)) = Count(n)
         /\ Count(n) \in Nat /\ (n > 0 => Count(n) >= 1)
         /\ n = 0 => Payload(i, n) = <<>>
<1> DEFINE P == PacketSize  c == Count(n)
<1>1. P \in Nat /\ P > 0
  BY PacketAssumption
<1>2. c \in Nat /\ n <= c * P /\ n + P - 1 >= c * P /\ (n > 0 => c >= 1)
  BY CountBounds
<1>3. \A k \in 1..c : Rest(n, k) \in Nat
  BY RestBounds
<1>4. Payload(i, n) = [k \in 1..c |-> Packet(i, k, Rest(n, k), 0)]
  BY DEF Payload, Count
<1> HIDE DEF P, c
<1>5. \A k \in 1..c : Packet(i, k, Rest(n, k), 0) \in Pkt
  BY <1>2, <1>3 DEF Packet, Pkt
<1>6. Payload(i, n) \in Seq(Pkt) /\ Len(Payload(i, n)) = c
  BY <1>2, <1>4, <1>5
<1>7. n = 0 => c = 0
  <2>1. c >= 1 => c * P >= P
    BY <1>1, <1>2
  <2> QED
    BY <1>1, <1>2, <2>1
<1>8. n = 0 => Payload(i, n) = <<>>
  BY <1>6, <1>7
<1> QED
  BY <1>2, <1>6, <1>8 DEF c

LEMMA PayloadPacket ==
  ASSUME NEW i \in Nat, NEW n \in Nat, NEW k \in 1..Count(n)
  PROVE  /\ Payload(i, n)[k].msg = i /\ Payload(i, n)[k].index = k
         /\ Payload(i, n)[k].data = 0 /\ Payload(i, n)[k] \in Pkt
         /\ Payload(i, n)[k].len = Rest(n, k)
<1>1. Payload(i, n) \in Seq(Pkt) /\ Len(Payload(i, n)) = Count(n)
  BY PayloadLength
<1>2. Payload(i, n)[k] \in Pkt
  BY <1>1
<1>3. Payload(i, n)[k] = Packet(i, k, Rest(n, k), 0)
  BY DEF Payload, Count
<1> QED
  BY <1>2, <1>3 DEF Packet

\* A message, its header and the constant packets.
LEMMA MessageShape ==
  ASSUME NEW i \in Nat, NEW n \in Nat
  PROVE  /\ Message(i, n) \in Msgs
         /\ Message(i, n).header = Header(i, n) /\ Message(i, n).payload = Payload(i, n)
         /\ Header(i, n) \in Pkt
         /\ Header(i, n).msg = i /\ Header(i, n).index = 0
         /\ Header(i, n).len = HeaderLen /\ Header(i, n).data = n
BY PayloadLength, PacketAssumption DEF Message, Header, Packet, Msgs, Pkt

LEMMA TheMessage ==
  ASSUME NEW i \in Nat, NEW n \in Nat, NEW m, m = Message(i, n)
  PROVE  /\ m \in Msgs /\ m = [header |-> m.header, payload |-> m.payload]
         /\ m.header = Header(i, n) /\ m.header \in Pkt
         /\ m.header.msg = i /\ m.header.index = 0 /\ m.header.len = HeaderLen
         /\ m.header.data = n
         /\ m.payload = Payload(i, n) /\ m.payload \in Seq(Pkt) /\ Len(m.payload) = Count(n)
<1>1. /\ m \in Msgs /\ m.header = Header(i, n) /\ m.payload = Payload(i, n)
      /\ Header(i, n) \in Pkt /\ Header(i, n).msg = i /\ Header(i, n).index = 0
      /\ Header(i, n).len = HeaderLen /\ Header(i, n).data = n
  BY MessageShape
<1>2. Payload(i, n) \in Seq(Pkt) /\ Len(Payload(i, n)) = Count(n)
  BY PayloadLength
<1>3. m = [header |-> m.header, payload |-> m.payload]
  BY DEF Message
<1>4. m.header.msg = i /\ m.header.index = 0 /\ m.header.len = HeaderLen /\ m.header.data = n
  BY ONLY <1>1
<1>5. m.payload \in Seq(Pkt) /\ Len(m.payload) = Count(n)
  BY ONLY <1>1, <1>2
<1> QED
  BY ONLY <1>1, <1>3, <1>4, <1>5

LEMMA ConstantPackets ==
  /\ ZeroPacket \in Pkt /\ ZeroPacket.msg = 0 /\ ZeroPacket.len = 0
  /\ None \in Pkt /\ None.msg = 0
  /\ PacketSize \in Nat /\ HeaderLen \in Nat /\ 0 < HeaderLen /\ HeaderLen < PacketSize
BY PacketAssumption DEF ZeroPacket, None, Packet, Pkt

\* A sequence of sequences and what stands before it.
LEMMA Cons ==
  ASSUME NEW S, NEW r \in S, NEW z \in Seq(S)
  PROVE  /\ <<r>> \o z \in Seq(S) /\ <<r>> \o z # <<>> /\ (<<r>> \o z)[1] = r
         /\ Len(<<r>> \o z) = Len(z) + 1
         /\ Tail(<<r>> \o z) = z
<1>1. <<r>> \in Seq(S) /\ Len(<<r>>) = 1 /\ <<r>>[1] = r /\ Len(z) \in Nat
  OBVIOUS
<1>2. PICK T \in Seq(S) : T = <<r>> \o z
  BY Zenon, <1>1, ConcatProperties
<1>3. /\ Len(T) = Len(<<r>>) + Len(z)
      /\ \A i \in 1..(Len(<<r>>) + Len(z)) :
           T[i] = IF i <= Len(<<r>>) THEN <<r>>[i] ELSE z[i - Len(<<r>>)]
  BY Zenon, <1>1, <1>2, ConcatProperties
<1>4. Len(T) = 1 + Len(z) /\ T[1] = r
  BY <1>1, <1>3
<1>5. ASSUME NEW i \in 1..Len(z) PROVE T[i + 1] = z[i]
  <2>1. i + 1 \in 1..(1 + Len(z)) /\ ~(i + 1 <= 1) /\ (i + 1) - 1 = i
    BY <1>1
  <2> QED
    BY <2>1, <1>3, <1>1
<1>6. T # <<>>
  BY <1>1, <1>4
<1>7. /\ Tail(T) \in Seq(S) /\ Len(Tail(T)) = Len(z)
      /\ \A i \in 1..Len(z) : Tail(T)[i] = z[i]
  BY <1>1, <1>4, <1>5, <1>6, HeadTailProperties
<1>8. Tail(T) = z
  BY <1>7, SeqEqual
<1> QED
  BY <1>1, <1>2, <1>4, <1>6, <1>8

-----------------------------------------------------------------------------
(* The OUT queue. *)

\* q holds the transfers x, behind completed ones.
Left(q, x) ==
  \E d \in 0..Len(q) :
    /\ Len(q) = d + Len(x)
    /\ \A k \in 1..d : q[k] = <<>>
    /\ \A k \in 1..Len(x) : q[d + k] = x[k]

\* poll_flush takes out what is in front of them.
LEMMA LeftRemaining ==
  ASSUME out_queue \in Seq(Seq(Pkt)), NEW x \in Seq(Seq(Pkt)), Left(out_queue, x),
         x # <<>> => x[1] # <<>>
  PROVE  Remaining = x
<1>1. PICK d \in 0..Len(out_queue) :
        /\ Len(out_queue) = d + Len(x)
        /\ \A k \in 1..d : out_queue[k] = <<>>
        /\ \A k \in 1..Len(x) : out_queue[d + k] = x[k]
  BY DEF Left
<1>2. Len(out_queue) \in Nat /\ Len(x) \in Nat
  OBVIOUS
<1> DEFINE Is(e) == /\ \A k \in 1..e : out_queue[k] = <<>>
                    /\ e < Len(out_queue) => out_queue[e + 1] # <<>>
<1>3. Is(d)
  <2> SUFFICES ASSUME d < Len(out_queue) PROVE out_queue[d + 1] # <<>>
    BY <1>1
  <2>1. 1 \in 1..Len(x) /\ x # <<>>
    BY <1>1, <1>2
  <2> QED
    BY <1>1, <2>1
<1>4. ASSUME NEW e \in 0..Len(out_queue), Is(e) PROVE e = d
  <2>1. ~(e < d)
    <3> SUFFICES ASSUME e < d PROVE FALSE
      OBVIOUS
    <3>1. e + 1 \in 1..d /\ e < Len(out_queue)
      BY <1>2
    <3> QED
      BY <1>1, <1>4, <3>1
  <2>2. ~(d < e)
    <3> SUFFICES ASSUME d < e PROVE FALSE
      OBVIOUS
    <3>1. d + 1 \in 1..e /\ d < Len(out_queue)
      BY <1>2
    <3> QED
      BY <1>3, <1>4, <3>1
  <2> QED
    BY <2>1, <2>2
<1>5. Completed = d
  <2> HIDE DEF Is
  <2>1. Completed = CHOOSE e \in 0..Len(out_queue) : Is(e)
    BY Zenon DEF Completed, Is
  <2> QED
    BY Zenon, <2>1, <1>3, <1>4
<1>6. Remaining = SubSeq(out_queue, d + 1, Len(out_queue))
  BY <1>5 DEF Remaining
<1>7. /\ Remaining \in Seq(Seq(Pkt)) /\ Len(Remaining) = Len(x)
      /\ \A k \in 1..Len(x) : Remaining[k] = x[k]
  <2>1. \A i \in (d + 1)..Len(out_queue) : out_queue[i] \in Seq(Pkt)
    BY <1>2
  <2>2. /\ Remaining \in Seq(Seq(Pkt))
        /\ Len(Remaining) = IF d + 1 <= Len(out_queue) THEN Len(out_queue) - (d + 1) + 1 ELSE 0
        /\ \A i \in 1..(Len(out_queue) - (d + 1) + 1) : Remaining[i] = out_queue[d + 1 + i - 1]
    BY <1>2, <1>6, <2>1, SubSeqProperties
  <2>3. Len(out_queue) - (d + 1) + 1 = Len(x) /\ Len(Remaining) = Len(x)
    BY <1>1, <1>2, <2>2
  <2>4. ASSUME NEW k \in 1..Len(x) PROVE Remaining[k] = x[k]
    <3>1. d + 1 + k - 1 = d + k
      BY <1>2
    <3> QED
      BY <1>1, <2>2, <2>3, <3>1
  <2> QED
    BY <2>2, <2>3, <2>4
<1> QED
  BY <1>7, SeqEqual

\* The controller takes the packets of the first of them, one by one.
LEMMA LeftTaken ==
  ASSUME NEW q \in Seq(Seq(Pkt)), NEW x \in Seq(Seq(Pkt)), Left(q, x), NEW j \in 1..Len(q),
         q[j] # <<>>, \A k \in 1..(j - 1) : q[k] = <<>>, x # <<>> => x[1] # <<>>
  PROVE  /\ x # <<>> /\ q[j] = x[1]
         /\ Left([q EXCEPT ![j] = Tail(@)], <<Tail(x[1])>> \o Tail(x))
         /\ Tail(x[1]) = <<>> => Left([q EXCEPT ![j] = Tail(@)], Tail(x))
<1>1. PICK d \in 0..Len(q) :
        /\ Len(q) = d + Len(x)
        /\ \A k \in 1..d : q[k] = <<>>
        /\ \A k \in 1..Len(x) : q[d + k] = x[k]
  BY DEF Left
<1>2. Len(q) \in Nat /\ Len(x) \in Nat
  OBVIOUS
<1>3. j > d
  BY <1>1, <1>2
<1>4. Len(x) >= 1 /\ x # <<>> /\ 1 \in 1..Len(x)
  BY <1>1, <1>2, <1>3
<1>5. q[d + 1] # <<>>
  BY <1>1, <1>4
<1>6. j = d + 1
  <2> SUFFICES ASSUME j > d + 1 PROVE FALSE
    BY <1>2, <1>3
  <2>1. d + 1 \in 1..(j - 1)
    BY <1>2
  <2> QED
    BY <1>5, <2>1
<1>7. q[j] = x[1]
  BY <1>1, <1>4, <1>6
<1> DEFINE r == [q EXCEPT ![j] = Tail(@)]
           y == <<Tail(x[1])>> \o Tail(x)
<1>8. Tail(x[1]) \in Seq(Pkt) /\ x[1] \in Seq(Pkt)
  BY <1>4
<1>9. /\ Len(r) = Len(q) /\ \A k \in 1..Len(q) : k # j => r[k] = q[k]
      /\ r[j] = Tail(x[1])
  BY <1>7
<1>10. /\ Len(Tail(x)) = Len(x) - 1 /\ \A k \in 1..(Len(x) - 1) : Tail(x)[k] = x[k + 1]
       /\ Tail(x) \in Seq(Seq(Pkt))
  BY <1>4
<1>11. /\ Len(y) = Len(x) /\ y[1] = Tail(x[1])
       /\ \A k \in 2..Len(x) : y[k] = x[k]
  <2>1. <<Tail(x[1])>> \in Seq(Seq(Pkt)) /\ Len(<<Tail(x[1])>>) = 1
    BY <1>8
  <2> QED
    BY <2>1, <1>2, <1>4, <1>10, ConcatProperties
<1> HIDE DEF r, y
<1>12. Left(r, y)
  <2>1. d \in 0..Len(r) /\ Len(r) = d + Len(y)
    BY <1>1, <1>9, <1>11
  <2>2. \A k \in 1..d : r[k] = <<>>
    BY <1>1, <1>2, <1>6, <1>9
  <2>3. \A k \in 1..Len(y) : r[d + k] = y[k]
    <3> SUFFICES ASSUME NEW k \in 1..Len(y) PROVE r[d + k] = y[k]
      OBVIOUS
    <3>1. CASE k = 1
      BY <3>1, <1>6, <1>9, <1>11
    <3>2. CASE k # 1
      <4>1. k \in 2..Len(x) /\ k \in 1..Len(x) /\ d + k \in 1..Len(q) /\ d + k # j
        <5>1. k \in 2..Len(x) /\ k \in 1..Len(x)
          BY <3>2, <1>2, <1>11
        <5> QED
          BY <5>1, <1>1, <1>2, <1>6
      <4> QED
        BY <4>1, <1>1, <1>9, <1>11
    <3> QED
      BY <3>1, <3>2
  <2> QED
    BY <2>1, <2>2, <2>3 DEF Left
<1>13. ASSUME Tail(x[1]) = <<>> PROVE Left(r, Tail(x))
  <2>1. d + 1 \in 0..Len(r) /\ Len(r) = (d + 1) + Len(Tail(x))
    BY <1>1, <1>2, <1>4, <1>9, <1>10
  <2>2. \A k \in 1..(d + 1) : r[k] = <<>>
    <3>1. r[d + 1] = <<>>
      BY <1>6, <1>9, <1>13
    <3>2. ASSUME NEW k \in 1..d PROVE r[k] = <<>>
      <4>1. k \in 1..Len(q) /\ k # j
        BY <1>2, <1>6
      <4> QED
        BY <4>1, <1>1, <1>9
    <3>3. \A k \in 1..(d + 1) : k = d + 1 \/ k \in 1..d
      BY <1>2
    <3> QED
      BY Zenon, <3>1, <3>2, <3>3
  <2>3. \A k \in 1..Len(Tail(x)) : r[(d + 1) + k] = Tail(x)[k]
    <3> SUFFICES ASSUME NEW k \in 1..Len(Tail(x)) PROVE r[(d + 1) + k] = Tail(x)[k]
      OBVIOUS
    <3>1. /\ k + 1 \in 1..Len(x) /\ (d + 1) + k = d + (k + 1) /\ d + (k + 1) \in 1..Len(q)
          /\ d + (k + 1) # j
      BY <1>1, <1>2, <1>6, <1>10
    <3> QED
      BY <3>1, <1>1, <1>9, <1>10
  <2> QED
    BY <2>1, <2>2, <2>3 DEF Left
<1> QED
  BY <1>4, <1>7, <1>12, <1>13 DEF r, y

LEMMA LeftSelf == ASSUME NEW x \in Seq(Seq(Pkt)) PROVE Left(x, x)
<1>1. 0 \in 0..Len(x) /\ Len(x) = 0 + Len(x) /\ \A k \in 1..Len(x) : x[0 + k] = x[k]
  OBVIOUS
<1>2. \A k \in 1..0 : x[k] = <<>>
  OBVIOUS
<1> QED
  BY <1>1, <1>2 DEF Left

-----------------------------------------------------------------------------
(* The OUT direction.  write_message is called with nothing pending, so one   *)
(* message at most is under way; its phase says which of its transfers are    *)
(* left and what the device has of it.                                        *)

OutTypes ==
  /\ written \in Seq(Msgs) /\ devGot \in Seq(Msgs) /\ out_queue \in Seq(Seq(Pkt))
  /\ devBuffer \in Seq(Pkt) /\ devHeader \in Pkt

Zero(n) == IF NeedsZero(n) THEN <<<<ZeroPacket>>>> ELSE <<>>

\* The device has the first d packets of the payload of m.
PayloadLeft(m, n, d, x) ==
  /\ devBuffer = SubSeq(m.payload, 1, d)
  /\ x = <<SubSeq(m.payload, d + 1, Len(m.payload))>> \o Zero(n)

\* The transfers x are left of message m, of n bytes.
UnderWay(m, n, x) ==
  /\ written = Append(devGot, m)
  /\ \/ devHeader = None /\ devBuffer = <<>> /\ x = Transfers(m, n)
     \/ /\ n > 0 /\ devHeader = m.header
        /\ \E d \in 0..(Len(m.payload) - 1) : PayloadLeft(m, n, d, x)
     \/ /\ NeedsZero(n) /\ devHeader = m.header /\ devBuffer = m.payload
        /\ x = <<<<ZeroPacket>>>>

AllReceived == devGot = written /\ devHeader = None /\ devBuffer = <<>>

Phase(x) ==
  \/ x = <<>> /\ AllReceived
  \/ \E n \in Lengths : UnderWay(Message(Len(written), n), n, x)

OutInv ==
  /\ OutTypes
  /\ writer # "failed" => \E x \in Seq(Seq(Pkt)) : Left(out_queue, x) /\ Phase(x)
  /\ writer = "write" => out_queue = <<>> /\ AllReceived

LEMMA TransfersShape ==
  ASSUME NEW m \in Msgs, NEW n \in Nat
  PROVE  /\ Zero(n) \in Seq(Seq(Pkt))
         /\ Transfers(m, n) \in Seq(Seq(Pkt)) /\ Transfers(m, n) # <<>>
         /\ Transfers(m, n)[1] = <<m.header>>
         /\ n > 0 => Tail(Transfers(m, n)) = <<m.payload>> \o Zero(n)
         /\ n = 0 => Tail(Transfers(m, n)) = <<>>
<1>1. m.header \in Pkt /\ m.payload \in Seq(Pkt) /\ ZeroPacket \in Pkt
  BY ConstantPackets DEF Msgs
<1>2. Zero(n) = <<>> \/ Zero(n) = <<<<ZeroPacket>>>>
  BY DEF Zero
<1>3. Zero(n) \in Seq(Seq(Pkt))
  <2>1. <<ZeroPacket>> \in Seq(Pkt)
    BY <1>1
  <2>2. <<<<ZeroPacket>>>> \in Seq(Seq(Pkt)) /\ <<>> \in Seq(Seq(Pkt))
    BY <2>1
  <2> QED
    BY Zenon, <2>2, <1>2
<1>4. Transfers(m, n) = <<<<m.header>>>> \o ((IF n > 0 THEN <<m.payload>> ELSE <<>>) \o Zero(n))
  BY DEF Transfers, Zero
<1>5. ~(n > 0) => Zero(n) = <<>>
  BY DEF Zero, NeedsZero
<1>6. CASE n > 0
  <2> DEFINE z == <<m.payload>> \o Zero(n)
  <2>1. z \in Seq(Seq(Pkt)) /\ <<m.header>> \in Seq(Pkt)
    BY <1>1, <1>3, Cons
  <2>2. Transfers(m, n) = <<<<m.header>>>> \o z
    BY Zenon, <1>4, <1>6
  <2> HIDE DEF z
  <2>3. /\ Transfers(m, n) \in Seq(Seq(Pkt)) /\ Transfers(m, n) # <<>>
        /\ Transfers(m, n)[1] = <<m.header>> /\ Tail(Transfers(m, n)) = z
    <3>1. PICK r \in Seq(Pkt) : r = <<m.header>>
      BY <2>1
    <3>2. Transfers(m, n) = <<r>> \o z
      BY Zenon, <2>2, <3>1
    <3> QED
      <4>1. /\ <<r>> \o z \in Seq(Seq(Pkt)) /\ <<r>> \o z # <<>> /\ (<<r>> \o z)[1] = r
            /\ Tail(<<r>> \o z) = z
        BY <2>1, Cons
      <4> QED
        BY Zenon, <3>1, <3>2, <4>1
  <2>4. n # 0
    BY <1>6
  <2> QED
    BY Zenon, <1>3, <2>3, <2>4 DEF z
<1>7. CASE ~(n > 0)
  <2>1. Transfers(m, n) = <<<<m.header>>>>
    BY <1>1, <1>4, <1>5, <1>7
  <2> QED
    BY <1>1, <1>3, <1>7, <2>1
<1> QED
  BY <1>6, <1>7

\* The parts of a payload that is partly received.
LEMMA PayloadSplit ==
  ASSUME NEW s \in Seq(Pkt), NEW d \in 0..(Len(s) - 1)
  PROVE  /\ SubSeq(s, d + 1, Len(s)) \in Seq(Pkt) /\ SubSeq(s, d + 1, Len(s)) # <<>>
         /\ Head(SubSeq(s, d + 1, Len(s))) = s[d + 1]
         /\ s[d + 1] \in Pkt
         /\ Tail(SubSeq(s, d + 1, Len(s))) = SubSeq(s, d + 2, Len(s))
         /\ d + 1 = Len(s) => SubSeq(s, d + 2, Len(s)) = <<>>
         /\ d + 1 < Len(s) => SubSeq(s, d + 2, Len(s)) # <<>>
         /\ Append(SubSeq(s, 1, d), s[d + 1]) = SubSeq(s, 1, d + 1)
<1>1. Len(s) \in Nat /\ d + 1 \in 1..Len(s) /\ Len(s) \in (d + 1)..Len(s) /\ d + 1 + 1 = d + 2
  OBVIOUS
<1>2. s[d + 1] \in Pkt
  BY <1>1
<1>3. \A i \in (d + 1)..Len(s) : s[i] \in Pkt
  BY <1>1
<1>4. /\ SubSeq(s, d + 1, Len(s)) \in Seq(Pkt)
      /\ Len(SubSeq(s, d + 1, Len(s))) = Len(s) - (d + 1) + 1
  BY <1>1, <1>3, SubSeqProperties
<1>5. SubSeq(s, d + 1, Len(s)) # <<>>
  <2>1. Len(s) - (d + 1) + 1 # 0
    BY <1>1
  <2>2. Len(SubSeq(s, d + 1, Len(s))) # 0
    BY Zenon, <1>4, <2>1
  <2> QED
    BY Zenon, <2>2, EmptySeq
<1>6. /\ Head(SubSeq(s, d + 1, Len(s))) = s[d + 1]
      /\ Tail(SubSeq(s, d + 1, Len(s))) = SubSeq(s, d + 2, Len(s))
  BY <1>1, HeadTailOfSubSeq
<1>7. d + 1 = Len(s) => SubSeq(s, d + 2, Len(s)) = <<>>
  BY <1>1, SubSeqEmpty
<1>8. d + 1 < Len(s) => SubSeq(s, d + 2, Len(s)) # <<>>
  <2>1. Len(Tail(SubSeq(s, d + 1, Len(s)))) = Len(s) - (d + 1)
    BY <1>1, <1>4, <1>5, HeadTailProperties
  <2>2. d + 1 < Len(s) => Len(Tail(SubSeq(s, d + 1, Len(s)))) # 0
    BY <1>1, <2>1
  <2> QED
    BY Zenon, <1>6, <2>2, EmptySeq
<1>9. Append(SubSeq(s, 1, d), s[d + 1]) = SubSeq(s, 1, d + 1)
  <2>1. SubSeq(s, 1, d) \in Seq(Pkt)
    BY <1>1
  <2>2. SubSeq(s, 1, d + 1) = SubSeq(s, 1, d) \o <<s[d + 1]>>
    <3>1. 1 \in 1..Len(s) /\ d + 1 \in 1..Len(s) /\ d + 1 - 1 = d
      BY <1>1
    <3> QED
      BY <3>1, SubSeqRecursiveSecond
  <2> QED
    BY <1>2, <2>1, <2>2, AppendIsConcat
<1> QED
  BY <1>2, <1>4, <1>5, <1>6, <1>7, <1>8, <1>9

\* A phase with nothing left is the end of the message, and no transfer of
\* another is empty.
LEMMA PhaseFirst ==
  ASSUME OutTypes, NEW x \in Seq(Seq(Pkt)), Phase(x)
  PROVE  /\ x # <<>> => x[1] # <<>>
         /\ x = <<>> => AllReceived
<1>1. CASE x = <<>> /\ AllReceived
  BY <1>1
<1>2. ASSUME NEW n \in Lengths, UnderWay(Message(Len(written), n), n, x)
      PROVE  x # <<>> /\ x[1] # <<>>
  <2> DEFINE m == Message(Len(written), n)
  <2>1. m \in Msgs /\ n \in Nat /\ m.payload \in Seq(Pkt) /\ m.header \in Pkt
    BY MessageShape, PacketAssumption DEF OutTypes, Msgs
  <2> HIDE DEF m
  <2>2. CASE x = Transfers(m, n)
    <3>1. <<m.header>> # <<>>
      OBVIOUS
    <3> QED
      BY Zenon, <2>1, <2>2, <3>1, TransfersShape
  <2>3. ASSUME NEW d \in 0..(Len(m.payload) - 1), PayloadLeft(m, n, d, x)
        PROVE  x # <<>> /\ x[1] # <<>>
    <3> DEFINE r == SubSeq(m.payload, d + 1, Len(m.payload))
    <3>1. r \in Seq(Pkt) /\ r # <<>> /\ Zero(n) \in Seq(Seq(Pkt))
      BY <2>1, PayloadSplit, TransfersShape
    <3>2. x = <<r>> \o Zero(n)
      BY <2>3 DEF PayloadLeft
    <3> HIDE DEF r
    <3> QED
      BY Zenon, <3>1, <3>2, Cons
  <2>4. CASE x = <<<<ZeroPacket>>>>
    BY <2>4
  <2> QED
    BY Zenon, <1>2, <2>2, <2>3, <2>4 DEF UnderWay, m
<1> QED
  BY Zenon, <1>1, <1>2 DEF Phase

\* What the device makes of the packet p of the OUT transfers.
TakenEffect(p) ==
  LET data == IF p = ZeroPacket THEN devBuffer ELSE Append(devBuffer, p) IN
  \/ p.len = PacketSize /\ devBuffer' = data /\ UNCHANGED <<devHeader, devGot>>
  \/ p.len < PacketSize /\ devBuffer' = <<>> /\ Received(data)

\* The device gets the next of the messages.
GetsNext == Len(devGot) < Len(written) /\ devGot' = Append(devGot, written[Len(devGot) + 1])

\* What is left of the transfers x when a packet of the first was taken.
After(x) == IF Tail(x[1]) = <<>> THEN Tail(x) ELSE <<Tail(x[1])>> \o Tail(x)

\* The message under way is the next one.
LEMMA NextMessage ==
  ASSUME OutTypes, NEW m \in Msgs, written = Append(devGot, m)
  PROVE  /\ Len(written) = Len(devGot) + 1 /\ Len(written) \in Nat /\ Len(written) >= 1
         /\ Len(devGot) < Len(written) /\ written[Len(devGot) + 1] = m
<1>1. Len(devGot) \in Nat /\ devGot \in Seq(Msgs)
  BY DEF OutTypes
<1>2. Len(written) = Len(devGot) + 1 /\ written[Len(devGot) + 1] = m
  BY Zenon, <1>1, AppendProperties
<1> QED
  BY <1>1, <1>2

\* The header is taken.
LEMMA HeaderTaken ==
  ASSUME OutTypes, NEW n \in Lengths, written' = written, NEW x \in Seq(Seq(Pkt)),
         written = Append(devGot, Message(Len(written), n)),
         devHeader = None, devBuffer = <<>>, x = Transfers(Message(Len(written), n), n),
         TakenEffect(Head(x[1]))
  PROVE  Phase(After(x))' /\ (GetsNext \/ devGot' = devGot)
<1>0. Len(written) \in Nat /\ n \in Nat
  BY PacketAssumption DEF OutTypes
<1>p. PICK i \in Nat : i = Len(written)
  BY <1>0
<1>q. PICK m \in Msgs : m = Message(i, n)
  BY <1>0, MessageShape
<1>1. /\ m.header = Header(i, n) /\ m.payload = Payload(i, n)
      /\ m.header \in Pkt /\ m.header.msg = i /\ m.header.len = HeaderLen /\ m.header.data = n
  BY <1>0, <1>q, TheMessage
<1>1a. m = [header |-> m.header, payload |-> m.payload] /\ m.payload \in Seq(Pkt)
  BY <1>0, <1>q, TheMessage
<1>2. i >= 1 /\ Len(devGot) < i /\ written[Len(devGot) + 1] = m
  BY <1>p, <1>q, NextMessage
<1>3. /\ x[1] = <<m.header>>
      /\ n > 0 => Tail(x) = <<m.payload>> \o Zero(n)
      /\ n = 0 => Tail(x) = <<>>
  BY Zenon, <1>0, <1>p, <1>q, TransfersShape
<1>4. Head(x[1]) = m.header /\ Tail(x[1]) = <<>>
  BY <1>1, <1>3
<1>5. m.header # ZeroPacket /\ m.header.len < PacketSize /\ m.header.len # PacketSize
  BY <1>1, <1>2, ConstantPackets
<1>6. devBuffer' = <<>> /\ Received(<<m.header>>)
  <2>1. Append(<<>>, m.header) = <<m.header>>
    BY <1>1
  <2> QED
    BY Zenon, <1>4, <1>5, <2>1 DEF TakenEffect
<1>7. After(x) = Tail(x)
  BY Zenon, <1>4 DEF After
<1>8. <<m.header>>[1] = m.header /\ Tail(<<m.header>>) = <<>>
  BY <1>1
<1>9. CASE n > 0
  <2>1. devHeader' = m.header /\ devGot' = devGot
    <3>1. ~(m.header.data = 0)
      BY <1>1, <1>9
    <3> QED
      BY Zenon, <1>6, <1>8, <3>1 DEF Received
  <2>2. Len(m.payload) \in Nat /\ 0 \in 0..(Len(m.payload) - 1)
    <3>1. Len(m.payload) = Count(n) /\ Count(n) \in Nat /\ Count(n) >= 1
      BY <1>0, <1>q, <1>9, TheMessage, CountBounds
    <3> QED
      BY <3>1
  <2>3. SubSeq(m.payload, 1, 0) = <<>> /\ SubSeq(m.payload, 0 + 1, Len(m.payload)) = m.payload
    BY <1>1a, SubSeqFull, SubSeqEmpty
  <2>4. PayloadLeft(m, n, 0, Tail(x))'
    <3>1. Tail(x) = <<SubSeq(m.payload, 0 + 1, Len(m.payload))>> \o Zero(n)
      BY Zenon, <1>3, <1>9, <2>3
    <3> QED
      BY Zenon, <1>6, <2>3, <3>1 DEF PayloadLeft
  <2>5. UnderWay(m, n, Tail(x))'
    BY Zenon, <1>p, <1>q, <1>9, <2>1, <2>2, <2>4 DEF UnderWay
  <2> QED
    BY Zenon, <1>p, <1>q, <1>7, <2>1, <2>5 DEF Phase
<1>10. CASE n = 0
  <2>1. devGot' = Append(devGot, [header |-> m.header, payload |-> <<>>]) /\ devHeader' = devHeader
    <3>1. ~(m.header.data > 0)
      BY <1>1, <1>10
    <3> QED
      BY Zenon, <1>6, <1>8, <3>1 DEF Received
  <2>2. m = [header |-> m.header, payload |-> <<>>]
    BY Zenon, <1>0, <1>1, <1>1a, <1>10, PayloadLength
  <2>3. devGot' = Append(devGot, m)
    BY Zenon, <2>1, <2>2
  <2>4. GetsNext
    BY Zenon, <1>p, <1>2, <2>3 DEF GetsNext
  <2>5. AllReceived'
    BY Zenon, <1>p, <1>q, <2>1, <2>3, <1>6 DEF AllReceived
  <2> QED
    BY Zenon, <1>3, <1>7, <1>10, <2>4, <2>5 DEF Phase
<1> QED
  BY <1>0, <1>9, <1>10

\* A packet of the payload is taken.
LEMMA PayloadTaken ==
  ASSUME OutTypes, NEW n \in Lengths, written' = written, NEW x \in Seq(Seq(Pkt)),
         written = Append(devGot, Message(Len(written), n)), n > 0,
         devHeader = Message(Len(written), n).header,
         NEW d \in 0..(Len(Message(Len(written), n).payload) - 1),
         PayloadLeft(Message(Len(written), n), n, d, x),
         TakenEffect(Head(x[1]))
  PROVE  Phase(After(x))' /\ (GetsNext \/ devGot' = devGot)
<1>0. Len(written) \in Nat /\ n \in Nat
  BY PacketAssumption DEF OutTypes
<1>p. PICK i \in Nat : i = Len(written)
  BY <1>0
<1>q. PICK m \in Msgs : m = Message(i, n)
  BY <1>0, MessageShape
<1>r. PICK s \in Seq(Pkt) : s = m.payload
  BY DEF Msgs
<1>1. /\ m.header = Header(i, n) /\ s = Payload(i, n)
      /\ m.header \in Pkt /\ m.header.msg = i /\ Len(s) = Count(n) /\ Len(s) \in Nat
      /\ d \in 0..(Len(s) - 1) /\ d + 1 \in 1..Len(s)
  <2>1. m.header = Header(i, n) /\ m.payload = Payload(i, n) /\ m.header \in Pkt
        /\ m.header.msg = i
    BY <1>0, <1>q, TheMessage
  <2>2. Len(s) = Count(n) /\ s = Payload(i, n)
    BY <1>0, <1>q, <1>r, TheMessage
  <2>3. Len(s) \in Nat /\ d \in 0..(Len(s) - 1)
    BY <1>p, <1>q, <1>r
  <2>4. d + 1 \in 1..Len(s)
    BY <2>3
  <2> QED
    BY Zenon, <2>1, <2>2, <2>3, <2>4
<1>1a. m = [header |-> m.header, payload |-> s]
  BY <1>q, <1>r DEF Message
<1>2. i >= 1 /\ Len(devGot) < i /\ written[Len(devGot) + 1] = m
  BY <1>p, <1>q, NextMessage
<1>3. m.header # None
  BY <1>1, <1>2, ConstantPackets
<1>4. PICK r \in Seq(Pkt) : r = SubSeq(s, d + 1, Len(s))
  BY <1>1, PayloadSplit
<1>5. /\ r # <<>> /\ Head(r) = s[d + 1] /\ s[d + 1] \in Pkt /\ Tail(r) = SubSeq(s, d + 2, Len(s))
      /\ d + 1 = Len(s) => Tail(r) = <<>>
      /\ d + 1 < Len(s) => Tail(r) # <<>>
      /\ Append(SubSeq(s, 1, d), s[d + 1]) = SubSeq(s, 1, d + 1)
  <2>1. d \in 0..(Len(s) - 1)
    BY <1>1
  <2> HIDE <1>1
  <2> QED
    BY <2>1, <1>4, PayloadSplit
<1>6. devBuffer = SubSeq(s, 1, d) /\ x = <<r>> \o Zero(n)
  BY Zenon, <1>p, <1>q, <1>r, <1>4 DEF PayloadLeft
<1>7. x[1] = r /\ Tail(x) = Zero(n)
  <2>1. Zero(n) \in Seq(Seq(Pkt))
    BY <1>0, TransfersShape
  <2> QED
    BY Zenon, <1>6, <2>1, Cons
<1>8. /\ s[d + 1].msg = i
      /\ d + 1 < Len(s) => s[d + 1].len = PacketSize
      /\ d + 1 = Len(s) => (s[d + 1].len = PacketSize <=> NeedsZero(n))
  <2>1. d + 1 \in 1..Count(n)
    BY <1>1
  <2>2. /\ Payload(i, n)[d + 1].msg = i
        /\ d + 1 < Count(n) => Payload(i, n)[d + 1].len = PacketSize
        /\ d + 1 = Count(n) => (Payload(i, n)[d + 1].len = PacketSize <=> NeedsZero(n))
    <3>1. Payload(i, n)[d + 1].msg = i /\ Payload(i, n)[d + 1].len = Rest(n, d + 1)
      BY <1>0, <2>1, PayloadPacket
    <3>2. /\ d + 1 < Count(n) => Rest(n, d + 1) = PacketSize
          /\ d + 1 = Count(n) => (Rest(n, d + 1) = PacketSize <=> NeedsZero(n))
      BY <1>0, <2>1, RestBounds
    <3> QED
      BY Zenon, <3>1, <3>2
  <2> QED
    BY Zenon, <1>1, <2>2
<1>9. s[d + 1] # ZeroPacket
  BY <1>2, <1>8, ConstantPackets
<1>10. \/ s[d + 1].len = PacketSize /\ devBuffer' = SubSeq(s, 1, d + 1)
            /\ UNCHANGED <<devHeader, devGot>>
       \/ s[d + 1].len # PacketSize /\ devBuffer' = <<>> /\ Received(SubSeq(s, 1, d + 1))
  <2>1. s[d + 1].len < PacketSize => s[d + 1].len # PacketSize
    <3>1. s[d + 1].len \in Nat
      BY <1>5 DEF Pkt
    <3> QED
      BY <3>1, ConstantPackets
  <2> QED
    BY Zenon, <1>5, <1>6, <1>7, <1>9, <2>1 DEF TakenEffect
<1>11. CASE d + 1 < Len(s)
  <2>1. devBuffer' = SubSeq(s, 1, d + 1) /\ UNCHANGED <<devHeader, devGot>>
    BY Zenon, <1>8, <1>10, <1>11
  <2>2. After(x) = <<SubSeq(s, (d + 1) + 1, Len(s))>> \o Zero(n)
    <3>1. (d + 1) + 1 = d + 2
      BY <1>1
    <3> QED
      BY Zenon, <1>5, <1>7, <1>11, <3>1 DEF After
  <2>3. d + 1 \in 0..(Len(s) - 1)
    BY <1>1, <1>11
  <2>4. PayloadLeft(m, n, d + 1, After(x))'
    BY Zenon, <1>r, <2>1, <2>2 DEF PayloadLeft
  <2>5. UnderWay(m, n, After(x))'
    BY Zenon, <1>p, <1>q, <1>r, <2>1, <2>3, <2>4 DEF UnderWay
  <2> QED
    BY Zenon, <1>p, <1>q, <2>1, <2>5 DEF Phase
<1>12. CASE d + 1 = Len(s)
  <2>1. SubSeq(s, 1, d + 1) = s /\ After(x) = Zero(n)
    BY Zenon, <1>5, <1>7, <1>12, SubSeqFull DEF After
  <2>2. CASE NeedsZero(n)
    <3>1. devBuffer' = s /\ UNCHANGED <<devHeader, devGot>>
      BY Zenon, <1>8, <1>10, <1>12, <2>1, <2>2
    <3>2. After(x) = <<<<ZeroPacket>>>>
      BY Zenon, <2>1, <2>2 DEF Zero
    <3>3. UnderWay(m, n, After(x))'
      BY Zenon, <1>p, <1>q, <1>r, <2>2, <3>1, <3>2 DEF UnderWay
    <3> QED
      BY Zenon, <1>p, <1>q, <3>1, <3>3 DEF Phase
  <2>3. CASE ~NeedsZero(n)
    <3>1. devBuffer' = <<>> /\ Received(s)
      BY Zenon, <1>8, <1>10, <1>12, <2>1, <2>3
    <3>2. devHeader' = None /\ devGot' = Append(devGot, [header |-> m.header, payload |-> s])
      BY Zenon, <1>3, <1>p, <1>q, <3>1 DEF Received
    <3>3. devGot' = Append(devGot, m)
      BY Zenon, <1>1a, <3>2
    <3>4. GetsNext
      BY Zenon, <1>2, <1>p, <3>3 DEF GetsNext
    <3>5. AllReceived'
      BY Zenon, <1>p, <1>q, <3>1, <3>2, <3>3 DEF AllReceived
    <3>6. After(x) = <<>>
      BY Zenon, <2>1, <2>3 DEF Zero
    <3> QED
      BY Zenon, <3>4, <3>5, <3>6 DEF Phase
  <2> QED
    BY Zenon, <2>2, <2>3
<1> QED
  BY <1>1, <1>11, <1>12

\* The empty packet behind a full one is taken.
LEMMA ZeroTaken ==
  ASSUME OutTypes, NEW n \in Lengths, written' = written, NEW x \in Seq(Seq(Pkt)),
         written = Append(devGot, Message(Len(written), n)),
         devHeader = Message(Len(written), n).header,
         devBuffer = Message(Len(written), n).payload, x = <<<<ZeroPacket>>>>,
         TakenEffect(Head(x[1]))
  PROVE  Phase(After(x))' /\ GetsNext
<1>0. Len(written) \in Nat /\ n \in Nat
  BY PacketAssumption DEF OutTypes
<1>p. PICK i \in Nat : i = Len(written)
  BY <1>0
<1>q. PICK m \in Msgs : m = Message(i, n)
  BY <1>0, MessageShape
<1>1. m.header.msg = i /\ m = [header |-> m.header, payload |-> m.payload]
  BY <1>0, <1>q, MessageShape DEF Message
<1>2. i >= 1 /\ Len(devGot) < i /\ written[Len(devGot) + 1] = m
  BY <1>p, <1>q, NextMessage
<1>3. m.header # None
  BY <1>1, <1>2, ConstantPackets
<1>4. x[1] = <<ZeroPacket>> /\ Head(x[1]) = ZeroPacket /\ Tail(x[1]) = <<>> /\ Tail(x) = <<>>
  BY ConstantPackets
<1>5. ZeroPacket.len # PacketSize
  BY ConstantPackets
<1>6. devBuffer' = <<>> /\ Received(m.payload)
  BY Zenon, <1>4, <1>5, <1>p, <1>q DEF TakenEffect
<1>7. devHeader' = None /\ devGot' = Append(devGot, [header |-> m.header, payload |-> m.payload])
  BY Zenon, <1>3, <1>6, <1>p, <1>q DEF Received
<1>8. devGot' = Append(devGot, m)
  BY Zenon, <1>1, <1>7
<1>9. GetsNext
  BY Zenon, <1>2, <1>p, <1>8 DEF GetsNext
<1>10. AllReceived'
  BY Zenon, <1>p, <1>q, <1>6, <1>7, <1>8 DEF AllReceived
<1> QED
  BY Zenon, <1>4, <1>9, <1>10 DEF Phase, After

\* A packet is taken: the next phase, and the next message if it was the last.
LEMMA TakenPhase ==
  ASSUME OutTypes, written' = written, NEW x \in Seq(Seq(Pkt)), Phase(x), x # <<>>,
         TakenEffect(Head(x[1]))
  PROVE  Phase(After(x))' /\ (GetsNext \/ devGot' = devGot)
<1>1. PICK n \in Lengths : UnderWay(Message(Len(written), n), n, x)
  BY Zenon DEF Phase
<1> QED
  BY Zenon, <1>1, HeaderTaken, PayloadTaken, ZeroTaken DEF UnderWay

\* Types of what the device has.
LEMMA TakenTypes ==
  ASSUME OutTypes, NEW p \in Pkt, TakenEffect(p), written' = written,
         out_queue' \in Seq(Seq(Pkt)), GetsNext \/ devGot' = devGot,
         NEW y \in Seq(Seq(Pkt)), Phase(y)'
  PROVE  OutTypes'
<1>1. Append(devBuffer, p) \in Seq(Pkt) /\ <<>> \in Seq(Pkt) /\ devBuffer \in Seq(Pkt)
  BY DEF OutTypes
<1>2. PICK data \in Seq(Pkt) :
        \/ devBuffer' = data /\ UNCHANGED <<devHeader, devGot>>
        \/ devBuffer' = <<>> /\ Received(data)
  BY Zenon, <1>1 DEF TakenEffect
<1>3. devBuffer' \in Seq(Pkt)
  BY Zenon, <1>1, <1>2
<1>4. devGot' \in Seq(Msgs)
  <2>1. CASE devGot' = devGot
    BY <2>1 DEF OutTypes
  <2>2. CASE GetsNext
    <3>1. Len(devGot) + 1 \in 1..Len(written)
      BY <2>2 DEF GetsNext, OutTypes
    <3>2. written[Len(devGot) + 1] \in Msgs
      BY <3>1 DEF OutTypes
    <3> QED
      BY <2>2, <3>2 DEF GetsNext, OutTypes
  <2> QED
    BY <2>1, <2>2
<1>5. devHeader' \in Pkt
  <2>1. CASE AllReceived'
    BY <2>1, ConstantPackets DEF AllReceived
  <2>2. ASSUME NEW n \in Lengths, UnderWay(Message(Len(written), n), n, y)'
        PROVE  devHeader' \in Pkt
    <3>1. Message(Len(written), n).header \in Pkt
      BY MessageShape, PacketAssumption DEF OutTypes
    <3> QED
      BY Zenon, <2>2, <3>1, ConstantPackets DEF UnderWay
  <2> QED
    BY Zenon, <2>1, <2>2 DEF Phase
<1> QED
  BY Zenon, <1>3, <1>4, <1>5 DEF OutTypes

\* The OUT transfers move on.
LEMMA TakenStep ==
  ASSUME OutInv, Taken
  PROVE  OutInv' /\ written' = written /\ (GetsNext \/ devGot' = devGot)
<1>1. PICK j \in DOMAIN out_queue :
        /\ writer # "failed" /\ out_queue[j] # <<>> /\ \A k \in 1..(j - 1) : out_queue[k] = <<>>
        /\ out_queue' = [out_queue EXCEPT ![j] = Tail(@)]
        /\ writer' = IF writer = "parked" /\ Len(out_queue[j]) = 1 THEN "flush" ELSE writer
        /\ TakenEffect(Head(out_queue[j]))
        /\ written' = written
  BY DEF Taken, TakenEffect
<1>2. OutTypes /\ out_queue \in Seq(Seq(Pkt)) /\ j \in 1..Len(out_queue)
  BY <1>1 DEF OutInv, OutTypes
<1>3. PICK x \in Seq(Seq(Pkt)) : Left(out_queue, x) /\ Phase(x)
  BY Zenon, <1>1 DEF OutInv
<1>4. x # <<>> => x[1] # <<>>
  BY <1>2, <1>3, PhaseFirst
<1>5. /\ x # <<>> /\ out_queue[j] = x[1]
      /\ Left(out_queue', <<Tail(x[1])>> \o Tail(x))
      /\ Tail(x[1]) = <<>> => Left(out_queue', Tail(x))
  BY Zenon, <1>1, <1>2, <1>3, <1>4, LeftTaken
<1>6. Left(out_queue', After(x))
  BY Zenon, <1>5 DEF After
<1>7. Phase(After(x))' /\ (GetsNext \/ devGot' = devGot)
  BY Zenon, <1>1, <1>2, <1>3, <1>5, TakenPhase
<1>8. x[1] \in Seq(Pkt) /\ x[1] # <<>> /\ 1 \in 1..Len(x)
  BY <1>4, <1>5
<1>9. Head(x[1]) \in Pkt /\ Tail(x[1]) \in Seq(Pkt)
  BY <1>8
<1>10. out_queue' \in Seq(Seq(Pkt))
  BY <1>1, <1>2, <1>5, <1>9
<1>12. After(x) \in Seq(Seq(Pkt))
  <2>1. Tail(x) \in Seq(Seq(Pkt))
    BY <1>5
  <2>2. <<Tail(x[1])>> \o Tail(x) \in Seq(Seq(Pkt))
    BY <1>9, <2>1, Cons
  <2> QED
    BY Zenon, <2>1, <2>2 DEF After
<1>13. writer # "write"
  <2> SUFFICES ASSUME writer = "write" PROVE FALSE
    OBVIOUS
  <2>1. out_queue = <<>>
    BY Zenon DEF OutInv
  <2> QED
    BY <1>1, <2>1
<1>14. writer' # "write"
  BY <1>1, <1>13
<1>16. PICK y \in Seq(Seq(Pkt)) : y = After(x)
  BY <1>12
<1>17. Left(out_queue', y) /\ Phase(y)'
  BY Zenon, <1>6, <1>7, <1>16
<1>18. OutTypes'
  BY Zenon, <1>1, <1>2, <1>5, <1>7, <1>9, <1>10, <1>17, TakenTypes
<1> QED
  BY Zenon, <1>1, <1>7, <1>14, <1>17, <1>18 DEF OutInv

\* poll_flush takes out what is completed; it is Ready only at the end.
LEMMA FlushStep == ASSUME OutInv, PollFlush PROVE OutInv' /\ UNCHANGED <<written, devGot>>
<1>1. writer = "flush" /\ UNCHANGED <<written, devBuffer, devHeader, devGot>>
  BY Zenon DEF PollFlush
<1>2. writer # "failed"
  BY <1>1
<1>3. PICK x \in Seq(Seq(Pkt)) : Left(out_queue, x) /\ Phase(x)
  BY Zenon, <1>2 DEF OutInv
<1>4. OutTypes /\ out_queue \in Seq(Seq(Pkt))
  BY Zenon DEF OutInv, OutTypes
<1>5. (x # <<>> => x[1] # <<>>) /\ (x = <<>> => AllReceived)
  BY Zenon, <1>3, <1>4, PhaseFirst
<1>6. Remaining = x
  BY Zenon, <1>3, <1>4, <1>5, LeftRemaining
<1>7. \/ x = <<>> /\ writer' = "write" /\ out_queue' = x
      \/ x # <<>> /\ writer' = "parked" /\ out_queue' = x
      \/ x # <<>> /\ writer' = "failed" /\ out_queue' = Tail(x)
  BY Zenon, <1>6 DEF PollFlush, FlushReady
<1>8. Tail(x) \in Seq(Seq(Pkt)) \/ x = <<>>
  BY HeadTailProperties
<1>9. OutTypes'
  BY Zenon, <1>1, <1>4, <1>7, <1>8 DEF OutTypes
<1>10. Phase(x)' /\ (AllReceived => AllReceived')
  BY Zenon, <1>1, <1>3 DEF Phase, UnderWay, PayloadLeft, AllReceived
<1>11. writer' # "failed" => Left(out_queue', x)
  <2>1. Left(x, x)
    BY LeftSelf
  <2> QED
    BY Zenon, <1>7, <2>1
<1>12. writer' = "write" => out_queue' = <<>> /\ AllReceived'
  <2>1. "parked" # "write" /\ "failed" # "write"
    OBVIOUS
  <2> QED
    BY Zenon, <1>5, <1>7, <1>10, <2>1
<1> QED
  BY Zenon, <1>1, <1>9, <1>10, <1>11, <1>12 DEF OutInv

\* write_message puts the next message under way.
LEMMA WriteStep ==
  ASSUME OutInv, NEW n \in Lengths, WriteMessage(n)
  PROVE  /\ OutInv' /\ devGot' = devGot
         /\ written' = Append(written, Message(Len(written) + 1, n))
<1>0. written \in Seq(Msgs) /\ Len(written) \in Nat /\ n \in Nat
  BY PacketAssumption DEF OutInv, OutTypes
<1>1. PICK m \in Msgs : m = Message(Len(written) + 1, n)
  BY <1>0, MessageShape
<1>2. /\ writer = "write" /\ writer' = "flush" /\ written' = Append(written, m)
      /\ out_queue' = out_queue \o Transfers(m, n) /\ UNCHANGED <<devBuffer, devHeader, devGot>>
  BY Zenon, <1>1 DEF WriteMessage
<1>3. out_queue = <<>> /\ AllReceived
  BY Zenon, <1>2 DEF OutInv
<1>4. Transfers(m, n) \in Seq(Seq(Pkt))
  BY Zenon, <1>0, TransfersShape
<1>5. out_queue' = Transfers(m, n)
  BY <1>2, <1>3, <1>4, ConcatEmptySeq
<1>6. Len(written') = Len(written) + 1 /\ written' \in Seq(Msgs)
  BY Zenon, <1>0, <1>2, AppendProperties
<1>7. OutTypes'
  BY Zenon, <1>2, <1>4, <1>5, <1>6 DEF OutInv, OutTypes
<1>8. m = Message(Len(written'), n)
  BY Zenon, <1>1, <1>6
<1>9. UnderWay(m, n, Transfers(m, n))'
  BY Zenon, <1>2, <1>3 DEF UnderWay, AllReceived
<1>10. PICK x \in Seq(Seq(Pkt)) : x = Transfers(m, n)
  BY <1>4
<1>11. UnderWay(m, n, x)' /\ Left(out_queue', x)
  <2>1. Left(x, x)
    BY LeftSelf
  <2> QED
    BY Zenon, <1>5, <1>9, <1>10, <2>1
<1>12. Phase(x)'
  BY Zenon, <1>8, <1>11 DEF Phase
<1>13. "flush" # "write" /\ "flush" # "failed"
  OBVIOUS
<1> QED
  BY Zenon, <1>1, <1>2, <1>7, <1>11, <1>12, <1>13 DEF OutInv

\* The steps of the IN direction leave the OUT direction alone.
LEMMA OutSteps ==
  ASSUME OutInv, Next
  PROVE  /\ OutInv'
         /\ \/ UNCHANGED <<written, devGot>>
            \/ written' = written /\ GetsNext
            \/ /\ devGot' = devGot
               /\ \E n \in Lengths : written' = Append(written, Message(Len(written) + 1, n))
<1>1. ASSUME UNCHANGED outVars PROVE OutInv' /\ UNCHANGED <<written, devGot>>
  BY Zenon, <1>1 DEF outVars, OutInv, OutTypes, Phase, AllReceived, UnderWay, PayloadLeft
<1>2. ASSUME NEW n \in Lengths, DevSend(n) PROVE UNCHANGED outVars
  BY Zenon, <1>2 DEF DevSend
<1>3. ASSUME NEW lost \in BOOLEAN, Transferred(lost) PROVE UNCHANGED outVars
  BY Zenon, <1>3 DEF Transferred
<1>4. ASSUME PollFirst \/ PollPending \/ PollPayload \/ PollHeader \/ PollError \/ Timeout
      PROVE  UNCHANGED outVars
  BY Zenon, <1>4 DEF PollFirst, PollPending, PollPayload, PollHeader, PollError, Timeout
<1> QED
  BY Zenon, <1>1, <1>2, <1>3, <1>4, TakenStep, FlushStep, WriteStep DEF Next

LEMMA OutInit == Init => OutInv
<1> SUFFICES ASSUME Init PROVE OutInv
  OBVIOUS
<1>1. OutTypes
  BY ConstantPackets DEF Init, OutTypes
<1>2. PICK x \in Seq(Seq(Pkt)) : x = <<>>
  BY Zenon, EmptySeq
<1>3. Left(out_queue, x)
  BY Zenon, <1>2, LeftSelf DEF Init
<1>4. Phase(x) /\ writer # "write"
  BY <1>2 DEF Init, Phase, AllReceived
<1> QED
  BY Zenon, <1>1, <1>3, <1>4 DEF OutInv

LEMMA OutInductive == Spec => []OutInv
<1>1. ASSUME OutInv, UNCHANGED vars PROVE OutInv'
  BY Zenon, <1>1 DEF vars, outVars, OutInv, OutTypes, Phase, AllReceived, UnderWay, PayloadLeft
<1>2. ASSUME OutInv, Next PROVE OutInv'
  BY Zenon, <1>2, OutSteps
<1> QED
  BY <1>1, <1>2, OutInit, PTL DEF Spec

\* A poll_flush that is Ready leaves nothing pending (the assertion of the next
\* write_message holds) and the device has every message that was written.
THEOREM FlushReadyMeansReceived == Spec => []FlushComplete
<1>1. OutInv => FlushComplete
  BY Zenon DEF OutInv, FlushComplete, AllReceived
<1> QED
  BY <1>1, OutInductive, PTL

\* The device gets the messages passed to write_message, whole and in order: the
\* OUT direction implements the abstract pipe of messages, with the packets that
\* mark the end of a payload and for every packet size.
THEOREM OutImplementsPipe == Spec => OutFramed
<1>1. ASSUME Init PROVE Out!PipeInit
  BY <1>1 DEF Init, Out!PipeInit
<1>2. ASSUME OutInv, Next PROVE [Out!Put \/ Out!Get]_<<written, devGot>>
  <2>1. CASE UNCHANGED <<written, devGot>>
    BY <2>1
  <2>2. CASE written' = written /\ GetsNext
    BY Zenon, <2>2 DEF GetsNext, Out!Get
  <2>3. ASSUME devGot' = devGot, NEW n \in Lengths,
               written' = Append(written, Message(Len(written) + 1, n))
        PROVE  Out!Put
    <3>1. written \in Seq(Msgs) /\ Len(written) \in Nat /\ n \in Nat
      BY <1>2, PacketAssumption DEF OutInv, OutTypes
    <3>2. PICK m \in Msgs : m = Message(Len(written) + 1, n)
      BY <3>1, MessageShape
    <3>3. Len(written') = Len(written) + 1 /\ SubSeq(written', 1, Len(written)) = written
      BY <2>3, <3>1, <3>2
    <3> QED
      BY Zenon, <2>3, <3>3 DEF Out!Put
  <2> QED
    BY Zenon, <1>2, <2>1, <2>2, <2>3, OutSteps
<1>3. ASSUME UNCHANGED vars PROVE UNCHANGED <<written, devGot>>
  BY Zenon, <1>3 DEF vars, outVars
<1> QED
  BY <1>1, <1>2, <1>3, OutInductive, PTL DEF Spec, OutFramed, Out!PipeSpec

-----------------------------------------------------------------------------
(* The IN direction.  The packets that are not transferred yet are numbered   *)
(* without gaps to the last packet of the last message; the transfers of      *)
(* poll_read_message are in step with them.                                   *)

DataLen(i) == devSent[i].header.data

SentInv ==
  /\ devSent \in Seq(Msgs) /\ pipe \in Seq(Pkt)
  /\ \A i \in 1..Len(devSent) : DataLen(i) \in Lengths /\ devSent[i] = Message(i, DataLen(i))

PacketAt(i, k) == IF k = 0 THEN devSent[i].header ELSE devSent[i].payload[k]

\* Packet l of message j comes after packet k of message i.
Succ(i, k, j, l) ==
  IF k = Count(DataLen(i)) THEN j = i + 1 /\ l = 0 ELSE j = i /\ l = k + 1

PipeInv ==
  /\ \A a \in 1..Len(pipe) :
       /\ pipe[a].msg \in 1..Len(devSent) /\ pipe[a].index \in 0..Count(DataLen(pipe[a].msg))
       /\ pipe[a] = PacketAt(pipe[a].msg, pipe[a].index)
  /\ \A a \in 1..(Len(pipe) - 1) :
       Succ(pipe[a].msg, pipe[a].index, pipe[a + 1].msg, pipe[a + 1].index)
  /\ pipe # <<>> => /\ pipe[Len(pipe)].msg = Len(devSent)
                    /\ pipe[Len(pipe)].index = Count(DataLen(Len(devSent)))

\* Packet k of message i is the next to be transferred.
At(i, k) ==
  IF pipe = <<>> THEN i = Len(devSent) + 1 /\ k = 0
                 ELSE pipe[1].msg = i /\ pipe[1].index = k

\* The messages the device has sent, and their packets.
LEMMA SentMessage ==
  ASSUME SentInv, NEW i \in 1..Len(devSent)
  PROVE  /\ DataLen(i) \in Nat /\ DataLen(i) \in Lengths /\ i \in Nat
         /\ devSent[i] = Message(i, DataLen(i)) /\ devSent[i] \in Msgs
         /\ devSent[i] = [header |-> devSent[i].header, payload |-> devSent[i].payload]
         /\ devSent[i].header = Header(i, DataLen(i)) /\ devSent[i].header \in Pkt
         /\ devSent[i].header.msg = i /\ devSent[i].header.index = 0
         /\ devSent[i].header.len = HeaderLen
         /\ devSent[i].payload = Payload(i, DataLen(i)) /\ devSent[i].payload \in Seq(Pkt)
         /\ Len(devSent[i].payload) = Count(DataLen(i)) /\ Count(DataLen(i)) \in Nat
<1>1. Len(devSent) \in Nat /\ i \in Nat
  BY DEF SentInv
<1>2. DataLen(i) \in Lengths /\ DataLen(i) \in Nat /\ devSent[i] = Message(i, DataLen(i))
  BY PacketAssumption DEF SentInv
<1>3. Count(DataLen(i)) \in Nat
  BY <1>2, CountBounds
<1> HIDE DEF DataLen
<1> QED
  BY <1>1, <1>2, <1>3, TheMessage

LEMMA PipeHead ==
  ASSUME SentInv, PipeInv, pipe # <<>>, NEW i, NEW k, At(i, k)
  PROVE  /\ i \in 1..Len(devSent) /\ k \in 0..Count(DataLen(i)) /\ Head(pipe) = PacketAt(i, k)
         /\ Len(pipe) \in Nat /\ Len(pipe) >= 1
<1>1. Len(pipe) \in Nat /\ Len(pipe) >= 1 /\ 1 \in 1..Len(pipe) /\ Head(pipe) = pipe[1]
  BY DEF SentInv
<1>2. pipe[1].msg = i /\ pipe[1].index = k
  BY DEF At
<1> QED
  BY Zenon, <1>1, <1>2 DEF PipeInv

LEMMA PipeTail ==
  ASSUME SentInv, PipeInv, pipe # <<>>, pipe' = Tail(pipe), devSent' = devSent,
         NEW i, NEW k, At(i, k)
  PROVE  /\ SentInv' /\ PipeInv'
         /\ k = Count(DataLen(i)) => At(i + 1, 0)'
         /\ k # Count(DataLen(i)) => At(i, k + 1)'
<1>1. /\ Len(pipe) \in Nat /\ Len(pipe) >= 1
      /\ i \in 1..Len(devSent) /\ k \in 0..Count(DataLen(i))
  BY PipeHead
<1>2. /\ pipe' \in Seq(Pkt) /\ Len(pipe') = Len(pipe) - 1
      /\ \A a \in 1..(Len(pipe) - 1) : pipe'[a] = pipe[a + 1]
  BY HeadTailProperties DEF SentInv
<1>3. SentInv'
  BY Zenon, <1>2 DEF SentInv, DataLen
<1>4. pipe[1].msg = i /\ pipe[1].index = k
  BY DEF At
<1>5. ASSUME NEW a \in 1..Len(pipe')
      PROVE  /\ pipe'[a].msg \in 1..Len(devSent)
             /\ pipe'[a].index \in 0..Count(DataLen(pipe'[a].msg))
             /\ pipe'[a] = PacketAt(pipe'[a].msg, pipe'[a].index)
  <2>1. a + 1 \in 1..Len(pipe) /\ pipe'[a] = pipe[a + 1]
    BY <1>1, <1>2
  <2> QED
    BY Zenon, <2>1 DEF PipeInv
<1>6. ASSUME NEW a \in 1..(Len(pipe') - 1)
      PROVE  Succ(pipe'[a].msg, pipe'[a].index, pipe'[a + 1].msg, pipe'[a + 1].index)
  <2>1. /\ a + 1 \in 1..(Len(pipe) - 1) /\ pipe'[a] = pipe[a + 1]
        /\ pipe'[a + 1] = pipe[(a + 1) + 1]
    BY <1>1, <1>2
  <2> QED
    BY Zenon, <2>1 DEF PipeInv
<1>7. CASE Len(pipe) = 1
  <2>1. pipe' = <<>>
    BY <1>2, <1>7
  <2>2. i = Len(devSent) /\ k = Count(DataLen(i))
    BY Zenon, <1>4, <1>7 DEF PipeInv
  <2>3. At(i + 1, 0)'
    BY Zenon, <2>1, <2>2 DEF At
  <2>4. PipeInv'
    BY Zenon, <1>5, <1>6, <2>1 DEF PipeInv, Succ, PacketAt, DataLen
  <2> QED
    BY Zenon, <1>3, <2>2, <2>3, <2>4
<1>8. CASE Len(pipe) # 1
  <2>1. /\ 1 \in 1..(Len(pipe) - 1) /\ pipe' # <<>> /\ pipe'[1] = pipe[1 + 1]
        /\ pipe'[Len(pipe')] = pipe[Len(pipe)]
    <3>1. 1 \in 1..(Len(pipe) - 1) /\ Len(pipe') # 0 /\ Len(pipe') \in 1..(Len(pipe) - 1)
          /\ Len(pipe') + 1 = Len(pipe)
      BY <1>1, <1>2, <1>8
    <3>2. pipe' # <<>>
      BY Zenon, <3>1, EmptySeq
    <3> QED
      BY Zenon, <1>2, <3>1, <3>2
  <2>2. Succ(i, k, pipe'[1].msg, pipe'[1].index)
    BY Zenon, <1>4, <2>1 DEF PipeInv
  <2>3. /\ k = Count(DataLen(i)) => At(i + 1, 0)'
        /\ k # Count(DataLen(i)) => At(i, k + 1)'
    BY Zenon, <2>1, <2>2 DEF At, Succ
  <2>4. pipe'[Len(pipe')].msg = Len(devSent)
        /\ pipe'[Len(pipe')].index = Count(DataLen(Len(devSent)))
    BY Zenon, <2>1 DEF PipeInv
  <2>5. PipeInv'
    BY Zenon, <1>5, <1>6, <2>4 DEF PipeInv, Succ, PacketAt, DataLen
  <2> QED
    BY Zenon, <1>3, <2>3, <2>5
<1> QED
  BY Zenon, <1>7, <1>8

\* The packets of pipe after DevSend.
LEMMA SendElements ==
  ASSUME NEW q \in Seq(Pkt), NEW h \in Pkt, NEW s \in Seq(Pkt), NEW r, r = q \o <<h>> \o s
  PROVE  /\ r \in Seq(Pkt) /\ Len(r) = Len(q) + 1 + Len(s) /\ r # <<>>
         /\ \A a \in 1..Len(q) : r[a] = q[a]
         /\ r[Len(q) + 1] = h
         /\ \A k \in 1..Len(s) : r[Len(q) + 1 + k] = s[k]
<1>1. Len(q) \in Nat /\ Len(s) \in Nat
  OBVIOUS
<1>2. PICK t \in Seq(Pkt) : t = q \o <<h>>
  <2>1. <<h>> \in Seq(Pkt)
    OBVIOUS
  <2> QED
    BY Zenon, <2>1, ConcatProperties
<1>3. Len(t) = Len(q) + 1 /\ t[Len(q) + 1] = h /\ \A a \in 1..Len(q) : t[a] = q[a]
  <2>1. <<h>> \in Seq(Pkt) /\ Len(<<h>>) = 1 /\ <<h>>[1] = h
    OBVIOUS
  <2>2. /\ Len(t) = Len(q) + Len(<<h>>)
        /\ \A a \in 1..(Len(q) + Len(<<h>>)) : t[a] = IF a <= Len(q) THEN q[a] ELSE <<h>>[a - Len(q)]
    BY Zenon, <1>2, <2>1, ConcatProperties
  <2>3. Len(t) = Len(q) + 1
    BY <1>1, <2>1, <2>2
  <2>4. Len(q) + 1 \in 1..(Len(q) + 1) /\ ~(Len(q) + 1 <= Len(q)) /\ (Len(q) + 1) - Len(q) = 1
    BY <1>1
  <2>5. t[Len(q) + 1] = h
    BY Zenon, <2>1, <2>2, <2>4
  <2>6. ASSUME NEW a \in 1..Len(q) PROVE t[a] = q[a]
    <3>1. a \in 1..(Len(q) + 1) /\ a <= Len(q)
      BY <1>1
    <3> QED
      BY Zenon, <2>1, <2>2, <3>1
  <2> QED
    BY Zenon, <2>3, <2>5, <2>6
<1>4. r = t \o s
  BY <1>2
<1>5. /\ r \in Seq(Pkt) /\ Len(r) = Len(t) + Len(s)
      /\ \A a \in 1..(Len(t) + Len(s)) : r[a] = IF a <= Len(t) THEN t[a] ELSE s[a - Len(t)]
  <2>1. /\ t \o s \in Seq(Pkt) /\ Len(t \o s) = Len(t) + Len(s)
        /\ \A a \in 1..(Len(t) + Len(s)) : (t \o s)[a] = IF a <= Len(t) THEN t[a] ELSE s[a - Len(t)]
    BY Zenon, ConcatProperties
  <2> QED
    BY Zenon, <1>4, <2>1
<1>6. r # <<>>
  BY <1>1, <1>3, <1>5
<1>7. \A a \in 1..Len(q) : r[a] = q[a]
  BY <1>1, <1>3, <1>5
<1>8. r[Len(q) + 1] = h
  BY <1>1, <1>3, <1>5
<1>9. ASSUME NEW k \in 1..Len(s) PROVE r[Len(q) + 1 + k] = s[k]
  <2>1. /\ Len(q) + 1 + k \in 1..(Len(t) + Len(s)) /\ ~(Len(q) + 1 + k <= Len(t))
        /\ (Len(q) + 1 + k) - Len(t) = k
    BY <1>1, <1>3
  <2> QED
    BY <1>5, <2>1
<1> QED
  BY <1>1, <1>3, <1>5, <1>6, <1>7, <1>8, <1>9

\* The device sends a message.
LEMMA SendStep ==
  ASSUME SentInv, PipeInv, NEW n \in Lengths, DevSend(n)
  PROVE  /\ SentInv' /\ PipeInv'
         /\ \A i, k : At(i, k) => At(i, k)'
         /\ Len(devSent') = Len(devSent) + 1
         /\ \A i \in 1..Len(devSent) : devSent'[i] = devSent[i] /\ DataLen(i)' = DataLen(i)
         /\ SubSeq(devSent', 1, Len(devSent)) = devSent
<1>0. devSent \in Seq(Msgs) /\ pipe \in Seq(Pkt) /\ Len(devSent) \in Nat /\ Len(pipe) \in Nat
      /\ n \in Nat
  BY PacketAssumption DEF SentInv
<1>1. PICK e \in Nat : e = Len(devSent) + 1
  BY <1>0
<1>2. PICK m : m = Message(e, n)
  OBVIOUS
<1>3. /\ m \in Msgs /\ m.header \in Pkt /\ m.header.msg = e /\ m.header.index = 0
      /\ m.header.data = n
      /\ m.payload = Payload(e, n) /\ m.payload \in Seq(Pkt) /\ Len(m.payload) = Count(n)
  BY <1>0, <1>2, TheMessage
<1>4. devSent' = Append(devSent, m) /\ pipe' = pipe \o <<m.header>> \o m.payload
  BY Zenon, <1>1, <1>2 DEF DevSend
<1>5. /\ devSent' \in Seq(Msgs) /\ Len(devSent') = e
      /\ \A i \in 1..Len(devSent) : devSent'[i] = devSent[i]
      /\ devSent'[e] = m
  <2>1. /\ devSent' \in Seq(Msgs) /\ Len(devSent') = Len(devSent) + 1
        /\ \A i \in 1..Len(devSent) : devSent'[i] = devSent[i]
        /\ devSent'[Len(devSent) + 1] = m
    BY <1>0, <1>3, <1>4, AppendProperties
  <2> QED
    BY Zenon, <1>1, <2>1
<1>6. SubSeq(devSent', 1, Len(devSent)) = devSent
  BY <1>0, <1>3, <1>4
<1>7. /\ \A i \in 1..Len(devSent) : DataLen(i)' = DataLen(i)
      /\ DataLen(e)' = n
  BY Zenon, <1>3, <1>5 DEF DataLen
<1>8. \A i \in 1..Len(devSent') : i \in 1..Len(devSent) \/ i = e
  BY <1>0, <1>1, <1>5
<1>9. PICK c \in Nat : c = Count(n)
  BY <1>0, CountBounds
<1>10. PICK L \in Nat : L = Len(pipe)
  BY <1>0
<1>11. /\ pipe' \in Seq(Pkt) /\ Len(pipe') = L + 1 + c /\ pipe' # <<>>
       /\ \A a \in 1..L : pipe'[a] = pipe[a]
       /\ pipe'[L + 1] = m.header
       /\ \A k \in 1..c : pipe'[L + 1 + k] = m.payload[k]
  <2>1. /\ pipe' \in Seq(Pkt) /\ Len(pipe') = Len(pipe) + 1 + Len(m.payload) /\ pipe' # <<>>
        /\ \A a \in 1..Len(pipe) : pipe'[a] = pipe[a]
        /\ pipe'[Len(pipe) + 1] = m.header
        /\ \A k \in 1..Len(m.payload) : pipe'[Len(pipe) + 1 + k] = m.payload[k]
    <3>1. PICK h \in Pkt : h = m.header
      BY <1>3
    <3>2. PICK t \in Seq(Pkt) : t = m.payload
      BY <1>3
    <3>3. pipe' = pipe \o <<h>> \o t
      BY Zenon, <1>4, <3>1, <3>2
    <3>4. /\ pipe' \in Seq(Pkt) /\ Len(pipe') = Len(pipe) + 1 + Len(t) /\ pipe' # <<>>
          /\ \A a \in 1..Len(pipe) : pipe'[a] = pipe[a]
          /\ pipe'[Len(pipe) + 1] = h
          /\ \A k \in 1..Len(t) : pipe'[Len(pipe) + 1 + k] = t[k]
      BY <1>0, <3>3, SendElements
    <3> QED
      BY Zenon, <3>1, <3>2, <3>4
  <2> QED
    BY Zenon, <2>1, <1>3, <1>9, <1>10
<1>12. SentInv'
  <2>1. ASSUME NEW i \in 1..Len(devSent')
        PROVE  DataLen(i)' \in Lengths /\ devSent'[i] = Message(i, DataLen(i)')
    <3>1. CASE i \in 1..Len(devSent)
      BY Zenon, <3>1, <1>5, <1>7 DEF SentInv
    <3>2. CASE i = e
      BY Zenon, <3>2, <1>2, <1>5, <1>7
    <3> QED
      BY Zenon, <1>8, <3>1, <3>2
  <2> QED
    BY Zenon, <2>1, <1>5, <1>11 DEF SentInv
\* Where the packets of pipe' come from: index 0 to c of message e, at L + 1 on.
<1>13. \A k \in 0..c : /\ pipe'[L + 1 + k] = PacketAt(e, k)'
                       /\ pipe'[L + 1 + k].msg = e /\ pipe'[L + 1 + k].index = k
  <2> SUFFICES ASSUME NEW k \in 0..c
               PROVE  /\ pipe'[L + 1 + k] = PacketAt(e, k)'
                      /\ pipe'[L + 1 + k].msg = e /\ pipe'[L + 1 + k].index = k
    OBVIOUS
  <2>1. CASE k = 0
    <3>1. L + 1 + k = L + 1
      BY <2>1
    <3> QED
      BY Zenon, <2>1, <3>1, <1>3, <1>5, <1>11 DEF PacketAt
  <2>2. CASE k # 0
    <3>1. k \in 1..c /\ k \in 1..Count(n)
      BY <2>2, <1>9
    <3>2. Payload(e, n)[k].msg = e /\ Payload(e, n)[k].index = k
      BY <1>0, <3>1, PayloadPacket
    <3>3. pipe'[L + 1 + k] = m.payload[k]
      BY <3>1, <1>11
    <3>4. PacketAt(e, k)' = m.payload[k]
      BY Zenon, <2>2, <1>5 DEF PacketAt
    <3> QED
      BY Zenon, <1>3, <3>2, <3>3, <3>4
  <2> QED
    BY <2>1, <2>2
<1>14. \A a \in 1..Len(pipe') : a \in 1..L \/ \E k \in 0..c : a = L + 1 + k
  <2> SUFFICES ASSUME NEW a \in 1..Len(pipe'), a \notin 1..L
               PROVE  \E k \in 0..c : a = L + 1 + k
    OBVIOUS
  <2>1. a - L - 1 \in 0..c /\ a = L + 1 + (a - L - 1)
    BY <1>11
  <2> QED
    BY <2>1
<1>15. ASSUME NEW a \in 1..L
       PROVE  /\ pipe[a].msg \in 1..Len(devSent) /\ pipe'[a] = pipe[a]
              /\ pipe[a].msg \in 1..Len(devSent')
              /\ pipe[a].index \in 0..Count(DataLen(pipe[a].msg))
              /\ pipe[a] = PacketAt(pipe[a].msg, pipe[a].index)
              /\ devSent'[pipe[a].msg] = devSent[pipe[a].msg]
  <2>1. pipe[a].msg \in 1..Len(devSent) /\ pipe[a].index \in 0..Count(DataLen(pipe[a].msg))
        /\ pipe[a] = PacketAt(pipe[a].msg, pipe[a].index)
    BY Zenon, <1>10 DEF PipeInv
  <2>2. \A i \in 1..Len(devSent) : i \in 1..Len(devSent')
    BY <1>0, <1>1, <1>5
  <2> QED
    BY Zenon, <2>1, <2>2, <1>5, <1>11
<1>16. ASSUME NEW a \in 1..Len(pipe')
       PROVE  /\ pipe'[a].msg \in 1..Len(devSent')
              /\ pipe'[a].index \in 0..Count(devSent'[pipe'[a].msg].header.data)
              /\ pipe'[a] = IF pipe'[a].index = 0 THEN devSent'[pipe'[a].msg].header
                              ELSE devSent'[pipe'[a].msg].payload[pipe'[a].index]
  <2>1. CASE a \in 1..L
    <3>1. PICK x, y : x = pipe[a] /\ y = pipe[a].msg
      OBVIOUS
    <3>2. /\ y \in 1..Len(devSent') /\ x.msg = y /\ x.index \in 0..Count(devSent[y].header.data)
          /\ x = IF x.index = 0 THEN devSent[y].header ELSE devSent[y].payload[x.index]
      BY Zenon, <2>1, <3>1, <1>15 DEF PacketAt, DataLen
    <3>3. pipe'[a] = x /\ devSent'[y] = devSent[y]
      BY Zenon, <2>1, <3>1, <1>15
    <3> QED
      BY Zenon, <3>2, <3>3
  <2>2. ASSUME NEW k \in 0..c, a = L + 1 + k
        PROVE  /\ pipe'[a].msg \in 1..Len(devSent')
               /\ pipe'[a].index \in 0..Count(devSent'[pipe'[a].msg].header.data)
               /\ pipe'[a] = IF pipe'[a].index = 0 THEN devSent'[pipe'[a].msg].header
                               ELSE devSent'[pipe'[a].msg].payload[pipe'[a].index]
    <3>1. e \in 1..Len(devSent')
      BY <1>0, <1>1, <1>5
    <3> QED
      <4>1. pipe'[a].msg = e /\ pipe'[a].index = k
        BY Zenon, <2>2, <1>13
      <4>2. Count(devSent'[e].header.data) = c
        BY Zenon, <1>3, <1>5, <1>9
      <4>3. pipe'[a] = IF k = 0 THEN devSent'[e].header ELSE devSent'[e].payload[k]
        BY Zenon, <2>2, <1>13 DEF PacketAt
      <4> QED
        BY Zenon, <3>1, <4>1, <4>2, <4>3
  <2> QED
    BY Zenon, <1>14, <2>1, <2>2
<1>17. ASSUME NEW a \in 1..(Len(pipe') - 1)
       PROVE  Succ(pipe[a].msg, pipe[a].index, pipe[a + 1].msg, pipe[a + 1].index)'
  <2>1. CASE a \in 1..(L - 1)
    <3>1. a \in 1..L /\ a + 1 \in 1..L /\ a \in 1..(Len(pipe) - 1)
      BY <2>1, <1>10
    <3>2. Succ(pipe[a].msg, pipe[a].index, pipe[a + 1].msg, pipe[a + 1].index)
      BY Zenon, <3>1 DEF PipeInv
    <3>3. pipe'[a] = pipe[a] /\ pipe'[a + 1] = pipe[a + 1]
          /\ devSent'[pipe[a].msg] = devSent[pipe[a].msg]
      BY Zenon, <3>1, <1>15
    <3>4. Count(devSent'[pipe'[a].msg].header.data) = Count(devSent[pipe[a].msg].header.data)
      BY Zenon, <3>3
    <3> QED
      BY Zenon, <3>2, <3>3, <3>4 DEF Succ, DataLen
  <2>2. CASE a = L
    <3>1. L \in 1..L /\ pipe # <<>> /\ 0 \in 0..c /\ L + 1 + 0 = a + 1
      BY <2>2, <1>10, <1>0
    <3>2. pipe[a].msg = Len(devSent) /\ pipe[a].index = Count(DataLen(Len(devSent)))
      BY Zenon, <2>2, <3>1, <1>10 DEF PipeInv
    <3>3. pipe'[a] = pipe[a] /\ devSent'[pipe[a].msg] = devSent[pipe[a].msg]
      BY Zenon, <2>2, <3>1, <1>15
    <3>4. pipe'[a + 1].msg = pipe'[a].msg + 1 /\ pipe'[a + 1].index = 0
      BY Zenon, <3>1, <3>2, <3>3, <1>1, <1>13
    <3>5. pipe'[a].index = Count(devSent'[pipe'[a].msg].header.data)
      BY Zenon, <3>2, <3>3 DEF DataLen
    <3> QED
      BY Zenon, <3>4, <3>5 DEF Succ, DataLen
  <2>3. CASE a > L
    <3>1. PICK k \in Int : k = a - L - 1
      <4>1. a \in Int
        OBVIOUS
      <4> QED
        BY <4>1
    <3>2. k \in 0..c /\ k + 1 \in 0..c /\ a = L + 1 + k /\ a + 1 = L + 1 + (k + 1) /\ k # c
      BY <2>3, <3>1, <1>11
    <3>3. /\ pipe'[a].msg = e /\ pipe'[a].index = k
          /\ pipe'[a + 1].msg = e /\ pipe'[a + 1].index = k + 1
      BY Zenon, <3>2, <1>13
    <3>4. pipe'[a].index # Count(devSent'[pipe'[a].msg].header.data)
      BY Zenon, <3>2, <3>3, <1>3, <1>5, <1>9
    <3> QED
      BY Zenon, <3>3, <3>4 DEF Succ, DataLen
  <2> QED
    BY <2>1, <2>2, <2>3, <1>10
<1>18. /\ pipe'[Len(pipe')].msg = Len(devSent')
       /\ pipe'[Len(pipe')].index = Count(DataLen(Len(devSent))')
  <2>1. c \in 0..c /\ Len(pipe') = L + 1 + c
    BY <1>11
  <2> QED
    <3>1. pipe'[Len(pipe')].msg = e /\ pipe'[Len(pipe')].index = c
      BY Zenon, <2>1, <1>13
    <3>2. Count(devSent'[e].header.data) = c
      BY Zenon, <1>3, <1>5, <1>9
    <3> QED
      BY Zenon, <3>1, <3>2, <1>5 DEF DataLen
<1>19. PipeInv'
  BY Zenon, <1>16, <1>17, <1>18 DEF PipeInv, PacketAt, DataLen
<1>20. ASSUME NEW i, NEW k, At(i, k) PROVE At(i, k)'
  <2>1. CASE pipe = <<>>
    <3>1. i = e /\ k = 0
      BY Zenon, <1>1, <1>20, <2>1 DEF At
    <3>2. L = 0 /\ 0 \in 0..c /\ L + 1 + 0 = 1
      BY <2>1, <1>10
    <3>3. pipe'[1].msg = e /\ pipe'[1].index = 0
      BY Zenon, <3>2, <1>13
    <3> QED
      BY Zenon, <3>1, <3>3, <1>11 DEF At
  <2>2. CASE pipe # <<>>
    <3>1. 1 \in 1..L
      BY <2>2, <1>0, <1>10
    <3>2. pipe[1].msg = i /\ pipe[1].index = k
      BY Zenon, <1>20, <2>2 DEF At
    <3>3. pipe'[1] = pipe[1]
      BY Zenon, <3>1, <1>11
    <3> QED
      BY Zenon, <3>2, <3>3, <1>11 DEF At
  <2> QED
    BY Zenon, <2>1, <2>2
<1> QED
  BY Zenon, <1>1, <1>5, <1>6, <1>7, <1>12, <1>19, <1>20

-----------------------------------------------------------------------------
(* The IN transfers. *)

Filled(size, data) == [size |-> size, data |-> data, done |-> TRUE]

Filling(size, data) == [size |-> size, data |-> data, done |-> FALSE]

\* u is the transfer for the header of message i.
HeaderTransfer(u, i) ==
  \/ u = Transfer(PacketSize) /\ At(i, 0)
  \/ /\ i \in 1..Len(devSent) /\ u = Filled(PacketSize, <<devSent[i].header>>)
     /\ IF DataLen(i) = 0 THEN At(i + 1, 0) ELSE At(i, 1)

\* t is the transfer for the payload of message i, u the one for the next header.
PayloadTransfer(t, u, i) ==
  \/ /\ t = Filled(PayloadSize(DataLen(i)), devSent[i].payload)
     /\ HeaderTransfer(u, i + 1)
  \/ /\ u = Transfer(PacketSize)
     /\ \E d \in 0..(Count(DataLen(i)) - 1) :
          /\ t = Filling(PayloadSize(DataLen(i)), SubSeq(devSent[i].payload, 1, d))
          /\ At(i, d + 1)

\* The transfers while message i is the next to be returned.
FramedAt(i) ==
  \/ in_queue = <<>> /\ in_header = None /\ At(i, 0)
  \/ \E u : in_queue = <<u>> /\ in_header = None /\ HeaderTransfer(u, i)
  \/ /\ i \in 1..Len(devSent) /\ DataLen(i) > 0 /\ in_header = devSent[i].header
     /\ \E t, u : in_queue = <<t, u>> /\ PayloadTransfer(t, u, i)

InInv ==
  /\ SentInv /\ PipeInv /\ returned \in Seq(Msgs)
  /\ reader # "malformed"
  /\ reader # "failed" => FramedAt(Len(returned) + 1)

\* A packet is put into a transfer.
Into(t, p) ==
  [size |-> t.size, data |-> Append(t.data, p),
   done |-> p.len < PacketSize \/ Len(t.data) * PacketSize + p.len >= t.size]

LEMMA IntoQueue ==
  ASSUME NEW lost, Transferred(lost), NEW t, NEW u
  PROVE  /\ pipe # <<>> /\ pipe' = Tail(pipe) /\ devSent' = devSent
         /\ in_header' = in_header /\ returned' = returned
         /\ reader # "failed" /\ reader' \in {reader, "ready"}
         /\ in_queue # <<>>
         /\ in_queue = <<u>> => ~u.done /\ in_queue' = <<Into(u, Head(pipe))>>
         /\ in_queue = <<t, u>> =>
              \/ ~t.done /\ in_queue' = <<Into(t, Head(pipe)), u>>
              \/ t.done /\ ~u.done /\ in_queue' = <<t, Into(u, Head(pipe))>>
<1>1. PICK j \in DOMAIN in_queue :
        LET v == in_queue[j]
            p == Head(pipe)
            full == Len(v.data) * PacketSize + p.len >= v.size
        IN  /\ ~v.done /\ \A k \in 1..(j - 1) : in_queue[k].done
            /\ in_queue' = [in_queue EXCEPT ![j] =
                 [size |-> v.size, data |-> Append(v.data, p),
                  done |-> p.len < PacketSize \/ full]]
            /\ reader' = IF reader = "parked" /\ in_queue'[1].done /\ ~lost
                           THEN "ready" ELSE reader
  BY Zenon DEF Transferred
<1>2. PICK p : p = Head(pipe)
  OBVIOUS
<1>3. /\ pipe # <<>> /\ pipe' = Tail(pipe) /\ devSent' = devSent
      /\ in_header' = in_header /\ returned' = returned /\ reader # "failed"
  BY Zenon DEF Transferred
<1>4. in_queue # <<>>
  BY <1>1
<1>5. reader' \in {reader, "ready"}
  BY Zenon, <1>1
<1>6. in_queue' = [in_queue EXCEPT ![j] = Into(in_queue[j], p)]
  BY Zenon, <1>1, <1>2 DEF Into
<1>7. ASSUME in_queue = <<u>>
      PROVE  ~u.done /\ in_queue' = <<Into(u, p)>>
  <2>1. j = 1 /\ in_queue[j] = u
    BY <1>7
  <2>2. in_queue' = <<Into(u, p)>>
    BY <1>6, <1>7, <2>1
  <2> QED
    BY Zenon, <1>1, <2>1, <2>2
<1>8. ASSUME in_queue = <<t, u>>
      PROVE  \/ ~t.done /\ in_queue' = <<Into(t, p), u>>
             \/ t.done /\ ~u.done /\ in_queue' = <<t, Into(u, p)>>
  <2>1. CASE j = 1
    <3>1. in_queue[j] = t
      BY <1>8, <2>1
    <3>2. in_queue' = <<Into(t, p), u>>
      BY <1>6, <1>8, <2>1, <3>1
    <3> QED
      BY Zenon, <1>1, <3>1, <3>2
  <2>2. CASE j = 2
    <3>1. in_queue[j] = u /\ in_queue[1] = t /\ 1 \in 1..(j - 1)
      BY <1>8, <2>2
    <3>2. ~u.done /\ t.done
      BY Zenon, <1>1, <3>1
    <3> QED
      BY <1>6, <1>8, <2>2, <3>1, <3>2
  <2> QED
    BY <1>8, <2>1, <2>2
<1> QED
  BY Zenon, <1>2, <1>3, <1>4, <1>5, <1>7, <1>8

\* A header fills the transfer that waits for it.
LEMMA HeaderInto ==
  ASSUME SentInv, PipeInv, pipe # <<>>, pipe' = Tail(pipe), devSent' = devSent,
         NEW i, At(i, 0), NEW u, u = Into(Transfer(PacketSize), Head(pipe))
  PROVE  HeaderTransfer(u, i)'
<1>1. i \in 1..Len(devSent) /\ Head(pipe) = PacketAt(i, 0)
  BY PipeHead
<1>2. PICK h : h = devSent[i].header
  OBVIOUS
<1>3. h.len = HeaderLen /\ DataLen(i) \in Nat /\ Head(pipe) = h
  BY <1>1, <1>2, SentMessage DEF PacketAt
<1>4. h.len < PacketSize
  BY <1>3, PacketAssumption
<1>5. Into(Transfer(PacketSize), h) = Filled(PacketSize, <<h>>)
  <2>1. Transfer(PacketSize).size = PacketSize /\ Transfer(PacketSize).data = <<>>
    BY DEF Transfer
  <2>2. Append(<<>>, h) = <<h>>
    OBVIOUS
  <2>3. \A x : (h.len < PacketSize \/ x) = TRUE
    BY <1>4
  <2> QED
    BY Zenon, <2>1, <2>2, <2>3 DEF Into, Filled
<1>6. DataLen(i) = 0 <=> Count(DataLen(i)) = 0
  <2>1. PICK n \in Nat : n = DataLen(i)
    BY <1>3
  <2>2. n <= Count(n) * PacketSize /\ Count(n) \in Nat /\ n + PacketSize - 1 >= Count(n) * PacketSize
        /\ (n > 0 => Count(n) >= 1)
    BY CountBounds
  <2>3. n = 0 <=> Count(n) = 0
    <3>1. PICK c \in Nat : c = Count(n)
      BY <2>2
    <3>2. c >= 1 => c * PacketSize >= PacketSize
      BY PacketAssumption
    <3>3. c * PacketSize \in Nat
      BY PacketAssumption
    <3>4. n = 0 => c = 0
      BY <2>2, <3>1, <3>2, <3>3, PacketAssumption
    <3> QED
      BY <2>2, <3>1, <3>4
  <2> QED
    BY Zenon, <2>1, <2>3
<1>7. /\ 0 = Count(DataLen(i)) => At(i + 1, 0)'
      /\ 0 # Count(DataLen(i)) => At(i, 0 + 1)'
  BY Zenon, PipeTail
<1>8. 0 + 1 = 1
  OBVIOUS
<1>9. IF DataLen(i) = 0 THEN At(i + 1, 0)' ELSE At(i, 1)'
  BY Zenon, <1>6, <1>7, <1>8
<1>10. u = Filled(PacketSize, <<devSent[i].header>>)
  BY Zenon, <1>2, <1>3, <1>5
<1> QED
  BY Zenon, <1>1, <1>9, <1>10 DEF HeaderTransfer, DataLen

\* A packet of the payload is put into its transfer, which is done when it has
\* the last one.
LEMMA PayloadInto ==
  ASSUME SentInv, PipeInv, pipe # <<>>, pipe' = Tail(pipe), devSent' = devSent,
         NEW i \in 1..Len(devSent), NEW d \in 0..(Count(DataLen(i)) - 1), At(i, d + 1),
         NEW t, NEW u,
         t = Into(Filling(PayloadSize(DataLen(i)), SubSeq(devSent[i].payload, 1, d)), Head(pipe)),
         u = Transfer(PacketSize)
  PROVE  PayloadTransfer(t, u, i)'
<1>1. PICK n \in Nat : n = DataLen(i)
  BY SentMessage
<1>2. PICK s \in Seq(Pkt) : s = devSent[i].payload /\ s = Payload(i, n)
  BY <1>1, SentMessage
<1>3. PICK c \in Nat : c = Count(n)
  BY CountBounds
<1>4. Len(s) = c /\ d \in 0..(c - 1) /\ i \in Nat
  <2>1. Len(devSent[i].payload) = Count(DataLen(i)) /\ i \in Nat
    BY SentMessage
  <2> QED
    BY Zenon, <1>1, <1>2, <1>3, <2>1
<1>5. Head(pipe) = PacketAt(i, d + 1)
  BY Zenon, PipeHead
<1>6. d + 1 # 0 /\ d + 1 \in 1..c
  BY <1>4
<1>7. Head(pipe) = s[d + 1]
  BY Zenon, <1>2, <1>5, <1>6 DEF PacketAt
<1>8. PICK P \in Nat : P = PacketSize
  BY PacketAssumption
<1>9. PICK l \in Nat : /\ l = s[d + 1].len /\ l <= P /\ (d + 1 < c => l = P)
  <2>1. d + 1 \in 1..Count(n)
    BY Zenon, <1>3, <1>6
  <2>2. Payload(i, n)[d + 1].len = Rest(n, d + 1)
    BY <1>4, <2>1, PayloadPacket
  <2>3. /\ Rest(n, d + 1) \in Nat /\ Rest(n, d + 1) <= PacketSize
        /\ d + 1 < Count(n) => Rest(n, d + 1) = PacketSize
    BY <2>1, RestBounds
  <2> QED
    BY Zenon, <1>2, <1>3, <1>8, <2>2, <2>3
<1>10. PayloadSize(n) = c * P
  BY Zenon, <1>3, <1>8 DEF PayloadSize, Count
<1>11. PICK x \in Seq(Pkt) : /\ x = SubSeq(s, 1, d) /\ Len(x) = d
                            /\ Append(x, s[d + 1]) = SubSeq(s, 1, d + 1)
  <2>1. SubSeq(s, 1, d) \in Seq(Pkt) /\ Len(SubSeq(s, 1, d)) = d
    BY <1>4
  <2>2. d \in 0..(Len(s) - 1)
    BY Zenon, <1>4
  <2>3. Append(SubSeq(s, 1, d), s[d + 1]) = SubSeq(s, 1, d + 1)
    BY <2>2, PayloadSplit
  <2> QED
    BY Zenon, <2>1, <2>3
<1>12. t = [size |-> PayloadSize(n), data |-> SubSeq(s, 1, d + 1),
            done |-> l < P \/ d * P + l >= c * P]
  <2>1. PICK v : v = Filling(PayloadSize(n), x)
    OBVIOUS
  <2>2. v.size = PayloadSize(n) /\ v.data = x
    BY <2>1 DEF Filling
  <2>3. t = Into(v, s[d + 1])
    BY Zenon, <1>1, <1>2, <1>7, <1>11, <2>1
  <2> QED
    BY Zenon, <1>8, <1>9, <1>10, <1>11, <2>2, <2>3 DEF Into
<1>13. (d + 1) * P = d * P + P /\ d * P \in Nat /\ c * P \in Nat
  BY <1>4
<1>14. /\ d + 1 = Count(DataLen(i)) => At(i + 1, 0)'
       /\ d + 1 # Count(DataLen(i)) => At(i, (d + 1) + 1)'
  BY Zenon, PipeTail
<1>15. CASE d + 1 = c
  <2>1. (l < P \/ d * P + l >= c * P) = TRUE
    <3>1. c * P = d * P + P
      BY Zenon, <1>13, <1>15
    <3>2. PICK a \in Nat, b \in Nat : a = d * P /\ b = c * P /\ b = a + P
      BY Zenon, <1>13, <3>1
    <3>3. l < P \/ a + l >= b
      BY <1>9, <3>2
    <3>4. l < P \/ d * P + l >= c * P
      BY Zenon, <3>2, <3>3
    <3> QED
      BY <3>4
  <2>2. SubSeq(s, 1, d + 1) = s
    BY <1>4, <1>15
  <2>3. t = Filled(PayloadSize(n), s)
    BY Zenon, <1>12, <2>1, <2>2 DEF Filled
  <2>4. At(i + 1, 0)'
    BY Zenon, <1>1, <1>3, <1>14, <1>15
  <2>5. HeaderTransfer(u, i + 1)'
    BY Zenon, <2>4 DEF HeaderTransfer
  <2> QED
    BY Zenon, <1>1, <1>2, <2>3, <2>5 DEF PayloadTransfer, DataLen
<1>16. CASE d + 1 # c
  <2>1. l = P /\ d + 1 < c
    BY <1>4, <1>9, <1>16
  <2>2. (d + 1) * P < c * P
    <3>1. d + 2 <= c
      BY <1>4, <2>1
    <3>2. (d + 2) * P <= c * P
      BY <1>4, <3>1
    <3>3. (d + 2) * P = d * P + P + P
      BY <1>4
    <3> QED
      BY <1>13, <3>2, <3>3, <1>8, PacketAssumption
  <2>3. (l < P \/ d * P + l >= c * P) = FALSE
    BY <1>13, <2>1, <2>2
  <2>4. t = Filling(PayloadSize(n), SubSeq(s, 1, d + 1))
    BY Zenon, <1>12, <2>3 DEF Filling
  <2>5. At(i, (d + 1) + 1)'
    BY Zenon, <1>1, <1>3, <1>14, <1>16
  <2>6. d + 1 \in 0..(c - 1)
    BY <1>4, <2>1
  <2> QED
    BY Zenon, <1>1, <1>2, <1>3, <2>4, <2>5, <2>6 DEF PayloadTransfer, DataLen
<1> QED
  BY Zenon, <1>15, <1>16

\* Transferred keeps the transfers in step with the packets.
LEMMA TransferredStep ==
  ASSUME InInv, NEW lost \in BOOLEAN, Transferred(lost)
  PROVE  InInv' /\ UNCHANGED <<devSent, returned>>
<1>1. /\ pipe # <<>> /\ pipe' = Tail(pipe) /\ devSent' = devSent
      /\ in_header' = in_header /\ returned' = returned
      /\ reader # "failed" /\ reader' \in {reader, "ready"} /\ in_queue # <<>>
  BY Zenon, IntoQueue
<1>2. SentInv /\ PipeInv /\ returned \in Seq(Msgs) /\ reader # "malformed"
  BY Zenon DEF InInv
<1>3. PICK i : i = Len(returned) + 1
  OBVIOUS
<1>4. PICK p : p = Head(pipe)
  OBVIOUS
<1>5. FramedAt(i)
  BY Zenon, <1>1, <1>3 DEF InInv
<1>6. \A k, l : At(k, l) => SentInv' /\ PipeInv'
  BY Zenon, <1>1, <1>2, PipeTail
\* The transfer of a header takes a packet.
<1>7. ASSUME NEW u, NEW k, HeaderTransfer(u, k), ~u.done
      PROVE  /\ SentInv' /\ PipeInv'
             /\ \A v : v = Into(u, p) => HeaderTransfer(v, k)'
  <2>1. Filled(PacketSize, <<devSent[k].header>>).done
    BY DEF Filled
  <2>2. u = Transfer(PacketSize) /\ At(k, 0)
    BY Zenon, <1>7, <2>1 DEF HeaderTransfer
  <2> QED
    BY Zenon, <1>1, <1>2, <1>4, <1>6, <2>2, HeaderInto
<1>8. ASSUME NEW u, in_queue = <<u>>, in_header = None, HeaderTransfer(u, i)
      PROVE  FramedAt(i)' /\ SentInv' /\ PipeInv'
  <2>1. ~u.done /\ in_queue' = <<Into(u, p)>>
    BY Zenon, <1>4, <1>8, IntoQueue
  <2>2. PICK v : v = Into(u, p)
    OBVIOUS
  <2>3. SentInv' /\ PipeInv' /\ HeaderTransfer(v, i)'
    BY Zenon, <1>7, <1>8, <2>1, <2>2
  <2> QED
    BY Zenon, <1>1, <1>8, <2>1, <2>2, <2>3 DEF FramedAt
<1>9. ASSUME i \in 1..Len(devSent), DataLen(i) > 0, in_header = devSent[i].header,
             NEW t, NEW u, in_queue = <<t, u>>, PayloadTransfer(t, u, i)
      PROVE  FramedAt(i)' /\ SentInv' /\ PipeInv'
  <2>1. /\ i \in 1..Len(devSent') /\ DataLen(i)' > 0 /\ in_header' = devSent'[i].header
    BY Zenon, <1>1, <1>9 DEF DataLen
  <2>2. CASE /\ t = Filled(PayloadSize(DataLen(i)), devSent[i].payload)
             /\ HeaderTransfer(u, i + 1)
    <3>1. t.done
      BY <2>2 DEF Filled
    <3>2. ~u.done /\ in_queue' = <<t, Into(u, p)>>
      BY Zenon, <1>4, <1>9, <3>1, IntoQueue
    <3>3. PICK v : v = Into(u, p)
      OBVIOUS
    <3>4. SentInv' /\ PipeInv' /\ HeaderTransfer(v, i + 1)'
      <4>1. PICK k : k = i + 1
        OBVIOUS
      <4>2. SentInv' /\ PipeInv' /\ HeaderTransfer(v, k)'
        BY Zenon, <1>7, <2>2, <3>2, <3>3, <4>1
      <4> QED
        BY Zenon, <4>1, <4>2
    <3>5. PayloadTransfer(t, v, i)'
      BY Zenon, <1>1, <2>2, <3>4 DEF PayloadTransfer, DataLen
    <3> QED
      BY Zenon, <2>1, <3>2, <3>3, <3>4, <3>5 DEF FramedAt
  <2>3. ASSUME u = Transfer(PacketSize), NEW d \in 0..(Count(DataLen(i)) - 1),
               t = Filling(PayloadSize(DataLen(i)), SubSeq(devSent[i].payload, 1, d)),
               At(i, d + 1)
        PROVE  FramedAt(i)' /\ SentInv' /\ PipeInv'
    <3>1. ~t.done
      BY <2>3 DEF Filling
    <3>2. in_queue' = <<Into(t, p), u>>
      BY Zenon, <1>4, <1>9, <3>1, IntoQueue
    <3>3. PICK v : v = Into(t, p)
      OBVIOUS
    <3>4. PayloadTransfer(v, u, i)'
      BY Zenon, <1>1, <1>2, <1>4, <1>9, <2>3, <3>3, PayloadInto
    <3>5. SentInv' /\ PipeInv'
      BY Zenon, <1>6, <2>3
    <3> QED
      BY Zenon, <2>1, <3>2, <3>3, <3>4, <3>5 DEF FramedAt
  <2> QED
    BY Zenon, <1>9, <2>2, <2>3 DEF PayloadTransfer
<1>10. FramedAt(i)' /\ SentInv' /\ PipeInv'
  BY Zenon, <1>1, <1>5, <1>8, <1>9 DEF FramedAt
<1>11. "ready" # "malformed"
  OBVIOUS
<1> QED
  BY Zenon, <1>1, <1>2, <1>3, <1>10, <1>11 DEF InInv

\* poll_read_message has returned the next message of the device.
ReturnsNext ==
  Len(returned) < Len(devSent) /\ returned' = Append(returned, devSent[Len(returned) + 1])

LEMMA ReturnedCount ==
  ASSUME returned \in Seq(Msgs), devSent \in Seq(Msgs), devSent' = devSent,
         NEW i, i = Len(returned) + 1, i \in 1..Len(devSent),
         NEW m, m = devSent[i], returned' = Append(returned, m)
  PROVE  ReturnsNext /\ returned' \in Seq(Msgs) /\ Len(returned') + 1 = i + 1 /\ i \in Nat
<1>1. m \in Msgs /\ Len(returned) < Len(devSent) /\ i \in Nat
  OBVIOUS
<1>2. returned' \in Seq(Msgs) /\ Len(returned') = Len(returned) + 1
  BY <1>1, AppendProperties
<1>3. ReturnsNext
  BY Zenon, <1>1 DEF ReturnsNext
<1>4. Len(returned') + 1 = i + 1
  BY Zenon, <1>2
<1> QED
  BY Zenon, <1>1, <1>2, <1>3, <1>4

\* The payload is there: its message is returned.
LEMMA PayloadStep ==
  ASSUME InInv, PollPayload
  PROVE  InInv' /\ devSent' = devSent /\ ReturnsNext
<1>1. SentInv /\ PipeInv /\ returned \in Seq(Msgs) /\ devSent \in Seq(Msgs)
  BY Zenon DEF InInv, SentInv
<1>2. PICK i : i = Len(returned) + 1
  OBVIOUS
<1>3. /\ reader = "ready" /\ in_queue # <<>> /\ in_queue[1].done /\ in_header # None
      /\ returned' = Append(returned, [header |-> in_header, payload |-> in_queue[1].data])
      /\ in_header' = None /\ in_queue' = Tail(in_queue)
      /\ UNCHANGED <<devSent, pipe, reader>>
  BY Zenon DEF PollPayload
<1>4. "ready" # "failed" /\ "ready" # "malformed"
  OBVIOUS
<1>5. FramedAt(i)
  BY Zenon, <1>2, <1>3, <1>4 DEF InInv
<1>6. PICK t, u : /\ i \in 1..Len(devSent) /\ in_header = devSent[i].header
                  /\ in_queue = <<t, u>> /\ PayloadTransfer(t, u, i)
  BY Zenon, <1>3, <1>5 DEF FramedAt
<1>7. in_queue[1] = t /\ Tail(in_queue) = <<u>>
  BY <1>6
<1>8. \A size, data : ~Filling(size, data).done
  BY DEF Filling
<1>9. t = Filled(PayloadSize(DataLen(i)), devSent[i].payload) /\ HeaderTransfer(u, i + 1)
  BY Zenon, <1>3, <1>6, <1>7, <1>8 DEF PayloadTransfer
<1>10. t.data = devSent[i].payload
  BY <1>9 DEF Filled
<1>11. PICK m : m = devSent[i]
  OBVIOUS
<1>12. m = [header |-> m.header, payload |-> m.payload]
  BY <1>1, <1>6, <1>11, SentMessage
<1>13. returned' = Append(returned, m)
  BY Zenon, <1>3, <1>6, <1>7, <1>10, <1>11, <1>12
<1>14. ReturnsNext /\ returned' \in Seq(Msgs) /\ Len(returned') + 1 = i + 1
  BY Zenon, <1>1, <1>2, <1>3, <1>6, <1>11, <1>13, ReturnedCount
<1>15. FramedAt(i + 1)'
  <2>1. HeaderTransfer(u, i + 1)'
    BY Zenon, <1>3, <1>9 DEF HeaderTransfer, At, DataLen
  <2> QED
    BY Zenon, <1>3, <1>7, <2>1 DEF FramedAt
<1>16. SentInv' /\ PipeInv'
  BY Zenon, <1>1, <1>3 DEF SentInv, PipeInv, Succ, PacketAt, DataLen
<1> QED
  BY Zenon, <1>3, <1>4, <1>14, <1>15, <1>16 DEF InInv

\* The header is there: it is the header of the next message, which is returned
\* if it has no payload.
LEMMA HeaderStep ==
  ASSUME InInv, PollHeader
  PROVE  InInv' /\ devSent' = devSent /\ (returned' = returned \/ ReturnsNext)
<1>1. SentInv /\ PipeInv /\ returned \in Seq(Msgs) /\ devSent \in Seq(Msgs)
  BY Zenon DEF InInv, SentInv
<1>2. PICK i : i = Len(returned) + 1
  OBVIOUS
<1>3. /\ reader = "ready" /\ in_queue # <<>> /\ in_queue[1].done /\ in_header = None
      /\ UNCHANGED <<devSent, pipe>>
  BY Zenon DEF PollHeader
<1>4. "ready" # "failed" /\ "ready" # "malformed"
  OBVIOUS
<1>5. FramedAt(i)
  BY Zenon, <1>2, <1>3, <1>4 DEF InInv
<1>6. \A k \in 1..Len(devSent) : devSent[k].header # None
  <2> SUFFICES ASSUME NEW k \in 1..Len(devSent) PROVE devSent[k].header # None
    OBVIOUS
  <2>1. devSent[k].header.msg = k
    BY <1>1, SentMessage
  <2> QED
    BY <1>1, <2>1, ConstantPackets
<1>7. PICK u : in_queue = <<u>> /\ HeaderTransfer(u, i)
  BY Zenon, <1>3, <1>5, <1>6 DEF FramedAt
<1>8. in_queue[1] = u /\ Tail(in_queue) = <<>>
  BY <1>7
<1>9. ~Transfer(PacketSize).done
  BY DEF Transfer
<1>10. /\ i \in 1..Len(devSent) /\ u = Filled(PacketSize, <<devSent[i].header>>)
       /\ IF DataLen(i) = 0 THEN At(i + 1, 0) ELSE At(i, 1)
  BY Zenon, <1>3, <1>7, <1>8, <1>9 DEF HeaderTransfer
<1>11. PICK m : m = devSent[i]
  OBVIOUS
<1>12. PICK n \in Nat : n = DataLen(i)
  BY <1>1, <1>10, SentMessage
<1>13. /\ m = [header |-> m.header, payload |-> m.payload] /\ m.header.index = 0
       /\ m.header.len = HeaderLen /\ m.header.data = n /\ m.payload = Payload(i, n) /\ i \in Nat
  <2>1. /\ devSent[i] = [header |-> devSent[i].header, payload |-> devSent[i].payload]
        /\ devSent[i].header.index = 0 /\ devSent[i].header.len = HeaderLen
        /\ devSent[i].payload = Payload(i, DataLen(i)) /\ i \in Nat
    BY <1>1, <1>10, SentMessage
  <2> QED
    BY Zenon, <1>11, <1>12, <2>1 DEF DataLen
<1>14. Len(in_queue[1].data) = 1 /\ in_queue[1].data[1] = m.header
  <2>1. u.data = <<m.header>>
    BY <1>10, <1>11 DEF Filled
  <2> QED
    BY <1>8, <2>1
<1>15. /\ in_queue' = Tail(in_queue) \o Submitted(n)
       /\ \/ n > 0 /\ in_header' = m.header /\ returned' = returned
          \/ /\ n = 0 /\ returned' = Append(returned, [header |-> m.header, payload |-> <<>>])
             /\ in_header' = in_header
       /\ reader' = reader
  BY Zenon, <1>13, <1>14 DEF PollHeader
<1>16. SentInv' /\ PipeInv'
  BY Zenon, <1>1, <1>3 DEF SentInv, PipeInv, Succ, PacketAt, DataLen
<1>17. CASE n > 0
  <2>1. in_header' = m.header /\ returned' = returned /\ ~(n = 0)
    BY <1>15, <1>17
  <2>2. in_queue' = <<Transfer(PayloadSize(n)), Transfer(PacketSize)>>
    <3>1. in_queue' = <<>> \o <<Transfer(PayloadSize(n)), Transfer(PacketSize)>>
      BY Zenon, <1>8, <1>15, <1>17 DEF Submitted
    <3>2. \A t, v : <<>> \o <<t, v>> = <<t, v>>
      OBVIOUS
    <3> QED
      BY Zenon, <3>1, <3>2
  <2>3. At(i, 0 + 1)'
    <3>1. At(i, 1)
      BY Zenon, <1>10, <1>12, <2>1
    <3>2. 0 + 1 = 1
      OBVIOUS
    <3> QED
      BY Zenon, <1>3, <3>1, <3>2 DEF At
  <2>4. 0 \in 0..(Count(n) - 1) /\ SubSeq(devSent[i].payload, 1, 0) = <<>>
    <3>1. Count(n) \in Nat /\ Count(n) >= 1 /\ Payload(i, n) \in Seq(Pkt)
      BY <1>13, <1>17, CountBounds, PayloadLength
    <3> QED
      BY <1>11, <1>13, <3>1
  <2>5. Transfer(PayloadSize(n)) = Filling(PayloadSize(n), SubSeq(devSent[i].payload, 1, 0))
    BY Zenon, <2>4 DEF Transfer, Filling
  <2>6. PICK t, v : t = Transfer(PayloadSize(n)) /\ v = Transfer(PacketSize)
    OBVIOUS
  <2>7. PayloadTransfer(t, v, i)'
    BY Zenon, <1>3, <1>12, <2>3, <2>4, <2>5, <2>6 DEF PayloadTransfer, DataLen
  <2>8. i \in 1..Len(devSent') /\ DataLen(i)' > 0 /\ in_header' = devSent'[i].header
    BY Zenon, <1>3, <1>10, <1>11, <1>12, <1>17, <2>1 DEF DataLen
  <2>9. FramedAt(i)'
    BY Zenon, <2>2, <2>6, <2>7, <2>8 DEF FramedAt
  <2> QED
    BY Zenon, <1>1, <1>2, <1>3, <1>4, <1>15, <1>16, <2>1, <2>9 DEF InInv
<1>18. CASE n = 0
  <2>1. ~(n > 0)
    BY <1>18
  <2>2. in_queue' = <<Transfer(PacketSize)>>
    <3>1. in_queue' = <<>> \o <<Transfer(PacketSize)>>
      BY Zenon, <1>8, <1>15, <2>1 DEF Submitted
    <3>2. \A v : <<>> \o <<v>> = <<v>>
      OBVIOUS
    <3> QED
      BY Zenon, <3>1, <3>2
  <2>3. m.payload = <<>>
    BY <1>13, <1>18, PayloadLength
  <2>4. returned' = Append(returned, m) /\ in_header' = None
    BY Zenon, <1>3, <1>13, <1>15, <2>1, <2>3
  <2>5. ReturnsNext /\ returned' \in Seq(Msgs) /\ Len(returned') + 1 = i + 1
    BY Zenon, <1>1, <1>2, <1>3, <1>10, <1>11, <2>4, ReturnedCount
  <2>6. At(i + 1, 0)'
    BY Zenon, <1>3, <1>10, <1>12, <1>18 DEF At
  <2>7. FramedAt(i + 1)'
    BY Zenon, <2>2, <2>4, <2>6 DEF FramedAt, HeaderTransfer
  <2> QED
    BY Zenon, <1>3, <1>4, <1>15, <1>16, <2>5, <2>7 DEF InInv
<1> QED
  BY <1>17, <1>18

\* The steps that return nothing and transfer nothing.
LEMMA QuietStep ==
  ASSUME InInv, UNCHANGED <<devSent, pipe, in_header, returned>>, reader' # "malformed",
         reader' # "failed" => reader # "failed" /\ (in_queue' = in_queue \/ PollFirst)
  PROVE  InInv'
<1>1. SentInv' /\ PipeInv' /\ returned' \in Seq(Msgs)
  BY Zenon DEF InInv, SentInv, PipeInv, Succ, PacketAt, DataLen
<1>2. PICK i : i = Len(returned) + 1
  OBVIOUS
<1>3. ASSUME reader' # "failed" PROVE FramedAt(i)'
  <2>1. FramedAt(i)
    BY Zenon, <1>2, <1>3 DEF InInv
  <2>2. CASE in_queue' = in_queue
    <3>1. \A u, k : HeaderTransfer(u, k) => HeaderTransfer(u, k)'
      BY Zenon DEF HeaderTransfer, At, DataLen
    <3>2. ASSUME NEW t, NEW u, PayloadTransfer(t, u, i) PROVE PayloadTransfer(t, u, i)'
      <4>1. HeaderTransfer(u, i + 1) => HeaderTransfer(u, i + 1)'
        BY Zenon, <3>1
      <4> QED
        BY Zenon, <3>2, <4>1 DEF PayloadTransfer, At, DataLen
    <3> QED
      BY Zenon, <2>1, <2>2, <3>1, <3>2 DEF FramedAt, At, DataLen
  <2>3. CASE PollFirst
    <3>1. in_queue = <<>> /\ in_queue' = <<Transfer(PacketSize)>>
      BY Zenon, <2>3 DEF PollFirst
    <3>2. \A t, u : <<>> # <<u>> /\ <<>> # <<t, u>>
      OBVIOUS
    <3>3. in_header = None /\ At(i, 0)
      BY Zenon, <2>1, <3>1, <3>2 DEF FramedAt
    <3> QED
      BY Zenon, <3>1, <3>3 DEF FramedAt, HeaderTransfer, At
  <2> QED
    BY Zenon, <1>3, <2>2, <2>3
<1> QED
  BY Zenon, <1>1, <1>2, <1>3 DEF InInv

\* The device sends the next message.
LEMMA DevSendStep ==
  ASSUME InInv, NEW n \in Lengths, DevSend(n)
  PROVE  /\ InInv' /\ returned' = returned
         /\ Len(devSent') = Len(devSent) + 1 /\ SubSeq(devSent', 1, Len(devSent)) = devSent
<1>1. SentInv /\ PipeInv /\ returned \in Seq(Msgs) /\ reader # "malformed"
  BY Zenon DEF InInv
<1>2. UNCHANGED <<in_queue, in_header, returned, reader>>
  BY Zenon DEF DevSend
<1>3. /\ SentInv' /\ PipeInv'
      /\ \A i, k : At(i, k) => At(i, k)'
      /\ Len(devSent') = Len(devSent) + 1
      /\ \A i \in 1..Len(devSent) : devSent'[i] = devSent[i] /\ DataLen(i)' = DataLen(i)
      /\ SubSeq(devSent', 1, Len(devSent)) = devSent
  BY Zenon, <1>1, SendStep
<1>4. \A i \in 1..Len(devSent) : i \in 1..Len(devSent')
  <2>1. Len(devSent) \in Nat
    BY <1>1 DEF SentInv
  <2> QED
    BY <1>3, <2>1
<1>5. PICK i : i = Len(returned) + 1
  OBVIOUS
<1>6. ASSUME FramedAt(i) PROVE FramedAt(i)'
  <2>1. \A u, k : HeaderTransfer(u, k) => HeaderTransfer(u, k)'
    BY Zenon, <1>3, <1>4 DEF HeaderTransfer
  <2>2. ASSUME NEW t, NEW u, i \in 1..Len(devSent), PayloadTransfer(t, u, i)
        PROVE  PayloadTransfer(t, u, i)'
    <3>1. devSent'[i] = devSent[i] /\ DataLen(i)' = DataLen(i)
      BY Zenon, <1>3, <2>2
    <3>2. HeaderTransfer(u, i + 1) => HeaderTransfer(u, i + 1)'
      BY Zenon, <2>1
    <3>3. \A d : At(i, d + 1) => At(i, d + 1)'
      BY Zenon, <1>3
    <3> QED
      BY Zenon, <2>2, <3>1, <3>2, <3>3 DEF PayloadTransfer
  <2> QED
    BY Zenon, <1>2, <1>3, <1>4, <1>6, <2>1, <2>2 DEF FramedAt
<1> QED
  BY Zenon, <1>1, <1>2, <1>3, <1>5, <1>6 DEF InInv

\* Every step is one of the abstract pipe, or none.
LEMMA InSteps ==
  ASSUME InInv, Next
  PROVE  /\ InInv'
         /\ \/ UNCHANGED <<devSent, returned>>
            \/ devSent' = devSent /\ ReturnsNext
            \/ /\ returned' = returned /\ Len(devSent') = Len(devSent) + 1
               /\ SubSeq(devSent', 1, Len(devSent)) = devSent
<1>0. /\ "parked" # "malformed" /\ "parked" # "failed" /\ "ready" # "malformed"
      /\ "ready" # "failed" /\ "failed" # "malformed"
  OBVIOUS
<1>1. ASSUME UNCHANGED inVars PROVE InInv' /\ UNCHANGED <<devSent, returned>>
  BY Zenon, <1>1, QuietStep DEF inVars, InInv
<1>2. ASSUME PollFirst \/ PollPending \/ PollError \/ Timeout
      PROVE  InInv' /\ UNCHANGED <<devSent, returned>>
  <2>1. UNCHANGED <<devSent, pipe, in_header, returned>>
    BY Zenon, <1>2 DEF PollFirst, PollPending, PollError, Timeout
  <2>2. reader' # "malformed"
        /\ (reader' # "failed" => reader # "failed" /\ (in_queue' = in_queue \/ PollFirst))
    BY Zenon, <1>0, <1>2 DEF PollFirst, PollPending, PollError, Timeout, InInv
  <2> QED
    BY Zenon, <2>1, <2>2, QuietStep
<1>3. ASSUME NEW n \in Lengths, WriteMessage(n) PROVE UNCHANGED inVars
  BY Zenon, <1>3 DEF WriteMessage
<1>4. ASSUME PollFlush \/ Taken PROVE UNCHANGED inVars
  BY Zenon, <1>4 DEF PollFlush, Taken
<1> QED
  BY Zenon, <1>1, <1>2, <1>3, <1>4, DevSendStep, TransferredStep, PayloadStep, HeaderStep DEF Next

\* poll_read_message returns the messages of the device, whole and in order: the
\* IN direction implements the abstract pipe of messages, however packets, polls,
\* lost wakeups, ticks of in_timeout and failed transfers fall, and it never takes
\* anything but a header for one.
THEOREM InImplementsPipe == Spec => InFramed /\ [](reader # "malformed")
<1>1. ASSUME Init PROVE In!PipeInit /\ InInv
  <2>1. /\ devSent = <<>> /\ pipe = <<>> /\ in_queue = <<>> /\ in_header = None
        /\ returned = <<>> /\ reader = "ready"
    BY Zenon, <1>1 DEF Init
  <2>2. At(Len(returned) + 1, 0)
    BY Zenon, <2>1 DEF At
  <2>3. SentInv /\ PipeInv /\ returned \in Seq(Msgs) /\ reader # "malformed"
    BY <2>1 DEF SentInv, PipeInv
  <2> QED
    BY Zenon, <2>1, <2>2, <2>3 DEF In!PipeInit, InInv, FramedAt
<1>2. ASSUME InInv, Next PROVE InInv' /\ [In!Put \/ In!Get]_<<devSent, returned>>
  BY Zenon, <1>2, InSteps DEF ReturnsNext, In!Put, In!Get
<1>3. ASSUME InInv, UNCHANGED vars PROVE InInv' /\ UNCHANGED <<devSent, returned>>
  BY Zenon, <1>3, QuietStep DEF vars, inVars, InInv
<1>4. InInv => reader # "malformed"
  BY Zenon DEF InInv
<1> QED
  BY <1>1, <1>2, <1>3, <1>4, PTL DEF Spec, InFramed, In!PipeSpec

-----------------------------------------------------------------------------
(* What wakes the halves. *)

TimerSet == reader = "parked" => in_timeout = "armed"

\* A reader that returned Pending has in_timeout armed, whichever wakeups of the
\* endpoint are lost: the safety half of Arrives.
THEOREM ReaderHasTimer == Spec => []TimerSet
<1>1. Init => TimerSet
  BY DEF Init, TimerSet
<1>2. ASSUME TimerSet, Next PROVE TimerSet'
  <2> USE DEF TimerSet
  <2>1. ASSUME NEW n \in Lengths, DevSend(n) \/ WriteMessage(n) PROVE TimerSet'
    BY <1>2, <2>1 DEF DevSend, WriteMessage, inVars
  <2>2. ASSUME NEW lost \in BOOLEAN, Transferred(lost) PROVE TimerSet'
    <3>1. reader' \in {reader, "ready"} /\ in_timeout' = in_timeout
      BY Zenon, <2>2 DEF Transferred
    <3> QED
      BY <1>2, <3>1
  <2>3. ASSUME PollFirst \/ PollPending \/ PollPayload \/ PollError \/ Timeout PROVE TimerSet'
    BY <1>2, <2>3 DEF PollFirst, PollPending, PollPayload, PollError, Timeout, Ticked
  <2>4. ASSUME PollHeader PROVE TimerSet'
    BY Zenon, <2>4 DEF PollHeader
  <2>5. ASSUME PollFlush \/ Taken PROVE TimerSet'
    <3>1. UNCHANGED inVars
      BY Zenon, <2>5 DEF PollFlush, Taken
    <3> QED
      BY <1>2, <3>1 DEF inVars
  <2> QED
    BY Zenon, <1>2, <2>1, <2>2, <2>3, <2>4, <2>5 DEF Next
<1>3. ASSUME TimerSet, UNCHANGED vars PROVE TimerSet'
  BY <1>3 DEF TimerSet, vars, inVars
<1> QED
  BY <1>1, <1>2, <1>3, PTL DEF Spec

TransferLeft == writer = "parked" => \E j \in 1..Len(out_queue) : out_queue[j] # <<>>

\* A writer whose poll_flush returned Pending waits for a transfer that has not
\* ended, and is woken when it does.
THEOREM WriterHasTransfer == Spec => []TransferLeft
<1>1. Init => TransferLeft
  BY DEF Init, TransferLeft
<1>2. ASSUME OutInv, TransferLeft, Next PROVE TransferLeft'
  <2>0. OutTypes
    BY <1>2 DEF OutInv
  <2>1. ASSUME writer' # "parked" PROVE TransferLeft'
    BY Zenon, <2>1 DEF TransferLeft
  <2>2. ASSUME UNCHANGED outVars PROVE TransferLeft'
    BY Zenon, <1>2, <2>2 DEF TransferLeft, outVars
  <2>3. ASSUME NEW n \in Lengths, DevSend(n) \/ WriteMessage(n) PROVE TransferLeft'
    <3>1. "flush" # "parked"
      OBVIOUS
    <3> QED
      BY Zenon, <2>1, <2>2, <2>3, <3>1 DEF DevSend, WriteMessage
  <2>4. ASSUME NEW lost \in BOOLEAN, Transferred(lost) PROVE TransferLeft'
    BY Zenon, <2>2, <2>4 DEF Transferred
  <2>5. ASSUME PollFirst \/ PollPending \/ PollPayload \/ PollHeader \/ PollError \/ Timeout
        PROVE  TransferLeft'
    BY Zenon, <2>2, <2>5 DEF PollFirst, PollPending, PollPayload, PollHeader, PollError, Timeout
  <2>6. ASSUME PollFlush PROVE TransferLeft'
    <3>1. "write" # "parked" /\ "failed" # "parked"
      OBVIOUS
    <3>2. CASE ~FlushReady /\ out_queue' = Remaining
      <4>1. writer # "failed" /\ out_queue \in Seq(Seq(Pkt))
        BY <2>0, <2>6 DEF PollFlush, OutTypes
      <4>2. PICK x \in Seq(Seq(Pkt)) : Left(out_queue, x) /\ Phase(x)
        BY Zenon, <1>2, <4>1 DEF OutInv
      <4>3. x # <<>> => x[1] # <<>>
        BY Zenon, <2>0, <4>2, PhaseFirst
      <4>4. Remaining = x
        BY Zenon, <4>1, <4>2, <4>3, LeftRemaining
      <4>5. x # <<>> /\ out_queue' = x
        BY Zenon, <3>2, <4>4 DEF FlushReady
      <4>6. 1 \in 1..Len(out_queue')
        BY <4>2, <4>5
      <4> QED
        BY Zenon, <4>3, <4>5, <4>6 DEF TransferLeft
    <3> QED
      BY Zenon, <2>1, <2>6, <3>1, <3>2 DEF PollFlush
  <2>7. ASSUME Taken, writer' = "parked" PROVE TransferLeft'
    <3>1. PICK j \in DOMAIN out_queue :
            /\ out_queue[j] # <<>> /\ out_queue' = [out_queue EXCEPT ![j] = Tail(@)]
            /\ writer' = IF writer = "parked" /\ Len(out_queue[j]) = 1 THEN "flush" ELSE writer
      BY Zenon, <2>7 DEF Taken
    <3>2. writer = "parked" /\ Len(out_queue[j]) # 1
      BY <2>7, <3>1
    <3>3. out_queue \in Seq(Seq(Pkt)) /\ j \in 1..Len(out_queue) /\ out_queue[j] \in Seq(Pkt)
      BY <2>0, <3>1 DEF OutTypes
    <3>4. PICK q \in Seq(Pkt) : q = out_queue[j]
      BY <3>3
    <3>5. Tail(q) # <<>>
      <4>1. q # <<>> /\ Len(q) # 1
        BY Zenon, <3>1, <3>2, <3>4
      <4>2. Len(Tail(q)) = Len(q) - 1
        BY <4>1, HeadTailProperties
      <4>3. Len(Tail(q)) # 0
        BY <4>1, <4>2
      <4> QED
        BY Zenon, <4>3, EmptySeq
    <3>6. out_queue'[j] = Tail(q) /\ Len(out_queue') = Len(out_queue)
      <4>1. PICK r : r = Tail(q)
        OBVIOUS
      <4>2. out_queue' = [out_queue EXCEPT ![j] = r]
        BY Zenon, <3>1, <3>4, <4>1
      <4> QED
        BY <3>3, <4>1, <4>2
    <3> QED
      BY Zenon, <3>3, <3>5, <3>6 DEF TransferLeft
  <2> QED
    BY Zenon, <1>2, <2>1, <2>3, <2>4, <2>5, <2>6, <2>7 DEF Next
<1>3. ASSUME TransferLeft, UNCHANGED vars PROVE TransferLeft'
  BY Zenon, <1>3 DEF TransferLeft, vars, outVars
<1> QED
  BY <1>1, <1>2, <1>3, OutInductive, PTL DEF Spec
=============================================================================
