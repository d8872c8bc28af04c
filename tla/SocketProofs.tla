---------------------------- MODULE SocketProofs ----------------------------
(***************************************************************************)
(* Proofs about Socket, for every window, payload size and bound.          *)
(***************************************************************************)
EXTENDS SocketInv, SequenceTheorems, TLAPS

-----------------------------------------------------------------------------
(* Messages and tilings. *)

\* What Msg builds is a message when its interval is one.
LEMMA MsgType ==
  ASSUME NEW c \in {"none", "OPEN", "OKAY", "WRTE", "CLSE", "OTHER"},
         NEW lo \in Nat, NEW hi \in Nat, lo <= hi
  PROVE  /\ Msg(c, lo, hi) \in Message
         /\ Msg(c, lo, hi).cmd = c /\ Msg(c, lo, hi).lo = lo /\ Msg(c, lo, hi).hi = hi
BY DEF Msg, Message

\* The fields of a message.
LEMMA MessageFields ==
  ASSUME NEW m \in Message
  PROVE  m.lo \in Nat /\ m.hi \in Nat /\ m.lo <= m.hi /\ m.hi - m.lo \in Nat
BY DEF Message

\* The constant messages.
LEMMA ConstantMessages ==
  /\ NoMsg \in Message /\ NoMsg.cmd = "none"
  /\ \A k \in BOOLEAN : Clse(k) \in Message /\ Clse(k).cmd = "CLSE"
BY DEF NoMsg, Clse, Msg, Message

\* Appending a message of another command leaves a tiling as it is.
LEMMA TilesAppendOther ==
  ASSUME NEW q \in Seq(Message), NEW m \in Message, NEW c, NEW a \in Nat, NEW b \in Nat,
         Tiles(q, c, a, b), m.cmd # c
  PROVE  Tiles(Append(q, m), c, a, b)
<1>1. Len(Append(q, m)) = Len(q) + 1 /\ Len(q) \in Nat
  BY AppendProperties
<1>2. \A i \in 1..Len(q) : Append(q, m)[i] = q[i]
  BY AppendProperties
<1>3. Append(q, m)[Len(q) + 1] = m
  BY AppendProperties
<1>4. Idx(Append(q, m), c) = Idx(q, c)
  BY <1>1, <1>2, <1>3 DEF Idx
<1>5. \A i \in Idx(q, c) : i \in 1..Len(q)
  BY DEF Idx
<1> QED
  BY <1>2, <1>4, <1>5 DEF Tiles

\* Appending the interval that follows extends a tiling.
LEMMA TilesAppend ==
  ASSUME NEW q \in Seq(Message), NEW m \in Message, NEW c, NEW a \in Nat, NEW b \in Nat,
         Tiles(q, c, a, b), m.cmd = c, m.lo = b
  PROVE  Tiles(Append(q, m), c, a, m.hi)
<1> DEFINE p == Append(q, m)
           I == Idx(q, c)
           J == Idx(p, c)
           n == Len(q) + 1
<1>1. Len(p) = n /\ Len(q) \in Nat
  BY AppendProperties
<1>2. \A i \in 1..Len(q) : p[i] = q[i]
  BY AppendProperties
<1>3. p[n] = m
  BY AppendProperties
<1>4. J = I \cup {n}
  BY <1>1, <1>2, <1>3 DEF Idx
<1>5. \A i \in I : i \in Int /\ i < n /\ p[i] = q[i] /\ q[i].lo \in Nat /\ q[i].hi \in Nat
  BY <1>1, <1>2, ElementOfSeq, MessageFields DEF Idx
<1>6. m.lo \in Nat /\ m.hi \in Nat /\ m.lo <= m.hi
  BY MessageFields
<1>7. /\ a <= b
      /\ I = {} => a = b
      /\ \A i \in I : a <= q[i].lo /\ q[i].hi <= b
      /\ \A i \in I : (\A j \in I : i <= j) => q[i].lo = a
      /\ \A i \in I : (\A j \in I : j <= i) => q[i].hi = b
      /\ \A i, j \in I : i < j =>
           /\ q[i].hi <= q[j].lo
           /\ (\A k \in I : ~(i < k /\ k < j)) => q[i].hi = q[j].lo
  BY DEF Tiles
<1>8. n \in Int
  BY <1>1
<1> SUFFICES /\ a <= m.hi
             /\ J = {} => a = m.hi
             /\ \A i \in J : a <= p[i].lo /\ p[i].hi <= m.hi
             /\ \A i \in J : (\A j \in J : i <= j) => p[i].lo = a
             /\ \A i \in J : (\A j \in J : j <= i) => p[i].hi = m.hi
             /\ \A i, j \in J : i < j =>
                  /\ p[i].hi <= p[j].lo
                  /\ (\A k \in J : ~(i < k /\ k < j)) => p[i].hi = p[j].lo
  BY DEF Tiles
<1> HIDE DEF p, I, J, n
<1>9. a <= m.hi /\ J # {}
  BY <1>4, <1>6, <1>7
<1>10. \A i \in J : a <= p[i].lo /\ p[i].hi <= m.hi
  BY <1>3, <1>4, <1>5, <1>6, <1>7
<1>11. ASSUME NEW i \in J, \A j \in J : i <= j PROVE p[i].lo = a
  <2>1. CASE i \in I
    BY <2>1, <1>4, <1>5, <1>7, <1>11
  <2>2. CASE i = n
    <3>1. I = {}
      BY <2>2, <1>4, <1>5, <1>8, <1>11
    <3> QED
      BY <3>1, <2>2, <1>3, <1>7
  <2> QED
    BY <2>1, <2>2, <1>4
<1>12. ASSUME NEW i \in J, \A j \in J : j <= i PROVE p[i].hi = m.hi
  BY <1>3, <1>4, <1>5, <1>8, <1>12
<1>13. ASSUME NEW i \in J, NEW j \in J, i < j
       PROVE  /\ p[i].hi <= p[j].lo
              /\ (\A k \in J : ~(i < k /\ k < j)) => p[i].hi = p[j].lo
  <2>1. i \in I
    BY <1>4, <1>5, <1>8, <1>13
  <2>2. CASE j \in I
    BY <2>1, <2>2, <1>4, <1>5, <1>7, <1>13
  <2>3. CASE j = n
    <3>1. p[i].hi <= b
      BY <2>1, <1>5, <1>7
    <3>2. ASSUME \A k \in J : ~(i < k /\ k < j)
          PROVE  p[i].hi = b
      <4>1. \A k \in I : k <= i
        BY <1>4, <1>5, <1>8, <2>1, <2>3, <3>2
      <4> QED
        BY <4>1, <2>1, <1>5, <1>7
    <3> QED
      BY <3>1, <3>2, <2>3, <1>3
  <2> QED
    BY <2>2, <2>3, <1>4
<1> QED
  BY <1>9, <1>10, <1>11, <1>12, <1>13

\* What open_socket and accept write.
LEMMA Greeting ==
  ASSUME pc \in {"open_write", "acc_write"}
  PROVE  /\ AsyncMsg \in Message /\ AsyncMsg.lo = 0 /\ AsyncMsg.hi = HostWindow
         /\ AsyncMsg.cmd = IF pc = "open_write" THEN "OPEN" ELSE "OKAY"
BY WindowAssumption DEF AsyncMsg, Msg, Message

\* The elements of a sequence's tail.
LEMMA TailElements ==
  ASSUME NEW q \in Seq(Message), q # <<>>
  PROVE  /\ Tail(q) \in Seq(Message)
         /\ Len(q) \in Nat /\ Len(q) >= 1 /\ Len(Tail(q)) = Len(q) - 1
         /\ Head(q) = q[1] /\ q[1] \in Message
         /\ \A i \in 1..Len(Tail(q)) : i + 1 \in 1..Len(q) /\ Tail(q)[i] = q[i + 1]
  OBVIOUS

\* Taking the first message, of another command, leaves a tiling as it is.
LEMMA TilesTailOther ==
  ASSUME NEW q \in Seq(Message), q # <<>>, NEW c, NEW a \in Nat, NEW b \in Nat,
         Tiles(q, c, a, b), Head(q).cmd # c
  PROVE  Tiles(Tail(q), c, a, b)
<1> DEFINE t == Tail(q)
           I == Idx(q, c)
           J == Idx(t, c)
<1>1. /\ Len(q) \in Nat /\ Len(q) >= 1 /\ Len(t) = Len(q) - 1 /\ Head(q) = q[1]
      /\ \A i \in 1..Len(t) : i + 1 \in 1..Len(q) /\ t[i] = q[i + 1]
  BY TailElements
<1>2. \A i \in J : i \in Int /\ i + 1 \in I /\ t[i] = q[i + 1]
  BY <1>1 DEF Idx
<1>3. \A k \in I : k \in Int /\ k - 1 \in J
  <2> SUFFICES ASSUME NEW k \in I
               PROVE  k \in Int /\ k - 1 \in J
    OBVIOUS
  <2>1. k \in 1..Len(q) /\ q[k].cmd = c
    BY DEF Idx
  <2>2. k # 1
    BY <2>1, <1>1
  <2>3. k - 1 \in 1..Len(t)
    BY <2>1, <2>2, <1>1
  <2>4. t[k - 1] = q[k]
    BY <2>1, <2>3, <1>1
  <2> QED
    BY <2>1, <2>3, <2>4 DEF Idx
<1>4. /\ a <= b
      /\ I = {} => a = b
      /\ \A i \in I : a <= q[i].lo /\ q[i].hi <= b
      /\ \A i \in I : (\A j \in I : i <= j) => q[i].lo = a
      /\ \A i \in I : (\A j \in I : j <= i) => q[i].hi = b
      /\ \A i, j \in I : i < j =>
           /\ q[i].hi <= q[j].lo
           /\ (\A k \in I : ~(i < k /\ k < j)) => q[i].hi = q[j].lo
  BY DEF Tiles
<1> SUFFICES /\ a <= b
             /\ J = {} => a = b
             /\ \A i \in J : a <= t[i].lo /\ t[i].hi <= b
             /\ \A i \in J : (\A j \in J : i <= j) => t[i].lo = a
             /\ \A i \in J : (\A j \in J : j <= i) => t[i].hi = b
             /\ \A i, j \in J : i < j =>
                  /\ t[i].hi <= t[j].lo
                  /\ (\A k \in J : ~(i < k /\ k < j)) => t[i].hi = t[j].lo
  BY DEF Tiles
<1> HIDE DEF t, I, J
<1>5. J = {} => a = b
  BY <1>3, <1>4
<1>6. \A i \in J : a <= t[i].lo /\ t[i].hi <= b
  BY <1>2, <1>4
<1>7. ASSUME NEW i \in J, \A j \in J : i <= j PROVE t[i].lo = a
  <2>1. \A k \in I : i + 1 <= k
    BY <1>2, <1>3, <1>7
  <2> QED
    BY <2>1, <1>2, <1>4
<1>8. ASSUME NEW i \in J, \A j \in J : j <= i PROVE t[i].hi = b
  <2>1. \A k \in I : k <= i + 1
    BY <1>2, <1>3, <1>8
  <2> QED
    BY <2>1, <1>2, <1>4
<1>9. ASSUME NEW i \in J, NEW j \in J, i < j
      PROVE  /\ t[i].hi <= t[j].lo
             /\ (\A k \in J : ~(i < k /\ k < j)) => t[i].hi = t[j].lo
  <2>1. i + 1 \in I /\ j + 1 \in I /\ i + 1 < j + 1 /\ t[i] = q[i + 1] /\ t[j] = q[j + 1]
    BY <1>2, <1>9
  <2>2. ASSUME \A k \in J : ~(i < k /\ k < j), NEW k \in I
        PROVE  ~(i + 1 < k /\ k < j + 1)
    <3>1. k \in Int /\ i \in Int /\ j \in Int /\ k - 1 \in J
      BY <1>2, <1>3
    <3>2. ~(i < k - 1 /\ k - 1 < j)
      BY <3>1, <2>2
    <3> QED
      BY <3>1, <3>2
  <2> QED
    BY <2>1, <2>2, <1>4
<1> QED
  BY <1>4, <1>5, <1>6, <1>7, <1>8, <1>9

\* Taking the first message, of the command itself: it carries the first
\* interval, and the rest tile what follows.
LEMMA TilesTail ==
  ASSUME NEW q \in Seq(Message), q # <<>>, NEW c, NEW a \in Nat, NEW b \in Nat,
         Tiles(q, c, a, b), Head(q).cmd = c
  PROVE  /\ Head(q).lo = a /\ Head(q).hi <= b
         /\ Tiles(Tail(q), c, Head(q).hi, b)
<1> DEFINE t == Tail(q)
           I == Idx(q, c)
           J == Idx(t, c)
           h == q[1].hi
<1>1. /\ Len(q) \in Nat /\ Len(q) >= 1 /\ Len(t) = Len(q) - 1 /\ Head(q) = q[1]
      /\ \A i \in 1..Len(t) : i + 1 \in 1..Len(q) /\ t[i] = q[i + 1]
  BY TailElements
<1>2. \A i \in J : i \in Int /\ i >= 1 /\ i + 1 \in I /\ t[i] = q[i + 1]
  BY <1>1 DEF Idx
<1>3. 1 \in I
  BY <1>1 DEF Idx
<1>4. \A k \in I : k \in Int /\ k >= 1 /\ (k = 1 \/ k - 1 \in J)
  <2> SUFFICES ASSUME NEW k \in I
               PROVE  k \in Int /\ k >= 1 /\ (k = 1 \/ k - 1 \in J)
    OBVIOUS
  <2>1. k \in 1..Len(q) /\ q[k].cmd = c
    BY DEF Idx
  <2>2. k # 1 => k - 1 \in 1..Len(t)
    BY <2>1, <1>1
  <2>3. k # 1 => t[k - 1] = q[k]
    BY <2>1, <2>2, <1>1
  <2> QED
    BY <2>1, <2>2, <2>3 DEF Idx
<1>5. /\ a <= b
      /\ \A i \in I : a <= q[i].lo /\ q[i].hi <= b
      /\ \A i \in I : (\A j \in I : i <= j) => q[i].lo = a
      /\ \A i \in I : (\A j \in I : j <= i) => q[i].hi = b
      /\ \A i, j \in I : i < j =>
           /\ q[i].hi <= q[j].lo
           /\ (\A k \in I : ~(i < k /\ k < j)) => q[i].hi = q[j].lo
  BY DEF Tiles
<1> SUFFICES q[1].lo = a /\ h <= b /\ Tiles(t, c, h, b)
  BY Zenon, <1>1
<1> SUFFICES /\ q[1].lo = a
             /\ h <= b
             /\ J = {} => h = b
             /\ \A i \in J : h <= t[i].lo /\ t[i].hi <= b
             /\ \A i \in J : (\A j \in J : i <= j) => t[i].lo = h
             /\ \A i \in J : (\A j \in J : j <= i) => t[i].hi = b
             /\ \A i, j \in J : i < j =>
                  /\ t[i].hi <= t[j].lo
                  /\ (\A k \in J : ~(i < k /\ k < j)) => t[i].hi = t[j].lo
  BY Zenon DEF Tiles
<1> HIDE DEF t, I, J
<1>6. q[1].lo = a /\ h <= b
  <2>1. \A j \in I : 1 <= j
    BY <1>4
  <2>2. q[1].lo = a
    BY Zenon, <1>3, <1>5, <2>1
  <2>3. h <= b
    BY Zenon, <1>3, <1>5
  <2> QED
    BY <2>2, <2>3
<1>7. ASSUME J = {} PROVE h = b
  <2>1. \A k \in I : k <= 1
    BY <1>4, <1>7
  <2> QED
    BY <2>1, <1>3, <1>5
<1>8. \A i \in J : h <= t[i].lo /\ t[i].hi <= b
  <2> SUFFICES ASSUME NEW i \in J PROVE h <= t[i].lo /\ t[i].hi <= b
    OBVIOUS
  <2>1. i + 1 \in I /\ 1 < i + 1 /\ t[i] = q[i + 1]
    BY <1>2
  <2> QED
    BY <2>1, <1>3, <1>5
<1>9. ASSUME NEW i \in J, \A j \in J : i <= j PROVE t[i].lo = h
  <2>1. \A k \in I : ~(1 < k /\ k < i + 1)
    BY <1>2, <1>4, <1>9
  <2>2. i + 1 \in I /\ 1 < i + 1 /\ t[i] = q[i + 1]
    BY <1>2
  <2> QED
    BY <2>1, <2>2, <1>3, <1>5
<1>10. ASSUME NEW i \in J, \A j \in J : j <= i PROVE t[i].hi = b
  <2>1. \A k \in I : k <= i + 1
    BY <1>2, <1>4, <1>10
  <2> QED
    BY <2>1, <1>2, <1>5
<1>11. ASSUME NEW i \in J, NEW j \in J, i < j
       PROVE  /\ t[i].hi <= t[j].lo
              /\ (\A k \in J : ~(i < k /\ k < j)) => t[i].hi = t[j].lo
  <2>1. i + 1 \in I /\ j + 1 \in I /\ i + 1 < j + 1 /\ t[i] = q[i + 1] /\ t[j] = q[j + 1]
    BY <1>2, <1>11
  <2>2. ASSUME \A k \in J : ~(i < k /\ k < j), NEW k \in I
        PROVE  ~(i + 1 < k /\ k < j + 1)
    <3>1. k \in Int /\ i \in Int /\ j \in Int /\ (k - 1 \in J \/ k = 1) /\ i >= 1
      BY <1>2, <1>4
    <3>2. k - 1 \in J => ~(i < k - 1 /\ k - 1 < j)
      BY <3>1, <2>2
    <3> QED
      BY <3>1, <3>2
  <2> QED
    BY <2>1, <2>2, <1>5
<1> QED
  BY <1>6, <1>7, <1>8, <1>9, <1>10, <1>11

-----------------------------------------------------------------------------
(* What the steps do to the streams.  Most of them only move tasks about and *)
(* are Quiet; the others are named here without the wakers and the endpoint. *)

Quiet ==
  /\ UNCHANGED <<remote_id, initial, acknowledged, read_buffer, dev, toHost, devGot,
                 granted, devWrote, devLimit, wrote, read>>
  /\ out' = out \/ (out' \in Message /\ out'.cmd \in {"none", "CLSE", "OTHER"})
  /\ out' = out \/ out'.cmd \in {"none", "OTHER"}
       \/ pc' \notin {"open_new", "acc_new", "open_write", "acc_write"}
  /\ registered' => registered
  /\ UNCHANGED <<closed, hostClosed>> \/ (closed' /\ hostClosed')
  /\ rd' = "eof" => rd = "eof"
  /\ pc' = pc \/ pc' \notin {"open_new", "acc_new", "open_write", "acc_write"}
  /\ others' = others \/ others' = others + 1

GreetEffect ==
  /\ pc \in {"open_write", "acc_write"} /\ out' = AsyncMsg
  /\ pc' \notin {"open_new", "acc_new", "open_write", "acc_write"}
  /\ UNCHANGED <<sockVars, rd, hostVars, devVars, others>>

ReadEffect(n) ==
  /\ pc = "open" \/ pc = "shutdown" \/ pc = "wr_done"
  /\ read_buffer' = read_buffer - ReadLen(n) /\ read' = read + ReadLen(n)
  /\ \/ closed /\ out' = out /\ (rd' = "eof" => ReadLen(n) = 0)
     \/ ~closed /\ ReadLen(n) > 0 /\ out' = ReadOkay(n) /\ rd' = rd /\ rd = "on"
  /\ UNCHANGED <<remote_id, closed, initial, acknowledged, registered, pc, devVars,
                 wrote, hostClosed, others>>

WriteEffect(n) ==
  /\ pc = "open" /\ ~closed /\ acknowledged > 0
  /\ out' = Msg("WRTE", wrote, wrote + WriteLen(n))
  /\ acknowledged' = acknowledged - WriteLen(n) /\ wrote' = wrote + WriteLen(n)
  /\ UNCHANGED <<remote_id, closed, read_buffer, initial, registered, pc, rd, devVars,
                 read, hostClosed, others>>

\* Every step is Quiet or one of the named effects.
LEMMA Effects ==
  ASSUME Next
  PROVE  \/ Quiet \/ Register \/ GreetEffect
         \/ \E n \in 1..MaxChunk : ReadEffect(n) \/ WriteEffect(n)
         \/ HandleMessage \/ DeviceStep
<1>0. /\ NoMsg \in Message /\ NoMsg.cmd = "none"
      /\ Clse(remote_id) \in Message /\ Clse(remote_id).cmd = "CLSE"
      /\ Msg("OTHER", 0, 0) \in Message /\ Msg("OTHER", 0, 0).cmd = "OTHER"
  BY DEF NoMsg, Clse, Msg, Message
<1>1. \A p \in DOMAIN Following :
        Following[p] \notin {"open_new", "acc_new", "open_write", "acc_write"}
  BY DEF Following
<1> USE <1>0 DEF Quiet, sockVars, connVars, taskVars, devVars, hostVars, AwaitFlush,
                 FlushPending, Reaped, Submit, SubmitAndAwait, OnError, FlushFails
<1>2. ASSUME OpenRefused PROVE Quiet
  BY Zenon, <1>2 DEF OpenRefused
<1>3. ASSUME BeginShutdown PROVE Quiet
  BY Zenon, <1>3 DEF BeginShutdown
<1>4. ASSUME PollWriteAsync PROVE Quiet \/ GreetEffect
  <2>0. UNCHANGED <<others, devVars, wrote, read>> /\ pc \in DOMAIN Following
    BY <1>4 DEF PollWriteAsync
  <2>1. ASSUME pc \in {"open_write", "acc_write", "drop_write"}, SubmitAndAwait(AsyncMsg),
               pc' = Following[pc], UNCHANGED <<sockVars, rd, timer, hostClosed>>
        PROVE  Quiet \/ GreetEffect
    <3>1. CASE pc = "drop_write"
      <4>1. AsyncMsg = Clse(remote_id)
        BY <3>1 DEF AsyncMsg
      <4> QED
        BY Zenon, <2>0, <2>1, <3>1, <4>1, <1>1
    <3>2. CASE pc \in {"open_write", "acc_write"}
      BY Zenon, <2>0, <2>1, <3>2, <1>1 DEF GreetEffect
    <3> QED
      BY Zenon, <2>1, <3>1, <3>2
  <2>2. ASSUME Reaped, pc' = Following[pc], rd' = IF pc = "acc_flush" THEN "on" ELSE rd,
               UNCHANGED <<sockVars, parked, timer, hostClosed>>
        PROVE  Quiet
    BY Zenon, <2>0, <2>2, <1>1
  <2>3. ASSUME FlushPending("w"), UNCHANGED <<sockVars, pc, rd, timer, hostClosed>>
        PROVE  Quiet
    BY Zenon, <2>0, <2>3
  <2>4. ASSUME FlushFails, DropSocket(TRUE)
        PROVE  Quiet
    BY Zenon, <2>0, <2>4 DEF DropSocket
  <2> HIDE DEF Quiet
  <2> QED
    BY Zenon, <1>4, <2>1, <2>2, <2>3, <2>4 DEF PollWriteAsync
<1>5. ASSUME PollOpenWait PROVE Quiet
  <2>0. registered' => registered
    BY Zenon, <1>5 DEF PollOpenWait, DropSocket
  <2>1. UNCHANGED <<closed, hostClosed>> \/ (closed' /\ hostClosed')
    BY Zenon, <1>5 DEF PollOpenWait, DropSocket
  <2>2. rd' = "eof" => rd = "eof"
    BY Zenon, <1>5 DEF PollOpenWait, DropSocket
  <2>3. pc' = pc \/ pc' \notin {"open_new", "acc_new", "open_write", "acc_write"}
    BY Zenon, <1>5 DEF PollOpenWait, DropSocket
  <2> QED
    BY Zenon, <1>5, <2>0, <2>1, <2>2, <2>3 DEF PollOpenWait, DropSocket
<1>6. ASSUME NEW n \in 1..MaxChunk, PollRead(n) PROVE Quiet \/ ReadEffect(n)
  BY Zenon, <1>6 DEF PollRead, ReadEffect, Usable, AtEof
<1>7. ASSUME NEW n \in 1..MaxChunk, PollWrite(n) PROVE Quiet \/ WriteEffect(n)
  BY Zenon, <1>7 DEF PollWrite, WriteEffect
<1>8. ASSUME PollFlush PROVE Quiet
  BY Zenon, <1>8 DEF PollFlush
<1>9. ASSUME PollShutdown PROVE Quiet
  BY Zenon, <1>9 DEF PollShutdown
<1>10. ASSUME ShutdownWrite PROVE Quiet
  <2>1. registered' => registered
    BY Zenon, <1>10 DEF ShutdownWrite
  <2>2. rd' = "eof" => rd = "eof"
    BY Zenon, <1>10 DEF ShutdownWrite
  <2>3. pc' = pc \/ pc' \notin {"open_new", "acc_new", "open_write", "acc_write"}
    BY Zenon, <1>10 DEF ShutdownWrite
  <2>4. out' = out \/ (out' \in Message /\ out'.cmd \in {"none", "CLSE", "OTHER"})
    BY Zenon, <1>10 DEF ShutdownWrite
  <2> QED
    BY Zenon, <1>10, <2>1, <2>2, <2>3, <2>4 DEF ShutdownWrite
<1>11. ASSUME Drop PROVE Quiet
  BY Zenon, <1>11 DEF Drop, DropSocket
<1>12. ASSUME OtherWrite PROVE Quiet
  BY Zenon, <1>12 DEF OtherWrite
<1>13. ASSUME TransferError PROVE Quiet
  BY Zenon, <1>13 DEF TransferError, Complete
<1>14. ASSUME TransportError PROVE Quiet
  BY Zenon, <1>14 DEF TransportError
<1>15. ASSUME TimerTick PROVE Quiet
  BY Zenon, <1>15 DEF TimerTick
<1>16. ASSUME TaskPolled PROVE Quiet
  BY Zenon, <1>16 DEF TaskPolled
<1> QED
  <2> HIDE DEF Quiet
  <2> QED
    BY Zenon, <1>2, <1>3, <1>4, <1>5, <1>6, <1>7, <1>8, <1>9, <1>10, <1>11, <1>12, <1>13,
       <1>14, <1>15, <1>16 DEF OwnerStep, EnvStep, Next

-----------------------------------------------------------------------------
(* Type correctness, by kinds of variables. *)

FlagTypes ==
  /\ remote_id \in BOOLEAN /\ closed \in BOOLEAN /\ registered \in BOOLEAN
  /\ error \in BOOLEAN /\ hostClosed \in BOOLEAN

\* Every step keeps the flags Boolean.
LEMMA FlagStep == ASSUME FlagTypes, Next PROVE FlagTypes'
<1> USE DEF FlagTypes, sockVars, connVars, taskVars, devVars, hostVars, AwaitFlush,
            FlushPending, Reaped, Submit, SubmitAndAwait, OnError, FlushFails, Complete, Notify
<1>1. CASE Register
  BY Zenon, <1>1 DEF Register
<1>2. CASE OpenRefused
  BY Zenon, <1>2 DEF OpenRefused
<1>3. CASE PollWriteAsync
  BY Zenon, <1>3 DEF PollWriteAsync, DropSocket
<1>4. CASE PollOpenWait
  BY Zenon, <1>4 DEF PollOpenWait, DropSocket
<1>5. ASSUME NEW n \in 1..MaxChunk, PollRead(n) PROVE FlagTypes'
  BY Zenon, <1>5 DEF PollRead
<1>6. ASSUME NEW n \in 1..MaxChunk, PollWrite(n) PROVE FlagTypes'
  BY Zenon, <1>6 DEF PollWrite
<1>7. CASE PollFlush
  BY Zenon, <1>7 DEF PollFlush
<1>8. CASE BeginShutdown
  BY Zenon, <1>8 DEF BeginShutdown
<1>9. CASE PollShutdown
  BY Zenon, <1>9 DEF PollShutdown
<1>10. CASE ShutdownWrite
  BY Zenon, <1>10 DEF ShutdownWrite
<1>11. CASE Drop
  BY Zenon, <1>11 DEF Drop, DropSocket
<1>12. CASE HandleMessage
  BY Zenon, <1>12 DEF HandleMessage, HandleOkay, HandleWrte, HandleClse
<1>13. CASE DeviceStep
  BY Zenon, <1>13 DEF DeviceStep, DevReceive, DevClose, DevConsume, DevWrite
<1>14. CASE EnvStep
  BY Zenon, <1>14 DEF EnvStep, OtherWrite, TransferError, TransportError, TimerTick,
         TaskPolled
<1> QED
  BY <1>1, <1>2, <1>3, <1>4, <1>5, <1>6, <1>7,
     <1>8, <1>9, <1>10, <1>11, <1>12, <1>13, <1>14 DEF OwnerStep, Next

Stages == {"open_new", "acc_new", "open", "open_wait", "shutdown", "sd_write",
           "wr_done", "gone", "panicked"} \cup DOMAIN Following

StageTypes ==
  /\ usb \in {"idle", "busy", "done", "failed"} /\ pc \in Stages
  /\ rd \in {"off", "on", "eof", "err"} /\ timer \in {"off", "armed", "fired"}
  /\ dev \in {"none", "opening", "open", "closed"}

\* Every step keeps the stages of the endpoint, the task and the device.
LEMMA StageStep == ASSUME StageTypes, Next PROVE StageTypes'
<1>a. \A s \in {"open_new", "acc_new", "open", "open_wait", "shutdown", "sd_write",
                "wr_done", "gone", "panicked", "open_write", "acc_write", "drop_write"} :
        s \in Stages
  BY DEF Stages, Following
<1>b. \A p \in DOMAIN Following : Following[p] \in Stages
  BY DEF Stages, Following
<1> USE <1>a, <1>b DEF StageTypes, sockVars, connVars, taskVars, devVars, hostVars, AwaitFlush,
            FlushPending, Reaped, Submit, SubmitAndAwait, OnError, FlushFails, Complete, Notify
<1>1. CASE Register
  BY Zenon, <1>1 DEF Register
<1>2. CASE OpenRefused
  BY Zenon, <1>2 DEF OpenRefused
<1>3. CASE PollWriteAsync
  BY Zenon, <1>3 DEF PollWriteAsync, DropSocket
<1>4. CASE PollOpenWait
  BY Zenon, <1>4 DEF PollOpenWait, DropSocket
<1>5. ASSUME NEW n \in 1..MaxChunk, PollRead(n) PROVE StageTypes'
  BY Zenon, <1>5 DEF PollRead
<1>6. ASSUME NEW n \in 1..MaxChunk, PollWrite(n) PROVE StageTypes'
  BY Zenon, <1>6 DEF PollWrite
<1>7. CASE PollFlush
  BY Zenon, <1>7 DEF PollFlush
<1>8. CASE BeginShutdown
  BY Zenon, <1>8 DEF BeginShutdown
<1>9. CASE PollShutdown
  BY Zenon, <1>9 DEF PollShutdown
<1>10. CASE ShutdownWrite
  BY Zenon, <1>10 DEF ShutdownWrite
<1>11. CASE Drop
  BY Zenon, <1>11 DEF Drop, DropSocket
<1>12. CASE HandleMessage
  BY Zenon, <1>12 DEF HandleMessage, HandleOkay, HandleWrte, HandleClse
<1>13. CASE DeviceStep
  BY Zenon, <1>13 DEF DeviceStep, DevReceive, DevClose, DevConsume, DevWrite
<1>14. CASE EnvStep
  BY Zenon, <1>14 DEF EnvStep, OtherWrite, TransferError, TransportError, TimerTick,
         TaskPolled
<1> QED
  BY <1>1, <1>2, <1>3, <1>4, <1>5, <1>6, <1>7,
     <1>8, <1>9, <1>10, <1>11, <1>12, <1>13, <1>14 DEF OwnerStep, Next

HalfTypes == parked \subseteq {"r", "w"} /\ wakers \subseteq {"r", "w"}

\* Every step keeps the sets of halves.
LEMMA HalfStep == ASSUME HalfTypes, Next PROVE HalfTypes'
<1> USE DEF HalfTypes, sockVars, connVars, taskVars, devVars, hostVars, AwaitFlush,
            FlushPending, Reaped, Submit, SubmitAndAwait, OnError, FlushFails, Complete, Notify
<1>1. CASE Register
  BY Zenon, <1>1 DEF Register
<1>2. CASE OpenRefused
  BY Zenon, <1>2 DEF OpenRefused
<1>3. CASE PollWriteAsync
  BY Zenon, <1>3 DEF PollWriteAsync, DropSocket
<1>4. CASE PollOpenWait
  BY Zenon, <1>4 DEF PollOpenWait, DropSocket
<1>5. ASSUME NEW n \in 1..MaxChunk, PollRead(n) PROVE HalfTypes'
  BY Zenon, <1>5 DEF PollRead
<1>6. ASSUME NEW n \in 1..MaxChunk, PollWrite(n) PROVE HalfTypes'
  BY Zenon, <1>6 DEF PollWrite
<1>7. CASE PollFlush
  BY Zenon, <1>7 DEF PollFlush
<1>8. CASE BeginShutdown
  BY Zenon, <1>8 DEF BeginShutdown
<1>9. CASE PollShutdown
  BY Zenon, <1>9 DEF PollShutdown
<1>10. CASE ShutdownWrite
  BY Zenon, <1>10 DEF ShutdownWrite
<1>11. CASE Drop
  BY Zenon, <1>11 DEF Drop, DropSocket
<1>12. CASE HandleMessage
  BY Zenon, <1>12 DEF HandleMessage, HandleOkay, HandleWrte, HandleClse
<1>13. CASE DeviceStep
  BY Zenon, <1>13 DEF DeviceStep, DevReceive, DevClose, DevConsume, DevWrite
<1>14. CASE EnvStep
  BY Zenon, <1>14 DEF EnvStep, OtherWrite, TransferError, TransportError, TimerTick,
         TaskPolled
<1> QED
  BY <1>1, <1>2, <1>3, <1>4, <1>5, <1>6, <1>7,
     <1>8, <1>9, <1>10, <1>11, <1>12, <1>13, <1>14 DEF OwnerStep, Next

CounterTypes ==
  /\ read_buffer \in Nat /\ initial \in Nat /\ acknowledged \in Nat /\ others \in Nat
  /\ wrote \in Nat /\ devGot \in Nat /\ granted \in Nat
  /\ devWrote \in Nat /\ read \in Nat /\ devLimit \in Nat
  /\ out \in Message /\ toHost \in Seq(Message)

\* The lengths poll_read and poll_write use are within the counters.
LEMMA Lengths ==
  ASSUME CounterTypes, NEW n \in Nat
  PROVE  /\ ReadLen(n) \in Nat /\ ReadLen(n) <= n /\ ReadLen(n) <= read_buffer
         /\ WriteLen(n) \in Nat /\ WriteLen(n) <= acknowledged
BY WindowAssumption DEF CounterTypes, ReadLen, WriteLen, Min

\* Every step keeps the counters natural numbers and the messages messages.
LEMMA CounterStep == ASSUME CounterTypes, Next PROVE CounterTypes'
<1> USE DEF CounterTypes, sockVars, connVars, taskVars, devVars, hostVars
<1>1. CASE Quiet
  BY <1>1 DEF Quiet
<1>2. CASE Register
  BY <1>2 DEF Register
<1>3. CASE GreetEffect
  <2>1. AsyncMsg \in Message
    BY <1>3, Greeting DEF GreetEffect
  <2> QED
    BY <1>3, <2>1 DEF GreetEffect
<1>4. ASSUME NEW n \in 1..MaxChunk, ReadEffect(n) PROVE CounterTypes'
  <2>1. ReadLen(n) \in Nat /\ ReadLen(n) <= read_buffer
    <3>1. n \in Nat
      BY BoundAssumption
    <3> HIDE DEF CounterTypes
    <3> QED
      BY <3>1, Lengths
  <2>2. ReadOkay(n) \in Message
    BY <2>1, MsgType DEF ReadOkay
  <2> QED
    BY <1>4, <2>1, <2>2 DEF ReadEffect
<1>5. ASSUME NEW n \in 1..MaxChunk, WriteEffect(n) PROVE CounterTypes'
  <2>1. WriteLen(n) \in Nat /\ WriteLen(n) <= acknowledged
    <3>1. n \in Nat
      BY BoundAssumption
    <3> HIDE DEF CounterTypes
    <3> QED
      BY <3>1, Lengths
  <2>2. Msg("WRTE", wrote, wrote + WriteLen(n)) \in Message
    BY <2>1, MsgType
  <2> QED
    BY <1>5, <2>1, <2>2 DEF WriteEffect
<1>6. CASE HandleMessage
  <2>1. toHost' \in Seq(Message) /\ Head(toHost) \in Message
    BY <1>6, TailElements DEF HandleMessage
  <2>2. Head(toHost).hi - Head(toHost).lo \in Nat
    BY <2>1, MessageFields
  <2> QED
    BY <1>6, <2>1, <2>2 DEF HandleMessage, HandleOkay, HandleWrte, HandleClse
<1>7. CASE DevReceive
  <2>1. out.hi - out.lo \in Nat
    BY MessageFields
  <2>2. Msg("OKAY", 0, DevWindow) \in Message
    BY MsgType, WindowAssumption
  <2>3. toHost' \in Seq(Message)
    BY <1>7, <2>2, ConstantMessages, AppendProperties DEF DevReceive, Send
  <2>4. out' = NoMsg
    BY <1>7 DEF DevReceive, Complete
  <2>5. granted' \in Nat
    BY <1>7, WindowAssumption DEF DevReceive
  <2>6. devLimit' \in Nat
    <3>1. devLimit' = devLimit \/ devLimit' = devLimit + (out.hi - out.lo)
      BY Zenon, <1>7 DEF DevReceive
    <3> QED
      BY <3>1, <2>1
  <2>7. devGot' \in Nat
    BY <1>7, MessageFields DEF DevReceive
  <2>8. UNCHANGED <<read_buffer, initial, acknowledged, others, wrote, devWrote, read>>
    BY Zenon, <1>7 DEF DevReceive
  <2> QED
    BY <2>3, <2>4, <2>5, <2>6, <2>7, <2>8, ConstantMessages
<1>8. ASSUME NEW n \in Nat, DevConsume(n) PROVE CounterTypes'
  <2>1. /\ toHost' = Append(toHost, Msg("OKAY", granted, granted + n)) /\ granted' = granted + n
        /\ UNCHANGED <<read_buffer, initial, acknowledged, others, wrote, devGot, devWrote, read, devLimit,
                  out>>
    BY Zenon, <1>8 DEF DevConsume, Send
  <2>2. granted \in Nat /\ toHost \in Seq(Message)
    BY Zenon
  <2>3. granted' \in Nat /\ granted <= granted + n
    BY <2>1, <2>2
  <2>4. Msg("OKAY", granted, granted + n) \in Message
    <3> HIDE DEF CounterTypes
    <3> QED
      BY <2>1, <2>2, <2>3, MsgType
  <2>5. toHost' \in Seq(Message)
    <3> HIDE DEF CounterTypes
    <3> QED
      BY <2>1, <2>2, <2>4, AppendProperties
  <2> QED
    BY Zenon, <2>1, <2>3, <2>5
<1>9. ASSUME NEW n \in Nat, DevWrite(n) PROVE CounterTypes'
  <2>1. /\ toHost' = Append(toHost, Msg("WRTE", devWrote, devWrote + n)) /\ devWrote' = devWrote + n
        /\ UNCHANGED <<read_buffer, initial, acknowledged, others, wrote, devGot, granted, read, devLimit,
                  out>>
    BY Zenon, <1>9 DEF DevWrite, Send
  <2>2. devWrote \in Nat /\ toHost \in Seq(Message)
    BY Zenon
  <2>3. devWrote' \in Nat /\ devWrote <= devWrote + n
    BY <2>1, <2>2
  <2>4. Msg("WRTE", devWrote, devWrote + n) \in Message
    <3> HIDE DEF CounterTypes
    <3> QED
      BY <2>1, <2>2, <2>3, MsgType
  <2>5. toHost' \in Seq(Message)
    <3> HIDE DEF CounterTypes
    <3> QED
      BY <2>1, <2>2, <2>4, AppendProperties
  <2> QED
    BY Zenon, <2>1, <2>3, <2>5
<1>10. CASE DevClose
  BY <1>10, ConstantMessages, AppendProperties DEF DevClose, Send
<1> QED
  <2> HIDE DEF CounterTypes
  <2>1. \A n \in 1..DevWindow : n \in Nat
    BY WindowAssumption
  <2>2. \A n \in 1..HostWindow : n \in Nat
    BY WindowAssumption
  <2> QED
    BY Zenon, <1>1, <1>2, <1>3, <1>4, <1>5, <1>6, <1>7, <1>8, <1>9, <1>10, <2>1, <2>2,
       Effects DEF DeviceStep

TypeInv == FlagTypes /\ StageTypes /\ HalfTypes /\ CounterTypes

\* The four groups make up the type invariant.
LEMMA TypeParts == TypeInv => TypeOK
BY Zenon DEF TypeInv, TypeOK, FlagTypes, StageTypes, Stages, HalfTypes, CounterTypes

\* Types hold initially and no step, nor stuttering, breaks them.
LEMMA TypeInductive == Spec => []TypeInv
<1>1. ASSUME Init PROVE TypeInv
  <2>1. FlagTypes
    BY Zenon, <1>1 DEF Init, FlagTypes
  <2>2. StageTypes
    <3>1. "open_new" \in Stages /\ "acc_new" \in Stages
      BY DEF Stages
    <3> QED
      BY Zenon, <1>1, <3>1 DEF Init, StageTypes
  <2>3. HalfTypes
    BY Zenon, <1>1 DEF Init, HalfTypes
  <2>4. CounterTypes
    BY <1>1, ConstantMessages, WindowAssumption DEF Init, CounterTypes
  <2> QED
    BY Zenon, <2>1, <2>2, <2>3, <2>4 DEF TypeInv
<1>2. ASSUME TypeInv, UNCHANGED vars PROVE TypeInv'
  <2> USE <1>2 DEF TypeInv, vars, sockVars, connVars, taskVars, devVars, hostVars
  <2>1. FlagTypes'
    BY Zenon DEF FlagTypes
  <2>2. StageTypes'
    BY Zenon DEF StageTypes, Stages
  <2>3. HalfTypes'
    BY Zenon DEF HalfTypes
  <2>4. CounterTypes'
    BY Zenon DEF CounterTypes
  <2> QED
    BY Zenon, <2>1, <2>2, <2>3, <2>4
<1>3. ASSUME TypeInv, Next PROVE TypeInv'
  BY Zenon, <1>3, FlagStep, StageStep, HalfStep, CounterStep DEF TypeInv
<1> QED
  BY <1>1, <1>2, <1>3, PTL DEF Spec

\* The specification keeps its types: in particular no counter of the socket
\* underflows (strict_sub never panics).
THEOREM TypeCorrect == Spec => []TypeOK
BY TypeParts, TypeInductive, PTL

-----------------------------------------------------------------------------
(* What a failed transport does to the tasks that wait on a socket. *)

Waits == {"open_wait", "open", "shutdown", "wr_done"}

WaitersInv ==
  /\ pc \in {"open_new", "acc_new"} => parked = {}
  /\ pc = "sd_write" => "w" \notin parked
  /\ error /\ registered => "r" \notin parked
  /\ error /\ registered /\ pc \in Waits => "w" \notin parked

\* What every step but Register does to the waiters: once the transport has
\* failed nobody is parked, and a step that fails it wakes the socket's halves.
Wakeful ==
  /\ pc' \in {"open_new", "acc_new"} => pc' = pc /\ parked' \subseteq parked
  /\ pc' = "sd_write" => "w" \notin parked' \/ (pc = "sd_write" /\ "w" \in parked)
  /\ registered' => registered
  /\ error' => /\ parked' \subseteq parked
               /\ registered => error \/ parked' \cap Notified = {}
               /\ pc' \in Waits => pc \in Waits \/ "w" \notin parked

\* Such a step keeps the invariant.
LEMMA WakefulKeeps == ASSUME WaitersInv, Wakeful PROVE WaitersInv'
BY DEF WaitersInv, Wakeful, Notified, Waits

\* Every step but Register is such a step.
LEMMA WaitersStep == ASSUME WaitersInv, Next PROVE WaitersInv'
<1>a. \A p \in DOMAIN Following :
        /\ p \notin {"open_new", "acc_new", "sd_write"}
        /\ Following[p] \notin {"open_new", "acc_new", "sd_write"}
  BY DEF Following
<1>b. /\ FlushFails => parked' \subseteq parked
      /\ FlushFails /\ registered => error \/ parked' \cap Notified = {}
  BY DEF FlushFails, OnError, connVars
<1>c. ASSUME NEW h, FlushPending(h) PROVE ~error' /\ parked' = parked \cup {h}
  BY Zenon, <1>c DEF FlushPending, AwaitFlush
<1>d. (Reaped \/ \E x : Submit(x)) => ~error'
  BY Zenon DEF Reaped, FlushReady, Submit
<1>e. ASSUME NEW x, SubmitAndAwait(x) PROVE ~error'
  BY Zenon, <1>e DEF SubmitAndAwait, FlushReady
<1> USE <1>a, <1>b, <1>c, <1>d, <1>e DEF Wakeful, sockVars, connVars, taskVars, devVars,
    hostVars, Waits
<1>1. CASE Register
  BY Zenon, <1>1 DEF Register, WaitersInv
<1>2. ASSUME OpenRefused PROVE Wakeful
  BY Zenon, <1>2 DEF OpenRefused
<1>3. ASSUME PollWriteAsync PROVE Wakeful
  <2> USE <1>3 DEF PollWriteAsync, DropSocket
  <2>1. pc' \notin {"open_new", "acc_new", "sd_write"}
    BY Zenon
  <2>3. registered' => registered
    BY Zenon
  <2>4. error' => parked' \subseteq parked
    BY Zenon
  <2>5. error' /\ registered => error \/ parked' \cap Notified = {}
    BY Zenon
  <2>6. error' /\ pc' \in Waits => pc \in Waits \/ "w" \notin parked
    BY Zenon
  <2> QED
    BY Zenon, <2>1, <2>3, <2>4, <2>5, <2>6
<1>4. ASSUME PollOpenWait PROVE Wakeful
  <2> USE <1>4 DEF PollOpenWait, DropSocket
  <2>1. pc' \in {"open_new", "acc_new"} => pc' = pc /\ parked' \subseteq parked
    BY Zenon
  <2>2. pc' = "sd_write" => "w" \notin parked' \/ (pc = "sd_write" /\ "w" \in parked)
    BY Zenon
  <2>3. registered' => registered
    BY Zenon
  <2>4. error' => parked' \subseteq parked
    BY Zenon
  <2>5. error' /\ registered => error \/ parked' \cap Notified = {}
    BY Zenon
  <2>6. error' /\ pc' \in Waits => pc \in Waits \/ "w" \notin parked
    BY Zenon
  <2> QED
    BY Zenon, <2>1, <2>2, <2>3, <2>4, <2>5, <2>6
<1>5. ASSUME NEW n \in 1..MaxChunk, PollRead(n) PROVE Wakeful
  BY Zenon, <1>5 DEF PollRead, Usable
<1>6. ASSUME NEW n \in 1..MaxChunk, PollWrite(n) PROVE Wakeful
  <2> USE <1>6 DEF PollWrite
  <2>1. pc' \in {"open_new", "acc_new"} => pc' = pc /\ parked' \subseteq parked
    BY Zenon
  <2>2. pc' = "sd_write" => "w" \notin parked' \/ (pc = "sd_write" /\ "w" \in parked)
    BY Zenon
  <2>3. registered' => registered
    BY Zenon
  <2>4. error' => parked' \subseteq parked
    BY Zenon
  <2>5. error' /\ registered => error \/ parked' \cap Notified = {}
    BY Zenon
  <2>6. error' /\ pc' \in Waits => pc \in Waits \/ "w" \notin parked
    BY Zenon
  <2> QED
    BY Zenon, <2>1, <2>2, <2>3, <2>4, <2>5, <2>6
<1>7. ASSUME PollFlush PROVE Wakeful
  BY Zenon, <1>7 DEF PollFlush
<1>8. ASSUME BeginShutdown PROVE Wakeful
  BY Zenon, <1>8 DEF BeginShutdown
<1>9. ASSUME PollShutdown PROVE Wakeful
  BY Zenon, <1>9 DEF PollShutdown
<1>10. ASSUME ShutdownWrite PROVE Wakeful
  <2> USE <1>10 DEF ShutdownWrite, WaitersInv
  <2>1. pc' \in {"open_new", "acc_new"} => pc' = pc /\ parked' \subseteq parked
    BY Zenon
  <2>2. pc' = "sd_write" => "w" \notin parked' \/ (pc = "sd_write" /\ "w" \in parked)
    BY Zenon
  <2>3. registered' => registered
    BY Zenon
  <2>4. error' => parked' \subseteq parked
    BY Zenon
  <2>5. error' /\ registered => error \/ parked' \cap Notified = {}
    BY Zenon
  <2>6. error' /\ pc' \in Waits => pc \in Waits \/ "w" \notin parked
    BY Zenon
  <2> QED
    BY Zenon, <2>1, <2>2, <2>3, <2>4, <2>5, <2>6
<1>11. ASSUME Drop PROVE Wakeful
  BY Zenon, <1>11 DEF Drop, DropSocket
<1>12. ASSUME HandleMessage PROVE Wakeful
  <2> USE <1>12 DEF HandleMessage, HandleOkay, HandleWrte, HandleClse, Notify
  <2>1. pc' \in {"open_new", "acc_new"} => pc' = pc /\ parked' \subseteq parked
    BY Zenon
  <2>2. pc' = "sd_write" => "w" \notin parked' \/ (pc = "sd_write" /\ "w" \in parked)
    BY Zenon
  <2>3. registered' => registered
    BY Zenon
  <2>4. error' => parked' \subseteq parked
    BY Zenon
  <2>5. error' /\ registered => error \/ parked' \cap Notified = {}
    BY Zenon
  <2>6. error' /\ pc' \in Waits => pc \in Waits \/ "w" \notin parked
    BY Zenon
  <2> QED
    BY Zenon, <2>1, <2>2, <2>3, <2>4, <2>5, <2>6
<1>13. ASSUME DeviceStep PROVE Wakeful
  <2> USE <1>13 DEF DeviceStep, DevReceive, Complete, DevClose, DevConsume, DevWrite
  <2>1. pc' \in {"open_new", "acc_new"} => pc' = pc /\ parked' \subseteq parked
    BY Zenon
  <2>2. pc' = "sd_write" => "w" \notin parked' \/ (pc = "sd_write" /\ "w" \in parked)
    BY Zenon
  <2>3. registered' => registered
    BY Zenon
  <2>4. error' => parked' \subseteq parked
    BY Zenon
  <2>5. error' /\ registered => error \/ parked' \cap Notified = {}
    BY Zenon
  <2>6. error' /\ pc' \in Waits => pc \in Waits \/ "w" \notin parked
    BY Zenon
  <2> QED
    BY Zenon, <2>1, <2>2, <2>3, <2>4, <2>5, <2>6
<1>14. ASSUME OtherWrite PROVE Wakeful
  BY Zenon, <1>14 DEF OtherWrite
<1>15. ASSUME TransferError PROVE Wakeful
  BY Zenon, <1>15 DEF TransferError, Complete
<1>16. ASSUME TransportError PROVE Wakeful
  BY Zenon, <1>16 DEF TransportError, OnError
<1>17. ASSUME TimerTick PROVE Wakeful
  BY Zenon, <1>17 DEF TimerTick
<1>18. ASSUME TaskPolled PROVE Wakeful
  BY Zenon, <1>18 DEF TaskPolled
<1> QED
  <2> HIDE DEF Wakeful
  <2> QED
    BY Zenon, <1>1, <1>2, <1>3, <1>4, <1>5, <1>6, <1>7, <1>8, <1>9, <1>10,
       <1>11, <1>12, <1>13, <1>14, <1>15, <1>16, <1>17, <1>18, WakefulKeeps DEF OwnerStep, EnvStep, Next

\* After an error no half waits through the wakers of a socket in the map:
\* on_error notifies each of them and no later poll waits again.
THEOREM ErrorWakesSockets == Spec => []SocketsNotified
<1>1. Init => WaitersInv
  BY Zenon DEF Init, WaitersInv
<1>2. ASSUME WaitersInv, UNCHANGED vars PROVE WaitersInv'
  BY Zenon, <1>2 DEF WaitersInv, vars, sockVars, connVars, taskVars, devVars, hostVars
<1>3. ASSUME WaitersInv, Next PROVE WaitersInv'
  BY <1>3, WaitersStep
<1>4. WaitersInv => SocketsNotified
  BY DEF WaitersInv, SocketsNotified, Notified, Waits
<1> QED
  BY <1>1, <1>2, <1>3, <1>4, PTL DEF Spec

-----------------------------------------------------------------------------
(* Flow control and the end of the stream, from the invariant of SocketInv. *)

StreamsInv == CounterTypes /\ FreshInv /\ CreditInv /\ StreamInv

\* A step that only moves tasks about keeps the invariant.
LEMMA QuietKeeps == ASSUME StreamsInv, Quiet, CounterTypes' PROVE StreamsInv'
<1> USE DEF StreamsInv, Quiet
<1>1. FreshInv'
  BY DEF FreshInv
<1>2. CreditInv'
  BY DEF CreditInv
<1>3. StreamInv'
  BY DEF StreamInv
<1> QED
  BY Zenon, <1>1, <1>2, <1>3

\* Register puts the socket into the map before anything was sent.
LEMMA RegisterKeeps == ASSUME StreamsInv, Register, CounterTypes' PROVE StreamsInv'
<1> USE DEF StreamsInv, Register, connVars, devVars, hostVars
<1>1. FreshInv'
  BY DEF FreshInv
<1>0. \A c, a : a \in Nat => Tiles(<<>>, c, a, a)
  BY DEF Tiles, Idx
<1>2. CreditInv'
  BY <1>0 DEF CreditInv, FreshInv, CounterTypes
<1>3. StreamInv'
  BY <1>0 DEF StreamInv, FreshInv, CounterTypes
<1> QED
  BY Zenon, <1>1, <1>2, <1>3

\* OPEN, or accept's OKAY, announces the host's window.
LEMMA GreetKeeps == ASSUME StreamsInv, GreetEffect, CounterTypes' PROVE StreamsInv'
<1>0. /\ out'.lo = 0 /\ out'.hi = HostWindow
      /\ out'.cmd = IF pc = "open_write" THEN "OPEN" ELSE "OKAY"
  BY Greeting DEF GreetEffect
<1> USE DEF StreamsInv, GreetEffect, sockVars, devVars, hostVars
<1>1. FreshInv'
  BY <1>0 DEF FreshInv
<1>2. CreditInv'
  BY <1>0 DEF CreditInv
<1>3. StreamInv'
  BY <1>0, WindowAssumption DEF StreamInv, FreshInv, CounterTypes
<1> QED
  BY Zenon, <1>1, <1>2, <1>3

\* poll_read takes bytes from read_buffer and gives their credit back.
LEMMA ReadKeeps ==
  ASSUME StreamsInv, NEW n \in 1..MaxChunk, ReadEffect(n), CounterTypes'
  PROVE  StreamsInv'
<1>0. /\ n \in Nat /\ n >= 1
      /\ ReadLen(n) \in Nat /\ ReadLen(n) <= read_buffer
      /\ ReadLen(n) = 0 => read_buffer = 0
  BY BoundAssumption DEF ReadLen, Min, StreamsInv, CounterTypes
<1>4. ReadOkay(n).cmd = "OKAY" /\ ReadOkay(n).lo = 0 /\ ReadOkay(n).hi = ReadLen(n)
  BY <1>0, MsgType DEF ReadOkay
<1>5. read' + read_buffer' = read + read_buffer
  <2>1. read' = read + ReadLen(n) /\ read_buffer' = read_buffer - ReadLen(n)
    BY Zenon DEF ReadEffect
  <2>2. read \in Nat /\ read_buffer \in Nat
    BY Zenon DEF StreamsInv, CounterTypes
  <2> QED
    BY <1>0, <2>1, <2>2
<1> USE DEF StreamsInv, ReadEffect, devVars
<1>1. FreshInv'
  <2>1. dev = "none" => read_buffer = 0
    BY DEF FreshInv, StreamInv, CounterTypes
  <2> QED
    BY <1>0, <1>4, <2>1 DEF FreshInv
<1>2. CreditInv'
  BY <1>4 DEF CreditInv
<1>3. StreamInv'
  <2>1. devLimit' <= HostWindow + read'
    BY <1>0, WindowAssumption DEF StreamInv, CounterTypes
  <2>2. ASSUME out'.cmd \in {"OPEN", "OKAY"}
        PROVE  devLimit' + (out'.hi - out'.lo) <= HostWindow + read'
    <3>1. CASE closed /\ out' = out
      <4>1. out.hi - out.lo \in Nat
        BY MessageFields DEF CounterTypes
      <4>2. devLimit + (out.hi - out.lo) <= HostWindow + read
        BY <2>2, <3>1 DEF StreamInv
      <4>3. read' = read + ReadLen(n) /\ devLimit' = devLimit
        BY Zenon DEF ReadEffect, devVars
      <4>4. read \in Nat /\ devLimit \in Nat
        BY Zenon DEF StreamsInv, CounterTypes
      <4> QED
        BY SMTT(30), <3>1, <4>1, <4>2, <4>3, <4>4, <1>0, WindowAssumption
    <3>2. CASE out' = ReadOkay(n)
      BY <3>2, <1>0, <1>4, WindowAssumption DEF StreamInv, CounterTypes
    <3> QED
      BY <3>1, <3>2
  <2>3. rd' = "eof" /\ ~hostClosed' => closed' /\ read_buffer' = 0
    BY <1>0 DEF StreamInv, CounterTypes
  <2> QED
    BY <1>5, <2>1, <2>2, <2>3 DEF StreamInv, CounterTypes
<1> QED
  BY Zenon, <1>1, <1>2, <1>3

\* poll_write turns credit into bytes.
LEMMA WriteKeeps ==
  ASSUME StreamsInv, NEW n \in 1..MaxChunk, WriteEffect(n), CounterTypes'
  PROVE  StreamsInv'
<1>0. n \in Nat /\ WriteLen(n) \in Nat /\ WriteLen(n) <= acknowledged
  BY BoundAssumption, Lengths DEF StreamsInv
<1>4. out'.cmd = "WRTE" /\ out'.hi = wrote'
  <2>0. wrote \in Nat
    BY Zenon DEF StreamsInv, CounterTypes
  <2>1. wrote + WriteLen(n) \in Nat /\ wrote <= wrote + WriteLen(n)
    BY <1>0, <2>0
  <2> QED
    BY <2>0, <2>1, MsgType DEF WriteEffect
<1>5. acknowledged' + wrote' = acknowledged + wrote
  <2>1. acknowledged' = acknowledged - WriteLen(n) /\ wrote' = wrote + WriteLen(n)
    BY Zenon DEF WriteEffect
  <2>2. acknowledged \in Nat /\ wrote \in Nat
    BY Zenon DEF StreamsInv, CounterTypes
  <2> QED
    BY <1>0, <2>1, <2>2
<1> USE DEF StreamsInv, WriteEffect, devVars
<1>1. FreshInv'
  BY <1>4, <1>5 DEF FreshInv
<1>2. CreditInv'
  <2>1. remote_id /\ devGot' <= wrote'
    BY <1>0 DEF CreditInv, CounterTypes
  <2> QED
    BY <1>4, <1>5, <2>1 DEF CreditInv
<1>3. StreamInv'
  BY <1>4 DEF StreamInv
<1> QED
  BY Zenon, <1>1, <1>2, <1>3

\* What handling a message does to the queue.
LEMMA TailIdx ==
  ASSUME toHost \in Seq(Message), toHost # <<>>, NEW c
  PROVE  \A i \in Idx(Tail(toHost), c) :
           /\ i \in Int /\ i + 1 \in Idx(toHost, c)
           /\ Tail(toHost)[i] = toHost[i + 1]
BY TailElements DEF Idx

\* The reader task hands a message to the socket.
LEMMA HandleKeeps == ASSUME StreamsInv, HandleMessage, CounterTypes' PROVE StreamsInv'
<1> DEFINE m == Head(toHost)
<1>0. /\ toHost \in Seq(Message) /\ toHost # <<>> /\ toHost' = Tail(toHost)
      /\ UNCHANGED <<out, pc, rd, dev, devGot, granted, devWrote, devLimit, wrote, read,
                     hostClosed, others>>
  BY Zenon DEF HandleMessage, StreamsInv, CounterTypes, connVars, hostVars
<1>1. m \in Message /\ m.lo \in Nat /\ m.hi \in Nat /\ m.lo <= m.hi
  BY <1>0, TailElements, MessageFields
<1>2. pc \notin {"open_new", "acc_new", "open_write", "acc_write"}
  BY <1>0 DEF StreamsInv, FreshInv
<1>3. FreshInv'
  BY <1>0, <1>2 DEF FreshInv, StreamsInv
<1>4. /\ \A i \in Idx(toHost', "OKAY") : toHost'[i].lo = 0 => toHost'[i].hi = DevWindow
      /\ \A i \in Idx(toHost', "CLSE") : i = Len(toHost') /\ dev' = "closed"
  <2>1. /\ \A i \in Idx(toHost, "OKAY") : toHost[i].lo = 0 => toHost[i].hi = DevWindow
        /\ \A i \in Idx(toHost, "CLSE") : i = Len(toHost) /\ dev = "closed"
    BY Zenon DEF StreamsInv, CreditInv, StreamInv
  <2>2. \A i \in Idx(toHost', "OKAY") : toHost'[i].lo = 0 => toHost'[i].hi = DevWindow
    BY <1>0, <2>1, TailIdx
  <2>3. Len(toHost') = Len(toHost) - 1 /\ Len(toHost) \in Nat
    BY <1>0, TailElements
  <2>4. \A i \in Idx(toHost', "CLSE") : i = Len(toHost') /\ dev' = "closed"
    BY <1>0, <2>1, <2>3, TailIdx
  <2> QED
    BY <2>2, <2>4
<1>5. ASSUME registered, HandleOkay(m), registered' = ~closed'
      PROVE  CreditInv' /\ StreamInv'
  <2>0. /\ m.cmd = "OKAY" /\ remote_id' = TRUE
        /\ initial' = IF remote_id THEN initial ELSE m.hi - m.lo
        /\ acknowledged' = acknowledged + (m.hi - m.lo)
        /\ UNCHANGED <<read_buffer, closed>>
    BY Zenon, <1>5 DEF HandleOkay
  <2>a. acknowledged + wrote \in Nat /\ granted \in Nat
        /\ read + read_buffer \in Nat /\ devWrote \in Nat
    BY DEF StreamsInv, CounterTypes
  <2>b. Tiles(toHost, "OKAY", acknowledged + wrote, granted)
        /\ Tiles(toHost, "WRTE", read + read_buffer, devWrote)
    BY Zenon, <1>5 DEF StreamsInv, CreditInv, StreamInv
  <2>1. /\ m.lo = acknowledged + wrote /\ m.hi <= granted
        /\ Tiles(toHost', "OKAY", m.hi, granted)
    BY <1>0, <2>0, <2>a, <2>b, TilesTail
  <2>2. Tiles(toHost', "WRTE", read + read_buffer, devWrote)
    BY <1>0, <2>0, <2>a, <2>b, TilesTailOther
  <2>3. acknowledged' + wrote' = m.hi
    BY <1>0, <1>1, <2>0, <2>1 DEF StreamsInv, CounterTypes
  <2>4. initial' = DevWindow
    <3>1. CASE remote_id
      BY <3>1, <2>0 DEF StreamsInv, CreditInv
    <3>2. CASE ~remote_id
      <4>1. m.lo = 0
        BY <3>2, <2>1 DEF StreamsInv, CreditInv
      <4>2. m = toHost[1] /\ 1 \in Idx(toHost, "OKAY")
        BY <1>0, <2>0, TailElements DEF Idx
      <4>3. m.hi = DevWindow
        BY <4>1, <4>2 DEF StreamsInv, CreditInv
      <4> QED
        BY <3>2, <4>1, <4>3, <2>0, WindowAssumption
    <3> QED
      BY <3>1, <3>2
  <2>5. CreditInv'
    BY <1>0, <1>1, <1>4, <2>0, <2>1, <2>3, <2>4 DEF StreamsInv, CreditInv
  <2>6. StreamInv'
    BY <1>0, <1>4, <1>5, <2>0, <2>2 DEF StreamsInv, StreamInv
  <2> QED
    BY <2>5, <2>6
<1>6. ASSUME registered, HandleWrte(m), registered' = ~closed'
      PROVE  CreditInv' /\ StreamInv'
  <2>0. /\ m.cmd = "WRTE" /\ read_buffer' = read_buffer + (m.hi - m.lo)
        /\ UNCHANGED <<remote_id, initial, acknowledged, closed>>
    BY Zenon, <1>6 DEF HandleWrte
  <2>a. acknowledged + wrote \in Nat /\ granted \in Nat
        /\ read + read_buffer \in Nat /\ devWrote \in Nat
    BY DEF StreamsInv, CounterTypes
  <2>b. Tiles(toHost, "OKAY", acknowledged + wrote, granted)
        /\ Tiles(toHost, "WRTE", read + read_buffer, devWrote)
    BY Zenon, <1>6 DEF StreamsInv, CreditInv, StreamInv
  <2>1. /\ m.lo = read + read_buffer /\ m.hi <= devWrote
        /\ Tiles(toHost', "WRTE", m.hi, devWrote)
    BY <1>0, <2>0, <2>a, <2>b, TilesTail
  <2>2. Tiles(toHost', "OKAY", acknowledged + wrote, granted)
    BY <1>0, <2>0, <2>a, <2>b, TilesTailOther
  <2>3. read' + read_buffer' = m.hi
    <3>1. read \in Nat /\ read_buffer \in Nat /\ read' = read
      BY Zenon, <1>0 DEF StreamsInv, CounterTypes
    <3>2. m.lo \in Nat /\ m.hi \in Nat
      BY Zenon, <1>1
    <3> QED
      BY <3>1, <3>2, <2>0, <2>1
  <2>4. CreditInv'
    BY <1>0, <1>4, <2>0, <2>2 DEF StreamsInv, CreditInv
  <2>5. StreamInv'
    BY <1>0, <1>1, <1>4, <1>6, <2>0, <2>1, <2>3 DEF StreamsInv, StreamInv
  <2> QED
    BY <2>4, <2>5
<1>7. ASSUME registered, HandleClse(m), registered' = ~closed'
      PROVE  CreditInv' /\ StreamInv'
  <2>0. /\ m.cmd = "CLSE" /\ closed' = TRUE
        /\ UNCHANGED <<remote_id, initial, acknowledged, read_buffer>>
    BY Zenon, <1>7 DEF HandleClse
  <2>1. CreditInv'
    BY <1>0, <1>4, <1>7, <2>0 DEF StreamsInv, CreditInv
  <2>2. m = toHost[1] /\ 1 \in Idx(toHost, "CLSE")
    BY <1>0, <2>0, TailElements DEF Idx
  <2>3. Len(toHost) = 1 /\ dev = "closed"
    BY <2>2 DEF StreamsInv, StreamInv
  <2>4. read + read_buffer = devWrote
    <3>1. Len(toHost') = 0
      BY <1>0, <2>3, TailElements
    <3>2. Idx(toHost', "WRTE") = {}
      BY <3>1 DEF Idx
    <3>3. Tiles(toHost', "WRTE", read + read_buffer, devWrote)
      BY <1>0, <1>7, <2>0, TilesTailOther DEF StreamsInv, StreamInv, CounterTypes
    <3> QED
      BY <3>2, <3>3 DEF Tiles
  <2>5. StreamInv'
    BY <1>0, <1>4, <1>7, <2>0, <2>3, <2>4 DEF StreamsInv, StreamInv
  <2> QED
    BY <2>1, <2>5
<1>8. ASSUME ~registered, UNCHANGED sockVars
      PROVE  CreditInv' /\ StreamInv'
  <2>1. CreditInv'
    BY <1>0, <1>4, <1>8 DEF StreamsInv, CreditInv, sockVars
  <2>2. StreamInv'
    BY <1>0, <1>4, <1>8 DEF StreamsInv, StreamInv, sockVars
  <2> QED
    BY <2>1, <2>2
<1> QED
  BY Zenon, <1>3, <1>5, <1>6, <1>7, <1>8 DEF HandleMessage, StreamsInv

\* What the device's sending a message does to the queue.
LEMMA AppendIdx ==
  ASSUME toHost \in Seq(Message), NEW x \in Message, NEW c
  PROVE  /\ Len(Append(toHost, x)) = Len(toHost) + 1 /\ Len(toHost) \in Nat
         /\ Append(toHost, x)[Len(toHost) + 1] = x
         /\ \A i \in Idx(Append(toHost, x), c) :
              \/ i \in Idx(toHost, c) /\ Append(toHost, x)[i] = toHost[i]
              \/ i = Len(toHost) + 1 /\ x.cmd = c
BY AppendProperties DEF Idx

\* The device takes a WRTE, an OKAY, or a message that changes nothing.
LEMMA TakesKeeps ==
  ASSUME StreamsInv, CounterTypes', out' = NoMsg,
         UNCHANGED <<sockVars, pc, rd, devWrote, hostVars, toHost, granted>>,
         \/ /\ out.cmd = "OKAY" /\ dev' = IF dev = "opening" THEN "open" ELSE dev
            /\ devLimit' = devLimit + (out.hi - out.lo) /\ UNCHANGED devGot
         \/ /\ out.cmd = "WRTE" /\ devGot' = IF dev = "open" THEN out.hi ELSE devGot
            /\ UNCHANGED <<dev, devLimit>>
         \/ UNCHANGED <<dev, devLimit, devGot>>
         \/ /\ out.cmd = "CLSE" /\ dev' = "closed" /\ UNCHANGED <<devLimit, devGot>>
  PROVE  StreamsInv'
<1> USE ConstantMessages DEF StreamsInv, sockVars, hostVars
<1>0. out.hi - out.lo \in Nat
  BY MessageFields DEF CounterTypes
<1>1. FreshInv'
  <2>1. out'.cmd = "none"
    BY Zenon
  <2>2. pc \in {"open_new", "acc_new", "open_write", "acc_write"}
          => UNCHANGED <<dev, devLimit, devGot>>
    BY DEF FreshInv
  <2>3. dev' = "none" => dev = "none" /\ out.cmd # "OKAY"
    BY DEF FreshInv
  <2>4. dev' \in {"none", "opening"} => devLimit' = 0
    BY <2>3 DEF FreshInv
  <2>5. dev' \in {"opening", "open"} => DevWindow <= granted'
    BY DEF FreshInv
  <2> QED
    BY <2>1, <2>2, <2>3, <2>4, <2>5 DEF FreshInv
<1>2. CreditInv'
  <2>1. out'.cmd = "none"
    BY Zenon
  <2>2. devGot <= devGot' /\ devGot' <= wrote
    BY DEF CreditInv, CounterTypes
  <2>a. /\ granted \in Nat /\ devGot \in Nat /\ devGot' \in Nat
        /\ granted <= DevWindow + devGot
    BY Zenon DEF CreditInv, CounterTypes
  <2>b. \A a, b, c, d \in Nat : a <= b + c /\ c <= d => a <= b + d
    OBVIOUS
  <2>3. granted <= DevWindow + devGot'
    BY Zenon, <2>a, <2>b, <2>2, WindowAssumption
  <2> QED
    BY <2>1, <2>2, <2>3 DEF CreditInv
<1>3. StreamInv'
  <2>1. devWrote' <= devLimit' /\ devLimit' <= HostWindow + read'
    BY <1>0, WindowAssumption DEF StreamInv, CounterTypes
  <2>2. (\A i \in Idx(toHost', "CLSE") : i = Len(toHost') /\ dev' = "closed")
        /\ (closed' /\ ~hostClosed' => dev' = "closed" /\ read' + read_buffer' = devWrote')
    BY DEF StreamInv
  <2> QED
    BY <2>1, <2>2 DEF StreamInv
<1> QED
  BY Zenon, <1>1, <1>2, <1>3

\* The device sends its CLSE: on its own, for CLSE, or to refuse an OPEN.
LEMMA CloseKeeps ==
  ASSUME StreamsInv, CounterTypes', out' = NoMsg \/ (out' = out /\ dev = "open"),
         dev # "closed", dev' = "closed", toHost' = Append(toHost, Clse(TRUE)),
         pc \in {"open_new", "acc_new", "open_write", "acc_write"} => dev = "open",
         UNCHANGED <<sockVars, pc, rd, devWrote, hostVars, granted, devLimit, devGot>>
  PROVE  StreamsInv'
<1> DEFINE x == Clse(TRUE)
<1> USE ConstantMessages DEF StreamsInv, sockVars, hostVars
<1>0. x \in Message /\ x.cmd = "CLSE" /\ toHost \in Seq(Message)
  BY DEF CounterTypes
<1>1. FreshInv'
  BY DEF FreshInv
<1>a. acknowledged + wrote \in Nat /\ granted \in Nat
      /\ read + read_buffer \in Nat /\ devWrote \in Nat
  BY DEF CounterTypes
<1>b. /\ registered => Tiles(toHost', "OKAY", acknowledged + wrote, granted)
      /\ registered => Tiles(toHost', "WRTE", read + read_buffer, devWrote)
  BY <1>0, <1>a, TilesAppendOther DEF CreditInv, StreamInv
<1>c. \A i \in Idx(toHost', "OKAY") : toHost'[i].lo = 0 => toHost'[i].hi = DevWindow
  BY <1>0, AppendIdx DEF CreditInv
<1>d. \A i \in Idx(toHost', "CLSE") : i = Len(toHost')
  BY <1>0, AppendIdx DEF StreamInv
<1>2. CreditInv'
  BY <1>b, <1>c DEF CreditInv
<1>3. StreamInv'
  BY <1>b, <1>d DEF StreamInv
<1> QED
  BY Zenon, <1>1, <1>2, <1>3

\* The device grants credit: its window for an OPEN, n bytes it consumed.
LEMMA GrantKeeps ==
  ASSUME StreamsInv, CounterTypes', NEW hi \in Nat, granted <= hi, hi <= DevWindow + devGot,
         toHost' = Append(toHost, Msg("OKAY", granted, hi)), granted' = hi, dev' = "open",
         \/ dev = "open" /\ out' = out /\ devLimit' = devLimit
         \/ /\ dev = "none" /\ out.cmd = "OPEN" /\ out' = NoMsg /\ hi = DevWindow
            /\ devLimit' = devLimit + (out.hi - out.lo),
         UNCHANGED <<sockVars, pc, rd, devWrote, hostVars, devGot>>
  PROVE  StreamsInv'
<1> DEFINE x == Msg("OKAY", granted, hi)
<1> USE ConstantMessages, WindowAssumption DEF StreamsInv, sockVars, hostVars
<1>0. /\ x \in Message /\ x.cmd = "OKAY" /\ x.lo = granted /\ x.hi = hi
      /\ toHost \in Seq(Message) /\ out.hi - out.lo \in Nat
  BY MsgType, MessageFields DEF CounterTypes
<1>x. toHost' = Append(toHost, x)
  OBVIOUS
<1> HIDE DEF x
<1>1. FreshInv'
  BY <1>0 DEF FreshInv, CounterTypes
<1>a. acknowledged + wrote \in Nat /\ granted \in Nat
      /\ read + read_buffer \in Nat /\ devWrote \in Nat
  BY DEF CounterTypes
<1>b. /\ registered => Tiles(toHost', "OKAY", acknowledged + wrote, hi)
      /\ registered => Tiles(toHost', "WRTE", read + read_buffer, devWrote)
  BY <1>0, <1>a, <1>x, TilesAppend, TilesAppendOther DEF CreditInv, StreamInv
<1>c. \A i \in Idx(toHost', "OKAY") : toHost'[i].lo = 0 => toHost'[i].hi = DevWindow
  <2>1. x.lo = 0 => x.hi = DevWindow
    BY <1>0 DEF FreshInv, CounterTypes
  <2>2. \A i \in Idx(toHost, "OKAY") : toHost[i].lo = 0 => toHost[i].hi = DevWindow
    BY Zenon DEF CreditInv
  <2> QED
    <3>1. \A i \in Idx(Append(toHost, x), "OKAY") :
            \/ i \in Idx(toHost, "OKAY") /\ Append(toHost, x)[i] = toHost[i]
            \/ i = Len(toHost) + 1 /\ Append(toHost, x)[i] = x
      BY <1>0, AppendIdx
    <3> QED
      BY Zenon, <1>x, <2>1, <2>2, <3>1
<1>d. dev # "closed" /\ Idx(toHost', "CLSE") = {}
  BY <1>0, <1>x, AppendIdx DEF StreamInv
<1>2. CreditInv'
  <2>1. acknowledged' + wrote' <= granted' /\ granted' <= DevWindow + devGot'
    BY <1>a DEF CreditInv
  <2>2. out'.cmd = "WRTE" => out'.hi = wrote'
    BY DEF CreditInv
  <2> QED
    BY <1>b, <1>c, <2>1, <2>2 DEF CreditInv
<1>3. StreamInv'
  BY <1>0, <1>b, <1>d DEF StreamInv, FreshInv, CounterTypes
<1> QED
  BY Zenon, <1>1, <1>2, <1>3

\* The device sends bytes.
LEMMA DevWriteKeeps ==
  ASSUME StreamsInv, CounterTypes', NEW n \in 1..HostWindow, DevWrite(n)
  PROVE  StreamsInv'
<1> DEFINE x == Msg("WRTE", devWrote, devWrote + n)
<1> USE DEF StreamsInv, sockVars, connVars, taskVars, hostVars
<1>e. /\ devWrote' = devWrote + n /\ toHost' = Append(toHost, x) /\ dev = "open"
      /\ devWrote + n <= devLimit
      /\ UNCHANGED <<sockVars, out, pc, rd, dev, devGot, granted, devLimit, hostVars>>
  BY Zenon DEF DevWrite, Send
<1>0. /\ devWrote \in Nat /\ devWrote + n \in Nat /\ devWrote <= devWrote + n
      /\ toHost \in Seq(Message)
  BY WindowAssumption DEF CounterTypes
<1>1. x \in Message /\ x.cmd = "WRTE" /\ x.lo = devWrote /\ x.hi = devWrote + n
  BY <1>0, MsgType
<1> HIDE DEF x
<1>2. FreshInv'
  BY <1>e DEF FreshInv
<1>a. acknowledged + wrote \in Nat /\ granted \in Nat /\ read + read_buffer \in Nat
  BY DEF CounterTypes
<1>b. /\ registered => Tiles(toHost', "OKAY", acknowledged + wrote, granted)
      /\ registered => Tiles(toHost', "WRTE", read + read_buffer, devWrote')
  BY <1>0, <1>1, <1>a, <1>e, TilesAppend, TilesAppendOther DEF CreditInv, StreamInv
<1>c. \A i \in Idx(toHost', "OKAY") : toHost'[i].lo = 0 => toHost'[i].hi = DevWindow
  BY <1>0, <1>1, <1>e, AppendIdx DEF CreditInv
<1>d. Idx(toHost', "CLSE") = {}
  BY <1>0, <1>1, <1>e, AppendIdx DEF StreamInv
<1>3. CreditInv'
  BY <1>b, <1>c, <1>e DEF CreditInv
<1>4. StreamInv'
  BY <1>0, <1>a, <1>b, <1>d, <1>e DEF StreamInv
<1> QED
  BY Zenon, <1>2, <1>3, <1>4

\* The device receives a message of the OUT transfer.
LEMMA ReceiveKeeps == ASSUME StreamsInv, DevReceive, CounterTypes' PROVE StreamsInv'
<1>0. /\ out' = NoMsg
      /\ UNCHANGED <<sockVars, pc, rd, devWrote, hostVars>>
  BY Zenon DEF DevReceive, Complete
<1>1. ASSUME out.cmd = "OPEN", dev' = "open", toHost' = Append(toHost, Msg("OKAY", 0, DevWindow)),
             granted' = DevWindow, devLimit' = devLimit + (out.hi - out.lo), UNCHANGED devGot
      PROVE  StreamsInv'
  <2>1. dev = "none" /\ granted = 0
    BY <1>1 DEF StreamsInv, FreshInv
  <2>2. DevWindow \in Nat /\ granted <= DevWindow /\ DevWindow <= DevWindow + devGot
    BY <2>1, WindowAssumption DEF StreamsInv, CounterTypes
  <2> QED
    BY <1>0, <1>1, <2>1, <2>2, GrantKeeps
<1>2. ASSUME out.cmd = "OPEN" \/ (out = Clse(TRUE) /\ dev # "closed"), dev' = "closed",
             toHost' = Append(toHost, Clse(TRUE)), UNCHANGED <<granted, devLimit, devGot>>
      PROVE  StreamsInv'
  <2>1. out.cmd \in {"OPEN", "CLSE"} /\ dev # "closed"
    BY <1>2, ConstantMessages DEF StreamsInv, FreshInv
  <2>2. pc \notin {"open_new", "acc_new", "open_write", "acc_write"}
    BY <2>1 DEF StreamsInv, FreshInv
  <2> QED
    BY <1>0, <1>2, <2>1, <2>2, CloseKeeps
<1>3. ASSUME out.cmd = "OKAY", dev' = IF dev = "opening" THEN "open" ELSE dev,
             devLimit' = devLimit + (out.hi - out.lo), UNCHANGED <<toHost, granted, devGot>>
      PROVE  StreamsInv'
  BY Zenon, <1>0, <1>3, TakesKeeps
<1>4. ASSUME out.cmd = "WRTE", devGot' = IF dev = "open" THEN out.hi ELSE devGot,
             UNCHANGED <<dev, toHost, granted, devLimit>>
      PROVE  StreamsInv'
  BY Zenon, <1>0, <1>4, TakesKeeps
<1>5. ASSUME out = Clse(TRUE), dev' = "closed", UNCHANGED <<toHost, granted, devLimit, devGot>>
      PROVE  StreamsInv'
  BY Zenon, <1>0, <1>5, ConstantMessages, TakesKeeps
<1>6. ASSUME UNCHANGED <<dev, toHost, granted, devLimit, devGot>>
      PROVE  StreamsInv'
  BY Zenon, <1>0, <1>6, TakesKeeps
<1> QED
  BY Zenon, <1>1, <1>2, <1>3, <1>4, <1>5, <1>6 DEF DevReceive, Send

\* Every step of the device keeps the invariant.
LEMMA DeviceKeeps == ASSUME StreamsInv, DeviceStep, CounterTypes' PROVE StreamsInv'
<1> USE DEF connVars, taskVars
<1>1. ASSUME DevClose PROVE StreamsInv'
  <2>1. /\ out' = out /\ dev = "open" /\ dev' = "closed" /\ dev # "closed"
        /\ toHost' = Append(toHost, Clse(TRUE))
        /\ UNCHANGED <<sockVars, pc, rd, devWrote, hostVars, granted, devLimit, devGot>>
    BY <1>1 DEF DevClose, Send
  <2> QED
    BY Zenon, <2>1, CloseKeeps
<1>2. ASSUME NEW n \in 1..DevWindow, DevConsume(n) PROVE StreamsInv'
  <2>1. /\ out' = out /\ dev = "open" /\ dev' = "open" /\ devLimit' = devLimit
        /\ granted + n <= DevWindow + devGot /\ granted' = granted + n
        /\ toHost' = Append(toHost, Msg("OKAY", granted, granted + n))
        /\ UNCHANGED <<sockVars, pc, rd, devWrote, hostVars, devGot>>
    BY Zenon, <1>2 DEF DevConsume, Send
  <2>2. granted + n \in Nat /\ granted <= granted + n
    BY WindowAssumption DEF StreamsInv, CounterTypes
  <2> QED
    BY Zenon, <2>1, <2>2, GrantKeeps
<1> QED
  BY Zenon, <1>1, <1>2, ReceiveKeeps, DevWriteKeeps DEF DeviceStep

\* The invariant of the two streams, with the types it needs, is inductive.
LEMMA StreamsInductive == Spec => []StreamsInv
<1>1. ASSUME Init PROVE StreamsInv
  <2> USE <1>1, WindowAssumption, ConstantMessages DEF Init
  <2>1. CounterTypes
    BY DEF CounterTypes
  <2>2. FreshInv
    BY DEF FreshInv
  <2>3. Idx(<<>>, "OKAY") = {} /\ Idx(<<>>, "CLSE") = {}
    BY DEF Idx
  <2>4. CreditInv
    BY <2>3 DEF CreditInv
  <2>5. StreamInv
    BY <2>3 DEF StreamInv
  <2> QED
    BY <2>1, <2>2, <2>4, <2>5 DEF StreamsInv
<1>2. ASSUME StreamsInv, UNCHANGED vars PROVE StreamsInv'
  <2>1. Quiet
    BY Zenon, <1>2 DEF Quiet, vars, sockVars, connVars, taskVars, devVars, hostVars
  <2>2. CounterTypes'
    BY Zenon, <1>2 DEF StreamsInv, CounterTypes, vars, sockVars, connVars, taskVars, devVars,
       hostVars
  <2> QED
    BY <1>2, <2>1, <2>2, QuietKeeps
<1>3. ASSUME StreamsInv, Next PROVE StreamsInv'
  <2>1. CounterTypes'
    BY <1>3, CounterStep DEF StreamsInv
  <2> QED
    BY Zenon, <1>3, <2>1, Effects, QuietKeeps, RegisterKeeps, GreetKeeps, ReadKeeps, WriteKeeps,
       HandleKeeps, DeviceKeeps
<1> QED
  BY <1>1, <1>2, <1>3, PTL DEF Spec

\* Credit and bytes are conserved in both directions, from the socket's counters
\* through the messages under way to the device.
THEOREM StreamsCorrect == Spec => []StreamsConserved
<1>1. StreamsInv => StreamsConserved
  BY Zenon DEF StreamsInv, StreamsConserved
<1> QED
  BY <1>1, StreamsInductive, PTL

\* poll_write never sends more than the device granted, whatever is under way.
THEOREM CreditNeverOverrun == Spec => []NoOverrun
<1>1. StreamsInv => NoOverrun
  BY DEF StreamsInv, CreditInv, CounterTypes, NoOverrun
<1> QED
  BY <1>1, StreamsInductive, PTL

\* A poll_flush that is Ready on an opened socket has waited for the device's
\* acknowledgment of every byte.
THEOREM FlushCorrect == Spec => []FlushMeansAcknowledged
<1>1. StreamsInv => FlushMeansAcknowledged
  BY WindowAssumption DEF StreamsInv, CreditInv, CounterTypes, FlushMeansAcknowledged,
     AllAcknowledged
<1> QED
  BY <1>1, StreamsInductive, PTL

\* read_buffer never outgrows the window announced to the device, and the device
\* never has leave to send more than what is free of it.
THEOREM ReadBufferBounded == Spec => []ReadWindow
<1>1. StreamsInv => ReadWindow
  BY WindowAssumption DEF StreamsInv, StreamInv, CounterTypes, ReadWindow
<1> QED
  BY <1>1, StreamsInductive, PTL

\* poll_read reports end of file only after the device's last byte.
THEOREM EofAfterLastByte == Spec => []NoTruncation
<1>1. StreamsInv => NoTruncation
  BY DEF StreamsInv, StreamInv, CounterTypes, NoTruncation
<1> QED
  BY <1>1, StreamsInductive, PTL

-----------------------------------------------------------------------------
(* Socket implements Stream.  The streams' invariant says where the bytes  *)
(* are; the refinement also needs to know where in its life a socket can   *)
(* be closed and read.                                                     *)

Opening == {"open_new", "acc_new", "open_write", "open_flush", "open_wait", "acc_write",
            "acc_flush"}

\* Before it is open a socket is neither read nor closed by the host; closing it
\* marks it closed; poll_shutdown closes before it writes.
LifeInv ==
  /\ pc \in Opening => rd = "off" /\ ~hostClosed
  /\ hostClosed => closed
  /\ pc = "sd_write" => hostClosed

\* What every step does to the ends.
Living ==
  /\ pc' \in Opening => pc \in Opening /\ rd' = rd /\ hostClosed' = hostClosed
  /\ hostClosed' => hostClosed \/ closed'
  /\ closed => closed'
  /\ hostClosed => hostClosed'
  /\ pc' = "sd_write" => pc = "sd_write" \/ hostClosed'

LEMMA LifeStep == ASSUME LifeInv, FlagTypes, Next PROVE LifeInv'
<1>a. /\ \A p \in DOMAIN Following : p # "sd_write" /\ Following[p] # "sd_write"
      /\ \A p \in DOMAIN Following : Following[p] \in Opening => p \in Opening
      /\ Following["acc_flush"] = "open"
  BY DEF Following, Opening
<1>b. /\ "gone" \notin Opening /\ "drop_write" \notin Opening /\ "open" \notin Opening
      /\ "shutdown" \notin Opening /\ "sd_write" \notin Opening /\ "wr_done" \notin Opening
      /\ "panicked" \notin Opening /\ "open_new" \in Opening /\ "acc_new" \in Opening
      /\ "open_wait" \in Opening
  BY DEF Opening
<1> USE <1>a, <1>b DEF Living, FlagTypes, sockVars, connVars, taskVars, devVars, hostVars
<1>1. ASSUME Register PROVE Living
  BY Zenon, <1>1 DEF Register
<1>2. ASSUME OpenRefused PROVE Living
  BY Zenon, <1>2 DEF OpenRefused
<1>3. ASSUME PollWriteAsync PROVE Living
  BY Zenon, <1>3 DEF PollWriteAsync, DropSocket
<1>4. ASSUME PollOpenWait PROVE Living
  BY <1>4 DEF PollOpenWait, DropSocket
<1>5. ASSUME NEW n \in 1..MaxChunk, PollRead(n) PROVE Living
  BY Zenon, <1>5 DEF PollRead, Usable
<1>6. ASSUME NEW n \in 1..MaxChunk, PollWrite(n) PROVE Living
  BY Zenon, <1>6 DEF PollWrite
<1>7. ASSUME PollFlush PROVE Living
  BY Zenon, <1>7 DEF PollFlush
<1>8. ASSUME BeginShutdown PROVE Living
  BY Zenon, <1>8 DEF BeginShutdown
<1>9. ASSUME PollShutdown PROVE Living
  BY <1>9 DEF PollShutdown
<1>10. ASSUME ShutdownWrite PROVE Living
  BY Zenon, <1>10 DEF ShutdownWrite
<1>11. ASSUME Drop PROVE Living
  BY Zenon, <1>11 DEF Drop, DropSocket
<1>12. ASSUME HandleMessage PROVE Living
  BY <1>12 DEF HandleMessage, HandleOkay, HandleWrte, HandleClse
<1>13. ASSUME DeviceStep PROVE Living
  <2>1. UNCHANGED <<pc, rd, closed, hostClosed>>
    BY Zenon, <1>13 DEF DeviceStep, DevReceive, DevClose, DevConsume, DevWrite
  <2> QED
    BY Zenon, <2>1
<1>14. ASSUME EnvStep PROVE Living
  BY <1>14 DEF EnvStep, OtherWrite, TransferError, TransportError, TimerTick,
         TaskPolled
<1>15. Living
  BY Zenon, <1>1, <1>2, <1>3, <1>4, <1>5, <1>6, <1>7,
     <1>8, <1>9, <1>10, <1>11, <1>12, <1>13, <1>14 DEF OwnerStep, Next
<1> QED
  BY <1>15 DEF LifeInv

-----------------------------------------------------------------------------
(* The steps of Stream, in terms of Socket's variables.                    *)

\* Nothing that Stream speaks of changes.
LEMMA AbsStutter ==
  ASSUME UNCHANGED <<rd, closed, hostClosed, dev, error, wrote, devGot, devWrote, read>>
  PROVE  UNCHANGED Abs!vars
BY DEF Abs!vars, Abs!ends, Abs!flow

\* The socket is dropped.
LEMMA AbsDrop ==
  ASSUME FlagTypes, LifeInv, rd' = "off", UNCHANGED <<dev, error, wrote, devGot, devWrote, read>>,
         IF error \/ closed THEN UNCHANGED <<closed, hostClosed>>
         ELSE closed' = TRUE /\ hostClosed' = TRUE
  PROVE  Abs!Drop
BY DEF FlagTypes, LifeInv, Abs!Drop, Abs!flow

\* The transport fails, or the reader finds that it has failed.
LEMMA AbsFail ==
  ASSUME error' = TRUE, rd' \in {rd, "off", "err"},
         UNCHANGED <<closed, hostClosed, dev, wrote, devGot, devWrote, read>>
  PROVE  Abs!Fail
BY DEF Abs!Fail, Abs!flow

Maps == [Abs!Next]_(Abs!vars)

\* What the connection's operations do to the error flag.
LEMMA ErrorFlag ==
  /\ Reaped => ~error /\ error' = error
  /\ \A x : Submit(x) => ~error /\ error' = error
  /\ \A x : SubmitAndAwait(x) => ~error /\ error' = error
  /\ \A h : FlushPending(h) => error' = error
  /\ FlushFails => (error /\ error' = error) \/ (~error /\ error' = TRUE)
  /\ \A x : Complete(x) => ~error /\ error' = error
BY DEF Reaped, FlushReady, Submit, SubmitAndAwait, FlushPending, AwaitFlush, FlushFails, OnError,
   Complete, connVars

\* open_socket and accept: the socket is opened, or dropped.
LEMMA OpeningMaps ==
  ASSUME FlagTypes, LifeInv,
         Register \/ OpenRefused \/ PollWriteAsync \/ PollOpenWait
  PROVE  Maps
<1> USE DEF sockVars, connVars, devVars, hostVars
<1>0. ASSUME pc \in Opening, rd' = "on", UNCHANGED <<closed, hostClosed, dev, error, wrote, devGot, devWrote, read>>
      PROVE  Abs!Open
  BY <1>0 DEF LifeInv, FlagTypes, Abs!Open, Abs!flow
<1>1. CASE Register \/ OpenRefused
  <2>1. UNCHANGED <<rd, closed, hostClosed, dev, error, wrote, devGot, devWrote, read>>
    BY Zenon, <1>1 DEF Register, OpenRefused
  <2> QED
    BY Zenon, <2>1, AbsStutter DEF Maps
<1>2. CASE PollWriteAsync
  <2>0. UNCHANGED <<dev, wrote, devGot, devWrote, read>>
    BY Zenon, <1>2 DEF PollWriteAsync
  <2>1. ASSUME FlushFails, DropSocket(TRUE) PROVE Maps
    <3>1. rd' = "off" /\ UNCHANGED <<closed, hostClosed>>
      BY Zenon, <2>1 DEF DropSocket
    <3>2. ASSUME error, error' = error PROVE Abs!Drop
      BY Zenon, <2>0, <3>1, <3>2, AbsDrop
    <3>3. ASSUME error' = TRUE PROVE Abs!Fail
      BY <2>0, <3>1, <3>3, AbsFail
    <3> QED
      BY Zenon, <2>1, <3>2, <3>3, ErrorFlag DEF Maps, Abs!Next
  <2>2. ASSUME pc = "acc_flush", Reaped, rd' = "on", UNCHANGED <<sockVars, hostClosed>> PROVE Maps
    <3>1. pc \in Opening
      BY <2>2 DEF Opening
    <3>2. Abs!Open
      BY Zenon, <1>0, <2>0, <2>2, <3>1, ErrorFlag
    <3> QED
      BY Zenon, <3>2 DEF Maps, Abs!Next
  <2>3. ASSUME error' = error, rd' = rd, UNCHANGED <<sockVars, hostClosed>> PROVE Maps
    BY Zenon, <2>0, <2>3, AbsStutter DEF Maps
  <2> QED
    BY Zenon, <1>2, <2>1, <2>2, <2>3, ErrorFlag DEF PollWriteAsync
<1>3. CASE PollOpenWait
  <2>0. UNCHANGED <<dev, error, wrote, devGot, devWrote, read>>
    BY Zenon, <1>3 DEF PollOpenWait
  <2>1. ASSUME DropSocket(error) PROVE Maps
    <3>1. /\ rd' = "off"
          /\ IF error \/ closed THEN UNCHANGED <<closed, hostClosed>>
             ELSE closed' = TRUE /\ hostClosed' = TRUE
      BY Zenon, <2>1 DEF DropSocket
    <3>2. Abs!Drop
      BY Zenon, <2>0, <3>1, AbsDrop
    <3> QED
      BY Zenon, <3>2 DEF Maps, Abs!Next
  <2>2. ASSUME pc = "open_wait", rd' = "on", UNCHANGED <<sockVars, hostClosed>> PROVE Maps
    <3>1. pc \in Opening
      BY <2>2 DEF Opening
    <3>2. Abs!Open
      BY Zenon, <1>0, <2>0, <2>2, <3>1
    <3> QED
      BY Zenon, <3>2 DEF Maps, Abs!Next
  <2>3. ASSUME rd' = rd, UNCHANGED <<sockVars, hostClosed>> PROVE Maps
    BY Zenon, <2>0, <2>3, AbsStutter DEF Maps
  <2> QED
    BY Zenon, <1>3, <2>1, <2>2, <2>3 DEF PollOpenWait
<1> QED
  BY Zenon, <1>1, <1>2, <1>3

\* poll_read: bytes, end of file, or nothing.
LEMMA ReadMaps ==
  ASSUME FlagTypes, LifeInv, StreamsInv, NEW n \in 1..MaxChunk, PollRead(n)
  PROVE  Maps
<1> USE DEF devVars
<1>0. /\ UNCHANGED <<closed, hostClosed, dev, wrote, devGot, devWrote>> /\ rd = "on"
      /\ n \in Nat /\ n >= 1
  BY BoundAssumption DEF PollRead
<1>1. ASSUME FlushFails, rd' = "err", UNCHANGED read PROVE Maps
  <2>1. error' = TRUE
    BY Zenon, <1>1, ErrorFlag DEF FlagTypes
  <2>2. Abs!Fail
    BY <2>1, <1>0, <1>1, AbsFail
  <2> QED
    BY Zenon, <2>2 DEF Maps, Abs!Next
<1>2. ASSUME error' = error, UNCHANGED <<rd, read>> PROVE Maps
  BY Zenon, <1>0, <1>2, AbsStutter DEF Maps
<1>3. /\ ReadLen(n) \in Nat /\ ReadLen(n) <= read_buffer
      /\ ReadLen(n) = 0 => read_buffer = 0
      /\ read \in Nat /\ read_buffer \in Nat /\ devWrote \in Nat
      /\ read + read_buffer <= devWrote
      /\ closed /\ ~hostClosed => read + read_buffer = devWrote
  BY <1>0 DEF ReadLen, Min, StreamsInv, CounterTypes, StreamInv
<1>4. ASSUME ~error, error' = error, ReadLen(n) > 0, read' = read + ReadLen(n), rd' = "on" PROVE Maps
  <2>1. read' \in read + 1 .. devWrote
    BY <1>3, <1>4
  <2>2. Abs!Read
    BY <2>1, <1>0, <1>4 DEF Abs!Read, Abs!ends
  <2> QED
    BY Zenon, <2>2 DEF Maps, Abs!Next
<1>5. ASSUME ~error, error' = error, closed, ReadLen(n) = 0, read' = read + ReadLen(n), rd' = "eof" PROVE Maps
  <2>1. read' = read /\ (hostClosed \/ ((closed /\ ~hostClosed) /\ read = devWrote))
    BY <1>3, <1>5
  <2>2. Abs!Eof
    BY <2>1, <1>0, <1>5 DEF Abs!Eof, Abs!flow
  <2> QED
    BY Zenon, <2>2 DEF Maps, Abs!Next
<1>6. ReadLen(n) > 0 \/ ReadLen(n) = 0
  BY <1>3
<1> QED
  BY Zenon, <1>0, <1>1, <1>2, <1>4, <1>5, <1>6, <1>3, ErrorFlag DEF PollRead, AtEof

\* poll_write: bytes within the device's window, or nothing.
LEMMA WriteMaps ==
  ASSUME FlagTypes, LifeInv, StreamsInv, NEW n \in 1..MaxChunk, PollWrite(n)
  PROVE  Maps
<1> USE DEF devVars, connVars
<1>0. /\ UNCHANGED <<closed, hostClosed, rd, dev, devGot, devWrote, read>>
      /\ n \in Nat /\ n >= 1
  BY BoundAssumption DEF PollWrite
<1>1. ASSUME FlushFails, UNCHANGED wrote PROVE Maps
  <2>1. error' = TRUE
    BY Zenon, <1>1, ErrorFlag DEF FlagTypes
  <2>2. Abs!Fail
    BY <2>1, <1>0, <1>1, AbsFail
  <2> QED
    BY Zenon, <2>2 DEF Maps, Abs!Next
<1>2. ASSUME error' = error, UNCHANGED wrote PROVE Maps
  BY Zenon, <1>0, <1>2, AbsStutter DEF Maps
<1>3. ASSUME ~closed, ~error, error' = error, acknowledged > 0, wrote' = wrote + WriteLen(n)
      PROVE  Maps
  <2>1. /\ WriteLen(n) \in Nat /\ WriteLen(n) > 0 /\ WriteLen(n) <= acknowledged
        /\ acknowledged + wrote <= DevWindow + devGot
        /\ wrote \in Nat /\ acknowledged \in Nat /\ devGot \in Nat /\ DevWindow \in Nat
    BY <1>0, <1>3, WindowAssumption DEF WriteLen, Min, StreamsInv, CounterTypes, CreditInv
  <2>2. wrote' \in wrote + 1 .. devGot + DevWindow
    BY <2>1, <1>3
  <2>3. ~hostClosed
    BY Zenon, <1>3 DEF LifeInv
  <2>4. Abs!Write
    BY <2>2, <2>3, <1>0, <1>3 DEF Abs!Write, Abs!ends
  <2> QED
    BY Zenon, <2>4 DEF Maps, Abs!Next
<1> QED
  BY Zenon, <1>0, <1>1, <1>2, <1>3, ErrorFlag DEF PollWrite

\* poll_flush and poll_shutdown: the socket is closed once everything has been
\* acknowledged, and so received.
LEMMA ShutdownMaps ==
  ASSUME FlagTypes, LifeInv, StreamsInv, PollFlush \/ BeginShutdown \/ PollShutdown
  PROVE  Maps
<1> USE DEF devVars, connVars, sockVars, hostVars
<1>0. UNCHANGED <<rd, dev, wrote, devGot, devWrote, read>>
  BY Zenon DEF PollFlush, BeginShutdown, PollShutdown
<1>1. ASSUME FlushFails, UNCHANGED <<closed, hostClosed>> PROVE Maps
  <2>1. error' = TRUE
    BY Zenon, <1>1, ErrorFlag DEF FlagTypes
  <2>2. Abs!Fail
    BY <2>1, <1>0, <1>1, AbsFail
  <2> QED
    BY Zenon, <2>2 DEF Maps, Abs!Next
<1>2. ASSUME error' = error, UNCHANGED <<closed, hostClosed>> PROVE Maps
  BY Zenon, <1>0, <1>2, AbsStutter DEF Maps
<1>3. ASSUME Reaped, pc = "shutdown", AllAcknowledged, ~closed, closed' = TRUE, hostClosed' = TRUE
      PROVE  Maps
  <2>1. devGot = wrote
    BY <1>3, WindowAssumption DEF AllAcknowledged, StreamsInv, CounterTypes, CreditInv
  <2>2. ~hostClosed /\ ~error /\ error' = error
    BY Zenon, <1>3, ErrorFlag DEF LifeInv
  <2>3. Abs!Shutdown
    BY <2>1, <2>2, <1>0, <1>3 DEF Abs!Shutdown, Abs!flow
  <2> QED
    BY Zenon, <2>3 DEF Maps, Abs!Next
<1>4. CASE PollFlush
  BY Zenon, <1>4, <1>1, <1>2, ErrorFlag DEF PollFlush
<1>5. CASE BeginShutdown
  BY Zenon, <1>5, <1>2 DEF BeginShutdown
<1>6. CASE PollShutdown
  BY Zenon, <1>6, <1>1, <1>2, <1>3, ErrorFlag DEF PollShutdown
<1> QED
  BY Zenon, <1>4, <1>5, <1>6

\* The end of the task: CLSE is written, or the task panics, or its owner drops
\* the socket.
LEMMA DropMaps ==
  ASSUME FlagTypes, LifeInv, ShutdownWrite \/ Drop
  PROVE  Maps
<1> USE DEF devVars, connVars, sockVars, hostVars
<1>0. UNCHANGED <<dev, error, wrote, devGot, devWrote, read>>
  BY Zenon, ErrorFlag DEF ShutdownWrite, Drop
<1>1. ASSUME rd' = "off",
             IF error \/ closed THEN UNCHANGED <<closed, hostClosed>>
             ELSE closed' = TRUE /\ hostClosed' = TRUE
      PROVE  Maps
  <2>1. Abs!Drop
    BY Zenon, <1>0, <1>1, AbsDrop
  <2> QED
    BY Zenon, <2>1 DEF Maps, Abs!Next
<1>2. CASE ShutdownWrite
  <2>1. UNCHANGED <<closed, hostClosed>> /\ closed
    BY Zenon, <1>2 DEF ShutdownWrite, LifeInv
  <2>2. ASSUME rd' = rd PROVE Maps
    BY Zenon, <2>1, <2>2, <1>0, AbsStutter DEF Maps
  <2>3. rd' = rd \/ rd' = "off"
    BY Zenon, <1>2 DEF ShutdownWrite
  <2> QED
    BY Zenon, <1>1, <2>1, <2>2, <2>3
<1>3. CASE Drop
  BY Zenon, <1>1, <1>3 DEF Drop, DropSocket
<1> QED
  BY Zenon, <1>2, <1>3

\* The reader task: only CLSE changes what the users see, and the device has
\* closed by then.
LEMMA HandleMaps == ASSUME FlagTypes, StreamsInv, HandleMessage PROVE Maps
<1> USE DEF connVars, sockVars, hostVars
<1>0. /\ UNCHANGED <<rd, dev, error, wrote, devGot, devWrote, read, hostClosed>>
      /\ ~error /\ toHost # <<>>
  BY Zenon DEF HandleMessage
<1>1. ASSUME closed' = closed PROVE Maps
  BY Zenon, <1>0, <1>1, AbsStutter DEF Maps
<1>2. ASSUME Head(toHost).cmd = "CLSE", closed' = TRUE, hostClosed PROVE Maps
  <2>1. UNCHANGED Abs!vars
    BY <1>0, <1>2 DEF Abs!vars, Abs!ends, Abs!flow, FlagTypes
  <2> QED
    BY Zenon, <2>1 DEF Maps
<1>3. ASSUME Head(toHost).cmd = "CLSE", closed' = TRUE, ~hostClosed PROVE Maps
  <2>1. toHost \in Seq(Message)
    BY DEF StreamsInv, CounterTypes
  <2>2. 1 \in Idx(toHost, "CLSE")
    BY <2>1, <1>0, <1>3, TailElements DEF Idx
  <2>3. dev = "closed"
    BY Zenon, <2>2 DEF StreamsInv, StreamInv
  <2>4. Abs!Learn
    BY <2>3, <1>0, <1>3 DEF Abs!Learn, Abs!flow
  <2> QED
    BY Zenon, <2>4 DEF Maps, Abs!Next
<1> QED
  BY Zenon, <1>1, <1>2, <1>3 DEF HandleMessage, HandleOkay, HandleWrte, HandleClse

\* The device: what it receives was written, what it writes is within the
\* host's window.
LEMMA DeviceMaps == ASSUME FlagTypes, StageTypes, StreamsInv, DeviceStep PROVE Maps
<1> USE DEF connVars, sockVars, hostVars, taskVars
<1>0. /\ UNCHANGED <<rd, closed, hostClosed, error, wrote, read>> /\ ~error
  BY Zenon, ErrorFlag DEF DeviceStep, DevReceive, DevClose, DevConsume, DevWrite
<1>1. ASSUME (dev' = "closed") = (dev = "closed"), UNCHANGED <<devGot, devWrote>> PROVE Maps
  <2>1. UNCHANGED Abs!vars
    BY <1>0, <1>1 DEF Abs!vars, Abs!ends, Abs!flow
  <2> QED
    BY Zenon, <2>1 DEF Maps
<1>2. ASSUME dev # "closed", dev' = "closed", UNCHANGED <<devGot, devWrote>> PROVE Maps
  <2>1. Abs!DevClose
    BY <1>0, <1>2 DEF Abs!DevClose, Abs!flow
  <2> QED
    BY Zenon, <2>1 DEF Maps, Abs!Next
<1>3. ASSUME out.cmd = "WRTE", devGot' = IF dev = "open" THEN out.hi ELSE devGot,
             UNCHANGED <<dev, devWrote>>
      PROVE  Maps
  <2>1. devGot' = devGot \/ (dev = "open" /\ devGot' \in devGot + 1 .. wrote)
    BY <1>3 DEF StreamsInv, CounterTypes, CreditInv
  <2>2. ASSUME dev = "open", devGot' \in devGot + 1 .. wrote PROVE Abs!DevGet
    BY <1>0, <1>3, <2>2 DEF Abs!DevGet, Abs!ends
  <2> QED
    BY Zenon, <1>1, <1>3, <2>1, <2>2 DEF Maps, Abs!Next
<1>4. ASSUME NEW n \in 1..HostWindow, DevWrite(n) PROVE Maps
  <2>1. devWrote' \in devWrote + 1 .. read + HostWindow
    BY <1>4, WindowAssumption DEF DevWrite, StreamsInv, StreamInv, CounterTypes
  <2>2. dev = "open" /\ UNCHANGED <<dev, devGot>>
    BY Zenon, <1>4 DEF DevWrite
  <2>3. Abs!DevWrite
    BY <1>0, <2>1, <2>2 DEF Abs!DevWrite, Abs!ends
  <2> QED
    BY Zenon, <2>3 DEF Maps, Abs!Next
<1>5. ASSUME NEW n \in 1..DevWindow, DevConsume(n) PROVE Maps
  BY Zenon, <1>1, <1>5 DEF DevConsume
<1>6. CASE DevClose
  <2>1. dev # "closed" /\ dev' = "closed" /\ UNCHANGED <<devGot, devWrote>>
    BY <1>6 DEF DevClose
  <2> QED
    BY Zenon, <1>2, <2>1
<1>7. CASE DevReceive
  <2>0. UNCHANGED devWrote
    BY Zenon, <1>7 DEF DevReceive
  <2>1. ASSUME out.cmd = "OPEN", dev' = "open" \/ dev' = "closed", UNCHANGED devGot PROVE Maps
    <3>1. dev # "closed"
      BY <2>1 DEF StreamsInv, FreshInv
    <3>2. dev' = "open" => (dev' = "closed") = (dev = "closed")
      BY <3>1
    <3> QED
      BY Zenon, <1>1, <1>2, <2>0, <2>1, <3>1, <3>2
  <2>2. ASSUME dev' = (IF dev = "opening" THEN "open" ELSE dev), UNCHANGED devGot PROVE Maps
    <3>1. (dev' = "closed") = (dev = "closed")
      BY <2>2
    <3> QED
      BY Zenon, <1>1, <2>0, <2>2, <3>1
  <2> QED
    BY Zenon, <1>1, <1>2, <1>3, <1>7, <2>0, <2>1, <2>2 DEF DevReceive
<1> QED
  BY Zenon, <1>4, <1>5, <1>6, <1>7 DEF DeviceStep

\* Faults and what else goes on.
LEMMA EnvMaps == ASSUME EnvStep PROVE Maps
<1> USE DEF connVars, sockVars, hostVars, taskVars, devVars
<1>0. UNCHANGED <<rd, closed, hostClosed, dev, wrote, devGot, devWrote, read>>
  BY Zenon DEF EnvStep, OtherWrite, TransferError, TransportError, TimerTick, TaskPolled
<1>1. error' = error \/ error' = TRUE
  BY Zenon, ErrorFlag DEF EnvStep, OtherWrite, TransferError, TransportError, OnError, TimerTick,
     TaskPolled
<1>2. ASSUME error' = error PROVE Maps
  BY Zenon, <1>0, <1>2, AbsStutter DEF Maps
<1>3. ASSUME error' = TRUE PROVE Maps
  <2>1. Abs!Fail
    BY <1>0, <1>3, AbsFail
  <2> QED
    BY Zenon, <2>1 DEF Maps, Abs!Next
<1> QED
  BY <1>1, <1>2, <1>3

-----------------------------------------------------------------------------

\* The socket implements the stream that its users rely on, whatever the windows
\* and however polls, messages, closes and faults interleave.
THEOREM SocketImplementsStream == Spec => StreamImplemented
<1>1. ASSUME Init PROVE Abs!Init /\ LifeInv
  BY <1>1 DEF Init, Abs!Init, LifeInv
<1>2. ASSUME TypeInv, StreamsInv, LifeInv, Next PROVE LifeInv' /\ Maps
  <2>1. FlagTypes /\ StageTypes
    BY Zenon, <1>2 DEF TypeInv
  <2> QED
    BY Zenon, <1>2, <2>1, LifeStep, OpeningMaps, ReadMaps, WriteMaps, ShutdownMaps, DropMaps,
       HandleMaps, DeviceMaps, EnvMaps DEF Next, OwnerStep
<1>3. ASSUME LifeInv, UNCHANGED vars PROVE LifeInv' /\ Maps
  <2> USE <1>3 DEF vars, sockVars, connVars, taskVars, devVars, hostVars
  <2>1. LifeInv'
    BY DEF LifeInv
  <2> QED
    BY Zenon, <2>1, AbsStutter DEF Maps
<1> QED
  BY <1>1, <1>2, <1>3, TypeInductive, StreamsInductive, PTL
     DEF Spec, StreamImplemented, Abs!Spec, Maps

-----------------------------------------------------------------------------
(* The window poll_read gives back.  While both ends are open and the       *)
(* transport is up, the window that the device has, with the credit of an   *)
(* OKAY under way, is the whole window beyond what was read.                *)

Connected == ~closed /\ ~error /\ dev = "open"

WindowInv ==
  /\ out.cmd = "OPEN" => out.hi - out.lo = HostWindow
  /\ out.cmd = "OKAY" /\ dev = "opening" => out.hi - out.lo = HostWindow
  /\ Connected /\ usb \in {"idle", "done"} => HostWindow + read <= devLimit
  /\ Connected /\ usb = "busy" /\ out.cmd # "OKAY" => HostWindow + read <= devLimit
  /\ Connected /\ usb = "busy" /\ out.cmd = "OKAY" =>
       HostWindow + read <= devLimit + (out.hi - out.lo)

\* What a step that carries no credit does to the endpoint: it leaves it alone,
\* reaps or fails its transfer, or submits another message.
Carries(cmds) ==
  /\ error => error'
  /\ \/ UNCHANGED <<out, usb>>
     \/ out' = out /\ usb \in {"idle", "done"} /\ usb' = "idle"
     \/ out' = NoMsg /\ (error' \/ usb' = "failed")
     \/ usb \in {"idle", "done"} /\ usb' = "busy" /\ out'.cmd \in cmds

Uncredited ==
  /\ UNCHANGED <<dev, devLimit>>
  /\ read' = read \/ closed'
  /\ closed => closed'
  /\ Carries({"CLSE", "OTHER", "WRTE"})

LEMMA UncreditedKeeps == ASSUME WindowInv, Uncredited, FlagTypes PROVE WindowInv'
<1>0. NoMsg.cmd = "none"
  BY ConstantMessages
<1>1. Connected' => Connected /\ read' = read /\ ~error'
  BY DEF Connected, Uncredited, Carries, FlagTypes
<1> QED
  BY <1>0, <1>1 DEF WindowInv, Uncredited, Carries

\* What the connection's operations do to the endpoint.
LEMMA EndpointSteps ==
  LET Plain == Carries({"CLSE", "OTHER", "WRTE"}) IN
  /\ Reaped => Plain
  /\ \A x : Submit(x) /\ x.cmd \in {"CLSE", "OTHER", "WRTE"} => Plain
  /\ \A x : SubmitAndAwait(x) /\ x.cmd \in {"CLSE", "OTHER", "WRTE"} => Plain
  /\ \A h : FlushPending(h) => Plain
  /\ FlushFails => Plain
  /\ OnError => Plain
  /\ Complete("failed") => Plain
  /\ UNCHANGED <<out, usb, error>> => Plain
BY DEF Reaped, FlushReady, Submit, SubmitAndAwait, FlushPending, AwaitFlush, FlushFails, OnError,
   Complete, connVars, Carries

\* Every step but the ones that carry credit, or end the device, is Uncredited.
LEMMA CreditSteps ==
  ASSUME Next
  PROVE  \/ Uncredited
         \/ GreetEffect
         \/ \E n \in 1..MaxChunk : /\ ReadEffect(n) /\ ~closed /\ usb \in {"idle", "done"}
                                   /\ usb' = "busy" /\ UNCHANGED error
         \/ DevReceive \/ DevClose
<1> DEFINE Plain == Carries({"CLSE", "OTHER", "WRTE"})
<1>0. /\ Clse(remote_id).cmd = "CLSE" /\ Msg("OTHER", 0, 0).cmd = "OTHER"
      /\ \A lo, hi : Msg("WRTE", lo, hi).cmd = "WRTE"
  BY DEF Clse, Msg
<1>1. \A p \in DOMAIN Following :
        Following[p] \notin {"open_new", "acc_new", "open_write", "acc_write"}
  BY DEF Following
<1> USE DEF Uncredited, sockVars, connVars, taskVars, devVars, hostVars
<1>2. ASSUME Register \/ OpenRefused \/ BeginShutdown PROVE Uncredited
  <2>1. UNCHANGED <<out, usb, error>>
    BY Zenon, <1>2 DEF Register, OpenRefused, BeginShutdown
  <2>2. UNCHANGED <<dev, devLimit, read, closed>>
    BY Zenon, <1>2 DEF Register, OpenRefused, BeginShutdown
  <2> QED
    BY Zenon, <2>1, <2>2, EndpointSteps
<1>4. ASSUME PollWriteAsync PROVE Uncredited \/ GreetEffect
  <2>0. UNCHANGED <<others, devVars, wrote, read>> /\ pc \in DOMAIN Following
    BY Zenon, <1>4 DEF PollWriteAsync
  <2>1. ASSUME pc \in {"open_write", "acc_write", "drop_write"}, SubmitAndAwait(AsyncMsg),
               pc' = Following[pc], UNCHANGED <<sockVars, rd, timer, hostClosed>>
        PROVE  Uncredited \/ GreetEffect
    <3>1. CASE pc = "drop_write"
      <4>1. AsyncMsg = Clse(remote_id)
        BY <3>1 DEF AsyncMsg
      <4> QED
        BY Zenon, <2>0, <2>1, <4>1, <1>0, EndpointSteps
    <3>2. CASE pc \in {"open_write", "acc_write"}
      BY Zenon, <2>0, <2>1, <3>2, <1>1 DEF GreetEffect, SubmitAndAwait
    <3> QED
      BY Zenon, <2>1, <3>1, <3>2
  <2>2. ASSUME Reaped, UNCHANGED <<sockVars, parked, timer, hostClosed>>
        PROVE  Uncredited
    BY Zenon, <2>0, <2>2, EndpointSteps
  <2>3. ASSUME FlushPending("w"), UNCHANGED <<sockVars, pc, rd, timer, hostClosed>>
        PROVE  Uncredited
    BY Zenon, <2>0, <2>3, EndpointSteps
  <2>4. ASSUME FlushFails, DropSocket(TRUE)
        PROVE  Uncredited
    BY Zenon, <2>0, <2>4, EndpointSteps DEF DropSocket
  <2> HIDE DEF Uncredited
  <2> QED
    BY Zenon, <1>4, <2>1, <2>2, <2>3, <2>4 DEF PollWriteAsync
<1>5. ASSUME PollOpenWait PROVE Uncredited
  <2>1. closed => closed'
    BY Zenon, <1>5 DEF PollOpenWait, DropSocket
  <2> QED
    BY Zenon, <1>5, <2>1, EndpointSteps DEF PollOpenWait
<1>6. ASSUME NEW n \in 1..MaxChunk, PollRead(n)
      PROVE  \/ Uncredited
             \/ /\ ReadEffect(n) /\ ~closed /\ usb \in {"idle", "done"}
                /\ usb' = "busy" /\ UNCHANGED error
  <2>0. UNCHANGED <<remote_id, closed, initial, acknowledged, registered, others, pc,
                    timer, devVars, wrote, hostClosed>> /\ Usable /\ rd = "on"
    BY Zenon, <1>6 DEF PollRead
  <2>1. CASE Plain /\ (closed \/ read' = read)
    BY Zenon, <2>0, <2>1
  <2>2. CASE /\ ~closed /\ ReadLen(n) > 0 /\ Submit(ReadOkay(n))
             /\ read_buffer' = read_buffer - ReadLen(n) /\ read' = read + ReadLen(n)
             /\ UNCHANGED <<rd, parked>>
    BY Zenon, <2>0, <2>2 DEF Submit, FlushReady, ReadEffect, Usable
  <2> HIDE DEF Uncredited
  <2> QED
    BY Zenon, <1>6, <2>1, <2>2, EndpointSteps DEF PollRead
<1>7. ASSUME NEW n \in 1..MaxChunk, PollWrite(n) PROVE Uncredited
  <2>1. Plain
    BY Zenon, <1>7, <1>0, EndpointSteps DEF PollWrite
  <2> QED
    BY Zenon, <1>7, <2>1 DEF PollWrite
<1>8. ASSUME PollFlush PROVE Uncredited
  <2>1. Plain
    BY Zenon, <1>8, EndpointSteps DEF PollFlush
  <2> QED
    BY Zenon, <1>8, <2>1 DEF PollFlush
<1>9. ASSUME PollShutdown PROVE Uncredited
  <2>1. Plain
    BY Zenon, <1>9, EndpointSteps DEF PollShutdown
  <2>2. closed => closed'
    BY Zenon, <1>9 DEF PollShutdown
  <2> QED
    BY Zenon, <1>9, <2>1, <2>2 DEF PollShutdown
<1>10. ASSUME ShutdownWrite PROVE Uncredited
  <2>1. Plain
    BY Zenon, <1>10, <1>0, EndpointSteps DEF ShutdownWrite
  <2> QED
    BY Zenon, <1>10, <2>1 DEF ShutdownWrite
<1>11. ASSUME Drop PROVE Uncredited
  <2>1. closed => closed'
    BY Zenon, <1>11 DEF Drop, DropSocket
  <2> QED
    BY Zenon, <1>11, <2>1, EndpointSteps DEF Drop
<1>12. ASSUME EnvStep PROVE Uncredited
  <2>1. (Submit(Msg("OTHER", 0, 0)) \/ Complete("failed") \/ OnError \/ UNCHANGED connVars)
    BY Zenon, <1>12 DEF EnvStep, OtherWrite, TransferError, TransportError, TimerTick, TaskPolled
  <2>2. Plain
    BY Zenon, <2>1, <1>0, EndpointSteps
  <2>3. UNCHANGED <<dev, devLimit, read, closed>>
    BY Zenon, <1>12 DEF EnvStep, OtherWrite, TransferError, TransportError, TimerTick, TaskPolled
  <2> QED
    BY Zenon, <2>2, <2>3
<1>13. ASSUME HandleMessage PROVE Uncredited
  <2>1. closed => closed'
    BY Zenon, <1>13 DEF HandleMessage, HandleOkay, HandleWrte, HandleClse
  <2> QED
    BY Zenon, <1>13, <2>1, EndpointSteps DEF HandleMessage
<1>14. ASSUME DeviceStep PROVE Uncredited \/ DevReceive \/ DevClose
  <2>1. ASSUME NEW n, DevConsume(n) PROVE Uncredited
    BY Zenon, <2>1, EndpointSteps DEF DevConsume
  <2>2. ASSUME NEW n, DevWrite(n) PROVE Uncredited
    BY Zenon, <2>2, EndpointSteps DEF DevWrite
  <2> QED
    BY Zenon, <1>14, <2>1, <2>2 DEF DeviceStep
<1> HIDE DEF Uncredited
<1> QED
  BY Zenon, <1>2, <1>4, <1>5, <1>6, <1>7, <1>8, <1>9, <1>10, <1>11, <1>12, <1>13,
     <1>14 DEF OwnerStep, Next

LEMMA WindowStep == ASSUME WindowInv, StreamsInv, FlagTypes, Next PROVE WindowInv'
<1>t. /\ read \in Nat /\ read_buffer \in Nat /\ devLimit \in Nat /\ devWrote \in Nat
      /\ out.lo \in Nat /\ out.hi \in Nat
  BY MessageFields DEF StreamsInv, CounterTypes
<1>f. dev \in {"none", "opening"} => devLimit = 0 /\ read = 0 /\ read_buffer = 0
  BY <1>t DEF StreamsInv, FreshInv, StreamInv
<1>1. ASSUME GreetEffect PROVE WindowInv'
  <2>1. /\ out'.hi - out'.lo = HostWindow
        /\ dev' = dev /\ dev # "open"
    BY <1>1, WindowAssumption DEF GreetEffect, AsyncMsg, Msg, StreamsInv, FreshInv, devVars
  <2> QED
    BY <2>1 DEF WindowInv, Connected
<1>2. ASSUME NEW n \in 1..MaxChunk, ReadEffect(n), ~closed, usb \in {"idle", "done"},
             usb' = "busy", UNCHANGED error
      PROVE  WindowInv'
  <2>1. /\ ReadLen(n) > 0 /\ out' = ReadOkay(n) /\ read' = read + ReadLen(n)
        /\ UNCHANGED <<dev, devLimit, closed>>
    BY Zenon, <1>2 DEF ReadEffect, devVars
  <2>2. ReadLen(n) \in Nat /\ ReadLen(n) <= read_buffer
    BY <1>t DEF ReadLen, Min
  <2>3. out'.cmd = "OKAY" /\ out'.hi - out'.lo = ReadLen(n)
    BY <2>1, <2>2 DEF ReadOkay, Msg
  <2>4. dev \notin {"none", "opening"}
    BY <2>1, <2>2, <1>f, <1>t
  <2>5. Connected' => Connected
    BY Zenon, <1>2, <2>1 DEF Connected
  <2>6. ReadLen(n) \in Nat /\ HostWindow \in Nat
    BY <2>2, WindowAssumption
  <2>7. Connected => HostWindow + read <= devLimit
    BY Zenon, <1>2 DEF WindowInv
  <2>8. Connected' => HostWindow + read' <= devLimit' + (out'.hi - out'.lo)
    BY <2>1, <2>3, <2>5, <2>6, <2>7, <1>t
  <2> QED
    BY Zenon, <1>2, <2>1, <2>3, <2>4, <2>8 DEF WindowInv
<1>3. ASSUME DevClose PROVE WindowInv'
  BY <1>3 DEF DevClose, connVars, WindowInv, Connected
<1>4. ASSUME DevReceive PROVE WindowInv'
  <2>1. out' = NoMsg /\ NoMsg.cmd = "none" /\ usb = "busy" /\ usb' = "done" /\ ~error
        /\ read' = read /\ closed' = closed
    BY Zenon, <1>4, ConstantMessages DEF DevReceive, Complete, hostVars, sockVars
  <2> SUFFICES ASSUME Connected' PROVE HostWindow + read <= devLimit'
    BY <2>1 DEF WindowInv
  <2>2. ~closed /\ dev' = "open"
    BY <2>1 DEF Connected
  <2>3. CASE out.cmd = "OPEN"
    BY <1>4, <2>1, <2>2, <2>3, <1>f, <1>t, WindowAssumption DEF DevReceive, WindowInv, StreamsInv,
       FreshInv, Clse, Msg
  <2>4. CASE out.cmd = "OKAY"
    <3>1. /\ dev' = IF dev = "opening" THEN "open" ELSE dev
          /\ devLimit' = devLimit + (out.hi - out.lo)
      BY <1>4, <2>4 DEF DevReceive, Clse, Msg
    <3>2. CASE dev = "opening"
      BY <2>4, <3>1, <3>2, <1>f, <1>t, WindowAssumption DEF WindowInv
    <3>3. CASE dev = "open"
      BY <2>1, <2>2, <2>4, <3>1, <3>3 DEF WindowInv, Connected
    <3> QED
      BY <3>1, <3>2, <3>3, <2>2
  <2>5. CASE out.cmd \notin {"OPEN", "OKAY"}
    <3>1. dev = "open" /\ devLimit' = devLimit
      BY <1>4, <2>2, <2>5 DEF DevReceive
    <3> QED
      BY <2>1, <2>2, <2>5, <3>1 DEF WindowInv, Connected
  <2> QED
    BY <2>3, <2>4, <2>5
<1> QED
  BY Zenon, <1>1, <1>2, <1>3, <1>4, CreditSteps, UncreditedKeeps

\* poll_read's OKAYs give back all it took: with nothing under way the device of
\* an open socket has the whole window, for every size of the reads.
THEOREM WindowGivenBack == Spec => []WindowRestored
<1>1. ASSUME Init PROVE WindowInv
  BY <1>1, ConstantMessages DEF Init, WindowInv, Connected
<1>2. ASSUME WindowInv, UNCHANGED vars PROVE WindowInv'
  BY <1>2 DEF vars, sockVars, connVars, devVars, hostVars, WindowInv, Connected
<1>3. ASSUME WindowInv, StreamsInv, TypeInv, Next PROVE WindowInv'
  BY Zenon, <1>3, WindowStep DEF TypeInv
<1>4. WindowInv /\ StreamsInv => WindowRestored
  BY WindowAssumption DEF WindowInv, Connected, WindowRestored, StreamsInv, CounterTypes
<1> QED
  BY <1>1, <1>2, <1>3, <1>4, StreamsInductive, TypeInductive, PTL DEF Spec
=============================================================================
