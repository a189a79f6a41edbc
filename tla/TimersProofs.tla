---------------------------- MODULE TimersProofs ----------------------------
EXTENDS Timers, ConnectionProofs

-----------------------------------------------------------------------------
(* What the methods do to the flight                                       *)

\* Queue q goes on where p does, and no segment of p has lost an attempt.
Longer(p, q) ==
  /\ Len(p) <= Len(q)
  /\ \A i \in 1 .. Len(p) : /\ TrackedEnd(q[i]) = TrackedEnd(p[i])
                            /\ p[i].transmissions <= q[i].transmissions

\* Nothing is acknowledged: the flight only grows.
Grows(c, d) ==
  /\ d.send_una = c.send_una /\ d.acked = c.acked /\ c.accepted <= d.accepted
  /\ InFlight(c) <= InFlight(d)
  /\ Longer(c.unacked, d.unacked)

\* Nor is the peer's window or the budget of probes touched.
Calm(c, d) ==
  /\ Grows(c, d)
  /\ d.remote_window = c.remote_window
  /\ d.zero_window_probes = c.zero_window_probes

LEMMA TrackedType ==
  ASSUME NEW p \in Seq(TrackedSegment), NEW i \in 1 .. Len(p)
  PROVE  p[i] \in TrackedSegment /\ p[i].transmissions \in Nat
  <1>1. p[i] \in TrackedSegment
    OBVIOUS
  <1>2. QED BY <1>1 DEF TrackedSegment

\* The send side stays as it is.
LEMMA GrowsSame ==
  ASSUME NEW c \in Conn, NEW d, d.send_una = c.send_una, d.send_nxt = c.send_nxt,
         d.acked = c.acked, d.accepted = c.accepted, d.unacked = c.unacked
  PROVE  /\ Grows(c, d)
         /\ (/\ d.remote_window = c.remote_window
             /\ d.zero_window_probes = c.zero_window_probes) => Calm(c, d)
  <1>1. PICK a, n, p : a = c.accepted /\ n = InFlight(c) /\ p = c.unacked
    OBVIOUS
  <1>2. a \in Nat /\ n \in Nat /\ p \in Seq(TrackedSegment)
    BY <1>1, InFlightType DEF Conn
  <1>3. InFlight(d) = InFlight(c)
    BY DEF InFlight
  <1>4. a <= a /\ n <= n
    BY <1>2
  <1>5. c.accepted <= d.accepted /\ InFlight(c) <= InFlight(d)
    BY <1>1, <1>3, <1>4, Zenon
  <1>6. \A i \in 1 .. Len(p) : p[i].transmissions \in Nat
    BY <1>2, TrackedType
  <1>7. Longer(p, p)
    BY <1>2, <1>6 DEF Longer
  <1>8. QED BY <1>1, <1>5, <1>7 DEF Grows, Calm

\* One method after the other.
LEMMA GrowsTrans ==
  ASSUME NEW c \in Conn, NEW d \in Conn, NEW e \in Conn, Grows(c, d), Grows(d, e)
  PROVE  /\ Grows(c, e)
         /\ (Calm(c, d) /\ Calm(d, e)) => Calm(c, e)
  <1>1. PICK p, q, r : p = c.unacked /\ q = d.unacked /\ r = e.unacked
    OBVIOUS
  <1>2. p \in Seq(TrackedSegment) /\ q \in Seq(TrackedSegment) /\ r \in Seq(TrackedSegment)
    BY <1>1 DEF Conn
  <1>3. Longer(p, q) /\ Longer(q, r)
    BY <1>1 DEF Grows
  <1>4. /\ Len(p) \in Nat /\ Len(q) \in Nat /\ Len(r) \in Nat
        /\ Len(p) <= Len(q) /\ Len(q) <= Len(r)
    BY <1>2, <1>3 DEF Longer
  <1>5. ASSUME NEW i \in 1 .. Len(p)
        PROVE  TrackedEnd(r[i]) = TrackedEnd(p[i]) /\ p[i].transmissions <= r[i].transmissions
    <2>1. i \in 1 .. Len(q) /\ i \in 1 .. Len(r)
      BY <1>4
    <2>2. p[i].transmissions \in Nat /\ q[i].transmissions \in Nat /\ r[i].transmissions \in Nat
      BY <1>2, <2>1, TrackedType
    <2>3. /\ TrackedEnd(q[i]) = TrackedEnd(p[i]) /\ p[i].transmissions <= q[i].transmissions
          /\ TrackedEnd(r[i]) = TrackedEnd(q[i]) /\ q[i].transmissions <= r[i].transmissions
      BY <1>3, <2>1 DEF Longer
    <2>4. QED BY <2>2, <2>3
  <1>6. Longer(p, r)
    BY <1>4, <1>5 DEF Longer
  <1>7. c.accepted \in Nat /\ d.accepted \in Nat /\ e.accepted \in Nat
        /\ InFlight(c) \in Nat /\ InFlight(d) \in Nat /\ InFlight(e) \in Nat
    BY InFlightType DEF Conn
  <1>8. c.accepted <= e.accepted /\ InFlight(c) <= InFlight(e)
    BY <1>7 DEF Grows
  <1>9. Grows(c, e)
    BY <1>1, <1>6, <1>8 DEF Grows
  <1>10. QED BY <1>9 DEF Calm

\* Segments are sent for the first time.
LEMMA GrowsAppend ==
  ASSUME NEW c \in Conn, NEW d \in SoundConn, NEW q \in Seq(TrackedSegment),
         d.unacked = c.unacked \o q, d.send_una = c.send_una,
         IF q = <<>> THEN d.send_nxt = c.send_nxt ELSE q[1].seq = c.send_nxt,
         d.acked = c.acked, d.accepted = c.accepted
  PROVE  Grows(c, d)
  <1>1. PICK p : p = c.unacked
    OBVIOUS
  <1>2. p \in Seq(TrackedSegment) /\ c.accepted \in Nat /\ InFlight(c) \in Nat
        /\ c.send_una \in SeqNumber /\ c.send_nxt \in SeqNumber
    BY <1>1, InFlightType DEF Conn
  <1>3. /\ Len(p \o q) = Len(p) + Len(q) /\ Len(p) \in Nat /\ Len(q) \in Nat
        /\ \A i \in 1 .. Len(p) : (p \o q)[i] = p[i]
        /\ \A i \in 1 .. Len(q) : (p \o q)[Len(p) + i] = q[i]
    BY <1>2, ConcatProperties
  <1>4. Longer(p, p \o q)
    <2>1. \A i \in 1 .. Len(p) : p[i].transmissions \in Nat
      BY <1>2, TrackedType
    <2>2. Len(p) <= Len(p \o q)
      BY <1>3
    <2>3. QED BY <1>3, <2>1, <2>2 DEF Longer
  <1>5. InFlight(c) <= InFlight(d)
    <2>1. CASE q = <<>>
      <3>1. InFlight(d) = InFlight(c)
        BY <2>1 DEF InFlight
      <3>2. QED BY <1>2, <3>1
    <2>2. CASE q # <<>>
      <3>1. PICK j : j = Len(p) + 1
        OBVIOUS
      <3>2. 1 \in 1 .. Len(q) /\ j \in 1 .. Len(p \o q)
        BY <1>3, <2>2, <3>1, EmptySeq
      <3>3. (p \o q)[j] = q[1]
        BY <1>3, <3>1, <3>2
      <3>4. d.unacked = p \o q /\ Straight(d.unacked, c.send_una, d.send_nxt)
        BY <1>1, SoundFields DEF Sender
      <3>5. /\ Fronts(d.unacked, c.send_una)[j] < Backs(d.unacked, c.send_una)[j]
            /\ Backs(d.unacked, c.send_una)[j] <= Distance(c.send_una, d.send_nxt)
        BY <3>2, <3>4 DEF Straight
      <3>6. Fronts(d.unacked, c.send_una)[j] = InFlight(c)
        BY <2>2, <3>2, <3>3, <3>4 DEF Fronts, InFlight
      <3>7. Backs(d.unacked, c.send_una)[j] \in Nat /\ InFlight(d) \in Nat
        <4>1. d \in Conn /\ d.unacked \in Seq(TrackedSegment)
          BY SoundFields
        <4>2. Backs(d.unacked, c.send_una) \in [1 .. Len(d.unacked) -> Nat]
          BY <1>2, <4>1, PlacesType
        <4>3. QED BY <3>2, <3>4, <4>1, <4>2, InFlightType
      <3>8. InFlight(d) = Distance(c.send_una, d.send_nxt)
        BY DEF InFlight
      <3>9. QED BY <1>2, <3>5, <3>6, <3>7, <3>8
    <2>3. QED BY <2>1, <2>2
  <1>6. c.accepted <= d.accepted
    BY <1>2
  <1>7. QED BY <1>1, <1>4, <1>5, <1>6 DEF Grows

\* send_tracked.
LEMMA SendTrackedGrows ==
  ASSUME NEW c \in Conn, NEW flags \in SUBSET Flag, NEW data \in Seq(Byte),
         SendTracked(c, flags, data) \in SoundUpdate,
         NEW d, d = SendTracked(c, flags, data).conn
  PROVE  /\ Calm(c, d)
         /\ d.unacked # <<>> /\ d.state = c.state /\ d.close_requested = c.close_requested
         /\ data # <<>> => HasProbePayload(d)
  <1>1. PICK t : t = [seq |-> c.send_nxt, flags |-> flags, data |-> data, transmissions |-> 1]
    OBVIOUS
  <1>2. t \in TrackedSegment /\ t.seq = c.send_nxt /\ t.data = data
    BY <1>1 DEF TrackedSegment, Conn
  <1>3. d = [c EXCEPT !.send_nxt = TrackedEnd(t), !.unacked = Append(@, t)]
    BY <1>1 DEF SendTracked, Transmit, Open
  <1>4. /\ d.unacked = Append(c.unacked, t) /\ d.send_una = c.send_una
        /\ d.acked = c.acked /\ d.accepted = c.accepted
        /\ d.remote_window = c.remote_window /\ d.zero_window_probes = c.zero_window_probes
        /\ d.state = c.state /\ d.close_requested = c.close_requested
    BY <1>3 DEF Conn
  <1>5. d \in SoundConn
    BY SoundFields
  <1>6. c.unacked \in Seq(TrackedSegment)
    BY DEF Conn
  <1>7. PICK q : q = <<t>>
    OBVIOUS
  <1>8. q \in Seq(TrackedSegment) /\ q # <<>> /\ q[1] = t /\ d.unacked = c.unacked \o q
    BY <1>2, <1>4, <1>6, <1>7
  <1>9. Grows(c, d)
    BY <1>2, <1>4, <1>5, <1>8, GrowsAppend
  <1>10. Len(c.unacked) + 1 \in DOMAIN d.unacked /\ d.unacked[Len(c.unacked) + 1] = t
    BY <1>4, <1>6
  <1>11. d.unacked # <<>>
    BY <1>10
  <1>12. data # <<>> => HasProbePayload(d)
    BY <1>2, <1>10 DEF HasProbePayload
  <1>13. QED BY <1>4, <1>9, <1>11, <1>12 DEF Calm

\* flush_data.
LEMMA FlushDataCalm ==
  ASSUME NEW c \in SoundConn, NEW d, d = FlushData(c).conn
  PROVE  /\ Calm(c, d)
         /\ d.state = c.state \/ d.state \in {"FinWait1", "LastAck"}
         /\ d.accepted = c.accepted
  <1>1. c \in Conn /\ c.mss <= Mss /\ c.send_queue \in Seq(Byte) /\ Len(c.send_queue) \in Nat
        /\ c.send_nxt \in SeqNumber
    BY SoundFields DEF Sender, Conn
  <1>2. PICK a : a = SendAllowance(c)
    OBVIOUS
  <1>3. a \in Nat /\ FlushData(c) = FlushUpTo(c, a)
    BY <1>1, <1>2, AllowanceBound DEF FlushData
  <1>4. ASSUME c.state \notin Opening, NEW total \in Nat, total <= Len(c.send_queue), total <= a,
               NEW e, e = SendChunks(c, total, Chunks(c, total)).conn
        PROVE  /\ Calm(c, e) /\ e.state = c.state /\ e.accepted = c.accepted
               /\ SendChunks(c, total, Chunks(c, total)) \in SoundUpdate
    <2>1. SendChunks(c, total, Chunks(c, total)) \in SoundUpdate /\ e.state = c.state
          /\ e.send_nxt = Plus(c.send_nxt, total)
      BY <1>2, <1>4, SendChunksSound
    <2>2. e \in SoundConn
      BY <1>4, <2>1, SoundFields
    <2>3. PICK q : q = Chunks(c, total)
      OBVIOUS
    <2>4. e = [c EXCEPT !.send_queue = SubSeq(@, total + 1, Len(@)),
                        !.send_nxt = Plus(@, total), !.unacked = @ \o q]
      BY <1>4, <2>3 DEF SendChunks, Open
    <2>5. /\ e.unacked = c.unacked \o q /\ e.send_una = c.send_una
          /\ e.acked = c.acked /\ e.accepted = c.accepted
          /\ e.remote_window = c.remote_window /\ e.zero_window_probes = c.zero_window_probes
      BY <1>1, <2>4 DEF Conn
    <2>6. PICK m : m = c.mss
      OBVIOUS
    <2>7. PICK n : n = (total + m - 1) \div m
      OBVIOUS
    <2>8. m \in Nat \ {0} /\ n \in Nat /\ (n = 0 <=> total = 0)
      <3>1. m \in Nat \ {0}
        BY <1>1, <2>6 DEF Conn
      <3>2. QED BY ONLY <2>7, <3>1, CutPlaces, total \in Nat
    <2>9. q = [i \in 1 .. n |-> Chunk(c, total, i)] /\ q \in Seq(TrackedSegment)
      <3>1. q = [i \in 1 .. n |-> Chunk(c, total, i)]
        BY <2>3, <2>6, <2>7 DEF Chunks
      <3>2. QED BY <1>1, <1>4, <2>3, <3>1, ChunksType
    <2>10. CASE total = 0
      <3>1. q = <<>>
        BY <2>8, <2>9, <2>10
      <3>2. e.send_nxt = c.send_nxt
        BY <1>1, <2>1, <2>10, PlusZero
      <3>3. Grows(c, e)
        BY <1>1, <2>2, <2>5, <2>9, <3>1, <3>2, GrowsAppend
      <3>4. QED BY <2>1, <2>5, <3>3 DEF Calm
    <2>11. CASE total # 0
      <3>1. 1 \in 1 .. n /\ q # <<>> /\ q[1] = Chunk(c, total, 1)
        BY <2>8, <2>9, <2>11
      <3>2. q[1].seq = c.send_nxt
        <4>1. Chunk(c, total, 1).seq = Plus(c.send_nxt, (1 - 1) * c.mss)
          BY DEF Chunk
        <4>2. (1 - 1) * c.mss = 0
          BY <2>6, <2>8
        <4>3. QED BY <1>1, <3>1, <4>1, <4>2, PlusZero
      <3>3. Grows(c, e)
        BY <1>1, <2>2, <2>5, <2>9, <3>1, <3>2, GrowsAppend
      <3>4. QED BY <2>1, <2>5, <3>3 DEF Calm
    <2>12. QED BY <2>10, <2>11
  <1>5. CASE c.state \notin {"Established", "CloseWait"}
    <2>1. d = c
      BY <1>3, <1>5 DEF FlushUpTo, Open
    <2>2. QED BY <1>1, <2>1, GrowsSame
  <1>6. CASE /\ c.state \in {"Established", "CloseWait"}
             /\ c.close_requested /\ a > Len(c.send_queue)
    <2>1. PICK u : u = SendChunks(c, Len(c.send_queue), Chunks(c, Len(c.send_queue)))
      OBVIOUS
    <2>2. FlushData(c) = Then(u, SendFin(u.conn))
      BY <1>3, <1>6, <2>1 DEF FlushUpTo, AndSendFin
    <2>3. PICK e : e = u.conn
      OBVIOUS
    <2>4. /\ Calm(c, e) /\ e.state = c.state /\ e.accepted = c.accepted
          /\ u \in SoundUpdate /\ e \in SoundConn /\ e \in Conn /\ u \in Update
      <3>1. c.state \notin Opening /\ Len(c.send_queue) <= a /\ Len(c.send_queue) <= Len(c.send_queue)
        BY <1>1, <1>3, <1>6 DEF Opening
      <3>2. Calm(c, e) /\ e.state = c.state /\ e.accepted = c.accepted /\ u \in SoundUpdate
        BY <1>1, <1>4, <2>1, <2>3, <3>1
      <3>3. QED BY <2>3, <3>2, SoundFields
    <2>5. PICK f : f = [e EXCEPT !.close_requested = FALSE,
                                 !.state = IF @ = "Established" THEN "FinWait1" ELSE "LastAck"]
      OBVIOUS
    <2>6. SendFin(e) = SendTracked(f, {"FIN", "ACK"}, <<>>)
      BY <2>5 DEF SendFin
    <2>7. /\ f \in Conn /\ f.unacked = e.unacked /\ f.send_una = e.send_una
          /\ f.send_nxt = e.send_nxt /\ f.acked = e.acked /\ f.accepted = e.accepted
          /\ f.remote_window = e.remote_window /\ f.zero_window_probes = e.zero_window_probes
          /\ f.state \in {"FinWait1", "LastAck"}
      BY <2>4, <2>5 DEF Conn, State
    <2>8. FlushData(c) \in SoundUpdate
      BY FlushDataSound
    <2>9. PICK v : v = SendFin(e)
      OBVIOUS
    <2>10. d = v.conn
      BY <2>2, <2>3, <2>9 DEF Then
    <2>11. d \in SoundConn
      BY <2>8, SoundFields
    <2>12. PICK t : t = [seq |-> f.send_nxt, flags |-> {"FIN", "ACK"}, data |-> <<>>,
                         transmissions |-> 1]
      OBVIOUS
    <2>13. t \in TrackedSegment /\ t.seq = f.send_nxt
      BY <2>7, <2>12 DEF TrackedSegment, Conn, Flag
    <2>14. d = [f EXCEPT !.send_nxt = TrackedEnd(t), !.unacked = Append(@, t)]
      BY <2>6, <2>9, <2>10, <2>12 DEF SendTracked, Transmit, Open
    <2>15. /\ d.unacked = Append(f.unacked, t) /\ d.send_una = f.send_una
           /\ d.acked = f.acked /\ d.accepted = f.accepted /\ d.state = f.state
           /\ d.remote_window = f.remote_window /\ d.zero_window_probes = f.zero_window_probes
      BY <2>7, <2>14 DEF Conn
    <2>16. Calm(f, d)
      <3>1. PICK q : q = <<t>>
        OBVIOUS
      <3>2. q \in Seq(TrackedSegment) /\ q # <<>> /\ q[1] = t /\ d.unacked = f.unacked \o q
        <4>1. f.unacked \in Seq(TrackedSegment)
          BY <2>7 DEF Conn
        <4>2. QED BY <2>13, <2>15, <3>1, <4>1
      <3>3. Grows(f, d)
        BY <2>7, <2>11, <2>13, <2>15, <3>2, GrowsAppend
      <3>4. QED BY <2>15, <3>3 DEF Calm
    <2>17. Calm(e, f)
      BY <2>4, <2>7, GrowsSame
    <2>18. d \in Conn
      BY <2>11, SoundFields
    <2>19. Calm(e, d)
      BY <2>4, <2>7, <2>16, <2>17, <2>18, GrowsTrans DEF Calm
    <2>20. Calm(c, d)
      BY <1>1, <2>4, <2>18, <2>19, GrowsTrans DEF Calm
    <2>21. QED BY <2>4, <2>7, <2>15, <2>20
  <1>7. CASE /\ c.state \in {"Established", "CloseWait"}
             /\ ~(c.close_requested /\ a > Len(c.send_queue))
    <2>1. PICK total : total = Smaller(a, Len(c.send_queue))
      OBVIOUS
    <2>2. total \in Nat /\ total <= Len(c.send_queue) /\ total <= a
      BY <1>1, <1>3, <2>1 DEF Smaller
    <2>3. FlushData(c) = SendChunks(c, total, Chunks(c, total))
      BY <1>3, <1>7, <2>1 DEF FlushUpTo
    <2>4. c.state \notin Opening
      BY <1>7 DEF Opening
    <2>5. QED BY <1>4, <2>2, <2>3, <2>4
  <1>8. QED BY <1>5, <1>6, <1>7

\* A method that ends in flush_data.
LEMMA AndFlushCalm ==
  ASSUME NEW u \in SoundUpdate
  PROVE  /\ Calm(u.conn, AndFlush(u).conn)
         /\ \/ AndFlush(u).conn.state = u.conn.state
            \/ AndFlush(u).conn.state \in {"FinWait1", "LastAck"}
         /\ AndFlush(u).conn.accepted = u.conn.accepted
         /\ u.conn.remote_window = 0 => AndFlush(u).conn = u.conn
  <1>1. u.conn \in SoundConn /\ u \in Update
    BY SoundFields
  <1>2. FlushData(u.conn) \in Update
    BY <1>1, FlushDataSound, SoundFields
  <1>3. AndFlush(u).conn = FlushData(u.conn).conn
    BY <1>1, <1>2, ThenLeaves DEF AndFlush
  <1>4. u.conn.remote_window = 0 => FlushData(u.conn).conn = u.conn
    BY <1>1, SoundFields, ShutIdle, IdleFlushes DEF Open
  <1>5. QED BY <1>1, <1>3, <1>4, FlushDataCalm

\* What the methods that only receive leave as it is.
SendSide(c) ==
  <<c.send_una, c.send_nxt, c.acked, c.accepted, c.unacked, c.send_queue,
    c.remote_window, c.zero_window_probes, c.close_requested>>

LEMMA SameSide ==
  ASSUME NEW c \in Conn, NEW d, SendSide(d) = SendSide(c)
  PROVE  /\ Calm(c, d)
         /\ d.accepted = c.accepted /\ d.close_requested = c.close_requested
         /\ d.remote_window = c.remote_window
         /\ d.unacked = c.unacked /\ d.send_queue = c.send_queue
         /\ d.send_una = c.send_una /\ d.send_nxt = c.send_nxt /\ d.acked = c.acked
  <1>1. /\ d.send_una = c.send_una /\ d.send_nxt = c.send_nxt
        /\ d.acked = c.acked /\ d.accepted = c.accepted /\ d.unacked = c.unacked
        /\ d.send_queue = c.send_queue /\ d.remote_window = c.remote_window
        /\ d.zero_window_probes = c.zero_window_probes
        /\ d.close_requested = c.close_requested
    BY DEF SendSide
  <1>2. QED BY <1>1, GrowsSame

\* receive_stream_data does not look at the send side.
LEMMA FileChunkSide ==
  ASSUME NEW c \in Conn, NEW chunk
  PROVE  SendSide(FileChunk(c, chunk)) = SendSide(c)
  BY DEF FileChunk, SendSide, Conn

LEMMA DrainSide ==
  ASSUME NEW c \in Conn
  PROVE  SendSide(DrainReassembly(c)) = SendSide(c)
  <1>1. \A run, fin, next : SendSide(TakeIn(c, run, fin, next)) = SendSide(c)
    BY DEF TakeIn, SendSide, Conn
  <1>2. QED BY <1>1 DEF DrainReassembly, DrainRun, TakeRun

LEMMA ReceiveSide ==
  ASSUME NEW c \in SoundConn, c.state # "SynSent", NEW seg \in Segment
  PROVE  SendSide(ReceiveStreamData(c, seg).conn) = SendSide(c)
  <1>1. c \in Conn /\ seg.seq \in SeqNumber /\ seg.data \in Seq(Byte)
    BY SoundFields DEF Segment
  <1>2. PICK fin : fin = ("FIN" \in seg.flags)
    OBVIOUS
  <1>3. fin \in BOOLEAN
    BY <1>2
  <1>4. PICK d : d = InsertReceived(c, seg.seq, seg.data, fin)
    OBVIOUS
  <1>5. d \in SoundConn /\ d \in Conn
    BY <1>1, <1>3, <1>4, InsertReceivedSound, SoundFields
  <1>6. SendSide(d) = SendSide(c)
    BY <1>1, <1>4, FileChunkSide DEF InsertReceived
  <1>7. SendSide(DrainReassembly(d)) = SendSide(c)
    BY <1>5, <1>6, DrainSide
  <1>8. QED BY <1>2, <1>4, <1>7 DEF ReceiveStreamData, AndAcknowledge, Open

\* The state and the receive side alone.
LEMMA StateSide ==
  ASSUME NEW c \in Conn
  PROVE  /\ \A state : SendSide([c EXCEPT !.state = state]) = SendSide(c)
         /\ \A fin : SendSide(NoteFinAcked(c, fin)) = SendSide(c)
         /\ \A state, recv_nxt :
              SendSide([c EXCEPT !.recv_nxt = recv_nxt, !.state = state]) = SendSide(c)
  BY DEF SendSide, NoteFinAcked, Conn

\* What an ACK has acknowledged lay in the flight, the flight ends no earlier than
\* before, and nothing left it that the ACK does not cover.
Slides(c, d) ==
  /\ Distance(c.send_una, d.send_una) <= InFlight(c)
  /\ InFlight(c) <= Distance(c.send_una, d.send_una) + InFlight(d)
  /\ \A e \in EndsOf(c) :
       e \in EndsOf(d) \/ Distance(c.send_una, e) <= Distance(c.send_una, d.send_una)

LEMMA GrowsEnds ==
  ASSUME NEW c \in Conn, NEW d \in Conn, Grows(c, d)
  PROVE  EndsOf(c) \subseteq EndsOf(d)
  <1>1. PICK p, q : p = c.unacked /\ q = d.unacked
    OBVIOUS
  <1>2. p \in Seq(TrackedSegment) /\ q \in Seq(TrackedSegment) /\ Longer(p, q)
    BY <1>1 DEF Conn, Grows
  <1>3. \A i \in 1 .. Len(p) : i \in 1 .. Len(q) /\ TrackedEnd(q[i]) = TrackedEnd(p[i])
    BY <1>2 DEF Longer
  <1>4. DOMAIN p = 1 .. Len(p) /\ DOMAIN q = 1 .. Len(q)
    BY <1>2
  <1>5. QED BY <1>1, <1>3, <1>4 DEF EndsOf

LEMMA GrowsSlides ==
  ASSUME NEW c \in Conn, NEW d \in Conn, Grows(c, d)
  PROVE  Slides(c, d)
  <1>1. PICK gone, m, n : /\ gone = Distance(c.send_una, d.send_una)
                          /\ m = InFlight(c) /\ n = InFlight(d)
    OBVIOUS
  <1>2. m \in Nat /\ n \in Nat /\ m <= n
    BY <1>1, InFlightType DEF Grows
  <1>3. gone = 0
    <2>1. c.send_una \in Nat /\ d.send_una = c.send_una
      BY SeqNumberIsNat DEF Conn, Grows
    <2>2. QED BY <1>1, <2>1 DEF Distance
  <1>4. gone <= m /\ m <= gone + n
    BY <1>2, <1>3
  <1>5. QED BY <1>1, <1>4, GrowsEnds DEF Slides

\* After an ACK the flight may grow.
LEMMA SlidesThenGrows ==
  ASSUME NEW c \in Conn, NEW d \in Conn, NEW e \in Conn, Slides(c, d), Grows(d, e)
  PROVE  Slides(c, e)
  <1>1. PICK gone, m, n, k : /\ gone = Distance(c.send_una, d.send_una)
                             /\ m = InFlight(c) /\ n = InFlight(d) /\ k = InFlight(e)
    OBVIOUS
  <1>2. m \in Nat /\ n \in Nat /\ k \in Nat /\ gone \in Nat
    <2>1. c.send_una \in SeqNumber /\ d.send_una \in SeqNumber
      BY DEF Conn
    <2>2. QED BY <1>1, <2>1, InFlightType, DistanceType
  <1>3. gone <= m /\ m <= gone + n /\ n <= k /\ e.send_una = d.send_una
    BY <1>1 DEF Slides, Grows
  <1>4. m <= gone + k
    BY <1>2, <1>3
  <1>5. EndsOf(d) \subseteq EndsOf(e)
    BY GrowsEnds
  <1>6. QED BY <1>1, <1>3, <1>4, <1>5 DEF Slides

\* The flight as a step of the peer leaves it: it grows, or the ACK advances.
Moves(c, d) ==
  /\ Slides(c, d)
  /\ d.send_una = c.send_una => Grows(c, d)
  /\ d.accepted = c.accepted /\ d.close_requested = c.close_requested
  /\ d.remote_window = 0 => d.zero_window_probes = c.zero_window_probes

LEMMA MovesThenCalm ==
  ASSUME NEW c \in Conn, NEW d \in Conn, NEW e \in Conn, Moves(c, d), Calm(d, e),
         e.accepted = d.accepted, e.close_requested = d.close_requested
  PROVE  Moves(c, e)
  <1>1. ASSUME e.send_una = c.send_una
        PROVE  Grows(c, e)
    <2>1. d.send_una = c.send_una /\ Grows(d, e)
      BY <1>1 DEF Calm, Grows
    <2>2. Grows(c, d)
      BY <2>1 DEF Moves
    <2>3. QED BY <2>1, <2>2, GrowsTrans
  <1>2. Slides(c, e)
    BY SlidesThenGrows DEF Moves, Calm
  <1>3. QED BY <1>1, <1>2 DEF Moves, Calm

LEMMA MovesThenSide ==
  ASSUME NEW c \in Conn, NEW d \in Conn, NEW e \in Conn, Moves(c, d),
         SendSide(e) = SendSide(d)
  PROVE  Moves(c, e)
  BY SameSide, MovesThenCalm

\* update_remote_window and negotiate_mss.
LEMMA WindowGrows ==
  ASSUME NEW c \in Conn, NEW window, NEW d, d = UpdateRemoteWindow(c, window)
  PROVE  /\ Grows(c, d) /\ d.remote_window = window
         /\ d.accepted = c.accepted /\ d.close_requested = c.close_requested
         /\ window = 0 => d.zero_window_probes = c.zero_window_probes
  <1>1. /\ d.send_una = c.send_una /\ d.send_nxt = c.send_nxt
        /\ d.acked = c.acked /\ d.accepted = c.accepted /\ d.unacked = c.unacked
        /\ d.close_requested = c.close_requested /\ d.remote_window = window
        /\ window = 0 => d.zero_window_probes = c.zero_window_probes
    BY DEF UpdateRemoteWindow, Conn
  <1>2. QED BY <1>1, GrowsSame

LEMMA MovesThenWindow ==
  ASSUME NEW c \in Conn, NEW d \in Conn, NEW window, NEW e \in Conn,
         e = UpdateRemoteWindow(d, window),
         Moves(c, d), d.zero_window_probes = c.zero_window_probes
  PROVE  Moves(c, e)
  <1>1. /\ Grows(d, e) /\ e.remote_window = window
        /\ e.accepted = d.accepted /\ e.close_requested = d.close_requested
        /\ window = 0 => e.zero_window_probes = d.zero_window_probes
    BY WindowGrows
  <1>2. ASSUME e.send_una = c.send_una
        PROVE  Grows(c, e)
    <2>1. d.send_una = c.send_una
      BY <1>1, <1>2 DEF Grows
    <2>2. Grows(c, d)
      BY <2>1 DEF Moves
    <2>3. QED BY <1>1, <2>2, GrowsTrans
  <1>3. Slides(c, e)
    BY <1>1, SlidesThenGrows DEF Moves
  <1>4. QED BY <1>1, <1>2, <1>3 DEF Moves

LEMMA MssSide ==
  ASSUME NEW c \in Conn, NEW seg
  PROVE  SendSide(NegotiateMss(c, seg)) = SendSide(c)
  BY DEF SendSide, NegotiateMss, UseMss, Conn

\* retransmit_oldest: the first segment has one attempt more.
LEMMA RetransmitCalm ==
  ASSUME NEW c \in SoundConn, NEW timeout \in BOOLEAN,
         NEW d, d = RetransmitOldest(c, timeout).conn
  PROVE  /\ Calm(c, d)
         /\ d.accepted = c.accepted /\ d.close_requested = c.close_requested
         /\ d.state = c.state /\ d.send_queue = c.send_queue
         /\ Len(d.unacked) = Len(c.unacked)
         /\ \A i \in 1 .. Len(c.unacked) : d.unacked[i].data = c.unacked[i].data
         /\ (c.unacked # <<>> /\ Head(c.unacked).transmissions < MaxTransmissions)
              => d.unacked[1].transmissions = Head(c.unacked).transmissions + 1
  <1>1. c \in Conn /\ c.unacked \in Seq(TrackedSegment)
    BY SoundFields DEF Conn
  <1>2. CASE c.unacked = <<>> \/ Head(c.unacked).transmissions >= MaxTransmissions
    <2>1. d = c
      BY <1>2 DEF RetransmitOldest, Open
    <2>2. ~(c.unacked # <<>> /\ Head(c.unacked).transmissions < MaxTransmissions)
      <3>1. CASE c.unacked = <<>>
        BY <3>1
      <3>2. CASE c.unacked # <<>>
        <4>1. Head(c.unacked) = c.unacked[1] /\ 1 \in 1 .. Len(c.unacked)
          BY <1>1, <3>2
        <4>2. PICK n : n = c.unacked[1].transmissions
          OBVIOUS
        <4>3. n \in Nat
          BY <1>1, <4>1, <4>2, TrackedType
        <4>4. QED BY <1>2, <3>2, <4>1, <4>2, <4>3, ConfigAssumption
      <3>3. QED BY <3>1, <3>2
    <2>3. QED BY <1>1, <2>1, <2>2, GrowsSame
  <1>3. CASE c.unacked # <<>> /\ ~(Head(c.unacked).transmissions >= MaxTransmissions)
    <2>1. PICK p : p = c.unacked
      OBVIOUS
    <2>2. p \in Seq(TrackedSegment) /\ Head(p) = p[1] /\ 1 \in 1 .. Len(p)
          /\ p[1] \in TrackedSegment /\ p[1].transmissions \in Nat
      BY <1>1, <1>3, <2>1, TrackedType
    <2>3. PICK n : n = p[1].transmissions
      OBVIOUS
    <2>4. n \in Nat /\ n < MaxTransmissions /\ CountUp(n) = n + 1
      BY <1>3, <2>1, <2>2, <2>3, ConfigAssumption DEF CountUp, Smaller
    <2>5. PICK t : t = [p[1] EXCEPT !.transmissions = CountUp(@)]
      OBVIOUS
    <2>6. /\ t.transmissions = n + 1 /\ t.seq = p[1].seq /\ t.data = p[1].data
          /\ t.flags = p[1].flags
      BY <2>2, <2>3, <2>4, <2>5 DEF TrackedSegment
    <2>7. PICK q : q = [p EXCEPT ![1] = t]
      OBVIOUS
    <2>8. /\ d.unacked = q
          /\ d.send_una = c.send_una /\ d.send_nxt = c.send_nxt
          /\ d.acked = c.acked /\ d.accepted = c.accepted
          /\ d.remote_window = c.remote_window /\ d.zero_window_probes = c.zero_window_probes
          /\ d.close_requested = c.close_requested /\ d.state = c.state
          /\ d.send_queue = c.send_queue
      BY <1>1, <1>3, <2>1, <2>2, <2>5, <2>7 DEF RetransmitOldest, Open, Conn
    <2>9. Len(q) = Len(p) /\ q[1] = t /\ \A i \in 1 .. Len(p) : i # 1 => q[i] = p[i]
      BY <2>2, <2>7
    <2>10. TrackedEnd(t) = TrackedEnd(p[1])
      BY <2>6 DEF TrackedEnd
    <2>11. \A i \in 1 .. Len(p) : /\ TrackedEnd(q[i]) = TrackedEnd(p[i])
                                  /\ p[i].transmissions <= q[i].transmissions
                                  /\ q[i].data = p[i].data
      <3>1. \A i \in 1 .. Len(p) : p[i].transmissions \in Nat
        BY <2>2, TrackedType
      <3>2. QED BY <2>3, <2>4, <2>6, <2>9, <2>10, <3>1
    <2>12. Longer(p, q)
      <3>1. Len(p) \in Nat
        BY <2>2
      <3>2. QED BY <2>9, <2>11, <3>1 DEF Longer
    <2>13. PICK m, a : m = InFlight(c) /\ a = c.accepted
      OBVIOUS
    <2>14. m \in Nat /\ a \in Nat /\ InFlight(d) = m /\ d.accepted = a
      BY <1>1, <2>8, <2>13, InFlightType DEF InFlight, Conn
    <2>15. Grows(c, d)
      BY <2>1, <2>8, <2>12, <2>13, <2>14 DEF Grows
    <2>16. Calm(c, d)
      BY <2>8, <2>15 DEF Calm
    <2>17. d.unacked[1].transmissions = Head(c.unacked).transmissions + 1
      BY <2>1, <2>2, <2>3, <2>6, <2>8, <2>9
    <2>18. QED BY <2>1, <2>8, <2>9, <2>11, <2>16, <2>17
  <1>4. QED BY <1>2, <1>3

\* apply_ack for an ACK that advances: what stays in flight is what it does not
\* cover, with the ends it had.
LEMMA NewAckSlides ==
  ASSUME NEW c \in SoundConn, NEW ack \in SeqNumber, InSendInterval(c, ack),
         NEW d, d = ApplyNewAck(c, ack)
  PROVE  Slides(c, d)
  <1>1. PICK p, una, nxt, k : /\ p = c.unacked /\ una = c.send_una /\ nxt = c.send_nxt
                              /\ k = Covered(c, ack)
    OBVIOUS
  <1>2. PICK rest, left : rest = Rest(c, ack) /\ left = TrimFront(rest, ack)
    OBVIOUS
  <1>3. /\ c \in Conn /\ p \in Seq(TrackedSegment) /\ una \in SeqNumber /\ nxt \in SeqNumber
        /\ Distance(una, nxt) <= MaxWindow + 1
        /\ ~Before(ack, una) /\ ~Before(nxt, ack)
    BY <1>1, SoundFields
       DEF Sender, FlightBounded, Conn, InSendInterval, InClosedInterval, After
  <1>4. d.send_una = ack /\ d.send_nxt = nxt /\ d.unacked = left
    <2>1. \A q, bytes : LET e == Acknowledge(c, ack, q, bytes)
                        IN  e.send_una = ack /\ e.send_nxt = c.send_nxt /\ e.unacked = q
      BY <1>3 DEF Acknowledge, Conn
    <2>2. QED BY <1>1, <1>2, <2>1 DEF ApplyNewAck, AckSplit, Rest
  <1>5. PICK gone, m, n : /\ gone = Distance(una, ack) /\ m = Distance(una, nxt)
                          /\ n = Distance(ack, nxt)
    OBVIOUS
  <1>6. gone <= m /\ n = m - gone
    <2>1. Distance(una, ack) <= Distance(una, nxt)
      BY <1>3, AckPlace
    <2>2. QED BY <1>3, <1>5, <2>1, OffsetSub
  <1>7. gone \in Nat /\ m \in Nat /\ n \in Nat
    BY <1>3, <1>5, DistanceType
  <1>8. gone <= m /\ m <= gone + n
    BY <1>6, <1>7
  <1>9. /\ k \in 0 .. Len(p) /\ Len(p) \in Nat
        /\ \A j \in 1 .. k : BeforeOrEqual(TrackedEnd(p[j]), ack)
    <2>1. Len(p) \in Nat
      BY <1>3
    <2>2. QED BY <1>1, <1>3, <2>1, CoveredType
  <1>10. /\ Len(rest) = Len(p) - k /\ \A i \in 1 .. Len(p) - k : rest[i] = p[k + i]
    <2>1. rest = SubSeq(p, k + 1, Len(p))
      BY <1>1, <1>2 DEF Rest
    <2>2. QED BY <1>3, <1>9, <2>1
  <1>11. SamePlaces(left, rest) /\ left \in Seq(SoundSegment)
    BY <1>2, NewAckRest
  <1>12. ASSUME NEW e \in EndsOf(c)
         PROVE  e \in EndsOf(d) \/ Distance(una, e) <= gone
    <2>1. PICK i \in 1 .. Len(p) : e = TrackedEnd(p[i])
      BY <1>1, <1>3 DEF EndsOf
    <2>2. e \in SeqNumber
      BY <1>3, <2>1, PlacesAreWords
    <2>3. CASE i <= k
      <3>1. BeforeOrEqual(e, ack)
        BY <1>9, <2>1, <2>3
      <3>2. Distance(una, e) <= m
        <4>1. Straight(p, una, nxt)
          BY <1>1, SoundFields DEF Sender
        <4>2. Backs(p, una)[i] <= Distance(una, nxt)
          BY <4>1 DEF Straight
        <4>3. QED BY <1>5, <2>1, <4>2 DEF Backs
      <3>3. Distance(una, e) <= gone
        BY <1>3, <1>5, <1>7, <1>8, <2>2, <3>1, <3>2, ConfigAssumption, ModulusAssumption
           DEF BeforeOrEqual, Before, Distance, SeqNumber
      <3>4. QED BY <3>3
    <2>4. CASE ~(i <= k)
      <3>1. PICK j \in Nat : j = i - k /\ j \in 1 .. Len(p) - k /\ k + j = i
        BY <1>9, <2>1, <2>4
      <3>2. j \in 1 .. Len(rest) /\ rest[j] = p[i]
        BY <1>10, <3>1
      <3>3. Len(left) = Len(rest) /\ TrackedEnd(left[j]) = TrackedEnd(rest[j])
        BY <1>11, <3>2 DEF SamePlaces
      <3>4. j \in DOMAIN left
        BY <1>11, <3>2, <3>3
      <3>5. QED BY <1>4, <2>1, <3>2, <3>3, <3>4 DEF EndsOf
    <2>5. QED BY <2>3, <2>4
  <1>13. QED BY <1>1, <1>4, <1>5, <1>8, <1>12 DEF Slides, InFlight

\* apply_ack.
LEMMA ApplyAckMoves ==
  ASSUME NEW c \in SoundConn, NEW ack \in SeqNumber, NEW candidate,
         NEW d, d = ApplyAck(c, ack, candidate).conn
  PROVE  /\ Moves(c, d) /\ d \in SoundConn /\ d \in Conn /\ d.state = c.state
         /\ d.remote_window = c.remote_window
         /\ d.zero_window_probes = c.zero_window_probes
  <1>1. c \in Conn /\ ApplyAck(c, ack, candidate) \in SoundUpdate /\ d.state = c.state
        /\ d \in SoundConn /\ d \in Conn
    BY SoundFields, ApplyAckSound
  <1>2. ASSUME NEW e \in Conn,
                      /\ Calm(c, e) /\ e.accepted = c.accepted
                      /\ e.close_requested = c.close_requested
        PROVE  /\ Moves(c, e) /\ e.remote_window = c.remote_window
               /\ e.zero_window_probes = c.zero_window_probes
    BY <1>1, <1>2, GrowsSlides DEF Moves, Calm
  <1>3. CASE ~InSendInterval(c, ack)
    <2>1. d = c
      BY <1>3 DEF ApplyAck, Open
    <2>2. QED BY <1>1, <1>2, <2>1, GrowsSame
  <1>4. CASE InSendInterval(c, ack) /\ ack = c.send_una
    <2>1. d = ApplyDuplicateAck(c, candidate).conn
      BY <1>4 DEF ApplyAck
    <2>2. CASE ~candidate \/ c.unacked = <<>>
      <3>1. d = [c EXCEPT !.duplicate_acks = 0]
        BY <2>1, <2>2 DEF ApplyDuplicateAck, Open
      <3>2. SendSide(d) = SendSide(c)
        BY <1>1, <3>1 DEF SendSide, Conn
      <3>3. QED BY <1>1, <1>2, <3>2, SameSide
    <2>3. PICK e : e = CountDuplicate(c)
      OBVIOUS
    <2>4. /\ SendSide(e) = SendSide(c) /\ e.mss = c.mss /\ e.recv_nxt = c.recv_nxt
          /\ e.recv_queue = c.recv_queue /\ e.reassembly = c.reassembly /\ e.state = c.state
      BY <1>1, <2>3 DEF CountDuplicate, SendSide, Conn
    <2>5. CASE ~(~candidate \/ c.unacked = <<>>) /\ c.duplicate_acks # 2
      <3>1. d = e
        BY <2>1, <2>3, <2>5 DEF ApplyDuplicateAck, Open
      <3>2. QED BY <1>1, <1>2, <2>4, <3>1, SameSide
    <2>6. CASE ~(~candidate \/ c.unacked = <<>>) /\ c.duplicate_acks = 2
      <3>1. PICK f : f = FastLoss(e)
        OBVIOUS
      <3>2. d = RetransmitOldest(f, FALSE).conn
        BY <2>1, <2>3, <2>6, <3>1 DEF ApplyDuplicateAck
      <3>3. PICK n : n = c.duplicate_acks
        OBVIOUS
      <3>4. e \in Conn
        <4>1. CountUp(n) \in Nat /\ c.duplicate_acks = n /\ n \in Nat
          BY <1>1, <3>3, CountUpType DEF Conn
        <4>2. RenoOnDuplicateAck(c.reno, c.mss) \in Controller
          BY <1>1, RenoTypes DEF Conn
        <4>3. PICK r, k : r = RenoOnDuplicateAck(c.reno, c.mss) /\ k = CountUp(n)
          OBVIOUS
        <4>4. e = [c EXCEPT !.duplicate_acks = k, !.reno = r]
          BY <2>3, <3>3, <4>3 DEF CountDuplicate
        <4>5. QED BY <1>1, <4>1, <4>2, <4>3, <4>4 DEF Conn
      <3>5. f \in Conn
        <4>1. PICK r : r = RenoOnFastLoss(e.reno, e.mss, InFlight(e))
          OBVIOUS
        <4>2. r \in Controller
          BY <3>4, <4>1, RenoOnLossTypes, InFlightType DEF Conn
        <4>3. f = [e EXCEPT !.reno = r]
          <5>1. e.mss = c.mss
            BY <2>4
          <5>2. QED BY <3>1, <4>1 DEF FastLoss
        <4>4. QED BY <3>4, <4>2, <4>3 DEF Conn
      <3>6. /\ SendSide(f) = SendSide(c) /\ f.mss = c.mss /\ f.recv_nxt = c.recv_nxt
            /\ f.recv_queue = c.recv_queue /\ f.reassembly = c.reassembly /\ f.state = c.state
        BY <2>4, <3>1, <3>4 DEF FastLoss, SendSide, Conn
      <3>7. f \in SoundConn
        <4>1. c.mss <= Mss
          BY SoundFields DEF Sender
        <4>2. f.mss <= Mss
          BY <3>6, <4>1
        <4>3. QED BY <1>1, <3>5, <3>6, <4>2, SameSide, SameSound
      <3>8. Calm(c, f) /\ f.accepted = c.accepted /\ f.close_requested = c.close_requested
        BY <1>1, <3>6, SameSide
      <3>9. Calm(f, d) /\ d.accepted = f.accepted /\ d.close_requested = f.close_requested
        BY <3>2, <3>7, RetransmitCalm
      <3>10. Calm(c, d)
        BY <1>1, <3>5, <3>8, <3>9, GrowsTrans DEF Calm
      <3>11. QED BY <1>1, <1>2, <3>8, <3>9, <3>10
    <2>7. QED BY <2>2, <2>5, <2>6
  <1>5. CASE InSendInterval(c, ack) /\ ack # c.send_una
    <2>1. d = ApplyNewAck(c, ack)
      BY <1>5 DEF ApplyAck, Open
    <2>2. \A rest, bytes : LET e == Acknowledge(c, ack, rest, bytes)
                           IN  /\ e.send_una = ack /\ e.accepted = c.accepted
                               /\ e.close_requested = c.close_requested
                               /\ e.remote_window = c.remote_window
                               /\ e.zero_window_probes = c.zero_window_probes
      BY <1>1 DEF Acknowledge, Conn
    <2>3. /\ d.send_una = ack /\ d.accepted = c.accepted
          /\ d.close_requested = c.close_requested
          /\ d.remote_window = c.remote_window
          /\ d.zero_window_probes = c.zero_window_probes
      BY <2>1, <2>2 DEF ApplyNewAck, AckSplit
    <2>4. Slides(c, d)
      BY <1>5, <2>1, NewAckSlides
    <2>5. QED BY <1>1, <1>5, <2>3, <2>4 DEF Moves
  <1>6. QED BY <1>3, <1>4, <1>5

\* on_segment, but for what flush_data does to a FIN that waits.
Answered(c, d) ==
  /\ Slides(c, d)
  /\ d.send_una = c.send_una => Grows(c, d)
  /\ d.accepted = c.accepted
  /\ d.remote_window = 0 => /\ d.zero_window_probes = c.zero_window_probes
                            /\ d.close_requested = c.close_requested

LEMMA MovesAnswered ==
  ASSUME NEW c, NEW d, Moves(c, d)
  PROVE  Answered(c, d)
  BY DEF Moves, Answered

LEMMA SameAnswered ==
  ASSUME NEW c \in Conn
  PROVE  Moves(c, c) /\ Answered(c, c)
  BY GrowsSame, GrowsSlides, MovesAnswered DEF Moves

LEMMA FlushAnswered ==
  ASSUME NEW c \in Conn, NEW u \in SoundUpdate, Moves(c, u.conn)
  PROVE  Answered(c, AndFlush(u).conn)
  <1>1. PICK d, e : d = u.conn /\ e = AndFlush(u).conn
    OBVIOUS
  <1>2. d \in Conn /\ e \in Conn
    BY <1>1, AndFlushSound, SoundFields
  <1>3. Calm(d, e) /\ e.accepted = d.accepted /\ (d.remote_window = 0 => e = d)
    BY <1>1, AndFlushCalm
  <1>4. e.remote_window = d.remote_window /\ Grows(d, e)
    BY <1>3 DEF Calm
  <1>5. ASSUME e.send_una = c.send_una
        PROVE  Grows(c, e)
    <2>1. d.send_una = c.send_una
      BY <1>4, <1>5 DEF Grows
    <2>2. Grows(c, d)
      BY <1>1, <2>1 DEF Moves
    <2>3. QED BY <1>2, <1>4, <2>2, GrowsTrans
  <1>6. Slides(c, e)
    BY <1>1, <1>2, <1>4, SlidesThenGrows DEF Moves
  <1>7. QED BY <1>1, <1>3, <1>4, <1>5, <1>6 DEF Answered, Moves

\* on_segment in SYN-SENT.
LEMMA SynSentMoves ==
  ASSUME NEW c \in SoundConn, c.state = "SynSent", NEW seg \in Segment
  PROVE  Moves(c, OnSegmentSynSent(c, seg).conn)
  <1>1. seg.window \in WindowSize /\ seg.seq \in SeqNumber /\ c.send_nxt \in SeqNumber
        /\ c \in Conn
    BY SoundFields DEF Segment, Conn
  <1>2. PICK w, d : w = UpdateRemoteWindow(c, seg.window) /\ d = NegotiateMss(w, seg)
    OBVIOUS
  <1>3. w \in SoundConn /\ w \in Conn /\ d \in SoundConn /\ d \in Conn
    BY <1>1, <1>2, UpdateRemoteWindowSound, NegotiateMssSound, SoundFields
  <1>4. /\ Grows(c, w) /\ w.accepted = c.accepted /\ w.close_requested = c.close_requested
        /\ w.remote_window = 0 => w.zero_window_probes = c.zero_window_probes
    BY <1>1, <1>2, WindowGrows
  <1>5. /\ Calm(w, d) /\ d.accepted = w.accepted /\ d.close_requested = w.close_requested
    BY <1>2, <1>3, MssSide, SameSide
  <1>6. /\ Grows(c, d) /\ d.accepted = c.accepted /\ d.close_requested = c.close_requested
        /\ d.remote_window = 0 => d.zero_window_probes = c.zero_window_probes
    BY <1>1, <1>3, <1>4, <1>5, GrowsTrans DEF Calm
  <1>7. PICK e : e = ApplyAck(d, c.send_nxt, FALSE).conn
    OBVIOUS
  <1>8. /\ Moves(d, e) /\ e \in SoundConn /\ e \in Conn
        /\ e.remote_window = d.remote_window
        /\ e.zero_window_probes = d.zero_window_probes
    <2>1. PICK no : no = FALSE
      OBVIOUS
    <2>2. e = ApplyAck(d, c.send_nxt, no).conn
      BY <1>7, <2>1
    <2>3. QED BY <1>1, <1>3, <2>2, ApplyAckMoves
  <1>9. Moves(c, e)
    <2>1. ASSUME e.send_una = c.send_una
          PROVE  Grows(c, e)
      <3>1. e.send_una = d.send_una
        BY <1>6, <2>1 DEF Grows
      <3>2. Grows(d, e)
        BY <1>8, <3>1 DEF Moves
      <3>3. QED BY <1>1, <1>3, <1>6, <1>8, <3>2, GrowsTrans
    <2>2. Slides(c, e)
      <3>1. /\ d.send_una = c.send_una /\ d.send_nxt = c.send_nxt
            /\ d.unacked = c.unacked
        BY <1>1, <1>2 DEF UpdateRemoteWindow, NegotiateMss, UseMss, Conn
      <3>2. QED BY <1>8, <3>1 DEF Moves, Slides, InFlight, EndsOf
    <2>3. QED BY <1>6, <1>8, <2>1, <2>2 DEF Moves
  <1>10. PICK f : f = [e EXCEPT !.recv_nxt = Plus(seg.seq, 1), !.state = "Established"]
    OBVIOUS
  <1>11. f \in Conn
    <2>1. Plus(seg.seq, 1) \in SeqNumber
      BY <1>1, SeqNumberIsNat, PlusType
    <2>2. QED BY <1>8, <1>10, <2>1 DEF Conn, State
  <1>12. Moves(c, f)
    <2>1. SendSide(f) = SendSide(e)
      BY <1>8, <1>10, StateSide
    <2>2. QED BY <1>1, <1>8, <1>9, <1>11, <2>1, MovesThenSide
  <1>13. Moves(c, c)
    BY <1>1, SameAnswered
  <1>14. QED BY <1>2, <1>7, <1>10, <1>12, <1>13 DEF OnSegmentSynSent, AndAcknowledge, Open

\* on_segment in SYN-RECEIVED.
LEMMA SynReceivedAnswered ==
  ASSUME NEW c \in SoundConn, c.state = "SynReceived", NEW seg \in Segment
  PROVE  Answered(c, OnSegmentSynReceived(c, seg).conn)
  <1>1. seg.window \in WindowSize /\ c.send_nxt \in SeqNumber /\ c \in Conn
    BY SoundFields DEF Segment, Conn
  <1>2. Answered(c, RetransmitOldest(c, FALSE).conn)
    <2>1. PICK d : d = RetransmitOldest(c, FALSE).conn
      OBVIOUS
    <2>2. Calm(c, d) /\ d.accepted = c.accepted /\ d.close_requested = c.close_requested
      BY <2>1, RetransmitCalm
    <2>3. d \in Conn
      BY <2>1, RetransmitOldestSound, SoundFields
    <2>4. Slides(c, d)
      BY <1>1, <2>2, <2>3, GrowsSlides DEF Calm
    <2>5. QED BY <2>1, <2>2, <2>4 DEF Answered, Calm
  <1>3. Answered(c, Open(c, <<>>).conn)
    BY <1>1, SameAnswered DEF Open
  <1>4. PICK a, w, f : /\ a = ApplyAck(c, c.send_nxt, FALSE).conn
                       /\ w = UpdateRemoteWindow(a, seg.window)
                       /\ f = [w EXCEPT !.state = "Established"]
    OBVIOUS
  <1>5. /\ Moves(c, a) /\ a \in SoundConn /\ a \in Conn
        /\ a.zero_window_probes = c.zero_window_probes
    <2>1. PICK no : no = FALSE
      OBVIOUS
    <2>2. a = ApplyAck(c, c.send_nxt, no).conn
      BY <1>4, <2>1
    <2>3. QED BY <1>1, <2>2, ApplyAckMoves
  <1>6. w \in SoundConn /\ w \in Conn
    BY <1>1, <1>4, <1>5, UpdateRemoteWindowSound, SoundFields
  <1>7. Moves(c, w)
    BY <1>1, <1>4, <1>5, <1>6, MovesThenWindow
  <1>8. f \in SoundConn /\ f \in Conn /\ f.state # "SynSent"
    <2>1. "Established" \in State \ Opening
      BY DEF State, Opening
    <2>2. QED BY <1>4, <1>6, <2>1, InStateSound, SoundFields
  <1>9. Moves(c, f)
    BY <1>1, <1>4, <1>6, <1>7, <1>8, StateSide, MovesThenSide
  <1>10. PICK u : u = ReceiveStreamData(f, seg)
    OBVIOUS
  <1>11. u \in SoundUpdate /\ u.conn \in Conn
    BY <1>8, <1>10, ReceiveStreamDataSound, SoundFields
  <1>12. Moves(c, u.conn)
    BY <1>1, <1>8, <1>9, <1>10, <1>11, ReceiveSide, MovesThenSide
  <1>13. Answered(c, AndFlush(u).conn)
    BY <1>1, <1>11, <1>12, FlushAnswered
  <1>14. Answered(c, [OnHandshakeAck(c, seg) EXCEPT !.accepted = TRUE].conn)
    <2>1. OnHandshakeAck(c, seg) = AndFlush(u)
      BY <1>4, <1>10 DEF OnHandshakeAck
    <2>2. AndFlush(u) \in Update
      BY <1>11, AndFlushSound, SoundFields
    <2>3. [AndFlush(u) EXCEPT !.accepted = TRUE].conn = AndFlush(u).conn
      BY <2>2 DEF Update
    <2>4. QED BY <1>13, <2>1, <2>3
  <1>15. QED BY <1>2, <1>3, <1>14 DEF OnSegmentSynReceived

\* on_segment in a synchronized state.
LEMMA SynchronizedAnswered ==
  ASSUME NEW c \in SoundConn, c.state \notin Opening, NEW seg \in Segment,
         NEW v, v = OnSegmentSynchronized(c, seg), ~v.closed
  PROVE  Answered(c, v.conn)
  <1>1. c \in Conn
    BY SoundFields
  <1>2. PICK u : u = IF seg.ack = None THEN Open(c, <<>>) ELSE OnAck(c, seg)
    OBVIOUS
  <1>3. u \in SoundUpdate /\ u.conn.state \notin Opening
    <2>1. Open(c, <<>>) \in SoundUpdate /\ Open(c, <<>>).conn.state = c.state
      BY NoSegments, OpenSound DEF Open
    <2>2. QED BY <1>2, <2>1, OnAckSound
  <1>4. v = Continue(u, seg)
    BY <1>2 DEF OnSegmentSynchronized
  <1>5. ~u.closed
    BY <1>4 DEF Continue
  <1>6. v = AndFlush(AndReceive(u, seg))
    BY <1>4, <1>5 DEF Continue
  <1>7. Moves(c, u.conn)
    <2>1. CASE seg.ack = None
      BY <1>1, <1>2, <2>1, SameAnswered DEF Open
    <2>2. CASE seg.ack # None
      <3>1. seg.ack \in SeqNumber /\ seg.window \in WindowSize
        BY <2>2 DEF Segment
      <3>2. PICK candidate, a : /\ a = ApplyAck(c, seg.ack, candidate)
                                /\ u = OnApplied(c, seg, a)
        BY <1>2, <2>2 DEF OnAck
      <3>3. PICK d : d = a.conn
        OBVIOUS
      <3>4. /\ Moves(c, d) /\ d \in SoundConn /\ d \in Conn /\ d.state = c.state
            /\ d.zero_window_probes = c.zero_window_probes /\ a \in Update
        BY <3>1, <3>2, <3>3, ApplyAckMoves, ApplyAckSound, SoundFields
      <3>5. u = AndRepair(a, c, seg)
        BY <1>5, <3>2 DEF OnApplied, Closed
      <3>6. PICK fin : fin = FinAcked(c, seg)
        OBVIOUS
      <3>7. PICK e, w : e = NoteFinAcked(d, fin) /\ w = NoteWindow(e, seg)
        OBVIOUS
      <3>8. e \in SoundConn /\ e \in Conn /\ w \in SoundConn /\ w \in Conn
        <4>1. fin \in BOOLEAN
          BY <3>6 DEF FinAcked
        <4>2. QED BY <3>4, <3>7, <4>1, NoteFinAckedSound, NoteWindowSound, SoundFields
      <3>9. SendSide(e) = SendSide(d)
        BY <3>4, <3>7, StateSide
      <3>10. Moves(c, e) /\ e.zero_window_probes = c.zero_window_probes
        BY <1>1, <3>4, <3>8, <3>9, MovesThenSide, SameSide DEF Calm
      <3>11. Moves(c, w)
        <4>1. CASE InSendInterval(e, seg.ack)
          BY <1>1, <3>7, <3>8, <3>10, <4>1, MovesThenWindow DEF NoteWindow
        <4>2. CASE ~InSendInterval(e, seg.ack)
          BY <3>7, <3>10, <4>2 DEF NoteWindow
        <4>3. QED BY <4>1, <4>2
      <3>12. Moves(c, RepairTimedOutFlight(w).conn)
        <4>1. CASE w.rto_recovery_until = None \/ w.remote_window = 0
          BY <3>11, <4>1 DEF RepairTimedOutFlight, Open
        <4>2. CASE ~(w.rto_recovery_until = None \/ w.remote_window = 0)
          <5>1. PICK r : r = RetransmitOldest(w, FALSE).conn
            OBVIOUS
          <5>2. /\ Calm(w, r) /\ r.accepted = w.accepted
                /\ r.close_requested = w.close_requested
            BY <3>8, <5>1, RetransmitCalm
          <5>3. r \in Conn
            BY <3>8, <5>1, RetransmitOldestSound, SoundFields
          <5>4. Moves(c, r)
            BY <1>1, <3>8, <3>11, <5>2, <5>3, MovesThenCalm
          <5>5. QED BY <4>2, <5>1, <5>4 DEF RepairTimedOutFlight
        <4>3. QED BY <4>1, <4>2
      <3>13. /\ RepairTimedOutFlight(w) \in Update /\ Open(w, <<>>) \in Update
             /\ Open(w, <<>>).conn = w
        BY <3>8, RepairSound, NoSegments, OpenSound, SoundFields DEF Open
      <3>14. u.conn = RepairTimedOutFlight(w).conn \/ u.conn = w
        <4>1. \/ u = Then(a, RepairTimedOutFlight(w))
              \/ u = Then(a, Open(w, <<>>))
          BY <3>3, <3>5, <3>6, <3>7 DEF AndRepair
        <4>2. QED BY <3>4, <3>13, <4>1, ThenLeaves
      <3>15. QED BY <3>11, <3>12, <3>14
    <2>3. QED BY <2>1, <2>2
  <1>8. PICK r : r = AndReceive(u, seg)
    OBVIOUS
  <1>9. u.conn \in SoundConn /\ u.conn \in Conn /\ u \in Update /\ u.conn.state # "SynSent"
    BY <1>3, SoundFields DEF Opening
  <1>10. r \in SoundUpdate /\ r.conn \in Conn
    BY <1>3, <1>8, <1>9, AndReceiveSound, SoundFields
  <1>11. r.conn = ReceiveStreamData(u.conn, seg).conn
    <2>1. ReceiveStreamData(u.conn, seg) \in Update
      BY <1>9, ReceiveStreamDataSound, SoundFields
    <2>2. QED BY <1>8, <1>9, <2>1, ThenLeaves DEF AndReceive
  <1>12. Moves(c, r.conn)
    BY <1>1, <1>7, <1>9, <1>10, <1>11, ReceiveSide, MovesThenSide
  <1>13. QED BY <1>1, <1>6, <1>8, <1>10, <1>12, FlushAnswered

\* on_segment.
LEMMA OnSegmentAnswered ==
  ASSUME NEW c \in SoundConn, NEW seg \in Segment, ~OnSegment(c, seg).closed
  PROVE  Answered(c, OnSegment(c, seg).conn)
  <1>1. CASE "RST" \in seg.flags
    <2>1. OnSegment(c, seg).conn = c
      BY <1>1 DEF OnSegment, OnReset, Open, Closed
    <2>2. QED BY <2>1, SameAnswered, SoundFields
  <1>2. CASE "RST" \notin seg.flags /\ c.state = "SynSent"
    BY <1>2, SynSentMoves, MovesAnswered DEF OnSegment
  <1>3. CASE "RST" \notin seg.flags /\ c.state = "SynReceived"
    BY <1>3, SynReceivedAnswered DEF OnSegment
  <1>4. CASE "RST" \notin seg.flags /\ c.state \notin Opening
    <2>1. PICK v : v = OnSegmentSynchronized(c, seg)
      OBVIOUS
    <2>2. OnSegment(c, seg) = v
      BY <1>4, <2>1 DEF OnSegment, Opening
    <2>3. QED BY <1>4, <2>1, <2>2, SynchronizedAnswered
  <1>5. QED BY <1>1, <1>2, <1>3, <1>4 DEF Opening

\* write.
LEMMA WriteCalm ==
  ASSUME NEW c \in SoundConn, Writable(c), NEW data \in Seq(Byte),
         NEW d, d = Write(c, data).conn
  PROVE  Calm(c, d)
  <1>1. PICK n : n = WriteAccepts(c, Len(data))
    OBVIOUS
  <1>2. PICK e : e = Accept(c, data, n)
    OBVIOUS
  <1>3. e \in SoundConn /\ e \in Conn /\ c \in Conn /\ n \in Nat
    BY <1>1, <1>2, AcceptSound, SoundFields
  <1>4. PICK a, m, p : a = c.accepted /\ m = InFlight(c) /\ p = c.unacked
    OBVIOUS
  <1>5. a \in Nat /\ m \in Nat /\ p \in Seq(TrackedSegment)
    BY <1>3, <1>4, InFlightType DEF Conn
  <1>6. /\ e.send_una = c.send_una /\ e.send_nxt = c.send_nxt
        /\ e.acked = c.acked /\ e.accepted = a + n /\ e.unacked = c.unacked
        /\ e.remote_window = c.remote_window
        /\ e.zero_window_probes = c.zero_window_probes
    BY <1>2, <1>3, <1>4 DEF Accept, Conn
  <1>7. a <= a + n /\ m <= m
    BY <1>3, <1>5
  <1>8. InFlight(e) = m
    BY <1>4, <1>6 DEF InFlight
  <1>9. Longer(p, p)
    BY <1>5, TrackedType DEF Longer
  <1>10. Calm(c, e)
    BY <1>4, <1>6, <1>7, <1>8, <1>9 DEF Calm, Grows
  <1>11. d = FlushData(e).conn
    BY <1>1, <1>2 DEF Write
  <1>12. Calm(e, d) /\ d \in Conn
    BY <1>3, <1>11, FlushDataCalm, FlushDataSound, SoundFields
  <1>13. QED BY <1>3, <1>10, <1>12, GrowsTrans DEF Calm

\* close.
LEMMA CloseCalm ==
  ASSUME NEW c \in SoundConn, NEW d, d = Close(c).conn
  PROVE  Calm(c, d)
  <1>1. c \in Conn
    BY SoundFields
  <1>2. CASE c.state \notin {"Established", "CloseWait"}
    <2>1. d = c
      BY <1>2 DEF Close, Open, Closed
    <2>2. QED BY <1>1, <2>1, GrowsSame
  <1>3. CASE c.state \in {"Established", "CloseWait"}
    <2>1. PICK e : e = [c EXCEPT !.close_requested = TRUE]
      OBVIOUS
    <2>2. e \in SoundConn /\ e \in Conn
      BY <1>3, <2>1, CloseRequestSound, SoundFields DEF Opening
    <2>3. /\ e.send_una = c.send_una /\ e.send_nxt = c.send_nxt
          /\ e.acked = c.acked /\ e.accepted = c.accepted /\ e.unacked = c.unacked
          /\ e.remote_window = c.remote_window
          /\ e.zero_window_probes = c.zero_window_probes
      BY <1>1, <2>1 DEF Conn
    <2>4. Calm(c, e)
      BY <1>1, <2>3, GrowsSame
    <2>5. d = FlushData(e).conn
      BY <1>3, <2>1 DEF Close
    <2>6. Calm(e, d) /\ d \in Conn
      BY <2>2, <2>5, FlushDataCalm, FlushDataSound, SoundFields
    <2>7. QED BY <1>1, <2>2, <2>4, <2>6, GrowsTrans DEF Calm
  <1>4. QED BY <1>2, <1>3

\* zero_window_probe: the byte it sends is in flight afterwards.
LEMMA ZeroWindowProbeCalm ==
  ASSUME NEW c \in SoundConn, HasProbePayload(c), NEW d, d = ZeroWindowProbe(c).conn
  PROVE  /\ Calm(c, d) /\ HasProbePayload(d)
         /\ d.accepted = c.accepted /\ d.close_requested = c.close_requested
         /\ d.state = c.state
  <1>1. c \in Conn
    BY SoundFields
  <1>2. CASE Carriers(c) # {}
    <2>1. d = c
      BY <1>2 DEF ZeroWindowProbe, ProbeOf, Open
    <2>2. QED BY <1>1, <2>1, GrowsSame
  <1>3. CASE Carriers(c) = {}
    <2>1. c.send_queue \in Seq(Byte) /\ c.send_queue # <<>>
      <3>1. ~\E i \in DOMAIN c.unacked : c.unacked[i].data # <<>>
        BY <1>3 DEF Carriers
      <3>2. QED BY <1>1, <3>1 DEF HasProbePayload, Conn
    <2>2. PICK e, data : e = [c EXCEPT !.send_queue = Tail(@)] /\ data = <<Head(c.send_queue)>>
      OBVIOUS
    <2>3. Tail(c.send_queue) \in Seq(Byte) /\ Head(c.send_queue) \in Byte
      BY <2>1
    <2>4. /\ e \in Conn /\ e.send_una = c.send_una /\ e.send_nxt = c.send_nxt
          /\ e.acked = c.acked /\ e.accepted = c.accepted /\ e.unacked = c.unacked
          /\ e.remote_window = c.remote_window
          /\ e.zero_window_probes = c.zero_window_probes
          /\ e.close_requested = c.close_requested /\ e.state = c.state
      BY <1>1, <2>2, <2>3 DEF Conn
    <2>5. data \in Seq(Byte) /\ data # <<>>
      BY <2>2, <2>3
    <2>6. Calm(c, e)
      BY <1>1, <2>4, GrowsSame
    <2>7. PICK f : f = {"ACK"}
      OBVIOUS
    <2>8. f \in SUBSET Flag
      BY <2>7 DEF Flag
    <2>9. ZeroWindowProbe(c) = SendTracked(e, f, data)
      BY <1>3, <2>2, <2>7 DEF ZeroWindowProbe
    <2>10. SendTracked(e, f, data) \in SoundUpdate /\ d = SendTracked(e, f, data).conn
      BY <2>9, ZeroWindowProbeSound
    <2>11. /\ Calm(e, d) /\ HasProbePayload(d)
           /\ d.state = e.state /\ d.close_requested = e.close_requested
      BY <2>4, <2>5, <2>8, <2>10, SendTrackedGrows
    <2>12. d.accepted = e.accepted
      BY <2>4, <2>10 DEF SendTracked, Transmit, Open, Conn
    <2>13. d \in Conn
      BY <2>10, SoundFields
    <2>14. Calm(c, d)
      BY <1>1, <2>4, <2>6, <2>11, <2>13, GrowsTrans DEF Calm
    <2>15. QED BY <2>4, <2>11, <2>12, <2>14
  <1>4. QED BY <1>2, <1>3

\* The probe half of poll.
LEMMA PollProbeGrows ==
  ASSUME NEW c \in SoundConn, HasProbePayload(c), ~(c.zero_window_probes >= MaxTransmissions),
         NEW d, d = PollProbe(c).conn
  PROVE  /\ Grows(c, d) /\ HasProbePayload(d)
         /\ d.remote_window = c.remote_window
         /\ d.zero_window_probes = CountUp(c.zero_window_probes)
         /\ d.accepted = c.accepted /\ d.close_requested = c.close_requested
         /\ d.state = c.state
  <1>1. PICK u, e : u = ZeroWindowProbe(c) /\ e = u.conn
    OBVIOUS
  <1>2. u \in Update /\ e \in Conn /\ c \in Conn
    BY <1>1, ZeroWindowProbeSound, SoundFields
  <1>3. /\ Calm(c, e) /\ HasProbePayload(e)
        /\ e.accepted = c.accepted /\ e.close_requested = c.close_requested
        /\ e.state = c.state
    BY <1>1, ZeroWindowProbeCalm
  <1>4. d = CountProbe(u).conn
    BY <1>1 DEF PollProbe
  <1>5. d = [e EXCEPT !.zero_window_probes = CountUp(@)]
    BY <1>1, <1>2, <1>4 DEF CountProbe, Update
  <1>6. /\ d.send_una = e.send_una /\ d.send_nxt = e.send_nxt
        /\ d.acked = e.acked /\ d.accepted = e.accepted /\ d.unacked = e.unacked
        /\ d.send_queue = e.send_queue /\ d.remote_window = e.remote_window
        /\ d.close_requested = e.close_requested /\ d.state = e.state
        /\ d.zero_window_probes = CountUp(e.zero_window_probes)
    BY <1>2, <1>5 DEF Conn
  <1>7. d \in Conn
    BY <1>2, <1>5, CountUpType DEF Conn
  <1>8. Grows(e, d)
    BY <1>2, <1>6, GrowsSame
  <1>9. Grows(c, d)
    BY <1>2, <1>3, <1>7, <1>8, GrowsTrans DEF Calm
  <1>10. HasProbePayload(d)
    BY <1>3, <1>6 DEF HasProbePayload
  <1>11. QED BY <1>3, <1>6, <1>9, <1>10 DEF Calm

\* The retransmission half of poll.
LEMMA PollRetransmitCalm ==
  ASSUME NEW c \in SoundConn, c.unacked # <<>>,
         Head(c.unacked).transmissions < MaxTransmissions,
         NEW d, d = PollRetransmit(c).conn
  PROVE  /\ Calm(c, d) /\ d.accepted = c.accepted
         /\ d.state = c.state \/ d.state \in {"FinWait1", "LastAck"}
         /\ Head(c.unacked).transmissions + 1 <= d.unacked[1].transmissions
         /\ c.remote_window = 0 => /\ d.close_requested = c.close_requested
                                   /\ HasProbePayload(d) => HasProbePayload(c)
  <1>1. c \in Conn /\ c.mss <= Mss /\ c.unacked \in Seq(TrackedSegment)
    BY SoundFields DEF Sender, Conn
  <1>2. ~(Head(c.unacked).transmissions >= MaxTransmissions)
    <2>1. Head(c.unacked) = c.unacked[1] /\ 1 \in 1 .. Len(c.unacked)
      BY <1>1
    <2>2. PICK n : n = c.unacked[1].transmissions
      OBVIOUS
    <2>3. n \in Nat
      BY <1>1, <2>1, <2>2, TrackedType
    <2>4. QED BY <2>1, <2>2, <2>3, ConfigAssumption
  <1>3. PICK b : b = [c EXCEPT !.rto_recovery_until = IF @ = None THEN c.send_nxt ELSE @,
                               !.reno = RenoOnTimeout(@, c.mss, InFlight(c))]
    OBVIOUS
  <1>4. b \in SoundConn /\ b \in Conn
    BY <1>3, TimeoutSound, SoundFields
  <1>5. SendSide(b) = SendSide(c) /\ b.state = c.state
    BY <1>1, <1>3 DEF SendSide, Conn
  <1>6. /\ Calm(c, b) /\ b.accepted = c.accepted /\ b.close_requested = c.close_requested
        /\ b.unacked = c.unacked /\ b.send_queue = c.send_queue
        /\ b.remote_window = c.remote_window
    BY <1>1, <1>5, SameSide
  <1>7. PICK u, e : u = RetransmitOldest(b, TRUE) /\ e = u.conn
    OBVIOUS
  <1>8. u \in SoundUpdate /\ e \in SoundConn /\ e \in Conn
    BY <1>4, <1>7, RetransmitOldestSound, SoundFields
  <1>9. /\ Calm(b, e) /\ e.accepted = b.accepted /\ e.close_requested = b.close_requested
        /\ e.state = b.state /\ e.send_queue = b.send_queue
        /\ Len(e.unacked) = Len(b.unacked)
        /\ \A i \in 1 .. Len(b.unacked) : e.unacked[i].data = b.unacked[i].data
        /\ e.unacked[1].transmissions = Head(c.unacked).transmissions + 1
    <2>1. PICK yes : yes = TRUE
      OBVIOUS
    <2>2. yes \in BOOLEAN /\ e = RetransmitOldest(b, yes).conn
      BY <1>7, <2>1
    <2>3. /\ Calm(b, e) /\ e.accepted = b.accepted /\ e.close_requested = b.close_requested
          /\ e.state = b.state /\ e.send_queue = b.send_queue
          /\ Len(e.unacked) = Len(b.unacked)
          /\ \A i \in 1 .. Len(b.unacked) : e.unacked[i].data = b.unacked[i].data
          /\ (b.unacked # <<>> /\ Head(b.unacked).transmissions < MaxTransmissions)
               => e.unacked[1].transmissions = Head(b.unacked).transmissions + 1
      BY <1>4, <2>2, RetransmitCalm
    <2>4. b.unacked # <<>> /\ Head(b.unacked).transmissions < MaxTransmissions
      BY <1>6
    <2>5. e.unacked[1].transmissions = Head(c.unacked).transmissions + 1
      BY <1>6, <2>3, <2>4
    <2>6. QED BY <2>3, <2>5
  <1>10. d = AndFlush(u).conn
    BY <1>2, <1>3, <1>7 DEF PollRetransmit
  <1>11. /\ Calm(e, d) /\ d.accepted = e.accepted
         /\ d.state = e.state \/ d.state \in {"FinWait1", "LastAck"}
         /\ e.remote_window = 0 => d = e
    BY <1>7, <1>8, <1>10, AndFlushCalm
  <1>12. d \in Conn
    BY <1>8, <1>10, AndFlushSound, SoundFields
  <1>13. Calm(c, e)
    BY <1>1, <1>4, <1>6, <1>8, <1>9, GrowsTrans DEF Calm
  <1>14. Calm(c, d)
    BY <1>1, <1>8, <1>11, <1>12, <1>13, GrowsTrans DEF Calm
  <1>15. Head(c.unacked).transmissions + 1 <= d.unacked[1].transmissions
    <2>1. e.unacked \in Seq(TrackedSegment) /\ 1 \in 1 .. Len(e.unacked)
      BY <1>1, <1>6, <1>8, <1>9 DEF Conn
    <2>2. Longer(e.unacked, d.unacked)
      BY <1>11 DEF Calm, Grows
    <2>3. e.unacked[1].transmissions <= d.unacked[1].transmissions
      BY <2>1, <2>2 DEF Longer
    <2>4. QED BY <1>9, <2>3
  <1>16. ASSUME c.remote_window = 0
         PROVE  /\ d.close_requested = c.close_requested
                /\ HasProbePayload(d) => HasProbePayload(c)
    <2>1. e.remote_window = 0
      BY <1>13, <1>16 DEF Calm
    <2>2. d = e
      BY <1>11, <2>1
    <2>3. ASSUME HasProbePayload(d)
          PROVE  HasProbePayload(c)
      <3>1. e.unacked \in Seq(TrackedSegment)
        BY <1>8 DEF Conn
      <3>2. DOMAIN e.unacked = 1 .. Len(c.unacked) /\ DOMAIN c.unacked = 1 .. Len(c.unacked)
        BY <1>1, <1>6, <1>9, <3>1
      <3>3. QED BY <1>6, <1>9, <2>2, <2>3, <3>2 DEF HasProbePayload
    <2>4. QED BY <1>6, <1>9, <2>2, <2>3
  <1>17. QED BY <1>5, <1>6, <1>9, <1>11, <1>14, <1>15, <1>16

-----------------------------------------------------------------------------
(* The values of the clock                                                 *)

\* The doubling of a probe delay.
LEMMA Powers == \A k \in 0 .. 16 : 2 ^ k \in Nat \ {0}
  <1> SUFFICES ASSUME NEW k \in 0 .. 16
               PROVE  2 ^ k \in Nat \ {0}
    OBVIOUS
  <1>1. /\ 2 ^ 0 = 1 /\ 2 ^ 1 = 2 /\ 2 ^ 2 = 4 /\ 2 ^ 3 = 8 /\ 2 ^ 4 = 16 /\ 2 ^ 5 = 32
        /\ 2 ^ 6 = 64 /\ 2 ^ 7 = 128 /\ 2 ^ 8 = 256 /\ 2 ^ 9 = 512 /\ 2 ^ 10 = 1024
        /\ 2 ^ 11 = 2048 /\ 2 ^ 12 = 4096 /\ 2 ^ 13 = 8192 /\ 2 ^ 14 = 16384
        /\ 2 ^ 15 = 32768 /\ 2 ^ 16 = 65536
    OBVIOUS
  <1>2. CASE k = 0 BY <1>1, <1>2
  <1>3. CASE k = 1 BY <1>1, <1>3
  <1>4. CASE k = 2 BY <1>1, <1>4
  <1>5. CASE k = 3 BY <1>1, <1>5
  <1>6. CASE k = 4 BY <1>1, <1>6
  <1>7. CASE k = 5 BY <1>1, <1>7
  <1>8. CASE k = 6 BY <1>1, <1>8
  <1>9. CASE k = 7 BY <1>1, <1>9
  <1>10. CASE k = 8 BY <1>1, <1>10
  <1>11. CASE k = 9 BY <1>1, <1>11
  <1>12. CASE k = 10 BY <1>1, <1>12
  <1>13. CASE k = 11 BY <1>1, <1>13
  <1>14. CASE k = 12 BY <1>1, <1>14
  <1>15. CASE k = 13 BY <1>1, <1>15
  <1>16. CASE k = 14 BY <1>1, <1>16
  <1>17. CASE k = 15 BY <1>1, <1>17
  <1>18. CASE k = 16 BY <1>1, <1>18
  <1>19. \/ k = 0 \/ k = 1 \/ k = 2 \/ k = 3 \/ k = 4 \/ k = 5 \/ k = 6 \/ k = 7 \/ k = 8
         \/ k = 9 \/ k = 10 \/ k = 11 \/ k = 12 \/ k = 13 \/ k = 14 \/ k = 15 \/ k = 16
    OBVIOUS
  <1>20. QED BY <1>2, <1>3, <1>4, <1>5, <1>6, <1>7, <1>8, <1>9, <1>10, <1>11, <1>12, <1>13, <1>14, <1>15, <1>16, <1>17, <1>18, <1>19

\* A probe is never due at once, nor later than the cap.
LEMMA ProbeDelayType ==
  ASSUME NEW probes \in Nat
  PROVE  ProbeDelay(probes) \in Nat \ {0} /\ ProbeDelay(probes) <= MaxRto
  <1>1. PICK k : k = Smaller(probes, 16)
    OBVIOUS
  <1>2. k \in 0 .. 16
    BY <1>1 DEF Smaller
  <1>3. PICK p : p = 2 ^ k
    OBVIOUS
  <1>4. p \in Nat \ {0}
    BY <1>2, <1>3, Powers
  <1>5. PICK m : m = InitialRto * p
    OBVIOUS
  <1>6. m \in Nat \ {0}
    <2>1. InitialRto \in Nat \ {0}
      BY RtoAssumption
    <2>2. \A a, b \in Nat \ {0} : a * b \in Nat \ {0}
      OBVIOUS
    <2>3. QED BY <1>4, <1>5, <2>1, <2>2
  <1>7. ProbeDelay(probes) = Smaller(m, MaxRto)
    BY <1>1, <1>3, <1>5 DEF ProbeDelay
  <1>8. MaxRto \in Nat \ {0}
    BY RtoAssumption
  <1>9. QED BY <1>6, <1>7, <1>8 DEF Smaller

\* rtt.rs: every update leaves the timeout between its bounds.
LEMMA ClampRtoType == \A ms \in Nat : ClampRto(ms) \in MinRto .. MaxRto
  BY RtoAssumption DEF ClampRto, Larger, Smaller

LEMMA EstimatorFields ==
  ASSUME NEW r \in Estimator
  PROVE  /\ r.have_measurement \in BOOLEAN /\ r.srtt \in Nat /\ r.rttvar \in Nat
         /\ r.rto \in MinRto .. MaxRto /\ r.rto \in Nat /\ 1 <= r.rto /\ r.rto <= MaxRto
         /\ r.consecutive_rtos \in Nat /\ r.sample_after \in SeqNumber \cup {NoEnd}
  BY RtoAssumption DEF Estimator

LEMMA NewRttType == NewRtt \in Estimator
  <1>1. ClampRto(InitialRto) \in MinRto .. MaxRto
    BY ClampRtoType, RtoAssumption
  <1>2. QED BY <1>1 DEF NewRtt, Estimator

LEMMA MeasuredType ==
  ASSUME NEW r \in Estimator, NEW srtt \in Nat, NEW rttvar \in Nat
  PROVE  Measured(r, srtt, rttvar) \in Estimator
  <1>1. PICK ms : ms = srtt + Larger(MinMargin, 4 * rttvar)
    OBVIOUS
  <1>2. ms \in Nat
    BY <1>1, RtoAssumption DEF Larger
  <1>3. PICK rto : rto = ClampRto(ms)
    OBVIOUS
  <1>4. rto \in MinRto .. MaxRto
    BY <1>2, <1>3, ClampRtoType
  <1>5. PICK yes, zero, none : yes = TRUE /\ zero = 0 /\ none = NoEnd
    OBVIOUS
  <1>6. yes \in BOOLEAN /\ zero \in Nat /\ none \in SeqNumber \cup {NoEnd}
    BY <1>5
  <1>7. Measured(r, srtt, rttvar) =
          [r EXCEPT !.have_measurement = yes, !.srtt = srtt, !.rttvar = rttvar,
                    !.rto = rto, !.consecutive_rtos = zero, !.sample_after = none]
    BY <1>1, <1>3, <1>5 DEF Measured
  <1>8. [r EXCEPT !.have_measurement = yes, !.srtt = srtt, !.rttvar = rttvar,
                  !.rto = rto, !.consecutive_rtos = zero, !.sample_after = none] \in Estimator
    BY <1>4, <1>6 DEF Estimator
  <1>9. QED BY <1>7, <1>8

LEMMA SampleType ==
  ASSUME NEW r \in Estimator, NEW ms \in Nat
  PROVE  Sample(r, ms) \in Estimator
  <1>1. PICK m : m = Larger(ms, 1)
    OBVIOUS
  <1>2. m \in Nat \ {0}
    BY <1>1 DEF Larger
  <1>3. PICK s, v : s = r.srtt /\ v = r.rttvar
    OBVIOUS
  <1>4. s \in Nat /\ v \in Nat
    BY <1>3, EstimatorFields
  <1>5. CeilDiv(s * 7 + m, 8) \in Nat /\ CeilDiv(v * 3 + AbsDiff(s, m), 4) \in Nat
    <2>1. s * 7 + m + 8 - 1 \in Nat
      BY <1>2, <1>4
    <2>2. AbsDiff(s, m) \in Nat
      BY <1>2, <1>4 DEF AbsDiff
    <2>3. v * 3 + AbsDiff(s, m) + 4 - 1 \in Nat
      BY <1>4, <2>2
    <2>4. QED BY <2>1, <2>3 DEF CeilDiv
  <1>6. m \div 2 \in Nat
    BY <1>2
  <1>7. SampleAtLeastOne(r, m) \in Estimator
    BY <1>2, <1>3, <1>5, <1>6, MeasuredType DEF SampleAtLeastOne
  <1>8. QED BY <1>1, <1>7 DEF Sample

LEMMA BackOffType ==
  ASSUME NEW r \in Estimator
  PROVE  BackOff(r) \in Estimator
  <1>1. PICK rto, n : rto = r.rto /\ n = r.consecutive_rtos
    OBVIOUS
  <1>2. rto \in MinRto .. MaxRto /\ n \in Nat
    BY <1>1, EstimatorFields
  <1>3. PICK x, y, z : /\ x = Smaller(rto * 2, MaxRto)
                       /\ y = (r.have_measurement /\ n + 1 < 3)
                       /\ z = IF n + 1 < 3 THEN n + 1 ELSE 0
    OBVIOUS
  <1>4. x \in MinRto .. MaxRto /\ y \in BOOLEAN /\ z \in Nat
    BY <1>2, <1>3, RtoAssumption DEF Smaller
  <1>5. BackOff(r) = [r EXCEPT !.rto = x, !.have_measurement = y, !.consecutive_rtos = z]
    BY <1>1, <1>3, EstimatorFields DEF BackOff, Estimator
  <1>6. QED BY <1>4, <1>5 DEF Estimator

LEMMA RttOnRetransmitType ==
  ASSUME NEW r \in Estimator, NEW end \in SeqNumber
  PROVE  /\ RttOnRetransmit(r, end) \in Estimator
         /\ RttOnRetransmit(r, end).rto = r.rto
  BY DEF RttOnRetransmit, Estimator

\* Of the segments in flight, a later one ends after an earlier one.
LEMMA EndsOrdered ==
  ASSUME NEW c \in SoundConn, NEW i \in 1 .. Len(c.unacked), NEW j \in 1 .. Len(c.unacked),
         j <= i
  PROVE  BeforeOrEqual(TrackedEnd(c.unacked[j]), TrackedEnd(c.unacked[i]))
  <1>1. CASE i = j
    BY <1>1 DEF BeforeOrEqual
  <1>2. CASE j < i
    <2>1. PICK q, first, last : q = c.unacked /\ first = c.send_una /\ last = c.send_nxt
      OBVIOUS
    <2>2. /\ q \in Seq(TrackedSegment) /\ first \in SeqNumber /\ last \in SeqNumber
          /\ Straight(q, first, last) /\ Distance(first, last) <= MaxWindow + 1
      BY <2>1, SoundFields DEF Sender, FlightBounded, Conn
    <2>3. PICK f, b : f = Fronts(q, first) /\ b = Backs(q, first)
      OBVIOUS
    <2>4. f \in [1 .. Len(q) -> Nat] /\ b \in [1 .. Len(q) -> Nat]
      BY <2>2, <2>3, PlacesType
    <2>5. b[j] <= f[i] /\ f[i] < b[i] /\ b[i] <= Distance(first, last)
      BY <1>2, <2>1, <2>2, <2>3 DEF Straight
    <2>6. PICK x, y : x = TrackedEnd(q[j]) /\ y = TrackedEnd(q[i])
      OBVIOUS
    <2>7. x \in SeqNumber /\ y \in SeqNumber
      BY <2>1, <2>2, <2>6, PlacesAreWords
    <2>8. b[j] = Distance(first, x) /\ b[i] = Distance(first, y)
      BY <2>1, <2>3, <2>6 DEF Backs
    <2>9. PICK m, n, s : m = Distance(first, x) /\ n = Distance(first, y)
                         /\ s = Distance(first, last)
      OBVIOUS
    <2>10. m \in Nat /\ n \in Nat /\ s \in Nat /\ f[i] \in Nat
      BY <2>1, <2>2, <2>4, <2>7, <2>9, DistanceType
    <2>11. m < n /\ n <= MaxWindow + 1
      BY <2>2, <2>5, <2>8, <2>9, <2>10, ConfigAssumption
    <2>12. Distance(y, x) = Modulus - (n - m)
      BY <2>2, <2>7, <2>9, <2>10, <2>11, ModulusAssumption DEF SeqNumber, Distance
    <2>13. 2 * Distance(y, x) >= Modulus
      BY <2>10, <2>11, <2>12, ConfigAssumption, ModulusAssumption
    <2>14. QED BY <2>1, <2>6, <2>13 DEF BeforeOrEqual, Before
  <1>3. QED BY <1>1, <1>2

\* Of some segments in flight, one ends last: apply_ack samples that one.
LEMMA LastEnds ==
  ASSUME NEW c \in SoundConn, NEW S \in SUBSET EndsOf(c), S # {}
  PROVE  \E e \in S : \A f \in S : BeforeOrEqual(f, e)
  <1>1. PICK q, n : q = c.unacked /\ n = Len(q)
    OBVIOUS
  <1>2. q \in Seq(TrackedSegment) /\ n \in Nat /\ DOMAIN q = 1 .. n
    BY <1>1, SoundFields
  <1>3. PICK T : T = {k \in Nat : \E i \in 1 .. n : k = n - i /\ TrackedEnd(q[i]) \in S}
    OBVIOUS
  <1>4. T \in SUBSET Nat /\ T # {}
    <2>1. PICK e \in S : TRUE
      OBVIOUS
    <2>2. PICK i \in 1 .. n : e = TrackedEnd(q[i])
      BY <1>1, <1>2, <2>1 DEF EndsOf
    <2>3. n - i \in Nat
      BY <1>2
    <2>4. n - i \in T
      BY <1>3, <2>2, <2>3
    <2>5. QED BY <1>3, <2>4
  <1>5. PICK m \in T : \A k \in T : m <= k
    BY <1>4, Least
  <1>6. PICK i \in 1 .. n : m = n - i /\ TrackedEnd(q[i]) \in S
    BY <1>3
  <1>7. ASSUME NEW f \in S
        PROVE  BeforeOrEqual(f, TrackedEnd(q[i]))
    <2>1. PICK j \in 1 .. n : f = TrackedEnd(q[j])
      BY <1>1, <1>2 DEF EndsOf
    <2>2. n - j \in Nat
      BY <1>2
    <2>3. n - j \in T
      BY <1>3, <2>1, <2>2
    <2>4. j <= i
      BY <1>2, <1>5, <1>6, <2>3
    <2>5. QED BY <1>1, <2>1, <2>4, EndsOrdered
  <1>8. QED BY <1>6, <1>7

-----------------------------------------------------------------------------
(* What the clock values promise                                           *)

\* A live connection is at rest, each segment in flight has its send time, the
\* probe timer runs exactly while the window is shut, and with nothing
\* outstanding no silence is counted.
Armed(c) ==
  /\ Idle(c)
  /\ sends \in [EndsOf(c) -> Sent]
  /\ c.remote_window = 0 <=> probeIn # Never
  /\ ~Outstanding(c) => silence = 0

ClockInv ==
  /\ rtt \in Estimator
  /\ probeIn \in Nat \cup {Never} /\ closeIn \in Nat \cup {Never}
  /\ silence \in Nat /\ inputs \in Nat
  /\ conn \in SoundConn \cup {NoConn}
  /\ Alive => Armed(conn)

LEMMA ConnIsAlive == \A c \in Conn : c # NoConn
  <1>1. \A c \in Conn : c.state # "Closed"
    BY DEF Conn, State
  <1>2. NoConn.state = "Closed"
    BY DEF NoConn
  <1>3. QED BY <1>1, <1>2

LEMMA AliveConn ==
  ASSUME ClockInv, Alive
  PROVE  conn \in SoundConn /\ conn \in Conn /\ Armed(conn)
  BY SoundFields DEF ClockInv, Alive

\* A removed connection leaves nothing behind.
LEMMA RemovedKept ==
  ASSUME ClockInv, Removed, inputs' \in Nat
  PROVE  ClockInv' /\ ~Alive'
  BY DEF ClockInv, Removed, Alive, Never

\* A step that leaves a sound connection at rest keeps it armed.
LEMMA ArmedKept ==
  ASSUME NEW d \in SoundConn, conn' = d, rtt' \in Estimator,
         probeIn' \in Nat \cup {Never}, closeIn' \in Nat \cup {Never},
         silence' \in Nat, inputs' \in Nat, Idle(d),
         sends' \in [EndsOf(d) -> Sent],
         d.remote_window = 0 <=> probeIn' # Never,
         ~Outstanding(d) => silence' = 0
  PROVE  ClockInv' /\ Alive' /\ Armed(d)'
  <1>1. d \in Conn
    BY SoundFields
  <1>2. conn' # NoConn
    BY <1>1, ConnIsAlive
  <1>3. Armed(conn)'
    BY DEF Armed
  <1>4. QED BY <1>2, <1>3 DEF ClockInv, Alive, Armed

\* Send times after a step.
LEMMA StampType ==
  ASSUME NEW c, NEW d, sends \in [EndsOf(c) -> Sent], NEW again \in BOOLEAN, Stamp(c, d, again)
  PROVE  sends' \in [EndsOf(d) -> Sent]
  <1>1. PICK fresh : fresh = [age |-> 0, clean |-> TRUE]
    OBVIOUS
  <1>2. fresh \in Sent
    BY <1>1 DEF Sent
  <1>3. ASSUME NEW e \in EndsOf(c)
        PROVE  [age   |-> IF e \in Resent(c, d) THEN 0 ELSE sends[e].age,
                clean |-> sends[e].clean /\ ~again] \in Sent
    <2>1. sends[e] \in Sent
      BY <1>3
    <2>2. sends[e].age \in Nat /\ sends[e].clean \in BOOLEAN
      BY <2>1 DEF Sent
    <2>3. PICK age, clean : /\ age = IF e \in Resent(c, d) THEN 0 ELSE sends[e].age
                            /\ clean = (sends[e].clean /\ ~again)
      OBVIOUS
    <2>4. age \in Nat
      BY <2>2, <2>3
    <2>5. clean \in BOOLEAN
      BY <2>3
    <2>6. [age |-> age, clean |-> clean] \in Sent
      BY <2>4, <2>5 DEF Sent
    <2>7. QED BY ONLY <2>3, <2>6
  <1>4. \A e \in EndsOf(d) :
          (IF e \notin EndsOf(c) THEN [age |-> 0, clean |-> TRUE]
           ELSE [age   |-> IF e \in Resent(c, d) THEN 0 ELSE sends[e].age,
                 clean |-> sends[e].clean /\ ~again]) \in Sent
    BY ONLY <1>1, <1>2, <1>3, Zenon
  <1>5. QED BY <1>4, Zenon DEF Stamp

\* What waits for the peer goes on waiting, unless the connection advances:
\* bytes the application has not seen acknowledged are queued or in flight.
LEMMA OutstandingKept ==
  ASSUME NEW c \in SoundConn, NEW d \in SoundConn, Outstanding(c), ~Advances(c, d),
         d.send_una = c.send_una => Grows(c, d)
  PROVE  Outstanding(d)
  <1>1. Grows(c, d) /\ (d.remote_window = 0 <=> c.remote_window = 0)
    BY DEF Advances
  <1>2. /\ c.unacked \in Seq(TrackedSegment) /\ d.unacked \in Seq(TrackedSegment)
        /\ c.send_queue \in Seq(Byte) /\ d.send_queue \in Seq(Byte)
        /\ Len(c.unacked) <= Len(d.unacked)
    BY <1>1, SoundFields DEF Grows, Longer, Conn
  <1>3. CASE c.unacked # <<>>
    BY <1>2, <1>3 DEF Outstanding
  <1>4. CASE c.unacked = <<>> /\ d.unacked = <<>>
    <2>1. c.remote_window = 0 /\ HasProbePayload(c)
      BY <1>4 DEF Outstanding, ZeroWindowWork
    <2>2. DOMAIN c.unacked = {}
      BY <1>4
    <2>3. c.send_queue # <<>>
      BY <2>1, <2>2 DEF HasProbePayload
    <2>4. /\ c.accepted = c.acked + PayloadBytes(c.unacked) + Len(c.send_queue)
          /\ d.accepted = d.acked + PayloadBytes(d.unacked) + Len(d.send_queue)
      BY SoundFields DEF Sender
    <2>5. d.acked = c.acked /\ c.accepted <= d.accepted
      BY <1>1 DEF Grows
    <2>6. PICK a, m, n, x, y : /\ a = c.acked /\ m = Len(c.send_queue) /\ n = Len(d.send_queue)
                               /\ x = c.accepted /\ y = d.accepted
      OBVIOUS
    <2>7. a \in Nat /\ m \in Nat \ {0} /\ n \in Nat /\ x \in Nat /\ y \in Nat
      BY <1>2, <2>3, <2>6, SoundFields DEF Conn
    <2>8. x = a + 0 + m /\ y = a + 0 + n /\ x <= y
      BY <1>4, <2>4, <2>5, <2>6, PayloadSmall, Zenon
    <2>9. n # 0
      BY <2>7, <2>8
    <2>10. d.send_queue # <<>>
      BY <2>6, <2>9
    <2>11. QED BY <1>1, <2>1, <2>10 DEF Outstanding, ZeroWindowWork, HasProbePayload
  <1>5. QED BY <1>3, <1>4 DEF Outstanding

\* The ghost of progress.
LEMMA SilenceKept ==
  ASSUME NEW c \in SoundConn, NEW d \in SoundConn, d.send_una = c.send_una => Grows(c, d),
         silence \in Nat, NoteProgress(c, d)
  PROVE  silence' \in Nat /\ (~Outstanding(d) => silence' = 0)
  BY OutstandingKept DEF NoteProgress

\* apply_ack samples the send time of a segment that was in flight.
LEMMA AfterAckType ==
  ASSUME NEW c \in SoundConn, NEW d, rtt \in Estimator, sends \in [EndsOf(c) -> Sent]
  PROVE  AfterAck(c, d) \in Estimator
  <1>1. CASE Popped(c, d) = {}
    BY <1>1 DEF AfterAck
  <1>2. CASE Popped(c, d) # {}
    <2>1. Popped(c, d) \in SUBSET EndsOf(c)
      BY DEF Popped
    <2>2. \E e \in Popped(c, d) : \A f \in Popped(c, d) : BeforeOrEqual(f, e)
      BY <1>2, <2>1, LastEnds
    <2>3. PICK last : last = CHOOSE e \in Popped(c, d) :
                               \A f \in Popped(c, d) : BeforeOrEqual(f, e)
      OBVIOUS
    <2>4. last \in Popped(c, d)
      BY <2>2, <2>3
    <2>5. sends[last] \in Sent
      BY <2>1, <2>4
    <2>6. sends[last].age \in Nat
      BY <2>5 DEF Sent
    <2>7. AfterAck(c, d) = Sample(rtt, sends[last].age)
      BY <1>2, <2>3 DEF AfterAck
    <2>8. QED BY <2>6, <2>7, SampleType
  <1>3. QED BY <1>1, <1>2

LEMMA ExcludeFlightType ==
  ASSUME NEW c \in Conn, NEW d, NEW r \in Estimator
  PROVE  ExcludeFlight(c, d, r) \in Estimator /\ ExcludeFlight(c, d, r).rto = r.rto
  <1>1. c.send_nxt \in SeqNumber
    BY DEF Conn
  <1>2. QED BY <1>1, RttOnRetransmitType DEF ExcludeFlight

\* What the peer may send is a segment.
LEMMA FromPeerType ==
  ASSUME NEW c \in Conn
  PROVE  FromPeer(c) \subseteq Segment
  <1>1. ASSUME NEW flags \in SUBSET Flag, NEW seq \in SeqNumber,
               NEW ack \in SeqNumber \cup {None}, NEW window \in {0, OpenWindow}
        PROVE  PeerSegment(flags, seq, ack, window) \in Segment
    <2>1. window \in WindowSize /\ Mss \in Nat
      BY TimersAssumption, ConfigAssumption DEF WindowSize
    <2>2. PICK data : data = <<>>
      OBVIOUS
    <2>3. data \in Seq(Byte)
      BY <2>2
    <2>4. [flags |-> flags, seq |-> seq, ack |-> ack, window |-> window, data |-> data,
           mss |-> Mss] \in Segment
      BY <2>1, <2>3 DEF Segment
    <2>5. QED BY <2>2, <2>4 DEF PeerSegment
  <1>2. /\ {"SYN", "ACK"} \in SUBSET Flag /\ {"SYN"} \in SUBSET Flag
        /\ {"ACK"} \in SUBSET Flag /\ {"FIN", "ACK"} \in SUBSET Flag
    BY DEF Flag
  <1>3. /\ 0 \in SeqNumber /\ c.recv_nxt \in SeqNumber /\ c.send_nxt \in SeqNumber
        /\ Plus(c.send_nxt, 1) \in SeqNumber
    <2>1. PICK one : one = 1
      OBVIOUS
    <2>2. one \in Nat /\ c.send_nxt \in SeqNumber /\ c.recv_nxt \in SeqNumber
      BY <2>1 DEF Conn
    <2>3. Plus(c.send_nxt, one) \in SeqNumber
      BY <2>2, PlusType, SeqNumberIsNat
    <2>4. QED BY <2>1, <2>2, <2>3, ZeroIsSeqNumber
  <1>4. OpenWindow \in {0, OpenWindow}
    OBVIOUS
  <1>5. CASE c.state = "SynSent"
    <2>1. FromPeer(c) = {PeerSegment({"SYN", "ACK"}, 0, c.send_nxt, w) : w \in {0, OpenWindow}}
      BY <1>5 DEF FromPeer
    <2>2. \A w \in {0, OpenWindow} : PeerSegment({"SYN", "ACK"}, 0, c.send_nxt, w) \in Segment
      BY <1>1, <1>2, <1>3
    <2>3. QED BY <2>1, <2>2
  <1>6. CASE c.state = "SynReceived"
    <2>1. FromPeer(c) = {PeerSegment({"SYN"}, 0, None, OpenWindow)} \cup
             {PeerSegment({"ACK"}, c.recv_nxt, c.send_nxt, w) : w \in {0, OpenWindow}}
      BY <1>6 DEF FromPeer
    <2>2. PeerSegment({"SYN"}, 0, None, OpenWindow) \in Segment
      BY <1>1, <1>2, <1>3, <1>4
    <2>3. \A w \in {0, OpenWindow} : PeerSegment({"ACK"}, c.recv_nxt, c.send_nxt, w) \in Segment
      BY <1>1, <1>2, <1>3
    <2>4. QED BY <2>1, <2>2, <2>3
  <1>7. CASE c.state # "SynSent" /\ c.state # "SynReceived"
    <2>1. PICK acks : acks = {a \in SeqNumber : InSendInterval(c, a)} \cup {Plus(c.send_nxt, 1)}
      OBVIOUS
    <2>2. acks \subseteq SeqNumber
      BY <1>3, <2>1
    <2>3. FromPeer(c) = {PeerSegment(f, c.recv_nxt, a, w) :
                f \in {{"ACK"}, {"FIN", "ACK"}}, a \in acks, w \in {0, OpenWindow}}
      BY <1>7, <2>1 DEF FromPeer
    <2>4. \A f \in {{"ACK"}, {"FIN", "ACK"}}, a \in acks, w \in {0, OpenWindow} :
             PeerSegment(f, c.recv_nxt, a, w) \in Segment
      BY <1>1, <1>2, <1>3, <2>2
    <2>5. QED BY <2>3, <2>4
  <1>8. QED BY <1>5, <1>6, <1>7

\* A deadline that closing sets.
LEMMA NoteClosingType ==
  ASSUME NEW c, NEW d, NoteClosing(c, d), closeIn \in Nat \cup {Never}
  PROVE  closeIn' \in Nat \cup {Never}
  BY TimersAssumption DEF NoteClosing

\* on_segment leaves the clock in order.
LEMMA InputKept ==
  ASSUME ClockInv, Input
  PROVE  ClockInv'
  <1>1. PICK seg \in FromPeer(conn) : Advance(conn, OnSegment(conn, seg))
    BY DEF Input
  <1>2. PICK c, u : c = conn /\ u = OnSegment(conn, seg)
    OBVIOUS
  <1>3. /\ c \in SoundConn /\ c \in Conn /\ Idle(c) /\ sends \in [EndsOf(c) -> Sent]
    BY <1>2, AliveConn DEF Input, Armed
  <1>4. seg \in Segment
    BY <1>1, <1>2, <1>3, FromPeerType
  <1>5. u \in Settled
    BY <1>2, <1>3, <1>4, OnSegmentSettled
  <1>6. inputs' \in Nat /\ Advance(c, u)
    BY <1>1, <1>2 DEF Input, ClockInv
  <1>7. CASE u.closed
    BY <1>6, <1>7, RemovedKept DEF Advance
  <1>8. CASE ~u.closed
    <2>1. PICK d : d = u.conn
      OBVIOUS
    <2>2. d \in SoundConn /\ Idle(d)
      BY <1>5, <1>8, <2>1, SettledFields
    <2>3. Answered(c, d)
      BY <1>2, <1>3, <1>4, <1>8, <2>1, OnSegmentAnswered
    <2>4. /\ conn' = d
          /\ rtt' = ExcludeFlight(c, d, AfterAck(c, d))
          /\ Stamp(c, d, Resent(c, d) # {})
          /\ NoteShutWindow(d, IF c.state = "SynSent" THEN rtt.rto ELSE AfterAck(c, d).rto)
          /\ NoteClosing(c, d)
          /\ NoteProgress(c, d)
      BY <1>6, <1>8, <2>1 DEF Advance
    <2>5. AfterAck(c, d) \in Estimator
      BY <1>3, AfterAckType DEF ClockInv
    <2>6. rtt' \in Estimator
      BY <1>3, <2>4, <2>5, ExcludeFlightType
    <2>7. (IF c.state = "SynSent" THEN rtt.rto ELSE AfterAck(c, d).rto) \in Nat
      BY <2>5, EstimatorFields DEF ClockInv
    <2>8. probeIn' \in Nat \cup {Never} /\ (d.remote_window = 0 <=> probeIn' # Never)
      BY <2>4, <2>7 DEF NoteShutWindow, ClockInv, Never
    <2>9. closeIn' \in Nat \cup {Never}
      BY <2>4, NoteClosingType DEF ClockInv
    <2>10. silence' \in Nat /\ (~Outstanding(d) => silence' = 0)
      BY <1>3, <2>2, <2>3, <2>4, SilenceKept DEF ClockInv, Answered
    <2>11. PICK again \in BOOLEAN : again = (Resent(c, d) # {})
      OBVIOUS
    <2>12. sends' \in [EndsOf(d) -> Sent]
      BY <1>3, <2>4, <2>11, StampType
    <2>13. QED BY <1>6, <2>2, <2>4, <2>6, <2>8, <2>9, <2>10, <2>12, ArmedKept
  <1>9. QED BY <1>7, <1>8

\* A call of the application that settles the connection and moves only its
\* own half of it.
LEMMA CallKept ==
  ASSUME ClockInv, Alive, NEW c, c = conn, NEW u \in Settled, Call(c, u), UNCHANGED inputs,
         ~u.closed => Calm(c, u.conn)
  PROVE  ClockInv'
  <1>1. c \in SoundConn /\ c \in Conn /\ Armed(c)
    BY AliveConn
  <1>2. inputs' \in Nat
    BY DEF ClockInv
  <1>3. CASE u.closed
    BY <1>2, <1>3, RemovedKept DEF Call
  <1>4. CASE ~u.closed
    <2>1. PICK d : d = u.conn
      OBVIOUS
    <2>2. d \in SoundConn /\ Idle(d) /\ Calm(c, d)
      BY <1>4, <2>1, SettledFields
    <2>3. /\ conn' = d /\ NoteProgress(c, d)
          /\ rtt' = rtt /\ probeIn' = probeIn /\ closeIn' = closeIn
      BY <1>4, <2>1 DEF Call
    <2>4. PICK again \in BOOLEAN : again = FALSE
      OBVIOUS
    <2>5. Stamp(c, d, again)
      BY <1>4, <2>1, <2>4 DEF Call
    <2>6. sends' \in [EndsOf(d) -> Sent]
      BY <1>1, <2>5, StampType DEF Armed
    <2>7. silence' \in Nat /\ (~Outstanding(d) => silence' = 0)
      BY <1>1, <2>2, <2>3, SilenceKept DEF ClockInv, Calm
    <2>8. d.remote_window = 0 <=> probeIn' # Never
      BY <1>1, <2>2, <2>3 DEF Calm, Armed
    <2>9. QED BY <1>2, <2>2, <2>3, <2>6, <2>7, <2>8, ArmedKept DEF ClockInv
  <1>5. QED BY <1>3, <1>4

LEMMA AppWriteKept ==
  ASSUME ClockInv, NEW n \in 1 .. MaxBytes, AppWrite(n)
  PROVE  ClockInv'
  <1>1. conn \in SoundConn /\ conn \in Conn /\ Alive /\ Writable(conn)
    BY AliveConn DEF AppWrite
  <1>2. PICK data : data = [k \in 1 .. n |-> <<1, conn.accepted + k>>]
    OBVIOUS
  <1>3. data \in Seq(Byte)
    <2>1. PICK m : m = conn.accepted
      OBVIOUS
    <2>2. m \in Nat /\ n \in Nat
      BY <1>1, <2>1, TimersAssumption DEF Conn
    <2>3. \A k \in 1 .. n : <<1, m + k>> \in Byte
      BY <2>2 DEF Byte
    <2>4. data = [k \in 1 .. n |-> <<1, m + k>>]
      BY <1>2, <2>1
    <2>5. data \in [1 .. n -> Byte]
      BY <2>3, <2>4
    <2>6. QED BY <2>2, <2>5
  <1>4. PICK c, u : c = conn /\ u = Write(conn, data)
    OBVIOUS
  <1>5. u \in Settled /\ Calm(c, u.conn)
    BY <1>1, <1>3, <1>4, WriteSettled, WriteCalm
  <1>6. Call(c, u) /\ UNCHANGED inputs
    BY <1>2, <1>4 DEF AppWrite
  <1>7. QED BY <1>1, <1>4, <1>5, <1>6, CallKept

LEMMA AppCloseKept ==
  ASSUME ClockInv, AppClose
  PROVE  ClockInv'
  <1>1. conn \in SoundConn /\ conn \in Conn /\ Alive /\ Idle(conn)
    BY AliveConn DEF AppClose, Armed
  <1>2. PICK c, u : c = conn /\ u = Close(conn)
    OBVIOUS
  <1>3. u \in Settled /\ Calm(c, u.conn)
    BY <1>1, <1>2, CloseSettled, CloseCalm
  <1>4. Call(c, u) /\ UNCHANGED inputs
    BY <1>2 DEF AppClose
  <1>5. QED BY <1>1, <1>2, <1>3, <1>4, CallKept

\* Time passes.
LEMMA SoonerType ==
  ASSUME NEW m \in Nat \cup {Never}
  PROVE  Sooner(m) \in Nat \cup {Never} /\ (Sooner(m) = Never <=> m = Never)
  BY DEF Sooner, Never, SaturatingSub

LEMMA TickKept ==
  ASSUME ClockInv, Tick
  PROVE  ClockInv'
  <1>1. PICK c : c = conn
    OBVIOUS
  <1>2. c \in SoundConn /\ Armed(c)
    BY <1>1, AliveConn DEF Tick
  <1>3. conn' = c /\ rtt' = rtt /\ inputs' = inputs
    BY <1>1 DEF Tick
  <1>4. /\ probeIn' \in Nat \cup {Never} /\ closeIn' \in Nat \cup {Never}
        /\ (probeIn' = Never <=> probeIn = Never)
    BY SoonerType DEF Tick, ClockInv
  <1>5. silence' \in Nat /\ (~Outstanding(c) => silence' = 0)
    BY <1>1 DEF Tick, ClockInv
  <1>6. sends' \in [EndsOf(c) -> Sent]
    <2>1. ASSUME NEW e \in EndsOf(c)
          PROVE  [sends[e] EXCEPT !.age = @ + 1] \in Sent
      <3>1. PICK s : s = sends[e]
        OBVIOUS
      <3>2. s \in Sent
        BY <1>2, <3>1 DEF Armed
      <3>3. [s EXCEPT !.age = @ + 1] \in Sent
        BY <3>2 DEF Sent
      <3>4. QED BY <3>1, <3>3
    <2>2. DOMAIN sends = EndsOf(c)
      BY <1>2 DEF Armed
    <2>3. sends' = [e \in EndsOf(c) |-> [sends[e] EXCEPT !.age = @ + 1]]
      BY <2>2 DEF Tick
    <2>4. QED BY <2>1, <2>3, Zenon
  <1>7. Idle(c) /\ (c.remote_window = 0 <=> probeIn' # Never)
    BY <1>2, <1>4 DEF Armed
  <1>8. QED BY <1>2, <1>3, <1>4, <1>5, <1>6, <1>7, ArmedKept DEF ClockInv

-----------------------------------------------------------------------------
(* poll                                                                    *)

\* The first of two deadlines is due when one of them is.
LEMMA EarliestDue ==
  /\ \A a, b : Due(Earliest(a, b)) => Due(a) \/ Due(b)
  /\ \A a, b \in Nat \cup {Never} : Due(a) \/ Due(b) => Due(Earliest(a, b))
  BY DEF Due, Earliest, Smaller, Never

LEMMA NeverDue == ~Due(Never)
  BY DEF Due, Never

\* The oldest segment in flight has a send time.
LEMMA OldestType ==
  ASSUME NEW c \in Conn, c.unacked # <<>>, sends \in [EndsOf(c) -> Sent]
  PROVE  TrackedEnd(Head(c.unacked)) \in EndsOf(c) /\ Oldest(c).age \in Nat
  <1>1. PICK q : q = c.unacked
    OBVIOUS
  <1>2. q \in Seq(TrackedSegment) /\ q # <<>>
    BY <1>1 DEF Conn
  <1>3. 1 \in DOMAIN q /\ Head(q) = q[1]
    BY <1>2
  <1>4. TrackedEnd(Head(c.unacked)) \in EndsOf(c)
    BY <1>1, <1>3 DEF EndsOf
  <1>5. Oldest(c) \in Sent
    BY <1>4 DEF Oldest
  <1>6. QED BY <1>4, <1>5 DEF Sent

LEMMA DeadlineTypes ==
  ASSUME ClockInv, Alive
  PROVE  /\ CloseDeadline(conn) \in Nat \cup {Never}
         /\ TransportDeadline(conn) \in Nat \cup {Never}
         /\ conn.unacked # <<>> => RetryDeadline(conn) \in Nat
  <1>1. conn \in Conn /\ Armed(conn)
    BY AliveConn
  <1>2. CloseDeadline(conn) \in Nat \cup {Never}
    BY DEF CloseDeadline, ClockInv
  <1>3. ProbeDeadline(conn) \in Nat \cup {Never}
    BY DEF ProbeDeadline, ClockInv
  <1>4. conn.unacked # <<>> => RetryDeadline(conn) \in Nat
    <2>1. HAVE conn.unacked # <<>>
    <2>2. PICK rto, age : rto = rtt.rto /\ age = Oldest(conn).age
      OBVIOUS
    <2>3. rto \in Nat /\ age \in Nat
      BY <1>1, <2>1, <2>2, OldestType, EstimatorFields DEF Armed, ClockInv
    <2>4. SaturatingSub(rto, age) \in Nat
      BY <2>3, SaturatingSubType
    <2>5. QED BY <2>1, <2>2, <2>4 DEF RetryDeadline
  <1>5. RetryDeadline(conn) \in Nat \cup {Never}
    BY <1>4 DEF RetryDeadline
  <1>6. QED BY <1>2, <1>3, <1>4, <1>5 DEF TransportDeadline

\* What poll does with the connection, by what is due.
LEMMA PollCases ==
  ASSUME NEW c \in SoundConn, Idle(c), NEW u, u = PollResult(c)
  PROVE  /\ u \in Settled
         /\ Due(CloseDeadline(c)) => u.closed
         /\ ~u.closed =>
              /\ Probes(c) =>
                   ~(c.zero_window_probes >= MaxTransmissions) /\ u = PollProbe(c)
              /\ Retransmits(c) => /\ c.unacked # <<>>
                                   /\ Head(c.unacked).transmissions < MaxTransmissions
                                   /\ u = PollRetransmit(c)
              /\ ~Probes(c) /\ ~Retransmits(c) => u.conn = c
         /\ ZeroWindowWork(c) /\ RetryDue(c) /\ c.zero_window_probes >= MaxTransmissions
              => u.closed
  <1>1. c \in Conn /\ c.unacked \in Seq(TrackedSegment)
    BY SoundFields
  <1>2. PICK closeDue \in BOOLEAN, retryDue \in BOOLEAN :
          closeDue = Due(CloseDeadline(c)) /\ retryDue = RetryDue(c)
    BY DEF Due, RetryDue
  <1>3. u = Poll(c, closeDue, retryDue)
    BY <1>2 DEF PollResult
  <1>4. u \in Settled
    BY <1>3, PollSettled
  <1>5. /\ Closed(c, <<>>).closed = TRUE /\ Open(c, <<>>).conn = c
        /\ Open(c, <<>>).closed = FALSE
    BY DEF Open, Closed
  <1>6. Due(CloseDeadline(c)) => u.closed
    <2>1. ~CloseDeadlineArmed(c) => ~Due(CloseDeadline(c))
      BY NeverDue DEF CloseDeadline
    <2>2. CloseDeadlineArmed(c) /\ closeDue => u = Closed(c, <<>>)
      BY <1>3 DEF Poll
    <2>3. QED BY <1>2, <1>5, <2>1, <2>2
  <1>7. CASE CloseDeadlineArmed(c) /\ closeDue
    BY <1>3, <1>4, <1>5, <1>6, <1>7 DEF Poll
  <1>8. CASE ~(CloseDeadlineArmed(c) /\ closeDue) /\ ZeroWindowWork(c)
    <2>1. u = IF retryDue THEN PollProbe(c) ELSE Open(c, <<>>)
      BY <1>3, <1>8 DEF Poll
    <2>2. c.zero_window_probes >= MaxTransmissions => PollProbe(c) = Closed(c, <<>>)
      BY DEF PollProbe
    <2>3. ~(c.zero_window_probes >= MaxTransmissions) /\ ~HasProbePayload(c)
            => PollProbe(c) = Open(c, <<>>)
      BY DEF PollProbe
    <2>4. ~Retransmits(c) /\ (Probes(c) <=> retryDue /\ HasProbePayload(c))
      BY <1>2, <1>8 DEF Retransmits, Probes
    <2>5. QED BY <1>2, <1>4, <1>5, <1>6, <2>1, <2>2, <2>3, <2>4
  <1>9. CASE ~(CloseDeadlineArmed(c) /\ closeDue) /\ ~ZeroWindowWork(c)
    <2>1. u = IF retryDue /\ c.unacked # <<>> THEN PollRetransmit(c) ELSE FlushData(c)
      BY <1>3, <1>9 DEF Poll
    <2>2. FlushData(c) = Open(c, <<>>)
      BY <1>1, IdleFlushes
    <2>3. ~Probes(c) /\ (Retransmits(c) <=> retryDue)
      BY <1>2, <1>9 DEF Retransmits, Probes
    <2>4. retryDue => c.unacked # <<>>
      <3>1. c.unacked = <<>> => ~Due(RetryDeadline(c))
        BY NeverDue DEF RetryDeadline
      <3>2. RetryDue(c) <=> Due(RetryDeadline(c))
        BY <1>9 DEF RetryDue
      <3>3. QED BY <1>2, <3>1, <3>2
    <2>5. retryDue /\ Head(c.unacked).transmissions >= MaxTransmissions
            => u = Closed(c, <<>>)
      BY <2>1, <2>4 DEF PollRetransmit
    <2>6. c.unacked # <<>> => Head(c.unacked).transmissions \in Nat
      <3>1. HAVE c.unacked # <<>>
      <3>2. Len(c.unacked) \in Nat \ {0} /\ Head(c.unacked) = c.unacked[1]
        BY <1>1, <3>1
      <3>3. 1 \in 1 .. Len(c.unacked)
        BY <3>2
      <3>4. QED BY <1>1, <3>2, <3>3, TrackedType
    <2>7. MaxTransmissions \in Nat
      BY ConfigAssumption
    <2>8. QED BY <1>4, <1>5, <1>6, <1>9, <2>1, <2>2, <2>3, <2>4, <2>5, <2>6, <2>7
  <1>10. QED BY <1>7, <1>8, <1>9

\* poll keeps the clock in order.
LEMMA PollKept ==
  ASSUME ClockInv, PollNow
  PROVE  ClockInv'
  <1>1. PICK c, u : c = conn /\ u = PollResult(conn)
    OBVIOUS
  <1>2. c \in SoundConn /\ c \in Conn /\ Armed(c) /\ Idle(c) /\ sends \in [EndsOf(c) -> Sent]
    BY <1>1, AliveConn DEF PollNow, Armed
  <1>3. inputs' \in Nat /\ Polled(c, u)
    BY <1>1 DEF PollNow, ClockInv
  <1>4. u \in Settled
    BY <1>1, <1>2, PollCases
  <1>5. CASE u.closed
    BY <1>3, <1>5, RemovedKept DEF Polled
  <1>6. CASE ~u.closed
    <2>1. PICK d : d = u.conn
      OBVIOUS
    <2>2. d \in SoundConn /\ d \in Conn /\ Idle(d)
      BY <1>4, <1>6, <2>1, SettledFields
    <2>3. conn' = d /\ NoteProgress(c, d) /\ closeIn' = closeIn
      BY <1>3, <1>6, <2>1 DEF Polled
    <2>4. PollProbes(c, d) \/ PollWaits(c) \/ PollRetransmits(c, d) \/ PollFlushes(c, d)
      BY <1>3, <1>6, <2>1 DEF Polled
    <2>5. c.send_nxt \in SeqNumber
      BY <1>2 DEF Conn
    <2>6. CASE PollProbes(c, d)
      <3>1. /\ Probes(c) /\ rtt' = AfterProbe(c) /\ Stamp(c, d, Carriers(c) # {})
            /\ probeIn' = ProbeDelay(d.zero_window_probes)
        BY <2>6 DEF PollProbes
      <3>2. Grows(c, d) /\ d.remote_window = c.remote_window /\ c.remote_window = 0
        BY <1>1, <1>2, <1>6, <2>1, <3>1, PollCases, PollProbeGrows DEF Probes, ZeroWindowWork
      <3>3. rtt' \in Estimator
        BY <2>5, <3>1, RttOnRetransmitType DEF AfterProbe, ClockInv
      <3>4. d.zero_window_probes \in Nat
        BY <2>2 DEF Conn
      <3>5. probeIn' \in Nat \cup {Never} /\ (d.remote_window = 0 <=> probeIn' # Never)
        BY <3>1, <3>2, <3>4, ProbeDelayType DEF Never
      <3>6. PICK again \in BOOLEAN : again = (Carriers(c) # {})
        OBVIOUS
      <3>7. sends' \in [EndsOf(d) -> Sent]
        BY <1>2, <3>1, <3>6, StampType
      <3>8. silence' \in Nat /\ (~Outstanding(d) => silence' = 0)
        BY <1>2, <2>2, <2>3, <3>2, SilenceKept DEF ClockInv
      <3>9. QED BY <1>3, <2>2, <2>3, <3>3, <3>5, <3>7, <3>8, ArmedKept DEF ClockInv
    <2>7. CASE PollWaits(c)
      <3>1. d = c
        BY <1>1, <1>2, <1>6, <2>1, <2>7, PollCases DEF PollWaits, Retransmits
      <3>2. c.remote_window = 0 /\ probeIn # Never
        BY <1>2, <2>7 DEF PollWaits, ZeroWindowWork, Armed
      <3>3. probeIn' = probeIn /\ rtt' = rtt /\ sends' = sends
        BY <2>7, <3>2 DEF PollWaits
      <3>4. silence' \in Nat /\ (~Outstanding(d) => silence' = 0)
        BY <1>2, <2>2, <2>3, <3>1, GrowsSame, SilenceKept DEF ClockInv
      <3>5. QED BY <1>2, <1>3, <2>2, <2>3, <3>1, <3>2, <3>3, <3>4, ArmedKept DEF ClockInv
    <2>8. CASE PollRetransmits(c, d)
      <3>1. /\ Retransmits(c) /\ rtt' = ExcludeFlight(c, d, BackOff(rtt)) /\ Stamp(c, d, TRUE)
            /\ probeIn' = probeIn
        BY <2>8 DEF PollRetransmits
      <3>2. Calm(c, d)
        BY <1>1, <1>2, <1>6, <2>1, <3>1, PollCases, PollRetransmitCalm
      <3>3. rtt' \in Estimator
        BY <1>2, <3>1, BackOffType, ExcludeFlightType DEF ClockInv
      <3>4. d.remote_window = 0 <=> probeIn' # Never
        BY <1>2, <3>1, <3>2 DEF Armed, Calm
      <3>5. PICK again \in BOOLEAN : again = TRUE
        OBVIOUS
      <3>6. sends' \in [EndsOf(d) -> Sent]
        BY <1>2, <3>1, <3>5, StampType
      <3>7. silence' \in Nat /\ (~Outstanding(d) => silence' = 0)
        BY <1>2, <2>2, <2>3, <3>2, SilenceKept DEF ClockInv, Calm
      <3>8. QED BY <1>3, <2>2, <2>3, <3>1, <3>3, <3>4, <3>6, <3>7, ArmedKept DEF ClockInv
    <2>9. CASE PollFlushes(c, d)
      <3>1. d = c
        BY <1>1, <1>2, <1>6, <2>1, <2>9, PollCases DEF PollFlushes, Retransmits, Probes
      <3>2. rtt' = rtt /\ probeIn' = probeIn /\ Stamp(c, d, FALSE)
        BY <2>9 DEF PollFlushes
      <3>3. PICK again \in BOOLEAN : again = FALSE
        OBVIOUS
      <3>4. sends' \in [EndsOf(d) -> Sent]
        BY <1>2, <3>2, <3>3, StampType
      <3>5. silence' \in Nat /\ (~Outstanding(d) => silence' = 0)
        BY <1>2, <2>2, <2>3, <3>1, GrowsSame, SilenceKept DEF ClockInv
      <3>6. d.remote_window = 0 <=> probeIn' # Never
        BY <1>2, <3>1, <3>2 DEF Armed
      <3>7. QED BY <1>3, <2>2, <2>3, <3>2, <3>4, <3>5, <3>6, ArmedKept DEF ClockInv
    <2>10. QED BY <2>4, <2>6, <2>7, <2>8, <2>9
  <1>7. QED BY <1>5, <1>6

\* When poll has something to do, by the deadline that is due.
LEMMA DueCases ==
  ASSUME ClockInv, Alive
  PROVE  /\ Due(NextPollAt(conn))
              <=> Due(CloseDeadline(conn)) \/ Due(TransportDeadline(conn))
         /\ Due(CloseDeadline(conn)) => PollResult(conn).closed
         /\ ZeroWindowWork(conn) /\ Due(TransportDeadline(conn)) =>
              RetryDue(conn) /\ (Probes(conn) \/ PollResult(conn).closed)
         /\ ~ZeroWindowWork(conn) =>
              /\ Due(TransportDeadline(conn)) <=> Due(RetryDeadline(conn))
              /\ Retransmits(conn) <=> Due(RetryDeadline(conn))
  <1>1. conn \in SoundConn /\ Armed(conn) /\ Idle(conn)
    BY AliveConn DEF Armed
  <1>2. Due(NextPollAt(conn)) <=> Due(CloseDeadline(conn)) \/ Due(TransportDeadline(conn))
    BY DeadlineTypes, EarliestDue DEF NextPollAt
  <1>3. Due(CloseDeadline(conn)) => PollResult(conn).closed
    BY <1>1, PollCases
  <1>4. ASSUME ZeroWindowWork(conn), Due(TransportDeadline(conn))
        PROVE  RetryDue(conn) /\ (Probes(conn) \/ PollResult(conn).closed)
    <2>1. Due(ProbeDeadline(conn))
      BY <1>4 DEF TransportDeadline
    <2>2. /\ HasProbePayload(conn) \/ conn.zero_window_probes >= MaxTransmissions
          /\ Due(IF probeIn = Never THEN 0 ELSE probeIn)
      BY <2>1, NeverDue DEF ProbeDeadline
    <2>3. probeIn # Never
      BY <1>1, <1>4 DEF Armed, ZeroWindowWork
    <2>4. RetryDue(conn)
      BY <1>4, <2>2, <2>3 DEF RetryDue
    <2>5. QED BY <1>1, <1>4, <2>2, <2>4, PollCases DEF Probes
  <1>5. ASSUME ~ZeroWindowWork(conn)
        PROVE  /\ Due(TransportDeadline(conn)) <=> Due(RetryDeadline(conn))
               /\ Retransmits(conn) <=> Due(RetryDeadline(conn))
    BY <1>5 DEF TransportDeadline, Retransmits, RetryDue
  <1>6. QED BY <1>2, <1>3, <1>4, <1>5

\* A segment in flight is found by its end.
LEMMA HeadAttempts ==
  ASSUME NEW c \in SoundConn, c.unacked # <<>>
  PROVE  Attempts(c, TrackedEnd(Head(c.unacked))) = Head(c.unacked).transmissions
  <1>1. PICK q : q = c.unacked
    OBVIOUS
  <1>2. /\ q \in Seq(TrackedSegment) /\ Straight(q, c.send_una, c.send_nxt)
        /\ c.send_una \in SeqNumber
    BY <1>1, SoundFields DEF Sender, Conn
  <1>3. 1 \in 1 .. Len(q) /\ DOMAIN q = 1 .. Len(q) /\ Head(q) = q[1]
    BY <1>1, <1>2
  <1>4. PICK i : i = CHOOSE k \in DOMAIN q : TrackedEnd(q[k]) = TrackedEnd(Head(q))
    OBVIOUS
  <1>5. i \in 1 .. Len(q) /\ TrackedEnd(q[i]) = TrackedEnd(q[1])
    BY <1>3, <1>4
  <1>6. i = 1
    BY <1>2, <1>3, <1>5, EndsDiffer
  <1>7. QED BY <1>1, <1>3, <1>4, <1>6 DEF Attempts

\* A retransmission resends the oldest segment.
LEMMA HeadResent ==
  ASSUME NEW c \in SoundConn, NEW d \in SoundConn, c.unacked # <<>>,
         Longer(c.unacked, d.unacked),
         Head(c.unacked).transmissions + 1 <= d.unacked[1].transmissions
  PROVE  TrackedEnd(Head(c.unacked)) \in Resent(c, d)
  <1>1. PICK p, q : p = c.unacked /\ q = d.unacked
    OBVIOUS
  <1>2. /\ p \in Seq(TrackedSegment) /\ q \in Seq(TrackedSegment) /\ p # <<>>
        /\ Longer(p, q)
    BY <1>1, SoundFields
  <1>3. /\ 1 \in 1 .. Len(p) /\ 1 \in 1 .. Len(q) /\ q # <<>>
        /\ Head(p) = p[1] /\ Head(q) = q[1] /\ TrackedEnd(q[1]) = TrackedEnd(p[1])
    BY <1>2 DEF Longer
  <1>4. PICK e : e = TrackedEnd(Head(p))
    OBVIOUS
  <1>5. e \in EndsOf(c) /\ e \in EndsOf(d) /\ e = TrackedEnd(Head(q))
    BY <1>1, <1>2, <1>3, <1>4 DEF EndsOf
  <1>6. Attempts(c, e) = p[1].transmissions /\ Attempts(d, e) = q[1].transmissions
    BY <1>1, <1>2, <1>3, <1>4, <1>5, HeadAttempts
  <1>7. PICK m, n : m = p[1].transmissions /\ n = q[1].transmissions
    OBVIOUS
  <1>8. m \in Nat /\ n \in Nat
    BY <1>2, <1>3, <1>7, TrackedType
  <1>9. m + 1 <= n
    BY <1>1, <1>3, <1>7
  <1>10. n > m
    BY <1>8, <1>9
  <1>11. QED BY <1>1, <1>4, <1>5, <1>6, <1>7, <1>10 DEF Resent

\* A poll before next_poll_at finds nothing to do.
LEMMA EarlyPoll ==
  ASSUME ClockInv, PollNow, ~Due(NextPollAt(conn))
  PROVE  UNCHANGED vars
  <1>1. PICK c, u : c = conn /\ u = PollResult(conn)
    OBVIOUS
  <1>2. /\ c \in SoundConn /\ c \in Conn /\ Alive /\ Idle(c)
        /\ sends \in [EndsOf(c) -> Sent]
        /\ (c.remote_window = 0 <=> probeIn # Never) /\ (~Outstanding(c) => silence = 0)
    BY <1>1, AliveConn DEF PollNow, Armed
  <1>3. Polled(c, u) /\ inputs' = inputs
    BY <1>1 DEF PollNow
  <1>4. ~Due(CloseDeadline(c)) /\ ~Due(TransportDeadline(c))
    BY <1>1, <1>2, DueCases
  <1>5. ~Probes(c) /\ ~Retransmits(c) /\ ~u.closed
    <2>1. CASE ZeroWindowWork(c)
      <3>1. ~Due(ProbeDeadline(c))
        BY <1>4, <2>1 DEF TransportDeadline
      <3>2. probeIn # Never
        BY <1>2, <2>1 DEF ZeroWindowWork
      <3>3. RetryDue(c) <=> Due(probeIn)
        BY <2>1 DEF RetryDue
      <3>4. ~(RetryDue(c) /\ (HasProbePayload(c) \/ c.zero_window_probes >= MaxTransmissions))
        BY <3>1, <3>2, <3>3 DEF ProbeDeadline
      <3>5. ~Probes(c) /\ ~Retransmits(c)
        BY <2>1, <3>4 DEF Probes, Retransmits
      <3>6. ~u.closed
        <4>1. CloseDeadlineArmed(c) /\ Due(CloseDeadline(c)) => FALSE
          BY <1>4
        <4>2. u = IF RetryDue(c) THEN PollProbe(c) ELSE Open(c, <<>>)
          BY <1>1, <2>1, <4>1 DEF PollResult, Poll
        <4>3. RetryDue(c) => PollProbe(c) = Open(c, <<>>)
          BY <3>4 DEF PollProbe
        <4>4. u = Open(c, <<>>)
          BY <4>2, <4>3
        <4>5. QED BY <4>4 DEF Open
      <3>7. QED BY <3>5, <3>6
    <2>2. CASE ~ZeroWindowWork(c)
      <3>1. ~Retransmits(c) /\ ~RetryDue(c)
        BY <1>4, <2>2 DEF TransportDeadline, Retransmits, RetryDue
      <3>2. ~Probes(c)
        BY <2>2 DEF Probes
      <3>3. u = FlushData(c)
        BY <1>1, <1>4, <2>2, <3>1 DEF PollResult, Poll
      <3>4. u = Open(c, <<>>)
        BY <1>2, <3>3, IdleFlushes
      <3>5. QED BY <3>1, <3>2, <3>4 DEF Open
    <2>3. QED BY <2>1, <2>2
  <1>6. u.conn = c
    BY <1>1, <1>2, <1>5, PollCases
  <1>7. conn' = c /\ closeIn' = closeIn /\ NoteProgress(c, c) /\ (PollWaits(c) \/ PollFlushes(c, c))
    BY <1>3, <1>5, <1>6 DEF Polled, PollProbes, PollRetransmits
  <1>8. silence' = silence
    <2>1. ~Advances(c, c)
      BY Zenon DEF Advances
    <2>2. CASE Outstanding(c)
      BY <1>7, <2>1, <2>2 DEF NoteProgress
    <2>3. CASE ~Outstanding(c)
      BY <1>2, <1>7, <2>3 DEF NoteProgress
    <2>4. QED BY <2>2, <2>3
  <1>9. CASE PollWaits(c)
    <2>1. probeIn # Never
      BY <1>2, <1>9 DEF PollWaits, ZeroWindowWork
    <2>2. probeIn' = probeIn /\ rtt' = rtt /\ sends' = sends
      BY <1>9, <2>1 DEF PollWaits
    <2>3. QED BY <1>1, <1>3, <1>7, <1>8, <2>2 DEF vars
  <1>10. CASE PollFlushes(c, c)
    <2>1. probeIn' = probeIn /\ rtt' = rtt /\ Stamp(c, c, FALSE)
      BY <1>10 DEF PollFlushes
    <2>2. Resent(c, c) = {}
      <3>1. ASSUME NEW e \in EndsOf(c), Attempts(c, e) > Attempts(c, e)
            PROVE  FALSE
        <4>1. PICK q : q = c.unacked
          OBVIOUS
        <4>2. q \in Seq(TrackedSegment) /\ DOMAIN q = 1 .. Len(q)
          BY <1>2, <4>1, SoundFields
        <4>3. \E k \in DOMAIN q : TrackedEnd(q[k]) = e
          BY <4>1 DEF EndsOf
        <4>4. PICK i : i = CHOOSE k \in DOMAIN q : TrackedEnd(q[k]) = e
          OBVIOUS
        <4>5. i \in 1 .. Len(q)
          BY <4>2, <4>3, <4>4
        <4>6. q[i].transmissions \in Nat
          BY <4>2, <4>5, TrackedType
        <4>7. Attempts(c, e) = q[i].transmissions
          BY <4>1, <4>4 DEF Attempts
        <4>8. PICK n : n = q[i].transmissions
          OBVIOUS
        <4>9. n \in Nat /\ n > n
          BY <3>1, <4>6, <4>7, <4>8
        <4>10. QED BY <4>9
      <3>2. QED BY <3>1 DEF Resent
    <2>3. sends' = [e \in EndsOf(c) |->
                      [age |-> sends[e].age, clean |-> sends[e].clean /\ ~FALSE]]
      BY <2>1, <2>2 DEF Stamp
    <2>4. ASSUME NEW e \in EndsOf(c)
          PROVE  [age |-> sends[e].age, clean |-> sends[e].clean /\ ~FALSE] = sends[e]
      <3>1. PICK s : s = sends[e]
        OBVIOUS
      <3>2. s \in Sent
        BY <1>2, <3>1
      <3>3. PICK clean : clean = (s.clean /\ ~FALSE)
        OBVIOUS
      <3>4. clean = s.clean
        BY <3>2, <3>3, Zenon DEF Sent
      <3>5. [age |-> s.age, clean |-> s.clean] = s
        BY <3>2 DEF Sent
      <3>6. QED BY <3>1, <3>3, <3>4, <3>5, Zenon
    <2>5. sends' = [e \in EndsOf(c) |-> sends[e]]
      BY <2>3, <2>4, Zenon
    <2>6. sends' = sends
      BY <1>2, <2>5
    <2>7. QED BY <1>1, <1>3, <1>7, <1>8, <2>1, <2>6 DEF vars
  <1>11. QED BY <1>7, <1>9, <1>10

\* A poll at next_poll_at moves it, or ends the connection.
LEMMA DuePoll ==
  ASSUME ClockInv, PollNow, Due(NextPollAt(conn)), Alive'
  PROVE  ~Due(NextPollAt(conn)')
  <1>1. PICK c, u : c = conn /\ u = PollResult(conn)
    OBVIOUS
  <1>2. /\ c \in SoundConn /\ c \in Conn /\ Alive /\ Idle(c)
        /\ sends \in [EndsOf(c) -> Sent]
        /\ (c.remote_window = 0 <=> probeIn # Never)
    BY <1>1, AliveConn DEF PollNow, Armed
  <1>3. Polled(c, u)
    BY <1>1 DEF PollNow
  <1>4. ~u.closed
    BY <1>3 DEF Polled, Removed, Alive
  <1>5. PICK d : d = u.conn
    OBVIOUS
  <1>6. d \in SoundConn /\ d \in Conn
    BY <1>1, <1>2, <1>4, <1>5, PollCases, SettledFields
  <1>7. /\ conn' = d /\ closeIn' = closeIn
        /\ PollProbes(c, d) \/ PollWaits(c) \/ PollRetransmits(c, d) \/ PollFlushes(c, d)
    BY <1>3, <1>4, <1>5 DEF Polled
  <1>8. ~Due(CloseDeadline(c)) /\ Due(TransportDeadline(c))
    BY <1>1, <1>2, <1>4, DueCases
  <1>9. ASSUME d.state = c.state \/ d.state \in {"FinWait1", "LastAck"},
               ~Due(TransportDeadline(d)')
        PROVE  ~Due(NextPollAt(conn)')
    <2>1. CASE CloseDeadlineArmed(d)
      <3>1. CloseDeadlineArmed(c) /\ ~Due(closeIn)
        BY <1>8, <1>9, <2>1 DEF CloseDeadline, CloseDeadlineArmed
      <3>2. ~Due(CloseDeadline(d)')
        BY <1>7, <2>1, <3>1 DEF CloseDeadline
      <3>3. NextPollAt(conn)' = Earliest(CloseDeadline(d)', TransportDeadline(d)')
        BY <1>7 DEF NextPollAt
      <3>4. QED BY <1>9, <3>2, <3>3, EarliestDue
    <2>2. CASE ~CloseDeadlineArmed(d)
      <3>1. ~Due(CloseDeadline(d)')
        BY <2>2, NeverDue DEF CloseDeadline
      <3>2. NextPollAt(conn)' = Earliest(CloseDeadline(d)', TransportDeadline(d)')
        BY <1>7 DEF NextPollAt
      <3>3. QED BY <1>9, <3>1, <3>2, EarliestDue
    <2>3. QED BY <2>1, <2>2
  <1>10. CASE ZeroWindowWork(c)
    <2>1. Probes(c) /\ c.remote_window = 0 /\ HasProbePayload(c)
      BY <1>1, <1>2, <1>4, <1>8, <1>10, DueCases DEF Probes, ZeroWindowWork
    <2>2. /\ HasProbePayload(d) /\ d.remote_window = c.remote_window /\ d.state = c.state
      BY <1>1, <1>2, <1>4, <1>5, <2>1, PollCases, PollProbeGrows
    <2>3. PollProbes(c, d)
      BY <1>7, <1>10, <2>1 DEF PollWaits, PollRetransmits, PollFlushes, Retransmits
    <2>4. d.zero_window_probes \in Nat
      BY <1>6 DEF Conn
    <2>5. probeIn' \in Nat \ {0}
      BY <2>3, <2>4, ProbeDelayType DEF PollProbes
    <2>6. ZeroWindowWork(d)
      BY <2>1, <2>2 DEF ZeroWindowWork
    <2>7. TransportDeadline(d)' \in {probeIn', Never}
      BY <2>2, <2>5, <2>6 DEF TransportDeadline, ProbeDeadline, Never
    <2>8. ~Due(TransportDeadline(d)')
      BY <2>5, <2>7 DEF Due, Never
    <2>9. QED BY <1>9, <2>2, <2>8
  <1>11. CASE ~ZeroWindowWork(c)
    <2>1. Retransmits(c)
      BY <1>1, <1>2, <1>8, <1>11, DueCases
    <2>2. /\ c.unacked # <<>> /\ Head(c.unacked).transmissions < MaxTransmissions
          /\ d = PollRetransmit(c).conn
      BY <1>1, <1>2, <1>4, <1>5, <2>1, PollCases
    <2>3. /\ Calm(c, d) /\ (d.state = c.state \/ d.state \in {"FinWait1", "LastAck"})
          /\ Head(c.unacked).transmissions + 1 <= d.unacked[1].transmissions
          /\ c.remote_window = 0 => /\ d.close_requested = c.close_requested
                                    /\ HasProbePayload(d) => HasProbePayload(c)
      BY <1>2, <2>2, PollRetransmitCalm
    <2>4. PollRetransmits(c, d)
      BY <1>7, <1>11, <2>1 DEF PollProbes, Probes, PollWaits, PollFlushes, Retransmits
    <2>5. ~ZeroWindowWork(d)
      BY <1>11, <2>3 DEF ZeroWindowWork, Calm
    <2>6. PICK p, q : p = c.unacked /\ q = d.unacked
      OBVIOUS
    <2>7. /\ p \in Seq(TrackedSegment) /\ q \in Seq(TrackedSegment) /\ p # <<>>
          /\ Longer(p, q)
      BY <1>2, <1>6, <2>2, <2>3, <2>6, SoundFields DEF Calm, Grows
    <2>8. /\ 1 \in 1 .. Len(p) /\ 1 \in 1 .. Len(q) /\ q # <<>>
          /\ Head(p) = p[1] /\ Head(q) = q[1] /\ TrackedEnd(q[1]) = TrackedEnd(p[1])
      BY <2>7 DEF Longer
    <2>9. PICK e : e = TrackedEnd(Head(p))
      OBVIOUS
    <2>10. e \in EndsOf(c) /\ e \in EndsOf(d) /\ e = TrackedEnd(Head(q))
      BY <2>6, <2>7, <2>8, <2>9 DEF EndsOf
    <2>11. e \in Resent(c, d)
      BY <1>2, <1>6, <2>2, <2>3, <2>6, <2>7, <2>9, HeadResent
    <2>12. Stamp(c, d, TRUE)
      BY <2>4 DEF PollRetransmits
    <2>13. sends'[e].age = 0
      BY <2>10, <2>11, <2>12 DEF Stamp
    <2>14. Oldest(d)' = sends'[e]
      BY <2>6, <2>10 DEF Oldest
    <2>15. PICK rto : rto = rtt'.rto
      OBVIOUS
    <2>16. rto \in Nat \ {0}
      <3>1. BackOff(rtt) \in Estimator
        BY BackOffType DEF ClockInv
      <3>2. rtt' \in Estimator
        BY <1>2, <2>4, <3>1, ExcludeFlightType DEF PollRetransmits
      <3>3. QED BY <2>15, <3>2, EstimatorFields
    <2>17. RetryDeadline(d)' = SaturatingSub(rto, 0)
      BY <2>6, <2>8, <2>13, <2>14, <2>15 DEF RetryDeadline
    <2>18. ~Due(TransportDeadline(d)')
      BY <2>5, <2>16, <2>17 DEF TransportDeadline, Due, SaturatingSub
    <2>19. QED BY <1>9, <2>3, <2>18
  <1>12. QED BY <1>10, <1>11

-----------------------------------------------------------------------------
(* The invariant                                                           *)

LEMMA StartsAreSound ==
  \A c \in Starts : c \in SoundConn /\ Idle(c)
  <1>1. ASSUME NEW u \in Settled, ~u.closed
        PROVE  u.conn \in SoundConn /\ Idle(u.conn)
    BY <1>1, SettledFields
  <1>2. InitialSeq \in SeqNumber
    BY TimersAssumption
  <1>3. Client(InitialSeq) \in Settled
    BY <1>2, CreationSettled
  <1>4. ASSUME NEW w \in {0, OpenWindow}
        PROVE  Server(PeerSegment({"SYN"}, 0, None, w), InitialSeq) \in Settled
    <2>1. PICK flags, seq, ack, data : flags = {"SYN"} /\ seq = 0 /\ ack = None /\ data = <<>>
      OBVIOUS
    <2>2. /\ flags \in SUBSET Flag /\ seq \in SeqNumber /\ ack \in SeqNumber \cup {None}
          /\ data \in Seq(Byte) /\ w \in WindowSize /\ Mss \in Nat
      BY <2>1, ZeroIsSeqNumber, TimersAssumption, ConfigAssumption DEF Flag, WindowSize
    <2>3. [flags |-> flags, seq |-> seq, ack |-> ack, window |-> w, data |-> data,
           mss |-> Mss] \in Segment
      BY <2>2 DEF Segment
    <2>4. PeerSegment({"SYN"}, 0, None, w) \in Segment
      BY <2>1, <2>3 DEF PeerSegment
    <2>5. QED BY <1>2, <2>4, CreationSettled
  <1>5. \A c, flags, data : ~SendTracked(c, flags, data).closed
    BY DEF SendTracked, Transmit, Open
  <1>6. /\ ~Client(InitialSeq).closed
        /\ \A w : ~Server(PeerSegment({"SYN"}, 0, None, w), InitialSeq).closed
    BY <1>5, Zenon DEF Client, Server
  <1>7. /\ Client(InitialSeq).conn \in SoundConn /\ Idle(Client(InitialSeq).conn)
        /\ \A w \in {0, OpenWindow} :
             LET c == Server(PeerSegment({"SYN"}, 0, None, w), InitialSeq).conn
             IN  c \in SoundConn /\ Idle(c)
    BY <1>1, <1>3, <1>4, <1>6
  <1>8. QED BY <1>7 DEF Starts

LEMMA InitClock ==
  ASSUME Init
  PROVE  ClockInv
  <1>1. PICK c : c = conn
    OBVIOUS
  <1>2. c \in SoundConn /\ c \in Conn /\ Idle(c)
    BY <1>1, StartsAreSound, SoundFields DEF Init
  <1>3. rtt \in Estimator /\ NewRtt.rto \in Nat
    BY NewRttType, EstimatorFields DEF Init
  <1>4. probeIn \in Nat \cup {Never} /\ (c.remote_window = 0 <=> probeIn # Never)
    BY <1>1, <1>3 DEF Init, Never
  <1>5. closeIn \in Nat \cup {Never} /\ silence \in Nat /\ silence = 0 /\ inputs \in Nat
    BY DEF Init
  <1>6. sends \in [EndsOf(c) -> Sent]
    <2>1. PICK fresh : fresh = [age |-> 0, clean |-> TRUE]
      OBVIOUS
    <2>2. fresh \in Sent
      BY <2>1 DEF Sent
    <2>3. sends = [e \in EndsOf(c) |-> fresh]
      BY <1>1, <2>1 DEF Init
    <2>4. QED BY <2>2, <2>3
  <1>7. Armed(conn)
    BY <1>1, <1>2, <1>4, <1>5, <1>6 DEF Armed
  <1>8. QED BY <1>1, <1>2, <1>3, <1>4, <1>5, <1>7 DEF ClockInv

LEMMA NextClock ==
  ASSUME ClockInv, [Next]_vars
  PROVE  ClockInv'
  <1>1. CASE Input
    BY <1>1, InputKept
  <1>2. CASE \E n \in 1 .. MaxBytes : AppWrite(n)
    BY <1>2, AppWriteKept
  <1>3. CASE AppClose
    BY <1>3, AppCloseKept
  <1>4. CASE PollNow
    BY <1>4, PollKept
  <1>5. CASE Tick
    BY <1>5, TickKept
  <1>6. CASE UNCHANGED vars
    BY <1>6 DEF vars, ClockInv, Alive, Armed, Outstanding
  <1>7. QED BY <1>1, <1>2, <1>3, <1>4, <1>5, <1>6 DEF Next

LEMMA ClockAlways == Spec => []ClockInv
  <1>1. Init => ClockInv
    BY InitClock
  <1>2. ClockInv /\ [Next]_vars => ClockInv'
    BY NextClock
  <1>3. QED BY <1>1, <1>2, PTL DEF Spec

-----------------------------------------------------------------------------
(* Where a connection can still send, all it has in flight is payload      *)

Talking == {"Established", "CloseWait"}

Plain(q) ==
  \A i \in 1 .. Len(q) : "SYN" \notin q[i].flags /\ "FIN" \notin q[i].flags

\* A FIN waits only in a state that can send it, and is in flight only later.
Steady(c) ==
  /\ c.state \in Talking => Plain(c.unacked)
  /\ c.close_requested => c.state \in Talking

\* What a method does that neither opens a connection nor sends a FIN.
Stays(c, d) ==
  /\ Plain(c.unacked) => Plain(d.unacked)
  /\ d.close_requested = c.close_requested
  /\ d.state \in Talking <=> c.state \in Talking

LEMMA StaysSteady ==
  ASSUME NEW c, NEW d, Stays(c, d), Steady(c)
  PROVE  Steady(d)
  BY DEF Stays, Steady

LEMMA StaysThen ==
  ASSUME NEW c, NEW d, NEW e, Stays(c, d), Stays(d, e)
  PROVE  Stays(c, e)
  BY DEF Stays

\* A segment without SYN and FIN carries payload.
LEMMA PlainCarries ==
  ASSUME NEW c \in SoundConn, Plain(c.unacked), NEW i \in 1 .. Len(c.unacked)
  PROVE  c.unacked[i].data # <<>>
  <1>1. PICK q, first, last : q = c.unacked /\ first = c.send_una /\ last = c.send_nxt
    OBVIOUS
  <1>2. q \in Seq(TrackedSegment) /\ first \in SeqNumber /\ Straight(q, first, last)
    BY <1>1, SoundFields DEF Sender, Conn
  <1>3. PICK t : t = q[i]
    OBVIOUS
  <1>4. /\ t \in TrackedSegment /\ t.seq \in SeqNumber /\ TrackedEnd(t) \in SeqNumber
        /\ "SYN" \notin t.flags /\ "FIN" \notin t.flags
    BY <1>1, <1>2, <1>3, PlacesAreWords, TrackedType DEF Plain
  <1>5. ASSUME t.data = <<>>
        PROVE  FALSE
    <2>1. Len(t.data) = 0 /\ t.data \in Seq(Byte)
      BY <1>4, <1>5 DEF TrackedSegment
    <2>2. TrackedEnd(t) = Plus(t.seq, Len(t.data))
      BY <1>4, <2>1, DataEnd
    <2>3. TrackedEnd(t) = t.seq
      BY <1>4, <2>1, <2>2, PlusZero
    <2>4. Fronts(q, first)[i] < Backs(q, first)[i]
      BY <1>1, <1>2 DEF Straight
    <2>5. Fronts(q, first)[i] = Distance(first, t.seq) /\ Backs(q, first)[i] = Distance(first, t.seq)
      BY <1>1, <1>3, <2>3 DEF Fronts, Backs
    <2>6. PICK n : n = Distance(first, t.seq)
      OBVIOUS
    <2>7. n \in Nat
      BY <1>2, <1>4, <2>6, DistanceType
    <2>8. n < n
      BY <2>4, <2>5, <2>6
    <2>9. QED BY <2>7, <2>8
  <1>6. QED BY <1>1, <1>3, <1>5

\* Nothing is in flight when everything sent is acknowledged.
LEMMA EmptyFlight ==
  ASSUME NEW c \in SoundConn, c.send_una = c.send_nxt
  PROVE  c.unacked = <<>>
  <1>1. PICK q, first, last : q = c.unacked /\ first = c.send_una /\ last = c.send_nxt
    OBVIOUS
  <1>2. /\ q \in Seq(TrackedSegment) /\ first \in SeqNumber /\ Straight(q, first, last)
        /\ last = first
    BY <1>1, SoundFields DEF Sender, Conn
  <1>3. ASSUME q # <<>>
        PROVE  FALSE
    <2>1. 1 \in 1 .. Len(q)
      BY <1>2, <1>3
    <2>2. PICK f, b : f = Fronts(q, first)[1] /\ b = Backs(q, first)[1]
      OBVIOUS
    <2>3. f \in Nat /\ b \in Nat
      BY <1>2, <2>1, <2>2, PlacesType
    <2>4. f < b /\ b <= Distance(first, last)
      BY <1>2, <2>1, <2>2 DEF Straight
    <2>5. Distance(first, last) = 0
      BY <1>2, ModulusAssumption DEF Distance, SeqNumber
    <2>6. QED BY <2>3, <2>4, <2>5
  <1>4. QED BY <1>1, <1>3

LEMMA SideStays ==
  ASSUME NEW c \in Conn, NEW d, SendSide(d) = SendSide(c),
         d.state \in Talking <=> c.state \in Talking
  PROVE  Stays(c, d)
  BY SameSide DEF Stays

\* retransmit_oldest.
LEMMA RetransmitStays ==
  ASSUME NEW c \in SoundConn, NEW timeout \in BOOLEAN,
         NEW d, d = RetransmitOldest(c, timeout).conn
  PROVE  Stays(c, d)
  <1>1. c \in Conn /\ d.state = c.state /\ d.close_requested = c.close_requested
    BY RetransmitCalm, SoundFields
  <1>2. CASE c.unacked = <<>> \/ Head(c.unacked).transmissions >= MaxTransmissions
    <2>1. d = c
      BY <1>2 DEF RetransmitOldest, Open
    <2>2. QED BY <2>1 DEF Stays
  <1>3. CASE c.unacked # <<>> /\ ~(Head(c.unacked).transmissions >= MaxTransmissions)
    <2>1. PICK p : p = c.unacked
      OBVIOUS
    <2>2. p \in Seq(TrackedSegment) /\ 1 \in 1 .. Len(p) /\ p[1] \in TrackedSegment
      BY <1>1, <1>3, <2>1, TrackedType DEF Conn
    <2>3. PICK t : t = [p[1] EXCEPT !.transmissions = CountUp(@)]
      OBVIOUS
    <2>4. t.flags = p[1].flags
      BY <2>2, <2>3 DEF TrackedSegment
    <2>5. PICK q : q = [p EXCEPT ![1] = t]
      OBVIOUS
    <2>6. d.unacked = q
      BY <1>1, <1>3, <2>1, <2>3, <2>5 DEF RetransmitOldest, Open, Conn
    <2>7. Len(q) = Len(p) /\ \A i \in 1 .. Len(p) : q[i].flags = p[i].flags
      BY <2>2, <2>4, <2>5
    <2>8. Plain(p) => Plain(q)
      BY <2>7 DEF Plain
    <2>9. QED BY <1>1, <2>1, <2>6, <2>8 DEF Stays
  <1>4. QED BY <1>2, <1>3

\* apply_ack: what stays in flight keeps its flags.
LEMMA TrimFrontPlain ==
  ASSUME NEW q \in Seq(TrackedSegment), Plain(q), NEW ack
  PROVE  Plain(TrimFront(q, ack))
  <1>1. CASE ~(q # <<>> /\ EndsInside(Head(q), ack))
    BY <1>1 DEF TrimFront
  <1>2. CASE q # <<>> /\ EndsInside(Head(q), ack)
    <2>1. 1 \in 1 .. Len(q) /\ q[1] \in TrackedSegment
      BY <1>2, TrackedType
    <2>2. PICK data : data = SubSeq(q[1].data, TrimOf(Head(q), ack) + 1, Len(q[1].data))
      OBVIOUS
    <2>3. PICK t : t = [q[1] EXCEPT !.seq = ack, !.data = data]
      OBVIOUS
    <2>4. t.flags = q[1].flags
      BY <2>1, <2>3 DEF TrackedSegment
    <2>5. TrimFront(q, ack) = [q EXCEPT ![1] = t]
      <3>1. TrimFront(q, ack) = [q EXCEPT ![1].seq = ack,
                                 ![1].data = SubSeq(@, TrimOf(Head(q), ack) + 1, Len(@))]
        BY <1>2 DEF TrimFront
      <3>2. QED BY <2>1, <2>2, <2>3, <3>1
    <2>6. /\ Len([q EXCEPT ![1] = t]) = Len(q)
          /\ \A i \in 1 .. Len(q) : [q EXCEPT ![1] = t][i].flags = q[i].flags
      BY <2>1, <2>4
    <2>7. QED BY <2>5, <2>6 DEF Plain
  <1>3. QED BY <1>1, <1>2

\* A queue cut or put together is as plain as its parts.
LEMMA PlainRest ==
  ASSUME NEW q \in Seq(TrackedSegment), Plain(q), NEW m \in 0 .. Len(q)
  PROVE  SubSeq(q, m + 1, Len(q)) \in Seq(TrackedSegment) /\ Plain(SubSeq(q, m + 1, Len(q)))
  <1>1. PICK rest : rest = SubSeq(q, m + 1, Len(q))
    OBVIOUS
  <1>2. rest \in Seq(TrackedSegment) /\ Len(rest) = Len(q) - m
    BY <1>1
  <1>3. \A i \in 1 .. Len(q) - m : rest[i] = q[m + i] /\ m + i \in 1 .. Len(q)
    BY <1>1
  <1>4. QED BY <1>1, <1>2, <1>3 DEF Plain

LEMMA PlainConcat ==
  ASSUME NEW p \in Seq(TrackedSegment), NEW q \in Seq(TrackedSegment), Plain(p), Plain(q)
  PROVE  Plain(p \o q)
  <1>1. ASSUME NEW i \in 1 .. Len(p \o q)
        PROVE  "SYN" \notin (p \o q)[i].flags /\ "FIN" \notin (p \o q)[i].flags
    <2>1. CASE i <= Len(p)
      <3>1. (p \o q)[i] = p[i] /\ i \in 1 .. Len(p)
        BY <2>1
      <3>2. QED BY <3>1 DEF Plain
    <2>2. CASE ~(i <= Len(p))
      <3>1. (p \o q)[i] = q[i - Len(p)]
        BY <2>2
      <3>2. i - Len(p) \in 1 .. Len(q)
        BY <2>2
      <3>3. QED BY <3>1, <3>2 DEF Plain
    <2>3. QED BY <2>1, <2>2
  <1>2. QED BY <1>1 DEF Plain

LEMMA NewAckStays ==
  ASSUME NEW c \in SoundConn, NEW ack \in SeqNumber, NEW d, d = ApplyNewAck(c, ack)
  PROVE  /\ Stays(c, d) /\ d.state = c.state
         /\ d.send_una = ack /\ d.send_nxt = c.send_nxt
  <1>1. c \in Conn
    BY SoundFields
  <1>2. PICK q, m : q = c.unacked /\ m = Covered(c, ack)
    OBVIOUS
  <1>3. q \in Seq(TrackedSegment) /\ m \in 0 .. Len(q)
    BY <1>1, <1>2, CoveredType DEF Conn
  <1>4. PICK rest : rest = SubSeq(q, m + 1, Len(q))
    OBVIOUS
  <1>5. Plain(q) => rest \in Seq(TrackedSegment) /\ Plain(rest)
    BY <1>3, <1>4, PlainRest
  <1>7. PICK bytes : d = Acknowledge(c, ack, TrimFront(rest, ack), bytes)
    BY <1>2, <1>4 DEF ApplyNewAck, AckSplit
  <1>8. /\ d.unacked = TrimFront(rest, ack) /\ d.close_requested = c.close_requested
        /\ d.state = c.state /\ d.send_una = ack /\ d.send_nxt = c.send_nxt
    BY <1>1, <1>7 DEF Acknowledge, Conn
  <1>9. Plain(q) => Plain(d.unacked)
    BY <1>5, <1>8, TrimFrontPlain
  <1>10. QED BY <1>2, <1>8, <1>9 DEF Stays

LEMMA ApplyAckStays ==
  ASSUME NEW c \in SoundConn, NEW ack \in SeqNumber, NEW candidate,
         NEW d, d = ApplyAck(c, ack, candidate).conn
  PROVE  Stays(c, d)
  <1>1. c \in Conn
    BY SoundFields
  <1>2. Stays(c, c)
    BY DEF Stays
  <1>3. CASE ~InSendInterval(c, ack)
    BY <1>2, <1>3 DEF ApplyAck, Open
  <1>4. CASE InSendInterval(c, ack) /\ ack = c.send_una
    <2>1. d = ApplyDuplicateAck(c, candidate).conn
      BY <1>4 DEF ApplyAck
    <2>2. PICK e : e = CountDuplicate(c)
      OBVIOUS
    <2>3. PICK f : f = FastLoss(e)
      OBVIOUS
    <2>4. PICK r, k, s : /\ r = RenoOnDuplicateAck(c.reno, c.mss) /\ k = CountUp(c.duplicate_acks)
                         /\ s = RenoOnFastLoss(e.reno, c.mss, InFlight(e))
      OBVIOUS
    <2>5. e = [c EXCEPT !.duplicate_acks = k, !.reno = r]
      BY <2>2, <2>4 DEF CountDuplicate
    <2>6. /\ e.unacked = c.unacked /\ e.close_requested = c.close_requested /\ e.state = c.state
          /\ e.mss = c.mss /\ DOMAIN e = DOMAIN c
      BY <1>1, <2>5 DEF Conn
    <2>7. Stays(c, e)
      BY <2>6 DEF Stays
    <2>8. CASE ~candidate \/ c.unacked = <<>>
      <3>1. d = [c EXCEPT !.duplicate_acks = 0]
        BY <2>1, <2>8 DEF ApplyDuplicateAck, Open
      <3>2. /\ d.unacked = c.unacked /\ d.close_requested = c.close_requested
            /\ d.state = c.state
        BY <1>1, <3>1 DEF Conn
      <3>3. QED BY <3>2 DEF Stays
    <2>9. CASE ~(~candidate \/ c.unacked = <<>>) /\ c.duplicate_acks # 2
      <3>1. d = e
        BY <2>1, <2>2, <2>9 DEF ApplyDuplicateAck, Open
      <3>2. QED BY <2>7, <3>1
    <2>10. CASE ~(~candidate \/ c.unacked = <<>>) /\ c.duplicate_acks = 2
      <3>1. d = RetransmitOldest(f, FALSE).conn
        BY <2>1, <2>2, <2>3, <2>10 DEF ApplyDuplicateAck
      <3>2. f \in SoundConn /\ f.unacked = e.unacked /\ f.state = e.state
            /\ f.close_requested = e.close_requested
        <4>1. r \in Controller /\ k \in Nat
          BY <1>1, <2>4, RenoTypes, CountUpType DEF Conn
        <4>2. e \in Conn
          BY <1>1, <2>5, <4>1 DEF Conn
        <4>3. s \in Controller
          BY <1>1, <2>4, <4>2, RenoOnLossTypes, InFlightType DEF Conn
        <4>4. f = [c EXCEPT !.duplicate_acks = k, !.reno = s]
          BY <1>1, <2>3, <2>4, <2>5, <2>6 DEF FastLoss, Conn
        <4>5. /\ f \in Conn /\ f.mss = c.mss /\ f.unacked = c.unacked /\ f.send_una = c.send_una
              /\ f.send_nxt = c.send_nxt /\ f.send_queue = c.send_queue
              /\ f.accepted = c.accepted /\ f.acked = c.acked /\ f.recv_nxt = c.recv_nxt
              /\ f.recv_queue = c.recv_queue /\ f.reassembly = c.reassembly
              /\ f.state = c.state /\ f.close_requested = c.close_requested
          BY <1>1, <4>1, <4>3, <4>4 DEF Conn
        <4>6. c.mss <= Mss
          BY SoundFields DEF Sender
        <4>7. f \in SoundConn
          BY <1>1, <4>5, <4>6, SameSound
        <4>8. QED BY <2>6, <4>5, <4>7
      <3>3. PICK no \in BOOLEAN : no = FALSE
        OBVIOUS
      <3>4. Stays(f, d)
        BY <3>1, <3>2, <3>3, RetransmitStays
      <3>5. Stays(e, f)
        BY <3>2 DEF Stays
      <3>6. QED BY <2>7, <3>4, <3>5, StaysThen
    <2>11. QED BY <2>8, <2>9, <2>10
  <1>5. CASE InSendInterval(c, ack) /\ ack # c.send_una
    <2>1. d = ApplyNewAck(c, ack)
      BY <1>5 DEF ApplyAck, Open
    <2>2. QED BY <2>1, NewAckStays
  <1>6. QED BY <1>3, <1>4, <1>5

\* The ACK of everything sent leaves nothing in flight.
LEMMA FinalAck ==
  ASSUME NEW c \in SoundConn, NEW ack, ack = c.send_nxt, NEW candidate, ~candidate,
         NEW d, d = ApplyAck(c, ack, candidate).conn
  PROVE  d.unacked = <<>>
  <1>1. c \in Conn /\ ack \in SeqNumber /\ c.send_una \in SeqNumber
    BY SoundFields DEF Conn
  <1>2. d \in SoundConn
    BY <1>1, ApplyAckMoves
  <1>3. InSendInterval(c, ack)
    <2>1. FlightBounded(c.unacked, c.send_una, c.send_nxt)
      BY SoundFields DEF Sender
    <2>2. PICK n : n = Distance(c.send_una, c.send_nxt)
      OBVIOUS
    <2>3. n \in Nat /\ n <= MaxWindow + 1
      BY <1>1, <2>1, <2>2, DistanceType DEF FlightBounded
    <2>4. ~Before(ack, c.send_una)
      BY <2>2, <2>3, ConfigAssumption, ModulusAssumption DEF Before
    <2>5. ~After(ack, c.send_nxt)
      BY <1>1, ModulusAssumption DEF After, Before, Distance, SeqNumber
    <2>6. QED BY <2>4, <2>5 DEF InSendInterval, InClosedInterval
  <1>4. d.send_una = d.send_nxt
    <2>1. CASE ack = c.send_una
      <3>1. d = [c EXCEPT !.duplicate_acks = 0]
        BY <1>3, <2>1 DEF ApplyAck, ApplyDuplicateAck, Open
      <3>2. d.send_una = c.send_una /\ d.send_nxt = c.send_nxt
        BY <1>1, <3>1 DEF Conn
      <3>3. QED BY <2>1, <3>2
    <2>2. CASE ack # c.send_una
      <3>1. d = ApplyNewAck(c, ack)
        BY <1>3, <2>2 DEF ApplyAck, Open
      <3>2. QED BY <1>1, <3>1, NewAckStays
    <2>3. QED BY <2>1, <2>2
  <1>5. QED BY <1>2, <1>4, EmptyFlight

\* flush_data: segments with an ACK alone, and a FIN that ends the talking.
LEMMA FlushSteady ==
  ASSUME NEW c \in SoundConn, Steady(c), NEW d, d = FlushData(c).conn
  PROVE  Steady(d)
  <1>1. /\ c \in Conn /\ c.send_queue \in Seq(Byte) /\ Len(c.send_queue) \in Nat
        /\ c.unacked \in Seq(TrackedSegment)
    BY SoundFields DEF Conn
  <1>2. PICK a : a = SendAllowance(c)
    OBVIOUS
  <1>3. a \in Nat /\ FlushData(c) = FlushUpTo(c, a)
    BY <1>1, <1>2, AllowanceBound DEF FlushData
  <1>4. ASSUME NEW total \in Nat, total <= Len(c.send_queue),
               NEW e, e = SendChunks(c, total, Chunks(c, total)).conn
        PROVE  Stays(c, e) /\ e.state = c.state /\ DOMAIN e = DOMAIN c
    <2>1. PICK q : q = Chunks(c, total)
      OBVIOUS
    <2>2. PICK n : n = (total + c.mss - 1) \div c.mss
      OBVIOUS
    <2>3. q = [i \in 1 .. n |-> Chunk(c, total, i)] /\ q \in Seq(TrackedSegment)
      BY <1>1, <1>4, <2>1, <2>2, ChunksType DEF Chunks
    <2>12. q \in Seq(TrackedSegment)
      BY <2>3
    <2>4. \A i \in 1 .. Len(q) : "SYN" \notin q[i].flags /\ "FIN" \notin q[i].flags
      <3>1. ASSUME NEW i \in 1 .. Len(q)
            PROVE  q[i].flags = {"ACK"}
        <4>1. i \in DOMAIN q
          <5>1. DOMAIN q = 1 .. Len(q)
            BY <2>12
          <5>2. QED BY <3>1, <5>1
        <4>2. DOMAIN q = 1 .. n /\ \A k \in 1 .. n : q[k] = Chunk(c, total, k)
          BY <2>3, Zenon
        <4>3. q[i] = Chunk(c, total, i)
          BY <4>1, <4>2
        <4>4. QED BY <4>3 DEF Chunk
      <3>2. QED BY <3>1
    <2>5. e = [c EXCEPT !.send_queue = SubSeq(@, total + 1, Len(@)),
                        !.send_nxt = Plus(@, total), !.unacked = @ \o q]
      BY <1>4, <2>1 DEF SendChunks, Open
    <2>6. /\ e.unacked = c.unacked \o q /\ e.close_requested = c.close_requested
          /\ e.state = c.state /\ DOMAIN e = DOMAIN c
      BY <1>1, <2>5 DEF Conn
    <2>7. PICK p : p = c.unacked
      OBVIOUS
    <2>8. p \in Seq(TrackedSegment)
      BY <1>1, <2>7
    <2>9. Plain(q)
      BY <2>4 DEF Plain
    <2>10. Plain(p) => Plain(p \o q)
      BY <2>3, <2>8, <2>9, PlainConcat
    <2>11. QED BY <2>6, <2>7, <2>10 DEF Stays
  <1>5. CASE c.state \notin {"Established", "CloseWait"}
    <2>1. d = c
      BY <1>3, <1>5 DEF FlushUpTo, Open
    <2>2. QED BY <2>1
  <1>6. CASE /\ c.state \in {"Established", "CloseWait"}
             /\ c.close_requested /\ a > Len(c.send_queue)
    <2>1. PICK u : u = SendChunks(c, Len(c.send_queue), Chunks(c, Len(c.send_queue)))
      OBVIOUS
    <2>2. FlushData(c) = Then(u, SendFin(u.conn))
      BY <1>3, <1>6, <2>1 DEF FlushUpTo, AndSendFin
    <2>3. PICK e : e = u.conn
      OBVIOUS
    <2>4. DOMAIN e = DOMAIN c
      BY <1>1, <1>4, <2>1, <2>3
    <2>5. PICK f : f = [e EXCEPT !.close_requested = FALSE,
                                 !.state = IF @ = "Established" THEN "FinWait1" ELSE "LastAck"]
      OBVIOUS
    <2>6. SendFin(e) = SendTracked(f, {"FIN", "ACK"}, <<>>)
      BY <2>5 DEF SendFin
    <2>7. f.close_requested = FALSE /\ f.state \in {"FinWait1", "LastAck"} /\ DOMAIN f = DOMAIN e
      BY <1>1, <2>4, <2>5 DEF Conn
    <2>8. PICK t : t = [seq |-> f.send_nxt, flags |-> {"FIN", "ACK"}, data |-> <<>>,
                        transmissions |-> 1]
      OBVIOUS
    <2>9. d = SendFin(e).conn
      BY <2>2, <2>3 DEF Then, SendFin, SendTracked, Transmit, Open
    <2>10. d = [f EXCEPT !.send_nxt = TrackedEnd(t), !.unacked = Append(@, t)]
      BY <2>6, <2>8, <2>9 DEF SendTracked, Transmit, Open
    <2>11. d.state = f.state /\ d.close_requested = f.close_requested
      BY <2>10
    <2>12. QED BY <2>7, <2>11 DEF Steady, Talking
  <1>7. CASE /\ c.state \in {"Established", "CloseWait"}
             /\ ~(c.close_requested /\ a > Len(c.send_queue))
    <2>1. PICK total : total = Smaller(a, Len(c.send_queue))
      OBVIOUS
    <2>2. total \in Nat /\ total <= Len(c.send_queue)
      BY <1>1, <1>3, <2>1 DEF Smaller
    <2>3. FlushData(c) = SendChunks(c, total, Chunks(c, total))
      BY <1>3, <1>7, <2>1 DEF FlushUpTo
    <2>4. Stays(c, d)
      BY <1>4, <2>2, <2>3
    <2>5. QED BY <2>4, StaysSteady
  <1>8. QED BY <1>5, <1>6, <1>7

LEMMA AndFlushSteady ==
  ASSUME NEW u \in SoundUpdate, Steady(u.conn)
  PROVE  Steady(AndFlush(u).conn)
  <1>1. u.conn \in SoundConn /\ u \in Update
    BY SoundFields
  <1>2. FlushData(u.conn) \in Update
    BY <1>1, FlushDataSound, SoundFields
  <1>3. AndFlush(u).conn = FlushData(u.conn).conn
    BY <1>1, <1>2, ThenLeaves DEF AndFlush
  <1>4. QED BY <1>1, <1>3, FlushSteady

\* A queue holds payload exactly when it counts some.
LEMMA PayloadCounts ==
  ASSUME NEW q \in Seq(TrackedSegment)
  PROVE  PayloadBytes(q) # 0 <=> \E i \in DOMAIN q : q[i].data # <<>>
  <1>1. PICK S : S = UNION {{i} \X (1 .. Len(q[i].data)) : i \in DOMAIN q}
    OBVIOUS
  <1>2. IsFiniteSet(S) /\ PayloadBytes(q) = Cardinality(S)
    <2>1. S = Cells(DOMAIN q, Lengths(q))
      BY <1>1 DEF Cells, Lengths
    <2>2. Lengths(q) \in [1 .. Len(q) -> Nat] /\ DOMAIN q = 1 .. Len(q) /\ IsFiniteSet(1 .. Len(q))
      BY PayloadCells
    <2>3. PICK size : size = Lengths(q)
      OBVIOUS
    <2>4. size \in [DOMAIN q -> Nat] /\ IsFiniteSet(DOMAIN q)
      BY <2>2, <2>3
    <2>5. IsFiniteSet(Cells(DOMAIN q, size))
      BY <2>4, CellsFinite
    <2>6. PayloadBytes(q) = Cardinality(S)
      BY <1>1 DEF PayloadBytes
    <2>7. QED BY <2>1, <2>3, <2>5, <2>6
  <1>3. PayloadBytes(q) # 0 <=> S # {}
    BY <1>2, FS_EmptySet
  <1>4. \A i \in DOMAIN q : q[i].data \in Seq(Byte)
    <2>1. ASSUME NEW i \in DOMAIN q
          PROVE  q[i].data \in Seq(Byte)
      <3>1. i \in 1 .. Len(q)
        OBVIOUS
      <3>2. q[i] \in TrackedSegment
        BY <3>1, TrackedType
      <3>3. QED BY <3>2 DEF TrackedSegment
    <2>2. QED BY <2>1
  <1>5. \A data \in Seq(Byte) : data # <<>> <=> 1 .. Len(data) # {}
    <2>1. ASSUME NEW data \in Seq(Byte)
          PROVE  data # <<>> <=> 1 .. Len(data) # {}
      <3>1. PICK n : n = Len(data)
        OBVIOUS
      <3>2. n \in Nat /\ (data # <<>> <=> n # 0)
        BY <3>1
      <3>3. n # 0 <=> 1 .. n # {}
        <4>1. n # 0 => 1 \in 1 .. n
          BY <3>2
        <4>2. \A k \in 1 .. n : n # 0
          BY <3>2
        <4>3. QED BY <4>1, <4>2
      <3>4. QED BY <3>1, <3>2, <3>3
    <2>2. QED BY <2>1
  <1>6. S # {} <=> \E i \in DOMAIN q : q[i].data # <<>>
    <2>1. ASSUME NEW e \in S
          PROVE  \E i \in DOMAIN q : q[i].data # <<>>
      <3>1. PICK i \in DOMAIN q : e \in {i} \X (1 .. Len(q[i].data))
        BY <1>1, <2>1
      <3>2. 1 .. Len(q[i].data) # {}
        BY <3>1
      <3>4. q[i].data # <<>>
        BY <1>4, <1>5, <3>2
      <3>3. QED BY <3>4
    <2>2. ASSUME NEW i \in DOMAIN q, q[i].data # <<>>
          PROVE  S # {}
      <3>5. 1 .. Len(q[i].data) # {}
        BY <1>4, <1>5, <2>2
      <3>1. PICK k : k \in 1 .. Len(q[i].data)
        BY <3>5
      <3>2. <<i, k>> \in {i} \X (1 .. Len(q[i].data))
        BY <3>1
      <3>3. <<i, k>> \in S
        BY <1>1, <3>2
      <3>4. QED BY <3>3
    <2>3. QED BY <2>1, <2>2
  <1>7. QED BY <1>3, <1>6

\* There is a byte to probe with exactly when the peer has not acknowledged
\* all the application wrote.
LEMMA ProbePayload ==
  ASSUME NEW c \in SoundConn
  PROVE  /\ c.acked \in Nat /\ c.accepted \in Nat /\ c.acked <= c.accepted
         /\ HasProbePayload(c) <=> c.acked < c.accepted
  <1>1. PICK q, p : q = c.unacked /\ p = c.send_queue
    OBVIOUS
  <1>2. q \in Seq(TrackedSegment) /\ p \in Seq(Byte)
    BY <1>1, SoundFields DEF Conn
  <1>3. PICK a, b, m, n : a = c.acked /\ b = c.accepted /\ m = PayloadBytes(q) /\ n = Len(p)
    OBVIOUS
  <1>4. a \in Nat /\ b \in Nat /\ m \in Nat /\ n \in Nat
    BY <1>2, <1>3, PayloadCells, SoundFields DEF Conn
  <1>5. b = a + m + n
    BY <1>1, <1>3, SoundFields DEF Sender
  <1>6. n # 0 <=> p # <<>>
    BY <1>2, <1>3
  <1>7. m # 0 <=> \E i \in DOMAIN q : q[i].data # <<>>
    BY <1>2, <1>3, PayloadCounts
  <1>8. HasProbePayload(c) <=> n # 0 \/ m # 0
    BY <1>1, <1>6, <1>7 DEF HasProbePayload
  <1>9. n # 0 \/ m # 0 <=> a < b
    BY <1>4, <1>5
  <1>10. a <= b
    BY <1>4, <1>5
  <1>11. QED BY <1>3, <1>4, <1>8, <1>9, <1>10

\* A connection that can send has payload in flight, or nothing.
LEMMA TalkingCarries ==
  ASSUME NEW c \in SoundConn, Steady(c), c.state \in Talking, c.unacked # <<>>
  PROVE  HasProbePayload(c)
  <1>1. Plain(c.unacked) /\ c.unacked \in Seq(TrackedSegment)
    BY SoundFields DEF Steady
  <1>2. 1 \in 1 .. Len(c.unacked) /\ 1 \in DOMAIN c.unacked
    BY <1>1
  <1>3. c.unacked[1].data # <<>>
    BY <1>1, <1>2, PlainCarries
  <1>4. QED BY <1>2, <1>3 DEF HasProbePayload

\* receive_stream_data: a FIN of the peer does not end the talking.
LEMMA ReceiveStays ==
  ASSUME NEW c \in SoundConn, c.state # "SynSent", NEW seg \in Segment,
         NEW d, d = ReceiveStreamData(c, seg).conn
  PROVE  Stays(c, d)
  <1>1. c \in Conn /\ seg.seq \in SeqNumber /\ seg.data \in Seq(Byte)
    BY SoundFields DEF Segment
  <1>2. PICK fin : fin = ("FIN" \in seg.flags)
    OBVIOUS
  <1>3. fin \in BOOLEAN
    BY <1>2
  <1>4. PICK e : e = InsertReceived(c, seg.seq, seg.data, fin)
    OBVIOUS
  <1>5. e \in Conn /\ e.state = c.state
    BY <1>1, <1>3, <1>4, InsertReceivedSound, SoundFields
  <1>6. \A run, last, next :
          LET f == TakeIn(e, run, last, next)
          IN  f.state = e.state \/ f.state = AfterRemoteFin(e.state)
    BY <1>5 DEF TakeIn, Conn
  <1>7. DrainReassembly(e).state \in {e.state, AfterRemoteFin(e.state)}
    BY <1>6 DEF DrainReassembly, DrainRun, TakeRun
  <1>8. d = c \/ d = DrainReassembly(e)
    BY <1>2, <1>4 DEF ReceiveStreamData, AndAcknowledge, Open
  <1>9. d.state \in {c.state, AfterRemoteFin(c.state)}
    BY <1>5, <1>7, <1>8
  <1>10. AfterRemoteFin(c.state) \in Talking <=> c.state \in Talking
    BY DEF AfterRemoteFin, Talking
  <1>11. d.state \in Talking <=> c.state \in Talking
    BY <1>9, <1>10
  <1>12. SendSide(d) = SendSide(c)
    BY ReceiveSide
  <1>13. QED BY <1>1, <1>11, <1>12, SideStays

LEMMA WindowStays ==
  ASSUME NEW c \in Conn, NEW window, NEW d, d = UpdateRemoteWindow(c, window)
  PROVE  Stays(c, d)
  <1>1. d.unacked = c.unacked /\ d.close_requested = c.close_requested /\ d.state = c.state
    BY DEF UpdateRemoteWindow, Conn
  <1>2. QED BY <1>1 DEF Stays

\* The states entered when the FIN is acknowledged talk no more than those before.
LEMMA FinAckedStays ==
  ASSUME NEW c \in Conn, NEW fin, NEW d, d = NoteFinAcked(c, fin)
  PROVE  Stays(c, d)
  <1>1. d.state = c.state \/ d.state = AfterFinAcked(c.state)
    BY DEF NoteFinAcked, Conn
  <1>2. AfterFinAcked(c.state) \in Talking <=> c.state \in Talking
    BY DEF AfterFinAcked, Talking
  <1>3. d.state \in Talking <=> c.state \in Talking
    BY <1>1, <1>2
  <1>4. QED BY <1>3, StateSide, SideStays

LEMMA RepairStays ==
  ASSUME NEW c \in SoundConn, NEW d, d = RepairTimedOutFlight(c).conn
  PROVE  Stays(c, d)
  <1>1. CASE c.rto_recovery_until = None \/ c.remote_window = 0
    BY <1>1 DEF RepairTimedOutFlight, Open, Stays
  <1>2. CASE ~(c.rto_recovery_until = None \/ c.remote_window = 0)
    <2>1. PICK no \in BOOLEAN : no = FALSE
      OBVIOUS
    <2>2. d = RetransmitOldest(c, no).conn
      BY <1>2, <2>1 DEF RepairTimedOutFlight
    <2>3. QED BY <2>2, RetransmitStays
  <1>3. QED BY <1>1, <1>2

\* The handshake ends with nothing in flight.
LEMMA SynSentSteady ==
  ASSUME NEW c \in SoundConn, Steady(c), c.state = "SynSent", NEW seg \in Segment
  PROVE  Steady(OnSegmentSynSent(c, seg).conn)
  <1>1. seg.window \in WindowSize /\ c.send_nxt \in SeqNumber /\ c \in Conn
        /\ ~c.close_requested
    BY SoundFields DEF Segment, Conn, Handshake, Opening
  <1>2. PICK w, d : w = UpdateRemoteWindow(c, seg.window) /\ d = NegotiateMss(w, seg)
    OBVIOUS
  <1>3. w \in SoundConn /\ w \in Conn /\ d \in SoundConn /\ d \in Conn
    BY <1>1, <1>2, UpdateRemoteWindowSound, NegotiateMssSound, SoundFields
  <1>4. w.send_nxt = c.send_nxt /\ w.close_requested = c.close_requested
    BY <1>1, <1>2 DEF UpdateRemoteWindow, Conn
  <1>5. d.send_nxt = w.send_nxt /\ d.close_requested = w.close_requested
    BY <1>2, <1>3, MssSide, SameSide
  <1>6. PICK ack, no : ack = c.send_nxt /\ no = FALSE
    OBVIOUS
  <1>7. PICK e : e = ApplyAck(d, ack, no).conn
    OBVIOUS
  <1>8. e.unacked = <<>>
    BY <1>3, <1>4, <1>5, <1>6, <1>7, FinalAck
  <1>9. e \in Conn /\ e.close_requested = d.close_requested
    BY <1>1, <1>3, <1>6, <1>7, ApplyAckMoves DEF Moves
  <1>10. PICK f : f = [e EXCEPT !.recv_nxt = Plus(seg.seq, 1), !.state = "Established"]
    OBVIOUS
  <1>11. f.unacked = <<>> /\ ~f.close_requested
    BY <1>1, <1>4, <1>5, <1>8, <1>9, <1>10 DEF Conn
  <1>12. Steady(f)
    BY <1>11 DEF Steady, Plain
  <1>13. OnSegmentSynSent(c, seg).conn \in {c, f}
    BY <1>2, <1>6, <1>7, <1>10 DEF OnSegmentSynSent, AndAcknowledge, Open
  <1>14. QED BY <1>12, <1>13

LEMMA SynReceivedSteady ==
  ASSUME NEW c \in SoundConn, Steady(c), c.state = "SynReceived", NEW seg \in Segment
  PROVE  Steady(OnSegmentSynReceived(c, seg).conn)
  <1>1. seg.window \in WindowSize /\ c.send_nxt \in SeqNumber /\ c \in Conn
        /\ ~c.close_requested
    BY SoundFields DEF Segment, Conn, Handshake, Opening
  <1>2. PICK ack, no : ack = c.send_nxt /\ no = FALSE /\ no \in BOOLEAN
    OBVIOUS
  <1>3. Steady(RetransmitOldest(c, no).conn)
    BY <1>2, RetransmitStays, StaysSteady
  <1>4. PICK a, w, f : /\ a = ApplyAck(c, ack, no).conn
                       /\ w = UpdateRemoteWindow(a, seg.window)
                       /\ f = [w EXCEPT !.state = "Established"]
    OBVIOUS
  <1>5. a \in SoundConn /\ a \in Conn /\ a.close_requested = c.close_requested
    BY <1>1, <1>2, <1>4, ApplyAckMoves DEF Moves
  <1>6. a.unacked = <<>>
    BY <1>2, <1>4, FinalAck
  <1>7. w \in SoundConn /\ w \in Conn
    BY <1>1, <1>4, <1>5, UpdateRemoteWindowSound, SoundFields
  <1>8. w.unacked = a.unacked /\ w.close_requested = a.close_requested
    BY <1>4, <1>5 DEF UpdateRemoteWindow, Conn
  <1>9. f.unacked = <<>> /\ ~f.close_requested
    BY <1>1, <1>4, <1>5, <1>6, <1>7, <1>8 DEF Conn
  <1>10. Steady(f)
    BY <1>9 DEF Steady, Plain
  <1>11. f \in SoundConn /\ f.state # "SynSent"
    <2>1. "Established" \in State \ Opening
      BY DEF State, Opening
    <2>2. QED BY <1>4, <1>7, <2>1, InStateSound
  <1>12. PICK u : u = ReceiveStreamData(f, seg)
    OBVIOUS
  <1>13. u \in SoundUpdate /\ Steady(u.conn)
    BY <1>10, <1>11, <1>12, ReceiveStreamDataSound, ReceiveStays, StaysSteady
  <1>14. AndFlush(u) \in Update /\ Steady(AndFlush(u).conn)
    BY <1>13, AndFlushSteady, AndFlushSound, SoundFields
  <1>15. OnHandshakeAck(c, seg) = AndFlush(u)
    BY <1>2, <1>4, <1>12 DEF OnHandshakeAck
  <1>16. [OnHandshakeAck(c, seg) EXCEPT !.accepted = TRUE].conn = AndFlush(u).conn
    BY <1>14, <1>15 DEF Update
  <1>17. OnSegmentSynReceived(c, seg).conn
           \in {RetransmitOldest(c, no).conn, c, AndFlush(u).conn}
    BY <1>2, <1>16 DEF OnSegmentSynReceived, Open
  <1>18. QED BY <1>3, <1>14, <1>17

LEMMA SynchronizedSteady ==
  ASSUME NEW c \in SoundConn, Steady(c), c.state \notin Opening, NEW seg \in Segment,
         NEW v, v = OnSegmentSynchronized(c, seg), ~v.closed
  PROVE  Steady(v.conn)
  <1>1. c \in Conn
    BY SoundFields
  <1>2. PICK u : u = IF seg.ack = None THEN Open(c, <<>>) ELSE OnAck(c, seg)
    OBVIOUS
  <1>3. u \in SoundUpdate /\ u.conn.state \notin Opening
    <2>1. Open(c, <<>>) \in SoundUpdate /\ Open(c, <<>>).conn.state = c.state
      BY NoSegments, OpenSound DEF Open
    <2>2. QED BY <1>2, <2>1, OnAckSound
  <1>4. v = Continue(u, seg)
    BY <1>2 DEF OnSegmentSynchronized
  <1>5. ~u.closed
    BY <1>4 DEF Continue
  <1>6. v = AndFlush(AndReceive(u, seg))
    BY <1>4, <1>5 DEF Continue
  <1>7. Stays(c, u.conn)
    <2>1. CASE seg.ack = None
      BY <1>2, <2>1 DEF Open, Stays
    <2>2. CASE seg.ack # None
      <3>1. seg.ack \in SeqNumber /\ seg.window \in WindowSize
        BY <2>2 DEF Segment
      <3>2. PICK candidate, a : /\ a = ApplyAck(c, seg.ack, candidate)
                                /\ u = OnApplied(c, seg, a)
        BY <1>2, <2>2 DEF OnAck
      <3>3. PICK d : d = a.conn
        OBVIOUS
      <3>4. Stays(c, d) /\ d \in SoundConn /\ d \in Conn /\ d.state = c.state /\ a \in Update
        BY <3>1, <3>2, <3>3, ApplyAckStays, ApplyAckMoves, ApplyAckSound, SoundFields
      <3>5. u = AndRepair(a, c, seg)
        BY <1>5, <3>2 DEF OnApplied, Closed
      <3>6. PICK fin : fin = FinAcked(c, seg)
        OBVIOUS
      <3>7. PICK e, w : e = NoteFinAcked(d, fin) /\ w = NoteWindow(e, seg)
        OBVIOUS
      <3>8. e \in SoundConn /\ e \in Conn /\ w \in SoundConn /\ w \in Conn
        <4>1. fin \in BOOLEAN
          BY <3>6 DEF FinAcked
        <4>2. QED BY <3>4, <3>7, <4>1, NoteFinAckedSound, NoteWindowSound, SoundFields
      <3>9. Stays(d, e)
        BY <3>4, <3>7, FinAckedStays
      <3>10. Stays(e, w)
        <4>1. Stays(e, e)
          BY DEF Stays
        <4>2. QED BY <3>7, <3>8, <4>1, WindowStays DEF NoteWindow
      <3>11. Stays(c, w)
        BY <3>4, <3>9, <3>10, StaysThen
      <3>12. Stays(c, RepairTimedOutFlight(w).conn)
        BY <3>8, <3>11, RepairStays, StaysThen
      <3>13. /\ RepairTimedOutFlight(w) \in Update /\ Open(w, <<>>) \in Update
             /\ Open(w, <<>>).conn = w
        BY <3>8, RepairSound, NoSegments, OpenSound, SoundFields DEF Open
      <3>14. u.conn = RepairTimedOutFlight(w).conn \/ u.conn = w
        <4>1. \/ u = Then(a, RepairTimedOutFlight(w))
              \/ u = Then(a, Open(w, <<>>))
          BY <3>3, <3>5, <3>6, <3>7 DEF AndRepair
        <4>2. QED BY <3>4, <3>13, <4>1, ThenLeaves
      <3>15. QED BY <3>11, <3>12, <3>14
    <2>3. QED BY <2>1, <2>2
  <1>8. PICK r : r = AndReceive(u, seg)
    OBVIOUS
  <1>9. u.conn \in SoundConn /\ u \in Update /\ u.conn.state # "SynSent"
    BY <1>3, SoundFields DEF Opening
  <1>10. r \in SoundUpdate
    BY <1>3, <1>8, <1>9, AndReceiveSound
  <1>11. r.conn = ReceiveStreamData(u.conn, seg).conn
    <2>1. ReceiveStreamData(u.conn, seg) \in Update
      BY <1>9, ReceiveStreamDataSound, SoundFields
    <2>2. QED BY <1>8, <1>9, <2>1, ThenLeaves DEF AndReceive
  <1>12. Stays(u.conn, r.conn)
    BY <1>9, <1>11, ReceiveStays
  <1>13. Steady(r.conn)
    BY <1>7, <1>12, StaysThen, StaysSteady
  <1>14. QED BY <1>6, <1>8, <1>10, <1>13, AndFlushSteady

\* on_segment.
LEMMA OnSegmentSteady ==
  ASSUME NEW c \in SoundConn, Steady(c), NEW seg \in Segment, ~OnSegment(c, seg).closed
  PROVE  Steady(OnSegment(c, seg).conn)
  <1>1. CASE "RST" \in seg.flags
    <2>1. OnSegment(c, seg).conn = c
      BY <1>1 DEF OnSegment, OnReset, Open, Closed
    <2>2. QED BY <2>1
  <1>2. CASE "RST" \notin seg.flags /\ c.state = "SynSent"
    BY <1>2, SynSentSteady DEF OnSegment
  <1>3. CASE "RST" \notin seg.flags /\ c.state = "SynReceived"
    BY <1>3, SynReceivedSteady DEF OnSegment
  <1>4. CASE "RST" \notin seg.flags /\ c.state \notin Opening
    <2>1. PICK v : v = OnSegmentSynchronized(c, seg)
      OBVIOUS
    <2>2. OnSegment(c, seg) = v
      BY <1>4, <2>1 DEF OnSegment, Opening
    <2>3. QED BY <1>4, <2>1, <2>2, SynchronizedSteady
  <1>5. QED BY <1>1, <1>2, <1>3, <1>4 DEF Opening

\* write, close and poll.
LEMMA WriteSteady ==
  ASSUME NEW c \in SoundConn, Steady(c), Writable(c), NEW data \in Seq(Byte),
         NEW d, d = Write(c, data).conn
  PROVE  Steady(d)
  <1>1. PICK n : n = WriteAccepts(c, Len(data))
    OBVIOUS
  <1>2. PICK e : e = Accept(c, data, n)
    OBVIOUS
  <1>3. e \in SoundConn /\ c \in Conn
    BY <1>1, <1>2, AcceptSound, SoundFields
  <1>4. e.unacked = c.unacked /\ e.close_requested = c.close_requested /\ e.state = c.state
    BY <1>2, <1>3 DEF Accept, Conn
  <1>5. Steady(e)
    BY <1>4 DEF Steady
  <1>6. d = FlushData(e).conn
    BY <1>1, <1>2 DEF Write
  <1>7. QED BY <1>3, <1>5, <1>6, FlushSteady

LEMMA CloseSteady ==
  ASSUME NEW c \in SoundConn, Steady(c), NEW d, d = Close(c).conn
  PROVE  Steady(d)
  <1>1. c \in Conn
    BY SoundFields
  <1>2. CASE c.state \notin {"Established", "CloseWait"}
    <2>1. d = c
      BY <1>2 DEF Close, Open, Closed
    <2>2. QED BY <2>1
  <1>3. CASE c.state \in {"Established", "CloseWait"}
    <2>1. PICK e : e = [c EXCEPT !.close_requested = TRUE]
      OBVIOUS
    <2>2. e \in SoundConn
      BY <1>3, <2>1, CloseRequestSound DEF Opening
    <2>3. e.unacked = c.unacked /\ e.state = c.state
      BY <1>1, <2>1 DEF Conn
    <2>4. Steady(e)
      BY <1>3, <2>3 DEF Steady, Talking
    <2>5. d = FlushData(e).conn
      BY <1>3, <2>1 DEF Close
    <2>6. QED BY <2>2, <2>4, <2>5, FlushSteady
  <1>4. QED BY <1>2, <1>3

LEMMA ZeroWindowProbeStays ==
  ASSUME NEW c \in SoundConn, HasProbePayload(c), NEW d, d = ZeroWindowProbe(c).conn
  PROVE  Stays(c, d)
  <1>1. c \in Conn
    BY SoundFields
  <1>2. CASE Carriers(c) # {}
    <2>1. d = c
      BY <1>2 DEF ZeroWindowProbe, ProbeOf, Open
    <2>2. QED BY <2>1 DEF Stays
  <1>3. CASE Carriers(c) = {}
    <2>1. c.send_queue \in Seq(Byte) /\ c.send_queue # <<>>
      <3>1. ~\E i \in DOMAIN c.unacked : c.unacked[i].data # <<>>
        BY <1>3 DEF Carriers
      <3>2. QED BY <1>1, <3>1 DEF HasProbePayload, Conn
    <2>2. PICK e, data : e = [c EXCEPT !.send_queue = Tail(@)] /\ data = <<Head(c.send_queue)>>
      OBVIOUS
    <2>3. Tail(c.send_queue) \in Seq(Byte) /\ Head(c.send_queue) \in Byte
      BY <2>1
    <2>4. /\ e \in Conn /\ e.unacked = c.unacked
          /\ e.close_requested = c.close_requested /\ e.state = c.state
      BY <1>1, <2>2, <2>3 DEF Conn
    <2>5. PICK f, one : f = {"ACK"} /\ one = 1
      OBVIOUS
    <2>6. data \in Seq(Byte) /\ f \in SUBSET Flag /\ one \in Nat /\ e.send_nxt \in SeqNumber
      BY <2>2, <2>3, <2>4, <2>5 DEF Flag, Conn
    <2>7. PICK t : t = [seq |-> e.send_nxt, flags |-> f, data |-> data, transmissions |-> one]
      OBVIOUS
    <2>8. t \in TrackedSegment /\ t.flags = f
      BY <2>6, <2>7 DEF TrackedSegment
    <2>9. d = [e EXCEPT !.send_nxt = TrackedEnd(t), !.unacked = Append(@, t)]
      BY <1>3, <2>2, <2>5, <2>7 DEF ZeroWindowProbe, SendTracked, Transmit, Open
    <2>10. /\ d.unacked = Append(e.unacked, t) /\ d.close_requested = e.close_requested
           /\ d.state = e.state
      BY <2>4, <2>9 DEF Conn
    <2>11. PICK p, q : p = c.unacked /\ q = <<t>>
      OBVIOUS
    <2>12. p \in Seq(TrackedSegment) /\ q \in Seq(TrackedSegment) /\ Append(p, t) = p \o q
      BY <1>1, <2>8, <2>11 DEF Conn
    <2>13. Plain(q)
      <3>1. Len(q) = 1 /\ q[1] = t
        BY <2>11
      <3>2. \A i \in 1 .. Len(q) : q[i] = t
        BY <3>1
      <3>3. QED BY <2>5, <2>8, <3>2 DEF Plain
    <2>14. Plain(p) => Plain(p \o q)
      BY <2>12, <2>13, PlainConcat
    <2>15. QED BY <2>4, <2>10, <2>11, <2>12, <2>14 DEF Stays
  <1>4. QED BY <1>2, <1>3

LEMMA PollProbeSteady ==
  ASSUME NEW c \in SoundConn, Steady(c), HasProbePayload(c),
         ~(c.zero_window_probes >= MaxTransmissions), NEW d, d = PollProbe(c).conn
  PROVE  Steady(d)
  <1>1. PICK u, e : u = ZeroWindowProbe(c) /\ e = u.conn
    OBVIOUS
  <1>2. u \in Update /\ e \in Conn
    BY <1>1, ZeroWindowProbeSound, SoundFields
  <1>3. Steady(e)
    BY <1>1, ZeroWindowProbeStays, StaysSteady
  <1>4. d = CountProbe(u).conn
    BY <1>1 DEF PollProbe
  <1>5. d = [e EXCEPT !.zero_window_probes = CountUp(@)]
    BY <1>1, <1>2, <1>4 DEF CountProbe, Update
  <1>6. d.unacked = e.unacked /\ d.close_requested = e.close_requested /\ d.state = e.state
    BY <1>2, <1>5 DEF Conn
  <1>7. QED BY <1>3, <1>6 DEF Steady

LEMMA PollRetransmitSteady ==
  ASSUME NEW c \in SoundConn, Steady(c), c.unacked # <<>>,
         Head(c.unacked).transmissions < MaxTransmissions,
         NEW d, d = PollRetransmit(c).conn
  PROVE  Steady(d)
  <1>1. c \in Conn /\ c.unacked \in Seq(TrackedSegment)
    BY SoundFields
  <1>2. ~(Head(c.unacked).transmissions >= MaxTransmissions)
    <2>1. Head(c.unacked) = c.unacked[1] /\ 1 \in 1 .. Len(c.unacked)
      BY <1>1
    <2>2. PICK n : n = c.unacked[1].transmissions
      OBVIOUS
    <2>3. n \in Nat
      BY <1>1, <2>1, <2>2, TrackedType
    <2>4. QED BY <2>1, <2>2, <2>3, ConfigAssumption
  <1>3. PICK b : b = [c EXCEPT !.rto_recovery_until = IF @ = None THEN c.send_nxt ELSE @,
                               !.reno = RenoOnTimeout(@, c.mss, InFlight(c))]
    OBVIOUS
  <1>4. b \in SoundConn
    BY <1>3, TimeoutSound
  <1>5. /\ b.unacked = c.unacked /\ b.close_requested = c.close_requested /\ b.state = c.state
    BY <1>1, <1>3 DEF Conn
  <1>6. Steady(b)
    BY <1>5 DEF Steady
  <1>7. PICK yes \in BOOLEAN : yes = TRUE
    OBVIOUS
  <1>8. PICK u : u = RetransmitOldest(b, yes)
    OBVIOUS
  <1>9. u \in SoundUpdate /\ Steady(u.conn)
    BY <1>4, <1>6, <1>8, RetransmitOldestSound, RetransmitStays, StaysSteady
  <1>10. d = AndFlush(u).conn
    BY <1>2, <1>3, <1>7, <1>8 DEF PollRetransmit
  <1>11. QED BY <1>9, <1>10, AndFlushSteady

LEMMA StartsSteady == \A c \in Starts : Steady(c)
  <1>1. \A c \in SoundConn : c.state \in Opening => Steady(c)
    BY SoundFields DEF Handshake, Opening, Steady, Talking
  <1>2. \A isn : Client(isn).conn.state = "SynSent"
    BY DEF Client, SendTracked, Transmit, Open, NewConnection
  <1>3. \A syn, isn : Server(syn, isn).conn.state = "SynReceived"
    <2>1. ASSUME NEW syn, NEW isn
          PROVE  Server(syn, isn).conn.state = "SynReceived"
      <3>1. PICK n : n = NewConnection("SynReceived", isn, Plus(syn.seq, 1))
        OBVIOUS
      <3>2. PICK w : w = UpdateRemoteWindow(n, syn.window)
        OBVIOUS
      <3>3. PICK m : m = NegotiateMss(w, syn)
        OBVIOUS
      <3>4. n.state = "SynReceived" /\ "state" \in DOMAIN n
        BY <3>1 DEF NewConnection
      <3>5. w.state = n.state /\ DOMAIN w = DOMAIN n
        BY <3>2 DEF UpdateRemoteWindow
      <3>6. m.state = w.state /\ DOMAIN m = DOMAIN w
        BY <3>3 DEF NegotiateMss, UseMss
      <3>7. \A flags, data : SendTracked(m, flags, data).conn.state = m.state
        <4>1. "state" \in DOMAIN m
          BY <3>4, <3>5, <3>6
        <4>2. \A end, q : [m EXCEPT !.send_nxt = end, !.unacked = q].state = m.state
          BY <4>1
        <4>3. QED BY <4>2 DEF SendTracked, Transmit, Open
      <3>8. Server(syn, isn) = SendTracked(m, {"SYN", "ACK"}, <<>>)
        BY <3>1, <3>2, <3>3 DEF Server
      <3>9. QED BY <3>4, <3>5, <3>6, <3>7, <3>8
    <2>2. QED BY <2>1
  <1>4. \A c \in Starts : c.state \in Opening
    BY <1>2, <1>3 DEF Starts, Opening
  <1>5. QED BY <1>1, <1>4, StartsAreSound

-----------------------------------------------------------------------------
(* How long the peer may keep the connection waiting                       *)

\* With the window shut: each probe sent stands for one delay at most, and the
\* next one is not later than that.
WithinProbes(c, quiet, left) ==
  quiet + left <= (Smaller(c.zero_window_probes, MaxTransmissions) + 1) * MaxRto

\* With the window open: each send of the oldest segment but the last stands for
\* one timeout at most, and its last send for its age.
WithinRetries(c, quiet, age) ==
  quiet + MaxRto <= Head(c.unacked).transmissions * MaxRto + Smaller(age, MaxRto)

Bounded(c) ==
  /\ Steady(c)
  /\ probeIn <= MaxRto
  /\ ZeroWindowWork(c) /\ Outstanding(c) => WithinProbes(c, silence, probeIn)
  /\ ~ZeroWindowWork(c) /\ c.unacked # <<>> => WithinRetries(c, silence, Oldest(c).age)

BoundInv == ClockInv /\ (Alive => Bounded(conn))

LEMMA Products ==
  /\ \A m, n \in Nat : m * n \in Nat /\ (m + 1) * n = m * n + n
  /\ \A m, k, n \in Nat : m <= k => m * n <= k * n
  <1>1. \A m, n \in Nat : m * n \in Nat /\ (m + 1) * n = m * n + n
    OBVIOUS
  <1>2. ASSUME NEW m \in Nat, NEW k \in Nat, NEW n \in Nat, m <= k
        PROVE  m * n <= k * n
    BY <1>2, ProductMonotone
  <1>3. QED BY <1>1, <1>2

\* The oldest segment in flight was sent at least once, and within its budget.
LEMMA HeadSends ==
  ASSUME NEW c \in SoundConn, c.unacked # <<>>
  PROVE  /\ Head(c.unacked).transmissions \in Nat
         /\ 1 <= Head(c.unacked).transmissions
         /\ Head(c.unacked).transmissions <= MaxTransmissions + 1
         /\ 1 \in 1 .. Len(c.unacked) /\ Head(c.unacked) = c.unacked[1]
  <1>1. PICK q : q = c.unacked
    OBVIOUS
  <1>2. q \in Seq(SoundSegment) /\ q \in Seq(TrackedSegment) /\ q # <<>>
    BY <1>1, SoundFields
  <1>3. 1 \in 1 .. Len(q) /\ Head(q) = q[1]
    BY <1>2
  <1>4. q[1] \in SoundSegment
    BY <1>2, <1>3
  <1>5. q[1].transmissions \in Nat
    BY <1>2, <1>3, TrackedType
  <1>6. Budget <= MaxTransmissions + 1
    BY ConfigAssumption DEF Budget, Larger
  <1>7. 1 <= q[1].transmissions /\ q[1].transmissions <= Budget
    BY <1>4 DEF SoundSegment
  <1>8. PICK n : n = q[1].transmissions
    OBVIOUS
  <1>9. n <= MaxTransmissions + 1
    BY <1>5, <1>6, <1>7, <1>8, BudgetType, ConfigAssumption
  <1>10. QED BY <1>1, <1>3, <1>5, <1>7, <1>8, <1>9

LEMMA QuietFresh ==
  ASSUME NEW c \in SoundConn, NEW left \in Nat \cup {Never}, left <= MaxRto, NEW age \in Nat
  PROVE  /\ WithinProbes(c, 0, left)
         /\ c.unacked # <<>> => WithinRetries(c, 0, age)
  <1>1. MaxRto \in Nat
    BY RtoAssumption
  <1>2. WithinProbes(c, 0, left)
    <2>1. PICK k : k = Smaller(c.zero_window_probes, MaxTransmissions)
      OBVIOUS
    <2>2. k \in Nat
      BY <2>1, SoundFields, ConfigAssumption DEF Conn, Smaller
    <2>3. PICK m : m = k * MaxRto
      OBVIOUS
    <2>4. m \in Nat /\ (k + 1) * MaxRto = m + MaxRto
      BY <1>1, <2>2, <2>3, Products
    <2>5. 0 + left <= m + MaxRto
      BY <1>1, <2>4 DEF Never
    <2>6. QED BY <2>1, <2>4, <2>5 DEF WithinProbes
  <1>3. ASSUME c.unacked # <<>>
        PROVE  WithinRetries(c, 0, age)
    <2>1. PICK n : n = Head(c.unacked).transmissions
      OBVIOUS
    <2>2. n \in Nat /\ 1 <= n
      BY <1>3, <2>1, HeadSends
    <2>3. 1 * MaxRto <= n * MaxRto /\ n * MaxRto \in Nat
      BY <1>1, <2>2, Products
    <2>4. Smaller(age, MaxRto) \in Nat
      BY <1>1 DEF Smaller
    <2>5. PICK x, y : x = n * MaxRto /\ y = Smaller(age, MaxRto)
      OBVIOUS
    <2>6. 0 + MaxRto <= x + y
      BY <1>1, <2>3, <2>4, <2>5
    <2>7. QED BY <2>1, <2>5, <2>6 DEF WithinRetries
  <1>4. QED BY <1>2, <1>3

\* The oldest segment waits on, or was sent once more.
LEMMA RetriesStep ==
  ASSUME NEW c \in SoundConn, NEW d \in SoundConn, c.unacked # <<>>, d.unacked # <<>>,
         Longer(c.unacked, d.unacked),
         NEW quiet \in Nat, NEW age \in Nat, NEW next \in Nat,
         next = age \/ Head(c.unacked).transmissions < Head(d.unacked).transmissions,
         WithinRetries(c, quiet, age)
  PROVE  WithinRetries(d, quiet, next)
  <1>1. MaxRto \in Nat
    BY RtoAssumption
  <1>2. PICK m, n : m = Head(c.unacked).transmissions /\ n = Head(d.unacked).transmissions
    OBVIOUS
  <1>3. m \in Nat /\ n \in Nat
    BY <1>2, HeadSends
  <1>4. m <= n
    <2>1. 1 \in 1 .. Len(c.unacked) /\ Head(c.unacked) = c.unacked[1] /\ Head(d.unacked) = d.unacked[1]
      BY HeadSends
    <2>2. QED BY <1>2, <2>1 DEF Longer
  <1>5. PICK x, y, a, b : /\ x = m * MaxRto /\ y = n * MaxRto
                          /\ a = Smaller(age, MaxRto) /\ b = Smaller(next, MaxRto)
    OBVIOUS
  <1>6. x \in Nat /\ y \in Nat /\ x <= y
    BY <1>1, <1>3, <1>4, <1>5, Products
  <1>7. a \in Nat /\ b \in Nat /\ a <= MaxRto
    BY <1>1, <1>5 DEF Smaller
  <1>8. quiet + MaxRto <= x + a
    BY <1>2, <1>5 DEF WithinRetries
  <1>9. CASE next = age
    <2>1. b = a
      BY <1>5, <1>9
    <2>2. quiet + MaxRto <= y + b
      BY <1>1, <1>6, <1>7, <1>8, <2>1
    <2>3. QED BY <1>2, <1>5, <2>2 DEF WithinRetries
  <1>10. CASE m < n
    <2>1. m + 1 <= n /\ m + 1 \in Nat
      BY <1>3, <1>10
    <2>2. (m + 1) * MaxRto <= n * MaxRto
      BY <1>1, <1>3, <2>1, Products
    <2>3. (m + 1) * MaxRto = m * MaxRto + MaxRto
      BY <1>1, <1>3, Products
    <2>4. x + MaxRto <= y
      BY <1>5, <2>2, <2>3
    <2>5. quiet + MaxRto <= y + b
      BY <1>1, <1>6, <1>7, <1>8, <2>4
    <2>6. QED BY <1>2, <1>5, <2>5 DEF WithinRetries
  <1>11. QED BY <1>2, <1>9, <1>10

\* The age of the oldest segment after a step that acknowledges nothing.
LEMMA HeadStep ==
  ASSUME NEW c \in SoundConn, NEW d \in SoundConn, c.unacked # <<>>, sends \in [EndsOf(c) -> Sent],
         NEW again \in BOOLEAN, Stamp(c, d, again), Longer(c.unacked, d.unacked)
  PROVE  /\ d.unacked # <<>>
         /\ \/ sends'[TrackedEnd(Head(d.unacked))].age = Oldest(c).age
            \/ Head(c.unacked).transmissions < Head(d.unacked).transmissions
  <1>1. PICK p, q : p = c.unacked /\ q = d.unacked
    OBVIOUS
  <1>2. p \in Seq(TrackedSegment) /\ q \in Seq(TrackedSegment) /\ p # <<>> /\ Longer(p, q)
    BY <1>1, SoundFields
  <1>3. /\ 1 \in 1 .. Len(p) /\ 1 \in 1 .. Len(q) /\ q # <<>>
        /\ Head(p) = p[1] /\ Head(q) = q[1] /\ TrackedEnd(q[1]) = TrackedEnd(p[1])
    BY <1>2 DEF Longer
  <1>4. PICK e : e = TrackedEnd(Head(p))
    OBVIOUS
  <1>5. e \in EndsOf(c) /\ e \in EndsOf(d) /\ e = TrackedEnd(Head(q))
    BY <1>1, <1>2, <1>3, <1>4 DEF EndsOf
  <1>6. Attempts(c, e) = Head(p).transmissions /\ Attempts(d, e) = Head(q).transmissions
    BY <1>1, <1>3, <1>4, <1>5, HeadAttempts
  <1>7. CASE e \in Resent(c, d)
    <2>1. PICK m, n : m = Head(p).transmissions /\ n = Head(q).transmissions
      OBVIOUS
    <2>2. m \in Nat /\ n \in Nat
      BY <1>2, <1>3, <2>1, TrackedType
    <2>3. n > m
      BY <1>6, <1>7, <2>1 DEF Resent
    <2>4. m < n
      BY <2>2, <2>3
    <2>5. QED BY <1>1, <1>3, <2>1, <2>4
  <1>8. CASE e \notin Resent(c, d)
    <2>1. sends' = [x \in EndsOf(d) |->
              IF x \notin EndsOf(c) THEN [age |-> 0, clean |-> TRUE]
              ELSE [age   |-> IF x \in Resent(c, d) THEN 0 ELSE sends[x].age,
                    clean |-> sends[x].clean /\ ~again]]
      BY DEF Stamp
    <2>2. sends'[e] = [age |-> sends[e].age, clean |-> sends[e].clean /\ ~again]
      BY <1>5, <1>8, <2>1
    <2>3. sends'[e].age = sends[e].age
      BY <2>2
    <2>4. QED BY <1>1, <1>3, <1>4, <1>5, <2>3 DEF Oldest
  <1>9. QED BY <1>7, <1>8

\* A step that leaves a connection: silence starts anew, or the bound of the
\* timer that runs goes on to hold.
LEMMA BoundsKept ==
  ASSUME ClockInv, Alive, Bounded(conn), NEW c, c = conn, NEW d \in SoundConn,
         NEW again \in BOOLEAN, Stamp(c, d, again), NoteProgress(c, d),
         d.send_una = c.send_una => Grows(c, d), Steady(d),
         probeIn' \in Nat \cup {Never}, probeIn' <= MaxRto,
         Outstanding(c) /\ ~Advances(c, d)
           => /\ ZeroWindowWork(d) <=> ZeroWindowWork(c)
              /\ ZeroWindowWork(c) => WithinProbes(d, silence, probeIn')
  PROVE  Bounded(d)'
  <1>1. c \in SoundConn /\ c \in Conn /\ sends \in [EndsOf(c) -> Sent]
        /\ silence \in Nat /\ (~Outstanding(c) => silence = 0)
    BY AliveConn DEF Armed, ClockInv
  <1>2. sends' \in [EndsOf(d) -> Sent]
    BY <1>1, StampType
  <1>3. PICK age : age = sends'[TrackedEnd(Head(d.unacked))].age
    OBVIOUS
  <1>4. d.unacked # <<>> => age \in Nat
    <2>1. HAVE d.unacked # <<>>
    <2>2. PICK q : q = d.unacked
      OBVIOUS
    <2>3. q \in Seq(TrackedSegment) /\ q # <<>>
      BY <2>1, <2>2, SoundFields
    <2>4. 1 \in DOMAIN q /\ Head(q) = q[1]
      BY <2>3
    <2>5. TrackedEnd(Head(d.unacked)) \in EndsOf(d)
      BY <2>2, <2>4 DEF EndsOf
    <2>6. sends'[TrackedEnd(Head(d.unacked))] \in Sent
      BY <1>2, <2>5
    <2>7. QED BY <1>3, <2>6 DEF Sent
  <1>5. /\ ZeroWindowWork(d) /\ Outstanding(d) => WithinProbes(d, silence', probeIn')
        /\ ~ZeroWindowWork(d) /\ d.unacked # <<>> => WithinRetries(d, silence', age)
    <2>1. CASE ~Outstanding(c) \/ Advances(c, d)
      <3>1. silence' = 0
        BY <2>1 DEF NoteProgress
      <3>2. PICK zero : zero = 0
        OBVIOUS
      <3>3. WithinProbes(d, zero, probeIn')
        BY <3>2, QuietFresh, RtoAssumption DEF WithinProbes
      <3>4. d.unacked # <<>> => WithinRetries(d, zero, age)
        BY <1>4, <3>2, QuietFresh
      <3>5. silence' = zero
        BY <3>1, <3>2
      <3>6. QED BY <3>3, <3>4, <3>5, Zenon
    <2>2. CASE Outstanding(c) /\ ~Advances(c, d)
      <3>1. silence' = silence
        BY <2>2 DEF NoteProgress
      <3>2. Longer(c.unacked, d.unacked)
        BY <2>2 DEF Advances, Grows
      <3>3. ZeroWindowWork(d) <=> ZeroWindowWork(c)
        BY <2>2
      <3>4. ZeroWindowWork(c) => WithinProbes(d, silence, probeIn')
        BY <2>2
      <3>5. ASSUME ~ZeroWindowWork(c)
            PROVE  WithinRetries(d, silence, age)
        <4>1. c.unacked # <<>>
          BY <2>2, <3>5 DEF Outstanding
        <4>2. WithinRetries(c, silence, Oldest(c).age)
          BY <3>5, <4>1 DEF Bounded
        <4>3. Oldest(c).age \in Nat
          BY <1>1, <4>1, OldestType
        <4>4. /\ d.unacked # <<>>
              /\ age = Oldest(c).age \/ Head(c.unacked).transmissions < Head(d.unacked).transmissions
          BY <1>1, <1>3, <3>2, <4>1, HeadStep
        <4>5. PICK old, quiet : old = Oldest(c).age /\ quiet = silence
          OBVIOUS
        <4>6. old \in Nat /\ quiet \in Nat /\ age \in Nat
          BY <1>1, <1>4, <4>3, <4>4, <4>5
        <4>7. WithinRetries(d, quiet, age)
          BY <1>1, <3>2, <4>1, <4>2, <4>4, <4>5, <4>6, RetriesStep
        <4>8. QED BY <4>5, <4>7
      <3>6. QED BY <3>1, <3>3, <3>4, <3>5
    <2>3. QED BY <2>1, <2>2
  <1>6. age = Oldest(d)'.age
    BY <1>3 DEF Oldest
  <1>7. /\ ZeroWindowWork(d) /\ Outstanding(d) => WithinProbes(d, silence, probeIn)'
        /\ ~ZeroWindowWork(d) /\ d.unacked # <<>> => WithinRetries(d, silence, Oldest(d).age)'
    BY <1>5, <1>6 DEF WithinProbes, WithinRetries
  <1>8. QED BY <1>7 DEF Bounded

\* The peer's segment starts no timer anew while the connection does not advance.
LEMMA InputBounded ==
  ASSUME BoundInv, Input, Alive'
  PROVE  Bounded(conn)'
  <1>1. PICK seg \in FromPeer(conn) : Advance(conn, OnSegment(conn, seg))
    BY DEF Input
  <1>2. PICK c, u : c = conn /\ u = OnSegment(conn, seg)
    OBVIOUS
  <1>3. /\ ClockInv /\ Alive /\ Bounded(conn) /\ Bounded(c)
        /\ c \in SoundConn /\ c \in Conn /\ Idle(c) /\ Steady(c)
        /\ (c.remote_window = 0 <=> probeIn # Never)
    BY <1>2, AliveConn DEF Input, Armed, BoundInv, Bounded
  <1>4. seg \in Segment
    BY <1>1, <1>2, <1>3, FromPeerType
  <1>5. Advance(c, u)
    BY <1>1, <1>2
  <1>6. ~u.closed
    BY <1>5 DEF Advance, Removed, Alive
  <1>7. u \in Settled
    BY <1>2, <1>3, <1>4, OnSegmentSettled
  <1>8. PICK d : d = u.conn
    OBVIOUS
  <1>9. d \in SoundConn /\ Steady(d) /\ Answered(c, d)
    BY <1>2, <1>3, <1>4, <1>6, <1>7, <1>8, SettledFields, OnSegmentSteady, OnSegmentAnswered
  <1>10. PICK rto : rto = IF c.state = "SynSent" THEN rtt.rto ELSE AfterAck(c, d).rto
    OBVIOUS
  <1>11. /\ conn' = d /\ NoteProgress(c, d) /\ Stamp(c, d, Resent(c, d) # {})
         /\ probeIn' = IF d.remote_window # 0 THEN Never ELSE IF probeIn = Never THEN rto ELSE probeIn
    BY <1>5, <1>6, <1>8, <1>10 DEF Advance, NoteShutWindow
  <1>12. rto \in Nat /\ rto <= MaxRto
    <2>1. AfterAck(c, d) \in Estimator /\ rtt \in Estimator
      <3>1. sends \in [EndsOf(c) -> Sent]
        BY <1>2, <1>3, AliveConn DEF Armed
      <3>2. QED BY <1>3, <3>1, AfterAckType DEF ClockInv
    <2>2. QED BY <1>10, <2>1, EstimatorFields
  <1>13. probeIn' \in Nat \cup {Never} /\ probeIn' <= MaxRto
    <2>1. probeIn \in Nat \cup {Never} /\ probeIn <= MaxRto /\ Never <= MaxRto
      BY <1>3, RtoAssumption DEF Bounded, ClockInv, Never
    <2>2. QED BY <1>11, <1>12, <2>1
  <1>14. ASSUME Outstanding(c), ~Advances(c, d)
         PROVE  /\ ZeroWindowWork(d) <=> ZeroWindowWork(c)
                /\ ZeroWindowWork(c) => WithinProbes(d, silence, probeIn')
    <2>1. d.send_una = c.send_una /\ (d.remote_window = 0 <=> c.remote_window = 0)
      BY <1>14 DEF Advances
    <2>2. d.acked = c.acked /\ d.accepted = c.accepted
      BY <1>9, <2>1 DEF Answered, Grows
    <2>3. HasProbePayload(d) <=> HasProbePayload(c)
      BY <1>3, <1>9, <2>2, ProbePayload
    <2>4. d.remote_window = 0 => /\ d.zero_window_probes = c.zero_window_probes
                                 /\ d.close_requested = c.close_requested
      BY <1>9 DEF Answered
    <2>5. ZeroWindowWork(d) <=> ZeroWindowWork(c)
      BY <2>1, <2>3, <2>4 DEF ZeroWindowWork
    <2>6. ASSUME ZeroWindowWork(c)
          PROVE  WithinProbes(d, silence, probeIn')
      <3>1. c.remote_window = 0 /\ d.remote_window = 0 /\ probeIn # Never
        BY <1>3, <2>1, <2>6 DEF ZeroWindowWork
      <3>2. probeIn' = probeIn /\ d.zero_window_probes = c.zero_window_probes
        BY <1>11, <2>4, <3>1
      <3>3. WithinProbes(c, silence, probeIn)
        BY <1>3, <1>14, <2>6 DEF Bounded
      <3>4. QED BY <3>2, <3>3 DEF WithinProbes
    <2>7. QED BY <2>5, <2>6
  <1>15. PICK again \in BOOLEAN : again = (Resent(c, d) # {})
    OBVIOUS
  <1>16. Stamp(c, d, again)
    BY <1>11, <1>15
  <1>17. Bounded(d)'
    BY <1>2, <1>3, <1>9, <1>11, <1>13, <1>14, <1>16, BoundsKept DEF Answered
  <1>18. QED BY <1>11, <1>17 DEF Bounded

\* Writing or closing with the window shut adds to what the probes already ask for.
LEMMA CallBounded ==
  ASSUME BoundInv, Alive, NEW c, c = conn, NEW u \in Settled, Call(c, u), Alive',
         Calm(c, u.conn), Steady(u.conn),
         \/ u.conn = c
         \/ /\ c.state \in Talking
            /\ HasProbePayload(c) => HasProbePayload(u.conn)
  PROVE  Bounded(conn)'
  <1>1. ClockInv /\ Bounded(conn) /\ Bounded(c) /\ c \in SoundConn /\ c \in Conn /\ Steady(c)
    BY AliveConn DEF BoundInv, Bounded
  <1>2. ~u.closed
    BY DEF Call, Removed, Alive
  <1>3. PICK d : d = u.conn
    OBVIOUS
  <1>4. d \in SoundConn /\ Calm(c, d) /\ Steady(d)
    BY <1>2, <1>3, SettledFields
  <1>5. PICK again \in BOOLEAN : again = FALSE
    OBVIOUS
  <1>6. conn' = d /\ NoteProgress(c, d) /\ Stamp(c, d, again) /\ probeIn' = probeIn
    BY <1>2, <1>3, <1>5 DEF Call
  <1>7. probeIn' \in Nat \cup {Never} /\ probeIn' <= MaxRto
    BY <1>1, <1>6 DEF ClockInv, Bounded
  <1>8. ASSUME Outstanding(c)
        PROVE  /\ ZeroWindowWork(d) <=> ZeroWindowWork(c)
               /\ ZeroWindowWork(c) => WithinProbes(d, silence, probeIn')
    <2>1. d.remote_window = c.remote_window /\ d.zero_window_probes = c.zero_window_probes
      BY <1>4 DEF Calm
    <2>2. ZeroWindowWork(d) <=> ZeroWindowWork(c)
      <3>1. CASE d = c
        BY <3>1
      <3>2. CASE d # c
        <4>1. c.state \in Talking /\ (HasProbePayload(c) => HasProbePayload(d))
          BY <1>3, <3>2
        <4>2. HasProbePayload(c)
          BY <1>1, <1>8, <4>1, TalkingCarries DEF Outstanding
        <4>3. QED BY <2>1, <4>1, <4>2 DEF ZeroWindowWork
      <3>3. QED BY <3>1, <3>2
    <2>3. ZeroWindowWork(c) => WithinProbes(c, silence, probeIn)
      BY <1>1, <1>8 DEF Bounded
    <2>4. QED BY <1>6, <2>1, <2>2, <2>3 DEF WithinProbes
  <1>9. d.send_una = c.send_una => Grows(c, d)
    BY <1>4 DEF Calm
  <1>10. Bounded(d)'
    BY <1>1, <1>4, <1>6, <1>7, <1>8, <1>9, BoundsKept
  <1>11. QED BY <1>6, <1>10 DEF Bounded

LEMMA AppWriteBounded ==
  ASSUME BoundInv, NEW n \in 1 .. MaxBytes, AppWrite(n), Alive'
  PROVE  Bounded(conn)'
  <1>1. /\ conn \in SoundConn /\ conn \in Conn /\ Alive /\ Writable(conn) /\ Steady(conn)
    BY AliveConn DEF AppWrite, BoundInv, Bounded
  <1>2. PICK data : data = [k \in 1 .. n |-> <<1, conn.accepted + k>>]
    OBVIOUS
  <1>3. data \in Seq(Byte)
    <2>1. PICK m : m = conn.accepted
      OBVIOUS
    <2>2. m \in Nat /\ n \in Nat
      BY <1>1, <2>1, TimersAssumption DEF Conn
    <2>3. \A k \in 1 .. n : <<1, m + k>> \in Byte
      BY <2>2 DEF Byte
    <2>4. data = [k \in 1 .. n |-> <<1, m + k>>]
      BY <1>2, <2>1
    <2>5. data \in [1 .. n -> Byte]
      BY <2>3, <2>4
    <2>6. QED BY <2>2, <2>5
  <1>4. PICK c, u, d : c = conn /\ u = Write(conn, data) /\ d = u.conn
    OBVIOUS
  <1>5. u \in Settled /\ Calm(c, d) /\ Steady(d)
    BY <1>1, <1>3, <1>4, WriteSettled, WriteCalm, WriteSteady
  <1>6. Call(c, u)
    BY <1>2, <1>4 DEF AppWrite
  <1>7. ~u.closed
    BY <1>6 DEF Call, Removed, Alive
  <1>8. d \in SoundConn
    BY <1>4, <1>5, <1>7, SettledFields
  <1>9. HasProbePayload(c) => HasProbePayload(d)
    <2>1. d.acked = c.acked /\ c.accepted <= d.accepted
      BY <1>5 DEF Calm, Grows
    <2>2. PICK a, m, n1 : a = c.acked /\ m = c.accepted /\ n1 = d.accepted
      OBVIOUS
    <2>3. a \in Nat /\ m \in Nat /\ n1 \in Nat /\ m <= n1
      BY <1>1, <1>4, <1>8, <2>1, <2>2, ProbePayload
    <2>4. a < m => a < n1
      BY <2>3
    <2>5. QED BY <1>1, <1>4, <1>8, <2>1, <2>2, <2>4, ProbePayload
  <1>10. c.state \in Talking
    BY <1>1, <1>4 DEF Writable, Talking
  <1>11. QED BY <1>1, <1>4, <1>5, <1>6, <1>9, <1>10, CallBounded

LEMMA AppCloseBounded ==
  ASSUME BoundInv, AppClose, Alive'
  PROVE  Bounded(conn)'
  <1>1. conn \in SoundConn /\ conn \in Conn /\ Alive /\ Idle(conn) /\ Steady(conn)
    BY AliveConn DEF AppClose, BoundInv, Bounded, Armed
  <1>2. PICK c, u, d : c = conn /\ u = Close(conn) /\ d = u.conn
    OBVIOUS
  <1>3. u \in Settled /\ Calm(c, d) /\ Steady(d)
    BY <1>1, <1>2, CloseSettled, CloseCalm, CloseSteady
  <1>4. Call(c, u)
    BY <1>2 DEF AppClose
  <1>5. ~u.closed
    BY <1>4 DEF Call, Removed, Alive
  <1>6. d \in SoundConn
    BY <1>2, <1>3, <1>5, SettledFields
  <1>7. CASE c.state \notin Talking
    <2>1. d = c
      BY <1>2, <1>7 DEF Close, Open, Closed, Talking
    <2>2. QED BY <1>1, <1>2, <1>3, <1>4, <2>1, CallBounded
  <1>8. CASE c.state \in Talking
    <2>1. HasProbePayload(c) => HasProbePayload(d)
      <3>1. d.acked = c.acked /\ c.accepted <= d.accepted
        BY <1>3 DEF Calm, Grows
      <3>2. PICK a, m, n : a = c.acked /\ m = c.accepted /\ n = d.accepted
        OBVIOUS
      <3>3. a \in Nat /\ m \in Nat /\ n \in Nat /\ m <= n
        BY <1>1, <1>2, <1>6, <3>1, <3>2, ProbePayload
      <3>4. a < m => a < n
        BY <3>3
      <3>5. QED BY <1>1, <1>2, <1>6, <3>1, <3>2, <3>4, ProbePayload
    <2>2. QED BY <1>1, <1>2, <1>3, <1>4, <1>8, <2>1, CallBounded
  <1>9. QED BY <1>7, <1>8

\* poll: a probe or a retransmission spends one attempt of the budget.
LEMMA PollBounded ==
  ASSUME BoundInv, PollNow, Alive'
  PROVE  Bounded(conn)'
  <1>1. PICK c, u, d : c = conn /\ u = PollResult(conn) /\ d = u.conn
    OBVIOUS
  <1>2. /\ ClockInv /\ Alive /\ Bounded(conn) /\ Bounded(c) /\ Steady(c)
        /\ c \in SoundConn /\ c \in Conn /\ Idle(c)
    BY <1>1, AliveConn DEF PollNow, Armed, BoundInv, Bounded
  <1>3. CASE ~Due(NextPollAt(conn))
    <2>1. UNCHANGED vars
      BY <1>2, <1>3, EarlyPoll
    <2>2. QED BY <1>2, <2>1 DEF vars, Bounded, WithinProbes, WithinRetries, Oldest
  <1>4. CASE Due(NextPollAt(conn))
    <2>1. Polled(c, u)
      BY <1>1 DEF PollNow
    <2>2. ~u.closed
      BY <2>1 DEF Polled, Removed, Alive
    <2>3. u \in Settled /\ d \in SoundConn /\ d \in Conn
      BY <1>1, <1>2, <2>2, PollCases, SettledFields
    <2>4. /\ conn' = d /\ NoteProgress(c, d)
          /\ PollProbes(c, d) \/ PollWaits(c) \/ PollRetransmits(c, d) \/ PollFlushes(c, d)
      BY <1>1, <2>1, <2>2 DEF Polled
    <2>5. Probes(c) \/ Retransmits(c)
      BY <1>1, <1>2, <1>4, <2>2, DueCases
    <2>6. CASE Probes(c)
      <3>1. c.remote_window = 0 /\ HasProbePayload(c) /\ probeIn = 0 /\ ZeroWindowWork(c)
        BY <2>6 DEF Probes, ZeroWindowWork, RetryDue, Due
      <3>2. ~(c.zero_window_probes >= MaxTransmissions) /\ u = PollProbe(c)
        BY <1>1, <1>2, <2>2, <2>6, PollCases
      <3>3. /\ Grows(c, d) /\ HasProbePayload(d) /\ d.remote_window = c.remote_window
            /\ d.zero_window_probes = CountUp(c.zero_window_probes)
        BY <1>1, <1>2, <3>1, <3>2, PollProbeGrows
      <3>4. Steady(d)
        BY <1>1, <1>2, <3>1, <3>2, PollProbeSteady
      <3>5. PollProbes(c, d)
        BY <2>4, <2>6, <3>1 DEF PollWaits, PollRetransmits, PollFlushes, Retransmits
      <3>6. PICK again \in BOOLEAN : again = (Carriers(c) # {})
        OBVIOUS
      <3>7. Stamp(c, d, again) /\ probeIn' = ProbeDelay(d.zero_window_probes)
        BY <3>5, <3>6 DEF PollProbes
      <3>8. probeIn' \in Nat /\ probeIn' <= MaxRto
        BY <2>3, <3>7, ProbeDelayType DEF Conn
      <3>9. ZeroWindowWork(d)
        BY <3>1, <3>3 DEF ZeroWindowWork
      <3>10. Outstanding(c) => WithinProbes(d, silence, probeIn')
        <4>1. HAVE Outstanding(c)
        <4>2. PICK k, j : k = c.zero_window_probes /\ j = d.zero_window_probes
          OBVIOUS
        <4>3. k \in Nat /\ k < MaxTransmissions /\ MaxTransmissions \in 0 .. 255
          BY <1>2, <3>2, <4>2, ConfigAssumption DEF Conn
        <4>4. j = k + 1
          BY <3>3, <4>2, <4>3 DEF CountUp, Smaller
        <4>5. Smaller(k, MaxTransmissions) = k /\ Smaller(j, MaxTransmissions) = k + 1
          BY <4>3, <4>4 DEF Smaller
        <4>6. silence + 0 <= (k + 1) * MaxRto
          BY <1>2, <3>1, <4>1, <4>2, <4>5 DEF Bounded, WithinProbes
        <4>7. MaxRto \in Nat /\ silence \in Nat
          BY <1>2, RtoAssumption DEF ClockInv
        <4>8. PICK i, x, y : i = k + 1 /\ x = i * MaxRto /\ y = (i + 1) * MaxRto
          OBVIOUS
        <4>9. i \in Nat /\ x \in Nat /\ y = x + MaxRto
          BY <4>3, <4>7, <4>8, Products
        <4>10. silence <= x
          BY <4>6, <4>7, <4>8, <4>9
        <4>11. PICK quiet, left : quiet = silence /\ left = probeIn'
          OBVIOUS
        <4>12. quiet \in Nat /\ left \in Nat /\ left <= MaxRto /\ quiet <= x
          BY <3>8, <4>7, <4>10, <4>11
        <4>13. quiet + left <= y
          BY <4>7, <4>9, <4>12
        <4>14. (Smaller(j, MaxTransmissions) + 1) * MaxRto = y
          BY <4>5, <4>8
        <4>15. QED BY <4>2, <4>11, <4>13, <4>14 DEF WithinProbes
      <3>11. Bounded(d)'
        BY <1>1, <1>2, <2>3, <2>4, <3>1, <3>3, <3>4, <3>7, <3>8, <3>9, <3>10, BoundsKept
      <3>12. QED BY <2>4, <3>11 DEF Bounded
    <2>7. CASE Retransmits(c)
      <3>1. ~ZeroWindowWork(c)
        BY <2>7 DEF Retransmits
      <3>2. /\ c.unacked # <<>> /\ Head(c.unacked).transmissions < MaxTransmissions
            /\ u = PollRetransmit(c)
        BY <1>1, <1>2, <2>2, <2>7, PollCases
      <3>3. /\ Calm(c, d)
            /\ c.remote_window = 0 => /\ d.close_requested = c.close_requested
                                      /\ HasProbePayload(d) => HasProbePayload(c)
        BY <1>1, <1>2, <3>2, PollRetransmitCalm
      <3>4. Steady(d)
        BY <1>1, <1>2, <3>2, PollRetransmitSteady
      <3>5. PollRetransmits(c, d)
        BY <2>4, <2>7, <3>1 DEF PollProbes, Probes, PollWaits, PollFlushes, Retransmits
      <3>6. PICK again \in BOOLEAN : again = TRUE
        OBVIOUS
      <3>7. Stamp(c, d, again) /\ probeIn' = probeIn
        BY <3>5, <3>6 DEF PollRetransmits
      <3>8. ~ZeroWindowWork(d)
        BY <3>1, <3>3 DEF ZeroWindowWork, Calm
      <3>9. probeIn' \in Nat \cup {Never} /\ probeIn' <= MaxRto
        BY <1>2, <3>7 DEF ClockInv, Bounded
      <3>10. Bounded(d)'
        BY <1>1, <1>2, <2>3, <2>4, <3>1, <3>3, <3>4, <3>7, <3>8, <3>9, BoundsKept DEF Calm
      <3>11. QED BY <2>4, <3>10 DEF Bounded
    <2>8. QED BY <2>5, <2>6, <2>7
  <1>5. QED BY <1>3, <1>4

\* Time passes no deadline, so each tick is one the bound has room for.
LEMMA TickBounded ==
  ASSUME BoundInv, Tick
  PROVE  Bounded(conn)'
  <1>1. PICK c : c = conn
    OBVIOUS
  <1>2. /\ ClockInv /\ Alive /\ Bounded(c) /\ Steady(c)
        /\ c \in SoundConn /\ c \in Conn /\ sends \in [EndsOf(c) -> Sent]
        /\ (c.remote_window = 0 <=> probeIn # Never)
    BY <1>1, AliveConn DEF Tick, Armed, BoundInv, Bounded
  <1>3. /\ conn' = c /\ probeIn' = Sooner(probeIn)
        /\ silence' = IF Outstanding(c) THEN silence + 1 ELSE 0
        /\ sends' = [e \in DOMAIN sends |-> [sends[e] EXCEPT !.age = @ + 1]]
    BY <1>1 DEF Tick
  <1>4. PICK quiet, left : quiet = silence /\ left = probeIn
    OBVIOUS
  <1>5. /\ MaxRto \in Nat /\ quiet \in Nat /\ left \in Nat \cup {Never} /\ left <= MaxRto
    BY <1>2, <1>4, RtoAssumption DEF ClockInv, Bounded
  <1>6. probeIn' <= MaxRto
    BY <1>3, <1>4, <1>5 DEF Sooner, Never, SaturatingSub
  <1>7. ~Due(TransportDeadline(c))
    BY <1>1, <1>2, DueCases DEF Tick
  <1>8. ASSUME ZeroWindowWork(c), Outstanding(c)
        PROVE  WithinProbes(c, silence', probeIn')
    <2>1. HasProbePayload(c)
      <3>1. CASE HasProbePayload(c)
        BY <3>1
      <3>2. CASE ~HasProbePayload(c)
        <4>1. c.close_requested /\ c.unacked # <<>>
          BY <1>8, <3>2 DEF ZeroWindowWork, Outstanding
        <4>2. c.state \in Talking
          BY <1>2, <4>1 DEF Steady
        <4>3. QED BY <1>2, <4>1, <4>2, TalkingCarries
      <3>3. QED BY <3>1, <3>2
    <2>2. c.remote_window = 0
      BY <1>8 DEF ZeroWindowWork
    <2>3. left # Never /\ left # 0
      <3>1. left # Never
        BY <1>2, <1>4, <2>2
      <3>2. TransportDeadline(c) = left
        BY <1>4, <1>8, <2>1, <3>1 DEF TransportDeadline, ProbeDeadline
      <3>3. QED BY <1>7, <3>1, <3>2 DEF Due
    <2>4. silence' = quiet + 1 /\ probeIn' = left - 1
      <3>1. probeIn' = SaturatingSub(left, 1)
        BY <1>3, <1>4, <2>3 DEF Sooner
      <3>2. SaturatingSub(left, 1) = left - 1
        BY <1>5, <2>3 DEF SaturatingSub, Never
      <3>3. QED BY <1>3, <1>4, <1>8, <3>1, <3>2
    <2>5. (quiet + 1) + (left - 1) = quiet + left
      BY <1>5, <2>3
    <2>6. WithinProbes(c, quiet, left)
      BY <1>2, <1>4, <1>8 DEF Bounded
    <2>7. QED BY <2>4, <2>5, <2>6 DEF WithinProbes
  <1>9. ASSUME ~ZeroWindowWork(c), c.unacked # <<>>
        PROVE  WithinRetries(c, silence', sends'[TrackedEnd(Head(c.unacked))].age)
    <2>1. PICK e : e = TrackedEnd(Head(c.unacked))
      OBVIOUS
    <2>2. e \in EndsOf(c) /\ Oldest(c).age \in Nat /\ Oldest(c) = sends[e]
      BY <1>2, <1>9, <2>1, OldestType DEF Oldest
    <2>3. PICK age, rto : age = Oldest(c).age /\ rto = rtt.rto
      OBVIOUS
    <2>4. rto \in Nat /\ rto <= MaxRto /\ age \in Nat
      BY <1>2, <2>2, <2>3, EstimatorFields DEF ClockInv
    <2>5. ~Due(SaturatingSub(rto, age))
      BY <1>7, <1>9, <2>3 DEF TransportDeadline, RetryDeadline
    <2>6. age + 1 <= MaxRto
      BY <1>5, <2>4, <2>5 DEF Due, SaturatingSub
    <2>7. sends'[e].age = age + 1
      <3>1. PICK s : s = sends[e]
        OBVIOUS
      <3>2. s \in Sent
        BY <1>2, <2>2, <3>1
      <3>3. [s EXCEPT !.age = @ + 1].age = s.age + 1
        BY <3>2 DEF Sent
      <3>4. sends'[e] = [s EXCEPT !.age = @ + 1]
        BY <1>2, <1>3, <2>2, <3>1
      <3>5. QED BY <2>2, <2>3, <3>1, <3>3, <3>4
    <2>8. silence' = quiet + 1
      BY <1>3, <1>4, <1>9 DEF Outstanding
    <2>9. Smaller(age, MaxRto) = age /\ Smaller(age + 1, MaxRto) = age + 1
      BY <1>5, <2>4, <2>6 DEF Smaller
    <2>10. PICK x : x = Head(c.unacked).transmissions * MaxRto
      OBVIOUS
    <2>11. x \in Nat
      BY <1>2, <1>5, <1>9, <2>10, HeadSends, Products
    <2>12. quiet + MaxRto <= x + age
      BY <1>2, <1>4, <1>9, <2>3, <2>9, <2>10 DEF Bounded, WithinRetries
    <2>13. (quiet + 1) + MaxRto <= x + (age + 1)
      BY <1>5, <2>4, <2>11, <2>12
    <2>14. QED BY <2>1, <2>7, <2>8, <2>9, <2>10, <2>13 DEF WithinRetries
  <1>10. /\ ZeroWindowWork(c) /\ Outstanding(c) => WithinProbes(c, silence, probeIn)'
         /\ ~ZeroWindowWork(c) /\ c.unacked # <<>> => WithinRetries(c, silence, Oldest(c).age)'
    BY <1>8, <1>9 DEF WithinProbes, WithinRetries, Oldest
  <1>11. Bounded(c)'
    BY <1>2, <1>6, <1>10 DEF Bounded
  <1>12. QED BY <1>3, <1>11 DEF Bounded

LEMMA InitBounded ==
  ASSUME Init
  PROVE  BoundInv
  <1>1. PICK c : c = conn
    OBVIOUS
  <1>2. c \in SoundConn /\ Steady(c) /\ ClockInv
    BY <1>1, StartsAreSound, StartsSteady, InitClock DEF Init
  <1>3. probeIn \in Nat \cup {Never} /\ probeIn <= MaxRto
    <2>1. NewRtt.rto <= MaxRto /\ Never <= MaxRto
      BY NewRttType, EstimatorFields, RtoAssumption DEF Never
    <2>2. QED BY <1>2, <2>1 DEF Init, ClockInv
  <1>4. PICK zero, left : zero = silence /\ left = probeIn
    OBVIOUS
  <1>5. zero = 0
    BY <1>4 DEF Init
  <1>6. WithinProbes(c, zero, left)
    BY <1>2, <1>3, <1>4, <1>5, QuietFresh, RtoAssumption DEF WithinProbes
  <1>7. c.unacked # <<>> => WithinRetries(c, zero, Oldest(c).age)
    <2>1. HAVE c.unacked # <<>>
    <2>2. c \in Conn
      BY <1>2, SoundFields
    <2>3. sends \in [EndsOf(c) -> Sent]
      <3>1. Alive
        BY <1>1, <2>2, ConnIsAlive DEF Alive
      <3>2. QED BY <1>1, <1>2, <3>1, AliveConn DEF Armed
    <2>4. PICK age : age = Oldest(c).age
      OBVIOUS
    <2>5. age \in Nat
      BY <2>1, <2>2, <2>3, <2>4, OldestType
    <2>6. WithinRetries(c, zero, age)
      BY <1>2, <1>3, <1>5, <2>1, <2>5, QuietFresh
    <2>7. QED BY <2>4, <2>6
  <1>8. Bounded(conn)
    BY <1>1, <1>2, <1>3, <1>4, <1>6, <1>7 DEF Bounded
  <1>9. QED BY <1>2, <1>8 DEF BoundInv

LEMMA NextBounded ==
  ASSUME BoundInv, [Next]_vars
  PROVE  BoundInv'
  <1>1. ClockInv'
    BY NextClock DEF BoundInv
  <1>2. ASSUME Alive'
        PROVE  Bounded(conn)'
    <2>1. CASE Input
      BY <1>2, <2>1, InputBounded
    <2>2. CASE \E n \in 1 .. MaxBytes : AppWrite(n)
      BY <1>2, <2>2, AppWriteBounded
    <2>3. CASE AppClose
      BY <1>2, <2>3, AppCloseBounded
    <2>4. CASE PollNow
      BY <1>2, <2>4, PollBounded
    <2>5. CASE Tick
      BY <2>5, TickBounded
    <2>6. CASE UNCHANGED vars
      <3>1. Bounded(conn)
        BY <1>2, <2>6 DEF BoundInv, Alive, vars
      <3>2. QED BY <2>6, <3>1 DEF vars, Bounded, WithinProbes, WithinRetries, Oldest
    <2>7. QED BY <2>1, <2>2, <2>3, <2>4, <2>5, <2>6 DEF Next
  <1>3. QED BY <1>1, <1>2 DEF BoundInv

LEMMA BoundAlways == Spec => []BoundInv
  <1>1. Init => BoundInv
    BY InitBounded
  <1>2. BoundInv /\ [Next]_vars => BoundInv'
    BY NextBounded
  <1>3. QED BY <1>1, <1>2, PTL DEF Spec

\* What remains of the budget bounds the silence.
LEMMA BoundedSilence ==
  ASSUME BoundInv, Alive, Outstanding(conn)
  PROVE  silence <= (MaxTransmissions + 1) * MaxRto
  <1>1. PICK c : c = conn
    OBVIOUS
  <1>2. /\ c \in SoundConn /\ c \in Conn /\ Bounded(c) /\ ClockInv /\ silence \in Nat
        /\ MaxRto \in Nat /\ MaxTransmissions \in Nat
        /\ (c.remote_window = 0 <=> probeIn # Never)
    BY <1>1, AliveConn, RtoAssumption, ConfigAssumption DEF BoundInv, ClockInv, Armed
  <1>3. PICK quiet, left, most : /\ quiet = silence /\ left = probeIn
                                 /\ most = (MaxTransmissions + 1) * MaxRto
    OBVIOUS
  <1>4. quiet \in Nat /\ most \in Nat
    BY <1>2, <1>3, Products
  <1>5. CASE ZeroWindowWork(c)
    <2>1. WithinProbes(c, quiet, left)
      BY <1>1, <1>2, <1>3, <1>5 DEF Bounded
    <2>2. left \in Nat
      BY <1>2, <1>3, <1>5 DEF ZeroWindowWork, ClockInv
    <2>3. PICK k, x : k = Smaller(c.zero_window_probes, MaxTransmissions) /\ x = (k + 1) * MaxRto
      OBVIOUS
    <2>4. k \in Nat /\ k <= MaxTransmissions
      BY <1>2, <2>3 DEF Conn, Smaller
    <2>5. k + 1 \in Nat /\ MaxTransmissions + 1 \in Nat /\ k + 1 <= MaxTransmissions + 1
      BY <1>2, <2>4
    <2>6. x \in Nat /\ x <= most
      BY <1>2, <1>3, <2>3, <2>5, Products
    <2>7. quiet + left <= x
      BY <2>1, <2>3 DEF WithinProbes
    <2>8. quiet <= most
      BY <1>4, <2>2, <2>6, <2>7
    <2>9. QED BY <1>3, <2>8
  <1>6. CASE ~ZeroWindowWork(c)
    <2>1. c.unacked # <<>>
      BY <1>1, <1>6 DEF Outstanding
    <2>2. PICK age : age = Oldest(c).age
      OBVIOUS
    <2>3. age \in Nat
      BY <1>1, <1>2, <2>1, <2>2, OldestType, AliveConn DEF Armed
    <2>4. WithinRetries(c, quiet, age)
      BY <1>2, <1>3, <1>6, <2>1, <2>2 DEF Bounded
    <2>5. PICK n, x, y : /\ n = Head(c.unacked).transmissions /\ x = n * MaxRto
                         /\ y = Smaller(age, MaxRto)
      OBVIOUS
    <2>6. n \in Nat /\ n <= MaxTransmissions + 1
      BY <1>2, <2>1, <2>5, HeadSends
    <2>7. x \in Nat /\ x <= most
      <3>1. MaxTransmissions + 1 \in Nat
        BY <1>2
      <3>2. QED BY <1>2, <1>3, <2>5, <2>6, <3>1, Products
    <2>8. y \in Nat /\ y <= MaxRto
      BY <1>2, <2>3, <2>5 DEF Smaller
    <2>9. quiet + MaxRto <= x + y
      BY <2>4, <2>5 DEF WithinRetries
    <2>10. quiet <= most
      BY <1>2, <1>4, <2>7, <2>8, <2>9
    <2>11. QED BY <1>3, <2>10
  <1>7. QED BY <1>5, <1>6

-----------------------------------------------------------------------------
(* Karn's rule                                                             *)

\* A segment that ends at e may not be sampled: it ends no later than
\* sample_after, which lies in the flight.
Excluded(after, c, e) ==
  /\ after # NoEnd
  /\ Distance(c.send_una, e) <= Distance(c.send_una, after)
  /\ Distance(c.send_una, after) <= InFlight(c)

\* Whatever a retransmission made ambiguous is excluded.
KarnKept ==
  Alive => \A e \in EndsOf(conn) : sends[e].clean \/ Excluded(rtt.sample_after, conn, e)

KarnInv == ClockInv /\ KarnKept

\* Where segments in flight end.
LEMMA EndPlaces ==
  ASSUME NEW c \in SoundConn
  PROVE  /\ c.send_una \in SeqNumber /\ c.send_nxt \in SeqNumber
         /\ InFlight(c) \in Nat /\ InFlight(c) <= MaxWindow + 1
         /\ \A e \in EndsOf(c) : /\ e \in SeqNumber /\ Distance(c.send_una, e) \in Nat
                                 /\ 1 <= Distance(c.send_una, e)
                                 /\ Distance(c.send_una, e) <= InFlight(c)
  <1>1. PICK q, first, last : q = c.unacked /\ first = c.send_una /\ last = c.send_nxt
    OBVIOUS
  <1>2. /\ q \in Seq(TrackedSegment) /\ first \in SeqNumber /\ last \in SeqNumber
        /\ Straight(q, first, last) /\ Distance(first, last) <= MaxWindow + 1
    BY <1>1, SoundFields DEF Sender, FlightBounded, Conn
  <1>3. ASSUME NEW e \in EndsOf(c)
        PROVE  /\ e \in SeqNumber /\ Distance(first, e) \in Nat /\ 1 <= Distance(first, e)
               /\ Distance(first, e) <= Distance(first, last)
    <2>1. PICK i \in 1 .. Len(q) : e = TrackedEnd(q[i])
      BY <1>1, <1>2, <1>3 DEF EndsOf
    <2>2. e \in SeqNumber
      BY <1>2, <2>1, PlacesAreWords
    <2>3. PICK f, b : f = Fronts(q, first) /\ b = Backs(q, first)
      OBVIOUS
    <2>4. f \in [1 .. Len(q) -> Nat] /\ b \in [1 .. Len(q) -> Nat]
      BY <1>2, <2>3, PlacesType
    <2>5. f[i] < b[i] /\ b[i] <= Distance(first, last)
      BY <1>2, <2>3 DEF Straight
    <2>6. b[i] = Distance(first, e) /\ b[i] \in Nat /\ f[i] \in Nat
      BY <2>1, <2>3, <2>4 DEF Backs
    <2>7. 1 <= b[i]
      BY <2>5, <2>6
    <2>8. QED BY <2>2, <2>5, <2>6, <2>7
  <1>4. Distance(first, last) \in Nat
    BY <1>2, DistanceType
  <1>5. InFlight(c) = Distance(first, last)
    BY <1>1 DEF InFlight
  <1>6. QED BY <1>1, <1>2, <1>3, <1>4, <1>5

LEMMA ExcludedUnsampled ==
  ASSUME NEW c \in SoundConn, NEW e \in EndsOf(c), NEW r \in Estimator,
         Excluded(r.sample_after, c, e)
  PROVE  ~CanSample(r, e)
  <1>1. PICK una, after, x, y : /\ una = c.send_una /\ after = r.sample_after
                                /\ x = Distance(una, e) /\ y = Distance(una, after)
    OBVIOUS
  <1>2. /\ una \in SeqNumber /\ e \in SeqNumber /\ x \in Nat
        /\ InFlight(c) \in Nat /\ InFlight(c) <= MaxWindow + 1
    BY <1>1, EndPlaces
  <1>3. after # NoEnd /\ after \in SeqNumber
    BY <1>1, EstimatorFields DEF Excluded
  <1>4. y \in Nat /\ x <= y /\ y <= InFlight(c)
    BY <1>1, <1>2, <1>3, DistanceType DEF Excluded
  <1>5. Distance(e, after) = y - x
    BY <1>1, <1>2, <1>3, <1>4, OffsetSub
  <1>6. ~(2 * Distance(e, after) >= Modulus)
    BY <1>2, <1>4, <1>5, ConfigAssumption, ModulusAssumption
  <1>7. QED BY <1>1, <1>3, <1>6 DEF CanSample, After, Before

\* What still is in flight ends behind the ACK.
LEMMA LeftBehind ==
  ASSUME NEW c \in SoundConn, NEW d \in SoundConn, Slides(c, d),
         NEW e \in EndsOf(c), e \in EndsOf(d)
  PROVE  Distance(c.send_una, d.send_una) <= Distance(c.send_una, e)
  <1>1. PICK una, ack, x, gone : /\ una = c.send_una /\ ack = d.send_una
                                 /\ x = Distance(una, e) /\ gone = Distance(una, ack)
    OBVIOUS
  <1>2. /\ una \in SeqNumber /\ ack \in SeqNumber /\ e \in SeqNumber /\ x \in Nat
        /\ InFlight(c) \in Nat /\ InFlight(c) <= MaxWindow + 1
        /\ InFlight(d) \in Nat /\ InFlight(d) <= MaxWindow + 1
        /\ Distance(ack, e) <= InFlight(d)
    BY <1>1, EndPlaces
  <1>3. gone \in Nat /\ gone <= InFlight(c)
    BY <1>1, <1>2, DistanceType DEF Slides
  <1>4. Distance(ack, e) \in Nat
    BY <1>2, DistanceType
  <1>5. ASSUME ~(gone <= x)
        PROVE  FALSE
    <2>1. Distance(ack, e) = (x - gone) + Modulus
      BY <1>1, <1>2, <1>5, ModulusAssumption DEF Distance, SeqNumber
    <2>2. QED BY <1>2, <1>3, <1>4, <2>1, ConfigAssumption, ModulusAssumption
  <1>6. QED BY <1>1, <1>2, <1>3, <1>5

\* What is excluded stays so when an ACK advances or the flight grows.
LEMMA ExcludedStays ==
  ASSUME NEW c \in SoundConn, NEW d \in SoundConn, Slides(c, d),
         NEW e \in EndsOf(c), e \in EndsOf(d),
         NEW after \in SeqNumber \cup {NoEnd}, Excluded(after, c, e)
  PROVE  Excluded(after, d, e)
  <1>1. PICK una, ack, x, y, gone : /\ una = c.send_una /\ ack = d.send_una
                                    /\ x = Distance(una, e) /\ y = Distance(una, after)
                                    /\ gone = Distance(una, ack)
    OBVIOUS
  <1>2. PICK m, n : m = InFlight(c) /\ n = InFlight(d)
    OBVIOUS
  <1>3. /\ una \in SeqNumber /\ ack \in SeqNumber /\ e \in SeqNumber /\ x \in Nat
        /\ m \in Nat /\ n \in Nat
    BY <1>1, <1>2, EndPlaces
  <1>4. after # NoEnd /\ after \in SeqNumber /\ x <= y /\ y <= m
    BY <1>1, <1>2 DEF Excluded
  <1>5. y \in Nat /\ gone \in Nat /\ gone <= m /\ m <= gone + n
    BY <1>1, <1>2, <1>3, <1>4, DistanceType DEF Slides
  <1>6. gone <= x
    BY <1>1, LeftBehind
  <1>7. gone <= y
    BY <1>3, <1>4, <1>5, <1>6
  <1>8. Distance(ack, e) = x - gone /\ Distance(ack, after) = y - gone
    BY <1>1, <1>3, <1>4, <1>6, <1>7, OffsetSub
  <1>9. x - gone <= y - gone /\ y - gone <= n
    BY <1>3, <1>4, <1>5
  <1>10. QED BY <1>1, <1>2, <1>4, <1>8, <1>9 DEF Excluded

\* retransmit_oldest and zero_window_probe exclude the whole flight.
LEMMA FlightExcluded ==
  ASSUME NEW c \in SoundConn, NEW e \in EndsOf(c)
  PROVE  Excluded(c.send_nxt, c, e)
  <1>1. c.send_nxt # NoEnd
    BY EndPlaces, SeqNumberIsNat DEF NoEnd
  <1>2. PICK m : m = InFlight(c)
    OBVIOUS
  <1>3. m \in Nat /\ Distance(c.send_una, e) <= m /\ Distance(c.send_una, c.send_nxt) = m
    BY <1>2, EndPlaces DEF InFlight
  <1>4. m <= m
    BY <1>3
  <1>5. QED BY <1>1, <1>2, <1>3, <1>4 DEF Excluded

\* apply_ack takes no sample while something ambiguous stays in flight: what it
\* acknowledges was sent before that.
LEMMA NoSampleBefore ==
  ASSUME NEW c \in SoundConn, NEW d \in SoundConn, Slides(c, d), rtt \in Estimator,
         NEW e \in EndsOf(c), e \in EndsOf(d), Excluded(rtt.sample_after, c, e)
  PROVE  AfterAck(c, d) = rtt
  <1>1. ASSUME NEW p \in Popped(c, d)
        PROVE  FALSE
    <2>1. p \in EndsOf(c) /\ p \notin EndsOf(d) /\ CanSample(rtt, p)
      BY <1>1 DEF Popped
    <2>2. PICK una, after : una = c.send_una /\ after = rtt.sample_after
      OBVIOUS
    <2>3. PICK x, y, z, gone, m : /\ x = Distance(una, e) /\ y = Distance(una, after)
                                  /\ z = Distance(una, p)
                                  /\ gone = Distance(una, d.send_una) /\ m = InFlight(c)
      OBVIOUS
    <2>4. /\ una \in SeqNumber /\ d.send_una \in SeqNumber
          /\ x \in Nat /\ z \in Nat /\ m \in Nat
      BY <2>1, <2>2, <2>3, EndPlaces
    <2>5. after # NoEnd /\ after \in SeqNumber /\ x <= y /\ y <= m
      BY <2>2, <2>3, EstimatorFields DEF Excluded
    <2>6. gone \in Nat /\ y \in Nat
      BY <2>3, <2>4, <2>5, DistanceType
    <2>7. z <= gone
      BY <2>1, <2>2, <2>3 DEF Slides
    <2>8. gone <= x
      BY <2>2, <2>3, LeftBehind
    <2>9. z <= y
      BY <2>4, <2>5, <2>6, <2>7, <2>8
    <2>10. Excluded(rtt.sample_after, c, p)
      BY <2>2, <2>3, <2>5, <2>9 DEF Excluded
    <2>11. QED BY <2>1, <2>10, ExcludedUnsampled
  <1>2. Popped(c, d) = {}
    BY <1>1
  <1>3. QED BY <1>2 DEF AfterAck

\* A step keeps ambiguous segments excluded, whether it excludes what is in
\* flight, samples, or does neither.
LEMMA StampKeepsKarn ==
  ASSUME ClockInv, KarnKept, Alive, NEW c, c = conn, NEW d \in SoundConn, conn' = d,
         Slides(c, d), NEW again \in BOOLEAN, Stamp(c, d, again),
         \/ rtt'.sample_after = c.send_nxt
         \/ ~again /\ rtt'.sample_after \in {rtt.sample_after, AfterAck(c, d).sample_after}
  PROVE  KarnKept'
  <1>1. c \in SoundConn /\ rtt \in Estimator
    BY AliveConn DEF ClockInv
  <1>2. ASSUME NEW e \in EndsOf(d)
        PROVE  sends'[e].clean \/ Excluded(rtt'.sample_after, d, e)
    <2>1. CASE e \notin EndsOf(c)
      <3>1. sends'[e] = [age |-> 0, clean |-> TRUE]
        BY <1>2, <2>1 DEF Stamp
      <3>2. QED BY <3>1
    <2>2. CASE e \in EndsOf(c) /\ rtt'.sample_after = c.send_nxt
      <3>1. Excluded(c.send_nxt, c, e)
        BY <1>1, <2>2, FlightExcluded
      <3>2. c.send_nxt \in SeqNumber
        BY <1>1, EndPlaces
      <3>3. Excluded(c.send_nxt, d, e)
        BY <1>1, <1>2, <2>2, <3>1, <3>2, ExcludedStays
      <3>4. QED BY <2>2, <3>3
    <2>3. CASE /\ e \in EndsOf(c) /\ ~again
               /\ rtt'.sample_after \in {rtt.sample_after, AfterAck(c, d).sample_after}
      <3>1. CASE sends[e].clean
        <4>1. sends'[e].clean = (sends[e].clean /\ ~again)
          BY <1>2, <2>3 DEF Stamp
        <4>2. QED BY <2>3, <3>1, <4>1
      <3>2. CASE ~sends[e].clean
        <4>1. Excluded(rtt.sample_after, c, e)
          BY <2>3, <3>2 DEF KarnKept
        <4>2. AfterAck(c, d) = rtt
          BY <1>1, <1>2, <2>3, <4>1, NoSampleBefore
        <4>3. Excluded(rtt.sample_after, d, e)
          BY <1>1, <1>2, <2>3, <4>1, EstimatorFields, ExcludedStays
        <4>4. QED BY <2>3, <4>2, <4>3
      <3>3. QED BY <3>1, <3>2
    <2>4. QED BY <2>1, <2>2, <2>3
  <1>3. \A e \in EndsOf(conn') : sends'[e].clean \/ Excluded(rtt'.sample_after, conn', e)
    BY <1>2
  <1>4. QED BY <1>3 DEF KarnKept, EndsOf, Excluded, InFlight

\* A segment that is sampled was sent once.
LEMMA SampledIsClean ==
  ASSUME ClockInv, KarnKept, Alive, NEW c, c = conn, NEW d, AfterAck(c, d) # rtt
  PROVE  \E e \in EndsOf(c) \ EndsOf(d) : sends[e].clean
  <1>1. c \in SoundConn /\ rtt \in Estimator
    BY AliveConn DEF ClockInv
  <1>2. PICK e \in Popped(c, d) : TRUE
    BY DEF AfterAck
  <1>3. e \in EndsOf(c) /\ e \notin EndsOf(d) /\ CanSample(rtt, e)
    BY <1>2 DEF Popped
  <1>4. ~Excluded(rtt.sample_after, c, e)
    BY <1>1, <1>3, ExcludedUnsampled
  <1>5. QED BY <1>3, <1>4 DEF KarnKept

\* What a step does about Karn's rule.
Karns ==
  rtt'.rto < rtt.rto \/ rtt'.srtt # rtt.srtt =>
    \E e \in DOMAIN sends \ DOMAIN sends' : sends[e].clean

\* Neither excluding the flight nor backing off lowers the timeout.
LEMMA NoLowerRto ==
  ASSUME NEW r \in Estimator
  PROVE  /\ ~(r.rto < r.rto)
         /\ \A end : /\ RttOnRetransmit(r, end).rto = r.rto
                     /\ RttOnRetransmit(r, end).srtt = r.srtt
                     /\ RttOnRetransmit(r, end).sample_after = end
         /\ ~(BackOff(r).rto < r.rto) /\ BackOff(r).srtt = r.srtt
         /\ BackOff(r).sample_after = r.sample_after
  <1>1. PICK rto : rto = r.rto
    OBVIOUS
  <1>2. rto \in Nat /\ rto <= MaxRto /\ MaxRto \in Nat
    BY <1>1, EstimatorFields, RtoAssumption
  <1>3. ~(rto < rto) /\ ~(Smaller(rto * 2, MaxRto) < rto)
    BY <1>2 DEF Smaller
  <1>4. /\ BackOff(r).rto = Smaller(rto * 2, MaxRto) /\ BackOff(r).srtt = r.srtt
        /\ BackOff(r).sample_after = r.sample_after
    BY <1>1 DEF BackOff, Estimator
  <1>5. \A end : /\ RttOnRetransmit(r, end).rto = r.rto
                 /\ RttOnRetransmit(r, end).srtt = r.srtt
                 /\ RttOnRetransmit(r, end).sample_after = end
    BY DEF RttOnRetransmit, Estimator
  <1>6. QED BY <1>1, <1>3, <1>4, <1>5

\* A step that leaves the timeout and the measurement alone.
LEMMA QuietStep ==
  ASSUME ClockInv, rtt'.rto = rtt.rto, rtt'.srtt = rtt.srtt
  PROVE  Karns
  <1>1. ~(rtt.rto < rtt.rto)
    BY NoLowerRto DEF ClockInv
  <1>2. QED BY <1>1 DEF Karns

LEMMA RemovedKarn ==
  ASSUME ClockInv, Removed
  PROVE  Karns /\ KarnKept'
  <1>1. Karns
    BY QuietStep DEF Removed
  <1>2. ~Alive'
    BY DEF Removed, Alive
  <1>3. QED BY <1>1, <1>2 DEF KarnKept

\* An input samples what its ACK acknowledged, and excludes the flight if it
\* resends a part of it.
LEMMA InputKarn ==
  ASSUME KarnInv, Input
  PROVE  Karns /\ KarnKept'
  <1>1. PICK seg \in FromPeer(conn) : Advance(conn, OnSegment(conn, seg))
    BY DEF Input
  <1>2. PICK c, u : c = conn /\ u = OnSegment(conn, seg)
    OBVIOUS
  <1>3. ClockInv /\ KarnKept /\ Alive
    BY DEF KarnInv, Input
  <1>4. c \in SoundConn /\ c \in Conn /\ Idle(c) /\ sends \in [EndsOf(c) -> Sent]
    BY <1>2, <1>3, AliveConn DEF Armed
  <1>5. seg \in Segment
    BY <1>1, <1>2, <1>4, FromPeerType
  <1>6. u \in Settled /\ Advance(c, u)
    BY <1>1, <1>2, <1>4, <1>5, OnSegmentSettled
  <1>7. CASE u.closed
    BY <1>3, <1>6, <1>7, RemovedKarn DEF Advance
  <1>8. CASE ~u.closed
    <2>1. PICK d : d = u.conn
      OBVIOUS
    <2>2. d \in SoundConn
      BY <1>6, <2>1, SettledFields
    <2>3. Slides(c, d)
      BY <1>2, <1>4, <1>5, <1>8, <2>1, OnSegmentAnswered DEF Answered
    <2>4. PICK r : r = AfterAck(c, d)
      OBVIOUS
    <2>5. /\ conn' = d /\ rtt' = ExcludeFlight(c, d, r)
          /\ Stamp(c, d, Resent(c, d) # {})
      BY <1>6, <1>8, <2>1, <2>4 DEF Advance
    <2>6. r \in Estimator /\ rtt \in Estimator
      BY <1>3, <1>4, <2>4, AfterAckType DEF ClockInv
    <2>7. PICK again \in BOOLEAN : again = (Resent(c, d) # {})
      OBVIOUS
    <2>8. /\ rtt'.rto = r.rto /\ rtt'.srtt = r.srtt
          /\ rtt'.sample_after = IF again THEN c.send_nxt ELSE r.sample_after
      BY <2>5, <2>6, <2>7, NoLowerRto DEF ExcludeFlight
    <2>9. KarnKept'
      BY <1>2, <1>3, <2>2, <2>3, <2>4, <2>5, <2>7, <2>8, StampKeepsKarn
    <2>10. DOMAIN sends = EndsOf(c) /\ DOMAIN sends' = EndsOf(d)
      BY <1>4, <2>5 DEF Stamp
    <2>11. Karns
      <3>1. CASE r = rtt
        BY <1>3, <2>8, <3>1, QuietStep
      <3>2. CASE r # rtt
        BY <1>2, <1>3, <2>4, <2>10, <3>2, SampledIsClean DEF Karns
      <3>3. QED BY <3>1, <3>2
    <2>12. QED BY <2>9, <2>11
  <1>9. QED BY <1>7, <1>8

LEMMA CallKarn ==
  ASSUME KarnInv, Alive, NEW c, c = conn, NEW u \in Settled, Call(c, u),
         ~u.closed => Calm(c, u.conn)
  PROVE  Karns /\ KarnKept'
  <1>1. ClockInv /\ KarnKept /\ c \in SoundConn /\ c \in Conn
    BY AliveConn DEF KarnInv
  <1>2. CASE u.closed
    BY <1>1, <1>2, RemovedKarn DEF Call
  <1>3. CASE ~u.closed
    <2>1. PICK d : d = u.conn
      OBVIOUS
    <2>2. d \in SoundConn /\ d \in Conn /\ Calm(c, d)
      BY <1>3, <2>1, SettledFields
    <2>3. PICK again \in BOOLEAN : again = FALSE
      OBVIOUS
    <2>4. conn' = d /\ rtt' = rtt /\ Stamp(c, d, again)
      BY <1>3, <2>1, <2>3 DEF Call
    <2>5. Slides(c, d)
      BY <1>1, <2>2, GrowsSlides DEF Calm
    <2>6. KarnKept'
      BY <1>1, <2>2, <2>3, <2>4, <2>5, StampKeepsKarn
    <2>7. QED BY <1>1, <2>4, <2>6, QuietStep
  <1>4. QED BY <1>2, <1>3

LEMMA AppWriteKarn ==
  ASSUME KarnInv, NEW n \in 1 .. MaxBytes, AppWrite(n)
  PROVE  Karns /\ KarnKept'
  <1>1. conn \in SoundConn /\ conn \in Conn /\ Alive /\ Writable(conn)
    BY AliveConn DEF AppWrite, KarnInv
  <1>2. PICK data : data = [k \in 1 .. n |-> <<1, conn.accepted + k>>]
    OBVIOUS
  <1>3. data \in Seq(Byte)
    <2>1. PICK m : m = conn.accepted
      OBVIOUS
    <2>2. m \in Nat /\ n \in Nat
      BY <1>1, <2>1, TimersAssumption DEF Conn
    <2>3. \A k \in 1 .. n : <<1, m + k>> \in Byte
      BY <2>2 DEF Byte
    <2>4. data = [k \in 1 .. n |-> <<1, m + k>>]
      BY <1>2, <2>1
    <2>5. data \in [1 .. n -> Byte]
      BY <2>3, <2>4
    <2>6. QED BY <2>2, <2>5
  <1>4. PICK c, u : c = conn /\ u = Write(conn, data)
    OBVIOUS
  <1>5. u \in Settled /\ Calm(c, u.conn)
    BY <1>1, <1>3, <1>4, WriteSettled, WriteCalm
  <1>6. Call(c, u)
    BY <1>2, <1>4 DEF AppWrite
  <1>7. QED BY <1>1, <1>4, <1>5, <1>6, CallKarn

LEMMA AppCloseKarn ==
  ASSUME KarnInv, AppClose
  PROVE  Karns /\ KarnKept'
  <1>1. conn \in SoundConn /\ conn \in Conn /\ Alive /\ Idle(conn)
    BY AliveConn DEF AppClose, Armed, KarnInv
  <1>2. PICK c, u : c = conn /\ u = Close(conn)
    OBVIOUS
  <1>3. u \in Settled /\ Calm(c, u.conn)
    BY <1>1, <1>2, CloseSettled, CloseCalm
  <1>4. Call(c, u)
    BY <1>2 DEF AppClose
  <1>5. QED BY <1>1, <1>2, <1>3, <1>4, CallKarn

\* A poll that resends excludes the flight, and only that.
LEMMA PollKarn ==
  ASSUME KarnInv, PollNow
  PROVE  Karns /\ KarnKept'
  <1>1. PICK c, u : c = conn /\ u = PollResult(conn)
    OBVIOUS
  <1>2. ClockInv /\ KarnKept /\ Alive
    BY DEF KarnInv, PollNow
  <1>3. c \in SoundConn /\ c \in Conn /\ Idle(c) /\ rtt \in Estimator
    BY <1>1, <1>2, AliveConn DEF Armed, ClockInv
  <1>4. Polled(c, u) /\ u \in Settled
    BY <1>1, <1>3, PollCases DEF PollNow
  <1>5. CASE u.closed
    BY <1>2, <1>4, <1>5, RemovedKarn DEF Polled
  <1>6. CASE ~u.closed
    <2>1. PICK d : d = u.conn
      OBVIOUS
    <2>2. d \in SoundConn /\ d \in Conn
      BY <1>4, <1>6, <2>1, SettledFields
    <2>3. conn' = d
      BY <1>4, <1>6, <2>1 DEF Polled
    <2>4. PollProbes(c, d) \/ PollWaits(c) \/ PollRetransmits(c, d) \/ PollFlushes(c, d)
      BY <1>4, <1>6, <2>1 DEF Polled
    <2>5. CASE PollProbes(c, d)
      <3>1. /\ Probes(c) /\ rtt' = AfterProbe(c) /\ Stamp(c, d, Carriers(c) # {})
        BY <2>5 DEF PollProbes
      <3>2. Grows(c, d)
        BY <1>1, <1>3, <1>6, <2>1, <3>1, PollCases, PollProbeGrows DEF Probes
      <3>3. Slides(c, d)
        BY <1>3, <2>2, <3>2, GrowsSlides
      <3>4. PICK again \in BOOLEAN : again = (Carriers(c) # {})
        OBVIOUS
      <3>5. /\ rtt'.rto = rtt.rto /\ rtt'.srtt = rtt.srtt
            /\ rtt'.sample_after = IF again THEN c.send_nxt ELSE rtt.sample_after
        BY <1>3, <3>1, <3>4, NoLowerRto DEF AfterProbe
      <3>6. KarnKept'
        BY <1>1, <1>2, <2>2, <2>3, <3>1, <3>3, <3>4, <3>5, StampKeepsKarn
      <3>7. QED BY <1>2, <3>5, <3>6, QuietStep
    <2>6. CASE PollWaits(c)
      <3>1. d = c
        BY <1>1, <1>3, <1>6, <2>1, <2>6, PollCases DEF PollWaits, Retransmits
      <3>2. rtt' = rtt /\ sends' = sends /\ conn' = conn
        BY <1>1, <2>3, <2>6, <3>1 DEF PollWaits
      <3>3. KarnKept'
        BY <1>2, <3>2 DEF KarnKept, Alive
      <3>4. QED BY <1>2, <3>2, <3>3, QuietStep
    <2>7. CASE PollRetransmits(c, d)
      <3>1. /\ Retransmits(c) /\ rtt' = ExcludeFlight(c, d, BackOff(rtt)) /\ Stamp(c, d, TRUE)
        BY <2>7 DEF PollRetransmits
      <3>2. /\ Calm(c, d) /\ c.unacked # <<>>
            /\ Head(c.unacked).transmissions + 1 <= d.unacked[1].transmissions
        BY <1>1, <1>3, <1>6, <2>1, <3>1, PollCases, PollRetransmitCalm
      <3>3. Grows(c, d) /\ Resent(c, d) # {}
        BY <1>3, <2>2, <3>2, HeadResent DEF Calm, Grows
      <3>4. PICK r : r = BackOff(rtt)
        OBVIOUS
      <3>5. r \in Estimator /\ ~(r.rto < rtt.rto) /\ r.srtt = rtt.srtt
        BY <1>3, <3>4, BackOffType, NoLowerRto
      <3>6. rtt'.rto = r.rto /\ rtt'.srtt = r.srtt /\ rtt'.sample_after = c.send_nxt
        BY <3>1, <3>3, <3>4, <3>5, NoLowerRto DEF ExcludeFlight
      <3>7. PICK again \in BOOLEAN : again = TRUE
        OBVIOUS
      <3>8. Slides(c, d)
        BY <1>3, <2>2, <3>3, GrowsSlides
      <3>9. KarnKept'
        BY <1>1, <1>2, <2>2, <2>3, <3>1, <3>6, <3>7, <3>8, StampKeepsKarn
      <3>10. QED BY <3>5, <3>6, <3>9 DEF Karns
    <2>8. CASE PollFlushes(c, d)
      <3>1. d = c
        BY <1>1, <1>3, <1>6, <2>1, <2>8, PollCases DEF PollFlushes, Retransmits, Probes
      <3>2. PICK again \in BOOLEAN : again = FALSE
        OBVIOUS
      <3>3. rtt' = rtt /\ Stamp(c, d, again)
        BY <2>8, <3>2 DEF PollFlushes
      <3>4. Slides(c, d)
        BY <1>3, <3>1, GrowsSame, GrowsSlides
      <3>5. KarnKept'
        BY <1>1, <1>2, <2>2, <2>3, <3>2, <3>3, <3>4, StampKeepsKarn
      <3>6. QED BY <1>2, <3>3, <3>5, QuietStep
    <2>9. QED BY <2>4, <2>5, <2>6, <2>7, <2>8
  <1>7. QED BY <1>5, <1>6

\* Time passes: ages grow, nothing else of a send changes.
LEMMA TickKarn ==
  ASSUME KarnInv, Tick
  PROVE  Karns /\ KarnKept'
  <1>1. ClockInv /\ KarnKept /\ Alive
    BY DEF KarnInv, Tick
  <1>2. PICK c : c = conn
    OBVIOUS
  <1>3. sends \in [EndsOf(c) -> Sent]
    BY <1>1, <1>2, AliveConn DEF Armed
  <1>4. conn' = conn /\ rtt' = rtt /\ Alive'
    BY <1>1 DEF Tick, Alive
  <1>5. ASSUME NEW e \in EndsOf(c)
        PROVE  sends'[e].clean = sends[e].clean
    <2>1. PICK s : s = sends[e]
      OBVIOUS
    <2>2. s \in Sent
      BY <1>3, <2>1
    <2>3. sends'[e] = [s EXCEPT !.age = @ + 1]
      BY <1>3, <2>1 DEF Tick
    <2>4. QED BY <2>1, <2>2, <2>3 DEF Sent
  <1>6. KarnKept'
    BY <1>1, <1>2, <1>4, <1>5 DEF KarnKept
  <1>7. QED BY <1>1, <1>4, <1>6, QuietStep

LEMMA InitKarn ==
  ASSUME Init
  PROVE  KarnInv
  <1>1. ASSUME NEW e \in EndsOf(conn)
        PROVE  sends[e].clean
    <2>1. sends[e] = [age |-> 0, clean |-> TRUE]
      BY <1>1 DEF Init
    <2>2. QED BY <2>1
  <1>2. QED BY <1>1, InitClock DEF KarnInv, KarnKept

LEMMA NextKarn ==
  ASSUME KarnInv, [Next]_vars
  PROVE  KarnInv' /\ (UNCHANGED vars \/ Karns)
  <1>1. ClockInv'
    BY NextClock DEF KarnInv
  <1>2. KarnKept' /\ (UNCHANGED vars \/ Karns)
    <2>1. CASE Input
      BY <2>1, InputKarn
    <2>2. CASE \E n \in 1 .. MaxBytes : AppWrite(n)
      BY <2>2, AppWriteKarn
    <2>3. CASE AppClose
      BY <2>3, AppCloseKarn
    <2>4. CASE PollNow
      BY <2>4, PollKarn
    <2>5. CASE Tick
      BY <2>5, TickKarn
    <2>6. CASE UNCHANGED vars
      BY <2>6 DEF vars, KarnInv, KarnKept, Alive
    <2>7. QED BY <2>1, <2>2, <2>3, <2>4, <2>5, <2>6 DEF Next
  <1>3. QED BY <1>1, <1>2 DEF KarnInv

LEMMA KarnAlways == Spec => []KarnInv
  <1>1. Init => KarnInv
    BY InitKarn
  <1>2. KarnInv /\ [Next]_vars => KarnInv'
    BY NextKarn
  <1>3. QED BY <1>1, <1>2, PTL DEF Spec


-----------------------------------------------------------------------------
(* The theorems                                                            *)

\* TypeOK: every clock value keeps its type whatever the peer, the application
\* and the driver do; in particular the timeout that samples, backoff and
\* clamping leave (rtt.rs) stays between min_rto_ms and max_rto_ms, and every
\* segment in flight, and no other, has a send time.
THEOREM TimerTypes == Spec => []TypeOK
  <1>1. ClockInv => TypeOK
    BY SoundFields DEF ClockInv, TypeOK, Armed
  <1>2. QED BY <1>1, ClockAlways, PTL

\* The probe timer runs exactly while the last window heard from the peer is
\* zero, whatever ACKs, probes, retries and calls come between
\* (update_remote_window, zero_window_probe).
THEOREM ProbeRunsWhileShut == Spec => [](Alive => (conn.remote_window = 0 <=> probeIn # Never))
  <1>1. ClockInv => (Alive => (conn.remote_window = 0 <=> probeIn # Never))
    BY DEF ClockInv, Armed
  <1>2. QED BY <1>1, ClockAlways, PTL

\* PollHasWork: when next_poll_at says now, poll closes, probes or retransmits,
\* so a driver that follows next_poll_at never spins.
THEOREM PollHasWorkHolds == Spec => []PollHasWork
  <1>1. ClockInv => PollHasWork
    <2> SUFFICES ASSUME ClockInv, Alive, Due(NextPollAt(conn))
                 PROVE  PollResult(conn).closed \/ Probes(conn) \/ Retransmits(conn)
      BY DEF PollHasWork
    <2>1. QED BY DueCases
  <1>2. QED BY <1>1, ClockAlways, PTL

\* PollIsExact: a poll before next_poll_at leaves every value as it is, and one
\* at that moment moves next_poll_at on or removes the connection.
THEOREM PollIsExactHolds == Spec => PollIsExact
  <1>1. ClockInv /\ [Next]_vars
          => [PollNow => IF Due(NextPollAt(conn)) THEN ~Alive' \/ ~Due(NextPollAt(conn)')
                                                   ELSE UNCHANGED vars]_vars
    BY EarlyPoll, DuePoll
  <1>2. QED BY <1>1, ClockAlways, PTL DEF Spec, PollIsExact

\* SilenceIsBounded: a peer that acknowledges nothing new and neither opens nor
\* shuts its window is given up after the configured attempts at the largest
\* timeout, whatever it sends and whatever the application writes or closes in
\* the meantime: the retransmissions and probes of poll spend budgets that only
\* progress refills (retransmit_oldest, zero_window_probe, update_remote_window).
THEOREM SilenceIsBoundedHolds == Spec => []SilenceIsBounded
  <1>1. BoundInv => SilenceIsBounded
    BY BoundedSilence DEF SilenceIsBounded
  <1>2. QED BY <1>1, BoundAlways, PTL

\* KarnsRule: the timeout is lowered and the measurement replaced only by an ACK
\* that covers a segment sent once, after everything that was ever sent again
\* with it in flight, whatever the order of ACKs, retransmissions and probes and
\* wherever the sequence numbers wrap (sample_after, zero_window_probe).
THEOREM KarnsRuleHolds == Spec => KarnsRule
  <1>1. KarnInv /\ [Next]_vars
          => [rtt'.rto < rtt.rto \/ rtt'.srtt # rtt.srtt =>
                \E e \in DOMAIN sends \ DOMAIN sends' : sends[e].clean]_vars
    BY NextKarn DEF Karns
  <1>2. QED BY <1>1, KarnAlways, PTL DEF Spec, KarnsRule
=============================================================================
