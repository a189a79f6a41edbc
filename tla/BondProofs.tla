----------------------------- MODULE BondProofs -----------------------------
(***************************************************************************)
(* The two ends of a tuple agree: whenever both are past their handshakes, *)
(* each follows the stream of the other, and what one counts as            *)
(* acknowledged the other took in.                                         *)
(*                                                                         *)
(* StreamsKept is not enough for that: it says that a connection follows   *)
(* one stream of its peer, and not that this is the peer's present one, or *)
(* that the peer follows it in turn. After a restart a side may have       *)
(* another connection, while segments of the old ones are still in flight. *)
(* Bond says how far the connections of two sides can have heard of each   *)
(* other, and BondsKept that they only hear of those that heard of them.   *)
(***************************************************************************)
EXTENDS TcpPairProofs

-----------------------------------------------------------------------------
(* What a method does to the handshake and to what is acknowledged         *)

\* Nothing more is acknowledged, and no handshake ends or begins.
Still(c, d) ==
  /\ d.send_una = c.send_una
  /\ c.state \in Opening \/ d.state \in Opening => d.state = c.state

\* Doing nothing is still, and so is one still step after another.
LEMMA StillOn ==
  /\ \A c : Still(c, c)
  /\ \A c, d, e : Still(c, d) /\ Still(d, e) => Still(c, e)
  BY DEF Still

\* flush_data sends and may start to close, and no more.
LEMMA FlushStill ==
  ASSUME NEW c \in Conn
  PROVE  Still(c, FlushData(c).conn)
  <1>1. ASSUME c.state \in {"Established", "CloseWait"}, NEW n
        PROVE  Still(c, SendChunks(c, n, Chunks(c, n)).conn)
               /\ SendChunks(c, n, Chunks(c, n)).conn.state = c.state
               /\ SendFin(SendChunks(c, n, Chunks(c, n)).conn).conn.send_una = c.send_una
               /\ SendFin(SendChunks(c, n, Chunks(c, n)).conn).conn.state
                    = (IF c.state = "Established" THEN "FinWait1" ELSE "LastAck")
    <2>1. PICK d : d = SendChunks(c, n, Chunks(c, n)).conn
      OBVIOUS
    <2>2. DOMAIN c = DOMAIN d /\ d.send_una = c.send_una /\ d.state = c.state
          /\ {"state", "send_una", "send_nxt", "unacked", "close_requested"} \subseteq DOMAIN c
      BY <2>1 DEF SendChunks, Open, Conn
    <2>3. PICK e : e = SendFin(d).conn
      OBVIOUS
    <2>4. e.send_una = d.send_una /\ e.state = IF d.state = "Established" THEN "FinWait1" ELSE "LastAck"
      BY <2>2, <2>3 DEF SendFin, SendTracked, Transmit, Open
    <2>5. QED BY <2>1, <2>2, <2>3, <2>4, StillOn DEF Still
  <1>2. CASE c.state \notin {"Established", "CloseWait"}
    BY <1>2, StillOn DEF FlushData, FlushUpTo, Open
  <1>3. CASE c.state \in {"Established", "CloseWait"}
    <2>1. PICK n : n = Len(c.send_queue)
      OBVIOUS
    <2>2. PICK m : m = Smaller(SendAllowance(c), n)
      OBVIOUS
    <2>3. PICK b : b = (c.close_requested /\ SendAllowance(c) > n)
      OBVIOUS
    <2>4. PICK u : u = SendChunks(c, n, Chunks(c, n))
      OBVIOUS
    <2>5. FlushData(c) = IF b THEN AndSendFin(u) ELSE SendChunks(c, m, Chunks(c, m))
      BY <1>3, <2>1, <2>2, <2>3, <2>4 DEF FlushData, FlushUpTo
    <2>6. AndSendFin(u).conn = SendFin(u.conn).conn
      BY DEF AndSendFin, Then, SendFin, SendTracked, Transmit, Open
    <2>7. Still(c, AndSendFin(u).conn)
      BY <1>1, <1>3, <2>4, <2>6 DEF Still, Opening
    <2>8. QED BY <1>1, <1>3, <2>5, <2>7
  <1>4. QED BY <1>2, <1>3

\* A still method is still with flush_data after it.
LEMMA AndFlushStill ==
  ASSUME NEW c, NEW u \in Update, Still(c, u.conn)
  PROVE  Still(c, AndFlush(u).conn)
  <1>1. u.conn \in Conn
    BY UpdateFields
  <1>2. FlushData(u.conn) \in Update
    BY <1>1, FlushDataType
  <1>3. AndFlush(u).conn = FlushData(u.conn).conn
    BY <1>2, ThenLeaves DEF AndFlush
  <1>4. QED BY <1>1, <1>3, FlushStill, StillOn

\* A change to other fields than these.
LEMMA SameStill ==
  ASSUME NEW c, NEW d, d.send_una = c.send_una, d.state = c.state
  PROVE  Still(c, d)
  BY DEF Still

\* repair_timed_out_flight and retransmit_due send again.
LEMMA RetransmitStill ==
  ASSUME NEW c \in Conn, NEW timeout
  PROVE  Still(c, RetransmitOldest(c, timeout).conn) /\ Still(c, RepairTimedOutFlight(c).conn)
  <1>1. ASSUME NEW b PROVE Still(c, RetransmitOldest(c, b).conn)
    <2>1. PICK d : d = [c EXCEPT !.unacked[1].transmissions = CountUp(@),
                                 !.duplicate_acks = IF b THEN 0 ELSE @]
      OBVIOUS
    <2>2. d.send_una = c.send_una /\ d.state = c.state
      BY <2>1 DEF Conn
    <2>3. RetransmitOldest(c, b).conn \in {c, d}
      BY <2>1 DEF RetransmitOldest, Open
    <2>4. QED BY <2>2, <2>3 DEF Still
  <1>2. QED BY <1>1, StillOn DEF RepairTimedOutFlight, Open

\* So does the zero-window probe.
LEMMA ProbeStill ==
  ASSUME NEW c \in Conn
  PROVE  Still(c, ZeroWindowProbe(c).conn)
  <1>1. \A t : ProbeOf(c, t).conn = c
    BY DEF ProbeOf, Open
  <1>2. SendTracked([c EXCEPT !.send_queue = Tail(@)], {"ACK"}, <<Head(c.send_queue)>>).conn.send_una
          = c.send_una
    BY DEF SendTracked, Transmit, Open, Conn
  <1>3. SendTracked([c EXCEPT !.send_queue = Tail(@)], {"ACK"}, <<Head(c.send_queue)>>).conn.state
          = c.state
    BY DEF SendTracked, Transmit, Open, Conn
  <1>4. QED BY <1>1, <1>2, <1>3, SameStill, StillOn DEF ZeroWindowProbe

\* Connection::poll.
LEMMA PollStill ==
  ASSUME NEW c \in Conn, NEW closeDue, NEW retryDue
  PROVE  Still(c, Poll(c, closeDue, retryDue).conn)
  <1>1. Still(c, PollProbe(c).conn)
    <2>1. CASE c.zero_window_probes >= MaxTransmissions \/ ~HasProbePayload(c)
      BY <2>1, StillOn DEF PollProbe, Open, Closed
    <2>2. CASE ~(c.zero_window_probes >= MaxTransmissions \/ ~HasProbePayload(c))
      <3>1. PICK u : u = ZeroWindowProbe(c)
        OBVIOUS
      <3>2. u \in Update /\ Still(c, u.conn)
        BY <2>2, <3>1, ZeroWindowProbeType, ProbeStill
      <3>3. CountProbe(u).conn.send_una = u.conn.send_una /\ CountProbe(u).conn.state = u.conn.state
        BY <3>2 DEF CountProbe, Update, Conn
      <3>4. PollProbe(c) = CountProbe(u)
        BY <2>2, <3>1 DEF PollProbe
      <3>5. QED BY <3>2, <3>3, <3>4 DEF Still
    <2>3. QED BY <2>1, <2>2
  <1>2. Still(c, PollRetransmit(c).conn)
    <2>1. CASE Head(c.unacked).transmissions >= MaxTransmissions
      BY <2>1, StillOn DEF PollRetransmit, Closed
    <2>2. CASE ~(Head(c.unacked).transmissions >= MaxTransmissions)
      <3>1. PICK d : d = [c EXCEPT !.rto_recovery_until = IF @ = None THEN c.send_nxt ELSE @,
                                   !.reno = RenoOnTimeout(@, c.mss, InFlight(c))]
        OBVIOUS
      <3>2. d \in Conn
        <4>1. /\ c.rto_recovery_until \in SeqNumber \cup {None} /\ c.send_nxt \in SeqNumber
              /\ c.reno \in Controller /\ c.mss \in Nat \ {0} /\ InFlight(c) \in Nat
          BY InFlightType DEF Conn
        <4>2. RenoOnTimeout(c.reno, c.mss, InFlight(c)) \in Controller
          BY <4>1, RenoOnLossTypes
        <4>3. QED BY <3>1, <4>1, <4>2 DEF Conn
      <3>3. Still(c, d)
        BY <3>1 DEF Still, Conn
      <3>4. PICK v : v = RetransmitOldest(d, TRUE)
        OBVIOUS
      <3>5. v \in Update /\ Still(d, v.conn)
        BY <3>2, <3>4, RetransmitOldestType, RetransmitStill
      <3>6. PollRetransmit(c) = AndFlush(v)
        BY <2>2, <3>1, <3>4 DEF PollRetransmit
      <3>7. QED BY <3>3, <3>5, <3>6, AndFlushStill, StillOn
    <2>3. QED BY <2>1, <2>2
  <1>3. QED BY <1>1, <1>2, FlushStill, StillOn DEF Poll, Open, Closed

\* The calls of the application.
LEMMA CallsStill ==
  ASSUME NEW c \in Conn
  PROVE  /\ Still(c, Close(c).conn)
         /\ \A max \in Nat : Still(c, Read(c, max).conn)
         /\ \A data \in Seq(Byte) : Still(c, Write(c, data).conn)
  <1>1. Still(c, Close(c).conn)
    <2>1. PICK d : d = [c EXCEPT !.close_requested = TRUE]
      OBVIOUS
    <2>2. d \in Conn /\ Still(c, d)
      BY <2>1 DEF Still, Conn
    <2>3. QED BY <2>1, <2>2, FlushStill, StillOn DEF Close, Open, Closed
  <1>2. ASSUME NEW max \in Nat PROVE Still(c, Read(c, max).conn)
    <2>1. PICK d : d = [c EXCEPT !.recv_queue = SubSeq(@, Smaller(max, Len(@)) + 1, Len(@))]
      OBVIOUS
    <2>2. Still(c, d)
      BY <2>1 DEF Still, Conn
    <2>3. Read(c, max).conn = d
      BY <2>1 DEF Read, AfterRead, AndAcknowledge, Open
    <2>4. QED BY <2>2, <2>3
  <1>3. ASSUME NEW data \in Seq(Byte) PROVE Still(c, Write(c, data).conn)
    <2>1. PICK n : n = WriteAccepts(c, Len(data))
      OBVIOUS
    <2>2. n \in Nat /\ n <= Len(data) /\ Len(data) \in Nat
      BY <2>1, WriteAcceptsType
    <2>3. PICK d : d = Accept(c, data, n)
      OBVIOUS
    <2>4. SubSeq(data, 1, n) \in Seq(Byte)
      BY <2>2, SubSeqType
    <2>5. d \in Conn
      <3>1. c.send_queue \o SubSeq(data, 1, n) \in Seq(Byte)
        BY <2>4, ConcatProperties DEF Conn
      <3>2. c.accepted + n \in Nat
        BY <2>2 DEF Conn
      <3>3. QED BY <2>3, <3>1, <3>2 DEF Accept, Conn
    <2>6. Still(c, d)
      BY <2>3 DEF Still, Accept, Conn
    <2>7. QED BY <2>1, <2>3, <2>5, <2>6, FlushStill, StillOn DEF Write
  <1>4. QED BY <1>1, <1>2, <1>3

-----------------------------------------------------------------------------
(* What a segment does to them                                             *)

\* e was moved by seg: it acknowledges what seg says and its handshake is over; a
\* client's ends with the SYN of its peer.
Hark(c, e, seg) ==
  /\ "RST" \notin seg.flags /\ e.send_una = seg.ack /\ e.state \notin Opening
  /\ c.state = "SynSent" => "SYN" \in seg.flags /\ e.recv_nxt = Plus(seg.seq, 1)

\* An ACK moves send_una to it or nowhere.
LEMMA ApplyAckMoves ==
  ASSUME NEW c \in Conn, NEW ack, NEW candidate, NEW d, d = ApplyAck(c, ack, candidate).conn
  PROVE  d.send_una \in {c.send_una, ack} /\ (InSendInterval(c, ack) => d.send_una = ack)
  <1>1. ApplyDuplicateAck(c, candidate).conn.send_una = c.send_una
    <2>1. PICK a : a = [c EXCEPT !.duplicate_acks = 0]
      OBVIOUS
    <2>2. PICK b : b = CountDuplicate(c)
      OBVIOUS
    <2>3. PICK f : f = FastLoss(b)
      OBVIOUS
    <2>4. PICK g : g = RetransmitOldest(f, FALSE).conn
      OBVIOUS
    <2>5. a.send_una = c.send_una /\ b.send_una = c.send_una /\ DOMAIN b = DOMAIN c
      BY <2>1, <2>2 DEF CountDuplicate, Conn
    <2>6. f.send_una = c.send_una /\ DOMAIN f = DOMAIN c
      BY <2>3, <2>5 DEF FastLoss, Conn
    <2>7. g.send_una = c.send_una
      <3>1. g \in {f, [f EXCEPT !.unacked[1].transmissions = CountUp(@),
                                !.duplicate_acks = IF FALSE THEN 0 ELSE @]}
        BY <2>4 DEF RetransmitOldest, Open
      <3>2. QED BY <2>6, <3>1 DEF Conn
    <2>8. ApplyDuplicateAck(c, candidate).conn \in {a, b, g}
      BY <2>1, <2>2, <2>3, <2>4 DEF ApplyDuplicateAck, Open
    <2>9. QED BY <2>5, <2>7, <2>8
  <1>2. ApplyNewAck(c, ack).send_una = ack
    BY DEF ApplyNewAck, AckSplit, Acknowledge, Conn
  <1>3. QED BY <1>1, <1>2 DEF ApplyAck, Open

\* The data of a segment change neither, and an end of the stream stays one.
LEMMA ReceiveStill ==
  ASSUME NEW c \in SoundConn, c.state \notin Opening, NEW first \in SeqNumber, NEW i \in Nat,
         Tells(c, first, i), NEW seg \in Segment, NEW e, e = ReceiveStreamData(c, seg).conn
  PROVE  /\ e.send_una = c.send_una /\ e.state \notin Opening
         /\ c.read_closed => e.read_closed
  <1>1. c \in Conn /\ seg.seq \in SeqNumber /\ seg.data \in Seq(Byte) /\ c.state # "SynSent"
    BY SoundFields DEF Segment, Opening
  <1>2. CASE seg.data = <<>> /\ "FIN" \notin seg.flags
    BY <1>2 DEF ReceiveStreamData, Open
  <1>3. CASE ~(seg.data = <<>> /\ "FIN" \notin seg.flags)
    <2>1. PICK fin \in BOOLEAN : fin = ("FIN" \in seg.flags)
      <3>1. ("FIN" \in seg.flags) \in BOOLEAN
        OBVIOUS
      <3>2. QED BY <3>1
    <2>2. PICK x : x = InsertReceived(c, seg.seq, seg.data, fin)
      OBVIOUS
    <2>3. e = DrainReassembly(x)
      BY <1>3, <2>1, <2>2 DEF ReceiveStreamData, AndAcknowledge, Open
    <2>4. x \in SoundConn /\ x.state = c.state
      BY <1>1, <2>2, InsertReceivedSound
    <2>5. SameTelling(c, x)
      BY <1>1, <2>2, InsertedTelling
    <2>6. Tells(x, first, i)
      BY <2>5, SameTellingTells
    <2>7. SameTelling(x, e)
      BY <1>1, <2>3, <2>4, <2>6, DrainedTelling
    <2>8. x.read_closed = c.read_closed
      <3>1. Len(seg.data) < Modulus \/ Len(seg.data) >= Modulus
        BY <1>1, ModulusAssumption
      <3>2. QED BY <1>1, <2>2 DEF InsertReceived, FileChunk, Conn
    <2>9. x.read_closed => e.read_closed
      <3>1. x \in Conn
        BY <2>4, SoundFields
      <3>2. PICK run, fin2, next : e = TakeIn(x, run, fin2, next)
        BY <2>3 DEF DrainReassembly, DrainRun, TakeRun
      <3>3. QED BY <3>1, <3>2 DEF TakeIn, Conn
    <2>10. QED BY <2>5, <2>7, <2>8, <2>9 DEF SameTelling, Alike
  <1>4. QED BY <1>2, <1>3

\* What a step keeps of a connection whose handshake is not over.
Stays(c, e) ==
  /\ Still(c, e)
  /\ e.state \in Opening => e.recv_queue = c.recv_queue /\ e.read_closed = c.read_closed

\* A step on seg: nothing more is acknowledged, or what seg says.
Heeds(c, e, seg) ==
  /\ c.read_closed => e.read_closed
  /\ Stays(c, e) \/ Hark(c, e, seg)

\* A segment that is dropped changes nothing.
LEMMA SameHeeds ==
  ASSUME NEW c, NEW e, NEW seg, Still(c, e), Unmoved(c, e)
  PROVE  Heeds(c, e, seg)
  BY DEF Heeds, Stays, Unmoved, SameReceive

\* Everything sent may be acknowledged.
LEMMA AllMayBeAcked ==
  ASSUME NEW c \in SoundConn
  PROVE  InSendInterval(c, c.send_nxt)
  <1>1. c \in Conn /\ c.send_una \in SeqNumber /\ c.send_nxt \in SeqNumber
        /\ Distance(c.send_una, c.send_nxt) <= MaxWindow + 1
    BY SoundFields DEF Sender, FlightBounded, Conn
  <1>2. ~Before(c.send_nxt, c.send_una)
    <2>1. Distance(c.send_una, c.send_nxt) \in Nat
      BY <1>1, DistanceType
    <2>2. 2 * Distance(c.send_una, c.send_nxt) < Modulus
      BY <1>1, <2>1, ConfigAssumption, ModulusAssumption
    <2>3. QED BY <2>1, <2>2, ModulusAssumption DEF Before
  <1>3. ~Before(c.send_nxt, c.send_nxt)
    BY <1>1, BeforeOrAfter
  <1>4. QED BY <1>2, <1>3 DEF InSendInterval, InClosedInterval, After

\* on_segment in SYN-SENT.
LEMMA SynSentHeeds ==
  ASSUME NEW c \in SoundConn, c.state = "SynSent", NEW first \in SeqNumber, NEW i \in Nat,
         Tells(c, first, i), NEW seg \in Segment, "RST" \notin seg.flags,
         NEW e, e = OnSegmentSynSent(c, seg).conn
  PROVE  Heeds(c, e, seg)
  <1>1. CASE ~({"SYN", "ACK"} \subseteq seg.flags /\ seg.ack = c.send_nxt)
    <2>1. e = c
      BY <1>1 DEF OnSegmentSynSent, Open
    <2>2. QED BY <2>1, StillOn, UnmovedWays, SameHeeds
  <1>2. CASE {"SYN", "ACK"} \subseteq seg.flags /\ seg.ack = c.send_nxt
    <2>1. PICK b : b = UpdateRemoteWindow(c, seg.window)
      OBVIOUS
    <2>2. PICK d : d = NegotiateMss(b, seg)
      OBVIOUS
    <2>3. c \in Conn /\ seg.window \in WindowSize
      BY SoundFields DEF Segment
    <2>4. b \in SoundConn /\ b \in Conn /\ d \in SoundConn /\ d \in Conn
      BY <2>1, <2>2, <2>3, UpdateRemoteWindowSound, NegotiateMssSound, SoundFields
    <2>5. /\ d.send_nxt = c.send_nxt /\ d.read_closed = c.read_closed
      BY <2>1, <2>2, <2>3, <2>4 DEF NegotiateMss, UseMss, UpdateRemoteWindow, Conn
    <2>p. PICK ack \in SeqNumber, no \in BOOLEAN : ack = d.send_nxt /\ no = FALSE
      BY <2>4 DEF Conn
    <2>6. PICK a : a = ApplyAck(d, ack, no).conn
      OBVIOUS
    <2>7. a \in Conn /\ a.send_una = d.send_nxt
      <3>1. InSendInterval(d, ack)
        BY <2>4, <2>p, AllMayBeAcked
      <3>2. a \in SoundConn
        BY <2>4, <2>6, ApplyAckSound, SoundFields
      <3>3. a.send_una = ack
        BY <2>4, <2>6, <3>1, ApplyAckMoves
      <3>4. QED BY <2>p, <3>2, <3>3, SoundFields
    <2>8. e.read_closed = c.read_closed
      <3>1. PICK u : u = OnSegmentSynSent(c, seg)
        OBVIOUS
      <3>2. Unmoved(c, u.conn) \/ Starts(c, u.conn, seg)
        BY <3>1, SynSentSpeaks
      <3>3. QED BY <3>1, <3>2 DEF Unmoved, Starts
    <2>9. e = [a EXCEPT !.recv_nxt = Plus(seg.seq, 1), !.state = "Established"]
      <3>1. OnSegmentSynSent(c, seg)
              = AndAcknowledge([ApplyAck(d, c.send_nxt, FALSE).conn
                                  EXCEPT !.recv_nxt = Plus(seg.seq, 1), !.state = "Established"])
        BY <1>2, <2>1, <2>2 DEF OnSegmentSynSent
      <3>2. a = ApplyAck(d, c.send_nxt, FALSE).conn
        BY <2>5, <2>p, <2>6
      <3>3. OnSegmentSynSent(c, seg)
              = AndAcknowledge([a EXCEPT !.recv_nxt = Plus(seg.seq, 1), !.state = "Established"])
        BY <3>1, <3>2
      <3>4. QED BY <3>3 DEF AndAcknowledge, Open
    <2>10. /\ e.send_una = a.send_una /\ e.state = "Established"
           /\ e.recv_nxt = Plus(seg.seq, 1)
      BY <2>7, <2>9 DEF Conn
    <2>11. QED BY <1>2, <2>5, <2>7, <2>8, <2>10 DEF Heeds, Hark, Opening
  <1>3. QED BY <1>1, <1>2

\* on_segment in SYN-RECEIVED.
LEMMA SynReceivedHeeds ==
  ASSUME NEW c \in SoundConn, c.state = "SynReceived", NEW first \in SeqNumber, NEW i \in Nat,
         Tells(c, first, i), NEW seg \in Segment, "RST" \notin seg.flags,
         NEW e, e = OnSegmentSynReceived(c, seg).conn
  PROVE  Heeds(c, e, seg)
  <1>1. c \in Conn
    BY SoundFields
  <1>2. CASE "SYN" \in seg.flags /\ "ACK" \notin seg.flags /\ Plus(seg.seq, 1) = c.recv_nxt
    <2>1. FALSE \in BOOLEAN
      OBVIOUS
    <2>2. e = RetransmitOldest(c, FALSE).conn
      BY <1>2 DEF OnSegmentSynReceived
    <2>3. Unmoved(c, e)
      BY <2>1, <2>2, RetransmitSpeaks, UnmovedWays DEF OnlySpeaks
    <2>4. QED BY <1>1, <2>2, <2>3, RetransmitStill, SameHeeds
  <1>3. CASE e = c
    BY <1>3, StillOn, UnmovedWays, SameHeeds
  <1>4. CASE seg.ack = c.send_nxt /\ e = OnHandshakeAck(c, seg).conn
    <2>p. PICK ack \in SeqNumber, no \in BOOLEAN : ack = c.send_nxt /\ no = FALSE
      BY <1>1 DEF Conn
    <2>1. PICK a : a = ApplyAck(c, ack, no).conn
      OBVIOUS
    <2>2. a \in Conn /\ a.send_una = c.send_nxt
      <3>1. InSendInterval(c, ack)
        BY <2>p, AllMayBeAcked
      <3>2. a \in SoundConn
        BY <2>1, ApplyAckSound, SoundFields
      <3>3. a.send_una = ack
        BY <1>1, <2>1, <3>1, ApplyAckMoves
      <3>4. QED BY <2>p, <3>2, <3>3, SoundFields
    <2>3. PICK f : f = OpenedBy(c, seg)
      OBVIOUS
    <2>4. f \in SoundConn /\ Tells(f, first, i) /\ f.read_closed = c.read_closed
      <3>1. f \in SoundConn /\ Speaks(c, f, <<>>, first, i) /\ Unmoved(c, f)
        BY <2>3, OpenedByAck
      <3>2. QED BY <3>1 DEF Speaks, Unmoved
    <2>5. f.send_una = c.send_nxt /\ f.state = "Established"
      BY <2>p, <2>1, <2>2, <2>3 DEF OpenedBy, UpdateRemoteWindow, Conn
    <2>6. PICK r : r = ReceiveStreamData(f, seg)
      OBVIOUS
    <2>7. r \in Update /\ r \in SoundUpdate
      BY <2>4, <2>5, <2>6, ReceiveStreamDataSound, SoundFields
    <2>8. /\ r.conn.send_una = f.send_una /\ r.conn.state \notin Opening
          /\ f.read_closed => r.conn.read_closed
      <3>1. f.state \notin Opening
        BY <2>5 DEF Opening
      <3>2. PICK x : x = r.conn
        OBVIOUS
      <3>3. QED BY <2>4, <2>6, <3>1, <3>2, ReceiveStill
    <2>9. e = AndFlush(r).conn
      BY <1>4, <2>3, <2>6 DEF OnHandshakeAck, OpenedBy
    <2>10. Still(r.conn, e)
      BY <2>7, <2>9, AndFlushStill, StillOn
    <2>11. e.read_closed = r.conn.read_closed
      <3>1. f.state # "SynSent"
        BY <2>5
      <3>2. Only(r.conn, e)
        BY <2>4, <2>6, <2>9, <3>1, ReceiveAndFlush
      <3>3. QED BY <3>2 DEF Only
    <2>12. e.send_una = c.send_nxt /\ e.state \notin Opening /\ (c.read_closed => e.read_closed)
      BY <2>4, <2>5, <2>8, <2>10, <2>11 DEF Still
    <2>13. QED BY <1>4, <2>12 DEF Heeds, Hark
  <1>5. QED
    <2>1. [OnHandshakeAck(c, seg) EXCEPT !.accepted = TRUE].conn = OnHandshakeAck(c, seg).conn
      BY DEF OnHandshakeAck, AndFlush, Then
    <2>2. Open(c, <<>>).conn = c
      BY DEF Open
    <2>3. QED BY <1>2, <1>3, <1>4, <2>1, <2>2 DEF OnSegmentSynReceived

\* The acknowledgement half of on_segment moves send_una to the ACK or nowhere.
LEMMA OnAckMoves ==
  ASSUME NEW c \in SoundConn, c.state \notin Opening, NEW seg \in Segment, seg.ack # None,
         NEW e, e = OnAck(c, seg).conn
  PROVE  e.send_una \in {c.send_una, seg.ack}
  <1>1. PICK ack \in SeqNumber : ack = seg.ack
    BY DEF Segment
  <1>2. PICK candidate \in BOOLEAN :
          candidate = IsDuplicateAckCandidate(seg, c.send_una, c.remote_window)
    BY DEF IsDuplicateAckCandidate
  <1>3. PICK u : u = ApplyAck(c, ack, candidate)
    OBVIOUS
  <1>4. PICK d : d = u.conn
    OBVIOUS
  <1>5. c \in Conn /\ d \in SoundConn /\ d \in Conn /\ d.state \notin Opening
    <2>1. u \in SoundUpdate /\ u.conn.state = c.state
      BY <1>3, ApplyAckSound
    <2>2. QED BY <1>4, <2>1, SoundFields
  <1>6. d.send_una \in {c.send_una, ack}
    <2>1. d = ApplyAck(c, ack, candidate).conn
      BY <1>3, <1>4
    <2>2. QED BY <1>5, <2>1, ApplyAckMoves
  <1>7. PICK f : f = NoteWindow(NoteFinAcked(d, FinAcked(c, seg)), seg)
    OBVIOUS
  <1>8. f.send_una = d.send_una /\ f \in Conn
    <2>1. PICK g : g = NoteFinAcked(d, FinAcked(c, seg))
      OBVIOUS
    <2>2. g.send_una = d.send_una /\ g \in SoundConn
      <3>1. FinAcked(c, seg) \in BOOLEAN
        BY DEF FinAcked, InSendInterval, InClosedInterval
      <3>2. PICK fin \in BOOLEAN : fin = FinAcked(c, seg)
        BY <3>1
      <3>3. g \in SoundConn
        BY <1>5, <2>1, <3>2, NoteFinAckedSound
      <3>4. QED BY <1>5, <2>1, <3>3 DEF NoteFinAcked, Conn
    <2>3. f = NoteWindow(g, seg)
      BY <1>7, <2>1
    <2>4. f \in SoundConn
      BY <2>2, <2>3, NoteWindowSound
    <2>5. g \in Conn /\ f \in Conn
      BY <2>2, <2>4, SoundFields
    <2>6. QED BY <2>2, <2>3, <2>5 DEF NoteWindow, UpdateRemoteWindow, Conn
  <1>9. PICK v : v = IF After(u.conn.send_una, c.send_una)
                     THEN RepairTimedOutFlight(f) ELSE Open(f, <<>>)
    OBVIOUS
  <1>10. v.conn.send_una = f.send_una
    <2>1. RepairTimedOutFlight(f).conn.send_una = f.send_una
      BY <1>8, RetransmitStill DEF Still
    <2>2. Open(f, <<>>).conn = f
      BY DEF Open
    <2>3. QED BY <1>9, <2>1, <2>2
  <1>11. v \in Update
    BY <1>8, <1>9, NoSegments, OpenType, RepairTimedOutFlightType
  <1>12. OnAck(c, seg) = IF c.state = "LastAck" /\ FinAcked(c, seg)
                         THEN Closed(u.conn, u.segments) ELSE Then(u, v)
    BY <1>1, <1>2, <1>3, <1>4, <1>7, <1>9 DEF OnAck, OnApplied, AndRepair
  <1>13. Then(u, v).conn = v.conn /\ Closed(u.conn, u.segments).conn = d
    BY <1>4, <1>11 DEF Then, Update, Closed
  <1>14. QED BY <1>1, <1>6, <1>8, <1>10, <1>12, <1>13

\* on_segment past the handshake.
LEMMA SynchronizedHeeds ==
  ASSUME NEW c \in SoundConn, c.state \notin Opening, NEW first \in SeqNumber, NEW i \in Nat,
         Tells(c, first, i), NEW seg \in Segment, "RST" \notin seg.flags,
         NEW e, e = OnSegmentSynchronized(c, seg).conn
  PROVE  Heeds(c, e, seg)
  <1>1. PICK w : w = IF seg.ack = None THEN Open(c, <<>>) ELSE OnAck(c, seg)
    OBVIOUS
  <1>2. /\ w \in SoundUpdate /\ w.conn.state \notin Opening
        /\ w.conn.send_una \in {c.send_una, seg.ack}
        /\ Tells(w.conn, first, i) /\ w.conn.read_closed = c.read_closed
    <2>1. CASE seg.ack = None
      <3>1. w = Open(c, <<>>) /\ w.conn = c
        BY <1>1, <2>1 DEF Open
      <3>2. QED BY <3>1, OpenSound, NoSegments
    <2>2. CASE seg.ack # None
      <3>1. w = OnAck(c, seg)
        BY <1>1, <2>2
      <3>2. w \in SoundUpdate /\ w.conn.state \notin Opening
        BY <2>2, <3>1, OnAckSound
      <3>3. Answers(c, w, first, i, seg.ack)
        BY <2>2, <3>1, OnAckAnswers
      <3>4. w.conn.send_una \in {c.send_una, seg.ack}
        <4>1. PICK d : d = w.conn
          OBVIOUS
        <4>2. d = OnAck(c, seg).conn
          BY <3>1, <4>1
        <4>3. d.send_una \in {c.send_una, seg.ack}
          BY <2>2, <4>2, OnAckMoves
        <4>4. QED BY <4>1, <4>3
      <3>5. QED BY <3>2, <3>3, <3>4 DEF Answers, Speaks, Untouched
    <2>3. QED BY <2>1, <2>2
  <1>3. e = Continue(w, seg).conn
    BY <1>1 DEF OnSegmentSynchronized
  <1>4. e.send_una = w.conn.send_una /\ e.state \notin Opening
        /\ (c.read_closed => e.read_closed)
    <2>1. CASE w.closed
      BY <1>2, <1>3, <2>1 DEF Continue
    <2>2. CASE ~w.closed
      <3>1. PICK b : b = w.conn
        OBVIOUS
      <3>2. b \in SoundConn /\ b.state # "SynSent" /\ w \in Update
        BY <1>2, <3>1, SoundFields DEF Opening
      <3>3. PICK r : r = ReceiveStreamData(b, seg)
        OBVIOUS
      <3>4. r \in SoundUpdate /\ r \in Update
        BY <3>2, <3>3, ReceiveStreamDataSound, SoundFields
      <3>5. PICK x : x = r.conn
        OBVIOUS
      <3>6. x.send_una = b.send_una /\ x.state \notin Opening /\ (b.read_closed => x.read_closed)
        BY <1>2, <3>1, <3>2, <3>3, <3>5, ReceiveStill
      <3>7. AndReceive(w, seg) \in SoundUpdate /\ AndReceive(w, seg).conn = x
        BY <3>1, <3>2, <3>3, <3>4, <3>5, ThenSound DEF AndReceive
      <3>8. e = AndFlush(AndReceive(w, seg)).conn
        BY <1>3, <2>2 DEF Continue
      <3>9. Still(x, e)
        <4>1. AndReceive(w, seg) \in Update
          BY <3>7, SoundFields
        <4>2. QED BY <3>7, <3>8, <4>1, AndFlushStill, StillOn
      <3>10. e.read_closed = x.read_closed
        <4>1. PICK v : v = AndReceive(w, seg)
          OBVIOUS
        <4>2. v \in Update /\ v.conn = x /\ v.conn \in SoundConn /\ v \in SoundUpdate
          BY <3>7, <4>1, SoundFields
        <4>3. PICK g : g = FlushData(x)
          OBVIOUS
        <4>4. x \in Conn /\ x \in SoundConn /\ g \in Update
          BY <4>2, <4>3, SoundFields, FlushDataType
        <4>5. e = g.conn
          BY <3>8, <4>1, <4>2, <4>3, <4>4, ThenLeaves DEF AndFlush
        <4>6. Tells(x, first, i)
          BY <1>2, <3>1, <3>2, <3>3, <3>5, ReceiveSpeaks DEF Speaks
        <4>7. OnlySpeaks(x, g, first, i)
          BY <4>3, <4>4, <4>6, FlushSays
        <4>8. QED BY <4>5, <4>7 DEF OnlySpeaks, Only
      <3>11. QED BY <1>2, <3>1, <3>6, <3>9, <3>10 DEF Still
    <2>3. QED BY <2>1, <2>2
  <1>5. CASE e.send_una = c.send_una
    BY <1>4, <1>5 DEF Heeds, Stays, Still
  <1>6. CASE e.send_una = seg.ack
    BY <1>4, <1>6 DEF Heeds, Hark, Opening
  <1>7. QED BY <1>2, <1>4, <1>5, <1>6

\* Stack::input for a tuple in the table.
LEMMA InputHeeds ==
  ASSUME NEW c \in SoundConn, NEW first \in SeqNumber, NEW i \in Nat, Tells(c, first, i),
         NEW seg \in Segment, NEW e, e = InputKnown(c, seg).conn
  PROVE  Heeds(c, e, seg)
  <1>1. CASE e = c
    BY <1>1, StillOn, UnmovedWays, SameHeeds
  <1>2. CASE e # c
    <2>1. e = OnSegment(c, seg).conn
      BY <1>2 DEF InputKnown, Open
    <2>2. "RST" \notin seg.flags
      BY <1>2, <2>1 DEF OnSegment, OnReset, Open, Closed
    <2>3. CASE c.state = "SynSent"
      <3>1. e = OnSegmentSynSent(c, seg).conn
        BY <2>1, <2>2, <2>3 DEF OnSegment
      <3>2. QED BY <2>2, <2>3, <3>1, SynSentHeeds
    <2>4. CASE c.state = "SynReceived"
      <3>1. e = OnSegmentSynReceived(c, seg).conn
        BY <2>1, <2>2, <2>4 DEF OnSegment
      <3>2. QED BY <2>2, <2>4, <3>1, SynReceivedHeeds
    <2>5. CASE c.state \notin Opening
      <3>1. e = OnSegmentSynchronized(c, seg).conn
        BY <2>1, <2>2, <2>5 DEF OnSegment, Opening
      <3>2. QED BY <2>2, <2>5, <3>1, SynchronizedHeeds
    <2>6. QED BY <2>3, <2>4, <2>5 DEF Opening
  <1>3. QED BY <1>1, <1>2

-----------------------------------------------------------------------------
(* Which connections know each other                                       *)

\* x stands at place a of the i-th stream of s.
Places(s) == 0 .. 2 + WriteLimit[s]
PlaceIn(s, i, a, x) == i \in 1 .. Len(Isn[s]) /\ a \in Places(s) /\ x = Plus(Isn[s][i], a)
InStream(s, i, x) == \E a \in Places(s) : PlaceIn(s, i, a, x)

\* Connection e waits for a byte of the j-th stream of s.
Attuned(e, s, j) ==
  e.state # "SynSent" /\ j \in 1 .. opened[s] /\ InStream(s, j, e.recv_nxt)

\* The i-th connection of s lives and hears the j-th stream of its peer.
Tuned(s, i, j) == Current(s, i) /\ Attuned(conn[s], Peer(s), j)

\* A segment of the i-th connection of s in flight acknowledges the j-th stream
\* of its peer up to place a.
Quotes(s, i, j, a) ==
  /\ i \in 1 .. opened[s] /\ j \in 1 .. opened[Peer(s)]
  /\ \E x \in BagToSet(net[Peer(s)]) :
       "RST" \notin x.flags /\ InStream(s, i, x.seq) /\ PlaceIn(Peer(s), j, a, x.ack)

\* The i-th connection of s heard the j-th of its peer, as far as anything still
\* tells: it hears it, a segment of it says so, or that one was acknowledged by it.
Bond(s, i, j) ==
  \/ Tuned(s, i, j)
  \/ \E a \in Places(Peer(s)) : Quotes(s, i, j, a)
  \/ Tuned(Peer(s), j, i) /\ Synchronized(Peer(s))

\* The place the connection of s waits for.
Reached(s) == 1 + Len(received[s][opened[s]]) + Units(conn[s].read_closed)

\* No number stands at two places.
LEMMA OnePlace ==
  ASSUME StreamsApart, NEW s \in Side, NEW i, NEW a, NEW j, NEW b, NEW x,
         PlaceIn(s, i, a, x), PlaceIn(s, j, b, x)
  PROVE  i = j /\ a = b
  <1>1. PICK w \in Nat : w = WriteLimit[s]
    BY PairAssumption
  <1>2. /\ i \in 1 .. Len(Isn[s]) /\ j \in 1 .. Len(Isn[s])
        /\ a \in Nat /\ b \in Nat /\ a <= 2 + w /\ b <= 2 + w
        /\ x = Plus(Isn[s][i], a) /\ x = Plus(Isn[s][j], b)
    BY <1>1 DEF PlaceIn, Places
  <1>3. /\ ReceiveBuffer \in Nat /\ 1 <= ReceiveBuffer /\ Modulus \in Nat
        /\ w + 2 + ReceiveBuffer < Modulus
    BY <1>1, PairAssumption, ConfigAssumption, ModulusAssumption DEF StreamsApart
  <1>4. PICK f \in SeqNumber, g \in SeqNumber : f = Isn[s][i] /\ g = Isn[s][j]
    BY <1>2, PairAssumption
  <1>5. f \in Nat /\ g \in Nat /\ a < Modulus /\ b < Modulus
    BY <1>2, <1>3, <1>4, SeqNumberIsNat
  <1>6. Distance(f, x) = a /\ Distance(g, x) = b
    BY <1>2, <1>4, <1>5, DistanceOfPlus
  <1>7. i = j
    <2>1. SUFFICES ASSUME i # j PROVE FALSE
      OBVIOUS
    <2>2. PICK d \in Nat, e \in Nat : d = Distance(f, g) /\ e = Distance(g, f)
      BY <1>4, PlusOfDistance
    <2>3. d >= w + 2 + ReceiveBuffer /\ e >= w + 2 + ReceiveBuffer
      BY <1>1, <1>2, <1>4, <2>1, <2>2 DEF StreamsApart
    <2>4. a <= d /\ b < e /\ b < d /\ a < e /\ 0 < d /\ 0 < e
      BY <1>2, <1>3, <2>2, <2>3
    <2>5. f # g
      <3>1. Distance(f, f) = 0
        BY BeforeOrAfter
      <3>2. QED BY <2>2, <2>4, <3>1
    <2>6. CASE a = 0
      <3>1. x = f
        BY <1>2, <1>4, <2>6, PlusZero
      <3>2. QED BY <1>6, <2>2, <2>4, <3>1
    <2>7. CASE b = 0
      <3>1. x = g
        BY <1>2, <1>4, <2>7, PlusZero
      <3>2. Distance(f, g) = a
        BY <1>6, <3>1
      <3>3. a < d
        BY <1>2, <1>3, <2>2, <2>3
      <3>4. QED BY <2>2, <3>2, <3>3
    <2>8. CASE a # 0 /\ b # 0
      <3>1. 1 <= a /\ 1 <= b
        BY <1>2, <2>8
      <3>2. Plus(f, a) # Plus(g, b)
        BY <1>2, <2>2, <2>4, <2>5, <3>1, ApartPlaces
      <3>3. QED BY <1>2, <1>4, <3>2
    <2>9. QED BY <2>6, <2>7, <2>8
  <1>8. QED BY <1>4, <1>6, <1>7

\* Nor in two streams of a side.
LEMMA OneStream ==
  ASSUME StreamsApart, NEW s \in Side, NEW i, NEW j, NEW x, InStream(s, i, x), InStream(s, j, x)
  PROVE  i = j
  <1>1. PICK a, b : PlaceIn(s, i, a, x) /\ PlaceIn(s, j, b, x)
    BY DEF InStream
  <1>2. QED BY <1>1, OnePlace

\* A connection waits for a byte of one stream only.
LEMMA AttunedOnce ==
  ASSUME StreamsApart, NEW s \in Side, NEW e, NEW i, NEW j, Attuned(e, s, i), Attuned(e, s, j)
  PROVE  i = j
  BY OneStream DEF Attuned

\* What is said of a view of a stream stands in the stream.
LEMMA SpokenPlace ==
  ASSUME StreamsApart, NEW s \in Side, NEW i \in 1 .. Len(Isn[s]), NEW d \in Views,
         d.first = Isn[s][i], d.total <= WriteLimit[s], NEW x, Spoken(x, d)
  PROVE  InStream(s, i, x.seq) /\ ("SYN" \in x.flags => PlaceIn(s, i, 0, x.seq))
  <1>1. PICK w \in Nat : w = WriteLimit[s]
    BY PairAssumption
  <1>2. PICK n \in Nat, f \in SeqNumber : n = d.end /\ n <= 2 + w /\ f = Isn[s][i]
    <2>1. d.end \in Nat /\ d.total \in Nat /\ d.end <= 2 + d.total /\ d.first \in SeqNumber
      BY DEF Views
    <2>2. d.end <= 2 + w
      BY <1>1, <2>1
    <2>3. QED BY <2>1, <2>2
  <1>3. ASSUME "SYN" \in x.flags PROVE PlaceIn(s, i, 0, x.seq)
    <2>1. x.seq = f
      BY <1>2, <1>3 DEF Spoken
    <2>2. x.seq = Plus(f, 0)
      BY <2>1, PlusZero
    <2>3. 0 \in Places(s)
      BY <1>1 DEF Places
    <2>4. QED BY <1>2, <2>2, <2>3 DEF PlaceIn
  <1>4. ASSUME "SYN" \notin x.flags PROVE InStream(s, i, x.seq)
    <2>1. PICK o \in 1 .. n : x.seq = Plus(f, o)
      BY <1>2, <1>4 DEF Spoken, Told
    <2>2. o \in Places(s)
      BY <1>1, <1>2 DEF Places
    <2>3. QED BY <1>2, <2>1, <2>2 DEF PlaceIn, InStream
  <1>5. 0 \in Places(s)
    BY <1>1 DEF Places
  <1>6. QED BY <1>3, <1>4, <1>5 DEF InStream

\* What hears a stream waits for the byte after what it took in.
LEMMA HearsPlace ==
  ASSUME StreamsApart, TypeOK, AllFit, NEW s \in Side, NEW j \in 1 .. opened[s],
         NEW e, NEW got \in Nat, Hears(e, View(s, j), got)
  PROVE  /\ Attuned(e, s, j)
         /\ PlaceIn(s, j, 1 + got + Units(e.read_closed), e.recv_nxt)
  <1>1. PICK d : d = View(s, j)
    OBVIOUS
  <1>2. d \in Views /\ d.first = Isn[s][j] /\ d.total = sent[s][j]
    BY <1>1, ViewType, ViewFields
  <1>3. sent[s][j] <= WriteLimit[s] /\ opened[s] <= Len(Isn[s])
    BY DEF AllFit, Fits
  <1>4. PICK k \in Nat : k = 1 + got + Units(e.read_closed)
    BY DEF Units
  <1>5. e.state # "SynSent" /\ e.recv_nxt = Plus(Isn[s][j], k) /\ k <= d.end
    BY <1>1, <1>2, <1>4 DEF Hears
  <1>6. d.end \in Nat /\ d.end <= 2 + d.total /\ d.total \in Nat /\ WriteLimit[s] \in Nat
    BY <1>2, PairAssumption DEF Views
  <1>7. k \in Places(s)
    <2>1. k <= 2 + WriteLimit[s]
      BY <1>2, <1>3, <1>5, <1>6
    <2>2. QED BY <1>6, <2>1 DEF Places
  <1>8. j \in 1 .. Len(Isn[s])
    <2>1. opened[s] \in Nat /\ Len(Isn[s]) \in Nat
      BY PairAssumption DEF TypeOK
    <2>2. QED BY <1>3, <2>1
  <1>9. PlaceIn(s, j, k, e.recv_nxt)
    BY <1>5, <1>7, <1>8 DEF PlaceIn
  <1>10. QED BY <1>4, <1>5, <1>7, <1>9 DEF Attuned, InStream

\* A connection whose handshake has an answer waits for the place it reached.
LEMMA ConnReaches ==
  ASSUME StreamsApart, TypeOK, StreamsKept, NEW s \in Side, Connected(s),
         conn[s].state # "SynSent"
  PROVE  /\ \E j \in 1 .. opened[Peer(s)] : Attuned(conn[s], Peer(s), j)
         /\ \A j : Attuned(conn[s], Peer(s), j) => PlaceIn(Peer(s), j, Reached(s), conn[s].recv_nxt)
  <1>1. PICK p \in Side : p = Peer(s)
    BY TwoSides
  <1>2. PICK j \in 1 .. opened[p] : Follows(s, opened[s], j)
    BY <1>1 DEF StreamsKept, AllAttend, Attends
  <1>3. PICK got \in Nat : got = Len(received[s][opened[s]])
    BY LastStream
  <1>4. Hears(conn[s], View(p, j), got)
    BY <1>1, <1>2, <1>3 DEF Follows, Current
  <1>5. Attuned(conn[s], p, j) /\ PlaceIn(p, j, Reached(s), conn[s].recv_nxt)
    BY <1>3, <1>4, HearsPlace DEF StreamsKept, Reached
  <1>6. QED BY <1>1, <1>5, AttunedOnce

\* A segment in flight stands in a stream of its sender and acknowledges one of
\* its receiver.
LEMMA FlightPlaces ==
  ASSUME StreamsApart, TypeOK, StreamsKept, NEW s \in Side, NEW x \in BagToSet(net[s]),
         "RST" \notin x.flags
  PROVE  \E j \in 1 .. opened[Peer(s)] :
           /\ InStream(Peer(s), j, x.seq)
           /\ "SYN" \in x.flags => PlaceIn(Peer(s), j, 0, x.seq)
           /\ x.ack # None =>
                \E i \in 1 .. opened[s] : \E a \in Places(s) :
                  PlaceIn(s, i, a, x.ack) /\ Quotes(Peer(s), j, i, a)
  <1>1. PICK p \in Side : p = Peer(s) /\ Peer(p) = s
    BY TwoSides
  <1>2. PICK j \in 1 .. opened[p] : Spoken(x, View(p, j)) /\ (x.ack # None => Acks(p, j, x.ack))
    BY <1>1, GenuineInFlight DEF StreamsKept
  <1>3. \A t \in Side : opened[t] \in Nat /\ Len(Isn[t]) \in Nat /\ opened[t] <= Len(Isn[t])
    BY PairAssumption DEF StreamsKept, AllFit, Fits, TypeOK
  <1>4. \A t \in Side : \A k \in 1 .. opened[t] : k \in 1 .. Len(Isn[t])
    BY <1>3
  <1>5. \A t \in Side : \A k \in 1 .. opened[t] :
          /\ sent[t][k] \in Nat /\ sent[t][k] <= WriteLimit[t] /\ WriteLimit[t] \in Nat
    BY PairAssumption, ViewType DEF StreamsKept, AllFit, Fits
  <1>6. InStream(p, j, x.seq) /\ ("SYN" \in x.flags => PlaceIn(p, j, 0, x.seq))
    <2>1. PICK d : d = View(p, j)
      OBVIOUS
    <2>2. d \in Views /\ d.first = Isn[p][j] /\ d.total <= WriteLimit[p]
      BY <1>5, <2>1, ViewType, ViewFields DEF StreamsKept
    <2>3. QED BY <1>2, <1>4, <2>1, <2>2, SpokenPlace
  <1>7. ASSUME x.ack # None
        PROVE  \E i \in 1 .. opened[s] : \E a \in Places(s) :
                 PlaceIn(s, i, a, x.ack) /\ Quotes(p, j, i, a)
    <2>1. PICK i \in 1 .. opened[s] : \E a \in 1 .. 2 + sent[s][i] : x.ack = Plus(Isn[s][i], a)
      BY <1>1, <1>2, <1>7 DEF Acks
    <2>2. PICK a : a \in 1 .. 2 + sent[s][i] /\ x.ack = Plus(Isn[s][i], a)
      BY <2>1
    <2>3. a \in Places(s)
      <3>1. PICK m \in Nat : m = sent[s][i] /\ m <= WriteLimit[s] /\ WriteLimit[s] \in Nat
        BY <1>5
      <3>2. QED BY <2>2, <3>1 DEF Places
    <2>4. PlaceIn(s, i, a, x.ack)
      BY <1>4, <2>2, <2>3 DEF PlaceIn
    <2>5. Quotes(p, j, i, a)
      BY <1>1, <1>6, <2>4 DEF Quotes
    <2>6. QED BY <2>3, <2>4, <2>5
  <1>8. QED BY <1>1, <1>6, <1>7

-----------------------------------------------------------------------------
(* A method runs                                                           *)

\* The place the connection of s waits for once it is e.
Taking(s, e) == 1 + Len(received'[s][opened[s]]) + Units(e.read_closed)

\* What hears a stream goes on hearing it, and waits for the place it took in up to.
LEMMA RunsTunes ==
  ASSUME StreamsApart, TypeOK, StreamsKept, NEW s \in Side, NEW u, NEW more, NEW n,
         Runs(s, u, more, n), NEW e, e = u.conn
  PROVE  /\ e.state # "SynSent" =>
              /\ \E j \in 1 .. opened[Peer(s)] : Attuned(e, Peer(s), j)
              /\ \A j : Attuned(e, Peer(s), j) => PlaceIn(Peer(s), j, Taking(s, e), e.recv_nxt)
         /\ conn[s].state # "SynSent" =>
              /\ e.state # "SynSent"
              /\ \A j : Attuned(conn[s], Peer(s), j) => Attuned(e, Peer(s), j)
  <1>1. PICK p \in Side : p = Peer(s)
    BY TwoSides
  <1>2. PICK i : i = opened[s]
    OBVIOUS
  <1>3. Connected(s) /\ AllFit /\ AllAttend /\ i \in 1 .. opened[s] /\ i \in Nat
    BY <1>2, RunsFields DEF Runs, StreamsKept
  <1>4. received'[s][i] \in Seq(Byte)
    <2>1. received[s][i] \in Seq(Byte) /\ received'[s][i] = received[s][i] \o more
      BY <1>2, <1>3, RunsFields
    <2>2. more \in Seq(Byte)
      BY DEF Runs
    <2>3. QED BY <2>1, <2>2
  <1>5. PICK got \in Nat : got = Len(received'[s][i])
    BY <1>4
  <1>6. ASSUME e.state # "SynSent"
        PROVE  \E j \in 1 .. opened[p] :
                 Attuned(e, p, j) /\ PlaceIn(p, j, Taking(s, e), e.recv_nxt)
    <2>1. PICK j \in 1 .. opened[p] : Hears(e, View(p, j), got)
      BY <1>1, <1>2, <1>3, <1>5, <1>6, RunsHears
    <2>2. Attuned(e, p, j) /\ PlaceIn(p, j, 1 + got + Units(e.read_closed), e.recv_nxt)
      BY <1>3, <2>1, HearsPlace
    <2>3. QED BY <1>2, <1>5, <2>1, <2>2 DEF Taking
  <1>7. ASSUME conn[s].state # "SynSent"
        PROVE  e.state # "SynSent" /\ \A j : Attuned(conn[s], p, j) => Attuned(e, p, j)
    <2>1. PICK k \in 1 .. opened[p] : Follows(s, i, k)
      BY <1>1, <1>2, <1>3, <1>7 DEF AllAttend, Attends
    <2>2. PICK m \in Nat : Hears(e, View(p, k), Len(received[s][i]) + m)
      BY <1>1, <1>2, <1>3, <2>1, RunsFollows
    <2>3. PICK had \in Nat : had = Len(received[s][i])
      <3>1. received[s][i] \in Seq(Byte)
        BY <1>2, <1>3, LastStream
      <3>2. QED BY <3>1
    <2>4. Attuned(e, p, k)
      <3>1. had + m \in Nat /\ Hears(e, View(p, k), had + m)
        BY <2>2, <2>3
      <3>2. QED BY <1>3, <3>1, HearsPlace
    <2>5. Attuned(conn[s], p, k)
      <3>1. Hears(conn[s], View(p, k), had)
        BY <1>1, <1>2, <1>3, <2>1, <2>3 DEF Follows, Current
      <3>2. QED BY <1>3, <3>1, HearsPlace
    <2>6. e.state # "SynSent"
      BY <2>4 DEF Attuned
    <2>7. ASSUME NEW j, Attuned(conn[s], p, j) PROVE Attuned(e, p, j)
      <3>1. j = k
        BY <2>5, <2>7, AttunedOnce
      <3>2. QED BY <2>4, <3>1
    <2>8. QED BY <2>6, <2>7
  <1>8. ASSUME e.state # "SynSent", NEW j, Attuned(e, p, j)
        PROVE  PlaceIn(p, j, Taking(s, e), e.recv_nxt)
    <2>1. PICK k \in 1 .. opened[p] : Attuned(e, p, k) /\ PlaceIn(p, k, Taking(s, e), e.recv_nxt)
      BY <1>6, <1>8
    <2>2. j = k
      BY <1>8, <2>1, AttunedOnce
    <2>3. QED BY <2>1, <2>2
  <1>9. QED BY <1>1, <1>6, <1>7, <1>8

\* It does not wait for an earlier place than before.
LEMMA RunsReaches ==
  ASSUME TypeOK, NEW s \in Side, NEW u, NEW more, NEW n, Runs(s, u, more, n), NEW e, e = u.conn,
         conn[s].read_closed => e.read_closed
  PROVE  /\ Reached(s) \in Nat /\ Taking(s, e) \in Nat
         /\ 1 <= Reached(s) /\ Reached(s) <= Taking(s, e)
  <1>1. PICK i : i = opened[s]
    OBVIOUS
  <1>2. /\ Connected(s) /\ i \in 1 .. opened[s] /\ more \in Seq(Byte)
        /\ received[s][i] \in Seq(Byte) /\ received'[s][i] = received[s][i] \o more
    <2>1. Connected(s) /\ more \in Seq(Byte)
      BY DEF Runs
    <2>2. QED BY <1>1, <2>1, RunsFields
  <1>3. PICK had \in Nat, m \in Nat : had = Len(received[s][i]) /\ m = Len(more)
    BY <1>2
  <1>4. Len(received'[s][i]) = had + m
    BY <1>2, <1>3
  <1>5. PICK a \in Nat, b \in Nat :
          a = Units(conn[s].read_closed) /\ b = Units(e.read_closed) /\ a <= b
    BY DEF Units
  <1>6. Reached(s) = 1 + had + a /\ Taking(s, e) = 1 + (had + m) + b
    BY <1>1, <1>3, <1>4, <1>5 DEF Reached, Taking
  <1>7. 1 + had + a \in Nat /\ 1 + (had + m) + b \in Nat
        /\ 1 <= 1 + had + a /\ 1 + had + a <= 1 + (had + m) + b
    <2>1. a <= b
      BY <1>5
    <2>2. 1 + had + a \in Nat /\ 1 <= 1 + had + a /\ 1 + (had + m) + b \in Nat
      OBVIOUS
    <2>3. 1 + had + a <= 1 + (had + m) + b
      BY <2>1
    <2>4. QED BY <2>2, <2>3
  <1>8. QED BY <1>6, <1>7

\* A word is none of nothing.
LEMMA PlaceIsSome ==
  ASSUME NEW s \in Side, NEW i, NEW a, NEW x, PlaceIn(s, i, a, x)
  PROVE  x \in SeqNumber /\ x # None
  <1>1. Isn[s][i] \in SeqNumber /\ a \in Nat
    BY PairAssumption DEF PlaceIn, Places
  <1>2. Plus(Isn[s][i], a) \in SeqNumber
    BY <1>1, SeqNumberIsNat, PlusType
  <1>3. None \notin SeqNumber
    BY DEF None, SeqNumber
  <1>4. QED BY <1>2, <1>3 DEF PlaceIn

\* Only the connection that steps says more, and it says what it hears.
LEMMA RunsQuotes ==
  ASSUME StreamsApart, TypeOK, StreamsKept, NEW s \in Side, NEW u, NEW more, NEW n,
         Runs(s, u, more, n), NEW e, e = u.conn,
         NEW r \in Side, NEW i, NEW j, NEW a, Quotes(r, i, j, a)'
  PROVE  \/ Quotes(r, i, j, a)
         \/ /\ r = s /\ i = opened[s]
            /\ \/ Attuned(conn[s], Peer(s), j) /\ a = Reached(s)
               \/ Attuned(e, Peer(s), j) /\ a = Taking(s, e)
  <1>1. PICK p \in Side : p = Peer(s)
    BY TwoSides
  <1>2. PICK o : o = opened[s]
    OBVIOUS
  <1>3. /\ Connected(s) /\ AllFit /\ AllAttend /\ o \in 1 .. opened[s] /\ o \in Nat
        /\ opened'[s] = opened[s] /\ opened'[p] = opened[p]
    BY <1>1, <1>2, RunsFields DEF Runs, StreamsKept, Unaffected
  <1>4. PICK x \in BagToSet(net'[Peer(r)]) :
          "RST" \notin x.flags /\ InStream(r, i, x.seq) /\ PlaceIn(Peer(r), j, a, x.ack)
    BY DEF Quotes, InStream, PlaceIn, Places
  <1>5. i \in 1 .. opened[r] /\ j \in 1 .. opened[Peer(r)]
    <2>1. i \in 1 .. opened'[r] /\ j \in 1 .. opened'[Peer(r)]
      BY DEF Quotes
    <2>2. r = s \/ r = p
      BY <1>1, TwoSides
    <2>3. Peer(p) = s
      BY <1>1, TwoSides
    <2>4. QED BY <1>1, <1>3, <2>1, <2>2, <2>3
  <1>6. CASE x \in BagToSet(net[Peer(r)])
    BY <1>4, <1>5, <1>6 DEF Quotes
  <1>7. CASE Peer(r) = p /\ \E k \in 1 .. Len(u.segments) : x = u.segments[k]
    <2>1. r = s
      BY <1>1, <1>7, TwoSides
    <2>2. PICK k \in 1 .. Len(u.segments) : x = u.segments[k]
      BY <1>7
    <2>3. PICK d : d = ViewOf(e, Isn[s][o], o)
      OBVIOUS
    <2>4. Utters(u.segments, d, Heard(conn[s]) \cup Heard(e))
      BY <1>2, <2>3 DEF Runs, Speaks
    <2>5. Spoken(x, d) /\ x.ack \in Heard(conn[s]) \cup Heard(e)
      BY <1>4, <2>2, <2>4 DEF Utters, Utterance
    <2>6. d \in Views /\ d.first = Isn[s][o] /\ o \in 1 .. Len(Isn[s])
      <3>1. d \in Views
        BY <1>2, <1>3, <2>3, RunsGrows
      <3>2. Len(Isn[s]) \in Nat /\ opened[s] <= Len(Isn[s])
        BY <1>3, PairAssumption DEF AllFit, Fits
      <3>3. QED BY <1>2, <1>3, <2>3, <3>1, <3>2 DEF ViewOf
    <2>7. d.total <= WriteLimit[s]
      <3>1. e.accepted = conn[s].accepted + n /\ sent[s][o] + n <= WriteLimit[s]
        BY <1>2 DEF Runs
      <3>2. conn[s].accepted = sent[s][o]
        BY <1>2, <1>3 DEF AllFit, Fits
      <3>3. QED BY <2>3, <3>1, <3>2 DEF ViewOf
    <2>8. i = o
      <3>1. InStream(s, o, x.seq)
        BY <2>5, <2>6, <2>7, SpokenPlace
      <3>2. QED BY <1>4, <2>1, <3>1, OneStream
    <2>9. PlaceIn(p, j, a, x.ack) /\ j \in 1 .. opened[p] /\ a \in Places(p) /\ x.ack # None
      BY <1>1, <1>4, <1>5, <2>1, PlaceIsSome DEF PlaceIn
    <2>10. CASE conn[s].state # "SynSent" /\ x.ack = conn[s].recv_nxt
      <3>1. Attuned(conn[s], p, j)
        BY <2>9, <2>10 DEF Attuned, InStream
      <3>2. PlaceIn(p, j, Reached(s), conn[s].recv_nxt)
        BY <1>1, <1>3, <2>10, <3>1, ConnReaches
      <3>3. a = Reached(s)
        BY <2>9, <2>10, <3>2, OnePlace
      <3>4. QED BY <1>1, <1>2, <2>1, <2>8, <3>1, <3>3
    <2>11. CASE e.state # "SynSent" /\ x.ack = e.recv_nxt
      <3>1. Attuned(e, p, j)
        BY <2>9, <2>11 DEF Attuned, InStream
      <3>2. PlaceIn(p, j, Taking(s, e), e.recv_nxt)
        BY <1>1, <2>11, <3>1, RunsTunes
      <3>3. a = Taking(s, e)
        BY <2>9, <2>11, <3>2, OnePlace
      <3>4. QED BY <1>1, <1>2, <2>1, <2>8, <3>1, <3>3
    <2>12. QED BY <2>5, <2>9, <2>10, <2>11 DEF Heard
  <1>8. Carries(s, u.segments) /\ Peer(r) \in Side
    BY TwoSides DEF Runs
  <1>9. QED BY <1>1, <1>4, <1>6, <1>7, <1>8 DEF Carries

-----------------------------------------------------------------------------
(* What the handshake rests on                                             *)

\* What a method does to the handshake of s: it neither ends nor takes bytes in
\* meanwhile, or a segment in flight names the place that is acknowledged now.
Minds(s, u, more) ==
  /\ conn[s].read_closed => u.conn.read_closed
  /\ \/ /\ Still(conn[s], u.conn)
        /\ u.conn.state \in Opening => more = <<>> /\ u.conn.read_closed = conn[s].read_closed
     \/ \E seg \in BagToSet(net[s]) : Hark(conn[s], u.conn, seg)

\* No connection is told of another that has not itself heard of it, and the later
\* of two connections of a side is not told of the earlier one of its peer.
BondsAgree ==
  /\ \A s \in Side : \A i, j : Bond(s, i, j) /\ Current(s, i) => Tuned(s, i, j)
  /\ \A s \in Side : \A i, j, k, l : Bond(s, i, j) /\ Bond(Peer(s), l, k) /\ i < k => ~(l < j)

\* The opener's SYN-ACK ends its handshake only with the connection it came from,
\* and what the listener acknowledges beyond the SYN it got after that.
HandshakesAgree ==
  /\ \A i, j : Bond(Opener, i, j) /\ Current(Acceptor, j) => Tuned(Acceptor, j, i)
  /\ \A i, j : \A a \in Places(Opener) :
       2 <= a /\ Quotes(Acceptor, j, i, a) /\ Current(Opener, i) => Tuned(Opener, i, j)
  /\ Connected(Opener) => conn[Opener].state # "SynReceived"
  /\ \A s \in Side : Connected(s) /\ conn[s].state \in Opening =>
       received[s][opened[s]] = <<>> /\ ~conn[s].read_closed

\* No more is quoted, or counted as acknowledged, than is taken in.
AcksAgree ==
  /\ \A s \in Side : \A i, j : \A a \in Places(Peer(s)) :
       Quotes(s, i, j, a) /\ Current(s, i) => a <= Reached(s)
  /\ \A s \in Side : \A i, j : \A a \in Places(s) :
       Synchronized(s) /\ Tuned(s, i, j) /\ Current(Peer(s), j)
         /\ PlaceIn(s, i, a, conn[s].send_una) => a <= Reached(Peer(s))

BondsKept == BondsAgree /\ HandshakesAgree /\ AcksAgree

\* The place up to which a connection is acknowledged.
LEMMA UnaPlace ==
  ASSUME StreamsApart, NEW s \in Side, NEW i \in 1 .. Len(Isn[s]), NEW d \in Conn,
         Tells(d, Isn[s][i], i), d.accepted <= WriteLimit[s]
  PROVE  PlaceIn(s, i, Distance(Isn[s][i], d.send_una), d.send_una)
  <1>1. PICK first \in SeqNumber : first = Isn[s][i]
    BY PairAssumption
  <1>2. Numbered(d, first) /\ Confirmed(d, first) /\ d.send_una \in SeqNumber
    BY <1>1 DEF Tells, Conn
  <1>3. PICK e \in Nat : e = Distance(first, d.send_nxt) /\ e <= 2 + d.accepted
    BY <1>1, <1>2, NumberedFacts
  <1>4. PICK a \in Nat : a = Distance(first, d.send_una) /\ Plus(first, a) = d.send_una
    BY <1>2, PlusOfDistance, ModulusAssumption
  <1>5. a <= e
    BY <1>2, <1>3, <1>4 DEF Confirmed
  <1>6. a \in Places(s)
    <2>1. PICK w \in Nat : w = WriteLimit[s]
      BY PairAssumption
    <2>2. d.accepted \in Nat
      BY DEF Conn
    <2>3. a <= 2 + w
      BY <1>3, <1>5, <2>1, <2>2
    <2>4. QED BY <2>1, <2>3 DEF Places
  <1>7. QED BY <1>1, <1>4, <1>6 DEF PlaceIn

\* The segment that ends a handshake, or acknowledges, quotes the connection.
LEMMA HarkSource ==
  ASSUME StreamsApart, TypeOK, StreamsKept, NEW s \in Side, NEW u, NEW more, NEW n,
         Runs(s, u, more, n), NEW e, e = u.conn,
         NEW seg \in BagToSet(net[s]), Hark(conn[s], e, seg)
  PROVE  \E i \in 1 .. opened[Peer(s)] : \E a \in Places(s) :
           /\ Quotes(Peer(s), i, opened[s], a) /\ PlaceIn(s, opened[s], a, e.send_una)
           /\ conn[s].state = "SynSent" => Attuned(e, Peer(s), i)
  <1>1. PICK p \in Side : p = Peer(s)
    BY TwoSides
  <1>2. PICK o : o = opened[s]
    OBVIOUS
  <1>3. /\ Connected(s) /\ AllFit /\ o \in 1 .. opened[s] /\ o \in Nat
        /\ o \in 1 .. Len(Isn[s])
    <2>1. Connected(s) /\ AllFit /\ o \in 1 .. opened[s] /\ o \in Nat
      BY <1>2, RunsFields DEF Runs, StreamsKept
    <2>2. Len(Isn[s]) \in Nat /\ opened[s] <= Len(Isn[s])
      BY <2>1, PairAssumption DEF AllFit, Fits
    <2>3. QED BY <1>2, <2>1, <2>2
  <1>4. /\ e \in Conn /\ Tells(e, Isn[s][o], o) /\ e.accepted <= WriteLimit[s]
    <2>1. e \in Conn /\ Tells(e, Isn[s][o], o) /\ e.accepted = conn[s].accepted + n
          /\ sent[s][o] + n <= WriteLimit[s]
      BY <1>2 DEF Runs, Speaks
    <2>2. conn[s].accepted = sent[s][o]
      BY <1>2, <1>3 DEF AllFit, Fits
    <2>3. QED BY <2>1, <2>2
  <1>5. InStream(s, o, e.send_una)
    BY <1>3, <1>4, UnaPlace DEF InStream, PlaceIn
  <1>6. /\ "RST" \notin seg.flags /\ seg.ack = e.send_una /\ e.state # "SynSent"
        /\ conn[s].state = "SynSent" => "SYN" \in seg.flags /\ e.recv_nxt = Plus(seg.seq, 1)
    BY DEF Hark, Opening
  <1>7. PICK j \in 1 .. opened[p] :
          /\ "SYN" \in seg.flags => PlaceIn(p, j, 0, seg.seq)
          /\ seg.ack # None => \E i \in 1 .. opened[s] : \E a \in Places(s) :
                                 PlaceIn(s, i, a, seg.ack) /\ Quotes(p, j, i, a)
    BY <1>1, <1>6, FlightPlaces
  <1>8. seg.ack # None
    BY <1>4, <1>6, NoneIsNoSequenceNumber DEF Conn
  <1>9. PICK i \in 1 .. opened[s] : \E a \in Places(s) :
          PlaceIn(s, i, a, seg.ack) /\ Quotes(p, j, i, a)
    BY <1>7, <1>8
  <1>10. PICK a \in Places(s) : PlaceIn(s, i, a, seg.ack) /\ Quotes(p, j, i, a)
    BY <1>9
  <1>11. i = o
    <2>1. InStream(s, i, e.send_una)
      BY <1>6, <1>10 DEF InStream
    <2>2. QED BY <1>5, <2>1, OneStream
  <1>12. ASSUME conn[s].state = "SynSent" PROVE Attuned(e, p, j)
    <2>1. PlaceIn(p, j, 0, seg.seq) /\ e.recv_nxt = Plus(seg.seq, 1)
      BY <1>6, <1>7, <1>12
    <2>2. Isn[p][j] \in SeqNumber /\ j \in 1 .. Len(Isn[p])
      BY <2>1, PairAssumption DEF PlaceIn
    <2>3. e.recv_nxt = Plus(Isn[p][j], 1)
      BY <2>1, <2>2, PlusZero DEF PlaceIn
    <2>4. 1 \in Places(p)
      BY PairAssumption DEF Places
    <2>5. QED BY <1>6, <2>2, <2>3, <2>4 DEF Attuned, InStream, PlaceIn
  <1>13. QED BY <1>1, <1>2, <1>6, <1>10, <1>11, <1>12

\* The connection of s hears the same stream before and after, but for the end of
\* its handshake.
LEMMA RunsTuned ==
  ASSUME StreamsApart, TypeOK, StreamsKept, NEW s \in Side, NEW u, NEW more, NEW n,
         Runs(s, u, more, n), NEW e, e = u.conn
  PROVE  /\ \A r \in Side : \A i : Current(r, i)' => Current(r, i)
         /\ Connected(s)' => conn'[s] = e
         /\ \A r \in Side : \A i, j : Tuned(r, i, j) /\ Current(r, i)' => Tuned(r, i, j)'
         /\ \A r \in Side : \A i, j : Tuned(r, i, j)' =>
              \/ Tuned(r, i, j)
              \/ r = s /\ i = opened[s] /\ conn[s].state = "SynSent" /\ Attuned(e, Peer(s), j)
         /\ \A j : conn[s].state # "SynSent" /\ Attuned(e, Peer(s), j) => Tuned(s, opened[s], j)
         /\ \A i, j : Attuned(e, Peer(s), j) /\ Current(s, i)' => Tuned(s, i, j)'
  <1>1. PICK p \in Side : p = Peer(s) /\ Peer(p) = s /\ p # s
    BY TwoSides
  <1>2. /\ Connected(s) /\ opened'[s] = opened[s] /\ opened'[p] = opened[p] /\ conn'[p] = conn[p]
        /\ conn'[s] = (IF u.closed THEN NoConn ELSE u.conn)
    BY <1>1 DEF Runs, Unaffected
  <1>3. Connected(s)' => conn'[s] = e
    BY <1>2 DEF Connected
  <1>4. \A r \in Side : r = s \/ r = p
    BY <1>1, TwoSides
  <1>5. \A r \in Side : \A i : Current(r, i)' => Current(r, i)
    BY <1>2, <1>4 DEF Current, Connected
  <1>6. \A d, j : \A r \in Side : Attuned(d, r, j)' <=> Attuned(d, r, j)
    BY <1>2, <1>4 DEF Attuned, InStream, PlaceIn, Places
  <1>7. ASSUME NEW i, NEW j, Attuned(e, p, j), Current(s, i)' PROVE Tuned(s, i, j)'
    <2>1. conn'[s] = e
      BY <1>3, <1>7 DEF Current
    <2>2. Attuned(conn[s], p, j)'
      BY <1>2, <1>7, <2>1 DEF Attuned, InStream, PlaceIn, Places
    <2>3. QED BY <1>1, <1>7, <2>2 DEF Tuned
  <1>8. ASSUME NEW j, conn[s].state # "SynSent", Attuned(e, p, j) PROVE Tuned(s, opened[s], j)
    <2>1. PICK k \in 1 .. opened[p] : Attuned(conn[s], p, k)
      BY <1>1, <1>2, <1>8, ConnReaches
    <2>2. Attuned(e, p, k)
      BY <1>1, <1>8, <2>1, RunsTunes
    <2>3. j = k
      BY <1>8, <2>2, AttunedOnce
    <2>4. QED BY <1>1, <1>2, <2>1, <2>3 DEF Tuned, Current
  <1>9. ASSUME NEW r \in Side, NEW i, NEW j, Tuned(r, i, j), Current(r, i)'
        PROVE  Tuned(r, i, j)'
    <2>1. CASE r = s
      <3>1. Attuned(conn[s], p, j) /\ conn[s].state # "SynSent"
        BY <1>1, <1>9, <2>1 DEF Tuned, Attuned
      <3>2. Attuned(e, p, j)
        BY <1>1, <3>1, RunsTunes
      <3>3. QED BY <1>7, <1>9, <2>1, <3>2
    <2>2. CASE r = p
      BY <1>1, <1>2, <1>9, <2>2 DEF Tuned, Attuned, InStream, PlaceIn, Places
    <2>3. QED BY <1>4, <2>1, <2>2
  <1>10. ASSUME NEW r \in Side, NEW i, NEW j, Tuned(r, i, j)'
         PROVE  \/ Tuned(r, i, j)
                \/ r = s /\ i = opened[s] /\ conn[s].state = "SynSent" /\ Attuned(e, p, j)
    <2>1. CASE r = s
      <3>1. Current(s, i)' /\ Attuned(conn[s], p, j)'
        BY <1>1, <1>10, <2>1 DEF Tuned
      <3>2. conn'[s] = e /\ i = opened[s]
        BY <1>2, <1>3, <3>1 DEF Current
      <3>3. Attuned(e, p, j)
        BY <1>2, <3>1, <3>2 DEF Attuned, InStream, PlaceIn, Places
      <3>4. QED BY <1>8, <2>1, <3>2, <3>3
    <2>2. CASE r = p
      BY <1>1, <1>2, <1>10, <2>2 DEF Tuned, Current, Connected, Attuned, InStream, PlaceIn, Places
    <2>3. QED BY <1>4, <2>1, <2>2
  <1>11. QED BY <1>1, <1>3, <1>5, <1>7, <1>8, <1>9, <1>10

\* Who is past its handshake was heard of by the connection it hears.
LEMMA RunsBacked ==
  ASSUME StreamsApart, TypeOK, StreamsKept, BondsKept, NEW s \in Side, NEW u, NEW more, NEW n,
         Runs(s, u, more, n), Minds(s, u, more), NEW e, e = u.conn,
         e.state \notin Opening, NEW i, Attuned(e, Peer(s), i)
  PROVE  Bond(Peer(s), i, opened[s])
  <1>1. PICK p \in Side : p = Peer(s) /\ Peer(p) = s /\ p # s
    BY TwoSides
  <1>2. PICK o : o = opened[s]
    OBVIOUS
  <1>3. Connected(s) /\ o \in Nat /\ Current(s, o)
    BY <1>2, RunsFields DEF Runs, Current
  <1>4. ASSUME conn[s].state \notin Opening PROVE Bond(p, i, o)
    <2>1. conn[s].state # "SynSent"
      BY <1>4 DEF Opening
    <2>2. Tuned(s, o, i)
      BY <1>2, <2>1, RunsTuned
    <2>3. Synchronized(s)
      BY <1>3, <1>4 DEF Synchronized, Opening
    <2>4. QED BY <1>1, <2>2, <2>3 DEF Bond
  <1>5. CASE Still(conn[s], e)
    BY <1>4, <1>5, <1>1, <1>2 DEF Still
  <1>6. ASSUME NEW seg \in BagToSet(net[s]), Hark(conn[s], e, seg) PROVE Bond(p, i, o)
    <2>1. PICK k \in 1 .. opened[p] : \E a \in Places(s) :
            Quotes(p, k, o, a) /\ (conn[s].state = "SynSent" => Attuned(e, p, k))
      BY <1>1, <1>2, <1>6, HarkSource
    <2>2. Bond(p, k, o)
      BY <1>1, <2>1 DEF Bond
    <2>3. CASE conn[s].state = "SynSent"
      <3>1. Attuned(e, p, k)
        BY <2>1, <2>3
      <3>2. k = i
        BY <1>1, <3>1, AttunedOnce
      <3>3. QED BY <2>2, <3>2
    <2>4. CASE conn[s].state = "SynReceived"
      <3>1. s # Opener
        BY <1>3, <2>4 DEF BondsKept, HandshakesAgree
      <3>2. s = Acceptor /\ p = Opener
        BY <1>1, <3>1, TwoSides, PairAssumption DEF Acceptor
      <3>3. Tuned(s, o, k)
        BY <1>3, <2>2, <3>2 DEF BondsKept, HandshakesAgree
      <3>4. Attuned(conn[s], p, k)
        BY <1>1, <3>3 DEF Tuned
      <3>5. Attuned(e, p, k)
        BY <1>1, <2>4, <3>4, RunsTunes
      <3>6. k = i
        BY <1>1, <3>5, AttunedOnce
      <3>7. QED BY <2>2, <3>6
    <2>5. QED BY <1>4, <2>3, <2>4 DEF Opening
  <1>7. QED BY <1>1, <1>2, <1>5, <1>6 DEF Minds

\* A step of a connection makes it hear of another only at the end of its handshake.
LEMMA RunsBack ==
  ASSUME StreamsApart, TypeOK, StreamsKept, BondsKept, NEW s \in Side, NEW u, NEW more, NEW n,
         Runs(s, u, more, n), Minds(s, u, more), NEW e, e = u.conn,
         NEW r \in Side, NEW i, NEW j, Bond(r, i, j)'
  PROVE  \/ Bond(r, i, j)
         \/ r = s /\ i = opened[s] /\ conn[s].state = "SynSent" /\ Attuned(e, Peer(s), j)
  <1>1. PICK p \in Side : p = Peer(s) /\ Peer(p) = s /\ p # s
    BY TwoSides
  <1>2. PICK q \in Side : q = Peer(r) /\ (r = s => q = p) /\ (r = p => q = s) /\ Peer(q) = r
    BY <1>1, TwoSides
  <1>3. r = s \/ r = p
    BY <1>1, TwoSides
  <1>4. CASE Tuned(r, i, j)'
    BY <1>4, RunsTuned DEF Bond
  <1>5. CASE \E a \in Places(q) : Quotes(r, i, j, a)'
    <2>1. PICK a \in Places(q) : Quotes(r, i, j, a)'
      BY <1>5
    <2>2. CASE Quotes(r, i, j, a)
      BY <1>2, <2>1, <2>2 DEF Bond
    <2>3. CASE r = s /\ i = opened[s] /\ Attuned(conn[s], p, j)
      <3>1. Tuned(s, i, j)
        BY <1>1, <2>3 DEF Tuned, Current, Runs
      <3>2. QED BY <2>3, <3>1 DEF Bond
    <2>4. CASE r = s /\ i = opened[s] /\ Attuned(e, p, j)
      <3>1. CASE conn[s].state = "SynSent"
        BY <1>1, <2>4, <3>1
      <3>2. CASE conn[s].state # "SynSent"
        <4>1. Tuned(s, i, j)
          BY <1>1, <2>4, <3>2, RunsTuned
        <4>2. QED BY <2>4, <4>1 DEF Bond
      <3>3. QED BY <3>1, <3>2
    <2>5. \/ Quotes(r, i, j, a)
          \/ r = s /\ i = opened[s] /\ (Attuned(conn[s], p, j) \/ Attuned(e, p, j))
      BY <1>1, <2>1, RunsQuotes
    <2>6. QED BY <2>2, <2>3, <2>4, <2>5
  <1>6. CASE Tuned(q, j, i)' /\ Synchronized(q)'
    <2>1. CASE r = s
      <3>1. q = p /\ Synchronized(p)
        BY <1>1, <1>2, <1>6, <2>1 DEF Runs, Unaffected, Synchronized, Connected
      <3>2. Tuned(q, j, i)
        BY <1>1, <1>2, <1>6, <2>1, RunsTuned
      <3>3. QED BY <1>2, <3>1, <3>2 DEF Bond
    <2>2. CASE r = p
      <3>1. q = s /\ Connected(s)' /\ j = opened'[s] /\ Attuned(conn[s], p, i)'
        BY <1>1, <1>2, <1>6, <2>2 DEF Tuned, Current
      <3>2. conn'[s] = e /\ j = opened[s] /\ opened'[p] = opened[p]
        <4>1. opened'[s] = opened[s] /\ opened'[p] = opened[p]
          BY <1>1 DEF Runs, Unaffected
        <4>2. QED BY <3>1, <4>1, RunsTuned
      <3>3. e.state \notin Opening
        BY <1>6, <3>1, <3>2 DEF Synchronized, Opening
      <3>4. Attuned(e, p, i)
        BY <3>1, <3>2 DEF Attuned, InStream, PlaceIn, Places
      <3>5. QED BY <1>1, <2>2, <3>2, <3>3, <3>4, RunsBacked
    <2>3. QED BY <1>3, <2>1, <2>2
  <1>7. QED BY <1>2, <1>4, <1>5, <1>6 DEF Bond

\* It is of connections that were opened.
LEMMA BondRange ==
  ASSUME NEW r \in Side, NEW i, NEW j
  PROVE  /\ TypeOK /\ Bond(r, i, j) => i \in 1 .. opened[r] /\ j \in 1 .. opened[Peer(r)]
         /\ TypeOK' /\ Bond(r, i, j)' => i \in 1 .. opened'[r] /\ j \in 1 .. opened'[Peer(r)]
  <1>1. PICK q \in Side : q = Peer(r) /\ Peer(q) = r
    BY TwoSides
  <1>2. /\ TypeOK /\ Current(r, i) => i \in 1 .. opened[r]
        /\ TypeOK' /\ Current(r, i)' => i \in 1 .. opened'[r]
        /\ TypeOK /\ Current(q, j) => j \in 1 .. opened[q]
        /\ TypeOK' /\ Current(q, j)' => j \in 1 .. opened'[q]
    BY DEF Current, TypeOK
  <1>3. ASSUME TypeOK, Bond(r, i, j) PROVE i \in 1 .. opened[r] /\ j \in 1 .. opened[q]
    BY <1>1, <1>2, <1>3 DEF Bond, Tuned, Attuned, Quotes
  <1>4. ASSUME TypeOK', Bond(r, i, j)' PROVE i \in 1 .. opened'[r] /\ j \in 1 .. opened'[q]
    BY <1>1, <1>2, <1>4 DEF Bond, Tuned, Attuned, Quotes
  <1>5. QED BY <1>1, <1>3, <1>4

\* It stays so that connections know of each other what they should.
LEMMA RunsBondsAgree ==
  ASSUME StreamsApart, TypeOK, TypeOK', StreamsKept, BondsKept, NEW s \in Side, NEW u, NEW more,
         NEW n, Runs(s, u, more, n), Minds(s, u, more)
  PROVE  BondsAgree'
  <1>1. PICK e : e = u.conn
    OBVIOUS
  <1>2. PICK o \in Nat : o = opened[s] /\ o = opened'[s]
    BY RunsFields DEF Runs, TypeOK
  <1>3. ASSUME NEW r \in Side, NEW i, NEW j, Bond(r, i, j)', Current(r, i)'
        PROVE  Tuned(r, i, j)'
    <2>1. CASE Bond(r, i, j)
      <3>1. Current(r, i)
        BY <1>1, <1>3, RunsTuned
      <3>2. Tuned(r, i, j)
        BY <2>1, <3>1 DEF BondsKept, BondsAgree
      <3>3. QED BY <1>1, <1>3, <3>2, RunsTuned
    <2>2. CASE r = s /\ Attuned(e, Peer(s), j)
      BY <1>1, <1>3, <2>2, RunsTuned
    <2>3. QED BY <1>1, <1>3, <2>1, <2>2, RunsBack
  <1>4. ASSUME NEW r \in Side, NEW i, NEW j, NEW k, NEW l, Bond(r, i, j)', Bond(Peer(r), l, k)', i < k
        PROVE  ~(l < j)
    <2>1. PICK q \in Side : q = Peer(r) /\ Peer(q) = r
      BY TwoSides
    <2>2. /\ i \in 1 .. opened'[r] /\ j \in 1 .. opened'[q]
          /\ l \in 1 .. opened'[q] /\ k \in 1 .. opened'[r]
      BY <1>4, <2>1, BondRange
    <2>3. CASE r = s /\ i = o
      BY <1>2, <1>4, <2>2, <2>3
    <2>4. CASE q = s /\ l = o
      BY <1>2, <2>2, <2>4
    <2>5. CASE Bond(r, i, j) /\ Bond(q, l, k)
      BY <1>4, <2>1, <2>5 DEF BondsKept, BondsAgree
    <2>6. QED BY <1>1, <1>2, <1>4, <2>1, <2>3, <2>4, <2>5, RunsBack
  <1>5. QED BY <1>3, <1>4 DEF BondsAgree

\* Before its handshake ends, a connection waits for the byte after the SYN.
LEMMA OpeningReach ==
  ASSUME StreamsApart, TypeOK, StreamsKept, BondsKept, NEW s \in Side, NEW u, NEW more, NEW n,
         Runs(s, u, more, n), Minds(s, u, more), NEW e, e = u.conn
  PROVE  /\ conn[s].state \in Opening => Reached(s) = 1
         /\ e.state \in Opening =>
              /\ e.state = conn[s].state
              /\ received'[s][opened[s]] = <<>> /\ ~e.read_closed /\ Taking(s, e) = 1
  <1>1. PICK o : o = opened[s]
    OBVIOUS
  <1>2. Connected(s)
    BY DEF Runs
  <1>3. received'[s][o] = received[s][o] \o more
    BY <1>1, RunsFields
  <1>4. ASSUME conn[s].state \in Opening
        PROVE  received[s][o] = <<>> /\ ~conn[s].read_closed
    BY <1>1, <1>2, <1>4 DEF BondsKept, HandshakesAgree
  <1>5. ASSUME conn[s].state \in Opening
        PROVE  Reached(s) = 1
    <2>1. Len(received[s][o]) = 0 /\ Units(conn[s].read_closed) = 0
      BY <1>4, <1>5 DEF Units
    <2>2. QED BY <1>1, <2>1 DEF Reached
  <1>6. ASSUME e.state \in Opening
        PROVE  /\ e.state = conn[s].state
               /\ received'[s][o] = <<>> /\ ~e.read_closed /\ Taking(s, e) = 1
    <2>1. \A seg : ~Hark(conn[s], e, seg)
      BY <1>6 DEF Hark
    <2>2. e.state = conn[s].state /\ more = <<>> /\ e.read_closed = conn[s].read_closed
      BY <1>6, <2>1 DEF Minds, Still
    <2>3. received[s][o] = <<>> /\ ~e.read_closed
      BY <1>4, <1>6, <2>2
    <2>4. received'[s][o] = <<>>
      BY <1>3, <2>2, <2>3
    <2>5. Len(received'[s][o]) = 0 /\ Units(e.read_closed) = 0
      BY <2>3, <2>4 DEF Units
    <2>6. Taking(s, e) = 1
      BY <1>1, <2>5 DEF Taking
    <2>7. QED BY <2>2, <2>3, <2>4, <2>6
  <1>7. QED BY <1>1, <1>5, <1>6

\* It stays so that handshakes end with the connection they began with.
LEMMA RunsHandshakes ==
  ASSUME StreamsApart, TypeOK, TypeOK', StreamsKept, BondsKept, NEW s \in Side, NEW u, NEW more,
         NEW n, Runs(s, u, more, n), Minds(s, u, more)
  PROVE  HandshakesAgree'
  <1>1. PICK e : e = u.conn
    OBVIOUS
  <1>2. PICK a \in Side, b \in Side :
          a = Opener /\ b = Acceptor /\ Peer(a) = b /\ Peer(b) = a /\ a # b
    BY TwoSides, PairAssumption DEF Acceptor
  <1>3. Connected(s)' => conn'[s] = e
    BY <1>1, RunsTuned
  <1>4. PICK p \in Side : p = Peer(s) /\ Peer(p) = s /\ p # s
    BY TwoSides
  <1>5. /\ opened'[s] = opened[s] /\ Connected(s)
        /\ conn'[p] = conn[p] /\ opened'[p] = opened[p] /\ received'[p] = received[p]
    BY <1>4 DEF Runs, Unaffected
  <1>6. /\ e.state \in Opening =>
             e.state = conn[s].state /\ received'[s][opened[s]] = <<>> /\ ~e.read_closed
        /\ e.state \in Opening => Taking(s, e) = 1
        /\ conn[s].state \in Opening => Reached(s) = 1
    BY <1>1, OpeningReach
  <1>7. \A r \in Side : r = s \/ r = p
    BY <1>4, TwoSides
  <1>8. ASSUME NEW i, NEW j, Bond(a, i, j)', Current(b, j)' PROVE Tuned(b, j, i)'
    <2>1. Current(b, j)
      BY <1>1, <1>8, RunsTuned
    <2>2. CASE Bond(a, i, j)
      <3>1. Tuned(b, j, i)
        BY <1>2, <2>1, <2>2 DEF BondsKept, HandshakesAgree
      <3>2. QED BY <1>1, <1>8, <3>1, RunsTuned
    <2>3. CASE a = s /\ i = opened[s] /\ conn[s].state = "SynSent" /\ Attuned(e, b, j)
      <3>1. e.state # "SynSent"
        BY <2>3 DEF Attuned
      <3>2. e.state \notin Opening
        BY <1>6, <2>3, <3>1
      <3>3. Bond(b, j, i)
        BY <1>1, <1>2, <2>3, <3>2, RunsBacked
      <3>4. Tuned(b, j, i)
        BY <2>1, <3>3 DEF BondsKept, BondsAgree
      <3>5. QED BY <1>1, <1>8, <3>4, RunsTuned
    <2>4. QED BY <1>1, <1>2, <1>8, <2>2, <2>3, RunsBack
  <1>9. ASSUME NEW i, NEW j, NEW m \in Places(a), 2 <= m, Quotes(b, j, i, m)', Current(a, i)'
        PROVE  Tuned(a, i, j)'
    <2>1. Current(a, i)
      BY <1>1, <1>9, RunsTuned
    <2>2. Tuned(a, i, j)
      <3>1. CASE Quotes(b, j, i, m)
        BY <1>2, <1>9, <2>1, <3>1 DEF BondsKept, HandshakesAgree
      <3>2. CASE b = s /\ j = opened[s] /\ Attuned(conn[s], a, i) /\ m = Reached(s)
        <4>1. conn[s].state \notin Opening
          BY <1>6, <1>9, <3>2
        <4>2. Tuned(b, j, i) /\ Synchronized(b)
          BY <1>2, <1>5, <3>2, <4>1 DEF Tuned, Current, Synchronized, Opening
        <4>3. Bond(a, i, j)
          BY <1>2, <4>2 DEF Bond
        <4>4. QED BY <2>1, <4>3 DEF BondsKept, BondsAgree
      <3>3. CASE b = s /\ j = opened[s] /\ Attuned(e, a, i) /\ m = Taking(s, e)
        <4>1. e.state \notin Opening
          BY <1>6, <1>9, <3>3
        <4>2. Bond(a, i, j)
          BY <1>1, <1>2, <3>3, <4>1, RunsBacked
        <4>3. QED BY <2>1, <4>2 DEF BondsKept, BondsAgree
      <3>4. QED BY <1>1, <1>2, <1>9, <3>1, <3>2, <3>3, RunsQuotes
    <2>3. QED BY <1>1, <1>9, <2>2, RunsTuned
  <1>10. ASSUME Connected(a)' PROVE conn'[a].state # "SynReceived"
    <2>1. CASE a = s
      BY <1>2, <1>3, <1>5, <1>6, <1>10, <2>1 DEF BondsKept, HandshakesAgree, Opening
    <2>2. CASE a = p
      BY <1>2, <1>5, <1>10, <2>2 DEF BondsKept, HandshakesAgree, Connected
    <2>3. QED BY <1>7, <2>1, <2>2
  <1>11. ASSUME NEW r \in Side, Connected(r)', conn'[r].state \in Opening
         PROVE  received'[r][opened'[r]] = <<>> /\ ~conn'[r].read_closed
    <2>1. CASE r = s
      BY <1>3, <1>5, <1>6, <1>11, <2>1
    <2>2. CASE r = p
      BY <1>5, <1>11, <2>2 DEF BondsKept, HandshakesAgree, Connected
    <2>3. QED BY <1>7, <2>1, <2>2
  <1>12. QED BY <1>2, <1>8, <1>9, <1>10, <1>11 DEF HandshakesAgree

\* It is past the SYN.
LEMMA ReachedSome ==
  ASSUME TypeOK, NEW s \in Side, Connected(s)
  PROVE  Reached(s) \in Nat /\ 1 <= Reached(s)
  <1>1. received[s][opened[s]] \in Seq(Byte)
    BY LastStream
  <1>2. PICK had \in Nat, a \in Nat :
          had = Len(received[s][opened[s]]) /\ a = Units(conn[s].read_closed)
    BY <1>1 DEF Units
  <1>3. Reached(s) = 1 + had + a
    BY <1>2 DEF Reached
  <1>4. QED BY <1>2, <1>3

\* The place a side waits for, after a step of s.
LEMMA RunsReached ==
  ASSUME TypeOK, NEW s \in Side, NEW u, NEW more, NEW n,
         Runs(s, u, more, n), NEW e, e = u.conn, conn[s].read_closed => e.read_closed
  PROVE  /\ Reached(Peer(s))' = Reached(Peer(s))
         /\ Connected(s)' => Reached(s)' = Taking(s, e) /\ Reached(s) <= Reached(s)'
  <1>1. PICK p \in Side : p = Peer(s)
    BY TwoSides
  <1>2. /\ opened'[s] = opened[s] /\ conn'[s] = (IF u.closed THEN NoConn ELSE u.conn)
        /\ conn'[p] = conn[p] /\ opened'[p] = opened[p] /\ received'[p] = received[p]
    BY <1>1 DEF Runs, Unaffected
  <1>3. Reached(p)' = Reached(p)
    BY <1>2 DEF Reached
  <1>4. ASSUME Connected(s)' PROVE Reached(s)' = Taking(s, e)
    BY <1>2, <1>4 DEF Reached, Taking, Connected
  <1>5. QED BY <1>1, <1>3, <1>4, RunsReaches

\* It stays so that no more is acknowledged than is taken in.
LEMMA RunsAcks ==
  ASSUME StreamsApart, TypeOK, TypeOK', StreamsKept, BondsKept, NEW s \in Side, NEW u, NEW more,
         NEW n, Runs(s, u, more, n), Minds(s, u, more)
  PROVE  AcksAgree'
  <1>1. PICK e : e = u.conn
    OBVIOUS
  <1>2. PICK p \in Side : p = Peer(s) /\ Peer(p) = s /\ p # s
    BY TwoSides
  <1>3. \A r \in Side : r = s \/ r = p
    BY <1>2, TwoSides
  <1>4. /\ opened'[s] = opened[s] /\ Connected(s)
        /\ conn'[p] = conn[p] /\ opened'[p] = opened[p]
    BY <1>2 DEF Runs, Unaffected
  <1>5. Connected(s)' => conn'[s] = e
    BY <1>1, RunsTuned
  <1>6. conn[s].read_closed => e.read_closed
    BY <1>1 DEF Minds
  <1>7. /\ Reached(s) \in Nat /\ Taking(s, e) \in Nat /\ Reached(s) <= Taking(s, e)
        /\ Reached(p)' = Reached(p) /\ (Connected(s)' => Reached(s)' = Taking(s, e))
    BY <1>1, <1>2, <1>6, RunsReaches, RunsReached
  <1>8. ASSUME NEW r \in Side, NEW i, NEW j, NEW a \in Places(Peer(r)), Quotes(r, i, j, a)',
               Current(r, i)'
        PROVE  a <= Reached(r)'
    <2>1. a \in Nat /\ Current(r, i) /\ Connected(r)'
      <3>1. a \in Nat /\ Connected(r)'
        BY <1>8 DEF Places, Current
      <3>2. QED BY <1>1, <1>8, <3>1, RunsTuned
    <2>2. CASE Quotes(r, i, j, a)
      <3>1. a <= Reached(r)
        BY <1>8, <2>1, <2>2 DEF BondsKept, AcksAgree
      <3>2. CASE r = s
        BY <1>7, <2>1, <3>1, <3>2
      <3>3. CASE r = p
        BY <1>7, <3>1, <3>3
      <3>4. QED BY <1>3, <3>2, <3>3
    <2>3. CASE r = s /\ (a = Reached(s) \/ a = Taking(s, e))
      BY <1>7, <2>1, <2>3
    <2>4. Quotes(r, i, j, a) \/ (r = s /\ (a = Reached(s) \/ a = Taking(s, e)))
      BY <1>1, <1>8, RunsQuotes
    <2>5. QED BY <2>2, <2>3, <2>4
  <1>9. ASSUME NEW i, NEW j, NEW a \in Places(p), Synchronized(p)', Tuned(p, i, j)', Current(s, j)',
               PlaceIn(p, i, a, conn'[p].send_una)
        PROVE  a <= Reached(s)'
    <2>1. Tuned(p, i, j) /\ Current(s, j) /\ Connected(s)'
      BY <1>1, <1>2, <1>9, RunsTuned DEF Current
    <2>2. Synchronized(p) /\ PlaceIn(p, i, a, conn[p].send_una)
      BY <1>4, <1>9 DEF Synchronized, Connected
    <2>3. a <= Reached(s)
      BY <1>2, <2>1, <2>2 DEF BondsKept, AcksAgree
    <2>4. a \in Nat
      BY <1>9 DEF Places
    <2>5. QED BY <1>7, <2>1, <2>3, <2>4
  <1>10. ASSUME NEW i, NEW j, NEW a \in Places(s), Synchronized(s)', Tuned(s, i, j)', Current(p, j)',
                PlaceIn(s, i, a, conn'[s].send_una)
         PROVE  a <= Reached(p)'
    <2>1. PICK o : o = opened[s]
      OBVIOUS
    <2>2. /\ Current(p, j) /\ i = o /\ Connected(s)' /\ Attuned(conn[s], p, j)' /\ Current(s, o)
      <3>1. Current(s, i)' /\ Attuned(conn[s], p, j)'
        BY <1>2, <1>10 DEF Tuned
      <3>2. Current(s, i) /\ Current(p, j)
        BY <1>1, <1>10, <3>1, RunsTuned
      <3>3. QED BY <2>1, <3>1, <3>2 DEF Current
    <2>3. conn'[s] = e /\ e.state \notin Opening
      BY <1>5, <1>10, <2>2 DEF Synchronized, Opening
    <2>4. Attuned(e, p, j)
      BY <1>4, <2>2, <2>3 DEF Attuned, InStream, PlaceIn, Places
    <2>5. a <= Reached(p)
      <3>1. ASSUME conn[s].state # "SynSent" PROVE Tuned(s, o, j)
        BY <1>1, <1>2, <2>1, <2>4, <3>1, RunsTuned
      <3>2. CASE Still(conn[s], e)
        <4>1. conn[s].state \notin Opening /\ e.send_una = conn[s].send_una
          BY <2>3, <3>2 DEF Still
        <4>2. Synchronized(s) /\ Tuned(s, o, j)
          BY <1>4, <3>1, <4>1 DEF Synchronized, Opening
        <4>3. PlaceIn(s, o, a, conn[s].send_una)
          BY <1>10, <2>2, <2>3, <4>1
        <4>4. QED BY <1>2, <2>2, <4>2, <4>3 DEF BondsKept, AcksAgree
      <3>3. ASSUME NEW seg \in BagToSet(net[s]), Hark(conn[s], e, seg) PROVE a <= Reached(p)
        <4>1. PICK k \in 1 .. opened[p] : \E b \in Places(s) :
                /\ Quotes(p, k, o, b) /\ PlaceIn(s, o, b, e.send_una)
                /\ conn[s].state = "SynSent" => Attuned(e, p, k)
          BY <1>1, <1>2, <2>1, <3>3, HarkSource
        <4>2. PICK b \in Places(s) :
                /\ Quotes(p, k, o, b) /\ PlaceIn(s, o, b, e.send_una)
                /\ conn[s].state = "SynSent" => Attuned(e, p, k)
          BY <4>1
        <4>3. b = a
          BY <1>10, <2>2, <2>3, <4>2, OnePlace
        <4>4. CASE k = j
          BY <1>2, <2>2, <4>2, <4>3, <4>4 DEF BondsKept, AcksAgree
        <4>5. CASE conn[s].state = "SynSent"
          <5>1. k = j
            BY <2>4, <4>2, <4>5, AttunedOnce
          <5>2. QED BY <4>4, <5>1
        <4>6. ASSUME conn[s].state # "SynSent", Tuned(s, o, k) PROVE k = j
          <5>1. Tuned(s, o, j)
            BY <3>1, <4>6
          <5>2. Attuned(conn[s], p, j) /\ Attuned(conn[s], p, k)
            BY <1>2, <4>6, <5>1 DEF Tuned
          <5>3. QED BY <5>2, AttunedOnce
        <4>7. CASE conn[s].state # "SynSent" /\ s = Opener
          <5>1. p = Acceptor
            BY <1>2, <4>7 DEF Acceptor
          <5>2. CASE 2 <= a
            <6>1. Tuned(s, o, k)
              BY <2>2, <4>2, <4>3, <4>7, <5>1, <5>2 DEF BondsKept, HandshakesAgree
            <6>2. QED BY <4>4, <4>6, <4>7, <6>1
          <5>3. CASE ~(2 <= a)
            <6>1. a \in Nat
              BY <1>10 DEF Places
            <6>2. Reached(p) \in Nat /\ 1 <= Reached(p)
              BY <1>2, <2>2, ReachedSome DEF Current
            <6>3. QED BY <5>3, <6>1, <6>2
          <5>4. QED BY <5>2, <5>3
        <4>8. CASE conn[s].state # "SynSent" /\ s # Opener
          <5>1. s = Acceptor /\ p = Opener
            BY <1>2, <4>8, TwoSides, PairAssumption DEF Acceptor
          <5>2. Bond(p, k, o)
            BY <1>2, <4>2 DEF Bond
          <5>3. Tuned(s, o, k)
            BY <2>2, <5>1, <5>2 DEF BondsKept, HandshakesAgree
          <5>4. QED BY <4>4, <4>6, <4>8, <5>3
        <4>9. QED BY <4>5, <4>7, <4>8
      <3>4. QED BY <1>1, <3>2, <3>3 DEF Minds
    <2>6. QED BY <1>7, <2>5
  <1>11. ASSUME NEW r \in Side, NEW i, NEW j, NEW a \in Places(r), Synchronized(r)', Tuned(r, i, j)',
                Current(Peer(r), j)', PlaceIn(r, i, a, conn'[r].send_una)
         PROVE  a <= Reached(Peer(r))'
    <2>1. CASE r = s
      BY <1>2, <1>10, <1>11, <2>1
    <2>2. CASE r = p
      BY <1>2, <1>9, <1>11, <2>2
    <2>3. QED BY <1>3, <2>1, <2>2
  <1>12. QED BY <1>8, <1>11 DEF AcksAgree

-----------------------------------------------------------------------------
(* A new connection                                                        *)

\* It has its handshake before it.
Arises(s, u) == u.conn.state \in Opening /\ (s = Opener => u.conn.state = "SynSent")

\* A new connection quotes the SYN it answers, and no other connection anything new.
LEMMA FoundsQuotes ==
  ASSUME StreamsApart, TypeOK, StreamsKept, NEW s \in Side, NEW u, Founds(s, u),
         NEW e, e = u.conn, NEW o, o = opened[s] + 1,
         NEW r \in Side, NEW i, NEW j, NEW a, Quotes(r, i, j, a)'
  PROVE  \/ Quotes(r, i, j, a)
         \/ r = s /\ i = o /\ a = 1 /\ Attuned(e, Peer(s), j)
  <1>1. PICK p \in Side : p = Peer(s)
    BY TwoSides
  <1>2. PICK q \in Side : q = Peer(r) /\ Peer(q) = r
    BY TwoSides
  <1>3. PICK x \in BagToSet(net'[q]) :
          "RST" \notin x.flags /\ InStream(r, i, x.seq) /\ PlaceIn(q, j, a, x.ack)
    BY <1>2 DEF Quotes, InStream, PlaceIn, Places
  <1>4. CASE x \in BagToSet(net[q])
    <2>1. PICK k \in 1 .. opened[r] :
            /\ InStream(r, k, x.seq)
            /\ x.ack # None => \E l \in 1 .. opened[q] : \E b \in Places(q) :
                                 PlaceIn(q, l, b, x.ack) /\ Quotes(r, k, l, b)
      BY <1>2, <1>3, <1>4, FlightPlaces
    <2>2. k = i
      BY <1>3, <2>1, OneStream
    <2>3. x.ack # None
      BY <1>3, PlaceIsSome
    <2>4. PICK l \in 1 .. opened[q] : \E b \in Places(q) :
            PlaceIn(q, l, b, x.ack) /\ Quotes(r, k, l, b)
      BY <2>1, <2>3
    <2>5. PICK b \in Places(q) : PlaceIn(q, l, b, x.ack) /\ Quotes(r, k, l, b)
      BY <2>4
    <2>6. l = j /\ b = a
      BY <1>3, <2>5, OnePlace
    <2>7. QED BY <2>2, <2>5, <2>6
  <1>5. CASE q = p /\ \E k \in 1 .. Len(u.segments) : x = u.segments[k]
    <2>1. r = s
      BY <1>1, <1>2, <1>5, TwoSides
    <2>2. PICK k \in 1 .. Len(u.segments) : x = u.segments[k]
      BY <1>5
    <2>3. /\ o \in Nat /\ o <= Len(Isn[s]) /\ opened[s] \in Nat /\ Isn[s][o] \in SeqNumber
      BY FoundsFields
    <2>4. o \in 1 .. Len(Isn[s])
      <3>1. Len(Isn[s]) \in Nat
        BY PairAssumption
      <3>2. QED BY <2>3, <3>1
    <2>5. PICK d : d = NewView(Isn[s][o], o)
      OBVIOUS
    <2>6. \/ Utters(u.segments, d, {None})
          \/ /\ e.state # "SynSent"
             /\ \E l \in 1 .. opened[p] :
                  /\ Utters(u.segments, d, {None, Plus(Isn[p][l], 1)})
                  /\ Hears(e, View(p, l), 0)
      BY <1>1, <2>5 DEF Founds, Begins
    <2>7. d \in Views /\ d.first = Isn[s][o] /\ d.total <= WriteLimit[s]
      <3>1. WriteLimit[s] \in Nat /\ WriteLimit[s] + 2 + ReceiveBuffer < Modulus
            /\ ReceiveBuffer \in Nat /\ Modulus \in Nat
        BY PairAssumption, ConfigAssumption, ModulusAssumption DEF StreamsApart
      <3>2. 0 + 2 + ReceiveBuffer < Modulus
        BY <3>1
      <3>3. QED BY <2>3, <2>5, <3>1, <3>2 DEF Views, NewView
    <2>8. \A acks : Utters(u.segments, d, acks) => Spoken(x, d) /\ x.ack \in acks
      BY <1>3, <2>2 DEF Utters, Utterance
    <2>9. Spoken(x, d)
      BY <2>6, <2>8
    <2>10. i = o
      <3>1. InStream(s, o, x.seq)
        BY <2>4, <2>7, <2>9, SpokenPlace
      <3>2. QED BY <1>3, <2>1, <3>1, OneStream
    <2>11. x.ack # None
      BY <1>3, PlaceIsSome
    <2>12. PICK l \in 1 .. opened[p] : x.ack = Plus(Isn[p][l], 1) /\ Hears(e, View(p, l), 0)
      <3>1. ~Utters(u.segments, d, {None})
        BY <2>8, <2>11
      <3>2. PICK l \in 1 .. opened[p] :
              Utters(u.segments, d, {None, Plus(Isn[p][l], 1)}) /\ Hears(e, View(p, l), 0)
        BY <2>6, <3>1
      <3>3. x.ack \in {None, Plus(Isn[p][l], 1)}
        BY <2>8, <3>2
      <3>4. QED BY <2>11, <3>2, <3>3
    <2>13. Attuned(e, p, l)
      BY <2>12, HearsPlace DEF StreamsKept
    <2>14. PlaceIn(p, l, 1, x.ack)
      <3>1. l \in 1 .. Len(Isn[p])
        BY <2>13 DEF Attuned, InStream, PlaceIn
      <3>2. 1 \in Places(p)
        BY PairAssumption DEF Places
      <3>3. QED BY <2>12, <3>1, <3>2 DEF PlaceIn
    <2>15. l = j /\ a = 1
      BY <1>3, <1>5, <2>14, OnePlace
    <2>16. QED BY <1>1, <2>1, <2>10, <2>13, <2>15
  <1>6. Carries(s, u.segments)
    BY DEF Founds
  <1>7. QED BY <1>1, <1>2, <1>3, <1>4, <1>5, <1>6 DEF Carries

\* A new connection is heard of by nobody, and leaves who hears whom as it was.
LEMMA FoundsBack ==
  ASSUME StreamsApart, TypeOK, TypeOK', StreamsKept, NEW s \in Side, NEW u, Founds(s, u),
         Arises(s, u), NEW e, e = u.conn, NEW o, o = opened[s] + 1
  PROVE  /\ conn'[s] = e /\ opened'[s] = o /\ Connected(s)'
         /\ \A i : Current(s, i)' => i = o
         /\ \A i : Current(Peer(s), i)' <=> Current(Peer(s), i)
         /\ \A i, j : Tuned(Peer(s), i, j) <=> Tuned(Peer(s), i, j)'
         /\ \A i, j : ~Tuned(s, i, j) /\ (Tuned(s, i, j)' <=> i = o /\ Attuned(e, Peer(s), j))
         /\ \A r \in Side : \A i, j : Bond(r, i, j)' =>
              Bond(r, i, j) \/ (r = s /\ i = o /\ Attuned(e, Peer(s), j))
  <1>1. PICK p \in Side : p = Peer(s) /\ Peer(p) = s /\ p # s
    BY TwoSides
  <1>2. \A r \in Side : r = s \/ r = p
    BY <1>1, TwoSides
  <1>3. /\ ~Connected(s) /\ conn'[s] = e /\ opened'[s] = o
        /\ conn'[p] = conn[p] /\ opened'[p] = opened[p] /\ e \in Conn
    BY <1>1 DEF Founds, Unaffected
  <1>4. opened[s] \in Nat /\ o \in Nat /\ Connected(s)'
    BY FoundsFields
  <1>5. /\ \A i : Current(s, i)' <=> i = o
        /\ \A i : Current(p, i)' <=> Current(p, i)
    BY <1>3, <1>4 DEF Current, Connected
  <1>6. ASSUME NEW i, NEW j PROVE ~Tuned(s, i, j) /\ (Tuned(s, i, j)' <=> i = o /\ Attuned(e, p, j))
    <2>1. ~Tuned(s, i, j)
      BY <1>3 DEF Tuned, Current
    <2>2. Attuned(conn[s], p, j)' <=> Attuned(e, p, j)
      BY <1>3 DEF Attuned, InStream, PlaceIn, Places
    <2>3. QED BY <1>1, <1>5, <2>1, <2>2 DEF Tuned
  <1>7. ASSUME NEW i, NEW j PROVE Tuned(p, i, j) <=> Tuned(p, i, j)'
    <2>1. ASSUME Tuned(p, i, j) PROVE Tuned(p, i, j)'
      <3>1. j \in 1 .. opened[s] /\ Attuned(conn[p], s, j) /\ Current(p, i)
        BY <1>1, <2>1 DEF Tuned, Attuned
      <3>2. j \in 1 .. opened'[s]
        BY <1>3, <1>4, <3>1
      <3>3. Attuned(conn[p], s, j)'
        BY <1>3, <3>1, <3>2 DEF Attuned, InStream, PlaceIn, Places
      <3>4. QED BY <1>1, <1>5, <3>1, <3>3 DEF Tuned
    <2>2. ASSUME Tuned(p, i, j)' PROVE Tuned(p, i, j)
      <3>1. Current(p, i) /\ Attuned(conn[p], s, j)'
        BY <1>1, <1>5, <2>2 DEF Tuned
      <3>2. Connected(p) /\ conn[p].state # "SynSent" /\ InStream(s, j, conn[p].recv_nxt)
        BY <1>3, <3>1 DEF Current, Attuned, InStream, PlaceIn, Places
      <3>3. PICK k \in 1 .. opened[s] : Attuned(conn[p], s, k)
        BY <1>1, <3>2, ConnReaches
      <3>4. k = j
        BY <3>2, <3>3, OneStream DEF Attuned
      <3>5. QED BY <1>1, <3>1, <3>3, <3>4 DEF Tuned
    <2>3. QED BY <2>1, <2>2
  <1>8. ASSUME NEW r \in Side, NEW i, NEW j, Bond(r, i, j)'
        PROVE  Bond(r, i, j) \/ (r = s /\ i = o /\ Attuned(e, p, j))
    <2>1. PICK q \in Side : q = Peer(r) /\ (r = s => q = p) /\ (r = p => q = s)
      BY <1>1, <1>2
    <2>2. CASE Tuned(r, i, j)'
      BY <1>2, <1>6, <1>7, <2>2 DEF Bond
    <2>3. ASSUME NEW a \in Places(q), Quotes(r, i, j, a)'
          PROVE  Bond(r, i, j) \/ (r = s /\ i = o /\ Attuned(e, p, j))
      <3>1. Quotes(r, i, j, a) \/ (r = s /\ i = o /\ Attuned(e, p, j))
        BY <1>1, <2>3, FoundsQuotes
      <3>2. QED BY <2>1, <2>3, <3>1 DEF Bond
    <2>4. CASE Tuned(q, j, i)' /\ Synchronized(q)'
      <3>1. ~Synchronized(s)'
        BY <1>3 DEF Synchronized, Arises, Opening
      <3>2. q = p /\ r = s
        BY <1>2, <2>1, <2>4, <3>1
      <3>3. Tuned(p, j, i) /\ Synchronized(p)
        BY <1>3, <1>7, <2>4, <3>2 DEF Synchronized, Connected
      <3>4. QED BY <1>1, <3>2, <3>3 DEF Bond
    <2>5. \/ Tuned(r, i, j)' \/ \E a \in Places(q) : Quotes(r, i, j, a)'
          \/ Tuned(q, j, i)' /\ Synchronized(q)'
      BY <1>8, <2>1 DEF Bond, Places
    <2>6. QED BY <2>2, <2>3, <2>4, <2>5
  <1>9. QED BY <1>1, <1>3, <1>4, <1>5, <1>6, <1>7, <1>8

\* So the bonds stay right when a connection is created.
LEMMA FoundsBonds ==
  ASSUME StreamsApart, TypeOK, TypeOK', StreamsKept, BondsKept, NEW s \in Side, NEW u,
         Founds(s, u), Arises(s, u)
  PROVE  BondsKept'
  <1>1. PICK e : e = u.conn
    OBVIOUS
  <1>2. PICK o \in Nat : o = opened[s] + 1 /\ opened[s] \in Nat
    BY FoundsFields
  <1>3. PICK p \in Side : p = Peer(s) /\ Peer(p) = s /\ p # s
    BY TwoSides
  <1>4. \A r \in Side : r = s \/ r = p
    BY <1>3, TwoSides
  <1>5. /\ conn'[s] = e /\ opened'[s] = o /\ Connected(s)' /\ received'[s][o] = <<>>
        /\ conn'[p] = conn[p] /\ opened'[p] = opened[p] /\ received'[p] = received[p]
    <2>1. conn'[p] = conn[p] /\ opened'[p] = opened[p] /\ received'[p] = received[p]
      BY <1>3 DEF Founds, Unaffected
    <2>2. QED BY <1>1, <1>2, <2>1, FoundsBack, FoundsFields
  <1>6. e.state \in Opening /\ (s = Opener => e.state = "SynSent") /\ ~e.read_closed
    <2>1. ~e.read_closed
      BY <1>1 DEF Founds, Begins
    <2>2. QED BY <1>1, <2>1 DEF Arises
  <1>7. \A i : Current(s, i)' => i = o
    BY <1>1, <1>2, FoundsBack
  <1>8. \A i : Current(p, i)' <=> Current(p, i)
    BY <1>1, <1>2, <1>3, FoundsBack
  <1>9. \A i, j : Tuned(p, i, j) <=> Tuned(p, i, j)'
    BY <1>1, <1>2, <1>3, FoundsBack
  <1>10. \A i, j : Attuned(e, p, j) /\ i = o => Tuned(s, i, j)'
    BY <1>1, <1>2, <1>3, FoundsBack
  <1>11. \A r \in Side : \A i, j : Bond(r, i, j)' =>
           Bond(r, i, j) \/ (r = s /\ i = o /\ Attuned(e, p, j))
    BY <1>1, <1>2, <1>3, FoundsBack
  <1>12. \A i, j : (Bond(s, i, j) => i # o) /\ (Bond(p, i, j) => j # o)
    <2>1. ASSUME NEW i, NEW j PROVE (Bond(s, i, j) => i # o) /\ (Bond(p, i, j) => j # o)
      BY <1>2, <1>3, BondRange
    <2>2. QED BY <2>1
  <1>13. BondsAgree'
    <2>1. ASSUME NEW r \in Side, NEW i, NEW j, Bond(r, i, j)', Current(r, i)'
          PROVE  Tuned(r, i, j)'
      <3>1. CASE r = s
        <4>1. i = o
          BY <1>7, <2>1, <3>1
        <4>2. Attuned(e, p, j)
          BY <1>11, <1>12, <2>1, <3>1, <4>1
        <4>3. QED BY <1>10, <3>1, <4>1, <4>2
      <3>2. CASE r = p
        <4>1. Bond(p, i, j) /\ Current(p, i)
          BY <1>3, <1>8, <1>11, <2>1, <3>2
        <4>2. Tuned(p, i, j)
          BY <4>1 DEF BondsKept, BondsAgree
        <4>3. QED BY <1>9, <3>2, <4>2
      <3>3. QED BY <1>4, <3>1, <3>2
    <2>2. ASSUME NEW r \in Side, NEW i, NEW j, NEW k, NEW l,
                 Bond(r, i, j)', Bond(Peer(r), l, k)', i < k
          PROVE  ~(l < j)
      <3>1. PICK q \in Side : q = Peer(r) /\ Peer(q) = r
        BY TwoSides
      <3>2. /\ i \in 1 .. opened'[r] /\ j \in 1 .. opened'[q]
            /\ l \in 1 .. opened'[q] /\ k \in 1 .. opened'[r]
        BY <2>2, <3>1, BondRange
      <3>3. CASE r = s /\ i = o
        BY <1>2, <1>5, <2>2, <3>2, <3>3
      <3>4. CASE q = s /\ l = o
        BY <1>2, <1>5, <3>2, <3>4
      <3>5. CASE Bond(r, i, j) /\ Bond(q, l, k)
        BY <2>2, <3>1, <3>5 DEF BondsKept, BondsAgree
      <3>6. QED BY <1>11, <2>2, <3>1, <3>3, <3>4, <3>5
    <2>3. QED BY <2>1, <2>2 DEF BondsAgree
  <1>14. HandshakesAgree'
    <2>1. PICK a \in Side, b \in Side :
            a = Opener /\ b = Acceptor /\ Peer(a) = b /\ Peer(b) = a /\ a # b
      BY TwoSides, PairAssumption DEF Acceptor
    <2>2. ASSUME NEW i, NEW j, Bond(a, i, j)', Current(b, j)' PROVE Tuned(b, j, i)'
      <3>1. Bond(a, i, j)
        BY <1>6, <1>11, <2>1, <2>2 DEF Attuned
      <3>2. b = p
        BY <1>3, <1>4, <1>7, <1>12, <2>1, <2>2, <3>1
      <3>3. Tuned(b, j, i)
        BY <1>8, <2>1, <2>2, <3>1, <3>2 DEF BondsKept, HandshakesAgree
      <3>4. QED BY <1>9, <3>2, <3>3
    <2>3. ASSUME NEW i, NEW j, NEW m \in Places(a), 2 <= m, Quotes(b, j, i, m)', Current(a, i)'
          PROVE  Tuned(a, i, j)'
      <3>1. Quotes(b, j, i, m)
        BY <1>1, <1>2, <2>3, FoundsQuotes
      <3>2. Bond(b, j, i)
        BY <2>1, <2>3, <3>1 DEF Bond
      <3>3. a = p
        BY <1>3, <1>4, <1>7, <1>12, <2>1, <2>3, <3>2
      <3>4. Tuned(a, i, j)
        BY <1>8, <2>1, <2>3, <3>1, <3>3 DEF BondsKept, HandshakesAgree
      <3>5. QED BY <1>9, <3>3, <3>4
    <2>4. ASSUME Connected(a)' PROVE conn'[a].state # "SynReceived"
      <3>1. CASE a = s
        BY <1>5, <1>6, <2>1, <3>1
      <3>2. CASE a = p
        BY <1>5, <2>1, <2>4, <3>2 DEF BondsKept, HandshakesAgree, Connected
      <3>3. QED BY <1>4, <3>1, <3>2
    <2>5. ASSUME NEW r \in Side, Connected(r)', conn'[r].state \in Opening
          PROVE  received'[r][opened'[r]] = <<>> /\ ~conn'[r].read_closed
      <3>1. CASE r = s
        BY <1>5, <1>6, <3>1
      <3>2. CASE r = p
        BY <1>5, <2>5, <3>2 DEF BondsKept, HandshakesAgree, Connected
      <3>3. QED BY <1>4, <3>1, <3>2
    <2>6. QED BY <2>1, <2>2, <2>3, <2>4, <2>5 DEF HandshakesAgree
  <1>15. AcksAgree'
    <2>1. Reached(p)' = Reached(p) /\ 1 <= Reached(s)'
      <3>1. Reached(p)' = Reached(p)
        BY <1>5 DEF Reached
      <3>2. Reached(s)' = 1 + Len(received'[s][o]) + Units(e.read_closed)
        BY <1>5 DEF Reached
      <3>3. Len(received'[s][o]) = 0 /\ Units(e.read_closed) = 0
        BY <1>5, <1>6 DEF Units
      <3>4. QED BY <3>1, <3>2, <3>3
    <2>2. ASSUME NEW r \in Side, NEW i, NEW j, NEW a \in Places(Peer(r)), Quotes(r, i, j, a)',
                 Current(r, i)'
          PROVE  a <= Reached(r)'
      <3>1. Quotes(r, i, j, a) \/ (r = s /\ a = 1)
        BY <1>1, <1>2, <2>2, FoundsQuotes
      <3>2. CASE r = s
        <4>1. ASSUME Quotes(s, i, j, a) PROVE FALSE
          <5>1. Bond(s, i, j)
            BY <2>2, <3>2, <4>1 DEF Bond
          <5>2. QED BY <1>7, <1>12, <2>2, <3>2, <5>1
        <4>2. QED BY <2>1, <3>1, <3>2, <4>1
      <3>3. CASE r = p
        BY <1>3, <1>8, <2>1, <2>2, <3>1, <3>3 DEF BondsKept, AcksAgree
      <3>4. QED BY <1>4, <3>2, <3>3
    <2>3. ASSUME NEW r \in Side, NEW i, NEW j, NEW a \in Places(r), Synchronized(r)',
                 Tuned(r, i, j)', Current(Peer(r), j)', PlaceIn(r, i, a, conn'[r].send_una)
          PROVE  FALSE
      <3>1. CASE r = s
        BY <1>5, <1>6, <2>3, <3>1 DEF Synchronized, Opening
      <3>2. CASE r = p
        <4>1. Tuned(p, i, j) /\ j = o
          BY <1>3, <1>7, <1>9, <2>3, <3>2
        <4>2. Bond(p, i, j)
          BY <4>1 DEF Bond
        <4>3. QED BY <1>12, <4>1, <4>2
      <3>3. QED BY <1>4, <3>1, <3>2
    <2>4. QED BY <2>2, <2>3 DEF AcksAgree
  <1>16. QED BY <1>13, <1>14, <1>15 DEF BondsKept

-----------------------------------------------------------------------------
(* The carrier                                                             *)

\* Only datagrams leave, or resets come, and both connections are as they were.
Idles ==
  /\ UNCHANGED <<conn, opened, sent, received>>
  /\ \A t \in Side : \A x \in BagToSet(net'[t]) : x \in BagToSet(net[t]) \/ "RST" \in x.flags

\* That makes no segment of either connection say more.
LEMMA IdlesBonds ==
  ASSUME TypeOK, BondsKept, Idles
  PROVE  BondsKept'
  <1>1. ASSUME NEW r \in Side, NEW i, NEW j, NEW a, Quotes(r, i, j, a)' PROVE Quotes(r, i, j, a)
    <2>1. PICK q \in Side : q = Peer(r)
      BY TwoSides
    <2>2. PICK x \in BagToSet(net'[q]) :
            "RST" \notin x.flags /\ InStream(r, i, x.seq) /\ PlaceIn(q, j, a, x.ack)
      BY <1>1, <2>1 DEF Quotes, InStream, PlaceIn, Places
    <2>3. x \in BagToSet(net[q])
      BY <2>2 DEF Idles
    <2>4. QED BY <1>1, <2>1, <2>2, <2>3 DEF Quotes, Idles
  <1>2. \A r : (Connected(r)' <=> Connected(r)) /\ (Synchronized(r)' <=> Synchronized(r))
               /\ Reached(r)' = Reached(r)
    BY DEF Idles, Connected, Synchronized, Reached
  <1>3. \A r, i, j : (Current(r, i)' <=> Current(r, i)) /\ (Tuned(r, i, j)' <=> Tuned(r, i, j))
    BY DEF Idles, Connected, Current, Tuned, Attuned, InStream, PlaceIn, Places
  <1>4. \A r \in Side : \A i, j : Bond(r, i, j)' => Bond(r, i, j)
    BY <1>1, <1>2, <1>3 DEF Bond, Places
  <1>5. BondsAgree'
    <2>1. \A r \in Side : Peer(r) \in Side
      BY TwoSides
    <2>2. QED BY <1>3, <1>4, <2>1 DEF BondsKept, BondsAgree
  <1>6. HandshakesAgree'
    <2>1. Opener \in Side /\ Acceptor \in Side
      BY TwoFlows
    <2>2. QED BY <1>1, <1>2, <1>3, <1>4, <2>1 DEF BondsKept, HandshakesAgree, Places, Idles
  <1>7. AcksAgree'
    BY <1>1, <1>2, <1>3 DEF BondsKept, AcksAgree, Places, PlaceIn, Idles
  <1>8. QED BY <1>5, <1>6, <1>7 DEF BondsKept

-----------------------------------------------------------------------------
(* The bonds are kept                                                      *)

\* A method that leaves the handshake alone.
LEMMA StillMinds ==
  ASSUME NEW s, NEW u, Still(conn[s], u.conn), u.conn.read_closed = conn[s].read_closed
  PROVE  Minds(s, u, <<>>)
  BY DEF Minds

\* So do poll and the calls of the application.
LEMMA MethodMinds ==
  ASSUME StreamsApart, TypeOK, BooksKept, StreamsKept, NEW s \in Side, Connected(s)
  PROVE  /\ \A closeDue, retryDue \in BOOLEAN : Minds(s, Poll(conn[s], closeDue, retryDue), <<>>)
         /\ Minds(s, Close(conn[s]), <<>>)
         /\ \A segments : Minds(s, Closed(conn[s], segments), <<>>)
         /\ \A max \in Nat : Minds(s, Read(conn[s], max), <<>>)
  <1>1. PICK c : c = conn[s]
    OBVIOUS
  <1>2. PICK i : i = opened[s]
    OBVIOUS
  <1>3. PICK first : first = Isn[s][i]
    OBVIOUS
  <1>4. c \in SoundConn /\ c \in Conn /\ i \in 1 .. opened[s] /\ i \in Nat
    BY <1>1, <1>2, LastStream DEF BooksKept
  <1>5. Tells(c, first, i) /\ first \in SeqNumber
    BY <1>1, <1>2, <1>3, <1>4, ViewType DEF StreamsKept, AllFit, Fits
  <1>6. ASSUME NEW u, OnlySpeaks(c, u, first, i) PROVE u.conn.read_closed = c.read_closed
    BY <1>6 DEF OnlySpeaks, Only
  <1>7. ASSUME NEW closeDue \in BOOLEAN, NEW retryDue \in BOOLEAN
        PROVE  Minds(s, Poll(c, closeDue, retryDue), <<>>)
    <2>1. PICK u : u = Poll(c, closeDue, retryDue)
      OBVIOUS
    <2>2. OnlySpeaks(c, u, first, i)
      BY <1>4, <1>5, <2>1, PollSpeaks
    <2>3. Still(c, u.conn)
      BY <1>4, <2>1, PollStill
    <2>4. QED BY <1>1, <1>6, <2>1, <2>2, <2>3, StillMinds
  <1>8. Minds(s, Close(c), <<>>)
    <2>1. PICK u : u = Close(c)
      OBVIOUS
    <2>2. OnlySpeaks(c, u, first, i)
      BY <1>4, <1>5, <2>1, CloseSpeaks
    <2>3. Still(c, u.conn)
      BY <1>4, <2>1, CallsStill
    <2>4. QED BY <1>1, <1>6, <2>1, <2>2, <2>3, StillMinds
  <1>9. ASSUME NEW segments PROVE Minds(s, Closed(c, segments), <<>>)
    <2>1. Closed(c, segments).conn = c
      BY DEF Closed
    <2>2. QED BY <1>1, <2>1, StillOn, StillMinds
  <1>10. ASSUME NEW max \in Nat PROVE Minds(s, Read(c, max), <<>>)
    <2>1. PICK u : u = Read(c, max)
      OBVIOUS
    <2>2. Hearing(c, u.conn)
      BY <1>4, <1>5, <2>1, ReadSpeaks
    <2>3. Still(c, u.conn)
      BY <1>4, <2>1, CallsStill
    <2>4. QED BY <1>1, <2>1, <2>2, <2>3, StillMinds DEF Hearing
  <1>11. QED BY <1>1, <1>7, <1>8, <1>9, <1>10

\* A segment does to the handshake what it says.
LEMMA InputMinds ==
  ASSUME StreamsApart, TypeOK, BooksKept, StreamsKept, NEW s \in Side, Connected(s),
         NEW seg \in BagToSet(net[s]), NEW u, u = InputKnown(conn[s], seg)
  PROVE  Minds(s, u, Arrived(conn[s], u.conn))
  <1>1. PICK c : c = conn[s]
    OBVIOUS
  <1>2. PICK e : e = u.conn
    OBVIOUS
  <1>3. PICK i : i = opened[s]
    OBVIOUS
  <1>4. /\ c \in SoundConn /\ c \in Conn /\ i \in 1 .. opened[s] /\ i \in Nat /\ seg \in Segment
    BY <1>1, <1>3, LastStream, SegmentInFlight DEF BooksKept
  <1>5. Tells(c, Isn[s][i], i) /\ Isn[s][i] \in SeqNumber
    BY <1>1, <1>3, <1>4, ViewType DEF StreamsKept, AllFit, Fits
  <1>6. Heeds(c, e, seg)
    BY <1>1, <1>2, <1>4, <1>5, InputHeeds
  <1>7. e.recv_queue = c.recv_queue => Arrived(c, e) = <<>>
    <2>1. PICK q \in Seq(Byte) : q = c.recv_queue
      BY <1>4 DEF Conn
    <2>2. SubSeq(q, Len(q) + 1, Len(q)) = <<>>
      BY <2>1
    <2>3. QED BY <2>1, <2>2 DEF Arrived
  <1>8. QED BY <1>1, <1>2, <1>6, <1>7 DEF Heeds, Stays, Minds

\* A write leaves the handshake alone too.
LEMMA WriteMinds ==
  ASSUME StreamsApart, TypeOK, BooksKept, StreamsKept, NEW s \in Side,
         NEW n \in Nat, AppWrite(s, n)
  PROVE  \E u, k : Runs(s, u, <<>>, k) /\ Minds(s, u, <<>>)
  <1>1. PICK data \in Seq(Byte) :
          /\ Runs(s, Write(conn[s], data), <<>>, WriteAccepts(conn[s], n))
          /\ Hearing(conn[s], Write(conn[s], data).conn)
    BY WriteSteps DEF StreamsKept, Steps
  <1>2. PICK u : u = Write(conn[s], data)
    OBVIOUS
  <1>3. Connected(s) /\ conn[s] \in Conn
    <2>1. Connected(s)
      BY DEF AppWrite, Held
    <2>2. QED BY <2>1, LastStream
  <1>4. Still(conn[s], u.conn)
    BY <1>2, <1>3, CallsStill
  <1>5. u.conn.read_closed = conn[s].read_closed
    BY <1>1, <1>2 DEF Hearing
  <1>6. QED BY <1>1, <1>2, <1>4, <1>5, StillMinds

\* A step of a connection that minds the handshake keeps the bonds.
LEMMA RunsBonds ==
  ASSUME StreamsApart, TypeOK, TypeOK', StreamsKept, BondsKept, NEW s \in Side, NEW u, NEW more,
         NEW n, Runs(s, u, more, n), Minds(s, u, more)
  PROVE  BondsKept'
  BY RunsBondsAgree, RunsHandshakes, RunsAcks DEF BondsKept

\* Lose, and a segment of an unknown tuple.
LEMMA IdleBonds ==
  ASSUME TypeOK, BondsKept, NEW s \in Side, NEW seg \in Segment
  PROVE  /\ Lose(s, seg) => BondsKept'
         /\ \A n : Lesser(n) /\ InputUnknown(s, seg, n) => BondsKept'
  <1>1. ASSUME Lose(s, seg) PROVE BondsKept'
    <2>1. Lesser(net')
      BY <1>1, TakenOffLesser DEF Lose
    <2>2. Idles
      BY <1>1, <2>1 DEF Idles, Lesser, Lose
    <2>3. QED BY <2>2, IdlesBonds
  <1>2. ASSUME NEW n, Lesser(n), InputUnknown(s, seg, n) PROVE BondsKept'
    <2>1. UNCHANGED <<conn, opened, sent, received>>
      BY <1>2 DEF InputUnknown
    <2>2. CASE net' = n
      <3>1. Idles
        BY <1>2, <2>1, <2>2 DEF Idles, Lesser
      <3>2. QED BY <3>1, IdlesBonds
    <2>3. CASE net' = Send(n, s, <<ResetFor(seg)>>)
      <3>1. PICK x : x = ResetFor(seg)
        OBVIOUS
      <3>2. x \in Segment /\ "RST" \in x.flags
        <4>1. x \in Segment
          BY <3>1, ResetForType
        <4>2. QED BY <3>1, <4>1 DEF ResetFor
      <3>3. <<x>> \in Seq(Segment) /\ Len(<<x>>) = 1 /\ <<x>>[1] = x
        BY <3>2, OneSegment
      <3>4. Carries(s, <<x>>)
        BY <1>2, <2>3, <3>1, <3>3, SendCarries
      <3>5. \A t \in Side : \A y \in BagToSet(net'[t]) : y \in BagToSet(net[t]) \/ y = x
        BY <3>3, <3>4 DEF Carries
      <3>6. Idles
        BY <2>1, <3>2, <3>5 DEF Idles
      <3>7. QED BY <3>6, IdlesBonds
    <2>4. QED BY <1>2, <2>2, <2>3 DEF InputUnknown
  <1>3. QED BY <1>1, <1>2

\* A connection that connect or a SYN at the listener creates.
LEMMA OpensBonds ==
  ASSUME StreamsApart, TypeOK, TypeOK', StreamsKept, BondsKept, NEW s \in Side
  PROVE  /\ Connect(s) => BondsKept'
         /\ \A seg \in BagToSet(net[s]) : \A n : Lesser(n) /\ InputSyn(s, seg, n) => BondsKept'
  <1>1. ASSUME MayOpen(s)
        PROVE  /\ Isn[s][opened[s] + 1] \in SeqNumber /\ opened[s] + 1 \in Nat
               /\ 2 + ReceiveBuffer < Modulus
    BY <1>1, NextStream
  <1>2. ASSUME Connect(s) PROVE BondsKept'
    <2>1. PICK u : u = Client(Isn[s][opened[s] + 1])
      OBVIOUS
    <2>2. Founds(s, u) /\ MayOpen(s)
      BY <1>2, <2>1, ConnectFounds DEF Connect
    <2>3. u.conn.state = "SynSent"
      BY <1>1, <2>1, <2>2, ClientBegins
    <2>4. Arises(s, u)
      BY <2>3 DEF Arises, Opening
    <2>5. QED BY <2>2, <2>4, FoundsBonds
  <1>3. ASSUME NEW seg \in BagToSet(net[s]), NEW n, Lesser(n), InputSyn(s, seg, n)
        PROVE  BondsKept'
    <2>1. PICK u : u = Server(seg, Isn[s][opened[s] + 1])
      OBVIOUS
    <2>2. Founds(s, u)
      BY <1>3, <2>1, SynFounds
    <2>3. MayOpen(s) /\ s # Opener
      BY <1>3 DEF InputSyn, Listening
    <2>4. seg \in Segment
      BY SegmentInFlight
    <2>5. u.conn.state \in Opening
      BY <1>1, <2>1, <2>3, <2>4, ServerBegins
    <2>6. Arises(s, u)
      BY <2>3, <2>5 DEF Arises
    <2>7. QED BY <2>2, <2>6, FoundsBonds
  <1>4. QED BY <1>2, <1>3

\* Whichever way a segment goes, the bonds are kept.
LEMMA InputBonds ==
  ASSUME StreamsApart, TypeOK, TypeOK', BooksKept, StreamsKept, BondsKept, NEW s \in Side,
         NEW seg \in BagToSet(net[s]), NEW n, Lesser(n), Input(s, seg, n)
  PROVE  BondsKept'
  <1>1. CASE InputSyn(s, seg, n)
    BY <1>1, OpensBonds
  <1>2. CASE InputUnknown(s, seg, n)
    BY <1>2, IdleBonds, SegmentInFlight
  <1>3. CASE InputConnected(s, seg, n)
    <2>1. PICK u : u = InputKnown(conn[s], seg)
      OBVIOUS
    <2>2. Runs(s, u, Arrived(conn[s], u.conn), 0)
      BY <1>3, <2>1, InputRuns
    <2>3. Minds(s, u, Arrived(conn[s], u.conn))
      BY <1>3, <2>1, InputMinds DEF InputConnected
    <2>4. QED BY <2>2, <2>3, RunsBonds
  <1>4. QED BY <1>1, <1>2, <1>3 DEF Input

\* The timers and the calls that write nothing, and a restart.
LEMMA MethodBonds ==
  ASSUME StreamsApart, TypeOK, TypeOK', BooksKept, StreamsKept, BondsKept, NEW s \in Side
  PROVE  /\ CloseExpires(s) \/ RetryExpires(s) \/ AppClose(s) \/ AppAbort(s) => BondsKept'
         /\ (\E max \in ReadSizes : AppRead(s, max)) => BondsKept'
         /\ Crash(s) => BondsKept'
  <1>1. AllFit /\ AllAttend
    BY DEF StreamsKept
  <1>2. ASSUME NEW u, Runs(s, u, <<>>, 0), Minds(s, u, <<>>) PROVE BondsKept'
    BY <1>2, RunsBonds
  <1>3. ASSUME CloseExpires(s) PROVE BondsKept'
    <2>1. PICK u : u = Poll(conn[s], TRUE, FALSE)
      OBVIOUS
    <2>2. Connected(s)
      BY <1>3 DEF CloseExpires
    <2>3. Runs(s, u, <<>>, 0)
      BY <1>1, <1>3, <2>1, MethodSteps DEF Steps
    <2>4. \A a, b \in BOOLEAN : Minds(s, Poll(conn[s], a, b), <<>>)
      BY <2>2, MethodMinds
    <2>5. Minds(s, u, <<>>)
      BY <2>1, <2>4
    <2>6. QED BY <1>2, <2>3, <2>5
  <1>4. ASSUME RetryExpires(s) PROVE BondsKept'
    <2>1. PICK u : u = Poll(conn[s], FALSE, TRUE)
      OBVIOUS
    <2>2. Connected(s)
      BY <1>4 DEF RetryExpires, RetryPending
    <2>3. Runs(s, u, <<>>, 0)
      BY <1>1, <1>4, <2>1, MethodSteps DEF Steps
    <2>4. \A a, b \in BOOLEAN : Minds(s, Poll(conn[s], a, b), <<>>)
      BY <2>2, MethodMinds
    <2>5. Minds(s, u, <<>>)
      BY <2>1, <2>4
    <2>6. QED BY <1>2, <2>3, <2>5
  <1>5. ASSUME AppClose(s) PROVE BondsKept'
    <2>1. PICK u : u = Close(conn[s])
      OBVIOUS
    <2>2. Connected(s)
      BY <1>5 DEF AppClose, Held
    <2>3. Runs(s, u, <<>>, 0)
      BY <1>1, <1>5, <2>1, MethodSteps DEF Steps
    <2>4. Minds(s, u, <<>>)
      BY <2>1, <2>2, MethodMinds
    <2>5. QED BY <1>2, <2>3, <2>4
  <1>6. ASSUME AppAbort(s) PROVE BondsKept'
    <2>1. PICK segments : segments = <<ResetSegment(conn[s])>>
      OBVIOUS
    <2>2. PICK u : u = Closed(conn[s], segments)
      OBVIOUS
    <2>3. Connected(s)
      BY <1>6 DEF AppAbort
    <2>4. Runs(s, u, <<>>, 0)
      BY <1>1, <1>6, <2>1, <2>2, MethodSteps DEF Steps
    <2>5. Minds(s, u, <<>>)
      BY <2>2, <2>3, MethodMinds
    <2>6. QED BY <1>2, <2>4, <2>5
  <1>7. ASSUME NEW max \in ReadSizes, AppRead(s, max) PROVE BondsKept'
    <2>1. PICK u : u = Read(conn[s], max)
      OBVIOUS
    <2>2. Connected(s)
      BY <1>7 DEF AppRead, CanRead, Held
    <2>3. Runs(s, u, <<>>, 0)
      BY <1>1, <1>7, <2>1, MethodSteps DEF Steps
    <2>4. max \in Nat
      BY PairAssumption
    <2>5. Minds(s, u, <<>>)
      BY <2>1, <2>2, <2>4, MethodMinds
    <2>6. QED BY <1>2, <2>3, <2>5
  <1>8. ASSUME Crash(s) PROVE BondsKept'
    <2>1. PICK u : u = Closed(conn[s], <<>>)
      OBVIOUS
    <2>2. Connected(s)
      BY <1>8 DEF Crash
    <2>3. Runs(s, u, <<>>, 0)
      BY <1>1, <1>8, <2>1, CrashSteps DEF Steps
    <2>4. Minds(s, u, <<>>)
      BY <2>1, <2>2, MethodMinds
    <2>5. QED BY <1>2, <2>3, <2>4
  <1>9. QED BY <1>3, <1>4, <1>5, <1>6, <1>7, <1>8

\* Every step keeps the bonds.
LEMMA StepBonds ==
  ASSUME StreamsApart, TypeOK, TypeOK', BooksKept, StreamsKept, BondsKept, [Next]_vars
  PROVE  BondsKept'
  <1>1. CASE UNCHANGED vars
    <2>1. Idles
      BY <1>1 DEF Idles, vars
    <2>2. QED BY <2>1, IdlesBonds
  <1>2. ASSUME NEW s \in Side, Connect(s) PROVE BondsKept'
    BY <1>2, OpensBonds
  <1>3. ASSUME NEW s \in Side, NEW seg \in BagToSet(net[s]),
               Deliver(s, seg) \/ DeliverCopy(s, seg)
        PROVE  BondsKept'
    BY <1>3, TakenOffLesser, InputBonds DEF Deliver, DeliverCopy
  <1>4. ASSUME NEW s \in Side, NEW seg \in BagToSet(net[s]), Lose(s, seg) PROVE BondsKept'
    BY <1>4, IdleBonds, SegmentInFlight
  <1>5. ASSUME NEW s \in Side,
               \/ CloseExpires(s) \/ RetryExpires(s) \/ AppClose(s) \/ AppAbort(s)
               \/ (\E max \in ReadSizes : AppRead(s, max)) \/ Crash(s)
        PROVE  BondsKept'
    BY <1>5, MethodBonds
  <1>6. ASSUME NEW s \in Side, NEW n \in 1 .. WriteLimit[s], AppWrite(s, n) PROVE BondsKept'
    <2>1. n \in Nat
      BY PairAssumption
    <2>2. \E u, k : Runs(s, u, <<>>, k) /\ Minds(s, u, <<>>)
      BY <1>6, <2>1, WriteMinds
    <2>3. QED BY <2>2, RunsBonds
  <1>7. QED BY <1>1, <1>2, <1>3, <1>4, <1>5, <1>6 DEF Next

\* Nothing is in flight and nobody connected at first.
LEMMA BondsKeptInit ==
  ASSUME Init
  PROVE  BondsKept
  <1>1. \A s \in Side : ~Connected(s) /\ net[s] = EmptyBag
    BY DEF Init, Connected
  <1>2. \A s \in Side : BagToSet(net[s]) = {}
    BY <1>1 DEF BagToSet, EmptyBag, SetToBag
  <1>3. \A s \in Side : /\ \A i : ~Current(s, i)
                        /\ ~Synchronized(s)
                        /\ \A i, j, a : ~Quotes(s, i, j, a)
    <2>1. \A s \in Side : Peer(s) \in Side
      BY TwoSides
    <2>2. QED BY <1>1, <1>2, <2>1 DEF Current, Synchronized, Quotes
  <1>4. ASSUME NEW s \in Side, NEW i, NEW j PROVE ~Bond(s, i, j)
    <2>1. Peer(s) \in Side
      BY TwoSides
    <2>2. QED BY <1>3, <2>1 DEF Bond, Tuned
  <1>5. Opener \in Side /\ Acceptor \in Side
    BY TwoFlows
  <1>6. QED BY <1>1, <1>3, <1>4, <1>5 DEF BondsKept, BondsAgree, HandshakesAgree, AcksAgree

\* The bonds are kept in every behaviour.
LEMMA BondsAreKept ==
  ASSUME StreamsApart
  PROVE  Spec => [](TypeOK /\ BooksKept /\ StreamsKept /\ BondsKept)
  <1>1. Init => BondsKept
    BY BondsKeptInit
  <1>2. /\ TypeOK /\ BooksKept /\ StreamsKept /\ TypeOK' /\ BondsKept /\ [Next]_vars
        => BondsKept'
    BY StepBonds
  <1>3. QED BY <1>1, <1>2, StreamsAreKept, PTL DEF Spec

-----------------------------------------------------------------------------
(* The two ends together                                                   *)

\* Both connections are past their handshakes.
Together(s) == Synchronized(s) /\ Synchronized(Peer(s))

\* Then they are each other's.
LEMMA TogetherTuned ==
  ASSUME StreamsApart, TypeOK, StreamsKept, BondsKept, NEW s \in Side, Together(s)
  PROVE  /\ Tuned(s, opened[s], opened[Peer(s)])
         /\ Tuned(Peer(s), opened[Peer(s)], opened[s])
  <1>1. PICK p \in Side : p = Peer(s) /\ Peer(p) = s
    BY TwoSides
  <1>2. PICK o \in Nat : o = opened[s]
    BY DEF TypeOK
  <1>3. PICK m \in Nat : m = opened[p]
    BY DEF TypeOK
  <1>4. /\ Connected(s) /\ conn[s].state # "SynSent" /\ Synchronized(s)
        /\ Connected(p) /\ conn[p].state # "SynSent" /\ Synchronized(p)
    BY <1>1 DEF Together, Synchronized
  <1>5. PICK j \in 1 .. m : Attuned(conn[s], p, j)
    BY <1>1, <1>3, <1>4, ConnReaches
  <1>6. PICK i \in 1 .. o : Attuned(conn[p], s, i)
    BY <1>1, <1>2, <1>4, ConnReaches
  <1>7. Current(s, o) /\ Current(p, m) /\ Tuned(s, o, j) /\ Tuned(p, m, i)
    BY <1>1, <1>2, <1>3, <1>4, <1>5, <1>6 DEF Tuned, Current
  <1>8. Bond(p, j, o) /\ Bond(s, i, m)
    BY <1>1, <1>4, <1>7 DEF Bond
  <1>9. ASSUME j = m PROVE i = o
    <2>1. Tuned(p, m, o)
      BY <1>7, <1>8, <1>9 DEF BondsKept, BondsAgree
    <2>2. Attuned(conn[p], s, o)
      BY <1>1, <2>1 DEF Tuned
    <2>3. QED BY <1>6, <2>2, AttunedOnce
  <1>10. ASSUME i = o PROVE j = m
    <2>1. Tuned(s, o, m)
      BY <1>7, <1>8, <1>10 DEF BondsKept, BondsAgree
    <2>2. Attuned(conn[s], p, m)
      BY <1>1, <2>1 DEF Tuned
    <2>3. QED BY <1>5, <2>2, AttunedOnce
  <1>11. ~(i < o /\ j < m)
    BY <1>1, <1>8 DEF BondsKept, BondsAgree
  <1>12. j = m \/ j < m
    BY <1>3, <1>5
  <1>13. i = o \/ i < o
    BY <1>2, <1>6
  <1>14. i = o /\ j = m
    BY <1>9, <1>10, <1>11, <1>12, <1>13
  <1>15. QED BY <1>1, <1>2, <1>3, <1>7, <1>14

\* Connection d took in "got" bytes of the stream that c sends from "first" on: c
\* knows that d took in the first "una" places, and sent "nxt" of them.
Nested(c, d, first, una, got, nxt) ==
  /\ una = Distance(first, c.send_una) /\ c.send_una = Plus(first, una)
  /\ nxt = Distance(first, c.send_nxt) /\ c.send_nxt = Plus(first, nxt) /\ nxt < Modulus
  /\ d.recv_nxt = Plus(first, 1 + got + Units(d.read_closed))
  /\ una <= 1 + got + Units(d.read_closed) /\ 1 + got + Units(d.read_closed) <= nxt
  /\ got <= c.accepted /\ (d.read_closed => got = c.accepted)
  /\ Numbered(c, first) /\ Confirmed(c, first)

\* So it is with the stream of either end.
LEMMA TogetherNests ==
  ASSUME StreamsApart, TypeOK, BooksKept, StreamsKept, BondsKept, NEW s \in Side, Together(s)
  PROVE  \E first \in SeqNumber : \E una, got, nxt \in Nat :
           Nested(conn[s], conn[Peer(s)], first, una, got, nxt)
  <1>1. PICK p \in Side : p = Peer(s) /\ Peer(p) = s
    BY TwoSides
  <1>2. PICK c : c = conn[s]
    OBVIOUS
  <1>3. PICK d : d = conn[p]
    OBVIOUS
  <1>4. Connected(s) /\ Connected(p) /\ Synchronized(s) /\ d.state # "SynSent"
    BY <1>1, <1>3 DEF Together, Synchronized
  <1>5. PICK i \in Nat : i = opened[s] /\ i \in 1 .. opened[s]
    BY <1>4, LastStream
  <1>6. PICK m \in Nat : m = opened[p]
    BY <1>4, LastStream
  <1>7. Tuned(s, i, m) /\ Tuned(p, m, i)
    BY <1>1, <1>5, <1>6, TogetherTuned
  <1>8. PICK first \in SeqNumber : first = Isn[s][i]
    BY <1>5, ViewType DEF StreamsKept
  <1>9. c \in Conn /\ Tells(c, first, i) /\ c.accepted = sent[s][i] /\ c.accepted <= WriteLimit[s]
    <2>1. c \in Conn
      BY <1>2, <1>4, LastStream
    <2>2. QED BY <1>2, <1>4, <1>5, <1>8, <2>1 DEF StreamsKept, AllFit, Fits
  <1>10. Numbered(c, first) /\ Confirmed(c, first) /\ c.send_una \in SeqNumber
    BY <1>9 DEF Tells, Conn
  <1>11. PICK nxt \in Nat :
           nxt = Distance(first, c.send_nxt) /\ c.send_nxt = Plus(first, nxt) /\ nxt < Modulus
    BY <1>9, <1>10, NumberedFacts
  <1>12. PICK una \in Nat : una = Distance(first, c.send_una) /\ c.send_una = Plus(first, una)
    BY <1>10, PlusOfDistance, DistanceType
  <1>13. PICK got \in Nat : got = Len(received[p][m])
    BY <1>4, <1>6, LastStream
  <1>14. Hears(d, View(s, i), got)
    <2>1. PICK j \in 1 .. opened[s] : Follows(p, m, j)
      BY <1>1, <1>3, <1>4, <1>6 DEF StreamsKept, AllAttend, Attends
    <2>2. Hears(d, View(s, j), got)
      BY <1>1, <1>3, <1>4, <1>6, <1>13, <2>1 DEF Follows, Current
    <2>3. Attuned(d, s, j)
      BY <2>2, HearsPlace DEF StreamsKept
    <2>4. Attuned(d, s, i)
      BY <1>1, <1>3, <1>7 DEF Tuned
    <2>5. QED BY <2>2, <2>3, <2>4, AttunedOnce
  <1>15. View(s, i).first = first /\ View(s, i).total = c.accepted /\ View(s, i).end = nxt
    BY <1>2, <1>4, <1>5, <1>8, <1>9, <1>11, ViewFields DEF Current
  <1>16. /\ d.recv_nxt = Plus(first, 1 + got + Units(d.read_closed))
         /\ 1 + got + Units(d.read_closed) <= nxt
         /\ got <= c.accepted /\ (d.read_closed => got = c.accepted)
    BY <1>14, <1>15 DEF Hears
  <1>17. una <= 1 + got + Units(d.read_closed)
    <2>1. i \in 1 .. Len(Isn[s])
      <3>1. i <= Len(Isn[s]) /\ Len(Isn[s]) \in Nat
        BY <1>5, PairAssumption DEF StreamsKept, AllFit, Fits
      <3>2. QED BY <1>5, <3>1
    <2>2. PlaceIn(s, i, una, c.send_una)
      BY <1>8, <1>9, <1>12, <2>1, UnaPlace
    <2>3. una \in Places(s)
      BY <2>2 DEF PlaceIn
    <2>4. Current(p, m)
      BY <1>4, <1>6 DEF Current
    <2>5. una <= Reached(p)
      BY <1>1, <1>2, <1>4, <1>7, <2>2, <2>3, <2>4 DEF BondsKept, AcksAgree
    <2>6. QED BY <1>3, <1>6, <1>13, <2>5 DEF Reached
  <1>18. Nested(c, d, first, una, got, nxt)
    BY <1>10, <1>11, <1>12, <1>16, <1>17 DEF Nested
  <1>19. QED BY <1>1, <1>2, <1>3, <1>18

\* Three places that no window and FIN come between compare as they lie.
LEMMA PlacesNest ==
  ASSUME NEW first \in SeqNumber, NEW a \in Nat, NEW b \in Nat, NEW c \in Nat,
         a <= b, b <= c, c < Modulus, c - a <= MaxWindow + 1
  PROVE  /\ BeforeOrEqual(Plus(first, a), Plus(first, b))
         /\ BeforeOrEqual(Plus(first, b), Plus(first, c))
  <1>1. Modulus \in Nat /\ MaxWindow \in Nat
    BY ConfigAssumption, ModulusAssumption
  <1>2. PICK m \in Nat : b = a + m
    <2>1. b - a \in Nat /\ b = a + (b - a)
      OBVIOUS
    <2>2. QED BY <2>1
  <1>3. PICK n \in Nat : c = a + n
    <2>1. c - a \in Nat /\ c = a + (c - a)
      OBVIOUS
    <2>2. QED BY <2>1
  <1>4. /\ m <= n /\ 0 <= m /\ a + m < Modulus /\ a + n < Modulus
        /\ 0 \in 0 .. MaxWindow + 1 /\ m \in 0 .. MaxWindow + 1 /\ n \in 0 .. MaxWindow + 1
    BY <1>1, <1>2, <1>3
  <1>5. PICK x \in SeqNumber : x = Plus(first, a)
    BY SeqNumberIsNat, PlusType
  <1>6. /\ Plus(first, b) = Plus(x, m) /\ Plus(first, c) = Plus(x, n) /\ x = Plus(x, 0)
    BY <1>2, <1>3, <1>4, <1>5, PlusPlus, PlusZero
  <1>7. BeforeOrEqual(Plus(x, 0), Plus(x, m)) /\ BeforeOrEqual(Plus(x, m), Plus(x, n))
    BY <1>4, PlacesCompare
  <1>8. QED BY <1>5, <1>6, <1>7

\* What the sender counts as acknowledged, the receiver waits for and the sender
\* sends next lie in this order.
LEMMA NestsWindows ==
  ASSUME StreamsApart, TypeOK, BooksKept, StreamsKept, BondsKept
  PROVE  WindowsNest
  <1>1. ASSUME NEW s \in Side, Together(s)
        PROVE  /\ BeforeOrEqual(conn[s].send_una, conn[Peer(s)].recv_nxt)
               /\ BeforeOrEqual(conn[Peer(s)].recv_nxt, conn[s].send_nxt)
    <2>1. PICK c \in SoundConn : c = conn[s]
      BY <1>1 DEF Together, Synchronized, BooksKept
    <2>2. PICK d : d = conn[Peer(s)]
      OBVIOUS
    <2>3. PICK first \in SeqNumber : \E una, got, nxt \in Nat : Nested(c, d, first, una, got, nxt)
      BY <1>1, <2>1, <2>2, TogetherNests
    <2>4. PICK una \in Nat, got \in Nat, nxt \in Nat : Nested(c, d, first, una, got, nxt)
      BY <2>3
    <2>5. PICK reach \in Nat : reach = 1 + got + Units(d.read_closed)
      BY <2>4 DEF Units
    <2>6. /\ una <= reach /\ reach <= nxt /\ nxt < Modulus
          /\ c.send_una = Plus(first, una) /\ d.recv_nxt = Plus(first, reach)
          /\ c.send_nxt = Plus(first, nxt)
      BY <2>4, <2>5 DEF Nested
    <2>7. nxt - una <= MaxWindow + 1
      <3>1. una < Modulus /\ nxt >= una
        BY <2>6, ModulusAssumption
      <3>2. Distance(c.send_una, c.send_nxt) = nxt - una
        BY <2>6, <3>1, PlaceDistance
      <3>3. Distance(c.send_una, c.send_nxt) <= MaxWindow + 1
        BY DEF SoundConn, Sender, FlightBounded
      <3>4. QED BY <3>2, <3>3
    <2>8. /\ BeforeOrEqual(Plus(first, una), Plus(first, reach))
          /\ BeforeOrEqual(Plus(first, reach), Plus(first, nxt))
      BY <2>6, <2>7, PlacesNest
    <2>9. QED BY <2>1, <2>2, <2>6, <2>8
  <1>2. QED BY <1>1 DEF WindowsNest, Together

\* A FIN is counted as acknowledged only when the peer took it in, and taken in
\* only when the peer sent it.
LEMMA ClosesTogether ==
  ASSUME StreamsApart, TypeOK, BooksKept, StreamsKept, BondsKept
  PROVE  ClosingAgrees
  <1>1. ASSUME NEW s \in Side, Connected(s), Synchronized(Peer(s)),
               conn[s].state \in {"FinWait2", "TimeWait"}
        PROVE  conn[Peer(s)].read_closed
    <2>1. PICK c : c = conn[s]
      OBVIOUS
    <2>2. PICK d : d = conn[Peer(s)]
      OBVIOUS
    <2>3. Together(s) /\ c \in Conn
      <3>1. c \in Conn
        BY <1>1, <2>1, LastStream
      <3>2. QED BY <1>1, <3>1 DEF Together, Synchronized
    <2>4. PICK first \in SeqNumber : \E una, got, nxt \in Nat : Nested(c, d, first, una, got, nxt)
      BY <2>1, <2>2, <2>3, TogetherNests
    <2>5. PICK una \in Nat, got \in Nat, nxt \in Nat : Nested(c, d, first, una, got, nxt)
      BY <2>4
    <2>6. una = nxt
      BY <1>1, <2>1, <2>5 DEF Nested, Confirmed
    <2>7. nxt + Len(c.send_queue) = 1 + c.accepted + 1 /\ Len(c.send_queue) = 0
      BY <1>1, <2>1, <2>5 DEF Nested, Numbered, FinSent, Units
    <2>8. SUFFICES ASSUME ~d.read_closed PROVE FALSE
      BY <2>2
    <2>9. Units(d.read_closed) = 0
      BY <2>8 DEF Units
    <2>10. una <= 1 + got + 0 /\ got <= c.accepted
      BY <2>5, <2>9 DEF Nested
    <2>11. c.accepted \in Nat
      BY <2>3 DEF Conn
    <2>12. QED BY <2>6, <2>7, <2>10, <2>11
  <1>2. ASSUME NEW s \in Side, Connected(s), Synchronized(Peer(s)), conn[s].read_closed
        PROVE  conn[Peer(s)].state \notin {"Established", "CloseWait"}
    <2>1. PICK p \in Side : p = Peer(s) /\ Peer(p) = s
      BY TwoSides
    <2>2. PICK c : c = conn[p]
      OBVIOUS
    <2>3. PICK d : d = conn[s]
      OBVIOUS
    <2>4. Synchronized(s)
      BY <1>2 DEF BondsKept, HandshakesAgree, Opening, Synchronized
    <2>5. Together(p) /\ c \in Conn
      <3>1. Connected(p)
        BY <1>2, <2>1 DEF Synchronized
      <3>2. c \in Conn
        BY <2>2, <3>1, LastStream
      <3>3. QED BY <1>2, <2>1, <2>4, <3>2 DEF Together
    <2>6. PICK first \in SeqNumber : \E una, got, nxt \in Nat : Nested(c, d, first, una, got, nxt)
      BY <2>1, <2>2, <2>3, <2>5, TogetherNests
    <2>7. PICK una \in Nat, got \in Nat, nxt \in Nat : Nested(c, d, first, una, got, nxt)
      BY <2>6
    <2>8. Units(d.read_closed) = 1
      BY <1>2, <2>3 DEF Units
    <2>9. 1 + got + 1 <= nxt /\ got = c.accepted
      BY <1>2, <2>3, <2>7, <2>8 DEF Nested
    <2>10. nxt + Len(c.send_queue) = 1 + c.accepted + Units(FinSent(c))
      BY <2>7 DEF Nested, Numbered
    <2>11. c.accepted \in Nat /\ Len(c.send_queue) \in Nat
      BY <2>5 DEF Conn
    <2>12. Units(FinSent(c)) # 0
      BY <2>9, <2>10, <2>11
    <2>13. FinSent(c)
      BY <2>12 DEF Units
    <2>14. QED BY <2>1, <2>2, <2>13 DEF FinSent
  <1>3. QED BY <1>1, <1>2 DEF ClosingAgrees

\* The sequence numbers of the two ends agree: nothing is counted as acknowledged
\* that the peer did not take in, and nothing taken in that was not sent, through
\* losses, repeats, reordering and restarts (on_segment, Stack::input).
THEOREM WindowsAlwaysNest ==
  ASSUME StreamsApart
  PROVE  Spec => []WindowsNest
  <1>1. TypeOK /\ BooksKept /\ StreamsKept /\ BondsKept => WindowsNest
    BY NestsWindows
  <1>2. QED BY <1>1, BondsAreKept, PTL

\* The states of the two ends agree about the FINs: in FinWait2 and TimeWait the
\* peer took the FIN in, and who took in a FIN has a peer that sent it (on_segment,
\* on_remote_fin).
THEOREM ClosingIsAgreed ==
  ASSUME StreamsApart
  PROVE  Spec => []ClosingAgrees
  <1>1. TypeOK /\ BooksKept /\ StreamsKept /\ BondsKept => ClosingAgrees
    BY ClosesTogether
  <1>2. QED BY <1>1, BondsAreKept, PTL
=============================================================================
