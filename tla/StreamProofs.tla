---------------------------- MODULE StreamProofs ----------------------------
(***************************************************************************)
(* What one connection tells its peer and what it hears of it, as seen     *)
(* against the streams the applications wrote.                             *)
(***************************************************************************)
EXTENDS ConnectionProofs

-----------------------------------------------------------------------------
(* A stream seen from outside                                              *)

\* The stream of one connection: where it begins, which it is, the bytes
\* written, the sequence numbers used so far, and whether more may be written.
Views ==
  {d \in [first : SeqNumber, id : Nat, total : Nat, end : Nat, over : BOOLEAN] :
     d.end <= 2 + d.total /\ d.total + 2 + ReceiveBuffer < Modulus}

\* What a step may do to it: more is written, until it is over, and more is sent.
Grows(d, e) ==
  /\ e.first = d.first /\ e.id = d.id
  /\ d.total <= e.total /\ d.end <= e.end
  /\ d.over => e.over /\ e.total = d.total

\* Payload and FIN stand at place o of the stream.
StandsAt(o, data, fin, d) ==
  /\ o + Len(data) + Units(fin) <= d.end
  /\ data # <<>> => o + Len(data) <= 1 + d.total
  /\ fin => o + Len(data) = 1 + d.total /\ d.over
  /\ \A k \in 1 .. Len(data) : data[k] = <<d.id, o + k - 1>>

\* They are the stream's at the sequence number that says so.
Told(seq, data, fin, d) ==
  \E o \in 1 .. d.end : seq = Plus(d.first, o) /\ StandsAt(o, data, fin, d)

\* A segment of the stream, in flight or kept for retransmission.
Spoken(t, d) ==
  /\ "RST" \notin t.flags
  /\ IF "SYN" \in t.flags
     THEN t.seq = d.first /\ t.data = <<>> /\ "FIN" \notin t.flags /\ 1 <= d.end
     ELSE Told(t.seq, t.data, "FIN" \in t.flags, d)

\* Whatever was told stays told.
LEMMA ToldGrows ==
  ASSUME NEW d \in Views, NEW e \in Views, Grows(d, e),
         NEW seq, NEW data \in Seq(Byte), NEW fin, Told(seq, data, fin, d)
  PROVE  Told(seq, data, fin, e)
  <1>1. PICK o \in 1 .. d.end : seq = Plus(d.first, o) /\ StandsAt(o, data, fin, d)
    BY DEF Told
  <1>2. o \in 1 .. e.end /\ e.first = d.first
    BY DEF Grows, Views
  <1>3. Len(data) \in Nat /\ Units(fin) \in Nat /\ (Units(fin) = 0 <=> ~fin)
    BY DEF Units
  <1>4. StandsAt(o, data, fin, e)
    BY <1>1, <1>3 DEF StandsAt, Grows, Views
  <1>5. QED BY <1>1, <1>2, <1>4 DEF Told

LEMMA SpokenGrows ==
  ASSUME NEW d \in Views, NEW e \in Views, Grows(d, e), NEW t, t.data \in Seq(Byte),
         Spoken(t, d)
  PROVE  Spoken(t, e)
  <1>1. CASE "SYN" \in t.flags
    BY <1>1 DEF Spoken, Grows, Views
  <1>2. CASE "SYN" \notin t.flags
    BY <1>2, ToldGrows DEF Spoken
  <1>3. QED BY <1>1, <1>2

LEMMA GrowsOn ==
  /\ \A d \in Views : Grows(d, d)
  /\ \A d, e, f \in Views : Grows(d, e) /\ Grows(e, f) => Grows(d, f)
  BY DEF Grows, Views

-----------------------------------------------------------------------------
(* Parts                                                                   *)

\* r is a stretch of the payload, with the FIN only if it reaches the end.
PartFrom(m, r, seq, data, fin) ==
  /\ r.seq = Plus(seq, m)
  /\ m + Len(r.data) <= Len(data)
  /\ \A k \in 1 .. Len(r.data) : r.data[k] = data[m + k]
  /\ r.fin => fin /\ m + Len(r.data) = Len(data)

Part(r, seq, data, fin) == \E m \in 0 .. Len(data) : PartFrom(m, r, seq, data, fin)

\* A part of what was told was told.
LEMMA ToldPart ==
  ASSUME NEW d \in Views, NEW seq, NEW data \in Seq(Byte), NEW fin \in BOOLEAN,
         Told(seq, data, fin, d),
         NEW r, r.data \in Seq(Byte), r.fin \in BOOLEAN, Part(r, seq, data, fin)
  PROVE  Told(r.seq, r.data, r.fin, d)
  <1>1. PICK o \in 1 .. d.end : seq = Plus(d.first, o) /\ StandsAt(o, data, fin, d)
    BY DEF Told
  <1>2. PICK m \in 0 .. Len(data) : PartFrom(m, r, seq, data, fin)
    BY DEF Part
  <1>3. /\ Len(data) \in Nat /\ Len(r.data) \in Nat /\ m \in Nat /\ o \in Nat /\ d.end \in Nat
        /\ Units(fin) = 0 \/ Units(fin) = 1
        /\ fin => Units(fin) = 1
        /\ r.fin => Units(r.fin) = 1
        /\ ~r.fin => Units(r.fin) = 0
        /\ data = <<>> <=> Len(data) = 0
        /\ r.data = <<>> <=> Len(r.data) = 0
        /\ d.first \in SeqNumber /\ d.total \in Nat /\ d.end < Modulus /\ Modulus \in Nat
    BY ModulusAssumption, ConfigAssumption DEF Units, Views
  <1>4. o + m \in 1 .. d.end /\ o + m < Modulus
    BY <1>1, <1>3 DEF StandsAt
  <1>5. r.seq = Plus(d.first, o + m)
    BY <1>1, <1>2, <1>3, <1>4, PlusPlus DEF PartFrom
  <1>12. /\ o + Len(data) + Units(fin) <= d.end
         /\ Len(data) # 0 => o + Len(data) <= 1 + d.total
         /\ fin => o + Len(data) = 1 + d.total
         /\ fin => d.over
    BY <1>1, <1>3 DEF StandsAt
  <1>13. /\ m + Len(r.data) <= Len(data)
         /\ r.fin => fin
         /\ r.fin => m + Len(r.data) = Len(data)
    BY <1>2 DEF PartFrom
  <1> DEFINE n == Len(data)
             l == Len(r.data)
             end == d.end
             total == d.total
  <1>14. n \in Nat /\ l \in Nat /\ end \in Nat /\ total \in Nat /\ m \in Nat /\ o \in Nat
    BY <1>3
  <1>15. m + l <= n /\ o + n <= end /\ (n # 0 => o + n <= 1 + total)
    BY <1>3, <1>12, <1>13
  <1>16. r.fin => m + l = n /\ o + n = 1 + total /\ o + n + 1 <= end
    BY <1>3, <1>12, <1>13
  <1>6. (o + m) + l + Units(r.fin) <= end
    <2>1. CASE r.fin
      <3>1. Units(r.fin) = 1
        BY <1>3, <2>1
      <3>2. m + l = n /\ o + n + 1 <= end
        BY <1>16, <2>1
      <3> HIDE DEF n, l, end
      <3>3. (o + m) + l + 1 <= end
        BY <1>14, <3>2
      <3>4. QED BY <3>1, <3>3
    <2>2. CASE ~r.fin
      <3>1. Units(r.fin) = 0
        BY <1>3, <2>2
      <3> HIDE DEF n, l, end
      <3>2. (o + m) + l + 0 <= end
        BY <1>14, <1>15
      <3>3. QED BY <3>1, <3>2
    <2>3. QED BY <2>1, <2>2
  <1>7. r.data # <<>> => (o + m) + l <= 1 + total
    <2>1. r.data # <<>> => l # 0
      BY <1>3
    <2> HIDE DEF n, l, end, total
    <2>2. l # 0 => (o + m) + l <= 1 + total
      BY <1>14, <1>15
    <2>3. QED BY <2>1, <2>2
  <1>8. r.fin => (o + m) + l = 1 + total /\ d.over
    <2>1. r.fin => d.over
      BY <1>12, <1>13
    <2> HIDE DEF n, l, end, total
    <2>2. r.fin => (o + m) + l = 1 + total
      BY <1>14, <1>16
    <2>3. QED BY <2>1, <2>2
  <1>9. ASSUME NEW k \in 1 .. Len(r.data)
        PROVE  r.data[k] = <<d.id, (o + m) + k - 1>>
    <2>1. m + k \in 1 .. Len(data) /\ r.data[k] = data[m + k]
      BY <1>2, <1>3 DEF PartFrom
    <2>2. data[m + k] = <<d.id, o + (m + k) - 1>>
      BY <1>1, <2>1 DEF StandsAt
    <2>3. o + (m + k) - 1 = (o + m) + k - 1
      BY <1>3
    <2>4. QED BY <2>1, <2>2, <2>3
  <1>10. StandsAt(o + m, r.data, r.fin, d)
    BY <1>6, <1>7, <1>8, <1>9 DEF StandsAt
  <1>11. QED BY <1>4, <1>5, <1>10 DEF Told

-----------------------------------------------------------------------------
(* What a connection tells                                                 *)

FinSent(c) == c.state \in {"FinWait1", "FinWait2", "Closing", "TimeWait", "LastAck"}

\* The stream that connection c carries, as the i-th of its side, from "first" on.
ViewOf(c, first, i) ==
  [first |-> first, id |-> i, total |-> c.accepted, end |-> Distance(first, c.send_nxt),
   over |-> FinSent(c) \/ c.close_requested]

\* The sequence numbers used are the SYN, the bytes that left the queue and the FIN.
Numbered(c, first) ==
  /\ c.accepted + 2 + ReceiveBuffer < Modulus
  /\ Distance(first, c.send_nxt) >= 1
  /\ Distance(first, c.send_nxt) + Len(c.send_queue) = 1 + c.accepted + Units(FinSent(c))
  /\ FinSent(c) => c.send_queue = <<>> /\ ~c.close_requested

\* What is queued comes next in the stream.
QueuedNext(c, first, i) ==
  \A k \in 1 .. Len(c.send_queue) :
    c.send_queue[k] = <<i, Distance(first, c.send_nxt) + k - 1>>

\* What is kept for retransmission is the stream's.
KeptOwn(c, d) == \A k \in 1 .. Len(c.unacked) : Spoken(c.unacked[k], d)

\* No more is counted as acknowledged than the peer's ACK covers.
Confirmed(c, first) ==
  /\ Distance(first, c.send_una) <= Distance(first, c.send_nxt)
  /\ c.acked = 0 \/ c.acked + 1 <= Distance(first, c.send_una)
  /\ c.state \in Opening => c.accepted = 0
  /\ c.state \notin Opening => c.send_una # first
  /\ c.state \in {"FinWait2", "TimeWait"} => c.send_una = c.send_nxt

OnlySyn(c) == c.state = "SynSent" => \A k \in 1 .. Len(c.unacked) : c.unacked[k].flags = {"SYN"}

Tells(c, first, i) ==
  /\ Numbered(c, first)
  /\ QueuedNext(c, first, i)
  /\ KeptOwn(c, ViewOf(c, first, i))
  /\ Confirmed(c, first)
  /\ OnlySyn(c)

\* What it acknowledges.
Heard(c) == IF c.state = "SynSent" THEN {None} ELSE {None, c.recv_nxt}

\* A segment handed to the stack is of the stream, or a reset.
Utterance(x, d, acks) ==
  \/ "RST" \in x.flags /\ "SYN" \notin x.flags
  \/ Spoken(x, d) /\ x.ack \in acks

Utters(segments, d, acks) == \A k \in 1 .. Len(segments) : Utterance(segments[k], d, acks)

\* What a method that leaves d of c and hands out segments does to the stream.
Speaks(c, d, segments, first, i) ==
  /\ Tells(d, first, i)
  /\ Grows(ViewOf(c, first, i), ViewOf(d, first, i))
  /\ Utters(segments, ViewOf(d, first, i), Heard(c) \cup Heard(d))

LEMMA NumberedFacts ==
  ASSUME NEW c \in Conn, NEW first \in SeqNumber, Numbered(c, first)
  PROVE  /\ Distance(first, c.send_nxt) \in Nat /\ Distance(first, c.send_nxt) < Modulus
         /\ Distance(first, c.send_nxt) <= 2 + c.accepted
         /\ c.send_nxt = Plus(first, Distance(first, c.send_nxt))
         /\ c.accepted \in Nat /\ Len(c.send_queue) \in Nat
         /\ Distance(first, c.send_nxt) + 1 < Modulus \/ FinSent(c)
  <1>1. c.send_nxt \in SeqNumber /\ c.accepted \in Nat /\ Len(c.send_queue) \in Nat
    BY DEF Conn
  <1>2. Distance(first, c.send_nxt) \in 0 .. Modulus - 1
        /\ Plus(first, Distance(first, c.send_nxt)) = c.send_nxt
    BY <1>1, PlusOfDistance
  <1>3. PICK end \in Nat : end = Distance(first, c.send_nxt)
    BY <1>2
  <1>4. Units(FinSent(c)) = 0 \/ (Units(FinSent(c)) = 1 /\ FinSent(c))
    BY DEF Units
  <1>5. end + Len(c.send_queue) = 1 + c.accepted + Units(FinSent(c))
        /\ c.accepted + 2 + ReceiveBuffer < Modulus
    BY <1>3 DEF Numbered
  <1>6. ReceiveBuffer \in Nat /\ ReceiveBuffer >= 1 /\ Modulus \in Nat
    BY ConfigAssumption, ModulusAssumption
  <1>7. end <= 2 + c.accepted /\ (end + 1 < Modulus \/ FinSent(c))
    BY <1>1, <1>4, <1>5, <1>6
  <1>8. QED BY <1>1, <1>2, <1>3, <1>6, <1>7

LEMMA ViewOfType ==
  ASSUME NEW c \in Conn, NEW first \in SeqNumber, NEW i \in Nat, Numbered(c, first)
  PROVE  ViewOf(c, first, i) \in Views
  <1>1. (FinSent(c) \/ c.close_requested) \in BOOLEAN
    OBVIOUS
  <1>2. Distance(first, c.send_nxt) \in Nat /\ Distance(first, c.send_nxt) <= 2 + c.accepted
        /\ c.accepted \in Nat
    BY NumberedFacts
  <1>3. c.accepted + 2 + ReceiveBuffer < Modulus
    BY DEF Numbered
  <1>4. QED BY <1>1, <1>2, <1>3 DEF ViewOf, Views

\* What is said stays said.
LEMMA UttersGrows ==
  ASSUME NEW d \in Views, NEW e \in Views, Grows(d, e), NEW acks, NEW more, acks \subseteq more,
         NEW segments \in Seq(Segment), Utters(segments, d, acks)
  PROVE  Utters(segments, e, more)
  <1>1. ASSUME NEW k \in 1 .. Len(segments) PROVE Utterance(segments[k], e, more)
    <2>1. segments[k] \in Segment
      BY ElementOfSeq
    <2>2. segments[k].data \in Seq(Byte)
      BY <2>1 DEF Segment
    <2>3. Utterance(segments[k], d, acks)
      BY DEF Utters
    <2>4. CASE "RST" \in segments[k].flags /\ "SYN" \notin segments[k].flags
      BY <2>4 DEF Utterance
    <2>5. CASE Spoken(segments[k], d) /\ segments[k].ack \in acks
      <3>1. Spoken(segments[k], e)
        BY <2>2, <2>5, SpokenGrows
      <3>2. QED BY <2>5, <3>1 DEF Utterance
    <2>6. QED BY <2>3, <2>4, <2>5 DEF Utterance
  <1>2. QED BY <1>1 DEF Utters

LEMMA UttersNothing ==
  ASSUME NEW d, NEW acks
  PROVE  Utters(<<>>, d, acks)
  BY DEF Utters

LEMMA UttersOne ==
  ASSUME NEW x, NEW d, NEW acks, Utterance(x, d, acks)
  PROVE  Utters(<<x>>, d, acks)
  BY DEF Utters

LEMMA UttersBoth ==
  ASSUME NEW p \in Seq(Segment), NEW q \in Seq(Segment), NEW d, NEW acks,
         Utters(p, d, acks), Utters(q, d, acks)
  PROVE  Utters(p \o q, d, acks)
  <1>1. Len(p) \in Nat /\ Len(q) \in Nat /\ Len(p \o q) = Len(p) + Len(q)
    OBVIOUS
  <1>2. ASSUME NEW k \in 1 .. Len(p \o q) PROVE Utterance((p \o q)[k], d, acks)
    <2>1. CASE k <= Len(p)
      BY <1>1, <2>1 DEF Utters
    <2>2. CASE k > Len(p)
      <3>1. (p \o q)[k] = q[k - Len(p)] /\ k - Len(p) \in 1 .. Len(q)
        BY <1>1, <2>2
      <3>2. QED BY <3>1 DEF Utters
    <2>3. QED BY <1>1, <2>1, <2>2
  <1>3. QED BY <1>2 DEF Utters

\* One method after another.
LEMMA SpeaksOn ==
  ASSUME NEW c \in Conn, NEW d \in Conn, NEW e \in Conn, NEW first \in SeqNumber, NEW i \in Nat,
         Tells(c, first, i), NEW p \in Seq(Segment), NEW q \in Seq(Segment),
         Speaks(c, d, p, first, i), Speaks(d, e, q, first, i),
         Heard(d) \subseteq Heard(c) \cup Heard(e)
  PROVE  Speaks(c, e, p \o q, first, i)
  <1>1. PICK x, y, z : x = ViewOf(c, first, i) /\ y = ViewOf(d, first, i) /\ z = ViewOf(e, first, i)
    OBVIOUS
  <1>2. x \in Views /\ y \in Views /\ z \in Views
    BY <1>1, ViewOfType DEF Speaks, Tells
  <1>3. Grows(x, y) /\ Grows(y, z)
    BY <1>1 DEF Speaks
  <1>4. Grows(x, z)
    BY <1>2, <1>3, GrowsOn
  <1>5. Utters(p, y, Heard(c) \cup Heard(d)) /\ Utters(q, z, Heard(d) \cup Heard(e))
    BY <1>1 DEF Speaks
  <1>6. Utters(p, z, Heard(c) \cup Heard(e)) /\ Utters(q, z, Heard(c) \cup Heard(e))
    <2>1. Heard(c) \cup Heard(d) \subseteq Heard(c) \cup Heard(e)
          /\ Heard(d) \cup Heard(e) \subseteq Heard(c) \cup Heard(e)
      OBVIOUS
    <2>2. Grows(z, z)
      BY <1>2, GrowsOn
    <2>3. QED BY <1>2, <1>3, <1>5, <2>1, <2>2, UttersGrows
  <1>7. Utters(p \o q, z, Heard(c) \cup Heard(e))
    BY <1>6, UttersBoth
  <1>8. Tells(e, first, i)
    BY DEF Speaks
  <1>9. QED BY <1>1, <1>4, <1>7, <1>8 DEF Speaks

\* A segment kept for retransmission, sent.
LEMMA SegmentForSpoken ==
  ASSUME NEW c \in Conn, NEW t \in TrackedSegment, NEW d, Spoken(t, d),
         c.state = "SynSent" => "ACK" \notin t.flags
  PROVE  Utterance(SegmentFor(c, t), d, Heard(c))
  <1>1. PICK x : x = SegmentFor(c, t)
    OBVIOUS
  <1>2. x.flags = t.flags /\ x.seq = t.seq /\ x.data = t.data
        /\ x.ack = (IF "ACK" \in t.flags THEN c.recv_nxt ELSE None)
    BY <1>1 DEF SegmentFor, BuildSegment
  <1>3. x.ack \in Heard(c)
    BY <1>2 DEF Heard
  <1>4. Spoken(x, d)
    BY <1>2 DEF Spoken
  <1>5. QED BY <1>1, <1>3, <1>4 DEF Utterance

\* A pure ACK stands where the stream has come to.
LEMMA AckSegmentSpoken ==
  ASSUME NEW c \in Conn, NEW first \in SeqNumber, NEW i \in Nat, Numbered(c, first),
         c.state # "SynSent"
  PROVE  Utterance(AckSegment(c), ViewOf(c, first, i), Heard(c))
  <1>1. PICK x : x = AckSegment(c)
    OBVIOUS
  <1>2. x.flags = {"ACK"} /\ x.seq = c.send_nxt /\ x.data = <<>> /\ x.ack = c.recv_nxt
    BY <1>1 DEF AckSegment, BuildSegment
  <1>3. PICK d \in Views : d = ViewOf(c, first, i)
    BY ViewOfType
  <1>4. d.end = Distance(first, c.send_nxt) /\ d.first = first
    BY <1>3 DEF ViewOf
  <1>5. d.end \in Nat /\ d.end >= 1 /\ x.seq = Plus(d.first, d.end)
    BY <1>2, <1>4, NumberedFacts DEF Numbered
  <1>6. "FIN" \notin x.flags /\ "RST" \notin x.flags /\ "SYN" \notin x.flags
    BY <1>2
  <1>7. Units("FIN" \in x.flags) = 0
    BY <1>6 DEF Units
  <1>8. Len(<<>>) = 0
    OBVIOUS
  <1>9. StandsAt(d.end, x.data, "FIN" \in x.flags, d)
    BY <1>2, <1>5, <1>6, <1>7, <1>8 DEF StandsAt
  <1>10. Told(x.seq, x.data, "FIN" \in x.flags, d)
    BY <1>5, <1>9 DEF Told
  <1>11. Spoken(x, d)
    BY <1>6, <1>10 DEF Spoken
  <1>12. x.ack \in Heard(c)
    BY <1>2 DEF Heard
  <1>13. QED BY <1>1, <1>3, <1>11, <1>12 DEF Utterance

\* A method that leaves the sending half alone.
LEMMA SameTells ==
  ASSUME NEW c, NEW d, NEW first, NEW i, Tells(c, first, i),
         d.send_una = c.send_una, d.send_nxt = c.send_nxt, d.unacked = c.unacked,
         d.send_queue = c.send_queue, d.accepted = c.accepted, d.acked = c.acked,
         d.close_requested = c.close_requested, FinSent(d) <=> FinSent(c),
         d.state \in Opening <=> c.state \in Opening,
         d.state = "SynSent" => c.state = "SynSent",
         d.state \in {"FinWait2", "TimeWait"} => c.send_una = c.send_nxt
  PROVE  Tells(d, first, i) /\ ViewOf(d, first, i) = ViewOf(c, first, i)
  <1>1. ViewOf(d, first, i) = ViewOf(c, first, i)
    BY DEF ViewOf
  <1>2. Numbered(d, first)
    <2>1. Units(FinSent(d)) = Units(FinSent(c))
      BY DEF Units
    <2>2. QED BY <2>1 DEF Numbered, Tells
  <1>3. QueuedNext(d, first, i) /\ KeptOwn(d, ViewOf(d, first, i))
    BY <1>1 DEF QueuedNext, KeptOwn, Tells
  <1>4. Confirmed(d, first)
    BY DEF Confirmed, Tells
  <1>5. OnlySyn(d)
    BY DEF OnlySyn, Tells
  <1>6. QED BY <1>1, <1>2, <1>3, <1>4, <1>5 DEF Tells

LEMMA SameSpeaks ==
  ASSUME NEW c \in Conn, NEW d \in Conn, NEW first \in SeqNumber, NEW i \in Nat,
         Tells(c, first, i), Tells(d, first, i), ViewOf(d, first, i) = ViewOf(c, first, i),
         NEW segments \in Seq(Segment),
         Utters(segments, ViewOf(c, first, i), Heard(c))
           \/ Utters(segments, ViewOf(c, first, i), Heard(d))
  PROVE  Speaks(c, d, segments, first, i)
  <1>1. PICK x \in Views : x = ViewOf(c, first, i)
    BY ViewOfType DEF Tells
  <1>2. Grows(x, x)
    BY GrowsOn
  <1>3. Utters(segments, x, Heard(c) \cup Heard(d))
    <2>1. Heard(c) \subseteq Heard(c) \cup Heard(d) /\ Heard(d) \subseteq Heard(c) \cup Heard(d)
      OBVIOUS
    <2>2. QED BY <1>1, <1>2, <2>1, UttersGrows
  <1>4. QED BY <1>1, <1>2, <1>3 DEF Speaks

\* Sending n sequence numbers more moves the end of the stream by n.
LEMMA EndMoves ==
  ASSUME NEW first \in SeqNumber, NEW next \in SeqNumber, NEW n \in Nat,
         Distance(first, next) + n < Modulus
  PROVE  Distance(first, Plus(next, n)) = Distance(first, next) + n
  <1>1. Distance(first, next) \in Nat /\ next = Plus(first, Distance(first, next))
        /\ n < Modulus /\ Modulus \in Nat
    BY PlusOfDistance, ModulusAssumption
  <1>2. Plus(next, n) = Plus(first, Distance(first, next) + n)
    BY <1>1, PlusPlus
  <1>3. QED BY <1>1, <1>2, DistanceOfPlus

\* The stream with n sequence numbers more in use.
Farther(c, d, first, i, n) ==
  [first |-> first, id |-> i, total |-> c.accepted, end |-> Distance(first, c.send_nxt) + n,
   over |-> FinSent(d) \/ d.close_requested]

\* d is c after n sequence numbers were sent from the front of the queue, as "more".
Sends(c, d, first, i, n, more) ==
  /\ d.send_una = c.send_una /\ d.acked = c.acked /\ d.accepted = c.accepted
  /\ d.send_nxt = Plus(c.send_nxt, n)
  /\ d.unacked = c.unacked \o more
  /\ Distance(first, c.send_nxt) + n + Len(d.send_queue)
       = 1 + c.accepted + Units(FinSent(d))
  /\ FinSent(d) => d.send_queue = <<>> /\ ~d.close_requested
  /\ FinSent(c) \/ c.close_requested => FinSent(d) \/ d.close_requested
  /\ \A k \in 1 .. Len(d.send_queue) :
       d.send_queue[k] = <<i, Distance(first, c.send_nxt) + n + k - 1>>
  /\ \A k \in 1 .. Len(more) : Spoken(more[k], Farther(c, d, first, i, n))
  /\ c.state \notin Opening /\ d.state \notin Opening \cup {"FinWait2", "TimeWait"}

\* Data or a FIN sent from the front of the queue.
LEMMA SaysMore ==
  ASSUME NEW c \in Conn, NEW d \in Conn, NEW first \in SeqNumber, NEW i \in Nat,
         Tells(c, first, i), NEW n \in Nat, NEW more \in Seq(TrackedSegment),
         Sends(c, d, first, i, n, more)
  PROVE  /\ Tells(d, first, i) /\ Grows(ViewOf(c, first, i), ViewOf(d, first, i))
         /\ ViewOf(d, first, i) = Farther(c, d, first, i, n)
  <1>20. PICK end \in Nat : end = Distance(first, c.send_nxt)
    BY NumberedFacts DEF Tells
  <1>21. PICK v : v = Farther(c, d, first, i, n)
    OBVIOUS
  <1>22. v = [first |-> first, id |-> i, total |-> c.accepted, end |-> end + n,
              over |-> FinSent(d) \/ d.close_requested]
    BY <1>20, <1>21 DEF Farther
  <1>23. /\ d.send_una = c.send_una /\ d.acked = c.acked /\ d.accepted = c.accepted
         /\ d.send_nxt = Plus(c.send_nxt, n)
         /\ d.unacked = c.unacked \o more
         /\ end + n + Len(d.send_queue) = 1 + c.accepted + Units(FinSent(d))
         /\ FinSent(d) => d.send_queue = <<>> /\ ~d.close_requested
         /\ FinSent(c) \/ c.close_requested => FinSent(d) \/ d.close_requested
         /\ \A k \in 1 .. Len(d.send_queue) : d.send_queue[k] = <<i, end + n + k - 1>>
         /\ \A k \in 1 .. Len(more) : Spoken(more[k], v)
         /\ c.state \notin Opening /\ d.state \notin Opening \cup {"FinWait2", "TimeWait"}
    BY <1>20, <1>21 DEF Sends
  <1>1. /\ c.send_nxt \in SeqNumber /\ c.accepted \in Nat /\ Len(d.send_queue) \in Nat
        /\ c.accepted + 2 + ReceiveBuffer < Modulus /\ ReceiveBuffer \in Nat /\ ReceiveBuffer >= 1
        /\ Modulus \in Nat /\ end >= 1
    BY <1>20, ConfigAssumption, ModulusAssumption DEF Conn, Tells, Numbered
  <1>2. Units(FinSent(d)) = 0 \/ Units(FinSent(d)) = 1
    BY DEF Units
  <1>3. end + n < Modulus
    <2>1. PICK u \in 0 .. 1 : u = Units(FinSent(d))
      BY <1>2
    <2>2. PICK l \in Nat : l = Len(d.send_queue)
      BY <1>1
    <2>3. PICK a \in Nat : a = c.accepted
      BY <1>1
    <2>4. end + n + l = 1 + a + u
      BY <1>23, <2>1, <2>2, <2>3
    <2>5. a + 2 + ReceiveBuffer < Modulus
      BY <1>1, <2>3
    <2>6. QED BY <1>1, <2>4, <2>5
  <1>4. Distance(first, d.send_nxt) = end + n
    BY <1>1, <1>3, <1>20, <1>23, EndMoves
  <1>5. ViewOf(d, first, i) = v
    BY <1>4, <1>22, <1>23 DEF ViewOf
  <1>6. Numbered(d, first)
    <2>1. end + n >= 1 /\ d.accepted + 2 + ReceiveBuffer < Modulus
      BY <1>1, <1>23
    <2>2. end + n + Len(d.send_queue) = 1 + d.accepted + Units(FinSent(d))
      BY <1>23
    <2>3. FinSent(d) => d.send_queue = <<>> /\ ~d.close_requested
      BY <1>23
    <2>4. QED BY <1>4, <2>1, <2>2, <2>3 DEF Numbered
  <1>7. QueuedNext(d, first, i)
    BY <1>4, <1>23 DEF QueuedNext
  <1>8. PICK x \in Views : x = ViewOf(c, first, i)
    BY ViewOfType DEF Tells
  <1>9. v \in Views
    BY <1>5, <1>6, ViewOfType
  <1>10. Grows(x, v)
    <2>1. v.first = x.first /\ v.id = x.id /\ v.total = x.total /\ x.total \in Nat
          /\ x.end = end /\ v.end = end + n
      BY <1>1, <1>8, <1>20, <1>22 DEF ViewOf
    <2>2. x.over => v.over
      BY <1>8, <1>22, <1>23 DEF ViewOf
    <2>3. QED BY <2>1, <2>2 DEF Grows
  <1>11. KeptOwn(d, v)
    <2>1. c.unacked \in Seq(TrackedSegment)
      BY DEF Conn
    <2>2. ASSUME NEW k \in 1 .. Len(d.unacked) PROVE Spoken(d.unacked[k], v)
      <3>1. Len(c.unacked) \in Nat /\ Len(more) \in Nat
            /\ Len(d.unacked) = Len(c.unacked) + Len(more)
        BY <1>23, <2>1
      <3>2. CASE k <= Len(c.unacked)
        <4>1. k \in 1 .. Len(c.unacked) /\ d.unacked[k] = c.unacked[k]
          BY <1>23, <2>1, <3>1, <3>2
        <4>2. c.unacked[k] \in TrackedSegment
          BY <2>1, <4>1, ElementOfSeq
        <4>3. c.unacked[k].data \in Seq(Byte)
          BY <4>2 DEF TrackedSegment
        <4>4. Spoken(c.unacked[k], x)
          BY <1>8, <4>1 DEF Tells, KeptOwn
        <4>5. QED BY <1>9, <1>10, <4>1, <4>3, <4>4, SpokenGrows
      <3>3. CASE k > Len(c.unacked)
        <4>1. k - Len(c.unacked) \in 1 .. Len(more) /\ d.unacked[k] = more[k - Len(c.unacked)]
          BY <1>23, <2>1, <3>1, <3>3
        <4>2. QED BY <1>23, <4>1
      <3>4. QED BY <3>1, <3>2, <3>3
    <2>3. QED BY <2>2 DEF KeptOwn
  <1>12. Confirmed(d, first)
    <2>1. Distance(first, c.send_una) \in Nat
      BY PlusOfDistance DEF Conn
    <2>2. Distance(first, c.send_una) <= end + n
      BY <1>20, <2>1 DEF Tells, Confirmed
    <2>3. QED BY <1>4, <1>23, <2>2 DEF Tells, Confirmed
  <1>13. OnlySyn(d)
    BY <1>23 DEF OnlySyn, Opening
  <1>14. QED BY <1>21, <1>5, <1>6, <1>7, <1>8, <1>10, <1>11, <1>12, <1>13 DEF Tells

-----------------------------------------------------------------------------
(* Sending                                                                 *)

\* The end of a stream whose FIN is not sent is where the queue begins.
LEMMA EndBeforeFin ==
  ASSUME NEW c \in Conn, NEW first \in SeqNumber, Numbered(c, first), ~FinSent(c)
  PROVE  Distance(first, c.send_nxt) + Len(c.send_queue) = 1 + c.accepted
  <1>1. Units(FinSent(c)) = 0
    BY DEF Units
  <1>2. PICK end \in Nat : end = Distance(first, c.send_nxt)
    BY NumberedFacts
  <1>3. PICK l \in Nat : l = Len(c.send_queue)
    BY DEF Conn
  <1>4. PICK a \in Nat : a = c.accepted
    BY DEF Conn
  <1>5. end + l = 1 + a + 0
    BY <1>1, <1>2, <1>3, <1>4 DEF Numbered
  <1>6. end + l = 1 + a
    BY <1>5
  <1>7. QED BY <1>2, <1>3, <1>4, <1>6

\* A segment cut from the queue is the stream's, once the stream reaches past it.
LEMMA ChunkSpoken ==
  ASSUME NEW c \in Conn, NEW first \in SeqNumber, NEW i \in Nat, Numbered(c, first),
         QueuedNext(c, first, i), ~FinSent(c),
         NEW total \in Nat, total <= Len(c.send_queue), total <= MaxWindow,
         NEW v, v.first = first, v.id = i, v.total = c.accepted,
         v.end = Distance(first, c.send_nxt) + total,
         NEW k \in 1 .. (total + c.mss - 1) \div c.mss
  PROVE  Spoken(Chunk(c, total, k), v) /\ Chunk(c, total, k).flags = {"ACK"}
  <1>1. PICK t : t = Chunk(c, total, k)
    OBVIOUS
  <1>2. PICK end \in Nat : end = Distance(first, c.send_nxt)
    BY NumberedFacts
  <1>3. c.send_queue \in Seq(Byte) /\ Len(c.send_queue) \in Nat /\ c.mss \in Nat \ {0}
        /\ c.accepted \in Nat
    BY DEF Conn
  <1>4. PICK a : a = (k - 1) * c.mss
    OBVIOUS
  <1>5. PICK b \in Nat : b = Smaller(k * c.mss, total)
    BY ChunkFacts
  <1>6. Len(t.data) = b - a /\ b - a >= 1 /\ t.seq = Plus(c.send_nxt, a) /\ t \in TrackedSegment
    BY <1>1, <1>4, <1>5, ChunkFacts
  <1>7. a \in Nat /\ k * c.mss \in Nat
    <2>1. k \in Nat /\ k - 1 \in Nat
      <3>1. PICK n : n = (total + c.mss - 1) \div c.mss
        OBVIOUS
      <3>2. n \in Nat
        BY <1>3, <3>1, CutPlaces
      <3>3. k \in 1 .. n
        BY <3>1
      <3>4. QED BY <3>2, <3>3
    <2>2. QED BY <1>3, <1>4, <2>1, ProductType
  <1>8. b <= total
    BY <1>5, <1>7, SmallerType
  <1>21. a \in Nat
    BY <1>7
  <1>9. t.data = SubSeq(c.send_queue, a + 1, b) /\ t.flags = {"ACK"}
    BY <1>1, <1>4, <1>5 DEF Chunk
  <1>10. end + Len(c.send_queue) = 1 + c.accepted
    BY <1>2, EndBeforeFin
  <1>11. PICK l \in Nat : l = Len(c.send_queue)
    BY <1>3
  <1>12. PICK w \in Nat : w = c.accepted
    BY <1>3
  <1>13. end + a \in 1 .. end + total /\ (end + a) + (b - a) <= end + total
         /\ (end + a) + (b - a) <= 1 + w /\ end + a < Modulus
    <2>1. end >= 1 /\ w + 2 + ReceiveBuffer < Modulus
      BY <1>2, <1>12 DEF Numbered
    <2>2. ReceiveBuffer \in Nat /\ Modulus \in Nat
      BY ConfigAssumption, ModulusAssumption
    <2>3. end + l = 1 + w /\ total <= l
      BY <1>10, <1>11, <1>12
    <2>4. b - a >= 1
      BY <1>6
    <2>5. QED BY <1>21, <1>8, <2>1, <2>2, <2>3, <2>4
  <1>14. t.seq = Plus(first, end + a)
    <2>1. c.send_nxt = Plus(first, end)
      BY <1>2, NumberedFacts
    <2>2. QED BY <1>6, <1>7, <1>13, <2>1, PlusPlus
  <1>15. ASSUME NEW x \in 1 .. Len(t.data)
         PROVE  t.data[x] = <<i, (end + a) + x - 1>>
    <2>1. x \in Nat /\ x >= 1 /\ a + x <= b /\ a + x <= l
      BY <1>6, <1>7, <1>8, <1>11
    <2>2. t.data[x] = c.send_queue[a + x]
      <3>1. SubSeq(c.send_queue, a + 1, b)[x] = c.send_queue[(a + 1) + x - 1]
        BY <1>3, <1>7, <2>1
      <3>2. (a + 1) + x - 1 = a + x
        BY <1>7, <2>1
      <3>3. QED BY <1>9, <3>1, <3>2
    <2>3. a + x \in 1 .. Len(c.send_queue)
      BY <1>7, <1>11, <2>1
    <2>4. c.send_queue[a + x] = <<i, end + (a + x) - 1>>
      BY <1>2, <2>3 DEF QueuedNext
    <2>5. end + (a + x) - 1 = (end + a) + x - 1
      BY <1>7, <2>1
    <2>6. QED BY <2>2, <2>4, <2>5
  <1>16. "FIN" \notin t.flags /\ "RST" \notin t.flags /\ "SYN" \notin t.flags
    BY <1>9
  <1>17. Units("FIN" \in t.flags) = 0
    BY <1>16 DEF Units
  <1>18. StandsAt(end + a, t.data, "FIN" \in t.flags, v)
    <2>1. (end + a) + Len(t.data) + 0 <= v.end
      BY <1>2, <1>6, <1>7, <1>13
    <2>2. (end + a) + Len(t.data) <= 1 + v.total
      BY <1>6, <1>12, <1>13
    <2>3. QED BY <1>15, <1>16, <1>17, <2>1, <2>2 DEF StandsAt
  <1>19. Told(t.seq, t.data, "FIN" \in t.flags, v)
    <2>1. end + a \in 1 .. v.end
      BY <1>2, <1>13
    <2>2. QED BY <1>14, <1>18, <2>1 DEF Told
  <1>20. QED BY <1>1, <1>9, <1>16, <1>19 DEF Spoken

\* flush_data, the payload.
LEMMA SendChunksSpeaks ==
  ASSUME NEW c \in Conn, NEW first \in SeqNumber, NEW i \in Nat, Tells(c, first, i),
         c.state \in {"Established", "CloseWait"},
         NEW total \in Nat, total <= Len(c.send_queue), total <= MaxWindow,
         NEW u, u = SendChunks(c, total, Chunks(c, total))
  PROVE  /\ u \in Update /\ Speaks(c, u.conn, u.segments, first, i)
         /\ Heard(u.conn) = Heard(c)
  <1> DEFINE more == Chunks(c, total)
  <1>1. /\ c.send_queue \in Seq(Byte) /\ Len(c.send_queue) \in Nat /\ c.mss \in Nat \ {0}
        /\ c.accepted \in Nat
    BY DEF Conn
  <1>2. more \in Seq(TrackedSegment) /\ u \in Update
    BY ChunksType, SendChunksType
  <1>3. PICK d \in Conn : d = u.conn
    BY <1>2, UpdateFields
  <1>4. /\ d.state = c.state /\ d.close_requested = c.close_requested
        /\ d.send_una = c.send_una /\ d.acked = c.acked /\ d.accepted = c.accepted
        /\ d.send_nxt = Plus(c.send_nxt, total) /\ d.unacked = c.unacked \o more
        /\ d.send_queue = SubSeq(c.send_queue, total + 1, Len(c.send_queue))
        /\ d.recv_nxt = c.recv_nxt
    BY <1>3 DEF SendChunks, Open, Conn
  <1>5. ~FinSent(c) /\ ~FinSent(d) /\ c.state \notin Opening /\ d.state \notin Opening
        /\ d.state \notin Opening \cup {"FinWait2", "TimeWait"} /\ c.state # "SynSent"
    BY <1>4 DEF FinSent, Opening
  <1>6. PICK end \in Nat : end = Distance(first, c.send_nxt)
    BY NumberedFacts DEF Tells
  <1>7. PICK v : v = Farther(c, d, first, i, total)
    OBVIOUS
  <1>8. end + Len(c.send_queue) = 1 + c.accepted
    BY <1>5, <1>6, EndBeforeFin DEF Tells
  <1>9. PICK l \in Nat : l = Len(c.send_queue)
    BY <1>1
  <1>10. Len(d.send_queue) = l - total
    BY <1>1, <1>4, <1>9
  <1>11. end + total + Len(d.send_queue) = 1 + c.accepted + Units(FinSent(d))
    <2>1. Units(FinSent(d)) = 0
      BY <1>5 DEF Units
    <2>2. PICK w \in Nat : w = c.accepted
      BY <1>1
    <2>3. end + l = 1 + w
      BY <1>8, <1>9, <2>2
    <2>4. end + total + (l - total) = 1 + w + 0
      BY <2>3
    <2>5. QED BY <1>10, <2>1, <2>2, <2>4
  <1>12. ASSUME NEW k \in 1 .. Len(d.send_queue)
         PROVE  d.send_queue[k] = <<i, end + total + k - 1>>
    <2>1. k \in Nat /\ k >= 1 /\ total + k <= l
      BY <1>9, <1>10
    <2>2. d.send_queue[k] = c.send_queue[total + k]
      <3>1. SubSeq(c.send_queue, total + 1, l)[k] = c.send_queue[(total + 1) + k - 1]
        BY <1>1, <1>9, <2>1
      <3>2. (total + 1) + k - 1 = total + k
        BY <2>1
      <3>3. QED BY <1>4, <1>9, <3>1, <3>2
    <2>3. total + k \in 1 .. Len(c.send_queue)
      BY <1>9, <2>1
    <2>4. c.send_queue[total + k] = <<i, end + (total + k) - 1>>
      BY <1>6, <2>3 DEF Tells, QueuedNext
    <2>5. end + (total + k) - 1 = end + total + k - 1
      BY <2>1
    <2>6. QED BY <2>2, <2>4, <2>5
  <1>23. PICK n : n = (total + c.mss - 1) \div c.mss
    OBVIOUS
  <1>13. Len(more) = n /\ \A k \in 1 .. n : more[k] = Chunk(c, total, k)
    <2>1. n \in Nat
      <3>1. c.mss \in Nat \ {0} /\ total + c.mss - 1 \in Nat
        BY <1>1
      <3>2. QED BY <1>23, <3>1, QuotientType
    <2>2. more = [k \in 1 .. n |-> Chunk(c, total, k)]
      BY <1>23 DEF Chunks
    <2>3. QED BY <2>1, <2>2
  <1>14. \A k \in 1 .. n : Spoken(Chunk(c, total, k), v) /\ Chunk(c, total, k).flags = {"ACK"}
    <2>1. v.first = first /\ v.id = i /\ v.total = c.accepted
          /\ v.end = Distance(first, c.send_nxt) + total
      BY <1>6, <1>7 DEF Farther
    <2>2. Numbered(c, first) /\ QueuedNext(c, first, i) /\ ~FinSent(c)
      BY <1>5 DEF Tells
    <2>3. QED BY <1>23, <2>1, <2>2, ChunkSpoken
  <1> HIDE DEF more
  <1>15. \A k \in 1 .. Len(more) : Spoken(more[k], v) /\ more[k].flags = {"ACK"}
    BY <1>13, <1>14
  <1>16. Tells(d, first, i) /\ Grows(ViewOf(c, first, i), v) /\ ViewOf(d, first, i) = v
    <2>1. FinSent(c) \/ c.close_requested => FinSent(d) \/ d.close_requested
      BY <1>4, <1>5
    <2>2. FinSent(d) => d.send_queue = <<>> /\ ~d.close_requested
      BY <1>5
    <2>3. \A k \in 1 .. Len(more) : Spoken(more[k], v)
      BY <1>15
    <2>4. /\ d.send_una = c.send_una /\ d.acked = c.acked /\ d.accepted = c.accepted
          /\ d.send_nxt = Plus(c.send_nxt, total) /\ d.unacked = c.unacked \o more
      BY <1>4
    <2>5. c.state \notin Opening /\ d.state \notin Opening \cup {"FinWait2", "TimeWait"}
      BY <1>5
    <2>6. more \in Seq(TrackedSegment)
      BY <1>2
    <2>7. Sends(c, d, first, i, total, more)
      BY <1>6, <1>7, <1>11, <1>12, <2>1, <2>2, <2>3, <2>4, <2>5 DEF Sends
    <2>8. QED BY <1>7, <2>6, <2>7, SaysMore
  <1>17. Heard(d) = Heard(c)
    BY <1>4 DEF Heard
  <1>18. u.segments = [k \in DOMAIN more |-> SegmentFor(c, more[k])]
    BY DEF SendChunks, Open, more
  <1>19. DOMAIN more = 1 .. Len(more)
    BY <1>2
  <1>20. Utters(u.segments, v, Heard(c))
    <2>1. ASSUME NEW k \in 1 .. Len(u.segments) PROVE Utterance(u.segments[k], v, Heard(c))
      <3>1. k \in 1 .. Len(more) /\ u.segments[k] = SegmentFor(c, more[k])
        <4>1. Len(more) \in Nat
          BY <1>2
        <4>2. Len(u.segments) = Len(more)
          BY <1>18, <1>19, <4>1
        <4>3. QED BY <1>18, <1>19, <4>2
      <3>2. more[k] \in TrackedSegment
        BY <1>2, <3>1, ElementOfSeq
      <3>3. Spoken(more[k], v)
        BY <1>15, <3>1
      <3>4. QED BY <1>5, <3>1, <3>2, <3>3, SegmentForSpoken
    <2>2. QED BY <2>1 DEF Utters
  <1>21. Heard(c) \cup Heard(d) = Heard(c)
    BY <1>17
  <1>22. QED BY <1>2, <1>3, <1>16, <1>17, <1>20, <1>21 DEF Speaks

\* A queue and one segment more.
LEMMA OneTracked ==
  ASSUME NEW t \in TrackedSegment, NEW q \in Seq(TrackedSegment)
  PROVE  /\ <<t>> \in Seq(TrackedSegment) /\ Len(<<t>>) = 1 /\ <<t>>[1] = t
         /\ Append(q, t) = q \o <<t>>
  <1>1. <<t>> \in Seq(TrackedSegment) /\ Len(<<t>>) = 1 /\ <<t>>[1] = t
    OBVIOUS
  <1>2. Append(q, t) = q \o <<t>>
    OBVIOUS
  <1>3. QED BY <1>1, <1>2

\* flush_data, the FIN.
LEMMA SendFinSpeaks ==
  ASSUME NEW c \in Conn, NEW first \in SeqNumber, NEW i \in Nat, Tells(c, first, i),
         c.state \in {"Established", "CloseWait"}, c.close_requested, c.send_queue = <<>>
  PROVE  /\ SendFin(c) \in Update
         /\ Speaks(c, SendFin(c).conn, SendFin(c).segments, first, i)
         /\ Heard(SendFin(c).conn) = Heard(c)
  <1>1. PICK u : u = SendFin(c)
    OBVIOUS
  <1>2. PICK b : b = [c EXCEPT !.close_requested = FALSE,
                               !.state = IF @ = "Established" THEN "FinWait1" ELSE "LastAck"]
    OBVIOUS
  <1>3. PICK t : t = [seq |-> c.send_nxt, flags |-> {"FIN", "ACK"}, data |-> <<>>,
                      transmissions |-> 1]
    OBVIOUS
  <1>4. /\ b \in Conn /\ b.state \in {"FinWait1", "LastAck"} /\ b.recv_nxt = c.recv_nxt
        /\ b.send_nxt = c.send_nxt /\ ~b.close_requested /\ b.send_una = c.send_una
        /\ b.acked = c.acked /\ b.accepted = c.accepted /\ b.unacked = c.unacked
        /\ b.send_queue = c.send_queue
    BY <1>2 DEF Conn, State
  <1>5. t \in TrackedSegment /\ t.flags = {"FIN", "ACK"} /\ t.data = <<>> /\ t.seq = c.send_nxt
    BY <1>3 DEF TrackedSegment, Flag, Conn
  <1>6. TrackedEnd(t) = Plus(c.send_nxt, 1)
    <2>1. Units("SYN" \in t.flags) = 0 /\ Units("FIN" \in t.flags) = 1
      BY <1>5 DEF Units
    <2>2. Len(t.data) + Units("SYN" \in t.flags) + Units("FIN" \in t.flags) = 1
      BY <1>5, <2>1
    <2>3. QED BY <1>5, <2>2 DEF TrackedEnd
  <1>7. u = Transmit(b, t)
    BY <1>1, <1>2, <1>3, <1>4 DEF SendFin, SendTracked
  <1>8. u \in Update
    BY <1>1, SendFinType
  <1>9. PICK d \in Conn : d = u.conn
    BY <1>8, UpdateFields
  <1>10. d = [b EXCEPT !.send_nxt = TrackedEnd(t), !.unacked = Append(@, t)]
         /\ u.segments = <<SegmentFor(b, t)>>
    BY <1>7, <1>9 DEF Transmit, Open
  <1>11. /\ d.state = b.state /\ d.recv_nxt = c.recv_nxt
         /\ d.send_nxt = Plus(c.send_nxt, 1) /\ ~d.close_requested /\ d.send_una = c.send_una
         /\ d.acked = c.acked /\ d.accepted = c.accepted /\ d.unacked = Append(c.unacked, t)
         /\ d.send_queue = <<>>
    BY <1>4, <1>6, <1>10 DEF Conn
  <1>12. FinSent(d) /\ ~FinSent(c) /\ c.state \notin Opening /\ c.state # "SynSent"
         /\ d.state \notin Opening \cup {"FinWait2", "TimeWait"} /\ b.state # "SynSent"
    BY <1>4, <1>11 DEF FinSent, Opening
  <1>13. PICK end \in Nat : end = Distance(first, c.send_nxt)
    BY NumberedFacts DEF Tells
  <1>14. PICK w \in Nat : w = c.accepted
    BY DEF Conn
  <1>15. end = 1 + w /\ end < Modulus /\ end >= 1 /\ c.send_nxt = Plus(first, end)
    <2>1. end + Len(c.send_queue) = 1 + w
      BY <1>12, <1>13, <1>14, EndBeforeFin DEF Tells
    <2>2. Len(c.send_queue) = 0
      OBVIOUS
    <2>3. end = 1 + w
      BY <2>1, <2>2
    <2>4. Numbered(c, first)
      BY DEF Tells
    <2>5. Distance(first, c.send_nxt) < Modulus
          /\ c.send_nxt = Plus(first, Distance(first, c.send_nxt))
      BY <2>4, NumberedFacts
    <2>6. end < Modulus /\ c.send_nxt = Plus(first, end)
      BY <1>13, <2>5
    <2>7. QED BY <1>14, <2>3, <2>6
  <1>16. PICK v : v = Farther(c, d, first, i, 1)
    OBVIOUS
  <1>17. v.first = first /\ v.id = i /\ v.total = w /\ v.end = end + 1 /\ v.over
    BY <1>12, <1>13, <1>14, <1>16 DEF Farther
  <1>18. Spoken(t, v)
    <2>1. "FIN" \in t.flags /\ "SYN" \notin t.flags /\ "RST" \notin t.flags
          /\ Units("FIN" \in t.flags) = 1 /\ Len(t.data) = 0
      BY <1>5 DEF Units
    <2>2. StandsAt(end, t.data, "FIN" \in t.flags, v)
      <3>1. end + Len(t.data) + Units("FIN" \in t.flags) <= v.end
        BY <1>17, <2>1
      <3>2. end + Len(t.data) = 1 + v.total
        BY <1>15, <1>17, <2>1
      <3>3. \A k \in 1 .. Len(t.data) : t.data[k] = <<v.id, end + k - 1>>
        BY <2>1
      <3>4. QED BY <1>5, <1>17, <3>1, <3>2, <3>3 DEF StandsAt
    <2>3. end \in 1 .. v.end /\ t.seq = Plus(v.first, end)
      BY <1>5, <1>15, <1>17
    <2>4. Told(t.seq, t.data, "FIN" \in t.flags, v)
      BY <2>2, <2>3 DEF Told
    <2>5. QED BY <2>1, <2>4 DEF Spoken
  <1>19. PICK more \in Seq(TrackedSegment) : more = <<t>>
    BY <1>5, OneTracked, EmptySeq
  <1>20. d.unacked = c.unacked \o more /\ Len(more) = 1 /\ more[1] = t
    <2>1. c.unacked \in Seq(TrackedSegment)
      BY DEF Conn
    <2>2. QED BY <1>5, <1>11, <1>19, <2>1, OneTracked
  <1>21. Sends(c, d, first, i, 1, more)
    <2>1. end + 1 + Len(d.send_queue) = 1 + c.accepted + Units(FinSent(d))
      <3>1. Units(FinSent(d)) = 1 /\ Len(d.send_queue) = 0
        BY <1>11, <1>12 DEF Units
      <3>2. QED BY <1>14, <1>15, <3>1
    <2>2. \A k \in 1 .. Len(d.send_queue) : d.send_queue[k] = <<i, end + 1 + k - 1>>
      BY <1>11
    <2>3. \A k \in 1 .. Len(more) : Spoken(more[k], v)
      BY <1>18, <1>20
    <2>4. FinSent(c) \/ c.close_requested => FinSent(d) \/ d.close_requested
      BY <1>12
    <2>5. QED BY <1>11, <1>12, <1>13, <1>16, <1>20, <2>1, <2>2, <2>3, <2>4 DEF Sends
  <1>22. Tells(d, first, i) /\ Grows(ViewOf(c, first, i), ViewOf(d, first, i))
         /\ ViewOf(d, first, i) = v
    BY <1>16, <1>21, SaysMore
  <1>23. Heard(d) = Heard(c) /\ Heard(b) = Heard(c)
    BY <1>4, <1>11, <1>12 DEF Heard
  <1>24. Utters(u.segments, v, Heard(c) \cup Heard(d))
    <2>1. Utterance(SegmentFor(b, t), v, Heard(b))
      BY <1>4, <1>5, <1>12, <1>18, SegmentForSpoken
    <2>2. Heard(b) = Heard(c) \cup Heard(d)
      BY <1>23
    <2>3. QED BY <1>10, <2>1, <2>2, UttersOne
  <1>25. QED BY <1>1, <1>8, <1>9, <1>22, <1>23, <1>24 DEF Speaks

\* flush_data.
LEMMA FlushSpeaks ==
  ASSUME NEW c \in SoundConn, NEW first \in SeqNumber, NEW i \in Nat, Tells(c, first, i)
  PROVE  /\ Speaks(c, FlushData(c).conn, FlushData(c).segments, first, i)
         /\ Heard(FlushData(c).conn) = Heard(c)
  <1> DEFINE q == c.send_queue
  <1>1. c \in Conn /\ q \in Seq(Byte) /\ Len(q) \in Nat
    BY SoundFields DEF Conn
  <1>2. PICK a : a = SendAllowance(c)
    OBVIOUS
  <1>3. a \in Nat /\ a <= MaxWindow /\ MaxWindow \in Nat
    BY <1>1, <1>2, AllowanceBound, ConfigAssumption
  <1>4. FlushData(c) = FlushUpTo(c, a)
    BY <1>2 DEF FlushData
  <1>5. CASE c.state \notin {"Established", "CloseWait"}
    <2>1. FlushData(c) = Open(c, <<>>)
      BY <1>4, <1>5 DEF FlushUpTo
    <2>2. FlushData(c).conn = c /\ FlushData(c).segments = <<>>
      BY <2>1 DEF Open
    <2>3. Utters(<<>>, ViewOf(c, first, i), Heard(c)) /\ <<>> \in Seq(Segment)
      BY UttersNothing
    <2>4. QED BY <1>1, <2>2, <2>3, SameSpeaks
  <1>6. CASE /\ c.state \in {"Established", "CloseWait"}
             /\ c.close_requested /\ a > Len(q)
    <2>1. PICK u : u = SendChunks(c, Len(q), Chunks(c, Len(q)))
      OBVIOUS
    <2>2. FlushData(c) = Then(u, SendFin(u.conn))
      BY <1>4, <1>6, <2>1 DEF FlushUpTo, AndSendFin
    <2>3. Len(q) <= MaxWindow /\ Len(q) <= Len(c.send_queue)
      BY <1>1, <1>3, <1>6
    <2>4. u \in Update /\ Speaks(c, u.conn, u.segments, first, i) /\ Heard(u.conn) = Heard(c)
      BY <1>1, <1>6, <2>1, <2>3, SendChunksSpeaks
    <2>5. PICK d \in Conn : d = u.conn
      BY <2>4, UpdateFields
    <2>6. d.state = c.state /\ d.close_requested = c.close_requested
          /\ d.send_queue = SubSeq(q, Len(q) + 1, Len(q))
      BY <1>1, <2>1, <2>5 DEF SendChunks, Open, Conn
    <2>7. d.send_queue = <<>>
      BY <1>1, <2>6
    <2>8. PICK f : f = SendFin(d)
      OBVIOUS
    <2>9. f \in Update /\ Speaks(d, f.conn, f.segments, first, i) /\ Heard(f.conn) = Heard(d)
      BY <1>6, <2>4, <2>5, <2>6, <2>7, <2>8, SendFinSpeaks DEF Speaks
    <2>10. f.conn \in Conn /\ u.segments \in Seq(Segment) /\ f.segments \in Seq(Segment)
      BY <2>4, <2>9, UpdateFields
    <2>11. Speaks(c, f.conn, u.segments \o f.segments, first, i)
      <3>1. Heard(d) \subseteq Heard(c) \cup Heard(f.conn)
        BY <2>4, <2>5
      <3>2. QED BY <1>1, <2>4, <2>5, <2>9, <2>10, <3>1, SpeaksOn
    <2>12. FlushData(c).conn = f.conn /\ FlushData(c).segments = u.segments \o f.segments
      BY <2>2, <2>5, <2>8, <2>9 DEF Then, Update
    <2>13. QED BY <2>4, <2>5, <2>9, <2>11, <2>12
  <1>7. CASE /\ c.state \in {"Established", "CloseWait"}
             /\ ~(c.close_requested /\ a > Len(q))
    <2>1. PICK n : n = Smaller(a, Len(q))
      OBVIOUS
    <2>2. n \in Nat /\ n <= MaxWindow /\ n <= Len(c.send_queue)
      <3>1. n \in Nat /\ n <= a /\ n <= Len(q)
        BY <1>1, <1>3, <2>1, SmallerType
      <3>2. QED BY <1>3, <3>1
    <2>3. FlushData(c) = SendChunks(c, n, Chunks(c, n))
      BY <1>4, <1>7, <2>1 DEF FlushUpTo
    <2>4. QED BY <1>1, <1>7, <2>2, <2>3, SendChunksSpeaks
  <1>8. QED BY <1>5, <1>6, <1>7

-----------------------------------------------------------------------------
(* Frames                                                                  *)

\* The same segments, whatever the count of their transmissions.
Repeats(q, r) ==
  /\ Len(q) = Len(r)
  /\ \A k \in 1 .. Len(r) : q[k].seq = r[k].seq /\ q[k].flags = r[k].flags /\ q[k].data = r[k].data

\* The two states tell the same.
Alike(a, b) ==
  /\ a \in {"FinWait1", "FinWait2", "Closing", "TimeWait", "LastAck"}
       <=> b \in {"FinWait1", "FinWait2", "Closing", "TimeWait", "LastAck"}
  /\ a \in Opening <=> b \in Opening
  /\ a = "SynSent" <=> b = "SynSent"

\* A step that leaves alone what c tells.
SameTelling(c, d) ==
  /\ d.send_una = c.send_una /\ d.send_nxt = c.send_nxt /\ Repeats(d.unacked, c.unacked)
  /\ d.send_queue = c.send_queue /\ d.accepted = c.accepted /\ d.acked = c.acked
  /\ d.close_requested = c.close_requested /\ Alike(d.state, c.state)
  /\ d.state \in {"FinWait2", "TimeWait"} => c.send_una = c.send_nxt

LEMMA SameTellingTells ==
  ASSUME NEW c, NEW d, SameTelling(c, d), NEW first, NEW i, Tells(c, first, i)
  PROVE  Tells(d, first, i) /\ ViewOf(d, first, i) = ViewOf(c, first, i)
  <1>0. FinSent(d) <=> FinSent(c)
    BY DEF SameTelling, Alike, FinSent
  <1>1. ViewOf(d, first, i) = ViewOf(c, first, i)
    BY <1>0 DEF ViewOf, SameTelling
  <1>2. Numbered(d, first)
    <2>1. Units(FinSent(d)) = Units(FinSent(c))
      BY <1>0 DEF Units
    <2>2. QED BY <1>0, <2>1 DEF Numbered, Tells, SameTelling
  <1>3. QueuedNext(d, first, i)
    BY DEF QueuedNext, Tells, SameTelling
  <1>4. PICK v : v = ViewOf(c, first, i)
    OBVIOUS
  <1>5. KeptOwn(d, v)
    <2>1. ASSUME NEW k \in 1 .. Len(d.unacked) PROVE Spoken(d.unacked[k], v)
      <3>1. k \in 1 .. Len(c.unacked)
        BY DEF SameTelling, Repeats
      <3>2. PICK s, t : s = c.unacked[k] /\ t = d.unacked[k]
        OBVIOUS
      <3>3. t.seq = s.seq /\ t.flags = s.flags /\ t.data = s.data
        BY <3>1, <3>2 DEF SameTelling, Repeats
      <3>4. Spoken(s, v)
        BY <1>4, <3>1, <3>2 DEF Tells, KeptOwn
      <3>5. QED BY <3>2, <3>3, <3>4 DEF Spoken
    <2>2. QED BY <2>1 DEF KeptOwn
  <1>6. Confirmed(d, first)
    BY DEF Confirmed, Tells, SameTelling, Alike
  <1>7. OnlySyn(d)
    BY DEF OnlySyn, Tells, SameTelling, Alike, Repeats
  <1>8. QED BY <1>1, <1>2, <1>3, <1>4, <1>5, <1>6, <1>7 DEF Tells

LEMMA RepeatsItself ==
  \A q : Repeats(q, q)
  BY DEF Repeats

\* What a step that only sends leaves alone.
Only(c, d) ==
  /\ SameReceive(c, d) /\ d.read_closed = c.read_closed
  /\ d.state = "SynSent" <=> c.state = "SynSent"
  /\ d.acked = c.acked /\ d.accepted = c.accepted

OnlySpeaks(c, u, first, i) ==
  Speaks(c, u.conn, u.segments, first, i) /\ Only(c, u.conn)

LEMMA OnlyHeard ==
  ASSUME NEW c, NEW d, Only(c, d)
  PROVE  Heard(d) = Heard(c)
  BY DEF Only, SameReceive, Heard

LEMMA OnlyChain ==
  /\ \A c : Only(c, c)
  /\ \A c, d, e : Only(c, d) /\ Only(d, e) => Only(c, e)
  BY DEF Only, SameReceive

LEMMA SpeaksThen ==
  ASSUME NEW c \in Conn, NEW u \in Update, NEW v \in Update, NEW first \in SeqNumber,
         NEW i \in Nat, Tells(c, first, i),
         OnlySpeaks(c, u, first, i), OnlySpeaks(u.conn, v, first, i)
  PROVE  OnlySpeaks(c, Then(u, v), first, i)
  <1>1. u.conn \in Conn /\ v.conn \in Conn /\ u.segments \in Seq(Segment)
        /\ v.segments \in Seq(Segment)
    BY UpdateFields
  <1>2. Then(u, v).conn = v.conn /\ Then(u, v).segments = u.segments \o v.segments
    BY DEF Then, Update
  <1>3. Only(c, v.conn)
    BY OnlyChain DEF OnlySpeaks
  <1>4. Heard(u.conn) = Heard(c)
    BY OnlyHeard DEF OnlySpeaks
  <1>5. PICK d, e, p, q : d = u.conn /\ e = v.conn /\ p = u.segments /\ q = v.segments
    OBVIOUS
  <1>6. Speaks(c, d, p, first, i) /\ Speaks(d, e, q, first, i)
        /\ Heard(d) \subseteq Heard(c) \cup Heard(e)
    BY <1>4, <1>5 DEF OnlySpeaks
  <1>7. d \in Conn /\ e \in Conn /\ p \in Seq(Segment) /\ q \in Seq(Segment)
    BY <1>1, <1>5
  <1>8. Speaks(c, e, p \o q, first, i)
    BY <1>6, <1>7, SpeaksOn
  <1>9. QED BY <1>2, <1>3, <1>5, <1>8 DEF OnlySpeaks

\* Nothing changes and nothing is said, or only what was true anyway.
LEMMA SilentSpeaks ==
  ASSUME NEW c \in Conn, NEW first \in SeqNumber, NEW i \in Nat, Tells(c, first, i)
  PROVE  /\ OnlySpeaks(c, Open(c, <<>>), first, i)
         /\ OnlySpeaks(c, Closed(c, <<>>), first, i)
         /\ Speaks(c, c, <<>>, first, i)
  <1>1. <<>> \in Seq(Segment) /\ Utters(<<>>, ViewOf(c, first, i), Heard(c))
    BY NoSegments, UttersNothing
  <1>2. Speaks(c, c, <<>>, first, i)
    BY <1>1, SameSpeaks
  <1>3. QED BY <1>2, OnlyChain DEF OnlySpeaks, Open, Closed

\* A step that tells the same and hands out one segment of the stream.
LEMMA OneSegmentSpeaks ==
  ASSUME NEW c \in Conn, NEW d \in Conn, NEW first \in SeqNumber, NEW i \in Nat,
         Tells(c, first, i), SameTelling(c, d), NEW x \in Segment,
         Utterance(x, ViewOf(c, first, i), Heard(c)) \/ Utterance(x, ViewOf(c, first, i), Heard(d))
  PROVE  Speaks(c, d, <<x>>, first, i)
  <1>1. Tells(d, first, i) /\ ViewOf(d, first, i) = ViewOf(c, first, i)
    BY SameTellingTells
  <1>2. <<x>> \in Seq(Segment)
    BY OneSegment
  <1>3. Utters(<<x>>, ViewOf(c, first, i), Heard(c)) \/ Utters(<<x>>, ViewOf(c, first, i), Heard(d))
    BY UttersOne
  <1>4. QED BY <1>1, <1>2, <1>3, SameSpeaks

\* retransmit_oldest.
LEMMA RetransmitSpeaks ==
  ASSUME NEW c \in SoundConn, NEW first \in SeqNumber, NEW i \in Nat, Tells(c, first, i),
         NEW timeout \in BOOLEAN
  PROVE  OnlySpeaks(c, RetransmitOldest(c, timeout), first, i)
  <1>1. c \in Conn /\ c.unacked \in Seq(TrackedSegment)
    BY SoundFields DEF Conn
  <1>2. CASE c.unacked = <<>> \/ Head(c.unacked).transmissions >= MaxTransmissions
    <2>1. RetransmitOldest(c, timeout) = Open(c, <<>>)
      BY <1>2 DEF RetransmitOldest
    <2>2. QED BY <1>1, <2>1, SilentSpeaks
  <1>3. CASE c.unacked # <<>> /\ ~(Head(c.unacked).transmissions >= MaxTransmissions)
    <2>1. PICK t \in TrackedSegment : t = c.unacked[1] /\ t = Head(c.unacked)
      BY <1>1, <1>3
    <2>2. PICK n : n = CountUp(t.transmissions)
      OBVIOUS
    <2>3. PICK d : d = [c EXCEPT !.unacked[1].transmissions = CountUp(@),
                                 !.duplicate_acks = IF timeout THEN 0 ELSE @]
      OBVIOUS
    <2>4. RetransmitOldest(c, timeout) = Open(d, <<SegmentFor(c, t)>>)
      BY <1>3, <2>1, <2>3 DEF RetransmitOldest
    <2>5. RetransmitOldest(c, timeout) \in Update
      BY <1>1, RetransmitOldestType
    <2>6. d \in Conn
      BY <2>4, <2>5, UpdateFields DEF Open
    <2>7. d.unacked = [c.unacked EXCEPT ![1] = [t EXCEPT !.transmissions = n]]
      BY <1>1, <1>3, <2>1, <2>2, <2>3 DEF Conn
    <2>8. Repeats(d.unacked, c.unacked)
      <3>1. PICK r : r = [t EXCEPT !.transmissions = n]
        OBVIOUS
      <3>2. r.seq = t.seq /\ r.flags = t.flags /\ r.data = t.data
        BY <3>1 DEF TrackedSegment
      <3>3. d.unacked = [c.unacked EXCEPT ![1] = r]
        BY <2>7, <3>1
      <3>4. Len(d.unacked) = Len(c.unacked)
        BY <1>1, <3>3
      <3>5. ASSUME NEW k \in 1 .. Len(c.unacked)
            PROVE  d.unacked[k].seq = c.unacked[k].seq /\ d.unacked[k].flags = c.unacked[k].flags
                   /\ d.unacked[k].data = c.unacked[k].data
        <4>1. CASE k = 1
          BY <1>1, <2>1, <3>2, <3>3, <4>1
        <4>2. CASE k # 1
          BY <1>1, <3>3, <4>2
        <4>3. QED BY <4>1, <4>2
      <3>6. QED BY <3>4, <3>5 DEF Repeats
    <2>9. /\ d.send_una = c.send_una /\ d.send_nxt = c.send_nxt /\ d.send_queue = c.send_queue
          /\ d.accepted = c.accepted /\ d.acked = c.acked
          /\ d.close_requested = c.close_requested /\ d.state = c.state
          /\ d.recv_nxt = c.recv_nxt /\ d.recv_queue = c.recv_queue
          /\ d.reassembly = c.reassembly /\ d.read_closed = c.read_closed
      BY <1>1, <2>3 DEF Conn
    <2>10. SameTelling(c, d)
      <3>1. d.state \in {"FinWait2", "TimeWait"} => c.send_una = c.send_nxt
        BY <2>9 DEF Tells, Confirmed
      <3>2. QED BY <2>8, <2>9, <3>1 DEF SameTelling, Alike
    <2>11. Only(c, d)
      BY <2>9 DEF Only, SameReceive
    <2>12. SegmentFor(c, t) \in Segment
      BY <1>1, SegmentForType
    <2>13. Utterance(SegmentFor(c, t), ViewOf(c, first, i), Heard(c))
      <3>1. 1 \in 1 .. Len(c.unacked)
        BY <1>1, <1>3
      <3>2. Spoken(t, ViewOf(c, first, i))
        BY <2>1, <3>1 DEF Tells, KeptOwn
      <3>3. c.state = "SynSent" => "ACK" \notin t.flags
        BY <2>1, <3>1 DEF Tells, OnlySyn
      <3>4. QED BY <1>1, <3>2, <3>3, SegmentForSpoken
    <2>14. Speaks(c, d, <<SegmentFor(c, t)>>, first, i)
      BY <1>1, <2>6, <2>10, <2>12, <2>13, OneSegmentSpeaks
    <2>15. QED BY <2>4, <2>11, <2>14 DEF OnlySpeaks, Open
  <1>4. QED BY <1>2, <1>3

LEMMA RepairSpeaks ==
  ASSUME NEW c \in SoundConn, NEW first \in SeqNumber, NEW i \in Nat, Tells(c, first, i)
  PROVE  OnlySpeaks(c, RepairTimedOutFlight(c), first, i)
  <1>1. c \in Conn
    BY SoundFields
  <1>2. QED BY <1>1, SilentSpeaks, RetransmitSpeaks DEF RepairTimedOutFlight

\* flush_data touches only what is told.
LEMMA FlushOnly ==
  ASSUME NEW c \in SoundConn
  PROVE  Only(c, FlushData(c).conn)
  <1> DEFINE q == c.send_queue
  <1>1. c \in Conn
    BY SoundFields
  <1>2. PICK a : a = SendAllowance(c)
    OBVIOUS
  <1>3. FlushData(c) = FlushUpTo(c, a)
    BY <1>2 DEF FlushData
  <1>4. \A total, chunks :
          /\ Only(c, SendChunks(c, total, chunks).conn)
          /\ SendChunks(c, total, chunks).conn.state = c.state
    BY <1>1 DEF SendChunks, Open, Only, SameReceive, Conn
  <1>5. CASE c.state \notin {"Established", "CloseWait"}
    BY <1>3, <1>5 DEF FlushUpTo, Open, Only, SameReceive
  <1>6. CASE c.state \in {"Established", "CloseWait"} /\ c.close_requested /\ a > Len(q)
    <2>1. PICK u : u = SendChunks(c, Len(q), Chunks(c, Len(q)))
      OBVIOUS
    <2>2. FlushData(c) = Then(u, SendFin(u.conn))
      BY <1>3, <1>6, <2>1 DEF FlushUpTo, AndSendFin
    <2>3. Len(q) \in Nat /\ Chunks(c, Len(q)) \in Seq(TrackedSegment)
      <3>1. Len(q) \in Nat /\ Len(q) <= Len(c.send_queue)
        BY <1>1 DEF Conn
      <3>2. QED BY <1>1, <3>1, ChunksType
    <2>4. u \in Update
      <3>1. Len(q) <= Len(c.send_queue)
        BY <2>3
      <3>2. QED BY <1>1, <2>1, <2>3, <3>1, SendChunksType
    <2>5. PICK d \in Conn : d = u.conn
      BY <2>4, UpdateFields
    <2>6. Only(c, d) /\ d.state = c.state
      BY <1>4, <2>1, <2>5
    <2>7. SendFin(d) \in Update
      BY <2>5, SendFinType
    <2>8. FlushData(c).conn = SendFin(d).conn
      BY <2>2, <2>5, <2>7, ThenLeaves
    <2>9. Only(d, SendFin(d).conn)
      BY <1>6, <2>5, <2>6 DEF SendFin, SendTracked, Transmit, Open, Only, SameReceive, Conn
    <2>10. QED BY <2>6, <2>8, <2>9, OnlyChain
  <1>7. CASE c.state \in {"Established", "CloseWait"} /\ ~(c.close_requested /\ a > Len(q))
    BY <1>3, <1>4, <1>7 DEF FlushUpTo
  <1>8. QED BY <1>5, <1>6, <1>7

LEMMA FlushSays ==
  ASSUME NEW c \in SoundConn, NEW first \in SeqNumber, NEW i \in Nat, Tells(c, first, i)
  PROVE  OnlySpeaks(c, FlushData(c), first, i)
  BY FlushSpeaks, FlushOnly DEF OnlySpeaks

\* A step, then flush_data.
LEMMA AndFlushSays ==
  ASSUME NEW c \in Conn, NEW u \in SoundUpdate, NEW first \in SeqNumber, NEW i \in Nat,
         Tells(c, first, i), OnlySpeaks(c, u, first, i)
  PROVE  OnlySpeaks(c, AndFlush(u), first, i)
  <1>1. u \in Update /\ u.conn \in SoundConn
    BY SoundFields
  <1>2. FlushData(u.conn) \in Update
    BY <1>1, SoundFields, FlushDataType
  <1>3. OnlySpeaks(u.conn, FlushData(u.conn), first, i)
    BY <1>1, FlushSays DEF OnlySpeaks, Speaks
  <1>4. QED BY <1>1, <1>2, <1>3, SpeaksThen DEF AndFlush

\* zero_window_probe, the first byte of what is kept.
LEMMA ProbeOfSpeaks ==
  ASSUME NEW c \in SoundConn, NEW first \in SeqNumber, NEW i \in Nat, Tells(c, first, i),
         NEW k \in 1 .. Len(c.unacked), c.unacked[k].data # <<>>
  PROVE  OnlySpeaks(c, ProbeOf(c, c.unacked[k]), first, i)
  <1>1. c \in Conn /\ c.unacked \in Seq(TrackedSegment)
    BY SoundFields DEF Conn
  <1>2. PICK t \in TrackedSegment : t = c.unacked[k]
    BY <1>1, ElementOfSeq
  <1>3. PICK data : data = t.data
    OBVIOUS
  <1>4. data \in Seq(Byte) /\ data # <<>> /\ Len(data) \in Nat /\ Len(data) >= 1
        /\ Head(data) = data[1] /\ data[1] \in Byte
    BY <1>2, <1>3 DEF TrackedSegment
  <1>5. PICK v \in Views : v = ViewOf(c, first, i)
    BY <1>1, ViewOfType DEF Tells
  <1>6. PICK r : r = [t EXCEPT !.flags = {"ACK"}, !.data = <<Head(@)>>]
    OBVIOUS
  <1>7. r \in TrackedSegment /\ r.flags = {"ACK"} /\ r.seq = t.seq /\ r.data = <<data[1]>>
    <2>1. PICK one : one = <<data[1]>>
      OBVIOUS
    <2>2. one \in Seq(Byte)
      BY <1>4, <2>1
    <2>3. r = [t EXCEPT !.flags = {"ACK"}, !.data = one]
      BY <1>2, <1>3, <1>4, <1>6, <2>1 DEF TrackedSegment
    <2>4. {"ACK"} \in SUBSET Flag
      BY DEF Flag
    <2>5. QED BY <1>2, <2>1, <2>2, <2>3, <2>4 DEF TrackedSegment
  <1>8. Spoken(t, v)
    BY <1>2, <1>5 DEF Tells, KeptOwn
  <1>9. "SYN" \notin t.flags /\ Told(t.seq, data, "FIN" \in t.flags, v)
    BY <1>2, <1>3, <1>4, <1>8 DEF Spoken
  <1>10. PICK f \in BOOLEAN : f <=> "FIN" \in t.flags
    OBVIOUS
  <1>11. Told(t.seq, data, f, v)
    <2>1. f = ("FIN" \in t.flags)
      BY <1>10
    <2>2. QED BY <1>9, <2>1
  <1>12. PICK part : part = [seq |-> r.seq, data |-> r.data, fin |-> FALSE]
    OBVIOUS
  <1>13. part.seq = r.seq /\ part.data = r.data /\ ~part.fin /\ part.fin \in BOOLEAN
         /\ part.data \in Seq(Byte)
    BY <1>7, <1>12 DEF TrackedSegment
  <1>14. PartFrom(0, part, t.seq, data, f)
    <2>1. part.seq = Plus(t.seq, 0)
      BY <1>7, <1>13, PlusZero DEF TrackedSegment
    <2>2. Len(part.data) = 1 /\ part.data[1] = data[1]
      BY <1>7, <1>13
    <2>3. 0 + Len(part.data) <= Len(data)
      BY <1>4, <2>2
    <2>4. \A j \in 1 .. Len(part.data) : part.data[j] = data[0 + j]
      <3>1. \A j \in 1 .. 1 : j = 1 /\ 0 + j = 1
        OBVIOUS
      <3>2. QED BY <2>2, <3>1
    <2>5. QED BY <1>13, <2>1, <2>3, <2>4 DEF PartFrom
  <1>15. Part(part, t.seq, data, f)
    <2>1. 0 \in 0 .. Len(data)
      BY <1>4
    <2>2. QED BY <1>14, <2>1 DEF Part
  <1>16. Told(part.seq, part.data, part.fin, v)
    BY <1>4, <1>11, <1>13, <1>15, ToldPart
  <1>17. Spoken(r, v)
    <2>1. "SYN" \notin r.flags /\ "RST" \notin r.flags /\ ~("FIN" \in r.flags)
      BY <1>7
    <2>2. ("FIN" \in r.flags) = part.fin
      BY <1>13, <2>1
    <2>3. Told(r.seq, r.data, "FIN" \in r.flags, v)
      BY <1>13, <1>16, <2>2
    <2>4. QED BY <2>1, <2>3 DEF Spoken
  <1>18. c.state = "SynSent" => "ACK" \notin r.flags
    <2>1. c.state # "SynSent"
      BY <1>2, <1>9 DEF Tells, OnlySyn
    <2>2. QED BY <2>1
  <1>19. Utterance(SegmentFor(c, r), v, Heard(c)) /\ SegmentFor(c, r) \in Segment
    BY <1>1, <1>7, <1>17, <1>18, SegmentForSpoken, SegmentForType
  <1>20. SameTelling(c, c)
    BY RepeatsItself DEF SameTelling, Alike, Tells, Confirmed
  <1>21. Speaks(c, c, <<SegmentFor(c, r)>>, first, i)
    BY <1>1, <1>5, <1>19, <1>20, OneSegmentSpeaks
  <1>22. ProbeOf(c, c.unacked[k]) = Open(c, <<SegmentFor(c, r)>>)
    BY <1>2, <1>6 DEF ProbeOf
  <1>23. QED BY <1>21, <1>22, OnlyChain DEF OnlySpeaks, Open

\* zero_window_probe, the first byte of what waits.
LEMMA ProbeByteSpeaks ==
  ASSUME NEW c \in SoundConn, NEW first \in SeqNumber, NEW i \in Nat, Tells(c, first, i),
         c.send_queue # <<>>,
         NEW u, u = SendTracked([c EXCEPT !.send_queue = Tail(@)], {"ACK"}, <<Head(c.send_queue)>>)
  PROVE  OnlySpeaks(c, u, first, i)
  <1>1. c \in Conn /\ Handshake(c) /\ c.send_queue \in Seq(Byte)
    BY SoundFields DEF Conn
  <1>2. PICK q, b, rest : q = c.send_queue /\ b = Head(q) /\ rest = Tail(q)
    OBVIOUS
  <1>3. /\ q \in Seq(Byte) /\ q # <<>> /\ b = q[1] /\ b \in Byte /\ rest \in Seq(Byte)
        /\ Len(q) \in Nat /\ Len(rest) \in Nat /\ Len(q) = Len(rest) + 1
    BY <1>1, <1>2
  <1>4. \A k \in 1 .. Len(rest) : rest[k] = q[k + 1]
    BY <1>2, <1>3
  <1>5. c.state \notin Opening /\ ~FinSent(c)
    BY <1>1 DEF Handshake, Tells, Numbered
  <1>6. PICK e : e = [c EXCEPT !.send_queue = Tail(@)]
    OBVIOUS
  <1>7. /\ e \in Conn /\ e.send_queue = rest /\ e.state = c.state /\ e.send_nxt = c.send_nxt
        /\ e.unacked = c.unacked /\ e.send_una = c.send_una /\ e.acked = c.acked
        /\ e.accepted = c.accepted /\ e.recv_nxt = c.recv_nxt /\ e.recv_queue = c.recv_queue
        /\ e.reassembly = c.reassembly /\ e.read_closed = c.read_closed
        /\ e.close_requested = c.close_requested
    BY <1>1, <1>2, <1>3, <1>6 DEF Conn
  <1>8. PICK t : t = [seq |-> c.send_nxt, flags |-> {"ACK"}, data |-> <<b>>, transmissions |-> 1]
    OBVIOUS
  <1>9. t \in TrackedSegment /\ t.flags = {"ACK"} /\ t.data = <<b>> /\ t.seq = c.send_nxt
    BY <1>1, <1>3, <1>8 DEF TrackedSegment, Flag, Conn
  <1>10. u = Transmit(e, t)
    BY <1>2, <1>6, <1>7, <1>8 DEF SendTracked
  <1>11. u \in Update
    BY <1>7, <1>9, <1>10, TransmitType
  <1>12. PICK d \in Conn : d = u.conn
    BY <1>11, UpdateFields
  <1>13. TrackedEnd(t) = Plus(c.send_nxt, 1)
    <2>1. Len(t.data) = 1 /\ "SYN" \notin t.flags /\ "FIN" \notin t.flags
      BY <1>9
    <2>2. QED BY <1>9, <2>1, DataEnd
  <1>14. d = [e EXCEPT !.send_nxt = TrackedEnd(t), !.unacked = Append(@, t)]
         /\ u.segments = <<SegmentFor(e, t)>>
    BY <1>10, <1>12 DEF Transmit, Open
  <1>15. /\ d.send_una = c.send_una /\ d.acked = c.acked /\ d.accepted = c.accepted
         /\ d.send_nxt = Plus(c.send_nxt, 1) /\ d.unacked = Append(c.unacked, t)
         /\ d.send_queue = rest /\ d.state = c.state /\ d.close_requested = c.close_requested
         /\ d.recv_nxt = c.recv_nxt /\ d.recv_queue = c.recv_queue
         /\ d.reassembly = c.reassembly /\ d.read_closed = c.read_closed
    BY <1>7, <1>13, <1>14 DEF Conn
  <1>16. Only(c, d) /\ Only(c, e)
    BY <1>7, <1>15 DEF Only, SameReceive
  <1>17. ~FinSent(d) /\ d.state \notin Opening \cup {"FinWait2", "TimeWait"}
    BY <1>5, <1>15 DEF FinSent
  <1>18. PICK end \in Nat : end = Distance(first, c.send_nxt)
    BY <1>1, NumberedFacts DEF Tells
  <1>19. PICK w \in Nat : w = c.accepted
    BY <1>1 DEF Conn
  <1>20. end + Len(q) = 1 + w /\ end >= 1 /\ c.send_nxt = Plus(first, end)
    BY <1>1, <1>2, <1>5, <1>18, <1>19, EndBeforeFin, NumberedFacts DEF Tells, Numbered
  <1>21. PICK v : v = Farther(c, d, first, i, 1)
    OBVIOUS
  <1>22. v.first = first /\ v.id = i /\ v.total = w /\ v.end = end + 1
    BY <1>18, <1>19, <1>21 DEF Farther
  <1>23. b = <<i, end>>
    <2>1. 1 \in 1 .. Len(c.send_queue) /\ c.send_queue[1] = b
      BY <1>2, <1>3
    <2>2. c.send_queue[1] = <<i, end + 1 - 1>>
      BY <1>18, <2>1 DEF Tells, QueuedNext
    <2>3. end + 1 - 1 = end
      OBVIOUS
    <2>4. QED BY <2>1, <2>2, <2>3
  <1>24. Spoken(t, v)
    <2>1. "FIN" \notin t.flags /\ "SYN" \notin t.flags /\ "RST" \notin t.flags
          /\ Units("FIN" \in t.flags) = 0 /\ Len(t.data) = 1
      BY <1>9 DEF Units
    <2>2. StandsAt(end, t.data, "FIN" \in t.flags, v)
      <3>1. end + Len(t.data) + Units("FIN" \in t.flags) <= v.end
        BY <1>22, <2>1
      <3>2. end + Len(t.data) <= 1 + v.total
        <4>1. end + 1 <= 1 + w
          BY <1>3, <1>20
        <4>2. QED BY <1>22, <2>1, <4>1
      <3>3. \A k \in 1 .. Len(t.data) : t.data[k] = <<v.id, end + k - 1>>
        <4>1. \A k \in 1 .. 1 : k = 1 /\ end + k - 1 = end
          OBVIOUS
        <4>2. QED BY <1>9, <1>22, <1>23, <2>1, <4>1
      <3>4. QED BY <2>1, <3>1, <3>2, <3>3 DEF StandsAt
    <2>3. end \in 1 .. v.end /\ t.seq = Plus(v.first, end)
      BY <1>9, <1>20, <1>22
    <2>4. Told(t.seq, t.data, "FIN" \in t.flags, v)
      BY <2>2, <2>3 DEF Told
    <2>5. QED BY <2>1, <2>4 DEF Spoken
  <1>25. PICK more \in Seq(TrackedSegment) : more = <<t>>
    BY <1>9, OneTracked, EmptySeq
  <1>26. d.unacked = c.unacked \o more /\ Len(more) = 1 /\ more[1] = t
    <2>1. c.unacked \in Seq(TrackedSegment)
      BY <1>1 DEF Conn
    <2>2. QED BY <1>9, <1>15, <1>25, <2>1, OneTracked
  <1>27. Sends(c, d, first, i, 1, more)
    <2>1. end + 1 + Len(d.send_queue) = 1 + c.accepted + Units(FinSent(d))
      <3>1. Units(FinSent(d)) = 0
        BY <1>17 DEF Units
      <3>2. QED BY <1>3, <1>15, <1>19, <1>20, <3>1
    <2>2. ASSUME NEW k \in 1 .. Len(d.send_queue)
          PROVE  d.send_queue[k] = <<i, end + 1 + k - 1>>
      <3>1. k \in 1 .. Len(rest) /\ d.send_queue[k] = q[k + 1]
        BY <1>4, <1>15
      <3>2. k + 1 \in 1 .. Len(c.send_queue)
        BY <1>2, <1>3, <3>1
      <3>3. c.send_queue[k + 1] = <<i, end + (k + 1) - 1>>
        BY <1>18, <3>2 DEF Tells, QueuedNext
      <3>4. end + (k + 1) - 1 = end + 1 + k - 1
        OBVIOUS
      <3>5. QED BY <1>2, <3>1, <3>3, <3>4
    <2>3. \A k \in 1 .. Len(more) : Spoken(more[k], v)
      BY <1>24, <1>26
    <2>4. FinSent(c) \/ c.close_requested => FinSent(d) \/ d.close_requested
      BY <1>5, <1>15
    <2>5. QED BY <1>5, <1>15, <1>17, <1>18, <1>21, <1>26, <2>1, <2>2, <2>3, <2>4 DEF Sends
  <1>28. Tells(d, first, i) /\ Grows(ViewOf(c, first, i), ViewOf(d, first, i))
         /\ ViewOf(d, first, i) = v
    BY <1>1, <1>21, <1>27, SaysMore
  <1>29. Utters(u.segments, v, Heard(c) \cup Heard(d))
    <2>1. Heard(d) = Heard(c) /\ Heard(e) = Heard(c)
      BY <1>16, OnlyHeard
    <2>2. e.state # "SynSent"
      BY <1>5, <1>7 DEF Opening
    <2>3. Utterance(SegmentFor(e, t), v, Heard(e))
      BY <1>7, <1>9, <1>24, <2>2, SegmentForSpoken
    <2>4. QED BY <1>14, <2>1, <2>3, UttersOne
  <1>30. QED BY <1>12, <1>16, <1>28, <1>29 DEF OnlySpeaks, Speaks

LEMMA ProbeSpeaks ==
  ASSUME NEW c \in SoundConn, NEW first \in SeqNumber, NEW i \in Nat, Tells(c, first, i),
         HasProbePayload(c)
  PROVE  OnlySpeaks(c, ZeroWindowProbe(c), first, i)
  <1>1. c \in Conn /\ DOMAIN c.unacked = 1 .. Len(c.unacked) /\ Len(c.unacked) \in Nat
    BY SoundFields DEF Conn
  <1>2. CASE Carriers(c) # {}
    <2>1. Carriers(c) \in SUBSET Nat
      BY <1>1 DEF Carriers
    <2>2. \E k \in Carriers(c) : \A j \in Carriers(c) : k <= j
      BY <1>2, <2>1, Least
    <2>3. PICK m : m = CHOOSE k \in Carriers(c) : \A j \in Carriers(c) : k <= j
      OBVIOUS
    <2>4. m \in Carriers(c)
      BY <2>2, <2>3
    <2>5. m \in 1 .. Len(c.unacked) /\ c.unacked[m].data # <<>>
      BY <1>1, <2>4 DEF Carriers
    <2>6. ZeroWindowProbe(c) = ProbeOf(c, c.unacked[m])
      BY <1>2, <2>3 DEF ZeroWindowProbe
    <2>7. QED BY <2>5, <2>6, ProbeOfSpeaks
  <1>3. CASE Carriers(c) = {}
    <2>1. c.send_queue # <<>>
      BY <1>3 DEF HasProbePayload, Carriers
    <2>2. ZeroWindowProbe(c) = SendTracked([c EXCEPT !.send_queue = Tail(@)], {"ACK"},
                                           <<Head(c.send_queue)>>)
      BY <1>3 DEF ZeroWindowProbe
    <2>3. QED BY <2>1, <2>2, ProbeByteSpeaks
  <1>4. QED BY <1>2, <1>3

\* What is said does not depend on what is only counted.
LEMMA CountingSpeaks ==
  ASSUME NEW c, NEW d, NEW e, SameTelling(d, e), Only(d, e), NEW segments,
         NEW first, NEW i, Speaks(c, d, segments, first, i), Only(c, d)
  PROVE  Speaks(c, e, segments, first, i) /\ Only(c, e)
  <1>1. Tells(e, first, i) /\ ViewOf(e, first, i) = ViewOf(d, first, i)
    BY SameTellingTells DEF Speaks
  <1>2. Heard(e) = Heard(d) /\ Only(c, e)
    BY OnlyHeard, OnlyChain
  <1>3. QED BY <1>1, <1>2 DEF Speaks

\* The same before.
LEMMA CountedSpeaks ==
  ASSUME NEW c, NEW d, NEW e, SameTelling(c, d), Only(c, d), NEW segments,
         NEW first, NEW i, Tells(c, first, i), Speaks(d, e, segments, first, i), Only(d, e)
  PROVE  Speaks(c, e, segments, first, i) /\ Only(c, e)
  <1>1. ViewOf(d, first, i) = ViewOf(c, first, i)
    BY SameTellingTells
  <1>2. Heard(d) = Heard(c) /\ Only(c, e)
    BY OnlyHeard, OnlyChain
  <1>3. QED BY <1>1, <1>2 DEF Speaks

\* poll.
LEMMA PollSpeaks ==
  ASSUME NEW c \in SoundConn, NEW first \in SeqNumber, NEW i \in Nat, Tells(c, first, i),
         NEW closeDue \in BOOLEAN, NEW retryDue \in BOOLEAN
  PROVE  OnlySpeaks(c, Poll(c, closeDue, retryDue), first, i)
  <1>1. c \in Conn /\ OnlySpeaks(c, Closed(c, <<>>), first, i) /\ OnlySpeaks(c, Open(c, <<>>), first, i)
    BY SoundFields, SilentSpeaks
  <1>2. OnlySpeaks(c, FlushData(c), first, i)
    BY FlushSays
  <1>3. OnlySpeaks(c, PollProbe(c), first, i)
    <2>1. CASE c.zero_window_probes >= MaxTransmissions \/ ~HasProbePayload(c)
      BY <1>1, <2>1 DEF PollProbe
    <2>2. CASE ~(c.zero_window_probes >= MaxTransmissions) /\ HasProbePayload(c)
      <3>1. PICK u \in Update : u = ZeroWindowProbe(c)
        BY <1>1, <2>2, ZeroWindowProbeType
      <3>2. PollProbe(c) = CountProbe(u)
        BY <2>2, <3>1 DEF PollProbe
      <3>3. PICK d, e : d = u.conn /\ e = [d EXCEPT !.zero_window_probes = CountUp(@)]
        OBVIOUS
      <3>4. d \in Conn
        BY <3>1, <3>3, UpdateFields
      <3>5. CountProbe(u).conn = e /\ CountProbe(u).segments = u.segments
        BY <3>1, <3>3 DEF CountProbe, Update
      <3>6. /\ e.send_una = d.send_una /\ e.send_nxt = d.send_nxt /\ e.unacked = d.unacked
            /\ e.send_queue = d.send_queue /\ e.accepted = d.accepted /\ e.acked = d.acked
            /\ e.close_requested = d.close_requested /\ e.state = d.state
            /\ e.recv_nxt = d.recv_nxt /\ e.recv_queue = d.recv_queue
            /\ e.reassembly = d.reassembly /\ e.read_closed = d.read_closed
        BY <3>3, <3>4 DEF Conn
      <3>7. OnlySpeaks(c, u, first, i)
        BY <2>2, <3>1, ProbeSpeaks
      <3>8. Speaks(c, d, u.segments, first, i) /\ Only(c, d)
        BY <3>3, <3>7 DEF OnlySpeaks
      <3>9. SameTelling(d, e)
        <4>1. d.state \in {"FinWait2", "TimeWait"} => d.send_una = d.send_nxt
          BY <3>8 DEF Speaks, Tells, Confirmed
        <4>2. QED BY <3>6, <4>1, RepeatsItself DEF SameTelling, Alike
      <3>10. Only(d, e)
        BY <3>6 DEF Only, SameReceive
      <3>11. Speaks(c, e, u.segments, first, i) /\ Only(c, e)
        BY <3>8, <3>9, <3>10, CountingSpeaks
      <3>12. QED BY <3>2, <3>5, <3>11 DEF OnlySpeaks
    <2>3. QED BY <2>1, <2>2
  <1>4. OnlySpeaks(c, PollRetransmit(c), first, i)
    <2>1. CASE Head(c.unacked).transmissions >= MaxTransmissions
      BY <1>1, <2>1 DEF PollRetransmit
    <2>2. CASE ~(Head(c.unacked).transmissions >= MaxTransmissions)
      <3>1. PICK d : d = [c EXCEPT !.rto_recovery_until = IF @ = None THEN c.send_nxt ELSE @,
                                   !.reno = RenoOnTimeout(@, c.mss, InFlight(c))]
        OBVIOUS
      <3>2. d \in SoundConn
        BY <3>1, TimeoutSound
      <3>3. PICK u \in SoundUpdate : u = RetransmitOldest(d, TRUE)
        BY <3>2, RetransmitOldestSound
      <3>4. PollRetransmit(c) = AndFlush(u)
        BY <2>2, <3>1, <3>3 DEF PollRetransmit
      <3>5. /\ d.send_una = c.send_una /\ d.send_nxt = c.send_nxt /\ d.unacked = c.unacked
            /\ d.send_queue = c.send_queue /\ d.accepted = c.accepted /\ d.acked = c.acked
            /\ d.close_requested = c.close_requested /\ d.state = c.state
            /\ d.recv_nxt = c.recv_nxt /\ d.recv_queue = c.recv_queue
            /\ d.reassembly = c.reassembly /\ d.read_closed = c.read_closed
        BY <1>1, <3>1 DEF Conn
      <3>6. SameTelling(c, d) /\ Only(c, d)
        <4>1. c.state \in {"FinWait2", "TimeWait"} => c.send_una = c.send_nxt
          BY DEF Tells, Confirmed
        <4>2. SameTelling(c, d)
          BY <3>5, <4>1, RepeatsItself DEF SameTelling, Alike
        <4>3. QED BY <3>5, <4>2 DEF Only, SameReceive
      <3>7. Tells(d, first, i)
        BY <3>6, SameTellingTells
      <3>8. OnlySpeaks(d, u, first, i)
        BY <3>2, <3>3, <3>7, RetransmitSpeaks
      <3>9. OnlySpeaks(d, AndFlush(u), first, i)
        <4>1. d \in Conn
          BY <3>2, SoundFields
        <4>2. QED BY <3>3, <3>7, <3>8, <4>1, AndFlushSays
      <3>10. PICK e, p : e = AndFlush(u).conn /\ p = AndFlush(u).segments
        OBVIOUS
      <3>11. Speaks(d, e, p, first, i) /\ Only(d, e)
        BY <3>9, <3>10 DEF OnlySpeaks
      <3>12. Speaks(c, e, p, first, i) /\ Only(c, e)
        BY <3>6, <3>11, CountedSpeaks
      <3>13. QED BY <3>4, <3>10, <3>12 DEF OnlySpeaks
    <2>3. QED BY <2>1, <2>2
  <1>5. QED BY <1>1, <1>2, <1>3, <1>4 DEF Poll

\* close.
LEMMA CloseSpeaks ==
  ASSUME NEW c \in SoundConn, NEW first \in SeqNumber, NEW i \in Nat, Tells(c, first, i)
  PROVE  OnlySpeaks(c, Close(c), first, i)
  <1>1. c \in Conn /\ OnlySpeaks(c, Closed(c, <<>>), first, i) /\ OnlySpeaks(c, Open(c, <<>>), first, i)
    BY SoundFields, SilentSpeaks
  <1>2. CASE c.state \notin {"Established", "CloseWait"}
    BY <1>1, <1>2 DEF Close
  <1>3. CASE c.state \in {"Established", "CloseWait"}
    <2>1. PICK d : d = [c EXCEPT !.close_requested = TRUE]
      OBVIOUS
    <2>2. Close(c) = FlushData(d)
      BY <1>3, <2>1 DEF Close
    <2>3. d \in SoundConn
      <3>1. c.state \notin Opening
        BY <1>3 DEF Opening
      <3>2. QED BY <2>1, <3>1, CloseRequestSound
    <2>4. /\ d.send_una = c.send_una /\ d.send_nxt = c.send_nxt /\ d.unacked = c.unacked
          /\ d.send_queue = c.send_queue /\ d.accepted = c.accepted /\ d.acked = c.acked
          /\ d.close_requested /\ d.state = c.state
          /\ d.recv_nxt = c.recv_nxt /\ d.recv_queue = c.recv_queue
          /\ d.reassembly = c.reassembly /\ d.read_closed = c.read_closed
      BY <1>1, <2>1 DEF Conn
    <2>5. Only(c, d) /\ ~FinSent(c) /\ ~FinSent(d)
      BY <1>3, <2>4 DEF Only, SameReceive, FinSent
    <2>6. PICK x \in Views : x = ViewOf(c, first, i)
      BY <1>1, ViewOfType DEF Tells
    <2>7. Numbered(d, first)
      <3>1. Units(FinSent(d)) = Units(FinSent(c))
        BY <2>5 DEF Units
      <3>2. QED BY <2>4, <2>5, <3>1 DEF Tells, Numbered
    <2>8. PICK y \in Views : y = ViewOf(d, first, i)
      BY <2>3, <2>7, ViewOfType, SoundFields
    <2>9. Grows(x, y)
      <3>1. y.first = x.first /\ y.id = x.id /\ y.total = x.total /\ y.end = x.end
        BY <2>4, <2>6, <2>8 DEF ViewOf
      <3>2. y.over
        BY <2>4, <2>8 DEF ViewOf
      <3>3. x.total \in Nat /\ x.end \in Nat
        BY DEF Views
      <3>4. QED BY <3>1, <3>2, <3>3 DEF Grows
    <2>10. KeptOwn(d, y)
      <3>1. c.unacked \in Seq(TrackedSegment)
        BY <1>1 DEF Conn
      <3>2. ASSUME NEW k \in 1 .. Len(c.unacked) PROVE Spoken(c.unacked[k], y)
        <4>1. c.unacked[k] \in TrackedSegment
          BY <3>1, ElementOfSeq
        <4>2. c.unacked[k].data \in Seq(Byte)
          BY <4>1 DEF TrackedSegment
        <4>3. Spoken(c.unacked[k], x)
          BY <2>6 DEF Tells, KeptOwn
        <4>4. QED BY <2>9, <4>2, <4>3, SpokenGrows
      <3>3. QED BY <2>4, <3>2 DEF KeptOwn
    <2>11. QueuedNext(d, first, i) /\ Confirmed(d, first) /\ OnlySyn(d)
      BY <2>4 DEF Tells, QueuedNext, Confirmed, OnlySyn
    <2>12. Tells(d, first, i)
      BY <2>7, <2>8, <2>10, <2>11 DEF Tells
    <2>13. Speaks(c, d, <<>>, first, i)
      BY <2>6, <2>8, <2>9, <2>12, UttersNothing DEF Speaks
    <2>14. OnlySpeaks(c, Open(d, <<>>), first, i)
      BY <2>5, <2>13 DEF OnlySpeaks, Open
    <2>15. FlushData(d) \in Update /\ OnlySpeaks(d, FlushData(d), first, i) /\ Open(d, <<>>) \in Update
      BY <2>3, <2>12, FlushSays, FlushDataType, SoundFields, OpenType, NoSegments
    <2>16. OnlySpeaks(c, Then(Open(d, <<>>), FlushData(d)), first, i)
      <3>1. Open(d, <<>>).conn = d
        BY DEF Open
      <3>2. QED BY <1>1, <2>14, <2>15, <3>1, SpeaksThen
    <2>17. Then(Open(d, <<>>), FlushData(d)).conn = FlushData(d).conn
           /\ Then(Open(d, <<>>), FlushData(d)).segments = FlushData(d).segments
      <3>1. FlushData(d).segments \in Seq(Segment)
        BY <2>15, UpdateFields
      <3>2. <<>> \o FlushData(d).segments = FlushData(d).segments
        BY <3>1
      <3>3. QED BY <2>15, <3>2 DEF Then, Open, Update
    <2>18. QED BY <2>2, <2>16, <2>17 DEF OnlySpeaks
  <1>4. QED BY <1>2, <1>3

\* What the connection expects next is unchanged.
Hearing(c, d) ==
  /\ d.recv_nxt = c.recv_nxt /\ d.reassembly = c.reassembly /\ d.read_closed = c.read_closed
  /\ d.state = "SynSent" <=> c.state = "SynSent"

LEMMA OnlyHearing ==
  /\ \A c, d : Only(c, d) => Hearing(c, d)
  /\ \A c, d, e : Hearing(c, d) /\ Hearing(d, e) => Hearing(c, e)
  BY DEF Only, Hearing, SameReceive

\* The data that stands after the first "base" bytes of the i-th stream.
NextBytes(data, i, base) == \A k \in 1 .. Len(data) : data[k] = <<i, base + k>>

\* The bytes write() takes are the next of the stream.
LEMMA AcceptSpeaks ==
  ASSUME NEW c \in SoundConn, NEW first \in SeqNumber, NEW i \in Nat, Tells(c, first, i),
         Writable(c), NEW data \in Seq(Byte), NEW n \in 0 .. Len(data),
         NextBytes(data, i, c.accepted),
         c.accepted + Len(data) + 2 + ReceiveBuffer < Modulus,
         NEW d \in Conn, d = Accept(c, data, n)
  PROVE  /\ Speaks(c, d, <<>>, first, i) /\ Hearing(c, d)
         /\ d.acked = c.acked /\ d.accepted = c.accepted + n
  <1>1. c \in Conn /\ Handshake(c) /\ c.send_queue \in Seq(Byte)
    BY SoundFields DEF Conn
  <1>2. PICK q, more, a, l : q = c.send_queue /\ more = SubSeq(data, 1, n)
                             /\ a = Len(q) /\ l = Len(data)
    OBVIOUS
  <1>3. PICK w \in Nat : w = c.accepted
    BY <1>1 DEF Conn
  <1>4. /\ q \in Seq(Byte) /\ a \in Nat /\ l \in Nat /\ n \in Nat /\ n <= l
        /\ more \in Seq(Byte) /\ Len(more) = n
        /\ \A k \in 1 .. n : more[k] = data[k]
    BY <1>1, <1>2
  <1>31. a \in Nat /\ l \in Nat /\ n \in Nat /\ n <= l /\ Len(q) = a /\ Len(more) = n
    BY <1>2, <1>4
  <1>5. PICK r : r = q \o more
    OBVIOUS
  <1>6. /\ r \in Seq(Byte) /\ Len(r) = a + n
        /\ \A k \in 1 .. a : r[k] = q[k]
        /\ \A k \in a + 1 .. a + n : k - a \in 1 .. n /\ r[k] = more[k - a]
    <2>0. \A k \in 1 .. Len(q) + Len(more) :
            r[k] = IF k <= Len(q) THEN q[k] ELSE more[k - Len(q)]
      BY <1>4, <1>5, ConcatProperties
    <2>1. r \in Seq(Byte) /\ Len(r) = Len(q) + Len(more)
      BY <1>4, <1>5, ConcatProperties
    <2>2. \A k \in 1 .. Len(q) : r[k] = q[k]
      <3>1. Len(q) \in Nat /\ Len(more) \in Nat
        BY <1>4
      <3>2. QED BY <2>0, <3>1
    <2>3. ASSUME NEW k \in a + 1 .. a + n PROVE k - a \in 1 .. n /\ r[k] = more[k - a]
      <3>1. k \in Nat /\ k > a /\ k - a \in 1 .. n /\ ~(k <= a) /\ k \in 1 .. a + n
        BY <1>31
      <3>2. k \in 1 .. Len(q) + Len(more) /\ ~(k <= Len(q))
        BY <1>31, <3>1
      <3>3. r[k] = more[k - Len(q)]
        BY <2>0, <3>2
      <3>4. QED BY <1>2, <3>1, <3>3
    <2>4. QED BY <1>2, <1>4, <2>1, <2>2, <2>3
  <1>7. d = [c EXCEPT !.send_queue = r, !.accepted = w + n]
    BY <1>2, <1>3, <1>5, Zenon DEF Accept
  <1>8. /\ d.send_queue = r /\ d.accepted = w + n
        /\ d.unacked = c.unacked /\ d.send_una = c.send_una /\ d.send_nxt = c.send_nxt
        /\ d.acked = c.acked /\ d.recv_nxt = c.recv_nxt /\ d.reassembly = c.reassembly
        /\ d.read_closed = c.read_closed /\ d.close_requested = c.close_requested
        /\ d.state = c.state
    BY <1>1, <1>7 DEF Conn
  <1>9. Hearing(c, d) /\ c.state \notin Opening /\ ~FinSent(c) /\ ~FinSent(d) /\ ~c.close_requested
        /\ c.state # "SynSent" /\ c.state \notin {"FinWait2", "TimeWait"}
    BY <1>8 DEF Writable, Hearing, FinSent, Opening
  <1>10. PICK end \in Nat : end = Distance(first, c.send_nxt)
    BY <1>1, NumberedFacts DEF Tells
  <1>11. end + a = 1 + w /\ end >= 1
    <2>1. Numbered(c, first)
      BY DEF Tells
    <2>2. Distance(first, c.send_nxt) + Len(c.send_queue) = 1 + c.accepted
      BY <1>1, <1>9, <2>1, EndBeforeFin
    <2>3. QED BY <1>2, <1>3, <1>10, <2>1, <2>2 DEF Numbered
  <1>12. w + n + 2 + ReceiveBuffer < Modulus
    <2>1. ReceiveBuffer \in Nat /\ Modulus \in Nat
      BY ConfigAssumption, ModulusAssumption
    <2>2. w + l + 2 + ReceiveBuffer < Modulus
      BY <1>2, <1>3
    <2>3. QED BY <1>4, <2>1, <2>2
  <1>13. Numbered(d, first)
    <2>1. Units(FinSent(d)) = 0
      BY <1>9 DEF Units
    <2>2. end + Len(d.send_queue) = 1 + d.accepted + Units(FinSent(d))
      <3>1. Len(d.send_queue) = a + n /\ d.accepted = w + n
        BY <1>6, <1>8
      <3>2. end + (a + n) = 1 + (w + n) + 0
        BY <1>31, <1>11
      <3>3. QED BY <2>1, <3>1, <3>2
    <2>3. Distance(first, d.send_nxt) = end
      BY <1>8, <1>10
    <2>4. QED BY <1>8, <1>9, <1>11, <1>12, <2>2, <2>3 DEF Numbered
  <1>14. QueuedNext(d, first, i)
    <2>1. ASSUME NEW k \in 1 .. a + n PROVE r[k] = <<i, end + k - 1>>
      <3>1. CASE k <= a
        <4>1. k \in 1 .. Len(c.send_queue)
          BY <1>2, <1>4, <3>1
        <4>2. QED BY <1>2, <1>4, <1>6, <1>10, <3>1, <4>1 DEF Tells, QueuedNext
      <3>2. CASE k > a
        <4>1. k - a \in 1 .. n /\ r[k] = more[k - a]
          BY <1>4, <1>6, <3>2
        <4>2. k - a \in 1 .. Len(data)
          BY <1>2, <1>4, <4>1
        <4>3. data[k - a] = <<i, w + (k - a)>>
          BY <1>3, <4>2 DEF NextBytes
        <4>4. w + (k - a) = end + k - 1
          BY <1>4, <1>11
        <4>5. QED BY <1>4, <4>1, <4>3, <4>4
      <3>3. QED BY <1>4, <3>1, <3>2
    <2>2. QED BY <1>6, <1>8, <1>10, <2>1 DEF QueuedNext
  <1>15. PICK x \in Views : x = ViewOf(c, first, i)
    BY <1>1, ViewOfType DEF Tells
  <1>16. PICK y \in Views : y = ViewOf(d, first, i)
    BY <1>13, ViewOfType
  <1>17. Grows(x, y)
    <2>1. y.first = x.first /\ y.id = x.id /\ y.total = w + n /\ x.total = w /\ y.end = x.end
      BY <1>3, <1>8, <1>15, <1>16 DEF ViewOf
    <2>2. ~x.over
      BY <1>9, <1>15 DEF ViewOf
    <2>3. x.end \in Nat /\ x.total <= y.total
      BY <1>4, <2>1 DEF Views
    <2>4. QED BY <2>1, <2>2, <2>3 DEF Grows
  <1>18. KeptOwn(d, y)
    <2>1. c.unacked \in Seq(TrackedSegment)
      BY <1>1 DEF Conn
    <2>2. ASSUME NEW k \in 1 .. Len(c.unacked) PROVE Spoken(c.unacked[k], y)
      <3>1. c.unacked[k] \in TrackedSegment
        BY <2>1, ElementOfSeq
      <3>2. c.unacked[k].data \in Seq(Byte)
        BY <3>1 DEF TrackedSegment
      <3>3. Spoken(c.unacked[k], x)
        BY <1>15 DEF Tells, KeptOwn
      <3>4. QED BY <1>17, <3>2, <3>3, SpokenGrows
    <2>3. QED BY <1>8, <2>2 DEF KeptOwn
  <1>19. Confirmed(d, first) /\ OnlySyn(d)
    BY <1>8, <1>9 DEF Tells, Confirmed, OnlySyn
  <1>20. Tells(d, first, i)
    BY <1>13, <1>14, <1>16, <1>18, <1>19 DEF Tells
  <1>21. Speaks(c, d, <<>>, first, i)
    BY <1>15, <1>16, <1>17, <1>20, UttersNothing DEF Speaks
  <1>22. QED BY <1>3, <1>8, <1>9, <1>21

\* One method after another, the first of them silent.
LEMMA SpeaksAfter ==
  ASSUME NEW c \in Conn, NEW d \in Conn, NEW u \in Update, NEW first \in SeqNumber,
         NEW i \in Nat, Tells(c, first, i), Speaks(c, d, <<>>, first, i), Hearing(c, d),
         OnlySpeaks(d, u, first, i)
  PROVE  Speaks(c, u.conn, u.segments, first, i) /\ Hearing(c, u.conn)
  <1>1. PICK e, p : e = u.conn /\ p = u.segments
    OBVIOUS
  <1>2. e \in Conn /\ p \in Seq(Segment) /\ <<>> \in Seq(Segment) /\ <<>> \o p = p
    BY <1>1, UpdateFields, NoSegments
  <1>3. Heard(d) = Heard(c)
    BY DEF Hearing, Heard
  <1>4. Speaks(d, e, p, first, i) /\ Hearing(c, e)
    BY <1>1, OnlyHearing DEF OnlySpeaks
  <1>5. Speaks(c, e, <<>> \o p, first, i)
    <2>1. Heard(d) \subseteq Heard(c) \cup Heard(e)
      BY <1>3
    <2>2. QED BY <1>2, <1>4, <2>1, SpeaksOn
  <1>6. QED BY <1>1, <1>2, <1>4, <1>5

\* write.
LEMMA WriteSpeaks ==
  ASSUME NEW c \in SoundConn, NEW first \in SeqNumber, NEW i \in Nat, Tells(c, first, i),
         Writable(c), NEW data \in Seq(Byte),
         NextBytes(data, i, c.accepted),
         c.accepted + Len(data) + 2 + ReceiveBuffer < Modulus,
         NEW u, u = Write(c, data)
  PROVE  /\ Speaks(c, u.conn, u.segments, first, i) /\ Hearing(c, u.conn)
         /\ u.conn.acked = c.acked
         /\ u.conn.accepted = c.accepted + WriteAccepts(c, Len(data))
  <1>1. c \in Conn /\ Len(data) \in Nat
    BY SoundFields
  <1>2. PICK n \in 0 .. Len(data) : n = WriteAccepts(c, Len(data))
    BY <1>1, WriteAcceptsType
  <1>3. PICK d : d = Accept(c, data, n)
    OBVIOUS
  <1>4. d \in SoundConn
    BY <1>2, <1>3, AcceptSound
  <1>5. d \in Conn
    BY <1>4, SoundFields
  <1>6. /\ Speaks(c, d, <<>>, first, i) /\ Hearing(c, d)
        /\ d.acked = c.acked /\ d.accepted = c.accepted + n
    BY <1>2, <1>3, <1>5, AcceptSpeaks
  <1>7. u = FlushData(d)
    BY <1>2, <1>3 DEF Write
  <1>8. u \in Update /\ OnlySpeaks(d, u, first, i)
    BY <1>4, <1>5, <1>6, <1>7, FlushSays, FlushDataType DEF Speaks
  <1>9. Speaks(c, u.conn, u.segments, first, i) /\ Hearing(c, u.conn)
    BY <1>1, <1>5, <1>6, <1>8, SpeaksAfter
  <1>10. u.conn.acked = d.acked /\ u.conn.accepted = d.accepted
    BY <1>8 DEF OnlySpeaks, Only
  <1>11. QED BY <1>2, <1>6, <1>9, <1>10

\* read.
LEMMA ReadSpeaks ==
  ASSUME NEW c \in SoundConn, NEW first \in SeqNumber, NEW i \in Nat, Tells(c, first, i),
         NEW max \in Nat, NEW u, u = Read(c, max)
  PROVE  /\ Speaks(c, u.conn, u.segments, first, i) /\ Hearing(c, u.conn)
         /\ u.conn.acked = c.acked /\ u.conn.accepted = c.accepted
  <1>1. c \in Conn
    BY SoundFields
  <1>2. PICK d : d = [c EXCEPT !.recv_queue = SubSeq(@, Smaller(max, Len(@)) + 1, Len(@))]
    OBVIOUS
  <1>3. u = AfterRead(c, d)
    BY <1>2 DEF Read
  <1>4. d = u.conn /\ u \in Update
    <2>1. AndAcknowledge(d).conn = d /\ Open(d, <<>>).conn = d
      BY DEF AndAcknowledge, Open
    <2>2. u.conn = d
      BY <1>3, <2>1 DEF AfterRead
    <2>3. QED BY <1>1, <2>2, ReadType
  <1>5. d \in Conn
    BY <1>4, UpdateFields
  <1>6. /\ d.send_una = c.send_una /\ d.send_nxt = c.send_nxt /\ d.unacked = c.unacked
        /\ d.send_queue = c.send_queue /\ d.accepted = c.accepted /\ d.acked = c.acked
        /\ d.close_requested = c.close_requested /\ d.state = c.state
        /\ d.recv_nxt = c.recv_nxt /\ d.reassembly = c.reassembly
        /\ d.read_closed = c.read_closed
    BY <1>1, <1>2 DEF Conn
  <1>7. SameTelling(c, d) /\ Hearing(c, d)
    <2>1. c.state \in {"FinWait2", "TimeWait"} => c.send_una = c.send_nxt
      BY DEF Tells, Confirmed
    <2>2. SameTelling(c, d)
      BY <1>6, <2>1, RepeatsItself DEF SameTelling, Alike
    <2>3. QED BY <1>6, <2>2 DEF Hearing
  <1>8. Tells(d, first, i) /\ ViewOf(d, first, i) = ViewOf(c, first, i)
    BY <1>7, SameTellingTells
  <1>9. Speaks(c, d, u.segments, first, i)
    <2>1. CASE u = AndAcknowledge(d) /\ c.state # "SynSent"
      <3>1. Numbered(d, first) /\ d.state # "SynSent"
        BY <1>6, <1>8, <2>1 DEF Tells
      <3>2. Utterance(AckSegment(d), ViewOf(d, first, i), Heard(d)) /\ AckSegment(d) \in Segment
        BY <1>5, <3>1, AckSegmentSpoken, AckSegmentType
      <3>3. Speaks(c, d, <<AckSegment(d)>>, first, i)
        BY <1>1, <1>5, <1>7, <1>8, <3>2, OneSegmentSpeaks
      <3>4. QED BY <2>1, <3>3 DEF AndAcknowledge, Open
    <2>2. CASE u = Open(d, <<>>)
      <3>1. u.segments = <<>> /\ <<>> \in Seq(Segment)
        BY <2>2, NoSegments DEF Open
      <3>2. Utters(<<>>, ViewOf(c, first, i), Heard(c))
        BY UttersNothing
      <3>3. QED BY <1>1, <1>5, <1>8, <3>1, <3>2, SameSpeaks
    <2>3. QED BY <1>3, <2>1, <2>2 DEF AfterRead
  <1>10. QED BY <1>4, <1>6, <1>7, <1>9

-----------------------------------------------------------------------------
(* Acknowledgements                                                        *)

\* Where the first n segments of a flight end.
EndAfter(q, first, n) == IF n = 0 THEN first ELSE TrackedEnd(q[n])

\* The first n segments carry no more bytes than they take sequence numbers.
LEMMA PrefixWithin ==
  ASSUME NEW q \in Seq(SoundSegment), NEW first \in SeqNumber, NEW last \in SeqNumber,
         Tiled(q, first, last), Straight(q, first, last), NEW n \in 0 .. Len(q)
  PROVE  /\ PayloadBytes(SubSeq(q, 1, n)) \in Nat
         /\ EndAfter(q, first, n) \in SeqNumber
         /\ PayloadBytes(SubSeq(q, 1, n)) <= Distance(first, EndAfter(q, first, n))
  <1>1. q \in Seq(TrackedSegment) /\ Len(q) \in Nat
    <2>1. SoundSegment \subseteq TrackedSegment
      BY DEF SoundSegment
    <2>2. QED BY <2>1
  <1>2. ASSUME NEW m \in 0 .. Len(q)
        PROVE  /\ PayloadBytes(SubSeq(q, 1, m)) \in Nat /\ EndAfter(q, first, m) \in SeqNumber
               /\ Distance(first, EndAfter(q, first, m)) \in Nat
    <2>1. SubSeq(q, 1, m) \in Seq(TrackedSegment)
      BY <1>1, PayloadCut
    <2>2. m # 0 => q[m] \in TrackedSegment
      BY <1>1, ElementOfSeq
    <2>3. EndAfter(q, first, m) \in SeqNumber
      BY <2>2, TrackedEndType DEF EndAfter
    <2>4. QED BY <2>1, <2>3, PayloadCells, DistanceType
  <1> DEFINE Bad == {m \in 0 .. Len(q) :
                 ~(PayloadBytes(SubSeq(q, 1, m)) <= Distance(first, EndAfter(q, first, m)))}
  <1>3. Bad = {}
    <2>1. SUFFICES ASSUME Bad # {} PROVE FALSE
      OBVIOUS
    <2>2. Bad \in SUBSET Nat
      OBVIOUS
    <2>3. PICK m \in Bad : \A k \in Bad : m <= k
      BY <2>1, <2>2, Least
    <2>4. m \in 0 .. Len(q) /\ m \in Nat
          /\ ~(PayloadBytes(SubSeq(q, 1, m)) <= Distance(first, EndAfter(q, first, m)))
      BY <2>3
    <2>5. m # 0
      <3>1. SUFFICES ASSUME m = 0 PROVE FALSE
        OBVIOUS
      <3>2. SubSeq(q, 1, 0) = <<>>
        BY <1>1
      <3>3. PayloadBytes(SubSeq(q, 1, m)) = 0
        BY <3>1, <3>2, PayloadSmall
      <3>4. QED BY <1>2, <2>4, <3>3
    <2>6. PICK p : p = m - 1
      OBVIOUS
    <2>7. p \in 0 .. Len(q) /\ p \in Nat /\ p + 1 = m /\ m \in 1 .. Len(q) /\ ~(m <= p)
      BY <1>1, <2>4, <2>5, <2>6
    <2>8. p \notin Bad
      BY <2>3, <2>7
    <2>9. PayloadBytes(SubSeq(q, 1, p)) <= Distance(first, EndAfter(q, first, p))
      BY <2>7, <2>8
    <2> HIDE DEF Bad
    <2>10. PICK t \in SoundSegment : t = q[m]
      BY <2>7, ElementOfSeq
    <2>11. t \in TrackedSegment /\ Len(t.data) \in Nat /\ t.seq \in SeqNumber
      BY <2>10 DEF SoundSegment, TrackedSegment
    <2>12. SubSeq(q, 1, m) = Append(SubSeq(q, 1, p), t)
      <3>1. ASSUME NEW S, NEW s \in Seq(S), NEW x \in Nat, x + 1 <= Len(s)
            PROVE  SubSeq(s, 1, x + 1) = Append(SubSeq(s, 1, x), s[x + 1])
        OBVIOUS
      <3>2. p + 1 <= Len(q)
        BY <1>1, <2>7
      <3>3. QED BY <1>1, <2>7, <2>10, <3>1, <3>2
    <2>13. SubSeq(q, 1, p) \in Seq(TrackedSegment)
      BY <1>1, <2>7, PayloadCut
    <2>14. PayloadBytes(SubSeq(q, 1, m)) = PayloadBytes(SubSeq(q, 1, p)) + Len(t.data)
      BY <2>11, <2>12, <2>13, PayloadAppend
    <2>15. EndAfter(q, first, p) = t.seq
      <3>1. CASE p = 0
        BY <1>1, <2>7, <2>10, <3>1 DEF EndAfter, Tiled
      <3>2. CASE p # 0
        <4>1. p \in 1 .. Len(q) - 1 /\ q[p + 1] = t
          BY <1>1, <2>7, <2>10, <3>2
        <4>2. TrackedEnd(q[p]) = q[p + 1].seq
          BY <4>1 DEF Tiled
        <4>3. QED BY <3>2, <4>1, <4>2 DEF EndAfter
      <3>3. QED BY <3>1, <3>2
    <2>16. EndAfter(q, first, m) = TrackedEnd(t)
      BY <2>5, <2>10 DEF EndAfter
    <2>17. Distance(first, t.seq) < Distance(first, TrackedEnd(t))
      BY <2>7, <2>10 DEF Straight, Fronts, Backs
    <2>18. PICK x \in Nat : x <= MaxWindow /\ TrackedEnd(t) = Plus(t.seq, x) /\ Len(t.data) <= x
      BY <2>10, SegmentSpan
    <2>19. Distance(t.seq, TrackedEnd(t)) = x
      <3>1. x < Modulus
        BY <2>18, ConfigAssumption, ModulusAssumption
      <3>2. QED BY <2>11, <2>18, <3>1, DistanceOfPlus
    <2>20. TrackedEnd(t) \in SeqNumber
      BY <2>11, TrackedEndType
    <2>21. Distance(first, t.seq) \in Nat /\ Distance(first, TrackedEnd(t)) \in Nat
      BY <2>11, <2>20, DistanceType
    <2>22. Distance(t.seq, TrackedEnd(t)) = Distance(first, TrackedEnd(t)) - Distance(first, t.seq)
      <3>1. Distance(first, t.seq) <= Distance(first, TrackedEnd(t))
        BY <2>17, <2>21
      <3>2. QED BY <2>11, <2>20, <3>1, OffsetSub
    <2>23. PayloadBytes(SubSeq(q, 1, p)) \in Nat
      BY <1>2, <2>7
    <2>24. PICK a \in Nat : a = Distance(first, t.seq)
      BY <2>21
    <2>25. PICK b \in Nat : b = Distance(first, TrackedEnd(t))
      BY <2>21
    <2>26. PICK y \in Nat : y = PayloadBytes(SubSeq(q, 1, p))
      BY <2>23
    <2>27. PICK z \in Nat : z = Len(t.data)
      BY <2>11
    <2>28. y <= a /\ x = b - a /\ z <= x
      BY <2>9, <2>15, <2>18, <2>19, <2>22, <2>24, <2>25, <2>26, <2>27
    <2>29. y + z <= b
      BY <2>28
    <2>30. QED BY <2>4, <2>14, <2>16, <2>25, <2>26, <2>27, <2>29
  <1>4. n \notin Bad
    BY <1>3
  <1>5. PayloadBytes(SubSeq(q, 1, n)) <= Distance(first, EndAfter(q, first, n))
    BY <1>4
  <1>6. QED BY <1>2, <1>5

\* An ACK counts no more bytes than it moves send_una.
LEMMA AckedAdvances ==
  ASSUME NEW c \in SoundConn, NEW ack \in SeqNumber, InSendInterval(c, ack)
  PROVE  PayloadBytes(Gone(c, ack)) + Trimmed(c, ack) <= Distance(c.send_una, ack)
  <1>1. PICK q : q = c.unacked
    OBVIOUS
  <1>2. PICK una, nxt : una = c.send_una /\ nxt = c.send_nxt
    OBVIOUS
  <1>3. /\ q \in Seq(SoundSegment) /\ una \in SeqNumber /\ nxt \in SeqNumber
        /\ Tiled(q, una, nxt) /\ Straight(q, una, nxt)
        /\ Distance(una, nxt) <= MaxWindow + 1 /\ Len(q) \in Nat
    <2>1. c \in Conn /\ Sender(c)
      BY SoundFields
    <2>2. QED BY <1>1, <1>2, <2>1 DEF Sender, Conn, FlightBounded
  <1>4. PICK k : k = Covered(c, ack)
    OBVIOUS
  <1>5. k \in 0 .. Len(q) /\ \A j \in 1 .. k : BeforeOrEqual(TrackedEnd(q[j]), ack)
    <2>1. c \in Conn
      BY SoundFields
    <2>2. QED BY <1>1, <1>4, <2>1, CoveredType
  <1>6. Gone(c, ack) = SubSeq(q, 1, k)
    BY <1>1, <1>4 DEF Gone
  <1>7. PICK e : e = EndAfter(q, una, k)
    OBVIOUS
  <1>8. /\ PayloadBytes(Gone(c, ack)) \in Nat /\ e \in SeqNumber
        /\ PayloadBytes(Gone(c, ack)) <= Distance(una, e)
    BY <1>3, <1>5, <1>6, <1>7, PrefixWithin
  <1>9. ~Before(ack, una) /\ ~Before(nxt, ack)
    BY <1>2 DEF InSendInterval, InClosedInterval, After
  <1>10. Distance(una, ack) \in Nat /\ Distance(una, ack) <= Distance(una, nxt)
         /\ Distance(una, e) \in Nat /\ Distance(e, ack) \in Nat /\ Distance(una, nxt) \in Nat
    BY <1>3, <1>8, <1>9, AckPlace, DistanceType
  <1>11. Distance(una, e) <= Distance(una, ack)
    <2>1. CASE k = 0
      <3>1. e = una /\ Distance(una, una) = 0
        BY <1>3, <1>7, <2>1, BeforeOrAfter DEF EndAfter
      <3>2. QED BY <1>10, <3>1
    <2>2. CASE k # 0
      <3>1. k \in 1 .. k /\ k \in 1 .. Len(q) /\ e = TrackedEnd(q[k])
        BY <1>5, <1>7, <2>2 DEF EndAfter
      <3>2. BeforeOrEqual(e, ack)
        BY <1>5, <3>1
      <3>3. Distance(una, e) <= Distance(una, nxt)
        BY <1>3, <3>1 DEF Straight, Backs
      <3>4. e = Plus(una, Distance(una, e)) /\ ack = Plus(una, Distance(una, ack))
        BY <1>3, <1>8, PlusOfDistance
      <3>5. PICK m \in 0 .. MaxWindow + 1 : m = Distance(una, e)
        BY <1>3, <1>10, <3>3, ConfigAssumption
      <3>6. PICK n \in 0 .. MaxWindow + 1 : n = Distance(una, ack)
        BY <1>3, <1>10, ConfigAssumption
      <3>7. BeforeOrEqual(Plus(una, m), Plus(una, n)) <=> m <= n
        BY <1>3, PlacesCompare
      <3>8. QED BY <3>2, <3>4, <3>5, <3>6, <3>7
    <2>3. QED BY <2>1, <2>2
  <1>12. Distance(e, ack) = Distance(una, ack) - Distance(una, e)
    BY <1>3, <1>8, <1>11, OffsetSub
  <1>13. Trimmed(c, ack) \in Nat /\ Trimmed(c, ack) <= Distance(e, ack)
    <2>1. PICK r : r = Rest(c, ack)
      OBVIOUS
    <2>2. r = SubSeq(q, k + 1, Len(q))
      BY <1>1, <1>4, <2>1 DEF Rest
    <2>3. CASE r = <<>>
      BY <1>10, <2>1, <2>3 DEF Trimmed
    <2>4. CASE r # <<>>
      <3>1. k < Len(q) /\ Head(r) = q[k + 1]
        <4>1. ASSUME NEW s \in Seq(SoundSegment), NEW n \in 0 .. Len(s), SubSeq(s, n + 1, Len(s)) # <<>>
              PROVE  n < Len(s) /\ Head(SubSeq(s, n + 1, Len(s))) = s[n + 1]
          <5>1. n < Len(s)
            <6>1. SUFFICES ASSUME n = Len(s) PROVE FALSE
              BY <4>1
            <6>2. SubSeq(s, n + 1, Len(s)) = <<>>
              BY <6>1
            <6>3. QED BY <4>1, <6>2
          <5>2. SubSeq(s, n + 1, Len(s))[1] = s[n + 1]
            BY <5>1
          <5>3. Head(SubSeq(s, n + 1, Len(s))) = SubSeq(s, n + 1, Len(s))[1]
            BY <5>1
          <5>4. QED BY <5>1, <5>2, <5>3
        <4>2. QED BY <1>3, <1>5, <2>2, <2>4, <4>1
      <3>2. PICK t \in SoundSegment : t = q[k + 1]
        <4>1. k + 1 \in 1 .. Len(q)
          BY <1>3, <1>5, <3>1
        <4>2. QED BY <1>3, <4>1, ElementOfSeq
      <3>3. t \in TrackedSegment /\ Len(t.data) \in Nat
        BY <3>2 DEF SoundSegment, TrackedSegment
      <3>4. t.seq = e
        <4>1. CASE k = 0
          BY <1>3, <1>7, <3>1, <3>2, <4>1 DEF EndAfter, Tiled
        <4>2. CASE k # 0
          <5>1. k \in 1 .. Len(q) - 1
            BY <1>3, <1>5, <3>1, <4>2
          <5>2. TrackedEnd(q[k]) = q[k + 1].seq
            BY <1>3, <5>1 DEF Tiled
          <5>3. QED BY <1>7, <3>2, <4>2, <5>2 DEF EndAfter
        <4>3. QED BY <4>1, <4>2
      <3>5. Trimmed(c, ack) = TrimOf(t, ack)
        BY <2>1, <2>4, <3>1, <3>2 DEF Trimmed
      <3>6. TrimOf(t, ack) \in Nat
        BY <3>3, TrimOfType
      <3>7. TrimOf(t, ack) <= Distance(e, ack)
        <4>1. CASE ~EndsInside(t, ack)
          BY <1>10, <4>1 DEF TrimOf
        <4>2. CASE EndsInside(t, ack)
          <5>1. TrimOf(t, ack) = Smaller(Distance(e, ack), Len(t.data))
            BY <3>4, <4>2 DEF TrimOf
          <5>2. QED BY <1>10, <3>3, <5>1, SmallerType
        <4>3. QED BY <4>1, <4>2
      <3>8. QED BY <3>5, <3>6, <3>7
    <2>5. QED BY <2>3, <2>4
  <1>14. PICK a \in Nat : a = Distance(una, e)
    BY <1>10
  <1>15. PICK b \in Nat : b = Distance(una, ack)
    BY <1>10
  <1>16. PICK x \in Nat : x = PayloadBytes(Gone(c, ack))
    BY <1>8
  <1>17. PICK y \in Nat : y = Trimmed(c, ack)
    BY <1>13
  <1>18. x <= a /\ y <= b - a
    BY <1>8, <1>12, <1>13, <1>14, <1>15, <1>16, <1>17
  <1>19. x + y <= b
    BY <1>18
  <1>20. QED BY <1>2, <1>15, <1>16, <1>17, <1>19

\* What an ACK leaves in flight is still the sender's stream: the front segment
\* is trimmed to the part behind the ACK, the others stay (apply_ack).
LEMMA TrimFrontSpoken ==
  ASSUME NEW rest \in Seq(SoundSegment), rest # <<>>, NEW ack \in SeqNumber,
         NEW first \in SeqNumber, NEW last, Tiled(rest, first, last),
         first = ack \/ 2 * Distance(first, ack) <= Modulus,
         ~BeforeOrEqual(TrackedEnd(rest[1]), ack),
         NEW d \in Views, Spoken(rest[1], d)
  PROVE  /\ Spoken(TrimFront(rest, ack)[1], d)
         /\ TrimFront(rest, ack)[1].flags = rest[1].flags
         /\ Len(TrimFront(rest, ack)) = Len(rest)
         /\ \A k \in 2 .. Len(rest) : TrimFront(rest, ack)[k] = rest[k]
  <1>1. /\ Head(rest) = rest[1] /\ rest[1] \in SoundSegment /\ 1 \in 1 .. Len(rest)
        /\ Len(rest) # 0
    BY EmptySeq DEF SoundSegment
  <1>2. PICK t : t = rest[1]
    OBVIOUS
  <1>3. t \in SoundSegment /\ t \in TrackedSegment /\ t.seq = first /\ t.data \in Seq(Byte)
    BY <1>1, <1>2 DEF Tiled, SoundSegment, TrackedSegment
  <1>4. CASE first = ack
    <2>1. ~EndsInside(t, ack)
      BY <1>3, <1>4, BeforeOrAfter DEF EndsInside
    <2>2. TrimFront(rest, ack) = rest
      BY <1>1, <1>2, <2>1 DEF TrimFront
    <2>3. QED BY <2>2
  <1>5. CASE first # ack
    <2>1. PICK n \in Nat : /\ n <= MaxWindow /\ TrackedEnd(t) = Plus(t.seq, n)
                           /\ n > 1 => t.flags \cap {"SYN", "FIN"} = {} /\ n = Len(t.data)
      BY <1>3, SegmentSpan
    <2>2. PICK m : m = Distance(first, ack)
      OBVIOUS
    <2>3. /\ m \in Nat \ {0} /\ m < n /\ Before(first, ack) /\ Before(ack, Plus(first, n))
      <3>1. ~BeforeOrEqual(Plus(first, n), ack)
        BY <1>2, <1>3, <2>1
      <3>2. QED BY <1>5, <2>1, <2>2, <3>1, EndsWithin
    <2>4. n > 1 /\ t.flags \cap {"SYN", "FIN"} = {} /\ n = Len(t.data)
      BY <2>1, <2>3
    <2>5. EndsInside(t, ack)
      BY <1>3, <2>1, <2>3, <2>4 DEF EndsInside
    <2>6. TrimOf(t, ack) = m
      BY <1>3, <2>2, <2>3, <2>4, <2>5 DEF TrimOf, Smaller
    <2>7. PICK data : data = SubSeq(t.data, m + 1, Len(t.data))
      OBVIOUS
    <2>8. /\ data \in Seq(Byte) /\ Len(data) = n - m
          /\ \A k \in 1 .. Len(data) : data[k] = t.data[m + k]
      <3>1. data \in Seq(Byte) /\ Len(data) = n - m
        BY <1>3, <2>3, <2>4, <2>7
      <3>2. \A k \in 1 .. Len(data) : data[k] = t.data[m + k]
        BY <1>3, <2>3, <2>4, <2>7, <3>1
      <3>3. QED BY <3>1, <3>2
    <2>9. PICK s : s = [t EXCEPT !.seq = ack, !.data = data]
      OBVIOUS
    <2>10. s.seq = ack /\ s.data = data /\ s.flags = t.flags
      BY <1>3, <2>9 DEF TrackedSegment
    <2>11. TrimFront(rest, ack) = [rest EXCEPT ![1] = s]
      <3>1. TrimFront(rest, ack) = [rest EXCEPT ![1].seq = ack,
                                  ![1].data = SubSeq(@, TrimOf(Head(rest), ack) + 1, Len(@))]
        BY <1>1, <1>2, <2>5 DEF TrimFront
      <3>2. TrimOf(Head(rest), ack) = m
        BY <1>1, <1>2, <2>6
      <3>3. QED BY <1>1, <1>2, <2>7, <2>9, <3>1, <3>2
    <2>12. /\ TrimFront(rest, ack)[1] = s /\ Len(TrimFront(rest, ack)) = Len(rest)
           /\ \A k \in 2 .. Len(rest) : TrimFront(rest, ack)[k] = rest[k]
      BY <1>1, <2>11
    <2>13. Spoken(s, d)
      <3>1. "SYN" \notin t.flags /\ "FIN" \notin t.flags /\ "RST" \notin t.flags
            /\ Told(t.seq, t.data, FALSE, d)
        <4>1. "SYN" \notin t.flags /\ "FIN" \notin t.flags
          BY <2>4
        <4>2. ("FIN" \in t.flags) = FALSE
          BY <4>1
        <4>3. Spoken(t, d)
          BY <1>2
        <4>4. Told(t.seq, t.data, "FIN" \in t.flags, d) /\ "RST" \notin t.flags
          BY <4>1, <4>3 DEF Spoken
        <4>5. QED BY <4>1, <4>2, <4>4
      <3>2. PICK r : r = [seq |-> ack, data |-> data, fin |-> FALSE]
        OBVIOUS
      <3>3. r.seq = ack /\ r.data = data /\ r.fin = FALSE
        BY <3>2
      <3>4. Part(r, t.seq, t.data, FALSE)
        <4>1. ack = Plus(t.seq, m)
          BY <1>3, <2>2, PlusOfDistance
        <4>2. m \in 0 .. Len(t.data)
          BY <1>3, <2>3, <2>4
        <4>3. m + Len(r.data) <= Len(t.data)
          BY <2>3, <2>4, <2>8, <3>3
        <4>4. PartFrom(m, r, t.seq, t.data, FALSE)
          BY <2>8, <3>3, <4>1, <4>3 DEF PartFrom
        <4>5. QED BY <4>2, <4>4 DEF Part
      <3>5. Told(r.seq, r.data, r.fin, d)
        BY <1>3, <2>8, <3>1, <3>3, <3>4, ToldPart
      <3>6. ("FIN" \in s.flags) = FALSE /\ "SYN" \notin s.flags /\ "RST" \notin s.flags
        BY <2>10, <3>1
      <3>7. Told(s.seq, s.data, "FIN" \in s.flags, d)
        BY <2>10, <3>3, <3>5, <3>6
      <3>8. QED BY <3>6, <3>7 DEF Spoken
    <2>14. QED BY <1>2, <2>10, <2>12, <2>13
  <1>6. QED BY <1>4, <1>5

\* Every segment that an ACK leaves in flight repeats one that was in flight,
\* the front one without the part the ACK covers.
LEMMA LeftSpoken ==
  ASSUME NEW c \in SoundConn, NEW ack \in SeqNumber, InSendInterval(c, ack),
         NEW d \in Views, KeptOwn(c, d),
         NEW left, left = TrimFront(Rest(c, ack), ack), NEW i \in 1 .. Len(left)
  PROVE  /\ Spoken(left[i], d)
         /\ \E j \in 1 .. Len(c.unacked) : left[i].flags = c.unacked[j].flags
  <1>1. PICK k : k = Covered(c, ack)
    OBVIOUS
  <1>2. PICK rest : rest = Rest(c, ack)
    OBVIOUS
  <1>3. PICK q : q = c.unacked
    OBVIOUS
  <1>4. /\ q \in Seq(SoundSegment) /\ q \in Seq(TrackedSegment) /\ c \in Conn
        /\ Tiled(q, c.send_una, c.send_nxt)
        /\ c.send_una \in SeqNumber /\ c.send_nxt \in SeqNumber
    BY <1>3, SoundFields DEF Sender, Conn
  <1>5. /\ k \in 0 .. Len(q) /\ Len(q) \in Nat
        /\ \A j \in 1 .. k : BeforeOrEqual(TrackedEnd(q[j]), ack)
    <2>1. Len(q) \in Nat
      BY <1>4
    <2>2. QED BY <1>1, <1>3, <1>4, <2>1, CoveredType
  <1>6. rest \in Seq(SoundSegment) /\ Len(rest) = Len(q) - k
        /\ \A j \in 1 .. Len(q) - k : rest[j] = q[k + j]
    <2>1. ASSUME NEW s \in Seq(SoundSegment), NEW n \in 0 .. Len(s)
          PROVE  /\ SubSeq(s, n + 1, Len(s)) \in Seq(SoundSegment)
                 /\ Len(SubSeq(s, n + 1, Len(s))) = Len(s) - n
                 /\ \A j \in 1 .. Len(s) - n : SubSeq(s, n + 1, Len(s))[j] = s[n + j]
      OBVIOUS
    <2>2. /\ SubSeq(q, k + 1, Len(q)) \in Seq(SoundSegment)
          /\ Len(SubSeq(q, k + 1, Len(q))) = Len(q) - k
          /\ \A j \in 1 .. Len(q) - k : SubSeq(q, k + 1, Len(q))[j] = q[k + j]
      BY <1>4, <1>5, <2>1
    <2>3. QED BY <1>1, <1>2, <1>3, <2>2, Zenon DEF Rest
  <1>7. rest # <<>>
    <2>1. SUFFICES ASSUME rest = <<>> PROVE FALSE
      OBVIOUS
    <2>2. left = <<>>
      BY <1>2, <2>1 DEF TrimFront
    <2>3. Len(left) = 0
      BY <2>2
    <2>4. QED BY <2>3
  <1>8. k < Len(q) /\ k + 1 \in 1 .. Len(q) /\ rest[1] = q[k + 1]
    <2>1. Len(rest) # 0
      BY <1>6, <1>7, EmptySeq
    <2>2. k < Len(q)
      BY <1>5, <1>6, <2>1
    <2>3. 1 \in 1 .. Len(q) - k
      BY <1>5, <2>2
    <2>4. QED BY <1>5, <1>6, <2>2, <2>3
  <1>9. PICK e : e = IF k = 0 THEN c.send_una ELSE TrackedEnd(q[k])
    OBVIOUS
  <1>10. Tiled(rest, e, c.send_nxt)
    <2>1. Tiled(SubSeq(q, k + 1, Len(q)),
                IF k = 0 THEN c.send_una ELSE TrackedEnd(q[k]), c.send_nxt)
      BY <1>4, <1>5, TiledRest
    <2>2. QED BY <1>1, <1>2, <1>3, <1>9, <2>1, Zenon DEF Rest
  <1>11. ~Before(ack, c.send_una) /\ ~Before(c.send_nxt, ack)
    BY DEF InSendInterval, InClosedInterval, After
  <1>12. k # 0 => e \in SeqNumber /\ BeforeOrEqual(e, ack)
    <2>1. SUFFICES ASSUME k # 0 PROVE e \in SeqNumber /\ BeforeOrEqual(e, ack)
      OBVIOUS
    <2>2. k \in 1 .. k /\ k \in 1 .. Len(q)
      BY <1>5, <2>1
    <2>3. q[k] \in TrackedSegment
      BY <1>4, <2>2
    <2>4. QED BY <1>5, <1>9, <2>1, <2>2, <2>3, TrackedEndType
  <1>13. e \in SeqNumber
    BY <1>4, <1>9, <1>12
  <1>14. e = ack \/ 2 * Distance(e, ack) <= Modulus
    <2>1. CASE k = 0
      BY <1>4, <1>9, <1>11, <1>13, <2>1, ModulusAssumption DEF Before, Distance, SeqNumber
    <2>2. CASE k # 0
      BY <1>12, <1>13, <2>2, ModulusAssumption DEF BeforeOrEqual, Before, Distance, SeqNumber
    <2>3. QED BY <2>1, <2>2
  <1>15. ~BeforeOrEqual(TrackedEnd(rest[1]), ack)
    BY <1>1, <1>3, <1>4, <1>8, CoveredMost
  <1>16. \A j \in 1 .. Len(q) : Spoken(q[j], d)
    BY <1>3 DEF KeptOwn
  <1>17. Spoken(rest[1], d)
    BY <1>8, <1>16
  <1>18. /\ Spoken(left[1], d) /\ left[1].flags = rest[1].flags /\ Len(left) = Len(rest)
         /\ \A j \in 2 .. Len(rest) : left[j] = rest[j]
    BY <1>2, <1>6, <1>7, <1>10, <1>13, <1>14, <1>15, <1>17, TrimFrontSpoken
  <1>19. CASE i = 1
    BY <1>3, <1>8, <1>18, <1>19
  <1>20. CASE i # 1
    <2>1. i \in 2 .. Len(rest) /\ i \in 1 .. Len(q) - k /\ k + i \in 1 .. Len(q)
      <3>1. i \in 1 .. Len(rest)
        BY <1>18
      <3>2. QED BY <1>5, <1>6, <1>20, <3>1
    <2>2. left[i] = q[k + i]
      BY <1>6, <1>18, <2>1
    <2>3. QED BY <1>3, <1>16, <2>1, <2>2
  <1>21. QED BY <1>19, <1>20

\* What an ACK tells the sender: nothing new, or bytes that end before the place
\* it names, which is a place the sender has sent.
Learns(c, d, first, ack) ==
  \/ d.acked = c.acked
  \/ /\ c.acked < d.acked /\ d.acked + 1 <= Distance(first, ack)
     /\ Distance(first, ack) <= Distance(first, c.send_nxt)

\* An ACK that advances (apply_ack).
LEMMA ApplyNewAckSpeaks ==
  ASSUME NEW c \in SoundConn, NEW first \in SeqNumber, NEW i \in Nat, Tells(c, first, i),
         NEW ack \in SeqNumber, InSendInterval(c, ack), ack # c.send_una,
         NEW d, d = ApplyNewAck(c, ack)
  PROVE  /\ Speaks(c, d, <<>>, first, i) /\ Learns(c, d, first, ack)
         /\ d.accepted = c.accepted /\ d.send_una = ack /\ d.send_nxt = c.send_nxt
         /\ d.read_closed = c.read_closed
         /\ d.send_una # first
  <1>1. PICK left : left = TrimFront(Rest(c, ack), ack)
    OBVIOUS
  <1>2. PICK bytes : bytes = PayloadBytes(Gone(c, ack)) + Trimmed(c, ack)
    OBVIOUS
  <1>3. bytes \in Nat /\ bytes <= Distance(c.send_una, ack)
    <2>1. PayloadBytes(Gone(c, ack)) \in Nat /\ Trimmed(c, ack) \in Nat
      BY NewAckRest
    <2>2. bytes <= Distance(c.send_una, ack)
      BY <1>2, AckedAdvances
    <2>3. QED BY <1>2, <2>1, <2>2
  <1>4. d = Acknowledge(c, ack, left, bytes)
    BY <1>1, <1>2 DEF ApplyNewAck, AckSplit, Gone, Rest, Trimmed
  <1>5. c \in Conn /\ Sender(c)
    BY SoundFields
  <1>6. d \in SoundConn /\ d.state = c.state /\ d \in Conn /\ Sender(d)
    BY ApplyNewAckSound, SoundFields
  <1>7. /\ d.unacked = left /\ d.send_una = ack /\ d.acked = c.acked + bytes
        /\ d.send_nxt = c.send_nxt /\ d.send_queue = c.send_queue
        /\ d.accepted = c.accepted /\ d.close_requested = c.close_requested
        /\ d.read_closed = c.read_closed
    BY <1>4, <1>5 DEF Acknowledge, Conn
  <1>8. Numbered(c, first) /\ QueuedNext(c, first, i) /\ KeptOwn(c, ViewOf(c, first, i))
        /\ Confirmed(c, first) /\ OnlySyn(c)
    BY DEF Tells
  <1>9. ViewOf(c, first, i) \in Views
    BY <1>5, <1>8, ViewOfType
  <1>10. ViewOf(d, first, i) = ViewOf(c, first, i)
    BY <1>6, <1>7 DEF ViewOf, FinSent
  <1>11. Numbered(d, first) /\ QueuedNext(d, first, i)
    BY <1>6, <1>7, <1>8 DEF Numbered, QueuedNext, FinSent
  <1>12. ASSUME NEW k \in 1 .. Len(left)
         PROVE  /\ Spoken(left[k], ViewOf(c, first, i))
                /\ \E j \in 1 .. Len(c.unacked) : left[k].flags = c.unacked[j].flags
    BY <1>1, <1>8, <1>9, LeftSpoken
  <1>13. KeptOwn(d, ViewOf(d, first, i))
    BY <1>7, <1>10, <1>12 DEF KeptOwn
  <1>14. OnlySyn(d)
    BY <1>6, <1>7, <1>8, <1>12 DEF OnlySyn
  <1>15. PICK una, nxt : una = c.send_una /\ nxt = c.send_nxt
    OBVIOUS
  <1>16. /\ una \in SeqNumber /\ nxt \in SeqNumber
         /\ Distance(una, nxt) <= MaxWindow + 1
         /\ ~Before(ack, una) /\ ~Before(nxt, ack)
    BY <1>5, <1>15 DEF Sender, FlightBounded, Conn, InSendInterval, InClosedInterval, After
  <1>17. Distance(una, ack) <= Distance(una, nxt)
    BY <1>16, AckPlace
  <1>18. PICK a \in Nat : a = Distance(first, una)
    BY <1>16, DistanceType
  <1>19. PICK b \in Nat : b = Distance(una, ack)
    BY <1>16, DistanceType
  <1>20. PICK e \in 0 .. Modulus - 1 : e = Distance(first, nxt)
    BY <1>16, PlusOfDistance
  <1>21. a <= e
    BY <1>8, <1>15, <1>18, <1>20 DEF Confirmed
  <1>22. Distance(una, nxt) = e - a
    BY <1>16, <1>18, <1>20, <1>21, OffsetSub
  <1>23. a + b <= e /\ a + b < Modulus /\ b # 0
    <2>1. b # 0
      BY <1>15, <1>16, <1>19, ModulusAssumption DEF Distance, SeqNumber
    <2>2. b <= e - a
      BY <1>17, <1>19, <1>22
    <2>3. QED BY <2>1, <2>2, ModulusAssumption
  <1>24. Distance(first, ack) = a + b
    BY <1>16, <1>18, <1>19, <1>23, OffsetAdd
  <1>25. c.acked \in Nat /\ d.acked = c.acked + bytes /\ d.acked \in Nat
    BY <1>3, <1>5, <1>7 DEF Conn
  <1>26. ASSUME c.state \in Opening
         PROVE  Confirmed(d, first) /\ Learns(c, d, first, ack)
    <2>1. d.accepted = 0
      BY <1>7, <1>8, <1>26 DEF Confirmed
    <2>2. d.accepted = d.acked + PayloadBytes(d.unacked) + Len(d.send_queue)
      BY <1>6 DEF Sender
    <2>3. PayloadBytes(d.unacked) \in Nat /\ Len(d.send_queue) \in Nat
      <3>1. d.unacked \in Seq(TrackedSegment) /\ d.send_queue \in Seq(Byte)
        BY <1>6 DEF Conn
      <3>2. QED BY <3>1, PayloadCells
    <2>4. d.acked = 0
      <3>1. \A x, y, z \in Nat : 0 = x + y + z => x = 0
        OBVIOUS
      <3>2. QED BY <1>25, <2>1, <2>2, <2>3, <3>1
    <2>5. c.acked = 0
      BY <1>3, <1>25, <2>4
    <2>6. Confirmed(d, first)
      <3>1. Distance(first, d.send_una) <= Distance(first, d.send_nxt)
        BY <1>7, <1>15, <1>20, <1>23, <1>24
      <3>2. QED BY <1>6, <1>26, <2>1, <2>4, <3>1 DEF Confirmed, Opening
    <2>7. Learns(c, d, first, ack)
      BY <2>4, <2>5 DEF Learns
    <2>8. QED BY <2>6, <2>7
  <1>27. ASSUME c.state \notin Opening
         PROVE  Confirmed(d, first) /\ Learns(c, d, first, ack)
    <2>1. una # first
      BY <1>8, <1>15, <1>27 DEF Confirmed
    <2>2. a # 0
      BY <1>16, <1>18, <2>1, ModulusAssumption DEF Distance, SeqNumber
    <2>3. c.acked = 0 \/ c.acked + 1 <= a
      BY <1>8, <1>15, <1>18 DEF Confirmed
    <2>4. PICK x \in Nat : x = c.acked
      BY <1>25
    <2>5. x + 1 <= a
      BY <2>2, <2>3, <2>4
    <2>6. x + bytes + 1 <= a + b
      BY <1>3, <1>15, <1>19, <2>5
    <2>7. d.acked + 1 <= Distance(first, ack)
      BY <1>3, <1>24, <1>25, <2>4, <2>6
    <2>8. c.state \notin {"FinWait2", "TimeWait"}
      <3>1. SUFFICES ASSUME c.state \in {"FinWait2", "TimeWait"} PROVE FALSE
        OBVIOUS
      <3>2. una = nxt
        BY <1>8, <1>15, <3>1 DEF Confirmed
      <3>3. Distance(una, nxt) = 0
        BY <1>16, <3>2, BeforeOrAfter
      <3>4. QED BY <1>17, <1>19, <1>23, <3>3
    <2>9. Confirmed(d, first)
      <3>1. Distance(first, d.send_una) <= Distance(first, d.send_nxt)
        BY <1>7, <1>15, <1>20, <1>23, <1>24
      <3>2. d.send_una # first
        <4>1. Distance(first, ack) # 0
          BY <1>23, <1>24
        <4>2. QED BY <1>7, <4>1, BeforeOrAfter
      <3>3. QED BY <1>6, <1>7, <1>27, <2>7, <2>8, <3>1, <3>2 DEF Confirmed
    <2>10. Learns(c, d, first, ack)
      <3>1. d.acked = c.acked \/ c.acked < d.acked
        BY <1>3, <1>25
      <3>2. Distance(first, ack) <= Distance(first, c.send_nxt)
        BY <1>15, <1>20, <1>23, <1>24
      <3>3. QED BY <2>7, <3>1, <3>2 DEF Learns
    <2>11. QED BY <2>9, <2>10
  <1>28. Tells(d, first, i)
    BY <1>11, <1>13, <1>14, <1>26, <1>27 DEF Tells
  <1>29. Speaks(c, d, <<>>, first, i)
    <2>1. Utters(<<>>, ViewOf(c, first, i), Heard(c))
      BY UttersNothing
    <2>2. QED BY <1>5, <1>6, <1>10, <1>28, <2>1, NoSegments, SameSpeaks
  <1>30. d.send_una # first
    <2>1. Distance(first, ack) # 0
      BY <1>23, <1>24
    <2>2. QED BY <1>7, <2>1, BeforeOrAfter
  <1>31. QED BY <1>7, <1>26, <1>27, <1>29, <1>30

\* d differs from c in nothing the stream or the receiver is about.
LEMMA QuietChange ==
  ASSUME NEW c, NEW first, NEW i, Tells(c, first, i), NEW d,
         d.send_una = c.send_una, d.send_nxt = c.send_nxt, d.unacked = c.unacked,
         d.send_queue = c.send_queue, d.accepted = c.accepted, d.acked = c.acked,
         d.close_requested = c.close_requested, d.state = c.state,
         d.recv_nxt = c.recv_nxt, d.recv_queue = c.recv_queue,
         d.reassembly = c.reassembly, d.read_closed = c.read_closed
  PROVE  SameTelling(c, d) /\ Only(c, d) /\ Tells(d, first, i)
  <1>1. c.state \in {"FinWait2", "TimeWait"} => c.send_una = c.send_nxt
    BY DEF Tells, Confirmed
  <1>2. SameTelling(c, d)
    BY <1>1, RepeatsItself DEF SameTelling, Alike
  <1>3. Only(c, d)
    BY DEF Only, SameReceive
  <1>4. QED BY <1>2, <1>3, SameTellingTells

\* The same as a step that sends nothing.
LEMMA QuietStep ==
  ASSUME NEW c \in Conn, NEW d \in Conn, NEW first \in SeqNumber, NEW i \in Nat,
         Tells(c, first, i), SameTelling(c, d), Only(c, d)
  PROVE  OnlySpeaks(c, Open(d, <<>>), first, i)
  <1>1. Tells(d, first, i) /\ ViewOf(d, first, i) = ViewOf(c, first, i)
    BY SameTellingTells
  <1>2. Utters(<<>>, ViewOf(c, first, i), Heard(c))
    BY UttersNothing
  <1>3. Speaks(c, d, <<>>, first, i)
    BY <1>1, <1>2, NoSegments, SameSpeaks
  <1>4. Open(d, <<>>).conn = d /\ Open(d, <<>>).segments = <<>>
    BY DEF Open
  <1>5. QED BY <1>3, <1>4 DEF OnlySpeaks

\* An ACK that repeats send_una (apply_ack).
LEMMA DuplicateSpeaks ==
  ASSUME NEW c \in SoundConn, NEW first \in SeqNumber, NEW i \in Nat, Tells(c, first, i),
         NEW candidate
  PROVE  OnlySpeaks(c, ApplyDuplicateAck(c, candidate), first, i)
  <1>1. c \in Conn /\ c.mss <= Mss
    BY SoundFields DEF Sender
  <1>2. ASSUME NEW d \in SoundConn, Tells(d, first, i), NEW e \in Conn,
               NEW r \in Controller, NEW n \in Nat,
               e = [d EXCEPT !.duplicate_acks = n, !.reno = r]
                 \/ e = [d EXCEPT !.reno = r] \/ e = [d EXCEPT !.duplicate_acks = n]
        PROVE  /\ e \in SoundConn /\ SameTelling(d, e) /\ Only(d, e) /\ Tells(e, first, i)
               /\ OnlySpeaks(d, Open(e, <<>>), first, i)
    <2>1. d \in Conn /\ d.mss <= Mss
      BY SoundFields DEF Sender
    <2>2. /\ e.mss = d.mss /\ e.unacked = d.unacked /\ e.send_una = d.send_una
          /\ e.send_nxt = d.send_nxt /\ e.send_queue = d.send_queue
          /\ e.accepted = d.accepted /\ e.acked = d.acked
          /\ e.recv_nxt = d.recv_nxt /\ e.recv_queue = d.recv_queue
          /\ e.reassembly = d.reassembly /\ e.close_requested = d.close_requested
          /\ e.state = d.state /\ e.read_closed = d.read_closed
      BY <1>2, <2>1 DEF Conn
    <2>3. e \in SoundConn
      BY <2>1, <2>2, SameSound
    <2>4. SameTelling(d, e) /\ Only(d, e) /\ Tells(e, first, i)
      BY <1>2, <2>2, QuietChange
    <2>5. OnlySpeaks(d, Open(e, <<>>), first, i)
      BY <1>2, <2>1, <2>4, QuietStep
    <2>6. QED BY <2>3, <2>4, <2>5
  <1>3. PICK d : d = CountDuplicate(c)
    OBVIOUS
  <1>4. /\ d \in SoundConn /\ SameTelling(c, d) /\ Only(c, d) /\ Tells(d, first, i)
        /\ OnlySpeaks(c, Open(d, <<>>), first, i)
    <2>1. RenoOnDuplicateAck(c.reno, c.mss) \in Controller /\ CountUp(c.duplicate_acks) \in Nat
      BY <1>1, RenoTypes, CountUpType DEF Conn
    <2>2. d = [c EXCEPT !.duplicate_acks = CountUp(c.duplicate_acks),
                        !.reno = RenoOnDuplicateAck(c.reno, c.mss)]
      BY <1>1, <1>3 DEF CountDuplicate, Conn
    <2>3. d \in Conn
      BY <1>1, <2>1, <2>2 DEF Conn
    <2>4. QED BY <1>2, <2>1, <2>2, <2>3
  <1>5. PICK e : e = FastLoss(d)
    OBVIOUS
  <1>6. e \in SoundConn /\ SameTelling(d, e) /\ Only(d, e) /\ Tells(e, first, i)
    <2>1. d \in Conn
      BY <1>4, SoundFields
    <2>2. RenoOnFastLoss(d.reno, d.mss, InFlight(d)) \in Controller /\ 0 \in Nat
      BY <2>1, RenoOnLossTypes, InFlightType DEF Conn
    <2>3. e = [d EXCEPT !.reno = RenoOnFastLoss(d.reno, d.mss, InFlight(d))]
      BY <1>5, <2>1 DEF FastLoss, Conn
    <2>4. e \in Conn
      BY <2>1, <2>2, <2>3 DEF Conn
    <2>5. QED BY <1>2, <1>4, <2>2, <2>3, <2>4
  <1>7. OnlySpeaks(c, RetransmitOldest(e, FALSE), first, i)
    <2>1. PICK x, p : x = RetransmitOldest(e, FALSE).conn /\ p = RetransmitOldest(e, FALSE).segments
      OBVIOUS
    <2>2. OnlySpeaks(e, RetransmitOldest(e, FALSE), first, i)
      BY <1>6, RetransmitSpeaks
    <2>3. Speaks(e, x, p, first, i) /\ Only(e, x)
      BY <2>1, <2>2 DEF OnlySpeaks
    <2>4. Speaks(d, x, p, first, i) /\ Only(d, x)
      BY <1>4, <1>6, <2>3, CountedSpeaks
    <2>5. Speaks(c, x, p, first, i) /\ Only(c, x)
      BY <1>4, <2>4, CountedSpeaks
    <2>6. QED BY <2>1, <2>5 DEF OnlySpeaks
  <1>8. PICK z : z = [c EXCEPT !.duplicate_acks = 0]
    OBVIOUS
  <1>9. OnlySpeaks(c, Open(z, <<>>), first, i)
    <2>1. z \in Conn /\ c.reno \in Controller /\ 0 \in Nat
      BY <1>1, <1>8 DEF Conn
    <2>2. QED BY <1>2, <1>8, <2>1
  <1>10. CASE ~candidate \/ c.unacked = <<>>
    BY <1>8, <1>9, <1>10 DEF ApplyDuplicateAck
  <1>11. CASE ~(~candidate \/ c.unacked = <<>>) /\ c.duplicate_acks = 2
    BY <1>3, <1>5, <1>7, <1>11 DEF ApplyDuplicateAck
  <1>12. CASE ~(~candidate \/ c.unacked = <<>>) /\ c.duplicate_acks # 2
    BY <1>3, <1>4, <1>12 DEF ApplyDuplicateAck
  <1>13. QED BY <1>10, <1>11, <1>12

\* The receiving half and what was written stay.
Untouched(c, d) ==
  /\ SameReceive(c, d) /\ d.read_closed = c.read_closed /\ d.accepted = c.accepted
  /\ d.state = "SynSent" <=> c.state = "SynSent"

\* A step on an ACK: it speaks of the same stream and learns what the ACK says.
Answers(c, u, first, i, ack) ==
  /\ Speaks(c, u.conn, u.segments, first, i)
  /\ Untouched(c, u.conn) /\ Learns(c, u.conn, first, ack)

LEMMA OnlyAnswers ==
  ASSUME NEW c, NEW u, NEW first, NEW i, NEW ack, OnlySpeaks(c, u, first, i)
  PROVE  Answers(c, u, first, i, ack)
  BY DEF OnlySpeaks, Only, Answers, Untouched, Learns

LEMMA AnswersThen ==
  ASSUME NEW c \in Conn, NEW u \in Update, NEW v \in Update, NEW first \in SeqNumber,
         NEW i \in Nat, NEW ack, Tells(c, first, i),
         Answers(c, u, first, i, ack), OnlySpeaks(u.conn, v, first, i)
  PROVE  Answers(c, Then(u, v), first, i, ack)
  <1>1. /\ u.conn \in Conn /\ v.conn \in Conn
        /\ u.segments \in Seq(Segment) /\ v.segments \in Seq(Segment)
    BY UpdateFields
  <1>2. Then(u, v).conn = v.conn /\ Then(u, v).segments = u.segments \o v.segments
    BY DEF Then, Update
  <1>3. /\ Speaks(c, u.conn, u.segments, first, i) /\ Untouched(c, u.conn)
        /\ Learns(c, u.conn, first, ack)
        /\ Speaks(u.conn, v.conn, v.segments, first, i) /\ Only(u.conn, v.conn)
    BY DEF Answers, OnlySpeaks
  <1>4. Heard(u.conn) \subseteq Heard(c) \cup Heard(v.conn)
    <2>1. Heard(v.conn) = Heard(u.conn)
      BY <1>3, OnlyHeard
    <2>2. QED BY <2>1
  <1>5. Speaks(c, v.conn, u.segments \o v.segments, first, i)
    BY <1>1, <1>3, <1>4, SpeaksOn
  <1>6. Untouched(c, v.conn) /\ Learns(c, v.conn, first, ack)
    BY <1>3 DEF Untouched, Only, SameReceive, Learns
  <1>7. QED BY <1>2, <1>5, <1>6 DEF Answers

\* apply_ack.
LEMMA ApplyAckAnswers ==
  ASSUME NEW c \in SoundConn, NEW first \in SeqNumber, NEW i \in Nat, Tells(c, first, i),
         NEW ack \in SeqNumber, NEW candidate \in BOOLEAN
  PROVE  Answers(c, ApplyAck(c, ack, candidate), first, i, ack)
  <1>1. CASE ~InSendInterval(c, ack)
    BY <1>1, SilentSpeaks, SoundFields, OnlyAnswers DEF ApplyAck
  <1>2. CASE InSendInterval(c, ack) /\ ack = c.send_una
    BY <1>2, DuplicateSpeaks, OnlyAnswers DEF ApplyAck
  <1>3. CASE InSendInterval(c, ack) /\ ack # c.send_una
    <2>1. PICK d : d = ApplyNewAck(c, ack)
      OBVIOUS
    <2>2. ApplyAck(c, ack, candidate) = Open(d, <<>>)
      BY <1>3, <2>1 DEF ApplyAck
    <2>3. Open(d, <<>>).conn = d /\ Open(d, <<>>).segments = <<>>
      BY DEF Open
    <2>4. /\ Speaks(c, d, <<>>, first, i) /\ Learns(c, d, first, ack)
          /\ d.accepted = c.accepted /\ d.read_closed = c.read_closed
      BY <1>3, <2>1, ApplyNewAckSpeaks
    <2>5. SameReceive(c, d)
      BY <2>2, <2>3, ApplyAckReceive
    <2>6. d.state = c.state
      BY <1>3, <2>1, ApplyNewAckSound
    <2>7. QED BY <2>2, <2>3, <2>4, <2>5, <2>6 DEF Answers, Untouched
  <1>4. QED BY <1>1, <1>2, <1>3

\* Nothing written, nothing acknowledged.
LEMMA NothingAcked ==
  ASSUME NEW c \in SoundConn, c.accepted = 0
  PROVE  c.acked = 0
  <1>1. c \in Conn /\ c.accepted = c.acked + PayloadBytes(c.unacked) + Len(c.send_queue)
    BY SoundFields DEF Sender
  <1>2. c.acked \in Nat /\ PayloadBytes(c.unacked) \in Nat /\ Len(c.send_queue) \in Nat
    <2>1. c.unacked \in Seq(TrackedSegment) /\ c.send_queue \in Seq(Byte) /\ c.acked \in Nat
      BY <1>1 DEF Conn
    <2>2. QED BY <2>1, PayloadCells
  <1>3. \A x, y, z \in Nat : 0 = x + y + z => x = 0
    OBVIOUS
  <1>4. QED BY <1>1, <1>2, <1>3

\* The ACK that ends the handshake covers the SYN.
LEMMA OpeningAck ==
  ASSUME NEW c \in SoundConn, NEW first \in SeqNumber, NEW i \in Nat, Tells(c, first, i),
         c.state \in Opening, NEW d, d = ApplyAck(c, c.send_nxt, FALSE).conn
  PROVE  /\ d \in SoundConn /\ d.state = c.state /\ Speaks(c, d, <<>>, first, i)
         /\ Untouched(c, d) /\ d.acked = c.acked /\ d.send_una # first
  <1>1. c \in Conn /\ c.send_una \in SeqNumber /\ c.send_nxt \in SeqNumber
        /\ Distance(c.send_una, c.send_nxt) <= MaxWindow + 1
    BY SoundFields DEF Sender, FlightBounded, Conn
  <1>2. d \in SoundConn /\ d.state = c.state
    BY <1>1, ApplyAckSound, SoundFields
  <1>3. InSendInterval(c, c.send_nxt)
    <2>1. ~Before(c.send_nxt, c.send_una)
      <3>1. Distance(c.send_una, c.send_nxt) \in Nat
        BY <1>1, DistanceType
      <3>2. 2 * Distance(c.send_una, c.send_nxt) < Modulus
        BY <1>1, <3>1, ConfigAssumption, ModulusAssumption
      <3>3. QED BY <3>1, <3>2, ModulusAssumption DEF Before
    <2>2. ~Before(c.send_nxt, c.send_nxt)
      BY <1>1, BeforeOrAfter
    <2>3. QED BY <2>1, <2>2 DEF InSendInterval, InClosedInterval, After
  <1>4. c.send_nxt # first /\ c.accepted = 0 /\ c.acked = 0
    <2>1. Distance(first, c.send_nxt) >= 1 /\ c.accepted = 0
      BY DEF Tells, Numbered, Confirmed
    <2>2. Distance(first, first) = 0
      BY BeforeOrAfter
    <2>3. c.send_nxt # first
      BY <2>1, <2>2
    <2>4. c.accepted = 0
      BY <2>1
    <2>5. c.acked = 0
      BY <2>4, NothingAcked, Zenon
    <2>6. QED BY <2>3, <2>4, <2>5
  <1>5. CASE c.send_nxt = c.send_una
    <2>2. d = [c EXCEPT !.duplicate_acks = 0]
      BY <1>3, <1>5 DEF ApplyAck, ApplyDuplicateAck, Open
    <2>3. d.send_una = c.send_una
      BY <1>1, <2>2 DEF Conn
    <2>4. SameTelling(c, d) /\ Only(c, d)
      <3>1. /\ d.unacked = c.unacked /\ d.send_una = c.send_una
            /\ d.send_nxt = c.send_nxt /\ d.send_queue = c.send_queue
            /\ d.accepted = c.accepted /\ d.acked = c.acked
            /\ d.recv_nxt = c.recv_nxt /\ d.recv_queue = c.recv_queue
            /\ d.reassembly = c.reassembly /\ d.close_requested = c.close_requested
            /\ d.state = c.state /\ d.read_closed = c.read_closed
        BY <1>1, <2>2 DEF Conn
      <3>2. QED BY <3>1, QuietChange
    <2>5. Speaks(c, d, <<>>, first, i) /\ Only(c, d)
      <3>1. d \in Conn
        BY <1>2, SoundFields
      <3>2. OnlySpeaks(c, Open(d, <<>>), first, i)
        BY <1>1, <2>4, <3>1, QuietStep
      <3>3. Open(d, <<>>).conn = d /\ Open(d, <<>>).segments = <<>>
        BY DEF Open
      <3>4. Speaks(c, d, <<>>, first, i)
        BY <3>2, <3>3 DEF OnlySpeaks
      <3>5. QED BY <2>4, <3>4
    <2>6. QED BY <1>2, <1>4, <1>5, <2>3, <2>5 DEF Only, Untouched
  <1>6. CASE c.send_nxt # c.send_una
    <2>1. d = ApplyNewAck(c, c.send_nxt)
      BY <1>3, <1>6 DEF ApplyAck, Open
    <2>2. /\ Speaks(c, d, <<>>, first, i) /\ d.accepted = c.accepted /\ d.send_una # first
          /\ d.read_closed = c.read_closed
      <3>1. PICK ack \in SeqNumber : ack = c.send_nxt
        BY <1>1
      <3>2. InSendInterval(c, ack) /\ ack # c.send_una
        BY <1>3, <1>6, <3>1
      <3>3. PICK e : e = ApplyNewAck(c, ack)
        OBVIOUS
      <3>4. /\ Speaks(c, e, <<>>, first, i) /\ e.accepted = c.accepted /\ e.send_una # first
            /\ e.read_closed = c.read_closed
        <4>1. ASSUME NEW g, g = e
              PROVE  /\ Speaks(c, g, <<>>, first, i) /\ g.accepted = c.accepted
                     /\ g.send_una # first /\ g.read_closed = c.read_closed
          <5>1. g = ApplyNewAck(c, ack)
            BY <3>3, <4>1
          <5>2. QED BY <3>2, <5>1, ApplyNewAckSpeaks
        <4>2. QED BY <4>1
      <3>5. QED BY <2>1, <3>1, <3>3, <3>4
    <2>3. SameReceive(c, d)
      BY <1>1, ApplyAckReceive
    <2>4. d.acked = 0
      BY <1>2, <1>4, <2>2, NothingAcked
    <2>5. QED BY <1>2, <1>4, <2>2, <2>3, <2>4 DEF Untouched
  <1>7. QED BY <1>5, <1>6

\* With its SYN acknowledged, a connection may leave the handshake.
LEMMA EstablishedTells ==
  ASSUME NEW c \in Conn, NEW e \in Conn, NEW first \in SeqNumber, NEW i \in Nat,
         Tells(c, first, i), c.state \in Opening, c.send_una # first,
         e.state = "Established", e.send_una = c.send_una, e.send_nxt = c.send_nxt,
         e.unacked = c.unacked, e.send_queue = c.send_queue, e.accepted = c.accepted,
         e.acked = c.acked, e.close_requested = c.close_requested
  PROVE  Tells(e, first, i) /\ ViewOf(e, first, i) = ViewOf(c, first, i)
  <1>1. ~FinSent(c) /\ ~FinSent(e) /\ e.state \notin Opening
        /\ e.state \notin {"FinWait2", "TimeWait"} /\ e.state # "SynSent"
    BY DEF FinSent, Opening
  <1>2. ViewOf(e, first, i) = ViewOf(c, first, i)
    BY <1>1 DEF ViewOf
  <1>3. Numbered(e, first) /\ QueuedNext(e, first, i) /\ KeptOwn(e, ViewOf(e, first, i))
    <2>1. Units(FinSent(e)) = Units(FinSent(c))
      BY <1>1 DEF Units
    <2>2. QED BY <1>1, <1>2, <2>1 DEF Tells, Numbered, QueuedNext, KeptOwn
  <1>4. Confirmed(e, first) /\ OnlySyn(e)
    BY <1>1 DEF Tells, Confirmed, OnlySyn
  <1>5. QED BY <1>2, <1>3, <1>4 DEF Tells

\* An ACK that covers the FIN covers everything (ack_covers_fin).
LEMMA FinIsLast ==
  ASSUME NEW c \in SoundConn, NEW first \in SeqNumber, NEW i \in Nat, Tells(c, first, i),
         NEW seg \in Segment, seg.ack # None, FinAcked(c, seg)
  PROVE  seg.ack = c.send_nxt
  <1>1. c \in Conn /\ c.unacked \in Seq(TrackedSegment) /\ seg.ack \in SeqNumber
        /\ c.send_nxt \in SeqNumber
    BY SoundFields DEF Segment, Conn
  <1>2. PICK k \in 1 .. Covered(c, seg.ack) : "FIN" \in c.unacked[k].flags
    BY DEF FinAcked, FinCovered
  <1>3. k \in 1 .. Len(c.unacked) /\ BeforeOrEqual(TrackedEnd(c.unacked[k]), seg.ack)
    <2>1. /\ Covered(c, seg.ack) \in 0 .. Len(c.unacked)
          /\ \A j \in 1 .. Covered(c, seg.ack) : BeforeOrEqual(TrackedEnd(c.unacked[j]), seg.ack)
      BY <1>1, CoveredType
    <2>2. Len(c.unacked) \in Nat
      BY <1>1
    <2>3. QED BY <1>2, <2>1, <2>2
  <1>4. PICK t \in TrackedSegment : t = c.unacked[k]
    BY <1>1, <1>3, ElementOfSeq
  <1>5. Numbered(c, first) /\ Spoken(t, ViewOf(c, first, i))
    BY <1>3, <1>4 DEF Tells, KeptOwn
  <1>6. "FIN" \in t.flags /\ "SYN" \notin t.flags
    BY <1>2, <1>4, <1>5 DEF Spoken
  <1>7. PICK b \in BOOLEAN : b <=> "FIN" \in t.flags
    OBVIOUS
  <1>8. Told(t.seq, t.data, "FIN" \in t.flags, ViewOf(c, first, i))
    BY <1>5, <1>6 DEF Spoken
  <1>9. PICK n \in Nat : n = Len(t.data)
    BY DEF TrackedSegment
  <1>10. PICK e \in Nat : e = Distance(first, c.send_nxt)
    BY <1>1, DistanceType
  <1>11. PICK o \in 1 .. e : /\ t.seq = Plus(first, o)
                             /\ o + n + 1 <= e /\ o + n = 1 + c.accepted
    <2>1. ViewOf(c, first, i).first = first /\ ViewOf(c, first, i).end = e
          /\ ViewOf(c, first, i).total = c.accepted
      BY <1>10 DEF ViewOf
    <2>2. PICK o \in 1 .. e :
             t.seq = Plus(first, o) /\ StandsAt(o, t.data, "FIN" \in t.flags, ViewOf(c, first, i))
      BY <1>8, <2>1 DEF Told
    <2>3. Units("FIN" \in t.flags) = 1
      BY <1>6 DEF Units
    <2>4. o + Len(t.data) + Units("FIN" \in t.flags) <= e /\ o + Len(t.data) = 1 + c.accepted
      BY <1>6, <2>1, <2>2 DEF StandsAt
    <2>5. QED BY <1>9, <2>2, <2>3, <2>4
  <1>12. e <= 2 + c.accepted /\ c.accepted \in Nat /\ e < Modulus /\ c.send_nxt = Plus(first, e)
    BY <1>1, <1>5, <1>10, NumberedFacts
  <1>13. o + (n + 1) = e
    BY <1>11, <1>12
  <1>14. TrackedEnd(t) = Plus(t.seq, n + 1)
    <2>1. Units("FIN" \in t.flags) = 1 /\ Units("SYN" \in t.flags) = 0
      BY <1>6 DEF Units
    <2>2. TrackedEnd(t) = Plus(t.seq, n + 0 + 1)
      BY <1>9, <2>1 DEF TrackedEnd
    <2>3. n + 0 + 1 = n + 1
      OBVIOUS
    <2>4. QED BY <2>2, <2>3
  <1>15. TrackedEnd(t) = c.send_nxt
    <2>1. o \in Nat /\ n + 1 \in Nat /\ o + (n + 1) < Modulus
      BY <1>12, <1>13
    <2>2. Plus(Plus(first, o), n + 1) = Plus(first, o + (n + 1))
      BY <2>1, PlusPlus
    <2>3. QED BY <1>11, <1>12, <1>13, <1>14, <2>2
  <1>16. ~Before(c.send_nxt, seg.ack)
    BY DEF FinAcked, InSendInterval, InClosedInterval, After
  <1>17. QED BY <1>3, <1>4, <1>15, <1>16 DEF BeforeOrEqual

\* Once the FIN is noted and the window taken over, the stream is the same.
LEMMA NotedQuiet ==
  ASSUME NEW d \in SoundConn, NEW first \in SeqNumber, NEW i \in Nat, Tells(d, first, i),
         d.state \notin Opening, NEW fin \in BOOLEAN, fin => d.send_una = d.send_nxt,
         NEW seg \in Segment, NEW e, e = NoteWindow(NoteFinAcked(d, fin), seg)
  PROVE  /\ e \in SoundConn /\ SameTelling(d, e) /\ Only(d, e) /\ Tells(e, first, i)
  <1>1. PICK n : n = NoteFinAcked(d, fin)
    OBVIOUS
  <1>2. d \in Conn /\ n \in SoundConn /\ n \in Conn
    BY <1>1, SoundFields, NoteFinAckedSound
  <1>3. e \in SoundConn /\ e \in Conn
    BY <1>1, <1>2, NoteWindowSound, SoundFields
  <1>4. /\ n.send_una = d.send_una /\ n.send_nxt = d.send_nxt /\ n.unacked = d.unacked
        /\ n.send_queue = d.send_queue /\ n.accepted = d.accepted /\ n.acked = d.acked
        /\ n.close_requested = d.close_requested
        /\ n.recv_nxt = d.recv_nxt /\ n.recv_queue = d.recv_queue
        /\ n.reassembly = d.reassembly /\ n.read_closed = d.read_closed
    BY <1>1, <1>2 DEF NoteFinAcked, Conn
  <1>5. n.state = IF fin THEN AfterFinAcked(d.state) ELSE d.state
    BY <1>1, <1>2 DEF NoteFinAcked, Conn
  <1>6. /\ e.send_una = n.send_una /\ e.send_nxt = n.send_nxt /\ e.unacked = n.unacked
        /\ e.send_queue = n.send_queue /\ e.accepted = n.accepted /\ e.acked = n.acked
        /\ e.close_requested = n.close_requested /\ e.state = n.state
        /\ e.recv_nxt = n.recv_nxt /\ e.recv_queue = n.recv_queue
        /\ e.reassembly = n.reassembly /\ e.read_closed = n.read_closed
    BY <1>1, <1>2 DEF NoteWindow, UpdateRemoteWindow, Conn
  <1>7. d.state \in {"FinWait2", "TimeWait"} => d.send_una = d.send_nxt
    BY DEF Tells, Confirmed
  <1>8. Alike(e.state, d.state) /\ (e.state \in {"FinWait2", "TimeWait"} => d.send_una = d.send_nxt)
    <2>1. CASE fin
      <3>1. e.state = AfterFinAcked(d.state)
        BY <1>5, <1>6, <2>1
      <3>2. QED BY <2>1, <3>1 DEF AfterFinAcked, Alike, Opening
    <2>2. CASE ~fin
      BY <1>5, <1>6, <1>7, <2>2 DEF Alike
    <2>3. QED BY <2>1, <2>2
  <1>9. SameTelling(d, e)
    BY <1>4, <1>6, <1>8, RepeatsItself DEF SameTelling
  <1>10. Only(d, e)
    BY <1>4, <1>6, <1>8 DEF Only, SameReceive, Alike
  <1>11. Tells(e, first, i)
    BY <1>9, SameTellingTells
  <1>12. QED BY <1>3, <1>9, <1>10, <1>11

\* The acknowledgement half of on_segment.
LEMMA OnAckAnswers ==
  ASSUME NEW c \in SoundConn, NEW first \in SeqNumber, NEW i \in Nat, Tells(c, first, i),
         c.state \notin Opening, NEW seg \in Segment, seg.ack # None
  PROVE  Answers(c, OnAck(c, seg), first, i, seg.ack)
  <1>1. seg.ack \in SeqNumber /\ c \in Conn
    BY SoundFields DEF Segment
  <1>2. PICK candidate \in BOOLEAN :
          candidate = IsDuplicateAckCandidate(seg, c.send_una, c.remote_window)
    BY DEF IsDuplicateAckCandidate
  <1>3. PICK u : u = ApplyAck(c, seg.ack, candidate)
    OBVIOUS
  <1>4. /\ u \in SoundUpdate /\ u.conn.state = c.state /\ u.conn \in SoundConn
        /\ u \in Update /\ u.conn \in Conn
    <2>1. u \in SoundUpdate /\ u.conn.state = c.state
      BY <1>1, <1>3, ApplyAckSound
    <2>2. QED BY <2>1, SoundFields
  <1>5. Answers(c, u, first, i, seg.ack)
    BY <1>1, <1>3, ApplyAckAnswers
  <1>6. PICK d : d = u.conn
    OBVIOUS
  <1>7. Tells(d, first, i)
    BY <1>5, <1>6 DEF Answers, Speaks
  <1>8. PICK fin \in BOOLEAN : fin = FinAcked(c, seg)
    BY DEF FinAcked
  <1>9. fin => d.send_una = d.send_nxt
    <2>1. SUFFICES ASSUME fin PROVE d.send_una = d.send_nxt
      OBVIOUS
    <2>2. FinAcked(c, seg)
      BY <1>8, <2>1
    <2>3. seg.ack = c.send_nxt
      BY <2>2, FinIsLast
    <2>4. InSendInterval(c, seg.ack) /\ seg.ack # c.send_una
      BY <2>2 DEF FinAcked
    <2>5. d = ApplyNewAck(c, seg.ack)
      BY <1>3, <1>6, <2>4 DEF ApplyAck, Open
    <2>6. d.send_una = seg.ack /\ d.send_nxt = c.send_nxt
      BY <1>1, <2>4, <2>5, ApplyNewAckSpeaks
    <2>7. QED BY <2>3, <2>6
  <1>10. PICK e : e = NoteWindow(NoteFinAcked(d, fin), seg)
    OBVIOUS
  <1>11. /\ e \in SoundConn /\ SameTelling(d, e) /\ Only(d, e) /\ Tells(e, first, i)
    <2>1. d \in SoundConn /\ d.state \notin Opening
      BY <1>4, <1>6
    <2>2. QED BY <1>7, <1>9, <1>10, <2>1, NotedQuiet
  <1>12. d \in Conn /\ e \in Conn
    BY <1>4, <1>6, <1>11, SoundFields
  <1>13. OnlySpeaks(d, Open(e, <<>>), first, i)
    BY <1>7, <1>11, <1>12, QuietStep
  <1>14. OnlySpeaks(d, RepairTimedOutFlight(e), first, i)
    <2>1. PICK x, p : x = RepairTimedOutFlight(e).conn /\ p = RepairTimedOutFlight(e).segments
      OBVIOUS
    <2>2. OnlySpeaks(e, RepairTimedOutFlight(e), first, i)
      BY <1>11, RepairSpeaks
    <2>3. Speaks(e, x, p, first, i) /\ Only(e, x)
      BY <2>1, <2>2 DEF OnlySpeaks
    <2>4. Speaks(d, x, p, first, i) /\ Only(d, x)
      BY <1>7, <1>11, <2>3, CountedSpeaks
    <2>5. QED BY <2>1, <2>4 DEF OnlySpeaks
  <1>15. Answers(c, AndRepair(u, c, seg), first, i, seg.ack)
    <2>1. ASSUME NEW v, v \in Update, OnlySpeaks(d, v, first, i)
          PROVE  Answers(c, Then(u, v), first, i, seg.ack)
      BY <1>1, <1>4, <1>5, <1>6, <2>1, AnswersThen
    <2>2. Open(e, <<>>) \in Update /\ RepairTimedOutFlight(e) \in Update
      BY <1>12, NoSegments, OpenType, RepairTimedOutFlightType
    <2>3. /\ Answers(c, Then(u, Open(e, <<>>)), first, i, seg.ack)
          /\ Answers(c, Then(u, RepairTimedOutFlight(e)), first, i, seg.ack)
      BY <1>13, <1>14, <2>1, <2>2
    <2>4. AndRepair(u, c, seg) = Then(u, IF After(u.conn.send_una, c.send_una)
                                         THEN RepairTimedOutFlight(e) ELSE Open(e, <<>>))
      BY <1>6, <1>8, <1>10 DEF AndRepair
    <2>5. QED BY <2>3, <2>4
  <1>16. Answers(c, Closed(u.conn, u.segments), first, i, seg.ack)
    <2>1. Closed(u.conn, u.segments).conn = u.conn /\ Closed(u.conn, u.segments).segments = u.segments
      BY DEF Closed
    <2>2. QED BY <1>5, <2>1 DEF Answers
  <1>17. Answers(c, OnApplied(c, seg, u), first, i, seg.ack)
    BY <1>15, <1>16 DEF OnApplied
  <1>18. OnAck(c, seg) = OnApplied(c, seg, u)
    BY <1>2, <1>3 DEF OnAck
  <1>19. QED BY <1>17, <1>18

-----------------------------------------------------------------------------
(* What a connection hears                                                 *)

\* fit_window keeps a part of what it is given.
LEMMA FittedPart ==
  ASSUME NEW c \in Conn, NEW seq, NEW data \in Seq(Byte), NEW fin \in BOOLEAN,
         NEW m \in 0 .. Len(data), NEW start \in SeqNumber, start = Plus(seq, m), NEW end,
         NEW rest \in Seq(Byte), Len(rest) = Len(data) - m,
         \A k \in 1 .. Len(rest) : rest[k] = data[m + k],
         NEW r, r = FitWindow(c, start, end, rest, fin)
  PROVE  r \in ReassemblySegment /\ Part(r, seq, data, fin)
  <1>1. r \in ReassemblySegment
    BY FitWindowType
  <1>2. PICK room : room = SaturatingSub(AvailableWindow(c), Distance(c.recv_nxt, start))
    OBVIOUS
  <1>3. room \in Nat
    <2>1. AvailableWindow(c) \in Nat /\ Distance(c.recv_nxt, start) \in Nat
      BY AvailableWindowType, DistanceType DEF Conn
    <2>2. QED BY <1>2, <2>1, SaturatingSubType
  <1>4. PICK n : n = Smaller(Len(rest), room)
    OBVIOUS
  <1>5. Len(rest) \in Nat /\ Len(data) \in Nat /\ m \in Nat
    OBVIOUS
  <1>6. n \in 0 .. Len(rest) /\ (Len(rest) <= room => n = Len(rest))
    BY <1>3, <1>4, <1>5 DEF Smaller
  <1>7. /\ r.seq = start /\ r.data = SubSeq(rest, 1, n)
        /\ r.fin => fin /\ Len(rest) <= room
    BY <1>2, <1>4 DEF FitWindow
  <1>8. Len(r.data) = n /\ \A k \in 1 .. n : r.data[k] = rest[k]
    BY <1>6, <1>7
  <1>9. m + n <= Len(data) /\ (n = Len(rest) => m + n = Len(data))
    BY <1>5, <1>6
  <1>10. \A k \in 1 .. n : r.data[k] = data[m + k]
    BY <1>6, <1>8
  <1>11. PartFrom(m, r, seq, data, fin)
    BY <1>6, <1>7, <1>8, <1>9, <1>10 DEF PartFrom
  <1>12. QED BY <1>1, <1>11 DEF Part

\* What insert_received adds to the table is part of the segment.
LEMMA InsertedPart ==
  ASSUME NEW c \in Conn, NEW seq \in SeqNumber, NEW data \in Seq(Byte), Len(data) < Modulus,
         NEW fin \in BOOLEAN, NEW x, x = InsertReceived(c, seq, data, fin)
  PROVE  \/ x = c
         \/ \E r \in ReassemblySegment : /\ x = [c EXCEPT !.reassembly = @ \cup {r}]
                                         /\ Part(r, seq, data, fin)
  <1>1. c.recv_nxt \in SeqNumber
    BY DEF Conn
  <1>2. PICK e : e = Plus(seq, Len(data))
    OBVIOUS
  <1>3. ASSUME NEW r \in ReassemblySegment, x = FileChunk(c, r),
               Part(r, seq, data, fin) \/ (r.data = <<>> /\ ~r.fin)
        PROVE  \/ x = c
               \/ \E s \in ReassemblySegment : /\ x = [c EXCEPT !.reassembly = @ \cup {s}]
                                               /\ Part(s, seq, data, fin)
    <2>1. x = c \/ (x = [c EXCEPT !.reassembly = @ \cup {r}] /\ ~(r.data = <<>> /\ ~r.fin))
      BY <1>3 DEF FileChunk
    <2>2. QED BY <1>3, <2>1
  <1>4. CASE Before(seq, c.recv_nxt)
    <2>1. PICK m \in 0 .. Modulus - 1 : m = Distance(seq, c.recv_nxt) /\ c.recv_nxt = Plus(seq, m)
      BY <1>1, PlusOfDistance
    <2>2. PICK rest : rest = SubSeq(data, m + 1, Len(data))
      OBVIOUS
    <2>3. PICK r : r = FitWindow(c, c.recv_nxt, e, rest, fin)
      OBVIOUS
    <2>4. x = FileChunk(c, r)
      BY <1>2, <1>4, <2>1, <2>2, <2>3 DEF InsertReceived
    <2>5. m \in Nat /\ Len(data) \in Nat
      BY <2>1, ModulusAssumption
    <2>6. rest \in Seq(Byte)
      <3>1. m + 1 \in Nat \ {0}
        BY <2>5
      <3>2. QED BY <2>2, <2>5, <3>1, SubSeqType
    <2>7. r \in ReassemblySegment
      BY <1>1, <2>3, <2>6, FitWindowType
    <2>8. CASE m <= Len(data)
      <3>1. m \in 0 .. Len(data)
        BY <2>5, <2>8
      <3>2. Len(rest) = Len(data) - m /\ \A k \in 1 .. Len(rest) : rest[k] = data[m + k]
        BY <2>2, <2>5, <3>1
      <3>3. Part(r, seq, data, fin)
        BY <1>1, <2>1, <2>3, <2>6, <3>1, <3>2, FittedPart
      <3>4. QED BY <1>3, <2>4, <2>7, <3>3
    <2>9. CASE m > Len(data)
      <3>1. rest = <<>> /\ Len(rest) = 0
        BY <2>2, <2>5, <2>9
      <3>2. r.data = <<>>
        <4>1. PICK n : n = Smaller(Len(rest), SaturatingSub(AvailableWindow(c),
                                                            Distance(c.recv_nxt, c.recv_nxt)))
          OBVIOUS
        <4>2. r.data = SubSeq(rest, 1, n)
          BY <2>3, <4>1 DEF FitWindow
        <4>3. n \in Nat /\ n <= 0
          <5>1. SaturatingSub(AvailableWindow(c), Distance(c.recv_nxt, c.recv_nxt)) \in Nat
            BY <1>1, AvailableWindowType, DistanceType, SaturatingSubType
          <5>2. QED BY <3>1, <4>1, <5>1, SmallerType
        <4>4. SubSeq(<<>>, 1, 0) = <<>>
          OBVIOUS
        <4>5. n = 0
          BY <4>3
        <4>6. QED BY <3>1, <4>2, <4>4, <4>5
      <3>3. ~r.fin
        <4>1. SUFFICES ASSUME r.fin PROVE FALSE
          OBVIOUS
        <4>2. e = Plus(c.recv_nxt, Len(rest))
          BY <2>3, <4>1 DEF FitWindow
        <4>3. Plus(c.recv_nxt, 0) = c.recv_nxt
          BY <1>1, PlusZero
        <4>4. Plus(seq, Len(data)) = Plus(seq, m)
          BY <1>2, <2>1, <3>1, <4>2, <4>3
        <4>5. Distance(seq, Plus(seq, Len(data))) = Len(data) /\ Distance(seq, Plus(seq, m)) = m
          BY <2>1, <2>5, DistanceOfPlus
        <4>6. QED BY <2>5, <2>9, <4>4, <4>5
      <3>4. QED BY <1>3, <2>4, <2>7, <3>2, <3>3
    <2>10. QED BY <2>5, <2>8, <2>9
  <1>5. CASE ~Before(seq, c.recv_nxt)
    <2>1. x = c \/ x = FileChunk(c, FitWindow(c, seq, e, data, fin))
      BY <1>2, <1>5 DEF InsertReceived
    <2>2. PICK r : r = FitWindow(c, seq, e, data, fin)
      OBVIOUS
    <2>3. r \in ReassemblySegment
      BY <2>2, FitWindowType
    <2>4. Part(r, seq, data, fin)
      <3>1. seq = Plus(seq, 0)
        BY PlusZero
      <3>2. 0 \in 0 .. Len(data) /\ Len(data) = Len(data) - 0
            /\ \A k \in 1 .. Len(data) : data[k] = data[0 + k]
        OBVIOUS
      <3>3. QED BY <2>2, <3>1, <3>2, FittedPart
    <2>5. QED BY <1>3, <2>1, <2>2, <2>3, <2>4
  <1>6. QED BY <1>4, <1>5

\* c has taken in "got" bytes of the stream d, and its FIN if it has read to the
\* end; what it holds ahead of a hole is the stream's too.
Hears(c, d, got) ==
  /\ c.state # "SynSent"
  /\ c.recv_nxt = Plus(d.first, 1 + got + Units(c.read_closed))
  /\ got <= d.total
  /\ 1 + got + Units(c.read_closed) <= d.end
  /\ c.read_closed => got = d.total /\ d.over
  /\ \A r \in c.reassembly : Told(r.seq, r.data, r.fin, d)

\* Two streams whose sequence numbers no window can hold together.
Apart(d, e) ==
  /\ Distance(d.first, e.first) >= d.total + 2 + ReceiveBuffer
  /\ Distance(e.first, d.first) >= e.total + 2 + ReceiveBuffer

\* Places up to the next stream's first are none of its own.
LEMMA ApartPlaces ==
  ASSUME NEW first \in SeqNumber, NEW other \in SeqNumber, first # other,
         NEW n \in Nat, NEW m \in Nat, 1 <= n, n <= Distance(first, other),
         1 <= m, m < Distance(other, first)
  PROVE  Plus(first, n) # Plus(other, m)
  <1>1. PICK a \in 0 .. Modulus - 1 : a = Distance(first, other) /\ Plus(first, a) = other
    BY PlusOfDistance
  <1>2. PICK b \in 0 .. Modulus - 1 : b = Distance(other, first)
    BY PlusOfDistance
  <1>3. a + b = Modulus
    BY <1>1, <1>2, BeforeOrAfter
  <1>4. Modulus \in Nat /\ a \in Nat /\ b \in Nat
    BY ModulusAssumption
  <1>5. n < Modulus /\ a + m < Modulus /\ a + m \in Nat /\ n # a + m
    BY <1>1, <1>2, <1>3, <1>4
  <1>6. Plus(other, m) = Plus(first, a + m)
    BY <1>1, <1>4, <1>5, PlusPlus
  <1>7. Distance(first, Plus(first, n)) = n /\ Distance(first, Plus(first, a + m)) = a + m
    BY <1>5, DistanceOfPlus
  <1>8. QED BY <1>5, <1>6, <1>7

\* A chunk of another stream never fits the window.
LEMMA ForeignChunk ==
  ASSUME NEW x \in SoundConn, NEW d \in Views, NEW got \in Nat,
         x.recv_nxt = Plus(d.first, 1 + got + Units(x.read_closed)),
         1 + got + Units(x.read_closed) <= d.end,
         NEW r \in x.reassembly, NEW f \in Views, Apart(d, f), Told(r.seq, r.data, r.fin, f)
  PROVE  FALSE
  <1>1. PICK u : u = Units(x.read_closed)
    OBVIOUS
  <1>2. u \in Nat
    BY <1>1 DEF Units
  <1>3. /\ d.first \in SeqNumber /\ d.total \in Nat /\ d.end \in Nat /\ d.end <= 2 + d.total
        /\ d.total + 2 + ReceiveBuffer < Modulus /\ ReceiveBuffer \in Nat /\ Modulus \in Nat
        /\ f.first \in SeqNumber /\ f.total \in Nat /\ f.end \in Nat /\ f.end <= 2 + f.total
    BY ModulusAssumption, ConfigAssumption DEF Views
  <1>4. PICK off : off = Offset(x, r)
    OBVIOUS
  <1>5. off \in Nat /\ off <= ReceiveBuffer /\ r.seq = Plus(x.recv_nxt, off)
    <2>1. /\ Offset(x, r) \in Nat /\ Len(r.data) \in Nat /\ Reach(x, r) <= ReceiveBuffer
          /\ Reach(x, r) = Offset(x, r) + Len(r.data) /\ r.seq = Place(x, Offset(x, r))
      BY ChunkPlace
    <2>2. QED BY <1>3, <1>4, <2>1 DEF Place
  <1>6. PICK n : n = (1 + got + u) + off
    OBVIOUS
  <1>7. n \in Nat /\ 1 <= n /\ n <= d.total + 2 + ReceiveBuffer /\ 1 + got + u \in Nat
    BY <1>1, <1>2, <1>3, <1>5, <1>6
  <1>8. r.seq = Plus(d.first, n)
    BY <1>1, <1>3, <1>5, <1>6, <1>7, PlusPlus
  <1>9. PICK m \in 1 .. f.end : r.seq = Plus(f.first, m)
    BY DEF Told
  <1>10. /\ Distance(d.first, f.first) >= d.total + 2 + ReceiveBuffer
         /\ Distance(f.first, d.first) >= f.total + 2 + ReceiveBuffer
         /\ ReceiveBuffer > 0
         /\ Distance(d.first, f.first) \in Nat /\ Distance(f.first, d.first) \in Nat
    BY <1>3, DistanceType, ConfigAssumption DEF Apart
  <1>11. d.first # f.first
    BY <1>3, <1>10, BeforeOrAfter
  <1>12. m \in Nat /\ 1 <= m /\ m < Distance(f.first, d.first) /\ n <= Distance(d.first, f.first)
    BY <1>3, <1>7, <1>9, <1>10
  <1>13. QED BY <1>3, <1>7, <1>8, <1>9, <1>11, <1>12, ApartPlaces

\* Filing a segment of the stream, or of one far from it.
LEMMA InsertedHears ==
  ASSUME NEW c \in SoundConn, NEW d \in Views, NEW got \in Nat, Hears(c, d, got),
         NEW seq \in SeqNumber, NEW data \in Seq(Byte), NEW fin \in BOOLEAN,
         NEW f \in Views, f = d \/ Apart(d, f), Told(seq, data, fin, f),
         NEW x, x = InsertReceived(c, seq, data, fin)
  PROVE  /\ x \in SoundConn /\ Hears(x, d, got)
         /\ x.recv_queue = c.recv_queue /\ x.state = c.state
  <1>1. c \in Conn /\ c.state # "SynSent"
    BY SoundFields DEF Hears
  <1>2. x \in SoundConn /\ x.state = c.state
    BY <1>1, InsertReceivedSound
  <1>3. Len(data) < Modulus
    <2>1. PICK o \in 1 .. f.end : StandsAt(o, data, fin, f)
      BY DEF Told
    <2>2. /\ f.end \in Nat /\ f.end < Modulus /\ Modulus \in Nat /\ Len(data) \in Nat
          /\ Units(fin) \in Nat /\ o \in Nat
      BY ModulusAssumption, ConfigAssumption DEF Views, Units
    <2>3. o + Len(data) + Units(fin) <= f.end
      BY <2>1 DEF StandsAt
    <2>4. QED BY <2>2, <2>3
  <1>5. CASE x = c
    BY <1>1, <1>2, <1>5
  <1>6. ASSUME NEW r \in ReassemblySegment, x = [c EXCEPT !.reassembly = @ \cup {r}],
               Part(r, seq, data, fin)
        PROVE  /\ Hears(x, d, got) /\ x.recv_queue = c.recv_queue
    <2>1. /\ x.recv_nxt = c.recv_nxt /\ x.read_closed = c.read_closed /\ x.state = c.state
          /\ x.recv_queue = c.recv_queue /\ x.reassembly = c.reassembly \cup {r}
      BY <1>1, <1>6 DEF Conn
    <2>2. r.data \in Seq(Byte) /\ r.fin \in BOOLEAN
      BY DEF ReassemblySegment
    <2>3. Told(r.seq, r.data, r.fin, f)
      BY <1>6, <2>2, ToldPart
    <2>4. Told(r.seq, r.data, r.fin, d)
      <3>1. CASE f = d
        BY <2>3, <3>1
      <3>2. CASE Apart(d, f)
        <4>1. /\ x.recv_nxt = Plus(d.first, 1 + got + Units(x.read_closed))
              /\ 1 + got + Units(x.read_closed) <= d.end /\ r \in x.reassembly
          BY <2>1 DEF Hears
        <4>2. QED BY <1>2, <2>3, <3>2, <4>1, ForeignChunk
      <3>3. QED BY <3>1, <3>2
    <2>5. QED BY <2>1, <2>4 DEF Hears
  <1>7. QED BY <1>1, <1>2, <1>3, <1>5, <1>6, InsertedPart

\* Where a chunk that is held stands in the stream.
LEMMA ChunkStands ==
  ASSUME NEW c \in SoundConn, NEW d \in Views, NEW got \in Nat, Hears(c, d, got),
         NEW r \in c.reassembly
  PROVE  /\ StandsAt(1 + got + Offset(c, r), r.data, r.fin, d)
         /\ ~c.read_closed
  <1>1. PICK u : u = Units(c.read_closed)
    OBVIOUS
  <1>2. u \in Nat /\ (c.read_closed => u = 1) /\ (~c.read_closed => u = 0)
    BY <1>1 DEF Units
  <1>3. /\ d.first \in SeqNumber /\ d.total \in Nat /\ d.end \in Nat /\ d.end <= 2 + d.total
        /\ d.total + 2 + ReceiveBuffer < Modulus /\ ReceiveBuffer \in Nat /\ Modulus \in Nat
    BY ModulusAssumption, ConfigAssumption DEF Views
  <1>4. PICK off : off = Offset(c, r)
    OBVIOUS
  <1>5. /\ off \in Nat /\ off <= ReceiveBuffer /\ r.seq = Plus(c.recv_nxt, off)
        /\ Len(r.data) \in Nat /\ r.fin \in BOOLEAN /\ r.data \in Seq(Byte)
    <2>1. /\ Offset(c, r) \in Nat /\ Len(r.data) \in Nat /\ Reach(c, r) <= ReceiveBuffer
          /\ Reach(c, r) = Offset(c, r) + Len(r.data) /\ r.seq = Place(c, Offset(c, r))
          /\ r \in ReassemblySegment /\ r.fin \in BOOLEAN
      BY ChunkPlace
    <2>2. r.data \in Seq(Byte)
      BY <2>1 DEF ReassemblySegment
    <2>3. QED BY <1>3, <1>4, <2>1, <2>2 DEF Place
  <1>6. /\ c.recv_nxt = Plus(d.first, 1 + got + u) /\ 1 + got + u <= d.end
        /\ c.read_closed => got = d.total
        /\ Told(r.seq, r.data, r.fin, d)
    BY <1>1 DEF Hears
  <1>7. PICK n : n = (1 + got + u) + off
    OBVIOUS
  <1>8. n \in Nat /\ n < Modulus /\ 1 + got + u \in Nat
    <2>1. PICK a \in Nat : a = 1 + got + u
      BY <1>2
    <2>2. PICK end \in Nat : end = d.end
      BY <1>3
    <2>3. PICK total \in Nat : total = d.total
      BY <1>3
    <2>4. a <= end /\ end <= 2 + total /\ total + 2 + ReceiveBuffer < Modulus
          /\ off \in Nat /\ off <= ReceiveBuffer /\ n = a + off /\ ReceiveBuffer \in Nat
          /\ Modulus \in Nat
      BY <1>3, <1>5, <1>6, <1>7, <2>1, <2>2, <2>3
    <2>5. n \in Nat /\ n < Modulus
      BY <2>4
    <2>6. QED BY <2>1, <2>5
  <1>9. r.seq = Plus(d.first, n)
    BY <1>3, <1>5, <1>6, <1>7, <1>8, PlusPlus
  <1>10. PICK m \in 1 .. d.end : r.seq = Plus(d.first, m) /\ StandsAt(m, r.data, r.fin, d)
    BY <1>6 DEF Told
  <1>11. m = n
    <2>1. m \in Nat /\ m < Modulus
      BY <1>3, <1>10
    <2>2. Distance(d.first, Plus(d.first, m)) = m /\ Distance(d.first, Plus(d.first, n)) = n
      BY <1>3, <1>8, <2>1, DistanceOfPlus
    <2>3. QED BY <1>9, <1>10, <2>2
  <1>12. ~c.read_closed
    <2>1. r.data # <<>> \/ r.fin
      BY SoundFields DEF Receiver, Filable
    <2>2. Len(r.data) # 0 \/ Units(r.fin) = 1
      BY <1>5, <2>1 DEF Units
    <2>3. m + Len(r.data) + Units(r.fin) <= d.end /\ Units(r.fin) \in Nat
      BY <1>10 DEF StandsAt, Units
    <2>4. SUFFICES ASSUME c.read_closed PROVE FALSE
      OBVIOUS
    <2>5. PICK total \in Nat : total = d.total
      BY <1>3
    <2>6. PICK len \in Nat : len = Len(r.data)
      BY <1>5
    <2>7. PICK w \in Nat : w = Units(r.fin)
      BY <2>3
    <2>8. PICK end \in Nat : end = d.end
      BY <1>3
    <2>9. u = 1 /\ got = total
      BY <1>2, <1>6, <2>4, <2>5
    <2>10. /\ end <= 2 + total /\ n + len + w <= end /\ n = 1 + got + u + off /\ off \in Nat
           /\ len # 0 \/ w = 1
      BY <1>3, <1>5, <1>7, <1>11, <2>2, <2>3, <2>5, <2>6, <2>7, <2>8
    <2>11. QED BY <2>9, <2>10
  <1>13. m = 1 + got + Offset(c, r)
    BY <1>2, <1>4, <1>5, <1>7, <1>11, <1>12
  <1>14. QED BY <1>10, <1>12, <1>13

\* A byte that lies ready is the stream's next.
LEMMA ByteHeard ==
  ASSUME NEW c \in SoundConn, NEW d \in Views, NEW got \in Nat, Hears(c, d, got),
         NEW o \in 0 .. MaxWindow, \E r \in c.reassembly : Holds(r, Place(c, o))
  PROVE  /\ ByteAt(c, o) = <<d.id, got + o + 1>> /\ ~c.read_closed
         /\ got + o + 1 <= d.total /\ got + o + 2 <= d.end
  <1>1. PICK r : r = CHOOSE x \in c.reassembly : Holds(x, Place(c, o))
    OBVIOUS
  <1>2. r \in c.reassembly /\ Holds(r, Place(c, o))
    BY <1>1
  <1>3. ByteAt(c, o) = r.data[Distance(r.seq, Place(c, o)) + 1]
    BY <1>1 DEF ByteAt
  <1>4. PICK off : off = Offset(c, r)
    OBVIOUS
  <1>5. PICK len : len = Len(r.data)
    OBVIOUS
  <1>6. /\ off \in Nat /\ len \in Nat /\ Reach(c, r) = off + len /\ r \in ReassemblySegment
        /\ r.fin \in BOOLEAN
    BY <1>2, <1>4, <1>5, ChunkPlace
  <1>7. off <= o /\ o < off + len /\ Distance(r.seq, Place(c, o)) = o - off
    BY <1>2, <1>4, <1>6, HoldsPlaces
  <1>8. StandsAt(1 + got + off, r.data, r.fin, d) /\ ~c.read_closed
    BY <1>2, <1>4, ChunkStands
  <1>9. /\ 1 + got + off + len + Units(r.fin) <= d.end /\ Units(r.fin) \in Nat
        /\ r.data # <<>> => 1 + got + off + len <= 1 + d.total
        /\ \A k \in 1 .. len : r.data[k] = <<d.id, 1 + got + off + k - 1>>
    BY <1>5, <1>8 DEF StandsAt, Units
  <1>10. o \in Nat /\ d.total \in Nat /\ d.end \in Nat
    BY ConfigAssumption DEF Views
  <1>11. o - off + 1 \in 1 .. len /\ r.data # <<>>
    BY <1>5, <1>6, <1>7, <1>10
  <1>12. r.data[o - off + 1] = <<d.id, 1 + got + off + (o - off + 1) - 1>>
    BY <1>9, <1>11
  <1>13. 1 + got + off + (o - off + 1) - 1 = got + o + 1
    BY <1>6, <1>10
  <1>14. got + o + 1 <= d.total /\ got + o + 2 <= d.end
    <2>1. PICK total \in Nat : total = d.total
      BY <1>10
    <2>2. PICK end \in Nat : end = d.end
      BY <1>10
    <2>3. PICK w \in Nat : w = Units(r.fin)
      BY <1>9
    <2>4. 1 + got + off + len + w <= end /\ 1 + got + off + len <= 1 + total
      BY <1>9, <1>11, <2>1, <2>2, <2>3
    <2>5. got + o + 1 <= total /\ got + o + 2 <= end
      BY <1>6, <1>7, <1>10, <2>4
    <2>6. QED BY <2>1, <2>2, <2>5
  <1>15. QED BY <1>3, <1>7, <1>8, <1>12, <1>13, <1>14

\* The FIN behind the run is the stream's.
LEMMA FinHeard ==
  ASSUME NEW c \in SoundConn, NEW d \in Views, NEW got \in Nat, Hears(c, d, got),
         NEW run \in 0 .. MaxWindow, FinAt(c, run)
  PROVE  /\ got + run = d.total /\ d.over /\ ~c.read_closed
         /\ got + run + 2 <= d.end
  <1>1. PICK r \in c.reassembly : r.fin /\ Plus(r.seq, Len(r.data)) = Place(c, run)
    BY DEF FinAt
  <1>2. PICK off : off = Offset(c, r)
    OBVIOUS
  <1>3. PICK len : len = Len(r.data)
    OBVIOUS
  <1>4. /\ off \in Nat /\ len \in Nat /\ off + len \in 0 .. MaxWindow
        /\ Plus(r.seq, len) = Place(c, off + len)
    BY <1>1, <1>2, <1>3, ChunkPlace
  <1>5. c.recv_nxt \in SeqNumber /\ run \in Nat /\ run < Modulus /\ off + len < Modulus
    <2>1. c.recv_nxt \in SeqNumber
      BY SoundFields DEF Conn
    <2>2. MaxWindow \in Nat /\ Modulus \in Nat /\ MaxWindow < Modulus
      BY ConfigAssumption, ModulusAssumption
    <2>3. QED BY <1>4, <2>1, <2>2
  <1>6. off + len = run
    <2>1. Plus(c.recv_nxt, off + len) = Plus(c.recv_nxt, run)
      BY <1>1, <1>3, <1>4 DEF Place
    <2>2. off + len \in Nat
      BY <1>4
    <2>3. Distance(c.recv_nxt, Plus(c.recv_nxt, off + len)) = off + len
          /\ Distance(c.recv_nxt, Plus(c.recv_nxt, run)) = run
      BY <1>5, <2>2, DistanceOfPlus
    <2>4. QED BY <2>1, <2>3
  <1>7. StandsAt(1 + got + off, r.data, r.fin, d) /\ ~c.read_closed
    BY <1>1, <1>2, ChunkStands
  <1>8. Units(r.fin) = 1
    BY <1>1 DEF Units
  <1>9. /\ 1 + got + off + len + 1 <= d.end /\ 1 + got + off + len = 1 + d.total /\ d.over
    BY <1>1, <1>3, <1>7, <1>8 DEF StandsAt
  <1>10. d.total \in Nat /\ d.end \in Nat
    BY DEF Views
  <1>11. QED BY <1>4, <1>5, <1>6, <1>7, <1>9, <1>10

\* e has taken in more of the stream d than c, and nothing else.
Gains(c, e, d, got) ==
  \E n \in Nat :
    /\ Hears(e, d, got + n)
    /\ Len(e.recv_queue) = Len(c.recv_queue) + n
    /\ \A k \in 1 .. n : e.recv_queue[Len(c.recv_queue) + k] = <<d.id, got + k>>

\* drain_reassembly takes in the next bytes of the stream, and its end when
\* nothing more is to come.
LEMMA DrainedHears ==
  ASSUME NEW c \in SoundConn, NEW d \in Views, NEW got \in Nat, Hears(c, d, got),
         NEW e, e = DrainReassembly(c)
  PROVE  Gains(c, e, d, got)
  <1>1. PICK run : run = Run(c)
    OBVIOUS
  <1>2. PICK fin \in BOOLEAN : fin = FinAt(c, run)
    BY DEF FinAt
  <1>3. PICK next : next = Place(c, run + Units(fin))
    OBVIOUS
  <1>4. c \in Conn /\ c.recv_nxt \in SeqNumber /\ c.recv_queue \in Seq(Byte)
        /\ c.read_closed \in BOOLEAN /\ c.state # "SynSent"
    BY SoundFields DEF Conn, Hears
  <1>5. PICK taken : taken = [i \in 1 .. run |-> ByteAt(c, i - 1)]
    OBVIOUS
  <1>6. /\ e.recv_queue = c.recv_queue \o taken
        /\ e.recv_nxt = next /\ e.reassembly = Kept(c, next)
        /\ e.read_closed = (c.read_closed \/ fin)
        /\ e.state = (IF fin THEN AfterRemoteFin(c.state) ELSE c.state)
    <2>1. e = TakeIn(c, run, fin, next)
      BY <1>1, <1>2, <1>3 DEF DrainReassembly, DrainRun, TakeRun
    <2>2. QED BY <1>4, <1>5, <2>1 DEF TakeIn, Conn, Kept
  <1>7. /\ run \in Nat /\ run \in 0 .. MaxWindow
        /\ \A o \in 0 .. run - 1 : \E r \in c.reassembly : Holds(r, Place(c, o))
    BY <1>1, <1>4, RunType, RunIsMaximal
  <1>8. ASSUME NEW o \in 0 .. run - 1
        PROVE  /\ ByteAt(c, o) = <<d.id, got + o + 1>> /\ ~c.read_closed
               /\ got + o + 1 <= d.total /\ got + o + 2 <= d.end
    <2>1. o \in 0 .. MaxWindow
      <3>1. MaxWindow \in Nat
        BY ConfigAssumption
      <3>2. QED BY <1>7, <3>1
    <2>2. QED BY <1>7, <1>8, <2>1, ByteHeard
  <1>9. Len(taken) = run /\ taken \in Seq(Byte)
        /\ \A k \in 1 .. run : taken[k] = <<d.id, got + k>>
    <2>1. \A i \in 1 .. run : ByteAt(c, i - 1) \in Byte
      BY <1>4, <1>7, ByteAtType
    <2>2. taken \in Seq(Byte) /\ Len(taken) = run
      BY <1>5, <1>7, <2>1
    <2>3. ASSUME NEW k \in 1 .. run PROVE taken[k] = <<d.id, got + k>>
      <3>1. k - 1 \in 0 .. run - 1 /\ got + (k - 1) + 1 = got + k
        BY <1>7
      <3>2. ByteAt(c, k - 1) = <<d.id, got + (k - 1) + 1>>
        BY <1>8, <3>1
      <3>3. taken[k] = ByteAt(c, k - 1)
        BY <1>5
      <3>4. QED BY <3>1, <3>2, <3>3
    <2>4. QED BY <2>2, <2>3
  <1>10. fin => got + run = d.total /\ d.over /\ ~c.read_closed /\ got + run + 2 <= d.end
    BY <1>2, <1>7, FinHeard
  <1>11. run > 0 => ~c.read_closed /\ got + run <= d.total /\ got + run + 1 <= d.end
    <2>1. SUFFICES ASSUME run > 0
                   PROVE  ~c.read_closed /\ got + run <= d.total /\ got + run + 1 <= d.end
      OBVIOUS
    <2>2. run - 1 \in 0 .. run - 1 /\ got + (run - 1) + 1 = got + run
          /\ got + (run - 1) + 2 = got + run + 1
      BY <1>7, <2>1
    <2>3. /\ ~c.read_closed /\ got + (run - 1) + 1 <= d.total /\ got + (run - 1) + 2 <= d.end
      BY <1>8, <2>2
    <2>4. QED BY <2>2, <2>3
  <1>12. /\ d.first \in SeqNumber /\ d.total \in Nat /\ d.end \in Nat /\ d.end <= 2 + d.total
         /\ d.total + 2 + ReceiveBuffer < Modulus /\ ReceiveBuffer \in Nat /\ Modulus \in Nat
         /\ d.end < Modulus
    BY ModulusAssumption, ConfigAssumption DEF Views
  <1>13. PICK u : u = Units(c.read_closed)
    OBVIOUS
  <1>14. PICK v : v = Units(fin)
    OBVIOUS
  <1>15. PICK w : w = Units(c.read_closed \/ fin)
    OBVIOUS
  <1>16. /\ u \in Nat /\ v \in Nat /\ w \in Nat
         /\ (c.read_closed => u = 1 /\ w = 1) /\ (~c.read_closed => u = 0)
         /\ (fin => v = 1 /\ w = 1) /\ (~fin => v = 0) /\ (~c.read_closed /\ ~fin => w = 0)
    BY <1>13, <1>14, <1>15 DEF Units
  <1>17. /\ c.recv_nxt = Plus(d.first, 1 + got + u) /\ got <= d.total
         /\ 1 + got + u <= d.end /\ (c.read_closed => got = d.total)
         /\ (c.read_closed => d.over)
    BY <1>13 DEF Hears
  <1>18. c.read_closed => run = 0 /\ ~fin
    BY <1>7, <1>10, <1>11
  <1>19. u + v = w
    BY <1>16, <1>18
  <1>20. 1 + (got + run) + w <= d.end /\ got + run <= d.total
         /\ (c.read_closed \/ fin => got + run = d.total)
    <2>1. CASE fin
      BY <1>7, <1>10, <1>12, <1>16, <2>1
    <2>2. CASE ~fin /\ run = 0
      BY <1>12, <1>16, <1>17, <1>19, <2>2
    <2>3. CASE ~fin /\ run > 0
      BY <1>7, <1>11, <1>12, <1>16, <2>3
    <2>4. QED BY <1>7, <2>1, <2>2, <2>3
  <1>21. next = Plus(d.first, 1 + (got + run) + w)
    <2>1. next = Plus(Plus(d.first, 1 + got + u), run + v)
      BY <1>3, <1>14, <1>17 DEF Place
    <2>2. (1 + got + u) + (run + v) = 1 + (got + run) + w
          /\ 1 + got + u \in Nat /\ run + v \in Nat
      BY <1>7, <1>16, <1>19
    <2>3. (1 + got + u) + (run + v) < Modulus
      BY <1>7, <1>12, <1>16, <1>20, <2>2
    <2>4. QED BY <1>12, <2>1, <2>2, <2>3, PlusPlus
  <1>22. e.state # "SynSent"
    BY <1>4, <1>6 DEF AfterRemoteFin
  <1>23. \A r \in e.reassembly : Told(r.seq, r.data, r.fin, d)
    BY <1>6 DEF Kept, Hears
  <1>24. e.read_closed => got + run = d.total /\ d.over
    BY <1>6, <1>10, <1>17, <1>20
  <1>25. Hears(e, d, got + run)
    <2>1. Units(e.read_closed) = w
      BY <1>6, <1>15
    <2>2. QED BY <1>6, <1>20, <1>21, <1>22, <1>23, <1>24, <2>1 DEF Hears
  <1>26. /\ Len(e.recv_queue) = Len(c.recv_queue) + run
         /\ \A k \in 1 .. run : e.recv_queue[Len(c.recv_queue) + k] = <<d.id, got + k>>
    <2>1. \A p, q \in Seq(Byte) : Len(p \o q) = Len(p) + Len(q)
             /\ \A k \in 1 .. Len(q) : (p \o q)[Len(p) + k] = q[k]
      OBVIOUS
    <2>2. QED BY <1>4, <1>6, <1>9, <2>1
  <1>27. QED BY <1>7, <1>25, <1>26 DEF Gains

\* Draining changes nothing of what the connection tells.
LEMMA DrainedTelling ==
  ASSUME NEW c \in SoundConn, c.state # "SynSent", NEW first, NEW i, Tells(c, first, i),
         NEW e, e = DrainReassembly(c)
  PROVE  SameTelling(c, e) /\ e.state # "SynSent"
  <1>1. PICK run : run = Run(c)
    OBVIOUS
  <1>2. PICK fin \in BOOLEAN : fin = FinAt(c, run)
    BY DEF FinAt
  <1>3. c \in Conn
    BY SoundFields
  <1>4. /\ e.unacked = c.unacked /\ e.send_una = c.send_una
        /\ e.send_nxt = c.send_nxt /\ e.send_queue = c.send_queue
        /\ e.accepted = c.accepted /\ e.acked = c.acked
        /\ e.close_requested = c.close_requested
        /\ e.state = (IF fin THEN AfterRemoteFin(c.state) ELSE c.state)
    <2>1. e = TakeIn(c, run, fin, Place(c, run + Units(fin)))
      BY <1>1, <1>2 DEF DrainReassembly, DrainRun, TakeRun
    <2>2. QED BY <1>3, <2>1 DEF TakeIn, Conn
  <1>5. Alike(e.state, c.state) /\ e.state # "SynSent"
    BY <1>4 DEF Alike, AfterRemoteFin, Opening
  <1>6. e.state \in {"FinWait2", "TimeWait"} => c.state \in {"FinWait2", "TimeWait"}
    BY <1>4 DEF AfterRemoteFin
  <1>7. c.state \in {"FinWait2", "TimeWait"} => c.send_una = c.send_nxt
    BY DEF Tells, Confirmed
  <1>8. QED BY <1>4, <1>5, <1>6, <1>7, RepeatsItself DEF SameTelling

\* Nothing of the receive side moves.
Unmoved(c, d) ==
  /\ SameReceive(c, d) /\ d.read_closed = c.read_closed
  /\ d.state = "SynSent" <=> c.state = "SynSent"

LEMMA UnmovedWays ==
  /\ \A c : Unmoved(c, c)
  /\ \A c, d : Only(c, d) => Unmoved(c, d)
  /\ \A c, d : Untouched(c, d) => Unmoved(c, d)
  BY DEF Unmoved, Only, Untouched, SameReceive

LEMMA UnmovedGains ==
  ASSUME NEW c \in Conn, NEW e, Unmoved(c, e), NEW d, NEW got \in Nat, Hears(c, d, got)
  PROVE  Hears(e, d, got) /\ Gains(c, e, d, got)
  <1>1. Hears(e, d, got)
    BY DEF Hears, Unmoved, SameReceive
  <1>2. Len(c.recv_queue) \in Nat /\ got + 0 = got /\ e.recv_queue = c.recv_queue
    BY DEF Conn, Unmoved, SameReceive
  <1>3. Len(e.recv_queue) = Len(c.recv_queue) + 0
    BY <1>2
  <1>4. QED BY <1>1, <1>2, <1>3 DEF Gains

\* Steps before and after the one that takes in.
LEMMA GainsBetween ==
  ASSUME NEW c, NEW a, a.recv_queue = c.recv_queue, NEW b, NEW e, Unmoved(b, e),
         NEW d, NEW got \in Nat, Gains(a, b, d, got)
  PROVE  Gains(c, e, d, got)
  <1>1. PICK n \in Nat :
          /\ Hears(b, d, got + n)
          /\ Len(b.recv_queue) = Len(a.recv_queue) + n
          /\ \A k \in 1 .. n : b.recv_queue[Len(a.recv_queue) + k] = <<d.id, got + k>>
    BY DEF Gains
  <1>2. Hears(e, d, got + n)
    BY <1>1 DEF Hears, Unmoved, SameReceive
  <1>3. e.recv_queue = b.recv_queue
    BY DEF Unmoved, SameReceive
  <1>4. QED BY <1>1, <1>2, <1>3 DEF Gains

\* Filing changes the table only.
LEMMA InsertedTelling ==
  ASSUME NEW c \in Conn, NEW first, NEW i, Tells(c, first, i), NEW seq, NEW data, NEW fin,
         NEW x, x = InsertReceived(c, seq, data, fin)
  PROVE  SameTelling(c, x) /\ x.state = c.state
  <1>1. x = c \/ \E S : x = [c EXCEPT !.reassembly = S]
    BY DEF InsertReceived, FileChunk
  <1>2. /\ x.unacked = c.unacked /\ x.send_una = c.send_una
        /\ x.send_nxt = c.send_nxt /\ x.send_queue = c.send_queue
        /\ x.accepted = c.accepted /\ x.acked = c.acked
        /\ x.close_requested = c.close_requested /\ x.state = c.state
    BY <1>1 DEF Conn
  <1>3. c.state \in {"FinWait2", "TimeWait"} => c.send_una = c.send_nxt
    BY DEF Tells, Confirmed
  <1>4. QED BY <1>2, <1>3, RepeatsItself DEF SameTelling, Alike

\* What receive_stream_data says.
LEMMA ReceiveSpeaks ==
  ASSUME NEW c \in SoundConn, c.state # "SynSent", NEW first \in SeqNumber, NEW i \in Nat,
         Tells(c, first, i), NEW seg \in Segment, NEW u, u = ReceiveStreamData(c, seg)
  PROVE  /\ Speaks(c, u.conn, u.segments, first, i)
         /\ u.conn.accepted = c.accepted /\ u.conn.acked = c.acked
         /\ u.conn.state # "SynSent"
  <1>1. c \in Conn /\ seg.seq \in SeqNumber /\ seg.data \in Seq(Byte)
    BY SoundFields DEF Segment
  <1>2. CASE seg.data = <<>> /\ "FIN" \notin seg.flags
    <2>1. u = Open(c, <<>>)
      BY <1>2 DEF ReceiveStreamData
    <2>2. u.conn = c /\ u.segments = <<>>
      BY <2>1 DEF Open
    <2>3. QED BY <1>1, <2>2, SilentSpeaks
  <1>3. CASE ~(seg.data = <<>> /\ "FIN" \notin seg.flags)
    <2>1. PICK fin \in BOOLEAN : fin = ("FIN" \in seg.flags)
      <3>1. ("FIN" \in seg.flags) \in BOOLEAN
        OBVIOUS
      <3>2. QED BY <3>1
    <2>2. PICK x : x = InsertReceived(c, seg.seq, seg.data, fin)
      OBVIOUS
    <2>3. PICK e : e = DrainReassembly(x)
      OBVIOUS
    <2>4. u = AndAcknowledge(e)
      BY <1>3, <2>1, <2>2, <2>3 DEF ReceiveStreamData
    <2>5. x \in SoundConn /\ x.state = c.state
      BY <1>1, <2>2, InsertReceivedSound
    <2>6. e \in SoundConn /\ e \in Conn /\ e.state # "SynSent"
      BY <2>3, <2>5, DrainReassemblySound, SoundFields
    <2>7. SameTelling(c, x)
      BY <1>1, <2>2, InsertedTelling
    <2>8. Tells(x, first, i) /\ ViewOf(x, first, i) = ViewOf(c, first, i)
      BY <2>7, SameTellingTells
    <2>9. SameTelling(x, e)
      BY <2>3, <2>5, <2>8, DrainedTelling
    <2>10. Tells(e, first, i) /\ ViewOf(e, first, i) = ViewOf(x, first, i)
      BY <2>8, <2>9, SameTellingTells
    <2>11. AckSegment(e) \in Segment /\ <<AckSegment(e)>> \in Seq(Segment)
      BY <2>6, AckSegmentType, OneSegment
    <2>12. Utterance(AckSegment(e), ViewOf(e, first, i), Heard(e))
      <3>1. Numbered(e, first)
        BY <2>10 DEF Tells
      <3>2. QED BY <2>6, <3>1, AckSegmentSpoken
    <2>13. Utters(<<AckSegment(e)>>, ViewOf(c, first, i), Heard(e))
      BY <2>8, <2>10, <2>12, UttersOne
    <2>14. Speaks(c, e, <<AckSegment(e)>>, first, i)
      BY <1>1, <2>6, <2>8, <2>10, <2>11, <2>13, SameSpeaks
    <2>15. u.conn = e /\ u.segments = <<AckSegment(e)>>
      BY <2>4 DEF AndAcknowledge, Open
    <2>16. e.accepted = c.accepted /\ e.acked = c.acked
      BY <2>7, <2>9 DEF SameTelling
    <2>17. QED BY <2>6, <2>14, <2>15, <2>16
  <1>4. QED BY <1>2, <1>3

\* And what it hears, of a segment of the stream or of one far from it.
LEMMA ReceiveHears ==
  ASSUME NEW c \in SoundConn, NEW d \in Views, NEW got \in Nat, Hears(c, d, got),
         NEW f \in Views, f = d \/ Apart(d, f), NEW seg \in Segment, Spoken(seg, f),
         NEW u, u = ReceiveStreamData(c, seg)
  PROVE  Gains(c, u.conn, d, got)
  <1>1. c \in Conn /\ seg.seq \in SeqNumber /\ seg.data \in Seq(Byte)
    BY SoundFields DEF Segment
  <1>2. CASE seg.data = <<>> /\ "FIN" \notin seg.flags
    <2>1. u.conn = c
      BY <1>2 DEF ReceiveStreamData, Open
    <2>2. QED BY <1>1, <2>1, UnmovedWays, UnmovedGains
  <1>3. CASE ~(seg.data = <<>> /\ "FIN" \notin seg.flags)
    <2>1. PICK fin \in BOOLEAN : fin = ("FIN" \in seg.flags)
      <3>1. ("FIN" \in seg.flags) \in BOOLEAN
        OBVIOUS
      <3>2. QED BY <3>1
    <2>2. PICK x : x = InsertReceived(c, seg.seq, seg.data, fin)
      OBVIOUS
    <2>3. PICK e : e = DrainReassembly(x)
      OBVIOUS
    <2>4. u.conn = e
      BY <1>3, <2>1, <2>2, <2>3 DEF ReceiveStreamData, AndAcknowledge, Open
    <2>5. Told(seg.seq, seg.data, fin, f)
      BY <1>3, <2>1 DEF Spoken
    <2>6. x \in SoundConn /\ Hears(x, d, got) /\ x.recv_queue = c.recv_queue
      BY <1>1, <2>2, <2>5, InsertedHears
    <2>7. Gains(x, e, d, got)
      BY <2>3, <2>6, DrainedHears
    <2>8. QED BY <2>4, <2>6, <2>7, UnmovedWays, GainsBetween
  <1>4. QED BY <1>2, <1>3

-----------------------------------------------------------------------------
(* on_segment and input                                                    *)

\* An update after an update.
LEMMA ThenSpeaks ==
  ASSUME NEW c \in Conn, NEW u \in Update, NEW v \in Update, NEW first \in SeqNumber,
         NEW i \in Nat, Tells(c, first, i), Speaks(c, u.conn, u.segments, first, i),
         Speaks(u.conn, v.conn, v.segments, first, i),
         Heard(u.conn) \subseteq Heard(c) \cup Heard(v.conn)
  PROVE  Speaks(c, Then(u, v).conn, Then(u, v).segments, first, i)
  <1>1. /\ u.conn \in Conn /\ v.conn \in Conn
        /\ u.segments \in Seq(Segment) /\ v.segments \in Seq(Segment)
    BY UpdateFields
  <1>2. Then(u, v).conn = v.conn /\ Then(u, v).segments = u.segments \o v.segments
    BY DEF Then, Update
  <1>3. Speaks(c, v.conn, u.segments \o v.segments, first, i)
    BY <1>1, SpeaksOn
  <1>4. QED BY <1>2, <1>3

\* The flush at the end of a step.
LEMMA FlushedSpeaks ==
  ASSUME NEW c \in Conn, NEW u \in SoundUpdate, NEW first \in SeqNumber,
         NEW i \in Nat, Tells(c, first, i), Speaks(c, u.conn, u.segments, first, i)
  PROVE  /\ Speaks(c, AndFlush(u).conn, AndFlush(u).segments, first, i)
         /\ Only(u.conn, AndFlush(u).conn)
  <1>1. u \in Update /\ u.conn \in SoundConn /\ u.conn \in Conn
    BY SoundFields
  <1>2. PICK v : v = FlushData(u.conn)
    OBVIOUS
  <1>3. v \in Update
    BY <1>1, <1>2, FlushDataType
  <1>4. OnlySpeaks(u.conn, v, first, i)
    BY <1>1, <1>2, FlushSays DEF Speaks
  <1>5. Speaks(u.conn, v.conn, v.segments, first, i) /\ Only(u.conn, v.conn)
        /\ Heard(v.conn) = Heard(u.conn)
    BY <1>4, OnlyHeard DEF OnlySpeaks
  <1>6. Heard(u.conn) \subseteq Heard(c) \cup Heard(v.conn)
    BY <1>5
  <1>7. Speaks(c, Then(u, v).conn, Then(u, v).segments, first, i)
    BY <1>1, <1>3, <1>5, <1>6, ThenSpeaks
  <1>8. AndFlush(u) = Then(u, v) /\ Then(u, v).conn = v.conn
    BY <1>2, <1>3, ThenLeaves DEF AndFlush
  <1>9. QED BY <1>5, <1>7, <1>8

\* A reset, or the ACK that answers with where the connection stands.
LEMMA ShortAnswers ==
  ASSUME NEW c \in SoundConn, NEW first \in SeqNumber, NEW i \in Nat, Tells(c, first, i)
  PROVE  /\ c.state # "SynSent" => OnlySpeaks(c, Open(c, <<AckSegment(c)>>), first, i)
         /\ \A seg \in Segment : OnlySpeaks(c, Open(c, <<ResetFor(seg)>>), first, i)
         /\ OnlySpeaks(c, Closed(c, <<ResetSegment(c)>>), first, i)
  <1>1. c \in Conn /\ SameTelling(c, c) /\ Only(c, c)
    <2>1. c.state \in {"FinWait2", "TimeWait"} => c.send_una = c.send_nxt
      BY DEF Tells, Confirmed
    <2>2. QED BY <2>1, SoundFields, RepeatsItself, OnlyChain DEF SameTelling, Alike
  <1>2. ASSUME NEW x \in Segment, Utterance(x, ViewOf(c, first, i), Heard(c))
        PROVE  OnlySpeaks(c, Open(c, <<x>>), first, i) /\ OnlySpeaks(c, Closed(c, <<x>>), first, i)
    <2>1. Speaks(c, c, <<x>>, first, i)
      BY <1>1, <1>2, OneSegmentSpeaks
    <2>2. /\ Open(c, <<x>>).conn = c /\ Open(c, <<x>>).segments = <<x>>
          /\ Closed(c, <<x>>).conn = c /\ Closed(c, <<x>>).segments = <<x>>
      BY DEF Open, Closed
    <2>3. QED BY <1>1, <2>1, <2>2 DEF OnlySpeaks
  <1>3. ASSUME c.state # "SynSent" PROVE OnlySpeaks(c, Open(c, <<AckSegment(c)>>), first, i)
    <2>1. AckSegment(c) \in Segment
      BY <1>1, AckSegmentType
    <2>2. Utterance(AckSegment(c), ViewOf(c, first, i), Heard(c))
      <3>1. Numbered(c, first)
        BY DEF Tells
      <3>2. QED BY <1>1, <1>3, <3>1, AckSegmentSpoken
    <2>3. QED BY <1>2, <2>1, <2>2
  <1>4. ASSUME NEW seg \in Segment PROVE OnlySpeaks(c, Open(c, <<ResetFor(seg)>>), first, i)
    <2>1. ResetFor(seg) \in Segment
      BY ResetForType
    <2>2. Utterance(ResetFor(seg), ViewOf(c, first, i), Heard(c))
      BY DEF Utterance, ResetFor
    <2>3. QED BY <1>2, <2>1, <2>2
  <1>5. OnlySpeaks(c, Closed(c, <<ResetSegment(c)>>), first, i)
    <2>1. ResetSegment(c) \in Segment
      BY <1>1, ResetSegmentType
    <2>2. Utterance(ResetSegment(c), ViewOf(c, first, i), Heard(c))
      BY DEF Utterance, ResetSegment, BuildSegment
    <2>3. QED BY <1>2, <2>1, <2>2
  <1>6. QED BY <1>3, <1>4, <1>5

\* on_reset.
LEMMA OnResetSpeaks ==
  ASSUME NEW c \in SoundConn, NEW first \in SeqNumber, NEW i \in Nat, Tells(c, first, i),
         NEW seg
  PROVE  OnlySpeaks(c, OnReset(c, seg), first, i)
  <1>1. OnlySpeaks(c, Open(c, <<>>), first, i) /\ OnlySpeaks(c, Closed(c, <<>>), first, i)
    BY SoundFields, SilentSpeaks
  <1>2. QED BY <1>1, ShortAnswers DEF OnReset

\* The receive side of a client that a SYN-ACK opens.
Starts(c, e, seg) ==
  /\ e.state = "Established" /\ e.recv_nxt = Plus(seg.seq, 1)
  /\ e.reassembly = {} /\ e.recv_queue = c.recv_queue /\ e.read_closed = c.read_closed

\* on_segment in SYN-SENT.
LEMMA SynSentSpeaks ==
  ASSUME NEW c \in SoundConn, c.state = "SynSent", NEW first \in SeqNumber, NEW i \in Nat,
         Tells(c, first, i), NEW seg \in Segment, NEW u, u = OnSegmentSynSent(c, seg)
  PROVE  /\ Speaks(c, u.conn, u.segments, first, i)
         /\ u.conn.accepted = c.accepted /\ u.conn.acked = c.acked
         /\ \/ Unmoved(c, u.conn)
            \/ Starts(c, u.conn, seg) /\ "SYN" \in seg.flags
  <1>1. seg.window \in WindowSize /\ seg.seq \in SeqNumber /\ c.send_nxt \in SeqNumber /\ c \in Conn
    BY SoundFields DEF Segment, Conn
  <1>2. CASE ~({"SYN", "ACK"} \subseteq seg.flags /\ seg.ack = c.send_nxt)
    <2>1. u.conn = c /\ u.segments = <<>>
      BY <1>2 DEF OnSegmentSynSent, Open
    <2>2. QED BY <1>1, <2>1, SilentSpeaks, UnmovedWays
  <1>3. CASE {"SYN", "ACK"} \subseteq seg.flags /\ seg.ack = c.send_nxt
    <2>1. PICK b : b = UpdateRemoteWindow(c, seg.window)
      OBVIOUS
    <2>2. PICK d : d = NegotiateMss(b, seg)
      OBVIOUS
    <2>3. b \in SoundConn /\ d \in SoundConn /\ d \in Conn /\ d.state = "SynSent"
      BY <1>1, <2>1, <2>2, UpdateRemoteWindowSound, NegotiateMssSound, SoundFields
    <2>4. /\ d.send_una = c.send_una /\ d.send_nxt = c.send_nxt /\ d.unacked = c.unacked
          /\ d.send_queue = c.send_queue /\ d.accepted = c.accepted /\ d.acked = c.acked
          /\ d.close_requested = c.close_requested /\ d.state = c.state
          /\ d.recv_nxt = c.recv_nxt /\ d.recv_queue = c.recv_queue
          /\ d.reassembly = c.reassembly /\ d.read_closed = c.read_closed
      <3>1. b \in Conn
        BY <2>3, SoundFields
      <3>2. QED BY <1>1, <2>1, <2>2, <3>1 DEF NegotiateMss, UseMss, UpdateRemoteWindow, Conn
    <2>5. SameTelling(c, d) /\ Only(c, d) /\ Tells(d, first, i)
      BY <2>4, QuietChange
    <2>6. Speaks(c, d, <<>>, first, i)
      <3>1. OnlySpeaks(c, Open(d, <<>>), first, i)
        BY <1>1, <2>3, <2>5, QuietStep
      <3>2. Open(d, <<>>).conn = d /\ Open(d, <<>>).segments = <<>>
        BY DEF Open
      <3>3. QED BY <3>1, <3>2 DEF OnlySpeaks
    <2>7. PICK e : e = ApplyAck(d, d.send_nxt, FALSE).conn
      OBVIOUS
    <2>8. /\ e \in SoundConn /\ e \in Conn /\ e.state = "SynSent" /\ Speaks(d, e, <<>>, first, i)
          /\ Untouched(d, e) /\ e.acked = d.acked /\ e.send_una # first
      <3>1. d.state \in Opening
        BY <2>3 DEF Opening
      <3>2. QED BY <2>3, <2>5, <2>7, <3>1, OpeningAck, SoundFields
    <2>9. PICK next \in SeqNumber : next = Plus(seg.seq, 1)
      BY <1>1, SeqNumberIsNat, PlusType
    <2>10. PICK f : f = [e EXCEPT !.recv_nxt = next, !.state = "Established"]
      OBVIOUS
    <2>11. f \in SoundConn /\ f \in Conn
      BY <2>8, <2>10, EstablishedSound, SoundFields
    <2>12. /\ f.state = "Established" /\ f.send_una = e.send_una /\ f.send_nxt = e.send_nxt
           /\ f.unacked = e.unacked /\ f.send_queue = e.send_queue /\ f.accepted = e.accepted
           /\ f.acked = e.acked /\ f.close_requested = e.close_requested
           /\ f.recv_nxt = next /\ f.recv_queue = e.recv_queue
           /\ f.reassembly = e.reassembly /\ f.read_closed = e.read_closed
      BY <2>8, <2>10 DEF Conn
    <2>13. Tells(e, first, i)
      BY <2>8 DEF Speaks
    <2>14. Tells(f, first, i) /\ ViewOf(f, first, i) = ViewOf(e, first, i)
      <3>1. e.state \in Opening
        BY <2>8 DEF Opening
      <3>2. QED BY <2>8, <2>11, <2>12, <2>13, <3>1, EstablishedTells
    <2>15. AckSegment(f) \in Segment /\ <<AckSegment(f)>> \in Seq(Segment)
      BY <2>11, AckSegmentType, OneSegment
    <2>16. Utters(<<AckSegment(f)>>, ViewOf(e, first, i), Heard(f))
      <3>1. Numbered(f, first) /\ f.state # "SynSent"
        BY <2>12, <2>14 DEF Tells
      <3>2. Utterance(AckSegment(f), ViewOf(f, first, i), Heard(f))
        BY <2>11, <3>1, AckSegmentSpoken
      <3>3. QED BY <2>14, <3>2, UttersOne
    <2>17. Speaks(e, f, <<AckSegment(f)>>, first, i)
      BY <2>8, <2>11, <2>13, <2>14, <2>15, <2>16, SameSpeaks
    <2>18. Heard(d) \subseteq Heard(c) \cup Heard(e) /\ Heard(e) \subseteq Heard(c) \cup Heard(f)
      BY <2>3, <2>8 DEF Heard
    <2>19. <<>> \in Seq(Segment) /\ <<>> \o <<>> = <<>>
           /\ <<>> \o <<AckSegment(f)>> = <<AckSegment(f)>>
      BY <2>15, NoSegments
    <2>20. Speaks(c, e, <<>> \o <<>>, first, i)
      BY <1>1, <2>3, <2>6, <2>8, <2>18, <2>19, SpeaksOn
    <2>21. Speaks(c, e, <<>>, first, i)
      BY <2>19, <2>20
    <2>22. Speaks(c, f, <<>> \o <<AckSegment(f)>>, first, i)
      BY <1>1, <2>8, <2>11, <2>15, <2>17, <2>18, <2>19, <2>21, SpeaksOn
    <2>23. Speaks(c, f, <<AckSegment(f)>>, first, i)
      BY <2>19, <2>22
    <2>24. u.conn = f /\ u.segments = <<AckSegment(f)>>
      <3>1. u = AndAcknowledge([ApplyAck(d, c.send_nxt, FALSE).conn
                                  EXCEPT !.recv_nxt = Plus(seg.seq, 1), !.state = "Established"])
        BY <1>3, <2>1, <2>2 DEF OnSegmentSynSent
      <3>2. u = AndAcknowledge(f)
        BY <2>4, <2>7, <2>9, <2>10, <3>1
      <3>3. QED BY <3>2 DEF AndAcknowledge, Open
    <2>25. c.reassembly = {}
      BY SoundFields DEF Receiver
    <2>26. Starts(c, f, seg)
      BY <2>4, <2>8, <2>9, <2>12, <2>25 DEF Starts, Untouched, SameReceive
    <2>27. f.accepted = c.accepted /\ f.acked = c.acked /\ "SYN" \in seg.flags
      BY <1>3, <2>4, <2>8, <2>12 DEF Untouched
    <2>28. QED BY <2>23, <2>24, <2>26, <2>27
  <1>4. QED BY <1>2, <1>3

\* A server's connection once the ACK of its SYN-ACK is applied.
OpenedBy(c, seg) ==
  [UpdateRemoteWindow(ApplyAck(c, c.send_nxt, FALSE).conn, seg.window)
     EXCEPT !.state = "Established"]

\* The ACK of the SYN-ACK opens a server's connection and may bring data.
LEMMA OpenedByAck ==
  ASSUME NEW c \in SoundConn, c.state = "SynReceived", NEW first \in SeqNumber, NEW i \in Nat,
         Tells(c, first, i), NEW seg \in Segment,
         NEW f, f = OpenedBy(c, seg)
  PROVE  /\ f \in SoundConn /\ f.state # "SynSent" /\ Speaks(c, f, <<>>, first, i)
         /\ Unmoved(c, f) /\ f.accepted = c.accepted /\ f.acked = c.acked
  <1>1. seg.window \in WindowSize /\ c \in Conn
    BY SoundFields DEF Segment
  <1>2. PICK d : d = ApplyAck(c, c.send_nxt, FALSE).conn
    OBVIOUS
  <1>3. /\ d \in SoundConn /\ d \in Conn /\ d.state = c.state /\ Speaks(c, d, <<>>, first, i)
        /\ Untouched(c, d) /\ d.acked = c.acked /\ d.send_una # first
    <2>1. c.state \in Opening
      BY DEF Opening
    <2>2. QED BY <1>2, <2>1, OpeningAck, SoundFields
  <1>4. PICK e : e = UpdateRemoteWindow(d, seg.window)
    OBVIOUS
  <1>5. e \in SoundConn /\ e \in Conn
    BY <1>1, <1>3, <1>4, UpdateRemoteWindowSound, SoundFields
  <1>6. f = [e EXCEPT !.state = "Established"]
    BY <1>2, <1>4 DEF OpenedBy
  <1>7. f \in SoundConn /\ f \in Conn /\ f.state = "Established"
    <2>1. "Established" \in State \ Opening
      BY DEF State, Opening
    <2>2. PICK g : g = [e EXCEPT !.state = "Established"]
      OBVIOUS
    <2>3. g \in SoundConn /\ g.state = "Established"
      BY <1>5, <2>1, <2>2, InStateSound
    <2>4. f = g
      BY <1>6, <2>2
    <2>5. QED BY <2>3, <2>4, SoundFields
  <1>8. /\ f.send_una = d.send_una /\ f.send_nxt = d.send_nxt
        /\ f.unacked = d.unacked /\ f.send_queue = d.send_queue /\ f.accepted = d.accepted
        /\ f.acked = d.acked /\ f.close_requested = d.close_requested
        /\ f.recv_nxt = d.recv_nxt /\ f.recv_queue = d.recv_queue
        /\ f.reassembly = d.reassembly /\ f.read_closed = d.read_closed
    BY <1>3, <1>4, <1>5, <1>6 DEF UpdateRemoteWindow, Conn
  <1>9. Tells(d, first, i) /\ d.state \in Opening
    BY <1>3 DEF Speaks, Opening
  <1>10. Tells(f, first, i) /\ ViewOf(f, first, i) = ViewOf(d, first, i)
    BY <1>3, <1>7, <1>8, <1>9, EstablishedTells
  <1>11. Speaks(d, f, <<>>, first, i)
    <2>1. Utters(<<>>, ViewOf(d, first, i), Heard(d))
      BY UttersNothing
    <2>2. QED BY <1>3, <1>7, <1>9, <1>10, <2>1, NoSegments, SameSpeaks
  <1>12. Unmoved(c, f)
    BY <1>3, <1>7, <1>8 DEF Unmoved, Untouched, SameReceive
  <1>13. Speaks(c, f, <<>> \o <<>>, first, i)
    <2>1. Heard(d) \subseteq Heard(c) \cup Heard(f)
      <3>1. d.recv_nxt = c.recv_nxt /\ d.state # "SynSent"
        BY <1>3 DEF Untouched, SameReceive
      <3>2. Heard(d) = Heard(c)
        BY <3>1 DEF Heard
      <3>3. QED BY <3>2
    <2>2. QED BY <1>1, <1>3, <1>7, <1>11, <2>1, NoSegments, SpeaksOn
  <1>14. <<>> \o <<>> = <<>>
    BY NoSegments
  <1>15. Speaks(c, f, <<>>, first, i)
    BY <1>13, <1>14
  <1>16. f.accepted = c.accepted /\ f.acked = c.acked
    BY <1>3, <1>8 DEF Untouched
  <1>17. QED BY <1>7, <1>12, <1>15, <1>16

\* A step that may take in data, then flushes: receive_stream_data, flush_data.
LEMMA ReceiveAndFlush ==
  ASSUME NEW c \in SoundConn, c.state # "SynSent", NEW first \in SeqNumber, NEW i \in Nat,
         Tells(c, first, i), NEW seg \in Segment, NEW u, u = AndFlush(ReceiveStreamData(c, seg))
  PROVE  /\ u \in Update /\ Speaks(c, u.conn, u.segments, first, i)
         /\ u.conn.accepted = c.accepted /\ u.conn.acked = c.acked
         /\ Only(ReceiveStreamData(c, seg).conn, u.conn)
         /\ u.conn.state # "SynSent"
  <1>1. PICK r : r = ReceiveStreamData(c, seg)
    OBVIOUS
  <1>2. r \in SoundUpdate /\ r \in Update /\ c \in Conn
    BY <1>1, ReceiveStreamDataSound, SoundFields
  <1>3. /\ Speaks(c, r.conn, r.segments, first, i)
        /\ r.conn.accepted = c.accepted /\ r.conn.acked = c.acked /\ r.conn.state # "SynSent"
    BY <1>1, ReceiveSpeaks
  <1>4. u = AndFlush(r) /\ u \in Update
    BY <1>1, <1>2, AndFlushType
  <1>5. Speaks(c, u.conn, u.segments, first, i) /\ Only(r.conn, u.conn)
    BY <1>2, <1>3, <1>4, FlushedSpeaks
  <1>6. QED BY <1>1, <1>3, <1>4, <1>5 DEF Only

\* The parts of a step in order: c to b without receiving, then the rest.
LEMMA ThenReceive ==
  ASSUME NEW c \in Conn, NEW w \in SoundUpdate, w.conn.state # "SynSent",
         NEW first \in SeqNumber, NEW i \in Nat, Tells(c, first, i),
         Speaks(c, w.conn, w.segments, first, i), Unmoved(c, w.conn),
         NEW seg \in Segment, NEW u, u = AndFlush(AndReceive(w, seg))
  PROVE  /\ Speaks(c, u.conn, u.segments, first, i)
         /\ u.conn.accepted = w.conn.accepted /\ u.conn.acked = w.conn.acked
         /\ Only(ReceiveStreamData(w.conn, seg).conn, u.conn)
         /\ u.conn.state # "SynSent"
  <1>1. w \in Update /\ w.conn \in SoundConn
    BY SoundFields
  <1>2. PICK r : r = ReceiveStreamData(w.conn, seg)
    OBVIOUS
  <1>3. r \in Update /\ r \in SoundUpdate
    BY <1>1, <1>2, ReceiveStreamDataSound, SoundFields
  <1>4. Tells(w.conn, first, i)
    BY DEF Speaks
  <1>5. /\ Speaks(w.conn, r.conn, r.segments, first, i)
        /\ r.conn.accepted = w.conn.accepted /\ r.conn.acked = w.conn.acked
        /\ r.conn.state # "SynSent"
    BY <1>1, <1>2, <1>4, ReceiveSpeaks
  <1>6. Heard(w.conn) \subseteq Heard(c) \cup Heard(r.conn)
    BY DEF Heard, Unmoved, SameReceive
  <1>7. PICK v : v = Then(w, r)
    OBVIOUS
  <1>8. v \in SoundUpdate /\ v.conn = r.conn /\ v = AndReceive(w, seg)
    BY <1>1, <1>2, <1>3, <1>7, ThenSound DEF AndReceive
  <1>9. Speaks(c, v.conn, v.segments, first, i)
    BY <1>1, <1>3, <1>5, <1>6, <1>7, ThenSpeaks
  <1>10. u = AndFlush(v)
    BY <1>8
  <1>11. Speaks(c, u.conn, u.segments, first, i) /\ Only(v.conn, u.conn)
    BY <1>8, <1>9, <1>10, FlushedSpeaks
  <1>12. QED BY <1>2, <1>5, <1>8, <1>11 DEF Only

\* What a step does with a segment: it speaks for its stream, learns what the
\* ACK says at most, and writes nothing.
Handles(c, u, first, i, seg) ==
  /\ Speaks(c, u.conn, u.segments, first, i)
  /\ u.conn.accepted = c.accepted
  /\ u.conn.acked = c.acked \/ (seg.ack # None /\ Learns(c, u.conn, first, seg.ack))

LEMMA OnlyHandles ==
  ASSUME NEW c, NEW u, NEW first, NEW i, NEW seg, OnlySpeaks(c, u, first, i)
  PROVE  Handles(c, u, first, i, seg) /\ Unmoved(c, u.conn)
  BY UnmovedWays DEF OnlySpeaks, Only, Handles

\* What a step takes in, whatever stream it hears, of a segment of some stream.
Listens(c, e, seg) ==
  \A d \in Views : \A got \in Nat : Hears(c, d, got) =>
    \A f \in Views :
      (f = d \/ Apart(d, f)) /\ ("RST" \in seg.flags \/ Spoken(seg, f)) => Gains(c, e, d, got)

LEMMA UnmovedListens ==
  ASSUME NEW c \in Conn, NEW e, Unmoved(c, e), NEW seg
  PROVE  Listens(c, e, seg)
  BY UnmovedGains DEF Listens

LEMMA ReceiveListens ==
  ASSUME NEW c, NEW b \in SoundConn, Unmoved(c, b), NEW seg \in Segment, "RST" \notin seg.flags,
         NEW e, Only(ReceiveStreamData(b, seg).conn, e)
  PROVE  Listens(c, e, seg)
  <1>1. PICK u : u = ReceiveStreamData(b, seg)
    OBVIOUS
  <1>2. Unmoved(u.conn, e) /\ b.recv_queue = c.recv_queue
    BY <1>1, UnmovedWays DEF Unmoved, SameReceive
  <1>3. ASSUME NEW d \in Views, NEW got \in Nat, Hears(c, d, got), NEW f \in Views,
               f = d \/ Apart(d, f), Spoken(seg, f)
        PROVE  Gains(c, e, d, got)
    <2>1. Hears(b, d, got)
      BY <1>3 DEF Hears, Unmoved, SameReceive
    <2>2. Gains(b, u.conn, d, got)
      BY <1>1, <1>3, <2>1, ReceiveHears
    <2>3. QED BY <1>2, <2>2, GainsBetween
  <1>4. QED BY <1>3 DEF Listens

\* on_segment in SYN-RECEIVED.
LEMMA SynReceivedSpeaks ==
  ASSUME NEW c \in SoundConn, c.state = "SynReceived", NEW first \in SeqNumber, NEW i \in Nat,
         Tells(c, first, i), NEW seg \in Segment, "RST" \notin seg.flags,
         NEW u, u = OnSegmentSynReceived(c, seg)
  PROVE  Handles(c, u, first, i, seg) /\ Listens(c, u.conn, seg)
  <1>1. c \in Conn
    BY SoundFields
  <1>2. CASE u = RetransmitOldest(c, FALSE)
    <2>1. FALSE \in BOOLEAN
      OBVIOUS
    <2>2. OnlySpeaks(c, u, first, i)
      BY <1>2, RetransmitSpeaks
    <2>3. QED BY <1>1, <2>2, OnlyHandles, UnmovedListens
  <1>3. CASE u = Open(c, <<>>)
    BY <1>1, <1>3, SilentSpeaks, OnlyHandles, UnmovedListens
  <1>4. CASE u = [OnHandshakeAck(c, seg) EXCEPT !.accepted = TRUE]
    <2>1. PICK f : f = OpenedBy(c, seg)
      OBVIOUS
    <2>2. /\ f \in SoundConn /\ f.state # "SynSent" /\ Speaks(c, f, <<>>, first, i)
          /\ Unmoved(c, f) /\ f.accepted = c.accepted /\ f.acked = c.acked
      BY <2>1, OpenedByAck
    <2>3. PICK v : v = AndFlush(ReceiveStreamData(f, seg))
      OBVIOUS
    <2>4. Tells(f, first, i)
      BY <2>2 DEF Speaks
    <2>5. /\ v \in Update /\ Speaks(f, v.conn, v.segments, first, i)
          /\ v.conn.accepted = f.accepted /\ v.conn.acked = f.acked
          /\ Only(ReceiveStreamData(f, seg).conn, v.conn)
      BY <2>2, <2>3, <2>4, ReceiveAndFlush
    <2>6. v = OnHandshakeAck(c, seg)
      BY <2>1, <2>3 DEF OnHandshakeAck, OpenedBy
    <2>7. u.conn = v.conn /\ u.segments = v.segments
      BY <1>4, <2>5, <2>6 DEF Update
    <2>8. Speaks(c, v.conn, v.segments, first, i)
      <3>1. PICK e, p : e = v.conn /\ p = v.segments
        OBVIOUS
      <3>2. e \in Conn /\ p \in Seq(Segment) /\ <<>> \o p = p /\ f \in Conn
        BY <2>2, <2>5, <3>1, UpdateFields, SoundFields
      <3>3. Heard(f) \subseteq Heard(c) \cup Heard(e)
        BY <2>2 DEF Heard, Unmoved, SameReceive
      <3>4. Speaks(f, e, p, first, i)
        BY <2>5, <3>1
      <3>5. Speaks(c, e, <<>> \o p, first, i)
        BY <1>1, <2>2, <3>2, <3>3, <3>4, NoSegments, SpeaksOn
      <3>6. QED BY <3>1, <3>2, <3>5
    <2>9. Listens(c, v.conn, seg)
      BY <2>2, <2>5, ReceiveListens
    <2>10. QED BY <2>2, <2>5, <2>7, <2>8, <2>9 DEF Handles
  <1>5. QED BY <1>2, <1>3, <1>4 DEF OnSegmentSynReceived

\* on_segment past the handshake.
LEMMA SynchronizedSpeaks ==
  ASSUME NEW c \in SoundConn, c.state \notin Opening, NEW first \in SeqNumber, NEW i \in Nat,
         Tells(c, first, i), NEW seg \in Segment, "RST" \notin seg.flags,
         NEW u, u = OnSegmentSynchronized(c, seg)
  PROVE  Handles(c, u, first, i, seg) /\ Listens(c, u.conn, seg)
  <1>1. c \in Conn
    BY SoundFields
  <1>2. PICK w : w = IF seg.ack = None THEN Open(c, <<>>) ELSE OnAck(c, seg)
    OBVIOUS
  <1>3. w \in SoundUpdate /\ w.conn.state # "SynSent"
    <2>1. CASE seg.ack = None
      <3>1. w = Open(c, <<>>) /\ w.conn = c
        BY <1>2, <2>1 DEF Open
      <3>2. QED BY <3>1, OpenSound, NoSegments DEF Opening
    <2>2. CASE seg.ack # None
      <3>1. w = OnAck(c, seg)
        BY <1>2, <2>2
      <3>2. QED BY <2>2, <3>1, OnAckSound DEF Opening
    <2>3. QED BY <2>1, <2>2
  <1>4. Handles(c, w, first, i, seg) /\ Unmoved(c, w.conn)
    <2>1. CASE seg.ack = None
      <3>1. w = Open(c, <<>>)
        BY <1>2, <2>1
      <3>2. QED BY <1>1, <3>1, SilentSpeaks, OnlyHandles
    <2>2. CASE seg.ack # None
      <3>1. w = OnAck(c, seg)
        BY <1>2, <2>2
      <3>2. Answers(c, w, first, i, seg.ack)
        BY <2>2, <3>1, OnAckAnswers
      <3>3. QED BY <2>2, <3>2, UnmovedWays DEF Answers, Untouched, Handles
    <2>3. QED BY <2>1, <2>2
  <1>5. u = Continue(w, seg)
    BY <1>2 DEF OnSegmentSynchronized
  <1>6. CASE w.closed
    <2>1. u = w
      BY <1>5, <1>6 DEF Continue
    <2>2. QED BY <1>1, <1>4, <2>1, UnmovedListens
  <1>7. CASE ~w.closed
    <2>1. u = AndFlush(AndReceive(w, seg))
      BY <1>5, <1>7 DEF Continue
    <2>2. Speaks(c, w.conn, w.segments, first, i)
      BY <1>4 DEF Handles
    <2>3. /\ Speaks(c, u.conn, u.segments, first, i)
          /\ u.conn.accepted = w.conn.accepted /\ u.conn.acked = w.conn.acked
          /\ Only(ReceiveStreamData(w.conn, seg).conn, u.conn)
      BY <1>1, <1>3, <1>4, <2>1, <2>2, ThenReceive
    <2>4. Handles(c, u, first, i, seg)
      BY <1>4, <2>3 DEF Handles, Learns
    <2>5. w.conn \in SoundConn
      BY <1>3, SoundFields
    <2>6. Listens(c, u.conn, seg)
      BY <1>4, <2>3, <2>5, ReceiveListens
    <2>7. QED BY <2>4, <2>6
  <1>8. QED BY <1>6, <1>7

\* Stack::input for a tuple in the table.
LEMMA InputSpeaks ==
  ASSUME NEW c \in SoundConn, NEW first \in SeqNumber, NEW i \in Nat, Tells(c, first, i),
         NEW seg \in Segment, NEW u, u = InputKnown(c, seg)
  PROVE  /\ Handles(c, u, first, i, seg) /\ Listens(c, u.conn, seg)
         /\ \/ Unmoved(c, u.conn)
            \/ c.state = "SynSent" /\ Starts(c, u.conn, seg)
               /\ "SYN" \in seg.flags /\ "RST" \notin seg.flags
            \/ c.state # "SynSent"
  <1>1. c \in Conn
    BY SoundFields
  <1>2. CASE StaleHandshakeAck(c, seg)
    <2>1. u = Open(c, <<ResetFor(seg)>>)
      BY <1>2 DEF InputKnown
    <2>2. QED BY <1>1, <2>1, ShortAnswers, OnlyHandles, UnmovedListens
  <1>3. CASE ~StaleHandshakeAck(c, seg) /\ UnexpectedSyn(c, seg)
    <2>1. u = Open(c, <<AckSegment(c)>>) /\ c.state # "SynSent"
      BY <1>3 DEF InputKnown, UnexpectedSyn
    <2>2. QED BY <1>1, <2>1, ShortAnswers, OnlyHandles, UnmovedListens
  <1>4. CASE ~StaleHandshakeAck(c, seg) /\ ~UnexpectedSyn(c, seg)
    <2>1. u = OnSegment(c, seg)
      BY <1>4 DEF InputKnown
    <2>2. CASE "RST" \in seg.flags
      <3>1. u = OnReset(c, seg)
        BY <2>1, <2>2 DEF OnSegment
      <3>2. QED BY <1>1, <3>1, OnResetSpeaks, OnlyHandles, UnmovedListens
    <2>3. CASE "RST" \notin seg.flags /\ c.state = "SynSent"
      <3>1. u = OnSegmentSynSent(c, seg)
        BY <2>1, <2>3 DEF OnSegment
      <3>2. /\ Speaks(c, u.conn, u.segments, first, i)
            /\ u.conn.accepted = c.accepted /\ u.conn.acked = c.acked
            /\ \/ Unmoved(c, u.conn)
               \/ Starts(c, u.conn, seg) /\ "SYN" \in seg.flags
        BY <2>3, <3>1, SynSentSpeaks
      <3>3. Listens(c, u.conn, seg)
        BY <2>3 DEF Listens, Hears
      <3>4. QED BY <2>3, <3>2, <3>3 DEF Handles
    <2>4. CASE "RST" \notin seg.flags /\ c.state = "SynReceived"
      <3>1. u = OnSegmentSynReceived(c, seg)
        BY <2>1, <2>4 DEF OnSegment
      <3>2. QED BY <2>4, <3>1, SynReceivedSpeaks
    <2>5. CASE "RST" \notin seg.flags /\ c.state \notin Opening
      <3>1. u = OnSegmentSynchronized(c, seg)
        BY <2>1, <2>5 DEF OnSegment, Opening
      <3>2. QED BY <2>5, <3>1, SynchronizedSpeaks DEF Opening
    <2>6. QED BY <2>2, <2>3, <2>4, <2>5 DEF Opening
  <1>5. QED BY <1>2, <1>3, <1>4

\* The client that a SYN-ACK opens hears the stream from its beginning.
LEMMA StartsHears ==
  ASSUME NEW c \in Conn, NEW e, NEW seg \in Segment, Starts(c, e, seg), "SYN" \in seg.flags,
         ~c.read_closed, NEW d \in Views, Spoken(seg, d)
  PROVE  Hears(e, d, 0)
  <1>1. seg.seq = d.first /\ 1 <= d.end
    BY DEF Spoken
  <1>2. Units(e.read_closed) = 0 /\ ~e.read_closed
    BY DEF Starts, Units
  <1>3. 1 + 0 + Units(e.read_closed) = 1 /\ 0 <= d.total
    BY <1>2 DEF Views
  <1>4. QED BY <1>1, <1>2, <1>3 DEF Hears, Starts

-----------------------------------------------------------------------------
(* Creation                                                                *)

\* The stream of a new connection.
NewView(first, i) == [first |-> first, id |-> i, total |-> 0, end |-> 1, over |-> FALSE]

\* A connection that has sent nothing yet and is about to send a SYN with these flags.
Silent(b, first, flags) ==
  /\ "SYN" \in flags /\ "FIN" \notin flags /\ "RST" \notin flags
  /\ b.state \in Opening /\ (b.state = "SynSent" => flags = {"SYN"})
  /\ b.send_una = first /\ b.send_nxt = first /\ b.unacked = <<>> /\ b.send_queue = <<>>
  /\ b.accepted = 0 /\ b.acked = 0 /\ ~b.close_requested

\* What a first SYN leaves and says.
FirstWords(b, u, first, i) ==
  /\ Tells(u.conn, first, i) /\ ViewOf(u.conn, first, i) = NewView(first, i)
  /\ Utters(u.segments, NewView(first, i), {None, b.recv_nxt})
  /\ b.state = "SynSent" => Utters(u.segments, NewView(first, i), {None})
  /\ u.conn.accepted = 0 /\ u.conn.acked = 0 /\ u.conn.state = b.state
  /\ SameReceive(b, u.conn) /\ u.conn.read_closed = b.read_closed

\* A connection that has just sent its SYN.
LEMMA FirstTells ==
  ASSUME NEW b \in Conn, NEW first \in SeqNumber, NEW i \in Nat, NEW flags \in SUBSET Flag,
         2 + ReceiveBuffer < Modulus, Silent(b, first, flags)
  PROVE  FirstWords(b, SendTracked(b, flags, <<>>), first, i)
  <1>a. PICK u : u = SendTracked(b, flags, <<>>)
    OBVIOUS
  <1>b. /\ "SYN" \in flags /\ "FIN" \notin flags /\ "RST" \notin flags
        /\ b.state \in Opening /\ (b.state = "SynSent" => flags = {"SYN"})
        /\ b.send_una = first /\ b.send_nxt = first /\ b.unacked = <<>> /\ b.send_queue = <<>>
        /\ b.accepted = 0 /\ b.acked = 0 /\ ~b.close_requested
    BY DEF Silent
  <1>1. PICK t : t = [seq |-> b.send_nxt, flags |-> flags, data |-> <<>>, transmissions |-> 1]
    OBVIOUS
  <1>2. u = Transmit(b, t)
    BY <1>a, <1>1 DEF SendTracked
  <1>3. t \in TrackedSegment /\ <<>> \in Seq(Byte)
    <2>1. <<>> \in Seq(Byte)
      OBVIOUS
    <2>2. QED BY <1>b, <1>1, <2>1 DEF TrackedSegment
  <1>4. PICK e : e = u.conn
    OBVIOUS
  <1>5. /\ e.send_nxt = TrackedEnd(t) /\ e.unacked = Append(b.unacked, t)
        /\ e.send_una = first /\ e.send_queue = <<>> /\ e.accepted = 0 /\ e.acked = 0
        /\ e.close_requested = b.close_requested /\ e.state = b.state
        /\ SameReceive(b, e) /\ e.read_closed = b.read_closed
        /\ u.segments = <<SegmentFor(b, t)>>
    <2>1. e = [b EXCEPT !.send_nxt = TrackedEnd(t), !.unacked = Append(b.unacked, t)]
      BY <1>b, <1>2, <1>4 DEF Transmit, Open
    <2>2. u.segments = <<SegmentFor(b, t)>>
      BY <1>b, <1>2 DEF Transmit, Open
    <2>3. e.send_nxt = TrackedEnd(t) /\ e.unacked = Append(b.unacked, t)
      BY <1>b, <2>1 DEF Conn
    <2>4. /\ e.send_una = b.send_una /\ e.send_queue = b.send_queue
          /\ e.accepted = b.accepted /\ e.acked = b.acked
          /\ e.close_requested = b.close_requested /\ e.state = b.state
          /\ e.read_closed = b.read_closed
      BY <1>b, <2>1 DEF Conn
    <2>5. SameReceive(b, e)
      BY <1>b, <2>1 DEF Conn, SameReceive
    <2>6. QED BY <1>b, <2>2, <2>3, <2>4, <2>5
  <1>6. e.unacked = <<t>> /\ Len(<<t>>) = 1 /\ <<t>>[1] = t
    BY <1>b, <1>5
  <1>7. e.send_nxt = Plus(first, 1)
    <2>1. Len(<<>>) + Units("SYN" \in flags) + Units("FIN" \in flags) = 1
      BY <1>b DEF Units
    <2>2. QED BY <1>b, <1>1, <1>5, <2>1 DEF TrackedEnd
  <1>8. /\ Distance(first, e.send_nxt) = 1 /\ Distance(first, first) = 0
    <2>1. 1 < Modulus /\ 1 \in Nat
      BY <1>b, ModulusAssumption
    <2>2. QED BY <1>b, <1>7, <2>1, DistanceOfPlus, BeforeOrAfter
  <1>9. ~FinSent(e) /\ Units(FinSent(e)) = 0 /\ ~e.close_requested
    BY <1>b, <1>5 DEF FinSent, Opening, Units
  <1>10. ViewOf(e, first, i) = NewView(first, i)
    BY <1>b, <1>5, <1>8, <1>9 DEF ViewOf, NewView
  <1>11. Spoken(t, NewView(first, i))
    BY <1>b, <1>1 DEF Spoken, NewView
  <1>12. Numbered(e, first)
    <2>1. Len(e.send_queue) = 0 /\ 1 + 0 = 1 + 0 + 0 /\ 0 + 2 + ReceiveBuffer < Modulus
      BY <1>b, <1>5, ConfigAssumption
    <2>2. QED BY <1>b, <1>5, <1>8, <1>9, <2>1 DEF Numbered
  <1>13. QueuedNext(e, first, i) /\ KeptOwn(e, NewView(first, i))
    <2>1. \A k \in 1 .. Len(e.send_queue) : FALSE
      BY <1>b, <1>5
    <2>2. \A k \in 1 .. Len(e.unacked) : e.unacked[k] = t
      BY <1>b, <1>6
    <2>3. QED BY <1>b, <1>11, <2>1, <2>2 DEF QueuedNext, KeptOwn
  <1>14. Confirmed(e, first)
    BY <1>b, <1>5, <1>8 DEF Confirmed, Opening
  <1>15. OnlySyn(e)
    <2>1. \A k \in 1 .. Len(e.unacked) : e.unacked[k] = t
      BY <1>b, <1>6
    <2>2. QED BY <1>b, <1>1, <1>5, <2>1 DEF OnlySyn
  <1>16. Tells(e, first, i)
    BY <1>b, <1>10, <1>12, <1>13, <1>14, <1>15 DEF Tells
  <1>17. /\ Utterance(SegmentFor(b, t), NewView(first, i), {None, b.recv_nxt})
         /\ b.state = "SynSent" => Utterance(SegmentFor(b, t), NewView(first, i), {None})
    <2>1. PICK x : x = SegmentFor(b, t)
      OBVIOUS
    <2>2. /\ x.flags = flags /\ x.seq = first /\ x.data = <<>>
          /\ x.ack = (IF "ACK" \in flags THEN b.recv_nxt ELSE None)
      BY <1>b, <1>1, <2>1 DEF SegmentFor, BuildSegment
    <2>3. Spoken(x, NewView(first, i))
      BY <1>b, <2>2 DEF Spoken, NewView
    <2>4. b.state = "SynSent" => x.ack = None
      BY <1>b, <2>2
    <2>5. QED BY <1>b, <2>1, <2>2, <2>3, <2>4 DEF Utterance
  <1>18. /\ Utters(u.segments, NewView(first, i), {None, b.recv_nxt})
         /\ b.state = "SynSent" => Utters(u.segments, NewView(first, i), {None})
    BY <1>b, <1>5, <1>17, UttersOne
  <1>19. QED BY <1>a, <1>4, <1>5, <1>b, <1>10, <1>16, <1>18 DEF FirstWords
\* A connection that begins a stream and has only sent its SYN.
Begins(u, first, i, acks) ==
  /\ Tells(u.conn, first, i) /\ ViewOf(u.conn, first, i) = NewView(first, i)
  /\ Utters(u.segments, NewView(first, i), acks)
  /\ u.conn.accepted = 0 /\ u.conn.acked = 0 /\ ~u.conn.read_closed

\* Connection::client has heard nothing.
LEMMA ClientBegins ==
  ASSUME NEW first \in SeqNumber, NEW i \in Nat, 2 + ReceiveBuffer < Modulus,
         NEW u, u = Client(first)
  PROVE  Begins(u, first, i, {None}) /\ u.conn.state = "SynSent"
  <1>1. PICK b : b = NewConnection("SynSent", first, 0)
    OBVIOUS
  <1>2. 0 \in SeqNumber /\ 0 \in Nat
    BY ModulusAssumption DEF SeqNumber
  <1>3. b \in SoundConn /\ b.state = "SynSent"
    BY <1>1, <1>2, NewSound DEF State, NewConnection
  <1>4. b \in Conn
    BY <1>3, SoundFields
  <1>5. /\ b.send_una = first /\ b.send_nxt = first /\ b.unacked = <<>> /\ b.send_queue = <<>>
        /\ b.accepted = 0 /\ b.acked = 0 /\ ~b.close_requested /\ ~b.read_closed
    BY <1>1 DEF NewConnection
  <1>6. {"SYN"} \in SUBSET Flag /\ "FIN" \notin {"SYN"} /\ "RST" \notin {"SYN"}
    BY DEF Flag
  <1>7. u = SendTracked(b, {"SYN"}, <<>>)
    BY <1>1 DEF Client
  <1>8. b.state \in Opening
    BY <1>3 DEF Opening
  <1>9. /\ Tells(u.conn, first, i) /\ ViewOf(u.conn, first, i) = NewView(first, i)
        /\ Utters(u.segments, NewView(first, i), {None})
        /\ u.conn.accepted = 0 /\ u.conn.acked = 0 /\ u.conn.state = b.state
        /\ u.conn.read_closed = b.read_closed
    <2>1. PICK flags \in SUBSET Flag : flags = {"SYN"}
      BY <1>6
    <2>2. Silent(b, first, flags)
      BY <1>3, <1>5, <1>6, <1>8, <2>1 DEF Silent
    <2>3. FirstWords(b, SendTracked(b, flags, <<>>), first, i)
      BY <1>4, <2>2, FirstTells
    <2>4. QED BY <1>3, <1>7, <2>1, <2>3 DEF FirstWords
  <1>10. QED BY <1>3, <1>5, <1>9 DEF Begins

\* Connection::server hears the stream its SYN begins.
LEMMA ServerBegins ==
  ASSUME NEW first \in SeqNumber, NEW i \in Nat, 2 + ReceiveBuffer < Modulus,
         NEW syn \in Segment, NEW u, u = Server(syn, first)
  PROVE  /\ Begins(u, first, i, {None, Plus(syn.seq, 1)})
         /\ u.conn.state # "SynSent" /\ u.conn.state \in Opening
         /\ \A d \in Views : "SYN" \in syn.flags /\ Spoken(syn, d) => Hears(u.conn, d, 0)
  <1>1. PICK a : a = NewConnection("SynReceived", first, Plus(syn.seq, 1))
    OBVIOUS
  <1>2. PICK b : b = NegotiateMss(UpdateRemoteWindow(a, syn.window), syn)
    OBVIOUS
  <1>3. Plus(syn.seq, 1) \in SeqNumber /\ syn.window \in WindowSize /\ syn.seq \in SeqNumber
    BY SeqNumberIsNat, PlusType DEF Segment
  <1>4. a \in SoundConn /\ a.state = "SynReceived"
    BY <1>1, <1>3, NewSound DEF State, NewConnection
  <1>5. b \in SoundConn /\ b.state = "SynReceived"
    BY <1>2, <1>3, <1>4, UpdateRemoteWindowSound, NegotiateMssSound
  <1>6. a \in Conn /\ b \in Conn
    BY <1>4, <1>5, SoundFields
  <1>7. /\ a.send_una = first /\ a.send_nxt = first /\ a.unacked = <<>> /\ a.send_queue = <<>>
        /\ a.accepted = 0 /\ a.acked = 0 /\ ~a.close_requested /\ ~a.read_closed
        /\ a.recv_nxt = Plus(syn.seq, 1) /\ a.reassembly = {}
    BY <1>1 DEF NewConnection
  <1>8. /\ b.send_una = a.send_una /\ b.send_nxt = a.send_nxt /\ b.unacked = a.unacked
        /\ b.send_queue = a.send_queue /\ b.accepted = a.accepted /\ b.acked = a.acked
        /\ b.close_requested = a.close_requested /\ b.read_closed = a.read_closed
        /\ b.recv_nxt = a.recv_nxt /\ b.reassembly = a.reassembly
    <2>1. PICK x : x = UpdateRemoteWindow(a, syn.window)
      OBVIOUS
    <2>2. x \in Conn
      BY <1>3, <1>4, <2>1, UpdateRemoteWindowSound, SoundFields
    <2>3. /\ x.send_una = a.send_una /\ x.send_nxt = a.send_nxt /\ x.unacked = a.unacked
          /\ x.send_queue = a.send_queue /\ x.accepted = a.accepted /\ x.acked = a.acked
          /\ x.close_requested = a.close_requested /\ x.read_closed = a.read_closed
          /\ x.recv_nxt = a.recv_nxt /\ x.reassembly = a.reassembly
      BY <1>6, <2>1 DEF UpdateRemoteWindow, Conn
    <2>4. PICK m : b = UseMss(x, m)
      BY <1>2, <2>1 DEF NegotiateMss
    <2>5. /\ b.send_una = x.send_una /\ b.send_nxt = x.send_nxt /\ b.unacked = x.unacked
          /\ b.send_queue = x.send_queue /\ b.accepted = x.accepted /\ b.acked = x.acked
          /\ b.close_requested = x.close_requested /\ b.read_closed = x.read_closed
          /\ b.recv_nxt = x.recv_nxt /\ b.reassembly = x.reassembly
      BY <2>2, <2>4 DEF UseMss, Conn
    <2>6. QED BY <2>3, <2>5
  <1>9. {"SYN", "ACK"} \in SUBSET Flag /\ "FIN" \notin {"SYN", "ACK"} /\ "RST" \notin {"SYN", "ACK"}
    BY DEF Flag
  <1>10. u = SendTracked(b, {"SYN", "ACK"}, <<>>)
    BY <1>1, <1>2 DEF Server
  <1>11. b.state \in Opening /\ b.state # "SynSent"
    BY <1>5 DEF Opening
  <1>12. /\ Tells(u.conn, first, i) /\ ViewOf(u.conn, first, i) = NewView(first, i)
         /\ Utters(u.segments, NewView(first, i), {None, b.recv_nxt})
         /\ u.conn.accepted = 0 /\ u.conn.acked = 0 /\ u.conn.state = b.state
         /\ SameReceive(b, u.conn) /\ u.conn.read_closed = b.read_closed
    <2>1. PICK flags \in SUBSET Flag : flags = {"SYN", "ACK"}
      BY <1>9
    <2>2. Silent(b, first, flags)
      <3>1. /\ b.send_una = first /\ b.send_nxt = first /\ b.unacked = <<>> /\ b.send_queue = <<>>
            /\ b.accepted = 0 /\ b.acked = 0 /\ ~b.close_requested
        BY <1>7, <1>8
      <3>2. QED BY <1>9, <1>11, <2>1, <3>1 DEF Silent
    <2>3. FirstWords(b, SendTracked(b, flags, <<>>), first, i)
      BY <1>6, <2>2, FirstTells
    <2>4. QED BY <1>10, <2>1, <2>3 DEF FirstWords
  <1>13. Begins(u, first, i, {None, Plus(syn.seq, 1)})
    BY <1>7, <1>8, <1>12 DEF Begins
  <1>14. ASSUME NEW d \in Views, "SYN" \in syn.flags, Spoken(syn, d)
         PROVE  Hears(u.conn, d, 0)
    <2>1. syn.seq = d.first /\ 1 <= d.end
      BY <1>14 DEF Spoken
    <2>2. /\ u.conn.recv_nxt = Plus(d.first, 1) /\ u.conn.reassembly = {}
          /\ ~u.conn.read_closed
      BY <1>7, <1>8, <1>12, <2>1 DEF SameReceive
    <2>3. Units(u.conn.read_closed) = 0
      BY <2>2 DEF Units
    <2>4. 1 + 0 + Units(u.conn.read_closed) = 1 /\ 0 <= d.total
      BY <2>3 DEF Views
    <2>5. QED BY <1>11, <1>12, <2>1, <2>2, <2>4 DEF Hears
  <1>15. QED BY <1>11, <1>12, <1>13, <1>14

\* What is heard of a stream stays heard as the stream grows.
LEMMA HearsGrows ==
  ASSUME NEW c \in Conn, NEW d \in Views, NEW e \in Views, Grows(d, e), NEW got \in Nat,
         Hears(c, d, got)
  PROVE  Hears(c, e, got)
  <1>1. ASSUME NEW r \in c.reassembly
        PROVE  Told(r.seq, r.data, r.fin, e)
    <2>1. c.reassembly \in SUBSET ReassemblySegment
      BY DEF Conn, FiniteSubsets
    <2>2. r.data \in Seq(Byte)
      BY <2>1 DEF ReassemblySegment
    <2>3. Told(r.seq, r.data, r.fin, d)
      BY DEF Hears
    <2>4. QED BY <2>2, <2>3, ToldGrows
  <1>2. e.first = d.first /\ d.total <= e.total /\ d.end <= e.end
        /\ (d.over => e.over /\ e.total = d.total)
    BY DEF Grows
  <1>3. d.total \in Nat /\ e.total \in Nat /\ d.end \in Nat /\ e.end \in Nat
    BY DEF Views
  <1>4. Units(c.read_closed) \in Nat
    BY DEF Units
  <1>5. got <= e.total /\ 1 + got + Units(c.read_closed) <= e.end
    BY <1>2, <1>3, <1>4 DEF Hears
  <1>6. c.read_closed => got = e.total /\ e.over
    BY <1>2 DEF Hears
  <1>7. QED BY <1>1, <1>2, <1>5, <1>6 DEF Hears
-----------------------------------------------------------------------------
(* Only close() ends what an application may write                         *)

\* The application may still write, now or once the handshake is over.
Willing(c) ==
  c.state \in {"SynSent", "SynReceived", "Established", "CloseWait"} /\ ~c.close_requested

StaysWilling(c, d) == Willing(c) => Willing(d)

\* flush_data sends a FIN only after close().
LEMMA FlushWilling ==
  ASSUME NEW c \in SoundConn
  PROVE  StaysWilling(c, FlushData(c).conn) /\ (Willing(c) => ~FlushData(c).closed)
  <1>1. c \in Conn
    BY SoundFields
  <1>2. SUFFICES ASSUME Willing(c) PROVE Willing(FlushData(c).conn) /\ ~FlushData(c).closed
    BY DEF StaysWilling
  <1>3. ASSUME NEW total, NEW chunks
        PROVE  /\ SendChunks(c, total, chunks).conn.state = c.state
               /\ SendChunks(c, total, chunks).conn.close_requested = c.close_requested
               /\ SendChunks(c, total, chunks).closed = FALSE
    BY <1>1 DEF SendChunks, Open, Conn
  <1>4. PICK total, chunks : FlushData(c) \in {Open(c, <<>>), SendChunks(c, total, chunks)}
    BY <1>2 DEF FlushData, FlushUpTo, Willing
  <1>5. Open(c, <<>>).conn = c /\ Open(c, <<>>).closed = FALSE
    BY DEF Open
  <1>6. QED BY <1>2, <1>3, <1>4, <1>5 DEF Willing

\* Nor does a retransmission end it.
LEMMA RetransmitWilling ==
  ASSUME NEW c \in Conn, NEW timeout \in BOOLEAN
  PROVE  StaysWilling(c, RetransmitOldest(c, timeout).conn)
  BY DEF RetransmitOldest, Open, StaysWilling, Willing, Conn

\* Nor does an ACK, duplicate or new.
LEMMA ApplyAckWilling ==
  ASSUME NEW c \in SoundConn, NEW ack \in SeqNumber, NEW candidate \in BOOLEAN
  PROVE  StaysWilling(c, ApplyAck(c, ack, candidate).conn)
  <1>1. c \in Conn
    BY SoundFields
  <1>2. StaysWilling(c, CountDuplicate(c)) /\ CountDuplicate(c) \in Conn
    <2>1. PICK reno : reno = RenoOnDuplicateAck(c.reno, c.mss)
      OBVIOUS
    <2>2. PICK n : n = CountUp(c.duplicate_acks)
      OBVIOUS
    <2>3. reno \in Controller /\ n \in Nat
      BY <1>1, <2>1, <2>2, RenoTypes, CountUpType DEF Conn
    <2>4. CountDuplicate(c) = [c EXCEPT !.duplicate_acks = n, !.reno = reno]
      BY <1>1, <2>1, <2>2 DEF CountDuplicate
    <2>5. QED BY <1>1, <2>3, <2>4 DEF Conn, StaysWilling, Willing
  <1>3. StaysWilling(c, FastLoss(CountDuplicate(c))) /\ FastLoss(CountDuplicate(c)) \in Conn
    <2>1. PICK d : d = CountDuplicate(c)
      OBVIOUS
    <2>2. d \in Conn
      BY <1>2, <2>1
    <2>3. InFlight(d) \in Nat
      BY <2>2, InFlightType
    <2>4. PICK reno : reno = RenoOnFastLoss(d.reno, d.mss, InFlight(d))
      OBVIOUS
    <2>5. reno \in Controller
      BY <2>2, <2>3, <2>4, RenoOnLossTypes DEF Conn
    <2>6. FastLoss(d) = [d EXCEPT !.reno = reno]
      BY <2>2, <2>4 DEF FastLoss
    <2>7. FastLoss(d) \in Conn /\ StaysWilling(d, FastLoss(d))
      BY <2>2, <2>5, <2>6 DEF Conn, StaysWilling, Willing
    <2>8. QED BY <1>2, <2>1, <2>7 DEF StaysWilling, Willing
  <1>4. StaysWilling(c, ApplyDuplicateAck(c, candidate).conn)
    <2>1. StaysWilling(c, Open([c EXCEPT !.duplicate_acks = 0], <<>>).conn)
      BY <1>1 DEF Open, StaysWilling, Willing, Conn
    <2>2. StaysWilling(c, Open(CountDuplicate(c), <<>>).conn)
      BY <1>2 DEF Open
    <2>3. StaysWilling(c, RetransmitOldest(FastLoss(CountDuplicate(c)), FALSE).conn)
      <3>1. StaysWilling(FastLoss(CountDuplicate(c)),
                        RetransmitOldest(FastLoss(CountDuplicate(c)), FALSE).conn)
        BY <1>3, RetransmitWilling
      <3>2. QED BY <1>3, <3>1 DEF StaysWilling, Willing
    <2>4. QED BY <2>1, <2>2, <2>3 DEF ApplyDuplicateAck
  <1>5. StaysWilling(c, ApplyNewAck(c, ack))
    <2>1. ASSUME NEW rest, NEW bytes PROVE StaysWilling(c, Acknowledge(c, ack, rest, bytes))
      BY <1>1 DEF Acknowledge, StaysWilling, Willing, Conn
    <2>2. QED BY <2>1 DEF ApplyNewAck, AckSplit
  <1>6. ApplyAck(c, ack, candidate).conn \in {c, ApplyDuplicateAck(c, candidate).conn,
                                              ApplyNewAck(c, ack)}
    BY DEF ApplyAck, Open
  <1>7. QED BY <1>4, <1>5, <1>6 DEF StaysWilling, Willing

\* Nor does what follows an ACK in on_segment.
LEMMA OnAckWilling ==
  ASSUME NEW c \in SoundConn, c.state \notin Opening, NEW seg \in Segment, seg.ack # None
  PROVE  StaysWilling(c, OnAck(c, seg).conn)
  <1>1. seg.ack \in SeqNumber /\ seg.window \in WindowSize
    BY DEF Segment
  <1>2. PICK candidate : candidate = IsDuplicateAckCandidate(seg, c.send_una, c.remote_window)
    OBVIOUS
  <1>3. candidate \in BOOLEAN
    BY <1>2 DEF IsDuplicateAckCandidate
  <1>4. PICK u : u = ApplyAck(c, seg.ack, candidate)
    OBVIOUS
  <1>5. u \in SoundUpdate /\ u.conn \in SoundConn /\ u.conn.state \notin Opening
        /\ StaysWilling(c, u.conn)
    BY <1>1, <1>3, <1>4, ApplyAckSound, ApplyAckWilling, SoundFields
  <1>6. PICK fin : fin = FinAcked(c, seg)
    OBVIOUS
  <1>7. PICK n : n = NoteFinAcked(u.conn, fin)
    OBVIOUS
  <1>8. n \in SoundConn /\ StaysWilling(u.conn, n)
    <2>1. u.conn \in Conn /\ fin \in BOOLEAN
      BY <1>5, <1>6, SoundFields DEF FinAcked
    <2>2. StaysWilling(u.conn, n)
      BY <1>7, <2>1 DEF NoteFinAcked, AfterFinAcked, StaysWilling, Willing, Conn
    <2>3. QED BY <1>5, <1>7, <2>1, <2>2, NoteFinAckedSound
  <1>9. PICK d : d = NoteWindow(n, seg)
    OBVIOUS
  <1>10. d \in SoundConn /\ StaysWilling(n, d)
    <2>1. n \in Conn
      BY <1>8, SoundFields
    <2>2. StaysWilling(n, d)
      BY <1>9, <2>1 DEF NoteWindow, UpdateRemoteWindow, StaysWilling, Willing, Conn
    <2>3. QED BY <1>8, <1>9, <2>2, NoteWindowSound
  <1>11. RepairTimedOutFlight(d) \in Update /\ StaysWilling(d, RepairTimedOutFlight(d).conn)
    <2>1. d \in Conn
      BY <1>10, SoundFields
    <2>2. StaysWilling(d, RetransmitOldest(d, FALSE).conn)
      BY <2>1, RetransmitWilling
    <2>3. StaysWilling(d, Open(d, <<>>).conn)
      BY DEF Open, StaysWilling, Willing
    <2>4. QED BY <2>1, <2>2, <2>3, RepairTimedOutFlightType DEF RepairTimedOutFlight
  <1>12. Open(d, <<>>) \in Update /\ Open(d, <<>>).conn = d
    BY <1>10, SoundFields, NoSegments, OpenType DEF Open
  <1>13. AndRepair(u, c, seg).conn \in {d, RepairTimedOutFlight(d).conn}
    BY <1>6, <1>7, <1>9, <1>11, <1>12, ThenLeaves DEF AndRepair
  <1>14. OnAck(c, seg).conn \in {u.conn, d, RepairTimedOutFlight(d).conn}
    <2>1. Closed(u.conn, u.segments).conn = u.conn
      BY DEF Closed
    <2>2. QED BY <1>2, <1>4, <1>13, <2>1 DEF OnAck, OnApplied
  <1>15. QED BY <1>5, <1>8, <1>10, <1>11, <1>14 DEF StaysWilling, Willing

\* Nor does what arrives.
LEMMA ReceiveWilling ==
  ASSUME NEW c \in SoundConn, NEW seg \in Segment
  PROVE  StaysWilling(c, ReceiveStreamData(c, seg).conn)
  <1>1. CASE seg.data = <<>> /\ "FIN" \notin seg.flags
    BY <1>1 DEF ReceiveStreamData, Open, StaysWilling
  <1>2. CASE ~(seg.data = <<>> /\ "FIN" \notin seg.flags)
    <2>1. PICK x : x = InsertReceived(c, seg.seq, seg.data, "FIN" \in seg.flags)
      OBVIOUS
    <2>2. x \in Conn /\ c \in Conn
      <3>1. seg.seq \in SeqNumber /\ seg.data \in Seq(Byte) /\ c \in Conn
        BY SoundFields DEF Segment
      <3>2. ("FIN" \in seg.flags) \in BOOLEAN
        OBVIOUS
      <3>3. PICK fin \in BOOLEAN : fin = ("FIN" \in seg.flags)
        BY <3>2
      <3>4. x = InsertReceived(c, seg.seq, seg.data, fin)
        BY <2>1, <3>3
      <3>5. QED BY <3>1, <3>4, InsertReceivedType
    <2>3. x.state = c.state /\ x.close_requested = c.close_requested
      <3>1. ASSUME NEW chunk
            PROVE  /\ FileChunk(c, chunk).state = c.state
                   /\ FileChunk(c, chunk).close_requested = c.close_requested
        BY <2>2 DEF FileChunk, Conn
      <3>2. QED BY <2>1, <3>1 DEF InsertReceived
    <2>4. PICK run, fin, next : DrainReassembly(x) = TakeIn(x, run, fin, next)
      BY DEF DrainReassembly, DrainRun, TakeRun
    <2>5. /\ TakeIn(x, run, fin, next).close_requested = x.close_requested
          /\ TakeIn(x, run, fin, next).state = IF fin THEN AfterRemoteFin(x.state) ELSE x.state
      BY <2>2 DEF TakeIn, Conn
    <2>6. ReceiveStreamData(c, seg).conn = DrainReassembly(x)
      BY <1>2, <2>1 DEF ReceiveStreamData, AndAcknowledge, Open
    <2>7. QED BY <2>3, <2>4, <2>5, <2>6 DEF StaysWilling, Willing, AfterRemoteFin
  <1>3. QED BY <1>1, <1>2

\* Nor does the handshake.
LEMMA OpeningWilling ==
  ASSUME NEW c \in SoundConn, NEW seg \in Segment
  PROVE  /\ c.state = "SynSent" => StaysWilling(c, OnSegmentSynSent(c, seg).conn)
         /\ c.state = "SynReceived" => StaysWilling(c, OnSegmentSynReceived(c, seg).conn)
  <1>1. seg.window \in WindowSize /\ c.send_nxt \in SeqNumber /\ c \in Conn
        /\ Plus(seg.seq, 1) \in SeqNumber
    <2>1. seg.seq \in SeqNumber /\ seg.window \in WindowSize
      BY DEF Segment
    <2>2. QED BY <2>1, SoundFields, SeqNumberIsNat, PlusType DEF Conn
  <1>2. /\ StaysWilling(c, Open(c, <<>>).conn)
        /\ StaysWilling(c, RetransmitOldest(c, FALSE).conn)
    BY <1>1, RetransmitWilling DEF Open, StaysWilling
  <1>3. ASSUME c.state = "SynSent"
        PROVE  StaysWilling(c, OnSegmentSynSent(c, seg).conn)
    <2>1. PICK b : b = UpdateRemoteWindow(c, seg.window)
      OBVIOUS
    <2>2. PICK d : d = NegotiateMss(b, seg)
      OBVIOUS
    <2>3. b \in SoundConn /\ b \in Conn /\ d \in SoundConn /\ d \in Conn
      BY <1>1, <2>1, <2>2, UpdateRemoteWindowSound, NegotiateMssSound, SoundFields
    <2>4. StaysWilling(c, b)
      BY <1>1, <2>1 DEF UpdateRemoteWindow, Conn, StaysWilling, Willing
    <2>5. StaysWilling(b, d)
      <3>1. PICK m : d = UseMss(b, m)
        BY <2>2 DEF NegotiateMss
      <3>2. d.state = b.state /\ d.close_requested = b.close_requested
        BY <2>3, <3>1 DEF UseMss, Conn
      <3>3. QED BY <3>2 DEF StaysWilling, Willing
    <2>6. d.send_nxt \in SeqNumber /\ FALSE \in BOOLEAN
      BY <2>3 DEF Conn
    <2>7. PICK e : e = ApplyAck(d, d.send_nxt, FALSE).conn
      OBVIOUS
    <2>8. StaysWilling(d, e) /\ e \in Conn
      BY <2>3, <2>6, <2>7, ApplyAckWilling, ApplyAckSound, SoundFields
    <2>9. PICK f : f = [e EXCEPT !.recv_nxt = Plus(seg.seq, 1), !.state = "Established"]
      OBVIOUS
    <2>10. StaysWilling(e, f)
      BY <2>8, <2>9 DEF Conn, StaysWilling, Willing
    <2>11. StaysWilling(c, f)
      BY <2>4, <2>5, <2>8, <2>10 DEF StaysWilling
    <2>12. OnSegmentSynSent(c, seg).conn \in {c, f}
      <3>1. b.send_nxt = c.send_nxt
        BY <1>1, <2>1 DEF UpdateRemoteWindow, Conn
      <3>2. PICK m : d = UseMss(b, m)
        BY <2>2 DEF NegotiateMss
      <3>3. d.send_nxt = c.send_nxt
        BY <2>3, <3>1, <3>2 DEF UseMss, Conn
      <3>4. e = ApplyAck(NegotiateMss(UpdateRemoteWindow(c, seg.window), seg),
                         c.send_nxt, FALSE).conn
        BY <2>1, <2>2, <2>7, <3>3
      <3>5. PICK g : g = AndAcknowledge(f)
        OBVIOUS
      <3>6. OnSegmentSynSent(c, seg) \in {Open(c, <<>>), g}
        BY <2>9, <3>4, <3>5 DEF OnSegmentSynSent
      <3>7. g.conn = f /\ Open(c, <<>>).conn = c
        BY <3>5 DEF AndAcknowledge, Open
      <3>8. QED BY <3>6, <3>7
    <2>13. QED BY <2>11, <2>12 DEF StaysWilling
  <1>4. ASSUME c.state = "SynReceived"
        PROVE  StaysWilling(c, OnSegmentSynReceived(c, seg).conn)
    <2>1. PICK a : a = ApplyAck(c, c.send_nxt, FALSE).conn
      OBVIOUS
    <2>2. StaysWilling(c, a) /\ a \in SoundConn /\ a \in Conn /\ a.state = "SynReceived"
      BY <1>1, <1>4, <2>1, ApplyAckWilling, ApplyAckSound, SoundFields
    <2>3. PICK b : b = UpdateRemoteWindow(a, seg.window)
      OBVIOUS
    <2>4. b \in SoundConn /\ b \in Conn /\ b.state = "SynReceived"
      BY <1>1, <2>2, <2>3, UpdateRemoteWindowSound, SoundFields
    <2>5. StaysWilling(a, b)
      BY <2>2, <2>3 DEF UpdateRemoteWindow, Conn, StaysWilling, Willing
    <2>6. PICK f : f = [b EXCEPT !.state = "Established"]
      OBVIOUS
    <2>7. StaysWilling(b, f)
      BY <2>4, <2>6 DEF Conn, StaysWilling, Willing
    <2>8. f \in SoundConn /\ f.state # "SynSent"
      <3>1. PICK next \in SeqNumber : next = Plus(seg.seq, 1)
        BY <1>1
      <3>2. f.state = "Established"
        BY <2>4, <2>6 DEF Conn
      <3>3. f \in SoundConn
        BY <2>4, <2>6, InStateSound DEF State, Opening
      <3>4. QED BY <3>2, <3>3
    <2>9. PICK r : r = ReceiveStreamData(f, seg)
      OBVIOUS
    <2>10. StaysWilling(f, r.conn) /\ r \in SoundUpdate /\ r.conn \in SoundConn
      BY <2>8, <2>9, ReceiveWilling, ReceiveStreamDataSound, SoundFields
    <2>11. StaysWilling(r.conn, FlushData(r.conn).conn)
      BY <2>10, FlushWilling
    <2>12. AndFlush(r).conn = FlushData(r.conn).conn
      <3>1. FlushData(r.conn) \in Update
        BY <2>10, FlushDataSound, SoundFields
      <3>2. QED BY <3>1, ThenLeaves DEF AndFlush
    <2>13. StaysWilling(c, AndFlush(r).conn)
      BY <2>2, <2>5, <2>7, <2>10, <2>11, <2>12 DEF StaysWilling
    <2>14. OnHandshakeAck(c, seg) = AndFlush(r)
      BY <2>1, <2>3, <2>6, <2>9 DEF OnHandshakeAck
    <2>15. [AndFlush(r) EXCEPT !.accepted = TRUE].conn = AndFlush(r).conn
      <3>1. AndFlush(r) \in Update
        BY <2>10, AndFlushSound, SoundFields
      <3>2. QED BY <3>1 DEF Update
    <2>16. OnSegmentSynReceived(c, seg).conn \in
             {Open(c, <<>>).conn, RetransmitOldest(c, FALSE).conn, AndFlush(r).conn}
      BY <2>14, <2>15 DEF OnSegmentSynReceived
    <2>17. QED BY <1>2, <2>13, <2>16
  <1>5. QED BY <1>3, <1>4

\* No segment ends what the application may write.
LEMMA InputWilling ==
  ASSUME NEW c \in SoundConn, NEW seg \in Segment
  PROVE  StaysWilling(c, InputKnown(c, seg).conn)
  <1>1. StaysWilling(c, c)
    BY DEF StaysWilling
  <1>2. ASSUME c.state \notin Opening
        PROVE  StaysWilling(c, OnSegmentSynchronized(c, seg).conn)
    <2>1. PICK u : u = IF seg.ack = None THEN Open(c, <<>>) ELSE OnAck(c, seg)
      OBVIOUS
    <2>2. /\ u \in SoundUpdate /\ u.conn \in SoundConn /\ u.conn.state # "SynSent"
          /\ StaysWilling(c, u.conn)
      <3>1. CASE seg.ack = None
        <4>1. u.conn = c
          BY <2>1, <3>1 DEF Open
        <4>2. QED BY <1>1, <1>2, <2>1, <3>1, <4>1, NoSegments, OpenSound DEF Opening
      <3>2. CASE seg.ack # None
        BY <1>2, <2>1, <3>2, OnAckSound, OnAckWilling, SoundFields DEF Opening
      <3>3. QED BY <3>1, <3>2
    <2>3. PICK r : r = ReceiveStreamData(u.conn, seg)
      OBVIOUS
    <2>4. /\ r \in SoundUpdate /\ r \in Update /\ r.conn \in SoundConn
          /\ StaysWilling(u.conn, r.conn)
      BY <2>2, <2>3, ReceiveStreamDataSound, ReceiveWilling, SoundFields
    <2>5. PICK v : v = AndReceive(u, seg)
      OBVIOUS
    <2>6. v.conn = r.conn
      BY <2>3, <2>4, <2>5, ThenLeaves DEF AndReceive
    <2>7. FlushData(r.conn) \in Update /\ StaysWilling(r.conn, FlushData(r.conn).conn)
      BY <2>4, FlushDataSound, FlushWilling, SoundFields
    <2>8. AndFlush(v).conn = FlushData(r.conn).conn
      BY <2>6, <2>7, ThenLeaves DEF AndFlush
    <2>9. OnSegmentSynchronized(c, seg) \in {u, AndFlush(v)}
      BY <2>1, <2>5 DEF OnSegmentSynchronized, Continue
    <2>10. QED BY <2>2, <2>4, <2>7, <2>8, <2>9 DEF StaysWilling
  <1>3. OnReset(c, seg).conn = c
    BY DEF OnReset, Open, Closed
  <1>4. c.state \in Opening <=> c.state \in {"SynSent", "SynReceived"}
    BY DEF Opening
  <1>5. StaysWilling(c, OnSegment(c, seg).conn)
    BY <1>1, <1>2, <1>3, <1>4, OpeningWilling DEF OnSegment
  <1>6. InputKnown(c, seg).conn \in {c, OnSegment(c, seg).conn}
    BY DEF InputKnown, Open
  <1>7. QED BY <1>1, <1>5, <1>6

\* write leaves the connection open and willing.
LEMMA WriteWilling ==
  ASSUME NEW c \in SoundConn, Writable(c), NEW data \in Seq(Byte)
  PROVE  Willing(Write(c, data).conn) /\ ~Write(c, data).closed
  <1>1. c \in Conn /\ Len(data) \in Nat
    BY SoundFields
  <1>2. PICK n : n = WriteAccepts(c, Len(data))
    OBVIOUS
  <1>3. PICK d : d = Accept(c, data, n)
    OBVIOUS
  <1>4. d \in SoundConn
    BY <1>1, <1>2, <1>3, AcceptSound
  <1>5. Willing(d)
    BY <1>1, <1>3 DEF Accept, Writable, Willing, Conn
  <1>6. QED BY <1>2, <1>3, <1>4, <1>5, FlushWilling DEF Write, StaysWilling
=============================================================================
