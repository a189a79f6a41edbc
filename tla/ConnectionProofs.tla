------------------------- MODULE ConnectionProofs -------------------------
(***************************************************************************)
(* What one connection's queues add up to, and that every method keeps its *)
(* types and its books.                                                    *)
(*                                                                         *)
(* The first part has one lemma per operator of Connection.tla that takes  *)
(* a connection to a connection: its sequence numbers stay words, its      *)
(* counters natural, its queues sequences of bytes, and the segments it    *)
(* emits are well formed.                                                  *)
(*                                                                         *)
(* The second is about the operators the books are written with: sequence  *)
(* arithmetic as places on a circle, the bytes of a queue of segments,     *)
(* queues that tile a stretch of sequence numbers, and the segments        *)
(* flush_data cuts. PayloadBytes and HeldBytes count bytes as the cells    *)
(* of a family of sets, one cell for each byte of each member, so          *)
(* appending, cutting, replacing and taking out members become facts about *)
(* disjoint unions and bijections.                                         *)
(*                                                                         *)
(* SoundConn says what the books are: on the send side the transmission    *)
(* budget, the tiling of [send_una, send_nxt) by the retransmission queue  *)
(* and the ledger of accepted bytes; on the receive side the bound on the  *)
(* buffer and where chunks may lie; in the handshake, that nothing was     *)
(* written or closed yet.                                                  *)
(*                                                                         *)
(* Settled adds what callers rely on between two steps: a connection that  *)
(* is not removed has nothing left that flow and congestion control would  *)
(* let out (Idle). Either part needs the other's fields, so each method    *)
(* has one lemma for all of it.                                            *)
(***************************************************************************)
EXTENDS Connection, TLAPS, FiniteSetTheorems, SequenceTheorems, WellFoundedInduction

-----------------------------------------------------------------------------
(* Arithmetic                                                              *)

\* wrapping_add stays a word.
LEMMA PlusType ==
  ASSUME NEW seq \in Nat, NEW count \in Nat
  PROVE  Plus(seq, count) \in SeqNumber
  BY ModulusAssumption DEF Plus, SeqNumber

\* The distance from one word to another is a natural number below Modulus.
LEMMA DistanceType ==
  ASSUME NEW start \in SeqNumber, NEW end \in SeqNumber
  PROVE  Distance(start, end) \in Nat
  BY ModulusAssumption DEF Distance, SeqNumber

\* Words are natural numbers.
LEMMA SeqNumberIsNat == \A seq \in SeqNumber : seq \in Nat
  BY ModulusAssumption DEF SeqNumber

\* Zero, the recv_nxt of a client before the SYN-ACK, is a word.
LEMMA ZeroIsSeqNumber == 0 \in SeqNumber
  BY ModulusAssumption DEF SeqNumber

\* min of two natural numbers is one of them.
LEMMA SmallerType ==
  ASSUME NEW a \in Nat, NEW b \in Nat
  PROVE  /\ Smaller(a, b) \in Nat
         /\ Smaller(a, b) <= a /\ Smaller(a, b) <= b
  BY DEF Smaller

\* max of two natural numbers is one of them.
LEMMA LargerType ==
  ASSUME NEW a \in Nat, NEW b \in Nat
  PROVE  /\ Larger(a, b) \in Nat
         /\ Larger(a, b) >= a /\ Larger(a, b) >= b
  BY DEF Larger

\* saturating_sub never goes below zero.
LEMMA SaturatingSubType ==
  ASSUME NEW a \in Nat, NEW b \in Nat
  PROVE  SaturatingSub(a, b) \in Nat
  BY DEF SaturatingSub

\* A saturating u8 counter stays a natural number.
LEMMA CountUpType ==
  ASSUME NEW n \in Nat
  PROVE  CountUp(n) \in Nat
  BY DEF CountUp, Smaller

\* A length and one SYN or FIN add up to a natural number.
LEMMA UnitAdded ==
  ASSUME NEW n \in Nat, NEW b
  PROVE  n + Units(b) \in Nat
  BY DEF Units

\* So do a length, a SYN and a FIN (TrackedSegment::end).
LEMMA UnitsAdded ==
  ASSUME NEW n \in Nat, NEW a, NEW b
  PROVE  n + Units(a) + Units(b) \in Nat
  BY DEF Units

\* A quotient of natural numbers is one (Reno's growth, the count of chunks).
LEMMA QuotientType ==
  ASSUME NEW a \in Nat, NEW b \in Nat \ {0}
  PROVE  a \div b \in Nat
  OBVIOUS

\* A set of natural numbers has a least element.
LEMMA Least ==
  ASSUME NEW T \in SUBSET Nat, T # {}
  PROVE  \E m \in T : \A n \in T : m <= n
  <1>1. PICK m \in T : \A n \in T : <<n, m>> \notin OpToRel(<, Nat)
    BY NatLessThanWellFounded, WFMin
  <1>2. \A n \in T : ~(n < m)
    BY <1>1 DEF OpToRel
  <1>3. QED BY <1>2

-----------------------------------------------------------------------------
(* Sequences and sums                                                      *)

\* Cutting a queue keeps the type of its elements.
LEMMA SubSeqType ==
  ASSUME NEW S, NEW s \in Seq(S), NEW m \in Nat \ {0}, NEW n \in Nat, n <= Len(s)
  PROVE  SubSeq(s, m, n) \in Seq(S)
  OBVIOUS

\* A union of finitely many finite sets, given as a family, is finite.
LEMMA FiniteFamily ==
  ASSUME NEW I, IsFiniteSet(I), NEW f, f = [i \in I |-> f[i]],
         \A i \in I : IsFiniteSet(f[i])
  PROVE  IsFiniteSet(UNION {f[i] : i \in I})
  <1>1. f \in Surjection(I, {f[i] : i \in I})
    BY DEF Surjection
  <1>2. IsFiniteSet({f[i] : i \in I})
    BY <1>1, FS_Surjection
  <1>3. QED BY <1>2, FS_UNION

\* 1 .. n is finite and has n elements.
LEMMA PrefixIsFinite ==
  ASSUME NEW n \in Nat
  PROVE  IsFiniteSet(1 .. n) /\ Cardinality(1 .. n) = n
  BY FS_Interval

\* A set of counts that holds 1 .. n for each n it holds is an interval.
LEMMA DownwardClosed ==
  ASSUME NEW N \in Nat, NEW K \in SUBSET (1 .. N),
         \A n \in K : 1 .. n \subseteq K
  PROVE  Cardinality(K) \in Nat /\ K = 1 .. Cardinality(K)
  <1> DEFINE T == {n \in Nat \ {0} : n \notin K}
  <1>1. N + 1 \in T /\ T \in SUBSET Nat
    OBVIOUS
  <1>2. PICK m \in T : \A n \in T : m <= n
    BY <1>1, Least
  <1>3. m - 1 \in Nat /\ K = 1 .. m - 1
    <2>1. m \in Nat \ {0} /\ m \notin K
      BY <1>2
    <2>2. ASSUME NEW n \in 1 .. m - 1 PROVE n \in K
      BY <1>2, <2>1
    <2>3. ASSUME NEW n \in K PROVE n \in 1 .. m - 1
      <3>1. n \in 1 .. N /\ 1 .. n \subseteq K
        OBVIOUS
      <3>2. m \notin 1 .. n
        BY <2>1, <3>1
      <3>3. QED BY <2>1, <3>1, <3>2
    <2>4. m - 1 \in Nat
      BY <2>1
    <2>5. 1 .. m - 1 \subseteq K /\ K \subseteq 1 .. m - 1
      BY <2>2, <2>3
    <2>6. QED BY <2>4, <2>5
  <1>4. Cardinality(K) = m - 1
    BY <1>3, PrefixIsFinite
  <1>5. QED BY <1>3, <1>4

\* How often a value occurs in a queue is a positive number.
LEMMA OccurrencesType ==
  ASSUME NEW n \in Nat, NEW A \in SUBSET (1 .. n), A # {}
  PROVE  Cardinality(A) \in Nat /\ Cardinality(A) > 0
  <1>1. IsFiniteSet(1 .. n)
    BY PrefixIsFinite
  <1>2. IsFiniteSet(A)
    BY <1>1, FS_Subset
  <1>3. Cardinality(A) \in Nat /\ Cardinality(A) # 0
    BY <1>2, FS_CardinalityType, FS_EmptySet
  <1>4. QED BY <1>3

\* The payload of a queue of segments is a natural number of bytes.
LEMMA PayloadBytesType ==
  ASSUME NEW segs, NEW n \in Nat, DOMAIN segs = 1 .. n,
         \A i \in 1 .. n : segs[i].data \in Seq(Byte)
  PROVE  PayloadBytes(segs) \in Nat
  <1> DEFINE f == [i \in 1 .. n |-> {i} \X (1 .. Len(segs[i].data))]
  <1>1. IsFiniteSet(1 .. n)
    BY FS_Interval
  <1>2. ASSUME NEW i \in 1 .. n PROVE IsFiniteSet(f[i])
    <2>1. Len(segs[i].data) \in Nat
      OBVIOUS
    <2>2. IsFiniteSet(1 .. Len(segs[i].data)) /\ IsFiniteSet({i})
      BY <2>1, PrefixIsFinite, FS_Singleton
    <2>3. QED BY <2>2, FS_Product
  <1>3. IsFiniteSet(UNION {f[i] : i \in 1 .. n})
    <2> HIDE DEF f
    <2>1. f = [i \in 1 .. n |-> f[i]]
      BY DEF f
    <2>2. QED BY <1>1, <1>2, <2>1, FiniteFamily
  <1>4. UNION {f[i] : i \in 1 .. n} = UNION {{i} \X (1 .. Len(segs[i].data)) : i \in DOMAIN segs}
    OBVIOUS
  <1>5. QED BY <1>3, <1>4, FS_CardinalityType DEF PayloadBytes

\* So is the payload the reassembly table holds.
LEMMA HeldBytesType ==
  ASSUME NEW c \in Conn
  PROVE  HeldBytes(c) \in Nat
  <1> DEFINE f == [r \in c.reassembly |-> {r} \X (1 .. Len(r.data))]
  <1>1. IsFiniteSet(c.reassembly) /\ c.reassembly \subseteq ReassemblySegment
    BY DEF Conn, FiniteSubsets
  <1>2. ASSUME NEW r \in c.reassembly PROVE IsFiniteSet(f[r])
    <2>1. Len(r.data) \in Nat
      BY <1>1 DEF ReassemblySegment
    <2>2. IsFiniteSet(1 .. Len(r.data)) /\ IsFiniteSet({r})
      BY <2>1, PrefixIsFinite, FS_Singleton
    <2>3. QED BY <2>2, FS_Product
  <1>3. IsFiniteSet(UNION {f[r] : r \in c.reassembly})
    <2> HIDE DEF f
    <2>1. f = [r \in c.reassembly |-> f[r]]
      BY DEF f
    <2>2. QED BY <1>1, <1>2, <2>1, FiniteFamily
  <1>4. QED BY <1>3, FS_CardinalityType DEF HeldBytes

\* send_nxt - send_una is a natural number.
LEMMA InFlightType ==
  ASSUME NEW c \in Conn
  PROVE  InFlight(c) \in Nat
  BY DistanceType DEF Conn, InFlight

\* available_window never goes below zero.
LEMMA AvailableWindowType ==
  ASSUME NEW c \in Conn
  PROVE  AvailableWindow(c) \in Nat
  <1>1. Len(c.recv_queue) + HeldBytes(c) \in Nat
    BY HeldBytesType DEF Conn
  <1>2. ReceiveBuffer \in Nat
    BY ConfigAssumption
  <1>3. QED BY <1>1, <1>2, SaturatingSubType DEF AvailableWindow

\* Neither does what flow and congestion control allow (flush_data).
LEMMA SendAllowanceType ==
  ASSUME NEW c \in Conn
  PROVE  SendAllowance(c) \in Nat
  <1>1. Window(c.reno, c.mss) \in Nat
    BY LargerType DEF Window, Conn, Controller
  <1>2. c.remote_window \in Nat
    BY ConfigAssumption DEF Conn, WindowSize
  <1>3. Smaller(c.remote_window, Window(c.reno, c.mss)) \in Nat
    BY <1>1, <1>2, SmallerType
  <1>4. QED BY <1>3, InFlightType, SaturatingSubType DEF SendAllowance

-----------------------------------------------------------------------------
(* Segments                                                                *)

\* build_segment makes a segment of well-typed parts.
LEMMA SegmentType ==
  ASSUME NEW c \in Conn, NEW flags \in SUBSET Flag, NEW seq \in SeqNumber,
         NEW window \in WindowSize, NEW data \in Seq(Byte)
  PROVE  BuildSegment(c, flags, seq, window, data) \in Segment
  BY DEF BuildSegment, Segment, Conn

\* The window a header carries fits its field.
LEMMA AdvertisedType ==
  ASSUME NEW c \in Conn
  PROVE  Smaller(AvailableWindow(c), MaxWindow) \in WindowSize
  <1>1. AvailableWindow(c) \in Nat /\ MaxWindow \in Nat
    BY AvailableWindowType, ConfigAssumption
  <1>2. QED BY <1>1, SmallerType DEF WindowSize

\* ack_segment makes a segment.
LEMMA AckSegmentType ==
  ASSUME NEW c \in Conn
  PROVE  AckSegment(c) \in Segment
  <1>1. {"ACK"} \in SUBSET Flag /\ <<>> \in Seq(Byte) /\ c.send_nxt \in SeqNumber
    BY DEF Flag, Conn
  <1>2. QED BY <1>1, SegmentType, AdvertisedType DEF AckSegment

\* segment_for makes a segment of a tracked one.
LEMMA SegmentForType ==
  ASSUME NEW c \in Conn, NEW t \in TrackedSegment
  PROVE  SegmentFor(c, t) \in Segment
  BY SegmentType, AdvertisedType DEF SegmentFor, TrackedSegment

\* reset_segment makes a segment.
LEMMA ResetSegmentType ==
  ASSUME NEW c \in Conn
  PROVE  ResetSegment(c) \in Segment
  <1>1. {"RST"} \in SUBSET Flag /\ <<>> \in Seq(Byte) /\ c.send_nxt \in SeqNumber
    BY DEF Flag, Conn
  <1>2. 0 \in WindowSize
    BY ConfigAssumption DEF WindowSize
  <1>3. QED BY <1>1, <1>2, SegmentType DEF ResetSegment

\* So does Stack::emit_reset, from whatever segment it answers.
LEMMA ResetForType ==
  ASSUME NEW seg \in Segment
  PROVE  ResetFor(seg) \in Segment
  <1>0. seg.seq \in SeqNumber /\ seg.data \in Seq(Byte)
    BY DEF Segment
  <1>1. seg.seq \in Nat /\ Len(seg.data) \in Nat
    BY <1>0, SeqNumberIsNat
  <1>2. SequenceLen(seg) \in Nat
    BY <1>1, UnitsAdded DEF SequenceLen
  <1>3. Plus(seg.seq, SequenceLen(seg)) \in SeqNumber /\ 0 \in SeqNumber
    BY <1>1, <1>2, PlusType, ZeroIsSeqNumber
  <1>4. 0 \in WindowSize
    BY ConfigAssumption DEF WindowSize
  <1>5. QED BY <1>3, <1>4 DEF ResetFor, Segment, Flag

\* The end of a tracked segment is a word.
LEMMA TrackedEndType ==
  ASSUME NEW t \in TrackedSegment
  PROVE  TrackedEnd(t) \in SeqNumber
  <1>0. t.seq \in SeqNumber /\ t.data \in Seq(Byte)
    BY DEF TrackedSegment
  <1>1. t.seq \in Nat /\ Len(t.data) \in Nat
    BY <1>0, SeqNumberIsNat
  <1>2. QED BY <1>1, UnitsAdded, PlusType DEF TrackedEnd

\* The end of a filed chunk is a word.
LEMMA ReassemblyEndType ==
  ASSUME NEW r \in ReassemblySegment
  PROVE  ReassemblyEnd(r) \in SeqNumber
  <1>0. r.seq \in SeqNumber /\ r.data \in Seq(Byte)
    BY DEF ReassemblySegment
  <1>1. r.seq \in Nat /\ Len(r.data) \in Nat
    BY <1>0, SeqNumberIsNat
  <1>2. QED BY <1>1, UnitAdded, PlusType DEF ReassemblyEnd

-----------------------------------------------------------------------------
(* Updates                                                                 *)

\* An update that keeps the connection.
LEMMA OpenType ==
  ASSUME NEW c \in Conn, NEW segments \in Seq(Segment)
  PROVE  Open(c, segments) \in Update
  BY DEF Open, Update

\* An update that removes the connection.
LEMMA ClosedType ==
  ASSUME NEW c \in Conn, NEW segments \in Seq(Segment)
  PROVE  Closed(c, segments) \in Update
  BY DEF Closed, Update

\* No segment to send is a well-typed answer.
LEMMA NoSegments == <<>> \in Seq(Segment)
  OBVIOUS

\* One segment to send is too.
LEMMA OneSegment ==
  ASSUME NEW seg \in Segment
  PROVE  <<seg>> \in Seq(Segment)
  OBVIOUS

\* What an update holds.
LEMMA UpdateFields ==
  ASSUME NEW u \in Update
  PROVE  /\ u.conn \in Conn
         /\ u.segments \in Seq(Segment)
         /\ u.accepted \in BOOLEAN
         /\ u.closed \in BOOLEAN
  BY DEF Update

\* Chaining two methods appends their segments.
LEMMA ThenType ==
  ASSUME NEW u \in Update, NEW v \in Update
  PROVE  Then(u, v) \in Update
  <1>1. u.segments \o v.segments \in Seq(Segment)
    BY UpdateFields, ConcatProperties
  <1>2. QED BY <1>1 DEF Then, Update

-----------------------------------------------------------------------------
(* Sending                                                                 *)

\* A tracked segment enters the queue and moves send_nxt.
LEMMA TransmitType ==
  ASSUME NEW c \in Conn, NEW t \in TrackedSegment
  PROVE  Transmit(c, t) \in Update
  <1>1. Append(c.unacked, t) \in Seq(TrackedSegment)
    BY DEF Conn
  <1>2. [c EXCEPT !.send_nxt = TrackedEnd(t), !.unacked = Append(@, t)] \in Conn
    BY <1>1, TrackedEndType DEF Conn
  <1>3. QED BY <1>2, SegmentForType, OneSegment, OpenType DEF Transmit

\* send_tracked builds a tracked segment from flags and data.
LEMMA SendTrackedType ==
  ASSUME NEW c \in Conn, NEW flags \in SUBSET Flag, NEW data \in Seq(Byte)
  PROVE  SendTracked(c, flags, data) \in Update
  <1>1. [seq |-> c.send_nxt, flags |-> flags, data |-> data, transmissions |-> 1]
          \in TrackedSegment
    BY DEF TrackedSegment, Conn
  <1>2. QED BY <1>1, TransmitType DEF SendTracked

\* A product of natural numbers is one.
LEMMA ProductType ==
  ASSUME NEW a \in Nat, NEW b \in Nat
  PROVE  a * b \in Nat
  OBVIOUS

\* Each segment flush_data cuts is well typed.
LEMMA ChunkType ==
  ASSUME NEW c \in Conn, NEW total \in Nat, total <= Len(c.send_queue),
         NEW i \in Nat \ {0}
  PROVE  Chunk(c, total, i) \in TrackedSegment
  <1>1. c.mss \in Nat /\ c.send_nxt \in SeqNumber /\ c.send_queue \in Seq(Byte)
    BY DEF Conn
  <1>2. (i - 1) * c.mss \in Nat /\ i * c.mss \in Nat
    <2>1. i - 1 \in Nat /\ i \in Nat
      OBVIOUS
    <2>2. QED BY <1>1, <2>1, ProductType
  <1>3. Plus(c.send_nxt, (i - 1) * c.mss) \in SeqNumber
    BY <1>1, <1>2, SeqNumberIsNat, PlusType
  <1>4. Smaller(i * c.mss, total) \in Nat /\ Smaller(i * c.mss, total) <= Len(c.send_queue)
    <2>1. \A a \in Nat : Smaller(a, total) \in Nat /\ Smaller(a, total) <= total
      BY SmallerType
    <2>2. Len(c.send_queue) \in Nat
      BY <1>1
    <2>3. \A a \in Nat : /\ Smaller(a, total) \in Nat
                         /\ Smaller(a, total) <= Len(c.send_queue)
      BY <2>1, <2>2
    <2>4. QED BY <1>2, <2>3, Zenon
  <1>5. SubSeq(c.send_queue, (i - 1) * c.mss + 1, Smaller(i * c.mss, total)) \in Seq(Byte)
    BY <1>1, <1>2, <1>4, SubSeqType
  <1>6. {"ACK"} \in SUBSET Flag
    BY DEF Flag
  <1>7. QED BY <1>3, <1>5, <1>6 DEF Chunk, TrackedSegment

\* They form a queue.
LEMMA ChunksType ==
  ASSUME NEW c \in Conn, NEW total \in Nat, total <= Len(c.send_queue)
  PROVE  Chunks(c, total) \in Seq(TrackedSegment)
  <1> DEFINE n == (total + c.mss - 1) \div c.mss
  <1>1. n \in Nat
    <2>1. c.mss \in Nat \ {0} /\ total + c.mss - 1 \in Nat
      BY DEF Conn
    <2>2. QED BY <2>1, QuotientType
  <1>2. \A i \in 1 .. n : Chunk(c, total, i) \in TrackedSegment
    <2> HIDE DEF n
    <2>1. QED BY <1>1, ChunkType
  <1>3. Chunks(c, total) = [i \in 1 .. n |-> Chunk(c, total, i)]
    BY DEF Chunks
  <1> HIDE DEF n
  <1>4. QED BY <1>1, <1>2, <1>3

\* Sending them moves payload from the send queue to the flight.
LEMMA SendChunksType ==
  ASSUME NEW c \in Conn, NEW total \in Nat, total <= Len(c.send_queue),
         NEW chunks \in Seq(TrackedSegment)
  PROVE  SendChunks(c, total, chunks) \in Update
  <1> DEFINE d == [c EXCEPT !.send_queue = SubSeq(@, total + 1, Len(@)),
                            !.send_nxt = Plus(@, total),
                            !.unacked = @ \o chunks]
             segments == [i \in DOMAIN chunks |-> SegmentFor(c, chunks[i])]
  <1>1. c.send_queue \in Seq(Byte) /\ c.send_nxt \in SeqNumber /\ c.unacked \in Seq(TrackedSegment)
    BY DEF Conn
  <1>2. SubSeq(c.send_queue, total + 1, Len(c.send_queue)) \in Seq(Byte)
    BY <1>1, SubSeqType
  <1>3. Plus(c.send_nxt, total) \in SeqNumber
    BY <1>1, SeqNumberIsNat, PlusType
  <1>4. c.unacked \o chunks \in Seq(TrackedSegment)
    BY <1>1, ConcatProperties
  <1>5. d \in Conn
    BY <1>2, <1>3, <1>4 DEF Conn
  <1>6. segments \in Seq(Segment)
    <2>1. \A i \in 1 .. Len(chunks) : SegmentFor(c, chunks[i]) \in Segment
      BY SegmentForType
    <2>2. QED BY <2>1
  <1> HIDE DEF d, segments
  <1>7. QED BY <1>5, <1>6, OpenType DEF SendChunks, d, segments

\* flush_data's FIN moves the state to FIN-WAIT-1 or LAST-ACK.
LEMMA SendFinType ==
  ASSUME NEW c \in Conn
  PROVE  SendFin(c) \in Update
  <1>1. [c EXCEPT !.close_requested = FALSE,
                  !.state = IF @ = "Established" THEN "FinWait1" ELSE "LastAck"] \in Conn
    BY DEF Conn, State
  <1>2. {"FIN", "ACK"} \in SUBSET Flag /\ <<>> \in Seq(Byte)
    BY DEF Flag
  <1>3. QED BY <1>1, <1>2, SendTrackedType DEF SendFin

\* flush_data, for any allowance.
LEMMA FlushUpToType ==
  ASSUME NEW c \in Conn, NEW allowance \in Nat
  PROVE  FlushUpTo(c, allowance) \in Update
  <1>1. Len(c.send_queue) \in Nat
    BY DEF Conn
  <1>2. ASSUME NEW total \in Nat, total <= Len(c.send_queue)
        PROVE  SendChunks(c, total, Chunks(c, total)) \in Update
    BY <1>2, ChunksType, SendChunksType
  <1>3. Open(c, <<>>) \in Update
    BY NoSegments, OpenType
  <1>4. AndSendFin(SendChunks(c, Len(c.send_queue), Chunks(c, Len(c.send_queue)))) \in Update
    BY <1>1, <1>2, UpdateFields, SendFinType, ThenType DEF AndSendFin
  <1>5. SendChunks(c, Smaller(allowance, Len(c.send_queue)),
                   Chunks(c, Smaller(allowance, Len(c.send_queue)))) \in Update
    <2>1. /\ Smaller(allowance, Len(c.send_queue)) \in Nat
          /\ Smaller(allowance, Len(c.send_queue)) <= Len(c.send_queue)
      BY <1>1, SmallerType
    <2>2. QED BY <1>2, <2>1
  <1>6. QED BY <1>3, <1>4, <1>5 DEF FlushUpTo

\* flush_data, for the allowance of the moment.
LEMMA FlushDataType ==
  ASSUME NEW c \in Conn
  PROVE  FlushData(c) \in Update
  BY SendAllowanceType, FlushUpToType DEF FlushData

\* A method that ends in flush_data.
LEMMA AndFlushType ==
  ASSUME NEW u \in Update
  PROVE  AndFlush(u) \in Update
  BY UpdateFields, FlushDataType, ThenType DEF AndFlush

\* retransmit_oldest replaces the head of the queue by one of its type.
LEMMA RetransmitOldestType ==
  ASSUME NEW c \in Conn, NEW timeout \in BOOLEAN
  PROVE  RetransmitOldest(c, timeout) \in Update
  <1>1. CASE c.unacked = <<>>
    BY <1>1, NoSegments, OpenType DEF RetransmitOldest
  <1>2. CASE c.unacked # <<>>
    <2>1. c.unacked \in Seq(TrackedSegment) /\ Head(c.unacked) = c.unacked[1]
          /\ c.unacked[1] \in TrackedSegment /\ 1 \in 1 .. Len(c.unacked)
      BY <1>2 DEF Conn
    <2>2. [c.unacked[1] EXCEPT !.transmissions = CountUp(@)] \in TrackedSegment
      BY <2>1, CountUpType DEF TrackedSegment
    <2>3. [c.unacked EXCEPT ![1].transmissions = CountUp(@)] \in Seq(TrackedSegment)
      BY <2>1, <2>2, ExceptSeq
    <2>4. [c EXCEPT !.unacked[1].transmissions = CountUp(@),
                    !.duplicate_acks = IF timeout THEN 0 ELSE @] \in Conn
      BY <2>3 DEF Conn
    <2>5. QED BY <2>1, <2>4, SegmentForType, OneSegment, NoSegments, OpenType
               DEF RetransmitOldest
  <1>3. QED BY <1>1, <1>2

\* repair_timed_out_flight is retransmit_oldest or nothing.
LEMMA RepairTimedOutFlightType ==
  ASSUME NEW c \in Conn
  PROVE  RepairTimedOutFlight(c) \in Update
  BY RetransmitOldestType, NoSegments, OpenType DEF RepairTimedOutFlight

\* A probe carries the first byte of a payload in flight.
LEMMA ProbeOfType ==
  ASSUME NEW c \in Conn, NEW t \in TrackedSegment, t.data # <<>>
  PROVE  ProbeOf(c, t) \in Update
  <1>1. <<Head(t.data)>> \in Seq(Byte) /\ {"ACK"} \in SUBSET Flag
    BY DEF TrackedSegment, Flag
  <1>2. [t EXCEPT !.flags = {"ACK"}, !.data = <<Head(@)>>] \in TrackedSegment
    BY <1>1 DEF TrackedSegment
  <1>3. QED BY <1>2, SegmentForType, OneSegment, OpenType DEF ProbeOf

\* zero_window_probe always has a byte where poll calls it: has_probe_payload.
LEMMA ZeroWindowProbeType ==
  ASSUME NEW c \in Conn, HasProbePayload(c)
  PROVE  ZeroWindowProbe(c) \in Update
  <1>1. CASE Carriers(c) # {}
    <2>1. Carriers(c) \in SUBSET Nat
      BY DEF Carriers, Conn
    <2>2. \E i \in Carriers(c) : \A j \in Carriers(c) : i <= j
      BY <1>1, <2>1, Least
    <2>3. PICK i \in Carriers(c) :
            i = CHOOSE k \in Carriers(c) : \A j \in Carriers(c) : k <= j
      BY <2>2
    <2>4. c.unacked[i] \in TrackedSegment /\ c.unacked[i].data # <<>>
      BY <2>3 DEF Carriers, Conn
    <2>5. QED BY <1>1, <2>3, <2>4, ProbeOfType DEF ZeroWindowProbe
  <1>2. CASE Carriers(c) = {}
    <2>1. c.send_queue # <<>> /\ c.send_queue \in Seq(Byte)
      BY <1>2 DEF HasProbePayload, Carriers, Conn
    <2>2. Tail(c.send_queue) \in Seq(Byte) /\ Head(c.send_queue) \in Byte
      BY <2>1, HeadTailProperties
    <2>3. [c EXCEPT !.send_queue = Tail(@)] \in Conn
      BY <2>2 DEF Conn
    <2>4. {"ACK"} \in SUBSET Flag /\ <<Head(c.send_queue)>> \in Seq(Byte)
      BY <2>2 DEF Flag
    <2>5. QED BY <1>2, <2>3, <2>4, SendTrackedType DEF ZeroWindowProbe
  <1>3. QED BY <1>1, <1>2

-----------------------------------------------------------------------------
(* Congestion control                                                      *)

\* reno.rs: creation, set_mss and duplicate ACKs keep both windows positive.
LEMMA RenoTypes ==
  ASSUME NEW r \in Controller, NEW mss \in Nat \ {0}, NEW n \in Nat
  PROVE  /\ NewReno(mss) \in Controller
         /\ SetMss(r, mss) \in Controller
         /\ RenoOnDuplicateAck(r, mss) \in Controller
         /\ HalfFlight(n, mss) \in Nat \ {0}
  <1>1. 2 * mss \in Nat \ {0} /\ n \div 2 \in Nat
    OBVIOUS
  <1>2. QED
    BY <1>1, UnlimitedAssumption
    DEF NewReno, SetMss, RenoOnDuplicateAck, HalfFlight, Controller, Larger

\* So do a fast loss and a timeout.
LEMMA RenoOnLossTypes ==
  ASSUME NEW r \in Controller, NEW mss \in Nat \ {0}, NEW n \in Nat
  PROVE  /\ RenoOnFastLoss(r, mss, n) \in Controller
         /\ RenoOnTimeout(r, mss, n) \in Controller
  <1>1. HalfFlight(n, mss) \in Nat \ {0}
    BY RenoTypes
  <1>2. HalfFlight(n, mss) + 3 * mss \in Nat \ {0}
    BY <1>1
  <1>3. QED BY <1>1, <1>2 DEF RenoOnFastLoss, RenoOnTimeout, Controller

\* So does the growth on an ACK; cwnd, its divisor, is never zero.
LEMMA RenoOnAckType ==
  ASSUME NEW r \in Controller, NEW mss \in Nat \ {0}, NEW n \in Nat
  PROVE  RenoOnAck(r, mss, n) \in Controller
  <1> DEFINE share == (mss * mss) \div r.cwnd
             increment == IF r.cwnd < r.ssthresh THEN Smaller(n, mss) ELSE Larger(share, 1)
  <1>1. share \in Nat
    <2>1. mss * mss \in Nat /\ r.cwnd \in Nat \ {0}
      BY ProductType DEF Controller
    <2>2. QED BY <2>1, QuotientType
  <1> HIDE DEF share
  <1>2. increment \in Nat
    BY <1>1 DEF Smaller, Larger
  <1> HIDE DEF increment
  <1>3. Larger(r.cwnd + increment, mss) \in Nat \ {0}
    BY <1>2 DEF Larger, Controller
  <1>4. QED BY <1>3 DEF RenoOnAck, Controller, increment, share

-----------------------------------------------------------------------------
(* Creation                                                                *)

\* Connection::new.
LEMMA NewConnectionType ==
  ASSUME NEW state \in State, NEW isn \in SeqNumber, NEW recv_nxt \in SeqNumber
  PROVE  NewConnection(state, isn, recv_nxt) \in Conn
  <1>1. Mss \in Nat \ {0} /\ MaxWindow \in WindowSize
    BY ConfigAssumption DEF WindowSize
  <1>2. NewReno(Mss) \in Controller
    BY <1>1, UnlimitedAssumption DEF NewReno, Controller
  <1>3. {} \in FiniteSubsets(ReassemblySegment)
    BY FS_EmptySet DEF FiniteSubsets
  <1>4. <<>> \in Seq(Byte) /\ <<>> \in Seq(TrackedSegment)
    OBVIOUS
  <1>5. QED BY <1>1, <1>2, <1>3, <1>4 DEF NewConnection, Conn

\* update_remote_window.
LEMMA UpdateRemoteWindowType ==
  ASSUME NEW c \in Conn, NEW window \in WindowSize
  PROVE  UpdateRemoteWindow(c, window) \in Conn
  BY DEF UpdateRemoteWindow, Conn

\* negotiate_mss never leaves an mss of zero, the divisor of the chunk count.
LEMMA NegotiateMssType ==
  ASSUME NEW c \in Conn, NEW seg \in Segment
  PROVE  NegotiateMss(c, seg) \in Conn
  <1>1. Larger(Smaller(seg.mss, Mss), 1) \in Nat \ {0}
    BY ConfigAssumption DEF Larger, Smaller, Segment
  <1>2. ASSUME NEW mss \in Nat \ {0}
        PROVE  UseMss(c, mss) \in Conn
    <2>1. SetMss(c.reno, mss) \in Controller
      BY RenoTypes DEF Conn
    <2>2. QED BY <2>1 DEF UseMss, Conn
  <1>3. QED BY <1>1, <1>2 DEF NegotiateMss

\* Connection::client.
LEMMA ClientType ==
  ASSUME NEW isn \in SeqNumber
  PROVE  Client(isn) \in Update
  <1>1. NewConnection("SynSent", isn, 0) \in Conn
    BY NewConnectionType, ZeroIsSeqNumber DEF State
  <1>2. {"SYN"} \in SUBSET Flag /\ <<>> \in Seq(Byte)
    BY DEF Flag
  <1>3. QED BY <1>1, <1>2, SendTrackedType DEF Client

\* Connection::server.
LEMMA ServerType ==
  ASSUME NEW syn \in Segment, NEW isn \in SeqNumber
  PROVE  Server(syn, isn) \in Update
  <1>1. Plus(syn.seq, 1) \in SeqNumber /\ syn.window \in WindowSize
    BY SeqNumberIsNat, PlusType DEF Segment
  <1>2. NewConnection("SynReceived", isn, Plus(syn.seq, 1)) \in Conn
    BY <1>1, NewConnectionType DEF State
  <1>3. {"SYN", "ACK"} \in SUBSET Flag /\ <<>> \in Seq(Byte)
    BY DEF Flag
  <1>4. QED BY <1>1, <1>2, <1>3, UpdateRemoteWindowType, NegotiateMssType, SendTrackedType
            DEF Server

-----------------------------------------------------------------------------
(* Acknowledgements                                                        *)

\* apply_ack for ack = send_una.
LEMMA ApplyDuplicateAckType ==
  ASSUME NEW c \in Conn, NEW candidate
  PROVE  ApplyDuplicateAck(c, candidate) \in Update
  <1>1. [c EXCEPT !.duplicate_acks = 0] \in Conn
    BY DEF Conn
  <1>2. CountDuplicate(c) \in Conn
    <2>1. RenoOnDuplicateAck(c.reno, c.mss) \in Controller
      BY RenoTypes DEF Conn
    <2>2. QED BY <2>1, CountUpType DEF CountDuplicate, Conn
  <1>3. ASSUME NEW d \in Conn PROVE FastLoss(d) \in Conn
    <2>1. RenoOnFastLoss(d.reno, d.mss, InFlight(d)) \in Controller
      BY RenoOnLossTypes, InFlightType DEF Conn
    <2>2. QED BY <2>1 DEF FastLoss, Conn
  <1>4. QED BY <1>1, <1>2, <1>3, RetransmitOldestType, NoSegments, OpenType
            DEF ApplyDuplicateAck

\* An ACK covers a prefix of the retransmission queue.
LEMMA CoveredType ==
  ASSUME NEW c \in Conn, NEW ack
  PROVE  /\ Covered(c, ack) \in 0 .. Len(c.unacked)
         /\ \A j \in 1 .. Covered(c, ack) : BeforeOrEqual(TrackedEnd(c.unacked[j]), ack)
  <1> DEFINE K == {k \in DOMAIN c.unacked :
                     \A j \in 1 .. k : BeforeOrEqual(TrackedEnd(c.unacked[j]), ack)}
             n == Len(c.unacked)
  <1>1. n \in Nat /\ DOMAIN c.unacked = 1 .. n
    BY DEF Conn
  <1> HIDE DEF n
  <1>2. K \in SUBSET (1 .. n) /\ \A k \in K : 1 .. k \subseteq K
    BY <1>1
  <1>3. \A k \in K : \A j \in 1 .. k : BeforeOrEqual(TrackedEnd(c.unacked[j]), ack)
    OBVIOUS
  <1> HIDE DEF K
  <1>4. Cardinality(K) \in Nat /\ K = 1 .. Cardinality(K)
    BY <1>1, <1>2, DownwardClosed
  <1>5. Cardinality(K) <= n
    BY <1>1, <1>2, <1>4
  <1>6. Covered(c, ack) = Cardinality(K)
    BY DEF Covered, K
  <1>7. QED BY <1>1, <1>3, <1>4, <1>5, <1>6 DEF n

\* A partial ACK trims at most the payload it ends inside of.
LEMMA TrimOfType ==
  ASSUME NEW t \in TrackedSegment, NEW ack \in SeqNumber
  PROVE  TrimOf(t, ack) \in Nat /\ TrimOf(t, ack) <= Len(t.data)
  <1>1. Len(t.data) \in Nat /\ t.seq \in SeqNumber
    BY DEF TrackedSegment
  <1>2. Distance(t.seq, ack) \in Nat
    BY <1>1, DistanceType
  <1>3. \A a \in Nat, b \in Nat : Smaller(a, b) \in Nat /\ Smaller(a, b) <= b
    BY DEF Smaller
  <1>4. Smaller(Distance(t.seq, ack), Len(t.data)) \in Nat
        /\ Smaller(Distance(t.seq, ack), Len(t.data)) <= Len(t.data)
    BY <1>1, <1>2, <1>3, Zenon
  <1>5. CASE EndsInside(t, ack)
    BY <1>4, <1>5 DEF TrimOf
  <1>6. CASE ~EndsInside(t, ack)
    <2>1. TrimOf(t, ack) = 0
      BY <1>6 DEF TrimOf
    <2>2. QED BY <1>1, <2>1
  <1>7. QED BY <1>5, <1>6

\* The trimmed segment is well typed.
LEMMA TrimFrontType ==
  ASSUME NEW rest \in Seq(TrackedSegment), NEW ack \in SeqNumber
  PROVE  TrimFront(rest, ack) \in Seq(TrackedSegment)
  <1>1. CASE rest = <<>>
    BY <1>1 DEF TrimFront
  <1>2. CASE rest # <<>>
    <2> DEFINE n    == TrimOf(Head(rest), ack)
               data == SubSeq(rest[1].data, n + 1, Len(rest[1].data))
    <2>1. Head(rest) = rest[1] /\ rest[1] \in TrackedSegment /\ 1 \in 1 .. Len(rest)
      BY <1>2
    <2>2. rest[1].data \in Seq(Byte) /\ n \in Nat
      BY <2>1, TrimOfType DEF TrackedSegment
    <2>3. data \in Seq(Byte)
      <3> HIDE DEF n
      <3>1. n + 1 \in Nat \ {0} /\ Len(rest[1].data) \in Nat
        BY <2>2
      <3>2. QED BY <2>2, <3>1, SubSeqType
    <2> HIDE DEF data
    <2>4. [rest[1] EXCEPT !.seq = ack, !.data = data] \in TrackedSegment
      BY <2>1, <2>3 DEF TrackedSegment
    <2>5. [rest EXCEPT ![1] = [rest[1] EXCEPT !.seq = ack, !.data = data]] \in Seq(TrackedSegment)
      BY <2>1, <2>4, ExceptSeq
    <2>6. [rest EXCEPT ![1].seq = ack,
                       ![1].data = SubSeq(@, TrimOf(Head(rest), ack) + 1, Len(@))]
            = [rest EXCEPT ![1] = [rest[1] EXCEPT !.seq = ack, !.data = data]]
      BY <2>1 DEF data
    <2>7. QED BY <2>5, <2>6 DEF TrimFront
  <1>3. QED BY <1>1, <1>2

\* The fields apply_ack assigns for an ACK that advances.
LEMMA AcknowledgeType ==
  ASSUME NEW c \in Conn, NEW ack \in SeqNumber, NEW rest \in Seq(TrackedSegment),
         NEW bytes \in Nat
  PROVE  Acknowledge(c, ack, rest, bytes) \in Conn
  <1>1. RenoOnAck(c.reno, c.mss, bytes) \in Controller
    BY RenoOnAckType DEF Conn
  <1>2. (IF c.rto_recovery_until # None /\ ~Before(ack, c.rto_recovery_until)
         THEN None ELSE c.rto_recovery_until) \in SeqNumber \cup {None}
    BY DEF Conn
  <1>3. c.acked + bytes \in Nat
    BY DEF Conn
  <1>4. QED BY <1>1, <1>2, <1>3 DEF Acknowledge, Conn

\* apply_ack for an ACK that advances.
LEMMA ApplyNewAckType ==
  ASSUME NEW c \in Conn, NEW ack \in SeqNumber
  PROVE  ApplyNewAck(c, ack) \in Conn
  <1> DEFINE n    == Covered(c, ack)
             gone == SubSeq(c.unacked, 1, n)
             rest == SubSeq(c.unacked, n + 1, Len(c.unacked))
  <1>1. c.unacked \in Seq(TrackedSegment) /\ n \in Nat /\ n <= Len(c.unacked)
    BY CoveredType DEF Conn
  <1> HIDE DEF n
  <1>2. gone \in Seq(TrackedSegment) /\ rest \in Seq(TrackedSegment)
    <2>1. Len(c.unacked) \in Nat /\ n + 1 \in Nat \ {0} /\ 1 \in Nat \ {0}
      BY <1>1
    <2>2. QED BY <1>1, <2>1, SubSeqType
  <1> HIDE DEF gone, rest
  <1>3. PayloadBytes(gone) \in Nat
    <2>1. Len(gone) \in Nat /\ DOMAIN gone = 1 .. Len(gone)
      BY <1>2
    <2>2. \A i \in 1 .. Len(gone) : gone[i] \in TrackedSegment
      BY <1>2, ElementOfSeq
    <2>3. \A i \in 1 .. Len(gone) : gone[i].data \in Seq(Byte)
      BY <2>2 DEF TrackedSegment
    <2>4. QED BY <2>1, <2>3, PayloadBytesType
  <1>4. (IF rest = <<>> THEN 0 ELSE TrimOf(Head(rest), ack)) \in Nat
    <2>1. rest # <<>> => Head(rest) \in TrackedSegment
      BY <1>2
    <2>2. QED BY <2>1, TrimOfType
  <1>5. AckSplit(c, ack, gone, rest) \in Conn
    BY <1>2, <1>3, <1>4, TrimFrontType, AcknowledgeType DEF AckSplit
  <1>6. QED BY <1>5 DEF ApplyNewAck, gone, rest, n

\* apply_ack.
LEMMA ApplyAckType ==
  ASSUME NEW c \in Conn, NEW ack \in SeqNumber, NEW candidate
  PROVE  ApplyAck(c, ack, candidate) \in Update
  BY ApplyDuplicateAckType, ApplyNewAckType, NoSegments, OpenType DEF ApplyAck

\* The state after the own FIN is acknowledged.
LEMMA AfterFinAckedType ==
  ASSUME NEW state \in State
  PROVE  AfterFinAcked(state) \in State
  BY DEF AfterFinAcked, State

-----------------------------------------------------------------------------
(* Receiving                                                               *)

\* insert_received's last step keeps the table finite.
LEMMA FileChunkType ==
  ASSUME NEW c \in Conn, NEW chunk \in ReassemblySegment
  PROVE  FileChunk(c, chunk) \in Conn
  <1>1. c.reassembly \in SUBSET ReassemblySegment /\ IsFiniteSet(c.reassembly)
    BY DEF Conn, FiniteSubsets
  <1>2. c.reassembly \cup {chunk} \in FiniteSubsets(ReassemblySegment)
    BY <1>1, FS_AddElement DEF FiniteSubsets
  <1>3. QED BY <1>2 DEF FileChunk, Conn

\* What the window leaves of a chunk is a chunk.
LEMMA FitWindowType ==
  ASSUME NEW c \in Conn, NEW start \in SeqNumber, NEW end, NEW data \in Seq(Byte),
         NEW fin \in BOOLEAN
  PROVE  FitWindow(c, start, end, data, fin) \in ReassemblySegment
  <1> DEFINE room == SaturatingSub(AvailableWindow(c), Distance(c.recv_nxt, start))
             kept == SubSeq(data, 1, Smaller(Len(data), room))
  <1>1. room \in Nat
    BY AvailableWindowType, DistanceType, SaturatingSubType DEF Conn
  <1> HIDE DEF room
  <1>2. kept \in Seq(Byte)
    <2>1. \A a \in Nat, b \in Nat : Smaller(a, b) \in Nat /\ Smaller(a, b) <= a
      BY DEF Smaller
    <2>2. Len(data) \in Nat /\ 1 \in Nat \ {0}
      OBVIOUS
    <2>3. Smaller(Len(data), room) \in Nat /\ Smaller(Len(data), room) <= Len(data)
      BY <1>1, <2>1, <2>2, Zenon
    <2>4. QED BY <2>2, <2>3, SubSeqType
  <1> HIDE DEF kept
  <1>3. QED BY <1>2 DEF FitWindow, ReassemblySegment, kept, room

\* insert_received.
LEMMA InsertReceivedType ==
  ASSUME NEW c \in Conn, NEW seq \in SeqNumber, NEW data \in Seq(Byte), NEW fin \in BOOLEAN
  PROVE  InsertReceived(c, seq, data, fin) \in Conn
  <1>1. c.recv_nxt \in SeqNumber
    BY DEF Conn
  <1>2. SubSeq(data, Distance(seq, c.recv_nxt) + 1, Len(data)) \in Seq(Byte)
    <2>1. Distance(seq, c.recv_nxt) + 1 \in Nat \ {0} /\ Len(data) \in Nat
      BY <1>1, DistanceType
    <2>2. QED BY <2>1, SubSeqType
  <1>3. QED BY <1>1, <1>2, FitWindowType, FileChunkType DEF InsertReceived

\* The state after on_remote_fin.
LEMMA AfterRemoteFinType ==
  ASSUME NEW state \in State
  PROVE  AfterRemoteFin(state) \in State
  BY DEF AfterRemoteFin, State

\* A place past recv_nxt is a word.
LEMMA PlaceType ==
  ASSUME NEW c \in Conn, NEW o \in Nat
  PROVE  Place(c, o) \in SeqNumber
  BY SeqNumberIsNat, PlusType DEF Place, Conn

\* Every place of the run is held by some chunk.
LEMMA RunType ==
  ASSUME NEW c \in Conn
  PROVE  /\ Run(c) \in Nat
         /\ \A o \in 0 .. Run(c) - 1 : \E r \in c.reassembly : Holds(r, Place(c, o))
  <1> DEFINE Held(o) == \E r \in c.reassembly : Holds(r, Place(c, o))
             N == HeldBytes(c)
             K == {n \in 1 .. N : \A o \in 0 .. n - 1 : Held(o)}
  <1>1. N \in Nat
    BY HeldBytesType
  <1>2. Run(c) = Cardinality(K)
    BY DEF Run
  <1> HIDE DEF Held, N
  <1>3. K \in SUBSET (1 .. N) /\ \A n \in K : 1 .. n \subseteq K
    BY <1>1
  <1>4. \A n \in K : \A o \in 0 .. n - 1 : Held(o)
    OBVIOUS
  <1> HIDE DEF K
  <1>5. Cardinality(K) \in Nat /\ K = 1 .. Cardinality(K)
    BY <1>1, <1>3, DownwardClosed
  <1>6. \A o \in 0 .. Cardinality(K) - 1 : Held(o)
    BY <1>4, <1>5
  <1>7. QED BY <1>2, <1>5, <1>6 DEF Held

\* The byte drained for a held place lies inside its chunk.
LEMMA ByteAtType ==
  ASSUME NEW c \in Conn, NEW o \in Nat,
         \E r \in c.reassembly : Holds(r, Place(c, o))
  PROVE  ByteAt(c, o) \in Byte
  <1>1. PICK r \in c.reassembly :
          /\ Holds(r, Place(c, o))
          /\ r = CHOOSE x \in c.reassembly : Holds(x, Place(c, o))
    OBVIOUS
  <1>2. r.seq \in SeqNumber /\ r.data \in Seq(Byte)
    BY DEF Conn, FiniteSubsets, ReassemblySegment
  <1>3. Distance(r.seq, Place(c, o)) \in Nat
    BY <1>2, PlaceType, DistanceType
  <1>4. Distance(r.seq, Place(c, o)) + 1 \in 1 .. Len(r.data)
    BY <1>1, <1>2, <1>3 DEF Holds
  <1>5. r.data[Distance(r.seq, Place(c, o)) + 1] \in Byte
    BY <1>2, <1>4, ElementOfSeq
  <1>6. QED BY <1>1, <1>5 DEF ByteAt

\* Taking in a run the table holds keeps every queue well typed.
LEMMA TakeInType ==
  ASSUME NEW c \in Conn, NEW run \in Nat, NEW fin \in BOOLEAN, NEW next \in SeqNumber,
         \A o \in 0 .. run - 1 : \E r \in c.reassembly : Holds(r, Place(c, o))
  PROVE  TakeIn(c, run, fin, next) \in Conn
  <1> DEFINE taken == [i \in 1 .. run |-> ByteAt(c, i - 1)]
             kept  == {r \in c.reassembly : ~BeforeOrEqual(ReassemblyEnd(r), next)}
  <1>1. taken \in Seq(Byte)
    <2>1. \A i \in 1 .. run : ByteAt(c, i - 1) \in Byte
      BY ByteAtType
    <2>2. QED BY <2>1
  <1>2. c.recv_queue \o taken \in Seq(Byte)
    <2> HIDE DEF taken
    <2>1. QED BY <1>1, ConcatProperties DEF Conn
  <1>3. kept \in FiniteSubsets(ReassemblySegment)
    <2>1. kept \in SUBSET c.reassembly
      OBVIOUS
    <2>2. QED BY <2>1, FS_Subset DEF Conn, FiniteSubsets
  <1> HIDE DEF taken, kept
  <1>4. AfterRemoteFin(c.state) \in State
    BY AfterRemoteFinType DEF Conn
  <1>5. QED BY <1>2, <1>3, <1>4 DEF TakeIn, Conn, taken, kept

\* drain_reassembly.
LEMMA DrainReassemblyType ==
  ASSUME NEW c \in Conn
  PROVE  DrainReassembly(c) \in Conn
  <1>1. Run(c) \in Nat /\ FinAt(c, Run(c)) \in BOOLEAN
    BY RunType DEF FinAt
  <1>2. Place(c, Run(c) + Units(FinAt(c, Run(c)))) \in SeqNumber
    BY <1>1, UnitAdded, PlaceType
  <1>3. QED BY <1>1, <1>2, RunType, TakeInType DEF DrainReassembly, DrainRun, TakeRun

\* A method that ends in ack_segment.
LEMMA AndAcknowledgeType ==
  ASSUME NEW c \in Conn
  PROVE  AndAcknowledge(c) \in Update
  BY AckSegmentType, OneSegment, OpenType DEF AndAcknowledge

\* receive_stream_data.
LEMMA ReceiveStreamDataType ==
  ASSUME NEW c \in Conn, NEW seg \in Segment
  PROVE  ReceiveStreamData(c, seg) \in Update
  <1>1. seg.seq \in SeqNumber /\ seg.data \in Seq(Byte)
    BY DEF Segment
  <1>2. InsertReceived(c, seg.seq, seg.data, "FIN" \in seg.flags) \in Conn
    <2>1. ("FIN" \in seg.flags) \in BOOLEAN
      OBVIOUS
    <2>2. QED BY <1>1, <2>1, InsertReceivedType
  <1>3. QED BY <1>2, DrainReassemblyType, AndAcknowledgeType, NoSegments, OpenType
            DEF ReceiveStreamData

\* A method followed by receive_stream_data.
LEMMA AndReceiveType ==
  ASSUME NEW u \in Update, NEW seg \in Segment
  PROVE  AndReceive(u, seg) \in Update
  <1>1. u.conn \in Conn
    BY DEF Update
  <1>2. QED BY <1>1, ReceiveStreamDataType, ThenType DEF AndReceive

-----------------------------------------------------------------------------
(* on_segment                                                              *)

\* on_reset.
LEMMA OnResetType ==
  ASSUME NEW c \in Conn, NEW seg \in Segment
  PROVE  OnReset(c, seg) \in Update
  BY AckSegmentType, NoSegments, OneSegment, OpenType, ClosedType DEF OnReset

\* on_segment in SYN-SENT.
LEMMA OnSegmentSynSentType ==
  ASSUME NEW c \in Conn, NEW seg \in Segment
  PROVE  OnSegmentSynSent(c, seg) \in Update
  <1> DEFINE d == NegotiateMss(UpdateRemoteWindow(c, seg.window), seg)
             e == ApplyAck(d, c.send_nxt, FALSE).conn
  <1>1. seg.window \in WindowSize /\ seg.seq \in SeqNumber /\ c.send_nxt \in SeqNumber
    BY DEF Segment, Conn
  <1>2. d \in Conn
    BY <1>1, UpdateRemoteWindowType, NegotiateMssType
  <1> HIDE DEF d
  <1>3. e \in Conn
    BY <1>1, <1>2, ApplyAckType DEF Update
  <1> HIDE DEF e
  <1>4. Plus(seg.seq, 1) \in SeqNumber
    BY <1>1, SeqNumberIsNat, PlusType
  <1>5. [e EXCEPT !.recv_nxt = Plus(seg.seq, 1), !.state = "Established"] \in Conn
    BY <1>3, <1>4 DEF Conn, State
  <1>6. QED BY <1>5, AndAcknowledgeType, NoSegments, OpenType DEF OnSegmentSynSent, e, d

\* on_segment in SYN-RECEIVED, for the ACK of the SYN-ACK.
LEMMA OnHandshakeAckType ==
  ASSUME NEW c \in Conn, NEW seg \in Segment
  PROVE  OnHandshakeAck(c, seg) \in Update
  <1> DEFINE e == UpdateRemoteWindow(ApplyAck(c, c.send_nxt, FALSE).conn, seg.window)
  <1>1. seg.window \in WindowSize /\ c.send_nxt \in SeqNumber
    BY DEF Segment, Conn
  <1>2. e \in Conn
    <2>1. ApplyAck(c, c.send_nxt, FALSE).conn \in Conn
      BY <1>1, ApplyAckType DEF Update
    <2>2. QED BY <1>1, <2>1, UpdateRemoteWindowType
  <1> HIDE DEF e
  <1>3. [e EXCEPT !.state = "Established"] \in Conn
    BY <1>2 DEF Conn, State
  <1>4. QED BY <1>3, ReceiveStreamDataType, AndFlushType DEF OnHandshakeAck, e

\* on_segment in SYN-RECEIVED.
LEMMA OnSegmentSynReceivedType ==
  ASSUME NEW c \in Conn, NEW seg \in Segment
  PROVE  OnSegmentSynReceived(c, seg) \in Update
  <1>1. [OnHandshakeAck(c, seg) EXCEPT !.accepted = TRUE] \in Update
    <2> DEFINE u == OnHandshakeAck(c, seg)
    <2>1. u \in Update
      BY OnHandshakeAckType
    <2> HIDE DEF u
    <2>2. [u EXCEPT !.accepted = TRUE] \in Update
      BY <2>1 DEF Update
    <2>3. QED BY <2>2 DEF u
  <1>2. QED BY <1>1, RetransmitOldestType, NoSegments, OpenType DEF OnSegmentSynReceived

\* The state change for an acknowledged FIN.
LEMMA NoteFinAckedType ==
  ASSUME NEW c \in Conn, NEW fin \in BOOLEAN
  PROVE  NoteFinAcked(c, fin) \in Conn
  <1>1. AfterFinAcked(c.state) \in State
    BY AfterFinAckedType DEF Conn
  <1>2. QED BY <1>1 DEF NoteFinAcked, Conn

\* The window an acceptable ACK advertises.
LEMMA NoteWindowType ==
  ASSUME NEW c \in Conn, NEW seg \in Segment
  PROVE  NoteWindow(c, seg) \in Conn
  <1>1. seg.window \in WindowSize
    BY DEF Segment
  <1>2. QED BY <1>1, UpdateRemoteWindowType DEF NoteWindow

\* An ACK that advances, followed by the repair of the next hole.
LEMMA AndRepairType ==
  ASSUME NEW u \in Update, NEW c \in Conn, NEW seg \in Segment
  PROVE  AndRepair(u, c, seg) \in Update
  <1> DEFINE d == NoteWindow(NoteFinAcked(u.conn, FinAcked(c, seg)), seg)
  <1>1. FinAcked(c, seg) \in BOOLEAN
    BY DEF FinAcked
  <1>2. d \in Conn
    BY <1>1, NoteFinAckedType, NoteWindowType DEF Update
  <1> HIDE DEF d
  <1>3. RepairTimedOutFlight(d) \in Update /\ Open(d, <<>>) \in Update
    BY <1>2, RepairTimedOutFlightType, NoSegments, OpenType
  <1>4. QED BY <1>3, ThenType DEF AndRepair, d

\* The acknowledgement half of on_segment.
LEMMA OnAckType ==
  ASSUME NEW c \in Conn, NEW seg \in Segment, seg.ack # None
  PROVE  OnAck(c, seg) \in Update
  <1> DEFINE u == ApplyAck(c, seg.ack,
                           IsDuplicateAckCandidate(seg, c.send_una, c.remote_window))
  <1>1. seg.ack \in SeqNumber
    BY DEF Segment
  <1>2. u \in Update
    BY <1>1, ApplyAckType
  <1> HIDE DEF u
  <1>3. u.conn \in Conn /\ u.segments \in Seq(Segment)
    BY <1>2 DEF Update
  <1>4. OnApplied(c, seg, u) \in Update
    BY <1>2, <1>3, ClosedType, AndRepairType DEF OnApplied
  <1>5. QED BY <1>4 DEF OnAck, u

\* on_segment in a synchronized state.
LEMMA OnSegmentSynchronizedType ==
  ASSUME NEW c \in Conn, NEW seg \in Segment
  PROVE  OnSegmentSynchronized(c, seg) \in Update
  <1>1. (IF seg.ack = None THEN Open(c, <<>>) ELSE OnAck(c, seg)) \in Update
    BY NoSegments, OpenType, OnAckType
  <1>2. \A u \in Update : Continue(u, seg) \in Update
    BY AndReceiveType, AndFlushType DEF Continue
  <1>3. QED BY <1>1, <1>2 DEF OnSegmentSynchronized

\* on_segment returns a well-typed connection and well-typed answers.
LEMMA OnSegmentType ==
  ASSUME NEW c \in Conn, NEW seg \in Segment
  PROVE  OnSegment(c, seg) \in Update
  BY OnResetType, OnSegmentSynSentType, OnSegmentSynReceivedType, OnSegmentSynchronizedType
     DEF OnSegment

\* So does Stack::input for a tuple in the lookup table.
LEMMA InputKnownType ==
  ASSUME NEW c \in Conn, NEW seg \in Segment
  PROVE  InputKnown(c, seg) \in Update
  <1>1. StaleHandshakeAck(c, seg) => seg.ack # None
    BY DEF StaleHandshakeAck
  <1>2. QED BY <1>1, ResetForType, AckSegmentType, OneSegment, OpenType, OnSegmentType
            DEF InputKnown

-----------------------------------------------------------------------------
(* Application calls and timers                                            *)

\* write accepts no more than it is offered.
LEMMA WriteAcceptsType ==
  ASSUME NEW c \in Conn, NEW n \in Nat
  PROVE  WriteAccepts(c, n) \in Nat /\ WriteAccepts(c, n) <= n
  <1>1. PayloadBytes(c.unacked) \in Nat
    <2>1. Len(c.unacked) \in Nat /\ DOMAIN c.unacked = 1 .. Len(c.unacked)
      BY DEF Conn
    <2>2. \A i \in 1 .. Len(c.unacked) : c.unacked[i] \in TrackedSegment
      BY ElementOfSeq DEF Conn
    <2>3. \A i \in 1 .. Len(c.unacked) : c.unacked[i].data \in Seq(Byte)
      BY <2>2 DEF TrackedSegment
    <2>4. QED BY <2>1, <2>3, PayloadBytesType
  <1>2. Len(c.send_queue) + PayloadBytes(c.unacked) \in Nat
    BY <1>1 DEF Conn
  <1>3. SaturatingSub(SendBuffer, Len(c.send_queue) + PayloadBytes(c.unacked)) \in Nat
    BY <1>2, ConfigAssumption, SaturatingSubType
  <1>4. \A a \in Nat, b \in Nat : Smaller(a, b) \in Nat /\ Smaller(a, b) <= a
    BY DEF Smaller
  <1>5. QED BY <1>3, <1>4, Zenon DEF WriteAccepts

\* Connection::write.
LEMMA WriteType ==
  ASSUME NEW c \in Conn, NEW data \in Seq(Byte)
  PROVE  Write(c, data) \in Update
  <1> DEFINE n == WriteAccepts(c, Len(data))
  <1>1. Len(data) \in Nat /\ 1 \in Nat \ {0}
    OBVIOUS
  <1>2. n \in Nat /\ n <= Len(data)
    BY <1>1, WriteAcceptsType
  <1> HIDE DEF n
  <1>3. SubSeq(data, 1, n) \in Seq(Byte)
    BY <1>1, <1>2, SubSeqType
  <1>4. c.send_queue \o SubSeq(data, 1, n) \in Seq(Byte)
    BY <1>3, ConcatProperties DEF Conn
  <1>5. c.accepted + n \in Nat
    BY <1>2 DEF Conn
  <1>6. Accept(c, data, n) \in Conn
    BY <1>4, <1>5 DEF Accept, Conn
  <1>7. QED BY <1>6, FlushDataType DEF Write, n

\* Connection::read.
LEMMA ReadType ==
  ASSUME NEW c \in Conn, NEW max \in Nat
  PROVE  Read(c, max) \in Update
  <1> DEFINE n == Smaller(max, Len(c.recv_queue))
             left == SubSeq(c.recv_queue, n + 1, Len(c.recv_queue))
             d == [c EXCEPT !.recv_queue = left]
  <1>1. c.recv_queue \in Seq(Byte) /\ Len(c.recv_queue) \in Nat
    BY DEF Conn
  <1>2. n + 1 \in Nat \ {0}
    BY <1>1 DEF Smaller
  <1> HIDE DEF n
  <1>3. left \in Seq(Byte)
    BY <1>1, <1>2, SubSeqType
  <1> HIDE DEF left
  <1>4. d \in Conn
    BY <1>3 DEF Conn
  <1>5. AfterRead(c, d) \in Update
    BY <1>4, AndAcknowledgeType, NoSegments, OpenType DEF AfterRead
  <1>6. Read(c, max) = AfterRead(c, d)
    BY DEF Read, left, n
  <1>7. QED BY <1>5, <1>6

\* Connection::close.
LEMMA CloseType ==
  ASSUME NEW c \in Conn
  PROVE  Close(c) \in Update
  <1>1. [c EXCEPT !.close_requested = TRUE] \in Conn
    BY DEF Conn
  <1>2. QED BY <1>1, FlushDataType, NoSegments, OpenType, ClosedType DEF Close

\* The zero-window half of poll.
LEMMA PollProbeType ==
  ASSUME NEW c \in Conn
  PROVE  PollProbe(c) \in Update
  <1>1. \A u \in Update : CountProbe(u) \in Update
    <2> TAKE u \in Update
    <2>1. u.conn \in Conn /\ CountUp(u.conn.zero_window_probes) \in Nat
      BY CountUpType DEF Update, Conn
    <2>2. [u.conn EXCEPT !.zero_window_probes = CountUp(@)] \in Conn
      BY <2>1 DEF Conn
    <2>3. QED BY <2>2 DEF CountProbe, Update
  <1>2. HasProbePayload(c) => ZeroWindowProbe(c) \in Update
    BY ZeroWindowProbeType
  <1>3. QED BY <1>1, <1>2, NoSegments, OpenType, ClosedType DEF PollProbe

\* The retransmission half of poll.
LEMMA PollRetransmitType ==
  ASSUME NEW c \in Conn
  PROVE  PollRetransmit(c) \in Update
  <1> DEFINE d == [c EXCEPT !.rto_recovery_until = IF @ = None THEN c.send_nxt ELSE @,
                            !.reno = RenoOnTimeout(@, c.mss, InFlight(c))]
  <1>1. RenoOnTimeout(c.reno, c.mss, InFlight(c)) \in Controller
    BY RenoOnLossTypes, InFlightType DEF Conn
  <1>2. d \in Conn
    BY <1>1 DEF Conn
  <1> HIDE DEF d
  <1>3. AndFlush(RetransmitOldest(d, TRUE)) \in Update
    BY <1>2, RetransmitOldestType, AndFlushType
  <1>4. QED BY <1>3, NoSegments, ClosedType DEF PollRetransmit, d

\* poll returns a well-typed connection and well-typed segments.
LEMMA PollType ==
  ASSUME NEW c \in Conn, NEW closeDue \in BOOLEAN, NEW retryDue \in BOOLEAN
  PROVE  Poll(c, closeDue, retryDue) \in Update
  BY PollProbeType, PollRetransmitType, FlushDataType, NoSegments, OpenType, ClosedType
     DEF Poll

-----------------------------------------------------------------------------
(* Word arithmetic                                                         *)

\* wrapping_add of less than a whole turn wraps at most once.
LEMMA PlusCases ==
  ASSUME NEW seq \in SeqNumber, NEW n \in Nat, n < Modulus
  PROVE  Plus(seq, n) = IF seq + n < Modulus THEN seq + n ELSE seq + n - Modulus
  <1>1. ASSUME NEW K \in Nat \ {0}, NEW x \in Nat, x < 2 * K
        PROVE  (x % K) = IF x < K THEN x ELSE x - K
    <2>1. CASE x < K
      BY <2>1
    <2>2. CASE x >= K
      <3>1. x - K \in 0 .. K - 1 /\ x = 1 * K + (x - K)
        BY <1>1, <2>2
      <3>2. QED BY <2>2, <3>1
    <2>3. QED BY <2>1, <2>2
  <1>2. Modulus \in Nat \ {0} /\ seq + n \in Nat /\ seq + n < 2 * Modulus
    BY ModulusAssumption DEF SeqNumber
  <1>3. PICK x : x = seq + n
    OBVIOUS
  <1>4. (x % Modulus) = IF x < Modulus THEN x ELSE x - Modulus
    BY <1>1, <1>2, <1>3
  <1>5. Plus(seq, n) = x % Modulus
    BY <1>3 DEF Plus
  <1>6. QED BY <1>2, <1>3, <1>4, <1>5, ModulusAssumption DEF SeqNumber

\* The end of a stretch of less than a turn is as far as the stretch is long.
LEMMA DistanceOfPlus ==
  ASSUME NEW seq \in SeqNumber, NEW n \in Nat, n < Modulus
  PROVE  Distance(seq, Plus(seq, n)) = n /\ Plus(seq, n) \in SeqNumber
  <1>1. Plus(seq, n) = IF seq + n < Modulus THEN seq + n ELSE seq + n - Modulus
    BY PlusCases
  <1>2. Modulus \in Nat
    BY ModulusAssumption
  <1>3. QED BY <1>1, <1>2 DEF SeqNumber, Distance

\* And the other way round.
LEMMA PlusOfDistance ==
  ASSUME NEW start \in SeqNumber, NEW end \in SeqNumber
  PROVE  /\ Distance(start, end) \in 0 .. Modulus - 1
         /\ Plus(start, Distance(start, end)) = end
  <1>1. Distance(start, end) \in 0 .. Modulus - 1
    BY ModulusAssumption DEF SeqNumber, Distance
  <1>2. QED BY <1>1, PlusCases, ModulusAssumption DEF SeqNumber, Distance

\* Two stretches in a row.
LEMMA PlusPlus ==
  ASSUME NEW seq \in SeqNumber, NEW m \in Nat, NEW n \in Nat, m + n < Modulus
  PROVE  Plus(Plus(seq, m), n) = Plus(seq, m + n)
  <1>1. m < Modulus /\ n < Modulus /\ m + n \in Nat /\ Modulus \in Nat
    BY ModulusAssumption
  <1>2. Plus(seq, m) \in SeqNumber
    BY <1>1, DistanceOfPlus
  <1>3. Plus(seq, m) = IF seq + m < Modulus THEN seq + m ELSE seq + m - Modulus
    BY <1>1, PlusCases
  <1>4. Plus(seq, m + n)
          = IF seq + (m + n) < Modulus THEN seq + (m + n) ELSE seq + (m + n) - Modulus
    BY <1>1, PlusCases
  <1>5. Plus(Plus(seq, m), n)
          = IF Plus(seq, m) + n < Modulus THEN Plus(seq, m) + n
            ELSE Plus(seq, m) + n - Modulus
    BY <1>1, <1>2, PlusCases
  <1>6. QED BY <1>1, <1>2, <1>3, <1>4, <1>5 DEF SeqNumber

\* Of two different words one is before the other, counting half a turn as before.
LEMMA BeforeOrAfter ==
  ASSUME NEW a \in SeqNumber, NEW b \in SeqNumber
  PROVE  /\ a # b => Distance(a, b) + Distance(b, a) = Modulus
         /\ Distance(a, a) = 0
         /\ ~Before(a, a)
         /\ ~Before(a, b) /\ ~Before(b, a) => a = b
  BY ModulusAssumption DEF SeqNumber, Distance, Before

-----------------------------------------------------------------------------
(* Bytes of a family: PayloadBytes and HeldBytes count the same kind of set *)

\* One cell for each byte of each member.
Cells(I, size) == UNION {{i} \X (1 .. size[i]) : i \in I}

\* A cell is a member and a place in it.
LEMMA CellIn ==
  ASSUME NEW I, NEW size
  PROVE  \A x : x \in Cells(I, size) <=> \E i \in I : \E k \in 1 .. size[i] : x = <<i, k>>
  BY DEF Cells

\* A finite family has finitely many cells.
LEMMA CellsFinite ==
  ASSUME NEW I, IsFiniteSet(I), NEW size \in [I -> Nat]
  PROVE  IsFiniteSet(Cells(I, size)) /\ Cardinality(Cells(I, size)) \in Nat
  <1> DEFINE f == [i \in I |-> {i} \X (1 .. size[i])]
  <1>1. ASSUME NEW i \in I PROVE IsFiniteSet(f[i])
    <2>1. IsFiniteSet(1 .. size[i]) /\ IsFiniteSet({i})
      BY PrefixIsFinite, FS_Singleton
    <2>2. QED BY <2>1, FS_Product
  <1>2. IsFiniteSet(UNION {f[i] : i \in I})
    <2> HIDE DEF f
    <2>1. f = [i \in I |-> f[i]]
      BY DEF f
    <2>2. QED BY <1>1, <2>1, FiniteFamily
  <1>3. Cells(I, size) = UNION {f[i] : i \in I}
    BY DEF Cells
  <1> HIDE DEF f
  <1>4. QED BY <1>2, <1>3, FS_CardinalityType

\* The cells of two families without a common member add up.
LEMMA CellsAdd ==
  ASSUME NEW I, NEW J, IsFiniteSet(I), IsFiniteSet(J), I \cap J = {},
         NEW size \in [I \cup J -> Nat]
  PROVE  Cardinality(Cells(I \cup J, size))
           = Cardinality(Cells(I, size)) + Cardinality(Cells(J, size))
  <1> DEFINE a == [i \in I |-> size[i]]
             b == [i \in J |-> size[i]]
  <1>1. a \in [I -> Nat] /\ b \in [J -> Nat]
    OBVIOUS
  <1>2. Cells(I, size) = Cells(I, a) /\ Cells(J, size) = Cells(J, b)
    BY DEF Cells
  <1> HIDE DEF a, b
  <1>3. IsFiniteSet(Cells(I, size)) /\ IsFiniteSet(Cells(J, size))
    BY <1>1, <1>2, CellsFinite
  <1>4. Cells(I, size) \cap Cells(J, size) = {}
    BY CellIn
  <1>5. Cells(I \cup J, size) = Cells(I, size) \cup Cells(J, size)
    BY DEF Cells
  <1>6. Cardinality({}) = 0
    BY FS_EmptySet
  <1>7. /\ Cardinality(Cells(I, size)) \in Nat
        /\ Cardinality(Cells(J, size)) \in Nat
    BY <1>3, FS_CardinalityType
  <1>8. Cardinality(Cells(I, size) \cup Cells(J, size))
          = Cardinality(Cells(I, size)) + Cardinality(Cells(J, size))
            - Cardinality(Cells(I, size) \cap Cells(J, size))
    BY <1>3, FS_Union
  <1>9. Cardinality(Cells(I, size) \cap Cells(J, size)) = 0
    BY <1>4, <1>6
  <1>10. \A m, n \in Nat : m + n - 0 = m + n
    OBVIOUS
  <1>11. QED BY <1>5, <1>7, <1>8, <1>9, <1>10

\* A renaming of the members that keeps their sizes keeps the number of cells.
LEMMA CellsRenamed ==
  ASSUME NEW I, IsFiniteSet(I), NEW J, NEW f \in Bijection(I, J),
         NEW a \in [I -> Nat], NEW b, \A i \in I : b[f[i]] = a[i]
  PROVE  Cardinality(Cells(J, b)) = Cardinality(Cells(I, a))
  <1> DEFINE g == [x \in Cells(I, a) |-> <<f[x[1]], x[2]>>]
  <1>1. \A x \in Cells(I, a) : x = <<x[1], x[2]>> /\ x[1] \in I /\ x[2] \in 1 .. a[x[1]]
    BY CellIn
  <1>2. \A i \in I : f[i] \in J
    BY DEF Bijection, Injection, IsInjective
  <1>3. \A i, k \in I : f[i] = f[k] => i = k
    BY DEF Bijection, Injection, IsInjective
  <1>4. \A j \in J : \E i \in I : f[i] = j
    BY DEF Bijection, Surjection
  <1>5. g \in [Cells(I, a) -> Cells(J, b)]
    <2> SUFFICES ASSUME NEW x \in Cells(I, a) PROVE <<f[x[1]], x[2]>> \in Cells(J, b)
      OBVIOUS
    <2>1. x[1] \in I /\ x[2] \in 1 .. a[x[1]] /\ f[x[1]] \in J /\ b[f[x[1]]] = a[x[1]]
      BY <1>1, <1>2
    <2>2. QED BY <2>1, CellIn
  <1>6. \A x, y \in Cells(I, a) : g[x] = g[y] => x = y
    BY <1>1, <1>3
  <1>7. \A y \in Cells(J, b) : \E x \in Cells(I, a) : g[x] = y
    <2> TAKE y \in Cells(J, b)
    <2>1. PICK j \in J : \E k \in 1 .. b[j] : y = <<j, k>>
      BY CellIn
    <2>2. PICK k \in 1 .. b[j] : y = <<j, k>>
      BY <2>1
    <2>3. PICK i \in I : f[i] = j
      BY <1>4
    <2>4. k \in 1 .. a[i]
      BY <2>3
    <2>5. <<i, k>> \in Cells(I, a)
      BY <2>4, CellIn
    <2>6. g[<<i, k>>] = y
      BY <2>2, <2>3, <2>5
    <2>7. QED BY <2>5, <2>6
  <1>8. g \in Bijection(Cells(I, a), Cells(J, b))
    <2> HIDE DEF g
    <2>1. QED BY <1>5, <1>6, <1>7 DEF Bijection, Injection, Surjection, IsInjective
  <1>9. IsFiniteSet(Cells(I, a))
    BY CellsFinite
  <1> HIDE DEF g
  <1>10. ExistsBijection(Cells(I, a), Cells(J, b))
    BY <1>8 DEF ExistsBijection
  <1>11. QED BY <1>9, <1>10, FS_Bijection

\* One member has as many cells as it has bytes.
LEMMA CellsOfOne ==
  ASSUME NEW i, NEW size, size[i] \in Nat
  PROVE  Cardinality(Cells({i}, size)) = size[i]
  <1> DEFINE n == size[i]
             g == [k \in 1 .. n |-> <<i, k>>]
  <1>1. g \in [1 .. n -> Cells({i}, size)]
    BY CellIn
  <1>2. \A j, k \in 1 .. n : g[j] = g[k] => j = k
    OBVIOUS
  <1>3. \A y \in Cells({i}, size) : \E k \in 1 .. n : g[k] = y
    BY CellIn
  <1>4. g \in Bijection(1 .. n, Cells({i}, size))
    <2> HIDE DEF g, n
    <2>1. QED BY <1>1, <1>2, <1>3 DEF Bijection, Injection, Surjection, IsInjective
  <1>5. IsFiniteSet(1 .. n) /\ Cardinality(1 .. n) = n
    BY PrefixIsFinite
  <1> HIDE DEF g, n
  <1>6. ExistsBijection(1 .. n, Cells({i}, size))
    BY <1>4 DEF ExistsBijection
  <1>7. QED BY <1>5, <1>6, FS_Bijection DEF n

\* No member, no cell.
LEMMA CellsOfNone ==
  ASSUME NEW size
  PROVE  Cardinality(Cells({}, size)) = 0
  <1>1. Cells({}, size) = {}
    BY CellIn
  <1>2. QED BY <1>1, FS_EmptySet

-----------------------------------------------------------------------------
(* Payload in a queue of segments                                          *)

Lengths(segs) == [i \in DOMAIN segs |-> Len(segs[i].data)]

\* PayloadBytes counts the cells of the queue.
LEMMA PayloadCells ==
  ASSUME NEW segs \in Seq(TrackedSegment)
  PROVE  /\ Lengths(segs) \in [1 .. Len(segs) -> Nat] /\ DOMAIN segs = 1 .. Len(segs)
         /\ PayloadBytes(segs) = Cardinality(Cells(1 .. Len(segs), Lengths(segs)))
         /\ PayloadBytes(segs) \in Nat
         /\ IsFiniteSet(1 .. Len(segs))
  <1>1. DOMAIN segs = 1 .. Len(segs) /\ Len(segs) \in Nat
    OBVIOUS
  <1>2. \A i \in 1 .. Len(segs) : Len(segs[i].data) \in Nat
    <2> TAKE i \in 1 .. Len(segs)
    <2>1. segs[i] \in TrackedSegment
      BY ElementOfSeq
    <2>2. segs[i].data \in Seq(Byte)
      BY <2>1 DEF TrackedSegment
    <2>3. QED BY <2>2
  <1>3. Lengths(segs) \in [1 .. Len(segs) -> Nat]
    BY <1>1, <1>2 DEF Lengths
  <1>4. IsFiniteSet(1 .. Len(segs))
    BY <1>1, PrefixIsFinite
  <1>5. UNION {{i} \X (1 .. Len(segs[i].data)) : i \in DOMAIN segs}
          = Cells(1 .. Len(segs), Lengths(segs))
    BY <1>1 DEF Cells, Lengths
  <1>6. QED BY <1>1, <1>3, <1>4, <1>5, CellsFinite DEF PayloadBytes

\* The payload of two queues in a row adds up.
LEMMA PayloadConcat ==
  ASSUME NEW p \in Seq(TrackedSegment), NEW q \in Seq(TrackedSegment)
  PROVE  PayloadBytes(p \o q) = PayloadBytes(p) + PayloadBytes(q)
  <1> DEFINE m == Len(p)
             n == Len(q)
             s == p \o q
             I == 1 .. m
             J == m + 1 .. m + n
             K == 1 .. n
             f == [i \in I |-> i]
             g == [i \in K |-> m + i]
  <1>1. m \in Nat /\ n \in Nat /\ s \in Seq(TrackedSegment) /\ Len(s) = m + n
        /\ (\A i \in I : s[i] = p[i]) /\ (\A i \in 1 .. n : s[m + i] = q[i])
    BY ConcatProperties
  <1> HIDE DEF m, n, s
  <1>2. f \in Bijection(I, I) /\ g \in Bijection(K, J)
    <2>1. f \in Bijection(I, I)
      BY DEF Bijection, Injection, Surjection, IsInjective
    <2>2. g \in [K -> J]
      BY <1>1
    <2>3. \A i, j \in K : g[i] = g[j] => i = j
      BY <1>1
    <2>4. \A j \in J : j - m \in K /\ g[j - m] = j
      BY <1>1
    <2>5. g \in Bijection(K, J)
      <3> HIDE DEF g, J, K
      <3>1. QED BY <2>2, <2>3, <2>4 DEF Bijection, Injection, Surjection, IsInjective
    <2>6. QED BY <2>1, <2>5
  <1>3. /\ DOMAIN p = I /\ DOMAIN q = K /\ DOMAIN s = 1 .. m + n
    BY <1>1 DEF m, n
  <1>4. /\ \A i \in I : Lengths(s)[f[i]] = Lengths(p)[i]
        /\ \A i \in K : Lengths(s)[g[i]] = Lengths(q)[i]
    <2>1. \A i \in I : i \in 1 .. m + n
      BY <1>1
    <2>2. \A i \in K : m + i \in 1 .. m + n
      BY <1>1
    <2>3. QED BY <1>1, <1>3, <2>1, <2>2 DEF Lengths
  <1>5. /\ Lengths(p) \in [I -> Nat] /\ PayloadBytes(p) = Cardinality(Cells(I, Lengths(p)))
        /\ IsFiniteSet(I)
    BY PayloadCells DEF m
  <1>6. /\ Lengths(q) \in [K -> Nat] /\ IsFiniteSet(K)
        /\ PayloadBytes(q) = Cardinality(Cells(K, Lengths(q)))
    BY PayloadCells DEF n
  <1>7. /\ Lengths(s) \in [1 .. m + n -> Nat]
        /\ PayloadBytes(s) = Cardinality(Cells(1 .. m + n, Lengths(s)))
    BY <1>1, PayloadCells
  <1>8. I \cup J = 1 .. m + n /\ I \cap J = {} /\ IsFiniteSet(J)
    <2>1. m + 1 \in Int /\ m + n \in Int
      BY <1>1
    <2>2. IsFiniteSet(m + 1 .. m + n)
      BY <2>1, FS_Interval
    <2>3. QED BY <1>1, <2>2
  <1> HIDE DEF I, J, K, f, g
  <1>9. Cardinality(Cells(I, Lengths(s))) = PayloadBytes(p)
    <2>1. f \in Bijection(I, I) /\ Lengths(p) \in [I -> Nat] /\ IsFiniteSet(I)
      BY <1>2, <1>5
    <2>2. \A i \in I : Lengths(s)[f[i]] = Lengths(p)[i]
      BY <1>4
    <2>3. QED BY <1>5, <2>1, <2>2, CellsRenamed
  <1>10. Cardinality(Cells(J, Lengths(s))) = PayloadBytes(q)
    <2>1. g \in Bijection(K, J) /\ Lengths(q) \in [K -> Nat] /\ IsFiniteSet(K)
      BY <1>2, <1>6
    <2>2. \A i \in K : Lengths(s)[g[i]] = Lengths(q)[i]
      BY <1>4
    <2>3. QED BY <1>6, <2>1, <2>2, CellsRenamed
  <1>11. Lengths(s) \in [I \cup J -> Nat]
    BY <1>7, <1>8
  <1>12. Cardinality(Cells(I \cup J, Lengths(s)))
           = Cardinality(Cells(I, Lengths(s))) + Cardinality(Cells(J, Lengths(s)))
    BY <1>5, <1>8, <1>11, CellsAdd
  <1>13. PayloadBytes(s) = PayloadBytes(p) + PayloadBytes(q)
    BY <1>7, <1>8, <1>9, <1>10, <1>12
  <1>14. QED BY <1>13 DEF s

\* Queues of the same length that carry as many bytes at each place.
LEMMA PayloadSame ==
  ASSUME NEW p \in Seq(TrackedSegment), NEW q \in Seq(TrackedSegment), Len(p) = Len(q),
         \A i \in 1 .. Len(p) : Len(p[i].data) = Len(q[i].data)
  PROVE  PayloadBytes(p) = PayloadBytes(q)
  <1>1. DOMAIN p = 1 .. Len(p) /\ DOMAIN q = 1 .. Len(p)
    OBVIOUS
  <1>2. Lengths(p) = Lengths(q)
    BY <1>1 DEF Lengths
  <1>3. QED BY <1>2, PayloadCells

\* The payload of one segment, and of none.
LEMMA PayloadSmall ==
  /\ PayloadBytes(<<>>) = 0
  /\ \A t \in TrackedSegment : PayloadBytes(<<t>>) = Len(t.data)
  <1>1. PayloadBytes(<<>>) = 0
    <2>1. <<>> \in Seq(TrackedSegment) /\ 1 .. Len(<<>>) = {}
      OBVIOUS
    <2>2. QED BY <2>1, PayloadCells, CellsOfNone
  <1>2. ASSUME NEW t \in TrackedSegment PROVE PayloadBytes(<<t>>) = Len(t.data)
    <2> DEFINE q == <<t>>
    <2>1. q \in Seq(TrackedSegment) /\ Len(q) = 1 /\ 1 .. 1 = {1} /\ q[1] = t /\ DOMAIN q = {1}
      OBVIOUS
    <2> HIDE DEF q
    <2>2. Len(t.data) \in Nat
      BY DEF TrackedSegment
    <2>3. Lengths(q)[1] = Len(t.data)
      BY <2>1 DEF Lengths
    <2>4. PayloadBytes(q) = Cardinality(Cells({1}, Lengths(q)))
      BY <2>1, PayloadCells
    <2>5. PayloadBytes(q) = Len(t.data)
      BY <2>2, <2>3, <2>4, CellsOfOne
    <2>6. QED BY <2>5 DEF q
  <1>3. QED BY <1>1, <1>2

\* A sequence is its beginning and the rest.
LEMMA SequenceCut ==
  ASSUME NEW S, NEW q \in Seq(S), NEW n \in 0 .. Len(q)
  PROVE  q = SubSeq(q, 1, n) \o SubSeq(q, n + 1, Len(q))
  <1> DEFINE a == SubSeq(q, 1, n)
             b == SubSeq(q, n + 1, Len(q))
  <1>1. a \in Seq(S) /\ Len(a) = n /\ \A i \in 1 .. n : a[i] = q[i]
    OBVIOUS
  <1>2. b \in Seq(S) /\ Len(b) = Len(q) - n /\ \A i \in 1 .. Len(q) - n : b[i] = q[n + i]
    OBVIOUS
  <1> HIDE DEF a, b
  <1>3. /\ a \o b \in Seq(S) /\ Len(a \o b) = Len(a) + Len(b)
        /\ \A i \in 1 .. Len(a) + Len(b) :
             (a \o b)[i] = IF i <= Len(a) THEN a[i] ELSE b[i - Len(a)]
    BY <1>1, <1>2, ConcatProperties
  <1>4. n \in Nat /\ Len(q) \in Nat
    OBVIOUS
  <1>5. ASSUME NEW i \in 1 .. Len(q) PROVE (a \o b)[i] = q[i]
    <2>1. CASE i <= n
      BY <1>1, <1>2, <1>3, <1>4, <2>1
    <2>2. CASE i > n
      <3>1. i - n \in 1 .. Len(q) - n /\ n + (i - n) = i
        BY <1>4, <2>2
      <3>2. b[i - n] = q[n + (i - n)]
        BY <1>2, <3>1
      <3>3. (a \o b)[i] = b[i - n]
        BY <1>1, <1>2, <1>3, <1>4, <2>2
      <3>4. QED BY <3>1, <3>2, <3>3
    <2>3. i <= n \/ i > n
      BY <1>4
    <2>4. QED BY <2>1, <2>2, <2>3
  <1>6. Len(a \o b) = Len(q)
    BY <1>1, <1>2, <1>3, <1>4
  <1>7. q = a \o b
    BY <1>3, <1>5, <1>6, SeqEqual
  <1>8. QED BY <1>7 DEF a, b

\* A sequence whose first element was replaced.
LEMMA SequenceFront ==
  ASSUME NEW S, NEW q \in Seq(S), q # <<>>, NEW t \in S
  PROVE  q = <<q[1]>> \o SubSeq(q, 2, Len(q)) /\ [q EXCEPT ![1] = t] = <<t>> \o SubSeq(q, 2, Len(q))
  <1>1. ASSUME NEW p \in Seq(S), p # <<>> PROVE p = <<p[1]>> \o SubSeq(p, 2, Len(p))
    <2>0. Len(p) \in Nat \ {0}
      BY <1>1, EmptySeq
    <2>1. 1 \in 0 .. Len(p) /\ SubSeq(p, 1, 1) = <<p[1]>> /\ 1 + 1 = 2
      <3>1. 1 \in 1 .. Len(p) /\ 1 \in 1 .. Len(p) /\ 1 - 1 = 0
        BY <2>0
      <3>2. /\ SubSeq(p, 1, 1) \in Seq(S) /\ Len(SubSeq(p, 1, 1)) = 1
            /\ SubSeq(p, 1, 1)[1] = p[1]
        BY <3>1
      <3>3. <<p[1]>> \in Seq(S) /\ Len(<<p[1]>>) = 1 /\ <<p[1]>>[1] = p[1] /\ 1 .. 1 = {1}
        BY <3>1
      <3>4. SubSeq(p, 1, 1) = <<p[1]>>
        BY <3>2, <3>3, SeqEqual
      <3>5. QED BY <2>0, <3>4
    <2>2. p = SubSeq(p, 1, 1) \o SubSeq(p, 1 + 1, Len(p))
      BY <2>1, SequenceCut
    <2>3. QED BY <2>1, <2>2
  <1> DEFINE p == [q EXCEPT ![1] = t]
  <1>2. p \in Seq(S) /\ Len(p) = Len(q) /\ p # <<>> /\ p[1] = t
        /\ \A j \in 2 .. Len(q) : p[j] = q[j]
    OBVIOUS
  <1> HIDE DEF p
  <1>3. SubSeq(p, 2, Len(p)) = SubSeq(q, 2, Len(q))
    <2>1. Len(q) \in Nat /\ 2 \in Int
      OBVIOUS
    <2>2. SubSeq(p, 2, Len(q)) \in Seq(S) /\ SubSeq(q, 2, Len(q)) \in Seq(S)
      BY <1>2
    <2>3. Len(SubSeq(p, 2, Len(q))) = Len(q) - 1 /\ Len(SubSeq(q, 2, Len(q))) = Len(q) - 1
      BY <1>2, <2>1
    <2>4. \A i \in 1 .. Len(q) - 1 : SubSeq(p, 2, Len(q))[i] = SubSeq(q, 2, Len(q))[i]
      BY <1>2, <2>1
    <2>5. QED BY <1>2, <2>2, <2>3, <2>4, SeqEqual
  <1>4. QED BY <1>1, <1>2, <1>3 DEF p

\* A queue cut in two.
LEMMA PayloadCut ==
  ASSUME NEW q \in Seq(TrackedSegment), NEW n \in 0 .. Len(q)
  PROVE  /\ SubSeq(q, 1, n) \in Seq(TrackedSegment)
         /\ SubSeq(q, n + 1, Len(q)) \in Seq(TrackedSegment)
         /\ PayloadBytes(q) = PayloadBytes(SubSeq(q, 1, n))
                                + PayloadBytes(SubSeq(q, n + 1, Len(q)))
  <1>1. SubSeq(q, 1, n) \in Seq(TrackedSegment) /\ Len(SubSeq(q, 1, n)) = n
    OBVIOUS
  <1>2. SubSeq(q, n + 1, Len(q)) \in Seq(TrackedSegment)
        /\ Len(SubSeq(q, n + 1, Len(q))) = Len(q) - n
    OBVIOUS
  <1>3. q = SubSeq(q, 1, n) \o SubSeq(q, n + 1, Len(q))
    BY <1>1, <1>2, SequenceCut
  <1>4. QED BY <1>1, <1>2, <1>3, PayloadConcat

\* A segment at the end of a queue.
LEMMA PayloadAppend ==
  ASSUME NEW q \in Seq(TrackedSegment), NEW t \in TrackedSegment
  PROVE  PayloadBytes(Append(q, t)) = PayloadBytes(q) + Len(t.data)
  <1>1. <<t>> \in Seq(TrackedSegment) /\ Append(q, t) = q \o <<t>>
    OBVIOUS
  <1>2. QED BY <1>1, PayloadConcat, PayloadSmall

\* The first segment replaced.
LEMMA PayloadFront ==
  ASSUME NEW q \in Seq(TrackedSegment), q # <<>>, NEW t \in TrackedSegment
  PROVE  PayloadBytes([q EXCEPT ![1] = t]) + Len(q[1].data) = PayloadBytes(q) + Len(t.data)
  <1> DEFINE r == SubSeq(q, 2, Len(q))
  <1>1. /\ r \in Seq(TrackedSegment) /\ q[1] \in TrackedSegment
        /\ <<t>> \in Seq(TrackedSegment) /\ <<q[1]>> \in Seq(TrackedSegment)
    OBVIOUS
  <1>2. q = <<q[1]>> \o r /\ [q EXCEPT ![1] = t] = <<t>> \o r
    BY SequenceFront
  <1> HIDE DEF r
  <1>3. PayloadBytes(r) \in Nat /\ Len(t.data) \in Nat /\ Len(q[1].data) \in Nat
    <2>1. PayloadBytes(r) \in Nat
      BY <1>1, PayloadCells
    <2>2. \A u \in TrackedSegment : Len(u.data) \in Nat
      BY DEF TrackedSegment
    <2>3. QED BY <1>1, <2>1, <2>2
  <1>4. PayloadBytes(<<q[1]>> \o r) = Len(q[1].data) + PayloadBytes(r)
    BY <1>1, PayloadConcat, PayloadSmall
  <1>5. PayloadBytes(<<t>> \o r) = Len(t.data) + PayloadBytes(r)
    BY <1>1, PayloadConcat, PayloadSmall
  <1>6. PayloadBytes(q) = Len(q[1].data) + PayloadBytes(r)
    BY <1>2, <1>4
  <1>7. PayloadBytes([q EXCEPT ![1] = t]) = Len(t.data) + PayloadBytes(r)
    BY <1>2, <1>5
  <1>8. \A a, b, d \in Nat : (a + d) + b = (b + d) + a
    OBVIOUS
  <1>9. QED BY <1>3, <1>6, <1>7, <1>8

-----------------------------------------------------------------------------
(* A queue of segments that tiles a stretch of sequence numbers            *)

Tiled(q, first, last) ==
  /\ \A i \in 1 .. Len(q) - 1 : TrackedEnd(q[i]) = q[i + 1].seq
  /\ IF Len(q) = 0 THEN first = last
     ELSE q[1].seq = first /\ TrackedEnd(q[Len(q)]) = last

\* Two tilings in a row are one.
LEMMA TiledConcat ==
  ASSUME NEW p \in Seq(TrackedSegment), NEW q \in Seq(TrackedSegment),
         NEW first, NEW middle, NEW last, Tiled(p, first, middle), Tiled(q, middle, last)
  PROVE  Tiled(p \o q, first, last)
  <1> DEFINE m == Len(p)
             n == Len(q)
             s == p \o q
  <1>1. m \in Nat /\ n \in Nat /\ Len(s) = m + n
        /\ (\A i \in 1 .. m : s[i] = p[i]) /\ (\A i \in 1 .. n : s[m + i] = q[i])
    BY ConcatProperties
  <1>2. /\ \A i \in 1 .. m - 1 : TrackedEnd(p[i]) = p[i + 1].seq
        /\ IF m = 0 THEN first = middle ELSE p[1].seq = first /\ TrackedEnd(p[m]) = middle
    BY DEF Tiled
  <1>3. /\ \A i \in 1 .. n - 1 : TrackedEnd(q[i]) = q[i + 1].seq
        /\ IF n = 0 THEN middle = last ELSE q[1].seq = middle /\ TrackedEnd(q[n]) = last
    BY DEF Tiled
  <1> HIDE DEF m, n, s
  <1>4. ASSUME NEW i \in 1 .. m + n - 1 PROVE TrackedEnd(s[i]) = s[i + 1].seq
    <2>1. CASE i < m
      <3>1. i \in 1 .. m /\ i + 1 \in 1 .. m /\ i \in 1 .. m - 1
        BY <1>1, <2>1
      <3>2. QED BY <1>1, <1>2, <3>1
    <2>2. CASE i = m
      <3>1. i \in 1 .. m /\ 1 \in 1 .. n /\ m # 0 /\ n # 0
        BY <1>1, <2>2
      <3>2. s[i] = p[m] /\ s[m + 1] = q[1]
        BY <1>1, <2>2, <3>1
      <3>3. QED BY <1>2, <1>3, <2>2, <3>1, <3>2
    <2>3. CASE i > m
      <3>1. PICK j \in 1 .. n - 1 : i = m + j /\ i + 1 = m + (j + 1)
        <4>1. i - m \in 1 .. n - 1 /\ i = m + (i - m) /\ i + 1 = m + ((i - m) + 1)
          BY <1>1, <2>3
        <4>2. QED BY <4>1
      <3>2. j \in 1 .. n /\ j + 1 \in 1 .. n
        BY <1>1, <3>1
      <3>3. s[i] = q[j] /\ s[i + 1] = q[j + 1]
        BY <1>1, <3>1, <3>2
      <3>4. QED BY <1>3, <3>1, <3>3
    <2>4. i < m \/ i = m \/ i > m
      BY <1>1
    <2>5. QED BY <2>1, <2>2, <2>3, <2>4
  <1>5. IF m + n = 0 THEN first = last ELSE s[1].seq = first /\ TrackedEnd(s[m + n]) = last
    <2>1. CASE m = 0 /\ n = 0
      BY <1>2, <1>3, <2>1
    <2>2. CASE m = 0 /\ n # 0
      <3>1. 1 \in 1 .. n /\ n \in 1 .. n /\ m + n # 0 /\ m + 1 = 1
        BY <1>1, <2>2
      <3>2. s[1] = q[1] /\ s[m + n] = q[n]
        BY <1>1, <3>1
      <3>3. QED BY <1>2, <1>3, <2>2, <3>1, <3>2
    <2>3. CASE m # 0 /\ n = 0
      <3>1. 1 \in 1 .. m /\ m \in 1 .. m /\ m + n # 0 /\ m + n = m
        BY <1>1, <2>3
      <3>2. s[1] = p[1] /\ s[m + n] = p[m]
        BY <1>1, <3>1
      <3>3. QED BY <1>2, <1>3, <2>3, <3>1, <3>2
    <2>4. CASE m # 0 /\ n # 0
      <3>1. 1 \in 1 .. m /\ n \in 1 .. n /\ m + n # 0
        BY <1>1, <2>4
      <3>2. s[1] = p[1] /\ s[m + n] = q[n]
        BY <1>1, <3>1
      <3>3. QED BY <1>2, <1>3, <2>4, <3>1, <3>2
    <2>5. QED BY <2>1, <2>2, <2>3, <2>4
  <1>6. Tiled(s, first, last)
    BY <1>1, <1>4, <1>5 DEF Tiled
  <1>7. QED BY <1>6 DEF s

\* One segment tiles what it spans.
LEMMA TiledOne ==
  ASSUME NEW t \in TrackedSegment
  PROVE  Tiled(<<t>>, t.seq, TrackedEnd(t))
  <1>1. Len(<<t>>) = 1 /\ <<t>>[1] = t /\ 1 .. 1 - 1 = {}
    OBVIOUS
  <1>2. QED BY <1>1 DEF Tiled

\* Nothing tiles nothing.
LEMMA TiledNone ==
  \A first : Tiled(<<>>, first, first)
  <1>1. Len(<<>>) = 0 /\ 1 .. 0 - 1 = {}
    OBVIOUS
  <1>2. QED BY <1>1 DEF Tiled

\* A segment that starts where a tiling ends extends it.
LEMMA TiledAppend ==
  ASSUME NEW q \in Seq(TrackedSegment), NEW t \in TrackedSegment, NEW first,
         Tiled(q, first, t.seq)
  PROVE  Tiled(Append(q, t), first, TrackedEnd(t))
  <1>1. <<t>> \in Seq(TrackedSegment) /\ Append(q, t) = q \o <<t>>
    OBVIOUS
  <1>2. QED BY <1>1, TiledOne, TiledConcat

\* The rest of a tiling starts where what was cut off ends.
LEMMA TiledRest ==
  ASSUME NEW q \in Seq(TrackedSegment), NEW n \in 0 .. Len(q), NEW first, NEW last,
         Tiled(q, first, last)
  PROVE  Tiled(SubSeq(q, n + 1, Len(q)), IF n = 0 THEN first ELSE TrackedEnd(q[n]), last)
  <1> DEFINE m == Len(q)
             r == SubSeq(q, n + 1, m)
  <1>1. m \in Nat /\ n \in Nat /\ n <= m /\ Len(r) = m - n /\ \A i \in 1 .. m - n : r[i] = q[n + i]
    OBVIOUS
  <1>2. /\ \A i \in 1 .. m - 1 : TrackedEnd(q[i]) = q[i + 1].seq
        /\ IF m = 0 THEN first = last ELSE q[1].seq = first /\ TrackedEnd(q[m]) = last
    BY DEF Tiled
  <1> HIDE DEF m, r
  <1>3. ASSUME NEW i \in 1 .. (m - n) - 1 PROVE TrackedEnd(r[i]) = r[i + 1].seq
    <2>1. i \in 1 .. m - n /\ i + 1 \in 1 .. m - n /\ n + i \in 1 .. m - 1
          /\ n + (i + 1) = (n + i) + 1
      BY <1>1
    <2>2. QED BY <1>1, <1>2, <2>1
  <1>4. CASE n = m
    <2>1. Len(r) = 0
      BY <1>1, <1>4
    <2>2. QED BY <1>1, <1>2, <1>3, <1>4, <2>1 DEF Tiled, m, r
  <1>5. CASE n # m
    <2>1. 1 \in 1 .. m - n /\ m - n \in 1 .. m - n /\ n + (m - n) = m /\ m # 0 /\ m - n # 0
      BY <1>1, <1>5
    <2>2. r[1] = q[n + 1] /\ r[m - n] = q[m]
      BY <1>1, <2>1
    <2>3. n # 0 => n \in 1 .. m - 1
      BY <1>1, <1>5
    <2>4. r[1].seq = IF n = 0 THEN first ELSE TrackedEnd(q[n])
      BY <1>2, <2>1, <2>2, <2>3
    <2>5. Tiled(r, IF n = 0 THEN first ELSE TrackedEnd(q[n]), last)
      BY <1>1, <1>2, <1>3, <2>1, <2>2, <2>4 DEF Tiled
    <2>6. QED BY <2>5 DEF m, r
  <1>6. QED BY <1>4, <1>5

\* The first segment replaced by one that ends where it did.
LEMMA TiledFront ==
  ASSUME NEW q \in Seq(TrackedSegment), q # <<>>, NEW t \in TrackedSegment,
         TrackedEnd(t) = TrackedEnd(q[1]), NEW first, NEW last, Tiled(q, first, last)
  PROVE  Tiled([q EXCEPT ![1] = t], t.seq, last)
  <1> DEFINE r == SubSeq(q, 2, Len(q))
  <1>1. r \in Seq(TrackedSegment) /\ <<t>> \in Seq(TrackedSegment)
    OBVIOUS
  <1>2. [q EXCEPT ![1] = t] = <<t>> \o r
    BY SequenceFront
  <1>3. 1 \in 0 .. Len(q) /\ 1 + 1 = 2 /\ 1 # 0
    BY EmptySeq
  <1>4. Tiled(r, TrackedEnd(q[1]), last)
    BY <1>3, TiledRest
  <1> HIDE DEF r
  <1>5. Tiled(<<t>>, t.seq, TrackedEnd(t)) /\ Tiled(r, TrackedEnd(t), last)
    BY <1>4, TiledOne
  <1>6. Tiled(<<t>> \o r, t.seq, last)
    BY <1>1, <1>5, TiledConcat
  <1>7. QED BY <1>2, <1>6

-----------------------------------------------------------------------------
(* Flights short of a turn: no two segments end at the same place          *)

\* Past an intermediate place, distances add up as long as they stay short of
\* a turn.
LEMMA OffsetAdd ==
  ASSUME NEW first \in SeqNumber, NEW middle \in SeqNumber, NEW x \in SeqNumber,
         Distance(first, middle) + Distance(middle, x) < Modulus
  PROVE  Distance(first, x) = Distance(first, middle) + Distance(middle, x)
  BY ModulusAssumption DEF SeqNumber, Distance

\* And the other way round.
LEMMA OffsetSub ==
  ASSUME NEW first \in SeqNumber, NEW middle \in SeqNumber, NEW x \in SeqNumber,
         Distance(first, middle) <= Distance(first, x)
  PROVE  Distance(middle, x) = Distance(first, x) - Distance(first, middle)
  BY ModulusAssumption DEF SeqNumber, Distance

\* How far from "first" the segments of a queue start and end.
Fronts(q, first) == [i \in 1 .. Len(q) |-> Distance(first, q[i].seq)]
Backs(q, first)  == [i \in 1 .. Len(q) |-> Distance(first, TrackedEnd(q[i]))]

\* Seen from where the flight starts, segments take up room one after the
\* other, none of them past where it ends.
Straight(q, first, last) ==
  /\ \A i \in 1 .. Len(q) : /\ Fronts(q, first)[i] < Backs(q, first)[i]
                            /\ Backs(q, first)[i] <= Distance(first, last)
  /\ \A i, j \in 1 .. Len(q) : i < j => Backs(q, first)[i] <= Fronts(q, first)[j]

\* What the places of a segment of a queue are.
LEMMA PlacesAreWords ==
  ASSUME NEW q \in Seq(TrackedSegment)
  PROVE  \A i \in 1 .. Len(q) : q[i].seq \in SeqNumber /\ TrackedEnd(q[i]) \in SeqNumber
  <1>1. ASSUME NEW i \in 1 .. Len(q) PROVE q[i] \in TrackedSegment
    OBVIOUS
  <1>2. QED BY <1>1, TrackedEndType DEF TrackedSegment

\* Distances are numbers.
LEMMA PlacesType ==
  ASSUME NEW q \in Seq(TrackedSegment), NEW first \in SeqNumber
  PROVE  Fronts(q, first) \in [1 .. Len(q) -> Nat] /\ Backs(q, first) \in [1 .. Len(q) -> Nat]
  <1>1. ASSUME NEW i \in 1 .. Len(q)
        PROVE  Distance(first, q[i].seq) \in Nat /\ Distance(first, TrackedEnd(q[i])) \in Nat
    BY PlacesAreWords, DistanceType
  <1>2. QED BY <1>1 DEF Fronts, Backs

\* Nothing in flight.
LEMMA StraightNone ==
  \A first, last : Straight(<<>>, first, last)
  <1>1. Len(<<>>) = 0 /\ 1 .. 0 = {}
    OBVIOUS
  <1>2. QED BY <1>1 DEF Straight

\* One segment that is not empty.
LEMMA StraightOne ==
  ASSUME NEW t \in TrackedSegment, NEW n \in Nat \ {0}, n < Modulus,
         TrackedEnd(t) = Plus(t.seq, n)
  PROVE  Straight(<<t>>, t.seq, TrackedEnd(t)) /\ Distance(t.seq, TrackedEnd(t)) = n
  <1>1. t.seq \in SeqNumber
    BY DEF TrackedSegment
  <1>2. Distance(t.seq, TrackedEnd(t)) = n
    BY <1>1, DistanceOfPlus
  <1>3. Distance(t.seq, t.seq) = 0
    BY <1>1, BeforeOrAfter
  <1>4. Len(<<t>>) = 1 /\ <<t>>[1] = t /\ 1 .. 1 = {1}
    OBVIOUS
  <1>5. Fronts(<<t>>, t.seq)[1] = 0 /\ Backs(<<t>>, t.seq)[1] = n
    BY <1>2, <1>3, <1>4 DEF Fronts, Backs
  <1>6. QED BY <1>2, <1>4, <1>5 DEF Straight

\* Two flights in a row.
LEMMA StraightConcat ==
  ASSUME NEW p \in Seq(TrackedSegment), NEW q \in Seq(TrackedSegment),
         NEW first \in SeqNumber, NEW middle \in SeqNumber, NEW last \in SeqNumber,
         Straight(p, first, middle), Straight(q, middle, last),
         Distance(first, middle) + Distance(middle, last) < Modulus
  PROVE  Straight(p \o q, first, last)
  <1>1. PICK m : m = Len(p)
    OBVIOUS
  <1>2. PICK n : n = Len(q)
    OBVIOUS
  <1>3. PICK s : s = p \o q
    OBVIOUS
  <1>4. /\ m \in Nat /\ n \in Nat /\ Len(s) = m + n /\ s \in Seq(TrackedSegment)
        /\ (\A i \in 1 .. m : s[i] = p[i]) /\ (\A i \in 1 .. n : s[m + i] = q[i])
    BY <1>1, <1>2, <1>3, ConcatProperties
  <1>5. PICK pf, pb : pf = Fronts(p, first) /\ pb = Backs(p, first)
    OBVIOUS
  <1>6. PICK qf, qb : qf = Fronts(q, middle) /\ qb = Backs(q, middle)
    OBVIOUS
  <1>7. PICK sf, sb : sf = Fronts(s, first) /\ sb = Backs(s, first)
    OBVIOUS
  <1>8. PICK a : a = Distance(first, middle)
    OBVIOUS
  <1>9. PICK b : b = Distance(middle, last)
    OBVIOUS
  <1>10. /\ pf \in [1 .. m -> Nat] /\ pb \in [1 .. m -> Nat]
         /\ qf \in [1 .. n -> Nat] /\ qb \in [1 .. n -> Nat]
         /\ sf \in [1 .. m + n -> Nat] /\ sb \in [1 .. m + n -> Nat]
         /\ a \in Nat /\ b \in Nat /\ a + b < Modulus /\ Modulus \in Nat
    BY <1>1, <1>2, <1>4, <1>5, <1>6, <1>7, <1>8, <1>9, PlacesType, DistanceType, ModulusAssumption
  <1>11. /\ \A i \in 1 .. m : pf[i] < pb[i] /\ pb[i] <= a
         /\ \A i, j \in 1 .. m : i < j => pb[i] <= pf[j]
    BY <1>1, <1>5, <1>8 DEF Straight
  <1>12. /\ \A i \in 1 .. n : qf[i] < qb[i] /\ qb[i] <= b
         /\ \A i, j \in 1 .. n : i < j => qb[i] <= qf[j]
    BY <1>2, <1>6, <1>9 DEF Straight
  <1>13. \A i \in 1 .. m : sf[i] = pf[i] /\ sb[i] = pb[i]
    <2> TAKE i \in 1 .. m
    <2>1. i \in 1 .. m + n /\ s[i] = p[i]
      BY <1>4
    <2>2. QED BY <1>1, <1>4, <1>5, <1>7, <2>1 DEF Fronts, Backs
  <1>14. \A i \in 1 .. n : sf[m + i] = a + qf[i] /\ sb[m + i] = a + qb[i]
    <2> TAKE i \in 1 .. n
    <2>1. m + i \in 1 .. m + n /\ s[m + i] = q[i]
      BY <1>4
    <2>2. q[i].seq \in SeqNumber /\ TrackedEnd(q[i]) \in SeqNumber
      BY <1>2, PlacesAreWords
    <2>3. qf[i] = Distance(middle, q[i].seq) /\ qb[i] = Distance(middle, TrackedEnd(q[i]))
      BY <1>2, <1>6 DEF Fronts, Backs
    <2>4. sf[m + i] = Distance(first, q[i].seq) /\ sb[m + i] = Distance(first, TrackedEnd(q[i]))
      BY <1>4, <1>7, <2>1 DEF Fronts, Backs
    <2>5. qf[i] \in Nat /\ qb[i] \in Nat /\ a + qf[i] < Modulus /\ a + qb[i] < Modulus
      <3>1. qf[i] \in Nat /\ qb[i] \in Nat /\ qf[i] < qb[i] /\ qb[i] <= b
        BY <1>10, <1>12
      <3>2. QED BY <1>10, <3>1
    <2>6. QED BY <1>8, <2>2, <2>3, <2>4, <2>5, OffsetAdd
  <1>15. Distance(first, last) = a + b
    BY <1>8, <1>9, <1>10, OffsetAdd
  <1>16. \A i \in 1 .. m + n : (i \in 1 .. m) \/ \E j \in 1 .. n : i = m + j
    <2> TAKE i \in 1 .. m + n
    <2>1. i <= m \/ (i - m \in 1 .. n /\ i = m + (i - m))
      BY <1>4
    <2>2. QED BY <1>4, <2>1
  <1>17. ASSUME NEW i \in 1 .. m + n PROVE sf[i] < sb[i] /\ sb[i] <= a + b
    <2>1. CASE i \in 1 .. m
      <3>1. pf[i] \in Nat /\ pb[i] \in Nat /\ pf[i] < pb[i] /\ pb[i] <= a
        BY <1>10, <1>11, <2>1
      <3>2. QED BY <1>10, <1>13, <2>1, <3>1
    <2>2. CASE \E j \in 1 .. n : i = m + j
      <3>1. PICK j \in 1 .. n : i = m + j
        BY <2>2
      <3>2. qf[j] \in Nat /\ qb[j] \in Nat /\ qf[j] < qb[j] /\ qb[j] <= b
        BY <1>10, <1>12
      <3>3. QED BY <1>10, <1>14, <3>1, <3>2
    <2>3. QED BY <1>16, <2>1, <2>2
  <1>18. ASSUME NEW i \in 1 .. m + n, NEW j \in 1 .. m + n, i < j PROVE sb[i] <= sf[j]
    <2>1. CASE i \in 1 .. m /\ j \in 1 .. m
      BY <1>11, <1>13, <1>18, <2>1
    <2>2. CASE i \in 1 .. m /\ \E l \in 1 .. n : j = m + l
      <3>1. PICK l \in 1 .. n : j = m + l
        BY <2>2
      <3>2. qf[l] \in Nat /\ pb[i] \in Nat /\ pb[i] <= a
        BY <1>10, <1>11, <2>2
      <3>3. QED BY <1>10, <1>13, <1>14, <2>2, <3>1, <3>2
    <2>3. CASE (\E k \in 1 .. n : i = m + k) /\ j \in 1 .. m
      <3>1. PICK k \in 1 .. n : i = m + k
        BY <2>3
      <3>2. QED BY <1>4, <1>18, <2>3, <3>1
    <2>4. CASE (\E k \in 1 .. n : i = m + k) /\ (\E l \in 1 .. n : j = m + l)
      <3>1. PICK k \in 1 .. n : i = m + k
        BY <2>4
      <3>2. PICK l \in 1 .. n : j = m + l
        BY <2>4
      <3>3. k < l
        BY <1>4, <1>18, <3>1, <3>2
      <3>4. qb[k] <= qf[l] /\ qb[k] \in Nat /\ qf[l] \in Nat
        BY <1>10, <1>12, <3>3
      <3>5. QED BY <1>10, <1>14, <3>1, <3>2, <3>4
    <2>5. QED BY <1>16, <2>1, <2>2, <2>3, <2>4
  <1>19. Straight(s, first, last)
    BY <1>4, <1>7, <1>15, <1>17, <1>18 DEF Straight
  <1>20. QED BY <1>3, <1>19

\* Another segment in the place of the first.
LEMMA StraightFront ==
  ASSUME NEW q \in Seq(TrackedSegment), q # <<>>, NEW t \in TrackedSegment,
         TrackedEnd(t) = TrackedEnd(q[1]), t.seq = q[1].seq,
         NEW first, NEW last, Straight(q, first, last)
  PROVE  Straight([q EXCEPT ![1] = t], first, last)
  <1>1. 1 \in 1 .. Len(q) /\ Len([q EXCEPT ![1] = t]) = Len(q)
        /\ \A i \in 1 .. Len(q) : [q EXCEPT ![1] = t][i] = IF i = 1 THEN t ELSE q[i]
    BY EmptySeq
  <1>2. PICK r : r = [q EXCEPT ![1] = t]
    OBVIOUS
  <1>3. Len(r) = Len(q) /\ \A i \in 1 .. Len(q) : /\ r[i].seq = q[i].seq
                                                  /\ TrackedEnd(r[i]) = TrackedEnd(q[i])
    BY <1>1, <1>2
  <1>4. Fronts(r, first) = Fronts(q, first) /\ Backs(r, first) = Backs(q, first)
    BY <1>3 DEF Fronts, Backs
  <1>5. QED BY <1>2, <1>3, <1>4 DEF Straight

\* What is left of a flight, seen from a place that the front of it ends
\* behind.
LEMMA StraightRest ==
  ASSUME NEW q \in Seq(TrackedSegment), NEW n \in 0 .. Len(q),
         NEW first \in SeqNumber, NEW last \in SeqNumber, Straight(q, first, last),
         NEW ack \in SeqNumber, Distance(first, ack) <= Distance(first, last),
         NEW r \in Seq(TrackedSegment), Len(r) = Len(q) - n,
         r # <<>> => r[1].seq = ack /\ Distance(first, ack) < Distance(first, TrackedEnd(r[1])),
         \A i \in 1 .. Len(q) - n : /\ TrackedEnd(r[i]) = TrackedEnd(q[n + i])
                                    /\ i # 1 => r[i].seq = q[n + i].seq
  PROVE  Straight(r, ack, last)
  <1>1. PICK m : m = Len(q)
    OBVIOUS
  <1>2. PICK k : k = Len(r)
    OBVIOUS
  <1>3. m \in Nat /\ n \in Nat /\ n <= m /\ k \in Nat /\ k = m - n
    BY <1>1, <1>2
  <1>4. PICK qf, qb : qf = Fronts(q, first) /\ qb = Backs(q, first)
    OBVIOUS
  <1>5. PICK rf, rb : rf = Fronts(r, ack) /\ rb = Backs(r, ack)
    OBVIOUS
  <1>6. PICK a : a = Distance(first, ack)
    OBVIOUS
  <1>7. PICK f : f = Distance(first, last)
    OBVIOUS
  <1>8. /\ qf \in [1 .. m -> Nat] /\ qb \in [1 .. m -> Nat]
        /\ rf \in [1 .. k -> Nat] /\ rb \in [1 .. k -> Nat]
        /\ a \in Nat /\ f \in Nat /\ a <= f
    BY <1>1, <1>2, <1>4, <1>5, <1>6, <1>7, PlacesType, DistanceType
  <1>9. /\ \A i \in 1 .. m : qf[i] < qb[i] /\ qb[i] <= f
        /\ \A i, j \in 1 .. m : i < j => qb[i] <= qf[j]
    BY <1>1, <1>4, <1>7 DEF Straight
  <1>10. ASSUME NEW i \in 1 .. k
         PROVE  /\ n + i \in 1 .. m /\ 1 \in 1 .. k /\ n + 1 \in 1 .. m /\ r # <<>>
                /\ r[i].seq \in SeqNumber /\ TrackedEnd(r[i]) \in SeqNumber
                /\ qb[n + i] = Distance(first, TrackedEnd(r[i]))
                /\ i # 1 => qf[n + i] = Distance(first, r[i].seq)
                /\ rf[i] = Distance(ack, r[i].seq) /\ rb[i] = Distance(ack, TrackedEnd(r[i]))
    <2>1. n + i \in 1 .. m /\ 1 \in 1 .. k /\ n + 1 \in 1 .. m
      BY <1>3
    <2>2. r # <<>>
      BY <1>2, <1>3, <2>1, EmptySeq
    <2>3. i \in 1 .. Len(q) - n
      BY <1>1, <1>3
    <2>4. QED BY <1>1, <1>2, <1>4, <1>5, <2>1, <2>2, <2>3, PlacesAreWords DEF Fronts, Backs
  <1>11. \A i \in 1 .. k : a < qb[n + i]
    <2> TAKE i \in 1 .. k
    <2>1. a < qb[n + 1]
      BY <1>6, <1>10
    <2>2. CASE i = 1
      BY <2>1, <2>2
    <2>3. CASE i # 1
      <3>1. n + 1 < n + i /\ n + 1 \in 1 .. m /\ n + i \in 1 .. m
        BY <1>3, <1>10, <2>3
      <3>2. /\ qb[n + 1] <= qf[n + i] /\ qf[n + i] < qb[n + i]
            /\ qb[n + 1] \in Nat /\ qf[n + i] \in Nat /\ qb[n + i] \in Nat
        BY <1>8, <1>9, <3>1
      <3>3. QED BY <1>8, <2>1, <3>2
    <2>4. QED BY <2>2, <2>3
  <1>12. \A i \in 1 .. k : rb[i] = qb[n + i] - a
    <2> TAKE i \in 1 .. k
    <2>1. PICK x : x = TrackedEnd(r[i])
      OBVIOUS
    <2>2. x \in SeqNumber /\ qb[n + i] = Distance(first, x) /\ rb[i] = Distance(ack, x)
      BY <1>10, <2>1
    <2>3. a < qb[n + i] /\ qb[n + i] \in Nat
      BY <1>8, <1>10, <1>11
    <2>4. QED BY <1>6, <1>8, <2>2, <2>3, OffsetSub
  <1>13. \A i \in 1 .. k : i # 1 => a < qf[n + i] + 1 /\ rf[i] = qf[n + i] - a
    <2> TAKE i \in 1 .. k
    <2> HAVE i # 1
    <2>1. n + 1 < n + i /\ n + 1 \in 1 .. m /\ n + i \in 1 .. m /\ 1 \in 1 .. k
      BY <1>3, <1>10
    <2>2. qb[n + 1] <= qf[n + i] /\ qb[n + 1] \in Nat /\ qf[n + i] \in Nat /\ a < qb[n + 1]
      BY <1>8, <1>9, <1>11, <2>1
    <2>3. a <= Distance(first, r[i].seq) /\ a < qf[n + i] + 1
      BY <1>8, <1>10, <2>2
    <2>4. QED BY <1>6, <1>10, <2>3, OffsetSub
  <1>14. k # 0 => rf[1] = 0
    <2> HAVE k # 0
    <2>1. 1 \in 1 .. k
      BY <1>3
    <2>2. r[1].seq = ack /\ rf[1] = Distance(ack, r[1].seq)
      BY <1>10, <2>1
    <2>3. QED BY <2>2, BeforeOrAfter
  <1>15. Distance(ack, last) = f - a
    BY <1>6, <1>7, <1>8, OffsetSub
  <1>16. ASSUME NEW i \in 1 .. k PROVE rf[i] < rb[i] /\ rb[i] <= f - a
    <2>1. /\ qf[n + i] \in Nat /\ qb[n + i] \in Nat /\ qf[n + i] < qb[n + i] /\ qb[n + i] <= f
          /\ a < qb[n + i] /\ rb[i] = qb[n + i] - a
      BY <1>8, <1>9, <1>10, <1>11, <1>12
    <2>2. CASE i = 1
      <3>1. rf[i] = 0
        BY <1>3, <1>14, <2>2
      <3>2. QED BY <1>8, <2>1, <3>1
    <2>3. CASE i # 1
      BY <1>8, <1>13, <2>1, <2>3
    <2>4. QED BY <2>2, <2>3
  <1>17. ASSUME NEW i \in 1 .. k, NEW j \in 1 .. k, i < j PROVE rb[i] <= rf[j]
    <2>1. n + i \in 1 .. m /\ n + j \in 1 .. m /\ n + i < n + j /\ j # 1
      BY <1>3, <1>17
    <2>2. qb[n + i] <= qf[n + j] /\ qb[n + i] \in Nat /\ qf[n + j] \in Nat
      BY <1>8, <1>9, <2>1
    <2>3. QED BY <1>8, <1>12, <1>13, <2>1, <2>2
  <1>18. QED BY <1>2, <1>5, <1>15, <1>16, <1>17 DEF Straight

\* No two segments of a flight end at the same place.
LEMMA EndsDiffer ==
  ASSUME NEW q \in Seq(TrackedSegment), NEW first \in SeqNumber, NEW last,
         Straight(q, first, last)
  PROVE  \A i, j \in 1 .. Len(q) : TrackedEnd(q[i]) = TrackedEnd(q[j]) => i = j
  <1>1. PICK f, b : f = Fronts(q, first) /\ b = Backs(q, first)
    OBVIOUS
  <1>2. f \in [1 .. Len(q) -> Nat] /\ b \in [1 .. Len(q) -> Nat]
    BY <1>1, PlacesType
  <1>3. ASSUME NEW i \in 1 .. Len(q), NEW j \in 1 .. Len(q), i < j
        PROVE  TrackedEnd(q[i]) # TrackedEnd(q[j])
    <2>1. b[i] <= f[j] /\ f[j] < b[j]
      BY <1>1, <1>3 DEF Straight
    <2>2. b[i] \in Nat /\ b[j] \in Nat /\ f[j] \in Nat
      BY <1>2
    <2>3. b[i] # b[j]
      BY <2>1, <2>2
    <2>4. QED BY <1>1, <2>3 DEF Backs
  <1>4. QED
    <2> TAKE i, j \in 1 .. Len(q)
    <2>1. i < j \/ j < i \/ i = j
      OBVIOUS
    <2>2. QED BY <1>3, <2>1

-----------------------------------------------------------------------------
(* The segments flush_data cuts                                            *)

\* Multiplication keeps the order.
LEMMA ProductMonotone ==
  ASSUME NEW a \in Nat, NEW b \in Nat, a <= b, NEW m \in Nat
  PROVE  a * m <= b * m
  OBVIOUS

\* The places where a queue of "total" bytes is cut.
LEMMA CutPlaces ==
  ASSUME NEW m \in Nat \ {0}, NEW total \in Nat, NEW n, n = (total + m - 1) \div m
  PROVE  /\ n \in Nat /\ (n = 0 <=> total = 0) /\ total <= n * m
         /\ \A i \in 1 .. n : (i - 1) * m \in Nat /\ (i - 1) * m < total
         /\ \A i \in 1 .. n - 1 : i * m <= total
         /\ \A i \in Nat : i * m \in Nat /\ (i + 1) * m = i * m + m
  <1> DEFINE x == total + m - 1
             r == x % m
  <1>1. x \in Nat
    OBVIOUS
  <1>2. n \in Nat /\ r \in 0 .. m - 1 /\ x = m * n + r
    <2>1. \A a \in Nat, K \in Nat \ {0} :
            (a \div K) \in Nat /\ (a % K) \in 0 .. K - 1 /\ a = K * (a \div K) + (a % K)
      OBVIOUS
    <2>2. QED BY <1>1, <2>1
  <1> HIDE DEF r
  <1>3. \A i \in Nat : i * m \in Nat /\ (i + 1) * m = i * m + m /\ m * i = i * m
    OBVIOUS
  <1>4. total <= n * m
    BY <1>2, <1>3
  <1>5. n = 0 <=> total = 0
    <2>1. ASSUME n = 0 PROVE total = 0
      <3>1. n * m = 0
        BY <1>3, <2>1
      <3>2. QED BY <1>4, <3>1
    <2>2. ASSUME total = 0, n # 0 PROVE FALSE
      <3>1. 1 * m <= n * m
        BY <1>2, <2>2, ProductMonotone
      <3>2. 1 * m = m
        OBVIOUS
      <3>3. QED BY <1>2, <1>3, <2>2, <3>1, <3>2
    <2>3. QED BY <2>1, <2>2
  <1>6. ASSUME NEW i \in 1 .. n PROVE (i - 1) * m \in Nat /\ (i - 1) * m < total
    <2>1. i - 1 \in Nat /\ n - 1 \in Nat /\ i - 1 <= n - 1 /\ (n - 1) + 1 = n
      BY <1>2
    <2>2. (i - 1) * m <= (n - 1) * m
      BY <2>1, ProductMonotone
    <2>3. n * m = (n - 1) * m + m
      BY <1>3, <2>1
    <2>4. (n - 1) * m < total
      BY <1>2, <1>3, <2>1, <2>3
    <2>5. QED BY <1>3, <2>1, <2>2, <2>4
  <1>7. ASSUME NEW i \in 1 .. n - 1 PROVE i * m <= total
    <2>1. i + 1 \in 1 .. n /\ (i + 1) - 1 = i
      BY <1>2
    <2>2. QED BY <1>2, <1>3, <1>6, <2>1
  <1>8. QED BY <1>2, <1>3, <1>4, <1>5, <1>6, <1>7

\* Adding nothing to a word.
LEMMA PlusZero ==
  ASSUME NEW seq \in SeqNumber
  PROVE  Plus(seq, 0) = seq
  <1>1. 0 \in Nat /\ 0 < Modulus
    BY ModulusAssumption
  <1>2. Plus(seq, 0) = IF seq + 0 < Modulus THEN seq + 0 ELSE seq + 0 - Modulus
    BY <1>1, PlusCases
  <1>3. QED BY <1>2, ModulusAssumption DEF SeqNumber

\* The end of a segment that is neither a SYN nor a FIN.
LEMMA DataEnd ==
  ASSUME NEW t \in TrackedSegment, "SYN" \notin t.flags, "FIN" \notin t.flags
  PROVE  TrackedEnd(t) = Plus(t.seq, Len(t.data))
  <1>1. Units("SYN" \in t.flags) = 0 /\ Units("FIN" \in t.flags) = 0
    BY DEF Units
  <1>2. Len(t.data) \in Nat
    BY DEF TrackedSegment
  <1>3. Len(t.data) + 0 + 0 = Len(t.data)
    BY <1>2
  <1>4. QED BY <1>1, <1>3 DEF TrackedEnd

\* The i-th segment carries the bytes from (i - 1) * mss up to i * mss, or
\* to the end (flush_data).
LEMMA ChunkFacts ==
  ASSUME NEW c \in Conn, NEW total \in Nat, total <= Len(c.send_queue), total <= MaxWindow,
         NEW i \in 1 .. (total + c.mss - 1) \div c.mss
  PROVE  /\ Chunk(c, total, i) \in TrackedSegment
         /\ Smaller(i * c.mss, total) \in Nat
         /\ Len(Chunk(c, total, i).data) = Smaller(i * c.mss, total) - (i - 1) * c.mss
         /\ Len(Chunk(c, total, i).data) \in 1 .. c.mss
         /\ Chunk(c, total, i).seq = Plus(c.send_nxt, (i - 1) * c.mss)
         /\ TrackedEnd(Chunk(c, total, i)) = Plus(c.send_nxt, Smaller(i * c.mss, total))
  <1> DEFINE m == c.mss
             t == Chunk(c, total, i)
  <1>1. m \in Nat \ {0} /\ Len(c.send_queue) \in Nat /\ c.send_nxt \in SeqNumber
        /\ c.send_queue \in Seq(Byte)
    BY DEF Conn
  <1>2. PICK a : a = (i - 1) * m
    OBVIOUS
  <1>3. PICK b : b = Smaller(i * m, total)
    OBVIOUS
  <1>4. i \in Nat \ {0} /\ i - 1 \in Nat /\ (i - 1) + 1 = i
    <2>1. PICK n : n = (total + m - 1) \div m
      OBVIOUS
    <2>2. n \in Nat
      BY <1>1, <2>1, CutPlaces
    <2>3. i \in 1 .. n
      BY <2>1
    <2> HIDE DEF m
    <2>4. QED BY <2>2, <2>3
  <1>5. a \in Nat /\ a < total /\ i * m = a + m
    BY <1>1, <1>2, <1>4, CutPlaces
  <1>6. b \in Nat /\ a < b /\ b <= a + m /\ b <= total
    BY <1>1, <1>3, <1>5 DEF Smaller
  <1>7. t \in TrackedSegment
    BY <1>4, ChunkType
  <1>8. t.data = SubSeq(c.send_queue, a + 1, b) /\ t.flags = {"ACK"}
        /\ t.seq = Plus(c.send_nxt, a)
    BY <1>2, <1>3 DEF Chunk
  <1>9. Len(SubSeq(c.send_queue, a + 1, b)) = b - a
    BY <1>1, <1>5, <1>6
  <1>10. TrackedEnd(t) = Plus(t.seq, b - a)
    BY <1>7, <1>8, <1>9, DataEnd
  <1>11. Plus(Plus(c.send_nxt, a), b - a) = Plus(c.send_nxt, b)
    <2>1. b - a \in Nat /\ a + (b - a) = b /\ b < Modulus
      BY <1>5, <1>6, ConfigAssumption, ModulusAssumption
    <2>2. QED BY <1>1, <1>5, <2>1, PlusPlus
  <1>12. b - a \in 1 .. m
    BY <1>1, <1>5, <1>6
  <1> HIDE DEF t
  <1>13. QED BY <1>2, <1>3, <1>6, <1>7, <1>8, <1>9, <1>10, <1>11, <1>12 DEF t

\* flush_data cuts the sequence numbers it uses without a gap.
LEMMA ChunksTiled ==
  ASSUME NEW c \in Conn, NEW total \in Nat, total <= Len(c.send_queue), total <= MaxWindow
  PROVE  Tiled(Chunks(c, total), c.send_nxt, Plus(c.send_nxt, total))
  <1> DEFINE q == Chunks(c, total)
  <1>9. PICK m : m = c.mss
    OBVIOUS
  <1>1. m \in Nat \ {0} /\ c.send_nxt \in SeqNumber
    BY <1>9 DEF Conn
  <1>0. PICK n : n = (total + m - 1) \div m
    OBVIOUS
  <1>2. /\ n \in Nat /\ (n = 0 <=> total = 0) /\ total <= n * m
        /\ \A i \in 1 .. n : (i - 1) * m \in Nat /\ (i - 1) * m < total
        /\ \A i \in 1 .. n - 1 : i * m <= total
        /\ \A i \in Nat : i * m \in Nat /\ (i + 1) * m = i * m + m
    <2>1. n = (total + m - 1) \div m
      BY <1>0
    <2>2. QED BY ONLY <1>1, <2>1, CutPlaces, total \in Nat
  <1>3. \A i \in 1 .. n : /\ q[i].seq = Plus(c.send_nxt, (i - 1) * m)
                          /\ TrackedEnd(q[i]) = Plus(c.send_nxt, Smaller(i * m, total))
    <2> TAKE i \in 1 .. n
    <2>1. q[i] = Chunk(c, total, i)
      BY <1>0, <1>9 DEF Chunks
    <2>2. i \in 1 .. (total + c.mss - 1) \div c.mss
      BY <1>0, <1>9
    <2>3. QED BY <1>9, <2>1, <2>2, ChunkFacts
  <1>4. Len(q) = n
    <2>1. q = [i \in 1 .. n |-> Chunk(c, total, i)]
      BY <1>0, <1>9 DEF Chunks
    <2> HIDE DEF q
    <2>2. QED BY <1>2, <2>1
  <1> HIDE DEF q
  <1>5. ASSUME NEW i \in 1 .. n - 1 PROVE TrackedEnd(q[i]) = q[i + 1].seq
    <2>1. i \in 1 .. n /\ i + 1 \in 1 .. n /\ (i + 1) - 1 = i
      BY <1>2
    <2>2. i * m <= total /\ i * m \in Nat
      <3>1. i \in Nat
        BY <1>2
      <3>2. QED BY <1>2, <3>1
    <2>3. Smaller(i * m, total) = i * m
      <3>1. \A x, y \in Nat : x <= y => Smaller(x, y) = x
        BY DEF Smaller
      <3>2. QED BY <2>2, <3>1
    <2>4. TrackedEnd(q[i]) = Plus(c.send_nxt, i * m)
      BY <1>3, <2>1, <2>3
    <2>5. q[i + 1].seq = Plus(c.send_nxt, ((i + 1) - 1) * m)
      BY <1>3, <2>1
    <2>6. QED BY <2>1, <2>4, <2>5
  <1>6. CASE n = 0
    <2>1. Plus(c.send_nxt, total) = c.send_nxt
      BY <1>1, <1>2, <1>6, PlusZero
    <2>2. Tiled(q, c.send_nxt, Plus(c.send_nxt, total))
      BY <1>4, <1>5, <1>6, <2>1 DEF Tiled
    <2>3. QED BY <2>2 DEF q
  <1>7. CASE n # 0
    <2>1. 1 \in 1 .. n /\ n \in 1 .. n /\ n \in Nat
      BY <1>2, <1>7
    <2>2. q[1].seq = c.send_nxt
      <3>1. q[1].seq = Plus(c.send_nxt, (1 - 1) * m)
        BY <1>3, <2>1
      <3>2. (1 - 1) * m = 0
        BY <1>1
      <3>3. QED BY <1>1, <3>1, <3>2, PlusZero
    <2>3. TrackedEnd(q[n]) = Plus(c.send_nxt, total)
      <3>1. n * m \in Nat /\ total <= n * m
        BY <1>2, <2>1
      <3>2. Smaller(n * m, total) = total
        <4>1. \A x, y \in Nat : y <= x => Smaller(x, y) = y
          BY DEF Smaller
        <4>2. QED BY <3>1, <4>1
      <3>3. TrackedEnd(q[n]) = Plus(c.send_nxt, Smaller(n * m, total))
        BY <1>3, <2>1
      <3>4. QED BY <3>2, <3>3
    <2>4. Tiled(q, c.send_nxt, Plus(c.send_nxt, total))
      BY <1>4, <1>5, <1>7, <2>2, <2>3 DEF Tiled
    <2>5. QED BY <2>4 DEF q
  <1>8. QED BY <1>6, <1>7

\* flush_data cuts segments that are not empty and follow each other.
LEMMA ChunksStraight ==
  ASSUME NEW c \in Conn, NEW total \in Nat, total <= Len(c.send_queue), total <= MaxWindow
  PROVE  /\ Straight(Chunks(c, total), c.send_nxt, Plus(c.send_nxt, total))
         /\ Distance(c.send_nxt, Plus(c.send_nxt, total)) = total
  <1>1. PICK m : m = c.mss
    OBVIOUS
  <1>2. PICK n : n = (total + m - 1) \div m
    OBVIOUS
  <1>3. m \in Nat \ {0} /\ c.send_nxt \in SeqNumber
    BY <1>1 DEF Conn
  <1>4. /\ n \in Nat /\ (n = 0 <=> total = 0) /\ total <= n * m
        /\ \A i \in 1 .. n : (i - 1) * m \in Nat /\ (i - 1) * m < total
        /\ \A i \in Nat : i * m \in Nat /\ (i + 1) * m = i * m + m
    BY ONLY <1>2, <1>3, CutPlaces, total \in Nat
  <1>5. PICK q : q = Chunks(c, total)
    OBVIOUS
  <1>6. q = [i \in 1 .. n |-> Chunk(c, total, i)]
    BY <1>1, <1>2, <1>5 DEF Chunks
  <1>7. Len(q) = n
    BY <1>4, <1>6
  <1>8. \A k \in Nat : k <= total => Distance(c.send_nxt, Plus(c.send_nxt, k)) = k
    <2> TAKE k \in Nat
    <2> HAVE k <= total
    <2>1. k < Modulus
      BY ConfigAssumption, ModulusAssumption
    <2>2. QED BY <1>3, <2>1, DistanceOfPlus
  <1>9. PICK f, b : f = Fronts(q, c.send_nxt) /\ b = Backs(q, c.send_nxt)
    OBVIOUS
  <1>10. ASSUME NEW i \in 1 .. n
         PROVE  /\ f[i] = (i - 1) * m /\ b[i] = Smaller(i * m, total)
                /\ (i - 1) * m < Smaller(i * m, total) /\ Smaller(i * m, total) <= total
    <2>1. PICK x : x = (i - 1) * m
      OBVIOUS
    <2>2. PICK z : z = i * m
      OBVIOUS
    <2>3. PICK y : y = Smaller(z, total)
      OBVIOUS
    <2>4. x \in Nat /\ x < total /\ z = x + m
      <3>1. i - 1 \in Nat /\ (i - 1) + 1 = i
        BY <1>4
      <3>2. QED BY <1>4, <2>1, <2>2, <3>1
    <2>5. y \in Nat /\ x < y /\ y <= total
      BY <1>3, <2>3, <2>4 DEF Smaller
    <2>6. q[i] = Chunk(c, total, i) /\ i \in 1 .. (total + c.mss - 1) \div c.mss
      BY <1>1, <1>2, <1>6
    <2>7. q[i].seq = Plus(c.send_nxt, x) /\ TrackedEnd(q[i]) = Plus(c.send_nxt, y)
      BY <1>1, <2>1, <2>2, <2>3, <2>6, ChunkFacts
    <2>8. f[i] = x /\ b[i] = y
      BY <1>7, <1>8, <1>9, <2>4, <2>5, <2>7 DEF Fronts, Backs
    <2>9. QED BY <2>1, <2>2, <2>3, <2>5, <2>8
  <1>11. ASSUME NEW i \in 1 .. n, NEW j \in 1 .. n, i < j PROVE b[i] <= f[j]
    <2>1. i \in Nat /\ j - 1 \in Nat /\ i <= j - 1
      BY <1>4, <1>11
    <2>2. PICK z : z = i * m
      OBVIOUS
    <2>3. PICK x : x = (j - 1) * m
      OBVIOUS
    <2>4. PICK k : k = j - 1
      OBVIOUS
    <2>5. z <= x /\ z \in Nat /\ x \in Nat
      <3>1. i * m <= k * m
        BY <1>3, <2>1, <2>4, ProductMonotone
      <3>2. QED BY <1>4, <2>1, <2>2, <2>3, <2>4, <3>1
    <2>6. b[i] = Smaller(z, total) /\ f[j] = x
      BY <1>10, <2>2, <2>3
    <2>7. QED BY <2>5, <2>6 DEF Smaller
  <1>12. Distance(c.send_nxt, Plus(c.send_nxt, total)) = total
    BY <1>8
  <1>13. \A i \in 1 .. n : f[i] < b[i] /\ b[i] <= total
    BY <1>10
  <1>14. QED BY <1>5, <1>7, <1>9, <1>11, <1>12, <1>13 DEF Straight

\* Every place of the queue falls into one of the cuts.
LEMMA PlaceInCut ==
  ASSUME NEW m \in Nat \ {0}, NEW total \in Nat, NEW n, n = (total + m - 1) \div m,
         NEW x \in 1 .. total
  PROVE  \E i \in 1 .. n : (i - 1) * m < x /\ x <= i * m
  <1>1. /\ n \in Nat /\ total <= n * m
        /\ \A i \in Nat : i * m \in Nat /\ (i + 1) * m = i * m + m
    BY CutPlaces
  <1>2. PICK j : j = (x - 1) \div m
    OBVIOUS
  <1>3. PICK r : r = (x - 1) % m
    OBVIOUS
  <1>4. j \in Nat /\ r \in 0 .. m - 1 /\ x - 1 = m * j + r
    <2>1. \A a \in Nat, K \in Nat \ {0} :
            (a \div K) \in Nat /\ (a % K) \in 0 .. K - 1 /\ a = K * (a \div K) + (a % K)
      OBVIOUS
    <2>2. x - 1 \in Nat
      OBVIOUS
    <2>3. QED BY <1>2, <1>3, <2>1, <2>2
  <1>5. m * j = j * m /\ j * m \in Nat /\ (j + 1) * m = j * m + m
    BY <1>1, <1>4
  <1>6. j * m < x /\ x <= (j + 1) * m
    BY <1>4, <1>5
  <1>7. j < n
    <2>1. SUFFICES ASSUME n <= j PROVE FALSE
      BY <1>1, <1>4
    <2>2. n * m <= j * m
      BY <1>1, <1>4, <2>1, ProductMonotone
    <2>3. n * m \in Nat
      BY <1>1
    <2>4. QED BY <1>1, <1>5, <1>6, <2>2, <2>3
  <1>8. j + 1 \in 1 .. n /\ (j + 1) - 1 = j
    BY <1>1, <1>4, <1>7
  <1>9. QED BY <1>6, <1>8

\* flush_data cuts the payload without a gap.
LEMMA ChunksPayload ==
  ASSUME NEW c \in Conn, NEW total \in Nat, total <= Len(c.send_queue), total <= MaxWindow
  PROVE  PayloadBytes(Chunks(c, total)) = total
  <1> DEFINE q == Chunks(c, total)
  <1>1. PICK m : m = c.mss
    OBVIOUS
  <1>2. PICK n : n = (total + m - 1) \div m
    OBVIOUS
  <1>3. m \in Nat \ {0}
    BY <1>1 DEF Conn
  <1>4. /\ n \in Nat /\ (n = 0 <=> total = 0) /\ total <= n * m
        /\ \A i \in 1 .. n : (i - 1) * m \in Nat /\ (i - 1) * m < total
        /\ \A i \in 1 .. n - 1 : i * m <= total
        /\ \A i \in Nat : i * m \in Nat /\ (i + 1) * m = i * m + m
    BY ONLY <1>2, <1>3, CutPlaces, total \in Nat
  <1>5. q = [i \in 1 .. n |-> Chunk(c, total, i)] /\ q \in Seq(TrackedSegment)
    BY <1>1, <1>2, ChunksType DEF Chunks
  <1> HIDE DEF q
  <1>6. Len(q) = n
    BY <1>4, <1>5
  <1> DEFINE S == Cells(1 .. n, Lengths(q))
  <1>7. /\ PayloadBytes(q) = Cardinality(S) /\ Lengths(q) \in [1 .. n -> Nat]
        /\ IsFiniteSet(1 .. n)
    BY <1>5, <1>6, PayloadCells
  <1>8. IsFiniteSet(S)
    BY <1>7, CellsFinite
  <1>9. \A i \in 1 .. n : Lengths(q)[i] = Smaller(i * m, total) - (i - 1) * m
    <2> TAKE i \in 1 .. n
    <2>1. q[i] = Chunk(c, total, i)
      BY <1>5
    <2>2. Lengths(q)[i] = Len(q[i].data)
      BY <1>5 DEF Lengths
    <2>3. Len(Chunk(c, total, i).data) = Smaller(i * c.mss, total) - (i - 1) * c.mss
      BY <1>1, <1>2, ChunkFacts
    <2>4. QED BY <1>1, <2>1, <2>2, <2>3
  <1>10. \A i \in 1 .. n, k \in Nat \ {0} :
           k <= Lengths(q)[i] <=> (i - 1) * m + k <= i * m /\ (i - 1) * m + k <= total
    <2> TAKE i \in 1 .. n, k \in Nat \ {0}
    <2>1. PICK a : a = (i - 1) * m
      OBVIOUS
    <2>2. PICK b : b = i * m
      OBVIOUS
    <2>3. a \in Nat /\ b \in Nat
      <3>1. i \in Nat
        BY <1>4
      <3>2. QED BY <1>4, <2>1, <2>2, <3>1
    <2>4. Lengths(q)[i] = Smaller(b, total) - a
      BY <1>9, <2>1, <2>2
    <2>5. k <= Smaller(b, total) - a <=> a + k <= b /\ a + k <= total
      BY <2>3 DEF Smaller
    <2>6. QED BY <2>1, <2>2, <2>4, <2>5
  <1> DEFINE f == [x \in S |-> (x[1] - 1) * m + x[2]]
  <1>11. \A x : x \in S <=> \E i \in 1 .. n : \E k \in 1 .. Lengths(q)[i] : x = <<i, k>>
    <2>1. PICK size : size = Lengths(q)
      OBVIOUS
    <2>2. PICK I : I = 1 .. n
      OBVIOUS
    <2>3. \A x : x \in Cells(I, size) <=> \E i \in I : \E k \in 1 .. size[i] : x = <<i, k>>
      BY CellIn
    <2>4. QED BY <2>1, <2>2, <2>3
  <1>12. ASSUME NEW x \in S
         PROVE  /\ x[1] \in 1 .. n /\ x[2] \in Nat \ {0} /\ x = <<x[1], x[2]>>
                /\ (x[1] - 1) * m \in Nat /\ (x[1] - 1) * m + x[2] <= x[1] * m
                /\ (x[1] - 1) * m + x[2] <= total
    <2>1. PICK i \in 1 .. n : \E k \in 1 .. Lengths(q)[i] : x = <<i, k>>
      BY <1>11
    <2>0. PICK k \in 1 .. Lengths(q)[i] : x = <<i, k>>
      BY <2>1
    <2>2. Lengths(q)[i] \in Nat
      BY <1>7
    <2>3. k \in Nat \ {0} /\ k <= Lengths(q)[i]
      BY <2>2
    <2>4. (i - 1) * m + k <= i * m /\ (i - 1) * m + k <= total /\ (i - 1) * m \in Nat
      BY <1>4, <1>10, <2>3
    <2>5. x[1] = i /\ x[2] = k
      BY <2>0
    <2>6. QED BY <2>0, <2>3, <2>4, <2>5
  <1> HIDE DEF S
  <1>13. f \in [S -> 1 .. total]
    <2>1. ASSUME NEW x \in S PROVE (x[1] - 1) * m + x[2] \in 1 .. total
      <3>1. PICK a : a = (x[1] - 1) * m
        OBVIOUS
      <3>2. a \in Nat /\ x[2] \in Nat \ {0} /\ a + x[2] <= total
        BY <1>12, <3>1
      <3>3. a + x[2] \in 1 .. total
        BY <3>2
      <3>4. QED BY <3>1, <3>3
    <2>2. QED BY <2>1
  <1>14. ASSUME NEW x \in S, NEW y \in S, f[x] = f[y], x[1] < y[1] PROVE FALSE
    <2>1. PICK a : a = (x[1] - 1) * m
      OBVIOUS
    <2>2. PICK b : b = (y[1] - 1) * m
      OBVIOUS
    <2>3. PICK e : e = x[1] * m
      OBVIOUS
    <2>4. a \in Nat /\ b \in Nat /\ x[2] \in Nat /\ y[2] \in Nat \ {0} /\ a + x[2] <= e
      BY <1>12, <2>1, <2>2, <2>3
    <2>5. e <= b /\ e \in Nat
      <3>1. x[1] \in Nat /\ y[1] - 1 \in Nat /\ x[1] <= y[1] - 1
        BY <1>4, <1>12, <1>14
      <3>2. PICK z : z = y[1] - 1
        OBVIOUS
      <3>3. x[1] * m <= z * m
        BY <1>3, <3>1, <3>2, ProductMonotone
      <3>4. QED BY <1>4, <2>2, <2>3, <3>1, <3>2, <3>3
    <2>6. a + x[2] = b + y[2]
      BY <1>14, <2>1, <2>2
    <2>7. QED BY <2>4, <2>5, <2>6
  <1>15. f \in Injection(S, 1 .. total)
    <2>1. ASSUME NEW x \in S, NEW y \in S, f[x] = f[y] PROVE x = y
      <3>1. x[1] \in Nat /\ y[1] \in Nat
        BY <1>4, <1>12
      <3>2. x[1] = y[1]
        BY <1>14, <2>1, <3>1
      <3>3. PICK a : a = (x[1] - 1) * m
        OBVIOUS
      <3>4. a \in Nat /\ x[2] \in Nat /\ y[2] \in Nat /\ a + x[2] = a + y[2]
        BY <1>12, <2>1, <3>2, <3>3
      <3>5. x[2] = y[2]
        BY <3>4
      <3>6. QED BY <1>12, <3>2, <3>5
    <2>2. QED BY <1>13, <2>1 DEF Injection, IsInjective
  <1>16. f \in Surjection(S, 1 .. total)
    <2>1. ASSUME NEW x \in 1 .. total PROVE \E y \in S : f[y] = x
      <3>1. PICK i \in 1 .. n : (i - 1) * m < x /\ x <= i * m
        BY <1>2, <1>3, PlaceInCut
      <3>2. PICK a : a = (i - 1) * m
        OBVIOUS
      <3>3. PICK b : b = i * m
        OBVIOUS
      <3>4. a \in Nat /\ b \in Nat /\ x - a \in Nat \ {0} /\ a + (x - a) = x
            /\ a + (x - a) <= b /\ a + (x - a) <= total
        <4>1. i \in Nat /\ x \in Nat /\ x <= total
          BY <1>4
        <4>2. a \in Nat /\ b \in Nat
          BY <1>4, <3>2, <3>3, <4>1
        <4>3. a < x /\ x <= b
          BY <3>1, <3>2, <3>3
        <4>4. QED BY <4>1, <4>2, <4>3
      <3>5. PICK k : k = x - a
        OBVIOUS
      <3>6. k \in Nat \ {0} /\ k <= Lengths(q)[i] /\ Lengths(q)[i] \in Nat
        BY <1>7, <1>10, <3>2, <3>3, <3>4, <3>5
      <3>7. k \in 1 .. Lengths(q)[i]
        BY <3>6
      <3>8. <<i, k>> \in S
        BY <1>11, <3>7
      <3>9. f[<<i, k>>] = a + k
        BY <3>2, <3>8
      <3>10. QED BY <3>4, <3>5, <3>8, <3>9
    <2>2. QED BY <1>13, <2>1 DEF Surjection
  <1> HIDE DEF f
  <1>17. f \in Bijection(S, 1 .. total)
    BY <1>15, <1>16 DEF Bijection
  <1>18. ExistsBijection(S, 1 .. total)
    BY <1>17 DEF ExistsBijection
  <1>19. IsFiniteSet(1 .. total) /\ Cardinality(1 .. total) = total
    BY PrefixIsFinite
  <1>20. Cardinality(S) = total
    BY <1>8, <1>18, <1>19, FS_Bijection
  <1>21. QED BY <1>7, <1>20 DEF q

-----------------------------------------------------------------------------
(* The books                                                               *)

Budget == Larger(MaxTransmissions, 1)

\* A segment in flight: within its budget and one mss, and a SYN or a FIN
\* carries nothing else.
SoundSegment ==
  {t \in TrackedSegment :
     /\ 1 <= t.transmissions /\ t.transmissions <= Budget
     /\ Len(t.data) <= Mss
     /\ "SYN" \in t.flags \/ "FIN" \in t.flags => t.data = <<>>
     /\ ~("SYN" \in t.flags /\ "FIN" \in t.flags)}

\* A flight fits into a window; the probe of a shut one may add a byte to it,
\* and then carries payload.  So sequence comparisons within it are exact.
FlightBounded(q, first, last) ==
  /\ Distance(first, last) <= MaxWindow + 1
  /\ (\A i \in 1 .. Len(q) : q[i].data = <<>>) => Distance(first, last) <= MaxWindow

\* The send side of a connection: budget, FlightTiled and ByteLedger.
Sender(c) ==
  /\ c.mss <= Mss
  /\ c.unacked \in Seq(SoundSegment)
  /\ Tiled(c.unacked, c.send_una, c.send_nxt)
  /\ Straight(c.unacked, c.send_una, c.send_nxt)
  /\ FlightBounded(c.unacked, c.send_una, c.send_nxt)
  /\ c.accepted = c.acked + PayloadBytes(c.unacked) + Len(c.send_queue)

\* A chunk of the reassembly table lies in the window and is not empty.
Filable(r, recv_nxt) ==
  /\ Distance(recv_nxt, r.seq) + Len(r.data) <= ReceiveBuffer
  /\ r.data # <<>> \/ r.fin

\* The receive side: BufferBound, and where the chunks lie.
Receiver(c) ==
  /\ \A r \in c.reassembly : Filable(r, c.recv_nxt)
  /\ Len(c.recv_queue) + HeldBytes(c) <= ReceiveBuffer
  /\ c.state = "SynSent" => c.reassembly = {}

Opening == {"SynSent", "SynReceived"}

\* write and close refuse a connection that is not open yet.
Handshake(c) == c.state \in Opening => c.send_queue = <<>> /\ ~c.close_requested

SoundConn == {c \in Conn : Sender(c) /\ Receiver(c) /\ Handshake(c)}

SoundUpdate == {u \in Update : u.conn \in SoundConn}

-----------------------------------------------------------------------------
(* Frames                                                                  *)

\* A first send is free, whatever the budget (Config::validate allows zero).
LEMMA BudgetType == Budget \in Nat /\ 1 <= Budget /\ MaxTransmissions <= Budget
  BY ConfigAssumption DEF Budget, Larger

\* The fields later steps read.
LEMMA SoundFields ==
  /\ \A c \in SoundConn :
       /\ c \in Conn /\ Sender(c) /\ Receiver(c) /\ Handshake(c)
       /\ c.unacked \in Seq(SoundSegment) /\ c.unacked \in Seq(TrackedSegment)
  /\ \A u \in SoundUpdate : u \in Update /\ u.conn \in SoundConn
  BY DEF SoundConn, SoundUpdate, Sender, Conn

\* A method that leaves the send side alone, but for a smaller mss.
LEMMA SameSender ==
  ASSUME NEW c \in SoundConn, NEW d \in Conn, d.mss <= Mss, d.unacked = c.unacked,
         d.send_una = c.send_una, d.send_nxt = c.send_nxt, d.send_queue = c.send_queue,
         d.accepted = c.accepted, d.acked = c.acked
  PROVE  Sender(d)
  BY DEF SoundConn, Sender

\* A method that leaves the receive side alone.
LEMMA SameReceiver ==
  ASSUME NEW c \in SoundConn, NEW d \in Conn, d.recv_nxt = c.recv_nxt,
         d.recv_queue = c.recv_queue, d.reassembly = c.reassembly,
         d.state = "SynSent" => c.state = "SynSent"
  PROVE  Receiver(d)
  <1>1. HeldBytes(d) = HeldBytes(c)
    BY DEF HeldBytes
  <1>2. QED BY <1>1 DEF SoundConn, Receiver

\* A method that leaves both alone and goes back to no opening state.
LEMMA SameSound ==
  ASSUME NEW c \in SoundConn, NEW d \in Conn, d.mss <= Mss, d.unacked = c.unacked,
         d.send_una = c.send_una, d.send_nxt = c.send_nxt, d.send_queue = c.send_queue,
         d.accepted = c.accepted, d.acked = c.acked,
         d.recv_nxt = c.recv_nxt, d.recv_queue = c.recv_queue, d.reassembly = c.reassembly,
         d.close_requested = c.close_requested,
         d.state = c.state \/ d.state \notin Opening
  PROVE  d \in SoundConn
  <1>1. Sender(d)
    BY SameSender
  <1>2. Receiver(d)
    BY SameReceiver DEF Opening
  <1>3. Handshake(d)
    BY DEF SoundConn, Handshake
  <1>4. QED BY <1>1, <1>2, <1>3 DEF SoundConn

\* An update of a sound connection.
LEMMA OpenSound ==
  ASSUME NEW c \in SoundConn, NEW segments \in Seq(Segment)
  PROVE  Open(c, segments) \in SoundUpdate /\ Closed(c, segments) \in SoundUpdate
  <1>1. c \in Conn
    BY SoundFields
  <1>2. Open(c, segments) \in Update /\ Closed(c, segments) \in Update
    BY <1>1, OpenType, ClosedType
  <1>3. QED BY <1>2 DEF SoundUpdate, Open, Closed

\* Chaining two methods keeps what the second one left.
LEMMA ThenSound ==
  ASSUME NEW u \in Update, NEW v \in SoundUpdate
  PROVE  Then(u, v) \in SoundUpdate /\ Then(u, v).conn = v.conn
  <1>1. v \in Update /\ v.conn \in SoundConn
    BY SoundFields
  <1>2. Then(u, v) \in Update
    BY <1>1, ThenType
  <1>3. Then(u, v).conn = v.conn
    BY <1>1 DEF Then, Update
  <1>4. QED BY <1>1, <1>2, <1>3 DEF SoundUpdate

\* An ACK is not tracked.
LEMMA AndAcknowledgeSound ==
  ASSUME NEW c \in SoundConn
  PROVE  AndAcknowledge(c) \in SoundUpdate /\ AndAcknowledge(c).conn = c
  <1>1. AndAcknowledge(c) \in SoundUpdate
    BY SoundFields, AckSegmentType, OneSegment, OpenSound DEF AndAcknowledge
  <1>2. QED BY <1>1 DEF AndAcknowledge, Open

-----------------------------------------------------------------------------
(* Sending                                                                 *)

\* What send_tracked needs of the send side before it: the segment's payload
\* is accounted for already.
Owing(c, n) ==
  /\ c.mss <= Mss
  /\ c.unacked \in Seq(SoundSegment)
  /\ Tiled(c.unacked, c.send_una, c.send_nxt)
  /\ Straight(c.unacked, c.send_una, c.send_nxt)
  /\ FlightBounded(c.unacked, c.send_una, c.send_nxt)
  /\ c.accepted = c.acked + PayloadBytes(c.unacked) + Len(c.send_queue) + n

\* One sequence number more fits behind a flight that is shorter than a window,
\* or not longer and without payload.
LEMMA OneMore ==
  ASSUME NEW q \in Seq(TrackedSegment), NEW first \in SeqNumber, NEW last \in SeqNumber,
         Straight(q, first, last), Distance(first, last) <= MaxWindow,
         NEW t \in TrackedSegment, t.seq = last, TrackedEnd(t) = Plus(last, 1),
         t.data = <<>> => Distance(first, last) < MaxWindow
  PROVE  /\ Straight(Append(q, t), first, TrackedEnd(t))
         /\ FlightBounded(Append(q, t), first, TrackedEnd(t))
  <1>1. 1 \in Nat \ {0} /\ 1 < Modulus
    BY ModulusAssumption
  <1>2. Straight(<<t>>, t.seq, TrackedEnd(t)) /\ Distance(t.seq, TrackedEnd(t)) = 1
    BY <1>1, StraightOne
  <1>3. TrackedEnd(t) \in SeqNumber
    BY TrackedEndType
  <1>4. PICK f : f = Distance(first, last)
    OBVIOUS
  <1>5. f \in Nat /\ f + 1 < Modulus /\ f <= MaxWindow /\ MaxWindow \in Nat
    BY <1>4, DistanceType, ConfigAssumption, ModulusAssumption
  <1>6. <<t>> \in Seq(TrackedSegment) /\ Append(q, t) = q \o <<t>>
    OBVIOUS
  <1>7. Straight(q \o <<t>>, first, TrackedEnd(t))
    BY <1>2, <1>3, <1>4, <1>5, <1>6, StraightConcat
  <1>8. Distance(first, TrackedEnd(t)) = f + 1
    BY <1>2, <1>3, <1>4, <1>5, OffsetAdd
  <1>9. (\A i \in 1 .. Len(Append(q, t)) : Append(q, t)[i].data = <<>>) => t.data = <<>>
    <2>1. Len(q) + 1 \in 1 .. Len(Append(q, t)) /\ Append(q, t)[Len(q) + 1] = t
      OBVIOUS
    <2>2. QED BY <2>1
  <1>10. FlightBounded(Append(q, t), first, TrackedEnd(t))
    <2>1. t.data = <<>> => f + 1 <= MaxWindow
      BY <1>4, <1>5
    <2>2. f + 1 <= MaxWindow + 1
      BY <1>5
    <2>3. QED BY <1>8, <1>9, <2>1, <2>2 DEF FlightBounded
  <1>11. QED BY <1>6, <1>7, <1>10

\* A first send of a sound segment at send_nxt.
LEMMA SendTrackedSound ==
  ASSUME NEW c \in Conn, NEW flags \in SUBSET Flag, NEW data \in Seq(Byte),
         Owing(c, Len(data)), Receiver(c), Handshake(c), Len(data) <= 1,
         "SYN" \in flags \/ "FIN" \in flags <=> data = <<>>,
         ~("SYN" \in flags /\ "FIN" \in flags),
         InFlight(c) <= MaxWindow, data = <<>> => InFlight(c) < MaxWindow
  PROVE  /\ SendTracked(c, flags, data) \in SoundUpdate
         /\ SendTracked(c, flags, data).conn.state = c.state
         /\ SendTracked(c, flags, data).conn.remote_window = c.remote_window
  <1> DEFINE t == [seq |-> c.send_nxt, flags |-> flags, data |-> data, transmissions |-> 1]
             d == [c EXCEPT !.send_nxt = TrackedEnd(t), !.unacked = Append(@, t)]
  <1>1. t \in TrackedSegment /\ t \in SoundSegment /\ t.seq = c.send_nxt /\ t.data = data
    <2>1. c.send_nxt \in SeqNumber
      BY DEF Conn
    <2>2. Len(data) <= Mss
      BY ConfigAssumption
    <2>3. QED BY <2>1, <2>2, BudgetType DEF SoundSegment, TrackedSegment
  <1>2. SendTracked(c, flags, data) = Transmit(c, t) /\ t.flags = flags
    BY DEF SendTracked
  <1> HIDE DEF t
  <1>20. TrackedEnd(t) = Plus(t.seq, 1)
    <2>1. Len(t.data) + Units("SYN" \in t.flags) + Units("FIN" \in t.flags) = 1
      <3>1. CASE data = <<>>
        <4>1. Len(t.data) = 0
          BY <1>1, <3>1
        <4>2. Units("SYN" \in t.flags) + Units("FIN" \in t.flags) = 1
          BY <1>2, <3>1 DEF Units
        <4>3. QED BY <4>1, <4>2 DEF Units
      <3>2. CASE data # <<>>
        <4>1. Len(t.data) = 1
          <5>1. t.data = data /\ Len(data) <= 1
            BY <1>1
          <5>2. Len(data) \in Nat /\ Len(data) # 0
            BY <3>2, EmptySeq
          <5>3. Len(data) = 1
            <6>1. PICK n : n = Len(data)
              OBVIOUS
            <6>2. n \in Nat /\ n # 0 /\ n <= 1
              BY <5>1, <5>2, <6>1
            <6>3. n = 1
              BY <6>2
            <6>4. QED BY <6>1, <6>3
          <5>4. QED BY <5>1, <5>3, Zenon
        <4>2. Units("SYN" \in t.flags) = 0 /\ Units("FIN" \in t.flags) = 0
          BY <1>2, <3>2 DEF Units
        <4>3. QED BY <4>1, <4>2
      <3>3. QED BY <3>1, <3>2
    <2>2. QED BY <2>1 DEF TrackedEnd
  <1>3. /\ Transmit(c, t) = Open(d, <<SegmentFor(c, t)>>) /\ Transmit(c, t) \in Update
        /\ Transmit(c, t).conn = d
    BY <1>1, TransmitType DEF Transmit, Open
  <1>4. d \in Conn
    BY <1>3, UpdateFields
  <1>5. /\ d.mss = c.mss /\ d.unacked = Append(c.unacked, t)
        /\ d.send_una = c.send_una /\ d.send_nxt = TrackedEnd(t)
        /\ d.accepted = c.accepted /\ d.acked = c.acked /\ d.send_queue = c.send_queue
        /\ d.recv_nxt = c.recv_nxt /\ d.recv_queue = c.recv_queue
        /\ d.reassembly = c.reassembly /\ d.state = c.state
        /\ d.close_requested = c.close_requested /\ d.remote_window = c.remote_window
    BY DEF Conn
  <1>6. /\ c.unacked \in Seq(TrackedSegment) /\ c.unacked \in Seq(SoundSegment)
        /\ Tiled(c.unacked, c.send_una, c.send_nxt)
    BY DEF Conn, Owing
  <1>7. Append(c.unacked, t) \in Seq(SoundSegment)
    BY <1>1, <1>6, AppendProperties
  <1>8. Tiled(Append(c.unacked, t), c.send_una, TrackedEnd(t))
    BY <1>1, <1>6, TiledAppend
  <1>21. /\ Straight(Append(c.unacked, t), c.send_una, TrackedEnd(t))
         /\ FlightBounded(Append(c.unacked, t), c.send_una, TrackedEnd(t))
    <2>1. /\ Straight(c.unacked, c.send_una, c.send_nxt)
          /\ c.send_una \in SeqNumber /\ c.send_nxt \in SeqNumber
      BY DEF Owing, Conn
    <2>2. /\ Distance(c.send_una, c.send_nxt) <= MaxWindow
          /\ t.data = <<>> => Distance(c.send_una, c.send_nxt) < MaxWindow
      BY <1>1 DEF InFlight
    <2>3. QED BY <1>1, <1>6, <1>20, <2>1, <2>2, OneMore
  <1>9. PayloadBytes(Append(c.unacked, t)) = PayloadBytes(c.unacked) + Len(data)
        /\ PayloadBytes(c.unacked) \in Nat
    BY <1>1, <1>6, PayloadAppend, PayloadCells
  <1>10. c.acked \in Nat /\ Len(c.send_queue) \in Nat /\ Len(data) \in Nat
    BY DEF Conn
  <1> HIDE DEF d
  <1>11. Sender(d)
    BY <1>5, <1>7, <1>8, <1>9, <1>10, <1>21 DEF Sender, Owing
  <1>12. Receiver(d)
    <2>1. HeldBytes(d) = HeldBytes(c)
      BY <1>5 DEF HeldBytes
    <2>2. QED BY <1>5, <2>1 DEF Receiver
  <1>13. Handshake(d)
    BY <1>5 DEF Handshake
  <1>14. d \in SoundConn
    BY <1>4, <1>11, <1>12, <1>13 DEF SoundConn
  <1>15. QED BY <1>2, <1>3, <1>5, <1>14 DEF SoundUpdate

\* A first send without payload.
LEMMA SendControlSound ==
  ASSUME NEW c \in SoundConn, NEW flags \in SUBSET Flag, InFlight(c) < MaxWindow,
         "SYN" \in flags \/ "FIN" \in flags, ~("SYN" \in flags /\ "FIN" \in flags)
  PROVE  /\ SendTracked(c, flags, <<>>) \in SoundUpdate
         /\ SendTracked(c, flags, <<>>).conn.state = c.state
  <1>1. c \in Conn /\ Sender(c) /\ Receiver(c) /\ Handshake(c)
    BY SoundFields
  <1>2. Owing(c, Len(<<>>))
    <2>1. Len(<<>>) = 0 /\ c.acked \in Nat /\ Len(c.send_queue) \in Nat
      BY <1>1 DEF Conn
    <2>2. PayloadBytes(c.unacked) \in Nat
      BY <1>1, PayloadCells DEF Conn
    <2>3. QED BY <1>1, <2>1, <2>2 DEF Owing, Sender
  <1>3. <<>> \in Seq(Byte) /\ Len(<<>>) <= 1 /\ InFlight(c) <= MaxWindow
    <2>1. InFlight(c) \in Nat
      BY <1>1, InFlightType
    <2>2. QED BY <2>1, ConfigAssumption
  <1>4. QED BY <1>1, <1>2, <1>3, SendTrackedSound

\* The segments flush_data cuts are sound.
LEMMA ChunksSound ==
  ASSUME NEW c \in Conn, c.mss <= Mss,
         NEW total \in Nat, total <= Len(c.send_queue), total <= MaxWindow
  PROVE  Chunks(c, total) \in Seq(SoundSegment)
  <1>1. PICK n : n = (total + c.mss - 1) \div c.mss
    OBVIOUS
  <1>2. c.mss \in Nat \ {0} /\ n \in Nat
    <2>1. c.mss \in Nat \ {0}
      BY DEF Conn
    <2>2. PICK m : m = c.mss
      OBVIOUS
    <2>3. m \in Nat \ {0} /\ n = (total + m - 1) \div m
      BY <1>1, <2>1, <2>2
    <2>4. n \in Nat
      BY <2>3, CutPlaces
    <2>5. QED BY <2>1, <2>4
  <1>3. ASSUME NEW i \in 1 .. n PROVE Chunk(c, total, i) \in SoundSegment
    <2>1. i \in 1 .. (total + c.mss - 1) \div c.mss
      BY <1>1
    <2>2. Chunk(c, total, i) \in TrackedSegment /\ Len(Chunk(c, total, i).data) \in 1 .. c.mss
      BY <2>1, ChunkFacts
    <2>3. Chunk(c, total, i).transmissions = 1 /\ Chunk(c, total, i).flags = {"ACK"}
      BY DEF Chunk
    <2>4. Len(Chunk(c, total, i).data) <= Mss
      BY <1>2, <2>2, ConfigAssumption
    <2>5. QED BY <2>2, <2>3, <2>4, BudgetType DEF SoundSegment
  <1>4. Chunks(c, total) = [i \in 1 .. n |-> Chunk(c, total, i)]
    BY <1>1 DEF Chunks
  <1>5. QED BY <1>2, <1>3, <1>4

\* The allowance is at most a window, and so is the flight with it.
LEMMA AllowanceBound ==
  ASSUME NEW c \in Conn
  PROVE  /\ SendAllowance(c) \in Nat /\ SendAllowance(c) <= MaxWindow
         /\ SendAllowance(c) # 0 => InFlight(c) + SendAllowance(c) <= MaxWindow
  <1>1. Window(c.reno, c.mss) \in Nat
    BY LargerType DEF Window, Conn, Controller
  <1>2. c.remote_window \in Nat /\ c.remote_window <= MaxWindow /\ MaxWindow \in Nat
    BY ConfigAssumption DEF Conn, WindowSize
  <1>3. PICK w : w = Smaller(c.remote_window, Window(c.reno, c.mss))
    OBVIOUS
  <1>4. w \in Nat /\ w <= MaxWindow
    BY <1>1, <1>2, <1>3 DEF Smaller
  <1>5. PICK f : f = InFlight(c)
    OBVIOUS
  <1>6. f \in Nat
    BY <1>5, InFlightType
  <1>7. SendAllowance(c) = SaturatingSub(w, f)
    BY <1>3, <1>5 DEF SendAllowance
  <1>8. QED BY <1>2, <1>4, <1>5, <1>6, <1>7 DEF SaturatingSub

\* flush_data appends them to the flight.
LEMMA SendChunksSound ==
  ASSUME NEW c \in SoundConn, c.state \notin Opening,
         NEW total \in Nat, total <= Len(c.send_queue), total <= SendAllowance(c),
         NEW d, d = SendChunks(c, total, Chunks(c, total)).conn
  PROVE  /\ SendChunks(c, total, Chunks(c, total)) \in SoundUpdate
         /\ d.state = c.state /\ d.close_requested = c.close_requested
         /\ d.send_queue = SubSeq(c.send_queue, total + 1, Len(c.send_queue))
         /\ d.send_una = c.send_una /\ d.send_nxt = Plus(c.send_nxt, total)
         /\ d.remote_window = c.remote_window /\ d.reno = c.reno /\ d.mss = c.mss
  <1> DEFINE e == [c EXCEPT !.send_queue = SubSeq(@, total + 1, Len(@)),
                            !.send_nxt = Plus(@, total),
                            !.unacked = @ \o Chunks(c, total)]
             u == SendChunks(c, total, Chunks(c, total))
  <1>1. c \in Conn /\ Sender(c) /\ Receiver(c) /\ c.unacked \in Seq(SoundSegment)
        /\ c.unacked \in Seq(TrackedSegment) /\ c.mss <= Mss
    BY SoundFields DEF Sender
  <1>20. /\ total <= MaxWindow
         /\ total # 0 => InFlight(c) + total <= MaxWindow
         /\ InFlight(c) \in Nat /\ InFlight(c) <= MaxWindow + 1
         /\ InFlight(c) + total < Modulus /\ MaxWindow \in Nat
    <2>1. /\ SendAllowance(c) \in Nat /\ SendAllowance(c) <= MaxWindow /\ InFlight(c) \in Nat
          /\ SendAllowance(c) # 0 => InFlight(c) + SendAllowance(c) <= MaxWindow
          /\ MaxWindow \in Nat /\ MaxWindow + 1 < Modulus /\ Modulus \in Nat
      BY <1>1, AllowanceBound, InFlightType, ConfigAssumption, ModulusAssumption
    <2>2. InFlight(c) <= MaxWindow + 1
      BY <1>1 DEF Sender, FlightBounded, InFlight
    <2>3. PICK f : f = InFlight(c)
      OBVIOUS
    <2>4. PICK a : a = SendAllowance(c)
      OBVIOUS
    <2>5. /\ total <= MaxWindow /\ total # 0 => f + total <= MaxWindow
          /\ f + total < Modulus
      BY <2>1, <2>2, <2>3, <2>4
    <2>6. QED BY <2>1, <2>2, <2>3, <2>5
  <1>2. /\ Chunks(c, total) \in Seq(SoundSegment) /\ Chunks(c, total) \in Seq(TrackedSegment)
        /\ PayloadBytes(Chunks(c, total)) = total
        /\ Tiled(Chunks(c, total), c.send_nxt, Plus(c.send_nxt, total))
        /\ Straight(Chunks(c, total), c.send_nxt, Plus(c.send_nxt, total))
        /\ Distance(c.send_nxt, Plus(c.send_nxt, total)) = total
    BY <1>1, <1>20, ChunksSound, ChunksType, ChunksPayload, ChunksTiled, ChunksStraight
  <1>3. u \in Update /\ u.conn = e
    BY <1>1, <1>2, SendChunksType DEF SendChunks, Open
  <1>4. e \in Conn
    BY <1>3, UpdateFields
  <1>5. /\ e.state = c.state /\ e.close_requested = c.close_requested
        /\ e.send_queue = SubSeq(c.send_queue, total + 1, Len(c.send_queue))
        /\ e.send_una = c.send_una /\ e.send_nxt = Plus(c.send_nxt, total)
        /\ e.remote_window = c.remote_window /\ e.reno = c.reno /\ e.mss = c.mss
        /\ e.unacked = c.unacked \o Chunks(c, total)
        /\ e.accepted = c.accepted /\ e.acked = c.acked
        /\ e.recv_nxt = c.recv_nxt /\ e.recv_queue = c.recv_queue /\ e.reassembly = c.reassembly
    BY <1>1 DEF Conn
  <1> HIDE DEF e, u
  <1>6. e.unacked \in Seq(SoundSegment)
    BY <1>1, <1>2, <1>5, ConcatProperties
  <1>7. Tiled(e.unacked, e.send_una, e.send_nxt)
    <2>1. Tiled(c.unacked, c.send_una, c.send_nxt)
      BY <1>1 DEF Sender
    <2>2. QED BY <1>1, <1>2, <1>5, <2>1, TiledConcat
  <1>21. /\ Straight(e.unacked, e.send_una, e.send_nxt)
         /\ FlightBounded(e.unacked, e.send_una, e.send_nxt)
    <2>1. /\ Straight(c.unacked, c.send_una, c.send_nxt)
          /\ FlightBounded(c.unacked, c.send_una, c.send_nxt)
          /\ c.send_una \in SeqNumber /\ c.send_nxt \in SeqNumber /\ e.send_nxt \in SeqNumber
      BY <1>1, <1>4 DEF Sender, Conn
    <2>2. Straight(e.unacked, e.send_una, e.send_nxt)
      BY <1>1, <1>2, <1>5, <1>20, <2>1, StraightConcat DEF InFlight
    <2>3. Distance(e.send_una, e.send_nxt) = InFlight(c) + total
      BY <1>2, <1>5, <1>20, <2>1, OffsetAdd DEF InFlight
    <2>4. CASE total = 0
      <3>1. Plus(c.send_nxt, total) = c.send_nxt
        BY <2>1, <2>4, PlusZero
      <3>2. Chunks(c, total) = <<>>
        <4>1. PICK m : m = c.mss
          OBVIOUS
        <4>2. m \in Nat \ {0}
          BY <1>1, <4>1 DEF Conn
        <4>3. PICK n : n = (total + m - 1) \div m
          OBVIOUS
        <4>4. n = 0
          BY <2>4, <4>2, <4>3, CutPlaces
        <4>5. Chunks(c, total) = [i \in 1 .. n |-> Chunk(c, total, i)]
          BY <4>1, <4>3 DEF Chunks
        <4>6. QED BY <4>4, <4>5
      <3>3. e.unacked = c.unacked
        BY <1>1, <1>5, <3>2
      <3>4. QED BY <1>5, <2>1, <2>2, <3>1, <3>3
    <2>5. CASE total # 0
      <3>1. Distance(e.send_una, e.send_nxt) <= MaxWindow
            /\ Distance(e.send_una, e.send_nxt) <= MaxWindow + 1
        BY <1>20, <2>3, <2>5
      <3>2. QED BY <2>2, <3>1 DEF FlightBounded
    <2>6. QED BY <2>4, <2>5
  <1>8. PayloadBytes(e.unacked) = PayloadBytes(c.unacked) + total
    BY <1>1, <1>2, <1>5, PayloadConcat
  <1>9. Len(e.send_queue) = Len(c.send_queue) - total /\ Len(c.send_queue) \in Nat
    <2>1. c.send_queue \in Seq(Byte) /\ Len(c.send_queue) \in Nat
      BY <1>1 DEF Conn
    <2>2. QED BY <1>5, <2>1
  <1>10. PayloadBytes(c.unacked) \in Nat /\ c.acked \in Nat
    BY <1>1, PayloadCells DEF Conn
  <1>11. Sender(e)
    <2>1. c.accepted = c.acked + PayloadBytes(c.unacked) + Len(c.send_queue)
      BY <1>1 DEF Sender
    <2>2. \A a, p, n \in Nat : a + p + n = a + (p + total) + (n - total)
      OBVIOUS
    <2>3. c.acked + PayloadBytes(c.unacked) + Len(c.send_queue)
            = c.acked + (PayloadBytes(c.unacked) + total) + (Len(c.send_queue) - total)
      BY <1>9, <1>10, <2>2
    <2>4. e.accepted = e.acked + PayloadBytes(e.unacked) + Len(e.send_queue)
      BY <1>5, <1>8, <1>9, <2>1, <2>3
    <2>5. QED BY <1>1, <1>5, <1>6, <1>7, <1>21, <2>4 DEF Sender
  <1>12. Receiver(e)
    BY <1>4, <1>5, SameReceiver
  <1>13. Handshake(e)
    BY <1>5 DEF Handshake
  <1>14. e \in SoundConn
    BY <1>4, <1>11, <1>12, <1>13 DEF SoundConn
  <1>15. u \in SoundUpdate
    BY <1>3, <1>14 DEF SoundUpdate
  <1>16. QED BY <1>3, <1>5, <1>15 DEF u

\* flush_data's FIN is a first send.
LEMMA SendFinSound ==
  ASSUME NEW c \in SoundConn, c.state \in {"Established", "CloseWait"}, InFlight(c) < MaxWindow
  PROVE  /\ SendFin(c) \in SoundUpdate
         /\ SendFin(c).conn.state \in {"FinWait1", "LastAck"}
  <1> DEFINE d == [c EXCEPT !.close_requested = FALSE,
                            !.state = IF @ = "Established" THEN "FinWait1" ELSE "LastAck"]
  <1>1. c \in Conn /\ c.mss <= Mss
    BY SoundFields DEF Sender
  <1>2. d \in Conn
    BY <1>1 DEF Conn, State
  <1>3. /\ d.mss = c.mss /\ d.unacked = c.unacked /\ d.send_una = c.send_una
        /\ d.send_nxt = c.send_nxt /\ d.send_queue = c.send_queue
        /\ d.accepted = c.accepted /\ d.acked = c.acked
        /\ d.recv_nxt = c.recv_nxt /\ d.recv_queue = c.recv_queue /\ d.reassembly = c.reassembly
        /\ d.state \in {"FinWait1", "LastAck"}
    BY <1>1 DEF Conn
  <1> HIDE DEF d
  <1>4. Sender(d)
    BY <1>1, <1>2, <1>3, SameSender
  <1>5. Receiver(d)
    BY <1>2, <1>3, SameReceiver
  <1>6. Handshake(d)
    BY <1>3 DEF Handshake, Opening
  <1>7. d \in SoundConn
    BY <1>2, <1>4, <1>5, <1>6 DEF SoundConn
  <1>8. {"FIN", "ACK"} \in SUBSET Flag /\ "SYN" \notin {"FIN", "ACK"}
    BY DEF Flag
  <1>9. SendTracked(d, {"FIN", "ACK"}, <<>>) \in SoundUpdate
        /\ SendTracked(d, {"FIN", "ACK"}, <<>>).conn.state = d.state
    <2>1. InFlight(d) < MaxWindow
      BY <1>3 DEF InFlight
    <2>2. QED BY <1>7, <1>8, <2>1, SendControlSound
  <1>10. SendFin(c) = SendTracked(d, {"FIN", "ACK"}, <<>>)
    BY DEF SendFin, d
  <1>11. QED BY <1>3, <1>9, <1>10

\* Nothing that flow and congestion control would let out waits.
Idle(c) ==
  c.state \in {"Established", "CloseWait"} /\ SendAllowance(c) > 0
    => c.send_queue = <<>> /\ ~c.close_requested

\* Sending uses up as much of the allowance.
LEMMA AllowanceAfter ==
  ASSUME NEW c \in Conn, NEW d \in Conn, NEW total \in Nat, total <= SendAllowance(c),
         d.send_una = c.send_una, d.send_nxt = Plus(c.send_nxt, total),
         d.remote_window = c.remote_window, d.reno = c.reno, d.mss = c.mss
  PROVE  SendAllowance(d) = SendAllowance(c) - total
  <1>1. Window(c.reno, c.mss) \in Nat
    BY LargerType DEF Window, Conn, Controller
  <1>2. c.remote_window \in Nat /\ c.remote_window <= MaxWindow /\ MaxWindow \in Nat
    BY ConfigAssumption DEF Conn, WindowSize
  <1>3. PICK w : w = Smaller(c.remote_window, Window(c.reno, c.mss))
    OBVIOUS
  <1>4. w \in Nat /\ w <= MaxWindow
    BY <1>1, <1>2, <1>3 DEF Smaller
  <1>5. PICK f : f = InFlight(c)
    OBVIOUS
  <1>6. f \in Nat
    BY <1>5, InFlightType
  <1>7. SendAllowance(c) = SaturatingSub(w, f)
    BY <1>3, <1>5 DEF SendAllowance
  <1>8. SendAllowance(d) = SaturatingSub(w, InFlight(d))
    BY <1>3 DEF SendAllowance
  <1>9. c.send_una \in SeqNumber /\ c.send_nxt \in SeqNumber
    BY DEF Conn
  <1>10. CASE total = 0
    <2>1. d.send_nxt = c.send_nxt
      BY <1>9, <1>10, PlusZero
    <2>2. InFlight(d) = f
      BY <1>5, <2>1 DEF InFlight
    <2>3. SaturatingSub(w, f) \in Nat
      BY <1>4, <1>6 DEF SaturatingSub
    <2>4. QED BY <1>7, <1>8, <1>10, <2>2, <2>3
  <1>11. CASE total # 0
    <2>1. f + total <= w
      BY <1>4, <1>6, <1>7, <1>11 DEF SaturatingSub
    <2>2. f + total \in Nat /\ f + total < Modulus
      BY <1>2, <1>4, <1>6, <2>1, ConfigAssumption, ModulusAssumption
    <2>3. Plus(c.send_una, f) = c.send_nxt
      BY <1>5, <1>9, PlusOfDistance DEF InFlight
    <2>4. d.send_nxt = Plus(c.send_una, f + total)
      BY <1>6, <1>9, <2>2, <2>3, PlusPlus
    <2>5. InFlight(d) = f + total
      BY <1>9, <2>2, <2>4, DistanceOfPlus DEF InFlight
    <2>6. QED BY <1>4, <1>6, <1>7, <1>8, <2>1, <2>5 DEF SaturatingSub
  <1>12. QED BY <1>10, <1>11

\* flush_data keeps the books and leaves nothing sendable behind.
LEMMA FlushDataSound ==
  ASSUME NEW c \in SoundConn
  PROVE  FlushData(c) \in SoundUpdate /\ Idle(FlushData(c).conn)
  <1> DEFINE q == c.send_queue
  <1>1. c \in Conn /\ q \in Seq(Byte) /\ Len(q) \in Nat
    BY SoundFields DEF Conn
  <1>2. PICK a : a = SendAllowance(c)
    OBVIOUS
  <1>3. a \in Nat /\ a <= MaxWindow /\ MaxWindow \in Nat
    BY <1>1, <1>2, AllowanceBound, ConfigAssumption
  <1>4. FlushData(c) = FlushUpTo(c, a)
    BY <1>2 DEF FlushData
  <1>5. CASE c.state \notin {"Established", "CloseWait"}
    <2>1. FlushData(c) = Open(c, <<>>)
      BY <1>4, <1>5 DEF FlushUpTo
    <2>2. Idle(c)
      BY <1>5 DEF Idle
    <2>3. Open(c, <<>>).conn = c
      BY DEF Open
    <2>4. QED BY <2>1, <2>2, <2>3, NoSegments, OpenSound
  <1>6. CASE /\ c.state \in {"Established", "CloseWait"}
             /\ c.close_requested /\ a > Len(q)
    <2> DEFINE u == SendChunks(c, Len(q), Chunks(c, Len(q)))
    <2>1. Len(q) <= SendAllowance(c) /\ Len(q) <= Len(q) /\ c.state \notin Opening
      BY <1>1, <1>2, <1>3, <1>6 DEF Opening
    <2>2. /\ u \in SoundUpdate /\ u.conn.state = c.state
          /\ u.conn.send_una = c.send_una /\ u.conn.send_nxt = Plus(c.send_nxt, Len(q))
          /\ u.conn.remote_window = c.remote_window /\ u.conn.reno = c.reno
          /\ u.conn.mss = c.mss
      BY <1>1, <2>1, SendChunksSound
    <2>3. FlushData(c) = Then(u, SendFin(u.conn))
      BY <1>4, <1>6 DEF FlushUpTo, AndSendFin
    <2> HIDE DEF u
    <2>4. u \in Update /\ u.conn \in SoundConn
      BY <2>2, SoundFields
    <2>9. u.conn \in Conn
      BY <2>4, SoundFields
    <2>10. SendAllowance(u.conn) = a - Len(q)
      BY <1>1, <1>2, <2>1, <2>2, <2>9, AllowanceAfter
    <2>11. InFlight(u.conn) < MaxWindow
      <3>1. /\ InFlight(u.conn) \in Nat /\ SendAllowance(u.conn) \in Nat
            /\ SendAllowance(u.conn) # 0 => InFlight(u.conn) + SendAllowance(u.conn) <= MaxWindow
        BY <2>9, InFlightType, AllowanceBound
      <3>2. SendAllowance(u.conn) # 0
        BY <1>1, <1>3, <1>6, <2>10
      <3>3. QED BY <1>3, <3>1, <3>2
    <2>5. SendFin(u.conn) \in SoundUpdate /\ SendFin(u.conn).conn.state \in {"FinWait1", "LastAck"}
      BY <1>6, <2>2, <2>4, <2>11, SendFinSound
    <2>6. Then(u, SendFin(u.conn)) \in SoundUpdate
          /\ Then(u, SendFin(u.conn)).conn = SendFin(u.conn).conn
      BY <2>4, <2>5, ThenSound
    <2>7. Idle(SendFin(u.conn).conn)
      BY <2>5 DEF Idle
    <2>8. QED BY <2>3, <2>6, <2>7
  <1>7. CASE /\ c.state \in {"Established", "CloseWait"}
             /\ ~(c.close_requested /\ a > Len(q))
    <2>1. PICK total : total = Smaller(a, Len(q))
      OBVIOUS
    <2> DEFINE u == SendChunks(c, total, Chunks(c, total))
               d == u.conn
    <2>2. FlushData(c) = u
      BY <1>4, <1>7, <2>1 DEF FlushUpTo
    <2>3. total \in Nat /\ total <= Len(q) /\ total <= a /\ total <= MaxWindow
          /\ (total = a \/ total = Len(q))
      BY <1>1, <1>3, <2>1 DEF Smaller
    <2>4. c.state \notin Opening
      BY <1>7 DEF Opening
    <2>5. /\ u \in SoundUpdate
          /\ d.state = c.state /\ d.close_requested = c.close_requested
          /\ d.send_queue = SubSeq(q, total + 1, Len(q))
          /\ d.send_una = c.send_una /\ d.send_nxt = Plus(c.send_nxt, total)
          /\ d.remote_window = c.remote_window /\ d.reno = c.reno /\ d.mss = c.mss
      BY <1>2, <2>3, <2>4, SendChunksSound
    <2> HIDE DEF u
    <2>6. d \in Conn
      BY <2>5, SoundFields
    <2>7. SendAllowance(d) = a - total
      BY <1>1, <1>2, <2>3, <2>5, <2>6, AllowanceAfter
    <2>8. CASE total = a
      <3>1. ~(SendAllowance(d) > 0)
        BY <1>3, <2>7, <2>8
      <3>2. QED BY <2>2, <2>5, <3>1 DEF Idle
    <2>9. CASE total # a
      <3>1. total = Len(q) /\ a > Len(q)
        BY <1>1, <1>3, <2>3, <2>9
      <3>2. d.send_queue = <<>>
        BY <1>1, <2>5, <3>1
      <3>3. ~d.close_requested
        BY <1>7, <2>5, <3>1
      <3>4. QED BY <2>2, <2>5, <3>2, <3>3 DEF Idle
    <2>10. QED BY <2>8, <2>9
  <1>8. QED BY <1>5, <1>6, <1>7

\* A method that ends in flush_data.
LEMMA AndFlushSound ==
  ASSUME NEW u \in SoundUpdate
  PROVE  AndFlush(u) \in SoundUpdate /\ Idle(AndFlush(u).conn)
  BY SoundFields, FlushDataSound, ThenSound DEF AndFlush

\* Where nothing waits, flush_data does nothing.
LEMMA IdleFlushes ==
  ASSUME NEW c \in Conn, Idle(c)
  PROVE  FlushData(c) = Open(c, <<>>)
  <1>1. c.send_queue \in Seq(Byte) /\ Len(c.send_queue) \in Nat /\ c.send_nxt \in SeqNumber
        /\ c.unacked \in Seq(TrackedSegment) /\ c.mss \in Nat \ {0}
    BY DEF Conn
  <1>2. PICK a : a = SendAllowance(c)
    OBVIOUS
  <1>3. a \in Nat
    BY <1>2, AllowanceBound
  <1>4. FlushData(c) = FlushUpTo(c, a)
    BY <1>2 DEF FlushData
  <1>5. CASE c.state \notin {"Established", "CloseWait"}
    BY <1>4, <1>5 DEF FlushUpTo
  <1>6. CASE c.state \in {"Established", "CloseWait"}
    <2>1. a = 0 \/ (c.send_queue = <<>> /\ ~c.close_requested)
      BY <1>2, <1>3, <1>6 DEF Idle
    <2>2. ~(c.close_requested /\ a > Len(c.send_queue))
      BY <1>1, <1>3, <2>1
    <2>3. Smaller(a, Len(c.send_queue)) = 0
      BY <1>1, <1>3, <2>1 DEF Smaller
    <2>4. FlushData(c) = SendChunks(c, 0, Chunks(c, 0))
      BY <1>4, <1>6, <2>2, <2>3 DEF FlushUpTo
    <2>5. Chunks(c, 0) = <<>>
      <3>1. PICK m : m = c.mss
        OBVIOUS
      <3>2. PICK n : n = (0 + m - 1) \div m
        OBVIOUS
      <3>3. n = 0
        BY <1>1, <3>1, <3>2, CutPlaces
      <3>4. Chunks(c, 0) = [i \in 1 .. n |-> Chunk(c, 0, i)]
        BY <3>1, <3>2 DEF Chunks
      <3>5. QED BY <3>3, <3>4
    <2>6. SubSeq(c.send_queue, 0 + 1, Len(c.send_queue)) = c.send_queue
      BY <1>1
    <2>7. Plus(c.send_nxt, 0) = c.send_nxt
      BY <1>1, PlusZero
    <2>8. c.unacked \o <<>> = c.unacked
      BY <1>1
    <2>9. [i \in DOMAIN <<>> |-> SegmentFor(c, <<>>[i])] = <<>>
      OBVIOUS
    <2>10. [c EXCEPT !.send_queue = SubSeq(@, 0 + 1, Len(@)),
                     !.send_nxt = Plus(@, 0), !.unacked = @ \o <<>>] = c
      BY <2>6, <2>7, <2>8 DEF Conn
    <2>11. QED BY <2>4, <2>5, <2>9, <2>10 DEF SendChunks
  <1>7. QED BY <1>5, <1>6

-----------------------------------------------------------------------------
(* Repeating                                                               *)

\* A segment that is sent again stays where it was in the flight.
LEMMA RepeatedFront ==
  ASSUME NEW q \in Seq(SoundSegment), q # <<>>, NEW t \in SoundSegment,
         t.seq = q[1].seq, t.data = q[1].data, t.flags = q[1].flags,
         NEW first, NEW last, Tiled(q, first, last), Straight(q, first, last),
         FlightBounded(q, first, last)
  PROVE  /\ [q EXCEPT ![1] = t] \in Seq(SoundSegment)
         /\ Tiled([q EXCEPT ![1] = t], first, last)
         /\ Straight([q EXCEPT ![1] = t], first, last)
         /\ FlightBounded([q EXCEPT ![1] = t], first, last)
         /\ PayloadBytes([q EXCEPT ![1] = t]) = PayloadBytes(q)
  <1>1. q \in Seq(TrackedSegment) /\ t \in TrackedSegment /\ q[1] \in TrackedSegment
        /\ 1 \in 1 .. Len(q) /\ Len(q) # 0
    BY EmptySeq DEF SoundSegment
  <1>2. [q EXCEPT ![1] = t] \in Seq(SoundSegment)
    BY <1>1, ExceptSeq
  <1>3. TrackedEnd(t) = TrackedEnd(q[1])
    BY DEF TrackedEnd
  <1>4. q[1].seq = first
    BY <1>1 DEF Tiled
  <1>5. Tiled([q EXCEPT ![1] = t], first, last)
    BY <1>1, <1>3, <1>4, TiledFront
  <1>6. PayloadBytes([q EXCEPT ![1] = t]) + Len(q[1].data) = PayloadBytes(q) + Len(q[1].data)
    BY <1>1, PayloadFront
  <1>7. Len(q[1].data) \in Nat
    BY <1>1 DEF TrackedSegment
  <1>8. PayloadBytes([q EXCEPT ![1] = t]) \in Nat /\ PayloadBytes(q) \in Nat
    <2>1. [q EXCEPT ![1] = t] \in Seq(TrackedSegment)
      BY <1>1, ExceptSeq
    <2>2. QED BY <1>1, <2>1, PayloadCells
  <1>9. PayloadBytes([q EXCEPT ![1] = t]) = PayloadBytes(q)
    BY <1>6, <1>7, <1>8
  <1>10. Straight([q EXCEPT ![1] = t], first, last)
    BY <1>1, <1>3, StraightFront
  <1>11. FlightBounded([q EXCEPT ![1] = t], first, last)
    <2>1. Len([q EXCEPT ![1] = t]) = Len(q)
          /\ \A i \in 1 .. Len(q) : [q EXCEPT ![1] = t][i] = IF i = 1 THEN t ELSE q[i]
      OBVIOUS
    <2>2. \A i \in 1 .. Len(q) : [q EXCEPT ![1] = t][i].data = q[i].data
      BY <2>1
    <2>3. QED BY <2>1, <2>2 DEF FlightBounded
  <1>12. QED BY <1>2, <1>5, <1>9, <1>10, <1>11

\* retransmit_oldest counts a segment that has budget left, and changes no book.
LEMMA RetransmitOldestSound ==
  ASSUME NEW c \in SoundConn, NEW timeout \in BOOLEAN
  PROVE  /\ RetransmitOldest(c, timeout) \in SoundUpdate
         /\ RetransmitOldest(c, timeout).conn.state = c.state
  <1>1. c \in Conn /\ c.unacked \in Seq(SoundSegment) /\ Open(c, <<>>) \in SoundUpdate
        /\ Open(c, <<>>).conn = c /\ Sender(c)
    BY SoundFields, NoSegments, OpenSound DEF Open
  <1>2. CASE c.unacked = <<>> \/ Head(c.unacked).transmissions >= MaxTransmissions
    BY <1>1, <1>2 DEF RetransmitOldest
  <1>3. CASE c.unacked # <<>> /\ ~(Head(c.unacked).transmissions >= MaxTransmissions)
    <2> DEFINE t == [c.unacked[1] EXCEPT !.transmissions = CountUp(@)]
               d == [c EXCEPT !.unacked[1].transmissions = CountUp(@),
                              !.duplicate_acks = IF timeout THEN 0 ELSE @]
    <2>1. /\ Head(c.unacked) = c.unacked[1] /\ c.unacked[1] \in SoundSegment
          /\ 1 \in 1 .. Len(c.unacked)
      BY <1>1, <1>3
    <2>2. c.unacked[1] \in TrackedSegment /\ c.unacked[1].transmissions \in Nat
          /\ c.unacked[1].transmissions < MaxTransmissions
      <3>1. PICK first, n : first = c.unacked[1] /\ n = first.transmissions
        OBVIOUS
      <3>2. first \in TrackedSegment /\ n \in Nat
        BY <2>1, <3>1 DEF SoundSegment, TrackedSegment
      <3>3. ~(n >= MaxTransmissions) /\ MaxTransmissions \in Nat
        BY <1>3, <2>1, <3>1, ConfigAssumption
      <3>4. n < MaxTransmissions
        BY <3>2, <3>3
      <3>5. QED BY <3>1, <3>2, <3>4
    <2>3. /\ CountUp(c.unacked[1].transmissions) \in Nat
          /\ 1 <= CountUp(c.unacked[1].transmissions)
          /\ CountUp(c.unacked[1].transmissions) <= Budget
      BY <2>2, BudgetType, ConfigAssumption DEF CountUp, Smaller
    <2>4. t \in SoundSegment /\ t.seq = c.unacked[1].seq /\ t.data = c.unacked[1].data
          /\ t.flags = c.unacked[1].flags
      BY <2>1, <2>2, <2>3 DEF SoundSegment, TrackedSegment
    <2> HIDE DEF t
    <2>5. /\ Tiled(c.unacked, c.send_una, c.send_nxt)
          /\ Straight(c.unacked, c.send_una, c.send_nxt)
          /\ FlightBounded(c.unacked, c.send_una, c.send_nxt)
      BY <1>1 DEF Sender
    <2>6. /\ [c.unacked EXCEPT ![1] = t] \in Seq(SoundSegment)
          /\ Tiled([c.unacked EXCEPT ![1] = t], c.send_una, c.send_nxt)
          /\ Straight([c.unacked EXCEPT ![1] = t], c.send_una, c.send_nxt)
          /\ FlightBounded([c.unacked EXCEPT ![1] = t], c.send_una, c.send_nxt)
          /\ PayloadBytes([c.unacked EXCEPT ![1] = t]) = PayloadBytes(c.unacked)
      BY <1>1, <1>3, <2>4, <2>5, RepeatedFront
    <2>7. /\ d.unacked = [c.unacked EXCEPT ![1] = t]
          /\ d.mss = c.mss /\ d.send_una = c.send_una /\ d.send_nxt = c.send_nxt
          /\ d.send_queue = c.send_queue /\ d.accepted = c.accepted /\ d.acked = c.acked
          /\ d.recv_nxt = c.recv_nxt /\ d.recv_queue = c.recv_queue
          /\ d.reassembly = c.reassembly /\ d.state = c.state
          /\ d.close_requested = c.close_requested
      BY <1>1, <2>1 DEF Conn, t
    <2>8. RetransmitOldest(c, timeout) = Open(d, <<SegmentFor(c, Head(c.unacked))>>)
      BY <1>3 DEF RetransmitOldest
    <2>9. RetransmitOldest(c, timeout) \in Update
      BY <1>1, RetransmitOldestType
    <2> HIDE DEF d
    <2>10. RetransmitOldest(c, timeout).conn = d /\ d \in Conn
      BY <2>8, <2>9 DEF Open, Update
    <2>11. Sender(d)
      BY <1>1, <2>6, <2>7 DEF Sender
    <2>12. Receiver(d)
      BY <2>7, <2>10, SameReceiver
    <2>13. Handshake(d)
      BY <2>7, SoundFields DEF Handshake
    <2>14. QED BY <2>7, <2>9, <2>10, <2>11, <2>12, <2>13 DEF SoundUpdate, SoundConn
  <1>4. QED BY <1>2, <1>3

\* repair_timed_out_flight repeats through retransmit_oldest only.
LEMMA RepairSound ==
  ASSUME NEW c \in SoundConn
  PROVE  RepairTimedOutFlight(c) \in SoundUpdate
  BY RetransmitOldestSound, NoSegments, OpenSound DEF RepairTimedOutFlight

\* A probe that resends a byte changes nothing; one that sends a new byte moves
\* it from the queue to the flight (zero_window_probe).
LEMMA ZeroWindowProbeSound ==
  ASSUME NEW c \in SoundConn, HasProbePayload(c)
  PROVE  /\ ZeroWindowProbe(c) \in SoundUpdate
         /\ ZeroWindowProbe(c).conn.remote_window = c.remote_window
  <1>1. c \in Conn /\ ZeroWindowProbe(c) \in Update /\ Sender(c) /\ Receiver(c) /\ Handshake(c)
    BY SoundFields, ZeroWindowProbeType
  <1>2. CASE Carriers(c) # {}
    <2>1. ZeroWindowProbe(c).conn = c
      BY <1>2 DEF ZeroWindowProbe, ProbeOf, Open
    <2>2. QED BY <1>1, <2>1 DEF SoundUpdate
  <1>3. CASE Carriers(c) = {}
    <2>1. c.send_queue # <<>> /\ c.send_queue \in Seq(Byte)
      BY <1>1, <1>3 DEF HasProbePayload, Carriers, Conn
    <2>2. /\ Tail(c.send_queue) \in Seq(Byte) /\ Head(c.send_queue) \in Byte
          /\ Len(Tail(c.send_queue)) + 1 = Len(c.send_queue) /\ Len(Tail(c.send_queue)) \in Nat
      <3>1. Len(c.send_queue) \in Nat \ {0}
        BY <2>1, EmptySeq
      <3>2. Len(Tail(c.send_queue)) = Len(c.send_queue) - 1
        BY <2>1, HeadTailProperties
      <3>3. QED BY <2>1, <3>1, <3>2, HeadTailProperties
    <2> DEFINE d == [c EXCEPT !.send_queue = Tail(@)]
    <2>3. /\ d \in Conn
          /\ d.send_queue = Tail(c.send_queue) /\ d.mss = c.mss /\ d.unacked = c.unacked
          /\ d.send_una = c.send_una /\ d.send_nxt = c.send_nxt
          /\ d.accepted = c.accepted /\ d.acked = c.acked
          /\ d.recv_nxt = c.recv_nxt /\ d.recv_queue = c.recv_queue
          /\ d.reassembly = c.reassembly /\ d.state = c.state
          /\ d.remote_window = c.remote_window /\ d.close_requested = c.close_requested
      BY <1>1, <2>2 DEF Conn
    <2> HIDE DEF d
    <2>4. PICK byte : byte = <<Head(c.send_queue)>>
      OBVIOUS
    <2>5. byte \in Seq(Byte) /\ Len(byte) = 1
      BY <2>2, <2>4
    <2>6. Owing(d, Len(byte))
      <3>1. c.accepted = c.acked + PayloadBytes(c.unacked) + Len(c.send_queue)
        BY <1>1 DEF Sender
      <3>2. PayloadBytes(c.unacked) \in Nat /\ c.acked \in Nat
        BY <1>1, PayloadCells DEF Conn
      <3>3. c.accepted = c.acked + PayloadBytes(c.unacked) + Len(Tail(c.send_queue)) + 1
        BY <2>2, <3>1, <3>2
      <3>4. QED BY <1>1, <2>3, <2>5, <3>3 DEF Owing, Sender
    <2>7. Receiver(d)
      BY <2>3, SameReceiver
    <2>8. Handshake(d)
      BY <1>1, <2>1, <2>3 DEF Handshake
    <2>9. {"ACK"} \in SUBSET Flag /\ "SYN" \notin {"ACK"} /\ "FIN" \notin {"ACK"}
      BY DEF Flag
    <2>10. Len(byte) <= 1 /\ byte # <<>> /\ InFlight(d) <= MaxWindow
      <3>1. InFlight(d) = InFlight(c)
        BY <2>3 DEF InFlight
      <3>2. \A i \in 1 .. Len(c.unacked) : c.unacked[i].data = <<>>
        BY <1>1, <1>3 DEF Carriers, Conn
      <3>3. InFlight(c) <= MaxWindow
        BY <1>1, <3>2 DEF Sender, FlightBounded, InFlight
      <3>4. Len(<<>>) = 0
        OBVIOUS
      <3>5. QED BY <2>5, <3>1, <3>3, <3>4
    <2>11. /\ SendTracked(d, {"ACK"}, byte) \in SoundUpdate
           /\ SendTracked(d, {"ACK"}, byte).conn.remote_window = d.remote_window
      BY <2>3, <2>5, <2>6, <2>7, <2>8, <2>9, <2>10, SendTrackedSound
    <2>12. ZeroWindowProbe(c) = SendTracked(d, {"ACK"}, byte)
      BY <1>3, <2>4 DEF ZeroWindowProbe, d
    <2>13. QED BY <2>3, <2>11, <2>12
  <1>4. QED BY <1>2, <1>3

-----------------------------------------------------------------------------
(* Creation                                                                *)

\* A new connection has nothing in flight, queued or held.
LEMMA NewSound ==
  ASSUME NEW state \in State, NEW isn \in SeqNumber, NEW recv_nxt \in SeqNumber
  PROVE  /\ NewConnection(state, isn, recv_nxt) \in SoundConn
         /\ InFlight(NewConnection(state, isn, recv_nxt)) < MaxWindow
  <1> DEFINE c == NewConnection(state, isn, recv_nxt)
  <1>1. c \in Conn
    BY NewConnectionType
  <1>2. /\ c.unacked = <<>> /\ c.mss = Mss /\ c.send_una = isn /\ c.send_nxt = isn
        /\ c.send_queue = <<>> /\ c.accepted = 0 /\ c.acked = 0
        /\ c.recv_queue = <<>> /\ c.reassembly = {} /\ c.close_requested = FALSE
    BY DEF NewConnection
  <1> HIDE DEF c
  <1>3. <<>> \in Seq(SoundSegment) /\ Len(<<>>) = 0
    OBVIOUS
  <1>4. Sender(c)
    <2>1. Mss <= Mss
      BY ConfigAssumption
    <2>2. Distance(isn, isn) = 0 /\ 0 <= MaxWindow /\ 0 <= MaxWindow + 1
      BY BeforeOrAfter, ConfigAssumption
    <2>3. FlightBounded(c.unacked, c.send_una, c.send_nxt)
      BY <1>2, <2>2 DEF FlightBounded
    <2>4. QED BY <1>2, <1>3, <2>1, <2>3, TiledNone, StraightNone, PayloadSmall DEF Sender
  <1>5. Receiver(c)
    <2>1. HeldBytes(c) = 0
      <3>1. UNION {{r} \X (1 .. Len(r.data)) : r \in {}} = {}
        OBVIOUS
      <3>2. QED BY <1>2, <3>1, FS_EmptySet DEF HeldBytes
    <2>2. QED BY <1>2, <1>3, <2>1, ConfigAssumption DEF Receiver
  <1>6. Handshake(c)
    BY <1>2 DEF Handshake
  <1>7. c \in SoundConn
    BY <1>1, <1>4, <1>5, <1>6 DEF SoundConn
  <1>8. InFlight(c) < MaxWindow
    BY <1>2, BeforeOrAfter, ConfigAssumption DEF InFlight
  <1>9. QED BY <1>7, <1>8 DEF c

\* update_remote_window.
LEMMA UpdateRemoteWindowSound ==
  ASSUME NEW c \in SoundConn, NEW window \in WindowSize
  PROVE  /\ UpdateRemoteWindow(c, window) \in SoundConn
         /\ UpdateRemoteWindow(c, window).state = c.state
         /\ InFlight(UpdateRemoteWindow(c, window)) = InFlight(c)
  <1> DEFINE d == UpdateRemoteWindow(c, window)
  <1>1. c \in Conn /\ d \in Conn /\ c.mss <= Mss
    BY SoundFields, UpdateRemoteWindowType DEF Sender
  <1>2. /\ d.mss = c.mss /\ d.unacked = c.unacked /\ d.send_una = c.send_una
        /\ d.send_nxt = c.send_nxt /\ d.send_queue = c.send_queue
        /\ d.accepted = c.accepted /\ d.acked = c.acked
        /\ d.recv_nxt = c.recv_nxt /\ d.recv_queue = c.recv_queue
        /\ d.reassembly = c.reassembly /\ d.close_requested = c.close_requested
        /\ d.state = c.state
    BY <1>1 DEF UpdateRemoteWindow, Conn
  <1> HIDE DEF d
  <1>3. d \in SoundConn
    BY <1>1, <1>2, SameSound
  <1>4. InFlight(d) = InFlight(c)
    BY <1>2 DEF InFlight
  <1>5. QED BY <1>2, <1>3, <1>4 DEF d

\* negotiate_mss never goes above the configured mss.
LEMMA NegotiateMssSound ==
  ASSUME NEW c \in SoundConn, NEW seg \in Segment
  PROVE  /\ NegotiateMss(c, seg) \in SoundConn
         /\ NegotiateMss(c, seg).state = c.state
         /\ InFlight(NegotiateMss(c, seg)) = InFlight(c)
  <1> DEFINE d == NegotiateMss(c, seg)
  <1>1. c \in Conn /\ d \in Conn
    BY SoundFields, NegotiateMssType
  <1>2. /\ d.mss = Larger(Smaller(seg.mss, Mss), 1) /\ d.unacked = c.unacked
        /\ d.send_una = c.send_una
        /\ d.send_nxt = c.send_nxt /\ d.send_queue = c.send_queue
        /\ d.accepted = c.accepted /\ d.acked = c.acked
        /\ d.recv_nxt = c.recv_nxt /\ d.recv_queue = c.recv_queue
        /\ d.reassembly = c.reassembly /\ d.close_requested = c.close_requested
        /\ d.state = c.state
    BY <1>1 DEF NegotiateMss, UseMss, Conn
  <1>3. Larger(Smaller(seg.mss, Mss), 1) <= Mss
    <2>1. seg.mss \in Nat
      BY DEF Segment
    <2>2. QED BY <2>1, ConfigAssumption DEF Larger, Smaller
  <1> HIDE DEF d
  <1>4. d \in SoundConn
    BY <1>1, <1>2, <1>3, SameSound
  <1>5. InFlight(d) = InFlight(c)
    BY <1>2 DEF InFlight
  <1>6. QED BY <1>2, <1>4, <1>5 DEF d

\* Connection::client has its SYN in flight.
LEMMA ClientSound ==
  ASSUME NEW isn \in SeqNumber
  PROVE  Client(isn) \in SoundUpdate /\ Client(isn).conn.state = "SynSent"
  <1>1. /\ NewConnection("SynSent", isn, 0) \in SoundConn
        /\ InFlight(NewConnection("SynSent", isn, 0)) < MaxWindow
    BY NewSound, ZeroIsSeqNumber DEF State
  <1>2. {"SYN"} \in SUBSET Flag /\ "FIN" \notin {"SYN"}
    BY DEF Flag
  <1>3. NewConnection("SynSent", isn, 0).state = "SynSent"
    BY DEF NewConnection
  <1>4. QED BY <1>1, <1>2, <1>3, SendControlSound DEF Client

\* Connection::server has its SYN-ACK in flight.
LEMMA ServerSound ==
  ASSUME NEW syn \in Segment, NEW isn \in SeqNumber
  PROVE  Server(syn, isn) \in SoundUpdate /\ Server(syn, isn).conn.state = "SynReceived"
  <1> DEFINE c == NewConnection("SynReceived", isn, Plus(syn.seq, 1))
             d == NegotiateMss(UpdateRemoteWindow(c, syn.window), syn)
  <1>1. Plus(syn.seq, 1) \in SeqNumber /\ syn.window \in WindowSize
    BY SeqNumberIsNat, PlusType DEF Segment
  <1>2. c \in SoundConn /\ c.state = "SynReceived" /\ InFlight(c) < MaxWindow
    BY <1>1, NewSound DEF State, NewConnection
  <1> HIDE DEF c
  <1>3. d \in SoundConn /\ d.state = "SynReceived" /\ InFlight(d) < MaxWindow
    BY <1>1, <1>2, UpdateRemoteWindowSound, NegotiateMssSound
  <1> HIDE DEF d
  <1>4. {"SYN", "ACK"} \in SUBSET Flag /\ "FIN" \notin {"SYN", "ACK"}
    BY DEF Flag
  <1>5. QED BY <1>3, <1>4, SendControlSound DEF Server, d, c

-----------------------------------------------------------------------------
(* Acknowledgements                                                        *)

\* The third duplicate ACK repeats through retransmit_oldest only.
LEMMA ApplyDuplicateAckSound ==
  ASSUME NEW c \in SoundConn, NEW candidate
  PROVE  /\ ApplyDuplicateAck(c, candidate) \in SoundUpdate
         /\ ApplyDuplicateAck(c, candidate).conn.state = c.state
  <1>1. c \in Conn /\ c.mss <= Mss
    BY SoundFields DEF Sender
  <1>2. [c EXCEPT !.duplicate_acks = 0] \in SoundConn
        /\ [c EXCEPT !.duplicate_acks = 0].state = c.state
    <2> DEFINE d == [c EXCEPT !.duplicate_acks = 0]
    <2>1. d \in Conn
      BY <1>1 DEF Conn
    <2>2. /\ d.mss = c.mss /\ d.unacked = c.unacked /\ d.send_una = c.send_una
          /\ d.send_nxt = c.send_nxt /\ d.send_queue = c.send_queue
          /\ d.accepted = c.accepted /\ d.acked = c.acked
          /\ d.recv_nxt = c.recv_nxt /\ d.recv_queue = c.recv_queue
          /\ d.reassembly = c.reassembly /\ d.close_requested = c.close_requested
          /\ d.state = c.state
      BY <1>1 DEF Conn
    <2> HIDE DEF d
    <2>3. d \in SoundConn
      BY <1>1, <2>1, <2>2, SameSound
    <2>4. QED BY <2>2, <2>3 DEF d
  <1>3. ASSUME NEW d \in SoundConn, NEW r \in Controller, NEW n \in Nat
        PROVE  /\ [d EXCEPT !.duplicate_acks = n, !.reno = r] \in SoundConn
               /\ [d EXCEPT !.duplicate_acks = n, !.reno = r].state = d.state
               /\ [d EXCEPT !.reno = r] \in SoundConn
               /\ [d EXCEPT !.reno = r].state = d.state
    <2>1. d \in Conn /\ d.mss <= Mss
      BY SoundFields DEF Sender
    <2>2. ASSUME NEW e \in Conn,
                 e = [d EXCEPT !.duplicate_acks = n, !.reno = r] \/ e = [d EXCEPT !.reno = r]
          PROVE  e \in SoundConn /\ e.state = d.state
      <3>1. /\ e.mss = d.mss /\ e.unacked = d.unacked /\ e.send_una = d.send_una
            /\ e.send_nxt = d.send_nxt /\ e.send_queue = d.send_queue
            /\ e.accepted = d.accepted /\ e.acked = d.acked
            /\ e.recv_nxt = d.recv_nxt /\ e.recv_queue = d.recv_queue
            /\ e.reassembly = d.reassembly /\ e.close_requested = d.close_requested
            /\ e.state = d.state
        BY <2>1, <2>2 DEF Conn
      <3>2. QED BY <2>1, <3>1, SameSound
    <2>3. [d EXCEPT !.duplicate_acks = n, !.reno = r] \in Conn /\ [d EXCEPT !.reno = r] \in Conn
      BY <2>1 DEF Conn
    <2>4. QED BY <2>2, <2>3
  <1>4. CountDuplicate(c) \in SoundConn /\ CountDuplicate(c).state = c.state
    <2>1. RenoOnDuplicateAck(c.reno, c.mss) \in Controller /\ CountUp(c.duplicate_acks) \in Nat
      BY <1>1, RenoTypes, CountUpType DEF Conn
    <2>2. QED BY <1>3, <2>1 DEF CountDuplicate
  <1>5. ASSUME NEW d \in SoundConn PROVE FastLoss(d) \in SoundConn /\ FastLoss(d).state = d.state
    <2>1. d \in Conn
      BY SoundFields
    <2>2. RenoOnFastLoss(d.reno, d.mss, InFlight(d)) \in Controller
      BY <2>1, RenoOnLossTypes, InFlightType DEF Conn
    <2>3. QED BY <1>3, <2>2 DEF FastLoss
  <1>6. Open([c EXCEPT !.duplicate_acks = 0], <<>>).conn = [c EXCEPT !.duplicate_acks = 0]
        /\ Open(CountDuplicate(c), <<>>).conn = CountDuplicate(c)
    BY DEF Open
  <1>7. QED BY <1>2, <1>4, <1>5, <1>6, RetransmitOldestSound, NoSegments, OpenSound
            DEF ApplyDuplicateAck

\* An acceptable ACK lies in the flight, and what it does not cover ends after
\* it.
LEMMA AckPlace ==
  ASSUME NEW first \in SeqNumber, NEW last \in SeqNumber, NEW ack \in SeqNumber,
         Distance(first, last) <= MaxWindow + 1,
         ~Before(ack, first), ~Before(last, ack)
  PROVE  /\ Distance(first, ack) <= Distance(first, last)
         /\ \A x \in SeqNumber :
              Distance(first, x) <= Distance(first, last) /\ ~BeforeOrEqual(x, ack)
                => Distance(first, ack) < Distance(first, x)
  <1>1. MaxWindow \in Nat /\ Modulus \in Nat /\ 2 * MaxWindow + 2 < Modulus
    BY ConfigAssumption, ModulusAssumption
  <1>2. Distance(first, ack) <= Distance(first, last)
    BY <1>1 DEF Before, Distance, SeqNumber
  <1>3. ASSUME NEW x \in SeqNumber,
               Distance(first, x) <= Distance(first, last), ~BeforeOrEqual(x, ack)
        PROVE  Distance(first, ack) < Distance(first, x)
    BY <1>1, <1>2, <1>3 DEF BeforeOrEqual, Before, Distance, SeqNumber
  <1>4. QED BY <1>2, <1>3

\* How many sequence numbers a segment in flight takes.
LEMMA SegmentSpan ==
  ASSUME NEW t \in SoundSegment
  PROVE  \E n \in Nat : /\ n <= MaxWindow /\ TrackedEnd(t) = Plus(t.seq, n)
                        /\ n > 1 => t.flags \cap {"SYN", "FIN"} = {} /\ n = Len(t.data)
                        /\ Len(t.data) <= n
  <1>1. t \in TrackedSegment /\ Len(t.data) \in Nat /\ Len(t.data) <= Mss
    BY DEF SoundSegment, TrackedSegment
  <1>2. CASE "SYN" \notin t.flags /\ "FIN" \notin t.flags
    <2>1. TrackedEnd(t) = Plus(t.seq, Len(t.data))
      BY <1>1, <1>2, DataEnd
    <2>2. Len(t.data) <= MaxWindow
      BY <1>1, ConfigAssumption
    <2>3. t.flags \cap {"SYN", "FIN"} = {}
      BY <1>2
    <2>4. QED BY <1>1, <2>1, <2>2, <2>3
  <1>3. CASE "SYN" \in t.flags \/ "FIN" \in t.flags
    <2>1. Len(t.data) = 0
      BY <1>3 DEF SoundSegment
    <2>2. Len(t.data) + Units("SYN" \in t.flags) + Units("FIN" \in t.flags) = 1
      <3>1. Units("SYN" \in t.flags) + Units("FIN" \in t.flags) = 1
        BY <1>3 DEF SoundSegment, Units
      <3>2. QED BY <2>1, <3>1 DEF Units
    <2>3. TrackedEnd(t) = Plus(t.seq, 1) /\ 1 <= MaxWindow
      BY <2>2, ConfigAssumption DEF TrackedEnd
    <2>4. QED BY <2>1, <2>3
  <1>4. QED BY <1>2, <1>3

\* An ACK that starts no later than half a turn behind and does not cover a
\* stretch of at most a window ends inside of it.
LEMMA EndsWithin ==
  ASSUME NEW e \in SeqNumber, NEW ack \in SeqNumber, NEW n \in Nat, n <= MaxWindow,
         e = ack \/ 2 * Distance(e, ack) <= Modulus,
         ~BeforeOrEqual(Plus(e, n), ack), ack # e
  PROVE  /\ Distance(e, ack) \in Nat \ {0} /\ Distance(e, ack) < n
         /\ Before(e, ack) /\ Before(ack, Plus(e, n))
         /\ Plus(ack, n - Distance(e, ack)) = Plus(e, n)
  <1>1. Modulus \in Nat /\ MaxWindow \in Nat /\ 2 * MaxWindow + 2 < Modulus
        /\ e \in Nat /\ e < Modulus /\ ack \in Nat /\ ack < Modulus
    BY ModulusAssumption, ConfigAssumption DEF SeqNumber
  <1>2. n < Modulus
    BY <1>1
  <1>3. Plus(e, n) = IF e + n < Modulus THEN e + n ELSE e + n - Modulus
    BY <1>2, PlusCases
  <1>4. PICK x : x = Plus(e, n)
    OBVIOUS
  <1>5. PICK d : d = Distance(e, ack)
    OBVIOUS
  <1>6. x # ack /\ 2 * Distance(ack, x) < Modulus /\ 2 * d <= Modulus /\ d \in Nat /\ d # 0
    BY <1>1, <1>3, <1>4, <1>5 DEF BeforeOrEqual, Before, Distance
  <1>7. d < n
    BY <1>1, <1>3, <1>4, <1>5, <1>6 DEF Distance
  <1>8. 2 * Distance(ack, e) >= Modulus
    BY <1>1, <1>5, <1>6 DEF Distance
  <1>9. 2 * Distance(x, ack) >= Modulus
    BY <1>1, <1>3, <1>4, <1>5, <1>6, <1>7 DEF Distance
  <1>10. Plus(ack, n - d) = x
    <2>1. n - d \in Nat /\ d + (n - d) = n /\ d < Modulus
      BY <1>1, <1>2, <1>6, <1>7
    <2>2. Plus(e, d) = ack
      BY <1>5, PlusOfDistance
    <2>3. Plus(Plus(e, d), n - d) = Plus(e, n)
      <3>1. PICK k : k = n - d
        OBVIOUS
      <3>2. k \in Nat /\ d + k = n /\ d + k < Modulus
        BY <1>2, <2>1, <3>1
      <3>3. Plus(Plus(e, d), k) = Plus(e, d + k)
        BY <1>6, <3>2, PlusPlus
      <3>4. QED BY <3>1, <3>2, <3>3
    <2>4. QED BY <1>4, <2>2, <2>3
  <1>11. QED BY <1>4, <1>5, <1>6, <1>7, <1>8, <1>9, <1>10 DEF Before

\* The first segment an ACK does not cover ends after it.
LEMMA CoveredMost ==
  ASSUME NEW c \in Conn, NEW ack, Covered(c, ack) < Len(c.unacked)
  PROVE  ~BeforeOrEqual(TrackedEnd(c.unacked[Covered(c, ack) + 1]), ack)
  <1> DEFINE K == {k \in DOMAIN c.unacked :
                     \A j \in 1 .. k : BeforeOrEqual(TrackedEnd(c.unacked[j]), ack)}
             n == Len(c.unacked)
  <1>1. n \in Nat /\ DOMAIN c.unacked = 1 .. n
    BY DEF Conn
  <1> HIDE DEF n
  <1>2. K \in SUBSET (1 .. n) /\ \A k \in K : 1 .. k \subseteq K
    BY <1>1
  <1>3. \A k \in 1 .. n : k \in K <=>
          \A j \in 1 .. k : BeforeOrEqual(TrackedEnd(c.unacked[j]), ack)
    BY <1>1
  <1> HIDE DEF K
  <1>4. PICK m : m = Cardinality(K)
    OBVIOUS
  <1>5. m \in Nat /\ K = 1 .. m
    BY <1>1, <1>2, <1>4, DownwardClosed
  <1>6. Covered(c, ack) = m
    BY <1>4 DEF Covered, K
  <1>7. m + 1 \in 1 .. n /\ m + 1 \notin K
    BY <1>1, <1>5, <1>6 DEF n
  <1>8. PICK j \in 1 .. m + 1 : ~BeforeOrEqual(TrackedEnd(c.unacked[j]), ack)
    BY <1>3, <1>7
  <1>9. j \notin 1 .. m
    <2>1. SUFFICES ASSUME j \in 1 .. m PROVE FALSE
      OBVIOUS
    <2>2. j \in K /\ j \in 1 .. n /\ j \in 1 .. j
      BY <1>2, <1>5, <2>1
    <2>3. QED BY <1>3, <1>8, <2>2
  <1>10. j = m + 1
    BY <1>5, <1>9
  <1>11. QED BY <1>6, <1>8, <1>10

\* Segment by segment, r ends where q does, and starts there but for the first.
SamePlaces(r, q) ==
  /\ Len(r) = Len(q)
  /\ \A i \in 1 .. Len(q) : /\ TrackedEnd(r[i]) = TrackedEnd(q[i])
                            /\ i # 1 => r[i].seq = q[i].seq

\* The front of what an ACK leaves in flight starts at the ACK afterwards, and
\* the payload cut off is counted (apply_ack).
LEMMA TrimFrontSound ==
  ASSUME NEW rest \in Seq(SoundSegment), rest # <<>>, NEW ack \in SeqNumber,
         NEW first \in SeqNumber, NEW last, Tiled(rest, first, last),
         first = ack \/ 2 * Distance(first, ack) <= Modulus,
         ~BeforeOrEqual(TrackedEnd(rest[1]), ack)
  PROVE  /\ TrimFront(rest, ack) \in Seq(SoundSegment)
         /\ Tiled(TrimFront(rest, ack), ack, last)
         /\ PayloadBytes(TrimFront(rest, ack)) + TrimOf(Head(rest), ack) = PayloadBytes(rest)
         /\ TrimFront(rest, ack)[1].seq = ack
         /\ SamePlaces(TrimFront(rest, ack), rest)
  <1>1. /\ Head(rest) = rest[1] /\ rest[1] \in SoundSegment /\ 1 \in 1 .. Len(rest)
        /\ Len(rest) # 0 /\ rest \in Seq(TrackedSegment)
    BY EmptySeq DEF SoundSegment
  <1>2. PICK t : t = rest[1]
    OBVIOUS
  <1>3. t \in SoundSegment /\ t \in TrackedSegment /\ t.seq = first /\ t.data \in Seq(Byte)
    BY <1>1, <1>2 DEF Tiled, SoundSegment, TrackedSegment
  <1>4. PayloadBytes(rest) \in Nat
    BY <1>1, PayloadCells
  <1>5. CASE first = ack
    <2>1. ~EndsInside(t, ack)
      BY <1>3, <1>5, BeforeOrAfter DEF EndsInside
    <2>2. TrimFront(rest, ack) = rest /\ TrimOf(Head(rest), ack) = 0
      BY <1>1, <1>2, <2>1 DEF TrimFront, TrimOf
    <2>3. TrimFront(rest, ack)[1].seq = ack /\ SamePlaces(rest, rest)
      BY <1>2, <1>3, <1>5, <2>2 DEF SamePlaces
    <2>4. QED BY <1>4, <1>5, <2>2, <2>3
  <1>6. CASE first # ack
    <2>1. PICK n \in Nat : /\ n <= MaxWindow /\ TrackedEnd(t) = Plus(t.seq, n)
                           /\ n > 1 => t.flags \cap {"SYN", "FIN"} = {} /\ n = Len(t.data)
      BY <1>3, SegmentSpan
    <2>2. PICK d : d = Distance(first, ack)
      OBVIOUS
    <2>3. /\ d \in Nat \ {0} /\ d < n /\ Before(first, ack) /\ Before(ack, Plus(first, n))
          /\ Plus(ack, n - d) = Plus(first, n)
      <3>1. ~BeforeOrEqual(Plus(first, n), ack)
        BY <1>2, <1>3, <2>1
      <3>2. QED BY <1>6, <2>1, <2>2, <3>1, EndsWithin
    <2>4. n > 1 /\ t.flags \cap {"SYN", "FIN"} = {} /\ n = Len(t.data)
      BY <2>1, <2>3
    <2>5. EndsInside(t, ack)
      BY <1>3, <2>1, <2>3, <2>4 DEF EndsInside
    <2>6. TrimOf(t, ack) = d
      BY <1>3, <2>2, <2>3, <2>4, <2>5 DEF TrimOf, Smaller
    <2>7. PICK data : data = SubSeq(t.data, d + 1, Len(t.data))
      OBVIOUS
    <2>8. data \in Seq(Byte) /\ Len(data) = n - d
      BY <1>3, <2>3, <2>4, <2>7
    <2>9. PICK s : s = [t EXCEPT !.seq = ack, !.data = data]
      OBVIOUS
    <2>10. /\ s \in TrackedSegment /\ s.seq = ack /\ s.data = data /\ s.flags = t.flags
           /\ s.transmissions = t.transmissions
      BY <1>3, <2>8, <2>9 DEF TrackedSegment
    <2>11. s \in SoundSegment
      <3>1. Len(data) <= Mss
        BY <1>3, <2>3, <2>4, <2>8, ConfigAssumption DEF SoundSegment
      <3>2. QED BY <1>3, <2>4, <2>10, <3>1 DEF SoundSegment
    <2>12. TrackedEnd(s) = TrackedEnd(rest[1])
      <3>1. "SYN" \notin s.flags /\ "FIN" \notin s.flags
        BY <2>4, <2>10
      <3>2. TrackedEnd(s) = Plus(ack, n - d)
        BY <2>8, <2>10, <3>1, DataEnd
      <3>3. QED BY <1>2, <1>3, <2>1, <2>3, <3>2
    <2>13. TrimFront(rest, ack) = [rest EXCEPT ![1] = s]
      <3>1. TrimFront(rest, ack) = [rest EXCEPT ![1].seq = ack,
                                  ![1].data = SubSeq(@, TrimOf(Head(rest), ack) + 1, Len(@))]
        BY <1>1, <1>2, <2>5 DEF TrimFront
      <3>2. TrimOf(Head(rest), ack) = d
        BY <1>1, <1>2, <2>6
      <3>3. QED BY <1>1, <1>2, <2>7, <2>9, <3>1, <3>2
    <2>14. [rest EXCEPT ![1] = s] \in Seq(SoundSegment)
      BY <1>1, <2>11, ExceptSeq
    <2>15. Tiled([rest EXCEPT ![1] = s], ack, last)
      BY <1>1, <2>10, <2>12, TiledFront
    <2>16. PayloadBytes([rest EXCEPT ![1] = s]) + n = PayloadBytes(rest) + (n - d)
      <3>1. PayloadBytes([rest EXCEPT ![1] = s]) + Len(rest[1].data)
              = PayloadBytes(rest) + Len(s.data)
        BY <1>1, <2>10, PayloadFront
      <3>2. QED BY <1>2, <2>4, <2>8, <2>10, <3>1
    <2>17. PayloadBytes([rest EXCEPT ![1] = s]) \in Nat
      <3>1. [rest EXCEPT ![1] = s] \in Seq(TrackedSegment)
        BY <1>1, <2>10, ExceptSeq
      <3>2. QED BY <3>1, PayloadCells
    <2>18. PayloadBytes([rest EXCEPT ![1] = s]) + d = PayloadBytes(rest)
      BY <1>4, <2>3, <2>16, <2>17
    <2>19. [rest EXCEPT ![1] = s][1].seq = ack /\ SamePlaces([rest EXCEPT ![1] = s], rest)
      <3>1. Len([rest EXCEPT ![1] = s]) = Len(rest)
            /\ \A i \in 1 .. Len(rest) : [rest EXCEPT ![1] = s][i] = IF i = 1 THEN s ELSE rest[i]
        BY <1>1
      <3>2. QED BY <1>1, <2>10, <2>12, <3>1 DEF SamePlaces
    <2>20. QED BY <1>1, <1>2, <2>6, <2>13, <2>14, <2>15, <2>18, <2>19
  <1>7. QED BY <1>5, <1>6

\* What an ACK covers whole, what it leaves, and how much of that it trims.
Gone(c, ack) == SubSeq(c.unacked, 1, Covered(c, ack))
Rest(c, ack) == SubSeq(c.unacked, Covered(c, ack) + 1, Len(c.unacked))
Trimmed(c, ack) == IF Rest(c, ack) = <<>> THEN 0 ELSE TrimOf(Head(Rest(c, ack)), ack)

\* What an ACK that advances leaves in flight starts at the ACK, and every byte
\* that left the flight is counted (apply_ack).
LEMMA NewAckRest ==
  ASSUME NEW c \in SoundConn, NEW ack \in SeqNumber, InSendInterval(c, ack)
  PROVE  /\ PayloadBytes(Gone(c, ack)) \in Nat /\ Trimmed(c, ack) \in Nat
         /\ TrimFront(Rest(c, ack), ack) \in Seq(SoundSegment)
         /\ Tiled(TrimFront(Rest(c, ack), ack), ack, c.send_nxt)
         /\ Straight(TrimFront(Rest(c, ack), ack), ack, c.send_nxt)
         /\ SamePlaces(TrimFront(Rest(c, ack), ack), Rest(c, ack))
         /\ PayloadBytes(c.unacked) = (PayloadBytes(Gone(c, ack)) + Trimmed(c, ack))
                                        + PayloadBytes(TrimFront(Rest(c, ack), ack))
  <1>20. PICK k : k = Covered(c, ack)
    OBVIOUS
  <1>21. PICK gone : gone = Gone(c, ack)
    OBVIOUS
  <1>22. PICK rest : rest = Rest(c, ack)
    OBVIOUS
  <1>23. PICK trim : trim = Trimmed(c, ack)
    OBVIOUS
  <1>1. /\ c \in Conn /\ c.unacked \in Seq(SoundSegment) /\ c.unacked \in Seq(TrackedSegment)
        /\ Tiled(c.unacked, c.send_una, c.send_nxt)
        /\ c.send_una \in SeqNumber /\ c.send_nxt \in SeqNumber
    BY SoundFields DEF Sender, Conn
  <1>2. /\ k \in 0 .. Len(c.unacked) /\ Len(c.unacked) \in Nat
        /\ \A j \in 1 .. k : BeforeOrEqual(TrackedEnd(c.unacked[j]), ack)
    <2>1. Len(c.unacked) \in Nat
      BY <1>1
    <2>2. QED BY <1>1, <1>20, <2>1, CoveredType
  <1>3. /\ gone \in Seq(TrackedSegment) /\ rest \in Seq(TrackedSegment)
        /\ PayloadBytes(c.unacked) = PayloadBytes(gone) + PayloadBytes(rest)
        /\ PayloadBytes(gone) \in Nat /\ PayloadBytes(rest) \in Nat
    <2>1. /\ SubSeq(c.unacked, 1, k) \in Seq(TrackedSegment)
          /\ SubSeq(c.unacked, k + 1, Len(c.unacked)) \in Seq(TrackedSegment)
          /\ PayloadBytes(c.unacked) = PayloadBytes(SubSeq(c.unacked, 1, k))
                                         + PayloadBytes(SubSeq(c.unacked, k + 1, Len(c.unacked)))
      BY <1>1, <1>2, PayloadCut
    <2>2. gone \in Seq(TrackedSegment) /\ rest \in Seq(TrackedSegment)
          /\ PayloadBytes(c.unacked) = PayloadBytes(gone) + PayloadBytes(rest)
      BY <1>20, <1>21, <1>22, <2>1, Zenon DEF Gone, Rest
    <2>3. QED BY <2>2, PayloadCells
  <1>4. rest \in Seq(SoundSegment) /\ Len(rest) = Len(c.unacked) - k
        /\ (k < Len(c.unacked) => rest[1] = c.unacked[k + 1])
        /\ \A i \in 1 .. Len(c.unacked) - k : rest[i] = c.unacked[k + i]
    <2>1. ASSUME NEW q \in Seq(SoundSegment), NEW n \in 0 .. Len(q)
          PROVE  /\ SubSeq(q, n + 1, Len(q)) \in Seq(SoundSegment)
                 /\ Len(SubSeq(q, n + 1, Len(q))) = Len(q) - n
                 /\ n < Len(q) => SubSeq(q, n + 1, Len(q))[1] = q[n + 1]
                 /\ \A i \in 1 .. Len(q) - n : SubSeq(q, n + 1, Len(q))[i] = q[n + i]
      OBVIOUS
    <2>2. /\ SubSeq(c.unacked, k + 1, Len(c.unacked)) \in Seq(SoundSegment)
          /\ Len(SubSeq(c.unacked, k + 1, Len(c.unacked))) = Len(c.unacked) - k
          /\ k < Len(c.unacked)
                => SubSeq(c.unacked, k + 1, Len(c.unacked))[1] = c.unacked[k + 1]
          /\ \A i \in 1 .. Len(c.unacked) - k :
               SubSeq(c.unacked, k + 1, Len(c.unacked))[i] = c.unacked[k + i]
      BY <1>1, <1>2, <2>1
    <2>3. QED BY <1>20, <1>22, <2>2, Zenon DEF Rest
  <1>5. PICK e : e = IF k = 0 THEN c.send_una ELSE TrackedEnd(c.unacked[k])
    OBVIOUS
  <1>6. Tiled(rest, e, c.send_nxt)
    <2>1. Tiled(SubSeq(c.unacked, k + 1, Len(c.unacked)),
                IF k = 0 THEN c.send_una ELSE TrackedEnd(c.unacked[k]), c.send_nxt)
      BY <1>1, <1>2, TiledRest
    <2>2. QED BY <1>5, <1>20, <1>22, <2>1, Zenon DEF Rest
  <1>7. ~Before(ack, c.send_una) /\ ~Before(c.send_nxt, ack)
    BY DEF InSendInterval, InClosedInterval, After
  <1>8. k # 0 => e \in SeqNumber /\ BeforeOrEqual(e, ack)
    <2>1. SUFFICES ASSUME k # 0 PROVE e \in SeqNumber /\ BeforeOrEqual(e, ack)
      OBVIOUS
    <2>2. k \in 1 .. k /\ k \in 1 .. Len(c.unacked)
      BY <1>2, <2>1
    <2>3. c.unacked[k] \in TrackedSegment
      BY <1>1, <2>2
    <2>4. QED BY <1>2, <1>5, <2>1, <2>2, <2>3, TrackedEndType
  <1>9. e \in SeqNumber
    BY <1>1, <1>5, <1>8
  <1>10. e = ack \/ 2 * Distance(e, ack) <= Modulus
    <2>1. CASE k = 0
      BY <1>1, <1>5, <1>7, <1>9, <2>1, ModulusAssumption DEF Before, Distance, SeqNumber
    <2>2. CASE k # 0
      BY <1>8, <1>9, <2>2, ModulusAssumption DEF BeforeOrEqual, Before, Distance, SeqNumber
    <2>3. QED BY <2>1, <2>2
  <1>11. ASSUME rest = <<>>
         PROVE  /\ gone \in Seq(TrackedSegment) /\ PayloadBytes(gone) \in Nat /\ trim \in Nat
                /\ TrimFront(rest, ack) \in Seq(SoundSegment)
                /\ Tiled(TrimFront(rest, ack), ack, c.send_nxt)
                /\ Straight(TrimFront(rest, ack), ack, c.send_nxt)
                /\ SamePlaces(TrimFront(rest, ack), rest)
                /\ PayloadBytes(c.unacked)
                     = (PayloadBytes(gone) + trim) + PayloadBytes(TrimFront(rest, ack))
    <2>1. e = c.send_nxt
      <3>1. Len(rest) = 0
        <4>1. Len(<<>>) = 0
          OBVIOUS
        <4>2. QED BY <1>11, <4>1, Zenon
      <3>2. QED BY <1>6, <3>1 DEF Tiled
    <2>2. c.send_nxt = ack
      <3>1. CASE k = 0
        BY <1>1, <1>5, <1>7, <2>1, <3>1, BeforeOrAfter
      <3>2. CASE k # 0
        BY <1>7, <1>8, <2>1, <3>2 DEF BeforeOrEqual
      <3>3. QED BY <3>1, <3>2
    <2>3. TrimFront(rest, ack) = <<>>
      BY <1>11 DEF TrimFront
    <2>4. Tiled(<<>>, ack, c.send_nxt) /\ <<>> \in Seq(SoundSegment) /\ PayloadBytes(<<>>) = 0
      BY <2>2, TiledNone, PayloadSmall
    <2>5. trim = 0
      BY <1>11, <1>22, <1>23 DEF Trimmed
    <2>6. PayloadBytes(rest) = 0
      BY <1>11, <2>4, Zenon
    <2>7. PayloadBytes(c.unacked) = (PayloadBytes(gone) + 0) + 0
      BY <1>3, <2>6
    <2>8. Straight(TrimFront(rest, ack), ack, c.send_nxt)
      BY <2>3, StraightNone
    <2>9. SamePlaces(TrimFront(rest, ack), rest)
      <3>1. SamePlaces(<<>>, <<>>)
        BY DEF SamePlaces
      <3>2. QED BY <1>11, <2>3, <3>1, Zenon
    <2>10. QED BY ONLY <1>3, <2>3, <2>4, <2>5, <2>7, <2>8, <2>9
  <1>12. ASSUME rest # <<>>
         PROVE  /\ gone \in Seq(TrackedSegment) /\ PayloadBytes(gone) \in Nat /\ trim \in Nat
                /\ TrimFront(rest, ack) \in Seq(SoundSegment)
                /\ Tiled(TrimFront(rest, ack), ack, c.send_nxt)
                /\ Straight(TrimFront(rest, ack), ack, c.send_nxt)
                /\ SamePlaces(TrimFront(rest, ack), rest)
                /\ PayloadBytes(c.unacked)
                     = (PayloadBytes(gone) + trim) + PayloadBytes(TrimFront(rest, ack))
    <2>1. k < Len(c.unacked)
      <3>1. Len(rest) # 0
        BY <1>4, <1>12, EmptySeq
      <3>2. QED BY <1>2, <1>4, <3>1
    <2>2. ~BeforeOrEqual(TrackedEnd(rest[1]), ack)
      BY <1>1, <1>4, <1>20, <2>1, CoveredMost
    <2>3. /\ TrimFront(rest, ack) \in Seq(SoundSegment)
          /\ Tiled(TrimFront(rest, ack), ack, c.send_nxt)
          /\ PayloadBytes(TrimFront(rest, ack)) + TrimOf(Head(rest), ack) = PayloadBytes(rest)
          /\ TrimFront(rest, ack)[1].seq = ack
          /\ SamePlaces(TrimFront(rest, ack), rest)
      BY <1>4, <1>6, <1>9, <1>10, <1>12, <2>2, TrimFrontSound
    <2>4. trim = TrimOf(Head(rest), ack) /\ trim \in Nat
      <3>1. Head(rest) \in TrackedSegment
        BY <1>3, <1>12
      <3>2. QED BY <1>12, <1>22, <1>23, <3>1, TrimOfType DEF Trimmed
    <2>5. PayloadBytes(TrimFront(rest, ack)) \in Nat
      <3>1. TrimFront(rest, ack) \in Seq(TrackedSegment)
        BY <1>3, TrimFrontType
      <3>2. QED BY <3>1, PayloadCells
    <2>6. \A g, r, x, y \in Nat : x + y = r => g + r = (g + y) + x
      OBVIOUS
    <2>7. PayloadBytes(gone) + PayloadBytes(rest)
            = (PayloadBytes(gone) + trim) + PayloadBytes(TrimFront(rest, ack))
      <3>1. PayloadBytes(TrimFront(rest, ack)) + trim = PayloadBytes(rest)
        BY <2>3, <2>4, Zenon
      <3>2. QED BY <1>3, <2>4, <2>5, <2>6, <3>1
    <2>8. PayloadBytes(c.unacked)
            = (PayloadBytes(gone) + trim) + PayloadBytes(TrimFront(rest, ack))
      BY <1>3, <2>7, Zenon
    <2>9. Straight(TrimFront(rest, ack), ack, c.send_nxt)
      <3>1. PICK s : s = TrimFront(rest, ack)
        OBVIOUS
      <3>2. /\ s \in Seq(TrackedSegment) /\ s[1].seq = ack /\ Len(s) = Len(c.unacked) - k
            /\ \A i \in 1 .. Len(c.unacked) - k :
                 /\ TrackedEnd(s[i]) = TrackedEnd(c.unacked[k + i])
                 /\ i # 1 => s[i].seq = c.unacked[k + i].seq
        BY <1>3, <1>4, <2>3, <3>1, TrimFrontType DEF SamePlaces
      <3>3. k + 1 \in 1 .. Len(c.unacked) /\ 1 \in 1 .. Len(c.unacked) - k
        BY <1>2, <2>1
      <3>4. /\ Straight(c.unacked, c.send_una, c.send_nxt)
            /\ Distance(c.send_una, c.send_nxt) <= MaxWindow + 1
        BY SoundFields DEF Sender, FlightBounded
      <3>5. Distance(c.send_una, TrackedEnd(c.unacked[k + 1])) <= Distance(c.send_una, c.send_nxt)
        <4>1. Backs(c.unacked, c.send_una)[k + 1] <= Distance(c.send_una, c.send_nxt)
          BY <3>3, <3>4 DEF Straight
        <4>2. QED BY <3>3, <4>1 DEF Backs
      <3>6. /\ Distance(c.send_una, ack) <= Distance(c.send_una, c.send_nxt)
            /\ Distance(c.send_una, ack) < Distance(c.send_una, TrackedEnd(c.unacked[k + 1]))
        <4>1. TrackedEnd(c.unacked[k + 1]) \in SeqNumber
          BY <1>1, <3>3, PlacesAreWords
        <4>2. ~BeforeOrEqual(TrackedEnd(c.unacked[k + 1]), ack)
          BY <1>4, <2>1, <2>2
        <4>3. QED BY <1>1, <1>7, <3>4, <3>5, <4>1, <4>2, AckPlace
      <3>7. TrackedEnd(s[1]) = TrackedEnd(c.unacked[k + 1])
        BY <3>2, <3>3
      <3>8. Straight(s, ack, c.send_nxt)
        BY <1>1, <1>2, <3>2, <3>4, <3>6, <3>7, StraightRest
      <3>9. QED BY <3>1, <3>8
    <2>10. QED BY ONLY <1>3, <2>3, <2>4, <2>8, <2>9
  <1>13. /\ gone \in Seq(TrackedSegment) /\ PayloadBytes(gone) \in Nat /\ trim \in Nat
         /\ TrimFront(rest, ack) \in Seq(SoundSegment)
         /\ Tiled(TrimFront(rest, ack), ack, c.send_nxt)
         /\ Straight(TrimFront(rest, ack), ack, c.send_nxt)
         /\ SamePlaces(TrimFront(rest, ack), rest)
         /\ PayloadBytes(c.unacked)
              = (PayloadBytes(gone) + trim) + PayloadBytes(TrimFront(rest, ack))
    BY <1>11, <1>12
  <1>14. QED BY <1>13, <1>21, <1>22, <1>23, Zenon

\* apply_ack for an ACK that advances.
LEMMA ApplyNewAckSound ==
  ASSUME NEW c \in SoundConn, NEW ack \in SeqNumber, InSendInterval(c, ack), ack # c.send_una
  PROVE  ApplyNewAck(c, ack) \in SoundConn /\ ApplyNewAck(c, ack).state = c.state
  <1>1. PICK left : left = TrimFront(Rest(c, ack), ack)
    OBVIOUS
  <1>2. PICK bytes : bytes = PayloadBytes(Gone(c, ack)) + Trimmed(c, ack)
    OBVIOUS
  <1>7. /\ bytes \in Nat /\ left \in Seq(SoundSegment) /\ Tiled(left, ack, c.send_nxt)
        /\ Straight(left, ack, c.send_nxt)
        /\ PayloadBytes(c.unacked) = bytes + PayloadBytes(left)
    BY <1>1, <1>2, NewAckRest
  <1>8. PICK d : d = Acknowledge(c, ack, left, bytes)
    OBVIOUS
  <1>9. ApplyNewAck(c, ack) = d
    BY <1>1, <1>2, <1>8 DEF ApplyNewAck, AckSplit, Gone, Rest, Trimmed
  <1>10. c \in Conn /\ Sender(c) /\ Receiver(c) /\ Handshake(c)
    BY SoundFields
  <1>11. d \in Conn
    BY <1>9, <1>10, ApplyNewAckType
  <1>12. /\ d.unacked = left /\ d.send_una = ack /\ d.acked = c.acked + bytes
         /\ d.mss = c.mss /\ d.send_nxt = c.send_nxt /\ d.send_queue = c.send_queue
         /\ d.accepted = c.accepted
         /\ d.recv_nxt = c.recv_nxt /\ d.recv_queue = c.recv_queue
         /\ d.reassembly = c.reassembly /\ d.state = c.state
         /\ d.close_requested = c.close_requested
    BY <1>8, <1>10 DEF Acknowledge, Conn
  <1>13. Sender(d)
    <2>1. c.accepted = c.acked + PayloadBytes(c.unacked) + Len(c.send_queue)
      BY <1>10 DEF Sender
    <2>2. c.acked \in Nat /\ Len(c.send_queue) \in Nat /\ bytes \in Nat
      BY <1>7, <1>10 DEF Conn
    <2>3. PayloadBytes(left) \in Nat
      <3>1. left \in Seq(TrackedSegment)
        BY <1>7, <1>11, <1>12 DEF Conn
      <3>2. QED BY <3>1, PayloadCells
    <2>4. \A a, b, p, n \in Nat : a + (b + p) + n = (a + b) + p + n
      OBVIOUS
    <2>5. c.acked + (bytes + PayloadBytes(left)) + Len(c.send_queue)
            = (c.acked + bytes) + PayloadBytes(left) + Len(c.send_queue)
      BY <2>2, <2>3, <2>4
    <2>6. d.accepted = d.acked + PayloadBytes(d.unacked) + Len(d.send_queue)
      BY <1>7, <1>12, <2>1, <2>5
    <2>7. FlightBounded(left, ack, c.send_nxt)
      <3>1. /\ Distance(c.send_una, c.send_nxt) <= MaxWindow + 1
            /\ c.send_una \in SeqNumber /\ c.send_nxt \in SeqNumber
            /\ ~Before(ack, c.send_una) /\ ~Before(c.send_nxt, ack)
        BY <1>10 DEF Sender, FlightBounded, Conn, InSendInterval, InClosedInterval, After
      <3>2. Distance(c.send_una, ack) <= Distance(c.send_una, c.send_nxt)
        BY <3>1, AckPlace
      <3>3. Distance(ack, c.send_nxt) = Distance(c.send_una, c.send_nxt) - Distance(c.send_una, ack)
        BY <3>1, <3>2, OffsetSub
      <3>4. /\ Distance(c.send_una, c.send_nxt) \in Nat /\ Distance(c.send_una, ack) \in Nat
            /\ MaxWindow \in Nat
        BY <3>1, DistanceType, ConfigAssumption
      <3>5. Distance(c.send_una, ack) # 0
        BY <3>1, ModulusAssumption DEF Distance, SeqNumber
      <3>6. Distance(ack, c.send_nxt) <= MaxWindow /\ Distance(ack, c.send_nxt) <= MaxWindow + 1
        BY <3>1, <3>3, <3>4, <3>5
      <3>7. QED BY <3>6 DEF FlightBounded
    <2>8. QED BY <1>7, <1>10, <1>12, <2>6, <2>7 DEF Sender
  <1>14. Receiver(d)
    BY <1>11, <1>12, SameReceiver
  <1>15. Handshake(d)
    BY <1>10, <1>12 DEF Handshake
  <1>16. QED BY <1>9, <1>11, <1>12, <1>13, <1>14, <1>15 DEF SoundConn

\* apply_ack.
LEMMA ApplyAckSound ==
  ASSUME NEW c \in SoundConn, NEW ack \in SeqNumber, NEW candidate
  PROVE  /\ ApplyAck(c, ack, candidate) \in SoundUpdate
         /\ ApplyAck(c, ack, candidate).conn.state = c.state
  <1>1. Open(c, <<>>) \in SoundUpdate /\ Open(c, <<>>).conn = c
    BY NoSegments, OpenSound DEF Open
  <1>2. InSendInterval(c, ack) /\ ack # c.send_una
          => /\ Open(ApplyNewAck(c, ack), <<>>) \in SoundUpdate
             /\ Open(ApplyNewAck(c, ack), <<>>).conn.state = c.state
    <2>1. SUFFICES ASSUME InSendInterval(c, ack), ack # c.send_una
                   PROVE  /\ Open(ApplyNewAck(c, ack), <<>>) \in SoundUpdate
                          /\ Open(ApplyNewAck(c, ack), <<>>).conn.state = c.state
      OBVIOUS
    <2>2. ApplyNewAck(c, ack) \in SoundConn /\ ApplyNewAck(c, ack).state = c.state
      BY <2>1, ApplyNewAckSound
    <2>3. Open(ApplyNewAck(c, ack), <<>>).conn = ApplyNewAck(c, ack)
      BY DEF Open
    <2>4. QED BY <2>2, <2>3, NoSegments, OpenSound
  <1>3. QED BY <1>1, <1>2, ApplyDuplicateAckSound DEF ApplyAck

-----------------------------------------------------------------------------
(* The reassembly table                                                    *)

Sizes(T) == [r \in T |-> Len(r.data)]

\* The bytes of a part of the table.
BytesIn(T) == Cardinality(Cells(T, Sizes(T)))

\* The table is a finite set of chunks, and HeldBytes counts its bytes.
LEMMA HeldCells ==
  /\ \A T \in FiniteSubsets(ReassemblySegment) :
       /\ IsFiniteSet(T) /\ Sizes(T) \in [T -> Nat] /\ BytesIn(T) \in Nat
       /\ IsFiniteSet(Cells(T, Sizes(T)))
  /\ \A c \in Conn :
       /\ c.reassembly \in FiniteSubsets(ReassemblySegment)
       /\ HeldBytes(c) = BytesIn(c.reassembly)
  <1>1. ASSUME NEW T \in FiniteSubsets(ReassemblySegment)
        PROVE  /\ IsFiniteSet(T) /\ Sizes(T) \in [T -> Nat] /\ BytesIn(T) \in Nat
               /\ IsFiniteSet(Cells(T, Sizes(T)))
    <2>1. IsFiniteSet(T) /\ T \subseteq ReassemblySegment
      BY DEF FiniteSubsets
    <2>2. ASSUME NEW r \in T PROVE Len(r.data) \in Nat
      <3>1. r.data \in Seq(Byte)
        BY <2>1 DEF ReassemblySegment
      <3>2. QED BY <3>1
    <2>3. Sizes(T) \in [T -> Nat]
      BY <2>2 DEF Sizes
    <2>4. QED BY <2>1, <2>3, CellsFinite DEF BytesIn
  <1>2. ASSUME NEW c \in Conn
        PROVE  /\ c.reassembly \in FiniteSubsets(ReassemblySegment)
               /\ HeldBytes(c) = BytesIn(c.reassembly)
    <2>1. c.reassembly \in FiniteSubsets(ReassemblySegment)
      BY DEF Conn
    <2>2. UNION {{r} \X (1 .. Len(r.data)) : r \in c.reassembly}
            = Cells(c.reassembly, Sizes(c.reassembly))
      BY DEF Cells, Sizes
    <2>3. QED BY <2>1, <2>2 DEF HeldBytes, BytesIn
  <1>3. QED BY <1>1, <1>2

\* The bytes of two parts add up.
LEMMA BytesAdd ==
  ASSUME NEW I, NEW J, I \cup J \in FiniteSubsets(ReassemblySegment), I \cap J = {}
  PROVE  /\ BytesIn(I \cup J) = BytesIn(I) + BytesIn(J)
         /\ I \in FiniteSubsets(ReassemblySegment) /\ J \in FiniteSubsets(ReassemblySegment)
  <1>1. /\ IsFiniteSet(I \cup J) /\ I \cup J \subseteq ReassemblySegment
        /\ I \subseteq I \cup J /\ J \subseteq I \cup J
    BY DEF FiniteSubsets
  <1>2. IsFiniteSet(I) /\ IsFiniteSet(J)
    BY <1>1, FS_Subset
  <1>3. I \in FiniteSubsets(ReassemblySegment) /\ J \in FiniteSubsets(ReassemblySegment)
    BY <1>1, <1>2 DEF FiniteSubsets
  <1>4. Sizes(I \cup J) \in [I \cup J -> Nat]
    BY HeldCells
  <1>5. Cardinality(Cells(I \cup J, Sizes(I \cup J)))
          = Cardinality(Cells(I, Sizes(I \cup J))) + Cardinality(Cells(J, Sizes(I \cup J)))
    BY <1>2, <1>4, CellsAdd
  <1>6. Cells(I, Sizes(I \cup J)) = Cells(I, Sizes(I)) /\ Cells(J, Sizes(I \cup J)) = Cells(J, Sizes(J))
    BY DEF Cells, Sizes
  <1>7. QED BY <1>3, <1>5, <1>6 DEF BytesIn

\* The bytes of one chunk.
LEMMA BytesOfOne ==
  ASSUME NEW r \in ReassemblySegment
  PROVE  BytesIn({r}) = Len(r.data)
  <1>1. Sizes({r})[r] = Len(r.data)
    BY DEF Sizes
  <1>2. r.data \in Seq(Byte)
    BY DEF ReassemblySegment
  <1>3. Len(r.data) \in Nat
    BY <1>2
  <1>4. QED BY <1>1, <1>3, CellsOfOne DEF BytesIn

-----------------------------------------------------------------------------
(* Filing a chunk                                                          *)

\* A chunk that lies in the window and fits the buffer (insert_received).
LEMMA FileChunkSound ==
  ASSUME NEW c \in SoundConn, c.state # "SynSent", NEW chunk \in ReassemblySegment,
         Distance(c.recv_nxt, chunk.seq) + Len(chunk.data) <= ReceiveBuffer,
         Len(c.recv_queue) + HeldBytes(c) + Len(chunk.data) <= ReceiveBuffer
  PROVE  FileChunk(c, chunk) \in SoundConn /\ FileChunk(c, chunk).state = c.state
  <1>0. c \in Conn
    BY SoundFields
  <1>1. CASE \/ chunk.data = <<>> /\ ~chunk.fin
             \/ chunk \in c.reassembly
             \/ FileChunk(c, chunk) = c
    <2>1. ASSUME chunk \in c.reassembly PROVE Filed(c, chunk)
      BY <2>1 DEF Filed
    <2>2. FileChunk(c, chunk) = c
      BY <1>1, <2>1 DEF FileChunk
    <2>3. QED BY <2>2
  <1>2. CASE ~(chunk.data = <<>> /\ ~chunk.fin) /\ chunk \notin c.reassembly
             /\ FileChunk(c, chunk) # c
    <2>1. PICK d : d = FileChunk(c, chunk)
      OBVIOUS
    <2>2. d = [c EXCEPT !.reassembly = @ \cup {chunk}]
      BY <1>2, <2>1 DEF FileChunk
    <2>3. d \in Conn
      BY <1>0, <2>1, FileChunkType
    <2>4. /\ d.reassembly = c.reassembly \cup {chunk} /\ d.recv_queue = c.recv_queue
          /\ d.recv_nxt = c.recv_nxt /\ d.state = c.state
          /\ d.mss = c.mss /\ d.unacked = c.unacked /\ d.send_una = c.send_una
          /\ d.send_nxt = c.send_nxt /\ d.send_queue = c.send_queue
          /\ d.accepted = c.accepted /\ d.acked = c.acked
          /\ d.close_requested = c.close_requested
      BY <1>0, <2>2 DEF Conn
    <2>5. c.mss <= Mss /\ Receiver(c) /\ Handshake(c)
      BY SoundFields DEF Sender
    <2>6. Sender(d)
      BY <2>3, <2>4, <2>5, SameSender
    <2>7. HeldBytes(d) = HeldBytes(c) + Len(chunk.data)
      <3>1. c.reassembly \cup {chunk} \in FiniteSubsets(ReassemblySegment)
        BY <2>3, <2>4, HeldCells
      <3>2. c.reassembly \cap {chunk} = {}
        BY <1>2
      <3>3. BytesIn(c.reassembly \cup {chunk}) = BytesIn(c.reassembly) + BytesIn({chunk})
        BY <3>1, <3>2, BytesAdd
      <3>4. QED BY <1>0, <2>3, <2>4, <3>3, HeldCells, BytesOfOne
    <2>8. Len(d.recv_queue) + HeldBytes(d) <= ReceiveBuffer
      <3>1. Len(c.recv_queue) \in Nat /\ HeldBytes(c) \in Nat /\ Len(chunk.data) \in Nat
        <4>1. chunk.data \in Seq(Byte) /\ c.recv_queue \in Seq(Byte)
          BY <1>0 DEF ReassemblySegment, Conn
        <4>2. QED BY <1>0, <4>1, HeldBytesType
      <3>2. QED BY <2>4, <2>7, <3>1
    <2>9. ASSUME NEW r \in d.reassembly PROVE Filable(r, d.recv_nxt)
      <3>1. CASE r \in c.reassembly
        BY <2>4, <2>5, <3>1 DEF Receiver
      <3>2. CASE r = chunk
        <4>1. chunk.fin \in BOOLEAN
          BY DEF ReassemblySegment
        <4>2. QED BY <1>2, <2>4, <3>2, <4>1 DEF Filable
      <3>3. QED BY <2>4, <3>1, <3>2
    <2>10. Receiver(d)
      BY <2>4, <2>8, <2>9 DEF Receiver
    <2>11. Handshake(d)
      BY <2>4, <2>5 DEF Handshake
    <2>12. QED BY <2>1, <2>3, <2>4, <2>6, <2>10, <2>11 DEF SoundConn
  <1>3. QED BY <1>1, <1>2

\* What fit_window keeps lies in the window and fits the buffer.
LEMMA FitWindowSound ==
  ASSUME NEW c \in SoundConn, c.state # "SynSent", NEW start \in SeqNumber, NEW end,
         NEW data \in Seq(Byte), NEW fin \in BOOLEAN,
         Distance(c.recv_nxt, start) <= AvailableWindow(c)
  PROVE  /\ FileChunk(c, FitWindow(c, start, end, data, fin)) \in SoundConn
         /\ FileChunk(c, FitWindow(c, start, end, data, fin)).state = c.state
  <1>1. c \in Conn /\ c.recv_nxt \in SeqNumber /\ c.recv_queue \in Seq(Byte)
    BY SoundFields DEF Conn
  <1>2. PICK chunk : chunk = FitWindow(c, start, end, data, fin)
    OBVIOUS
  <1>3. chunk \in ReassemblySegment
    BY <1>1, <1>2, FitWindowType
  <1>4. PICK a : a = AvailableWindow(c)
    OBVIOUS
  <1>5. PICK d : d = Distance(c.recv_nxt, start)
    OBVIOUS
  <1>6. PICK held : held = Len(c.recv_queue) + HeldBytes(c)
    OBVIOUS
  <1>7. a \in Nat /\ d \in Nat /\ held \in Nat /\ d <= a /\ held <= ReceiveBuffer
    <2>1. HeldBytes(c) \in Nat /\ Len(c.recv_queue) \in Nat
      BY <1>1, HeldBytesType
    <2>2. QED BY <1>1, <1>4, <1>5, <1>6, <2>1, AvailableWindowType, DistanceType, SoundFields
              DEF Receiver
  <1>8. a + held = ReceiveBuffer
    BY <1>4, <1>6, <1>7, ConfigAssumption DEF AvailableWindow, SaturatingSub
  <1>9. PICK room : room = SaturatingSub(a, d)
    OBVIOUS
  <1>10. room \in Nat /\ room + d = a
    BY <1>7, <1>9 DEF SaturatingSub
  <1>11. PICK n : n = Smaller(Len(data), room)
    OBVIOUS
  <1>12. n \in 0 .. Len(data) /\ n <= room
    <2>1. Len(data) \in Nat
      OBVIOUS
    <2>2. QED BY <1>10, <1>11, <2>1 DEF Smaller
  <1>13. chunk.seq = start /\ chunk.data = SubSeq(data, 1, n)
    BY <1>2, <1>4, <1>5, <1>9, <1>11 DEF FitWindow
  <1>14. Len(chunk.data) = n
    BY <1>12, <1>13
  <1>15. d + n <= ReceiveBuffer /\ held + n <= ReceiveBuffer
    BY <1>7, <1>8, <1>10, <1>12, ConfigAssumption
  <1>16. QED BY <1>2, <1>3, <1>5, <1>6, <1>13, <1>14, <1>15, FileChunkSound

\* insert_received.
LEMMA InsertReceivedSound ==
  ASSUME NEW c \in SoundConn, c.state # "SynSent", NEW seq \in SeqNumber,
         NEW data \in Seq(Byte), NEW fin \in BOOLEAN
  PROVE  /\ InsertReceived(c, seq, data, fin) \in SoundConn
         /\ InsertReceived(c, seq, data, fin).state = c.state
  <1>1. c \in Conn /\ c.recv_nxt \in SeqNumber
    BY SoundFields DEF Conn
  <1>2. AvailableWindow(c) \in Nat
    BY <1>1, AvailableWindowType
  <1>3. CASE Before(seq, c.recv_nxt)
    <2>1. SubSeq(data, Distance(seq, c.recv_nxt) + 1, Len(data)) \in Seq(Byte)
      <3>1. Distance(seq, c.recv_nxt) + 1 \in Nat \ {0} /\ Len(data) \in Nat
        BY <1>1, DistanceType
      <3>2. QED BY <3>1, SubSeqType
    <2>2. Distance(c.recv_nxt, c.recv_nxt) <= AvailableWindow(c)
      BY <1>1, <1>2, BeforeOrAfter
    <2>3. QED BY <1>1, <1>3, <2>1, <2>2, FitWindowSound DEF InsertReceived
  <1>4. CASE ~Before(seq, c.recv_nxt)
             /\ ~(After(seq, c.recv_nxt) /\ Distance(c.recv_nxt, seq) >= AvailableWindow(c))
    <2>1. Distance(c.recv_nxt, seq) \in Nat
      BY <1>1, DistanceType
    <2>2. Distance(c.recv_nxt, seq) <= AvailableWindow(c)
      BY <1>1, <1>2, <1>4, <2>1, BeforeOrAfter DEF After
    <2>3. QED BY <1>4, <2>2, FitWindowSound DEF InsertReceived
  <1>5. CASE ~Before(seq, c.recv_nxt)
             /\ After(seq, c.recv_nxt) /\ Distance(c.recv_nxt, seq) >= AvailableWindow(c)
    BY <1>5 DEF InsertReceived
  <1>6. QED BY <1>3, <1>4, <1>5

-----------------------------------------------------------------------------
(* Draining the table                                                      *)

\* How far a chunk lies past recv_nxt, and how far it reaches.
Offset(c, r) == Distance(c.recv_nxt, r.seq)
Reach(c, r)  == Offset(c, r) + Len(r.data)

\* Distances between two places of the window.
LEMMA PlaceDistance ==
  ASSUME NEW seq \in SeqNumber, NEW m \in Nat, NEW n \in Nat, m < Modulus, n < Modulus
  PROVE  Distance(Plus(seq, n), Plus(seq, m)) = IF m >= n THEN m - n ELSE m - n + Modulus
  <1>1. /\ Plus(seq, m) = IF seq + m < Modulus THEN seq + m ELSE seq + m - Modulus
        /\ Plus(seq, n) = IF seq + n < Modulus THEN seq + n ELSE seq + n - Modulus
    BY PlusCases
  <1>2. PICK p : p = Plus(seq, m)
    OBVIOUS
  <1>3. PICK q : q = Plus(seq, n)
    OBVIOUS
  <1>4. Distance(q, p) = IF m >= n THEN m - n ELSE m - n + Modulus
    BY <1>1, <1>2, <1>3, ModulusAssumption DEF Distance, SeqNumber
  <1>5. QED BY <1>2, <1>3, <1>4

\* Places at most a window and a FIN away compare like their offsets.
LEMMA PlacesCompare ==
  ASSUME NEW seq \in SeqNumber, NEW m \in 0 .. MaxWindow + 1, NEW n \in 0 .. MaxWindow + 1
  PROVE  BeforeOrEqual(Plus(seq, m), Plus(seq, n)) <=> m <= n
  <1>1. /\ Distance(Plus(seq, n), Plus(seq, m)) = IF m >= n THEN m - n ELSE m - n + Modulus
        /\ m \in Nat /\ n \in Nat /\ MaxWindow \in Nat /\ Modulus \in Nat
        /\ 2 * MaxWindow + 2 < Modulus
    BY PlaceDistance, ConfigAssumption, ModulusAssumption
  <1>2. Before(Plus(seq, m), Plus(seq, n)) <=> m < n
    BY <1>1 DEF Before
  <1>3. m = n => Plus(seq, m) = Plus(seq, n)
    OBVIOUS
  <1>4. Plus(seq, m) = Plus(seq, n) => m = n
    <2>1. Plus(seq, n) \in SeqNumber
      BY <1>1, PlusType, SeqNumberIsNat
    <2>2. Distance(Plus(seq, n), Plus(seq, n)) = 0
      BY <2>1, BeforeOrAfter
    <2>3. QED BY <1>1, <2>2
  <1>5. QED BY <1>1, <1>2, <1>3, <1>4 DEF BeforeOrEqual

\* A chunk of a sound connection: its place, its bytes and its end.
LEMMA ChunkPlace ==
  ASSUME NEW c \in SoundConn, NEW r \in c.reassembly
  PROVE  /\ r \in ReassemblySegment /\ Len(r.data) \in Nat /\ r.fin \in BOOLEAN
         /\ Offset(c, r) \in Nat /\ Reach(c, r) \in 0 .. MaxWindow
         /\ Reach(c, r) = Offset(c, r) + Len(r.data) /\ Reach(c, r) <= ReceiveBuffer
         /\ r.seq = Place(c, Offset(c, r))
         /\ Plus(r.seq, Len(r.data)) = Place(c, Reach(c, r))
         /\ ReassemblyEnd(r) = Place(c, Reach(c, r) + Units(r.fin))
  <1>1. /\ c \in Conn /\ c.recv_nxt \in SeqNumber /\ r \in ReassemblySegment
        /\ r.seq \in SeqNumber /\ r.data \in Seq(Byte) /\ r.fin \in BOOLEAN
    BY SoundFields DEF Conn, FiniteSubsets, ReassemblySegment
  <1>2. Len(r.data) \in Nat /\ Offset(c, r) \in Nat
    BY <1>1, DistanceType DEF Offset
  <1>3. Offset(c, r) + Len(r.data) <= ReceiveBuffer
    BY SoundFields DEF Receiver, Filable, Offset
  <1>4. PICK o : o = Offset(c, r)
    OBVIOUS
  <1>5. PICK n : n = Len(r.data)
    OBVIOUS
  <1>6. /\ o \in Nat /\ n \in Nat /\ o + n <= ReceiveBuffer /\ o + n \in 0 .. MaxWindow
        /\ o + n + 1 < Modulus /\ ReceiveBuffer \in Nat
    BY <1>2, <1>3, <1>4, <1>5, ConfigAssumption, ModulusAssumption
  <1>7. r.seq = Plus(c.recv_nxt, o)
    BY <1>1, <1>4, PlusOfDistance DEF Offset
  <1>8. ASSUME NEW k \in Nat, o + k < Modulus
        PROVE  Plus(r.seq, k) = Plus(c.recv_nxt, o + k)
    BY <1>1, <1>6, <1>7, <1>8, PlusPlus
  <1>9. Plus(r.seq, n) = Plus(c.recv_nxt, o + n)
    BY <1>6, <1>8, ModulusAssumption
  <1>10. Plus(r.seq, n + Units(r.fin)) = Plus(c.recv_nxt, (o + n) + Units(r.fin))
    <2>1. PICK u : u = Units(r.fin)
      OBVIOUS
    <2>2. u \in 0 .. 1
      BY <2>1 DEF Units
    <2>3. n + u \in Nat /\ o + (n + u) < Modulus /\ o + (n + u) = (o + n) + u
      BY <1>6, <2>2, ModulusAssumption
    <2>4. QED BY <1>8, <2>1, <2>3
  <1>11. Reach(c, r) = o + n
    BY <1>4, <1>5 DEF Reach
  <1>12. QED BY <1>1, <1>2, <1>4, <1>5, <1>6, <1>7, <1>9, <1>10, <1>11
            DEF Place, ReassemblyEnd

\* A chunk holds the places from its offset to its reach.
LEMMA HoldsPlaces ==
  ASSUME NEW c \in SoundConn, NEW r \in c.reassembly, NEW o \in 0 .. MaxWindow
  PROVE  /\ Holds(r, Place(c, o)) <=> Offset(c, r) <= o /\ o < Reach(c, r)
         /\ Holds(r, Place(c, o)) => Distance(r.seq, Place(c, o)) = o - Offset(c, r)
  <1>1. PICK m : m = Offset(c, r)
    OBVIOUS
  <1>2. PICK n : n = Len(r.data)
    OBVIOUS
  <1>3. /\ m \in Nat /\ n \in Nat /\ m + n <= MaxWindow /\ Reach(c, r) = m + n
        /\ r.seq = Plus(c.recv_nxt, m) /\ c.recv_nxt \in SeqNumber
    <2>1. c.recv_nxt \in SeqNumber
      BY SoundFields DEF Conn
    <2>2. QED BY <1>1, <1>2, <2>1, ChunkPlace DEF Place
  <1>4. Modulus \in Nat /\ MaxWindow \in Nat /\ 2 * MaxWindow + 2 < Modulus
    BY ConfigAssumption, ModulusAssumption
  <1>5. Distance(r.seq, Place(c, o)) = IF o >= m THEN o - m ELSE o - m + Modulus
    <2>1. m < Modulus /\ o < Modulus /\ o \in Nat
      BY <1>3, <1>4
    <2>2. QED BY <1>3, <2>1, PlaceDistance DEF Place
  <1>6. QED BY <1>1, <1>2, <1>3, <1>4, <1>5 DEF Holds

\* Places held by a part of the table take as many of its bytes.
LEMMA PlacesFit ==
  ASSUME NEW c \in SoundConn, NEW T \in SUBSET c.reassembly, NEW n \in 0 .. MaxWindow + 1,
         \A o \in 0 .. n - 1 : \E r \in T : Holds(r, Place(c, o))
  PROVE  n <= BytesIn(T)
  <1>1. T \in FiniteSubsets(ReassemblySegment)
    <2>1. c.reassembly \in FiniteSubsets(ReassemblySegment)
      BY SoundFields, HeldCells
    <2>2. QED BY <2>1, FS_Subset DEF FiniteSubsets
  <1>2. n \in Nat
    BY ConfigAssumption
  <1> DEFINE at(k) == CHOOSE r \in T : Holds(r, Place(c, k - 1))
             g == [k \in 1 .. n |-> <<at(k), k - Offset(c, at(k))>>]
  <1>3. ASSUME NEW k \in 1 .. n
        PROVE  /\ at(k) \in T /\ at(k) \in c.reassembly /\ Offset(c, at(k)) \in Nat
               /\ k - Offset(c, at(k)) \in 1 .. Len(at(k).data)
    <2>1. k - 1 \in 0 .. n - 1 /\ k - 1 \in 0 .. MaxWindow
      BY <1>2, ConfigAssumption
    <2>2. PICK r : r = at(k)
      OBVIOUS
    <2>3. r \in T /\ r \in c.reassembly /\ Holds(r, Place(c, k - 1))
      BY <2>1, <2>2
    <2>4. /\ Offset(c, r) \in Nat /\ Len(r.data) \in Nat
          /\ Reach(c, r) = Offset(c, r) + Len(r.data)
          /\ Offset(c, r) <= k - 1 /\ k - 1 < Reach(c, r)
      BY <2>1, <2>3, ChunkPlace, HoldsPlaces
    <2>5. k - Offset(c, r) \in 1 .. Len(r.data)
      BY <1>2, <2>4
    <2>6. QED BY <2>2, <2>3, <2>4, <2>5
  <1> HIDE DEF at
  <1>4. g \in [1 .. n -> Cells(T, Sizes(T))]
    <2> SUFFICES ASSUME NEW k \in 1 .. n
                 PROVE  <<at(k), k - Offset(c, at(k))>> \in Cells(T, Sizes(T))
      OBVIOUS
    <2>1. Sizes(T)[at(k)] = Len(at(k).data)
      BY <1>3 DEF Sizes
    <2>2. QED BY <1>3, <2>1, CellIn
  <1>5. \A j, k \in 1 .. n : g[j] = g[k] => j = k
    <2> SUFFICES ASSUME NEW j \in 1 .. n, NEW k \in 1 .. n, g[j] = g[k] PROVE j = k
      OBVIOUS
    <2>1. at(j) = at(k) /\ j - Offset(c, at(j)) = k - Offset(c, at(k))
      OBVIOUS
    <2>2. Offset(c, at(j)) = Offset(c, at(k)) /\ Offset(c, at(k)) \in Nat
      BY <1>3, <2>1
    <2>3. QED BY <2>1, <2>2
  <1> HIDE DEF g
  <1>6. g \in Injection(1 .. n, Cells(T, Sizes(T)))
    BY <1>4, <1>5 DEF Injection, IsInjective
  <1>7. IsFiniteSet(1 .. n) /\ Cardinality(1 .. n) = n
    BY <1>2, PrefixIsFinite
  <1>8. IsFiniteSet(Cells(T, Sizes(T)))
    BY <1>1, HeldCells
  <1>9. Cardinality(1 .. n) <= Cardinality(Cells(T, Sizes(T)))
    BY <1>6, <1>8, FS_Injection
  <1>10. QED BY <1>7, <1>9 DEF BytesIn

\* The run ends where no chunk goes on.
LEMMA RunIsMaximal ==
  ASSUME NEW c \in SoundConn
  PROVE  /\ Run(c) \in 0 .. MaxWindow
         /\ \A r \in c.reassembly : ~Holds(r, Place(c, Run(c)))
  <1> DEFINE Held(o) == \E r \in c.reassembly : Holds(r, Place(c, o))
             N == HeldBytes(c)
             K == {n \in 1 .. N : \A o \in 0 .. n - 1 : Held(o)}
  <1>1. c \in Conn /\ N \in Nat /\ N <= MaxWindow
    <2>1. c \in Conn /\ Len(c.recv_queue) + HeldBytes(c) <= ReceiveBuffer
      BY SoundFields DEF Receiver
    <2>2. HeldBytes(c) \in Nat /\ Len(c.recv_queue) \in Nat
      BY <2>1, HeldBytesType DEF Conn
    <2>3. QED BY <2>1, <2>2, ConfigAssumption
  <1>2. PICK run : run = Run(c)
    OBVIOUS
  <1>3. run = Cardinality(K)
    BY <1>2 DEF Run
  <1>4. K \in SUBSET (1 .. N) /\ \A n \in K : 1 .. n \subseteq K
    <2> HIDE DEF Held, N
    <2>1. QED BY <1>1
  <1>5. run \in Nat /\ K = 1 .. run
    <2> HIDE DEF K, N
    <2>1. QED BY <1>1, <1>3, <1>4, DownwardClosed
  <1>6. run <= N
    <2>1. CASE run = 0
      BY <1>1, <2>1
    <2>2. CASE run # 0
      <3>1. run \in 1 .. run
        BY <1>5, <2>2
      <3>2. run \in 1 .. N
        BY <1>4, <1>5, <3>1
      <3>3. QED BY <3>2
    <2>3. QED BY <2>1, <2>2
  <1>7. ASSUME Held(run) PROVE FALSE
    <2>1. ASSUME NEW o \in 0 .. run PROVE Held(o)
      <3>1. CASE o = run
        BY <1>7, <3>1
      <3>2. CASE o # run
        <4>1. run \in K /\ o \in 0 .. run - 1
          <5> HIDE DEF K
          <5>1. QED BY <1>5, <2>1, <3>2
        <4>2. QED BY <4>1
      <3>3. QED BY <3>1, <3>2
    <2>2. run + 1 \in 0 .. MaxWindow + 1 /\ (run + 1) - 1 = run
      BY <1>1, <1>5, <1>6, ConfigAssumption
    <2>3. run + 1 <= BytesIn(c.reassembly)
      BY <2>1, <2>2, PlacesFit
    <2>4. run + 1 \in 1 .. N
      BY <1>1, <1>5, <2>3, HeldCells
    <2>5. run + 1 \in K
      <3> HIDE DEF Held, N
      <3>1. QED BY <2>1, <2>2, <2>4
    <2>6. QED
      <3> HIDE DEF K
      <3>1. QED BY <1>5, <2>5
  <1>8. run \in 0 .. MaxWindow
    BY <1>1, <1>5, <1>6, ConfigAssumption
  <1>9. QED BY <1>2, <1>7, <1>8

-----------------------------------------------------------------------------

\* What drain_reassembly keeps, and what it takes out.
Kept(c, next) == {r \in c.reassembly : ~BeforeOrEqual(ReassemblyEnd(r), next)}
Drained(c, next) == c.reassembly \ Kept(c, next)

\* A chunk that stays lies past what was taken in, and a chunk that goes made
\* room for it.
LEMMA DrainSplits ==
  ASSUME NEW c \in SoundConn, NEW run, run = Run(c), NEW fin, fin = FinAt(c, run),
         NEW next, next = Place(c, run + Units(fin))
  PROVE  /\ \A r \in Kept(c, next) : Offset(c, r) >= run + Units(fin)
         /\ run + BytesIn(Kept(c, next)) <= HeldBytes(c)
  <1>1. /\ run \in 0 .. MaxWindow /\ run \in Nat /\ c.recv_nxt \in SeqNumber /\ c \in Conn
        /\ \A r \in c.reassembly : ~Holds(r, Place(c, run))
        /\ \A o \in 0 .. run - 1 : \E r \in c.reassembly : Holds(r, Place(c, o))
    BY RunIsMaximal, RunType, SoundFields, ConfigAssumption DEF Conn
  <1>2. PICK u : u = Units(fin)
    OBVIOUS
  <1>3. u \in 0 .. 1 /\ (u = 1 <=> fin) /\ (u = 0 <=> ~fin)
    BY <1>2 DEF Units
  <1>4. ASSUME NEW r \in Kept(c, next) PROVE r \in c.reassembly /\ Offset(c, r) >= run + u
    <2>1. r \in c.reassembly /\ ~BeforeOrEqual(ReassemblyEnd(r), next)
      BY DEF Kept
    <2>2. PICK m : m = Offset(c, r)
      OBVIOUS
    <2>3. PICK n : n = Len(r.data)
      OBVIOUS
    <2>4. PICK v : v = Units(r.fin)
      OBVIOUS
    <2>5. /\ m \in Nat /\ n \in Nat /\ m + n <= MaxWindow /\ Reach(c, r) = m + n
          /\ v \in 0 .. 1 /\ (v = 1 <=> r.fin) /\ MaxWindow \in Nat
      <3>1. Offset(c, r) \in Nat /\ Len(r.data) \in Nat /\ Reach(c, r) = Offset(c, r) + Len(r.data)
            /\ Reach(c, r) \in 0 .. MaxWindow /\ r.fin \in BOOLEAN
        BY <2>1, ChunkPlace
      <3>2. QED BY <2>2, <2>3, <2>4, <3>1, ConfigAssumption DEF Units
    <2>6. ReassemblyEnd(r) = Place(c, m + n + v) /\ Plus(r.seq, n) = Place(c, m + n)
      BY <2>1, <2>2, <2>3, <2>4, <2>5, ChunkPlace
    <2>7. m + n + v > run + u
      <3>1. m + n + v \in 0 .. MaxWindow + 1 /\ run + u \in 0 .. MaxWindow + 1
        BY <1>1, <1>3, <2>5
      <3>2. ~(m + n + v <= run + u)
        BY <1>1, <1>2, <2>1, <2>6, <3>1, PlacesCompare DEF Place
      <3>3. QED BY <1>1, <1>3, <2>5, <3>2
    <2>8. ~(m <= run /\ run < m + n)
      BY <1>1, <2>1, <2>2, <2>5, HoldsPlaces
    <2>9. ASSUME m + n <= run PROVE FALSE
      <3>1. m + n = run /\ r.fin /\ u = 0
        BY <1>1, <1>3, <2>5, <2>7, <2>9
      <3>2. FinAt(c, run)
        BY <2>1, <2>3, <2>6, <3>1 DEF FinAt
      <3>3. QED BY <1>3, <3>1, <3>2
    <2>10. m >= run + u
      BY <1>1, <1>3, <2>5, <2>7, <2>8, <2>9
    <2>11. QED BY <2>1, <2>2, <2>10
  <1>5. run <= BytesIn(Drained(c, next))
    <2>1. ASSUME NEW o \in 0 .. run - 1 PROVE \E r \in Drained(c, next) : Holds(r, Place(c, o))
      <3>1. PICK r \in c.reassembly : Holds(r, Place(c, o))
        BY <1>1
      <3>2. o \in 0 .. MaxWindow /\ o \in Nat /\ o < run
        BY <1>1, ConfigAssumption
      <3>3. Offset(c, r) <= o /\ Offset(c, r) \in Nat
        BY <3>1, <3>2, HoldsPlaces, ChunkPlace
      <3>4. r \notin Kept(c, next)
        BY <1>1, <1>3, <1>4, <3>2, <3>3
      <3>5. QED BY <3>1, <3>4 DEF Drained
    <2>2. Drained(c, next) \in SUBSET c.reassembly /\ run \in 0 .. MaxWindow + 1
      BY <1>1, ConfigAssumption DEF Drained
    <2>3. QED BY <2>1, <2>2, PlacesFit
  <1>6. HeldBytes(c) = BytesIn(Kept(c, next)) + BytesIn(Drained(c, next))
        /\ BytesIn(Kept(c, next)) \in Nat /\ BytesIn(Drained(c, next)) \in Nat
    <2>1. Kept(c, next) \cup Drained(c, next) = c.reassembly
          /\ Kept(c, next) \cap Drained(c, next) = {}
      BY DEF Kept, Drained
    <2>2. c.reassembly \in FiniteSubsets(ReassemblySegment)
      BY <1>1, HeldCells
    <2>3. QED BY <1>1, <2>1, <2>2, BytesAdd, HeldCells
  <1>7. run + BytesIn(Kept(c, next)) <= HeldBytes(c)
    BY <1>1, <1>5, <1>6
  <1>8. QED BY <1>2, <1>4, <1>7

\* drain_reassembly.
LEMMA DrainReassemblySound ==
  ASSUME NEW c \in SoundConn, c.state # "SynSent"
  PROVE  /\ DrainReassembly(c) \in SoundConn
         /\ DrainReassembly(c).state # "SynSent"
         /\ DrainReassembly(c).state \in Opening => c.state \in Opening
  <1>1. PICK run : run = Run(c)
    OBVIOUS
  <1>2. PICK fin : fin = FinAt(c, run)
    OBVIOUS
  <1>3. PICK next : next = Place(c, run + Units(fin))
    OBVIOUS
  <1>4. PICK d : d = TakeIn(c, run, fin, next)
    OBVIOUS
  <1>5. DrainReassembly(c) = d
    BY <1>1, <1>2, <1>3, <1>4 DEF DrainReassembly, DrainRun, TakeRun
  <1>6. c \in Conn /\ c.mss <= Mss /\ Receiver(c) /\ Handshake(c) /\ c.recv_nxt \in SeqNumber
    BY SoundFields DEF Sender, Conn
  <1>7. d \in Conn
    BY <1>5, <1>6, DrainReassemblyType
  <1>8. PICK taken : taken = [i \in 1 .. run |-> ByteAt(c, i - 1)]
    OBVIOUS
  <1>9. /\ d.recv_queue = c.recv_queue \o taken
        /\ d.recv_nxt = next /\ d.reassembly = Kept(c, next)
        /\ d.state = (IF fin THEN AfterRemoteFin(c.state) ELSE c.state)
        /\ d.mss = c.mss /\ d.unacked = c.unacked /\ d.send_una = c.send_una
        /\ d.send_nxt = c.send_nxt /\ d.send_queue = c.send_queue
        /\ d.accepted = c.accepted /\ d.acked = c.acked
        /\ d.close_requested = c.close_requested
    BY <1>4, <1>6, <1>8 DEF TakeIn, Conn, Kept
  <1>10. /\ run \in Nat /\ run \in 0 .. MaxWindow
         /\ \A o \in 0 .. run - 1 : \E r \in c.reassembly : Holds(r, Place(c, o))
    BY <1>1, <1>6, RunType, RunIsMaximal
  <1>11. Len(d.recv_queue) = Len(c.recv_queue) + run /\ Len(c.recv_queue) \in Nat
    <2>1. taken \in Seq(Byte) /\ Len(taken) = run
      <3>1. \A i \in 1 .. run : ByteAt(c, i - 1) \in Byte
        BY <1>6, <1>10, ByteAtType
      <3>2. QED BY <1>8, <1>10, <3>1
    <2>2. c.recv_queue \in Seq(Byte)
      BY <1>6 DEF Conn
    <2>3. \A p, q \in Seq(Byte) : Len(p \o q) = Len(p) + Len(q) /\ Len(p) \in Nat
      OBVIOUS
    <2>4. Len(c.recv_queue \o taken) = Len(c.recv_queue) + Len(taken) /\ Len(c.recv_queue) \in Nat
      BY <2>1, <2>2, <2>3
    <2>5. QED BY <1>9, <2>1, <2>4
  <1>12. /\ \A r \in Kept(c, next) : Offset(c, r) >= run + Units(fin)
         /\ run + BytesIn(Kept(c, next)) <= HeldBytes(c)
    BY <1>1, <1>2, <1>3, DrainSplits
  <1>13. HeldBytes(d) = BytesIn(Kept(c, next)) /\ HeldBytes(d) \in Nat /\ HeldBytes(c) \in Nat
    BY <1>6, <1>7, <1>9, HeldCells
  <1>14. Len(d.recv_queue) + HeldBytes(d) <= ReceiveBuffer
    BY <1>6, <1>10, <1>11, <1>12, <1>13, ConfigAssumption DEF Receiver
  <1>15. ASSUME NEW r \in d.reassembly PROVE Filable(r, d.recv_nxt)
    <2>1. r \in c.reassembly /\ r \in Kept(c, next)
      BY <1>9 DEF Kept
    <2>2. PICK m : m = Offset(c, r)
      OBVIOUS
    <2>3. PICK k : k = run + Units(fin)
      OBVIOUS
    <2>4. m \in Nat /\ k \in Nat /\ k <= m /\ m <= MaxWindow /\ m < Modulus
          /\ m + Len(r.data) <= ReceiveBuffer /\ Len(r.data) \in Nat
          /\ r.seq = Place(c, m)
      <3>1. k \in Nat
        BY <1>10, <2>3 DEF Units
      <3>2. /\ Offset(c, r) \in Nat /\ Len(r.data) \in Nat
            /\ Reach(c, r) \in 0 .. MaxWindow /\ Reach(c, r) = Offset(c, r) + Len(r.data)
            /\ Reach(c, r) <= ReceiveBuffer /\ r.seq = Place(c, Offset(c, r))
        BY <2>1, ChunkPlace
      <3>3. Offset(c, r) >= k
        BY <1>12, <2>1, <2>3
      <3>4. QED BY <2>2, <3>1, <3>2, <3>3, ConfigAssumption, ModulusAssumption
    <2>5. Distance(next, r.seq) = m - k
      <3>1. next = Plus(c.recv_nxt, k) /\ r.seq = Plus(c.recv_nxt, m) /\ k < Modulus
        BY <1>3, <2>3, <2>4, ModulusAssumption DEF Place
      <3>2. Distance(Plus(c.recv_nxt, k), Plus(c.recv_nxt, m))
              = IF m >= k THEN m - k ELSE m - k + Modulus
        BY <1>6, <2>4, <3>1, PlaceDistance
      <3>3. m >= k
        BY <2>4
      <3>4. QED BY <3>1, <3>2, <3>3
    <2>6. Distance(next, r.seq) + Len(r.data) <= ReceiveBuffer
      BY <2>4, <2>5, ConfigAssumption
    <2>7. r.data # <<>> \/ r.fin
      BY <1>6, <2>1 DEF Receiver, Filable
    <2>8. QED BY <1>9, <2>6, <2>7 DEF Filable
  <1>16. d.state # "SynSent" /\ (d.state \in Opening => c.state \in Opening)
    BY <1>6, <1>9 DEF AfterRemoteFin, Opening
  <1>17. Sender(d)
    BY <1>6, <1>7, <1>9, SameSender
  <1>18. Receiver(d)
    BY <1>14, <1>15, <1>16 DEF Receiver
  <1>19. Handshake(d)
    BY <1>6, <1>9, <1>16 DEF Handshake
  <1>20. QED BY <1>5, <1>7, <1>16, <1>17, <1>18, <1>19 DEF SoundConn

-----------------------------------------------------------------------------
(* What a method leaves behind                                             *)

\* An update after which the connection is sound, and is removed or has
\* nothing sendable left.
Settled == {u \in SoundUpdate : u.closed \/ Idle(u.conn)}

\* A settled update is a sound one.
LEMMA SettledFields ==
  \A u \in Settled : /\ u \in SoundUpdate /\ u \in Update /\ u.conn \in SoundConn
                     /\ u.conn \in Conn /\ (u.closed \/ Idle(u.conn))
  BY SoundFields DEF Settled

\* flush_data settles, and so does a method that ends in it.
LEMMA FlushSettles ==
  /\ \A c \in SoundConn : FlushData(c) \in Settled
  /\ \A u \in SoundUpdate : AndFlush(u) \in Settled
  BY FlushDataSound, AndFlushSound DEF Settled

\* A connection that has nothing sendable, and one that is removed.
LEMMA OpenSettled ==
  ASSUME NEW c \in SoundConn, NEW segments \in Seq(Segment)
  PROVE  /\ Idle(c) => Open(c, segments) \in Settled
         /\ Closed(c, segments) \in Settled
  <1>1. Open(c, segments) \in SoundUpdate /\ Closed(c, segments) \in SoundUpdate
    BY OpenSound
  <1>2. Open(c, segments).conn = c /\ Closed(c, segments).closed
    BY DEF Open, Closed
  <1>3. QED BY <1>1, <1>2 DEF Settled

\* What counts as sendable depends on the send side alone.
LEMMA SameIdle ==
  ASSUME NEW c, Idle(c), NEW d, d.state = c.state, d.remote_window = c.remote_window,
         d.reno = c.reno, d.mss = c.mss, d.send_una = c.send_una, d.send_nxt = c.send_nxt,
         d.send_queue = c.send_queue, d.close_requested = c.close_requested
  PROVE  Idle(d)
  <1>1. SendAllowance(d) = SendAllowance(c)
    BY DEF SendAllowance, InFlight
  <1>2. QED BY <1>1 DEF Idle

\* Nothing is sendable into a shut window.
LEMMA ShutIdle ==
  ASSUME NEW c \in Conn, c.remote_window = 0
  PROVE  Idle(c)
  <1>1. Window(c.reno, c.mss) \in Nat
    BY LargerType DEF Window, Conn, Controller
  <1>2. PICK w : w = Smaller(0, Window(c.reno, c.mss))
    OBVIOUS
  <1>3. w = 0
    BY <1>1, <1>2 DEF Smaller
  <1>4. PICK f : f = InFlight(c)
    OBVIOUS
  <1>5. f \in Nat
    BY <1>4, InFlightType
  <1>6. SendAllowance(c) = SaturatingSub(w, f)
    BY <1>2, <1>4 DEF SendAllowance
  <1>7. SendAllowance(c) = 0
    BY <1>3, <1>5, <1>6 DEF SaturatingSub
  <1>8. QED BY <1>7 DEF Idle

\* Nor before or after the two states that send data.
LEMMA StateIdle ==
  ASSUME NEW c, c.state \notin {"Established", "CloseWait"}
  PROVE  Idle(c)
  BY DEF Idle

-----------------------------------------------------------------------------
(* receive_stream_data                                                     *)

\* receive_stream_data.
LEMMA ReceiveStreamDataSound ==
  ASSUME NEW c \in SoundConn, c.state # "SynSent", NEW seg \in Segment
  PROVE  ReceiveStreamData(c, seg) \in SoundUpdate
  <1>1. seg.seq \in SeqNumber /\ seg.data \in Seq(Byte)
    BY DEF Segment
  <1> DEFINE d == InsertReceived(c, seg.seq, seg.data, "FIN" \in seg.flags)
  <1>2. d \in SoundConn /\ d.state # "SynSent"
    <2>1. ("FIN" \in seg.flags) \in BOOLEAN
      OBVIOUS
    <2>2. QED BY <1>1, <2>1, InsertReceivedSound
  <1> HIDE DEF d
  <1>3. AndAcknowledge(DrainReassembly(d)) \in SoundUpdate
    BY <1>2, DrainReassemblySound, AndAcknowledgeSound
  <1>4. QED BY <1>3, NoSegments, OpenSound DEF ReceiveStreamData, d

\* A method followed by receive_stream_data.
LEMMA AndReceiveSound ==
  ASSUME NEW u \in SoundUpdate, u.conn.state # "SynSent", NEW seg \in Segment
  PROVE  AndReceive(u, seg) \in SoundUpdate
  BY SoundFields, ReceiveStreamDataSound, ThenSound DEF AndReceive

-----------------------------------------------------------------------------
(* on_segment                                                              *)

\* A connection that moves on to another state keeps its books.
LEMMA InStateSound ==
  ASSUME NEW c \in SoundConn, NEW state \in State \ Opening
  PROVE  /\ [c EXCEPT !.state = state] \in SoundConn
         /\ [c EXCEPT !.state = state].state = state
  <1>1. c \in Conn /\ c.mss <= Mss
    BY SoundFields DEF Sender
  <1>2. PICK d : d = [c EXCEPT !.state = state]
    OBVIOUS
  <1>3. /\ d \in Conn /\ d.mss = c.mss /\ d.unacked = c.unacked /\ d.send_una = c.send_una
        /\ d.send_nxt = c.send_nxt /\ d.send_queue = c.send_queue
        /\ d.accepted = c.accepted /\ d.acked = c.acked
        /\ d.recv_nxt = c.recv_nxt /\ d.recv_queue = c.recv_queue
        /\ d.reassembly = c.reassembly /\ d.close_requested = c.close_requested
        /\ d.state = state
    BY <1>1, <1>2 DEF Conn
  <1>4. d \in SoundConn
    BY <1>1, <1>3, SameSound
  <1>5. QED BY <1>2, <1>3, <1>4

\* A client learns recv_nxt while its table is empty.
LEMMA EstablishedSound ==
  ASSUME NEW c \in SoundConn, c.state = "SynSent", NEW recv_nxt \in SeqNumber,
         NEW d, d = [c EXCEPT !.recv_nxt = recv_nxt, !.state = "Established"]
  PROVE  d \in SoundConn /\ Idle(d)
  <1>1. c \in Conn /\ c.mss <= Mss /\ Receiver(c) /\ Handshake(c)
    BY SoundFields DEF Sender
  <1>2. /\ d \in Conn /\ d.mss = c.mss /\ d.unacked = c.unacked /\ d.send_una = c.send_una
        /\ d.send_nxt = c.send_nxt /\ d.send_queue = c.send_queue
        /\ d.accepted = c.accepted /\ d.acked = c.acked
        /\ d.recv_queue = c.recv_queue /\ d.reassembly = c.reassembly
        /\ d.close_requested = c.close_requested /\ d.state = "Established"
    BY <1>1 DEF Conn, State
  <1>3. Sender(d)
    BY <1>1, <1>2, SameSender
  <1>4. Receiver(d)
    <2>1. HeldBytes(d) = HeldBytes(c)
      BY <1>2 DEF HeldBytes
    <2>2. QED BY <1>1, <1>2, <2>1 DEF Receiver
  <1>5. Handshake(d) /\ Idle(d)
    BY <1>1, <1>2 DEF Handshake, Opening, Idle
  <1>6. QED BY <1>2, <1>3, <1>4, <1>5 DEF SoundConn

\* on_reset.
LEMMA OnResetSettled ==
  ASSUME NEW c \in SoundConn, Idle(c), NEW seg \in Segment
  PROVE  OnReset(c, seg) \in Settled
  BY SoundFields, AckSegmentType, NoSegments, OneSegment, OpenSettled DEF OnReset

\* on_segment in SYN-SENT.
LEMMA OnSegmentSynSentSettled ==
  ASSUME NEW c \in SoundConn, c.state = "SynSent", NEW seg \in Segment
  PROVE  OnSegmentSynSent(c, seg) \in Settled
  <1>1. seg.window \in WindowSize /\ seg.seq \in SeqNumber /\ c.send_nxt \in SeqNumber
    BY SoundFields DEF Segment, Conn
  <1>2. PICK d : d = NegotiateMss(UpdateRemoteWindow(c, seg.window), seg)
    OBVIOUS
  <1>3. d \in SoundConn /\ d.state = "SynSent"
    BY <1>1, <1>2, UpdateRemoteWindowSound, NegotiateMssSound
  <1>4. PICK e : e = ApplyAck(d, c.send_nxt, FALSE).conn
    OBVIOUS
  <1>5. e \in SoundConn /\ e.state = "SynSent"
    BY <1>1, <1>3, <1>4, ApplyAckSound, SoundFields
  <1>6. PICK next : next = Plus(seg.seq, 1)
    OBVIOUS
  <1>7. next \in SeqNumber
    BY <1>1, <1>6, SeqNumberIsNat, PlusType
  <1>8. PICK f : f = [e EXCEPT !.recv_nxt = next, !.state = "Established"]
    OBVIOUS
  <1>9. f \in SoundConn /\ Idle(f)
    BY <1>5, <1>7, <1>8, EstablishedSound
  <1>10. AndAcknowledge(f) \in Settled
    BY <1>9, AndAcknowledgeSound DEF Settled
  <1>11. Open(c, <<>>) \in Settled
    BY NoSegments, OpenSettled, StateIdle
  <1>12. QED BY <1>2, <1>4, <1>6, <1>8, <1>10, <1>11 DEF OnSegmentSynSent

\* on_segment for the ACK of the SYN-ACK.
LEMMA OnHandshakeAckSettled ==
  ASSUME NEW c \in SoundConn, NEW seg \in Segment
  PROVE  OnHandshakeAck(c, seg) \in Settled
  <1>1. seg.window \in WindowSize /\ c.send_nxt \in SeqNumber
    BY SoundFields DEF Segment, Conn
  <1>2. PICK e : e = UpdateRemoteWindow(ApplyAck(c, c.send_nxt, FALSE).conn, seg.window)
    OBVIOUS
  <1>3. e \in SoundConn
    BY <1>1, <1>2, ApplyAckSound, SoundFields, UpdateRemoteWindowSound
  <1>4. PICK f : f = [e EXCEPT !.state = "Established"]
    OBVIOUS
  <1>5. f \in SoundConn /\ f.state # "SynSent"
    <2>1. "Established" \in State \ Opening
      BY DEF State, Opening
    <2>2. QED BY <1>3, <1>4, <2>1, InStateSound
  <1>6. AndFlush(ReceiveStreamData(f, seg)) \in Settled
    BY <1>5, ReceiveStreamDataSound, FlushSettles
  <1>7. QED BY <1>2, <1>4, <1>6 DEF OnHandshakeAck

\* on_segment in SYN-RECEIVED.
LEMMA OnSegmentSynReceivedSettled ==
  ASSUME NEW c \in SoundConn, c.state = "SynReceived", NEW seg \in Segment
  PROVE  OnSegmentSynReceived(c, seg) \in Settled
  <1>1. [OnHandshakeAck(c, seg) EXCEPT !.accepted = TRUE] \in Settled
    <2>1. PICK u : u = OnHandshakeAck(c, seg)
      OBVIOUS
    <2>2. u \in Update /\ u.conn \in SoundConn /\ (u.closed \/ Idle(u.conn))
      BY <2>1, OnHandshakeAckSettled, SettledFields
    <2>3. PICK v : v = [u EXCEPT !.accepted = TRUE]
      OBVIOUS
    <2>4. v \in Update /\ v.conn = u.conn /\ v.closed = u.closed
      BY <2>2, <2>3 DEF Update
    <2>5. v \in Settled
      BY <2>2, <2>4 DEF SoundUpdate, Settled
    <2>6. QED BY <2>1, <2>3, <2>5
  <1>2. RetransmitOldest(c, FALSE) \in Settled
    <2>1. RetransmitOldest(c, FALSE) \in SoundUpdate
          /\ RetransmitOldest(c, FALSE).conn.state = "SynReceived"
      BY RetransmitOldestSound
    <2>2. QED BY <2>1, StateIdle DEF Settled
  <1>3. Open(c, <<>>) \in Settled
    BY NoSegments, OpenSettled, StateIdle
  <1>4. QED BY <1>1, <1>2, <1>3 DEF OnSegmentSynReceived

\* An acknowledged FIN changes the state only, and to none of the handshake's.
LEMMA NoteFinAckedSound ==
  ASSUME NEW c \in SoundConn, c.state \notin Opening, NEW fin \in BOOLEAN
  PROVE  NoteFinAcked(c, fin) \in SoundConn /\ NoteFinAcked(c, fin).state \notin Opening
  <1>1. c \in Conn
    BY SoundFields
  <1>2. PICK state : state = IF fin THEN AfterFinAcked(c.state) ELSE c.state
    OBVIOUS
  <1>3. state \in State \ Opening
    BY <1>1, <1>2 DEF AfterFinAcked, State, Opening, Conn
  <1>4. NoteFinAcked(c, fin) = [c EXCEPT !.state = state]
    BY <1>1, <1>2 DEF NoteFinAcked
  <1>5. QED BY <1>3, <1>4, InStateSound

\* The window an acceptable ACK advertises.
LEMMA NoteWindowSound ==
  ASSUME NEW c \in SoundConn, NEW seg \in Segment
  PROVE  NoteWindow(c, seg) \in SoundConn /\ NoteWindow(c, seg).state = c.state
  <1>1. seg.window \in WindowSize
    BY DEF Segment
  <1>2. QED BY <1>1, UpdateRemoteWindowSound DEF NoteWindow

\* An ACK that advances, followed by the repair of the next hole.
LEMMA AndRepairSound ==
  ASSUME NEW u \in SoundUpdate, u.conn.state \notin Opening, NEW c, NEW seg \in Segment
  PROVE  AndRepair(u, c, seg) \in SoundUpdate /\ AndRepair(u, c, seg).conn.state \notin Opening
  <1>1. PICK d : d = NoteWindow(NoteFinAcked(u.conn, FinAcked(c, seg)), seg)
    OBVIOUS
  <1>2. d \in SoundConn /\ d.state \notin Opening
    <2>1. FinAcked(c, seg) \in BOOLEAN
      BY DEF FinAcked
    <2>2. QED BY <1>1, <2>1, SoundFields, NoteFinAckedSound, NoteWindowSound
  <1>3. RepairTimedOutFlight(d) \in SoundUpdate /\ RepairTimedOutFlight(d).conn.state = d.state
    BY <1>2, RetransmitOldestSound, NoSegments, OpenSound DEF RepairTimedOutFlight, Open
  <1>4. Open(d, <<>>) \in SoundUpdate /\ Open(d, <<>>).conn.state = d.state
    BY <1>2, NoSegments, OpenSound DEF Open
  <1>5. u \in Update
    BY SoundFields
  <1>6. QED BY <1>1, <1>2, <1>3, <1>4, <1>5, ThenSound DEF AndRepair

\* The acknowledgement half of on_segment.
LEMMA OnAckSound ==
  ASSUME NEW c \in SoundConn, c.state \notin Opening, NEW seg \in Segment, seg.ack # None
  PROVE  OnAck(c, seg) \in SoundUpdate /\ OnAck(c, seg).conn.state \notin Opening
  <1>1. seg.ack \in SeqNumber
    BY DEF Segment
  <1>2. PICK u : u = ApplyAck(c, seg.ack,
                              IsDuplicateAckCandidate(seg, c.send_una, c.remote_window))
    OBVIOUS
  <1>3. u \in SoundUpdate /\ u.conn.state \notin Opening
    BY <1>1, <1>2, ApplyAckSound
  <1>4. u.conn \in SoundConn /\ u.segments \in Seq(Segment)
    BY <1>3, SoundFields DEF Update
  <1>5. Closed(u.conn, u.segments) \in SoundUpdate
        /\ Closed(u.conn, u.segments).conn.state \notin Opening
    BY <1>3, <1>4, OpenSound DEF Closed
  <1>6. OnApplied(c, seg, u) \in SoundUpdate /\ OnApplied(c, seg, u).conn.state \notin Opening
    BY <1>3, <1>5, AndRepairSound DEF OnApplied
  <1>7. QED BY <1>2, <1>6 DEF OnAck

\* on_segment in a synchronized state.
LEMMA OnSegmentSynchronizedSettled ==
  ASSUME NEW c \in SoundConn, c.state \notin Opening, NEW seg \in Segment
  PROVE  OnSegmentSynchronized(c, seg) \in Settled
  <1>1. PICK u : u = IF seg.ack = None THEN Open(c, <<>>) ELSE OnAck(c, seg)
    OBVIOUS
  <1>2. u \in SoundUpdate /\ u.conn.state \notin Opening
    <2>1. Open(c, <<>>) \in SoundUpdate /\ Open(c, <<>>).conn.state = c.state
      BY NoSegments, OpenSound DEF Open
    <2>2. QED BY <1>1, <2>1, OnAckSound
  <1>3. u.closed => u \in Settled
    BY <1>2 DEF Settled
  <1>4. AndReceive(u, seg) \in SoundUpdate
    BY <1>2, AndReceiveSound DEF Opening
  <1>5. Continue(u, seg) \in Settled
    BY <1>3, <1>4, FlushSettles DEF Continue
  <1>6. QED BY <1>1, <1>5 DEF OnSegmentSynchronized

\* on_segment.
LEMMA OnSegmentSettled ==
  ASSUME NEW c \in SoundConn, Idle(c), NEW seg \in Segment
  PROVE  OnSegment(c, seg) \in Settled
  <1>1. CASE "RST" \in seg.flags
    BY <1>1, OnResetSettled DEF OnSegment
  <1>2. CASE "RST" \notin seg.flags /\ c.state = "SynSent"
    BY <1>2, OnSegmentSynSentSettled DEF OnSegment
  <1>3. CASE "RST" \notin seg.flags /\ c.state = "SynReceived"
    BY <1>3, OnSegmentSynReceivedSettled DEF OnSegment
  <1>4. CASE "RST" \notin seg.flags /\ c.state \notin Opening
    BY <1>4, OnSegmentSynchronizedSettled DEF OnSegment, Opening
  <1>5. QED BY <1>1, <1>2, <1>3, <1>4 DEF Opening

\* Stack::input for a known tuple.
LEMMA InputKnownSettled ==
  ASSUME NEW c \in SoundConn, Idle(c), NEW seg \in Segment
  PROVE  InputKnown(c, seg) \in Settled
  <1>1. <<ResetFor(seg)>> \in Seq(Segment) /\ <<AckSegment(c)>> \in Seq(Segment)
    BY SoundFields, ResetForType, AckSegmentType, OneSegment
  <1>2. QED BY <1>1, OpenSettled, OnSegmentSettled DEF InputKnown

-----------------------------------------------------------------------------
(* Application calls and timers                                            *)

\* write moves bytes into the queue and counts them.
LEMMA AcceptSound ==
  ASSUME NEW c \in SoundConn, Writable(c), NEW data \in Seq(Byte),
         NEW n, n = WriteAccepts(c, Len(data))
  PROVE  Accept(c, data, n) \in SoundConn /\ n \in Nat
  <1>2. c \in Conn /\ Sender(c) /\ Len(data) \in Nat
    BY SoundFields
  <1>3. n \in Nat /\ n <= Len(data)
    BY <1>2, WriteAcceptsType
  <1>4. PICK more : more = SubSeq(data, 1, n)
    OBVIOUS
  <1>5. more \in Seq(Byte) /\ Len(more) = n
    BY <1>3, <1>4
  <1>6. PICK q : q = c.send_queue \o more
    OBVIOUS
  <1>7. q \in Seq(Byte) /\ Len(q) = Len(c.send_queue) + n /\ Len(c.send_queue) \in Nat
    <2>1. \A a, b \in Seq(Byte) : /\ a \o b \in Seq(Byte) /\ Len(a) \in Nat
                                  /\ Len(a \o b) = Len(a) + Len(b)
      OBVIOUS
    <2>2. c.send_queue \in Seq(Byte)
      BY <1>2 DEF Conn
    <2>3. QED BY <1>5, <1>6, <2>1, <2>2
  <1>8. PICK d : d = Accept(c, data, n)
    OBVIOUS
  <1>9. /\ d \in Conn /\ d.send_queue = q /\ d.accepted = c.accepted + n
        /\ d.mss = c.mss /\ d.unacked = c.unacked /\ d.send_una = c.send_una
        /\ d.send_nxt = c.send_nxt /\ d.acked = c.acked /\ d.recv_nxt = c.recv_nxt
        /\ d.recv_queue = c.recv_queue /\ d.reassembly = c.reassembly /\ d.state = c.state
    <2>1. d = [c EXCEPT !.send_queue = q, !.accepted = c.accepted + n]
      BY <1>4, <1>6, <1>8, Zenon DEF Accept
    <2>2. c.accepted + n \in Nat
      BY <1>2, <1>3 DEF Conn
    <2>3. QED BY <1>2, <1>7, <2>1, <2>2 DEF Conn
  <1>10. Sender(d)
    <2>1. PayloadBytes(c.unacked) \in Nat /\ c.acked \in Nat
      BY <1>2, PayloadCells DEF Conn
    <2>2. \A a, p, k \in Nat : (a + p + k) + n = a + p + (k + n)
      BY <1>3
    <2>3. (c.acked + PayloadBytes(c.unacked) + Len(c.send_queue)) + n
            = c.acked + PayloadBytes(c.unacked) + (Len(c.send_queue) + n)
      BY <1>7, <2>1, <2>2
    <2>4. QED BY <1>2, <1>7, <1>9, <2>3 DEF Sender
  <1>11. Receiver(d)
    BY <1>9, SameReceiver
  <1>12. Handshake(d)
    BY <1>9 DEF Handshake, Writable, Opening
  <1>13. d \in SoundConn
    BY <1>9, <1>10, <1>11, <1>12 DEF SoundConn
  <1>14. QED BY <1>3, <1>8, <1>13

LEMMA WriteSettled ==
  ASSUME NEW c \in SoundConn, Writable(c), NEW data \in Seq(Byte)
  PROVE  Write(c, data) \in Settled
  <1>1. Accept(c, data, WriteAccepts(c, Len(data))) \in SoundConn
    BY AcceptSound
  <1>2. QED BY <1>1, FlushSettles DEF Write

\* read only makes room.
LEMMA ReadSettled ==
  ASSUME NEW c \in SoundConn, Idle(c), NEW max \in Nat
  PROVE  Read(c, max) \in Settled
  <1>1. c \in Conn /\ c.mss <= Mss /\ Receiver(c) /\ Handshake(c) /\ c.recv_queue \in Seq(Byte)
    BY SoundFields DEF Sender, Conn
  <1>2. PICK n : n = Smaller(max, Len(c.recv_queue))
    OBVIOUS
  <1>3. PICK left : left = SubSeq(c.recv_queue, n + 1, Len(c.recv_queue))
    OBVIOUS
  <1>4. left \in Seq(Byte) /\ Len(left) <= Len(c.recv_queue) /\ Len(c.recv_queue) \in Nat
        /\ Len(left) \in Nat
    <2>1. ASSUME NEW q \in Seq(Byte), NEW k \in 0 .. Len(q)
          PROVE  /\ SubSeq(q, k + 1, Len(q)) \in Seq(Byte)
                 /\ Len(SubSeq(q, k + 1, Len(q))) = Len(q) - k
      OBVIOUS
    <2>2. Len(c.recv_queue) \in Nat
      BY <1>1
    <2>3. n \in 0 .. Len(c.recv_queue)
      BY <1>2, <2>2 DEF Smaller
    <2>4. QED BY <1>1, <1>3, <2>1, <2>2, <2>3
  <1>5. PICK d : d = [c EXCEPT !.recv_queue = left]
    OBVIOUS
  <1>6. /\ d \in Conn /\ d.recv_queue = left
        /\ d.mss = c.mss /\ d.unacked = c.unacked /\ d.send_una = c.send_una
        /\ d.send_nxt = c.send_nxt /\ d.send_queue = c.send_queue
        /\ d.accepted = c.accepted /\ d.acked = c.acked /\ d.recv_nxt = c.recv_nxt
        /\ d.reassembly = c.reassembly /\ d.state = c.state /\ d.reno = c.reno
        /\ d.remote_window = c.remote_window /\ d.close_requested = c.close_requested
    BY <1>1, <1>4, <1>5 DEF Conn
  <1>7. Sender(d)
    BY <1>1, <1>6, SameSender
  <1>8. Receiver(d)
    <2>1. HeldBytes(d) = HeldBytes(c) /\ HeldBytes(c) \in Nat
      BY <1>1, <1>6, HeldBytesType DEF HeldBytes
    <2>2. QED BY <1>1, <1>4, <1>6, <2>1, ConfigAssumption DEF Receiver
  <1>9. d \in SoundConn
    BY <1>1, <1>6, <1>7, <1>8 DEF SoundConn, Handshake
  <1>10. Idle(d)
    BY <1>6, SameIdle
  <1>11. AndAcknowledge(d) \in Settled /\ Open(d, <<>>) \in Settled
    BY <1>9, <1>10, AndAcknowledgeSound, NoSegments, OpenSettled DEF Settled
  <1>12. Read(c, max) = AfterRead(c, d)
    BY <1>2, <1>3, <1>5 DEF Read
  <1>13. QED BY <1>11, <1>12 DEF AfterRead

\* close asks for the FIN and flushes; before the handshake it removes.
LEMMA CloseRequestSound ==
  ASSUME NEW c \in SoundConn, c.state \notin Opening,
         NEW d, d = [c EXCEPT !.close_requested = TRUE]
  PROVE  d \in SoundConn
  <1>1. c \in Conn /\ c.mss <= Mss
    BY SoundFields DEF Sender
  <1>2. /\ d \in Conn /\ d.mss = c.mss /\ d.unacked = c.unacked /\ d.send_una = c.send_una
        /\ d.send_nxt = c.send_nxt /\ d.send_queue = c.send_queue
        /\ d.accepted = c.accepted /\ d.acked = c.acked /\ d.recv_nxt = c.recv_nxt
        /\ d.recv_queue = c.recv_queue /\ d.reassembly = c.reassembly /\ d.state = c.state
    BY <1>1 DEF Conn
  <1>3. Sender(d)
    BY <1>1, <1>2, SameSender
  <1>4. Receiver(d)
    BY <1>2, SameReceiver
  <1>5. Handshake(d)
    BY <1>2 DEF Handshake
  <1>6. QED BY <1>2, <1>3, <1>4, <1>5 DEF SoundConn

LEMMA CloseSettled ==
  ASSUME NEW c \in SoundConn, Idle(c)
  PROVE  Close(c) \in Settled
  <1>1. c.state \in {"Established", "CloseWait"}
          => [c EXCEPT !.close_requested = TRUE] \in SoundConn
    BY CloseRequestSound DEF Opening
  <1>2. Open(c, <<>>) \in Settled /\ Closed(c, <<>>) \in Settled
    BY NoSegments, OpenSettled
  <1>3. QED BY <1>1, <1>2, FlushSettles DEF Close

\* The zero-window half of poll, which sends into a shut window.
LEMMA PollProbeSettled ==
  ASSUME NEW c \in SoundConn, Idle(c), c.remote_window = 0
  PROVE  PollProbe(c) \in Settled
  <1>1. ASSUME NEW u \in SoundUpdate, u.conn.remote_window = 0
        PROVE  CountProbe(u) \in Settled
    <2>1. u \in Update /\ u.conn \in SoundConn /\ u.conn \in Conn /\ u.conn.mss <= Mss
      BY SoundFields DEF Sender
    <2>2. PICK e : e = u.conn
      OBVIOUS
    <2>3. PICK d : d = [e EXCEPT !.zero_window_probes = CountUp(@)]
      OBVIOUS
    <2>4. /\ d \in Conn /\ d.mss = e.mss /\ d.unacked = e.unacked /\ d.send_una = e.send_una
          /\ d.send_nxt = e.send_nxt /\ d.send_queue = e.send_queue
          /\ d.accepted = e.accepted /\ d.acked = e.acked /\ d.recv_nxt = e.recv_nxt
          /\ d.recv_queue = e.recv_queue /\ d.reassembly = e.reassembly /\ d.state = e.state
          /\ d.close_requested = e.close_requested /\ d.remote_window = e.remote_window
      BY <2>1, <2>2, <2>3, CountUpType DEF Conn
    <2>5. d \in SoundConn
      BY <2>1, <2>2, <2>4, SameSound
    <2>6. Idle(d)
      BY <1>1, <2>2, <2>4, ShutIdle
    <2>7. CountProbe(u) = [u EXCEPT !.conn = d]
      BY <2>1, <2>2, <2>3 DEF CountProbe
    <2>8. [u EXCEPT !.conn = d] \in Update /\ [u EXCEPT !.conn = d].conn = d
      BY <2>1, <2>4 DEF Update
    <2>9. QED BY <2>5, <2>6, <2>7, <2>8 DEF Settled, SoundUpdate
  <1>2. HasProbePayload(c) => CountProbe(ZeroWindowProbe(c)) \in Settled
    BY <1>1, ZeroWindowProbeSound
  <1>3. Open(c, <<>>) \in Settled /\ Closed(c, <<>>) \in Settled
    BY NoSegments, OpenSettled
  <1>4. QED BY <1>2, <1>3 DEF PollProbe

\* The retransmission half of poll.
LEMMA TimeoutSound ==
  ASSUME NEW c \in SoundConn,
         NEW d, d = [c EXCEPT !.rto_recovery_until = IF @ = None THEN c.send_nxt ELSE @,
                              !.reno = RenoOnTimeout(@, c.mss, InFlight(c))]
  PROVE  d \in SoundConn
  <1>1. c \in Conn /\ c.mss <= Mss
    BY SoundFields DEF Sender
  <1>2. PICK reno : reno = RenoOnTimeout(c.reno, c.mss, InFlight(c))
    OBVIOUS
  <1>3. reno \in Controller
    BY <1>1, <1>2, RenoOnLossTypes, InFlightType DEF Conn
  <1>4. /\ d \in Conn /\ d.mss = c.mss /\ d.unacked = c.unacked /\ d.send_una = c.send_una
        /\ d.send_nxt = c.send_nxt /\ d.send_queue = c.send_queue
        /\ d.accepted = c.accepted /\ d.acked = c.acked /\ d.recv_nxt = c.recv_nxt
        /\ d.recv_queue = c.recv_queue /\ d.reassembly = c.reassembly /\ d.state = c.state
        /\ d.close_requested = c.close_requested
    BY <1>1, <1>2, <1>3 DEF Conn
  <1>5. QED BY <1>1, <1>4, SameSound

LEMMA PollRetransmitSettled ==
  ASSUME NEW c \in SoundConn
  PROVE  PollRetransmit(c) \in Settled
  <1>1. PICK d : d = [c EXCEPT !.rto_recovery_until = IF @ = None THEN c.send_nxt ELSE @,
                               !.reno = RenoOnTimeout(@, c.mss, InFlight(c))]
    OBVIOUS
  <1>2. d \in SoundConn
    BY <1>1, TimeoutSound
  <1>3. AndFlush(RetransmitOldest(d, TRUE)) \in Settled
    BY <1>2, RetransmitOldestSound, FlushSettles
  <1>4. Closed(c, <<>>) \in Settled
    BY NoSegments, OpenSettled
  <1>5. QED BY <1>1, <1>3, <1>4 DEF PollRetransmit

\* Connection::poll.
LEMMA PollSettled ==
  ASSUME NEW c \in SoundConn, Idle(c), NEW closeDue \in BOOLEAN, NEW retryDue \in BOOLEAN
  PROVE  Poll(c, closeDue, retryDue) \in Settled
  <1>1. Open(c, <<>>) \in Settled /\ Closed(c, <<>>) \in Settled
    BY NoSegments, OpenSettled
  <1>2. ZeroWindowWork(c) => PollProbe(c) \in Settled
    BY PollProbeSettled DEF ZeroWindowWork
  <1>3. QED BY <1>1, <1>2, PollRetransmitSettled, FlushSettles DEF Poll

\* connect and the answer to a SYN.
LEMMA CreationSettled ==
  ASSUME NEW isn \in SeqNumber
  PROVE  /\ Client(isn) \in Settled
         /\ \A syn \in Segment : Server(syn, isn) \in Settled
  BY ClientSound, ServerSound, StateIdle DEF Settled

-----------------------------------------------------------------------------
(* What moves recv_nxt                                                     *)

\* The acknowledgement half of a method and flush_data leave these alone.
SameReceive(c, d) ==
  d.recv_nxt = c.recv_nxt /\ d.recv_queue = c.recv_queue /\ d.reassembly = c.reassembly

\* Chaining keeps the connection the second method left, whatever the first emitted.
LEMMA ThenLeaves ==
  ASSUME NEW u, NEW v \in Update
  PROVE  Then(u, v).conn = v.conn
  BY DEF Then, Update

\* send_tracked does not touch the receive side.
LEMMA SendTrackedReceive ==
  ASSUME NEW c \in Conn, NEW flags \in SUBSET Flag, NEW data \in Seq(Byte)
  PROVE  SameReceive(c, SendTracked(c, flags, data).conn)
  BY DEF SendTracked, Transmit, Open, SameReceive, Conn

\* Nor does flush_data.
LEMMA FlushReceive ==
  ASSUME NEW c \in SoundConn
  PROVE  SameReceive(c, FlushData(c).conn)
  <1> DEFINE q == c.send_queue
  <1>1. c \in Conn /\ q \in Seq(Byte) /\ Len(q) \in Nat
    BY SoundFields DEF Conn
  <1>2. PICK a : a = SendAllowance(c)
    OBVIOUS
  <1>3. a \in Nat
    BY <1>1, <1>2, AllowanceBound
  <1>4. FlushData(c) = FlushUpTo(c, a)
    BY <1>2 DEF FlushData
  <1>5. ASSUME NEW total, NEW chunks
        PROVE  /\ SameReceive(c, SendChunks(c, total, chunks).conn)
               /\ SendChunks(c, total, chunks).conn.state = c.state
    BY <1>1 DEF SendChunks, Open, SameReceive, Conn
  <1>6. CASE c.state \notin {"Established", "CloseWait"}
    BY <1>4, <1>6 DEF FlushUpTo, Open, SameReceive
  <1>7. CASE c.state \in {"Established", "CloseWait"} /\ c.close_requested /\ a > Len(q)
    <2>1. PICK u : u = SendChunks(c, Len(q), Chunks(c, Len(q)))
      OBVIOUS
    <2>2. FlushData(c) = Then(u, SendFin(u.conn))
      BY <1>4, <1>7, <2>1 DEF FlushUpTo, AndSendFin
    <2>3. u.conn \in SoundConn /\ SameReceive(c, u.conn)
      <3>1. Len(q) <= SendAllowance(c) /\ Len(q) <= Len(q) /\ c.state \notin Opening
        BY <1>1, <1>2, <1>3, <1>7 DEF Opening
      <3>2. u \in SoundUpdate
        BY <1>1, <2>1, <3>1, SendChunksSound
      <3>3. QED BY <1>5, <2>1, <3>2, SoundFields
    <2>4. PICK d : d = [u.conn EXCEPT !.close_requested = FALSE,
                          !.state = IF @ = "Established" THEN "FinWait1" ELSE "LastAck"]
      OBVIOUS
    <2>5. d \in Conn /\ SameReceive(u.conn, d)
      <3>1. u.conn \in Conn
        BY <2>3, SoundFields
      <3>2. QED BY <2>4, <3>1 DEF Conn, State, SameReceive
    <2>6. SendFin(u.conn) = SendTracked(d, {"FIN", "ACK"}, <<>>)
      BY <2>4 DEF SendFin
    <2>7. {"FIN", "ACK"} \in SUBSET Flag /\ <<>> \in Seq(Byte)
      BY DEF Flag
    <2>8. SendFin(u.conn) \in Update /\ SameReceive(d, SendFin(u.conn).conn)
      BY <2>5, <2>6, <2>7, SendTrackedType, SendTrackedReceive
    <2>9. FlushData(c).conn = SendFin(u.conn).conn
      BY <2>2, <2>8, ThenLeaves
    <2>10. QED BY <2>3, <2>5, <2>8, <2>9 DEF SameReceive
  <1>8. CASE c.state \in {"Established", "CloseWait"} /\ ~(c.close_requested /\ a > Len(q))
    BY <1>4, <1>5, <1>8 DEF FlushUpTo
  <1>9. QED BY <1>6, <1>7, <1>8

\* Nor does a retransmission, whatever asks for it.
LEMMA RetransmitReceive ==
  ASSUME NEW c \in Conn, NEW timeout \in BOOLEAN
  PROVE  SameReceive(c, RetransmitOldest(c, timeout).conn)
  BY DEF RetransmitOldest, Open, SameReceive, Conn

\* Nor does an ACK, duplicate or new.
LEMMA ApplyAckReceive ==
  ASSUME NEW c \in SoundConn, NEW ack \in SeqNumber, NEW candidate \in BOOLEAN
  PROVE  SameReceive(c, ApplyAck(c, ack, candidate).conn)
  <1>1. c \in Conn
    BY SoundFields
  <1>2. SameReceive(c, CountDuplicate(c)) /\ CountDuplicate(c) \in Conn
    <2>1. PICK reno : reno = RenoOnDuplicateAck(c.reno, c.mss)
      OBVIOUS
    <2>2. PICK n : n = CountUp(c.duplicate_acks)
      OBVIOUS
    <2>3. reno \in Controller /\ n \in Nat
      BY <1>1, <2>1, <2>2, RenoTypes, CountUpType DEF Conn
    <2>4. CountDuplicate(c) = [c EXCEPT !.duplicate_acks = n, !.reno = reno]
      BY <1>1, <2>1, <2>2 DEF CountDuplicate
    <2>5. QED BY <1>1, <2>3, <2>4 DEF Conn, SameReceive
  <1>3. SameReceive(c, FastLoss(CountDuplicate(c))) /\ FastLoss(CountDuplicate(c)) \in Conn
    <2>1. PICK d : d = CountDuplicate(c)
      OBVIOUS
    <2>2. d \in Conn
      BY <1>2, <2>1
    <2>3. InFlight(d) \in Nat
      BY <2>2, InFlightType
    <2>4. PICK reno : reno = RenoOnFastLoss(d.reno, d.mss, InFlight(d))
      OBVIOUS
    <2>5. reno \in Controller
      BY <2>2, <2>3, <2>4, RenoOnLossTypes DEF Conn
    <2>6. FastLoss(d) = [d EXCEPT !.reno = reno]
      BY <2>2, <2>4 DEF FastLoss
    <2>7. FastLoss(d) \in Conn /\ SameReceive(d, FastLoss(d))
      BY <2>2, <2>5, <2>6 DEF Conn, SameReceive
    <2>8. QED BY <1>2, <2>1, <2>7 DEF SameReceive
  <1>4. SameReceive(c, ApplyDuplicateAck(c, candidate).conn)
    <2>1. SameReceive(c, Open([c EXCEPT !.duplicate_acks = 0], <<>>).conn)
      BY <1>1 DEF Open, SameReceive, Conn
    <2>2. SameReceive(c, Open(CountDuplicate(c), <<>>).conn)
      BY <1>2 DEF Open
    <2>3. SameReceive(c, RetransmitOldest(FastLoss(CountDuplicate(c)), FALSE).conn)
      <3>1. SameReceive(FastLoss(CountDuplicate(c)),
                        RetransmitOldest(FastLoss(CountDuplicate(c)), FALSE).conn)
        BY <1>3, RetransmitReceive
      <3>2. QED BY <1>3, <3>1 DEF SameReceive
    <2>4. QED BY <2>1, <2>2, <2>3 DEF ApplyDuplicateAck
  <1>5. SameReceive(c, ApplyNewAck(c, ack))
    <2>1. ASSUME NEW rest, NEW bytes PROVE SameReceive(c, Acknowledge(c, ack, rest, bytes))
      BY <1>1 DEF Acknowledge, SameReceive, Conn
    <2>2. QED BY <2>1 DEF ApplyNewAck, AckSplit
  <1>6. ApplyAck(c, ack, candidate).conn \in {c, ApplyDuplicateAck(c, candidate).conn,
                                              ApplyNewAck(c, ack)}
    BY DEF ApplyAck, Open
  <1>7. QED BY <1>4, <1>5, <1>6 DEF SameReceive

\* Nor does what follows an ACK in on_segment: the FIN it may cover, the
\* window and the repair of the next hole.
LEMMA OnAckReceive ==
  ASSUME NEW c \in SoundConn, c.state \notin Opening, NEW seg \in Segment, seg.ack # None
  PROVE  SameReceive(c, OnAck(c, seg).conn)
  <1>1. seg.ack \in SeqNumber /\ seg.window \in WindowSize
    BY DEF Segment
  <1>2. PICK candidate : candidate = IsDuplicateAckCandidate(seg, c.send_una, c.remote_window)
    OBVIOUS
  <1>3. candidate \in BOOLEAN
    BY <1>2 DEF IsDuplicateAckCandidate
  <1>4. PICK u : u = ApplyAck(c, seg.ack, candidate)
    OBVIOUS
  <1>5. u \in SoundUpdate /\ u.conn \in SoundConn /\ u.conn.state \notin Opening
        /\ SameReceive(c, u.conn)
    BY <1>1, <1>3, <1>4, ApplyAckSound, ApplyAckReceive, SoundFields
  <1>6. PICK fin : fin = FinAcked(c, seg)
    OBVIOUS
  <1>7. PICK n : n = NoteFinAcked(u.conn, fin)
    OBVIOUS
  <1>8. n \in SoundConn /\ SameReceive(u.conn, n)
    <2>1. u.conn \in Conn /\ fin \in BOOLEAN
      BY <1>5, <1>6, SoundFields DEF FinAcked
    <2>2. SameReceive(u.conn, n)
      BY <1>7, <2>1 DEF NoteFinAcked, SameReceive, Conn
    <2>3. QED BY <1>5, <1>7, <2>1, <2>2, NoteFinAckedSound
  <1>9. PICK d : d = NoteWindow(n, seg)
    OBVIOUS
  <1>10. d \in SoundConn /\ SameReceive(n, d)
    <2>1. n \in Conn
      BY <1>8, SoundFields
    <2>2. SameReceive(n, d)
      BY <1>9, <2>1 DEF NoteWindow, UpdateRemoteWindow, SameReceive, Conn
    <2>3. QED BY <1>8, <1>9, <2>2, NoteWindowSound
  <1>11. RepairTimedOutFlight(d) \in Update /\ SameReceive(d, RepairTimedOutFlight(d).conn)
    <2>1. d \in Conn
      BY <1>10, SoundFields
    <2>2. SameReceive(d, RetransmitOldest(d, FALSE).conn)
      BY <2>1, RetransmitReceive
    <2>3. SameReceive(d, Open(d, <<>>).conn)
      BY DEF Open, SameReceive
    <2>4. QED BY <2>1, <2>2, <2>3, RepairTimedOutFlightType DEF RepairTimedOutFlight
  <1>12. Open(d, <<>>) \in Update /\ Open(d, <<>>).conn = d
    BY <1>10, SoundFields, NoSegments, OpenType DEF Open
  <1>13. AndRepair(u, c, seg).conn \in {d, RepairTimedOutFlight(d).conn}
    BY <1>6, <1>7, <1>9, <1>11, <1>12, ThenLeaves DEF AndRepair
  <1>14. OnAck(c, seg).conn \in {u.conn, d, RepairTimedOutFlight(d).conn}
    <2>1. Closed(u.conn, u.segments).conn = u.conn
      BY DEF Closed
    <2>2. QED BY <1>2, <1>4, <1>13, <2>1 DEF OnAck, OnApplied
  <1>15. QED BY <1>5, <1>8, <1>10, <1>11, <1>14 DEF SameReceive

-----------------------------------------------------------------------------
(* The head of the line                                                    *)

\* seg brings what c waits for: the byte at recv_nxt, with room for it, or a
\* FIN by itself, which needs none.
Brings(c, seg) ==
  \/ /\ BeforeOrEqual(seg.seq, c.recv_nxt)
     /\ Distance(seg.seq, c.recv_nxt) < Len(seg.data)
     /\ AvailableWindow(c) > 0
  \/ seg.data = <<>> /\ "FIN" \in seg.flags /\ seg.seq = c.recv_nxt

\* The table has room for one chunk more.
HasSlot(c) == Cardinality(c.reassembly) < MaxReassembly

\* A chunk at recv_nxt is taken in, its bytes or its FIN.
LEMMA DrainMoves ==
  ASSUME NEW c \in SoundConn, NEW r \in c.reassembly, r.seq = c.recv_nxt
  PROVE  DrainReassembly(c).recv_nxt # c.recv_nxt
  <1>1. /\ c \in Conn /\ c.recv_nxt \in SeqNumber
        /\ (r.data # <<>> \/ r.fin) /\ r.data \in Seq(Byte)
    <2>1. c \in Conn /\ Receiver(c)
      BY SoundFields
    <2>2. r \in ReassemblySegment
      BY <2>1 DEF Conn, FiniteSubsets
    <2>3. QED BY <2>1, <2>2 DEF Conn, Receiver, Filable, ReassemblySegment
  <1>2. PICK run : run = Run(c)
    OBVIOUS
  <1>3. run \in 0 .. MaxWindow /\ ~Holds(r, Place(c, run)) /\ MaxWindow \in Nat
    BY <1>2, RunIsMaximal, ConfigAssumption
  <1>4. PICK fin : fin = FinAt(c, run)
    OBVIOUS
  <1>5. Place(c, 0) = r.seq /\ Plus(r.seq, 0) = r.seq /\ Distance(r.seq, r.seq) = 0
    BY <1>1, PlusZero DEF Place, Distance, SeqNumber
  <1>6. run = 0 => fin
    <2> SUFFICES ASSUME run = 0 PROVE FinAt(c, 0)
      BY <1>4
    <2>1. r.data = <<>>
      <3>1. ~(0 < Len(r.data))
        BY <1>3, <1>5 DEF Holds
      <3>2. QED BY <1>1, <3>1, EmptySeq
    <2>2. QED BY <1>1, <1>5, <2>1 DEF FinAt
  <1>7. PICK k : k = run + Units(fin)
    OBVIOUS
  <1>8. k \in 1 .. MaxWindow + 1 /\ k \in Nat /\ k < Modulus
    <2>1. Units(fin) \in 0 .. 1 /\ (fin => Units(fin) = 1)
      BY DEF Units
    <2>2. QED BY <1>3, <1>6, <1>7, <2>1, ConfigAssumption, ModulusAssumption
  <1>9. Distance(c.recv_nxt, Place(c, k)) = k
    BY <1>1, <1>8, DistanceOfPlus DEF Place
  <1>10. Place(c, k) # c.recv_nxt
    BY <1>1, <1>5, <1>8, <1>9
  <1>11. DrainReassembly(c).recv_nxt = Place(c, k)
    BY <1>1, <1>2, <1>4, <1>7 DEF DrainReassembly, DrainRun, TakeRun, TakeIn, Conn
  <1>12. QED BY <1>10, <1>11

\* insert_received files the chunk at recv_nxt, or one is there already.
LEMMA HeadIsFiled ==
  ASSUME NEW c \in SoundConn, c.state # "SynSent", NEW seg \in Segment, Brings(c, seg),
         HasSlot(c)
  PROVE  LET d == InsertReceived(c, seg.seq, seg.data, "FIN" \in seg.flags)
         IN  d.recv_nxt = c.recv_nxt /\ \E r \in d.reassembly : r.seq = d.recv_nxt
  <1>1. /\ c \in Conn /\ c.recv_nxt \in SeqNumber /\ AvailableWindow(c) \in Nat
        /\ seg.seq \in SeqNumber /\ seg.data \in Seq(Byte) /\ Len(seg.data) \in Nat
        /\ Cardinality(c.reassembly) \in Nat /\ MaxReassembly \in Nat
    <2>1. c \in Conn /\ IsFiniteSet(c.reassembly)
      BY SoundFields, HeldCells
    <2>2. c.recv_nxt \in SeqNumber /\ AvailableWindow(c) \in Nat
      BY <2>1, AvailableWindowType DEF Conn
    <2>3. seg.seq \in SeqNumber /\ seg.data \in Seq(Byte)
      BY DEF Segment
    <2>4. Len(seg.data) \in Nat
      BY <2>3
    <2>5. Cardinality(c.reassembly) \in Nat /\ MaxReassembly \in Nat
      BY <2>1, FS_CardinalityType, ConfigAssumption
    <2>6. QED BY <2>1, <2>2, <2>3, <2>4, <2>5
  <1>2. PICK f : f = ("FIN" \in seg.flags)
    OBVIOUS
  <1>3. PICK d : d = InsertReceived(c, seg.seq, seg.data, f)
    OBVIOUS
  <1>4. Distance(c.recv_nxt, c.recv_nxt) = 0 /\ ~Before(c.recv_nxt, c.recv_nxt)
    BY <1>1, ModulusAssumption DEF Distance, Before, SeqNumber
  <1>5. ASSUME NEW data \in Seq(Byte), NEW end,
               \/ data # <<>> /\ AvailableWindow(c) > 0
               \/ data = <<>> /\ f /\ end = c.recv_nxt,
               d = FileChunk(c, FitWindow(c, c.recv_nxt, end, data, f))
        PROVE  d.recv_nxt = c.recv_nxt /\ \E r \in d.reassembly : r.seq = d.recv_nxt
    <2>1. PICK chunk : chunk = FitWindow(c, c.recv_nxt, end, data, f)
      OBVIOUS
    <2>2. PICK room : room = SaturatingSub(AvailableWindow(c), 0)
      OBVIOUS
    <2>3. room = AvailableWindow(c) /\ room \in Nat
      BY <1>1, <2>2 DEF SaturatingSub
    <2>4. PICK n : n = Smaller(Len(data), room)
      OBVIOUS
    <2>5. Len(data) \in Nat /\ n \in 0 .. Len(data) /\ (Len(data) > 0 /\ room > 0 => n > 0)
      <3>1. Len(data) \in Nat
        OBVIOUS
      <3>2. QED BY <2>3, <2>4, <3>1 DEF Smaller
    <2>6. /\ chunk.seq = c.recv_nxt /\ chunk.data = SubSeq(data, 1, n)
          /\ chunk.fin = (f /\ Len(data) <= room /\ end = Plus(c.recv_nxt, Len(data)))
      BY <1>4, <2>1, <2>2, <2>4 DEF FitWindow
    <2>7. ~(chunk.data = <<>> /\ ~chunk.fin)
      <3>1. CASE data # <<>> /\ AvailableWindow(c) > 0
        <4>1. Len(data) > 0
          BY <3>1, <2>5, EmptySeq
        <4>2. n > 0
          BY <2>3, <2>5, <3>1, <4>1
        <4>3. Len(chunk.data) = n
          BY <2>5, <2>6
        <4>4. QED BY <2>5, <4>2, <4>3
      <3>2. CASE data = <<>> /\ f /\ end = c.recv_nxt
        <4>1. Len(data) = 0 /\ Plus(c.recv_nxt, 0) = c.recv_nxt
          BY <1>1, <3>2, PlusZero
        <4>2. Len(data) <= room /\ end = Plus(c.recv_nxt, Len(data))
          BY <2>3, <3>2, <4>1
        <4>3. QED BY <2>6, <3>2, <4>2, Zenon
      <3>3. QED BY <1>5, <3>1, <3>2
    <2>8. CASE Filed(c, chunk)
      <3>1. d = c
        BY <1>5, <2>1, <2>8 DEF FileChunk
      <3>2. QED BY <2>6, <2>8, <3>1 DEF Filed
    <2>9. CASE ~Filed(c, chunk)
      <3>1. ~(Cardinality(c.reassembly) >= MaxReassembly)
        BY <1>1 DEF HasSlot
      <3>2. d = [c EXCEPT !.reassembly = @ \cup {chunk}]
        BY <1>5, <2>1, <2>7, <2>9, <3>1, Zenon DEF FileChunk
      <3>3. d.recv_nxt = c.recv_nxt /\ chunk \in d.reassembly
        BY <1>1, <3>2 DEF Conn
      <3>4. QED BY <2>6, <3>3
    <2>10. QED BY <2>8, <2>9
  <1>6. CASE Before(seg.seq, c.recv_nxt)
    <2>1. PICK m : m = Distance(seg.seq, c.recv_nxt)
      OBVIOUS
    <2>2. m \in Nat
      BY <1>1, <2>1, DistanceType
    <2>3. m < Len(seg.data) /\ AvailableWindow(c) > 0
      BY <1>4, <1>6, <2>1 DEF Brings
    <2>4. PICK data : data = SubSeq(seg.data, m + 1, Len(seg.data))
      OBVIOUS
    <2>5. data \in Seq(Byte) /\ data # <<>>
      <3>1. m + 1 \in Nat \ {0}
        BY <2>2
      <3>2. data \in Seq(Byte)
        BY <1>1, <2>4, <3>1, SubSeqType
      <3>3. Len(data) = Len(seg.data) - m
        BY <1>1, <2>2, <2>3, <2>4
      <3>4. QED BY <1>1, <2>2, <2>3, <3>2, <3>3
    <2>6. d = FileChunk(c, FitWindow(c, c.recv_nxt, Plus(seg.seq, Len(seg.data)), data, f))
      BY <1>3, <1>6, <2>1, <2>4 DEF InsertReceived
    <2>7. QED BY <1>2, <1>3, <1>5, <2>3, <2>5, <2>6
  <1>7. CASE ~Before(seg.seq, c.recv_nxt)
    <2>1. seg.seq = c.recv_nxt
      BY <1>7 DEF Brings, BeforeOrEqual
    <2>2. \/ seg.data # <<>> /\ AvailableWindow(c) > 0
          \/ seg.data = <<>> /\ f /\ Plus(seg.seq, Len(seg.data)) = c.recv_nxt
      <3>1. CASE seg.data = <<>>
        <4>1. Len(seg.data) = 0 /\ Plus(c.recv_nxt, 0) = c.recv_nxt
          BY <1>1, <3>1, PlusZero
        <4>2. ~(0 < 0)
          OBVIOUS
        <4>3. "FIN" \in seg.flags
          BY <1>4, <2>1, <3>1, <4>1, <4>2 DEF Brings
        <4>4. Plus(seg.seq, Len(seg.data)) = c.recv_nxt
          BY <2>1, <4>1
        <4>5. QED BY <1>2, <3>1, <4>3, <4>4, Zenon
      <3>2. CASE seg.data # <<>>
        BY <3>2 DEF Brings
      <3>3. QED BY <3>1, <3>2
    <2>3. d = FileChunk(c, FitWindow(c, c.recv_nxt, Plus(seg.seq, Len(seg.data)), seg.data, f))
      BY <1>3, <1>4, <1>7, <2>1 DEF InsertReceived, After
    <2>4. QED BY <1>1, <1>2, <1>3, <1>5, <2>2, <2>3
  <1>8. QED BY <1>6, <1>7

\* receive_stream_data moves past what it waited for.
LEMMA HeadIsTaken ==
  ASSUME NEW c \in SoundConn, c.state # "SynSent", NEW seg \in Segment, Brings(c, seg),
         HasSlot(c)
  PROVE  ReceiveStreamData(c, seg).conn.recv_nxt # c.recv_nxt
  <1>1. seg.seq \in SeqNumber /\ seg.data \in Seq(Byte) /\ c.recv_nxt \in SeqNumber
    BY SoundFields DEF Segment, Conn
  <1>2. PICK d : d = InsertReceived(c, seg.seq, seg.data, "FIN" \in seg.flags)
    OBVIOUS
  <1>3. d \in SoundConn
    <2>1. ("FIN" \in seg.flags) \in BOOLEAN
      OBVIOUS
    <2>2. QED BY <1>1, <1>2, <2>1, InsertReceivedSound
  <1>4. d.recv_nxt = c.recv_nxt /\ \E r \in d.reassembly : r.seq = d.recv_nxt
    BY <1>2, HeadIsFiled
  <1>5. DrainReassembly(d).recv_nxt # c.recv_nxt
    BY <1>3, <1>4, DrainMoves
  <1>6. ~(seg.data = <<>> /\ "FIN" \notin seg.flags)
    <2> SUFFICES ASSUME seg.data = <<>>, "FIN" \notin seg.flags PROVE FALSE
      OBVIOUS
    <2>1. Len(seg.data) = 0 /\ Distance(seg.seq, c.recv_nxt) \in Nat
      BY <1>1, DistanceType
    <2>2. QED BY <2>1 DEF Brings
  <1>7. ReceiveStreamData(c, seg).conn = DrainReassembly(d)
    BY <1>2, <1>6 DEF ReceiveStreamData, AndAcknowledge, Open
  <1>8. QED BY <1>5, <1>7

\* And so does a synchronized connection that is not removed by the segment.
LEMMA InputTakesHead ==
  ASSUME NEW c \in SoundConn, c.state \notin Opening, NEW seg \in Segment, Brings(c, seg),
         seg.flags \cap {"RST", "SYN"} = {}, HasSlot(c)
  PROVE  InputKnown(c, seg).closed \/ InputKnown(c, seg).conn.recv_nxt # c.recv_nxt
  <1>1. InputKnown(c, seg) = OnSegmentSynchronized(c, seg)
    BY DEF InputKnown, StaleHandshakeAck, UnexpectedSyn, OnSegment, Opening
  <1>2. PICK u : u = IF seg.ack = None THEN Open(c, <<>>) ELSE OnAck(c, seg)
    OBVIOUS
  <1>3. u \in SoundUpdate /\ u.conn.state \notin Opening /\ SameReceive(c, u.conn)
    <2>1. /\ Open(c, <<>>) \in SoundUpdate /\ Open(c, <<>>).conn.state = c.state
          /\ SameReceive(c, Open(c, <<>>).conn)
      BY NoSegments, OpenSound DEF Open, SameReceive
    <2>2. QED BY <1>2, <2>1, OnAckSound, OnAckReceive
  <1>4. CASE u.closed
    BY <1>1, <1>2, <1>4 DEF OnSegmentSynchronized, Continue
  <1>5. CASE ~u.closed
    <2>1. u \in Update /\ u.conn \in SoundConn /\ u.conn.state # "SynSent"
      BY <1>3, SoundFields DEF Opening
    <2>2. Brings(u.conn, seg) /\ HasSlot(u.conn) /\ u.conn.recv_nxt = c.recv_nxt
      <3>1. AvailableWindow(u.conn) = AvailableWindow(c)
        BY <1>3 DEF AvailableWindow, HeldBytes, SameReceive
      <3>2. QED BY <1>3, <3>1 DEF Brings, HasSlot, SameReceive
    <2>3. PICK v : v = AndReceive(u, seg)
      OBVIOUS
    <2>4. v \in SoundUpdate /\ v.conn.recv_nxt # c.recv_nxt
      <3>1. ReceiveStreamData(u.conn, seg) \in Update
        BY <2>1, ReceiveStreamDataSound, SoundFields
      <3>2. v.conn = ReceiveStreamData(u.conn, seg).conn
        BY <2>3, <3>1, ThenLeaves DEF AndReceive
      <3>3. QED BY <1>3, <2>1, <2>2, <2>3, <3>2, HeadIsTaken, AndReceiveSound
    <2>5. v.conn \in SoundConn
      BY <2>4, SoundFields
    <2>6. AndFlush(v).conn = FlushData(v.conn).conn
      BY <2>5, FlushDataSound, SoundFields, ThenLeaves DEF AndFlush
    <2>7. AndFlush(v).conn.recv_nxt = v.conn.recv_nxt
      BY <2>5, <2>6, FlushReceive DEF SameReceive
    <2>8. InputKnown(c, seg) = AndFlush(v)
      BY <1>1, <1>2, <1>5, <2>3 DEF OnSegmentSynchronized, Continue
    <2>9. QED BY <2>4, <2>7, <2>8
  <1>6. QED BY <1>4, <1>5
=============================================================================
