----------------------------- MODULE Connection -----------------------------
(***************************************************************************)
(* One TCP/FIPS connection: the methods of Connection<P> in stack.rs,      *)
(* stack_poll.rs, connection_recovery.rs, connection_reset.rs and the      *)
(* helpers of connection_types.rs, marker.rs and segment.rs.               *)
(*                                                                         *)
(* A method is an operator that takes the connection record and returns an *)
(* Update: the next record, the segments it hands to the stack, and        *)
(* whether the stack must queue the connection for accept() or remove it.  *)
(* Loops appear in closed form.  Time is left out: no clock, send times,   *)
(* RTT estimate or deadline values; which deadlines have passed is a       *)
(* parameter of Poll.  Ports and the peer belong to the stack.             *)
(***************************************************************************)
EXTENDS Reno, Sequences, FiniteSets

CONSTANTS
  Mss,                \* Config.mss
  SendBuffer,         \* Config.send_buffer
  ReceiveBuffer,      \* Config.receive_buffer
  MaxReassembly,      \* Config.max_reassembly_segments
  MaxTransmissions,   \* Config.max_retransmissions: sends of a segment, and probes
  MaxWindow           \* u16::MAX, the largest window or mss a header carries

ASSUME ConfigAssumption ==
  /\ Mss \in 1 .. MaxWindow
  /\ SendBuffer \in Nat \ {0}
  /\ MaxReassembly \in Nat \ {0}
  /\ MaxTransmissions \in 0 .. 255
  /\ MaxWindow \in Nat /\ 2 * MaxWindow + 2 < Modulus
  /\ ReceiveBuffer \in 1 .. MaxWindow

\* A payload byte is known by its place: <<i, k>> is the k-th byte that was
\* written on the i-th connection of its sender.
Byte == Nat \X Nat

None == -1            \* Option::None of a field that holds a number
ASSUME NoneIsNoSequenceNumber == None \notin SeqNumber

State == {"SynSent", "SynReceived", "Established", "FinWait1", "FinWait2",
          "CloseWait", "Closing", "LastAck", "TimeWait"}
Flag  == {"SYN", "ACK", "FIN", "RST"}

WindowSize == 0 .. MaxWindow       \* u16

\* A datagram on the carrier, ports left out.
Segment ==
  [flags : SUBSET Flag, seq : SeqNumber, ack : SeqNumber \cup {None},
   window : WindowSize, data : Seq(Byte), mss : Nat]

\* A segment sent and not yet acknowledged, kept for retransmission.
TrackedSegment ==
  [seq : SeqNumber, flags : SUBSET Flag, data : Seq(Byte), transmissions : Nat]

\* A segment received ahead of a hole.  The table is a set: insert_received
\* refuses a chunk with the ends of one it holds, and chunks that overlap agree
\* byte for byte, so their order in the code's Vec has no effect.
ReassemblySegment == [seq : SeqNumber, data : Seq(Byte), fin : BOOLEAN]

FiniteSubsets(S) == {T \in SUBSET S : IsFiniteSet(T)}

Conn ==
  [state : State,
   send_una : SeqNumber, send_nxt : SeqNumber, recv_nxt : SeqNumber,
   remote_window : WindowSize, mss : Nat \ {0},
   send_queue : Seq(Byte), recv_queue : Seq(Byte),
   reassembly : FiniteSubsets(ReassemblySegment), unacked : Seq(TrackedSegment),
   reno : Controller, duplicate_acks : Nat,
   rto_recovery_until : SeqNumber \cup {None},
   close_requested : BOOLEAN, zero_window_probes : Nat, read_closed : BOOLEAN,
   accepted : Nat, acked : Nat]          \* SendProgress

-----------------------------------------------------------------------------
(* Small helpers                                                           *)

Units(b) == IF b THEN 1 ELSE 0

\* u8::saturating_add(1): the width of every counter of attempts.
CountUp(n) == Smaller(n + 1, 255)

\* Fault: a FIN takes no sequence number.
EndWithoutFin(t) == Plus(t.seq, Len(t.data) + Units("SYN" \in t.flags))

TrackedEnd(t) ==
  Plus(t.seq, Len(t.data) + Units("SYN" \in t.flags) + Units("FIN" \in t.flags))

ReassemblyEnd(r) == Plus(r.seq, Len(r.data) + Units(r.fin))

\* Segment::sequence_len
SequenceLen(seg) == Len(seg.data) + Units("SYN" \in seg.flags) + Units("FIN" \in seg.flags)

\* The sum of the payload lengths of a queue of segments.
PayloadBytes(segs) ==
  Cardinality(UNION {{i} \X (1 .. Len(segs[i].data)) : i \in DOMAIN segs})

\* The sum of the payload lengths of the reassembly table.
HeldBytes(c) == Cardinality(UNION {{r} \X (1 .. Len(r.data)) : r \in c.reassembly})

InFlight(c) == Distance(c.send_una, c.send_nxt)

AvailableWindow(c) ==
  SaturatingSub(ReceiveBuffer, Len(c.recv_queue) + HeldBytes(c))

\* What flow and congestion control let the connection send now.
SendAllowance(c) ==
  SaturatingSub(Smaller(c.remote_window, Window(c.reno, c.mss)), InFlight(c))

-----------------------------------------------------------------------------
(* Segments                                                                *)

BuildSegment(c, flags, seq, window, data) ==
  [flags |-> flags, seq |-> seq,
   ack |-> IF "ACK" \in flags THEN c.recv_nxt ELSE None,
   window |-> window, data |-> data,
   mss |-> IF "SYN" \in flags THEN c.mss ELSE 0]

AckSegment(c) ==
  BuildSegment(c, {"ACK"}, c.send_nxt, Smaller(AvailableWindow(c), MaxWindow), <<>>)

SegmentFor(c, t) ==
  BuildSegment(c, t.flags, t.seq, Smaller(AvailableWindow(c), MaxWindow), t.data)

ResetSegment(c) == BuildSegment(c, {"RST"}, c.send_nxt, 0, <<>>)

\* Stack::emit_reset: the answer to a segment no connection can take.
ResetFor(seg) ==
  IF seg.ack # None
  THEN [flags |-> {"RST"}, seq |-> seg.ack, ack |-> None,
        window |-> 0, data |-> <<>>, mss |-> 0]
  ELSE [flags |-> {"RST", "ACK"}, seq |-> 0, ack |-> Plus(seg.seq, SequenceLen(seg)),
        window |-> 0, data |-> <<>>, mss |-> 0]

-----------------------------------------------------------------------------
(* Updates                                                                 *)

Update == [conn : Conn, segments : Seq(Segment), accepted : BOOLEAN, closed : BOOLEAN]

Open(c, segments) ==
  [conn |-> c, segments |-> segments, accepted |-> FALSE, closed |-> FALSE]

Closed(c, segments) ==
  [conn |-> c, segments |-> segments, accepted |-> FALSE, closed |-> TRUE]

\* v, computed from what u left, after u: segments in that order.
Then(u, v) == [v EXCEPT !.segments = u.segments \o v.segments]

-----------------------------------------------------------------------------
(* Sending                                                                 *)

Transmit(c, t) ==
  Open([c EXCEPT !.send_nxt = TrackedEnd(t), !.unacked = Append(@, t)],
       <<SegmentFor(c, t)>>)

SendTracked(c, flags, data) ==
  Transmit(c, [seq |-> c.send_nxt, flags |-> flags, data |-> data, transmissions |-> 1])

\* Fault: the last segment ignores the allowance.
ChunkPastAllowance(c, total, i) ==
  [seq |-> Plus(c.send_nxt, (i - 1) * c.mss), flags |-> {"ACK"},
   data |-> SubSeq(c.send_queue, (i - 1) * c.mss + 1,
                  Smaller(i * c.mss, Len(c.send_queue))),
   transmissions |-> 1]

\* The i-th segment when the first "total" bytes of the queue are sent.
Chunk(c, total, i) ==
  [seq |-> Plus(c.send_nxt, (i - 1) * c.mss), flags |-> {"ACK"},
   data |-> SubSeq(c.send_queue, (i - 1) * c.mss + 1, Smaller(i * c.mss, total)),
   transmissions |-> 1]

Chunks(c, total) == [i \in 1 .. (total + c.mss - 1) \div c.mss |-> Chunk(c, total, i)]

SendChunks(c, total, chunks) ==
  Open([c EXCEPT !.send_queue = SubSeq(@, total + 1, Len(@)),
                 !.send_nxt = Plus(@, total),
                 !.unacked = @ \o chunks],
       [i \in DOMAIN chunks |-> SegmentFor(c, chunks[i])])

SendFin(c) ==
  SendTracked([c EXCEPT !.close_requested = FALSE,
                        !.state = IF @ = "Established" THEN "FinWait1" ELSE "LastAck"],
              {"FIN", "ACK"}, <<>>)

AndSendFin(u) == Then(u, SendFin(u.conn))

FlushUpTo(c, allowance) ==
  IF c.state \notin {"Established", "CloseWait"} THEN Open(c, <<>>)
  ELSE IF c.close_requested /\ allowance > Len(c.send_queue)
  THEN AndSendFin(SendChunks(c, Len(c.send_queue), Chunks(c, Len(c.send_queue))))
  ELSE SendChunks(c, Smaller(allowance, Len(c.send_queue)),
                  Chunks(c, Smaller(allowance, Len(c.send_queue))))

\* flush_data: cut the queue into segments while the allowance lasts, then
\* the FIN once the queue is empty and one more sequence number is allowed.
FlushData(c) == FlushUpTo(c, SendAllowance(c))

AndFlush(u) == Then(u, FlushData(u.conn))

\* Fault: only the timer counts attempts against the budget.
RetransmitUnbudgeted(c, timeout) ==
  IF c.unacked = <<>> THEN Open(c, <<>>)
  ELSE Open([c EXCEPT !.unacked[1].transmissions = CountUp(@),
                      !.duplicate_acks = IF timeout THEN 0 ELSE @],
            <<SegmentFor(c, Head(c.unacked))>>)

\* retransmit_oldest: timer and peer-triggered retries share one budget.
RetransmitOldest(c, timeout) ==
  IF c.unacked = <<>> THEN Open(c, <<>>)
  ELSE IF Head(c.unacked).transmissions >= MaxTransmissions THEN Open(c, <<>>)
  ELSE Open([c EXCEPT !.unacked[1].transmissions = CountUp(@),
                      !.duplicate_acks = IF timeout THEN 0 ELSE @],
            <<SegmentFor(c, Head(c.unacked))>>)

\* An ACK that advances exposes the next hole of a flight that timed out.
RepairTimedOutFlight(c) ==
  IF c.rto_recovery_until = None \/ c.remote_window = 0
  THEN Open(c, <<>>)
  ELSE RetransmitOldest(c, FALSE)

\* The first byte of the oldest unacknowledged payload, or one new byte.
ProbeOf(c, t) == Open(c, <<SegmentFor(c, [t EXCEPT !.flags = {"ACK"}, !.data = <<Head(@)>>])>>)

Carriers(c) == {i \in DOMAIN c.unacked : c.unacked[i].data # <<>>}

ZeroWindowProbe(c) ==
  IF Carriers(c) # {}
  THEN ProbeOf(c, c.unacked[CHOOSE i \in Carriers(c) : \A j \in Carriers(c) : i <= j])
  ELSE SendTracked([c EXCEPT !.send_queue = Tail(@)], {"ACK"}, <<Head(c.send_queue)>>)

-----------------------------------------------------------------------------
(* Creation: a client sends SYN, a server answers one with SYN-ACK.        *)

NewConnection(state, isn, recv_nxt) ==
  [state |-> state, send_una |-> isn, send_nxt |-> isn, recv_nxt |-> recv_nxt,
   remote_window |-> MaxWindow, mss |-> Mss,
   send_queue |-> <<>>, recv_queue |-> <<>>, reassembly |-> {}, unacked |-> <<>>,
   reno |-> NewReno(Mss), duplicate_acks |-> 0, rto_recovery_until |-> None,
   close_requested |-> FALSE, zero_window_probes |-> 0, read_closed |-> FALSE,
   accepted |-> 0, acked |-> 0]

UpdateRemoteWindow(c, window) ==
  [c EXCEPT !.remote_window = window,
            !.zero_window_probes = IF window = 0 THEN @ ELSE 0]

UseMss(c, mss) == [c EXCEPT !.mss = mss, !.reno = SetMss(@, mss)]

NegotiateMss(c, seg) == UseMss(c, Larger(Smaller(seg.mss, Mss), 1))

Client(isn) == SendTracked(NewConnection("SynSent", isn, 0), {"SYN"}, <<>>)

Server(syn, isn) ==
  SendTracked(NegotiateMss(UpdateRemoteWindow(
                             NewConnection("SynReceived", isn, Plus(syn.seq, 1)),
                             syn.window), syn),
              {"SYN", "ACK"}, <<>>)

-----------------------------------------------------------------------------
(* Acknowledgements                                                        *)

IsDuplicateAckCandidate(seg, send_una, remote_window) ==
  /\ seg.ack = send_una
  /\ seg.data = <<>>
  /\ "SYN" \notin seg.flags
  /\ "FIN" \notin seg.flags
  /\ seg.window <= remote_window

\* ack = send_una: the third duplicate in a row is a loss.
CountDuplicate(c) ==
  [c EXCEPT !.duplicate_acks = CountUp(@), !.reno = RenoOnDuplicateAck(@, c.mss)]

FastLoss(c) == [c EXCEPT !.reno = RenoOnFastLoss(@, c.mss, InFlight(c))]

ApplyDuplicateAck(c, candidate) ==
  IF ~candidate \/ c.unacked = <<>> THEN Open([c EXCEPT !.duplicate_acks = 0], <<>>)
  ELSE IF c.duplicate_acks = 2 THEN RetransmitOldest(FastLoss(CountDuplicate(c)), FALSE)
  ELSE Open(CountDuplicate(c), <<>>)

\* Fault: an ACK of exactly the end of a segment leaves it in flight.
CoveredStrictly(c, ack) ==
  Cardinality({k \in DOMAIN c.unacked :
                 \A j \in 1 .. k : Before(TrackedEnd(c.unacked[j]), ack)})

\* The segments an ACK covers whole: the longest such prefix of unacked.
Covered(c, ack) ==
  Cardinality({k \in DOMAIN c.unacked :
                 \A j \in 1 .. k : BeforeOrEqual(TrackedEnd(c.unacked[j]), ack)})

\* The ACK ends inside t, which is neither SYN nor FIN.
EndsInside(t, ack) ==
  /\ Before(t.seq, ack)
  /\ Before(ack, TrackedEnd(t))
  /\ t.flags \cap {"SYN", "FIN"} = {}

TrimOf(t, ack) ==
  IF EndsInside(t, ack) THEN Smaller(Distance(t.seq, ack), Len(t.data)) ELSE 0

\* Fault: the payload is trimmed, the sequence number is not moved.
TrimDataOnly(rest, ack) ==
  IF rest # <<>> /\ EndsInside(Head(rest), ack)
  THEN [rest EXCEPT ![1].data = SubSeq(@, TrimOf(Head(rest), ack) + 1, Len(@))]
  ELSE rest

TrimFront(rest, ack) ==
  IF rest # <<>> /\ EndsInside(Head(rest), ack)
  THEN [rest EXCEPT ![1].seq = ack,
                    ![1].data = SubSeq(@, TrimOf(Head(rest), ack) + 1, Len(@))]
  ELSE rest

\* send_una moves to ack; "rest" stays in flight and "bytes" of payload are done.
Acknowledge(c, ack, rest, bytes) ==
  [c EXCEPT !.duplicate_acks = 0,
            !.unacked = rest,
            !.send_una = ack,
            !.rto_recovery_until = IF @ # None /\ ~Before(ack, @) THEN None ELSE @,
            !.reno = RenoOnAck(@, c.mss, bytes),
            !.acked = @ + bytes]

\* Fault: the trimmed part of a segment is not counted as acknowledged.
AckSplitUncounted(c, ack, gone, rest) ==
  Acknowledge(c, ack, TrimFront(rest, ack), PayloadBytes(gone))

AckSplit(c, ack, gone, rest) ==
  Acknowledge(c, ack, TrimFront(rest, ack),
              PayloadBytes(gone) + (IF rest = <<>> THEN 0 ELSE TrimOf(Head(rest), ack)))

\* ack > send_una: drop what it covers, trim the segment it ends inside of.
ApplyNewAck(c, ack) ==
  AckSplit(c, ack, SubSeq(c.unacked, 1, Covered(c, ack)),
           SubSeq(c.unacked, Covered(c, ack) + 1, Len(c.unacked)))

\* Fault: any ACK acknowledges the FIN in flight.
FinInFlight(c, ack) == \E k \in DOMAIN c.unacked : "FIN" \in c.unacked[k].flags

FinCovered(c, ack) == \E k \in 1 .. Covered(c, ack) : "FIN" \in c.unacked[k].flags

InSendInterval(c, ack) == InClosedInterval(ack, c.send_una, c.send_nxt)

ApplyAck(c, ack, candidate) ==
  IF ~InSendInterval(c, ack) THEN Open(c, <<>>)
  ELSE IF ack = c.send_una THEN ApplyDuplicateAck(c, candidate)
  ELSE Open(ApplyNewAck(c, ack), <<>>)

\* Fault: the ACK of the FIN does not end CLOSING.
AfterFinAckedOnce(state) == IF state = "FinWait1" THEN "FinWait2" ELSE state

AfterFinAcked(state) ==
  CASE state = "FinWait1" -> "FinWait2"
    [] state = "Closing"  -> "TimeWait"
    [] OTHER              -> state

-----------------------------------------------------------------------------
(* Receiving                                                               *)

Filed(c, chunk) ==
  \E r \in c.reassembly : r.seq = chunk.seq /\ ReassemblyEnd(r) = ReassemblyEnd(chunk)

\* Fault: the last slot of the table stays empty.
FileChunkShort(c, chunk) ==
  IF \/ chunk.data = <<>> /\ ~chunk.fin
     \/ Filed(c, chunk)
     \/ Cardinality(c.reassembly) + 1 >= MaxReassembly
  THEN c
  ELSE [c EXCEPT !.reassembly = @ \cup {chunk}]

\* File a chunk unless it is empty, filed already, or the table is full.
FileChunk(c, chunk) ==
  IF \/ chunk.data = <<>> /\ ~chunk.fin
     \/ Filed(c, chunk)
     \/ Cardinality(c.reassembly) >= MaxReassembly
  THEN c
  ELSE [c EXCEPT !.reassembly = @ \cup {chunk}]

\* Fault: the whole buffer counts as room, whatever it holds.
FitBuffer(c, start, end, data, fin) ==
  LET room == SaturatingSub(ReceiveBuffer, Distance(c.recv_nxt, start))
  IN  [seq |-> start, data |-> SubSeq(data, 1, Smaller(Len(data), room)),
       fin |-> fin /\ Len(data) <= room /\ end = Plus(start, Len(data))]

\* The part of data from place start on that fits the window.  The FIN stays
\* only if all of it fits and start is not past the end.
FitWindow(c, start, end, data, fin) ==
  LET room == SaturatingSub(AvailableWindow(c), Distance(c.recv_nxt, start))
  IN  [seq |-> start, data |-> SubSeq(data, 1, Smaller(Len(data), room)),
       fin |-> fin /\ Len(data) <= room /\ end = Plus(start, Len(data))]

\* Fault: a retransmission that overlaps what was received is not trimmed.
InsertUntrimmed(c, seq, data, fin) ==
  IF Before(seq, c.recv_nxt)
  THEN FileChunk(c, FitWindow(c, c.recv_nxt, Plus(seq, Len(data)), data, fin))
  ELSE IF After(seq, c.recv_nxt) /\ Distance(c.recv_nxt, seq) >= AvailableWindow(c)
  THEN c
  ELSE FileChunk(c, FitWindow(c, seq, Plus(seq, Len(data)), data, fin))

\* insert_received: drop what was received before, cut at the window, file.
InsertReceived(c, seq, data, fin) ==
  IF Before(seq, c.recv_nxt)
  THEN FileChunk(c, FitWindow(c, c.recv_nxt, Plus(seq, Len(data)),
                              SubSeq(data, Distance(seq, c.recv_nxt) + 1, Len(data)), fin))
  ELSE IF After(seq, c.recv_nxt) /\ Distance(c.recv_nxt, seq) >= AvailableWindow(c)
  THEN c
  ELSE FileChunk(c, FitWindow(c, seq, Plus(seq, Len(data)), data, fin))

AfterRemoteFin(state) ==
  CASE state = "Established" -> "CloseWait"
    [] state = "FinWait1"    -> "Closing"
    [] state = "FinWait2"    -> "TimeWait"
    [] OTHER                 -> state

\* drain_reassembly.  Place o is o bytes past recv_nxt; the run is the longest
\* stretch of places from 0 the table covers.  Capacity never cuts it
\* (BufferBound), so no chunk is left half drained.
Place(c, o) == Plus(c.recv_nxt, o)

Holds(r, place) == Distance(r.seq, place) < Len(r.data)

Run(c) ==
  Cardinality({n \in 1 .. HeldBytes(c) :
                 \A o \in 0 .. n - 1 : \E r \in c.reassembly : Holds(r, Place(c, o))})

ByteAt(c, o) ==
  LET r == CHOOSE x \in c.reassembly : Holds(x, Place(c, o))
  IN  r.data[Distance(r.seq, Place(c, o)) + 1]

\* Fault: a FIN counts as soon as it is filed.
AnyFin(c, o) == \E r \in c.reassembly : r.fin

FinAt(c, o) ==
  \E r \in c.reassembly : r.fin /\ Plus(r.seq, Len(r.data)) = Place(c, o)

\* Fault: a chunk that ends where the run ends stays in the table.
TakeInKeeping(c, run, fin, next) ==
  [c EXCEPT !.recv_queue = @ \o [i \in 1 .. run |-> ByteAt(c, i - 1)],
            !.recv_nxt = next,
            !.reassembly = {r \in @ : ~Before(ReassemblyEnd(r), next)},
            !.read_closed = @ \/ fin,
            !.state = IF fin THEN AfterRemoteFin(@) ELSE @]

\* Take in the run and the FIN behind it; keep the chunks that end further on.
TakeIn(c, run, fin, next) ==
  [c EXCEPT !.recv_queue = @ \o [i \in 1 .. run |-> ByteAt(c, i - 1)],
            !.recv_nxt = next,
            !.reassembly = {r \in @ : ~BeforeOrEqual(ReassemblyEnd(r), next)},
            !.read_closed = @ \/ fin,
            !.state = IF fin THEN AfterRemoteFin(@) ELSE @]

TakeRun(c, run, fin) == TakeIn(c, run, fin, Place(c, run + Units(fin)))

DrainRun(c, run) == TakeRun(c, run, FinAt(c, run))

DrainReassembly(c) == DrainRun(c, Run(c))

AndAcknowledge(c) == Open(c, <<AckSegment(c)>>)

\* receive_stream_data, for a segment with a payload or a FIN.
ReceiveStreamData(c, seg) ==
  IF seg.data = <<>> /\ "FIN" \notin seg.flags THEN Open(c, <<>>)
  ELSE AndAcknowledge(DrainReassembly(
         InsertReceived(c, seg.seq, seg.data, "FIN" \in seg.flags)))

AndReceive(u, seg) == Then(u, ReceiveStreamData(u.conn, seg))

-----------------------------------------------------------------------------
(* on_segment                                                              *)

\* Fault: any reset ends a synchronized connection.
OnAnyReset(c, seg) ==
  IF c.state = "SynSent" /\ (seg.ack = None \/ seg.ack # c.send_nxt)
  THEN Open(c, <<>>) ELSE Closed(c, <<>>)

\* An RST must name recv_nxt exactly; elsewhere in the window it is challenged.
OnReset(c, seg) ==
  IF c.state = "SynSent"
  THEN IF /\ seg.ack # None
          /\ After(seg.ack, c.send_una)
          /\ ~After(seg.ack, c.send_nxt)
       THEN Closed(c, <<>>) ELSE Open(c, <<>>)
  ELSE IF seg.seq = c.recv_nxt THEN Closed(c, <<>>)
  ELSE IF Distance(c.recv_nxt, seg.seq) < AvailableWindow(c)
  THEN Open(c, <<AckSegment(c)>>)
  ELSE Open(c, <<>>)

OnSegmentSynSent(c, seg) ==
  IF {"SYN", "ACK"} \subseteq seg.flags /\ seg.ack = c.send_nxt
  THEN AndAcknowledge(
         [ApplyAck(NegotiateMss(UpdateRemoteWindow(c, seg.window), seg), c.send_nxt, FALSE).conn
            EXCEPT !.recv_nxt = Plus(seg.seq, 1), !.state = "Established"])
  ELSE Open(c, <<>>)

\* The ACK of the SYN-ACK opens the connection and queues it for accept().
OnHandshakeAck(c, seg) ==
  AndFlush(ReceiveStreamData(
    [UpdateRemoteWindow(ApplyAck(c, c.send_nxt, FALSE).conn, seg.window)
       EXCEPT !.state = "Established"], seg))

OnSegmentSynReceived(c, seg) ==
  IF "SYN" \in seg.flags /\ "ACK" \notin seg.flags /\ Plus(seg.seq, 1) = c.recv_nxt
  THEN RetransmitOldest(c, FALSE)
  ELSE IF seg.ack # c.send_nxt THEN Open(c, <<>>)
  ELSE [OnHandshakeAck(c, seg) EXCEPT !.accepted = TRUE]

\* The acknowledgement half of on_segment in a synchronized state: the ACK,
\* the FIN it may cover, the advertised window, then the repair of a hole.
FinAcked(c, seg) ==
  InSendInterval(c, seg.ack) /\ seg.ack # c.send_una /\ FinCovered(c, seg.ack)

NoteFinAcked(c, fin) == [c EXCEPT !.state = IF fin THEN AfterFinAcked(@) ELSE @]

NoteWindow(c, seg) ==
  IF InSendInterval(c, seg.ack) THEN UpdateRemoteWindow(c, seg.window) ELSE c

AndRepair(u, c, seg) ==
  Then(u, IF After(u.conn.send_una, c.send_una)
          THEN RepairTimedOutFlight(NoteWindow(NoteFinAcked(u.conn, FinAcked(c, seg)), seg))
          ELSE Open(NoteWindow(NoteFinAcked(u.conn, FinAcked(c, seg)), seg), <<>>))

OnApplied(c, seg, applied) ==
  IF c.state = "LastAck" /\ FinAcked(c, seg)
  THEN Closed(applied.conn, applied.segments)
  ELSE AndRepair(applied, c, seg)

OnAck(c, seg) ==
  OnApplied(c, seg,
    ApplyAck(c, seg.ack, IsDuplicateAckCandidate(seg, c.send_una, c.remote_window)))

\* Fault: a window that opens does not release what waits in the queue.
ContinueWithoutFlush(u, seg) == IF u.closed THEN u ELSE AndReceive(u, seg)

Continue(u, seg) == IF u.closed THEN u ELSE AndFlush(AndReceive(u, seg))

OnSegmentSynchronized(c, seg) ==
  Continue(IF seg.ack = None THEN Open(c, <<>>) ELSE OnAck(c, seg), seg)

OnSegment(c, seg) ==
  IF "RST" \in seg.flags THEN OnReset(c, seg)
  ELSE IF c.state = "SynSent" THEN OnSegmentSynSent(c, seg)
  ELSE IF c.state = "SynReceived" THEN OnSegmentSynReceived(c, seg)
  ELSE OnSegmentSynchronized(c, seg)

-----------------------------------------------------------------------------
(* Stack::input for a tuple in the lookup table                            *)

\* SYN-SENT: an ACK that acknowledges nothing this connection sent.
StaleHandshakeAck(c, seg) ==
  /\ c.state = "SynSent"
  /\ "RST" \notin seg.flags
  /\ seg.ack # None
  /\ ~After(seg.ack, c.send_una) \/ After(seg.ack, c.send_nxt)

\* Fault: a SYN for an established connection is not challenged.
UnexpectedSynInHandshake(c, seg) ==
  /\ c.state = "SynReceived"
  /\ "RST" \notin seg.flags
  /\ "SYN" \in seg.flags
  /\ Plus(seg.seq, 1) # c.recv_nxt

\* Past SYN-SENT: a SYN that is not the one the connection was created from.
UnexpectedSyn(c, seg) ==
  /\ c.state # "SynSent"
  /\ "RST" \notin seg.flags
  /\ "SYN" \in seg.flags
  /\ c.state # "SynReceived" \/ Plus(seg.seq, 1) # c.recv_nxt

InputKnown(c, seg) ==
  IF StaleHandshakeAck(c, seg) THEN Open(c, <<ResetFor(seg)>>)
  ELSE IF UnexpectedSyn(c, seg) THEN Open(c, <<AckSegment(c)>>)
  ELSE OnSegment(c, seg)

-----------------------------------------------------------------------------
(* Application calls and timers                                            *)

Writable(c) == c.state \in {"Established", "CloseWait"} /\ ~c.close_requested

\* How many of n bytes offered to write() the send buffer takes.
WriteAccepts(c, n) ==
  Smaller(n, SaturatingSub(SendBuffer, Len(c.send_queue) + PayloadBytes(c.unacked)))

Accept(c, data, n) ==
  [c EXCEPT !.send_queue = @ \o SubSeq(data, 1, n), !.accepted = @ + n]

Write(c, data) == FlushData(Accept(c, data, WriteAccepts(c, Len(data))))

\* The window grew: tell the peer, unless there is no peer to tell yet or any more.
AfterRead(c, d) ==
  IF /\ AvailableWindow(d) > AvailableWindow(c)
     /\ c.state \notin {"SynSent", "SynReceived", "TimeWait"}
  THEN AndAcknowledge(d)
  ELSE Open(d, <<>>)

Read(c, max) ==
  AfterRead(c, [c EXCEPT !.recv_queue =
                  SubSeq(@, Smaller(max, Len(@)) + 1, Len(@))])

\* Fault: close leaves the FIN to a later event.
CloseWithoutFlush(c) ==
  CASE c.state \in {"Established", "CloseWait"} ->
         Open([c EXCEPT !.close_requested = TRUE], <<>>)
    [] c.state \in {"SynSent", "SynReceived"} -> Closed(c, <<>>)
    [] OTHER -> Open(c, <<>>)

Close(c) ==
  CASE c.state \in {"Established", "CloseWait"} ->
         FlushData([c EXCEPT !.close_requested = TRUE])
    [] c.state \in {"SynSent", "SynReceived"} -> Closed(c, <<>>)
    [] OTHER -> Open(c, <<>>)

HasProbePayload(c) ==
  c.send_queue # <<>> \/ \E i \in DOMAIN c.unacked : c.unacked[i].data # <<>>

\* Fault: no deadline for a peer that never closes.
OnlyTimeWaitArmed(c) == c.state = "TimeWait"

CloseDeadlineArmed(c) == c.state \in {"FinWait2", "TimeWait"}

\* Fault: queued payload does not keep the probe timer running.
OnlyCloseProbes(c) == c.remote_window = 0 /\ c.close_requested

ZeroWindowWork(c) == c.remote_window = 0 /\ (c.close_requested \/ HasProbePayload(c))

\* The two halves of poll's retry: which one runs depends on the peer's window.
CountProbe(u) == [u EXCEPT !.conn.zero_window_probes = CountUp(@)]

PollProbe(c) ==
  IF c.zero_window_probes >= MaxTransmissions THEN Closed(c, <<>>)
  ELSE IF ~HasProbePayload(c) THEN Open(c, <<>>)
  ELSE CountProbe(ZeroWindowProbe(c))

\* Fault: the budget ends one attempt early.
PollRetransmitShort(c) ==
  IF Head(c.unacked).transmissions + 1 >= MaxTransmissions THEN Closed(c, <<>>)
  ELSE AndFlush(RetransmitOldest(
         [c EXCEPT !.rto_recovery_until = IF @ = None THEN c.send_nxt ELSE @,
                   !.reno = RenoOnTimeout(@, c.mss, InFlight(c))], TRUE))

PollRetransmit(c) ==
  IF Head(c.unacked).transmissions >= MaxTransmissions THEN Closed(c, <<>>)
  ELSE AndFlush(RetransmitOldest(
         [c EXCEPT !.rto_recovery_until = IF @ = None THEN c.send_nxt ELSE @,
                   !.reno = RenoOnTimeout(@, c.mss, InFlight(c))], TRUE))

\* poll, given whether the close deadline and the retry deadline have passed.
Poll(c, closeDue, retryDue) ==
  IF CloseDeadlineArmed(c) /\ closeDue THEN Closed(c, <<>>)
  ELSE IF ZeroWindowWork(c)
  THEN IF retryDue THEN PollProbe(c) ELSE Open(c, <<>>)
  ELSE IF retryDue /\ c.unacked # <<>> THEN PollRetransmit(c)
  ELSE FlushData(c)
=============================================================================
