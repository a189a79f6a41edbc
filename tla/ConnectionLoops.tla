-------------------------- MODULE ConnectionLoops --------------------------
(***************************************************************************)
(* Three methods of Connection<P> loop: apply_ack pops what an ACK covers, *)
(* flush_data cuts the send queue into segments, drain_reassembly moves    *)
(* chunks to the receive queue.  Connection.tla gives their results in     *)
(* closed form; here the loops are written as the code runs them, one      *)
(* iteration at a time, and the two are compared on every small input.     *)
(***************************************************************************)
EXTENDS Connection, SequencesExt

CONSTANTS
  MaxQueue,     \* longest send queue
  MaxChunks,    \* chunks in the reassembly table
  StreamEnd     \* the FIN of the received stream is at this place

VARIABLES
  c,            \* the connection the method is called on
  table,        \* the order of its reassembly table, a Vec in the code
  ack,          \* the acknowledgment number for apply_ack
  done

vars == <<c, table, ack, done>>

-----------------------------------------------------------------------------
(* The loops                                                               *)

\* One pass of flush_data's loop after another, then the FIN.
RECURSIVE FlushLoop(_, _)
FlushLoop(d, output) ==
  LET count == Smaller(Smaller(SendAllowance(d), d.mss), Len(d.send_queue))
      u     == SendTracked([d EXCEPT !.send_queue = SubSeq(@, count + 1, Len(@))],
                           {"ACK"}, SubSeq(d.send_queue, 1, count))
      f     == SendTracked([d EXCEPT !.close_requested = FALSE,
                                     !.state = IF @ = "Established" THEN "FinWait1"
                                                                    ELSE "LastAck"],
                           {"FIN", "ACK"}, <<>>)
  IN  IF SendAllowance(d) # 0 /\ d.send_queue # <<>>
      THEN FlushLoop(u.conn, output \o u.segments)
      ELSE IF d.close_requested /\ d.send_queue = <<>> /\ SendAllowance(d) > 0
      THEN Open(f.conn, output \o f.segments)
      ELSE Open(d, output)

FlushByLoop(d) ==
  IF d.state \notin {"Established", "CloseWait"} THEN Open(d, <<>>) ELSE FlushLoop(d, <<>>)

\* drain_reassembly: retain, find the first chunk that starts at or before
\* recv_nxt, trim it, take what fits, put back the rest and stop, or go on.
RECURSIVE DrainLoop(_, _)
DrainLoop(d, chunks) ==
  LET kept   == SelectSeq(chunks,
                  LAMBDA r : \/ ~BeforeOrEqual(ReassemblyEnd(r), d.recv_nxt)
                             \/ r.fin /\ ReassemblyEnd(r) = Plus(d.recv_nxt, 1))
      ready  == {i \in DOMAIN kept : BeforeOrEqual(kept[i].seq, d.recv_nxt)}
      index  == CHOOSE i \in ready : \A j \in ready : i <= j
      chunk  == kept[index]
      trim   == IF Before(chunk.seq, d.recv_nxt)
                THEN Smaller(Distance(chunk.seq, d.recv_nxt), Len(chunk.data)) ELSE 0
      data   == SubSeq(chunk.data, trim + 1, Len(chunk.data))
      taken  == Smaller(SaturatingSub(ReceiveBuffer, Len(d.recv_queue)), Len(data))
      rest   == SubSeq(data, taken + 1, Len(data))
      others == RemoveAt(kept, index)
      d1     == [d EXCEPT !.recv_queue = @ \o SubSeq(data, 1, taken),
                          !.recv_nxt = Plus(@, taken)]
      d2     == [d1 EXCEPT !.recv_nxt = Plus(@, 1), !.read_closed = TRUE,
                           !.state = AfterRemoteFin(@)]
  IN  IF ready = {} THEN [d EXCEPT !.reassembly = ToSet(kept)]
      ELSE IF rest # <<>>
      THEN [d1 EXCEPT !.reassembly = ToSet(others) \cup
              {[seq |-> d1.recv_nxt, data |-> rest, fin |-> chunk.fin]}]
      ELSE DrainLoop(IF chunk.fin THEN d2 ELSE d1, others)

\* apply_ack's pop loop: what is left of unacked, and the payload popped.
RECURSIVE PopLoop(_, _, _)
PopLoop(queue, upTo, bytes) ==
  IF queue # <<>> /\ BeforeOrEqual(TrackedEnd(Head(queue)), upTo)
  THEN PopLoop(Tail(queue), upTo, bytes + Len(Head(queue).data))
  ELSE [queue |-> queue, bytes |-> bytes]

-----------------------------------------------------------------------------
(* Every small connection the methods can be called on                     *)

Fresh == [NewConnection("Established", Modulus - 2, Modulus - 2) EXCEPT !.remote_window = 0]

Bytes(from, n) == [k \in 1 .. n |-> <<1, from + k>>]

\* A send queue, a window, an mss and a close request.
Senders ==
  {[Fresh EXCEPT !.send_queue = Bytes(0, n), !.remote_window = w, !.mss = m,
                 !.reno.cwnd = w, !.close_requested = closing, !.state = state] :
     n \in 0 .. MaxQueue, w \in 0 .. MaxQueue + 1, m \in 1 .. 3, closing \in BOOLEAN,
     state \in {"Established", "CloseWait", "FinWait1"}}

\* A reassembly table whose chunks come from one stream that ends in a FIN.
Samples ==
  LET chunk(from, n, fin) ==
        [seq |-> Plus(Fresh.recv_nxt, from), data |-> Bytes(from, n), fin |-> fin]
  IN  {chunk(from, n, FALSE) : from \in 0 .. StreamEnd - 1, n \in 1 .. 2}
      \cup {chunk(StreamEnd - n, n, TRUE) : n \in 0 .. 2}

Tables ==
  {t \in UNION {[1 .. n -> Samples] : n \in 0 .. MaxChunks} : IsInjective(t)}

Receiver(t, state) == [Fresh EXCEPT !.reassembly = ToSet(t), !.state = state]

\* Three segments in flight, of the given lengths, the last a FIN.
InFlightOf(a, b) ==
  SendTracked(SendTracked(SendTracked(Fresh, {"ACK"}, Bytes(0, a)).conn,
                          {"ACK"}, Bytes(a, b)).conn,
              {"FIN", "ACK"}, <<>>).conn

Init ==
  /\ done = FALSE
  /\ \/ c \in Senders /\ table = <<>> /\ ack = None
     \/ /\ table \in Tables
        /\ c \in {Receiver(table, state) : state \in {"Established", "FinWait1", "FinWait2"}}
        /\ HeldBytes(c) <= ReceiveBuffer
        /\ ack = None
     \/ /\ c \in {InFlightOf(a, b) : a \in 1 .. 3, b \in 1 .. 3}
        /\ table = <<>>
        /\ ack \in {x \in SeqNumber : InSendInterval(c, x) /\ x # c.send_una}

Compare == ~done /\ done' = TRUE /\ UNCHANGED <<c, table, ack>>

Spec == Init /\ [][Compare]_vars

\* flush_data sends what its loop sends and leaves what its loop leaves.
FlushAgrees == FlushData(c) = FlushByLoop(c)

\* drain_reassembly takes in what its loop takes in, whatever the order and
\* the overlap of the chunks, and never puts part of a chunk back.
DrainAgrees == DrainReassembly(c) = DrainLoop(c, table)

\* apply_ack pops the segments its loop pops and counts their payload once.
AckAgrees ==
  ack # None =>
    LET popped == PopLoop(c.unacked, ack, 0)
        n      == Covered(c, ack)
    IN  /\ popped.queue = SubSeq(c.unacked, n + 1, Len(c.unacked))
        /\ popped.bytes = PayloadBytes(SubSeq(c.unacked, 1, n))
=============================================================================
