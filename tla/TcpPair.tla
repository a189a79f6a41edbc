------------------------------ MODULE TcpPair ------------------------------
(***************************************************************************)
(* Two TCP/FIPS stacks, one tuple, and the carrier between them.           *)
(*                                                                         *)
(* Each side runs Stack::input, poll, write, read, close and abort of      *)
(* stack.rs and stack_abort.rs on the one connection it may hold for the   *)
(* tuple; the carrier delivers datagrams in any order and may lose or      *)
(* repeat some.  A side may lose all its state and connect again.          *)
(***************************************************************************)
EXTENDS Connection, Bags, BagsExt

CONSTANTS
  Side,             \* the two endpoints
  Opener,           \* the side that connects
  Isn,              \* Isn[s]: the initial sequence numbers of s, one per connection
  WriteLimit,       \* WriteLimit[s]: bytes the application of s writes per connection
  ReadSizes,        \* the "max" a read asks for
  MaxLosses,        \* datagrams the carrier loses
  MaxCopies,        \* datagrams delivered a second time, and timers that overtake an answer
  EarlyTimeouts,    \* whether a retry timer may expire with datagrams in flight
  MaxCrashes,       \* times a side loses its state
  Closing,          \* the sides whose application may close
  Aborting,         \* the sides whose application may abort
  PromptReaders     \* whether applications read before any retry timer expires

ASSUME PairAssumption ==
  /\ Opener \in Side
  /\ \E p \in Side : Side = {Opener, p} /\ p # Opener
  /\ Isn \in [Side -> Seq(SeqNumber)]
  /\ WriteLimit \in [Side -> Nat]
  /\ ReadSizes \subseteq Nat \ {0}
  /\ MaxLosses \in Nat /\ MaxCopies \in Nat /\ MaxCrashes \in Nat
  /\ Closing \subseteq Side /\ Aborting \subseteq Side
  /\ EarlyTimeouts \in BOOLEAN /\ PromptReaders \in BOOLEAN

VARIABLES
  conn,        \* conn[s]: the connection in s's lookup table, or NoConn
  net,         \* net[s]: the datagrams on their way to s, a bag
  opened,      \* opened[s]: how many connections s has created
  accepted,    \* accepted[s]: accept() has had the connection to return
  sent,        \* sent[s]: bytes s's applications wrote, per connection of s
  received,    \* received[s]: the bytes taken in, in order, per connection of s
  losses, copies, crashes

vars == <<conn, net, opened, accepted, sent, received, losses, copies, crashes>>

NoConn == [state |-> "Closed"]

Peer(s) == CHOOSE p \in Side : p # s

Connected(s) == conn[s] # NoConn

\* The k-th byte written on the i-th connection of a side.
Stream(i, k) == <<i, k>>

BagOfSeq(q) == [x \in {q[i] : i \in DOMAIN q} |-> Cardinality({i \in DOMAIN q : q[i] = x})]

\* Hand segments to the carrier.
Send(n, s, segments) == [n EXCEPT ![Peer(s)] = @ (+) BagOfSeq(segments)]

\* Stack::emit and remove_connection after a method of the connection of s.
Settle(s, u, n) ==
  /\ conn' = [conn EXCEPT ![s] = IF u.closed THEN NoConn ELSE u.conn]
  /\ net' = Send(n, s, u.segments)

Init ==
  /\ conn = [s \in Side |-> NoConn]
  /\ net = [s \in Side |-> EmptyBag]
  /\ opened = [s \in Side |-> 0]
  /\ accepted = [s \in Side |-> FALSE]
  /\ sent = [s \in Side |-> <<>>]
  /\ received = [s \in Side |-> <<>>]
  /\ losses = 0 /\ copies = 0 /\ crashes = 0

-----------------------------------------------------------------------------
(* Connections come into being                                             *)

\* A new connection of s starts a new stream in both directions.
StartStream(s) ==
  /\ opened' = [opened EXCEPT ![s] = @ + 1]
  /\ sent' = [sent EXCEPT ![s] = Append(@, 0)]
  /\ received' = [received EXCEPT ![s] = Append(@, <<>>)]

MayOpen(s) == opened[s] < Len(Isn[s])

\* connect_from_with_isn
Connect(s) ==
  /\ s = Opener
  /\ ~Connected(s)
  /\ MayOpen(s)
  /\ Settle(s, Client(Isn[s][opened[s] + 1]), net)
  /\ StartStream(s)
  /\ accepted' = [accepted EXCEPT ![s] = TRUE]
  /\ UNCHANGED <<losses, copies, crashes>>

-----------------------------------------------------------------------------
(* Stack::input                                                            *)

Listening(s) == s # Opener

IsSynRequest(seg) == "SYN" \in seg.flags /\ "ACK" \notin seg.flags

\* The tuple is unknown: a listener answers a SYN with a new connection.
InputSyn(s, seg, n) ==
  /\ ~Connected(s) /\ Listening(s) /\ IsSynRequest(seg)
  /\ MayOpen(s)
  /\ Settle(s, Server(seg, Isn[s][opened[s] + 1]), n)
  /\ StartStream(s)
  /\ accepted' = [accepted EXCEPT ![s] = FALSE]

\* Fault: segments of an unknown tuple are dropped.
InputUnknownSilently(s, seg, n) ==
  /\ ~Connected(s) /\ ~(Listening(s) /\ IsSynRequest(seg))
  /\ net' = n
  /\ UNCHANGED <<conn, opened, accepted, sent, received>>

\* The tuple is unknown: anything else is reset, unless it is a reset.
InputUnknown(s, seg, n) ==
  /\ ~Connected(s) /\ ~(Listening(s) /\ IsSynRequest(seg))
  /\ net' = IF "RST" \in seg.flags THEN n ELSE Send(n, s, <<ResetFor(seg)>>)
  /\ UNCHANGED <<conn, opened, accepted, sent, received>>

Arrived(c, d) == SubSeq(d.recv_queue, Len(c.recv_queue) + 1, Len(d.recv_queue))

Apply(s, u, n) ==
  /\ Settle(s, u, n)
  /\ accepted' = [accepted EXCEPT ![s] = @ \/ u.accepted]
  /\ received' = [received EXCEPT ![s][opened[s]] = @ \o Arrived(conn[s], u.conn)]
  /\ UNCHANGED <<opened, sent>>

InputConnected(s, seg, n) == Connected(s) /\ Apply(s, InputKnown(conn[s], seg), n)

Input(s, seg, n) ==
  InputSyn(s, seg, n) \/ InputUnknown(s, seg, n) \/ InputConnected(s, seg, n)

-----------------------------------------------------------------------------
(* The carrier                                                             *)

Deliver(s, seg) ==
  /\ Input(s, seg, [net EXCEPT ![s] = BagRemove(@, seg)])
  /\ UNCHANGED <<losses, copies, crashes>>

\* A datagram is delivered and a second copy of it stays in flight.
DeliverCopy(s, seg) ==
  /\ copies < MaxCopies
  /\ copies' = copies + 1
  /\ Input(s, seg, net)
  /\ UNCHANGED <<losses, crashes>>

Lose(s, seg) ==
  /\ losses < MaxLosses
  /\ losses' = losses + 1
  /\ net' = [net EXCEPT ![s] = BagRemove(@, seg)]
  /\ UNCHANGED <<conn, opened, accepted, sent, received, copies, crashes>>

-----------------------------------------------------------------------------
(* Timers: Stack::poll                                                     *)

Held(s) == Connected(s) /\ accepted[s]

CanRead(s) == Held(s) /\ conn[s].recv_queue # <<>>

Quiet == \A s \in Side : net[s] = EmptyBag

CloseExpires(s) ==
  /\ Connected(s)
  /\ CloseDeadlineArmed(conn[s])
  /\ Settle(s, Poll(conn[s], TRUE, FALSE), net)
  /\ UNCHANGED <<opened, accepted, sent, received, losses, copies, crashes>>

\* A retry deadline that next_poll_at reports.  It passes when no answer can be
\* on its way any more or, with EarlyTimeouts, MaxCopies times before.
RetryPending(s) ==
  /\ Connected(s)
  /\ Quiet \/ (EarlyTimeouts /\ copies < MaxCopies)
  /\ PromptReaders => \A p \in Side : ~CanRead(p)
  /\ IF ZeroWindowWork(conn[s])
     THEN HasProbePayload(conn[s]) \/ conn[s].zero_window_probes >= MaxTransmissions
     ELSE conn[s].unacked # <<>>

RetryExpires(s) ==
  /\ RetryPending(s)
  /\ Settle(s, Poll(conn[s], FALSE, TRUE), net)
  /\ copies' = IF Quiet THEN copies ELSE copies + 1
  /\ UNCHANGED <<opened, accepted, sent, received, losses, crashes>>

-----------------------------------------------------------------------------
(* The application: it holds a connection that connect or accept returned. *)

Written(s) == sent[s][opened[s]]

AppWrite(s, n) ==
  LET base == Written(s)
      data == [k \in 1 .. n |-> Stream(opened[s], base + k)]
  IN  /\ Held(s)
      /\ Writable(conn[s])
      /\ base + n <= WriteLimit[s]
      /\ Settle(s, Write(conn[s], data), net)
      /\ sent' = [sent EXCEPT ![s][opened[s]] = @ + WriteAccepts(conn[s], n)]
      /\ UNCHANGED <<opened, accepted, received, losses, copies, crashes>>

AppRead(s, max) ==
  /\ CanRead(s)
  /\ Settle(s, Read(conn[s], max), net)
  /\ UNCHANGED <<opened, accepted, sent, received, losses, copies, crashes>>

AppClose(s) ==
  /\ s \in Closing
  /\ Held(s)
  /\ Settle(s, Close(conn[s]), net)
  /\ UNCHANGED <<opened, accepted, sent, received, losses, copies, crashes>>

\* Stack::abort, with nothing of the tuple left in the outbound queue.
AppAbort(s) ==
  /\ s \in Aborting
  /\ Connected(s)
  /\ Settle(s, Closed(conn[s], <<ResetSegment(conn[s])>>), net)
  /\ UNCHANGED <<opened, accepted, sent, received, losses, copies, crashes>>

\* The process restarts with an empty Stack; its peer is not told.
Crash(s) ==
  /\ Connected(s)
  /\ crashes < MaxCrashes
  /\ crashes' = crashes + 1
  /\ conn' = [conn EXCEPT ![s] = NoConn]
  /\ UNCHANGED <<net, opened, accepted, sent, received, losses, copies>>

-----------------------------------------------------------------------------

Next ==
  \E s \in Side :
    \/ Connect(s)
    \/ \E seg \in BagToSet(net[s]) : Deliver(s, seg)
    \/ \E seg \in BagToSet(net[s]) : DeliverCopy(s, seg)
    \/ \E seg \in BagToSet(net[s]) : Lose(s, seg)
    \/ CloseExpires(s)
    \/ RetryExpires(s)
    \/ \E n \in 1 .. WriteLimit[s] : AppWrite(s, n)
    \/ \E max \in ReadSizes : AppRead(s, max)
    \/ AppClose(s)
    \/ AppAbort(s)
    \/ Crash(s)

Spec == Init /\ [][Next]_vars

\* What enables the actions that must happen.  TLC evaluates ENABLED of them
\* too slowly, so Fairness writes weak fairness out.
CanConnect(s) == s = Opener /\ ~Connected(s) /\ MayOpen(s)
CanTake(s) ==
  \E seg \in BagToSet(net[s]) :
    ~Connected(s) /\ Listening(s) /\ IsSynRequest(seg) => MayOpen(s)
CanExpire(s) == Connected(s) /\ CloseDeadlineArmed(conn[s])

DeliverAny(s) == \E seg \in BagToSet(net[s]) : Deliver(s, seg)
AppReadAny(s) == \E max \in ReadSizes : AppRead(s, max)

\* The driver flushes and polls, the carrier delivers what it does not lose,
\* and the application reads; nobody has to write, close, abort or crash.
Fairness ==
  \A s \in Side :
    /\ []<>~CanConnect(s)   \/ []<><<Connect(s)>>_vars
    /\ []<>~CanTake(s)      \/ []<><<DeliverAny(s)>>_vars
    /\ []<>~RetryPending(s) \/ []<><<RetryExpires(s)>>_vars
    /\ []<>~CanExpire(s)    \/ []<><<CloseExpires(s)>>_vars
    /\ []<>~CanRead(s)      \/ []<><<AppReadAny(s)>>_vars

FairSpec == Spec /\ Fairness

-----------------------------------------------------------------------------
(* Types                                                                   *)

CarriesSegments(n) ==
  /\ DOMAIN n = Side
  /\ \A s \in Side : IsABag(n[s]) /\ DOMAIN n[s] \subseteq Segment

\* Every variable, connection field and datagram keeps its type: sequence
\* numbers stay words, counters stay natural, queues hold bytes.
TypeOK ==
  /\ conn \in [Side -> Conn \cup {NoConn}]
  /\ CarriesSegments(net)
  /\ opened \in [Side -> Nat]
  /\ \A s \in Side : Connected(s) => opened[s] > 0
  /\ accepted \in [Side -> BOOLEAN]
  /\ sent \in [Side -> Seq(Nat)]
  /\ \A s \in Side : Len(sent[s]) = opened[s] /\ Len(received[s]) = opened[s]
  /\ received \in [Side -> Seq(Seq(Byte))]
  /\ losses \in Nat /\ copies \in Nat /\ crashes \in Nat

\* The handshake of s is over.
Synchronized(s) == Connected(s) /\ conn[s].state \notin {"SynSent", "SynReceived"}

-----------------------------------------------------------------------------
(* The books of one connection                                             *)

\* Every accepted byte is in exactly one place: acknowledged, in flight or
\* queued.  Partial ACKs, probes and retransmissions move bytes and lose none
\* (apply_ack, zero_window_probe; the debug_assert in SendProgress::acknowledge).
ByteLedger ==
  \A s \in Side : Connected(s) =>
    conn[s].accepted = conn[s].acked + PayloadBytes(conn[s].unacked) + Len(conn[s].send_queue)

\* The retransmission queue tiles [send_una, send_nxt): no gap, no overlap.
FlightTiled(c) ==
  LET n == Len(c.unacked)
  IN  /\ \A i \in 1 .. n - 1 : TrackedEnd(c.unacked[i]) = c.unacked[i + 1].seq
      /\ IF n = 0 THEN c.send_una = c.send_nxt
         ELSE c.unacked[1].seq = c.send_una /\ TrackedEnd(c.unacked[n]) = c.send_nxt

\* Otherwise an ACK could leave bytes in flight that no timer would resend.
FlightIsTiled == \A s \in Side : Connected(s) => FlightTiled(conn[s])

\* The receive side never holds more than it advertised room for, overlapping
\* chunks counted twice, so drain_reassembly never meets a full queue.
BufferBound ==
  \A s \in Side : Connected(s) =>
    Len(conn[s].recv_queue) + HeldBytes(conn[s]) <= ReceiveBuffer

\* Timer retries, fast retransmits, SYN repeats and repairs share one budget;
\* the first send is free, as Config allows a budget of zero (retransmit_oldest).
TransmissionBudget ==
  \A s \in Side : Connected(s) =>
    \A i \in DOMAIN conn[s].unacked : conn[s].unacked[i].transmissions <= Larger(MaxTransmissions, 1)

\* next_poll_at looks at timers only, so between steps nothing that flow and
\* congestion control would let out may wait in the queue (flush_data's callers).
NothingSendableWaits ==
  \A s \in Side : Connected(s) => FlushData(conn[s]) = Open(conn[s], <<>>)

-----------------------------------------------------------------------------
(* The two ends together                                                   *)

\* A side that saw its FIN acknowledged has a peer that took the FIN in, and
\* one that took in a FIN has a peer that sent it (on_segment, on_remote_fin).
ClosingAgrees ==
  \A s \in Side : Connected(s) /\ Synchronized(Peer(s)) =>
    /\ conn[s].state \in {"FinWait2", "TimeWait"} => conn[Peer(s)].read_closed
    /\ conn[s].read_closed =>
         conn[Peer(s)].state \notin {"Established", "CloseWait"}

\* Sequence numbers agree: nothing is acknowledged that was not received, and
\* nothing received that was not sent.
WindowsNest ==
  \A s \in Side : Synchronized(s) /\ Synchronized(Peer(s)) =>
    /\ BeforeOrEqual(conn[s].send_una, conn[Peer(s)].recv_nxt)
    /\ BeforeOrEqual(conn[Peer(s)].recv_nxt, conn[s].send_nxt)

-----------------------------------------------------------------------------
(* Steps                                                                   *)

\* The step delivers seg to s.
Delivers(s, seg) == seg \in BagToSet(net[s]) /\ (Deliver(s, seg) \/ DeliverCopy(s, seg))

\* The byte a receiver waits for is never refused while its window has room:
\* each delivery of it moves recv_nxt (insert_received).
HeadOfLineAccepted ==
  [][\A s \in Side : Connected(s) /\ conn'[s] # NoConn /\ Synchronized(s) =>
       \A seg \in BagToSet(net[s]) :
         /\ seg.data # <<>> /\ "RST" \notin seg.flags /\ "SYN" \notin seg.flags
         /\ seg.seq = conn[s].recv_nxt /\ AvailableWindow(conn[s]) > 0
         /\ Delivers(s, seg)
         => conn'[s].recv_nxt # conn[s].recv_nxt]_vars

\* A connection whose peer still keeps its side is never removed by a reset.
ResetOnlyOrphans ==
  [][\A s \in Side : Synchronized(s) /\ conn'[s] = NoConn /\ Synchronized(Peer(s)) =>
       ~ \E seg \in BagToSet(net[s]) : "RST" \in seg.flags /\ Delivers(s, seg)]_vars

\* A retry timer gives up only after the carrier lost a datagram for every
\* attempt but one, or while the peer keeps its window shut (poll, the
\* transmission budget).  One attempt is free: the receiver may itself refuse a
\* first send, because chunks held ahead of a hole shrink its window from the
\* right.  A retry is the byte it waits for and must be taken.  A repeated ACK
\* may start a retransmission and a timer that overtakes its ACK repeats one:
\* each spends an attempt as well.
GivesUpOnlyOnLoss ==
  [][\A s \in Side :
       /\ Synchronized(s) /\ conn'[s] = NoConn /\ RetryExpires(s)
       /\ Synchronized(Peer(s)) /\ conn[s].remote_window > 0
       => losses + copies' + 1 >= MaxTransmissions]_vars

-----------------------------------------------------------------------------
(* Progress                                                                *)

TookIn(s, n) == opened[s] > 0 /\ Len(received[s][1]) >= n

\* Every byte written reaches the peer's stream, if the carrier loses fewer
\* datagrams than a segment has transmissions and the peer reads.
Delivered ==
  \A s \in Side : \A n \in 1 .. WriteLimit[s] : sent[s] = <<n>> ~> TookIn(Peer(s), n)

\* A close that sent its FIN runs to its end and frees the tuple, whether the
\* peer closes before, at the same time, after it or never (on_segment,
\* on_remote_fin, close_deadline).  One that waits on a shut window has not sent
\* its FIN: see CloseSendsFin.
CloseFinishes ==
  \A s \in Side : s \in Closing =>
    (Connected(s) /\ conn[s].state \notin {"SynSent", "SynReceived", "Established", "CloseWait"})
      ~> ~Connected(s)

\* A pending close sends its FIN unless the last window heard from the peer is
\* zero: zero_window_probe has no byte to probe with.
CloseSendsFin ==
  \A s \in Side :
    (Connected(s) /\ conn[s].close_requested)
      ~> (~Connected(s) \/ ~conn[s].close_requested \/ conn[s].remote_window = 0)

\* If no reset is lost, an abort frees the tuple on the other side too, even
\* when the reset overtakes data and is dropped or challenged (on_reset).
AbortReachesPeer ==
  \A s \in Side : Peer(s) \in Aborting =>
    (Synchronized(s) /\ ~Connected(Peer(s))) ~> (~Connected(s) \/ Connected(Peer(s)))

\* After the opener restarts, the challenge ACK, the reset it draws and the SYN
\* retransmission replace the peer's abandoned connection (Stack::input).
Paired ==
  /\ \A s \in Side : Synchronized(s)
  /\ \A s \in Side : conn[s].send_una = conn[Peer(s)].recv_nxt

RestartReconnects == (crashes > 0 /\ opened[Opener] > 1) ~> Paired
=============================================================================
