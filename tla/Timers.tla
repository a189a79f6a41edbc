------------------------------- MODULE Timers -------------------------------
(***************************************************************************)
(* The clock of one connection: the timing half of the methods Connection  *)
(* leaves out (send times, RTT samples, retry, probe and close deadlines)  *)
(* and next_poll_at (stack_poll.rs, connection_recovery.rs, stack.rs).     *)
(*                                                                         *)
(* The peer is any source of handshake segments and ACKs with an open or   *)
(* shut window.  The driver polls when next_poll_at says so, and whenever  *)
(* else it likes; time does not pass a deadline that is not polled.        *)
(*                                                                         *)
(* The code keeps moments of the injected clock.  Here a send has an age   *)
(* and a deadline the time left to it, so that time needs no bound.        *)
(***************************************************************************)
EXTENDS Connection, Rtt

CONSTANTS
  FinWait2Time, TimeWaitTime,   \* Config.fin_wait_2_ms, time_wait_ms
  InitialSeq,                   \* the first sequence number of the connection
  OpenWindow,                   \* a window the peer advertises when it is not zero
  MaxInputs,                    \* bound: segments of the peer
  MaxBytes                      \* bound: payload bytes the application writes

ASSUME TimersAssumption ==
  /\ FinWait2Time \in Nat \ {0} /\ TimeWaitTime \in Nat
  /\ InitialSeq \in SeqNumber /\ OpenWindow \in 1 .. MaxWindow
  /\ MaxInputs \in Nat /\ MaxBytes \in Nat

VARIABLES
  conn,       \* the connection, or NoConn once it is closed
  rtt,
  sends,      \* by the end of a segment in flight: its last send, see Sent
  probeIn,    \* next_zero_window_probe_ms
  closeIn,    \* fin_wait_2_until_ms or time_wait_until_ms, as the state has it
  silence,    \* ghost: how long the peer has not let the connection advance
  inputs

vars == <<conn, rtt, sends, probeIn, closeIn, silence, inputs>>

NoConn == [state |-> "Closed"]
Never == -1                       \* Option::None of a deadline

\* age: now - sent_at_ms.  clean: ghost, no byte in flight was sent again since.
Sent == [age : Nat, clean : BOOLEAN]

Alive == conn # NoConn

-----------------------------------------------------------------------------
(* Deadlines                                                               *)

CloseDeadline(c) == IF CloseDeadlineArmed(c) THEN closeIn ELSE Never

Oldest(c) == sends[TrackedEnd(Head(c.unacked))]

RetryDeadline(c) ==
  IF c.unacked = <<>> THEN Never ELSE SaturatingSub(rtt.rto, Oldest(c).age)

\* Fault: a close that cannot probe keeps its deadline.
ProbeDeadlineAlways(c) == IF probeIn = Never THEN 0 ELSE probeIn

\* A close alone cannot probe: it waits for input until its attempts are spent.
ProbeDeadline(c) ==
  IF HasProbePayload(c) \/ c.zero_window_probes >= MaxTransmissions
  THEN (IF probeIn = Never THEN 0 ELSE probeIn)
  ELSE Never

\* Fault: the send time of the oldest segment counts even if the window is shut.
RetryDeadlineOnly(c) == RetryDeadline(c)

TransportDeadline(c) == IF ZeroWindowWork(c) THEN ProbeDeadline(c) ELSE RetryDeadline(c)

Earliest(a, b) == IF a = Never THEN b ELSE IF b = Never THEN a ELSE Smaller(a, b)

NextPollAt(c) == Earliest(CloseDeadline(c), TransportDeadline(c))

Due(deadline) == deadline = 0

\* Whether the retry or probe deadline has passed, as poll looks at it: a
\* missing probe deadline would be set to a later time.
RetryDue(c) == Due(IF ZeroWindowWork(c) THEN probeIn ELSE RetryDeadline(c))

-----------------------------------------------------------------------------
(* What an event does to the clock values, from the connection before (c)  *)
(* and after (d)                                                           *)

EndsOf(c) == {TrackedEnd(c.unacked[i]) : i \in DOMAIN c.unacked}

Attempts(c, end) ==
  LET i == CHOOSE k \in DOMAIN c.unacked : TrackedEnd(c.unacked[k]) = end
  IN  c.unacked[i].transmissions

Resent(c, d) ==
  {e \in EndsOf(c) \cap EndsOf(d) : Attempts(d, e) > Attempts(c, e)}

\* send_tracked and retransmit_oldest set sent_at_ms; "again": some payload in
\* flight was sent again, so no earlier send can be told from its repetition.
Stamp(c, d, again) ==
  sends' = [e \in EndsOf(d) |->
              IF e \notin EndsOf(c) THEN [age |-> 0, clean |-> TRUE]
              ELSE [age   |-> IF e \in Resent(c, d) THEN 0 ELSE sends[e].age,
                    clean |-> sends[e].clean /\ ~again]]

\* apply_ack: the last segment popped that may be sampled.
Popped(c, d) == {e \in EndsOf(c) \ EndsOf(d) : CanSample(rtt, e)}

AfterAck(c, d) ==
  IF Popped(c, d) = {} THEN rtt
  ELSE LET last == CHOOSE e \in Popped(c, d) :
                     \A f \in Popped(c, d) : BeforeOrEqual(f, e)
       IN  Sample(rtt, sends[last].age)

\* retransmit_oldest: nothing sent up to now may be sampled.
ExcludeFlight(c, d, r) == IF Resent(c, d) = {} THEN r ELSE RttOnRetransmit(r, c.send_nxt)

\* Fault: every ACK with a shut window starts the probe timer anew.
NoteShutWindowAnew(d, rto) ==
  probeIn' = IF d.remote_window # 0 THEN Never ELSE rto

\* update_remote_window, given the timeout at that moment.  A step that does
\* not update the window leaves both sides of the equivalence as they are.
NoteShutWindow(d, rto) ==
  probeIn' = IF d.remote_window # 0 THEN Never
             ELSE IF probeIn = Never THEN rto ELSE probeIn

\* on_segment, FIN acknowledged; enter_time_wait.
NoteClosing(c, d) ==
  closeIn' = CASE d.state = "FinWait2" /\ c.state # "FinWait2" -> FinWait2Time
               [] d.state = "TimeWait" /\ c.state # "TimeWait" -> TimeWaitTime
               [] OTHER -> closeIn

-----------------------------------------------------------------------------
(* Ghost: progress                                                         *)

\* Something waits for the peer, with a timer behind it.
Outstanding(c) == c.unacked # <<>> \/ (ZeroWindowWork(c) /\ HasProbePayload(c))

Advances(c, d) ==
  d.send_una # c.send_una \/ (d.remote_window = 0) # (c.remote_window = 0)

NoteProgress(c, d) ==
  silence' = IF ~Outstanding(c) \/ Advances(c, d) THEN 0 ELSE silence

\* The connection is removed, and its clock values with it.
Removed ==
  /\ conn' = NoConn
  /\ sends' = <<>> /\ probeIn' = Never /\ closeIn' = Never /\ silence' = 0
  /\ UNCHANGED rtt

-----------------------------------------------------------------------------
(* Events                                                                  *)

PeerSegment(flags, seq, ack, window) ==
  [flags |-> flags, seq |-> seq, ack |-> ack, window |-> window, data |-> <<>>, mss |-> Mss]

Starts ==
  {Client(InitialSeq).conn} \cup
  {Server(PeerSegment({"SYN"}, 0, None, w), InitialSeq).conn : w \in {0, OpenWindow}}

Init ==
  /\ conn \in Starts
  /\ rtt = NewRtt
  /\ sends = [e \in EndsOf(conn) |-> [age |-> 0, clean |-> TRUE]]
  /\ probeIn = IF conn.remote_window = 0 THEN NewRtt.rto ELSE Never
  /\ closeIn = Never /\ silence = 0 /\ inputs = 0

\* on_segment.  SYN-SENT notes the window before the ACK is applied, the other
\* states after.
Advance(c, u) ==
  IF u.closed THEN Removed
  ELSE /\ conn' = u.conn
       /\ rtt' = ExcludeFlight(c, u.conn, AfterAck(c, u.conn))
       /\ Stamp(c, u.conn, Resent(c, u.conn) # {})
       /\ NoteShutWindow(u.conn, IF c.state = "SynSent" THEN rtt.rto ELSE AfterAck(c, u.conn).rto)
       /\ NoteClosing(c, u.conn)
       /\ NoteProgress(c, u.conn)

FromPeer(c) ==
  LET windows == {0, OpenWindow}
      acks == {a \in SeqNumber : InSendInterval(c, a)} \cup {Plus(c.send_nxt, 1)}
  IN  CASE c.state = "SynSent" ->
             {PeerSegment({"SYN", "ACK"}, 0, c.send_nxt, w) : w \in windows}
        [] c.state = "SynReceived" ->
             {PeerSegment({"SYN"}, 0, None, OpenWindow)} \cup
             {PeerSegment({"ACK"}, c.recv_nxt, c.send_nxt, w) : w \in windows}
        [] OTHER ->
             {PeerSegment(f, c.recv_nxt, a, w) :
                f \in {{"ACK"}, {"FIN", "ACK"}}, a \in acks, w \in windows}

Input ==
  /\ Alive
  /\ inputs < MaxInputs
  /\ inputs' = inputs + 1
  /\ \E seg \in FromPeer(conn) : Advance(conn, OnSegment(conn, seg))

\* Calls of the application change no deadline but those of what they send.
Call(c, u) ==
  IF u.closed THEN Removed
  ELSE /\ conn' = u.conn
       /\ Stamp(c, u.conn, FALSE)
       /\ NoteProgress(c, u.conn)
       /\ UNCHANGED <<rtt, probeIn, closeIn>>

AppWrite(n) ==
  /\ Alive
  /\ Writable(conn)
  /\ conn.accepted + n <= MaxBytes
  /\ Call(conn, Write(conn, [k \in 1 .. n |-> <<1, conn.accepted + k>>]))
  /\ UNCHANGED inputs

AppClose ==
  /\ Alive
  /\ Call(conn, Close(conn))
  /\ UNCHANGED inputs

-----------------------------------------------------------------------------
(* poll                                                                    *)

PollResult(c) == Poll(c, Due(CloseDeadline(c)), RetryDue(c))

\* Fault: the probe of a byte sent before may be sampled.
SampleProbes(c) == rtt

\* zero_window_probe: a byte in flight is sent again, a new one is not.
AfterProbe(c) == IF Carriers(c) = {} THEN rtt ELSE RttOnRetransmit(rtt, c.send_nxt)

\* The delay doubles with every probe, up to the cap.
ProbeDelay(probes) == Smaller(InitialRto * 2 ^ Smaller(probes, 16), MaxRto)

Probes(c) == ZeroWindowWork(c) /\ RetryDue(c) /\ HasProbePayload(c)

Retransmits(c) == ~ZeroWindowWork(c) /\ RetryDue(c)

PollProbes(c, d) ==
  /\ Probes(c)
  /\ rtt' = AfterProbe(c)
  /\ Stamp(c, d, Carriers(c) # {})
  /\ probeIn' = ProbeDelay(d.zero_window_probes)

\* Nothing to send; a missing probe deadline is filled in.
PollWaits(c) ==
  /\ ZeroWindowWork(c) /\ ~Probes(c)
  /\ probeIn' = IF probeIn = Never THEN InitialRto ELSE probeIn
  /\ UNCHANGED <<rtt, sends>>

PollRetransmits(c, d) ==
  /\ Retransmits(c)
  /\ rtt' = ExcludeFlight(c, d, BackOff(rtt))
  /\ Stamp(c, d, TRUE)
  /\ UNCHANGED probeIn

PollFlushes(c, d) ==
  /\ ~ZeroWindowWork(c) /\ ~RetryDue(c)
  /\ Stamp(c, d, FALSE)
  /\ UNCHANGED <<rtt, probeIn>>

Polled(c, u) ==
  IF u.closed THEN Removed
  ELSE /\ conn' = u.conn
       /\ \/ PollProbes(c, u.conn) \/ PollWaits(c)
          \/ PollRetransmits(c, u.conn) \/ PollFlushes(c, u.conn)
       /\ NoteProgress(c, u.conn)
       /\ UNCHANGED closeIn

PollNow ==
  /\ Alive
  /\ Polled(conn, PollResult(conn))
  /\ UNCHANGED inputs

Sooner(deadline) == IF deadline = Never THEN Never ELSE SaturatingSub(deadline, 1)

\* Time passes, but no deadline that next_poll_at reports.
Tick ==
  /\ Alive /\ ~Due(NextPollAt(conn))
  /\ sends' = [e \in DOMAIN sends |-> [sends[e] EXCEPT !.age = @ + 1]]
  /\ probeIn' = Sooner(probeIn)
  /\ closeIn' = Sooner(closeIn)
  /\ silence' = IF Outstanding(conn) THEN silence + 1 ELSE 0
  /\ UNCHANGED <<conn, rtt, inputs>>

Next ==
  \/ Input
  \/ \E n \in 1 .. MaxBytes : AppWrite(n)
  \/ AppClose
  \/ PollNow
  \/ Tick

Spec == Init /\ [][Next]_vars

-----------------------------------------------------------------------------
(* Properties                                                              *)

\* Every variable keeps its type, and the timeout its configured bounds.
TypeOK ==
  /\ conn \in Conn \cup {NoConn}
  /\ rtt \in Estimator
  /\ Alive => sends \in [EndsOf(conn) -> Sent]
  /\ probeIn \in Nat \cup {Never} /\ closeIn \in Nat \cup {Never}
  /\ silence \in Nat /\ inputs \in Nat

\* A driver that sleeps until next_poll_at is exact: a poll before that moment
\* changes nothing, so nothing is late, and a poll at it closes the connection
\* or moves next_poll_at past it.
PollIsExact ==
  [][PollNow => IF Due(NextPollAt(conn)) THEN ~Alive' \/ ~Due(NextPollAt(conn)')
                                          ELSE UNCHANGED vars]_vars

\* The driver never spins: at a moment next_poll_at reports, poll has something
\* to do, even for a close that waits on a shut window with no byte to probe.
PollHasWork ==
  Alive /\ Due(NextPollAt(conn)) =>
    PollResult(conn).closed \/ Probes(conn) \/ Retransmits(conn)

\* Karn's rule across a whole flight: the timeout that retransmissions and
\* probes backed off is measured anew, or lowered, only by the ACK of a segment
\* sent once and after all of them (sample_after, zero_window_probe).
KarnsRule ==
  [][rtt'.rto < rtt.rto \/ rtt'.srtt # rtt.srtt =>
       \E e \in DOMAIN sends \ DOMAIN sends' : sends[e].clean]_vars

\* A peer that neither acknowledges anything new nor opens or shuts its window
\* is given up after the configured number of attempts at the largest timeout,
\* whatever it sends meanwhile: repeated SYNs, duplicate ACKs and ACKs of
\* probes postpone nothing for good.  This bounds half-open connections too.
SilenceIsBounded ==
  Alive /\ Outstanding(conn) => silence <= (MaxTransmissions + 1) * MaxRto
=============================================================================
