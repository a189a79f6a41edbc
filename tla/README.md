# A TLA+ model of TCP/FIPS

TCP/FIPS is a TCP stack over authenticated datagrams: no IP layer, sans-I/O, one
Rust core (`rust/fips-tcp`), one TypeScript core (`ts/src`) and an asynchronous
adapter for each. This directory holds TLA+ modules translated from the Rust
core and its adapter, the TLC configurations that check them and the theorems
TLAPS proves.

1. [The system](#the-system): components, state, interaction, hard behaviour
2. [The modules](#the-modules) and how they correspond to the code
3. [The runs](#the-runs): what each checks, bounds, fairness
4. [The proofs](#the-proofs)
5. [What the model found](#what-the-model-found)
6. [What is left out](#what-is-left-out)
7. [Plan](#plan)

Paths below are relative to `src/`; `core/` stands for `rust/fips-tcp/src/`.

## The system

| Component | Source | State it keeps | Operations |
|---|---|---|---|
| Sequence arithmetic | `core/seq.rs` | none | before, after, distance, interval |
| Reno | `core/reno.rs` | cwnd, ssthresh, two recovery flags | on_ack, on_duplicate_ack, on_fast_loss, on_timeout, set_mss |
| RTT estimator | `core/rtt.rs` | srtt, rttvar, rto, sample_after | sample, on_retransmit, on_timeout |
| Connection | `core/stack.rs` 341-904, `connection_*.rs`, `stack_poll.rs` | state, send_una/send_nxt/recv_nxt, windows, send and receive queue, reassembly table, unacked queue, timers, counters | client, server, on_segment, write, read, close, poll |
| Send progress | `core/marker.rs`, `stack_marker.rs` | accepted and acknowledged payload bytes, token | accept, acknowledge, marker, status |
| Stack | `core/stack.rs` 1-340, `stack_abort.rs`, `stack_admission.rs` | listeners, accept queues, connections by id, ids by tuple, outbound queue, id/port/ISN generators, reservation | listen, close_listener, connect, accept, input, poll, write, read, close, abort, abort_peer, drain_outbound |
| Wire codec | `core/wire.rs` | none | encode, decode |
| Endpoint adapter | `rust/fips-tcp-endpoint/src/` | a Stack, a received batch | async wrappers: operation, then flush of the outbound queue |
| TypeScript core and adapter | `ts/src/` | as above | as above; the adapter serialises calls through a promise chain |
| Interop driver, smoltcp oracle | `rust/interop-driver`, `rust/smoltcp-oracle` | test harnesses | |

**How they interact.** The application calls the adapter, which calls one Stack
operation and then sends the outbound queue as datagrams; datagrams come back
in batches and each goes through `Stack::input`. Time is a parameter of every
call; the driver sleeps until `next_poll_at` and then calls `poll`. A Stack
operation finds the connection, calls one method of it, appends the segments
the method returns to the outbound queue, and removes the connection if the
method says it is closed. So one stack is sequential, and the concurrency of
the system is between the two stacks, the carrier and the timers.

**What is hard.** The carrier loses, repeats and reorders datagrams. Timers
race with answers on their way. ACKs end inside segments and retransmissions
overlap. Bytes held ahead of a hole shrink the window of data already in
flight. Both sides close, abort or restart at any moment, and segments of an
old connection meet a new one with the same tuple. Resources are bounded: send
buffer, receive buffer, reassembly table, attempts per segment, probes,
connections. Sequence numbers wrap. In the adapter, operations are split by
awaits and a flush may fail or be cancelled half way.

**What makes each component correct.**

* Sequence arithmetic: comparisons agree with the true order for windows below
  half the space.
* Connection, sending: every accepted byte is in one place, the queue of
  unacknowledged segments tiles `[send_una, send_nxt)`, budgets are kept, and
  nothing that may be sent waits without a timer.
* Connection, receiving: the stream is the peer's, each byte once and in
  order; memory is bounded; the byte waited for is accepted.
* Closing: an end of file is honest, the two ends agree on what was closed,
  every close ends; aborts and restarts do not leave half a connection behind,
  and stale resets do not remove a live one.
* Markers: Acked is never reported early, and is reported for the right
  connection.
* Stack: ids, tuples and the table stay consistent; admission limits hold;
  accept returns each connection of a listening port once.
* Timers: `next_poll_at` is the first moment `poll` has something to do.
* Adapter: an operation that reports success or failure has had the effect it
  reports; a batch is processed as if its datagrams came one by one.

## The modules

| Module | Models | Extends |
|---|---|---|
| `SeqSpace` | `seq.rs` over any even modulus | |
| `Reno` | `reno.rs` | SeqSpace |
| `Connection` | every method of `Connection<P>` but for the clock | Reno |
| `Rtt` | `rtt.rs` | SeqSpace |
| `Timers` | the clock values of one connection, `next_poll_at`, the driver that sleeps until it | Connection, Rtt |
| `TcpPair` | two stacks, one tuple, the carrier, the applications | Connection |
| `ByteStream` | what one direction of a tuple promises: the abstract specification | |
| `TcpPairStreams` | TcpPair implements ByteStream, once per direction | TcpPair |
| `MCTcpPair` | values for the constants of TcpPair | TcpPairStreams |
| `ConnectionLoops` | the three loops of Connection as the code runs them | Connection |
| `Wire` | `wire.rs` | |
| `Algorithms` | inputs for ConnectionLoops and Wire | ConnectionLoops; instance of Wire |
| `StackTable` | what the tuples of one stack share: table, index, listeners, accept queues, ids, ports, admission, outbound queue, markers | |
| `MCStackTable` | values for the constants of StackTable | StackTable |
| `Endpoint` | the asynchronous adapter over a stack cut down to what callers see | |
| `MCEndpoint` | the datagrams of its instance | Endpoint |
| `ConnectionProofs` | lemmas: every method of Connection maps types to types; words that wrap, sums of payload lengths, queues that tile a stretch of sequence numbers; every method keeps the books of a connection | Connection |
| `StreamProofs` | lemmas: what every method of Connection tells of its own stream and takes in of the peer's | ConnectionProofs |
| `TcpPairProofs` | six invariants and an action property of TcpPair, and that it implements ByteStream | TcpPairStreams, StreamProofs; instances of ByteStreamProofs |
| `BondProofs` | that the two ends of TcpPair agree: two invariants | TcpPairProofs |
| `TimersProofs` | four invariants and two action properties of Timers | Timers, ConnectionProofs |
| `StackTableProofs` | eight invariants and two action properties of StackTable | StackTable |
| `EndpointProofs` | three invariants of Endpoint and what bounds the loss of its reads | Endpoint |
| `ByteStreamProofs` | what follows from being a ByteStream | ByteStream |

**Connection.** The record `Conn` has the fields of the Rust struct without
ports, peer, clock values and RTT estimator. A method `f(&mut self, ...)` is an
operator `F(c, ...)` that returns an `Update` record: the next connection, the
segments it emits, and the flags `accepted` and `closed` of the Rust `Update`.
`Then(u, v)` keeps segments in the order the code pushes them. Where the code
loops, the model has the result in closed form: `Covered` (how many segments an
ACK pops), `Chunks` (how `flush_data` cuts the queue), `Run` and `TakeIn` (what
`drain_reassembly` moves). `ConnectionLoops` writes the loops out and compares.
The reassembly table is a set of chunks. That is sound because
`insert_received` refuses a chunk with the ends of one it holds, and because
chunks that overlap hold the same bytes, so the order of the Vec cannot be
observed; `DrainAgrees` checks it over every order. `drain_reassembly` can
leave a chunk half taken if the receive queue is full: `BufferBound` shows that
the case does not arise, for every configuration, and `DrainAgrees` compares with the loop that has it.

A payload byte is the pair `<<i, k>>`: the k-th byte written on the i-th
connection of its sender. A receiver that mixes up, repeats or skips bytes, or
takes bytes of an earlier connection, cannot go unnoticed.

Definitions whose comment begins with *Fault* are faulty variants of the
definition below them. No module uses them; they document which mistake each
property detects.

**TcpPair.** `conn[s]` is what the lookup table of side `s` has for the tuple,
`NoConn` if nothing; `net[s]` is the bag of datagrams on their way to `s`.
Sending goes straight from a Stack operation to the carrier, as the adapter
flushes after each. `opened`, `sent`, `received` record the history of the
streams and are read by no action other than to number bytes. One action per
entry point:

| Action | Code |
|---|---|
| `Connect` | `Stack::connect_from_with_isn` |
| `Deliver`, `DeliverCopy` | `Stack::input` with a datagram that is consumed, or of which a second copy stays in flight |
| `InputSyn`, `InputUnknown`, `InputConnected` | the three branches of the lookup |
| `CloseExpires`, `RetryExpires` | `Stack::poll` with the close deadline or the retry deadline passed |
| `AppWrite`, `AppRead`, `AppClose`, `AppAbort` | `Stack::write`, `read`, `close`, `abort` |
| `Lose`, `Crash` | the carrier drops a datagram; a process restarts with an empty stack |

`poll` with neither deadline passed is `flush_data`, and does nothing in any
state the actions leave behind: that is the theorem `FlushIsNeverOwed`.
An application acts on a connection that `connect` or `accept` returned to it
(`accepted`). `AppAbort` is `Stack::abort` with no segment of the tuple left in
the outbound queue.

**StackTable.** One stack, many peers and tuples. A connection is reduced to
what the stack looks at: its tuple, whether its handshake is done, its token
and its byte counters. What a method of it returns is nondeterministic
(`Progress`, `MayEmit`, `InputCloses`, `Poll`): any outcome Connection allows
in that phase. TcpPair has the same stack operations for one tuple with the
full connection; the two overlap in `input`, `poll`, `close` and `abort` and
each leaves to the other what it abstracts. The outbound queue is a set here:
no property depends on the order of segments. `allocate_ephemeral_port` is
`FreeAttempts`: attempt n looks at the n-th port after `next_ephemeral_port`,
around the range, and the first free one wins; a refused `connect` still moves
`next_ephemeral_port`, as in the code (`ConnectRefused`, `ConnectNoPort`).
`NewStack` replaces the stack inside one process: ids start at 1 again, tokens
go on, the application keeps its markers. The ghost variables are `held` (ids
the application got), `dropped` (ids in a queue that `close_listener` removed)
and `early` (the reservation was set before any traffic).

**ByteStream and TcpPairStreams.** The abstract specification of one direction:
connections of a sender and of a receiver follow each other; the sender writes,
closes, learns of bytes that arrived; the receiver takes in more of the stream
it is at and sees the end only after all of it; either side may forget its
connection at any time. That is the sentence of the protocol document, "a
reliable stream while both endpoints retain connection state"
(`protocol/tcp-fips-v1.md:67`), as a state machine. `TcpPairStreams` maps the
pair to it twice, `Request` from the opener and `Reply` from the listener: the
histories `sent` and `received` are the streams, `closed` is the test in `write`
(`WritesNoMore`), `confirmed` the counter a marker compares with, `ended` is
`is_read_closed`. A segment that brings data and an ACK is a step of both. What
a ByteStream guarantees, and with it the pair, is a theorem (see The proofs).

**Timers.** Connection says which segments a step sends; Timers adds when. It
runs the operators of Connection on the full record and derives from the
connection before and after a step what the code does to its clock: a segment
new in `unacked` is stamped, one whose `transmissions` went up is stamped again
and excludes the flight from sampling, a popped one may be sampled. An age
stands for `sent_at_ms` and a time left for a deadline, so nothing grows without
bound. `Poll` of Connection gets the deadlines the code computes, and
`NextPollAt` is computed as the code does it, separately. The peer is any
source of ACKs inside the flight with an open or a shut window. The driver
polls whenever it likes but never sleeps past `NextPollAt` (`Tick`). The ghost
`clean` says of a send that nothing in flight was sent again since; `silence`
is how long the peer let nothing advance.

**Wire.** `encode` and `decode` over bytes, in the order of the checks of the
code. A u32 is two 16-bit words. `OptionTooLong` is modelled where the code has
it; no segment reaches it, as the header length is checked first.

**Endpoint.** A call of the adapter changes the stack, drains the outbound
queue and awaits one send after the other. `Flush(kind, id, bytes, s)` is the
synchronous part: the stack becomes `s` and the call in progress holds what is
left to send. `SendOne`, `Return`, `SendFails` and `Cancel` are what can happen
at an await: the send is done; all are done and the result goes to the caller;
one fails and the rest of the batch is dropped with the result; the caller
drops the future. `&mut self` allows one call at a time. `wait_for_input` and
the receive after it are steps of their own, since callers select on the one
and not on the other. The filter of `Receive` may refuse any datagrams. The
filter sees the identity FIPS presents, the stack the point with even y
(`PeerKey`). In the code `PeerKey` also compares x-only keys, whichever point it
holds; the faulty variant stands for keying by the identity itself. The stack
keeps of a connection its peer, who opened it, how far the handshake is and what
is unread; which calls emit a segment is nondeterministic where the windows
decide it. Each side of a peer has one port.

## The runs

Common to the runs of TcpPair: modulus 32 stands for 2^32, and the client's first sequence
number is 30, so its stream crosses the wrap. `MaxWindow` is 10, below half the
modulus as 65535 is below half of 2^32. The largest instance sends a SYN, four
bytes and a FIN, so 32 is never exhausted. `Unlimited` (usize::MAX) is 100,
above any congestion window reached. Byte counts are chosen so that a write
takes several segments, a window closes, an ACK ends inside a segment and two
retransmissions overlap.

| Run | Instance | Distinct states | Properties |
|---|---|---|---|
| `MCCopies` | 4 bytes, mss 2, receive buffer 2, one loss, one repeated datagram, readers lag | 411 thousand | `TypeOK`, `TransmissionBudget`, `ByteLedger`, `FlightIsTiled`, `BufferBound`, `ImplementsByteStream`, `HeadOfLineAccepted`, `GivesUpOnlyOnLoss` |
| `MCClosing` | 2 bytes, receive buffer 2, one loss, both close | 216 thousand | `ClosingAgrees`, `WindowsNest`, `NothingSendableWaits`, `ImplementsByteStream`, `CloseFinishes` |
| `MCRestart` | one restart, one loss, the client connects again | 3 thousand | `RestartReconnects` |
| `MCAbort` | the server writes 2 bytes and aborts, the client connects again | 133 thousand | `AbortReachesPeer`, `ResetOnlyOrphans` |
| `MCLive` | 2 bytes, two losses and one repeated datagram or early timer, 4 transmissions, receive buffer 1, the client closes | 48 thousand | `Delivered`, `CloseSendsFin` |
| `MCTableFull` | 3 bytes, a reassembly table of one chunk | violated | `GivesUpOnlyOnLoss` |
| `MCAdmission` | 2 peers, 2 ports to listen on, 2 ephemeral ports, one port being both, 3 connections, 2 per peer, reservations of 0 to 2 slots for one peer | 596 thousand | `TypeOK`, `TableConsistent`, `LimitsHold`, `ReservedSlotsFree`, `PortIsFound`, `EveryoneReachable`, `AcceptedOnce` |
| `MCMarkers` | 2 peers, 2 connections, 2 stacks, 2 queued segments, a marker | 268 thousand | `ResetIsLast`, `AbortSparesOthers`, `MarkersSettle` |
| `Algorithms` | every sender, table and ACK of small size; segments with up to two options, and their encodings cut anywhere or with one byte replaced | 96 thousand | `FlushAgrees`, `DrainAgrees`, `AckAgrees`, `CodecAgrees` |
| `Timers` | 2 bytes, 4 segments of the peer, timeouts 1 to 3, 2 attempts | 403 thousand | `TypeOK`, `SilenceIsBounded`, `PollHasWork`, `PollIsExact`, `KarnsRule` |
| `Endpoint` | a peer with two points, 2 datagrams, 2 connections, one per peer, one failed send, one dropped future | 408 thousand | `NoOrphan`, `OnePeerOneBudget`, `EveryDatagramHandled` |
| `EndpointReads` | 3 datagrams, one failed send | violated | `ReadsLoseNothing` |

**What they ask.** `MCCopies` asks whether bytes are lost, repeated or counted
twice when ACKs trim segments and copies overlap, with the receive buffer
filled from both ends: a reader that lags and a hole. One segment is sent by
timer, repair and duplicate ACK. Nothing is closed there, to leave room for an
mss of 2. `MCClosing` has every order of close: by one side alone, which the
FIN-WAIT-2 deadline ends, or by both, before, after and across each other. It
goes through LAST-ACK and TIME-WAIT on either side and through CLOSING on both
at once, with a loss at any point, and so to the end of both streams; the FIN
waits for data that fills the window, or overtakes data. Its server closes and
writes nothing, and the server of `MCAbort` writes: no run has data in both
directions at once, which with closes and liveness takes TLC too long. The
theorems do not tell these cases apart. `MCRestart` and `MCAbort` are the
half-open connections. `MCLive` needs the zero-window probe for its second byte,
and lets a timer expire while the answer it waits for is on its way
(`EarlyTimeouts`): the retransmission crosses the ACK, duplicate ACKs and
repairs follow, and the transfer still completes. Such a timer spends an attempt
as a loss does, so it is counted with the repeated datagrams (`MaxCopies`), and
one attempt more than the three faults is enough. In the other runs timers
expire when no datagram is in flight. The theorems hold for early timers
without a bound on their number.

`Algorithms` compares closed forms with loops where a mistake would be an
off-by-one, and the codec in both directions: what is encoded is read back, and
what is decoded can be encoded and is read back. An end of list in the middle
and an unknown option with the code of a known one are excepted (`Canonical`):
`encode` writes them, `decode` reads something else, and the stack emits none.

`Timers` lets a timeout of 2 double to its cap of 3 and be measured anew down
to 1, with a window that shuts and opens between. Every order of ACK, probe,
retransmission and tick of that size is there. `Endpoint` has a failing send
and a dropped future at each await, waits dropped and repeated, either point of
one key, and a filter that refuses any part of a batch; two datagrams make one
batch or two. `EndpointReads` needs a third, for a handshake and then data.

`MCAdmission` opens and closes listeners under half-open and queued
connections, closes one again after a late handshake has made its queue anew,
has a port that is listened on and given out by `connect` as well, exhausts the ephemeral ports of a peer and changes the reservation
at any time; its driver empties the outbound queue at once. `MCMarkers` keeps
segments queued (`MaxOutbound`; when the queue is full the driver empties it),
which is when an abort has something to take back. `MaxCreated`, `MaxStacks`,
`MaxBytes` and `MaxMarkers` bound what has no bound in the code. Two connections
and two stacks are enough for a marker to meet a later connection with its id.

**Deadlock** is not checked where a legal run ends: a pair of stacks with
nothing to do, a stack that created its connections, a closed connection, an
input that was compared. `Endpoint` checks it: its driver can always poll.

**Liveness and fairness.** `FairSpec` of TcpPair assumes of each side that the driver
polls a timer that stays due, that the application reads what can be read, that
the opener connects when it may, and that the carrier goes on delivering. This
is what the README of the repository asks of an embedding ("call
`receive(now_ms)` from their event loop", schedule `next_poll_at`). Nobody has
to write, close or abort. The faults are bounded by `MaxLosses` and `MaxCopies`:
`Delivered` holds for fewer of them than a segment has transmissions and is false
beyond, as the retry budget is the protocol's user timeout. Delivery to some datagram is
fair, not to each: the retransmissions cover for one that is passed over.
Weak fairness is written out in `Fairness` with the guards of the actions in
place of ENABLED, which TLC evaluates slowly here; the guards (`CanConnect`,
`CanTake`, ...) are those the actions state.

`FairSpec` of Endpoint assumes that FIPS finishes each send, one way or the
other, which is weak fairness of `SendOne \/ Return`, and that the event loop
comes back to a receive between other calls, which is strong fairness of
`ReceiveAny`: other calls may come between any number of times, and waits be
dropped. Without it nothing in the adapter takes in a batch, by design.

Two properties hold only under the roles their runs give, for reasons in the
code. `Delivered` allows the client alone to close: a FIN-WAIT-2 deadline may
remove a side that has yet to receive. `AbortReachesPeer` lets one side abort:
if both abort and the tuple is used again, an idle peer keeps its half until
it sends something, as there is no keepalive.

`GivesUpOnlyOnLoss` grants one free attempt, and one for each repeated datagram,
whose second ACK may spend one. A first transmission may be refused without a
loss: chunks that the receiver holds ahead of a hole take room from the window
that was advertised when it was sent. A retransmission is
the byte the receiver waits for, and that one it must take
(`HeadOfLineAccepted`).

## The proofs

| Module | Theorem | States |
|---|---|---|
| `TcpPairProofs` | `TypeCorrect` | `Spec => []TypeOK` |
| | `BudgetIsKept` | `Spec => []TransmissionBudget` |
| | `NoHoleInFlight` | `Spec => []FlightIsTiled` |
| | `LedgerBalances` | `Spec => []ByteLedger` |
| | `BufferIsEnough` | `Spec => []BufferBound` |
| | `FlushIsNeverOwed` | `Spec => []NothingSendableWaits` |
| | `HeadIsNeverRefused` | `Spec => NextByteTaken`: a step that delivers the next byte into an open window, or the FIN that is due, moves `recv_nxt` while the table has a free slot |
| | `StreamsAreKept` | `Spec => [](TypeOK /\ BooksKept /\ StreamsKept)`, under `StreamsApart` |
| | `StreamsImplemented` | `Spec => ImplementsByteStream`, under `StreamsApart` |
| | `StreamsAreReliable` | `Spec => []` of `StreamIntact`, `CleanEof` and `AckedMeansReceived` in both directions, under `StreamsApart` |
| `BondProofs` | `WindowsAlwaysNest` | `Spec => []WindowsNest`, under `StreamsApart` |
| | `ClosingIsAgreed` | `Spec => []ClosingAgrees`, under `StreamsApart` |
| `StackTableProofs` | `TablesAgree` | `Spec => []TableConsistent` |
| | `LimitsKept` | `Spec => []LimitsHold` |
| | `TableTypes` | `Spec => []TypeOK` |
| | `PortAlwaysFound` | `Spec => []PortIsFound` |
| | `ReservationWorks` | `Spec => []ReservedSlotsFree` |
| | `NobodyIsLost` | `Spec => []EveryoneReachable` |
| | `AcceptIsOnce` | `Spec => []AcceptedOnce` |
| | `AbortIsFinal` | `Spec => []ResetIsLast` |
| | `AbortIsLocal` | `Spec => AbortSparesOthers` |
| | `MarkersMoveForward` | `Spec => MarkersSettle` |
| `TimersProofs` | `TimerTypes` | `Spec => []TypeOK` |
| | `ProbeRunsWhileShut` | `Spec => [](Alive => (conn.remote_window = 0 <=> probeIn # Never))` |
| | `PollHasWorkHolds` | `Spec => []PollHasWork` |
| | `PollIsExactHolds` | `Spec => PollIsExact` |
| | `SilenceIsBoundedHolds` | `Spec => []SilenceIsBounded` |
| | `KarnsRuleHolds` | `Spec => KarnsRule` |
| `EndpointProofs` | `NobodyIsOrphaned` | `Spec => [](NoOrphan /\ Cardinality(abandoned) <= cancels)` |
| | `OneBudgetPerKey` | `Spec => []OnePeerOneBudget` |
| | `DatagramsInOrder` | `Spec => []IsPrefix(handled, arrived)` |
| | `ReadsLoseNothingUnlessInterrupted` | `Spec => [](failures = 0 /\ cancels = 0 => ReadsLoseNothing)` |
| `ByteStreamProofs` | `StreamIsReliable` | `Spec => [](StreamIntact /\ CleanEof /\ AckedMeansReceived)` |

Each holds for every value of the constants: every modulus, configuration and
number of peers, losses, copies, restarts and early timers. They assume the named
assumptions of the modules and nothing else:

* `ModulusAssumption`: an even modulus of at least 4.
* `UnlimitedAssumption`: usize::MAX is a positive number.
* `ConfigAssumption`: what `Config::validate` and the types of `Config` say: mss
  (a u16), buffers and table sizes positive, a receive buffer no larger than a
  u16 window, attempts a u8. And that the modulus is more than twice the largest
  window and the byte a probe may add, as 2^32 is.
* `NoneIsNoSequenceNumber`: the value that stands for `None` is not a word.
* `RtoAssumption`: the timeouts are ordered, `0 < min_rto <= initial_rto <= max_rto`,
  as `Config::validate` demands.
* `TimersAssumption`: the FIN-WAIT-2 time is positive, the other times are
  numbers, the initial sequence number is a word and an open window fits one.
* `EndpointAssumption`: what can arrive is a datagram of a peer, the limits and
  the length of a batch are positive, the bounds of the model are numbers.
* `PairAssumption`: two sides, one opens, and the carrier's budgets are numbers.
* `TableAssumption`: ports are positive, the ephemeral range is not empty, limits
  are positive, `connect` makes as many attempts as there are ephemeral ports,
  and fewer connections are created than there are ids (2^64 in the code). Ports
  to listen on may lie in the ephemeral range: `listen` does not look.

`StreamIsReliable` needs none of them.

The three theorems about streams and the two of `BondProofs` have one hypothesis
more, and it is a real one. `StreamsApart` says that no sequence number means two places: a stream with
a receive window behind it is shorter than the sequence space, and the initial
sequence numbers of two connections of one side lie at least that far apart. The
code does not enforce it. It takes initial sequence numbers from its caller or
at random and has neither timestamps nor TIME-WAIT on both sides to tell an old
segment from a new one, and a stream of 2^32 bytes meets its own beginning. A
datagram that is delayed without limit could then be taken for another place of
the stream, with the carrier of this model, which may keep a datagram for ever.
`MCTcpPair` states `StreamsApart` as an assumption of its instances, so TLC
evaluates it on every run of the pair.

**A connection's books.** None of the invariants of TcpPair is inductive alone.
That the flight is tiled depends on how an ACK trims a segment, which depends on
sequence comparisons that are exact only while the flight fits a window, which
depends on what `flush_data` allows itself, which depends on how much is in
flight. `SoundConn` in `ConnectionProofs` says it all of one connection:

* `Sender`: the segments of `unacked` were sent, are within budget and one mss and tile
  `[send_una, send_nxt)`; seen from `send_una` they lie one behind the other
  (`Straight`) and end at most a window away, one byte further if a probe of a
  shut window is among them (`FlightBounded`); accepted bytes are acknowledged,
  in flight or queued.
* `Receiver`: queue and table fit `receive_buffer`; each chunk lies in the
  window and is not empty.
* `Handshake`: before the connection is open nothing was written or closed.

`Idle` is the other half: between two steps nothing waits that the windows would
let out. A method starts from a sound connection, goes through states that are
sound and not idle, and ends in `flush_data` or changes nothing that matters, so
each has one lemma for `SoundConn` and one for `Settled` (sound, and removed or
idle). `TcpPairProofs` then has `BooksKept`, that both hold of each connected
side, one step per action, and the six invariants as consequences; TLC checked
`TypeOK /\ BooksKept` on the runs first.

`NextByteTaken` is the promise of the receiver, for one step: what it waits for
it takes, whatever overlaps, lies ahead or was seen before. It follows from the
books of the connection before the step. The acknowledgement half of
`on_segment` and `flush_data` leave the receive side alone (`SameReceive`);
`insert_received` files the chunk at `recv_nxt` or finds one there
(`HeadIsFiled`), and then the run is not empty or the FIN is due (`DrainMoves`).
A free slot of the table is a hypothesis, and it has to be: without one the run
`MCTableFull` starves a connection. `HeadOfLineAccepted`, which a run checks,
has no such hypothesis and is true only where the table cannot fill.
TLC checked `NextByteTaken` on the instances of `MCCopies`, `MCClosing` and
`MCTableFull`.

The content lies in few places. `ConnectionProofs` first shows that each method
returns an `Update`: the prefix an ACK covers is no longer than the queue, each place of
a received run has a byte, tables stay finite. Then it
does the arithmetic of words: going round (`PlusPlus`, `OffsetAdd`), cutting and joining
tilings (`TiledConcat`, `StraightConcat`, `StraightRest`), and the sum of payload
lengths, which the model writes as a cardinality and which is shown to add up by
bijections (`PayloadConcat`, `PayloadCut`). Then
`NewAckRest` is the ACK: what it covers is a prefix, the segment it ends inside
is trimmed by what lies before it, the rest tiles from the new `send_una`, and
what is gone and what is left add up. `RunIsMaximal` and `DrainSplits` are the
receiver: the bytes moved out of the table were held in it, each at one place.
`AllowanceAfter` says that `flush_data` uses up what it sends.

**The streams.** That the pair implements ByteStream relates both sides and all
that is in flight, so it needs an invariant over the bag of datagrams. Segments
do not say which connection they belong to; the invariant does. `View(s, i)` is
the stream of the i-th connection of s as an outsider may know it: where it
begins, how many bytes were written, how many sequence numbers were used,
whether more can come. `StreamsKept` has three parts:

* `OnlyGenuine`: each datagram that is no reset speaks of one view of its sender
  (`Spoken`: its payload is the stream's at the place its sequence number
  names, its FIN is the end of one that is over), and the place it acknowledges
  was taken in by that same connection (`Took`).
* `AllFit`: a connection tells its stream and no other (`Tells`: what it has in
  flight, queued and accepted are consecutive bytes of the stream).
* `AllAttend`: a connection past SYN-SENT follows one stream of its peer
  (`Follows`): what it delivered is its beginning, `recv_nxt` is the place behind
  that, and each chunk of the reassembly table lies in that stream (`Hears`).

`StreamProofs` is about one connection and an arbitrary view. `Speaks` and
`Answers` say that whatever a method emits is of its own stream and acknowledges
what it took in; `Listens` says that a method that is given a segment of a view
stays with that view, and moves by what it took in. `ApartPlaces` makes it
decisive: under `StreamsApart` a number in the window of one stream is no place
of another, so a segment of an older connection is outside the window, and one
inside is of the stream that is followed. `TcpPairProofs` reduces every action of
the pair to one of two: a method runs on one side (`Steps`) or a connection
begins (`Founds`), while the other side is untouched (`Unaffected`) and only sees
the views grow (`Grown`). What was genuine stays genuine because views only grow
and what was taken in stays taken in (`TookCarries`).

The step of ByteStream is read off the same two lemmas. A method that writes is
`Write`, one that closes `Close`; one that takes in bytes is `Take`, and sees the
end only of a view that is over; one whose acknowledged counter grows is
`Confirm`: the ACK was genuine, so the connection that sent it had taken in what
it covers, even if that connection is gone (`Reports`). `Flow(s)` is the
ByteStream from s to its peer, proved once for both directions. TLC
checked `StreamsKept` as an invariant on the instances of `MCClosing`,
`MCRestart` and `MCAbort` first.

**The two ends.** `WindowsNest` and `ClosingAgrees` are about two connections that
are both past their handshakes. `StreamsKept` says that each follows a stream of
the other side, and leaves open that it is the stream of the other's former
connection, which the other side has replaced after a restart. `BondsKept` in
`BondProofs` closes that. `Bond(s, i, j)` is what the i-th connection of s may be
known to have heard of the j-th of its peer: it lives and follows it, a segment
of it in flight acknowledges a place of it, or that one has ended its handshake
with it.

* `BondsAgree`: while the i-th connection lives, it does follow the j-th; and bonds
  do not cross: when a connection of s heard of one of the peer, no earlier one of
  the peer heard of a later one of s.
* `HandshakesAgree`: a connection of the listener follows the one of the opener
  that heard of it; a segment of the listener that acknowledges more than a SYN
  finds the opener's connection following the one it came from; the opener is
  never in SYN-RECEIVED; and nothing is taken in before a handshake is over.
* `AcksAgree`: no segment in flight, and no `send_una`, is ahead of what the living
  connection took in.

A method ends a handshake or moves `send_una` only by a segment in flight that
names the place (`Hark`, `InputHeeds`); everything else leaves both alone
(`Still`), so each step has the form `Minds`. From the bonds two connections past
their handshakes follow each other (`TogetherTuned`), so that send_una, recv_nxt
and send_nxt are three places of one stream in this order (`TogetherNests`), and
at most a window and a probe byte apart, where the wrapping comparison is exact
(`PlacesNest`). A FIN has a place of its own, which gives `ClosingAgrees`. TLC
checked the three parts of `BondsKept`, with the numbers of connections bounded, as
invariants on the instances of `MCClosing`, `MCRestart` and `MCAbort`.

**The stack's tables.** `TableConsistent` alone is not inductive: a new
connection must get an id that no live connection has. `IdsGoUp` supplies it:
every live id is below `nextId`, which does not pass the token counter and so
never wraps; and `Connections` says that each entry is a record, so that
changing a field keeps its tuple. `CreateKeepsTable`, `RemoveKeepsTable` and
`UpdateKeepsTable` cover the three things a step does to the table. For the
limits, a creation adds one connection to a table and to a peer that `Admits`
found below them, and every other step leaves a subset (`FewerConnections`).
`ReservationInv` counts the connections of other peers: there are at most
`max_connections` less the reserved slots of them, so that room for eligible
peers stays free whoever comes and goes. `PortAlwaysFound` needs that the search, a walk
around the range from where it last stopped, meets every port once
(`EveryPortTried`). `QueuesInv` is behind `NobodyIsLost` and `AcceptIsOnce`: an id
is in at most one queue, once, is in none after it was returned, and is in none
while its handshake goes on. `NobodyIsLost` is about every connection, those of
`connect` included, and makes no difference between closing a port that listens
and one that no longer does.
`TokensInv` is behind aborts and markers: a token is never given out again, also
by a later stack, and a segment in the outbound queue with the token of a live
connection has its tuple. All of it
together is `StackInv`, one induction.

**The clock.** `ClockInv` in `TimersProofs` puts the clock values next to a sound
connection (`Armed`): each segment in flight and no other has a send time, the
probe deadline exists exactly while the window of the peer is shut, the
connection is idle. The second is a theorem of its own, `ProbeRunsWhileShut`.
With it a poll that is not due finds nothing to do, which is
`PollIsExact`, and a reported moment is one of a branch of poll that acts, which
is `PollHasWork`. `SilenceIsBounded` needs to know how the attempts were spent.
`Bounded` says it in the unit of the largest timeout: while the window is shut,
the silence and the time left to the probe are at most one timeout per probe
sent and one for the next (`WithinProbes`); while it is open, the silence is at
most one timeout per attempt of the oldest segment, less one, and its age
(`WithinRetries`). Both hold through ACKs of probes and repeated SYNs because
those change no send time without counting an attempt. `Steady` is the bridge
between the two: in the states that probe, what is in flight is plain payload,
so that a shut window always leaves something to probe or to resend
(`ProbePayload`), and the count of probes starts anew only with progress.

`KarnsRule` is about one number. The code keeps no mark on the segments it sent
twice; it refuses samples up to `sample_after`, which a retransmission moves to
the end of the flight and a sample clears. `KarnKept` says why that is enough:
whatever was made ambiguous ends no later than `sample_after`, and that lies in
the flight (`Excluded`), so it cannot be mistaken after a wrap. It survives an
ACK because flights slide (`Slides`): an ACK lies in the flight, takes nothing
out that it does not cover, and the end of the flight does not go back. It
survives a sample because there is none as long as something ambiguous remains:
what an ACK takes out was sent before what it leaves (`NoSampleBefore`).

**The adapter.** `EndpointInv` in `EndpointProofs` says that the stack is sound
(`Sound`: ids given out in order, every entry under the even point of its key,
both limits kept), that what arrived is what was handled, then what the batch
retains, then what FIPS still has (`InOrder`), that nobody is orphaned, and, as
long as no send failed and no future was dropped, that what reads returned, what
a read in progress holds and what is unread make up what was taken in
(`Complement`). Between two awaits a call runs the stack from one such state to
another (`Good`): a connect whose flush fails takes its connection out again
before anyone can see it, and that is the only way `NoOrphan` survives a failure.
A connect whose future is dropped runs no code: its connection stays and is
counted in `abandoned`. `OnePerCancel` bounds that set by the number of dropped
futures, so that where none was dropped nothing is left behind.
A batch is many inputs in one step, a fold whose length is no constant. It is
unfolded to the function the fold is defined by (`BatchUnfolds`), which exists
(`BatchDefined`), and that each of its values is `Good` is shown by a least
counterexample (`BatchGood`). The last theorem is the other half of the finding
of the run `EndpointReads`: a read loses bytes there because one send fails, and
without a failed send or a dropped future none ever does.

**StreamIsReliable.** A ByteStream takes in a prefix of one stream of the peer
(`StreamIntact`), ends after all of one that is over (`CleanEof`), and confirms
no more than some connection took in (`AckedMeansReceived`). The conjunction
with the types is inductive. The content is in `PrefixNamesStream`: bytes carry
the number of their connection, so a prefix that is not empty belongs to one
stream, and a receiver that goes on from it goes on in the same stream.
`StreamsAreReliable` joins it with `StreamsImplemented`.

**Model-checked only.** Of TcpPair: `HeadOfLineAccepted`, `GivesUpOnlyOnLoss`,
`ResetOnlyOrphans`, and of the properties under fairness all. The first is
`NextByteTaken` without its hypothesis on the table and holds on small instances
only. `ResetOnlyOrphans` needs to know for which connection a reset in flight was
meant, and the bonds leave resets out; `GivesUpOnlyOnLoss` weighs attempts
against all that the carrier lost or repeated before. Neither has a proof yet.
Of Endpoint, that every datagram is handled in the end (`EveryDatagramHandled`):
liveness is out of the prover's reach, and only its half about order is a
theorem, `DatagramsInOrder`. So is the content of `ConnectionLoops`, whose loops
are recursive operators, and of `Wire`, whose `DecodeOptions` is a recursion over
data.

## What the model found

*A full reassembly table starves the head of the line* (run `MCTableFull`).
`insert_received` (`core/stack.rs:686`) files a chunk only while the table has
a free slot, and the segment at `recv_nxt` takes the same way. If one segment
is lost and the table fills with what came after it, the retransmission is
dropped although the window is open, and so is every further one; the sender
closes when its budget is spent. The run shows it with a table of one chunk
and a single lost datagram. The default table has 128 slots and the window
65535 bytes, so it takes 128 small segments behind one loss. The TypeScript
core does the same (`ts/src/connection.ts:334`). The protocol document promises
"a reliable stream while both endpoints retain connection state"
(`protocol/tcp-fips-v1.md:67`).

*A read whose flush fails loses its bytes* (run `EndpointReads`).
`FipsTcpEndpoint::read` (`rust/fips-tcp-endpoint/src/lib.rs:177`) takes bytes out
of the connection, which may emit a window update, and then awaits the flush.
If FIPS refuses that datagram, or the caller drops the future, the bytes go to
nobody. The connection stays, the peer's bytes are acknowledged, and the next
read goes on behind the gap. The run needs a peer that connects and sends, and
one failed send. `ts/src/fips.ts:101` does the same. The sentence of the protocol
document quoted above excepts the loss of connection state only, and here both
ends retain it. `write` has the same order (`lib.rs:150`): an error there may
come with bytes that were accepted and will be sent.

Behaviour worth knowing that the code or its documents accept: a close behind a
zero window without payload waits for input and is not probed (`CloseSendsFin`
excepts it; `PollHasWork` is that its idle probe timer is not reported); a peer that acknowledges probes but does not read is closed when
the probes run out; a reset of `abort` that arrives out of order is ignored or
challenged and the peer is freed by the exchange that follows
(`AbortReachesPeer`).

A connect future that is dropped while its SYN is being sent leaves the
connection, whose id nobody has (`NoOrphan` excepts it by `abandoned`, at most
one per dropped future). It holds a place under the limits: until its retry
budget removes it if the peer does not answer, and otherwise until the peer ends
it. `abort_peer` is the only way for the application to remove it. A connect whose send fails removes it.

`close_listener` drops the queue of connections that were not accepted yet but
not the connections: they stay in the table, hold their place under the limits,
and the application has no id to close them with, only `abort_peer`
(`EveryoneReachable` excepts them by `dropped`). A connection still in its
handshake at that moment makes the queue anew, and `accept` returns it although
nobody listens, or to the next listener; a second `close_listener` drops that
queue too, as it does not look whether the port listens (`core/stack.rs:65`). The
TypeScript `listen` clears the queue instead (`ts/src/stack.ts:47`). Neither is stated or excluded by a
document of the repository.

## What is left out

* Clock values in TcpPair: there a deadline is passed or it is not, which adds
  behaviours and removes none. Timers has them, for one connection and any peer.
  Saturating additions of the u64 clock do not saturate in it.
* Ports, PSH, the service port and the TCP/FIPS version option; a segment with
  the wrong version never creates a connection.
* A SYN without an mss option uses 1024 in the code; here every SYN has one.
* The ISN generator and collisions of initial sequence numbers: the runs choose
  them.
* A classifier of the reservation whose answers change over time.
* Connection ids that wrap: see `TableAssumption`.
* In TcpPair, failing flushes: to a stack they look like loss, which the carrier
  has. To a caller they do not, and that is Endpoint, whose stack in turn has
  no windows, closes or retransmissions.
* Of the adapter: the registration of the service at bind, a receiver that FIPS
  closes, counts in reports, the calls that only pass through.
* Counters of a connection's bytes are u128 and tokens u64: no overflow.
* The TypeScript core and adapter (`ts/src`): ports of the Rust ones, read for
  differences only. A second model of the same state machine would show the
  same; a difference between the two is what matters, and is in the plan.
* The interop driver and the smoltcp oracle, which are test harnesses without
  state of their own, and `ts/dist`, which is generated.

## Plan

Done: `SeqSpace`, `Reno`, `Connection`, `TcpPair` with twelve theorems, among
them that it implements ByteStream and that its two ends agree;
`ConnectionLoops`; `StackTable` with ten theorems; `Rtt` and
`Timers` with six theorems; `Endpoint` with four theorems;
`ByteStream` with its theorem; `Wire`.

In order, with the hazards each takes on (see `PROJECT.json`):

1. `ResetOnlyOrphans` for every value of the constants, with `BondsKept` and
   what it leaves out, the connections that resets in flight were meant for.
2. Parity of the TypeScript core: the definitions that differ, each compared on
   small inputs.
