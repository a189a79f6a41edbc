------------------------------ MODULE Endpoint ------------------------------
(***************************************************************************)
(* FipsTcpEndpoint (rust/fips-tcp-endpoint/src): one Stack behind a FIPS   *)
(* service.  Every call is asynchronous: it changes the stack at once,     *)
(* drains the outbound queue and then awaits one send after the other.  A  *)
(* send may fail, and the caller may drop the future at any await.  Calls  *)
(* take &mut self, so one is in progress at a time.                        *)
(*                                                                         *)
(* The stack is cut down to what a caller sees of it: which connections    *)
(* exist, how far they are, what is left to read, and which operations     *)
(* emit a segment.  Each side of a peer has one port; StackTable and       *)
(* Connection have the rest.                                               *)
(***************************************************************************)
EXTENDS Integers, Sequences, FiniteSets, Functions, SequencesExt

CONSTANTS
  PublicKey,        \* x-only keys of the peers
  Incoming,         \* datagrams that may arrive
  MaxConnections,   \* Config.max_connections
  MaxPerPeer,       \* Config.max_connections_per_peer
  BatchLimit,       \* datagrams of one receive batch, 64 in the code
  MaxArrivals,      \* bound: datagrams that arrive
  MaxCreated,       \* bound: connections created
  MaxFailures,      \* bound: sends that fail
  MaxCancels        \* bound: futures dropped

\* A PeerIdentity: a curve point, of which two share an x coordinate.
Identity == [key : PublicKey, odd : BOOLEAN]

\* The side of a connection that connected, as its tuple shows it.
Origin == {"active", "passive"}

\* What arrives: bytes that do not decode, or a segment for a tuple; a "syn" of
\* the active tuple is the answer to its SYN.
Content == {"malformed", "syn", "ack", "data", "reset"}
Datagram == [from : Identity, origin : Origin, content : Content]

ASSUME EndpointAssumption ==
  /\ Incoming \subseteq Datagram
  /\ MaxConnections \in Nat \ {0} /\ MaxPerPeer \in Nat \ {0} /\ BatchLimit \in Nat \ {0}
  /\ MaxArrivals \in Nat /\ MaxCreated \in Nat /\ MaxFailures \in Nat /\ MaxCancels \in Nat

VARIABLES
  connections,   \* of the stack, by id
  accepts,       \* its accept queue
  receiver,      \* datagrams FIPS holds for the service
  batch,         \* receive_batch
  call,          \* the call in progress, or Idle
  owned,         \* ids the application knows
  got,           \* got[id]: the bytes read calls returned
  nextId,
  arrived,       \* ghost: every datagram FIPS has accepted for the service
  handled,       \* ghost: the datagrams a receive has taken out of a batch
  taken,         \* ghost: taken[id], the bytes the stack took in
  abandoned,     \* ghost: ids of connect calls whose future was dropped
  failures, cancels

stackVars == <<connections, accepts, nextId, taken>>
appVars   == <<owned, got, abandoned, failures, cancels>>
inputVars == <<receiver, batch, arrived, handled>>
vars == <<stackVars, call, appVars, inputVars>>

\* Fault: keyed by the identity FIPS presents, which tells the two points apart.
PeerKeyOfPoint(peer) == peer

\* PeerKey::from: the point with the even y coordinate.
PeerKey(peer) == [peer EXCEPT !.odd = FALSE]

Phase == {"SynSent", "SynReceived", "Synchronized"}

Idle == [kind |-> "none"]
Busy == call # Idle

Live == DOMAIN connections

Of(peer) == {i \in Live : connections[i].peer = PeerKey(peer)}

-----------------------------------------------------------------------------
(* The stack: a record [connections, accepts, outbound, nextId, taken].    *)
(* The outbound queue is empty between calls: each drains what it emitted. *)

Stack ==
  [connections |-> connections, accepts |-> accepts, outbound |-> <<>>,
   nextId |-> nextId, taken |-> taken]

Tuple(s, peer, origin) ==
  {i \in DOMAIN s.connections :
     s.connections[i].peer = PeerKey(peer) /\ s.connections[i].origin = origin}

Emit(s, peer) == [s EXCEPT !.outbound = Append(@, PeerKey(peer))]

Admits(s, peer) ==
  /\ Cardinality(DOMAIN s.connections) < MaxConnections
  /\ Cardinality({i \in DOMAIN s.connections : s.connections[i].peer = PeerKey(peer)})
       < MaxPerPeer

With(f, i, value) == [j \in DOMAIN f \cup {i} |-> IF j = i THEN value ELSE f[j]]

\* Create a connection and emit its SYN or SYN-ACK.
Create(s, peer, origin, phase) ==
  Emit([s EXCEPT !.connections = With(@, s.nextId, [peer |-> PeerKey(peer), origin |-> origin,
                                                    phase |-> phase, unread |-> <<>>]),
                 !.taken = With(@, s.nextId, <<>>),
                 !.nextId = @ + 1], peer)

Drop(s, ids) == [s EXCEPT !.connections = Restrict(@, DOMAIN @ \ ids)]

TakeIn(s, i, byte) ==
  Emit([s EXCEPT !.connections[i].unread = Append(@, byte),
                 !.taken[i] = Append(@, byte)], s.connections[i].peer)

Opened(s, i) == [s EXCEPT !.connections[i].phase = "Synchronized"]

\* on_segment of connection i: what its phase makes of the segment.
OnSegment(s, i, d, byte) ==
  LET phase == s.connections[i].phase
      peer == s.connections[i].peer
      accepted == IF phase = "SynReceived"
                  THEN [Opened(s, i) EXCEPT !.accepts = Append(@, i)] ELSE s
  IN  IF d.content = "reset" THEN Drop(s, {i})
      ELSE IF phase = "SynSent"
      THEN (IF d.content = "syn" THEN Emit(Opened(s, i), peer) ELSE s)
      ELSE IF d.content = "syn" THEN Emit(s, peer)
      ELSE IF d.content = "data" THEN TakeIn(accepted, i, byte) ELSE accepted

\* Stack::input; "byte" is the payload of the datagram, if it has one.
StackInput(s, d, byte) ==
  IF d.content = "malformed" THEN s
  ELSE IF Tuple(s, d.from, d.origin) # {}
  THEN OnSegment(s, CHOOSE i \in Tuple(s, d.from, d.origin) : TRUE, d, byte)
  ELSE IF d.content = "syn" /\ d.origin = "passive"
  THEN IF Admits(s, d.from) /\ s.nextId <= MaxCreated
       THEN Create(s, d.from, "passive", "SynReceived") ELSE s
  ELSE IF d.content = "reset" THEN s ELSE Emit(s, d.from)

-----------------------------------------------------------------------------
(* Calls                                                                   *)

\* The synchronous part of a call leaves the stack as s; the call then holds
\* what flush drained and has to send.
Flush(kind, id, bytes, s) ==
  /\ connections' = s.connections /\ accepts' = s.accepts
  /\ nextId' = s.nextId /\ taken' = s.taken
  /\ call' = [kind |-> kind, id |-> id, bytes |-> bytes, sending |-> s.outbound]

NoId == 0

Init ==
  /\ connections = <<>> /\ accepts = <<>>
  /\ receiver = <<>> /\ batch = <<>> /\ call = Idle
  /\ owned = {} /\ got = <<>> /\ nextId = 1
  /\ arrived = <<>> /\ handled = <<>> /\ taken = <<>> /\ abandoned = {}
  /\ failures = 0 /\ cancels = 0

\* connect, when the stack has a port and room for it.
Connect(peer) ==
  /\ ~Busy
  /\ Admits(Stack, peer) /\ nextId <= MaxCreated
  /\ Tuple(Stack, peer, "active") = {}
  /\ Flush("connect", nextId, <<>>, Create(Stack, peer, "active", "SynSent"))
  /\ UNCHANGED <<appVars, inputVars>>

\* accept is synchronous: it skips the ids of connections that are gone.
Accept ==
  LET first == SelectInSeq(accepts, LAMBDA i : i \in Live)
  IN  /\ ~Busy
      /\ accepts # <<>>
      /\ owned' = IF first = 0 THEN owned ELSE owned \cup {accepts[first]}
      /\ accepts' = IF first = 0 THEN <<>> ELSE SubSeq(accepts, first + 1, Len(accepts))
      /\ UNCHANGED <<connections, nextId, taken, call, got, abandoned, failures,
                     cancels, inputVars>>

\* read: up to max bytes, and a window update if the window opened.
Read(i, max, opens) ==
  LET unread == connections[i].unread
      n == IF max < Len(unread) THEN max ELSE Len(unread)
      s == [Stack EXCEPT !.connections[i].unread = SubSeq(@, n + 1, Len(@))]
  IN  /\ ~Busy /\ i \in owned \cap Live
      /\ n > 0 \/ ~opens
      /\ Flush("read", i, SubSeq(unread, 1, n),
               IF opens THEN Emit(s, connections[i].peer) ELSE s)
      /\ UNCHANGED <<appVars, inputVars>>

\* write, and the close of an open connection: a segment, if the windows allow it.
Send(i) ==
  /\ ~Busy /\ i \in owned \cap Live
  /\ connections[i].phase = "Synchronized"
  /\ Flush("send", i, <<>>, Emit(Stack, connections[i].peer))
  /\ UNCHANGED <<appVars, inputVars>>

\* close before the handshake is done.
CloseUnfinished(i) ==
  /\ ~Busy /\ i \in owned \cap Live
  /\ connections[i].phase # "Synchronized"
  /\ Flush("close", i, <<>>, Drop(Stack, {i}))
  /\ UNCHANGED <<appVars, inputVars>>

\* abort and abort_peer remove connections and reset their peer.
Abort(i) ==
  /\ ~Busy /\ i \in owned \cap Live
  /\ Flush("abort", i, <<>>, Emit(Drop(Stack, {i}), connections[i].peer))
  /\ UNCHANGED <<appVars, inputVars>>

Resets(peer) == [k \in 1 .. Cardinality(Of(peer)) |-> PeerKey(peer)]

AbortPeer(peer) ==
  /\ ~Busy /\ Of(peer) # {}
  /\ Flush("abort_peer", NoId, <<>>,
           [Drop(Stack, Of(peer)) EXCEPT !.outbound = @ \o Resets(peer)])
  /\ UNCHANGED <<appVars, inputVars>>

\* poll: some connections send again, some are given up.
Repeats(due) == [k \in 1 .. Cardinality(due) |-> connections[SetToSeq(due)[k]].peer]

Poll(due, over) ==
  /\ ~Busy /\ due \cap over = {}
  /\ Flush("poll", NoId, <<>>, [Drop(Stack, over) EXCEPT !.outbound = @ \o Repeats(due)])
  /\ UNCHANGED <<appVars, inputVars>>

-----------------------------------------------------------------------------
(* Receiving                                                               *)

Arrive(d) ==
  /\ Len(arrived) < MaxArrivals
  /\ arrived' = Append(arrived, d)
  /\ receiver' = Append(receiver, d)
  /\ UNCHANGED <<stackVars, call, appVars, batch, handled>>

FromReceiver == SubSeq(receiver, 1, IF Len(receiver) < BatchLimit THEN Len(receiver) ELSE BatchLimit)

\* Fault: the wait fills the batch whether or not it is empty.
WaitAnew ==
  /\ receiver # <<>>
  /\ batch' = FromReceiver
  /\ receiver' = SubSeq(receiver, Len(FromReceiver) + 1, Len(receiver))

\* recv_batch_into, when the wait is over: a batch that is not empty is kept.
Wait ==
  IF batch # <<>> THEN UNCHANGED <<batch, receiver>>
  ELSE /\ receiver # <<>>
       /\ batch' = FromReceiver
       /\ receiver' = SubSeq(receiver, Len(FromReceiver) + 1, Len(receiver))

\* wait_for_input, once it is ready.  Before that it changes nothing, so that a
\* wait that is dropped is no step.
WaitForInput ==
  /\ ~Busy
  /\ Wait
  /\ UNCHANGED <<stackVars, call, appVars, arrived, handled>>

\* The batch goes through the stack in order, but for what the caller's filter
\* refuses; datagram k carries the byte k after those handled before.
Admitted(s, datagrams, admitted, k) ==
  IF k \in admitted THEN StackInput(s, datagrams[k], Len(handled) + k) ELSE s

AfterBatch(datagrams, admitted) ==
  FoldLeftDomain(LAMBDA s, k : Admitted(s, datagrams, admitted, k), Stack, datagrams)

\* receive_report_filtered_datagrams_with_clock: wait, process the batch, flush.
Receive(admitted) ==
  LET datagrams == IF batch # <<>> THEN batch ELSE FromReceiver
  IN  /\ ~Busy
      /\ datagrams # <<>> /\ admitted \subseteq DOMAIN datagrams
      /\ receiver' = IF batch # <<>> THEN receiver
                     ELSE SubSeq(receiver, Len(datagrams) + 1, Len(receiver))
      /\ batch' = <<>>
      /\ handled' = handled \o datagrams
      /\ Flush("receive", NoId, <<>>, AfterBatch(datagrams, admitted))
      /\ UNCHANGED <<appVars, arrived>>

-----------------------------------------------------------------------------
(* flush, one await at a time                                              *)

SendOne ==
  /\ Busy /\ call.sending # <<>>
  /\ call' = [call EXCEPT !.sending = Tail(@)]
  /\ UNCHANGED <<stackVars, appVars, inputVars>>

\* The bytes that reads of connection i have returned.
Returned(i) == IF i \in DOMAIN got THEN got[i] ELSE <<>>

\* Ok: the caller has its id or its bytes.
Return ==
  /\ Busy /\ call.sending = <<>>
  /\ call' = Idle
  /\ owned' = IF call.kind = "connect" THEN owned \cup {call.id} ELSE owned
  /\ got' = IF call.kind = "read"
            THEN With(got, call.id, Returned(call.id) \o call.bytes) ELSE got
  /\ UNCHANGED <<stackVars, abandoned, failures, cancels, inputVars>>

\* Fault: a failed connect leaves its connection behind.
KeepConnection == connections

\* A failed connect closes the connection nobody will know of.
Rollback == IF call.kind = "connect" THEN Drop(Stack, {call.id}).connections ELSE connections

\* Err: the rest of what was drained is dropped, and the result with it.
SendFails ==
  /\ Busy /\ call.sending # <<>>
  /\ failures < MaxFailures
  /\ failures' = failures + 1
  /\ call' = Idle
  /\ connections' = Rollback
  /\ UNCHANGED <<accepts, nextId, taken, owned, got, abandoned, cancels, inputVars>>

\* The caller drops the future while a send is awaited: no code runs after it.
Cancel ==
  /\ Busy /\ call.sending # <<>>
  /\ cancels < MaxCancels
  /\ cancels' = cancels + 1
  /\ call' = Idle
  /\ abandoned' = IF call.kind = "connect" THEN abandoned \cup {call.id} ELSE abandoned
  /\ UNCHANGED <<stackVars, owned, got, failures, inputVars>>

-----------------------------------------------------------------------------

ReceiveAny == \E admitted \in SUBSET (1 .. BatchLimit) : Receive(admitted)

Next ==
  \/ \E d \in Incoming : Arrive(d)
  \/ \E peer \in Identity : Connect(peer) \/ AbortPeer(peer)
  \/ Accept
  \/ \E i \in Live : \/ \E max \in 1 .. 2, opens \in BOOLEAN : Read(i, max, opens)
                     \/ Send(i) \/ CloseUnfinished(i) \/ Abort(i)
  \/ \E due \in SUBSET Live, over \in SUBSET Live : Poll(due, over)
  \/ WaitForInput
  \/ ReceiveAny
  \/ SendOne \/ Return \/ SendFails \/ Cancel

Spec == Init /\ [][Next]_vars

\* FIPS finishes each send, and the event loop comes back to receive between
\* other calls, however often it drops a wait.
FairSpec == Spec /\ WF_vars(SendOne \/ Return) /\ SF_vars(ReceiveAny)

-----------------------------------------------------------------------------
(* Properties                                                              *)

\* A wait may be dropped, repeated, or followed by another call: every datagram
\* FIPS accepted reaches the stack once, in order (wait_for_input keeps a batch
\* that was not processed).
EveryDatagramHandled ==
  \A n \in 1 .. MaxArrivals :
    Len(arrived) >= n ~> Len(handled) >= n /\ IsPrefix(handled, arrived)

\* A connection that was opened for a caller is known to that caller, or will be
\* when its connect returns, unless the caller dropped the future: a failed send
\* leaves no connection that counts against the limits and that nobody can close.
NoOrphan ==
  \A i \in Live : connections[i].origin = "active" =>
    \/ i \in owned \cup abandoned
    \/ Busy /\ call.kind = "connect" /\ call.id = i

\* The per-peer limit counts the two points of one public key as one peer,
\* although FIPS may present either.
OnePeerOneBudget ==
  \A key \in PublicKey :
    Cardinality({i \in Live : connections[i].peer.key = key}) <= MaxPerPeer

\* A stream is reliable while the connection lives: what reads returned, what a
\* read in progress holds and what is unread are together what was taken in.
ReadsLoseNothing ==
  \A i \in owned \cap Live :
    Returned(i)
      \o (IF Busy /\ call.kind = "read" /\ call.id = i THEN call.bytes ELSE <<>>)
      \o connections[i].unread
    = taken[i]
=============================================================================
