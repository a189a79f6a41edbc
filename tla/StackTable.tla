----------------------------- MODULE StackTable -----------------------------
(***************************************************************************)
(* What the connections of one Stack share (stack.rs, stack_admission.rs,  *)
(* stack_abort.rs, stack_marker.rs, marker.rs): the connection table and   *)
(* its index by tuple, listeners and accept queues, the outbound queue,    *)
(* ids and ephemeral ports, admission limits, and send markers.            *)
(*                                                                         *)
(* A connection is cut down to what the stack looks at.  What its methods  *)
(* return is any Update that Connection.tla could return in that phase.    *)
(***************************************************************************)
EXTENDS Integers, Sequences, FiniteSets, Functions

CONSTANTS
  Peer,              \* carrier identities
  Service,           \* local ports an application may listen on
  RemotePort,        \* ports of the peers
  FirstPort, LastPort,     \* the ephemeral range, 49152 .. 65535 in the code
  MaxConnections,    \* Config.max_connections
  MaxPerPeer,        \* Config.max_connections_per_peer
  Tries,             \* attempts of allocate_ephemeral_port, 16384 in the code
  IdSpace,           \* 2^64: where next_connection_id wraps
  MaxCreated,        \* bound: connections created while the process runs
  MaxStacks,         \* bound: stacks created while the process runs
  Classifiers,       \* bound: the sets of peers a reservation may be for
  MaxOutbound,       \* bound: segments the driver leaves in the outbound queue
  MaxBytes,          \* bound: payload bytes a connection accepts
  MaxMarkers         \* bound: markers the application keeps

Ephemeral == FirstPort .. LastPort
Port == Service \cup Ephemeral

ASSUME TableAssumption ==
  /\ FirstPort \in Nat /\ LastPort \in Nat /\ FirstPort <= LastPort
  /\ Service \subseteq Nat \ {0} /\ RemotePort \subseteq Nat \ {0}
  /\ MaxConnections \in Nat \ {0} /\ MaxPerPeer \in Nat \ {0}
  /\ Tries \in Nat /\ Tries >= LastPort - FirstPort + 1
  /\ MaxCreated \in Nat /\ IdSpace \in Nat /\ MaxCreated + 1 < IdSpace
  /\ Classifiers \subseteq SUBSET Peer
  /\ MaxStacks \in Nat /\ MaxOutbound \in Nat /\ MaxBytes \in Nat /\ MaxMarkers \in Nat

VARIABLES
  listeners,     \* the ports listened on
  accepts,       \* accepts[p], for the ports that have a queue: ids to accept
  connections,   \* connections[id]
  lookup,        \* lookup[key]: the id of the connection with that tuple
  outbound,      \* the segments to send, as a set: order plays no part here
  nextId, nextPort,
  nextToken,     \* NEXT_CONNECTION_TOKEN, one for the process
  reservation,
  held,          \* ids connect and accept returned to the application
  markers,       \* markers the application keeps
  dropped,       \* ids that were in a queue close_listener removed
  early,         \* the reservation was set while the table was empty
  stacks

vars == <<listeners, accepts, connections, lookup, outbound, nextId, nextPort,
          nextToken, reservation, held, markers, dropped, early, stacks>>

Id == 1 .. IdSpace - 1
Phase == {"SynSent", "SynReceived", "Synchronized"}
Key == [peer : Peer, local : Port, remote : RemotePort]
Connection == [key : Key, phase : Phase, token : Nat, sent : Nat, acked : Nat]
Marker == [id : Id, token : Nat, bytes : Nat]

\* A segment to send: the tuple, who made it (0: no connection), and whether it
\* is the reset of an abort.
Outbound == [key : Key, token : Nat, abort : BOOLEAN]

Live == DOMAIN connections
Queue(port) == IF port \in DOMAIN accepts THEN accepts[port] ELSE <<>>

Sent(i, abort) == [key |-> connections[i].key, token |-> connections[i].token, abort |-> abort]

\* The queue becomes "rest" and "segments"; the driver empties a full one.
QueueOut(rest, segments) ==
  outbound' = IF Cardinality(rest \cup segments) <= MaxOutbound
              THEN rest \cup segments ELSE {}

\* emit: a connection may have a segment to send.
MayEmit(ids) == \E some \in SUBSET ids : QueueOut(outbound, {Sent(i, FALSE) : i \in some})

Init ==
  /\ listeners = {} /\ accepts = <<>>
  /\ connections = <<>> /\ lookup = <<>> /\ outbound = {}
  /\ nextId = 1 /\ nextPort = FirstPort /\ nextToken = 1
  /\ reservation = [slots |-> 0, eligible |-> {}]
  /\ held = {} /\ markers = {} /\ dropped = {} /\ early = TRUE /\ stacks = 1

-----------------------------------------------------------------------------
(* Listeners                                                               *)

Listen(port) ==
  /\ port \notin listeners
  /\ listeners' = listeners \cup {port}
  /\ accepts' = [p \in DOMAIN accepts \cup {port} |-> Queue(p)]
  /\ UNCHANGED <<connections, lookup, outbound, nextId, nextPort, nextToken,
                 reservation, held, markers, dropped, early, stacks>>

\* Also for a port that does not listen: a queue that a late handshake made
\* anew goes as well.
CloseListener(port) ==
  /\ listeners' = listeners \ {port}
  /\ accepts' = Restrict(accepts, DOMAIN accepts \ {port})
  /\ dropped' = dropped \cup Range(Queue(port))
  /\ UNCHANGED <<connections, lookup, outbound, nextId, nextPort, nextToken,
                 reservation, held, markers, early, stacks>>

\* Fault: the id that is returned stays in the queue.
AcceptKeeping(port) ==
  \E i \in DOMAIN Queue(port) :
    /\ Queue(port)[i] \in Live
    /\ \A j \in 1 .. i - 1 : Queue(port)[j] \notin Live
    /\ held' = held \cup {Queue(port)[i]}
    /\ accepts' = [accepts EXCEPT ![port] = SubSeq(@, i, Len(@))]

\* Pop until an id names a connection.
AcceptFirst(port) ==
  \E i \in DOMAIN Queue(port) :
    /\ Queue(port)[i] \in Live
    /\ \A j \in 1 .. i - 1 : Queue(port)[j] \notin Live
    /\ held' = held \cup {Queue(port)[i]}
    /\ accepts' = [accepts EXCEPT ![port] = SubSeq(@, i + 1, Len(@))]

\* Every id in the queue names a connection that is gone.
AcceptNone(port) ==
  /\ Queue(port) # <<>>
  /\ Range(Queue(port)) \cap Live = {}
  /\ accepts' = [accepts EXCEPT ![port] = <<>>]
  /\ UNCHANGED held

Accept(port) ==
  /\ AcceptFirst(port) \/ AcceptNone(port)
  /\ UNCHANGED <<listeners, connections, lookup, outbound, nextId, nextPort, nextToken,
                 reservation, markers, dropped, early, stacks>>

-----------------------------------------------------------------------------
(* Admission                                                               *)

Of(peer) == {i \in Live : connections[i].key.peer = peer}

\* Fault: one ordinary connection too many next to the reserved slots.
AdmitsOneMore(peer) ==
  /\ Cardinality(Live) < MaxConnections
  /\ Cardinality(Of(peer)) < MaxPerPeer
  /\ \/ reservation.slots = 0
     \/ Cardinality(Live) <= MaxConnections - reservation.slots
     \/ peer \in reservation.eligible

\* Fault: only connections past the handshake count for a peer.
AdmitsPending(peer) ==
  /\ Cardinality(Live) < MaxConnections
  /\ Cardinality({i \in Of(peer) : connections[i].phase = "Synchronized"}) < MaxPerPeer
  /\ \/ reservation.slots = 0
     \/ Cardinality(Live) < MaxConnections - reservation.slots
     \/ peer \in reservation.eligible

\* ensure_connection_capacity
Admits(peer) ==
  /\ Cardinality(Live) < MaxConnections
  /\ Cardinality(Of(peer)) < MaxPerPeer
  /\ \/ reservation.slots = 0
     \/ Cardinality(Live) < MaxConnections - reservation.slots
     \/ peer \in reservation.eligible

\* set_connection_reservation.  The classifier is a set of peers.
SetReservation(slots, eligible) ==
  /\ slots < MaxConnections
  /\ reservation' = IF slots = 0 THEN [slots |-> 0, eligible |-> {}]
                                 ELSE [slots |-> slots, eligible |-> eligible]
  /\ early' = (Live = {})
  /\ UNCHANGED <<listeners, accepts, connections, lookup, outbound, nextId, nextPort,
                 nextToken, held, markers, dropped, stacks>>

-----------------------------------------------------------------------------
(* Creation and removal                                                    *)

KeyOf(peer, local, remote) == [peer |-> peer, local |-> local, remote |-> remote]

IdAfter(i) == IF i + 1 = IdSpace THEN 1 ELSE i + 1

\* The next id and token; the connection enters both maps and emits its SYN.
Create(key, phase) ==
  /\ nextToken <= MaxCreated
  /\ connections' = [i \in Live \cup {nextId} |->
       IF i = nextId THEN [key |-> key, phase |-> phase, token |-> nextToken,
                           sent |-> 0, acked |-> 0]
       ELSE connections[i]]
  /\ lookup' = [k \in DOMAIN lookup \cup {key} |-> IF k = key THEN nextId ELSE lookup[k]]
  /\ QueueOut(outbound, {[key |-> key, token |-> nextToken, abort |-> FALSE]})
  /\ nextId' = IdAfter(nextId)
  /\ nextToken' = nextToken + 1

\* Fault: the index keeps the tuple.
RemoveKeepingIndex(ids) ==
  /\ connections' = Restrict(connections, Live \ ids)
  /\ UNCHANGED lookup

\* remove_connection of some connections.
Remove(ids) ==
  /\ connections' = Restrict(connections, Live \ ids)
  /\ lookup' = Restrict(lookup, DOMAIN lookup \ {connections[i].key : i \in ids})

\* Fault: the last port of the range is never tried.
PortAfterShort(port) == IF port + 1 >= LastPort THEN FirstPort ELSE port + 1

\* Fault: the range does not wrap.
PortAfterUnwrapped(port) == port + 1

PortAfter(port) == IF port = LastPort THEN FirstPort ELSE port + 1

\* The port that attempt n of allocate_ephemeral_port looks at.
PortTried[n \in Nat] == IF n = 0 THEN nextPort ELSE PortAfter(PortTried[n - 1])

Free(peer, remote, port) == KeyOf(peer, port, remote) \notin DOMAIN lookup

\* The attempt of allocate_ephemeral_port that finds a free port, if one does.
FreeAttempts(peer, remote) ==
  {n \in 0 .. Tries - 1 :
     /\ Free(peer, remote, PortTried[n])
     /\ \A m \in 0 .. n - 1 : ~Free(peer, remote, PortTried[m])}

\* connect, admitted.
Connect(peer, remote) ==
  \E n \in FreeAttempts(peer, remote) :
    /\ Admits(peer)
    /\ Create(KeyOf(peer, PortTried[n], remote), "SynSent")
    /\ nextPort' = PortTried[n + 1]
    /\ held' = held \cup {nextId}
    /\ UNCHANGED <<listeners, accepts, reservation, markers, dropped, early, stacks>>

\* connect, refused by the limits after a port was picked.
ConnectRefused(peer, remote) ==
  \E n \in FreeAttempts(peer, remote) :
    /\ ~Admits(peer)
    /\ nextPort' = PortTried[n + 1]
    /\ UNCHANGED <<listeners, accepts, connections, lookup, outbound, nextId, nextToken,
                   reservation, held, markers, dropped, early, stacks>>

\* connect, no ephemeral port left for the peer.
ConnectNoPort(peer, remote) ==
  /\ FreeAttempts(peer, remote) = {}
  /\ nextPort' = PortTried[Tries]
  /\ UNCHANGED <<listeners, accepts, connections, lookup, outbound, nextId, nextToken,
                 reservation, held, markers, dropped, early, stacks>>

-----------------------------------------------------------------------------
(* input                                                                   *)

\* A SYN of the right version for a listener; refused by the limits, it
\* changes nothing and is answered by nothing.
InputSyn(key) ==
  /\ key \notin DOMAIN lookup /\ key.local \in listeners
  /\ Admits(key.peer)
  /\ Create(key, "SynReceived")
  /\ UNCHANGED <<listeners, accepts, nextPort, reservation, held, markers, dropped,
                 early, stacks>>

\* A segment that no connection and no listener takes: emit_reset.
InputStray(key) ==
  /\ key \notin DOMAIN lookup
  /\ QueueOut(outbound, {[key |-> key, token |-> 0, abort |-> FALSE]})
  /\ UNCHANGED <<listeners, accepts, connections, lookup, nextId, nextPort, nextToken,
                 reservation, held, markers, dropped, early, stacks>>

\* What on_segment may do to a connection: acknowledge some of its payload,
\* and finish the handshake.
Progress(c) ==
  IF c.phase = "Synchronized"
  THEN {[c EXCEPT !.acked = n] : n \in c.acked .. c.sent}
  ELSE {c, [c EXCEPT !.phase = "Synchronized"]}

\* Fault: nothing is queued for a port that no longer listens.
EnqueueForListener(i) ==
  accepts' = IF connections[i].key.local \in listeners
             THEN [accepts EXCEPT ![connections[i].key.local] = Append(@, i)]
             ELSE accepts

\* The handshake of a server connection is done: queue it for accept, in a new
\* queue if close_listener removed the old one.
Enqueue(i) ==
  accepts' = [p \in DOMAIN accepts \cup {connections[i].key.local} |->
                IF p = connections[i].key.local THEN Append(Queue(p), i) ELSE Queue(p)]

InputKnown(key) ==
  LET i == lookup[key]
  IN  \E c \in Progress(connections[i]) :
        /\ connections' = [connections EXCEPT ![i] = c]
        /\ IF connections[i].phase = "SynReceived" /\ c.phase = "Synchronized"
           THEN Enqueue(i) ELSE UNCHANGED accepts
        /\ MayEmit({i})
        /\ UNCHANGED <<listeners, lookup, nextId, nextPort, nextToken, reservation, held,
                       markers, dropped, early, stacks>>

\* A reset, or the ACK of the last FIN: the connection closes.
InputCloses(key) ==
  /\ key \in DOMAIN lookup
  /\ Remove({lookup[key]})
  /\ UNCHANGED <<listeners, accepts, outbound, nextId, nextPort, nextToken, reservation,
                 held, markers, dropped, early, stacks>>

-----------------------------------------------------------------------------
(* poll, write, close, abort, drain_outbound                               *)

\* Deadlines of "closing" have passed or their attempts are spent; the others
\* may retransmit or probe.
Poll(closing) ==
  /\ Remove(closing)
  /\ MayEmit(Live \ closing)
  /\ UNCHANGED <<listeners, accepts, nextId, nextPort, nextToken, reservation, held,
                 markers, dropped, early, stacks>>

\* write_with_marker: "count" bytes fit the send buffer.
Write(i, count) ==
  /\ i \in held \cap Live
  /\ connections[i].phase = "Synchronized"
  /\ connections[i].sent + count <= MaxBytes
  /\ Cardinality(markers) < MaxMarkers
  /\ connections' = [connections EXCEPT ![i].sent = @ + count]
  /\ markers' = markers \cup {[id |-> i, token |-> connections[i].token,
                               bytes |-> connections[i].sent + count]}
  /\ MayEmit({i})
  /\ UNCHANGED <<listeners, accepts, lookup, nextId, nextPort, nextToken, reservation,
                 held, dropped, early, stacks>>

\* close: a connection whose handshake is not done is removed at once.
CloseUnfinished(i) ==
  /\ i \in held \cap Live
  /\ connections[i].phase # "Synchronized"
  /\ Remove({i})
  /\ UNCHANGED <<listeners, accepts, outbound, nextId, nextPort, nextToken, reservation,
                 held, markers, dropped, early, stacks>>

\* Read and a close that sends a FIN: the connection may emit a segment.
Emit(i) ==
  /\ i \in held \cap Live
  /\ MayEmit({i})
  /\ UNCHANGED <<listeners, accepts, connections, lookup, nextId, nextPort, nextToken,
                 reservation, held, markers, dropped, early, stacks>>

\* Fault: what is queued for the tuple is sent after the reset.
FlushNothing(ids) == outbound

\* Fault: whatever is queued for the peer is dropped.
FlushPeers(ids) == {x \in outbound : x.key.peer \notin {connections[i].key.peer : i \in ids}}

\* What abort leaves in the queue: the segments of other tuples.
FlushTuples(ids) == {x \in outbound : x.key \notin {connections[i].key : i \in ids}}

AbortAll(ids) ==
  /\ QueueOut(FlushTuples(ids), {Sent(i, TRUE) : i \in ids})
  /\ Remove(ids)
  /\ UNCHANGED <<listeners, accepts, nextId, nextPort, nextToken, reservation, held,
                 markers, dropped, early, stacks>>

Abort(i) == i \in held \cap Live /\ AbortAll({i})

AbortPeer(peer) == Of(peer) # {} /\ AbortAll(Of(peer))

DrainOutbound ==
  /\ outbound # {}
  /\ outbound' = {}
  /\ UNCHANGED <<listeners, accepts, connections, lookup, nextId, nextPort, nextToken,
                 reservation, held, markers, dropped, early, stacks>>

\* The application makes a new stack and keeps the markers of the old one.
NewStack ==
  /\ stacks < MaxStacks
  /\ stacks' = stacks + 1
  /\ listeners' = {} /\ accepts' = <<>>
  /\ connections' = <<>> /\ lookup' = <<>> /\ outbound' = {}
  /\ nextId' = 1 /\ nextPort' = FirstPort
  /\ reservation' = [slots |-> 0, eligible |-> {}]
  /\ held' = {} /\ dropped' = {} /\ early' = TRUE
  /\ UNCHANGED <<nextToken, markers>>

Next ==
  \/ \E port \in Service : Listen(port) \/ CloseListener(port) \/ Accept(port)
  \/ \E slots \in 0 .. MaxConnections - 1, eligible \in Classifiers :
       SetReservation(slots, eligible)
  \/ \E peer \in Peer, remote \in RemotePort :
       Connect(peer, remote) \/ ConnectRefused(peer, remote) \/ ConnectNoPort(peer, remote)
  \/ \E key \in Key : InputSyn(key) \/ InputStray(key)
  \/ \E key \in DOMAIN lookup : InputKnown(key) \/ InputCloses(key)
  \/ \E closing \in SUBSET Live : Poll(closing)
  \/ \E i \in Live, count \in 0 .. MaxBytes : Write(i, count)
  \/ \E i \in Live : CloseUnfinished(i) \/ Emit(i) \/ Abort(i)
  \/ \E peer \in Peer : AbortPeer(peer)
  \/ DrainOutbound
  \/ NewStack

Spec == Init /\ [][Next]_vars

-----------------------------------------------------------------------------
(* Markers                                                                 *)

\* Fault: the token is not compared.
StatusById(m) ==
  IF m.id \notin Live THEN "ConnectionGone"
  ELSE IF connections[m.id].acked >= m.bytes THEN "Acked" ELSE "Pending"

\* marker_status
Status(m) ==
  IF m.id \notin Live \/ connections[m.id].token # m.token THEN "ConnectionGone"
  ELSE IF connections[m.id].acked >= m.bytes THEN "Acked" ELSE "Pending"

-----------------------------------------------------------------------------
(* The table                                                               *)

PartialFunction(f, from, to) == DOMAIN f \subseteq from /\ \A x \in DOMAIN f : f[x] \in to

\* Every variable keeps its type.
TypeOK ==
  /\ listeners \subseteq Service
  /\ PartialFunction(accepts, Service, Seq(Id))
  /\ PartialFunction(connections, Id, Connection)
  /\ PartialFunction(lookup, Key, Id)
  /\ outbound \subseteq Outbound
  /\ nextId \in Id /\ nextPort \in Ephemeral /\ nextToken \in Nat
  /\ reservation.slots \in 0 .. MaxConnections - 1 /\ reservation.eligible \subseteq Peer
  /\ held \subseteq Id /\ markers \subseteq Marker /\ dropped \subseteq Id
  /\ early \in BOOLEAN /\ stacks \in Nat

\* The index and the table are inverse to each other: input never meets the
\* "lookup must reference a connection" panic, and no tuple has two connections
\* (connect, input, remove_connection).
TableConsistent ==
  /\ \A k \in DOMAIN lookup : lookup[k] \in Live /\ connections[lookup[k]].key = k
  /\ \A i \in Live : connections[i].key \in DOMAIN lookup /\ lookup[connections[i].key] = i

\* The limits of Config hold at all times, not just when a SYN is checked
\* (ensure_connection_capacity, for both directions).
LimitsHold ==
  /\ Cardinality(Live) <= MaxConnections
  /\ \A p \in Peer : Cardinality(Of(p)) <= MaxPerPeer

\* What the reservation is for: set before any traffic, it leaves an eligible
\* peer room for as long as fewer eligible connections exist than slots.
ReservedSlotsFree ==
  early /\ reservation.slots > 0 =>
    \A p \in reservation.eligible :
      /\ Cardinality({i \in Live : connections[i].key.peer \in reservation.eligible})
           < reservation.slots
      /\ Cardinality(Of(p)) < MaxPerPeer
      => Admits(p)

\* connect finds an ephemeral port whenever one is free for the peer's port:
\* the loop goes once around the range (allocate_ephemeral_port).
PortIsFound ==
  \A p \in Peer, r \in RemotePort :
    (\E port \in Ephemeral : Free(p, r, port)) => FreeAttempts(p, r) # {}

-----------------------------------------------------------------------------
(* Accepting                                                               *)

\* No connection is lost between handshake and application: all but those whose
\* server handshake is under way were returned by connect or accept, or are in
\* the queue of their port, or were in a queue that close_listener threw away.
EveryoneReachable ==
  \A i \in Live :
    \/ connections[i].phase = "SynReceived"
    \/ i \in held \cup dropped \cup Range(Queue(connections[i].key.local))

\* accept returns a connection at most once: what was returned is in no queue,
\* and no queue has an id twice.
AcceptedOnce ==
  \A port \in DOMAIN accepts :
    /\ Range(accepts[port]) \cap held = {}
    /\ \A i, j \in DOMAIN accepts[port] : accepts[port][i] = accepts[port][j] => i = j

-----------------------------------------------------------------------------
(* Aborts and markers                                                      *)

\* The reset of an abort is the last word of its connection: nothing of the
\* connection is left in the queue with it.
ResetIsLast ==
  \A x, y \in outbound : x.abort /\ y.token = x.token => y = x

\* An abort takes back segments of its own tuple only.
AbortSparesOthers ==
  [][outbound' # {} =>
       \A x \in outbound \ outbound' : \E y \in outbound' : y.abort /\ y.key = x.key]_vars

\* A marker only moves forward: Pending, Acked, gone.  One whose connection is
\* gone stays so, even if a later stack has a connection with its id.
MarkersSettle ==
  [][\A m \in markers :
       /\ Status(m) = "ConnectionGone" => Status(m)' = "ConnectionGone"
       /\ Status(m) = "Acked" => Status(m)' # "Pending"]_vars
=============================================================================
