-------------------------- MODULE StackTableProofs --------------------------
(***************************************************************************)
(* One Stack, for every number of peers, ports, limits and reservations:   *)
(* the index by tuple and the table by id are inverse to each other, the   *)
(* admission limits and the reservation hold, connect finds a free port,   *)
(* no accepted connection is lost or returned twice, an abort is final and *)
(* touches its own tuple only, and markers only move forward.              *)
(***************************************************************************)
EXTENDS StackTable, FiniteSetTheorems, WellFoundedInduction, TLAPS

\* A connection has the fields of a connection, whatever is in them.
IsConnection(c) ==
  c = [key |-> c.key, phase |-> c.phase, token |-> c.token, sent |-> c.sent, acked |-> c.acked]

\* Ids go up with the tokens, so that the next id is not taken.
IdsGoUp ==
  /\ nextId \in Nat /\ nextToken \in Nat
  /\ 1 <= nextId /\ nextId <= nextToken /\ nextToken <= MaxCreated + 1
  /\ \A i \in Live : i \in Nat /\ i < nextId

Connections == \A i \in Live : IsConnection(connections[i])

TableInv == TableConsistent /\ IdsGoUp /\ Connections

\* allocate_connection_id returns an id that no connection has.
LEMMA NextIdFree ==
  ASSUME IdsGoUp PROVE nextId \notin Live
BY DEF IdsGoUp

\* A connection that is created under a tuple without one keeps the two maps
\* inverse (connect_from_with_isn, input).
LEMMA CreateKeepsTable ==
  ASSUME TableInv, NEW key, NEW phase, key \notin DOMAIN lookup, Create(key, phase)
  PROVE  TableInv'
<1> DEFINE new == [key |-> key, phase |-> phase, token |-> nextToken, sent |-> 0, acked |-> 0]
<1>1. Live' = Live \cup {nextId} /\ DOMAIN lookup' = DOMAIN lookup \cup {key}
  BY DEF Create, Live
<1>2. connections'[nextId] = new /\ \A i \in Live : connections'[i] = connections[i]
  BY NextIdFree DEF Create, TableInv, Live
<1>3. lookup'[key] = nextId /\ \A k \in DOMAIN lookup : lookup'[k] = lookup[k]
  BY DEF Create
<1>4. TableConsistent'
  <2>1. ASSUME NEW k \in DOMAIN lookup'
        PROVE  lookup'[k] \in Live' /\ connections'[lookup'[k]].key = k
    BY <1>1, <1>2, <1>3 DEF TableInv, TableConsistent
  <2>2. ASSUME NEW i \in Live'
        PROVE  connections'[i].key \in DOMAIN lookup' /\ lookup'[connections'[i].key] = i
    BY <1>1, <1>2, <1>3 DEF TableInv, TableConsistent
  <2>3. QED BY <2>1, <2>2 DEF TableConsistent
<1>5. IdsGoUp'
  <2>1. nextToken' = nextToken + 1 /\ nextToken <= MaxCreated
    BY DEF Create
  <2>2. nextId' = nextId + 1
    BY <2>1, TableAssumption DEF Create, IdAfter, TableInv, IdsGoUp
  <2>3. QED BY <1>1, <2>1, <2>2, TableAssumption DEF TableInv, IdsGoUp
<1>6. Connections'
  <2>1. ASSUME NEW i \in Live' PROVE IsConnection(connections'[i])
    <3>1. CASE i \in Live
      BY <3>1, <1>2 DEF TableInv, Connections, IsConnection
    <3>2. CASE i = nextId
      BY <3>2, <1>2 DEF IsConnection
    <3>3. QED BY <3>1, <3>2, <1>1
  <2>2. QED BY <2>1 DEF Connections
<1>7. QED BY <1>4, <1>5, <1>6 DEF TableInv

\* Removing connections by id removes exactly their tuples (remove_connection).
LEMMA RemoveKeepsTable ==
  ASSUME TableInv, NEW ids \in SUBSET Live, Remove(ids), UNCHANGED <<nextId, nextToken>>
  PROVE  TableInv'
<1> DEFINE gone == {connections[i].key : i \in ids}
<1>1. Live' = Live \ ids /\ \A i \in Live' : connections'[i] = connections[i]
  BY DEF Remove, Restrict, Live
<1>2. DOMAIN lookup' = DOMAIN lookup \ gone /\ \A k \in DOMAIN lookup' : lookup'[k] = lookup[k]
  BY DEF Remove, Restrict
<1>3. ASSUME NEW k \in DOMAIN lookup'
      PROVE  lookup'[k] \in Live' /\ connections'[lookup'[k]].key = k
  <2>1. k \in DOMAIN lookup /\ k \notin gone /\ lookup'[k] = lookup[k]
    BY <1>2
  <2>2. lookup[k] \in Live /\ connections[lookup[k]].key = k
    BY <2>1 DEF TableInv, TableConsistent
  <2>3. lookup[k] \notin ids
    BY <2>1, <2>2
  <2>4. QED BY <1>1, <2>1, <2>2, <2>3
<1>4. ASSUME NEW i \in Live'
      PROVE  connections'[i].key \in DOMAIN lookup' /\ lookup'[connections'[i].key] = i
  <2>1. i \in Live /\ i \notin ids /\ connections'[i] = connections[i]
    BY <1>1
  <2>2. connections[i].key \in DOMAIN lookup /\ lookup[connections[i].key] = i
    BY <2>1 DEF TableInv, TableConsistent
  <2>3. connections[i].key \notin gone
    <3>1. SUFFICES ASSUME NEW j \in ids, connections[j].key = connections[i].key PROVE FALSE
      OBVIOUS
    <3>2. QED BY <3>1, <2>1, <2>2 DEF TableInv, TableConsistent
  <2>4. QED BY <1>2, <2>1, <2>2, <2>3
<1>5. IdsGoUp' /\ Connections'
  BY <1>1 DEF TableInv, IdsGoUp, Connections, IsConnection
<1>6. QED BY <1>3, <1>4, <1>5 DEF TableInv, TableConsistent

\* A step that leaves the maps and the counters alone.
LEMMA UnchangedTable ==
  ASSUME TableInv, UNCHANGED <<connections, lookup, nextId, nextToken>>
  PROVE  TableInv'
BY DEF TableInv, TableConsistent, IdsGoUp, Connections, IsConnection, Live

\* A step that changes a connection but not its tuple (on_segment, write).
LEMMA UpdateKeepsTable ==
  ASSUME TableInv, NEW i \in Live, NEW c, IsConnection(c), c.key = connections[i].key,
         connections' = [connections EXCEPT ![i] = c],
         UNCHANGED <<lookup, nextId, nextToken>>
  PROVE  TableInv'
<1>1. Live' = Live /\ connections'[i] = c
  BY DEF Live
<1>2. \A j \in Live : j # i => connections'[j] = connections[j]
  BY DEF Live
<1>3. \A j \in Live : connections'[j].key = connections[j].key
  BY <1>1, <1>2
<1>4. TableConsistent'
  BY <1>1, <1>3 DEF TableInv, TableConsistent
<1>5. Connections'
  BY <1>1, <1>2 DEF TableInv, Connections, IsConnection
<1>6. IdsGoUp'
  BY <1>1 DEF TableInv, IdsGoUp
<1>7. QED BY <1>4, <1>5, <1>6 DEF TableInv

\* What on_segment makes of a connection is a connection of the same tuple.
LEMMA ProgressKeepsKey ==
  ASSUME NEW c, IsConnection(c), NEW d \in Progress(c)
  PROVE  IsConnection(d) /\ d.key = c.key
BY DEF IsConnection, Progress

\* Every step of the stack keeps the two maps inverse.
LEMMA StepKeepsTable ==
  ASSUME TableInv, [Next]_vars PROVE TableInv'
<1>1. ASSUME NEW port \in Service, Listen(port) \/ CloseListener(port) \/ Accept(port)
      PROVE  TableInv'
  BY <1>1, UnchangedTable DEF Listen, CloseListener, Accept
<1>2. ASSUME NEW slots, NEW eligible, SetReservation(slots, eligible) PROVE TableInv'
  BY <1>2, UnchangedTable DEF SetReservation
<1>3. ASSUME NEW peer, NEW remote, Connect(peer, remote) PROVE TableInv'
  <2>1. PICK n \in FreeAttempts(peer, remote) :
          Create(KeyOf(peer, PortTried[n], remote), "SynSent")
    BY <1>3 DEF Connect
  <2>2. KeyOf(peer, PortTried[n], remote) \notin DOMAIN lookup
    BY <2>1 DEF FreeAttempts, Free
  <2>3. QED BY <2>1, <2>2, CreateKeepsTable
<1>4. ASSUME NEW peer, NEW remote,
             ConnectRefused(peer, remote) \/ ConnectNoPort(peer, remote)
      PROVE  TableInv'
  BY <1>4, UnchangedTable DEF ConnectRefused, ConnectNoPort
<1>5. ASSUME NEW key, InputSyn(key) PROVE TableInv'
  BY <1>5, CreateKeepsTable DEF InputSyn
<1>6. ASSUME NEW key, InputStray(key) PROVE TableInv'
  BY <1>6, UnchangedTable DEF InputStray
<1>7. ASSUME NEW key \in DOMAIN lookup, InputKnown(key) PROVE TableInv'
  <2> DEFINE i == lookup[key]
  <2>1. i \in Live /\ IsConnection(connections[i])
    BY <1>7 DEF TableInv, TableConsistent, Connections
  <2>2. PICK c \in Progress(connections[i]) :
          /\ connections' = [connections EXCEPT ![i] = c]
          /\ UNCHANGED <<lookup, nextId, nextToken>>
    BY <1>7 DEF InputKnown
  <2>3. IsConnection(c) /\ c.key = connections[i].key
    BY <2>1, <2>2, ProgressKeepsKey
  <2>4. QED BY <2>1, <2>2, <2>3, UpdateKeepsTable
<1>8. ASSUME NEW key \in DOMAIN lookup, InputCloses(key) PROVE TableInv'
  <2>1. {lookup[key]} \in SUBSET Live
    BY <1>8 DEF TableInv, TableConsistent
  <2>2. QED BY <1>8, <2>1, RemoveKeepsTable DEF InputCloses
<1>9. ASSUME NEW closing \in SUBSET Live, Poll(closing) PROVE TableInv'
  BY <1>9, RemoveKeepsTable DEF Poll
<1>10. ASSUME NEW i \in Live, NEW count, Write(i, count) PROVE TableInv'
  <2> DEFINE c == [connections[i] EXCEPT !.sent = @ + count]
  <2>1. IsConnection(connections[i])
    BY DEF TableInv, Connections
  <2>2. IsConnection(c) /\ c.key = connections[i].key
    BY <2>1 DEF IsConnection
  <2>3. connections' = [connections EXCEPT ![i] = c]
    BY <1>10 DEF Write
  <2>4. UNCHANGED <<lookup, nextId, nextToken>>
    BY <1>10 DEF Write
  <2> HIDE DEF c
  <2>5. QED BY <2>2, <2>3, <2>4, UpdateKeepsTable
<1>11. ASSUME NEW i \in Live, CloseUnfinished(i) PROVE TableInv'
  BY <1>11, RemoveKeepsTable DEF CloseUnfinished
<1>12. ASSUME NEW i \in Live, Emit(i) PROVE TableInv'
  BY <1>12, UnchangedTable DEF Emit
<1>13. ASSUME NEW ids \in SUBSET Live, AbortAll(ids) PROVE TableInv'
  BY <1>13, RemoveKeepsTable DEF AbortAll
<1>14. ASSUME NEW i \in Live, Abort(i) PROVE TableInv'
  BY <1>14, <1>13 DEF Abort
<1>15. ASSUME NEW peer, AbortPeer(peer) PROVE TableInv'
  BY <1>15, <1>13 DEF AbortPeer, Of
<1>16. CASE DrainOutbound
  BY <1>16, UnchangedTable DEF DrainOutbound
<1>17. CASE NewStack
  BY <1>17 DEF NewStack, TableInv, TableConsistent, IdsGoUp, Connections, Live
<1>18. CASE UNCHANGED vars
  BY <1>18, UnchangedTable DEF vars
<1>19. QED
  BY <1>1, <1>2, <1>3, <1>4, <1>5, <1>6, <1>7, <1>8, <1>9, <1>10, <1>11, <1>12, <1>14,
     <1>15, <1>16, <1>17, <1>18 DEF Next

\* A new stack has two empty maps.
LEMMA InitTable == Init => TableInv
BY TableAssumption DEF Init, TableInv, TableConsistent, IdsGoUp, Connections, Live

\* For every number of peers, ports, ids and limits, and whatever segments,
\* timers and calls come in whatever order: the index by tuple and the table by
\* id are inverse to each other (connect, input, poll, close, abort).
THEOREM TablesAgree == Spec => []TableConsistent
<1>1. Init => TableInv
  BY InitTable
<1>2. TableInv /\ [Next]_vars => TableInv'
  BY StepKeepsTable
<1>3. TableInv => TableConsistent
  BY DEF TableInv
<1>4. QED BY <1>1, <1>2, <1>3, PTL DEF Spec

-----------------------------------------------------------------------------
(* Admission                                                               *)

LimitInv == IsFiniteSet(Live) /\ LimitsHold

\* The connections of a step that creates none: some of those there were, each
\* under its tuple.
FewerConnections ==
  /\ Live' \subseteq Live
  /\ \A i \in Live' : connections'[i].key = connections[i].key

\* A step that creates no connection keeps the limits.
LEMMA FewerWithinLimits ==
  ASSUME LimitInv, FewerConnections PROVE LimitInv'
<1>1. IsFiniteSet(Live') /\ Cardinality(Live') <= Cardinality(Live)
  BY FS_Subset DEF LimitInv, FewerConnections
<1>2. Cardinality(Live) \in Nat /\ Cardinality(Live') \in Nat
  BY <1>1, FS_CardinalityType DEF LimitInv
<1>3. Cardinality(Live') <= MaxConnections
  BY <1>1, <1>2, TableAssumption DEF LimitInv, LimitsHold
<1>4. ASSUME NEW p \in Peer PROVE Cardinality(Of(p)') <= MaxPerPeer
  <2>1. Of(p) \subseteq Live /\ Of(p)' \subseteq Of(p)
    BY DEF FewerConnections, Of
  <2>2. IsFiniteSet(Of(p))
    BY <2>1, FS_Subset DEF LimitInv
  <2>3. IsFiniteSet(Of(p)') /\ Cardinality(Of(p)') <= Cardinality(Of(p))
    BY <2>1, <2>2, FS_Subset
  <2>4. Cardinality(Of(p)) \in Nat /\ Cardinality(Of(p)') \in Nat
    BY <2>2, <2>3, FS_CardinalityType
  <2>5. Cardinality(Of(p)) <= MaxPerPeer
    BY DEF LimitInv, LimitsHold
  <2>6. QED BY <2>3, <2>4, <2>5, TableAssumption
<1>5. QED BY <1>1, <1>3, <1>4 DEF LimitInv, LimitsHold

\* A connection that ensure_connection_capacity admitted fits the limits.
LEMMA CreateWithinLimits ==
  ASSUME TableInv, LimitInv, NEW key, NEW phase, Admits(key.peer), Create(key, phase)
  PROVE  LimitInv'
<1>1. nextId \notin Live /\ Live' = Live \cup {nextId}
  BY NextIdFree DEF TableInv, Create, Live
<1>2. connections'[nextId].key = key /\ \A i \in Live : connections'[i] = connections[i]
  BY <1>1 DEF Create, Live
<1>3. IsFiniteSet(Live') /\ Cardinality(Live') = Cardinality(Live) + 1
  BY <1>1, FS_AddElement DEF LimitInv
<1>4. Cardinality(Live') <= MaxConnections
  <2>1. Cardinality(Live) \in Nat
    BY FS_CardinalityType DEF LimitInv
  <2>2. QED BY <1>3, <2>1, TableAssumption DEF Admits
<1>5. ASSUME NEW p \in Peer PROVE Cardinality(Of(p)') <= MaxPerPeer
  <2>1. IsFiniteSet(Of(p)) /\ nextId \notin Of(p)
    BY <1>1, FS_Subset DEF LimitInv, Of
  <2>2. CASE p = key.peer
    <3>1. Of(p)' = Of(p) \cup {nextId}
      BY <1>1, <1>2, <2>2 DEF Of
    <3>2. Cardinality(Of(p)') = Cardinality(Of(p)) + 1
      BY <2>1, <3>1, FS_AddElement
    <3>3. Cardinality(Of(p)) \in Nat
      BY <2>1, FS_CardinalityType
    <3>4. QED BY <2>2, <3>2, <3>3, TableAssumption DEF Admits
  <2>3. CASE p # key.peer
    <3>1. Of(p)' = Of(p)
      BY <1>1, <1>2, <2>3 DEF Of
    <3>2. QED BY <3>1 DEF LimitInv, LimitsHold
  <2>4. QED BY <2>2, <2>3
<1>6. QED BY <1>3, <1>4, <1>5 DEF LimitInv, LimitsHold

\* Removing connections leaves the others as they were.
LEMMA RemoveIsFewer ==
  ASSUME NEW ids, Remove(ids) PROVE FewerConnections
BY DEF Remove, Restrict, FewerConnections, Live

\* A step that leaves the table alone.
LEMMA UnchangedIsFewer ==
  ASSUME UNCHANGED connections PROVE FewerConnections
BY DEF FewerConnections, Live

\* A connection that changes and keeps its tuple.
LEMMA UpdateIsFewer ==
  ASSUME NEW i \in Live, NEW c, c.key = connections[i].key,
         connections' = [connections EXCEPT ![i] = c]
  PROVE  FewerConnections
BY DEF FewerConnections, Live

\* Every step of the stack keeps the limits.
LEMMA StepWithinLimits ==
  ASSUME TableInv, LimitInv, [Next]_vars PROVE LimitInv'
<1>1. ASSUME NEW port \in Service, Listen(port) \/ CloseListener(port) \/ Accept(port)
      PROVE  FewerConnections
  BY <1>1, UnchangedIsFewer DEF Listen, CloseListener, Accept
<1>2. ASSUME NEW slots, NEW eligible, SetReservation(slots, eligible) PROVE FewerConnections
  BY <1>2, UnchangedIsFewer DEF SetReservation
<1>3. ASSUME NEW peer, NEW remote, Connect(peer, remote) PROVE LimitInv'
  <2>1. PICK n \in FreeAttempts(peer, remote) :
          Admits(peer) /\ Create(KeyOf(peer, PortTried[n], remote), "SynSent")
    BY <1>3 DEF Connect
  <2>2. KeyOf(peer, PortTried[n], remote).peer = peer
    BY DEF KeyOf
  <2>3. QED BY <2>1, <2>2, CreateWithinLimits
<1>4. ASSUME NEW peer, NEW remote,
             ConnectRefused(peer, remote) \/ ConnectNoPort(peer, remote)
      PROVE  FewerConnections
  BY <1>4, UnchangedIsFewer DEF ConnectRefused, ConnectNoPort
<1>5. ASSUME NEW key, InputSyn(key) PROVE LimitInv'
  BY <1>5, CreateWithinLimits DEF InputSyn
<1>6. ASSUME NEW key, InputStray(key) PROVE FewerConnections
  BY <1>6, UnchangedIsFewer DEF InputStray
<1>7. ASSUME NEW key \in DOMAIN lookup, InputKnown(key) PROVE FewerConnections
  <2>1. lookup[key] \in Live /\ IsConnection(connections[lookup[key]])
    BY <1>7 DEF TableInv, TableConsistent, Connections
  <2>2. PICK c \in Progress(connections[lookup[key]]) :
          connections' = [connections EXCEPT ![lookup[key]] = c]
    BY <1>7 DEF InputKnown
  <2>3. c.key = connections[lookup[key]].key
    BY <2>1, <2>2, ProgressKeepsKey
  <2>4. QED BY <2>1, <2>2, <2>3, UpdateIsFewer
<1>8. ASSUME NEW key \in DOMAIN lookup, InputCloses(key) PROVE FewerConnections
  BY <1>8, RemoveIsFewer DEF InputCloses
<1>9. ASSUME NEW closing \in SUBSET Live, Poll(closing) PROVE FewerConnections
  BY <1>9, RemoveIsFewer DEF Poll
<1>10. ASSUME NEW i \in Live, NEW count, Write(i, count) PROVE FewerConnections
  <2> DEFINE c == [connections[i] EXCEPT !.sent = @ + count]
  <2>1. c.key = connections[i].key
    BY DEF TableInv, Connections, IsConnection
  <2>2. connections' = [connections EXCEPT ![i] = c]
    BY <1>10 DEF Write
  <2> HIDE DEF c
  <2>3. QED BY <2>1, <2>2, UpdateIsFewer
<1>11. ASSUME NEW i \in Live, CloseUnfinished(i) \/ Emit(i) \/ Abort(i) PROVE FewerConnections
  BY <1>11, RemoveIsFewer, UnchangedIsFewer DEF CloseUnfinished, Emit, Abort, AbortAll
<1>12. ASSUME NEW peer, AbortPeer(peer) PROVE FewerConnections
  BY <1>12, RemoveIsFewer DEF AbortPeer, AbortAll
<1>13. CASE DrainOutbound
  BY <1>13, UnchangedIsFewer, FewerWithinLimits DEF DrainOutbound
<1>14. CASE NewStack
  <2>1. FewerConnections
    BY <1>14 DEF NewStack, FewerConnections, Live
  <2>2. QED BY <2>1, FewerWithinLimits
<1>15. CASE UNCHANGED vars
  BY <1>15, UnchangedIsFewer, FewerWithinLimits DEF vars
<1>16. QED
  BY <1>1, <1>2, <1>3, <1>4, <1>5, <1>6, <1>7, <1>8, <1>9, <1>10, <1>11, <1>12, <1>13,
     <1>14, <1>15, FewerWithinLimits DEF Next

-----------------------------------------------------------------------------
(* The ephemeral ports                                                     *)

\* A set of natural numbers has a least element.
LEMMA LeastNumber ==
  ASSUME NEW T \in SUBSET Nat, T # {}
  PROVE  \E m \in T : \A n \in T : m <= n
<1>1. PICK m \in T : \A n \in T : <<n, m>> \notin OpToRel(<, Nat)
  BY NatLessThanWellFounded, WFMin
<1>2. \A n \in T : ~(n < m)
  BY <1>1 DEF OpToRel
<1>3. QED BY <1>2

\* Division leaves a remainder in range.
LEMMA Division ==
  ASSUME NEW K \in Nat \ {0}, NEW a \in Nat
  PROVE  (a \div K) \in Nat /\ (a % K) \in 0 .. K - 1 /\ a = K * (a \div K) + (a % K)
OBVIOUS

\* The remainder is the only number in range that division leaves.
LEMMA Remainder ==
  ASSUME NEW K \in Nat \ {0}, NEW q \in Nat, NEW r \in 0 .. K - 1
  PROVE  (K * q + r) % K = r
OBVIOUS

\* Going up by one, a remainder goes up by one or starts over.
LEMMA NextRemainder ==
  ASSUME NEW K \in Nat \ {0}, NEW a \in Nat
  PROVE  ((a + 1) % K) = IF (a % K) = K - 1 THEN 0 ELSE (a % K) + 1
<1> DEFINE q == a \div K
           r == a % K
<1>1. q \in Nat /\ r \in 0 .. K - 1 /\ a = K * q + r
  BY Division
<1>2. CASE r = K - 1
  <2>1. a + 1 = K * (q + 1) + 0
    BY <1>1, <1>2
  <2>2. (K * (q + 1) + 0) % K = 0
    BY <1>1, Remainder, q + 1 \in Nat, 0 \in 0 .. K - 1
  <2>3. QED BY <2>1, <2>2, <1>2
<1>3. CASE r # K - 1
  <2>1. a + 1 = K * q + (r + 1) /\ r + 1 \in 0 .. K - 1
    BY <1>1, <1>3
  <2>2. (K * q + (r + 1)) % K = r + 1
    BY <1>1, <2>1, Remainder
  <2>3. QED BY <2>1, <2>2, <1>3
<1>4. QED BY <1>2, <1>3

\* How many ports there are, and the one that is n ports after nextPort.
PortCount == LastPort - FirstPort + 1
PortAt(n) == FirstPort + ((nextPort - FirstPort + n) % PortCount)

\* PortAfter goes from each port to the next around the range.
LEMMA PortsGoAround ==
  ASSUME nextPort \in Ephemeral
  PROVE  /\ PortAt(0) = nextPort
         /\ \A n \in Nat : PortAt(n) \in Ephemeral /\ PortAfter(PortAt(n)) = PortAt(n + 1)
<1>1. PortCount \in Nat \ {0} /\ nextPort - FirstPort \in 0 .. PortCount - 1
  BY TableAssumption DEF PortCount, Ephemeral
<1>2. PortAt(0) = nextPort
  <2> DEFINE r == nextPort - FirstPort
  <2>1. r + 0 = PortCount * 0 + r
    BY <1>1
  <2>2. (PortCount * 0 + r) % PortCount = r
    BY <1>1, Remainder
  <2>3. FirstPort + r = nextPort
    BY TableAssumption DEF Ephemeral
  <2>4. QED BY <2>1, <2>2, <2>3 DEF PortAt
<1>3. ASSUME NEW n \in Nat
      PROVE  PortAt(n) \in Ephemeral /\ PortAfter(PortAt(n)) = PortAt(n + 1)
  <2> DEFINE a == nextPort - FirstPort + n
             r == a % PortCount
  <2>1. a \in Nat /\ nextPort - FirstPort + (n + 1) = a + 1
    BY <1>1
  <2>2. r \in 0 .. PortCount - 1
    BY <1>1, <2>1, Division
  <2>3. ((a + 1) % PortCount) = IF r = PortCount - 1 THEN 0 ELSE r + 1
    BY <1>1, <2>1, NextRemainder
  <2>4. PortAt(n) = FirstPort + r /\ PortAt(n + 1) = FirstPort + ((a + 1) % PortCount)
    BY <2>1 DEF PortAt
  <2> HIDE DEF a, r
  <2>5. FirstPort + r = LastPort <=> r = PortCount - 1
    BY <2>2, TableAssumption DEF PortCount
  <2>6. PortAt(n) \in Ephemeral
    BY <2>2, <2>4, TableAssumption DEF PortCount, Ephemeral
  <2>7. PortAfter(FirstPort + r) = FirstPort + ((a + 1) % PortCount)
    BY <2>2, <2>3, <2>5, TableAssumption DEF PortAfter
  <2>8. QED BY <2>4, <2>6, <2>7
<1>4. QED BY <1>2, <1>3

\* The definition of PortTried defines a function: the one that goes around.
LEMMA PortTriedDefined ==
  ASSUME nextPort \in Ephemeral
  PROVE  PortTried = [n \in Nat |-> IF n = 0 THEN nextPort ELSE PortAfter(PortTried[n - 1])]
<1> DEFINE g == [n \in Nat |-> PortAt(n)]
<1>1. ASSUME NEW n \in Nat
      PROVE  g[n] = IF n = 0 THEN nextPort ELSE PortAfter(g[n - 1])
  <2>1. CASE n = 0
    BY <2>1, PortsGoAround
  <2>2. CASE n # 0
    <3>1. n - 1 \in Nat /\ (n - 1) + 1 = n
      BY <2>2
    <3>2. PortAfter(PortAt(n - 1)) = PortAt((n - 1) + 1)
      BY <3>1, PortsGoAround
    <3>3. QED BY <2>2, <3>1, <3>2
  <2>3. QED BY <2>1, <2>2
<1>2. g = [n \in Nat |-> IF n = 0 THEN nextPort ELSE PortAfter(g[n - 1])]
  BY <1>1
<1> HIDE DEF g
<1>3. QED BY <1>2 DEF PortTried

\* Attempt n looks at the port that is n ports after nextPort.
LEMMA PortOfAttempt ==
  ASSUME nextPort \in Ephemeral
  PROVE  \A n \in Nat : PortTried[n] = PortAt(n)
<1> DEFINE T == {n \in Nat : PortTried[n] # PortAt(n)}
<1>1. SUFFICES ASSUME T # {} PROVE FALSE
  OBVIOUS
<1>2. PICK m \in T : \A n \in T : m <= n
  BY <1>1, LeastNumber
<1>3. PortTried[m] = IF m = 0 THEN nextPort ELSE PortAfter(PortTried[m - 1])
  BY PortTriedDefined
<1>4. CASE m = 0
  BY <1>2, <1>3, <1>4, PortsGoAround
<1>5. CASE m # 0
  <2>1. m - 1 \in Nat /\ m - 1 \notin T /\ (m - 1) + 1 = m
    BY <1>2, <1>5
  <2>2. PortTried[m - 1] = PortAt(m - 1)
    BY <2>1
  <2>3. PortAfter(PortAt(m - 1)) = PortAt(m)
    BY <2>1, PortsGoAround
  <2>4. QED BY <1>2, <1>3, <1>5, <2>2, <2>3
<1>6. QED BY <1>4, <1>5

\* Every port of the range is looked at once the loop has gone around.
LEMMA EveryPortTried ==
  ASSUME nextPort \in Ephemeral, NEW port \in Ephemeral
  PROVE  \E n \in 0 .. Tries - 1 : PortTried[n] = port
<1>1. PortCount \in Nat \ {0} /\ nextPort - FirstPort \in 0 .. PortCount - 1
      /\ port - FirstPort \in 0 .. PortCount - 1 /\ PortCount <= Tries /\ Tries \in Nat
  BY TableAssumption DEF PortCount, Ephemeral
<1> DEFINE d == port - nextPort
           n == IF d >= 0 THEN d ELSE d + PortCount
           r == port - FirstPort
<1>2. n \in 0 .. PortCount - 1 /\ n \in 0 .. Tries - 1 /\ n \in Nat
  BY <1>1, TableAssumption DEF Ephemeral
<1>3. (nextPort - FirstPort + n) % PortCount = r
  <2>1. CASE d >= 0
    <3>1. nextPort - FirstPort + n = PortCount * 0 + r
      BY <2>1, <1>1, TableAssumption DEF Ephemeral
    <3>2. (PortCount * 0 + r) % PortCount = r
      BY <1>1, Remainder
    <3>3. QED BY <3>1, <3>2
  <2>2. CASE ~(d >= 0)
    <3>1. nextPort - FirstPort + n = PortCount * 1 + r
      BY <2>2, <1>1, TableAssumption DEF Ephemeral
    <3>2. (PortCount * 1 + r) % PortCount = r
      BY <1>1, Remainder
    <3>3. QED BY <3>1, <3>2
  <2>3. QED BY <2>1, <2>2
<1>4. PortAt(n) = port
  BY <1>3, TableAssumption DEF PortAt, Ephemeral
<1>5. QED BY <1>2, <1>4, PortOfAttempt

\* connect finds a free port when there is one: the first of those it looks at.
LEMMA FreePortFound ==
  ASSUME nextPort \in Ephemeral PROVE PortIsFound
<1> SUFFICES ASSUME NEW p \in Peer, NEW r \in RemotePort,
                    NEW port \in Ephemeral, Free(p, r, port)
             PROVE  FreeAttempts(p, r) # {}
  BY DEF PortIsFound
<1> DEFINE T == {n \in 0 .. Tries - 1 : Free(p, r, PortTried[n])}
<1>1. T # {} /\ T \in SUBSET Nat
  BY EveryPortTried, TableAssumption
<1>2. PICK m \in T : \A n \in T : m <= n
  BY <1>1, LeastNumber
<1>3. ASSUME NEW n \in 0 .. m - 1 PROVE ~Free(p, r, PortTried[n])
  <2>1. n \in 0 .. Tries - 1 /\ ~(m <= n)
    BY <1>2, TableAssumption
  <2>2. QED BY <1>2, <2>1
<1>4. m \in FreeAttempts(p, r)
  BY <1>2, <1>3 DEF FreeAttempts
<1>5. QED BY <1>4

\* Attempts look at ports of the range.
LEMMA PortsTried ==
  ASSUME nextPort \in Ephemeral, NEW n \in Nat PROVE PortTried[n] \in Ephemeral
BY PortOfAttempt, PortsGoAround

-----------------------------------------------------------------------------
(* Types                                                                   *)

\* Clients live on ephemeral ports, servers on ports that were listened on.
PortsByRole ==
  \A i \in Live :
    /\ connections[i].phase = "SynSent" => connections[i].key.local \in Ephemeral
    /\ connections[i].phase = "SynReceived" => connections[i].key.local \in Service

TypeInv == TypeOK /\ PortsByRole

\* An id that is handed out is one.
LEMMA NextIdType ==
  ASSUME IdsGoUp, nextToken <= MaxCreated PROVE nextId \in Id /\ IdAfter(nextId) \in Id
BY TableAssumption DEF IdsGoUp, Id, IdAfter

\* Whatever is queued to be sent, the queue keeps its type.
LEMMA QueueKeepsType ==
  ASSUME NEW rest \in SUBSET Outbound, NEW segments \in SUBSET Outbound,
         QueueOut(rest, segments)
  PROVE  outbound' \subseteq Outbound
BY DEF QueueOut

\* So does what a live connection emits.
LEMMA SentType ==
  ASSUME TypeOK, NEW i \in Live, NEW abort \in BOOLEAN
  PROVE  Sent(i, abort) \in Outbound
BY DEF TypeOK, PartialFunction, Sent, Outbound, Connection, Live

\* And what a step emits for some of the live connections.
LEMMA EmitKeepsType ==
  ASSUME TypeOK, NEW ids \in SUBSET Live, MayEmit(ids)
  PROVE  outbound' \subseteq Outbound
<1>1. PICK some \in SUBSET ids : QueueOut(outbound, {Sent(i, FALSE) : i \in some})
  BY DEF MayEmit
<1>2. {Sent(i, FALSE) : i \in some} \in SUBSET Outbound
  BY SentType
<1>3. QED BY <1>1, <1>2, QueueKeepsType DEF TypeOK

\* A connection that is created is one, under an id that is one.
LEMMA CreateKeepsTypes ==
  ASSUME TypeInv, IdsGoUp, NEW key \in Key, NEW phase \in Phase, Create(key, phase),
         phase = "SynSent" => key.local \in Ephemeral,
         phase = "SynReceived" => key.local \in Service
  PROVE  /\ PartialFunction(connections', Id, Connection) /\ PartialFunction(lookup', Key, Id)
         /\ outbound' \subseteq Outbound /\ nextId' \in Id /\ nextToken' \in Nat
         /\ PortsByRole'
<1> DEFINE new == [key |-> key, phase |-> phase, token |-> nextToken, sent |-> 0, acked |-> 0]
<1>1. nextId \in Id /\ nextId' \in Id /\ nextToken \in Nat /\ nextToken' \in Nat
  BY NextIdType DEF Create, IdsGoUp
<1>2. new \in Connection
  BY <1>1 DEF Connection
<1>3. DOMAIN connections' = DOMAIN connections \cup {nextId}
  BY DEF Create, Live
<1>4. \A i \in Live' : connections'[i] = IF i = nextId THEN new ELSE connections[i]
  BY <1>3 DEF Create, Live
<1>5. PartialFunction(connections', Id, Connection)
  BY <1>1, <1>2, <1>3, <1>4 DEF TypeInv, TypeOK, PartialFunction, Live
<1>6. PartialFunction(lookup', Key, Id)
  BY <1>1 DEF Create, TypeInv, TypeOK, PartialFunction
<1>7. outbound' \subseteq Outbound
  <2>1. [key |-> key, token |-> nextToken, abort |-> FALSE] \in Outbound
    BY <1>1 DEF Outbound
  <2>2. QED BY <2>1, QueueKeepsType DEF Create, TypeInv, TypeOK
<1>8. PortsByRole'
  BY <1>3, <1>4 DEF TypeInv, PortsByRole, Live
<1>9. QED BY <1>1, <1>5, <1>6, <1>7, <1>8

\* What is left after a removal keeps its type.
LEMMA RemoveKeepsTypes ==
  ASSUME TypeInv, NEW ids, Remove(ids)
  PROVE  /\ PartialFunction(connections', Id, Connection) /\ PartialFunction(lookup', Key, Id)
         /\ PortsByRole'
BY DEF TypeInv, TypeOK, PartialFunction, PortsByRole, Remove, Restrict, Live

\* A connection that changes and keeps its tuple.
LEMMA UpdateKeepsTypes ==
  ASSUME TypeInv, NEW i \in Live, NEW c \in Connection, c.key = connections[i].key,
         c.phase \in {connections[i].phase, "Synchronized"},
         connections' = [connections EXCEPT ![i] = c]
  PROVE  PartialFunction(connections', Id, Connection) /\ PortsByRole'
BY DEF TypeInv, TypeOK, PartialFunction, PortsByRole, Live

\* What on_segment may do to a connection is a connection with its tuple and
\* token, no bytes more written, and no bytes fewer acknowledged.
LEMMA ProgressType ==
  ASSUME NEW c \in Connection, NEW d \in Progress(c)
  PROVE  /\ d \in Connection /\ d.key = c.key /\ d.token = c.token /\ d.sent = c.sent
         /\ d.phase \in {c.phase, "Synchronized"} /\ d.acked >= c.acked
BY DEF Connection, Progress, Phase

\* A queue of ids for a port, whether the port has one or not.
LEMMA QueueType ==
  ASSUME TypeOK, NEW port PROVE Queue(port) \in Seq(Id)
BY DEF TypeOK, PartialFunction, Queue

\* The calls of a listener keep the types.
LEMMA ListenersKeepTypes ==
  ASSUME TypeInv, NEW port \in Service, Listen(port) \/ CloseListener(port) \/ Accept(port)
  PROVE  TypeInv'
<1>1. UNCHANGED <<connections, lookup, outbound, nextId, nextPort, nextToken,
                  reservation, markers, early, stacks>>
  BY DEF Listen, CloseListener, Accept
<1>2. PortsByRole'
  BY <1>1 DEF TypeInv, PortsByRole, Live
<1>3. Queue(port) \in Seq(Id)
  BY QueueType DEF TypeInv
<1>4. /\ listeners' \subseteq Service /\ held' \subseteq Id /\ dropped' \subseteq Id
      /\ PartialFunction(accepts', Service, Seq(Id))
  <2>1. CASE Listen(port)
    BY <2>1, QueueType DEF Listen, TypeInv, TypeOK, PartialFunction
  <2>2. CASE CloseListener(port)
    BY <2>2, <1>3 DEF CloseListener, TypeInv, TypeOK, PartialFunction, Restrict, Range
  <2>3. CASE AcceptFirst(port) /\ UNCHANGED <<listeners, dropped>>
    <3>1. PICK i \in DOMAIN Queue(port) :
            /\ held' = held \cup {Queue(port)[i]}
            /\ accepts' = [accepts EXCEPT ![port] = SubSeq(@, i + 1, Len(@))]
      BY <2>3 DEF AcceptFirst
    <3>2. port \in DOMAIN accepts /\ Queue(port) = accepts[port]
      BY <3>1 DEF Queue
    <3>3. SubSeq(accepts[port], i + 1, Len(accepts[port])) \in Seq(Id)
      BY <1>3, <3>1, <3>2
    <3>4. QED BY <1>3, <2>3, <3>1, <3>2, <3>3 DEF TypeInv, TypeOK, PartialFunction
  <2>4. CASE AcceptNone(port) /\ UNCHANGED <<listeners, dropped>>
    BY <2>4 DEF AcceptNone, TypeInv, TypeOK, PartialFunction
  <2>5. QED BY <2>1, <2>2, <2>3, <2>4 DEF Accept
<1>5. QED BY <1>1, <1>2, <1>4 DEF TypeInv, TypeOK

\* An id in the queue of its port: the handshake is done (Enqueue).
LEMMA EnqueueKeepsType ==
  ASSUME TypeInv, NEW i \in Live, connections[i].key.local \in Service, Enqueue(i)
  PROVE  PartialFunction(accepts', Service, Seq(Id))
<1>1. i \in Id
  BY DEF TypeInv, TypeOK, PartialFunction, Live
<1>2. \A p \in DOMAIN accepts' : Queue(p) \in Seq(Id) /\ Append(Queue(p), i) \in Seq(Id)
  BY <1>1, QueueType DEF TypeInv
<1>3. QED BY <1>2 DEF Enqueue, TypeInv, TypeOK, PartialFunction

\* Every step of the stack keeps the types.
LEMMA StepKeepsTypes ==
  ASSUME TypeInv, TableInv, [Next]_vars PROVE TypeInv'
<1> USE DEF TypeInv
<1>1. ASSUME NEW port \in Service, Listen(port) \/ CloseListener(port) \/ Accept(port)
      PROVE  TypeInv'
  BY <1>1, ListenersKeepTypes
<1>2. ASSUME NEW slots \in 0 .. MaxConnections - 1, NEW eligible \in Classifiers,
             SetReservation(slots, eligible)
      PROVE  TypeInv'
  <2>1. reservation'.slots \in 0 .. MaxConnections - 1 /\ reservation'.eligible \subseteq Peer
    BY <1>2, TableAssumption DEF SetReservation
  <2>2. QED BY <1>2, <2>1 DEF SetReservation, TypeOK, PortsByRole, Live
<1>3. ASSUME NEW peer \in Peer, NEW remote \in RemotePort, Connect(peer, remote) PROVE TypeInv'
  <2>1. PICK n \in FreeAttempts(peer, remote) :
          /\ Create(KeyOf(peer, PortTried[n], remote), "SynSent")
          /\ nextPort' = PortTried[n + 1]
          /\ held' = held \cup {nextId}
          /\ UNCHANGED <<listeners, accepts, reservation, markers, dropped, early, stacks>>
    BY <1>3 DEF Connect
  <2>2. n \in Nat /\ n + 1 \in Nat
    BY TableAssumption DEF FreeAttempts
  <2>3. PortTried[n] \in Ephemeral /\ nextPort' \in Ephemeral
    BY <2>1, <2>2, PortsTried DEF TypeOK
  <2>4. KeyOf(peer, PortTried[n], remote) \in Key /\ KeyOf(peer, PortTried[n], remote).local \in Ephemeral
    BY <2>3 DEF KeyOf, Key, Port
  <2>5. nextId \in Id
    BY <2>1, NextIdType DEF Create, TableInv
  <2>6. "SynSent" \in Phase
    BY DEF Phase
  <2>7. /\ PartialFunction(connections', Id, Connection) /\ PartialFunction(lookup', Key, Id)
        /\ outbound' \subseteq Outbound /\ nextId' \in Id /\ nextToken' \in Nat
        /\ PortsByRole'
    BY <2>1, <2>4, <2>6, CreateKeepsTypes DEF TableInv
  <2>8. QED BY <2>1, <2>3, <2>5, <2>7 DEF TypeOK
<1>4. ASSUME NEW peer, NEW remote, ConnectRefused(peer, remote) \/ ConnectNoPort(peer, remote)
      PROVE  TypeInv'
  <2>1. nextPort' \in Ephemeral
    <3>1. CASE ConnectRefused(peer, remote)
      <4>1. PICK n \in FreeAttempts(peer, remote) : nextPort' = PortTried[n + 1]
        BY <3>1 DEF ConnectRefused
      <4>2. n + 1 \in Nat
        BY TableAssumption DEF FreeAttempts
      <4>3. QED BY <4>1, <4>2, PortsTried DEF TypeOK
    <3>2. CASE ConnectNoPort(peer, remote)
      BY <3>2, PortsTried, TableAssumption DEF ConnectNoPort, TypeOK
    <3>3. QED BY <1>4, <3>1, <3>2
  <2>2. UNCHANGED <<listeners, accepts, connections, lookup, outbound, nextId, nextToken,
                    reservation, held, markers, dropped, early, stacks>>
    BY <1>4 DEF ConnectRefused, ConnectNoPort
  <2>3. QED BY <2>1, <2>2 DEF TypeOK, PortsByRole, Live
<1>5. ASSUME NEW key \in Key, InputSyn(key) PROVE TypeInv'
  <2>1. key.local \in Service /\ "SynReceived" \in Phase
    BY <1>5 DEF InputSyn, TypeOK, Phase
  <2>2. /\ PartialFunction(connections', Id, Connection) /\ PartialFunction(lookup', Key, Id)
        /\ outbound' \subseteq Outbound /\ nextId' \in Id /\ nextToken' \in Nat
        /\ PortsByRole'
    BY <1>5, <2>1, CreateKeepsTypes DEF InputSyn, TableInv
  <2>3. QED BY <1>5, <2>2 DEF InputSyn, TypeOK
<1>6. ASSUME NEW key \in Key, InputStray(key) PROVE TypeInv'
  <2>1. [key |-> key, token |-> 0, abort |-> FALSE] \in Outbound
    BY DEF Outbound
  <2>2. outbound' \subseteq Outbound
    BY <1>6, <2>1, QueueKeepsType DEF InputStray, TypeOK
  <2>3. QED BY <1>6, <2>2 DEF InputStray, TypeOK, PortsByRole, Live
<1>7. ASSUME NEW key \in DOMAIN lookup, InputKnown(key) PROVE TypeInv'
  <2> DEFINE i == lookup[key]
  <2>1. i \in Live /\ connections[i] \in Connection
    BY DEF TypeOK, PartialFunction, TableInv, TableConsistent, Live
  <2>2. PICK c \in Progress(connections[i]) :
          /\ connections' = [connections EXCEPT ![i] = c]
          /\ IF connections[i].phase = "SynReceived" /\ c.phase = "Synchronized"
             THEN Enqueue(i) ELSE UNCHANGED accepts
          /\ MayEmit({i})
          /\ UNCHANGED <<listeners, lookup, nextId, nextPort, nextToken, reservation, held,
                         markers, dropped, early, stacks>>
    BY <1>7 DEF InputKnown
  <2> HIDE DEF i
  <2>3. c \in Connection /\ c.key = connections[i].key /\ c.phase \in {connections[i].phase, "Synchronized"}
    BY <2>1, <2>2, ProgressType
  <2>4. PartialFunction(connections', Id, Connection) /\ PortsByRole'
    BY <2>1, <2>2, <2>3, UpdateKeepsTypes
  <2>5. PartialFunction(accepts', Service, Seq(Id))
    <3>1. CASE connections[i].phase = "SynReceived" /\ c.phase = "Synchronized"
      <4>1. connections[i].key.local \in Service
        BY <2>1, <3>1 DEF PortsByRole
      <4>2. QED BY <2>1, <2>2, <3>1, <4>1, EnqueueKeepsType
    <3>2. CASE ~(connections[i].phase = "SynReceived" /\ c.phase = "Synchronized")
      BY <2>2, <3>2 DEF TypeOK
    <3>3. QED BY <3>1, <3>2
  <2>6. outbound' \subseteq Outbound
    BY <2>1, <2>2, EmitKeepsType
  <2>7. QED BY <2>2, <2>4, <2>5, <2>6 DEF TypeOK
<1>8. ASSUME NEW ids \in SUBSET Live, Remove(ids),
             UNCHANGED <<listeners, accepts, nextId, nextPort, nextToken, reservation, held,
                         markers, dropped, early, stacks>>,
             outbound' \subseteq Outbound
      PROVE  TypeInv'
  BY <1>8, RemoveKeepsTypes DEF TypeOK
<1>9. ASSUME NEW key \in DOMAIN lookup, InputCloses(key) PROVE TypeInv'
  <2>1. {lookup[key]} \in SUBSET Live
    BY DEF TableInv, TableConsistent
  <2>2. QED BY <1>8, <1>9, <2>1 DEF InputCloses, TypeOK
<1>10. ASSUME NEW closing \in SUBSET Live, Poll(closing) PROVE TypeInv'
  <2>1. outbound' \subseteq Outbound
    BY <1>10, EmitKeepsType, Live \ closing \in SUBSET Live DEF Poll
  <2>2. QED BY <1>8, <1>10, <2>1 DEF Poll
<1>11. ASSUME NEW i \in Live, NEW count \in 0 .. MaxBytes, Write(i, count) PROVE TypeInv'
  <2> DEFINE c == [connections[i] EXCEPT !.sent = @ + count]
             m == [id |-> i, token |-> connections[i].token,
                   bytes |-> connections[i].sent + count]
  <2>1. connections[i] \in Connection /\ i \in Id /\ count \in Nat
    BY TableAssumption DEF TypeOK, PartialFunction, Live
  <2>2. c \in Connection /\ c.key = connections[i].key /\ c.phase = connections[i].phase
    BY <2>1 DEF Connection
  <2>3. m \in Marker
    BY <2>1 DEF Connection, Marker
  <2>4. /\ connections' = [connections EXCEPT ![i] = c]
        /\ markers' = markers \cup {m}
        /\ MayEmit({i})
        /\ UNCHANGED <<listeners, accepts, lookup, nextId, nextPort, nextToken, reservation,
                       held, dropped, early, stacks>>
    BY <1>11 DEF Write
  <2> HIDE DEF c, m
  <2>5. PartialFunction(connections', Id, Connection) /\ PortsByRole'
    BY <2>2, <2>4, UpdateKeepsTypes
  <2>6. outbound' \subseteq Outbound
    BY <2>4, EmitKeepsType
  <2>7. QED BY <2>3, <2>4, <2>5, <2>6 DEF TypeOK
<1>12. ASSUME NEW i \in Live, CloseUnfinished(i) PROVE TypeInv'
  BY <1>8, <1>12 DEF CloseUnfinished, TypeOK
<1>13. ASSUME NEW i \in Live, Emit(i) PROVE TypeInv'
  <2>1. outbound' \subseteq Outbound
    BY <1>13, EmitKeepsType DEF Emit
  <2>2. QED BY <1>13, <2>1 DEF Emit, TypeOK, PortsByRole, Live
<1>14. ASSUME NEW ids \in SUBSET Live, AbortAll(ids) PROVE TypeInv'
  <2>1. {Sent(i, TRUE) : i \in ids} \in SUBSET Outbound
    BY SentType
  <2>2. FlushTuples(ids) \in SUBSET Outbound
    BY DEF FlushTuples, TypeOK
  <2>3. outbound' \subseteq Outbound
    BY <1>14, <2>1, <2>2, QueueKeepsType DEF AbortAll
  <2>4. QED BY <1>8, <1>14, <2>3 DEF AbortAll
<1>15. ASSUME NEW i \in Live, Abort(i) PROVE TypeInv'
  BY <1>14, <1>15 DEF Abort
<1>16. ASSUME NEW peer, AbortPeer(peer) PROVE TypeInv'
  BY <1>14, <1>16 DEF AbortPeer, Of
<1>17. CASE DrainOutbound
  BY <1>17 DEF DrainOutbound, TypeOK, PortsByRole, Live
<1>18. CASE NewStack
  BY <1>18, TableAssumption
     DEF NewStack, TypeOK, PartialFunction, PortsByRole, Live, Id, Ephemeral
<1>19. CASE UNCHANGED vars
  BY <1>19 DEF vars, TypeOK, PartialFunction, PortsByRole, Live
<1>20. QED
  BY <1>1, <1>2, <1>3, <1>4, <1>5, <1>6, <1>7, <1>9, <1>10, <1>11, <1>12, <1>13,
     <1>15, <1>16, <1>17, <1>18, <1>19 DEF Next

\* A new stack is well typed.
LEMMA InitTypes == Init => TypeInv
BY TableAssumption
   DEF Init, TypeInv, TypeOK, PartialFunction, PortsByRole, Live, Id, Ephemeral

\* Every variable of the stack keeps its type, for every value of the
\* constants; in particular a queue only ever exists for a port that may be
\* listened on, and an ephemeral port is never one of those.
THEOREM TableTypes == Spec => []TypeOK
<1>1. TypeInv /\ TableInv /\ [Next]_vars => (TypeInv /\ TableInv)'
  BY StepKeepsTypes, StepKeepsTable
<1>2. QED BY <1>1, InitTypes, InitTable, PTL DEF Spec, TypeInv

\* As long as one port of the range is free for the peer's port, connect finds
\* one, wherever the search starts and whatever it passes over
\* (allocate_ephemeral_port).
THEOREM PortAlwaysFound == Spec => []PortIsFound
<1>1. TypeInv /\ TableInv /\ [Next]_vars => (TypeInv /\ TableInv)'
  BY StepKeepsTypes, StepKeepsTable
<1>2. TypeInv => PortIsFound
  BY FreePortFound DEF TypeInv, TypeOK
<1>3. QED BY <1>1, <1>2, InitTypes, InitTable, PTL DEF Spec

-----------------------------------------------------------------------------
(* What a step may do to the connections                                   *)

\* Some of the connections there were, each with its tuple and token, no phase
\* but the last one reached, and no acknowledgement taken back.
ConnectionsKept ==
  /\ Live' \subseteq Live
  /\ \A i \in Live' :
       /\ connections'[i].key = connections[i].key
       /\ connections'[i].token = connections[i].token
       /\ connections'[i].phase \in {connections[i].phase, "Synchronized"}
       /\ connections'[i].acked >= connections[i].acked

\* A connection is created: admitted, under a tuple that has none.
Created(key, phase) ==
  /\ key \notin DOMAIN lookup /\ Admits(key.peer) /\ Create(key, phase)
  /\ UNCHANGED <<listeners, accepts, reservation, markers, dropped, early, stacks>>

\* A removal leaves the others as they were.
LEMMA RemoveKeepsConnections ==
  ASSUME TypeInv, NEW ids, Remove(ids) PROVE ConnectionsKept
BY DEF Remove, Restrict, ConnectionsKept, Live, TypeInv, TypeOK, PartialFunction, Connection

\* A connection that changes and keeps its tuple, its token and what was
\* acknowledged.
LEMMA UpdateKeepsConnections ==
  ASSUME TypeInv, NEW i \in Live, NEW c, c.key = connections[i].key,
         c.token = connections[i].token, c.phase \in {connections[i].phase, "Synchronized"},
         c.acked >= connections[i].acked,
         connections' = [connections EXCEPT ![i] = c]
  PROVE  ConnectionsKept
BY DEF ConnectionsKept, Live, TypeInv, TypeOK, PartialFunction, Connection

\* A step that leaves the table alone.
LEMMA UnchangedKeepsConnections ==
  ASSUME TypeInv, UNCHANGED connections PROVE ConnectionsKept
BY DEF ConnectionsKept, Live, TypeInv, TypeOK, PartialFunction, Connection

\* What a segment for a known tuple does (input).
LEMMA InputKeepsConnections ==
  ASSUME TypeInv, TableInv, NEW key \in DOMAIN lookup, InputKnown(key)
  PROVE  /\ lookup[key] \in Live /\ ConnectionsKept
         /\ UNCHANGED <<listeners, nextId, nextToken, reservation, held, markers, dropped,
                        early, stacks>>
         /\ Live' = Live /\ \A i \in Live : i # lookup[key] => connections'[i] = connections[i]
         /\ MayEmit({lookup[key]})
         /\ IF /\ connections[lookup[key]].phase = "SynReceived"
               /\ connections'[lookup[key]].phase = "Synchronized"
            THEN Enqueue(lookup[key]) ELSE UNCHANGED accepts
<1> DEFINE i == lookup[key]
<1>1. i \in Live /\ connections[i] \in Connection
  BY DEF TypeInv, TypeOK, PartialFunction, TableInv, TableConsistent, Live
<1>2. PICK c \in Progress(connections[i]) :
        /\ connections' = [connections EXCEPT ![i] = c]
        /\ IF connections[i].phase = "SynReceived" /\ c.phase = "Synchronized"
           THEN Enqueue(i) ELSE UNCHANGED accepts
        /\ MayEmit({i})
        /\ UNCHANGED <<listeners, lookup, nextId, nextPort, nextToken, reservation, held,
                       markers, dropped, early, stacks>>
  BY DEF InputKnown
<1> HIDE DEF i
<1>3. c.key = connections[i].key /\ c.token = connections[i].token
      /\ c.phase \in {connections[i].phase, "Synchronized"} /\ c.acked >= connections[i].acked
  BY <1>1, <1>2, ProgressType
<1>4. ConnectionsKept
  BY <1>1, <1>2, <1>3, UpdateKeepsConnections
<1>5. connections'[i] = c /\ Live' = Live /\ \A j \in Live : j # i => connections'[j] = connections[j]
  BY <1>1, <1>2 DEF Live
<1>6. QED BY <1>1, <1>2, <1>4, <1>5 DEF i

\* What a write does.
LEMMA WriteKeepsConnections ==
  ASSUME TypeInv, NEW i \in Live, NEW count, Write(i, count)
  PROVE  /\ ConnectionsKept /\ Live' = Live
         /\ \A j \in Live : connections'[j].phase = connections[j].phase
<1> DEFINE c == [connections[i] EXCEPT !.sent = @ + count]
<1>1. connections[i] \in Connection
  BY DEF TypeInv, TypeOK, PartialFunction, Live
<1>2. c.key = connections[i].key /\ c.token = connections[i].token
      /\ c.phase = connections[i].phase /\ c.acked >= connections[i].acked
  BY <1>1 DEF Connection
<1>3. connections' = [connections EXCEPT ![i] = c]
  BY DEF Write
<1> HIDE DEF c
<1>4. ConnectionsKept
  BY <1>2, <1>3, UpdateKeepsConnections
<1>5. connections'[i] = c /\ Live' = Live /\ \A j \in Live : j # i => connections'[j] = connections[j]
  BY <1>3 DEF Live
<1>6. QED BY <1>2, <1>4, <1>5

\* A step creates a connection, configures the reservation, starts a stack, or
\* leaves some of the connections.
LEMMA StepsOnConnections ==
  ASSUME TypeInv, TableInv, [Next]_vars
  PROVE  \/ \E key \in Key, phase \in {"SynSent", "SynReceived"} : Created(key, phase)
         \/ \E slots \in 0 .. MaxConnections - 1, eligible \in Classifiers :
              SetReservation(slots, eligible)
         \/ NewStack
         \/ ConnectionsKept /\ UNCHANGED <<nextId, nextToken, reservation, early, stacks>>
<1>1. ASSUME NEW port \in Service, Listen(port) \/ CloseListener(port) \/ Accept(port)
      PROVE  ConnectionsKept /\ UNCHANGED <<nextId, nextToken, reservation, early, stacks>>
  BY <1>1, UnchangedKeepsConnections DEF Listen, CloseListener, Accept
<1>2. ASSUME NEW peer \in Peer, NEW remote \in RemotePort, Connect(peer, remote)
      PROVE  \E key \in Key : Created(key, "SynSent")
  <2>1. PICK n \in FreeAttempts(peer, remote) :
          /\ Admits(peer)
          /\ Create(KeyOf(peer, PortTried[n], remote), "SynSent")
          /\ UNCHANGED <<listeners, accepts, reservation, markers, dropped, early, stacks>>
    BY <1>2 DEF Connect
  <2>2. n \in Nat /\ KeyOf(peer, PortTried[n], remote) \notin DOMAIN lookup
    BY TableAssumption DEF FreeAttempts, Free
  <2>3. KeyOf(peer, PortTried[n], remote) \in Key
        /\ KeyOf(peer, PortTried[n], remote).peer = peer
    BY <2>2, PortsTried DEF KeyOf, Key, Port, TypeInv, TypeOK
  <2>4. Created(KeyOf(peer, PortTried[n], remote), "SynSent")
    BY <2>1, <2>2, <2>3 DEF Created
  <2>5. QED BY <2>3, <2>4
<1>3. ASSUME NEW peer, NEW remote, ConnectRefused(peer, remote) \/ ConnectNoPort(peer, remote)
      PROVE  ConnectionsKept /\ UNCHANGED <<nextId, nextToken, reservation, early, stacks>>
  BY <1>3, UnchangedKeepsConnections DEF ConnectRefused, ConnectNoPort
<1>4. ASSUME NEW key \in Key, InputSyn(key) PROVE Created(key, "SynReceived")
  BY <1>4 DEF InputSyn, Created
<1>5. ASSUME NEW key, InputStray(key)
      PROVE  ConnectionsKept /\ UNCHANGED <<nextId, nextToken, reservation, early, stacks>>
  BY <1>5, UnchangedKeepsConnections DEF InputStray
<1>6. ASSUME NEW key \in DOMAIN lookup, InputKnown(key) \/ InputCloses(key)
      PROVE  ConnectionsKept /\ UNCHANGED <<nextId, nextToken, reservation, early, stacks>>
  BY <1>6, InputKeepsConnections, RemoveKeepsConnections DEF InputCloses
<1>7. ASSUME NEW closing, Poll(closing)
      PROVE  ConnectionsKept /\ UNCHANGED <<nextId, nextToken, reservation, early, stacks>>
  BY <1>7, RemoveKeepsConnections DEF Poll
<1>8. ASSUME NEW i \in Live, NEW count, Write(i, count)
      PROVE  ConnectionsKept /\ UNCHANGED <<nextId, nextToken, reservation, early, stacks>>
  BY <1>8, WriteKeepsConnections DEF Write
<1>9. ASSUME NEW i \in Live, CloseUnfinished(i) \/ Emit(i) \/ Abort(i)
      PROVE  ConnectionsKept /\ UNCHANGED <<nextId, nextToken, reservation, early, stacks>>
  BY <1>9, RemoveKeepsConnections, UnchangedKeepsConnections
     DEF CloseUnfinished, Emit, Abort, AbortAll
<1>10. ASSUME NEW peer, AbortPeer(peer)
      PROVE  ConnectionsKept /\ UNCHANGED <<nextId, nextToken, reservation, early, stacks>>
  BY <1>10, RemoveKeepsConnections DEF AbortPeer, AbortAll
<1>11. CASE DrainOutbound
  BY <1>11, UnchangedKeepsConnections DEF DrainOutbound
<1>12. CASE UNCHANGED vars
  BY <1>12, UnchangedKeepsConnections DEF vars
<1>13. QED
  BY <1>1, <1>2, <1>3, <1>4, <1>5, <1>6, <1>7, <1>8, <1>9, <1>10, <1>11, <1>12 DEF Next

-----------------------------------------------------------------------------
(* The reservation                                                         *)

Eligible == {i \in Live : connections[i].key.peer \in reservation.eligible}
Ordinary == {i \in Live : connections[i].key.peer \notin reservation.eligible}

\* Connections of other peers leave the reserved slots alone.
ReservationInv ==
  early /\ reservation.slots > 0 =>
    Cardinality(Ordinary) <= MaxConnections - reservation.slots

\* With that, an eligible peer has room for as long as eligible connections
\* take fewer slots than reserved.
LEMMA ReservedRoom ==
  ASSUME TypeInv, IsFiniteSet(Live), ReservationInv PROVE ReservedSlotsFree
<1> SUFFICES ASSUME early, reservation.slots > 0, NEW p \in reservation.eligible,
                    Cardinality(Eligible) < reservation.slots, Cardinality(Of(p)) < MaxPerPeer
             PROVE  Admits(p)
  BY DEF ReservedSlotsFree, Eligible
<1>1. IsFiniteSet(Eligible) /\ IsFiniteSet(Ordinary) /\ Live = Eligible \cup Ordinary
      /\ Eligible \cap Ordinary = {}
  BY FS_Subset DEF Eligible, Ordinary
<1>2. Cardinality(Eligible) \in Nat /\ Cardinality(Ordinary) \in Nat
  BY <1>1, FS_CardinalityType
<1>3. Cardinality(Live) = Cardinality(Eligible) + Cardinality(Ordinary)
  BY <1>1, <1>2, FS_Union, FS_EmptySet
<1>4. Cardinality(Live) < MaxConnections
  BY <1>2, <1>3, TableAssumption DEF ReservationInv, TypeInv, TypeOK
<1>5. QED BY <1>4 DEF Admits

\* Every step of the stack keeps the reserved slots free of other peers.
LEMMA StepKeepsReservation ==
  ASSUME TypeInv, TableInv, LimitInv, ReservationInv, [Next]_vars
  PROVE  ReservationInv'
<1>1. IsFiniteSet(Ordinary) /\ Cardinality(Ordinary) \in Nat
      /\ Cardinality(Ordinary) <= Cardinality(Live) /\ Cardinality(Live) \in Nat
  BY FS_Subset, FS_CardinalityType DEF LimitInv, Ordinary
<1>2. ASSUME NEW key \in Key, NEW phase, Created(key, phase) PROVE ReservationInv'
  <2>1. nextId \notin Live /\ Live' = Live \cup {nextId} /\ connections'[nextId].key = key
        /\ \A i \in Live : connections'[i] = connections[i]
    BY <1>2, NextIdFree DEF TableInv, Created, Create, Live
  <2>2. UNCHANGED <<reservation, early>>
    BY <1>2 DEF Created
  <2>3. CASE key.peer \in reservation.eligible
    <3>1. Ordinary' = Ordinary
      BY <2>1, <2>2, <2>3 DEF Ordinary
    <3>2. QED BY <2>2, <3>1 DEF ReservationInv
  <2>4. CASE key.peer \notin reservation.eligible
    <3>1. Ordinary' = Ordinary \cup {nextId} /\ nextId \notin Ordinary
      BY <2>1, <2>2, <2>4 DEF Ordinary
    <3>2. Cardinality(Ordinary') = Cardinality(Ordinary) + 1
      BY <1>1, <3>1, FS_AddElement
    <3>3. reservation.slots = 0 \/ Cardinality(Live) < MaxConnections - reservation.slots
      BY <1>2, <2>4 DEF Created, Admits
    <3>4. QED BY <1>1, <2>2, <3>2, <3>3, TableAssumption DEF ReservationInv, TypeInv, TypeOK
  <2>5. QED BY <2>3, <2>4
<1>3. ASSUME NEW slots \in 0 .. MaxConnections - 1, NEW eligible, SetReservation(slots, eligible)
      PROVE  ReservationInv'
  <2>1. CASE Live = {}
    <3>1. Ordinary' = {}
      BY <1>3, <2>1 DEF SetReservation, Ordinary, Live
    <3>2. Cardinality(Ordinary') = 0
      BY <3>1, FS_EmptySet
    <3>3. reservation'.slots \in 0 .. MaxConnections - 1
      BY <1>3, TableAssumption DEF SetReservation
    <3>4. QED BY <3>2, <3>3, TableAssumption DEF ReservationInv
  <2>2. CASE Live # {}
    BY <1>3, <2>2 DEF SetReservation, ReservationInv
  <2>3. QED BY <2>1, <2>2
<1>4. CASE NewStack
  BY <1>4 DEF NewStack, ReservationInv
<1>5. ASSUME ConnectionsKept, UNCHANGED <<reservation, early>> PROVE ReservationInv'
  <2>1. Ordinary' \subseteq Ordinary
    BY <1>5 DEF ConnectionsKept, Ordinary
  <2>2. Cardinality(Ordinary') \in Nat /\ Cardinality(Ordinary') <= Cardinality(Ordinary)
    BY <1>1, <2>1, FS_Subset, FS_CardinalityType
  <2>3. QED BY <1>1, <1>5, <2>2, TableAssumption DEF ReservationInv, TypeInv, TypeOK
<1>6. QED BY <1>2, <1>3, <1>4, <1>5, StepsOnConnections

-----------------------------------------------------------------------------
(* Accepting                                                               *)

Queued(i) == \E port \in DOMAIN accepts : i \in Range(accepts[port])

\* An id is in one queue, once, and never after it was returned; one whose
\* handshake is not done is in none, and no id is still to be given out.
QueuesInv ==
  /\ \A i \in held : i < nextId
  /\ \A p \in DOMAIN accepts : \A n \in DOMAIN accepts[p] :
       accepts[p][n] < nextId /\ accepts[p][n] \notin held
  /\ \A p, q \in DOMAIN accepts : \A m \in DOMAIN accepts[p], n \in DOMAIN accepts[q] :
       accepts[p][m] = accepts[q][n] => p = q /\ m = n
  /\ \A i \in Live : connections[i].phase = "SynReceived" => i \notin held /\ ~Queued(i)

\* What is in a queue is in it at some place.
LEMMA QueuedAt ==
  ASSUME NEW i
  PROVE  Queued(i) <=> \E p \in DOMAIN accepts : \E n \in DOMAIN accepts[p] : accepts[p][n] = i
BY DEF Queued, Range

\* Steps that leave the queues alone, and connections with their phases or less.
LEMMA UnchangedQueues ==
  ASSUME QueuesInv, UNCHANGED <<accepts, held, nextId>>, Live' \subseteq Live,
         \A i \in Live' : connections'[i].phase \in {connections[i].phase, "Synchronized"}
  PROVE  QueuesInv'
<1>1. ASSUME NEW i \in Live', connections'[i].phase = "SynReceived"
      PROVE  i \notin held' /\ ~Queued(i)'
  BY <1>1 DEF QueuesInv, Queued
<1>2. QED BY <1>1 DEF QueuesInv

\* Listeners come and go: queues go, or start empty.
LEMMA ListenersKeepQueues ==
  ASSUME QueuesInv, NEW port, Listen(port) \/ CloseListener(port) PROVE QueuesInv'
<1>1. \A p \in DOMAIN accepts' : \A n \in DOMAIN accepts'[p] :
        p \in DOMAIN accepts /\ n \in DOMAIN accepts[p] /\ accepts'[p] = accepts[p]
  BY DEF Listen, CloseListener, Restrict, Queue
<1>2. UNCHANGED <<connections, held, nextId>>
  BY DEF Listen, CloseListener
<1>3. \A i : Queued(i)' => Queued(i)
  BY <1>1 DEF Queued, Range
<1>4. QED BY <1>1, <1>2, <1>3 DEF QueuesInv, Live

\* accept takes an id, and the dead ones before it, out of its queue.
LEMMA AcceptKeepsQueues ==
  ASSUME TypeInv, TableInv, QueuesInv, NEW port, Accept(port) PROVE QueuesInv'
<1>1. UNCHANGED <<connections, nextId>>
  BY DEF Accept
<1>2. CASE AcceptFirst(port)
  <2>1. PICK i \in DOMAIN Queue(port) :
          /\ held' = held \cup {Queue(port)[i]}
          /\ accepts' = [accepts EXCEPT ![port] = SubSeq(@, i + 1, Len(@))]
    BY <1>2 DEF AcceptFirst
  <2>2. port \in DOMAIN accepts /\ Queue(port) = accepts[port] /\ accepts[port] \in Seq(Id)
        /\ i \in 1 .. Len(accepts[port])
    BY <2>1, QueueType DEF Queue, TypeInv
  <2>3. \A n \in DOMAIN accepts'[port] :
          n + i \in DOMAIN accepts[port] /\ accepts'[port][n] = accepts[port][n + i]
          /\ n \in Nat /\ n + i # i
    BY <2>1, <2>2
  <2>4. DOMAIN accepts' = DOMAIN accepts
        /\ \A p \in DOMAIN accepts : p # port => accepts'[p] = accepts[p]
    BY <2>1
  <2>5. ASSUME NEW p \in DOMAIN accepts', NEW n \in DOMAIN accepts'[p]
        PROVE  \E m \in DOMAIN accepts[p] :
                 /\ accepts'[p][n] = accepts[p][m]
                 /\ p = port => m = n + i /\ m # i
                 /\ p # port => m = n
    BY <2>3, <2>4
  <2>6. \A p \in DOMAIN accepts' : \A n \in DOMAIN accepts'[p] :
          accepts'[p][n] < nextId' /\ accepts'[p][n] \notin held'
    BY <1>1, <2>1, <2>2, <2>4, <2>5 DEF QueuesInv
  <2>7. ASSUME NEW p \in DOMAIN accepts', NEW q \in DOMAIN accepts',
               NEW m \in DOMAIN accepts'[p], NEW n \in DOMAIN accepts'[q],
               accepts'[p][m] = accepts'[q][n]
        PROVE  p = q /\ m = n
    <3>1. PICK a \in DOMAIN accepts[p] : accepts'[p][m] = accepts[p][a]
            /\ (p = port => a = m + i) /\ (p # port => a = m)
      BY <2>5
    <3>2. PICK b \in DOMAIN accepts[q] : accepts'[q][n] = accepts[q][b]
            /\ (q = port => b = n + i) /\ (q # port => b = n)
      BY <2>5
    <3>3. p = q /\ a = b
      <4>1. accepts[p][a] = accepts[q][b] /\ p \in DOMAIN accepts /\ q \in DOMAIN accepts
        BY <2>4, <2>7, <3>1, <3>2
      <4>2. QED BY <4>1 DEF QueuesInv
    <3>4. p = port => m \in Nat /\ n \in Nat /\ i \in Nat
      <4>1. i \in Nat
        BY <2>2
      <4>2. p = port => m \in DOMAIN accepts'[port] /\ n \in DOMAIN accepts'[port]
        BY <3>3
      <4>3. QED BY <2>3, <4>1, <4>2
    <3>5. CASE p = port
      BY <3>1, <3>2, <3>3, <3>4, <3>5
    <3>6. CASE p # port
      BY <3>1, <3>2, <3>3, <3>6
    <3>7. QED BY <3>3, <3>5, <3>6
  <2>8. \A x \in held' : x < nextId'
    BY <1>1, <2>1, <2>2 DEF QueuesInv
  <2>9. ASSUME NEW x \in Live', connections'[x].phase = "SynReceived"
        PROVE  x \notin held' /\ ~Queued(x)'
    <3>1. x \in Live /\ connections[x].phase = "SynReceived"
      BY <1>1, <2>9 DEF Live
    <3>2. x \notin held /\ ~Queued(x)
      BY <3>1 DEF QueuesInv
    <3>3. \A p \in DOMAIN accepts : \A n \in DOMAIN accepts[p] : accepts[p][n] # x
      BY <3>2, QueuedAt
    <3>4. \A p \in DOMAIN accepts' : \A n \in DOMAIN accepts'[p] : accepts'[p][n] # x
      BY <2>4, <2>5, <3>3
    <3>5. ~Queued(x)'
      BY <3>4 DEF Queued, Range
    <3>6. QED BY <2>1, <2>2, <3>2, <3>3, <3>5
  <2>10. QED BY <2>6, <2>7, <2>8, <2>9 DEF QueuesInv
<1>3. CASE AcceptNone(port)
  <2>1. \A p \in DOMAIN accepts' : \A n \in DOMAIN accepts'[p] :
          p \in DOMAIN accepts /\ n \in DOMAIN accepts[p] /\ accepts'[p] = accepts[p]
    BY <1>3 DEF AcceptNone
  <2>2. \A i : Queued(i)' => Queued(i)
    BY <2>1 DEF Queued, Range
  <2>3. UNCHANGED held
    BY <1>3 DEF AcceptNone
  <2>4. QED BY <1>1, <2>1, <2>2, <2>3 DEF QueuesInv, Live
<1>4. QED BY <1>2, <1>3 DEF Accept

\* A new id is in no queue and was never returned.
LEMMA CreateKeepsQueues ==
  ASSUME TypeInv, TableInv, QueuesInv, NEW key, NEW phase, Create(key, phase),
         UNCHANGED accepts,
         \/ UNCHANGED held
         \/ held' = held \cup {nextId} /\ phase = "SynSent"
  PROVE  QueuesInv'
<1>1. nextId \in Nat /\ nextId' = nextId + 1
  BY TableAssumption DEF Create, IdAfter, TableInv, IdsGoUp
<1>2. Live' = Live \cup {nextId} /\ nextId \notin Live /\ connections'[nextId].phase = phase
      /\ \A i \in Live : connections'[i] = connections[i]
  BY NextIdFree DEF TableInv, Create, Live
<1>3. \A i \in held : i \in Nat
  BY DEF TypeInv, TypeOK, Id
<1>4. \A p \in DOMAIN accepts : \A n \in DOMAIN accepts[p] : accepts[p][n] \in Nat
  <2>1. \A p \in DOMAIN accepts : accepts[p] \in Seq(Id)
    BY DEF TypeInv, TypeOK, PartialFunction
  <2>2. Id \subseteq Nat
    BY DEF Id
  <2>3. ASSUME NEW p \in DOMAIN accepts, NEW n \in DOMAIN accepts[p]
        PROVE  accepts[p][n] \in Nat
    <3>1. accepts[p] \in Seq(Id) /\ n \in 1 .. Len(accepts[p])
      BY <2>1
    <3>2. accepts[p][n] \in Id
      BY <3>1
    <3>3. QED BY <2>2, <3>2
  <2>4. QED BY <2>3
<1>5. ~Queued(nextId) /\ nextId \notin held
  BY <1>1, QueuedAt DEF QueuesInv
<1>6. \A i \in held' : i < nextId'
  BY <1>1, <1>3 DEF QueuesInv
<1>7. \A p \in DOMAIN accepts' : \A n \in DOMAIN accepts'[p] :
        accepts'[p][n] < nextId' /\ accepts'[p][n] \notin held'
  BY <1>1, <1>4 DEF QueuesInv
<1>8. ASSUME NEW i \in Live', connections'[i].phase = "SynReceived"
      PROVE  i \notin held' /\ ~Queued(i)'
  BY <1>2, <1>5, <1>8 DEF QueuesInv, Queued
<1>9. QED BY <1>6, <1>7, <1>8 DEF QueuesInv

\* A connection enters the queue of its port when its handshake is done: it is
\* the only one whose phase changes, and it is in no queue yet.
LEMMA InputKeepsQueues ==
  ASSUME TypeInv, TableInv, QueuesInv, NEW key \in DOMAIN lookup, InputKnown(key)
  PROVE  QueuesInv'
<1> DEFINE i == lookup[key]
<1>1. /\ i \in Live /\ ConnectionsKept
      /\ UNCHANGED <<nextId, held>>
      /\ Live' = Live /\ \A j \in Live : j # i => connections'[j] = connections[j]
      /\ IF connections[i].phase = "SynReceived" /\ connections'[i].phase = "Synchronized"
         THEN Enqueue(i) ELSE UNCHANGED accepts
  BY InputKeepsConnections
<1> HIDE DEF i
<1>2. CASE connections[i].phase = "SynReceived" /\ connections'[i].phase = "Synchronized"
  <2> DEFINE port == connections[i].key.local
  <2>1. i \notin held /\ ~Queued(i) /\ i < nextId
    BY <1>1, <1>2 DEF QueuesInv, TableInv, IdsGoUp
  <2>2. DOMAIN accepts' = DOMAIN accepts \cup {port} /\ accepts'[port] = Append(Queue(port), i)
        /\ \A p \in DOMAIN accepts : p # port => accepts'[p] = accepts[p]
    BY <1>1, <1>2 DEF Enqueue, Queue
  <2>3. Queue(port) \in Seq(Id) /\ (port \notin DOMAIN accepts => Queue(port) = <<>>)
        /\ (port \in DOMAIN accepts => Queue(port) = accepts[port])
    BY QueueType DEF TypeInv, Queue
  <2> HIDE DEF port
  <2>4. DOMAIN accepts'[port] = DOMAIN Queue(port) \cup {Len(Queue(port)) + 1}
        /\ Len(Queue(port)) + 1 \notin DOMAIN Queue(port)
        /\ accepts'[port][Len(Queue(port)) + 1] = i
        /\ \A n \in DOMAIN Queue(port) : accepts'[port][n] = Queue(port)[n]
    BY <2>2, <2>3
  <2>5. ASSUME NEW p \in DOMAIN accepts', NEW n \in DOMAIN accepts'[p]
        PROVE  \/ /\ p \in DOMAIN accepts /\ n \in DOMAIN accepts[p]
                  /\ accepts'[p][n] = accepts[p][n] /\ accepts[p][n] # i
               \/ p = port /\ n = Len(Queue(port)) + 1 /\ accepts'[p][n] = i
    <3>1. CASE p # port
      BY <2>1, <2>2, <3>1, QueuedAt
    <3>2. CASE p = port
      BY <2>1, <2>3, <2>4, <3>2, QueuedAt
    <3>3. QED BY <3>1, <3>2
  <2>6. \A p \in DOMAIN accepts' : \A n \in DOMAIN accepts'[p] :
          accepts'[p][n] < nextId' /\ accepts'[p][n] \notin held'
    BY <1>1, <2>1, <2>5 DEF QueuesInv
  <2>7. ASSUME NEW p \in DOMAIN accepts', NEW q \in DOMAIN accepts',
               NEW m \in DOMAIN accepts'[p], NEW n \in DOMAIN accepts'[q],
               accepts'[p][m] = accepts'[q][n]
        PROVE  p = q /\ m = n
    BY <2>5, <2>7 DEF QueuesInv
  <2>8. ASSUME NEW x \in Live', connections'[x].phase = "SynReceived"
        PROVE  x \notin held' /\ ~Queued(x)'
    <3>1. x # i /\ x \in Live /\ connections[x].phase = "SynReceived"
      BY <1>1, <1>2, <2>8
    <3>2. \A p \in DOMAIN accepts : \A n \in DOMAIN accepts[p] : accepts[p][n] # x
      BY <3>1, QueuedAt DEF QueuesInv
    <3>3. \A p \in DOMAIN accepts' : \A n \in DOMAIN accepts'[p] : accepts'[p][n] # x
      BY <2>5, <3>1, <3>2
    <3>4. ~Queued(x)'
      BY <3>3 DEF Queued, Range
    <3>5. QED BY <1>1, <3>1, <3>4 DEF QueuesInv
  <2>9. QED BY <1>1, <2>6, <2>7, <2>8 DEF QueuesInv
<1>3. CASE ~(connections[i].phase = "SynReceived" /\ connections'[i].phase = "Synchronized")
  BY <1>1, <1>3, UnchangedQueues DEF ConnectionsKept
<1>4. QED BY <1>2, <1>3

\* Every step of the stack keeps the queues.
LEMMA StepKeepsQueues ==
  ASSUME TypeInv, TableInv, QueuesInv, [Next]_vars PROVE QueuesInv'
<1> DEFINE Untouched == ConnectionsKept /\ UNCHANGED <<accepts, held, nextId>>
<1>1. Untouched => QueuesInv'
  BY UnchangedQueues DEF ConnectionsKept
<1>2. ASSUME NEW port \in Service, Listen(port) \/ CloseListener(port) \/ Accept(port)
      PROVE  QueuesInv'
  BY <1>2, ListenersKeepQueues, AcceptKeepsQueues
<1>3. ASSUME NEW slots, NEW eligible, SetReservation(slots, eligible) PROVE Untouched
  BY <1>3, UnchangedKeepsConnections DEF SetReservation
<1>4. ASSUME NEW peer, NEW remote, Connect(peer, remote) PROVE QueuesInv'
  BY <1>4, CreateKeepsQueues DEF Connect
<1>5. ASSUME NEW peer, NEW remote, ConnectRefused(peer, remote) \/ ConnectNoPort(peer, remote)
      PROVE  Untouched
  BY <1>5, UnchangedKeepsConnections DEF ConnectRefused, ConnectNoPort
<1>6. ASSUME NEW key, InputSyn(key) PROVE QueuesInv'
  BY <1>6, CreateKeepsQueues DEF InputSyn
<1>7. ASSUME NEW key, InputStray(key) PROVE Untouched
  BY <1>7, UnchangedKeepsConnections DEF InputStray
<1>8. ASSUME NEW key \in DOMAIN lookup, InputKnown(key) PROVE QueuesInv'
  BY <1>8, InputKeepsQueues
<1>9. ASSUME NEW key, InputCloses(key) PROVE Untouched
  BY <1>9, RemoveKeepsConnections DEF InputCloses
<1>10. ASSUME NEW closing, Poll(closing) PROVE Untouched
  BY <1>10, RemoveKeepsConnections DEF Poll
<1>11. ASSUME NEW i \in Live, NEW count, Write(i, count) PROVE Untouched
  BY <1>11, WriteKeepsConnections DEF Write
<1>12. ASSUME NEW i \in Live, CloseUnfinished(i) \/ Emit(i) \/ Abort(i) PROVE Untouched
  BY <1>12, RemoveKeepsConnections, UnchangedKeepsConnections
     DEF CloseUnfinished, Emit, Abort, AbortAll
<1>13. ASSUME NEW peer, AbortPeer(peer) PROVE Untouched
  BY <1>13, RemoveKeepsConnections DEF AbortPeer, AbortAll
<1>14. CASE DrainOutbound
  BY <1>1, <1>14, UnchangedKeepsConnections DEF DrainOutbound
<1>15. CASE NewStack
  BY <1>15 DEF NewStack, QueuesInv, Live
<1>16. CASE UNCHANGED vars
  BY <1>1, <1>16, UnchangedKeepsConnections DEF vars
<1> HIDE DEF Untouched
<1>17. QED
  BY <1>1, <1>2, <1>3, <1>4, <1>5, <1>6, <1>7, <1>8, <1>9, <1>10, <1>11, <1>12, <1>13,
     <1>14, <1>15, <1>16 DEF Next

\* So accept returns no connection twice.
LEMMA QueuesAcceptOnce ==
  ASSUME QueuesInv PROVE AcceptedOnce
BY DEF QueuesInv, AcceptedOnce, Range

\* A step that leaves the queues alone and ends no server handshake leaves every
\* connection reachable.
LEMMA UnchangedReachable ==
  ASSUME EveryoneReachable, ConnectionsKept, UNCHANGED accepts,
         held \subseteq held', dropped \subseteq dropped',
         \A i \in Live' : connections[i].phase = "SynReceived" =>
                            connections'[i].phase = "SynReceived"
  PROVE  EveryoneReachable'
BY DEF EveryoneReachable, ConnectionsKept, Queue

\* listen keeps the queue there was, close_listener notes what it throws away,
\* accept returns the first id that names a connection.
LEMMA ListenersKeepReachable ==
  ASSUME TypeInv, EveryoneReachable,
         NEW port \in Service, Listen(port) \/ CloseListener(port) \/ Accept(port)
  PROVE  EveryoneReachable'
<1>1. UNCHANGED connections
  BY DEF Listen, CloseListener, Accept
<1>2. SUFFICES ASSUME NEW i \in Live, NEW home, home = connections[i].key.local,
                      i \in held \cup dropped \cup Range(Queue(home))
               PROVE  i \in held' \cup dropped' \cup Range(Queue(home)')
  BY <1>1 DEF EveryoneReachable, Live, Queue
<1>3. CASE Listen(port)
  <2>1. held' = held /\ dropped' = dropped
        /\ accepts' = [p \in DOMAIN accepts \cup {port} |-> Queue(p)]
    BY <1>3 DEF Listen
  <2>2. Queue(home)' = Queue(home)
    BY <2>1 DEF Queue
  <2>3. QED BY <1>2, <2>1, <2>2
<1>4. CASE CloseListener(port)
  <2>1. held' = held /\ dropped' = dropped \cup Range(Queue(port))
        /\ accepts' = [p \in DOMAIN accepts \ {port} |-> accepts[p]]
    BY <1>4 DEF CloseListener, Restrict
  <2>2. home # port => Queue(home)' = Queue(home)
    BY <2>1 DEF Queue
  <2>3. QED BY <1>2, <2>1, <2>2
<1>5. CASE AcceptFirst(port) /\ UNCHANGED dropped
  <2>1. PICK n \in DOMAIN Queue(port) :
          /\ \A j \in 1 .. n - 1 : Queue(port)[j] \notin Live
          /\ held' = held \cup {Queue(port)[n]}
          /\ accepts' = [accepts EXCEPT ![port] = SubSeq(@, n + 1, Len(@))]
    BY <1>5 DEF AcceptFirst
  <2>2. port \in DOMAIN accepts /\ Queue(port) = accepts[port] /\ accepts[port] \in Seq(Id)
        /\ n \in 1 .. Len(accepts[port])
    BY <2>1, QueueType DEF Queue, TypeInv
  <2>3. CASE home # port
    <3>1. Queue(home)' = Queue(home)
      BY <2>1, <2>3 DEF Queue
    <3>2. QED BY <1>2, <1>5, <2>1, <3>1
  <2>4. CASE home = port /\ i \in Range(Queue(port))
    <3>1. PICK m \in DOMAIN accepts[port] : accepts[port][m] = i
      BY <2>2, <2>4 DEF Range
    <3>2. m \in 1 .. Len(accepts[port]) /\ m \in Nat /\ n \in Nat
      BY <2>2, <3>1
    <3>3. m \notin 1 .. n - 1
      BY <2>1, <2>2, <3>1
    <3>4. CASE m = n
      BY <2>1, <2>2, <3>1, <3>4
    <3>5. CASE m > n
      <4>1. m - n \in DOMAIN accepts'[port] /\ accepts'[port][m - n] = i
        BY <2>1, <2>2, <3>1, <3>2, <3>5
      <4>2. Queue(home)' = accepts'[port]
        BY <2>1, <2>2, <2>4 DEF Queue
      <4>3. QED BY <4>1, <4>2 DEF Range
    <3>6. QED BY <3>2, <3>3, <3>4, <3>5
  <2>5. QED BY <1>2, <1>5, <2>1, <2>3, <2>4
<1>6. CASE AcceptNone(port) /\ UNCHANGED dropped
  <2>1. held' = held /\ Range(Queue(port)) \cap Live = {}
        /\ accepts' = [accepts EXCEPT ![port] = <<>>]
    BY <1>6 DEF AcceptNone
  <2>2. home # port => Queue(home)' = Queue(home)
    BY <2>1 DEF Queue
  <2>3. QED BY <1>2, <1>6, <2>1, <2>2
<1>7. QED BY <1>3, <1>4, <1>5, <1>6 DEF Accept

\* A handshake that ends puts its connection into the queue of its port.
LEMMA InputKeepsReachable ==
  ASSUME TypeInv, TableInv, EveryoneReachable, NEW key \in DOMAIN lookup, InputKnown(key)
  PROVE  EveryoneReachable'
<1> DEFINE i == lookup[key]
<1>1. /\ i \in Live /\ ConnectionsKept /\ UNCHANGED <<held, dropped>>
      /\ Live' = Live /\ \A j \in Live : j # i => connections'[j] = connections[j]
      /\ IF connections[i].phase = "SynReceived" /\ connections'[i].phase = "Synchronized"
         THEN Enqueue(i) ELSE UNCHANGED accepts
  BY InputKeepsConnections
<1>2. connections[i] \in Connection
  BY <1>1 DEF TypeInv, TypeOK, PartialFunction, Live
<1> HIDE DEF i
<1>3. CASE connections[i].phase = "SynReceived" /\ connections'[i].phase = "Synchronized"
  <2>0. PICK port : port = connections[i].key.local
    OBVIOUS
  <2>1. accepts' = [p \in DOMAIN accepts \cup {port} |->
                      IF p = port THEN Append(Queue(port), i) ELSE Queue(p)]
    BY <1>1, <1>3, <2>0 DEF Enqueue
  <2>2. Queue(port) \in Seq(Id) /\ i \in Id
    BY <1>1, QueueType DEF TypeInv, TypeOK, PartialFunction, Live
  <2>3. Queue(port)' = Append(Queue(port), i)
        /\ \A p : p # port => Queue(p)' = Queue(p)
    BY <2>1 DEF Queue
  <2>4. Range(Queue(port)) \subseteq Range(Queue(port)') /\ i \in Range(Queue(port)')
    <3>1. \A n \in DOMAIN Queue(port) :
            n \in DOMAIN Queue(port)' /\ Queue(port)'[n] = Queue(port)[n]
      BY <2>2, <2>3
    <3>2. Len(Queue(port)) + 1 \in DOMAIN Queue(port)'
          /\ Queue(port)'[Len(Queue(port)) + 1] = i
      BY <2>2, <2>3
    <3>3. QED BY <3>1, <3>2 DEF Range
  <2>5. SUFFICES ASSUME NEW x \in Live', NEW home, home = connections'[x].key.local,
                        connections'[x].phase # "SynReceived"
                 PROVE  x \in held \cup dropped \cup Range(Queue(home)')
    BY <1>1 DEF EveryoneReachable, Queue
  <2>6. CASE x = i
    BY <1>1, <2>0, <2>4, <2>5, <2>6 DEF ConnectionsKept
  <2>7. CASE x # i
    <3>1. x \in Live /\ connections'[x] = connections[x]
      BY <1>1, <2>7
    <3>2. x \in held \cup dropped \cup Range(Queue(home))
      BY <2>5, <3>1 DEF EveryoneReachable
    <3>3. QED BY <2>3, <2>4, <3>2
  <2>8. QED BY <2>6, <2>7
<1>4. CASE ~(connections[i].phase = "SynReceived" /\ connections'[i].phase = "Synchronized")
  <2>1. ASSUME NEW j \in Live', connections[j].phase = "SynReceived"
        PROVE  connections'[j].phase = "SynReceived"
    BY <1>1, <1>4, <2>1 DEF ConnectionsKept
  <2>2. QED BY <1>1, <1>4, <2>1, UnchangedReachable
<1>5. QED BY <1>3, <1>4

\* connect returns the id it creates; a server connection starts its handshake.
LEMMA CreateKeepsReachable ==
  ASSUME TableInv, EveryoneReachable, NEW key, NEW phase, Create(key, phase),
         phase = "SynReceived" \/ nextId \in held',
         UNCHANGED <<accepts, dropped>>, held \subseteq held'
  PROVE  EveryoneReachable'
<1>1. Live' = Live \cup {nextId} /\ connections'[nextId].phase = phase
      /\ \A i \in Live : connections'[i] = connections[i]
  BY NextIdFree DEF TableInv, Create, Live
<1>2. QED BY <1>1 DEF EveryoneReachable, Queue

\* A removal, or nothing, changes no phase.
LEMMA RemoveKeepsPhases ==
  ASSUME NEW ids, Remove(ids) \/ UNCHANGED connections
  PROVE  \A i \in Live' : connections'[i].phase = connections[i].phase
BY DEF Remove, Restrict, Live

\* Every step of the stack keeps them reachable.
LEMMA StepKeepsReachable ==
  ASSUME TypeInv, TableInv, EveryoneReachable, [Next]_vars PROVE EveryoneReachable'
<1> DEFINE Untouched == /\ ConnectionsKept /\ UNCHANGED <<accepts, held, dropped>>
                        /\ \A i \in Live' : connections'[i].phase = connections[i].phase
<1>1. Untouched => EveryoneReachable'
  BY UnchangedReachable
<1>2. ASSUME NEW port \in Service, Listen(port) \/ CloseListener(port) \/ Accept(port)
      PROVE  EveryoneReachable'
  BY <1>2, ListenersKeepReachable
<1>3. ASSUME NEW slots, NEW eligible, SetReservation(slots, eligible) PROVE Untouched
  BY <1>3, UnchangedKeepsConnections, RemoveKeepsPhases DEF SetReservation
<1>4. ASSUME NEW peer, NEW remote, Connect(peer, remote) PROVE EveryoneReachable'
  BY <1>4, CreateKeepsReachable DEF Connect
<1>5. ASSUME NEW peer, NEW remote, ConnectRefused(peer, remote) \/ ConnectNoPort(peer, remote)
      PROVE  Untouched
  BY <1>5, UnchangedKeepsConnections, RemoveKeepsPhases DEF ConnectRefused, ConnectNoPort
<1>6. ASSUME NEW key, InputSyn(key) PROVE EveryoneReachable'
  BY <1>6, CreateKeepsReachable DEF InputSyn
<1>7. ASSUME NEW key, InputStray(key) PROVE Untouched
  BY <1>7, UnchangedKeepsConnections, RemoveKeepsPhases DEF InputStray
<1>8. ASSUME NEW key \in DOMAIN lookup, InputKnown(key) PROVE EveryoneReachable'
  BY <1>8, InputKeepsReachable
<1>9. ASSUME NEW key, InputCloses(key) PROVE Untouched
  BY <1>9, RemoveKeepsConnections, RemoveKeepsPhases DEF InputCloses
<1>10. ASSUME NEW closing, Poll(closing) PROVE Untouched
  BY <1>10, RemoveKeepsConnections, RemoveKeepsPhases DEF Poll
<1>11. ASSUME NEW i \in Live, NEW count, Write(i, count) PROVE Untouched
  BY <1>11, WriteKeepsConnections DEF Write
<1>12. ASSUME NEW i \in Live, CloseUnfinished(i) \/ Emit(i) \/ Abort(i) PROVE Untouched
  BY <1>12, RemoveKeepsConnections, UnchangedKeepsConnections, RemoveKeepsPhases
     DEF CloseUnfinished, Emit, Abort, AbortAll
<1>13. ASSUME NEW peer, AbortPeer(peer) PROVE Untouched
  BY <1>13, RemoveKeepsConnections, RemoveKeepsPhases DEF AbortPeer, AbortAll
<1>14. CASE DrainOutbound
  BY <1>1, <1>14, UnchangedKeepsConnections, RemoveKeepsPhases DEF DrainOutbound
<1>15. CASE NewStack
  BY <1>15 DEF NewStack, EveryoneReachable, Live
<1>16. CASE UNCHANGED vars
  BY <1>1, <1>16, UnchangedKeepsConnections, RemoveKeepsPhases DEF vars
<1> HIDE DEF Untouched
<1>17. QED
  BY <1>1, <1>2, <1>3, <1>4, <1>5, <1>6, <1>7, <1>8, <1>9, <1>10, <1>11, <1>12, <1>13,
     <1>14, <1>15, <1>16 DEF Next

-----------------------------------------------------------------------------
(* Aborts and markers                                                      *)

\* A token is one connection's for ever: it is never given out again, and what
\* is queued with it has its tuple.
TokensInv ==
  /\ \A i \in Live : 0 < connections[i].token /\ connections[i].token < nextToken
  /\ \A i, j \in Live : connections[i].token = connections[j].token => i = j
  /\ \A x \in outbound : x.token < nextToken /\ (x.abort => 0 < x.token)
  /\ \A x \in outbound, i \in Live :
       x.token = connections[i].token => x.key = connections[i].key /\ ~x.abort
  /\ ResetIsLast
  /\ \A m \in markers : m.token < nextToken

\* What a step queues that resets no connection: segments of connections that
\* stay, and resets for tuples that have none.
LEMMA OrdinaryKeepsTokens ==
  ASSUME TypeInv, TableInv, TokensInv, ConnectionsKept, UNCHANGED nextToken,
         \A x \in outbound' \ outbound :
           ~x.abort /\ (x.token # 0 => \E i \in Live' : x = Sent(i, FALSE)),
         \A m \in markers' \ markers : \E i \in Live : m.token = connections[i].token
  PROVE  TokensInv'
<1>1. \A i \in Live' : i \in Live /\ connections'[i].token = connections[i].token
        /\ connections'[i].key = connections[i].key
  BY DEF ConnectionsKept
<1>2. \A i \in Live : Sent(i, FALSE).token = connections[i].token
        /\ Sent(i, FALSE).key = connections[i].key
  BY DEF Sent
<1>3. 0 < nextToken
  BY DEF TableInv, IdsGoUp
<1>4. ASSUME NEW x \in outbound'
      PROVE  x.token < nextToken' /\ (x.abort => 0 < x.token)
  <2>1. CASE x \in outbound
    BY <2>1 DEF TokensInv
  <2>2. CASE x \notin outbound /\ x.token = 0
    BY <1>3, <2>2
  <2>3. CASE x \notin outbound /\ x.token # 0
    <3>1. PICK i \in Live' : x = Sent(i, FALSE)
      BY <2>3
    <3>2. i \in Live /\ x.token = connections[i].token
      BY <1>1, <1>2, <3>1
    <3>3. QED BY <2>3, <3>2 DEF TokensInv
  <2>4. QED BY <2>1, <2>2, <2>3
<1>5. ASSUME NEW x \in outbound', NEW i \in Live', x.token = connections'[i].token
      PROVE  x.key = connections'[i].key /\ ~x.abort
  <2>1. CASE x \in outbound
    BY <1>1, <1>5, <2>1 DEF TokensInv
  <2>2. CASE x \notin outbound
    <3>1. x.token # 0
      BY <1>1, <1>5 DEF TokensInv
    <3>2. PICK j \in Live' : x = Sent(j, FALSE)
      BY <2>2, <3>1
    <3>3. j = i
      <4>1. i \in Live /\ j \in Live /\ connections[i].token = connections[j].token
        BY <1>1, <1>2, <1>5, <3>2
      <4>2. QED BY <4>1 DEF TokensInv
    <3>4. QED BY <1>1, <1>2, <2>2, <3>2, <3>3
  <2>3. QED BY <2>1, <2>2
<1>6. ResetIsLast'
  <2>1. SUFFICES ASSUME NEW x \in outbound', NEW y \in outbound', x.abort, y.token = x.token
                 PROVE  y = x
    BY DEF ResetIsLast
  <2>2. x \in outbound /\ 0 < x.token
    BY <2>1 DEF TokensInv
  <2>3. y \in outbound
    <3>1. SUFFICES ASSUME y \notin outbound PROVE FALSE
      OBVIOUS
    <3>2. y.token # 0
      BY <2>1, <2>2
    <3>3. PICK j \in Live' : y = Sent(j, FALSE)
      BY <3>1, <3>2
    <3>4. j \in Live /\ x.token = connections[j].token
      BY <1>1, <1>2, <2>1, <3>3
    <3>5. QED BY <2>1, <2>2, <3>4 DEF TokensInv
  <2>4. QED BY <2>1, <2>2, <2>3 DEF TokensInv, ResetIsLast
<1>7. \A m \in markers' : m.token < nextToken'
  BY DEF TokensInv
<1>8. /\ \A i \in Live' : 0 < connections'[i].token /\ connections'[i].token < nextToken'
      /\ \A i, j \in Live' : connections'[i].token = connections'[j].token => i = j
  BY <1>1 DEF TokensInv
<1>9. QED BY <1>4, <1>5, <1>6, <1>7, <1>8 DEF TokensInv

\* What a step emits are segments of its own connections.
LEMMA EmitsOwn ==
  ASSUME NEW ids, MayEmit(ids)
  PROVE  \A x \in outbound' \ outbound : ~x.abort /\ \E i \in ids : x = Sent(i, FALSE)
BY DEF MayEmit, QueueOut, Sent

\* In particular for one connection.
LEMMA EmitsOne ==
  ASSUME NEW i, MayEmit({i})
  PROVE  \A x \in outbound' \ outbound : ~x.abort /\ x = Sent(i, FALSE)
<1>1. PICK some \in SUBSET {i} : QueueOut(outbound, {Sent(j, FALSE) : j \in some})
  BY DEF MayEmit
<1>2. \A j \in some : j = i
  OBVIOUS
<1>3. \A x \in outbound' \ outbound : x \in {Sent(j, FALSE) : j \in some}
  BY <1>1 DEF QueueOut
<1>4. \A x \in outbound' \ outbound : x = Sent(i, FALSE)
  BY <1>2, <1>3
<1>5. QED BY <1>4 DEF Sent

\* A new connection has a token nobody had.
LEMMA CreateKeepsTokens ==
  ASSUME TypeInv, TableInv, TokensInv, NEW key, NEW phase, Create(key, phase), UNCHANGED markers
  PROVE  TokensInv'
<1> DEFINE new == [key |-> key, token |-> nextToken, abort |-> FALSE]
<1>1. nextId \notin Live /\ Live' = Live \cup {nextId} /\ connections'[nextId].token = nextToken
      /\ connections'[nextId].key = key /\ \A i \in Live : connections'[i] = connections[i]
  BY NextIdFree DEF TableInv, Create, Live
<1>2. nextToken' = nextToken + 1 /\ nextToken \in Nat /\ 0 < nextToken
  BY DEF Create, TableInv, IdsGoUp
<1>3. outbound' \subseteq outbound \cup {new}
  BY DEF Create, QueueOut
<1>4. \A i \in Live : connections[i].token \in Nat
  BY DEF TypeInv, TypeOK, PartialFunction, Connection, Live
<1>5. \A x \in outbound : x.token \in Nat
  BY DEF TypeInv, TypeOK, Outbound
<1>6. \A m \in markers : m.token \in Nat
  BY DEF TypeInv, TypeOK, Marker
<1>7. /\ \A i \in Live' : 0 < connections'[i].token /\ connections'[i].token < nextToken'
      /\ \A i, j \in Live' : connections'[i].token = connections'[j].token => i = j
  BY <1>1, <1>2, <1>4 DEF TokensInv
<1>8. \A x \in outbound' : x.token < nextToken' /\ (x.abort => 0 < x.token)
  BY <1>2, <1>3, <1>5 DEF TokensInv
<1>9. \A x \in outbound', i \in Live' :
        x.token = connections'[i].token => x.key = connections'[i].key /\ ~x.abort
  BY <1>1, <1>2, <1>3, <1>4, <1>5 DEF TokensInv
<1>10. ResetIsLast'
  BY <1>2, <1>3, <1>5 DEF TokensInv, ResetIsLast
<1>11. QED BY <1>2, <1>6, <1>7, <1>8, <1>9, <1>10 DEF TokensInv

\* An abort leaves its reset only: what was queued with the token has the tuple
\* and is gone, and so is the connection.
LEMMA AbortKeepsTokens ==
  ASSUME TypeInv, TableInv, TokensInv, NEW ids \in SUBSET Live, AbortAll(ids)
  PROVE  TokensInv'
<1>1. Live' = Live \ ids /\ \A i \in Live' : connections'[i] = connections[i]
  BY DEF AbortAll, Remove, Restrict, Live
<1>2. UNCHANGED <<nextToken, markers>>
  BY DEF AbortAll
<1>3. ASSUME NEW x \in outbound'
      PROVE  \/ x \in outbound /\ \A i \in ids : x.key # connections[i].key
             \/ \E i \in ids : /\ x = Sent(i, TRUE)
                               /\ x.abort /\ x.token = connections[i].token
  BY DEF AbortAll, QueueOut, FlushTuples, Sent
<1>4. \A x \in outbound' : x \in outbound => \A i \in ids : x.token # connections[i].token
  <2>1. SUFFICES ASSUME NEW x \in outbound', x \in outbound, NEW i \in ids,
                        x.token = connections[i].token
                 PROVE  FALSE
    OBVIOUS
  <2>2. x.key = connections[i].key /\ ~x.abort
    BY <2>1 DEF TokensInv
  <2>3. QED BY <1>3, <2>1, <2>2
<1>5. ASSUME NEW x \in outbound', x \notin outbound
      PROVE  \E i \in ids : x = Sent(i, TRUE) /\ x.abort /\ x.token = connections[i].token
  BY <1>3, <1>5
<1>6. ASSUME NEW x \in outbound'
      PROVE  x.token < nextToken' /\ (x.abort => 0 < x.token)
  <2>1. CASE x \in outbound
    BY <1>2, <2>1 DEF TokensInv
  <2>2. CASE x \notin outbound
    <3>1. PICK i \in ids : x.token = connections[i].token
      BY <1>5, <2>2
    <3>2. i \in Live
      OBVIOUS
    <3>3. QED BY <1>2, <3>1, <3>2 DEF TokensInv
  <2>3. QED BY <2>1, <2>2
<1>7. ASSUME NEW x \in outbound', NEW i \in Live', x.token = connections'[i].token
      PROVE  x.key = connections'[i].key /\ ~x.abort
  <2>1. i \in Live /\ i \notin ids /\ connections'[i] = connections[i]
    BY <1>1
  <2>2. CASE x \in outbound
    BY <1>7, <2>1, <2>2 DEF TokensInv
  <2>3. CASE x \notin outbound
    <3>1. PICK j \in ids : x.token = connections[j].token
      BY <1>5, <2>3
    <3>2. i = j
      BY <1>7, <2>1, <3>1 DEF TokensInv
    <3>3. QED BY <2>1, <3>2
  <2>4. QED BY <2>2, <2>3
<1>8. ResetIsLast'
  <2>1. SUFFICES ASSUME NEW x \in outbound', NEW y \in outbound', x.abort, y.token = x.token
                 PROVE  y = x
    BY DEF ResetIsLast
  <2>2. CASE x \in outbound /\ y \in outbound
    BY <2>1, <2>2 DEF TokensInv, ResetIsLast
  <2>3. CASE x \notin outbound
    <3>1. PICK i \in ids : x = Sent(i, TRUE) /\ x.token = connections[i].token
      BY <1>5, <2>3
    <3>2. y \notin outbound
      BY <1>4, <2>1, <3>1
    <3>3. PICK j \in ids : y = Sent(j, TRUE) /\ y.token = connections[j].token
      BY <1>5, <3>2
    <3>4. i = j
      BY <2>1, <3>1, <3>3 DEF TokensInv
    <3>5. QED BY <3>1, <3>3, <3>4
  <2>4. CASE x \in outbound /\ y \notin outbound
    <3>1. PICK j \in ids : y.token = connections[j].token
      BY <1>5, <2>4
    <3>2. QED BY <1>4, <2>1, <2>4, <3>1
  <2>5. QED BY <2>2, <2>3, <2>4
<1>9. /\ \A i \in Live' : 0 < connections'[i].token /\ connections'[i].token < nextToken'
      /\ \A i, j \in Live' : connections'[i].token = connections'[j].token => i = j
      /\ \A m \in markers' : m.token < nextToken'
  BY <1>1, <1>2 DEF TokensInv
<1>10. QED BY <1>6, <1>7, <1>8, <1>9 DEF TokensInv

\* Every step of the stack keeps the tokens apart.
LEMMA StepKeepsTokens ==
  ASSUME TypeInv, TableInv, TokensInv, [Next]_vars PROVE TokensInv'
<1> DEFINE Usual ==
      /\ ConnectionsKept /\ UNCHANGED nextToken
      /\ \A x \in outbound' \ outbound :
           ~x.abort /\ (x.token # 0 => \E i \in Live' : x = Sent(i, FALSE))
      /\ \A m \in markers' \ markers : \E i \in Live : m.token = connections[i].token
<1>1. Usual => TokensInv'
  BY OrdinaryKeepsTokens
<1>2. ASSUME UNCHANGED <<connections, nextToken, markers>>, outbound' \subseteq outbound
      PROVE  Usual
  BY <1>2, UnchangedKeepsConnections
<1>3. ASSUME NEW port, Listen(port) \/ CloseListener(port) \/ Accept(port) PROVE Usual
  BY <1>2, <1>3 DEF Listen, CloseListener, Accept
<1>4. ASSUME NEW slots, NEW eligible, SetReservation(slots, eligible) PROVE Usual
  BY <1>2, <1>4 DEF SetReservation
<1>5. ASSUME NEW peer, NEW remote, Connect(peer, remote) PROVE TokensInv'
  BY <1>5, CreateKeepsTokens DEF Connect
<1>6. ASSUME NEW peer, NEW remote, ConnectRefused(peer, remote) \/ ConnectNoPort(peer, remote)
      PROVE  Usual
  BY <1>2, <1>6 DEF ConnectRefused, ConnectNoPort
<1>7. ASSUME NEW key, InputSyn(key) PROVE TokensInv'
  BY <1>7, CreateKeepsTokens DEF InputSyn
<1>8. ASSUME NEW key, InputStray(key) PROVE Usual
  <2>1. \A x \in outbound' \ outbound : x.token = 0 /\ ~x.abort
    BY <1>8 DEF InputStray, QueueOut
  <2>2. UNCHANGED <<connections, nextToken, markers>>
    BY <1>8 DEF InputStray
  <2>3. QED BY <2>1, <2>2, UnchangedKeepsConnections
<1>9. ASSUME NEW key \in DOMAIN lookup, InputKnown(key) PROVE Usual
  <2>1. PICK i \in Live : /\ ConnectionsKept /\ UNCHANGED <<nextToken, markers>>
                          /\ Live' = Live /\ MayEmit({i})
    BY <1>9, InputKeepsConnections
  <2>2. MayEmit({i})
    BY <2>1
  <2>3. \A x \in outbound' \ outbound : ~x.abort /\ x = Sent(i, FALSE)
    BY <2>2, EmitsOne
  <2>4. QED BY <2>1, <2>3
<1>10. ASSUME NEW ids, Remove(ids), UNCHANGED <<outbound, nextToken, markers>> PROVE Usual
  BY <1>10, RemoveKeepsConnections
<1>11. ASSUME NEW key, InputCloses(key) PROVE Usual
  BY <1>10, <1>11 DEF InputCloses
<1>12. ASSUME NEW closing \in SUBSET Live, Poll(closing) PROVE Usual
  <2>1. ConnectionsKept /\ UNCHANGED <<nextToken, markers>> /\ MayEmit(Live \ closing)
    BY <1>12, RemoveKeepsConnections DEF Poll
  <2>2. Live' = Live \ closing
    BY <1>12 DEF Poll, Remove, Restrict, Live
  <2>3. \A x \in outbound' \ outbound : ~x.abort /\ \E i \in Live \ closing : x = Sent(i, FALSE)
    BY <2>1, EmitsOwn
  <2>4. QED BY <2>1, <2>2, <2>3
<1>13. ASSUME NEW i \in Live, NEW count, Write(i, count) PROVE Usual
  <2>1. ConnectionsKept /\ Live' = Live
    BY <1>13, WriteKeepsConnections
  <2>2. UNCHANGED nextToken /\ MayEmit({i})
        /\ \A m \in markers' \ markers : m.token = connections[i].token
    BY <1>13 DEF Write
  <2>3. \A x \in outbound' \ outbound : ~x.abort /\ x = Sent(i, FALSE)
    BY <2>2, EmitsOne
  <2>4. QED BY <2>1, <2>2, <2>3
<1>14. ASSUME NEW i \in Live, CloseUnfinished(i) PROVE Usual
  BY <1>10, <1>14 DEF CloseUnfinished
<1>15. ASSUME NEW i \in Live, Emit(i) PROVE Usual
  <2>1. UNCHANGED <<connections, nextToken, markers>> /\ MayEmit({i})
    BY <1>15 DEF Emit
  <2>2. \A x \in outbound' \ outbound : ~x.abort /\ x = Sent(i, FALSE)
    BY <2>1, EmitsOne
  <2>3. Live' = Live
    BY <2>1 DEF Live
  <2>4. QED BY <2>1, <2>2, <2>3, UnchangedKeepsConnections
<1>16. ASSUME NEW i \in Live, Abort(i) PROVE TokensInv'
  BY <1>16, AbortKeepsTokens DEF Abort
<1>17. ASSUME NEW peer, AbortPeer(peer) PROVE TokensInv'
  BY <1>17, AbortKeepsTokens DEF AbortPeer, Of
<1>18. CASE DrainOutbound
  BY <1>1, <1>2, <1>18 DEF DrainOutbound
<1>19. CASE NewStack
  <2>1. Live' = {} /\ outbound' = {} /\ UNCHANGED <<nextToken, markers>>
    BY <1>19 DEF NewStack, Live
  <2>2. QED BY <2>1 DEF TokensInv, ResetIsLast
<1>20. CASE UNCHANGED vars
  BY <1>1, <1>2, <1>20 DEF vars
<1> HIDE DEF Usual
<1>21. QED
  BY <1>1, <1>3, <1>4, <1>5, <1>6, <1>7, <1>8, <1>9, <1>11, <1>12, <1>13, <1>14, <1>15,
     <1>16, <1>17, <1>18, <1>19, <1>20 DEF Next

\* Only abort takes segments back, and what it takes has the tuple of a reset
\* that it leaves.
LEMMA StepSparesOthers ==
  ASSUME TypeInv, TableInv, [Next]_vars
  PROVE  outbound' # {} =>
           \A x \in outbound \ outbound' : \E y \in outbound' : y.abort /\ y.key = x.key
<1> DEFINE Kept == outbound' = {} \/ outbound \subseteq outbound'
<1>1. ASSUME NEW ids, MayEmit(ids) PROVE Kept
  BY <1>1 DEF MayEmit, QueueOut
<1>2. ASSUME NEW port, Listen(port) \/ CloseListener(port) \/ Accept(port) PROVE Kept
  BY <1>2 DEF Listen, CloseListener, Accept
<1>3. ASSUME NEW slots, NEW eligible, SetReservation(slots, eligible) PROVE Kept
  BY <1>3 DEF SetReservation
<1>4. ASSUME NEW peer, NEW remote,
             Connect(peer, remote) \/ ConnectRefused(peer, remote) \/ ConnectNoPort(peer, remote)
      PROVE  Kept
  BY <1>4 DEF Connect, Create, QueueOut, ConnectRefused, ConnectNoPort
<1>5. ASSUME NEW key, InputSyn(key) \/ InputStray(key) PROVE Kept
  BY <1>5 DEF InputSyn, InputStray, Create, QueueOut
<1>6. ASSUME NEW key \in DOMAIN lookup, InputKnown(key) \/ InputCloses(key) PROVE Kept
  BY <1>1, <1>6, InputKeepsConnections DEF InputCloses
<1>7. ASSUME NEW closing, Poll(closing) PROVE Kept
  BY <1>1, <1>7 DEF Poll
<1>8. ASSUME NEW i, NEW count, Write(i, count) PROVE Kept
  BY <1>1, <1>8 DEF Write
<1>9. ASSUME NEW i, CloseUnfinished(i) \/ Emit(i) PROVE Kept
  BY <1>1, <1>9 DEF CloseUnfinished, Emit
<1>10. ASSUME NEW ids, AbortAll(ids), outbound' # {}, NEW x \in outbound \ outbound'
       PROVE  \E y \in outbound' : y.abort /\ y.key = x.key
  <2>1. outbound' = FlushTuples(ids) \cup {Sent(i, TRUE) : i \in ids}
    BY <1>10 DEF AbortAll, QueueOut
  <2>2. PICK i \in ids : x.key = connections[i].key
    BY <1>10, <2>1 DEF FlushTuples
  <2>3. Sent(i, TRUE) \in outbound' /\ Sent(i, TRUE).abort /\ Sent(i, TRUE).key = x.key
    BY <2>1, <2>2 DEF Sent
  <2>4. QED BY <2>3
<1>11. CASE DrainOutbound \/ NewStack \/ UNCHANGED vars
  BY <1>11 DEF DrainOutbound, NewStack, vars
<1>12. ASSUME NEW i, Abort(i) PROVE AbortAll({i})
  BY <1>12 DEF Abort
<1>13. ASSUME NEW peer, AbortPeer(peer) PROVE AbortAll(Of(peer))
  BY <1>13 DEF AbortPeer
<1>14. Kept => \/ outbound' = {}
               \/ \A x \in outbound \ outbound' : \E y \in outbound' : y.abort /\ y.key = x.key
  OBVIOUS
<1> HIDE DEF Kept
<1>15. QED
  BY <1>2, <1>3, <1>4, <1>5, <1>6, <1>7, <1>8, <1>9, <1>10, <1>11, <1>12, <1>13, <1>14 DEF Next

\* A marker does not go back: the token of an id that is given out again is a
\* new one, and what was acknowledged stays acknowledged.
LEMMA StepSettlesMarkers ==
  ASSUME TypeInv, TableInv, TokensInv, [Next]_vars
  PROVE  \A m \in markers :
           /\ Status(m) = "ConnectionGone" => Status(m)' = "ConnectionGone"
           /\ Status(m) = "Acked" => Status(m)' # "Pending"
<1> SUFFICES ASSUME NEW m \in markers
             PROVE  /\ Status(m) = "ConnectionGone" => Status(m)' = "ConnectionGone"
                    /\ Status(m) = "Acked" => Status(m)' # "Pending"
  OBVIOUS
<1>1. m.token \in Nat /\ m.token < nextToken /\ m.bytes \in Nat
  BY DEF TypeInv, TypeOK, Marker, TokensInv
<1>2. \A i \in Live : connections[i].acked \in Nat
  BY DEF TypeInv, TypeOK, PartialFunction, Connection, Live
<1>3. ASSUME ConnectionsKept
      PROVE  /\ Status(m) = "ConnectionGone" => Status(m)' = "ConnectionGone"
             /\ Status(m) = "Acked" => Status(m)' # "Pending"
  <2>1. CASE m.id \notin Live'
    BY <2>1 DEF Status
  <2>2. CASE m.id \in Live'
    <3>1. /\ m.id \in Live /\ connections'[m.id].token = connections[m.id].token
          /\ connections'[m.id].acked >= connections[m.id].acked
      BY <1>3, <2>2 DEF ConnectionsKept
    <3>2. CASE connections[m.id].token # m.token
      BY <3>1, <3>2 DEF Status
    <3>3. CASE connections[m.id].token = m.token /\ connections[m.id].acked >= m.bytes
      <4>1. connections'[m.id].acked >= m.bytes
        <5>1. connections'[m.id].acked \in Nat
          BY <2>2, StepKeepsTypes DEF TypeInv, TypeOK, PartialFunction, Connection, Live
        <5>2. QED BY <1>1, <1>2, <3>1, <3>3, <5>1
      <4>2. QED BY <3>1, <3>3, <4>1 DEF Status
    <3>4. CASE connections[m.id].token = m.token /\ ~(connections[m.id].acked >= m.bytes)
      BY <3>1, <3>4 DEF Status
    <3>5. QED BY <3>2, <3>3, <3>4
  <2>3. QED BY <2>1, <2>2
<1>4. ASSUME NEW key, NEW phase, Created(key, phase)
      PROVE  Status(m) = "ConnectionGone" => Status(m)' = "ConnectionGone"
  <2>1. nextId \notin Live /\ Live' = Live \cup {nextId} /\ connections'[nextId].token = nextToken
        /\ \A i \in Live : connections'[i] = connections[i]
    BY <1>4, NextIdFree DEF TableInv, Created, Create, Live
  <2>2. QED BY <1>1, <2>1 DEF Status
<1>5. ASSUME NEW key, NEW phase, Created(key, phase)
      PROVE  Status(m) = "Acked" => Status(m)' # "Pending"
  <2>1. nextId \notin Live /\ Live' = Live \cup {nextId}
        /\ \A i \in Live : connections'[i] = connections[i]
    BY <1>5, NextIdFree DEF TableInv, Created, Create, Live
  <2>2. QED BY <2>1 DEF Status
<1>6. ASSUME NEW slots, NEW eligible, SetReservation(slots, eligible) PROVE ConnectionsKept
  BY <1>6, UnchangedKeepsConnections DEF SetReservation
<1>7. CASE NewStack
  BY <1>7 DEF NewStack, Status, Live
<1>8. QED BY <1>3, <1>4, <1>5, <1>6, <1>7, StepsOnConnections

-----------------------------------------------------------------------------
(* The theorems                                                            *)

\* All that is proved about the stack, in one invariant.
StackInv ==
  TypeInv /\ TableInv /\ LimitInv /\ ReservationInv /\ QueuesInv /\ EveryoneReachable /\ TokensInv

\* A new stack is within the limits.
LEMMA InitLimits == Init => LimitInv
<1> SUFFICES ASSUME Init PROVE LimitInv
  OBVIOUS
<1>1. Live = {} /\ \A p \in Peer : Of(p) = {}
  BY DEF Init, Live, Of
<1>2. IsFiniteSet({}) /\ Cardinality({}) = 0
  BY FS_EmptySet
<1>3. Cardinality(Live) <= MaxConnections
  BY <1>1, <1>2, TableAssumption
<1>4. ASSUME NEW p \in Peer PROVE Cardinality(Of(p)) <= MaxPerPeer
  <2>1. Cardinality(Of(p)) = 0
    BY <1>1, <1>2
  <2>2. QED BY <2>1, TableAssumption
<1>5. QED BY <1>1, <1>2, <1>3, <1>4 DEF LimitInv, LimitsHold

\* A new stack satisfies the invariant, and every step keeps it.
LEMMA InitStack == Init => StackInv
<1> SUFFICES ASSUME Init PROVE StackInv
  OBVIOUS
<1>1. TypeInv /\ TableInv /\ LimitInv
  BY InitTypes, InitTable, InitLimits
<1>2. ReservationInv /\ QueuesInv /\ EveryoneReachable /\ TokensInv
  BY DEF Init, ReservationInv, QueuesInv, EveryoneReachable, TokensInv, ResetIsLast, Live
<1>3. QED BY <1>1, <1>2 DEF StackInv

\* It holds in every reachable state.
LEMMA StackInvariant == Spec => []StackInv
<1>1. StackInv /\ [Next]_vars => StackInv'
  BY StepKeepsTypes, StepKeepsTable, StepWithinLimits, StepKeepsReservation, StepKeepsQueues,
     StepKeepsReachable, StepKeepsTokens DEF StackInv
<1>2. QED BY <1>1, InitStack, PTL DEF Spec

\* The global and the per-peer limit hold in every reachable state, for every
\* limit, reservation and classifier (ensure_connection_capacity): each
\* creation checks both, and no other step adds a connection.
THEOREM LimitsKept == Spec => []LimitsHold
<1>1. StackInv => LimitsHold
  BY DEF StackInv, LimitInv
<1>2. QED BY <1>1, StackInvariant, PTL

\* A reservation made before any traffic keeps its promise: whatever ordinary
\* connections come, an eligible peer is admitted for as long as eligible
\* connections take fewer slots than reserved (set_connection_reservation,
\* ensure_connection_capacity).
THEOREM ReservationWorks == Spec => []ReservedSlotsFree
<1>1. StackInv => ReservedSlotsFree
  BY ReservedRoom DEF StackInv, LimitInv
<1>2. QED BY <1>1, StackInvariant, PTL

\* A connection whose handshake is done was returned by connect or accept, waits
\* in the queue of its port, or was in a queue that close_listener threw away
\* (input, accept, listen, close_listener), whatever happens to the listener
\* while the handshake is under way, and also when applications listen on ports
\* that connect may pick.
THEOREM NobodyIsLost == Spec => []EveryoneReachable
<1>1. StackInv => EveryoneReachable
  BY DEF StackInv
<1>2. QED BY <1>1, StackInvariant, PTL

\* accept never returns the same connection twice, and connect and accept never
\* return the same one (accept, connect).
THEOREM AcceptIsOnce == Spec => []AcceptedOnce
<1>1. StackInv => AcceptedOnce
  BY QueuesAcceptOnce DEF StackInv
<1>2. QED BY <1>1, StackInvariant, PTL

\* Once the reset of an abort is queued, no other segment of that connection is
\* or comes into the queue (abort, abort_peer).
THEOREM AbortIsFinal == Spec => []ResetIsLast
<1>1. StackInv => ResetIsLast
  BY DEF StackInv, TokensInv
<1>2. QED BY <1>1, StackInvariant, PTL

\* What abort takes out of the queue has the tuple of a reset that it leaves:
\* other connections lose nothing (abort, abort_peer).
THEOREM AbortIsLocal == Spec => AbortSparesOthers
<1>1. StackInv /\ [Next]_vars =>
        [outbound' # {} =>
           \A x \in outbound \ outbound' : \E y \in outbound' : y.abort /\ y.key = x.key]_vars
  BY StepSparesOthers DEF StackInv
<1>2. QED BY <1>1, StackInvariant, PTL DEF Spec, AbortSparesOthers

\* A marker is pending, then acknowledged, then gone, and never comes back to
\* life, not even when a new stack gives its connection id out again
\* (marker_status, NEXT_CONNECTION_TOKEN).
THEOREM MarkersMoveForward == Spec => MarkersSettle
<1>1. StackInv /\ [Next]_vars =>
        [\A m \in markers :
           /\ Status(m) = "ConnectionGone" => Status(m)' = "ConnectionGone"
           /\ Status(m) = "Acked" => Status(m)' # "Pending"]_vars
  BY StepSettlesMarkers DEF StackInv
<1>2. QED BY <1>1, StackInvariant, PTL DEF Spec, MarkersSettle
=============================================================================
