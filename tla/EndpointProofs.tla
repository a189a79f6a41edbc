---------------------------- MODULE EndpointProofs ----------------------------
(***************************************************************************)
(* FipsTcpEndpoint, for every set of peers and datagrams, every limit and  *)
(* every batch length: a failed connect leaves nothing behind, the two     *)
(* points of a key share one budget, datagrams are taken in the order they *)
(* came in, and reads lose bytes only where a send failed or a future was  *)
(* dropped.                                                                *)
(***************************************************************************)
EXTENDS Endpoint, FiniteSetTheorems, SequenceTheorems, WellFoundedInduction, TLAPS

-----------------------------------------------------------------------------
(* A sound stack                                                           *)

Ids == 1 .. MaxCreated

Entry == [peer : Identity, origin : Origin, phase : Phase, unread : Seq(Nat)]

\* A function from ids into V.
IsTable(f, V) == DOMAIN f \subseteq Ids /\ f \in [DOMAIN f -> V]

\* A stack has the fields of a stack, each of its type.
IsStack(s) ==
  /\ s = [connections |-> s.connections, accepts |-> s.accepts, outbound |-> s.outbound,
          nextId |-> s.nextId, taken |-> s.taken]
  /\ IsTable(s.connections, Entry) /\ IsTable(s.taken, Seq(Nat))
  /\ s.accepts \in Seq(Ids) /\ s.outbound \in Seq(Identity)
  /\ s.nextId \in 1 .. MaxCreated + 1

OfKey(s, key) == {i \in DOMAIN s.connections : s.connections[i].peer.key = key}

\* Ids are given out in order, peers are even points, the limits hold.
Sound(s) ==
  /\ IsStack(s)
  /\ DOMAIN s.taken = 1 .. s.nextId - 1
  /\ \A i \in DOMAIN s.connections : i < s.nextId /\ ~s.connections[i].peer.odd
  /\ \A key \in PublicKey : Cardinality(OfKey(s, key)) <= MaxPerPeer
  /\ Cardinality(DOMAIN s.connections) <= MaxConnections

\* Everything that was opened for a caller is known to one.
Known(s) ==
  \A i \in DOMAIN s.connections :
    s.connections[i].origin = "active" => i \in owned \cup abandoned

\* What reads returned and what is unread are together what was taken in.
Complete(s) ==
  \A i \in DOMAIN s.connections :
    Returned(i) \o s.connections[i].unread = s.taken[i]

Lossless == failures = 0 /\ cancels = 0

Good(s) ==
  /\ Sound(s) /\ Known(s) /\ (Lossless => Complete(s))
  /\ DOMAIN got \subseteq 1 .. s.nextId - 1

Calls ==
  [kind : {"connect", "read", "send", "close", "abort", "abort_peer", "poll", "receive"},
   id : 0 .. MaxCreated, bytes : Seq(Nat), sending : Seq(Identity)]

\* What a read in progress holds of connection i.
Reading(i) == IF Busy /\ call.kind = "read" /\ call.id = i THEN call.bytes ELSE <<>>

Complement ==
  \A i \in Live : Returned(i) \o Reading(i) \o connections[i].unread = taken[i]

\* Datagrams stay in order: handled, then in the batch, then with FIPS.
InOrder ==
  /\ receiver \in Seq(Incoming) /\ batch \in Seq(Incoming)
  /\ arrived \in Seq(Incoming) /\ handled \in Seq(Incoming)
  /\ arrived = handled \o batch \o receiver

AppTypes ==
  /\ call \in Calls \cup {Idle}
  /\ Busy /\ call.kind \in {"connect", "read"} => call.id \in 1 .. nextId - 1
  /\ owned \subseteq Ids /\ abandoned \subseteq Ids
  /\ IsTable(got, Seq(Nat)) /\ DOMAIN got \subseteq 1 .. nextId - 1
  /\ failures \in Nat /\ cancels \in Nat

EndpointInv ==
  /\ Sound(Stack) /\ InOrder /\ AppTypes
  /\ NoOrphan
  /\ Lossless => Complement

-----------------------------------------------------------------------------
(* What the stack does to a sound stack                                    *)

LEMMA StackFields ==
  ASSUME NEW s, IsStack(s)
  PROVE  /\ DOMAIN s.connections \subseteq Ids /\ DOMAIN s.taken \subseteq Ids
         /\ s.connections = [i \in DOMAIN s.connections |-> s.connections[i]]
         /\ \A i \in DOMAIN s.connections : s.connections[i] \in Entry
         /\ s.taken = [i \in DOMAIN s.taken |-> s.taken[i]]
         /\ \A i \in DOMAIN s.taken : s.taken[i] \in Seq(Nat)
         /\ s.nextId \in Nat /\ MaxCreated \in Nat
BY EndpointAssumption DEF IsStack, IsTable, Ids

LEMMA PeersAreIdentities ==
  ASSUME NEW peer \in Identity
  PROVE  /\ PeerKey(peer) \in Identity
         /\ PeerKey(peer).key = peer.key /\ ~PeerKey(peer).odd
BY DEF Identity, PeerKey

\* An even point is known by its key.
LEMMA EvenPeer ==
  ASSUME NEW peer \in Identity, NEW p \in Identity, ~p.odd
  PROVE  p = PeerKey(peer) <=> p.key = peer.key
<1>1. p = [key |-> p.key, odd |-> p.odd] /\ p.odd \in BOOLEAN
  BY DEF Identity
<1>2. p.odd = FALSE
  BY <1>1, Zenon
<1>3. p = [key |-> p.key, odd |-> FALSE]
  BY <1>1, <1>2, Zenon
<1>4. PICK no \in BOOLEAN : no = FALSE
  OBVIOUS
<1>5. [peer EXCEPT !.odd = no] = [key |-> peer.key, odd |-> no]
  BY DEF Identity
<1>6. PeerKey(peer) = [key |-> peer.key, odd |-> FALSE]
  BY <1>4, <1>5, Zenon DEF PeerKey
<1>7. PeerKey(peer).key = peer.key
  BY PeersAreIdentities
<1>8. QED BY <1>3, <1>6, <1>7, Zenon

LEMMA OfKeyFinite ==
  ASSUME NEW s, IsStack(s)
  PROVE  /\ IsFiniteSet(DOMAIN s.connections) /\ Cardinality(DOMAIN s.connections) \in Nat
         /\ \A key : IsFiniteSet(OfKey(s, key)) /\ Cardinality(OfKey(s, key)) \in Nat
<1>1. IsFiniteSet(Ids)
  BY EndpointAssumption, FS_Interval DEF Ids
<1>2. IsFiniteSet(DOMAIN s.connections)
  BY <1>1, StackFields, FS_Subset
<1>3. \A key : OfKey(s, key) \subseteq DOMAIN s.connections
  BY DEF OfKey
<1>4. QED BY <1>2, <1>3, FS_Subset, FS_CardinalityType

\* A stack that has no new connection and the old peers stays sound.
LEMMA FewerStaySound ==
  ASSUME NEW s, NEW t, Sound(s), IsStack(t),
         t.nextId = s.nextId, DOMAIN t.taken = DOMAIN s.taken,
         DOMAIN t.connections \subseteq DOMAIN s.connections,
         \A i \in DOMAIN t.connections : t.connections[i].peer = s.connections[i].peer
  PROVE  Sound(t)
<1>1. IsStack(s)
  BY DEF Sound
<1>2. \A key : OfKey(t, key) \subseteq OfKey(s, key)
  BY DEF OfKey
<1>3. /\ Cardinality(DOMAIN t.connections) <= Cardinality(DOMAIN s.connections)
      /\ \A key : Cardinality(OfKey(t, key)) <= Cardinality(OfKey(s, key))
  BY <1>1, <1>2, OfKeyFinite, FS_Subset
<1>4. /\ Cardinality(DOMAIN t.connections) \in Nat /\ Cardinality(DOMAIN s.connections) \in Nat
      /\ \A key : Cardinality(OfKey(t, key)) \in Nat /\ Cardinality(OfKey(s, key)) \in Nat
  BY <1>1, OfKeyFinite
<1>5. Cardinality(DOMAIN t.connections) <= MaxConnections
  BY <1>3, <1>4, EndpointAssumption DEF Sound
<1>6. \A key \in PublicKey : Cardinality(OfKey(t, key)) <= MaxPerPeer
  BY <1>3, <1>4, EndpointAssumption DEF Sound
<1>7. QED BY <1>5, <1>6 DEF Sound

\* The fields that emitting and dropping change.
LEMMA EmitStack ==
  ASSUME NEW s, IsStack(s), NEW peer \in Identity
  PROVE  LET t == Emit(s, peer) IN
         /\ IsStack(t) /\ t.connections = s.connections /\ t.accepts = s.accepts
         /\ t.nextId = s.nextId /\ t.taken = s.taken
<1>1. PeerKey(peer) \in Identity
  BY PeersAreIdentities
<1>2. PICK o : o = Append(s.outbound, PeerKey(peer))
  OBVIOUS
<1>3. o \in Seq(Identity)
  BY <1>1, <1>2 DEF IsStack
<1>4. Emit(s, peer) = [s EXCEPT !.outbound = o]
  BY <1>2 DEF Emit
<1>5. Emit(s, peer) = [connections |-> s.connections, accepts |-> s.accepts,
                       outbound |-> o, nextId |-> s.nextId, taken |-> s.taken]
  BY <1>4 DEF IsStack
<1>6. QED BY <1>3, <1>5 DEF IsStack

LEMMA EmitGood ==
  ASSUME NEW s, Good(s), NEW peer \in Identity
  PROVE  Good(Emit(s, peer))
<1>1. PICK t : t = Emit(s, peer)
  OBVIOUS
<1>2. IsStack(s)
  BY DEF Good, Sound
<1>3. IsStack(t) /\ t.connections = s.connections /\ t.nextId = s.nextId /\ t.taken = s.taken
  BY <1>1, <1>2, EmitStack
<1>4. Sound(t)
  BY <1>3, FewerStaySound DEF Good
<1>5. Known(t) /\ (Lossless => Complete(t))
  BY <1>3 DEF Good, Known, Complete
<1>6. QED BY <1>1, <1>3, <1>4, <1>5 DEF Good

LEMMA DropStack ==
  ASSUME NEW s, IsStack(s), NEW ids
  PROVE  LET t == Drop(s, ids) IN
         /\ IsStack(t) /\ t.accepts = s.accepts /\ t.outbound = s.outbound
         /\ t.nextId = s.nextId /\ t.taken = s.taken
         /\ DOMAIN t.connections = DOMAIN s.connections \ ids
         /\ \A i \in DOMAIN t.connections : t.connections[i] = s.connections[i]
<1>1. PICK c : c = Restrict(s.connections, DOMAIN s.connections \ ids)
  OBVIOUS
<1>2. c = [i \in DOMAIN s.connections \ ids |-> s.connections[i]]
  BY <1>1 DEF Restrict
<1>3. Drop(s, ids) = [connections |-> c, accepts |-> s.accepts, outbound |-> s.outbound,
                      nextId |-> s.nextId, taken |-> s.taken]
  BY <1>1 DEF Drop, IsStack
<1>4. IsTable(c, Entry)
  BY <1>2, StackFields DEF IsTable
<1>5. QED BY <1>2, <1>3, <1>4 DEF IsStack

LEMMA DropGood ==
  ASSUME NEW s, Good(s), NEW ids
  PROVE  Good(Drop(s, ids))
<1>1. PICK t : t = Drop(s, ids)
  OBVIOUS
<1>2. IsStack(s)
  BY DEF Good, Sound
<1>3. /\ IsStack(t) /\ t.nextId = s.nextId /\ t.taken = s.taken
      /\ DOMAIN t.connections \subseteq DOMAIN s.connections
      /\ \A i \in DOMAIN t.connections : t.connections[i] = s.connections[i]
  BY <1>1, <1>2, DropStack
<1>4. Sound(t)
  BY <1>3, FewerStaySound DEF Good
<1>5. Known(t) /\ (Lossless => Complete(t))
  BY <1>3 DEF Good, Known, Complete
<1>6. QED BY <1>1, <1>3, <1>4, <1>5 DEF Good

LEMMA LiveEntries ==
  ASSUME NEW s, Sound(s), NEW i \in DOMAIN s.connections
  PROVE  /\ i \in Ids /\ i \in Nat /\ 1 <= i /\ i < s.nextId /\ i \in DOMAIN s.taken
         /\ s.connections[i] \in Entry /\ s.connections[i].peer \in Identity
         /\ ~s.connections[i].peer.odd
<1>1. IsStack(s) /\ i < s.nextId /\ DOMAIN s.taken = 1 .. s.nextId - 1 /\ ~s.connections[i].peer.odd
  BY DEF Sound
<1>2. i \in Ids /\ s.nextId \in Nat /\ MaxCreated \in Nat /\ s.connections[i] \in Entry
  BY <1>1, StackFields
<1>3. i \in Nat /\ 1 <= i
  BY <1>2 DEF Ids
<1>4. i \in 1 .. s.nextId - 1
  BY <1>1, <1>2, <1>3
<1>5. s.connections[i].peer \in Identity
  BY <1>2 DEF Entry
<1>6. QED BY <1>1, <1>2, <1>3, <1>4, <1>5

\* Opening a connection: its phase changes and nothing else.
LEMMA OpenedGood ==
  ASSUME NEW s, Good(s), NEW i \in DOMAIN s.connections
  PROVE  LET t == Opened(s, i) IN
         /\ Good(t) /\ DOMAIN t.connections = DOMAIN s.connections
         /\ t.connections[i].peer = s.connections[i].peer
<1>1. PICK e, c, t : /\ e = [s.connections[i] EXCEPT !.phase = "Synchronized"]
                     /\ c = [s.connections EXCEPT ![i] = e]
                     /\ t = Opened(s, i)
  OBVIOUS
<1>2. IsStack(s)
  BY DEF Good, Sound
<1>3. s.connections[i] \in Entry
  BY <1>2, StackFields
<1>4. /\ e \in Entry /\ e.peer = s.connections[i].peer
      /\ e.origin = s.connections[i].origin /\ e.unread = s.connections[i].unread
  BY <1>1, <1>3 DEF Entry, Phase
<1>5. /\ DOMAIN c = DOMAIN s.connections /\ c = [j \in DOMAIN c |-> c[j]]
      /\ \A j \in DOMAIN c : c[j] = IF j = i THEN e ELSE s.connections[j]
  BY <1>1, <1>2, StackFields
<1>6. t = [connections |-> c, accepts |-> s.accepts, outbound |-> s.outbound,
           nextId |-> s.nextId, taken |-> s.taken]
  BY <1>1, <1>2 DEF Opened, IsStack
<1>7. IsTable(c, Entry)
  BY <1>2, <1>4, <1>5, StackFields DEF IsTable
<1>8. IsStack(t) /\ t.connections = c /\ t.nextId = s.nextId /\ t.taken = s.taken
  BY <1>2, <1>6, <1>7 DEF IsStack
<1>9. Sound(t)
  BY <1>4, <1>5, <1>8, FewerStaySound DEF Good
<1>10. Known(t)
  BY <1>4, <1>5, <1>8 DEF Good, Known
<1>11. Lossless => Complete(t)
  BY <1>4, <1>5, <1>8 DEF Good, Complete
<1>12. QED BY <1>1, <1>4, <1>5, <1>8, <1>9, <1>10, <1>11 DEF Good

\* A connection enters the accept queue.
LEMMA QueuedGood ==
  ASSUME NEW s, Good(s), NEW i \in DOMAIN s.connections
  PROVE  LET t == [s EXCEPT !.accepts = Append(@, i)] IN
         Good(t) /\ t.connections = s.connections
<1>1. PICK a, t : a = Append(s.accepts, i) /\ t = [s EXCEPT !.accepts = a]
  OBVIOUS
<1>2. IsStack(s)
  BY DEF Good, Sound
<1>3. a \in Seq(Ids)
  <2>1. i \in Ids
    BY <1>2, StackFields
  <2>2. s.accepts \in Seq(Ids)
    BY <1>2 DEF IsStack
  <2>3. QED BY <1>1, <2>1, <2>2
<1>4. t = [connections |-> s.connections, accepts |-> a, outbound |-> s.outbound,
           nextId |-> s.nextId, taken |-> s.taken]
  BY <1>1, <1>2 DEF IsStack
<1>5. IsStack(t) /\ t.connections = s.connections /\ t.nextId = s.nextId /\ t.taken = s.taken
  BY <1>2, <1>3, <1>4 DEF IsStack
<1>6. Sound(t)
  BY <1>5, FewerStaySound DEF Good
<1>7. Known(t) /\ (Lossless => Complete(t))
  BY <1>5 DEF Good, Known, Complete
<1>8. QED BY <1>1, <1>5, <1>6, <1>7 DEF Good

\* Appending to what was read and unread is appending to what was taken in.
LEMMA AppendToUnread ==
  ASSUME NEW r \in Seq(Nat), NEW u \in Seq(Nat), NEW byte \in Nat
  PROVE  r \o Append(u, byte) = Append(r \o u, byte)
OBVIOUS

LEMMA ReturnedBytes ==
  ASSUME IsTable(got, Seq(Nat)), NEW i
  PROVE  Returned(i) \in Seq(Nat)
<1>1. CASE i \in DOMAIN got
  BY <1>1 DEF Returned, IsTable
<1>2. CASE i \notin DOMAIN got
  BY <1>2 DEF Returned
<1>3. QED BY <1>1, <1>2

\* A byte that is taken in is unread.
LEMMA TakeInGood ==
  ASSUME NEW s, Good(s), NEW i \in DOMAIN s.connections, NEW byte \in Nat,
         IsTable(got, Seq(Nat))
  PROVE  Good(TakeIn(s, i, byte))
<1>1. PICK u, e, c : /\ u = Append(s.connections[i].unread, byte)
                     /\ e = [s.connections[i] EXCEPT !.unread = u]
                     /\ c = [s.connections EXCEPT ![i] = e]
  OBVIOUS
<1>2. PICK b, k, t : /\ b = Append(s.taken[i], byte)
                     /\ k = [s.taken EXCEPT ![i] = b]
                     /\ t = [[s EXCEPT !.connections = c] EXCEPT !.taken = k]
  OBVIOUS
<1>3. IsStack(s) /\ Sound(s)
  BY DEF Good, Sound
<1>4. s.connections[i] \in Entry /\ s.connections[i].unread \in Seq(Nat)
  BY <1>3, StackFields DEF Entry
<1>5. i \in DOMAIN s.taken
  BY <1>3, LiveEntries
<1>6. s.taken[i] \in Seq(Nat)
  BY <1>3, <1>5, StackFields
<1>7. u \in Seq(Nat) /\ b \in Seq(Nat)
  BY <1>1, <1>2, <1>4, <1>6
<1>8. /\ e \in Entry /\ e.peer = s.connections[i].peer
      /\ e.origin = s.connections[i].origin /\ e.unread = u
  BY <1>1, <1>4, <1>7 DEF Entry
<1>9. /\ DOMAIN c = DOMAIN s.connections /\ c = [j \in DOMAIN c |-> c[j]]
      /\ \A j \in DOMAIN c : c[j] = IF j = i THEN e ELSE s.connections[j]
  BY <1>1, <1>3, StackFields
<1>10. /\ DOMAIN k = DOMAIN s.taken /\ k = [j \in DOMAIN k |-> k[j]]
       /\ \A j \in DOMAIN k : k[j] = IF j = i THEN b ELSE s.taken[j]
  BY <1>2, <1>3, StackFields
<1>11. t = [connections |-> c, accepts |-> s.accepts, outbound |-> s.outbound,
            nextId |-> s.nextId, taken |-> k]
  BY <1>2, <1>3 DEF IsStack
<1>12. IsTable(c, Entry) /\ IsTable(k, Seq(Nat))
  <2>1. IsTable(c, Entry)
    BY <1>3, <1>8, <1>9, StackFields DEF IsTable
  <2>2. IsTable(k, Seq(Nat))
    BY <1>3, <1>7, <1>10, StackFields DEF IsTable
  <2>3. QED BY <2>1, <2>2
<1>13. IsStack(t) /\ t.connections = c /\ t.nextId = s.nextId /\ t.taken = k
  BY <1>3, <1>11, <1>12 DEF IsStack
<1>14. Sound(t)
  BY <1>3, <1>8, <1>9, <1>10, <1>13, FewerStaySound
<1>15. Known(t)
  BY <1>8, <1>9, <1>13 DEF Good, Known
<1>16. ASSUME Lossless PROVE Complete(t)
  <2>1. Complete(s)
    BY <1>16 DEF Good
  <2>2. Returned(i) \o u = b
    <3>1. PICK r \in Seq(Nat) : r = Returned(i)
      BY ReturnedBytes
    <3>2. r \o s.connections[i].unread = s.taken[i]
      BY <2>1, <3>1 DEF Complete
    <3>3. r \o u = Append(r \o s.connections[i].unread, byte)
      BY <1>1, <1>4, AppendToUnread
    <3>4. QED BY <1>2, <3>1, <3>2, <3>3
  <2>3. ASSUME NEW j \in DOMAIN c PROVE Returned(j) \o c[j].unread = k[j]
    <3>1. j \in DOMAIN s.connections /\ j \in DOMAIN k
      <4>1. j \in DOMAIN s.connections
        BY <1>9, <2>3
      <4>2. QED BY <1>3, <1>10, <4>1, LiveEntries
    <3>2. CASE j = i
      BY <1>8, <1>9, <1>10, <2>2, <3>1, <3>2
    <3>3. CASE j # i
      BY <1>9, <1>10, <2>1, <3>1, <3>3 DEF Complete
    <3>4. QED BY <3>2, <3>3
  <2>4. QED BY <1>13, <2>3 DEF Complete
<1>17. Good(t)
  BY <1>13, <1>14, <1>15, <1>16 DEF Good
<1>18. TakeIn(s, i, byte) = Emit(t, s.connections[i].peer)
  BY <1>1, <1>2 DEF TakeIn
<1>19. s.connections[i].peer \in Identity
  BY <1>4 DEF Entry
<1>20. QED BY <1>17, <1>18, <1>19, EmitGood

\* A stack with one more connection, of the peer that Admits let in.
LEMMA CreateSound ==
  ASSUME NEW s, Sound(s), NEW peer \in Identity, NEW origin \in Origin, NEW phase \in Phase,
         Admits(s, peer), s.nextId <= MaxCreated
  PROVE  LET t == Create(s, peer, origin, phase) IN
         /\ Sound(t) /\ t.nextId = s.nextId + 1 /\ s.nextId \in 1 .. MaxCreated
         /\ s.nextId \notin DOMAIN s.connections
         /\ DOMAIN t.connections = DOMAIN s.connections \cup {s.nextId}
         /\ \A i \in DOMAIN s.connections :
              t.connections[i] = s.connections[i] /\ t.taken[i] = s.taken[i]
         /\ t.connections[s.nextId] = [peer |-> PeerKey(peer), origin |-> origin,
                                       phase |-> phase, unread |-> <<>>]
         /\ t.taken[s.nextId] = <<>>
<1>1. PICK n, e, c, k : /\ n = s.nextId
                        /\ e = [peer |-> PeerKey(peer), origin |-> origin,
                                phase |-> phase, unread |-> <<>>]
                        /\ c = With(s.connections, n, e) /\ k = With(s.taken, n, <<>>)
  OBVIOUS
<1>2. PICK u, t : /\ u = [[[s EXCEPT !.connections = c] EXCEPT !.taken = k] EXCEPT !.nextId = n + 1]
                  /\ t = Emit(u, peer)
  OBVIOUS
<1>3. IsStack(s) /\ n \in Nat /\ 1 <= n /\ n <= MaxCreated /\ MaxCreated \in Nat
  BY <1>1, EndpointAssumption DEF Sound, IsStack
<1>4. n \in Ids /\ n \notin DOMAIN s.connections
  BY <1>1, <1>3 DEF Sound, Ids
<1>5. PeerKey(peer) \in Identity /\ PeerKey(peer).key = peer.key /\ ~PeerKey(peer).odd
  BY PeersAreIdentities
<1>6. e \in Entry /\ e.peer = PeerKey(peer)
  BY <1>1, <1>5 DEF Entry
<1>7. /\ DOMAIN c = DOMAIN s.connections \cup {n} /\ c = [j \in DOMAIN c |-> c[j]]
      /\ c[n] = e /\ \A j \in DOMAIN s.connections : c[j] = s.connections[j]
  BY <1>1, <1>4 DEF With
<1>8. /\ DOMAIN k = DOMAIN s.taken \cup {n} /\ k = [j \in DOMAIN k |-> k[j]]
      /\ k[n] = <<>> /\ \A j \in DOMAIN s.taken : j # n => k[j] = s.taken[j]
  BY <1>1 DEF With
<1>9. u = [connections |-> c, accepts |-> s.accepts, outbound |-> s.outbound,
           nextId |-> n + 1, taken |-> k]
  BY <1>2, <1>3 DEF IsStack
<1>10. IsTable(c, Entry)
  BY <1>3, <1>4, <1>6, <1>7, StackFields DEF IsTable
<1>11. IsTable(k, Seq(Nat))
  <2>1. \A j \in DOMAIN k : k[j] \in Seq(Nat)
    <3>1. \A j \in DOMAIN s.taken : s.taken[j] \in Seq(Nat)
      BY <1>3, StackFields
    <3>2. <<>> \in Seq(Nat)
      OBVIOUS
    <3>3. QED BY <1>8, <3>1, <3>2
  <2>2. DOMAIN k \subseteq Ids
    BY <1>3, <1>4, <1>8, StackFields
  <2>3. QED BY <1>8, <2>1, <2>2 DEF IsTable
<1>12. IsStack(u) /\ u.connections = c /\ u.nextId = n + 1 /\ u.taken = k
  BY <1>3, <1>9, <1>10, <1>11 DEF IsStack
<1>13. IsStack(t) /\ t.connections = c /\ t.nextId = n + 1 /\ t.taken = k
  BY <1>2, <1>12, EmitStack
<1>14. DOMAIN t.taken = 1 .. t.nextId - 1
  <2>1. DOMAIN s.taken = 1 .. n - 1
    BY <1>1 DEF Sound
  <2>2. 1 .. (n + 1) - 1 = (1 .. n - 1) \cup {n}
    BY <1>3
  <2>3. QED BY <1>8, <1>13, <2>1, <2>2
<1>15. \A i \in DOMAIN t.connections : i < t.nextId /\ ~t.connections[i].peer.odd
  <2>1. \A i \in DOMAIN s.connections : i \in Nat /\ i < n /\ ~s.connections[i].peer.odd
    BY <1>1, LiveEntries
  <2>2. ~e.peer.odd
    BY <1>5, <1>6
  <2>3. \A i \in DOMAIN c : i < n + 1
    BY <1>3, <1>7, <2>1
  <2>4. \A i \in DOMAIN c : ~c[i].peer.odd
    BY <1>7, <2>1, <2>2
  <2>5. QED BY <1>13, <2>3, <2>4
<1>16. Cardinality(DOMAIN t.connections) <= MaxConnections
  <2>1. Cardinality(DOMAIN t.connections) = Cardinality(DOMAIN s.connections) + 1
    BY <1>3, <1>4, <1>7, <1>13, OfKeyFinite, FS_AddElement
  <2>2. Cardinality(DOMAIN s.connections) < MaxConnections
    BY DEF Admits
  <2>3. QED BY <1>3, <2>1, <2>2, OfKeyFinite, EndpointAssumption
<1>17. ASSUME NEW key \in PublicKey PROVE Cardinality(OfKey(t, key)) <= MaxPerPeer
  <2>1. CASE key = peer.key
    <3>1. OfKey(t, key) = OfKey(s, key) \cup {n}
      BY <1>5, <1>6, <1>7, <1>13, <2>1 DEF OfKey
    <3>2. n \notin OfKey(s, key)
      BY <1>4 DEF OfKey
    <3>3. Cardinality(OfKey(t, key)) = Cardinality(OfKey(s, key)) + 1
      BY <1>3, <3>1, <3>2, OfKeyFinite, FS_AddElement
    <3>4. OfKey(s, key) = {i \in DOMAIN s.connections : s.connections[i].peer = PeerKey(peer)}
      <4>1. \A i \in DOMAIN s.connections :
              s.connections[i].peer \in Identity /\ ~s.connections[i].peer.odd
        BY LiveEntries
      <4>2. \A i \in DOMAIN s.connections :
              s.connections[i].peer = PeerKey(peer) <=> s.connections[i].peer.key = key
        BY <2>1, <4>1, EvenPeer
      <4>3. QED BY <4>2 DEF OfKey
    <3>5. Cardinality(OfKey(s, key)) < MaxPerPeer
      BY <3>4 DEF Admits
    <3>6. QED BY <1>3, <3>3, <3>5, OfKeyFinite, EndpointAssumption
  <2>2. CASE key # peer.key
    <3>1. OfKey(t, key) = OfKey(s, key)
      BY <1>5, <1>6, <1>7, <1>13, <2>2 DEF OfKey
    <3>2. QED BY <3>1 DEF Sound
  <2>3. QED BY <2>1, <2>2
<1>18. Sound(t)
  BY <1>13, <1>14, <1>15, <1>16, <1>17 DEF Sound
<1>19. Create(s, peer, origin, phase) = t
  BY <1>1, <1>2 DEF Create
<1>20. \A i \in DOMAIN s.connections : t.taken[i] = s.taken[i]
  <2>2. \A i \in DOMAIN s.connections : i \in DOMAIN s.taken /\ i # n
    BY <1>1, <1>3, LiveEntries
  <2>3. QED BY <1>8, <1>13, <2>2
<1>21. QED BY <1>1, <1>3, <1>4, <1>7, <1>8, <1>13, <1>18, <1>19, <1>20

\* A connection of a peer's SYN has an id that no read and no caller knows of.
LEMMA CreateGood ==
  ASSUME NEW s, Good(s), NEW peer \in Identity, Admits(s, peer), s.nextId <= MaxCreated
  PROVE  Good(Create(s, peer, "passive", "SynReceived"))
<1>1. PICK t, n, o, p : /\ t = Create(s, peer, o, p) /\ n = s.nextId
                        /\ o = "passive" /\ p = "SynReceived"
  OBVIOUS
<1>2. Sound(s) /\ o \in Origin /\ p \in Phase
  BY <1>1 DEF Good, Origin, Phase
<1>3. /\ Sound(t) /\ t.nextId = n + 1 /\ n \in 1 .. MaxCreated
      /\ DOMAIN t.connections = DOMAIN s.connections \cup {n}
      /\ \A i \in DOMAIN s.connections :
           t.connections[i] = s.connections[i] /\ t.taken[i] = s.taken[i]
      /\ t.connections[n].origin = o /\ t.connections[n].unread = <<>>
      /\ t.taken[n] = <<>>
  <2>0. LET c == Create(s, peer, o, p) IN
        /\ Sound(c) /\ c.nextId = s.nextId + 1 /\ s.nextId \in 1 .. MaxCreated
        /\ DOMAIN c.connections = DOMAIN s.connections \cup {s.nextId}
        /\ \A i \in DOMAIN s.connections :
             c.connections[i] = s.connections[i] /\ c.taken[i] = s.taken[i]
        /\ c.connections[s.nextId] = [peer |-> PeerKey(peer), origin |-> o, phase |-> p,
                                      unread |-> <<>>]
        /\ c.taken[s.nextId] = <<>>
    <3>1. Sound(s) /\ Admits(s, peer) /\ s.nextId <= MaxCreated /\ o \in Origin /\ p \in Phase
      BY <1>2
    <3>2. QED BY <3>1, CreateSound
  <2>1. /\ Sound(t) /\ t.nextId = n + 1 /\ n \in 1 .. MaxCreated
        /\ DOMAIN t.connections = DOMAIN s.connections \cup {n}
        /\ \A i \in DOMAIN s.connections :
             t.connections[i] = s.connections[i] /\ t.taken[i] = s.taken[i]
        /\ t.connections[n] = [peer |-> PeerKey(peer), origin |-> o, phase |-> p,
                               unread |-> <<>>]
        /\ t.taken[n] = <<>>
    BY <1>1, <2>0, Zenon
  <2>2. t.connections[n].origin = o /\ t.connections[n].unread = <<>>
    BY <2>1
  <2>3. QED BY <2>1, <2>2
<1>4. MaxCreated \in Nat /\ n \in Nat
  BY <1>3, EndpointAssumption
<1>5. Known(t)
  BY <1>1, <1>3 DEF Good, Known
<1>6. DOMAIN got \subseteq 1 .. n - 1 /\ DOMAIN got \subseteq 1 .. t.nextId - 1
  BY <1>1, <1>3, <1>4 DEF Good
<1>7. Returned(n) \o t.connections[n].unread = t.taken[n]
  <2>1. n \notin DOMAIN got
    BY <1>4, <1>6
  <2>2. Returned(n) = <<>>
    BY <2>1 DEF Returned
  <2>3. QED BY <1>3, <2>2
<1>8. Lossless => Complete(t)
  BY <1>3, <1>7 DEF Good, Complete
<1>9. QED BY <1>1, <1>3, <1>5, <1>6, <1>8 DEF Good

\* Every branch of on_segment.
LEMMA OnSegmentGood ==
  ASSUME NEW s, Good(s), NEW i \in DOMAIN s.connections, NEW d \in Datagram,
         NEW byte \in Nat, IsTable(got, Seq(Nat))
  PROVE  Good(OnSegment(s, i, d, byte))
<1>1. PICK o, q, peer : /\ o = Opened(s, i) /\ q = [o EXCEPT !.accepts = Append(@, i)]
                        /\ peer = s.connections[i].peer
  OBVIOUS
<1>2. peer \in Identity
  BY <1>1, LiveEntries DEF Good
<1>3. Good(o) /\ i \in DOMAIN o.connections
  BY <1>1, OpenedGood
<1>4. Good(q) /\ i \in DOMAIN q.connections
  BY <1>1, <1>3, QueuedGood
<1>5. /\ Good(Drop(s, {i})) /\ Good(Emit(o, peer)) /\ Good(Emit(s, peer))
      /\ Good(TakeIn(q, i, byte)) /\ Good(TakeIn(s, i, byte))
  BY <1>2, <1>3, <1>4, DropGood, EmitGood, TakeInGood
<1>6. PICK r : r = OnSegment(s, i, d, byte)
  OBVIOUS
<1>7. \/ r = Drop(s, {i}) \/ r = Emit(o, peer) \/ r = s \/ r = Emit(s, peer)
      \/ r = TakeIn(q, i, byte) \/ r = q \/ r = TakeIn(s, i, byte)
  <2>1. CASE d.content = "reset"
    BY <1>6, <2>1 DEF OnSegment
  <2>2. CASE d.content # "reset" /\ s.connections[i].phase = "SynSent"
    BY <1>1, <1>6, <2>2 DEF OnSegment
  <2>3. CASE d.content # "reset" /\ s.connections[i].phase # "SynSent" /\ d.content = "syn"
    BY <1>1, <1>6, <2>3 DEF OnSegment
  <2>4. CASE /\ d.content \notin {"reset", "syn"} /\ s.connections[i].phase = "SynReceived"
    BY <1>1, <1>6, <2>4 DEF OnSegment
  <2>5. CASE /\ d.content \notin {"reset", "syn"}
             /\ s.connections[i].phase \notin {"SynSent", "SynReceived"}
    BY <1>1, <1>6, <2>5 DEF OnSegment
  <2>6. QED BY <2>1, <2>2, <2>3, <2>4, <2>5
<1>8. Good(r)
  BY <1>4, <1>3, <1>5, <1>7, Zenon
<1>9. QED BY <1>6, <1>8, Zenon

\* Every branch of input.
LEMMA StackInputGood ==
  ASSUME NEW s, Good(s), NEW d \in Datagram, NEW byte \in Nat, IsTable(got, Seq(Nat))
  PROVE  Good(StackInput(s, d, byte))
<1>1. d.from \in Identity
  BY DEF Datagram
<1>2. CASE d.content = "malformed"
  BY <1>2 DEF StackInput
<1>3. CASE d.content # "malformed" /\ Tuple(s, d.from, d.origin) # {}
  <2>1. PICK i : i = CHOOSE j \in Tuple(s, d.from, d.origin) : TRUE
    OBVIOUS
  <2>2. i \in DOMAIN s.connections
    BY <1>3, <2>1 DEF Tuple
  <2>3. StackInput(s, d, byte) = OnSegment(s, i, d, byte)
    BY <1>3, <2>1 DEF StackInput
  <2>4. QED BY <2>2, <2>3, OnSegmentGood
<1>4. CASE /\ d.content # "malformed" /\ Tuple(s, d.from, d.origin) = {}
           /\ d.content = "syn" /\ d.origin = "passive"
           /\ Admits(s, d.from) /\ s.nextId <= MaxCreated
  <2>1. StackInput(s, d, byte) = Create(s, d.from, "passive", "SynReceived")
    BY <1>4 DEF StackInput
  <2>2. QED BY <1>1, <1>4, <2>1, CreateGood
<1>5. CASE /\ d.content # "malformed" /\ Tuple(s, d.from, d.origin) = {}
           /\ ~(d.content = "syn" /\ d.origin = "passive"
                /\ Admits(s, d.from) /\ s.nextId <= MaxCreated)
  <2>1. StackInput(s, d, byte) \in {s, Emit(s, d.from)}
    BY <1>5 DEF StackInput
  <2>2. Good(Emit(s, d.from))
    BY <1>1, EmitGood
  <2>3. QED BY <2>1, <2>2
<1>6. QED BY <1>2, <1>3, <1>4, <1>5

-----------------------------------------------------------------------------
(* A batch: one datagram after the other                                   *)

\* A set of natural numbers has a least element.
LEMMA LeastNumber ==
  ASSUME NEW T \in SUBSET Nat, T # {}
  PROVE  \E m \in T : \A n \in T : m <= n
<1>1. PICK m \in T : \A n \in T : <<n, m>> \notin OpToRel(<, Nat)
  BY NatLessThanWellFounded, WFMin
<1>2. \A n \in T : ~(n < m)
  BY <1>1 DEF OpToRel
<1>3. QED BY <1>2

\* The largest of the first numbers, and what is below it.
LEMMA LargestOfFirst ==
  ASSUME NEW m \in Nat, m # 0
  PROVE  /\ Max(1 .. m) = m /\ (1 .. m) \ {m} = 1 .. m - 1 /\ 1 .. m # {}
<1>1. m \in 1 .. m /\ \A k \in 1 .. m : m >= k
  OBVIOUS
<1>2. \A k \in 1 .. m : (\A j \in 1 .. m : k >= j) => k = m
  BY <1>1
<1>3. Max(1 .. m) = m
  BY <1>1, <1>2 DEF Max
<1>4. QED BY <1>1, <1>3

\* A set of numbers up to m that is not empty has a largest.
LEMMA LargestMember ==
  ASSUME NEW m \in Nat, NEW S \in SUBSET (1 .. m), S # {}
  PROVE  Max(S) \in S /\ \A k \in S : Max(S) >= k
<1>1. {m - k : k \in S} \in SUBSET Nat /\ {m - k : k \in S} # {}
  <2>1. \A k \in S : m - k \in Nat
    <3>1. SUFFICES ASSUME NEW k \in S PROVE m - k \in Nat
      OBVIOUS
    <3>2. k \in 1 .. m
      OBVIOUS
    <3>3. QED BY <3>2
  <2>2. QED BY <2>1
<1>2. PICK l \in {m - k : k \in S} : \A j \in {m - k : k \in S} : l <= j
  BY <1>1, LeastNumber
<1>3. PICK x \in S : l = m - x
  BY <1>2
<1>4. \A k \in S : x >= k
  <2>1. SUFFICES ASSUME NEW k \in S PROVE x >= k
    OBVIOUS
  <2>2. l <= m - k
    BY <1>2
  <2>3. x \in 1 .. m /\ k \in 1 .. m
    OBVIOUS
  <2>4. QED BY <1>3, <2>2, <2>3
<1>5. QED BY <1>4 DEF Max

\* What is left of the datagrams in s when the one with the largest place is
\* taken last, given what the others lead to.
Through(datagrams, admitted, places, f, s) ==
  IF s = {} THEN Stack
  ELSE Admitted(f[s \ {Max(s)}], datagrams, admitted, places[Max(s)])

\* A function that follows this on the sets of the first n places.
IsRun(f, n, datagrams, admitted, places) ==
  f = [s \in SUBSET (1 .. n) |-> Through(datagrams, admitted, places, f, s)]

\* There is such a function, for any number of places.
LEMMA BatchDefined ==
  ASSUME NEW n \in Nat, NEW datagrams, NEW admitted, NEW places
  PROVE  \E f : IsRun(f, n, datagrams, admitted, places)
<1> DEFINE Defined(m) == \E f : IsRun(f, m, datagrams, admitted, places)
           Failing == {m \in Nat : ~Defined(m)}
<1>1. SUFFICES ASSUME Failing # {} PROVE FALSE
  OBVIOUS
<1>2. PICK m \in Failing : \A k \in Failing : m <= k
  <2>1. Failing \in SUBSET Nat
    OBVIOUS
  <2> HIDE DEF Failing
  <2>2. QED BY <1>1, <2>1, LeastNumber
<1>3. m \in Nat /\ ~Defined(m)
  OBVIOUS
<1>4. CASE m = 0
  <2>1. PICK f : f = [s \in SUBSET (1 .. 0) |-> Stack]
    OBVIOUS
  <2>2. \A s \in SUBSET (1 .. 0) : Through(datagrams, admitted, places, f, s) = Stack
    BY DEF Through
  <2>3. IsRun(f, 0, datagrams, admitted, places)
    BY <2>1, <2>2 DEF IsRun
  <2>4. QED BY <1>3, <1>4, <2>3
<1>5. CASE m # 0
  <2>1. m - 1 \in Nat /\ m - 1 \notin Failing
    <3> HIDE DEF Failing
    <3>1. QED BY <1>2, <1>3, <1>5
  <2>2. Defined(m - 1)
    BY <2>1
  <2>3. PICK f : f = [s \in SUBSET (1 .. m - 1) |-> Through(datagrams, admitted, places, f, s)]
    BY <2>2 DEF IsRun
  <2>4. PICK g : g = [s \in SUBSET (1 .. m) |->
                        IF s \in SUBSET (1 .. m - 1) THEN f[s]
                        ELSE Through(datagrams, admitted, places, f, s)]
    OBVIOUS
  <2> HIDE DEF Failing, Defined
  <2>5. ASSUME NEW s \in SUBSET (1 .. m)
        PROVE  g[s] = Through(datagrams, admitted, places, g, s)
    <3>1. g[s] = Through(datagrams, admitted, places, f, s)
      <4>1. CASE s \in SUBSET (1 .. m - 1)
        BY <2>3, <2>4, <4>1
      <4>2. CASE s \notin SUBSET (1 .. m - 1)
        BY <2>4, <4>2
      <4>3. QED BY <4>1, <4>2
    <3>2. CASE s = {}
      BY <3>1, <3>2 DEF Through
    <3>3. CASE s # {}
      <4>1. Max(s) \in s /\ \A k \in s : Max(s) >= k
        BY <1>3, <3>3, LargestMember
      <4>2. PICK r, x : r = s \ {x} /\ x = Max(s)
        OBVIOUS
      <4>3. \A k \in r : k \in 1 .. m - 1
        <5>1. SUFFICES ASSUME NEW k \in r PROVE k \in 1 .. m - 1
          OBVIOUS
        <5>2. k \in 1 .. m /\ x \in 1 .. m /\ k # x /\ k <= x
          BY <4>1, <4>2
        <5>3. QED BY <1>3, <5>2
      <4>4. r \in SUBSET (1 .. m - 1) /\ r \in SUBSET (1 .. m)
        BY <4>2, <4>3
      <4>5. g[r] = f[r]
        BY <2>4, <4>4
      <4>6. QED BY <3>1, <3>3, <4>2, <4>5 DEF Through
    <3>4. QED BY <3>2, <3>3
  <2>6. IsRun(g, m, datagrams, admitted, places)
    BY <2>4, <2>5 DEF IsRun
  <2>7. QED BY <1>3, <2>6 DEF Defined
<1>6. QED BY <1>4, <1>5

\* The fold is such a function at the set of all places.
LEMMA BatchUnfolds ==
  ASSUME NEW datagrams \in Seq(Incoming), NEW admitted,
         NEW places, places = [k \in DOMAIN datagrams |-> k]
  PROVE  \E f : /\ IsRun(f, Len(datagrams), datagrams, admitted, places)
               /\ AfterBatch(datagrams, admitted) = f[1 .. Len(datagrams)]
<1> DEFINE f == CHOOSE h : h = [s \in SUBSET DOMAIN places |->
             IF s = {} THEN Stack
             ELSE Admitted(h[s \ {Max(s)}], datagrams, admitted, places[Max(s)])]
<1>1. AfterBatch(datagrams, admitted)
        = FoldLeft(LAMBDA s, k : Admitted(s, datagrams, admitted, k), Stack, places)
  BY DEF AfterBatch, FoldLeftDomain
<1>2. FoldLeft(LAMBDA s, k : Admitted(s, datagrams, admitted, k), Stack, places)
        = f[DOMAIN places]
  BY Zenon DEF FoldLeft, MapThenFoldSet
<1>3. PICK n \in Nat : n = Len(datagrams) /\ DOMAIN places = 1 .. n
  OBVIOUS
<1>4. PICK g : IsRun(g, n, datagrams, admitted, places)
  BY BatchDefined
<1>5. g = [s \in SUBSET DOMAIN places |->
             IF s = {} THEN Stack
             ELSE Admitted(g[s \ {Max(s)}], datagrams, admitted, places[Max(s)])]
  BY <1>3, <1>4, Zenon DEF IsRun, Through
<1>6. f = [s \in SUBSET DOMAIN places |->
             IF s = {} THEN Stack
             ELSE Admitted(f[s \ {Max(s)}], datagrams, admitted, places[Max(s)])]
  BY <1>5, Zenon
<1> HIDE DEF f
<1>7. IsRun(f, n, datagrams, admitted, places)
  BY <1>3, <1>6, Zenon DEF IsRun, Through
<1>8. AfterBatch(datagrams, admitted) = f[1 .. n]
  BY <1>1, <1>2, <1>3, Zenon
<1>9. QED BY <1>3, <1>7, <1>8, Zenon

\* A batch keeps a stack good: it is good after each datagram.
LEMMA BatchGood ==
  ASSUME NEW datagrams \in Seq(Incoming), NEW admitted, Good(Stack),
         IsTable(got, Seq(Nat)), handled \in Seq(Incoming)
  PROVE  Good(AfterBatch(datagrams, admitted))
<1>1. PICK n \in Nat : n = Len(datagrams)
  OBVIOUS
<1>2. PICK places : places = [k \in DOMAIN datagrams |-> k]
  OBVIOUS
<1>3. DOMAIN datagrams = 1 .. n /\ DOMAIN places = 1 .. n
  BY <1>1, <1>2
<1>4. PICK f : /\ IsRun(f, n, datagrams, admitted, places)
               /\ AfterBatch(datagrams, admitted) = f[1 .. n]
  BY <1>1, <1>2, BatchUnfolds
<1>5. f = [s \in SUBSET (1 .. n) |-> Through(datagrams, admitted, places, f, s)]
  BY <1>4 DEF IsRun
<1>7. f[1 .. 0] = Stack
  <2>1. 1 .. 0 = {} /\ 1 .. 0 \in SUBSET (1 .. n)
    BY <1>1
  <2>2. QED BY <1>5, <2>1 DEF Through
<1>8. ASSUME NEW m \in 1 .. n, Good(f[1 .. m - 1])
      PROVE  Good(f[1 .. m])
  <2>1. m \in Nat /\ m # 0 /\ 1 .. m \in SUBSET (1 .. n)
    BY <1>1
  <2>2. Max(1 .. m) = m /\ (1 .. m) \ {m} = 1 .. m - 1 /\ 1 .. m # {}
    BY <2>1, LargestOfFirst
  <2>3. places[m] = m
    BY <1>2, <1>3
  <2>4. f[1 .. m] = Admitted(f[1 .. m - 1], datagrams, admitted, m)
    <3>1. f[1 .. m] = Through(datagrams, admitted, places, f, 1 .. m)
      BY <1>5, <2>1
    <3>2. QED BY <2>2, <2>3, <3>1 DEF Through
  <2>5. datagrams[m] \in Datagram /\ Len(handled) + m \in Nat
    BY <1>3, EndpointAssumption
  <2>6. Good(StackInput(f[1 .. m - 1], datagrams[m], Len(handled) + m))
    BY <1>8, <2>5, StackInputGood
  <2>7. QED BY <1>8, <2>4, <2>6 DEF Admitted
<1> DEFINE Failing == {m \in Nat : m <= n /\ ~Good(f[1 .. m])}
<1>9. ASSUME Failing # {} PROVE FALSE
  <2>1. Failing \in SUBSET Nat
    OBVIOUS
  <2>2. PICK m \in Failing : \A k \in Failing : m <= k
    <3> HIDE DEF Failing
    <3>1. QED BY <1>9, <2>1, LeastNumber
  <2>3. m \in Nat /\ m <= n /\ ~Good(f[1 .. m])
    OBVIOUS
  <2>4. m # 0
    BY <1>7, <2>3
  <2>5. m - 1 \in Nat /\ m - 1 <= n /\ m - 1 \notin Failing
    BY <1>1, <2>2, <2>3, <2>4
  <2>6. Good(f[1 .. m - 1])
    BY <2>5
  <2>7. m \in 1 .. n
    BY <1>1, <2>3, <2>4
  <2> HIDE DEF Failing
  <2>8. QED BY <1>8, <2>3, <2>6, <2>7
<1>10. Good(f[1 .. n])
  BY <1>1, <1>9
<1>11. QED BY <1>4, <1>10

-----------------------------------------------------------------------------
(* Between two calls, and what a call leaves                               *)

\* The stack as a record is the variables.
LEMMA StackIsVariables ==
  ASSUME NEW s, Sound(s), connections' = s.connections, accepts' = s.accepts,
         nextId' = s.nextId, taken' = s.taken
  PROVE  Sound(Stack)'
<1>1. PICK t : t = Stack'
  OBVIOUS
<1>2. t = [connections |-> s.connections, accepts |-> s.accepts, outbound |-> <<>>,
           nextId |-> s.nextId, taken |-> s.taken]
  BY <1>1 DEF Stack
<1>3. IsStack(s)
  BY DEF Sound
<1>4. IsStack(t) /\ t.connections = s.connections /\ t.nextId = s.nextId /\ t.taken = s.taken
  <2>1. <<>> \in Seq(Identity)
    OBVIOUS
  <2>2. QED BY <1>2, <1>3, <2>1 DEF IsStack
<1>5. Sound(t)
  BY <1>4, FewerStaySound
<1>6. QED BY <1>1, <1>5

LEMMA StackParts ==
  /\ Stack.connections = connections /\ Stack.accepts = accepts /\ Stack.outbound = <<>>
  /\ Stack.nextId = nextId /\ Stack.taken = taken /\ DOMAIN Stack.connections = Live
BY DEF Stack, Live

LEMMA GoodBetweenCalls ==
  ASSUME EndpointInv, ~Busy
  PROVE  Good(Stack)
<1>1. Sound(Stack)
  BY DEF EndpointInv
<1>2. Known(Stack)
  BY StackParts DEF EndpointInv, NoOrphan, Known
<1>3. DOMAIN got \subseteq 1 .. Stack.nextId - 1
  BY StackParts DEF EndpointInv, AppTypes
<1>4. ASSUME Lossless PROVE Complete(Stack)
  <2>1. ASSUME NEW i \in Live PROVE Returned(i) \o connections[i].unread = taken[i]
    <3>1. Reading(i) = <<>>
      BY DEF Reading
    <3>2. PICK r \in Seq(Nat) : r = Returned(i)
      BY ReturnedBytes DEF EndpointInv, AppTypes
    <3>3. r \o <<>> = r
      OBVIOUS
    <3>4. Returned(i) \o Reading(i) \o connections[i].unread = taken[i]
      BY <1>4, <2>1 DEF EndpointInv, Complement
    <3>5. QED BY <3>1, <3>2, <3>3, <3>4
  <2>2. QED BY <2>1, StackParts DEF Complete
<1>5. QED BY <1>1, <1>2, <1>3, <1>4 DEF Good

Kinds == {"connect", "read", "send", "close", "abort", "abort_peer", "poll", "receive"}

\* What Flush says.
LEMMA FlushFields ==
  ASSUME NEW s, IsStack(s), NEW kind \in Kinds, NEW id \in 0 .. MaxCreated,
         NEW bytes \in Seq(Nat), Flush(kind, id, bytes, s)
  PROVE  /\ connections' = s.connections /\ accepts' = s.accepts
         /\ nextId' = s.nextId /\ taken' = s.taken
         /\ call' \in Calls /\ call'.kind = kind /\ call'.id = id /\ call'.bytes = bytes
<1>1. s.outbound \in Seq(Identity)
  BY DEF IsStack
<1>2. PICK c : c = call' /\ c = [kind |-> kind, id |-> id, bytes |-> bytes, sending |-> s.outbound]
  BY DEF Flush
<1>3. c \in Calls /\ c.kind = kind /\ c.id = id /\ c.bytes = bytes
  BY <1>1, <1>2 DEF Calls, Kinds
<1>4. QED BY <1>2, <1>3 DEF Flush

\* A call in progress is not the idle one.
LEMMA CallsAreBusy ==
  ASSUME NEW c \in Calls
  PROVE  c # Idle
<1>1. c.kind # "none"
  BY DEF Calls
<1>2. QED BY <1>1 DEF Idle

\* A call that neither connects nor reads leaves a good stack.
LEMMA FlushKeeps ==
  ASSUME EndpointInv, ~Busy, NEW s, Good(s),
         connections' = s.connections, accepts' = s.accepts,
         nextId' = s.nextId, taken' = s.taken,
         call' \in Calls, call'.kind \notin {"connect", "read"},
         UNCHANGED appVars, InOrder'
  PROVE  EndpointInv'
<1>1. Sound(Stack)'
  BY StackIsVariables DEF Good
<1>2. /\ owned' = owned /\ got' = got /\ abandoned' = abandoned
      /\ failures' = failures /\ cancels' = cancels
  BY DEF appVars
<1>3. AppTypes'
  <2>1. IsTable(got, Seq(Nat))' /\ (DOMAIN got \subseteq 1 .. nextId - 1)'
    BY <1>2 DEF EndpointInv, AppTypes, Good, IsTable
  <2>2. QED BY <1>2, <2>1 DEF EndpointInv, AppTypes
<1>4. NoOrphan'
  BY <1>2 DEF Good, Known, NoOrphan, Live
<1>5. ASSUME Lossless' PROVE Complement'
  <2>1. Complete(s)
    BY <1>2, <1>5 DEF Lossless, Good
  <2>2. ASSUME NEW i \in DOMAIN s.connections
        PROVE  Returned(i)' \o Reading(i)' \o s.connections[i].unread = s.taken[i]
    <3>1. Reading(i)' = <<>>
      BY DEF Reading
    <3>2. PICK r \in Seq(Nat) : r = Returned(i)
      BY ReturnedBytes DEF EndpointInv, AppTypes
    <3>3. r \o <<>> = r
      OBVIOUS
    <3>4. Returned(i)' = r
      BY <1>2, <3>2 DEF Returned
    <3>5. r \o s.connections[i].unread = s.taken[i]
      BY <2>1, <3>2 DEF Complete
    <3>6. QED BY <3>1, <3>3, <3>4, <3>5
  <2>3. QED BY <2>2 DEF Complement, Live
<1>6. QED BY <1>1, <1>3, <1>4, <1>5 DEF EndpointInv

-----------------------------------------------------------------------------
(* The actions                                                             *)

LEMMA InputsStay ==
  ASSUME EndpointInv, UNCHANGED inputVars
  PROVE  InOrder'
BY DEF EndpointInv, InOrder, inputVars

\* The members of a finite set, one place each.
LEMMA PlacesOf ==
  ASSUME NEW S, IsFiniteSet(S)
  PROVE  Cardinality(S) \in Nat /\ SetToSeq(S) \in [1 .. Cardinality(S) -> S]
<1>1. Cardinality(S) \in Nat /\ ExistsBijection(1 .. Cardinality(S), S)
  BY FS_CardinalityType
<1>2. \E f \in [1 .. Cardinality(S) -> S] : IsInjective(f)
  BY <1>1 DEF ExistsBijection, Bijection, Injection
<1>3. QED BY <1>1, <1>2 DEF SetToSeq

\* More segments in the outbound queue change nothing else.
LEMMA QueueGood ==
  ASSUME NEW s, Good(s), NEW q \in Seq(Identity), NEW t, t = [s EXCEPT !.outbound = @ \o q]
  PROVE  Good(t)
<1>1. PICK o : o = s.outbound \o q
  OBVIOUS
<1>2. IsStack(s)
  BY DEF Good, Sound
<1>3. o \in Seq(Identity)
  BY <1>1, <1>2 DEF IsStack
<1>4. t = [connections |-> s.connections, accepts |-> s.accepts, outbound |-> o,
           nextId |-> s.nextId, taken |-> s.taken]
  BY <1>1, <1>2 DEF IsStack
<1>5. /\ IsStack(t) /\ t.connections = s.connections
      /\ t.nextId = s.nextId /\ t.taken = s.taken
  <2>1. /\ t.connections = s.connections /\ t.accepts = s.accepts /\ t.outbound = o
        /\ t.nextId = s.nextId /\ t.taken = s.taken
    BY <1>4
  <2>2. t = [connections |-> t.connections, accepts |-> t.accepts, outbound |-> t.outbound,
             nextId |-> t.nextId, taken |-> t.taken]
    BY <1>4, <2>1
  <2>3. QED BY <1>2, <1>3, <2>1, <2>2 DEF IsStack
<1>6. Sound(t)
  BY <1>5, FewerStaySound DEF Good
<1>7. Known(t) /\ (Lossless => Complete(t))
  BY <1>5 DEF Good, Known, Complete
<1>8. QED BY <1>5, <1>6, <1>7 DEF Good

\* A call of another kind that flushes a good stack.
LEMMA CallKeeps ==
  ASSUME EndpointInv, ~Busy, NEW s, Good(s), NEW kind \in Kinds \ {"connect", "read"},
         NEW id \in 0 .. MaxCreated, Flush(kind, id, <<>>, s),
         UNCHANGED <<appVars, inputVars>>
  PROVE  EndpointInv'
<1>1. IsStack(s)
  BY DEF Good, Sound
<1>2. PICK bytes \in Seq(Nat) : bytes = <<>>
  <2>1. <<>> \in Seq(Nat)
    OBVIOUS
  <2>2. QED BY <2>1, Zenon
<1>3. Flush(kind, id, bytes, s)
  BY <1>2
<1>4. /\ connections' = s.connections /\ accepts' = s.accepts
      /\ nextId' = s.nextId /\ taken' = s.taken
      /\ call' \in Calls /\ call'.kind = kind
  BY <1>1, <1>3, FlushFields
<1>5. QED BY <1>4, InputsStay, FlushKeeps

LEMMA IdsOfCalls ==
  ASSUME EndpointInv
  PROVE  /\ MaxCreated \in Nat /\ 0 \in 0 .. MaxCreated
         /\ \A i \in Live : i \in 0 .. MaxCreated /\ i \in 1 .. nextId - 1
         /\ \A i \in Live : connections[i] \in Entry /\ connections[i].peer \in Identity
         /\ nextId \in 1 .. MaxCreated + 1
<1>1. MaxCreated \in Nat
  BY EndpointAssumption
<1>2. Sound(Stack)
  BY DEF EndpointInv
<1>3. nextId \in 1 .. MaxCreated + 1
  BY <1>2, StackParts DEF Sound, IsStack
<1>4. \A i \in Live : /\ i \in Ids /\ i \in Nat /\ 1 <= i /\ i < nextId
                      /\ connections[i] \in Entry /\ connections[i].peer \in Identity
  BY <1>2, StackParts, LiveEntries
<1>5. QED BY <1>1, <1>3, <1>4 DEF Ids

LEMMA SendKeeps ==
  ASSUME EndpointInv, NEW i \in Live, Send(i)
  PROVE  EndpointInv'
<1>1. PICK k : k = "send"
  OBVIOUS
<1>2. k \in Kinds \ {"connect", "read"} /\ i \in 0 .. MaxCreated /\ connections[i].peer \in Identity
  BY <1>1, IdsOfCalls DEF Kinds
<1>3. PICK s : s = Emit(Stack, connections[i].peer)
  OBVIOUS
<1>4. ~Busy /\ Flush(k, i, <<>>, s) /\ UNCHANGED <<appVars, inputVars>>
  BY <1>1, <1>3 DEF Send
<1>5. Good(s)
  BY <1>2, <1>3, <1>4, GoodBetweenCalls, EmitGood
<1>6. QED BY <1>2, <1>4, <1>5, CallKeeps

LEMMA CloseKeeps ==
  ASSUME EndpointInv, NEW i \in Live, CloseUnfinished(i)
  PROVE  EndpointInv'
<1>1. PICK k : k = "close"
  OBVIOUS
<1>2. k \in Kinds \ {"connect", "read"} /\ i \in 0 .. MaxCreated
  BY <1>1, IdsOfCalls DEF Kinds
<1>3. PICK s : s = Drop(Stack, {i})
  OBVIOUS
<1>4. ~Busy /\ Flush(k, i, <<>>, s) /\ UNCHANGED <<appVars, inputVars>>
  BY <1>1, <1>3 DEF CloseUnfinished
<1>5. Good(s)
  BY <1>3, <1>4, GoodBetweenCalls, DropGood
<1>6. QED BY <1>2, <1>4, <1>5, CallKeeps

LEMMA AbortKeeps ==
  ASSUME EndpointInv, NEW i \in Live, Abort(i)
  PROVE  EndpointInv'
<1>1. PICK k : k = "abort"
  OBVIOUS
<1>2. k \in Kinds \ {"connect", "read"} /\ i \in 0 .. MaxCreated /\ connections[i].peer \in Identity
  BY <1>1, IdsOfCalls DEF Kinds
<1>3. PICK s : s = Emit(Drop(Stack, {i}), connections[i].peer)
  OBVIOUS
<1>4. ~Busy /\ Flush(k, i, <<>>, s) /\ UNCHANGED <<appVars, inputVars>>
  BY <1>1, <1>3 DEF Abort
<1>5. Good(s)
  BY <1>2, <1>3, <1>4, GoodBetweenCalls, DropGood, EmitGood
<1>6. QED BY <1>2, <1>4, <1>5, CallKeeps

LEMMA LiveIsFinite ==
  ASSUME EndpointInv, NEW S \in SUBSET Live
  PROVE  IsFiniteSet(S)
<1>1. IsFiniteSet(Live)
  BY StackParts, OfKeyFinite DEF EndpointInv, Sound
<1>2. QED BY <1>1, FS_Subset

LEMMA AbortPeerKeeps ==
  ASSUME EndpointInv, NEW peer \in Identity, AbortPeer(peer)
  PROVE  EndpointInv'
<1>1. PICK k, id : k = "abort_peer" /\ id = NoId
  OBVIOUS
<1>2. k \in Kinds \ {"connect", "read"} /\ id \in 0 .. MaxCreated
  BY <1>1, IdsOfCalls DEF Kinds, NoId
<1>3. PICK d, s : d = Drop(Stack, Of(peer)) /\ s = [d EXCEPT !.outbound = @ \o Resets(peer)]
  OBVIOUS
<1>4. ~Busy /\ Flush(k, id, <<>>, s) /\ UNCHANGED <<appVars, inputVars>>
  BY <1>1, <1>3 DEF AbortPeer
<1>5. Good(d)
  BY <1>3, <1>4, GoodBetweenCalls, DropGood
<1>6. Resets(peer) \in Seq(Identity)
  <2>1. Of(peer) \in SUBSET Live
    BY DEF Of
  <2>2. Cardinality(Of(peer)) \in Nat
    BY <2>1, LiveIsFinite, FS_CardinalityType
  <2>3. PeerKey(peer) \in Identity
    BY PeersAreIdentities
  <2>4. QED BY <2>2, <2>3 DEF Resets
<1>7. Good(s)
  BY <1>3, <1>5, <1>6, QueueGood
<1>8. QED BY <1>2, <1>4, <1>7, CallKeeps

LEMMA PollKeeps ==
  ASSUME EndpointInv, NEW due \in SUBSET Live, NEW over \in SUBSET Live, Poll(due, over)
  PROVE  EndpointInv'
<1>1. PICK k, id : k = "poll" /\ id = NoId
  OBVIOUS
<1>2. k \in Kinds \ {"connect", "read"} /\ id \in 0 .. MaxCreated
  BY <1>1, IdsOfCalls DEF Kinds, NoId
<1>3. PICK d, s : d = Drop(Stack, over) /\ s = [d EXCEPT !.outbound = @ \o Repeats(due)]
  OBVIOUS
<1>4. ~Busy /\ Flush(k, id, <<>>, s) /\ UNCHANGED <<appVars, inputVars>>
  BY <1>1, <1>3 DEF Poll
<1>5. Good(d)
  BY <1>3, <1>4, GoodBetweenCalls, DropGood
<1>6. Repeats(due) \in Seq(Identity)
  <2>1. Cardinality(due) \in Nat /\ SetToSeq(due) \in [1 .. Cardinality(due) -> due]
    BY LiveIsFinite, PlacesOf
  <2>2. \A j \in 1 .. Cardinality(due) : connections[SetToSeq(due)[j]].peer \in Identity
    BY <2>1, IdsOfCalls
  <2>3. QED BY <2>1, <2>2 DEF Repeats
<1>7. Good(s)
  BY <1>3, <1>5, <1>6, QueueGood
<1>8. QED BY <1>2, <1>4, <1>7, CallKeeps

\* A sequence is its beginning and the rest.
LEMMA CutInTwo ==
  ASSUME NEW S, NEW q \in Seq(S), NEW n \in 0 .. Len(q)
  PROVE  /\ SubSeq(q, 1, n) \in Seq(S) /\ Len(SubSeq(q, 1, n)) = n
         /\ SubSeq(q, n + 1, Len(q)) \in Seq(S)
         /\ q = SubSeq(q, 1, n) \o SubSeq(q, n + 1, Len(q))
<1>1. /\ SubSeq(q, 1, n) \in Seq(S) /\ Len(SubSeq(q, 1, n)) = n
      /\ \A k \in 1 .. n : SubSeq(q, 1, n)[k] = q[k]
  OBVIOUS
<1>2. /\ SubSeq(q, n + 1, Len(q)) \in Seq(S) /\ Len(SubSeq(q, n + 1, Len(q))) = Len(q) - n
      /\ \A k \in 1 .. Len(q) - n : SubSeq(q, n + 1, Len(q))[k] = q[n + k]
  OBVIOUS
<1>3. PICK a, b, l : /\ a = SubSeq(q, 1, n) /\ b = SubSeq(q, n + 1, Len(q)) /\ l = Len(q)
                     /\ a \in Seq(S) /\ Len(a) = n /\ b \in Seq(S) /\ Len(b) = l - n
                     /\ \A k \in 1 .. n : a[k] = q[k]
                     /\ \A k \in 1 .. l - n : b[k] = q[n + k]
  BY <1>1, <1>2
<1>4. l \in Nat /\ n \in Nat /\ n <= l /\ Len(q) = l
  BY <1>3
<1>5. /\ a \o b \in Seq(S) /\ Len(a \o b) = n + (l - n)
      /\ \A k \in 1 .. n + (l - n) : (a \o b)[k] = IF k <= n THEN a[k] ELSE b[k - n]
  <2>1. a \in Seq(S) /\ b \in Seq(S) /\ Len(a) = n /\ Len(b) = l - n
    BY <1>3
  <2>2. /\ a \o b \in Seq(S) /\ Len(a \o b) = Len(a) + Len(b)
        /\ \A k \in 1 .. Len(a) + Len(b) : (a \o b)[k] = IF k <= Len(a) THEN a[k] ELSE b[k - Len(a)]
    BY <2>1, ConcatProperties
  <2>3. QED BY <2>1, <2>2, Zenon
<1>6. n + (l - n) = l
  BY <1>4
<1>7. \A k \in 1 .. l : (a \o b)[k] = q[k]
  <2>1. SUFFICES ASSUME NEW k \in 1 .. l PROVE (a \o b)[k] = q[k]
    OBVIOUS
  <2>2. (a \o b)[k] = IF k <= n THEN a[k] ELSE b[k - n]
    BY <1>5, <1>6
  <2>3. CASE k <= n
    <3>1. a[k] = q[k]
      BY <1>3, <1>4, <2>3
    <3>2. QED BY <2>2, <2>3, <3>1
  <2>4. CASE ~(k <= n)
    <3>1. k - n \in 1 .. l - n /\ n + (k - n) = k
      BY <1>4, <2>4
    <3>2. b[k - n] = q[k]
      BY <1>3, <3>1
    <3>3. QED BY <2>2, <2>4, <3>2
  <2>5. QED BY <2>3, <2>4
<1>8. a \o b = q
  BY <1>4, <1>5, <1>6, <1>7, SeqEqual
<1>9. QED BY <1>1, <1>2, <1>3, <1>8

\* What recv_batch_into takes from FIPS and what stays there.
LEMMA TakenFromReceiver ==
  ASSUME receiver \in Seq(Incoming)
  PROVE  /\ FromReceiver \in Seq(Incoming)
         /\ SubSeq(receiver, Len(FromReceiver) + 1, Len(receiver)) \in Seq(Incoming)
         /\ receiver = FromReceiver \o SubSeq(receiver, Len(FromReceiver) + 1, Len(receiver))
<1>1. PICK n : n = IF Len(receiver) < BatchLimit THEN Len(receiver) ELSE BatchLimit
  OBVIOUS
<1>2. n \in 0 .. Len(receiver)
  BY <1>1, EndpointAssumption
<1>3. FromReceiver = SubSeq(receiver, 1, n)
  BY <1>1 DEF FromReceiver
<1>4. Len(FromReceiver) = n
  BY <1>2, <1>3, CutInTwo
<1>5. QED BY <1>2, <1>3, <1>4, CutInTwo

LEMMA Associative ==
  ASSUME NEW S, NEW a \in Seq(S), NEW b \in Seq(S), NEW c \in Seq(S)
  PROVE  /\ (a \o b) \o c = a \o (b \o c) /\ a \o b \in Seq(S)
         /\ a \o <<>> = a /\ <<>> \o a = a
OBVIOUS

\* Nothing but the queues of datagrams changes.
LEMMA OnlyInputs ==
  ASSUME EndpointInv, UNCHANGED <<stackVars, call, appVars>>, InOrder'
  PROVE  EndpointInv'
<1>1. /\ connections' = connections /\ accepts' = accepts /\ nextId' = nextId
      /\ taken' = taken /\ call' = call /\ owned' = owned /\ got' = got
      /\ abandoned' = abandoned /\ failures' = failures /\ cancels' = cancels
  BY DEF stackVars, appVars
<1>2. Sound(Stack)'
  BY <1>1, StackParts, StackIsVariables DEF EndpointInv
<1>3. AppTypes'
  BY <1>1 DEF EndpointInv, AppTypes, IsTable, Busy
<1>4. NoOrphan'
  BY <1>1 DEF EndpointInv, NoOrphan, Live, Busy
<1>5. Lossless' => Complement'
  BY <1>1 DEF EndpointInv, Lossless, Complement, Live, Returned, Reading, Busy
<1>6. QED BY <1>2, <1>3, <1>4, <1>5 DEF EndpointInv

LEMMA ArriveKeeps ==
  ASSUME EndpointInv, NEW d \in Incoming, Arrive(d)
  PROVE  EndpointInv'
<1>1. InOrder'
  <2>1. PICK h, b, r : /\ h = handled /\ b = batch /\ r = receiver
                       /\ h \in Seq(Incoming) /\ b \in Seq(Incoming) /\ r \in Seq(Incoming)
    BY DEF EndpointInv, InOrder
  <2>2. arrived = (h \o b) \o r
    BY <2>1 DEF EndpointInv, InOrder
  <2>3. h \o b \in Seq(Incoming)
    BY <2>1
  <2>4. PICK hb \in Seq(Incoming) : hb = h \o b
    BY <2>3
  <2>5. Append(hb \o r, d) = hb \o Append(r, d) /\ hb \o r \in Seq(Incoming)
        /\ Append(r, d) \in Seq(Incoming) /\ Append(hb \o r, d) \in Seq(Incoming)
    <3>1. /\ hb \o r \in Seq(Incoming) /\ Append(r, d) \in Seq(Incoming)
          /\ Append(hb \o r, d) \in Seq(Incoming)
      BY <2>1
    <3>2. Append(r, d) = r \o <<d>> /\ Append(hb \o r, d) = (hb \o r) \o <<d>>
          /\ <<d>> \in Seq(Incoming)
      <4>1. r \in Seq(Incoming) /\ hb \o r \in Seq(Incoming) /\ d \in Incoming
        BY <2>1, <3>1
      <4>2. Append(r, d) = r \o <<d>>
        BY <4>1, AppendIsConcat
      <4>3. Append(hb \o r, d) = (hb \o r) \o <<d>>
        BY <4>1, AppendIsConcat
      <4>4. <<d>> \in Seq(Incoming)
        BY <4>1
      <4>5. QED BY <4>2, <4>3, <4>4
    <3>3. (hb \o r) \o <<d>> = hb \o (r \o <<d>>)
      BY <2>1, <3>2, ConcatAssociative
    <3>4. QED BY <3>1, <3>2, <3>3
  <2>6. QED BY <2>1, <2>2, <2>4, <2>5 DEF Arrive, InOrder
<1>2. UNCHANGED <<stackVars, call, appVars>>
  BY DEF Arrive
<1>3. QED BY <1>1, <1>2, OnlyInputs

LEMMA WaitKeeps ==
  ASSUME EndpointInv, WaitForInput
  PROVE  EndpointInv'
<1>1. InOrder'
  <2>1. InOrder /\ arrived' = arrived /\ handled' = handled /\ Wait
    BY DEF EndpointInv, WaitForInput
  <2>2. CASE batch # <<>>
    BY <2>1, <2>2 DEF Wait, InOrder
  <2>3. CASE batch = <<>>
    <3>1. PICK h, r, f, q : /\ h = handled /\ r = receiver /\ f = FromReceiver
                            /\ q = SubSeq(receiver, Len(FromReceiver) + 1, Len(receiver))
      OBVIOUS
    <3>2. /\ h \in Seq(Incoming) /\ r \in Seq(Incoming) /\ f \in Seq(Incoming)
          /\ q \in Seq(Incoming) /\ r = f \o q
      BY <2>1, <3>1, TakenFromReceiver DEF InOrder
    <3>3. arrived = h \o r
      BY <2>1, <2>3, <3>1, <3>2, Associative DEF InOrder
    <3>4. arrived = (h \o f) \o q
      BY <3>2, <3>3, Associative
    <3>5. batch' = f /\ receiver' = q
      BY <2>1, <2>3, <3>1 DEF Wait
    <3>6. QED BY <2>1, <3>1, <3>2, <3>4, <3>5 DEF InOrder
  <2>4. QED BY <2>2, <2>3
<1>2. UNCHANGED <<stackVars, call, appVars>>
  BY DEF WaitForInput
<1>3. QED BY <1>1, <1>2, OnlyInputs

LEMMA ReceiveKeeps ==
  ASSUME EndpointInv, NEW admitted, Receive(admitted)
  PROVE  EndpointInv'
<1>1. PICK g : g = IF batch # <<>> THEN batch ELSE FromReceiver
  OBVIOUS
<1>2. PICK k, id, s : k = "receive" /\ id = NoId /\ s = AfterBatch(g, admitted)
  OBVIOUS
<1>3. /\ ~Busy /\ batch' = <<>> /\ handled' = handled \o g
      /\ receiver' = IF batch # <<>> THEN receiver
                     ELSE SubSeq(receiver, Len(g) + 1, Len(receiver))
      /\ Flush(k, id, <<>>, s) /\ UNCHANGED <<appVars, arrived>>
  BY <1>1, <1>2 DEF Receive
<1>4. InOrder
  BY DEF EndpointInv
<1>5. g \in Seq(Incoming)
  BY <1>1, <1>4, TakenFromReceiver DEF InOrder
<1>6. InOrder'
  <2>1. PICK h, r : /\ h = handled /\ r = receiver /\ h \in Seq(Incoming)
                    /\ r \in Seq(Incoming)
    BY <1>4 DEF InOrder
  <2>2. PICK q : q = IF batch # <<>> THEN r ELSE SubSeq(r, Len(g) + 1, Len(r))
    OBVIOUS
  <2>3. q \in Seq(Incoming) /\ arrived = (h \o g) \o q
    <3>1. CASE batch # <<>>
      BY <1>1, <1>4, <2>1, <2>2, <3>1 DEF InOrder
    <3>2. CASE batch = <<>>
      <4>1. g = FromReceiver
        BY <1>1, <3>2
      <4>2. q \in Seq(Incoming) /\ r = g \o q
        BY <2>1, <2>2, <3>2, <4>1, TakenFromReceiver
      <4>3. arrived = h \o r
        BY <1>4, <2>1, <3>2, Associative DEF InOrder
      <4>4. QED BY <1>5, <2>1, <4>2, <4>3, Associative
    <3>3. QED BY <3>1, <3>2
  <2>4. arrived' = arrived /\ handled' = h \o g /\ receiver' = q /\ batch' = <<>>
    BY <1>3, <2>1, <2>2
  <2>5. h \o g \in Seq(Incoming) /\ (h \o g) \o <<>> = h \o g
    BY <1>5, <2>1, Associative
  <2>6. <<>> \in Seq(Incoming) /\ arrived \in Seq(Incoming)
    BY <1>4 DEF InOrder
  <2>7. QED BY <2>3, <2>4, <2>5, <2>6 DEF InOrder
<1>7. Good(s)
  <2>1. Good(Stack) /\ IsTable(got, Seq(Nat)) /\ handled \in Seq(Incoming)
    BY <1>3, <1>4, GoodBetweenCalls DEF EndpointInv, AppTypes, InOrder
  <2>2. QED BY <1>2, <1>5, <2>1, BatchGood
<1>8. k \in Kinds /\ k \notin {"connect", "read"} /\ id \in 0 .. MaxCreated
  BY <1>2, IdsOfCalls DEF Kinds, NoId
<1>9. PICK bytes \in Seq(Nat) : bytes = <<>>
  <2>1. <<>> \in Seq(Nat)
    OBVIOUS
  <2>2. QED BY <2>1, Zenon
<1>10. Flush(k, id, bytes, s) /\ IsStack(s)
  BY <1>3, <1>7, <1>9 DEF Good, Sound
<1>11. /\ connections' = s.connections /\ accepts' = s.accepts
       /\ nextId' = s.nextId /\ taken' = s.taken
       /\ call' \in Calls /\ call'.kind = k
  BY <1>8, <1>10, FlushFields
<1>12. QED BY <1>3, <1>6, <1>7, <1>8, <1>11, FlushKeeps

\* Where SelectInSeq looks: at a place of the queue, or nowhere.
LEMMA FirstLive ==
  ASSUME NEW q \in Seq(Ids)
  PROVE  SelectInSeq(q, LAMBDA i : i \in Live) \in 0 .. Len(q)
<1>1. PICK I : I = {k \in 1 .. Len(q) : q[k] \in Live}
  OBVIOUS
<1>2. SelectInSeq(q, LAMBDA i : i \in Live) = IF I # {} THEN Min(I) ELSE 0
  BY <1>1, Zenon DEF SelectInSeq
<1>3. CASE I = {}
  BY <1>2, <1>3
<1>4. CASE I # {}
  <2>1. I \in SUBSET Nat
    BY <1>1
  <2>2. \E m \in I : \A k \in I : m <= k
    BY <1>4, <2>1, LeastNumber
  <2>3. Min(I) \in I
    BY <2>2 DEF Min
  <2>4. Min(I) \in 1 .. Len(q)
    BY <1>1, <2>3
  <2>5. QED BY <1>2, <1>4, <2>4
<1>5. QED BY <1>3, <1>4

\* Calls change neither peers nor ids nor what was taken in: what is left to show.
LEMMA QuietStep ==
  ASSUME EndpointInv, NEW s, Sound(s), connections' = s.connections, accepts' = s.accepts,
         nextId' = s.nextId, taken' = s.taken, UNCHANGED inputVars,
         AppTypes', NoOrphan', Lossless' => Complement'
  PROVE  EndpointInv'
BY StackIsVariables, InputsStay DEF EndpointInv

LEMMA AcceptKeeps ==
  ASSUME EndpointInv, Accept
  PROVE  EndpointInv'
<1>1. PICK first : first = SelectInSeq(accepts, LAMBDA i : i \in Live)
  OBVIOUS
<1>2. Sound(Stack) /\ accepts \in Seq(Ids)
  BY StackParts DEF EndpointInv, Sound, IsStack
<1>3. first \in 0 .. Len(accepts)
  BY <1>1, <1>2, FirstLive
<1>4. /\ owned' = (IF first = 0 THEN owned ELSE owned \cup {accepts[first]})
      /\ accepts' = (IF first = 0 THEN <<>> ELSE SubSeq(accepts, first + 1, Len(accepts)))
      /\ UNCHANGED <<connections, nextId, taken, call, got, abandoned, failures, cancels>>
      /\ UNCHANGED inputVars
  BY <1>1 DEF Accept
<1>5. accepts' \in Seq(Ids) /\ owned' \subseteq Ids /\ owned \subseteq owned'
  <2>1. owned \subseteq Ids
    BY DEF EndpointInv, AppTypes
  <2>2. CASE first = 0
    BY <1>4, <2>1, <2>2
  <2>3. CASE first # 0
    <3>1. accepts[first] \in Ids
      BY <1>2, <1>3, <2>3
    <3>2. SubSeq(accepts, first + 1, Len(accepts)) \in Seq(Ids)
      BY <1>2, <1>3, CutInTwo
    <3>3. QED BY <1>4, <2>1, <2>3, <3>1, <3>2
  <2>4. QED BY <2>2, <2>3
<1>6. PICK a, t : a = accepts' /\ t = [Stack EXCEPT !.accepts = a]
  OBVIOUS
<1>7. t = [connections |-> connections, accepts |-> a, outbound |-> <<>>,
           nextId |-> nextId, taken |-> taken]
  BY <1>6 DEF Stack
<1>8. /\ IsStack(t) /\ t.connections = Stack.connections
      /\ t.nextId = Stack.nextId /\ t.taken = Stack.taken /\ t.accepts = a
  <2>1. IsStack(Stack) /\ <<>> \in Seq(Identity)
    BY <1>2 DEF Sound
  <2>2. QED BY <1>5, <1>6, <1>7, <2>1, StackParts DEF IsStack
<1>9. Sound(t)
  BY <1>2, <1>8, FewerStaySound
<1>10. AppTypes'
  BY <1>4, <1>5 DEF EndpointInv, AppTypes, IsTable, Busy
<1>11. NoOrphan'
  BY <1>4, <1>5 DEF EndpointInv, NoOrphan, Live, Busy
<1>12. Lossless' => Complement'
  BY <1>4 DEF EndpointInv, Lossless, Complement, Live, Returned, Reading, Busy
<1>13. QED BY <1>4, <1>6, <1>8, <1>9, <1>10, <1>11, <1>12, StackParts, QuietStep

LEMMA ConnectKeeps ==
  ASSUME EndpointInv, NEW peer \in Identity, Connect(peer)
  PROVE  EndpointInv'
<1>1. PICK k, o, p, n, t : /\ k = "connect" /\ o = "active" /\ p = "SynSent" /\ n = nextId
                           /\ t = Create(Stack, peer, o, p)
  OBVIOUS
<1>2. PICK bytes \in Seq(Nat) : bytes = <<>>
  <2>1. <<>> \in Seq(Nat)
    OBVIOUS
  <2>2. QED BY <2>1, Zenon
<1>3. /\ ~Busy /\ Admits(Stack, peer) /\ n <= MaxCreated /\ Flush(k, n, bytes, t)
      /\ UNCHANGED <<appVars, inputVars>>
  BY <1>1, <1>2 DEF Connect
<1>4. /\ k \in Kinds /\ o \in Origin /\ p \in Phase /\ Sound(Stack)
      /\ Stack.nextId <= MaxCreated
  BY <1>1, <1>3, StackParts DEF Kinds, Origin, Phase, EndpointInv
<1>5. LET c == Create(Stack, peer, o, p) IN
      /\ Sound(c) /\ c.nextId = Stack.nextId + 1 /\ Stack.nextId \in 1 .. MaxCreated
      /\ DOMAIN c.connections = DOMAIN Stack.connections \cup {Stack.nextId}
      /\ \A i \in DOMAIN Stack.connections :
           c.connections[i] = Stack.connections[i] /\ c.taken[i] = Stack.taken[i]
      /\ c.connections[Stack.nextId] = [peer |-> PeerKey(peer), origin |-> o, phase |-> p,
                                        unread |-> <<>>]
      /\ c.taken[Stack.nextId] = <<>>
  BY <1>3, <1>4, CreateSound
<1>6. /\ Sound(t) /\ t.nextId = n + 1 /\ n \in 1 .. MaxCreated
      /\ DOMAIN t.connections = Live \cup {n}
      /\ \A i \in Live : t.connections[i] = connections[i] /\ t.taken[i] = taken[i]
      /\ t.connections[n] = [peer |-> PeerKey(peer), origin |-> o, phase |-> p,
                             unread |-> <<>>]
      /\ t.taken[n] = <<>>
  BY <1>1, <1>5, StackParts, Zenon
<1>7. t.connections[n].unread = <<>>
  BY <1>6
<1>8. n \in 0 .. MaxCreated /\ n \in 1 .. (n + 1) - 1 /\ n \in Nat
  BY <1>6, IdsOfCalls
<1>9. /\ connections' = t.connections /\ accepts' = t.accepts
      /\ nextId' = t.nextId /\ taken' = t.taken
      /\ call' \in Calls /\ call'.kind = k /\ call'.id = n
  <2>1. IsStack(t)
    BY <1>6 DEF Sound
  <2>2. QED BY <1>3, <1>4, <1>8, <2>1, FlushFields
<1>10. /\ owned' = owned /\ got' = got /\ abandoned' = abandoned
       /\ failures' = failures /\ cancels' = cancels
  BY <1>3 DEF appVars
<1>11. DOMAIN got \subseteq 1 .. n - 1 /\ IsTable(got, Seq(Nat))
  BY <1>1 DEF EndpointInv, AppTypes
<1>12. AppTypes'
  <2>1. DOMAIN got \subseteq 1 .. (n + 1) - 1
    BY <1>8, <1>11
  <2>2. IsTable(got, Seq(Nat))' /\ (DOMAIN got \subseteq 1 .. nextId - 1)'
    BY <1>6, <1>9, <1>10, <1>11, <2>1 DEF IsTable
  <2>3. call'.id \in 1 .. nextId' - 1
    BY <1>6, <1>8, <1>9
  <2>4. QED BY <1>9, <1>10, <2>2, <2>3 DEF EndpointInv, AppTypes
<1>13. NoOrphan'
  <2>1. Busy'
    BY <1>9, CallsAreBusy DEF Busy
  <2>2. SUFFICES ASSUME NEW i \in Live', (connections[i].origin = "active")'
                 PROVE  (\/ i \in owned \cup abandoned
                         \/ Busy /\ call.kind = "connect" /\ call.id = i)'
    BY DEF NoOrphan
  <2>3. CASE i = n
    BY <1>1, <1>9, <2>1, <2>3
  <2>4. CASE i # n
    <3>1. i \in Live /\ connections[i].origin = "active"
      BY <1>6, <1>9, <2>2, <2>4 DEF Live
    <3>2. i \in owned \cup abandoned
      BY <1>3, <3>1 DEF EndpointInv, NoOrphan
    <3>3. QED BY <1>10, <3>2
  <2>5. QED BY <2>3, <2>4
<1>14. ASSUME Lossless' PROVE Complement'
  <2>1. Complement
    BY <1>10, <1>14 DEF EndpointInv, Lossless
  <2>2. \A i : Reading(i) = <<>> /\ Reading(i)' = <<>> /\ Returned(i)' = Returned(i)
    BY <1>1, <1>3, <1>9, <1>10 DEF Reading, Returned
  <2>3. ASSUME NEW i \in Live'
        PROVE  (Returned(i) \o Reading(i) \o connections[i].unread = taken[i])'
    <3>1. CASE i = n
      <4>1. n \notin DOMAIN got
        BY <1>8, <1>11
      <4>2. Returned(n) = <<>>
        BY <4>1 DEF Returned
      <4>3. PICK e \in Seq(Nat) : e = <<>> /\ e \o e = e
        <5>1. bytes \o <<>> = bytes
          BY Associative
        <5>2. QED BY <1>2, <5>1, Zenon
      <4>4. /\ Returned(i)' = e /\ Reading(i)' = e /\ connections'[i].unread = e
            /\ taken'[i] = e
        BY <1>6, <1>7, <1>9, <2>2, <3>1, <4>2, <4>3
      <4>5. QED BY <4>3, <4>4
    <3>2. CASE i # n
      <4>1. i \in Live /\ connections'[i] = connections[i] /\ taken'[i] = taken[i]
        BY <1>6, <1>9, <2>3, <3>2 DEF Live
      <4>2. Returned(i) \o Reading(i) \o connections[i].unread = taken[i]
        BY <2>1, <4>1 DEF Complement
      <4>3. QED BY <2>2, <4>1, <4>2
    <3>3. QED BY <3>1, <3>2
  <2>4. QED BY <2>3 DEF Complement
<1>15. QED BY <1>3, <1>6, <1>9, <1>12, <1>13, <1>14, QuietStep

\* A read moves the beginning of what is unread into the call.
LEMMA ReadKeeps ==
  ASSUME EndpointInv, NEW i \in Live, NEW max \in 1 .. 2, NEW opens \in BOOLEAN,
         Read(i, max, opens)
  PROVE  EndpointInv'
<1>1. PICK k, u, n : /\ k = "read" /\ u = connections[i].unread
                     /\ n = IF max < Len(u) THEN max ELSE Len(u)
  OBVIOUS
<1>2. PICK bytes, rest, s, t : /\ bytes = SubSeq(u, 1, n) /\ rest = SubSeq(u, n + 1, Len(u))
                               /\ s = [Stack EXCEPT !.connections[i].unread = rest]
                               /\ t = IF opens THEN Emit(s, connections[i].peer) ELSE s
  OBVIOUS
<1>3. /\ ~Busy /\ Flush(k, i, bytes, t) /\ UNCHANGED <<appVars, inputVars>>
  <2>1. s = [Stack EXCEPT !.connections[i].unread = SubSeq(@, n + 1, Len(@))]
    BY <1>1, <1>2, StackParts
  <2>2. QED BY <1>1, <1>2, <2>1 DEF Read
<1>4. /\ connections[i] \in Entry /\ connections[i].peer \in Identity
      /\ u \in Seq(Nat) /\ i \in 0 .. MaxCreated /\ i \in 1 .. nextId - 1
  BY <1>1, IdsOfCalls DEF Entry
<1>5. /\ bytes \in Seq(Nat) /\ rest \in Seq(Nat) /\ u = bytes \o rest
  <2>1. n \in 0 .. Len(u)
    BY <1>1, <1>4
  <2>2. QED BY <1>2, <1>4, <2>1, CutInTwo
<1>6. PICK e, c : e = [connections[i] EXCEPT !.unread = rest] /\ c = [connections EXCEPT ![i] = e]
  OBVIOUS
<1>7. /\ e \in Entry /\ e.peer = connections[i].peer
      /\ e.origin = connections[i].origin /\ e.unread = rest
  BY <1>4, <1>5, <1>6 DEF Entry
<1>8. Sound(Stack) /\ IsStack(Stack)
  BY DEF EndpointInv, Sound
<1>9. /\ DOMAIN c = Live /\ c = [j \in DOMAIN c |-> c[j]]
      /\ \A j \in DOMAIN c : c[j] = IF j = i THEN e ELSE connections[j]
  BY <1>6, <1>8, StackFields, StackParts
<1>10. s = [connections |-> c, accepts |-> accepts, outbound |-> <<>>,
            nextId |-> nextId, taken |-> taken]
  BY <1>2, <1>6 DEF Stack
<1>11. IsTable(c, Entry)
  <2>1. \A j \in Live : j \in Ids /\ connections[j] \in Entry
    BY <1>8, StackFields, StackParts
  <2>2. QED BY <1>7, <1>9, <2>1 DEF IsTable
<1>12. /\ IsStack(s) /\ s.connections = c /\ s.nextId = nextId /\ s.taken = taken
       /\ s.accepts = accepts
  BY <1>8, <1>10, <1>11, StackParts DEF IsStack
<1>13. Sound(s)
  BY <1>7, <1>8, <1>9, <1>12, StackParts, FewerStaySound
<1>14. /\ IsStack(t) /\ t.connections = c /\ t.nextId = nextId /\ t.taken = taken
       /\ t.accepts = accepts
  <2>1. CASE opens
    BY <1>2, <1>4, <1>12, <2>1, EmitStack
  <2>2. CASE ~opens
    BY <1>2, <1>12, <2>2
  <2>3. QED BY <2>1, <2>2
<1>15. Sound(t)
  BY <1>12, <1>13, <1>14, FewerStaySound
<1>16. k \in Kinds
  BY <1>1 DEF Kinds
<1>17. /\ connections' = c /\ accepts' = accepts /\ nextId' = nextId /\ taken' = taken
       /\ call' \in Calls /\ call'.kind = k /\ call'.id = i /\ call'.bytes = bytes
  BY <1>3, <1>4, <1>5, <1>14, <1>16, FlushFields
<1>18. /\ owned' = owned /\ got' = got /\ abandoned' = abandoned
       /\ failures' = failures /\ cancels' = cancels
  BY <1>3 DEF appVars
<1>19. AppTypes'
  BY <1>4, <1>17, <1>18 DEF EndpointInv, AppTypes, IsTable
<1>20. NoOrphan'
  BY <1>3, <1>7, <1>9, <1>17, <1>18 DEF EndpointInv, NoOrphan, Live
<1>21. ASSUME Lossless' PROVE Complement'
  <2>1. Complement
    BY <1>18, <1>21 DEF EndpointInv, Lossless
  <2>2. Busy'
    BY <1>17, CallsAreBusy DEF Busy
  <2>3. ASSUME NEW j \in Live
        PROVE  (Returned(j) \o Reading(j) \o connections[j].unread = taken[j])'
    <3>1. Returned(j) \o Reading(j) \o connections[j].unread = taken[j]
      BY <2>1 DEF Complement
    <3>2. Reading(j) = <<>> /\ Returned(j)' = Returned(j) /\ taken'[j] = taken[j]
      BY <1>3, <1>17, <1>18 DEF Reading, Returned
    <3>3. CASE j = i
      <4>1. Reading(i)' = bytes
        BY <1>1, <1>17, <2>2 DEF Reading
      <4>2. PICK r \in Seq(Nat) : r = Returned(i)
        BY ReturnedBytes DEF EndpointInv, AppTypes
      <4>3. r \o <<>> = r
        OBVIOUS
      <4>4. r \o (bytes \o rest) = taken[i]
        BY <1>1, <1>5, <3>1, <3>2, <3>3, <4>2, <4>3
      <4>5. (r \o bytes) \o rest = taken[i]
        <5>1. bytes \in Seq(Nat) /\ rest \in Seq(Nat)
          BY <1>5
        <5>2. (r \o bytes) \o rest = r \o (bytes \o rest)
          BY <5>1, Associative
        <5>3. QED BY <4>4, <5>2, Zenon
      <4>6. connections'[i].unread = rest
        BY <1>7, <1>9, <1>17
      <4>7. QED BY <3>2, <3>3, <4>1, <4>2, <4>5, <4>6
    <3>4. CASE j # i
      <4>1. Reading(j)' = <<>>
        BY <1>17, <3>4 DEF Reading
      <4>2. connections'[j] = connections[j]
        BY <1>9, <1>17, <3>4
      <4>3. QED BY <3>1, <3>2, <4>1, <4>2
    <3>5. QED BY <3>3, <3>4
  <2>4. QED BY <1>9, <1>17, <2>3 DEF Complement, Live
<1>22. QED BY <1>3, <1>14, <1>15, <1>17, <1>19, <1>20, <1>21, QuietStep

LEMMA SendOneKeeps ==
  ASSUME EndpointInv, SendOne
  PROVE  EndpointInv'
<1>1. /\ Busy /\ call.sending # <<>> /\ call' = [call EXCEPT !.sending = Tail(@)]
      /\ UNCHANGED <<connections, accepts, nextId, taken>>
      /\ UNCHANGED <<owned, got, abandoned, failures, cancels>> /\ UNCHANGED inputVars
  BY DEF SendOne, stackVars, appVars
<1>2. call \in Calls
  BY <1>1 DEF EndpointInv, AppTypes, Busy
<1>3. PICK q : q = Tail(call.sending) /\ q \in Seq(Identity)
  <2>1. call.sending \in Seq(Identity) /\ call.sending # <<>>
    BY <1>1, <1>2 DEF Calls
  <2>2. Tail(call.sending) \in Seq(Identity)
    BY <2>1
  <2>3. QED BY <2>2
<1>4. /\ call' \in Calls /\ call'.kind = call.kind /\ call'.id = call.id
      /\ call'.bytes = call.bytes
  BY <1>1, <1>2, <1>3 DEF Calls
<1>5. Busy'
  BY <1>4, CallsAreBusy DEF Busy
<1>6. AppTypes'
  BY <1>1, <1>4 DEF EndpointInv, AppTypes, IsTable
<1>7. NoOrphan'
  BY <1>1, <1>4, <1>5 DEF EndpointInv, NoOrphan, Live
<1>8. Lossless' => Complement'
  BY <1>1, <1>4, <1>5 DEF EndpointInv, Lossless, Complement, Live, Returned, Reading
<1>9. Sound(Stack)
  BY DEF EndpointInv
<1>10. QED BY <1>1, <1>6, <1>7, <1>8, <1>9, StackParts, QuietStep

\* A call that returns hands over its id or its bytes.
LEMMA ReturnKeeps ==
  ASSUME EndpointInv, Return
  PROVE  EndpointInv'
<1>1. /\ Busy /\ call' = Idle
      /\ owned' = (IF call.kind = "connect" THEN owned \cup {call.id} ELSE owned)
      /\ got' = (IF call.kind = "read"
                 THEN With(got, call.id, Returned(call.id) \o call.bytes) ELSE got)
      /\ UNCHANGED <<connections, accepts, nextId, taken>>
      /\ UNCHANGED <<abandoned, failures, cancels>> /\ UNCHANGED inputVars
  BY DEF Return, stackVars
<1>2. call \in Calls /\ call.bytes \in Seq(Nat)
  BY <1>1 DEF EndpointInv, AppTypes, Busy, Calls
<1>3. ~Busy'
  BY <1>1 DEF Busy
<1>4. call.kind \in {"connect", "read"} => call.id \in 1 .. nextId - 1 /\ call.id \in Ids
  BY <1>1, IdsOfCalls DEF EndpointInv, AppTypes, Ids
<1>5. IsTable(got, Seq(Nat)) /\ DOMAIN got \subseteq 1 .. nextId - 1
  BY DEF EndpointInv, AppTypes
<1>6. IsTable(got', Seq(Nat)) /\ DOMAIN got' \subseteq 1 .. nextId - 1
  <2>1. CASE call.kind # "read"
    BY <1>1, <1>5, <2>1
  <2>2. CASE call.kind = "read"
    <3>0. Returned(call.id) \in Seq(Nat) /\ Returned(call.id) \o call.bytes \in Seq(Nat)
      BY <1>2, <1>5, ReturnedBytes, Associative
    <3>1. PICK v \in Seq(Nat) : v = Returned(call.id) \o call.bytes
      BY <3>0, Zenon
    <3>2. got' = [j \in DOMAIN got \cup {call.id} |-> IF j = call.id THEN v ELSE got[j]]
      BY <1>1, <2>2, <3>1 DEF With
    <3>3. \A j \in DOMAIN got : j \in Ids /\ got[j] \in Seq(Nat)
      BY <1>5 DEF IsTable
    <3>4. QED BY <1>4, <1>5, <2>2, <3>2, <3>3 DEF IsTable
  <2>3. QED BY <2>1, <2>2
<1>7. AppTypes'
  <2>1. owned' \subseteq Ids
    BY <1>1, <1>4 DEF EndpointInv, AppTypes
  <2>2. IsTable(got, Seq(Nat))' /\ (DOMAIN got \subseteq 1 .. nextId - 1)'
    BY <1>1, <1>6 DEF IsTable
  <2>3. QED BY <1>1, <1>3, <2>1, <2>2 DEF EndpointInv, AppTypes
<1>8. NoOrphan'
  BY <1>1 DEF EndpointInv, NoOrphan, Live
<1>9. ASSUME Lossless' PROVE Complement'
  <2>1. Complement
    BY <1>1, <1>9 DEF EndpointInv, Lossless
  <2>2. ASSUME NEW j \in Live
        PROVE  (Returned(j) \o Reading(j) \o connections[j].unread = taken[j])'
    <3>1. Returned(j) \o Reading(j) \o connections[j].unread = taken[j]
      BY <2>1 DEF Complement
    <3>2. Reading(j)' = <<>>
      BY <1>3 DEF Reading
    <3>3. PICK r \in Seq(Nat) : r = Returned(j)
      BY <1>5, ReturnedBytes
    <3>4. r \o <<>> = r
      OBVIOUS
    <3>5. CASE call.kind = "read" /\ call.id = j
      <4>0. r \o call.bytes \in Seq(Nat)
        BY <1>2, <3>3, Associative
      <4>1. PICK v \in Seq(Nat) : v = r \o call.bytes
        BY <4>0, Zenon
      <4>2. got' = [k \in DOMAIN got \cup {j} |-> IF k = j THEN v ELSE got[k]]
        BY <1>1, <3>3, <3>5, <4>1 DEF With
      <4>3. Returned(j)' = v
        BY <4>2 DEF Returned
      <4>4. Reading(j) = call.bytes
        BY <1>1, <3>5 DEF Reading
      <4>5. v \o <<>> = v
        OBVIOUS
      <4>6. QED BY <1>1, <3>1, <3>2, <3>3, <4>1, <4>3, <4>4, <4>5
    <3>6. CASE ~(call.kind = "read" /\ call.id = j)
      <4>1. Reading(j) = <<>>
        BY <3>6 DEF Reading
      <4>2. Returned(j)' = Returned(j)
        <5>1. CASE call.kind # "read"
          BY <1>1, <5>1 DEF Returned
        <5>2. CASE call.kind = "read" /\ call.id # j
          BY <1>1, <5>2 DEF Returned, With
        <5>3. QED BY <3>6, <5>1, <5>2
      <4>3. QED BY <1>1, <3>1, <3>2, <4>1, <4>2
    <3>7. QED BY <3>5, <3>6
  <2>3. QED BY <1>1, <2>2 DEF Complement, Live
<1>10. Sound(Stack)
  BY DEF EndpointInv
<1>11. QED BY <1>1, <1>7, <1>8, <1>9, <1>10, StackParts, QuietStep

\* A send that fails takes back the connection of a connect.
LEMMA SendFailsKeeps ==
  ASSUME EndpointInv, SendFails
  PROVE  EndpointInv'
<1>1. /\ Busy /\ call' = Idle /\ failures' = failures + 1 /\ connections' = Rollback
      /\ UNCHANGED <<accepts, nextId, taken, owned, got, abandoned, cancels>>
      /\ UNCHANGED inputVars
  BY DEF SendFails
<1>2. failures \in Nat /\ failures' \in Nat /\ ~Lossless'
  BY <1>1 DEF EndpointInv, AppTypes, Lossless
<1>3. Sound(Stack) /\ IsStack(Stack)
  BY DEF EndpointInv, Sound
<1>4. AppTypes'
  BY <1>1, <1>2 DEF EndpointInv, AppTypes, IsTable, Busy
<1>5. CASE call.kind = "connect"
  <2>1. PICK d : d = Drop(Stack, {call.id})
    OBVIOUS
  <2>2. /\ IsStack(d) /\ d.accepts = accepts /\ d.nextId = nextId /\ d.taken = taken
        /\ DOMAIN d.connections = Live \ {call.id}
        /\ \A i \in DOMAIN d.connections : d.connections[i] = connections[i]
    <3>1. LET t == Drop(Stack, {call.id}) IN
          /\ IsStack(t) /\ t.accepts = Stack.accepts /\ t.outbound = Stack.outbound
          /\ t.nextId = Stack.nextId /\ t.taken = Stack.taken
          /\ DOMAIN t.connections = DOMAIN Stack.connections \ {call.id}
          /\ \A i \in DOMAIN t.connections : t.connections[i] = Stack.connections[i]
      BY <1>3, DropStack
    <3>2. QED BY <2>1, <3>1, StackParts
  <2>3. connections' = d.connections
    BY <1>1, <1>5, <2>1 DEF Rollback
  <2>4. Sound(d)
    BY <1>3, <2>2, StackParts, FewerStaySound
  <2>5. NoOrphan'
    BY <1>1, <1>5, <2>2, <2>3 DEF EndpointInv, NoOrphan, Live
  <2>6. QED BY <1>1, <1>2, <1>4, <2>2, <2>3, <2>4, <2>5, QuietStep
<1>6. CASE call.kind # "connect"
  <2>1. connections' = connections
    BY <1>1, <1>6 DEF Rollback
  <2>2. NoOrphan'
    BY <1>1, <1>6, <2>1 DEF EndpointInv, NoOrphan, Live
  <2>3. QED BY <1>1, <1>2, <1>3, <1>4, <2>1, <2>2, StackParts, QuietStep
<1>7. QED BY <1>5, <1>6

LEMMA CancelKeeps ==
  ASSUME EndpointInv, Cancel
  PROVE  EndpointInv'
<1>1. /\ Busy /\ call' = Idle /\ cancels' = cancels + 1
      /\ abandoned' = (IF call.kind = "connect" THEN abandoned \cup {call.id} ELSE abandoned)
      /\ UNCHANGED <<connections, accepts, nextId, taken>>
      /\ UNCHANGED <<owned, got, failures>> /\ UNCHANGED inputVars
  BY DEF Cancel, stackVars
<1>2. cancels \in Nat /\ cancels' \in Nat /\ ~Lossless'
  BY <1>1 DEF EndpointInv, AppTypes, Lossless
<1>3. call.kind = "connect" => call.id \in Ids
  BY <1>1, IdsOfCalls DEF EndpointInv, AppTypes, Ids
<1>4. AppTypes'
  BY <1>1, <1>2, <1>3 DEF EndpointInv, AppTypes, IsTable, Busy
<1>5. NoOrphan'
  BY <1>1 DEF EndpointInv, NoOrphan, Live
<1>6. Sound(Stack)
  BY DEF EndpointInv
<1>7. QED BY <1>1, <1>2, <1>4, <1>5, <1>6, StackParts, QuietStep

-----------------------------------------------------------------------------
(* The theorems                                                            *)

LEMMA EndpointInit ==
  ASSUME Init
  PROVE  EndpointInv
<1>1. /\ connections = <<>> /\ accepts = <<>> /\ receiver = <<>> /\ batch = <<>>
      /\ call = Idle /\ owned = {} /\ got = <<>> /\ nextId = 1 /\ arrived = <<>>
      /\ handled = <<>> /\ taken = <<>> /\ abandoned = {} /\ failures = 0 /\ cancels = 0
  BY DEF Init
<1>2. DOMAIN connections = {} /\ DOMAIN taken = {} /\ DOMAIN got = {} /\ Live = {}
  BY <1>1 DEF Live
<1>3. PICK s : s = Stack
  OBVIOUS
<1>4. IsStack(s)
  <2>1. s = [connections |-> connections, accepts |-> accepts, outbound |-> <<>>,
             nextId |-> nextId, taken |-> taken]
    BY <1>3 DEF Stack
  <2>2. IsTable(connections, Entry) /\ IsTable(taken, Seq(Nat))
    BY <1>1, <1>2 DEF IsTable
  <2>3. accepts \in Seq(Ids) /\ <<>> \in Seq(Identity)
    BY <1>1
  <2>4. nextId \in 1 .. MaxCreated + 1
    BY <1>1, EndpointAssumption
  <2>5. QED BY <2>1, <2>2, <2>3, <2>4 DEF IsStack
<1>5. Sound(Stack)
  <2>1. \A key : OfKey(s, key) = {}
    BY <1>2, <1>3, StackParts DEF OfKey
  <2>2. Cardinality({}) = 0
    BY FS_EmptySet
  <2>3. 1 .. s.nextId - 1 = {}
    BY <1>1, <1>3, StackParts
  <2>4. Cardinality(DOMAIN s.connections) <= MaxConnections
    BY <1>2, <1>3, <2>2, StackParts, EndpointAssumption
  <2>5. \A key \in PublicKey : Cardinality(OfKey(s, key)) <= MaxPerPeer
    BY <2>1, <2>2, EndpointAssumption
  <2>6. QED BY <1>2, <1>3, <1>4, <2>3, <2>4, <2>5, StackParts DEF Sound
<1>6. InOrder
  <2>1. PICK e : e = <<>> /\ e \in Seq(Incoming)
    <3>1. <<>> \in Seq(Incoming)
      OBVIOUS
    <3>2. QED BY <3>1, Zenon
  <2>2. e \o e = e
    BY <2>1, Associative
  <2>3. arrived = e /\ handled = e /\ batch = e /\ receiver = e
    BY <1>1, <2>1
  <2>4. QED BY <2>1, <2>2, <2>3 DEF InOrder
<1>7. AppTypes
  BY <1>1, <1>2 DEF AppTypes, IsTable, Busy
<1>8. NoOrphan /\ Complement
  BY <1>2 DEF NoOrphan, Complement
<1>9. QED BY <1>5, <1>6, <1>7, <1>8 DEF EndpointInv

LEMMA EndpointStep ==
  ASSUME EndpointInv, [Next]_vars
  PROVE  EndpointInv'
<1>1. ASSUME NEW d \in Incoming, Arrive(d) PROVE EndpointInv'
  BY <1>1, ArriveKeeps
<1>2. ASSUME NEW peer \in Identity, Connect(peer) \/ AbortPeer(peer) PROVE EndpointInv'
  BY <1>2, ConnectKeeps, AbortPeerKeeps
<1>3. CASE Accept
  BY <1>3, AcceptKeeps
<1>4. ASSUME NEW i \in Live, NEW max \in 1 .. 2, NEW opens \in BOOLEAN, Read(i, max, opens)
      PROVE  EndpointInv'
  BY <1>4, ReadKeeps
<1>5. ASSUME NEW i \in Live, Send(i) \/ CloseUnfinished(i) \/ Abort(i) PROVE EndpointInv'
  BY <1>5, SendKeeps, CloseKeeps, AbortKeeps
<1>6. ASSUME NEW due \in SUBSET Live, NEW over \in SUBSET Live, Poll(due, over)
      PROVE  EndpointInv'
  BY <1>6, PollKeeps
<1>7. CASE WaitForInput
  BY <1>7, WaitKeeps
<1>8. CASE ReceiveAny
  BY <1>8, ReceiveKeeps DEF ReceiveAny
<1>9. CASE SendOne \/ Return \/ SendFails \/ Cancel
  BY <1>9, SendOneKeeps, ReturnKeeps, SendFailsKeeps, CancelKeeps
<1>10. CASE UNCHANGED vars
  <2>1. UNCHANGED <<stackVars, call, appVars>> /\ UNCHANGED inputVars
    BY <1>10 DEF vars
  <2>2. QED BY <2>1, InputsStay, OnlyInputs
<1>11. QED BY <1>1, <1>2, <1>3, <1>4, <1>5, <1>6, <1>7, <1>8, <1>9, <1>10 DEF Next

\* The invariant of the adapter, of which the theorems are parts.
LEMMA EndpointInvariant ==
  Spec => []EndpointInv
<1>1. Init => EndpointInv
  BY EndpointInit
<1>2. EndpointInv /\ [Next]_vars => EndpointInv'
  BY EndpointStep
<1>3. QED BY <1>1, <1>2, PTL DEF Spec

\* Each future that is dropped leaves the id of one connect behind at most.
OnePerCancel ==
  /\ cancels \in Nat /\ IsFiniteSet(abandoned) /\ Cardinality(abandoned) <= cancels

LEMMA CancelLeavesOne ==
  ASSUME OnePerCancel, [Next]_vars
  PROVE  OnePerCancel'
<1>1. CASE UNCHANGED <<abandoned, cancels>>
  BY <1>1 DEF OnePerCancel
<1>2. CASE Cancel
  <2>1. /\ cancels' = cancels + 1
        /\ abandoned' = abandoned \/ abandoned' = abandoned \cup {call.id}
    BY <1>2 DEF Cancel
  <2>2. IsFiniteSet(abandoned) /\ cancels \in Nat /\ Cardinality(abandoned) <= cancels
    BY DEF OnePerCancel
  <2>3. Cardinality(abandoned) \in Nat
    BY <2>2, FS_CardinalityType
  <2>4. /\ IsFiniteSet(abandoned \cup {call.id})
        /\ \/ Cardinality(abandoned \cup {call.id}) = Cardinality(abandoned)
           \/ Cardinality(abandoned \cup {call.id}) = Cardinality(abandoned) + 1
    BY <2>2, FS_AddElement
  <2>5. IsFiniteSet(abandoned') /\ Cardinality(abandoned') <= cancels + 1
    <3>1. CASE abandoned' = abandoned
      BY <2>2, <2>3, <3>1
    <3>2. CASE abandoned' = abandoned \cup {call.id}
      BY <2>2, <2>3, <2>4, <3>2
    <3>3. QED BY <2>1, <3>1, <3>2
  <2>6. QED BY <2>1, <2>2, <2>5 DEF OnePerCancel
<1>3. ASSUME Next, ~Cancel PROVE UNCHANGED <<abandoned, cancels>>
  BY <1>3
     DEF Next, Arrive, Connect, AbortPeer, Accept, Read, Send, CloseUnfinished, Abort, Poll,
         WaitForInput, ReceiveAny, Receive, SendOne, Return, SendFails, appVars
<1>4. QED BY <1>1, <1>2, <1>3 DEF vars, appVars

\* In every reachable state a connection that connect opened is known to the
\* application, or will be when the call in progress returns, or belongs to a
\* connect whose future was dropped; and no more are of the last kind than
\* futures were dropped.  So without a dropped future there is none: a failed
\* send leaves nothing behind (connect, and its close on a failed flush).
THEOREM NobodyIsOrphaned == Spec => [](NoOrphan /\ Cardinality(abandoned) <= cancels)
<1>1. EndpointInv => NoOrphan
  BY DEF EndpointInv
<1>2. Init => OnePerCancel
  BY FS_EmptySet DEF Init, OnePerCancel
<1>3. OnePerCancel => Cardinality(abandoned) <= cancels
  BY DEF OnePerCancel
<1>4. QED BY <1>1, <1>2, <1>3, CancelLeavesOne, EndpointInvariant, PTL DEF Spec

\* However many connects, SYNs from either point of a key, batches and failures
\* interleave, the connections of one public key stay within the per-peer limit
\* (PeerKey::from, the admission checks).
THEOREM OneBudgetPerKey == Spec => []OnePeerOneBudget
<1>1. EndpointInv => OnePeerOneBudget
  BY StackParts DEF EndpointInv, Sound, OfKey, OnePeerOneBudget
<1>2. QED BY <1>1, EndpointInvariant, PTL

\* What receive calls have handled is at every moment the beginning of what
\* arrived: no wait that is dropped, repeated or followed by other calls loses,
\* repeats or reorders a datagram (wait_for_input, receive_batch).
THEOREM DatagramsInOrder == Spec => []IsPrefix(handled, arrived)
<1>1. ASSUME EndpointInv PROVE IsPrefix(handled, arrived)
  <2>1. PICK h, b, r : /\ h = handled /\ b = batch /\ r = receiver
                       /\ h \in Seq(Incoming) /\ b \in Seq(Incoming) /\ r \in Seq(Incoming)
                       /\ arrived = (h \o b) \o r
    BY <1>1 DEF EndpointInv, InOrder
  <2>2. PICK w \in Seq(Incoming) : w = b \o r
    <3>1. b \o r \in Seq(Incoming)
      BY <2>1, Associative
    <3>2. QED BY <3>1, Zenon
  <2>3. arrived = h \o w
    BY <2>1, <2>2, Associative
  <2>4. /\ Len(h \o w) = Len(h) + Len(w) /\ Len(h) \in Nat /\ Len(w) \in Nat
        /\ h \o w \in Seq(Incoming)
        /\ \A k \in 1 .. Len(h) + Len(w) :
             (h \o w)[k] = IF k <= Len(h) THEN h[k] ELSE w[k - Len(h)]
    BY <2>1, ConcatProperties
  <2>5. \A k \in 1 .. Len(h) : (h \o w)[k] = h[k]
    BY <2>4
  <2>6. PICK n, v : n = Len(h) /\ v = h \o w
    OBVIOUS
  <2>7. /\ n \in Nat /\ v \in Seq(Incoming) /\ n <= Len(v) /\ Len(v) \in Nat
        /\ \A k \in 1 .. n : v[k] = h[k]
    BY <2>4, <2>5, <2>6
  <2>8. SubSeq(h, 1, n) = h
    BY <2>1, <2>6, SubSeqFull
  <2>9. /\ SubSeq(v, 1, n) \in Seq(Incoming) /\ Len(SubSeq(v, 1, n)) = n
        /\ \A k \in 1 .. n : SubSeq(v, 1, n)[k] = v[k]
    BY <2>7
  <2>10. SubSeq(v, 1, n) = h
    BY <2>1, <2>6, <2>7, <2>9, SeqEqual
  <2>11. QED BY <2>1, <2>3, <2>6, <2>7, <2>8, <2>10 DEF IsPrefix
<1>2. QED BY <1>1, EndpointInvariant, PTL

\* Reads lose bytes only where a send of their flush fails or their future is
\* dropped, which run EndpointReads shows: as long as neither happens, what reads
\* returned, hold and leave unread is all that was taken in (read, flush).
THEOREM ReadsLoseNothingUnlessInterrupted ==
  Spec => [](failures = 0 /\ cancels = 0 => ReadsLoseNothing)
<1>1. EndpointInv => (failures = 0 /\ cancels = 0 => ReadsLoseNothing)
  BY DEF EndpointInv, Lossless, Complement, Reading, ReadsLoseNothing
<1>2. QED BY <1>1, EndpointInvariant, PTL
===============================================================================
