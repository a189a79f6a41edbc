--------------------------- MODULE TcpPairProofs ---------------------------
(***************************************************************************)
(* Two stacks and a carrier keep their types, each connection keeps its    *)
(* books, and the two directions implement ByteStream, for every pair of   *)
(* configurations and every schedule.                                      *)
(*                                                                         *)
(* TypeOK is inductive as it stands.  None of the other invariants is:     *)
(* each method of ConnectionProofs needs the budget, the tiling, the       *)
(* ledger, the bound on the buffer and the place of the chunks together,   *)
(* so BooksKept carries them all and the theorems read them off.           *)
(*                                                                         *)
(* StreamsKept adds what the two sides know of each other: every segment   *)
(* in flight speaks of a stream of its sender and acknowledges what that   *)
(* took in, and every connection follows one stream of its peer.  From it  *)
(* each step of the pair is a step of ByteStream, or none.                 *)
(***************************************************************************)
EXTENDS TcpPairStreams, StreamProofs


-----------------------------------------------------------------------------
(* The carrier                                                             *)

\* There are two sides, so each has a peer.
LEMMA PeerType ==
  ASSUME NEW s \in Side
  PROVE  Peer(s) \in Side
  <1>1. PICK p \in Side : Side = {Opener, p} /\ p # Opener
    BY PairAssumption
  <1>2. \E q \in Side : q # s
    BY <1>1, PairAssumption
  <1>3. QED BY <1>2 DEF Peer

\* The segments a method hands out form a bag.
LEMMA BagOfSeqType ==
  ASSUME NEW q \in Seq(Segment)
  PROVE  IsABag(BagOfSeq(q)) /\ DOMAIN BagOfSeq(q) \subseteq Segment
  <1> DEFINE At(x) == {i \in DOMAIN q : q[i] = x}
             Elements == {q[i] : i \in DOMAIN q}
  <1>1. DOMAIN q = 1 .. Len(q) /\ Len(q) \in Nat
    OBVIOUS
  <1>2. \A x \in Elements : At(x) \in SUBSET (1 .. Len(q)) /\ At(x) # {}
    BY <1>1
  <1> HIDE DEF At
  <1>3. \A x \in Elements : Cardinality(At(x)) \in {n \in Nat : n > 0}
    BY <1>1, <1>2, OccurrencesType
  <1>4. BagOfSeq(q) = [x \in Elements |-> Cardinality(At(x))]
    BY DEF BagOfSeq, At
  <1>5. Elements \subseteq Segment
    BY <1>1, ElementOfSeq
  <1> HIDE DEF Elements
  <1>6. QED BY <1>3, <1>4, <1>5 DEF IsABag

\* Handing segments to the carrier adds up how often each is in flight.
LEMMA BagSumType ==
  ASSUME NEW a, NEW b, IsABag(a), IsABag(b)
  PROVE  IsABag(a (+) b) /\ DOMAIN (a (+) b) = DOMAIN a \cup DOMAIN b
  BY DEF IsABag, (+)

\* Taking a datagram off the carrier leaves a bag.
LEMMA BagRemoveType ==
  ASSUME NEW b, NEW x, IsABag(b)
  PROVE  IsABag(BagRemove(b, x)) /\ DOMAIN BagRemove(b, x) \subseteq DOMAIN b
  BY DEF IsABag, BagRemove

\* Stack::emit hands well-typed datagrams to the carrier.
LEMMA SendType ==
  ASSUME NEW n, CarriesSegments(n), NEW s \in Side, NEW segments \in Seq(Segment)
  PROVE  CarriesSegments(Send(n, s, segments))
  <1> DEFINE b == n[Peer(s)] (+) BagOfSeq(segments)
  <1>1. Peer(s) \in Side
    BY PeerType
  <1>2. IsABag(b) /\ DOMAIN b \subseteq Segment
    BY <1>1, BagOfSeqType, BagSumType DEF CarriesSegments
  <1> HIDE DEF b
  <1>3. Send(n, s, segments) = [n EXCEPT ![Peer(s)] = b]
    BY DEF Send, b
  <1>4. QED BY <1>1, <1>2, <1>3 DEF CarriesSegments

\* Delivery and loss leave the carrier well typed.
LEMMA TakenOffType ==
  ASSUME NEW n, CarriesSegments(n), NEW s \in Side, NEW seg
  PROVE  CarriesSegments([n EXCEPT ![s] = BagRemove(@, seg)])
  <1> DEFINE b == BagRemove(n[s], seg)
  <1>1. IsABag(b) /\ DOMAIN b \subseteq Segment
    BY BagRemoveType DEF CarriesSegments
  <1> HIDE DEF b
  <1>2. [n EXCEPT ![s] = BagRemove(@, seg)] = [n EXCEPT ![s] = b]
    BY DEF b
  <1>3. QED BY <1>1, <1>2 DEF CarriesSegments

-----------------------------------------------------------------------------
(* Stack::input, for a carrier that has taken the segment off              *)

\* What a method returns settles into the lookup table and the carrier.
LEMMA SettleType ==
  ASSUME TypeOK, NEW s \in Side, NEW u \in Update, NEW n, CarriesSegments(n),
         Settle(s, u, n)
  PROVE  /\ conn' \in [Side -> Conn \cup {NoConn}]
         /\ CarriesSegments(net')
         /\ \A t \in Side : t # s => conn'[t] = conn[t]
  <1>1. u.conn \in Conn /\ u.segments \in Seq(Segment)
    BY DEF Update
  <1>2. (IF u.closed THEN NoConn ELSE u.conn) \in Conn \cup {NoConn}
    BY <1>1
  <1>3. conn \in [Side -> Conn \cup {NoConn}]
    BY DEF TypeOK
  <1>4. CarriesSegments(net')
    BY <1>1, SendType DEF Settle
  <1>5. conn' = [conn EXCEPT ![s] = IF u.closed THEN NoConn ELSE u.conn]
    BY DEF Settle
  <1>6. QED BY <1>2, <1>3, <1>4, <1>5

\* A step that settles an update and touches none of the other tables, the
\* budget of copies excepted.
LEMMA SettleOnlyType ==
  ASSUME TypeOK, NEW s \in Side, Connected(s), NEW u \in Update, Settle(s, u, net),
         copies' \in Nat,
         UNCHANGED <<opened, accepted, sent, received, losses, crashes>>
  PROVE  TypeOK'
  <1>1. CarriesSegments(net)
    BY DEF TypeOK
  <1>2. /\ conn' \in [Side -> Conn \cup {NoConn}]
        /\ CarriesSegments(net')
        /\ \A t \in Side : t # s => conn'[t] = conn[t]
    BY <1>1, SettleType
  <1>3. \A t \in Side : conn'[t] # NoConn => opened'[t] > 0
    BY <1>2 DEF TypeOK, Connected
  <1>4. QED BY <1>2, <1>3 DEF TypeOK, Connected, CarriesSegments

\* A new connection extends the table of streams.
LEMMA StartStreamType ==
  ASSUME TypeOK, NEW s \in Side, StartStream(s)
  PROVE  /\ opened' \in [Side -> Nat]
         /\ opened'[s] > 0 /\ \A t \in Side : t # s => opened'[t] = opened[t]
         /\ sent' \in [Side -> Seq(Nat)]
         /\ received' \in [Side -> Seq(Seq(Byte))]
         /\ \A t \in Side : Len(sent'[t]) = opened'[t] /\ Len(received'[t]) = opened'[t]
  <1>1. /\ opened \in [Side -> Nat] /\ sent \in [Side -> Seq(Nat)]
        /\ received \in [Side -> Seq(Seq(Byte))]
        /\ \A t \in Side : Len(sent[t]) = opened[t] /\ Len(received[t]) = opened[t]
    BY DEF TypeOK
  <1>2. /\ opened' = [opened EXCEPT ![s] = @ + 1]
        /\ sent' = [sent EXCEPT ![s] = Append(@, 0)]
        /\ received' = [received EXCEPT ![s] = Append(@, <<>>)]
    BY DEF StartStream
  <1>3. opened' \in [Side -> Nat] /\ opened'[s] = opened[s] + 1
        /\ \A t \in Side : t # s => opened'[t] = opened[t]
    BY <1>1, <1>2
  <1>4. sent' \in [Side -> Seq(Nat)] /\ Len(sent'[s]) = Len(sent[s]) + 1
        /\ \A t \in Side : t # s => sent'[t] = sent[t]
    <2>1. Append(sent[s], 0) \in Seq(Nat) /\ Len(Append(sent[s], 0)) = Len(sent[s]) + 1
      BY <1>1
    <2>2. QED BY <1>1, <1>2, <2>1
  <1>5. received' \in [Side -> Seq(Seq(Byte))] /\ Len(received'[s]) = Len(received[s]) + 1
        /\ \A t \in Side : t # s => received'[t] = received[t]
    <2>1. <<>> \in Seq(Byte)
      OBVIOUS
    <2>2. Append(received[s], <<>>) \in Seq(Seq(Byte))
          /\ Len(Append(received[s], <<>>)) = Len(received[s]) + 1
      BY <1>1, <2>1, AppendProperties
    <2>3. QED BY <1>1, <1>2, <2>2
  <1>6. opened'[s] > 0
    BY <1>1, <1>3
  <1>7. ASSUME NEW t \in Side
        PROVE  Len(sent'[t]) = opened'[t] /\ Len(received'[t]) = opened'[t]
    <2>1. CASE t = s
      BY <1>1, <1>3, <1>4, <1>5, <2>1
    <2>2. CASE t # s
      BY <1>1, <1>3, <1>4, <1>5, <2>2
    <2>3. QED BY <2>1, <2>2
  <1>8. QED BY <1>3, <1>4, <1>5, <1>6, <1>7

\* A new connection, whoever asked for it.
LEMMA OpenedType ==
  ASSUME TypeOK, NEW s \in Side, NEW u \in Update, NEW n, CarriesSegments(n),
         Settle(s, u, n), StartStream(s), NEW b \in BOOLEAN,
         accepted' = [accepted EXCEPT ![s] = b],
         losses' \in Nat, copies' \in Nat, crashes' \in Nat
  PROVE  TypeOK'
  <1>1. /\ conn' \in [Side -> Conn \cup {NoConn}]
        /\ CarriesSegments(net')
        /\ \A t \in Side : t # s => conn'[t] = conn[t]
    BY SettleType
  <1>2. /\ opened' \in [Side -> Nat]
        /\ opened'[s] > 0 /\ \A t \in Side : t # s => opened'[t] = opened[t]
        /\ sent' \in [Side -> Seq(Nat)]
        /\ received' \in [Side -> Seq(Seq(Byte))]
        /\ \A t \in Side : Len(sent'[t]) = opened'[t] /\ Len(received'[t]) = opened'[t]
    BY StartStreamType
  <1>3. accepted' \in [Side -> BOOLEAN]
    BY DEF TypeOK
  <1>4. \A t \in Side : conn'[t] # NoConn => opened'[t] > 0
    BY <1>1, <1>2 DEF TypeOK, Connected
  <1>5. QED BY <1>1, <1>2, <1>3, <1>4 DEF TypeOK, Connected, CarriesSegments

\* Stack::input, a SYN for a listener.
LEMMA InputSynType ==
  ASSUME TypeOK, NEW s \in Side, NEW seg \in Segment, NEW n, CarriesSegments(n),
         InputSyn(s, seg, n), losses' \in Nat, copies' \in Nat, crashes' \in Nat
  PROVE  TypeOK'
  <1>1. Isn[s][opened[s] + 1] \in SeqNumber
    BY PairAssumption DEF InputSyn, MayOpen, TypeOK
  <1>2. Server(seg, Isn[s][opened[s] + 1]) \in Update
    BY <1>1, ServerType
  <1>3. QED BY <1>2, OpenedType DEF InputSyn

\* Stack::input, a segment of an unknown tuple: emit_reset.
LEMMA InputUnknownType ==
  ASSUME TypeOK, NEW s \in Side, NEW seg \in Segment, NEW n, CarriesSegments(n),
         InputUnknown(s, seg, n), losses' \in Nat, copies' \in Nat, crashes' \in Nat
  PROVE  TypeOK'
  <1>1. CarriesSegments(net')
    <2>1. <<ResetFor(seg)>> \in Seq(Segment)
      BY ResetForType, OneSegment
    <2>2. QED BY <2>1, SendType DEF InputUnknown
  <1>2. UNCHANGED <<conn, opened, accepted, sent, received>>
    BY DEF InputUnknown
  <1>3. QED BY <1>1, <1>2 DEF TypeOK, Connected, CarriesSegments

\* The bytes a step moved into the receive queue extend the stream received.
LEMMA ArrivedType ==
  ASSUME NEW c \in Conn, NEW d \in Conn
  PROVE  Arrived(c, d) \in Seq(Byte)
  <1>1. d.recv_queue \in Seq(Byte) /\ Len(d.recv_queue) \in Nat
        /\ Len(c.recv_queue) + 1 \in Nat \ {0}
    BY DEF Conn
  <1>2. QED BY <1>1, SubSeqType DEF Arrived

\* Stack::input, a segment of a known tuple.
LEMMA InputConnectedType ==
  ASSUME TypeOK, NEW s \in Side, NEW seg \in Segment, NEW n, CarriesSegments(n),
         InputConnected(s, seg, n), losses' \in Nat, copies' \in Nat, crashes' \in Nat
  PROVE  TypeOK'
  <1> DEFINE u == InputKnown(conn[s], seg)
  <1>1. conn[s] \in Conn /\ Connected(s) /\ opened[s] > 0
    BY DEF InputConnected, Connected, TypeOK
  <1>2. u \in Update /\ u.conn \in Conn /\ u.accepted \in BOOLEAN
    BY <1>1, InputKnownType DEF Update
  <1>3. Apply(s, u, n)
    BY DEF InputConnected
  <1> HIDE DEF u
  <1>4. /\ conn' \in [Side -> Conn \cup {NoConn}]
        /\ CarriesSegments(net')
        /\ \A t \in Side : t # s => conn'[t] = conn[t]
    BY <1>2, <1>3, SettleType DEF Apply
  <1>5. accepted' \in [Side -> BOOLEAN]
    BY <1>2, <1>3 DEF Apply, TypeOK
  <1>6. received' \in [Side -> Seq(Seq(Byte))]
        /\ \A t \in Side : Len(received'[t]) = Len(received[t])
    <2> DEFINE more == received[s][opened[s]] \o Arrived(conn[s], u.conn)
               table == [received[s] EXCEPT ![opened[s]] = more]
    <2>1. received \in [Side -> Seq(Seq(Byte))] /\ opened[s] \in 1 .. Len(received[s])
      BY <1>1 DEF TypeOK
    <2>2. received[s] \in Seq(Seq(Byte)) /\ received[s][opened[s]] \in Seq(Byte)
      BY <2>1, ElementOfSeq
    <2>3. more \in Seq(Byte)
      BY <1>1, <1>2, <2>2, ArrivedType, ConcatProperties
    <2>4. received' = [received EXCEPT ![s] = table]
      BY <1>3 DEF Apply
    <2> HIDE DEF more
    <2>5. table \in Seq(Seq(Byte)) /\ Len(table) = Len(received[s])
      BY <2>1, <2>2, <2>3, ExceptSeq
    <2> HIDE DEF table
    <2>6. QED BY <2>1, <2>4, <2>5
  <1>7. UNCHANGED <<opened, sent>>
    BY <1>3 DEF Apply
  <1>8. \A t \in Side : conn'[t] # NoConn => opened'[t] > 0
    BY <1>1, <1>4, <1>7 DEF TypeOK, Connected
  <1>9. QED BY <1>4, <1>5, <1>6, <1>7, <1>8 DEF TypeOK, Connected, CarriesSegments

\* Stack::input keeps types, whichever of its three branches runs.
LEMMA InputType ==
  ASSUME TypeOK, NEW s \in Side, NEW seg \in Segment, NEW n, CarriesSegments(n),
         Input(s, seg, n), losses' \in Nat, copies' \in Nat, crashes' \in Nat
  PROVE  TypeOK'
  BY InputSynType, InputUnknownType, InputConnectedType DEF Input

-----------------------------------------------------------------------------
(* The actions                                                             *)

\* What the carrier holds are segments.
LEMMA SegmentInFlight ==
  ASSUME TypeOK, NEW s \in Side, NEW seg \in BagToSet(net[s])
  PROVE  seg \in Segment
  BY DEF TypeOK, CarriesSegments, BagToSet

\* connect_from_with_isn.
LEMMA ConnectType ==
  ASSUME TypeOK, NEW s \in Side, Connect(s)
  PROVE  TypeOK'
  <1>1. Isn[s][opened[s] + 1] \in SeqNumber
    BY PairAssumption DEF Connect, MayOpen, TypeOK
  <1>2. Client(Isn[s][opened[s] + 1]) \in Update
    BY <1>1, ClientType
  <1>3. CarriesSegments(net) /\ losses' \in Nat /\ copies' \in Nat /\ crashes' \in Nat
    BY DEF TypeOK, Connect
  <1>4. QED BY <1>2, <1>3, OpenedType DEF Connect

\* The carrier delivers a datagram.
LEMMA DeliverType ==
  ASSUME TypeOK, NEW s \in Side, NEW seg \in Segment, Deliver(s, seg)
  PROVE  TypeOK'
  <1>1. CarriesSegments([net EXCEPT ![s] = BagRemove(@, seg)])
    BY TakenOffType DEF TypeOK
  <1>2. losses' \in Nat /\ copies' \in Nat /\ crashes' \in Nat
    BY DEF TypeOK, Deliver
  <1>3. QED BY <1>1, <1>2, InputType DEF Deliver

\* The carrier delivers one of two copies.
LEMMA DeliverCopyType ==
  ASSUME TypeOK, NEW s \in Side, NEW seg \in Segment, DeliverCopy(s, seg)
  PROVE  TypeOK'
  <1>1. CarriesSegments(net)
    BY DEF TypeOK
  <1>2. losses' \in Nat /\ copies' \in Nat /\ crashes' \in Nat
    BY DEF TypeOK, DeliverCopy
  <1>3. QED BY <1>1, <1>2, InputType DEF DeliverCopy

\* The carrier loses a datagram.
LEMMA LoseType ==
  ASSUME TypeOK, NEW s \in Side, NEW seg, Lose(s, seg)
  PROVE  TypeOK'
  <1>1. CarriesSegments(net')
    BY TakenOffType DEF TypeOK, Lose
  <1>2. losses' \in Nat
    BY DEF TypeOK, Lose
  <1>3. QED BY <1>1, <1>2 DEF TypeOK, Lose, Connected, CarriesSegments

\* What a lookup finds is a connection the side created.
LEMMA ConnectedType ==
  ASSUME TypeOK, NEW s \in Side, Connected(s)
  PROVE  conn[s] \in Conn /\ opened[s] > 0
  BY DEF TypeOK, Connected

\* poll, when the close deadline has passed.
LEMMA CloseExpiresType ==
  ASSUME TypeOK, NEW s \in Side, CloseExpires(s)
  PROVE  TypeOK'
  <1>1. Connected(s) /\ conn[s] \in Conn
    BY ConnectedType DEF CloseExpires
  <1>2. Poll(conn[s], TRUE, FALSE) \in Update
    BY <1>1, PollType
  <1>3. QED BY <1>1, <1>2, SettleOnlyType DEF CloseExpires, TypeOK

\* poll, when the retry deadline has passed.
LEMMA RetryExpiresType ==
  ASSUME TypeOK, NEW s \in Side, RetryExpires(s)
  PROVE  TypeOK'
  <1>1. Connected(s) /\ conn[s] \in Conn
    BY ConnectedType DEF RetryExpires, RetryPending
  <1>2. Poll(conn[s], FALSE, TRUE) \in Update
    BY <1>1, PollType
  <1>3. copies' \in Nat
    BY DEF RetryExpires, TypeOK
  <1>4. QED BY <1>1, <1>2, <1>3, SettleOnlyType DEF RetryExpires

\* Stack::write.
LEMMA AppWriteType ==
  ASSUME TypeOK, NEW s \in Side, NEW n \in Nat, AppWrite(s, n)
  PROVE  TypeOK'
  <1> DEFINE base == Written(s)
             data == [k \in 1 .. n |-> Stream(opened[s], base + k)]
             more == WriteAccepts(conn[s], n)
  <1>1. conn[s] \in Conn /\ opened[s] > 0
    BY ConnectedType DEF AppWrite, Held
  <1>2. /\ sent \in [Side -> Seq(Nat)] /\ opened[s] \in 1 .. Len(sent[s])
        /\ opened[s] \in Nat /\ base \in Nat
    BY <1>1 DEF TypeOK, Written
  <1> HIDE DEF base
  <1>3. data \in Seq(Byte) /\ Len(data) = n
    <2>1. \A k \in 1 .. n : Stream(opened[s], base + k) \in Byte
      BY <1>2 DEF Stream, Byte
    <2>2. QED BY <2>1
  <1> HIDE DEF data
  <1>4. Settle(s, Write(conn[s], data), net) /\ Write(conn[s], data) \in Update
    BY <1>1, <1>3, WriteType DEF AppWrite, data, base
  <1>5. CarriesSegments(net)
    BY DEF TypeOK
  <1>6. /\ conn' \in [Side -> Conn \cup {NoConn}]
        /\ CarriesSegments(net')
        /\ \A t \in Side : t # s => conn'[t] = conn[t]
    BY <1>4, <1>5, SettleType
  <1>7. more \in Nat
    BY <1>1, WriteAcceptsType
  <1>8. sent' = [sent EXCEPT ![s][opened[s]] = @ + more]
        /\ UNCHANGED <<opened, accepted, received, losses, copies, crashes>>
    BY DEF AppWrite
  <1> HIDE DEF more
  <1>9. sent' \in [Side -> Seq(Nat)] /\ \A t \in Side : Len(sent'[t]) = Len(sent[t])
    <2> DEFINE table == [sent[s] EXCEPT ![opened[s]] = @ + more]
    <2>1. sent[s] \in Seq(Nat) /\ sent[s][opened[s]] \in Nat
      BY <1>2, ElementOfSeq
    <2>2. sent[s][opened[s]] + more \in Nat
      BY <1>7, <2>1
    <2>3. table \in Seq(Nat) /\ Len(table) = Len(sent[s])
      BY <1>2, <2>1, <2>2, ExceptSeq
    <2>4. sent' = [sent EXCEPT ![s] = table]
      BY <1>8
    <2> HIDE DEF table
    <2>5. QED BY <1>2, <2>3, <2>4
  <1>10. \A t \in Side : conn'[t] # NoConn => opened'[t] > 0
    BY <1>1, <1>6, <1>8 DEF TypeOK, Connected
  <1>11. QED BY <1>6, <1>8, <1>9, <1>10 DEF TypeOK, Connected, CarriesSegments

\* Stack::read.
LEMMA AppReadType ==
  ASSUME TypeOK, NEW s \in Side, NEW max \in Nat, AppRead(s, max)
  PROVE  TypeOK'
  <1>1. Connected(s) /\ conn[s] \in Conn
    BY ConnectedType DEF AppRead, CanRead, Held
  <1>2. Read(conn[s], max) \in Update
    BY <1>1, ReadType
  <1>3. QED BY <1>1, <1>2, SettleOnlyType DEF AppRead, TypeOK

\* Stack::close.
LEMMA AppCloseType ==
  ASSUME TypeOK, NEW s \in Side, AppClose(s)
  PROVE  TypeOK'
  <1>1. Connected(s) /\ conn[s] \in Conn
    BY ConnectedType DEF AppClose, Held
  <1>2. Close(conn[s]) \in Update
    BY <1>1, CloseType
  <1>3. QED BY <1>1, <1>2, SettleOnlyType DEF AppClose, TypeOK

\* Stack::abort.
LEMMA AppAbortType ==
  ASSUME TypeOK, NEW s \in Side, AppAbort(s)
  PROVE  TypeOK'
  <1>1. Connected(s) /\ conn[s] \in Conn
    BY ConnectedType DEF AppAbort
  <1>2. Closed(conn[s], <<ResetSegment(conn[s])>>) \in Update
    BY <1>1, ResetSegmentType, OneSegment, ClosedType
  <1>3. QED BY <1>1, <1>2, SettleOnlyType DEF AppAbort, TypeOK

\* A side loses its Stack.
LEMMA CrashType ==
  ASSUME TypeOK, NEW s \in Side, Crash(s)
  PROVE  TypeOK'
  <1>1. crashes' \in Nat /\ conn' \in [Side -> Conn \cup {NoConn}]
    BY DEF TypeOK, Crash
  <1>2. \A t \in Side : conn'[t] # NoConn => opened'[t] > 0
    BY DEF TypeOK, Crash, Connected
  <1>3. QED BY <1>1, <1>2 DEF TypeOK, Crash, Connected, CarriesSegments

-----------------------------------------------------------------------------

\* Every step of either stack, of the carrier or of an application keeps types.
LEMMA StepType ==
  ASSUME TypeOK, [Next]_vars
  PROVE  TypeOK'
  <1>1. CASE UNCHANGED vars
    BY <1>1 DEF vars, TypeOK, Connected, CarriesSegments
  <1>2. CASE Next
    <2>1. PICK s \in Side :
            \/ Connect(s)
            \/ \E seg \in BagToSet(net[s]) : Deliver(s, seg)
            \/ \E seg \in BagToSet(net[s]) : DeliverCopy(s, seg)
            \/ \E seg \in BagToSet(net[s]) : Lose(s, seg)
            \/ CloseExpires(s)
            \/ RetryExpires(s)
            \/ \E n \in 1 .. WriteLimit[s] : AppWrite(s, n)
            \/ \E max \in ReadSizes : AppRead(s, max)
            \/ AppClose(s)
            \/ AppAbort(s)
            \/ Crash(s)
      BY <1>2 DEF Next
    <2>2. CASE Connect(s)
      BY <2>2, ConnectType
    <2>3. ASSUME NEW seg \in BagToSet(net[s]), Deliver(s, seg) PROVE TypeOK'
      BY <2>3, SegmentInFlight, DeliverType
    <2>4. ASSUME NEW seg \in BagToSet(net[s]), DeliverCopy(s, seg) PROVE TypeOK'
      BY <2>4, SegmentInFlight, DeliverCopyType
    <2>5. ASSUME NEW seg \in BagToSet(net[s]), Lose(s, seg) PROVE TypeOK'
      BY <2>5, LoseType
    <2>6. CASE CloseExpires(s)
      BY <2>6, CloseExpiresType
    <2>7. CASE RetryExpires(s)
      BY <2>7, RetryExpiresType
    <2>8. ASSUME NEW n \in 1 .. WriteLimit[s], AppWrite(s, n) PROVE TypeOK'
      <3>1. n \in Nat
        BY PairAssumption
      <3>2. QED BY <2>8, <3>1, AppWriteType
    <2>9. ASSUME NEW max \in ReadSizes, AppRead(s, max) PROVE TypeOK'
      <3>1. max \in Nat
        BY PairAssumption
      <3>2. QED BY <2>9, <3>1, AppReadType
    <2>10. CASE AppClose(s)
      BY <2>10, AppCloseType
    <2>11. CASE AppAbort(s)
      BY <2>11, AppAbortType
    <2>12. CASE Crash(s)
      BY <2>12, CrashType
    <2>13. QED BY <2>1, <2>2, <2>3, <2>4, <2>5, <2>6, <2>7, <2>8, <2>9, <2>10, <2>11, <2>12
  <1>3. QED BY <1>1, <1>2

\* Two empty stacks and a silent carrier.
LEMMA InitType ==
  ASSUME Init
  PROVE  TypeOK
  <1>1. IsABag(EmptyBag) /\ DOMAIN EmptyBag = {}
    BY DEF IsABag, EmptyBag, SetToBag
  <1>2. CarriesSegments(net)
    BY <1>1 DEF Init, CarriesSegments
  <1>3. \A s \in Side : ~Connected(s)
    BY DEF Init, Connected
  <1>4. \A s \in Side : Len(sent[s]) = opened[s] /\ Len(received[s]) = opened[s]
    BY DEF Init
  <1>5. QED BY <1>2, <1>3, <1>4 DEF Init, TypeOK

\* Whatever the configuration, the initial sequence numbers, the faults of the
\* carrier and the interleaving: sequence numbers stay words, the reassembly
\* table finite, counters natural, and every datagram a segment
\* (Stack::input, poll, write, read, close, abort).
THEOREM TypeCorrect == Spec => []TypeOK
  <1>1. Init => TypeOK
    BY InitType
  <1>2. TypeOK /\ [Next]_vars => TypeOK'
    BY StepType
  <1>3. QED BY <1>1, <1>2, PTL DEF Spec

-----------------------------------------------------------------------------
(* The books                                                               *)

\* Between two steps every connection is sound and has nothing sendable left.
BooksKept == \A s \in Side : Connected(s) => conn[s] \in SoundConn /\ Idle(conn[s])

\* A step that settles an update on one side.
LEMMA SettleBooks ==
  ASSUME TypeOK, BooksKept, NEW s \in Side, NEW u \in Settled, NEW n, Settle(s, u, n)
  PROVE  BooksKept'
  <1>1. conn' = [conn EXCEPT ![s] = IF u.closed THEN NoConn ELSE u.conn]
    BY DEF Settle
  <1>2. conn \in [Side -> Conn \cup {NoConn}]
    BY DEF TypeOK
  <1>3. u.conn \in SoundConn /\ (u.closed \/ Idle(u.conn))
    BY SettledFields
  <1>4. ASSUME NEW t \in Side, conn'[t] # NoConn
        PROVE  conn'[t] \in SoundConn /\ Idle(conn'[t])
    <2>1. CASE t = s
      BY <1>1, <1>2, <1>3, <1>4, <2>1
    <2>2. CASE t # s
      <3>1. conn'[t] = conn[t]
        BY <1>1, <1>2, <2>2
      <3>2. QED BY <1>4, <3>1 DEF BooksKept, Connected
    <2>3. QED BY <2>1, <2>2
  <1>5. QED BY <1>4 DEF BooksKept, Connected

\* Stack::input, whichever branch runs.
LEMMA InputBooks ==
  ASSUME TypeOK, BooksKept, NEW s \in Side, NEW seg \in Segment, NEW n, Input(s, seg, n)
  PROVE  BooksKept'
  <1>1. CASE InputSyn(s, seg, n)
    <2>1. Isn[s][opened[s] + 1] \in SeqNumber
      BY <1>1, PairAssumption DEF InputSyn, MayOpen, TypeOK
    <2>2. QED BY <1>1, <2>1, CreationSettled, SettleBooks DEF InputSyn
  <1>2. CASE InputUnknown(s, seg, n)
    BY <1>2 DEF InputUnknown, BooksKept, Connected
  <1>3. CASE InputConnected(s, seg, n)
    <2>1. conn[s] \in SoundConn /\ Idle(conn[s])
      BY <1>3 DEF InputConnected, BooksKept
    <2>2. InputKnown(conn[s], seg) \in Settled
      BY <2>1, InputKnownSettled
    <2>3. QED BY <1>3, <2>2, SettleBooks DEF InputConnected, Apply
  <1>4. QED BY <1>1, <1>2, <1>3 DEF Input

\* Every step of either stack, of the carrier or of an application.
LEMMA StepBooks ==
  ASSUME TypeOK, BooksKept, [Next]_vars
  PROVE  BooksKept'
  <1>1. CASE UNCHANGED vars
    BY <1>1 DEF vars, BooksKept, Connected
  <1>2. ASSUME NEW s \in Side, Connect(s) PROVE BooksKept'
    <2>1. Isn[s][opened[s] + 1] \in SeqNumber
      BY <1>2, PairAssumption DEF Connect, MayOpen, TypeOK
    <2>2. QED BY <1>2, <2>1, CreationSettled, SettleBooks DEF Connect
  <1>3. ASSUME NEW s \in Side, NEW seg \in BagToSet(net[s]),
               Deliver(s, seg) \/ DeliverCopy(s, seg)
        PROVE  BooksKept'
    <2>1. seg \in Segment
      BY SegmentInFlight
    <2>2. QED BY <1>3, <2>1, InputBooks DEF Deliver, DeliverCopy
  <1>4. ASSUME NEW s \in Side, NEW seg, Lose(s, seg) PROVE BooksKept'
    BY <1>4 DEF Lose, BooksKept, Connected
  <1>5. ASSUME NEW s \in Side, CloseExpires(s) PROVE BooksKept'
    <2>1. Poll(conn[s], TRUE, FALSE) \in Settled
      BY <1>5, PollSettled DEF CloseExpires, BooksKept
    <2>2. QED BY <1>5, <2>1, SettleBooks DEF CloseExpires
  <1>6. ASSUME NEW s \in Side, RetryExpires(s) PROVE BooksKept'
    <2>1. Poll(conn[s], FALSE, TRUE) \in Settled
      BY <1>6, PollSettled DEF RetryExpires, RetryPending, BooksKept
    <2>2. QED BY <1>6, <2>1, SettleBooks DEF RetryExpires
  <1>7. ASSUME NEW s \in Side, NEW n \in 1 .. WriteLimit[s], AppWrite(s, n) PROVE BooksKept'
    <2> DEFINE base == Written(s)
               data == [k \in 1 .. n |-> Stream(opened[s], base + k)]
    <2>1. conn[s] \in SoundConn /\ Writable(conn[s]) /\ opened[s] > 0
      BY <1>7, ConnectedType DEF AppWrite, Held, BooksKept
    <2>2. opened[s] \in Nat /\ base \in Nat /\ n \in Nat
      <3>1. sent \in [Side -> Seq(Nat)] /\ opened[s] \in 1 .. Len(sent[s])
        BY <2>1 DEF TypeOK
      <3>2. n \in Nat
        BY PairAssumption
      <3>3. QED BY <3>1, <3>2 DEF Written
    <2> HIDE DEF base
    <2>3. data \in Seq(Byte)
      <3>1. \A k \in 1 .. n : Stream(opened[s], base + k) \in Byte
        BY <2>2 DEF Stream, Byte
      <3>2. QED BY <2>2, <3>1
    <2> HIDE DEF data
    <2>4. Write(conn[s], data) \in Settled
      BY <2>1, <2>3, WriteSettled
    <2>5. Settle(s, Write(conn[s], data), net)
      BY <1>7 DEF AppWrite, data, base
    <2>6. QED BY <2>4, <2>5, SettleBooks
  <1>8. ASSUME NEW s \in Side, NEW max \in ReadSizes, AppRead(s, max) PROVE BooksKept'
    <2>1. conn[s] \in SoundConn /\ Idle(conn[s]) /\ max \in Nat
      BY <1>8, PairAssumption DEF AppRead, CanRead, Held, BooksKept
    <2>2. QED BY <1>8, <2>1, ReadSettled, SettleBooks DEF AppRead
  <1>9. ASSUME NEW s \in Side, AppClose(s) PROVE BooksKept'
    <2>1. conn[s] \in SoundConn /\ Idle(conn[s])
      BY <1>9 DEF AppClose, Held, BooksKept
    <2>2. QED BY <1>9, <2>1, CloseSettled, SettleBooks DEF AppClose
  <1>10. ASSUME NEW s \in Side, AppAbort(s) PROVE BooksKept'
    <2>1. conn[s] \in SoundConn /\ conn[s] \in Conn
      BY <1>10, SoundFields DEF AppAbort, BooksKept
    <2>2. Closed(conn[s], <<ResetSegment(conn[s])>>) \in Settled
      BY <2>1, ResetSegmentType, OneSegment, OpenSettled
    <2>3. QED BY <1>10, <2>2, SettleBooks DEF AppAbort
  <1>11. ASSUME NEW s \in Side, Crash(s) PROVE BooksKept'
    BY <1>11 DEF Crash, TypeOK, BooksKept, Connected
  <1>12. QED BY <1>1, <1>2, <1>3, <1>4, <1>5, <1>6, <1>7, <1>8, <1>9, <1>10, <1>11 DEF Next

\* TypeOK and BooksKept together are inductive, so the books are kept always.
LEMMA BooksAreKept == Spec => [](TypeOK /\ BooksKept)
  <1>1. Init => BooksKept
    BY DEF Init, BooksKept, Connected
  <1>2. TypeOK /\ BooksKept /\ [Next]_vars => BooksKept'
    BY StepBooks
  <1>3. QED BY <1>1, <1>2, TypeCorrect, PTL DEF Spec

-----------------------------------------------------------------------------
(* What the books say                                                      *)

\* For every configuration that validate() admits and every schedule of
\* losses, copies, reorderings, timeouts and restarts: no segment in a
\* retransmission queue was sent more than max_retransmissions times, or once
\* if that is zero (retransmit_oldest, poll).
THEOREM BudgetIsKept == Spec => []TransmissionBudget
  <1>1. BooksKept => TransmissionBudget
    <2> SUFFICES ASSUME BooksKept, NEW s \in Side, Connected(s),
                        NEW i \in DOMAIN conn[s].unacked
                 PROVE  conn[s].unacked[i].transmissions <= Larger(MaxTransmissions, 1)
      BY DEF TransmissionBudget
    <2>1. conn[s].unacked \in Seq(SoundSegment)
      BY SoundFields DEF BooksKept
    <2>2. conn[s].unacked[i] \in SoundSegment
      BY <2>1
    <2>3. QED BY <2>2 DEF SoundSegment, Budget
  <1>2. QED BY <1>1, BooksAreKept, PTL

\* The retransmission queue tiles [send_una, send_nxt) whatever ACKs arrive,
\* partial ones and ones of probes included, so no byte in flight is without a
\* segment that would resend it (send_tracked, apply_ack).
THEOREM NoHoleInFlight == Spec => []FlightIsTiled
  <1>1. BooksKept => FlightIsTiled
    <2> SUFFICES ASSUME BooksKept, NEW s \in Side, Connected(s)
                 PROVE  FlightTiled(conn[s])
      BY DEF FlightIsTiled
    <2>1. Tiled(conn[s].unacked, conn[s].send_una, conn[s].send_nxt)
      BY SoundFields DEF BooksKept, Sender
    <2>2. QED BY <2>1 DEF Tiled, FlightTiled
  <1>2. QED BY <1>1, BooksAreKept, PTL

\* Every byte write() accepted is acknowledged, in flight or queued, and in one
\* of them only: SendProgress's debug_assert and the markers built on it cannot
\* be wrong (write, flush_data, apply_ack, zero_window_probe).
THEOREM LedgerBalances == Spec => []ByteLedger
  <1>1. BooksKept => ByteLedger
    BY SoundFields DEF BooksKept, Sender, ByteLedger
  <1>2. QED BY <1>1, BooksAreKept, PTL

\* Whatever arrives in whatever order and overlap, the bytes held for the
\* application and ahead of a hole fit receive_buffer together
\* (insert_received, drain_reassembly, available_window).
THEOREM BufferIsEnough == Spec => []BufferBound
  <1>1. BooksKept => BufferBound
    BY SoundFields DEF BooksKept, Receiver, BufferBound
  <1>2. QED BY <1>1, BooksAreKept, PTL

\* No call or segment leaves payload or a FIN behind that the windows allow to
\* send: next_poll_at, which looks at deadlines only, misses nothing
\* (the callers of flush_data).
THEOREM FlushIsNeverOwed == Spec => []NothingSendableWaits
  <1>1. BooksKept => NothingSendableWaits
    BY SoundFields, IdleFlushes DEF BooksKept, NothingSendableWaits
  <1>2. QED BY <1>1, BooksAreKept, PTL

-----------------------------------------------------------------------------
(* The head of the line                                                    *)

\* A datagram that brings what a synchronized connection waits for moves it
\* on, unless it removes the connection or finds the reassembly table full
\* (insert_received, drain_reassembly).
NextByteTaken ==
  [][\A s \in Side : Synchronized(s) /\ conn'[s] # NoConn /\ HasSlot(conn[s]) =>
       \A seg \in BagToSet(net[s]) :
         Brings(conn[s], seg) /\ seg.flags \cap {"RST", "SYN"} = {} /\ Delivers(s, seg)
         => conn'[s].recv_nxt # conn[s].recv_nxt]_vars

\* One step of it, by the books of the connection before the step.
LEMMA DeliveryMoves ==
  ASSUME TypeOK, BooksKept, NEW s \in Side, Synchronized(s), conn'[s] # NoConn,
         HasSlot(conn[s]), NEW seg \in BagToSet(net[s]), Brings(conn[s], seg),
         seg.flags \cap {"RST", "SYN"} = {}, Delivers(s, seg)
  PROVE  conn'[s].recv_nxt # conn[s].recv_nxt
  <1>1. seg \in Segment
    BY SegmentInFlight
  <1>2. conn[s] \in SoundConn /\ conn[s].state \notin Opening
    BY DEF BooksKept, Synchronized, Opening
  <1>3. PICK u : u = InputKnown(conn[s], seg)
    OBVIOUS
  <1>4. u.closed \/ u.conn.recv_nxt # conn[s].recv_nxt
    BY <1>1, <1>2, <1>3, InputTakesHead
  <1>5. \E n : Apply(s, u, n)
    BY <1>3 DEF Delivers, Deliver, DeliverCopy, Input, InputSyn, InputUnknown,
                InputConnected, Synchronized
  <1>6. conn' = [conn EXCEPT ![s] = IF u.closed THEN NoConn ELSE u.conn]
    BY <1>5 DEF Apply, Settle
  <1>7. conn'[s] = IF u.closed THEN NoConn ELSE u.conn
    BY <1>6 DEF TypeOK
  <1>8. QED BY <1>4, <1>7

\* For every configuration and every schedule: a datagram that carries the byte
\* at recv_nxt while the window is open, alone or behind bytes received before,
\* or the FIN that is due, is never refused while the table has a free slot.
\* Without one it is: see the run MCTableFull
\* (insert_received, drain_reassembly, on_segment).
THEOREM HeadIsNeverRefused == Spec => NextByteTaken
  <1>1. TypeOK /\ BooksKept /\ [Next]_vars
          => [\A s \in Side : Synchronized(s) /\ conn'[s] # NoConn /\ HasSlot(conn[s]) =>
                \A seg \in BagToSet(net[s]) :
                  Brings(conn[s], seg) /\ seg.flags \cap {"RST", "SYN"} = {} /\ Delivers(s, seg)
                  => conn'[s].recv_nxt # conn[s].recv_nxt]_vars
    BY DeliveryMoves
  <1>2. QED BY <1>1, BooksAreKept, PTL DEF Spec, NextByteTaken

-----------------------------------------------------------------------------
(* The streams of the two sides                                            *)

\* Connection i of s is the one s has.
Current(s, i) == Connected(s) /\ i = opened[s]

\* Nothing more will be written on the i-th connection of s.
Over(s, i) == i < opened[s] \/ WritesNoMore(s)

\* The stream of the i-th connection of s, as far as segments may speak of it.
View(s, i) ==
  [first |-> Isn[s][i], id |-> i, total |-> sent[s][i],
   end |-> IF Current(s, i) THEN Distance(Isn[s][i], conn[s].send_nxt) ELSE 2 + sent[s][i],
   over |-> Over(s, i)]

\* The i-th connection of s took in the beginning of its peer's j-th stream.
Follows(s, i, j) ==
  /\ received[s][i] = Request!Prefix(j, Len(received[s][i]))
  /\ Len(received[s][i]) <= sent[Peer(s)][j]
  /\ Current(s, i) => Hears(conn[s], View(Peer(s), j), Len(received[s][i]))

\* It took in all of that stream before place a.
Took(s, i, j, a) ==
  /\ Follows(s, i, j)
  /\ \/ a <= 1 + Len(received[s][i])
     \/ /\ a = 2 + sent[Peer(s)][j] /\ Over(Peer(s), j)
        /\ Len(received[s][i]) = sent[Peer(s)][j]

\* An ACK of the i-th connection of s is right.
Acks(s, i, ack) ==
  \E j \in 1 .. opened[Peer(s)] : \E a \in 1 .. 2 + sent[Peer(s)][j] :
    ack = Plus(Isn[Peer(s)][j], a) /\ Took(s, i, j, a)

\* A datagram of s speaks of one of its streams and acknowledges what that took in.
Genuine(s, seg) ==
  IF "RST" \in seg.flags THEN "SYN" \notin seg.flags
  ELSE \E i \in 1 .. opened[s] : Spoken(seg, View(s, i)) /\ (seg.ack # None => Acks(s, i, seg.ack))

OnlyGenuine == \A s \in Side : \A seg \in BagToSet(net[Peer(s)]) : Genuine(s, seg)

\* The connections of s are as many, and their streams as long, as the
\* applications have use for, and the one s has tells its stream.
Fits(s) ==
  /\ opened[s] <= Len(Isn[s])
  /\ \A i \in 1 .. opened[s] : sent[s][i] <= WriteLimit[s]
  /\ Connected(s) => /\ conn[s].accepted = sent[s][opened[s]]
                     /\ Tells(conn[s], Isn[s][opened[s]], opened[s])

AllFit == \A s \in Side : Fits(s)

\* The connection of s, once its handshake is over, follows a stream of its peer.
Attends(s) ==
  IF conn[s].state = "SynSent" THEN received[s][opened[s]] = <<>> /\ ~conn[s].read_closed
  ELSE \E j \in 1 .. opened[Peer(s)] : Follows(s, opened[s], j)

AllAttend == \A s \in Side : Connected(s) => Attends(s)

StreamsKept == OnlyGenuine /\ AllFit /\ AllAttend

-----------------------------------------------------------------------------

\* Each side is its peer's peer, and there is no third.
LEMMA TwoSides ==
  ASSUME NEW s \in Side
  PROVE  /\ Peer(s) \in Side /\ Peer(s) # s /\ Peer(Peer(s)) = s
         /\ \A t \in Side : t = s \/ t = Peer(s)
  <1>1. PICK p \in Side : Side = {Opener, p} /\ p # Opener
    BY PairAssumption
  <1>2. \E q \in Side : q # s
    BY <1>1, PairAssumption
  <1>3. Peer(s) \in Side /\ Peer(s) # s
    BY <1>2 DEF Peer
  <1>4. \E q \in Side : q # Peer(s)
    BY <1>3
  <1>5. Peer(Peer(s)) \in Side /\ Peer(Peer(s)) # Peer(s)
    BY <1>4 DEF Peer
  <1>6. QED BY <1>1, <1>3, <1>5, PairAssumption

\* The fields of a stream.
LEMMA ViewFields ==
  ASSUME NEW s, NEW i
  PROVE  /\ View(s, i).first = Isn[s][i] /\ View(s, i).id = i /\ View(s, i).total = sent[s][i]
         /\ View(s, i).over = Over(s, i)
         /\ View(s, i).end = IF Current(s, i) THEN Distance(Isn[s][i], conn[s].send_nxt)
                             ELSE 2 + sent[s][i]
  BY DEF View

\* The connection s has tells the stream of s's last connection.
LEMMA ViewOfCurrent ==
  ASSUME TypeOK, AllFit, NEW s \in Side, Connected(s)
  PROVE  View(s, opened[s]) = ViewOf(conn[s], Isn[s][opened[s]], opened[s])
  <1>1. conn[s].accepted = sent[s][opened[s]] /\ conn[s] \in Conn /\ opened[s] \in Nat
    BY ConnectedType DEF AllFit, Fits, TypeOK
  <1>2. Over(s, opened[s]) = (FinSent(conn[s]) \/ conn[s].close_requested)
    <2>1. conn[s].state \in State /\ ~(opened[s] < opened[s])
      BY <1>1 DEF Conn
    <2>2. conn[s].state \notin {"SynSent", "SynReceived", "Established", "CloseWait"}
            <=> FinSent(conn[s])
      BY <2>1 DEF State, FinSent
    <2>3. QED BY <2>1, <2>2 DEF Over, WritesNoMore
  <1>3. Current(s, opened[s])
    BY DEF Current
  <1>4. QED BY <1>1, <1>2, <1>3 DEF View, ViewOf

\* The streams of a side are streams.
LEMMA ViewType ==
  ASSUME StreamsApart, TypeOK, AllFit, NEW s \in Side, NEW i \in 1 .. opened[s]
  PROVE  View(s, i) \in Views /\ Isn[s][i] \in SeqNumber /\ i \in Nat /\ sent[s][i] \in Nat
  <1>1. /\ Isn[s] \in Seq(SeqNumber) /\ opened[s] \in Nat /\ opened[s] <= Len(Isn[s])
        /\ sent[s] \in Seq(Nat) /\ Len(sent[s]) = opened[s]
    BY PairAssumption DEF TypeOK, AllFit, Fits
  <1>2. Isn[s][i] \in SeqNumber /\ i \in Nat /\ sent[s][i] \in Nat
    BY <1>1
  <1>3. CASE Current(s, i)
    <2>1. Connected(s) /\ i = opened[s]
      BY <1>3 DEF Current
    <2>2. conn[s] \in Conn /\ Numbered(conn[s], Isn[s][i])
      BY <2>1, ConnectedType DEF AllFit, Fits, Tells
    <2>3. View(s, i) = ViewOf(conn[s], Isn[s][i], i)
      BY <2>1, ViewOfCurrent
    <2>4. QED BY <1>2, <2>2, <2>3, ViewOfType
  <1>4. CASE ~Current(s, i)
    <2>1. Over(s, i) \in BOOLEAN
      BY DEF Over, WritesNoMore
    <2>2. sent[s][i] <= WriteLimit[s] /\ WriteLimit[s] \in Nat
          /\ WriteLimit[s] + 2 + ReceiveBuffer < Modulus
      BY PairAssumption DEF AllFit, Fits, StreamsApart
    <2>3. sent[s][i] + 2 + ReceiveBuffer < Modulus
      BY <1>2, <2>2, ConfigAssumption, ModulusAssumption
    <2>4. View(s, i) = [first |-> Isn[s][i], id |-> i, total |-> sent[s][i],
                        end |-> 2 + sent[s][i], over |-> Over(s, i)]
      BY <1>4 DEF View
    <2>5. QED BY <1>2, <2>1, <2>3, <2>4 DEF Views
  <1>5. QED BY <1>2, <1>3, <1>4

\* No sequence number belongs to two streams of a side.
LEMMA ViewsApart ==
  ASSUME StreamsApart, TypeOK, AllFit, NEW s \in Side,
         NEW i \in 1 .. opened[s], NEW j \in 1 .. opened[s]
  PROVE  View(s, i) = View(s, j) \/ Apart(View(s, i), View(s, j))
  <1>1. CASE i = j
    BY <1>1
  <1>2. CASE i # j
    <2>1. opened[s] \in Nat /\ opened[s] <= Len(Isn[s]) /\ Len(Isn[s]) \in Nat
      BY PairAssumption DEF TypeOK, AllFit, Fits
    <2>2. i \in 1 .. Len(Isn[s]) /\ j \in 1 .. Len(Isn[s])
      BY <2>1
    <2>3. PICK a : a = Distance(Isn[s][i], Isn[s][j])
      OBVIOUS
    <2>4. PICK b : b = Distance(Isn[s][j], Isn[s][i])
      OBVIOUS
    <2>5. /\ a >= WriteLimit[s] + 2 + ReceiveBuffer /\ b >= WriteLimit[s] + 2 + ReceiveBuffer
          /\ sent[s][i] <= WriteLimit[s] /\ sent[s][j] <= WriteLimit[s]
      BY <1>2, <2>2, <2>3, <2>4 DEF StreamsApart, AllFit, Fits
    <2>6. a \in Nat /\ b \in Nat /\ sent[s][i] \in Nat /\ sent[s][j] \in Nat
      <3>1. Isn[s][i] \in SeqNumber /\ Isn[s][j] \in SeqNumber
        BY ViewType
      <3>2. QED BY <2>3, <2>4, <3>1, ViewType, PlusOfDistance
    <2>7. a >= sent[s][i] + 2 + ReceiveBuffer /\ b >= sent[s][j] + 2 + ReceiveBuffer
      <3>1. WriteLimit[s] \in Nat /\ ReceiveBuffer \in Nat
        BY PairAssumption, ConfigAssumption
      <3>2. QED BY <2>5, <2>6, <3>1
    <2>8. QED BY <2>3, <2>4, <2>7, ViewFields DEF Apart
  <1>3. QED BY <1>1, <1>2

-----------------------------------------------------------------------------
(* What a step leaves of what was true before                              *)

\* The streams of s only grow.
Grown(s) ==
  /\ opened[s] <= opened'[s]
  /\ \A i \in 1 .. opened[s] :
       View(s, i) \in Views /\ View(s, i)' \in Views /\ Grows(View(s, i), View(s, i)')

\* A side that a step does not touch.
Unaffected(s) ==
  conn'[s] = conn[s] /\ opened'[s] = opened[s] /\ sent'[s] = sent[s] /\ received'[s] = received[s]

\* A step that leaves a side alone leaves what is seen of it.
LEMMA UnaffectedView ==
  ASSUME NEW s, Unaffected(s), NEW i
  PROVE  View(s, i)' = View(s, i) /\ (Current(s, i)' <=> Current(s, i))
         /\ (Connected(s)' <=> Connected(s)) /\ Over(s, i)' = Over(s, i)
  BY DEF Unaffected, View, Current, Over, Connected, WritesNoMore

\* What s took in stays taken in, and acknowledgements right, as its peer's streams grow.
LEMMA TookCarries ==
  ASSUME StreamsApart, TypeOK, NEW s \in Side, Unaffected(s), Grown(Peer(s)),
         NEW i \in 1 .. opened[s], NEW j \in 1 .. opened[Peer(s)], Follows(s, i, j)
  PROVE  /\ Follows(s, i, j)'
         /\ \A a \in Nat : Took(s, i, j, a) => Took(s, i, j, a)'
  <1> DEFINE p == Peer(s)
  <1>1. PICK d \in Views : d = View(p, j)
    BY DEF Grown
  <1>2. PICK e \in Views : e = View(p, j)'
    BY DEF Grown
  <1>3. Grows(d, e)
    BY <1>1, <1>2 DEF Grown
  <1>4. /\ d.total = sent[p][j] /\ e.total = sent'[p][j] /\ d.over = Over(p, j)
        /\ e.over = Over(p, j)'
    BY <1>1, <1>2, ViewFields DEF View
  <1>5. PICK got \in Nat : got = Len(received[s][i])
    <2>1. received[s] \in Seq(Seq(Byte)) /\ Len(received[s]) = opened[s]
      BY DEF TypeOK
    <2>2. received[s][i] \in Seq(Byte)
      BY <2>1
    <2>3. QED BY <2>2
  <1>6. received'[s][i] = received[s][i] /\ (Current(s, i)' <=> Current(s, i))
        /\ (Current(s, i) => Connected(s) /\ conn'[s] = conn[s])
    BY UnaffectedView DEF Unaffected, Current
  <1>7. sent[p][j] <= sent'[p][j] /\ sent[p][j] \in Nat /\ sent'[p][j] \in Nat
        /\ (Over(p, j) => Over(p, j)' /\ sent'[p][j] = sent[p][j])
    BY <1>3, <1>4 DEF Grows, Views
  <1>8. Current(s, i) => Hears(conn[s], e, got)
    <2>1. ASSUME Current(s, i) PROVE Hears(conn[s], e, got)
      <3>1. conn[s] \in Conn /\ Hears(conn[s], d, got)
        BY <1>1, <1>5, <1>6, <2>1, ConnectedType DEF Follows
      <3>2. QED BY <1>3, <3>1, HearsGrows
    <2>2. QED BY <2>1
  <1>9. got <= sent'[p][j]
    BY <1>5, <1>7 DEF Follows
  <1>10. Follows(s, i, j)'
    BY <1>2, <1>5, <1>6, <1>8, <1>9 DEF Follows
  <1>11. ASSUME NEW a \in Nat, Took(s, i, j, a) PROVE Took(s, i, j, a)'
    BY <1>6, <1>7, <1>10, <1>11 DEF Took
  <1>12. QED BY <1>10, <1>11
-----------------------------------------------------------------------------
(* A step of one connection                                                *)

\* Only "segments" of s come to be in flight.
Carries(s, segments) ==
  \A t \in Side : \A x \in BagToSet(net'[t]) :
    \/ x \in BagToSet(net[t])
    \/ t = Peer(s) /\ \E k \in 1 .. Len(segments) : x = segments[k]

\* The connection of s becomes e and takes in "more" of the stream it follows.
Catches(s, e, more) ==
  IF conn[s].state = "SynSent"
  THEN /\ more = <<>> /\ ~e.read_closed
       /\ \/ e.state = "SynSent"
          \/ \E j \in 1 .. opened[Peer(s)] : Hears(e, View(Peer(s), j), 0)
  ELSE \A j \in 1 .. opened[Peer(s)] : Follows(s, opened[s], j) =>
         \E m \in Nat :
           /\ Hears(e, View(Peer(s), j), Len(received[s][opened[s]]) + m)
           /\ Len(more) = m /\ NextBytes(more, j, Len(received[s][opened[s]]))

\* The connection of s runs a method, or goes: u says what it leaves and sends,
\* more is what it took in, and the application wrote n bytes.
Runs(s, u, more, n) ==
  /\ Connected(s) /\ Unaffected(Peer(s))
  /\ u.conn \in Conn /\ u.segments \in Seq(Segment) /\ more \in Seq(Byte) /\ n \in Nat
  /\ conn'[s] = (IF u.closed THEN NoConn ELSE u.conn)
  /\ Carries(s, u.segments)
  /\ opened'[s] = opened[s]
  /\ sent'[s] = [sent[s] EXCEPT ![opened[s]] = @ + n]
  /\ received'[s] = [received[s] EXCEPT ![opened[s]] = @ \o more]
  /\ sent[s][opened[s]] + n <= WriteLimit[s]
  /\ Speaks(conn[s], u.conn, u.segments, Isn[s][opened[s]], opened[s])
  /\ u.conn.accepted = conn[s].accepted + n
  /\ Catches(s, u.conn, more)

\* NoConn is no connection.
LEMMA ConnIsSome ==
  /\ NoConn \notin Conn
  /\ \A s : conn[s] \in Conn => Connected(s)
  <1>1. NoConn.state = "Closed"
    BY DEF NoConn
  <1>2. "Closed" \notin State
    BY DEF State
  <1>3. NoConn \notin Conn
    BY <1>1, <1>2 DEF Conn
  <1>4. QED BY <1>3 DEF Connected

\* What the two queues of a side are after a step of its connection.
LEMMA RunsFields ==
  ASSUME TypeOK, NEW s \in Side, NEW u, NEW more, NEW n, Runs(s, u, more, n)
  PROVE  /\ opened[s] \in 1 .. opened[s] /\ opened[s] \in Nat
         /\ Len(sent'[s]) = opened[s] /\ Len(received'[s]) = opened[s]
         /\ sent'[s][opened[s]] = sent[s][opened[s]] + n
         /\ received'[s][opened[s]] = received[s][opened[s]] \o more
         /\ \A i \in 1 .. opened[s] : i # opened[s] =>
              sent'[s][i] = sent[s][i] /\ received'[s][i] = received[s][i]
         /\ \A i \in 1 .. opened[s] : sent[s][i] \in Nat /\ received[s][i] \in Seq(Byte)
         /\ \A i \in 1 .. opened[s] : sent'[s][i] \in Nat
         /\ Connected(s)' <=> ~u.closed
  <1>1. /\ sent[s] \in Seq(Nat) /\ Len(sent[s]) = opened[s]
        /\ received[s] \in Seq(Seq(Byte)) /\ Len(received[s]) = opened[s]
        /\ opened[s] \in Nat
    BY DEF TypeOK
  <1>2. opened[s] > 0
    BY ConnectedType DEF Runs
  <1>3. /\ sent'[s] = [sent[s] EXCEPT ![opened[s]] = @ + n] /\ n \in Nat
        /\ received'[s] = [received[s] EXCEPT ![opened[s]] = @ \o more] /\ more \in Seq(Byte)
    BY DEF Runs
  <1>4. Connected(s)' <=> ~u.closed
    <2>1. u.conn # NoConn
      BY ConnIsSome DEF Runs
    <2>2. QED BY <2>1 DEF Runs, Connected
  <1>5. \A i \in 1 .. opened[s] : sent[s][i] \in Nat /\ received[s][i] \in Seq(Byte)
    BY <1>1
  <1>6. opened[s] \in 1 .. opened[s]
    BY <1>1, <1>2
  <1>7. DOMAIN sent[s] = 1 .. opened[s] /\ DOMAIN received[s] = 1 .. opened[s]
    BY <1>1
  <1>8. /\ sent'[s][opened[s]] = sent[s][opened[s]] + n
        /\ \A i \in 1 .. opened[s] : i # opened[s] => sent'[s][i] = sent[s][i]
    BY <1>3, <1>6, <1>7
  <1>9. /\ received'[s][opened[s]] = received[s][opened[s]] \o more
        /\ \A i \in 1 .. opened[s] : i # opened[s] => received'[s][i] = received[s][i]
    BY <1>3, <1>6, <1>7
  <1>10. Len(sent'[s]) = opened[s]
    <2>1. sent'[s] \in Seq(Nat)
      <3>1. sent[s][opened[s]] + n \in Nat
        BY <1>3, <1>5, <1>6
      <3>2. QED BY <1>1, <1>3, <1>6, <3>1
    <2>2. QED BY <1>1, <1>3, <1>7, <2>1
  <1>11. Len(received'[s]) = opened[s]
    <2>1. received[s][opened[s]] \o more \in Seq(Byte)
      BY <1>3, <1>5, <1>6
    <2>2. received'[s] \in Seq(Seq(Byte))
      BY <1>1, <1>3, <1>6, <2>1
    <2>3. QED BY <1>1, <1>3, <1>7, <2>2
  <1>12. \A i \in 1 .. opened[s] : sent'[s][i] \in Nat
    BY <1>3, <1>5, <1>8
  <1>13. QED BY <1>1, <1>4, <1>5, <1>6, <1>8, <1>9, <1>10, <1>11, <1>12

\* The stream of the connection grows into what its method leaves, and on into
\* what stays of it when the connection goes.
LEMMA RunsGrows ==
  ASSUME StreamsApart, TypeOK, AllFit, NEW s \in Side, NEW u, NEW more, NEW n,
         Runs(s, u, more, n), NEW i, i = opened[s],
         NEW d, d = ViewOf(u.conn, Isn[s][i], i)
  PROVE  /\ d \in Views /\ View(s, i)' \in Views
         /\ Grows(View(s, i), d) /\ Grows(d, View(s, i)')
  <1>1. /\ i \in 1 .. opened[s] /\ i \in Nat /\ opened'[s] = i
        /\ sent'[s][i] = sent[s][i] + n /\ sent'[s][i] \in Nat
        /\ (Connected(s)' <=> ~u.closed)
    <2>1. opened'[s] = opened[s]
      BY DEF Runs
    <2>2. QED BY <2>1, RunsFields
  <1>2. /\ Isn[s][i] \in SeqNumber /\ View(s, i) = ViewOf(conn[s], Isn[s][i], i)
        /\ View(s, i) \in Views /\ conn[s].accepted = sent[s][i]
    BY <1>1, ViewType, ViewOfCurrent DEF Runs, AllFit, Fits
  <1>3. /\ Numbered(u.conn, Isn[s][i]) /\ u.conn \in Conn /\ Grows(View(s, i), d)
        /\ u.conn.accepted = sent'[s][i]
    BY <1>1, <1>2 DEF Runs, Speaks, Tells
  <1>4. d \in Views
    BY <1>1, <1>2, <1>3, ViewOfType
  <1>5. CASE ~u.closed
    <2>1. conn'[s] = u.conn /\ Connected(s)' /\ Current(s, i)'
      BY <1>1, <1>5 DEF Runs, Current
    <2>2. Over(s, i)' = (FinSent(u.conn) \/ u.conn.close_requested)
      <3>1. u.conn.state \in State /\ ~(i < i)
        BY <1>1, <1>3 DEF Conn
      <3>2. u.conn.state \notin {"SynSent", "SynReceived", "Established", "CloseWait"}
              <=> FinSent(u.conn)
        BY <3>1 DEF State, FinSent
      <3>3. QED BY <1>1, <2>1, <3>1, <3>2 DEF Over, WritesNoMore
    <2>3. View(s, i)' = d
      BY <1>1, <1>3, <2>1, <2>2 DEF View, ViewOf
    <2>4. QED BY <1>3, <1>4, <2>3, GrowsOn
  <1>6. CASE u.closed
    <2>1. ~Connected(s)' /\ ~Current(s, i)' /\ Over(s, i)'
      BY <1>1, <1>6 DEF Current, Over, WritesNoMore
    <2>2. PICK over \in BOOLEAN : over = Over(s, i)'
      BY DEF Over, WritesNoMore
    <2>3. PICK w : w = View(s, i)'
      OBVIOUS
    <2>4. w = [first |-> Isn[s][i], id |-> i, total |-> sent'[s][i],
               end |-> 2 + sent'[s][i], over |-> over]
      BY <2>1, <2>2, <2>3 DEF View
    <2>5. /\ w.first = Isn[s][i] /\ w.id = i /\ w.total = sent'[s][i]
          /\ w.end = 2 + sent'[s][i] /\ w.over
      BY <2>1, <2>2, <2>4
    <2>6. /\ d.first = Isn[s][i] /\ d.id = i /\ d.total = sent'[s][i]
      BY <1>3 DEF ViewOf
    <2>7. d.end <= 2 + d.total /\ d.total + 2 + ReceiveBuffer < Modulus
      BY <1>4 DEF Views
    <2>8. w \in Views
      BY <1>1, <1>2, <2>4, <2>6, <2>7 DEF Views
    <2>9. w.total = d.total /\ d.total <= w.total /\ d.end <= w.end
      BY <1>1, <2>5, <2>6, <2>7
    <2>10. Grows(d, w)
      BY <2>5, <2>6, <2>9 DEF Grows
    <2>11. QED BY <1>3, <1>4, <2>3, <2>8, <2>10
  <1>7. QED BY <1>5, <1>6

\* So the streams of both sides only grow, and s still fits.
LEMMA RunsGrown ==
  ASSUME StreamsApart, TypeOK, AllFit, NEW s \in Side, NEW u, NEW more, NEW n,
         Runs(s, u, more, n)
  PROVE  Grown(s) /\ Grown(Peer(s)) /\ AllFit'
  <1>1. /\ opened[s] \in 1 .. opened[s] /\ opened[s] \in Nat /\ opened'[s] = opened[s]
        /\ sent'[s][opened[s]] = sent[s][opened[s]] + n
        /\ \A i \in 1 .. opened[s] : i # opened[s] => sent'[s][i] = sent[s][i]
        /\ (Connected(s)' <=> ~u.closed)
    <2>1. opened'[s] = opened[s]
      BY DEF Runs
    <2>2. QED BY <2>1, RunsFields
  <1>2. Grown(s)
    <2>1. ASSUME NEW i \in 1 .. opened[s]
          PROVE  View(s, i) \in Views /\ View(s, i)' \in Views /\ Grows(View(s, i), View(s, i)')
      <3>1. View(s, i) \in Views
        BY ViewType
      <3>2. CASE i = opened[s]
        <4>1. PICK d : d = ViewOf(u.conn, Isn[s][i], i)
          OBVIOUS
        <4>2. d \in Views /\ View(s, i)' \in Views /\ Grows(View(s, i), d) /\ Grows(d, View(s, i)')
          BY <3>2, <4>1, RunsGrows
        <4>3. QED BY <3>1, <4>2, GrowsOn
      <3>3. CASE i # opened[s]
        <4>1. ~Current(s, i) /\ ~Current(s, i)' /\ i < opened[s]
          BY <1>1, <3>3 DEF Current
        <4>2. (Over(s, i) <=> TRUE) /\ (Over(s, i)' <=> TRUE)
          BY <1>1, <4>1 DEF Over
        <4>3. Over(s, i)' = Over(s, i)
          BY <4>2 DEF Over, WritesNoMore
        <4>4. View(s, i)' = View(s, i)
          BY <1>1, <3>3, <4>1, <4>3 DEF View
        <4>5. QED BY <3>1, <4>4, GrowsOn
      <3>4. QED BY <3>2, <3>3
    <2>2. QED BY <1>1, <2>1 DEF Grown
  <1>3. Unaffected(Peer(s)) /\ Peer(s) \in Side
    BY TwoSides DEF Runs
  <1>4. Grown(Peer(s))
    <2>1. \A i \in 1 .. opened[Peer(s)] : View(Peer(s), i) \in Views
      BY <1>3, ViewType
    <2>2. opened'[Peer(s)] = opened[Peer(s)] /\ opened[Peer(s)] \in Nat
      BY <1>3 DEF Unaffected, TypeOK
    <2>3. QED BY <1>3, <2>1, <2>2, UnaffectedView, GrowsOn DEF Grown
  <1>5. Fits(s)'
    <2>1. opened[s] <= Len(Isn[s]) /\ \A i \in 1 .. opened[s] : sent[s][i] <= WriteLimit[s]
      BY DEF AllFit, Fits
    <2>2. \A i \in 1 .. opened'[s] : sent'[s][i] <= WriteLimit[s]
      BY <1>1, <2>1 DEF Runs
    <2>3. Connected(s)' => /\ conn'[s].accepted = sent'[s][opened'[s]]
                           /\ Tells(conn'[s], Isn[s][opened'[s]], opened'[s])
      <3>1. conn[s].accepted = sent[s][opened[s]]
        BY DEF AllFit, Fits, Runs
      <3>2. QED BY <1>1, <3>1 DEF Runs, Speaks
    <2>4. QED BY <1>1, <2>1, <2>2, <2>3 DEF Fits
  <1>6. Fits(Peer(s))'
    BY <1>3, UnaffectedView DEF AllFit, Fits, Unaffected
  <1>7. QED BY <1>2, <1>4, <1>5, <1>6, TwoSides DEF AllFit
\* The beginning of stream j.
LEMMA PrefixFacts ==
  ASSUME NEW j \in Nat, NEW got \in Nat
  PROVE  Request!Prefix(j, got) \in Seq(Byte) /\ Len(Request!Prefix(j, got)) = got
  <1>1. Request!Prefix(j, got) = [k \in 1 .. got |-> <<j, k>>]
    BY DEF Request!Prefix
  <1>2. \A k \in 1 .. got : <<j, k>> \in Byte
    BY DEF Byte
  <1>3. QED BY <1>1, <1>2

\* The beginning of stream j and the bytes that come next.
LEMMA PrefixOn ==
  ASSUME NEW j \in Nat, NEW got \in Nat, NEW more \in Seq(Byte), NextBytes(more, j, got)
  PROVE  Request!Prefix(j, got) \o more = Request!Prefix(j, got + Len(more))
  <1>1. PICK p : p = Request!Prefix(j, got)
    OBVIOUS
  <1>2. PICK m \in Nat : m = Len(more)
    OBVIOUS
  <1>3. PICK at \in Nat : at = got + m
    OBVIOUS
  <1>4. PICK q : q = Request!Prefix(j, at)
    OBVIOUS
  <1>5. p \in Seq(Byte) /\ Len(p) = got /\ q \in Seq(Byte) /\ Len(q) = at
    BY <1>1, <1>4, PrefixFacts
  <1>6. p = [k \in 1 .. got |-> <<j, k>>] /\ q = [k \in 1 .. at |-> <<j, k>>]
    BY <1>1, <1>4 DEF Request!Prefix
  <1>7. p \o more \in Seq(Byte) /\ Len(p \o more) = at
    BY <1>2, <1>3, <1>5, ConcatProperties
  <1>8. ASSUME NEW k \in 1 .. at PROVE (p \o more)[k] = q[k]
    <2>1. q[k] = <<j, k>>
      BY <1>6
    <2>2. CASE k <= got
      <3>1. (p \o more)[k] = p[k] /\ k \in 1 .. got
        BY <1>2, <1>3, <1>5, <2>2
      <3>2. QED BY <1>6, <2>1, <3>1
    <2>3. CASE k > got
      <3>1. (p \o more)[k] = more[k - got] /\ k - got \in 1 .. m
        BY <1>2, <1>3, <1>5, <2>3
      <3>2. more[k - got] = <<j, got + (k - got)>>
        BY <1>2, <3>1 DEF NextBytes
      <3>3. got + (k - got) = k
        BY <2>3
      <3>4. QED BY <2>1, <3>1, <3>2, <3>3
    <2>4. k <= got \/ k > got
      OBVIOUS
    <2>5. QED BY <2>2, <2>3, <2>4
  <1>9. p \o more = q
    BY <1>5, <1>7, <1>8, SeqEqual
  <1>10. QED BY <1>1, <1>2, <1>3, <1>4, <1>9

\* A connection that took in the end of its peer's stream took in all of it.
LEMMA HeardFacts ==
  ASSUME NEW e, NEW d \in Views, NEW got \in Nat, Hears(e, d, got)
  PROVE  /\ e.state # "SynSent" /\ got <= d.total
         /\ e.read_closed => got = d.total /\ d.over
         /\ \E a \in 1 .. 2 + d.total :
              /\ e.recv_nxt = Plus(d.first, a)
              /\ a <= 1 + got \/ (a = 2 + d.total /\ d.over /\ got = d.total /\ e.read_closed)
  <1>1. e.state # "SynSent" /\ got <= d.total /\ (e.read_closed => got = d.total /\ d.over)
    BY DEF Hears
  <1>2. PICK f \in {0, 1} : f = Units(e.read_closed) /\ (f = 1 => e.read_closed)
    BY DEF Units
  <1>3. e.recv_nxt = Plus(d.first, 1 + got + f) /\ d.total \in Nat
    BY <1>2 DEF Hears, Views
  <1>4. 1 + got + f \in 1 .. 2 + d.total
    BY <1>1, <1>2, <1>3
  <1>5. 1 + got + f <= 1 + got \/ (1 + got + f = 2 + d.total /\ d.over /\ got = d.total /\ e.read_closed)
    BY <1>1, <1>2, <1>3
  <1>6. QED BY <1>1, <1>3, <1>4, <1>5

\* What the connection of s follows, it still follows after a step, and what it
\* has acknowledged stays right.
LEMMA RunsFollows ==
  ASSUME StreamsApart, TypeOK, AllFit, NEW s \in Side, NEW u, NEW more, NEW n,
         Runs(s, u, more, n), NEW i \in 1 .. opened[s], NEW j \in 1 .. opened[Peer(s)],
         Follows(s, i, j)
  PROVE  /\ Follows(s, i, j)'
         /\ \A a \in Nat : Took(s, i, j, a) => Took(s, i, j, a)'
         /\ i = opened[s] =>
              \E m \in Nat :
                /\ received'[s][i] = Request!Prefix(j, Len(received[s][i]) + m)
                /\ Hears(u.conn, View(Peer(s), j), Len(received[s][i]) + m)
  <1>1. PICK p \in Side : p = Peer(s)
    BY TwoSides
  <1>2. Unaffected(p) /\ opened'[s] = opened[s]
    BY <1>1 DEF Runs
  <1>3. /\ View(p, j)' = View(p, j) /\ Over(p, j)' = Over(p, j) /\ sent'[p][j] = sent[p][j]
        /\ View(p, j) \in Views /\ j \in Nat /\ sent[p][j] \in Nat
        /\ View(p, j).total = sent[p][j] /\ View(p, j).over = Over(p, j)
    BY <1>1, <1>2, UnaffectedView, ViewType, ViewFields DEF Unaffected
  <1>4. PICK got \in Nat : got = Len(received[s][i])
    BY RunsFields
  <1>5. CASE i # opened[s]
    <2>1. received'[s][i] = received[s][i] /\ ~Current(s, i)' /\ ~Current(s, i)
      BY <1>2, <1>5, RunsFields DEF Current
    <2>2. QED BY <1>1, <1>3, <1>5, <2>1 DEF Follows, Took
  <1>6. CASE i = opened[s]
    <2>1. Current(s, i) /\ Connected(s)
      BY <1>6 DEF Runs, Current
    <2>2. received[s][i] = Request!Prefix(j, got) /\ Hears(conn[s], View(p, j), got)
      BY <1>1, <1>4, <2>1 DEF Follows
    <2>3. conn[s].state # "SynSent"
      BY <1>3, <2>2, HeardFacts
    <2>4. PICK m \in Nat :
            /\ Hears(u.conn, View(p, j), got + m)
            /\ Len(more) = m /\ NextBytes(more, j, got)
      <3>1. Follows(s, opened[s], j) /\ got = Len(received[s][opened[s]])
        BY <1>4, <1>6
      <3>2. Catches(s, u.conn, more) /\ j \in 1 .. opened[Peer(s)]
        BY DEF Runs
      <3>3. QED BY <1>1, <2>3, <3>1, <3>2 DEF Catches
    <2>5. received'[s][i] = Request!Prefix(j, got + m)
      <3>1. received'[s][i] = received[s][i] \o more
        BY <1>6, RunsFields
      <3>2. more \in Seq(Byte)
        BY DEF Runs
      <3>3. j \in Nat /\ Len(more) = m /\ NextBytes(more, j, got)
        BY <1>3, <2>4
      <3>4. Request!Prefix(j, got) \o more = Request!Prefix(j, got + m)
        BY <3>2, <3>3, PrefixOn
      <3>5. QED BY <2>2, <3>1, <3>4
    <2>6. Len(received'[s][i]) = got + m /\ got + m \in Nat
      <3>1. PICK at \in Nat : at = got + m
        OBVIOUS
      <3>2. Len(Request!Prefix(j, at)) = at
        BY <1>3, PrefixFacts
      <3>3. QED BY <2>5, <3>1, <3>2
    <2>7. /\ got + m <= sent[p][j]
          /\ u.conn.read_closed => got + m = sent[p][j] /\ Over(p, j)
      BY <1>3, <2>4, <2>6, HeardFacts
    <2>8. Current(s, i)' => conn'[s] = u.conn
      BY RunsFields DEF Runs, Current
    <2>9. Follows(s, i, j)'
      BY <1>1, <1>3, <2>4, <2>5, <2>6, <2>7, <2>8 DEF Follows
    <2>10. ASSUME NEW a \in Nat, Took(s, i, j, a) PROVE Took(s, i, j, a)'
      <3>1. CASE a <= 1 + got
        BY <2>6, <2>9, <3>1 DEF Took
      <3>2. CASE a > 1 + got
        <4>1. a = 2 + sent[p][j] /\ Over(p, j) /\ got = sent[p][j]
          BY <1>1, <1>4, <2>1, <2>10, <3>2 DEF Took
        <4>2. got + m = sent[p][j]
          BY <1>3, <2>7, <4>1
        <4>3. QED BY <1>1, <1>3, <2>6, <2>9, <4>1, <4>2 DEF Took
      <3>3. QED BY <3>1, <3>2
    <2>11. QED BY <1>1, <1>4, <2>4, <2>5, <2>9, <2>10
  <1>7. QED BY <1>5, <1>6

\* Having heard the beginning of a stream, the connection of s acknowledges what it took in.
LEMMA HeardTook ==
  ASSUME NEW s, NEW i, NEW j, NEW e, Follows(s, i, j), View(Peer(s), j) \in Views,
         Len(received[s][i]) \in Nat, Hears(e, View(Peer(s), j), Len(received[s][i]))
  PROVE  \E a \in 1 .. 2 + sent[Peer(s)][j] :
           e.recv_nxt = Plus(Isn[Peer(s)][j], a) /\ Took(s, i, j, a)
  <1>1. PICK d \in Views : d = View(Peer(s), j)
    OBVIOUS
  <1>2. PICK got \in Nat : got = Len(received[s][i])
    OBVIOUS
  <1>3. d.first = Isn[Peer(s)][j] /\ d.total = sent[Peer(s)][j] /\ d.over = Over(Peer(s), j)
    BY <1>1, ViewFields
  <1>4. PICK a \in 1 .. 2 + d.total :
          /\ e.recv_nxt = Plus(d.first, a)
          /\ a <= 1 + got \/ (a = 2 + d.total /\ d.over /\ got = d.total)
    BY <1>1, <1>2, HeardFacts
  <1>5. Took(s, i, j, a)
    BY <1>2, <1>3, <1>4 DEF Took
  <1>6. QED BY <1>3, <1>4, <1>5

\* What was taken in stays taken in.
StaysTaken(s) ==
  \A i \in 1 .. opened[s] : \A j \in 1 .. opened[Peer(s)] : \A a \in Nat :
    Took(s, i, j, a) => Took(s, i, j, a)'

\* A right acknowledgement stays right.
LEMMA AcksCarry ==
  ASSUME TypeOK, NEW s \in Side, StaysTaken(s), Grown(Peer(s)),
         opened'[Peer(s)] \in Nat, NEW i \in 1 .. opened[s], NEW ack, Acks(s, i, ack)
  PROVE  Acks(s, i, ack)'
  <1>1. PICK p \in Side : p = Peer(s)
    BY TwoSides
  <1>2. PICK j \in 1 .. opened[p] : \E a \in 1 .. 2 + sent[p][j] :
          ack = Plus(Isn[p][j], a) /\ Took(s, i, j, a)
    BY <1>1 DEF Acks
  <1>3. PICK a \in 1 .. 2 + sent[p][j] : ack = Plus(Isn[p][j], a) /\ Took(s, i, j, a)
    BY <1>2
  <1>4. /\ opened[p] <= opened'[p] /\ View(p, j) \in Views /\ View(p, j)' \in Views
        /\ Grows(View(p, j), View(p, j)')
    BY <1>1 DEF Grown
  <1>5. sent[p][j] \in Nat /\ sent'[p][j] \in Nat /\ sent[p][j] <= sent'[p][j]
    <2>1. PICK d \in Views : d = View(p, j)
      BY <1>4
    <2>2. PICK e \in Views : e = View(p, j)'
      BY <1>4
    <2>3. d.total = sent[p][j] /\ e.total = sent'[p][j]
      BY <2>1, <2>2 DEF View
    <2>4. QED BY <1>4, <2>1, <2>2, <2>3 DEF Grows, Views
  <1>6. j \in 1 .. opened'[p]
    <2>1. opened[p] \in Nat
      BY DEF TypeOK
    <2>2. opened'[p] \in Nat
      BY <1>1
    <2>3. QED BY <1>4, <2>1, <2>2
  <1>7. a \in 1 .. 2 + sent'[p][j] /\ a \in Nat
    BY <1>5
  <1>8. Took(s, i, j, a)'
    BY <1>1, <1>3, <1>7 DEF StaysTaken
  <1>9. QED BY <1>1, <1>3, <1>6, <1>7, <1>8 DEF Acks

\* A genuine datagram stays genuine.
LEMMA GenuineCarries ==
  ASSUME TypeOK, NEW s \in Side, StaysTaken(s), Grown(s), Grown(Peer(s)),
         opened'[s] \in Nat, opened'[Peer(s)] \in Nat,
         NEW x \in Segment, Genuine(s, x)
  PROVE  Genuine(s, x)'
  <1>1. CASE "RST" \in x.flags
    BY <1>1 DEF Genuine
  <1>2. CASE "RST" \notin x.flags
    <2>1. PICK i \in 1 .. opened[s] :
            Spoken(x, View(s, i)) /\ (x.ack # None => Acks(s, i, x.ack))
      BY <1>2 DEF Genuine
    <2>2. View(s, i) \in Views /\ View(s, i)' \in Views /\ Grows(View(s, i), View(s, i)')
      BY DEF Grown
    <2>3. x.data \in Seq(Byte)
      BY DEF Segment
    <2>4. PICK e \in Views : e = View(s, i)'
      BY <2>2
    <2>5. Spoken(x, e)
      BY <2>1, <2>2, <2>3, <2>4, SpokenGrows
    <2>6. Spoken(x, View(s, i))'
      BY <2>4, <2>5
    <2>7. x.ack # None => Acks(s, i, x.ack)'
      BY <2>1, AcksCarry
    <2>8. i \in 1 .. opened'[s]
      BY DEF Grown, TypeOK
    <2>9. QED BY <1>2, <2>6, <2>7, <2>8 DEF Genuine
  <1>3. QED BY <1>1, <1>2

\* A step leaves what is true of both sides true of what they were before.
LEMMA KeepsGenuine ==
  ASSUME TypeOK, OnlyGenuine, \A s \in Side : StaysTaken(s) /\ Grown(s) /\ opened'[s] \in Nat,
         \A s \in Side : \A x \in BagToSet(net'[Peer(s)]) :
           x \in BagToSet(net[Peer(s)]) \/ Genuine(s, x)'
  PROVE  OnlyGenuine'
  <1>1. ASSUME NEW s \in Side, NEW x \in BagToSet(net'[Peer(s)])
        PROVE  Genuine(s, x)'
    <2>1. CASE Genuine(s, x)'
      BY <2>1
    <2>2. CASE x \in BagToSet(net[Peer(s)])
      <3>1. Peer(s) \in Side
        BY TwoSides
      <3>2. x \in Segment /\ Genuine(s, x)
        BY <2>2, <3>1, SegmentInFlight DEF OnlyGenuine
      <3>3. QED BY <3>1, <3>2, GenuineCarries
    <2>3. QED BY <2>1, <2>2
  <1>2. QED BY <1>1 DEF OnlyGenuine

\* A connection that is past its handshake after a step of it follows a stream.
LEMMA RunsHears ==
  ASSUME StreamsApart, TypeOK, AllFit, AllAttend, NEW s \in Side, NEW u, NEW more, NEW n,
         Runs(s, u, more, n), NEW i, i = opened[s], u.conn.state # "SynSent"
  PROVE  \E j \in 1 .. opened[Peer(s)] :
           /\ Follows(s, i, j)'
           /\ Hears(u.conn, View(Peer(s), j), Len(received'[s][i]))
  <1>1. i \in 1 .. opened[s] /\ Connected(s)
    <2>1. Connected(s)
      BY DEF Runs
    <2>2. QED BY <2>1, RunsFields
  <1>2. CASE conn[s].state # "SynSent"
    <2>1. PICK j \in 1 .. opened[Peer(s)] : Follows(s, i, j)
      BY <1>1, <1>2 DEF AllAttend, Attends
    <2>2. PICK m \in Nat :
            /\ received'[s][i] = Request!Prefix(j, Len(received[s][i]) + m)
            /\ Hears(u.conn, View(Peer(s), j), Len(received[s][i]) + m)
      BY <1>1, <2>1, RunsFollows
    <2>3. Len(received'[s][i]) = Len(received[s][i]) + m
      <3>1. Len(received[s][i]) \in Nat
        <4>1. received[s][i] \in Seq(Byte)
          BY <1>1, RunsFields
        <4>2. QED BY <4>1
      <3>2. PICK at \in Nat : at = Len(received[s][i]) + m
        BY <3>1
      <3>3. j \in Nat
        OBVIOUS
      <3>4. Len(Request!Prefix(j, at)) = at
        BY <3>2, <3>3, PrefixFacts
      <3>5. QED BY <2>2, <3>2, <3>4
    <2>4. Follows(s, i, j)'
      BY <1>1, <2>1, RunsFollows
    <2>5. QED BY <2>2, <2>3, <2>4
  <1>3. CASE conn[s].state = "SynSent"
    <2>1. PICK j \in 1 .. opened[Peer(s)] : Hears(u.conn, View(Peer(s), j), 0) /\ more = <<>>
      <3>1. Catches(s, u.conn, more)
        BY DEF Runs
      <3>2. QED BY <1>3, <3>1 DEF Catches
    <2>2. received'[s][i] = <<>> \o <<>>
      <3>1. received[s][i] = <<>>
        BY <1>1, <1>3 DEF AllAttend, Attends
      <3>2. received'[s][i] = received[s][i] \o more
        BY RunsFields
      <3>3. QED BY <2>1, <3>1, <3>2
    <2>3. received'[s][i] = <<>> /\ Len(received'[s][i]) = 0
      BY <2>2
    <2>4. Request!Prefix(j, 0) = <<>>
      <3>1. j \in Nat
        OBVIOUS
      <3>2. Request!Prefix(j, 0) \in Seq(Byte) /\ Len(Request!Prefix(j, 0)) = 0
        BY <3>1, PrefixFacts
      <3>3. QED BY <3>2
    <2>5. PICK p \in Side : p = Peer(s) /\ View(p, j)' = View(p, j) /\ sent'[p][j] \in Nat
      <3>1. PICK p \in Side : p = Peer(s)
        BY TwoSides
      <3>2. Unaffected(p)
        BY <3>1 DEF Runs
      <3>3. j \in 1 .. opened[p]
        BY <3>1
      <3>4. sent[p][j] \in Nat
        BY <3>1, <3>3, ViewType
      <3>5. View(p, j)' = View(p, j)
        BY <3>2, UnaffectedView
      <3>6. sent'[p][j] = sent[p][j]
        BY <3>2 DEF Unaffected
      <3>7. QED BY <3>1, <3>4, <3>5, <3>6
    <2>6. Current(s, i)' => conn'[s] = u.conn
      <3>1. Connected(s)' <=> ~u.closed
        BY RunsFields
      <3>2. conn'[s] = IF u.closed THEN NoConn ELSE u.conn
        BY DEF Runs
      <3>3. QED BY <3>1, <3>2 DEF Current
    <2>7. Follows(s, i, j)'
      BY <2>1, <2>3, <2>4, <2>5, <2>6 DEF Follows
    <2>8. QED BY <2>1, <2>3, <2>7
  <1>4. QED BY <1>2, <1>3

\* What s sends in a step of its connection is genuine.
LEMMA RunsGenuine ==
  ASSUME StreamsApart, TypeOK, AllFit, AllAttend, NEW s \in Side, NEW u, NEW more, NEW n,
         Runs(s, u, more, n), NEW k \in 1 .. Len(u.segments)
  PROVE  Genuine(s, u.segments[k])'
  <1>1. PICK p \in Side : p = Peer(s)
    BY TwoSides
  <1>2. PICK i : i = opened[s]
    OBVIOUS
  <1>3. i \in 1 .. opened[s] /\ i \in Nat /\ opened'[s] = i
    <2>1. opened'[s] = opened[s]
      BY DEF Runs
    <2>2. QED BY <1>2, <2>1, RunsFields
  <1>4. PICK x : x = u.segments[k]
    OBVIOUS
  <1>5. x \in Segment
    <2>1. u.segments \in Seq(Segment)
      BY DEF Runs
    <2>2. QED BY <1>4, <2>1
  <1>6. PICK d : d = ViewOf(u.conn, Isn[s][i], i)
    OBVIOUS
  <1>7. d \in Views /\ View(s, i)' \in Views /\ Grows(d, View(s, i)')
    BY <1>2, <1>6, RunsGrows
  <1>8. Utterance(x, d, Heard(conn[s]) \cup Heard(u.conn))
    <2>1. Speaks(conn[s], u.conn, u.segments, Isn[s][i], i)
      BY <1>2 DEF Runs
    <2>2. QED BY <1>4, <1>6, <2>1 DEF Speaks, Utters
  <1>9. CASE "RST" \in x.flags /\ "SYN" \notin x.flags
    BY <1>4, <1>9 DEF Genuine
  <1>10. CASE Spoken(x, d) /\ x.ack \in Heard(conn[s]) \cup Heard(u.conn)
    <2>1. Spoken(x, View(s, i))'
      <3>1. PICK e \in Views : e = View(s, i)'
        BY <1>7
      <3>2. x.data \in Seq(Byte)
        BY <1>5 DEF Segment
      <3>3. Spoken(x, e)
        BY <1>7, <1>10, <3>1, <3>2, SpokenGrows
      <3>4. QED BY <3>1, <3>3
    <2>2. ASSUME x.ack # None PROVE Acks(s, i, x.ack)'
      <3>1. ASSUME conn[s].state # "SynSent", x.ack = conn[s].recv_nxt
            PROVE  Acks(s, i, x.ack)'
        <4>1. Connected(s)
          BY DEF Runs
        <4>2. PICK j \in 1 .. opened[p] : Follows(s, i, j)
          BY <1>1, <1>2, <3>1, <4>1 DEF AllAttend, Attends
        <4>3. Hears(conn[s], View(p, j), Len(received[s][i]))
          BY <1>1, <1>2, <4>1, <4>2 DEF Follows, Current
        <4>4. View(p, j) \in Views
          BY <1>1, ViewType
        <4>5. Len(received[s][i]) \in Nat
          <5>1. received[s][i] \in Seq(Byte)
            BY <1>3, RunsFields
          <5>2. QED BY <5>1
        <4>6. PICK a \in 1 .. 2 + sent[p][j] :
                conn[s].recv_nxt = Plus(Isn[p][j], a) /\ Took(s, i, j, a)
          BY <1>1, <4>2, <4>3, <4>4, <4>5, HeardTook
        <4>7. opened'[p] = opened[p] /\ sent'[p] = sent[p]
          BY <1>1 DEF Runs, Unaffected
        <4>8. a \in Nat
          BY <1>1, ViewType
        <4>9. Took(s, i, j, a)'
          BY <1>1, <1>3, <4>2, <4>6, <4>8, RunsFollows
        <4>10. QED BY <1>1, <3>1, <4>6, <4>7, <4>9 DEF Acks
      <3>2. ASSUME u.conn.state # "SynSent", x.ack = u.conn.recv_nxt
            PROVE  Acks(s, i, x.ack)'
        <4>1. PICK j \in 1 .. opened[p] :
                /\ Follows(s, i, j)'
                /\ Hears(u.conn, View(p, j), Len(received'[s][i]))
          BY <1>1, <1>2, <3>2, RunsHears
        <4>2. PICK v \in Views : v = View(p, j) /\ v = View(p, j)'
          BY <1>1, ViewType, UnaffectedView DEF Runs
        <4>3. /\ opened'[p] = opened[p] /\ v.first = Isn[p][j] /\ v.total = sent'[p][j]
              /\ v.over = Over(p, j)'
          <5>1. opened'[p] = opened[p]
            BY <1>1 DEF Runs, Unaffected
          <5>2. v.first = Isn[p][j] /\ v.total = sent'[p][j] /\ v.over = Over(p, j)'
            BY <4>2 DEF View
          <5>3. QED BY <5>1, <5>2
        <4>4. PICK got \in Nat : got = Len(received'[s][i])
          <5>1. more \in Seq(Byte) /\ received[s][i] \in Seq(Byte)
                /\ received'[s][i] = received[s][i] \o more
            <6>1. more \in Seq(Byte)
              BY DEF Runs
            <6>2. received[s][i] \in Seq(Byte)
              BY <1>3, RunsFields
            <6>3. received'[s][i] = received[s][i] \o more
              BY <1>2, RunsFields
            <6>4. QED BY <6>1, <6>2, <6>3
          <5>2. received'[s][i] \in Seq(Byte)
            BY <5>1, ConcatProperties
          <5>3. QED BY <5>2
        <4>5. PICK a \in 1 .. 2 + v.total :
                /\ u.conn.recv_nxt = Plus(v.first, a)
                /\ a <= 1 + got \/ (a = 2 + v.total /\ v.over /\ got = v.total)
          <5>1. Hears(u.conn, v, got)
            BY <4>1, <4>2, <4>4
          <5>2. QED BY <5>1, HeardFacts
        <4>6. Took(s, i, j, a)'
          BY <1>1, <4>1, <4>3, <4>4, <4>5 DEF Took
        <4>7. QED BY <1>1, <3>2, <4>3, <4>5, <4>6 DEF Acks
      <3>3. \/ conn[s].state # "SynSent" /\ x.ack = conn[s].recv_nxt
            \/ u.conn.state # "SynSent" /\ x.ack = u.conn.recv_nxt
        BY <1>10, <2>2 DEF Heard
      <3>4. QED BY <3>1, <3>2, <3>3
    <2>3. "RST" \notin x.flags
      BY <1>10 DEF Spoken
    <2>4. QED BY <1>3, <1>4, <2>1, <2>2, <2>3 DEF Genuine
  <1>11. QED BY <1>8, <1>9, <1>10 DEF Utterance

\* The side that a step leaves alone attends as before.
LEMMA OtherAttends ==
  ASSUME StreamsApart, TypeOK, AllAttend, NEW s \in Side, Unaffected(s), Grown(Peer(s)),
         opened'[Peer(s)] \in Nat, Connected(s)'
  PROVE  Attends(s)'
  <1>1. Connected(s) /\ conn'[s] = conn[s] /\ received'[s] = received[s] /\ opened'[s] = opened[s]
    BY UnaffectedView DEF Unaffected
  <1>2. Attends(s)
    BY <1>1 DEF AllAttend
  <1>3. CASE conn[s].state = "SynSent"
    BY <1>1, <1>2, <1>3 DEF Attends
  <1>4. CASE conn[s].state # "SynSent"
    <2>1. opened[s] \in 1 .. opened[s]
      <3>1. opened[s] > 0 /\ opened[s] \in Nat
        BY <1>1, ConnectedType DEF TypeOK
      <3>2. QED BY <3>1
    <2>2. PICK p \in Side : p = Peer(s)
      BY TwoSides
    <2>3. PICK j \in 1 .. opened[p] : Follows(s, opened[s], j)
      BY <1>2, <1>4, <2>2 DEF Attends
    <2>4. PICK b : b = opened[s]
      OBVIOUS
    <2>5. Follows(s, b, j)'
      BY <2>1, <2>2, <2>3, <2>4, TookCarries
    <2>6. j \in 1 .. opened'[p]
      <3>1. opened[p] <= opened'[p] /\ opened[p] \in Nat /\ opened'[p] \in Nat
        BY <2>2 DEF Grown, TypeOK
      <3>2. QED BY <3>1
    <2>7. QED BY <1>1, <1>4, <2>2, <2>4, <2>5, <2>6 DEF Attends
  <1>5. QED BY <1>3, <1>4

\* Both sides attend after a step of one's connection.
LEMMA RunsAttend ==
  ASSUME StreamsApart, TypeOK, AllFit, AllAttend, NEW s \in Side, NEW u, NEW more, NEW n,
         Runs(s, u, more, n)
  PROVE  AllAttend'
  <1>1. PICK p \in Side : p = Peer(s)
    BY TwoSides
  <1>2. PICK i : i = opened[s]
    OBVIOUS
  <1>3. i \in 1 .. opened[s] /\ i \in Nat /\ opened'[s] = i /\ Connected(s)
        /\ (Connected(s)' <=> ~u.closed)
    <2>1. opened'[s] = opened[s] /\ Connected(s)
      BY DEF Runs
    <2>2. QED BY <1>2, <2>1, RunsFields
  <1>4. Unaffected(p) /\ opened'[p] = opened[p]
    BY <1>1 DEF Runs, Unaffected
  <1>5. ASSUME Connected(s)' PROVE Attends(s)'
    <2>1. conn'[s] = u.conn
      BY <1>3, <1>5 DEF Runs
    <2>2. CASE u.conn.state # "SynSent"
      <3>1. \E j \in 1 .. opened[p] : Follows(s, i, j)'
        BY <1>1, <1>2, <2>2, RunsHears
      <3>2. QED BY <1>1, <1>3, <1>4, <2>1, <2>2, <3>1 DEF Attends
    <2>3. CASE u.conn.state = "SynSent"
      <3>1. conn[s].state = "SynSent"
        <4>1. ASSUME conn[s].state # "SynSent" PROVE FALSE
          <5>1. PICK j \in 1 .. opened[p] : Follows(s, i, j)
            BY <1>1, <1>2, <1>3, <4>1 DEF AllAttend, Attends
          <5>2. PICK m \in Nat : Hears(u.conn, View(p, j), Len(received[s][i]) + m)
            BY <1>1, <1>2, <1>3, <5>1, RunsFollows
          <5>3. QED BY <2>3, <5>2 DEF Hears
        <4>2. QED BY <4>1
      <3>2. more = <<>> /\ ~u.conn.read_closed
        BY <3>1 DEF Runs, Catches
      <3>3. received[s][i] = <<>>
        BY <1>2, <1>3, <3>1 DEF AllAttend, Attends
      <3>4. received'[s][i] = received[s][i] \o more
        BY <1>2, RunsFields
      <3>5. received'[s][i] = <<>>
        BY <3>2, <3>3, <3>4
      <3>6. QED BY <1>3, <2>1, <2>3, <3>2, <3>5 DEF Attends
    <2>4. QED BY <2>2, <2>3
  <1>6. Connected(p)' => Attends(p)'
    <2>1. Peer(p) = s /\ Grown(s)
      BY <1>1, RunsGrown, TwoSides
    <2>2. QED BY <1>3, <1>4, <2>1, OtherAttends
  <1>7. QED BY <1>1, <1>5, <1>6, TwoSides DEF AllAttend

\* A step of one connection keeps the streams.
LEMMA RunsKept ==
  ASSUME StreamsApart, TypeOK, TypeOK', StreamsKept, NEW s \in Side, NEW u, NEW more, NEW n,
         Runs(s, u, more, n)
  PROVE  StreamsKept'
  <1>1. PICK p \in Side : p = Peer(s) /\ Peer(p) = s /\ \A t \in Side : t = s \/ t = p
    BY TwoSides
  <1>2. OnlyGenuine /\ AllFit /\ AllAttend
    BY DEF StreamsKept
  <1>3. Grown(s) /\ Grown(p) /\ AllFit'
    BY <1>1, <1>2, RunsGrown
  <1>4. AllAttend'
    BY <1>2, RunsAttend
  <1>5. StaysTaken(s)
    <2>1. ASSUME NEW i \in 1 .. opened[s], NEW j \in 1 .. opened[Peer(s)], NEW a \in Nat,
                 Took(s, i, j, a)
          PROVE  Took(s, i, j, a)'
      BY <1>2, <2>1, RunsFollows DEF Took
    <2>2. QED BY <2>1 DEF StaysTaken
  <1>6. StaysTaken(p)
    <2>1. Unaffected(p)
      BY <1>1 DEF Runs
    <2>2. ASSUME NEW i \in 1 .. opened[p], NEW j \in 1 .. opened[Peer(p)], NEW a \in Nat,
                 Took(p, i, j, a)
          PROVE  Took(p, i, j, a)'
      <3>1. Follows(p, i, j)
        BY <2>2 DEF Took
      <3>2. QED BY <1>1, <1>3, <2>1, <2>2, <3>1, TookCarries
    <2>3. QED BY <2>2 DEF StaysTaken
  <1>7. ASSUME NEW t \in Side, NEW x \in BagToSet(net'[Peer(t)])
        PROVE  x \in BagToSet(net[Peer(t)]) \/ Genuine(t, x)'
    <2>1. Carries(s, u.segments) /\ Peer(t) \in Side
      BY <1>7, TwoSides DEF Runs
    <2>2. CASE x \in BagToSet(net[Peer(t)])
      BY <2>2
    <2>3. CASE Peer(t) = Peer(s) /\ \E k \in 1 .. Len(u.segments) : x = u.segments[k]
      <3>1. t = s
        BY <1>1, <2>3, TwoSides
      <3>2. PICK k \in 1 .. Len(u.segments) : x = u.segments[k]
        BY <2>3
      <3>3. QED BY <1>2, <3>1, <3>2, RunsGenuine
    <2>4. QED BY <1>7, <2>1, <2>2, <2>3 DEF Carries
  <1>8. \A t \in Side : opened'[t] \in Nat
    BY DEF TypeOK
  <1>9. OnlyGenuine'
    BY <1>1, <1>2, <1>3, <1>5, <1>6, <1>7, <1>8, KeepsGenuine
  <1>10. QED BY <1>3, <1>4, <1>9 DEF StreamsKept
-----------------------------------------------------------------------------
(* A new connection                                                        *)

\* s has a new connection that sends its first segments: it waits for an answer,
\* or answers a stream of its peer.
Founds(s, u) ==
  /\ ~Connected(s) /\ MayOpen(s) /\ Unaffected(Peer(s))
  /\ u.conn \in Conn /\ u.segments \in Seq(Segment)
  /\ conn'[s] = u.conn
  /\ Carries(s, u.segments)
  /\ opened'[s] = opened[s] + 1
  /\ sent'[s] = Append(sent[s], 0)
  /\ received'[s] = Append(received[s], <<>>)
  /\ \/ /\ Begins(u, Isn[s][opened[s] + 1], opened[s] + 1, {None})
        /\ u.conn.state = "SynSent"
     \/ /\ u.conn.state # "SynSent"
        /\ \E j \in 1 .. opened[Peer(s)] :
             /\ Begins(u, Isn[s][opened[s] + 1], opened[s] + 1, {None, Plus(Isn[Peer(s)][j], 1)})
             /\ Hears(u.conn, View(Peer(s), j), 0)

\* The streams of s after that.
LEMMA FoundsFields ==
  ASSUME TypeOK, NEW s \in Side, NEW u, Founds(s, u), NEW i, i = opened[s] + 1
  PROVE  /\ i \in Nat /\ i \in 1 .. i /\ i <= Len(Isn[s]) /\ Isn[s][i] \in SeqNumber
         /\ opened'[s] = i /\ opened[s] \in Nat
         /\ sent'[s][i] = 0 /\ received'[s][i] = <<>>
         /\ \A k \in 1 .. opened[s] :
              k # i /\ sent'[s][k] = sent[s][k] /\ received'[s][k] = received[s][k]
         /\ \A k \in 1 .. i : k \in 1 .. opened[s] \/ k = i
         /\ Connected(s)'
  <1>1. /\ sent[s] \in Seq(Nat) /\ Len(sent[s]) = opened[s]
        /\ received[s] \in Seq(Seq(Byte)) /\ Len(received[s]) = opened[s]
        /\ opened[s] \in Nat /\ Isn[s] \in Seq(SeqNumber)
    BY PairAssumption DEF TypeOK
  <1>2. i \in Nat /\ i \in 1 .. i /\ i <= Len(Isn[s])
    BY <1>1 DEF Founds, MayOpen
  <1>3. Isn[s][i] \in SeqNumber
    BY <1>1, <1>2
  <1>4. opened'[s] = i /\ sent'[s] = Append(sent[s], 0) /\ received'[s] = Append(received[s], <<>>)
    BY DEF Founds
  <1>5. sent'[s][i] = 0 /\ \A k \in 1 .. opened[s] : k # i /\ sent'[s][k] = sent[s][k]
    BY <1>1, <1>4
  <1>6. received'[s][i] = <<>> /\ \A k \in 1 .. opened[s] : received'[s][k] = received[s][k]
    <2>1. <<>> \in Seq(Byte)
      OBVIOUS
    <2>2. QED BY <1>1, <1>4, <2>1
  <1>7. Connected(s)'
    BY ConnIsSome DEF Founds, Connected
  <1>8. \A k \in 1 .. i : k \in 1 .. opened[s] \/ k = i
    BY <1>1
  <1>9. QED BY <1>1, <1>2, <1>3, <1>4, <1>5, <1>6, <1>7, <1>8

\* The earlier streams of s stay what they are, and the new one is empty.
LEMMA FoundsViews ==
  ASSUME TypeOK, NEW s \in Side, NEW u, Founds(s, u), NEW i, i = opened[s] + 1
  PROVE  /\ \A k \in 1 .. opened[s] :
              View(s, k)' = View(s, k) /\ ~Current(s, k) /\ ~Current(s, k)'
         /\ View(s, i)' = NewView(Isn[s][i], i)
  <1>1. ASSUME NEW k \in 1 .. opened[s]
        PROVE  View(s, k)' = View(s, k) /\ ~Current(s, k) /\ ~Current(s, k)'
    <2>1. ~Connected(s)
      BY DEF Founds
    <2>2. k < opened'[s] /\ k # opened'[s] /\ sent'[s][k] = sent[s][k]
      <3>1. opened'[s] = i /\ sent'[s][k] = sent[s][k] /\ k # i /\ opened[s] \in Nat
        BY FoundsFields
      <3>2. QED BY <3>1
    <2>3. ~Current(s, k) /\ ~Current(s, k)'
      BY <2>1, <2>2 DEF Current
    <2>4. Over(s, k)' = Over(s, k)
      <3>1. Over(s, k) = TRUE
        BY <2>1 DEF Over, WritesNoMore
      <3>2. Over(s, k)' = TRUE
        BY <2>2 DEF Over, WritesNoMore
      <3>3. QED BY <3>1, <3>2
    <2>5. View(s, k)' = View(s, k)
      BY <2>2, <2>3, <2>4 DEF View
    <2>6. QED BY <2>3, <2>5
  <1>2. View(s, i)' = NewView(Isn[s][i], i)
    <2>1. /\ opened'[s] = i /\ sent'[s][i] = 0 /\ i \in Nat /\ Connected(s)'
      BY FoundsFields
    <2>2. conn'[s] = u.conn /\ u.conn \in Conn
      BY DEF Founds
    <2>3. u.conn.accepted = 0 /\ ViewOf(u.conn, Isn[s][i], i) = NewView(Isn[s][i], i)
      BY DEF Founds, Begins
    <2>4. Over(s, i)' = (FinSent(u.conn) \/ u.conn.close_requested)
      <3>1. u.conn.state \in State /\ ~(i < i)
        BY <2>1, <2>2 DEF Conn
      <3>2. u.conn.state \notin {"SynSent", "SynReceived", "Established", "CloseWait"}
              <=> FinSent(u.conn)
        BY <3>1 DEF State, FinSent
      <3>3. QED BY <2>1, <2>2, <3>1, <3>2 DEF Over, WritesNoMore
    <2>5. Current(s, i)'
      BY <2>1 DEF Current
    <2>6. View(s, i)' = ViewOf(u.conn, Isn[s][i], i)
      BY <2>1, <2>2, <2>3, <2>4, <2>5 DEF View, ViewOf
    <2>7. QED BY <2>3, <2>6
  <1>3. QED BY <1>1, <1>2

\* The streams of both sides only grow, and both sides fit.
LEMMA FoundsGrown ==
  ASSUME StreamsApart, TypeOK, AllFit, NEW s \in Side, NEW u, Founds(s, u)
  PROVE  Grown(s) /\ Grown(Peer(s)) /\ AllFit'
  <1>1. PICK i : i = opened[s] + 1
    OBVIOUS
  <1>2. Grown(s)
    <2>1. \A k \in 1 .. opened[s] : View(s, k) \in Views /\ View(s, k)' = View(s, k)
      BY <1>1, ViewType, FoundsViews
    <2>2. opened[s] <= opened'[s]
      <3>1. opened'[s] = i /\ opened[s] \in Nat
        BY <1>1, FoundsFields
      <3>2. QED BY <1>1, <3>1
    <2>3. QED BY <2>1, <2>2, GrowsOn DEF Grown
  <1>3. Unaffected(Peer(s)) /\ Peer(s) \in Side
    BY TwoSides DEF Founds
  <1>4. Grown(Peer(s))
    <2>1. \A k \in 1 .. opened[Peer(s)] : View(Peer(s), k) \in Views
      BY <1>3, ViewType
    <2>2. opened'[Peer(s)] = opened[Peer(s)] /\ opened[Peer(s)] \in Nat
      BY <1>3 DEF Unaffected, TypeOK
    <2>3. QED BY <1>3, <2>1, <2>2, UnaffectedView, GrowsOn DEF Grown
  <1>5. Fits(s)'
    <2>1. \A k \in 1 .. opened[s] : sent[s][k] <= WriteLimit[s]
      BY DEF AllFit, Fits
    <2>2. /\ opened'[s] = i /\ i <= Len(Isn[s]) /\ sent'[s][i] = 0
          /\ \A k \in 1 .. opened[s] : sent'[s][k] = sent[s][k]
          /\ \A k \in 1 .. i : k \in 1 .. opened[s] \/ k = i
      BY <1>1, FoundsFields
    <2>3. WriteLimit[s] \in Nat
      BY PairAssumption
    <2>4. \A k \in 1 .. opened'[s] : sent'[s][k] <= WriteLimit[s]
      BY <2>1, <2>2, <2>3
    <2>5. conn'[s] = u.conn
      BY DEF Founds
    <2>6. u.conn.accepted = 0 /\ Tells(u.conn, Isn[s][i], i)
      BY <1>1 DEF Founds, Begins
    <2>7. QED BY <2>2, <2>4, <2>5, <2>6 DEF Fits
  <1>6. Fits(Peer(s))'
    BY <1>3, UnaffectedView DEF AllFit, Fits, Unaffected
  <1>7. QED BY <1>2, <1>4, <1>5, <1>6, TwoSides DEF AllFit

\* What s took in before stays taken in.
LEMMA FoundsTook ==
  ASSUME StreamsApart, TypeOK, AllFit, NEW s \in Side, NEW u, Founds(s, u)
  PROVE  StaysTaken(s) /\ StaysTaken(Peer(s))
  <1>1. PICK p \in Side : p = Peer(s) /\ Peer(p) = s
    BY TwoSides
  <1>2. Unaffected(p)
    BY <1>1 DEF Founds
  <1>3. ASSUME NEW i \in 1 .. opened[s], NEW j \in 1 .. opened[Peer(s)], NEW a \in Nat,
               Took(s, i, j, a)
        PROVE  Took(s, i, j, a)'
    <2>1. received'[s][i] = received[s][i] /\ ~Current(s, i)'
      <3>1. PICK b : b = opened[s] + 1
        OBVIOUS
      <3>2. received'[s][i] = received[s][i]
        BY <3>1, FoundsFields
      <3>3. ~Current(s, i)'
        BY <3>1, FoundsViews
      <3>4. QED BY <3>2, <3>3
    <2>2. sent'[p][j] = sent[p][j] /\ Over(p, j)' = Over(p, j)
      BY <1>2, UnaffectedView DEF Unaffected
    <2>3. Follows(s, i, j)'
      BY <1>1, <1>3, <2>1, <2>2 DEF Took, Follows
    <2>4. QED BY <1>1, <1>3, <2>1, <2>2, <2>3 DEF Took
  <1>4. ASSUME NEW i \in 1 .. opened[p], NEW j \in 1 .. opened[Peer(p)], NEW a \in Nat,
               Took(p, i, j, a)
        PROVE  Took(p, i, j, a)'
    <2>1. Follows(p, i, j)
      BY <1>4 DEF Took
    <2>2. Grown(Peer(p))
      BY <1>1, FoundsGrown
    <2>3. QED BY <1>2, <1>4, <2>1, <2>2, TookCarries
  <1>5. QED BY <1>1, <1>3, <1>4 DEF StaysTaken

\* The new connection took in nothing of a stream.
LEMMA FoundsTakesNothing ==
  ASSUME StreamsApart, TypeOK, AllFit, NEW s \in Side, NEW u, Founds(s, u),
         NEW i, i = opened[s] + 1, NEW j \in 1 .. opened[Peer(s)],
         Hears(u.conn, View(Peer(s), j), 0)
  PROVE  /\ Follows(s, i, j)' /\ j \in 1 .. opened'[Peer(s)]
         /\ 1 \in 1 .. 2 + sent'[Peer(s)][j] /\ Took(s, i, j, 1)'
  <1>1. PICK p \in Side : p = Peer(s)
    BY TwoSides
  <1>2. Unaffected(p) /\ conn'[s] = u.conn
    BY <1>1 DEF Founds
  <1>3. opened'[p] = opened[p] /\ sent'[p][j] \in Nat /\ View(p, j)' = View(p, j)
    <2>1. opened'[p] = opened[p] /\ sent'[p] = sent[p]
      BY <1>2 DEF Unaffected
    <2>2. j \in 1 .. opened[p]
      BY <1>1
    <2>3. sent[p][j] \in Nat
      BY <1>1, <2>2, ViewType
    <2>4. QED BY <1>2, <2>1, <2>3, UnaffectedView
  <1>4. received'[s][i] = <<>> /\ Len(received'[s][i]) = 0
    <2>1. received'[s][i] = <<>>
      BY FoundsFields
    <2>2. QED BY <2>1
  <1>5. Request!Prefix(j, 0) = <<>>
    <2>1. j \in Nat
      OBVIOUS
    <2>2. Request!Prefix(j, 0) \in Seq(Byte) /\ Len(Request!Prefix(j, 0)) = 0
      BY <2>1, PrefixFacts
    <2>3. QED BY <2>2
  <1>6. Follows(s, i, j)'
    BY <1>1, <1>2, <1>3, <1>4, <1>5 DEF Follows
  <1>7. Took(s, i, j, 1)'
    BY <1>4, <1>6 DEF Took
  <1>8. QED BY <1>1, <1>3, <1>6, <1>7

\* The first segments are genuine.
LEMMA FoundsGenuine ==
  ASSUME StreamsApart, TypeOK, AllFit, NEW s \in Side, NEW u, Founds(s, u),
         NEW k \in 1 .. Len(u.segments)
  PROVE  Genuine(s, u.segments[k])'
  <1>1. PICK i : i = opened[s] + 1
    OBVIOUS
  <1>2. PICK v : v = NewView(Isn[s][i], i)
    OBVIOUS
  <1>3. View(s, i)' = v /\ i \in 1 .. opened'[s]
    <2>1. opened'[s] = i /\ i \in 1 .. i
      BY <1>1, FoundsFields
    <2>2. QED BY <1>1, <1>2, <2>1, FoundsViews
  <1>4. PICK x : x = u.segments[k]
    OBVIOUS
  <1>5. CASE "RST" \in x.flags /\ "SYN" \notin x.flags
    BY <1>4, <1>5 DEF Genuine
  <1>6. CASE Begins(u, Isn[s][i], i, {None})
    <2>1. Utterance(x, v, {None})
      BY <1>2, <1>4, <1>6 DEF Begins, Utters
    <2>2. CASE Spoken(x, v) /\ x.ack \in {None}
      <3>1. Spoken(x, View(s, i))' /\ x.ack = None /\ "RST" \notin x.flags
        BY <1>3, <2>2 DEF Spoken
      <3>2. QED BY <1>3, <1>4, <3>1 DEF Genuine
    <2>3. QED BY <1>5, <2>1, <2>2 DEF Utterance
  <1>7. ASSUME NEW j \in 1 .. opened[Peer(s)],
               Begins(u, Isn[s][i], i, {None, Plus(Isn[Peer(s)][j], 1)}),
               Hears(u.conn, View(Peer(s), j), 0)
        PROVE  Genuine(s, x)'
    <2>1. Utterance(x, v, {None, Plus(Isn[Peer(s)][j], 1)})
      BY <1>2, <1>4, <1>7 DEF Begins, Utters
    <2>2. CASE Spoken(x, v) /\ x.ack \in {None, Plus(Isn[Peer(s)][j], 1)}
      <3>1. Spoken(x, View(s, i))' /\ "RST" \notin x.flags
        BY <1>3, <2>2 DEF Spoken
      <3>2. /\ j \in 1 .. opened'[Peer(s)]
            /\ 1 \in 1 .. 2 + sent'[Peer(s)][j] /\ Took(s, i, j, 1)'
        BY <1>1, <1>7, FoundsTakesNothing
      <3>3. x.ack # None => Acks(s, i, x.ack)'
        BY <2>2, <3>2 DEF Acks
      <3>4. QED BY <1>3, <1>4, <3>1, <3>3 DEF Genuine
    <2>3. QED BY <1>4, <1>5, <2>1, <2>2 DEF Utterance
  <1>8. \/ Begins(u, Isn[s][i], i, {None})
        \/ \E j \in 1 .. opened[Peer(s)] :
             /\ Begins(u, Isn[s][i], i, {None, Plus(Isn[Peer(s)][j], 1)})
             /\ Hears(u.conn, View(Peer(s), j), 0)
    BY <1>1 DEF Founds
  <1>9. QED BY <1>4, <1>6, <1>7, <1>8

\* A new connection keeps the streams.
LEMMA FoundsKept ==
  ASSUME StreamsApart, TypeOK, TypeOK', StreamsKept, NEW s \in Side, NEW u, Founds(s, u)
  PROVE  StreamsKept'
  <1>1. PICK p \in Side : p = Peer(s) /\ Peer(p) = s /\ \A t \in Side : t = s \/ t = p
    BY TwoSides
  <1>2. OnlyGenuine /\ AllFit /\ AllAttend
    BY DEF StreamsKept
  <1>3. Grown(s) /\ Grown(p) /\ AllFit' /\ StaysTaken(s) /\ StaysTaken(p)
    BY <1>1, <1>2, FoundsGrown, FoundsTook
  <1>4. \A t \in Side : opened'[t] \in Nat
    BY DEF TypeOK
  <1>5. Attends(s)'
    <2>1. PICK i : i = opened[s] + 1
      OBVIOUS
    <2>2. opened'[s] = i /\ received'[s][i] = <<>>
      BY <2>1, FoundsFields
    <2>3. conn'[s] = u.conn
      BY DEF Founds
    <2>4. CASE u.conn.state = "SynSent"
      <3>1. ~u.conn.read_closed
        BY DEF Founds, Begins
      <3>2. QED BY <2>2, <2>3, <2>4, <3>1 DEF Attends
    <2>5. CASE u.conn.state # "SynSent"
      <3>1. PICK j \in 1 .. opened[p] : Hears(u.conn, View(p, j), 0)
        BY <1>1, <2>5 DEF Founds
      <3>2. Follows(s, i, j)' /\ j \in 1 .. opened'[p]
        BY <1>1, <1>2, <2>1, <3>1, FoundsTakesNothing
      <3>3. QED BY <1>1, <2>2, <2>3, <2>5, <3>2 DEF Attends
    <2>6. QED BY <2>4, <2>5
  <1>6. Connected(p)' => Attends(p)'
    <2>1. Unaffected(p)
      BY <1>1 DEF Founds
    <2>2. QED BY <1>1, <1>2, <1>3, <1>4, <2>1, OtherAttends
  <1>7. AllAttend'
    BY <1>1, <1>5, <1>6 DEF AllAttend
  <1>8. ASSUME NEW t \in Side, NEW x \in BagToSet(net'[Peer(t)])
        PROVE  x \in BagToSet(net[Peer(t)]) \/ Genuine(t, x)'
    <2>1. Carries(s, u.segments) /\ Peer(t) \in Side
      BY TwoSides DEF Founds
    <2>2. CASE x \in BagToSet(net[Peer(t)])
      BY <2>2
    <2>3. CASE Peer(t) = Peer(s) /\ \E k \in 1 .. Len(u.segments) : x = u.segments[k]
      <3>1. t = s
        BY <1>1, <2>3, TwoSides
      <3>2. PICK k \in 1 .. Len(u.segments) : x = u.segments[k]
        BY <2>3
      <3>3. QED BY <1>2, <3>1, <3>2, FoundsGenuine
    <2>4. QED BY <2>1, <2>2, <2>3 DEF Carries
  <1>9. OnlyGenuine'
    BY <1>1, <1>2, <1>3, <1>4, <1>8, KeepsGenuine
  <1>10. QED BY <1>3, <1>7, <1>9 DEF StreamsKept
-----------------------------------------------------------------------------
(* The steps: those that leave both connections alone                      *)

\* A carrier that has no datagram that was not in flight.
Lesser(n) == CarriesSegments(n) /\ \A t \in Side : BagToSet(n[t]) \subseteq BagToSet(net[t])

\* What the carrier loses or hands over leaves no segment that was not there.
LEMMA TakenOffLesser ==
  ASSUME TypeOK
  PROVE  Lesser(net) /\ \A s \in Side : \A seg : Lesser([net EXCEPT ![s] = BagRemove(@, seg)])
  <1>1. CarriesSegments(net)
    BY DEF TypeOK
  <1>2. ASSUME NEW s \in Side, NEW seg PROVE Lesser([net EXCEPT ![s] = BagRemove(@, seg)])
    <2>1. PICK b : b = BagRemove(net[s], seg)
      OBVIOUS
    <2>2. PICK n : n = [net EXCEPT ![s] = BagRemove(@, seg)]
      OBVIOUS
    <2>3. CarriesSegments(n)
      BY <1>1, <2>2, TakenOffType
    <2>4. n = [net EXCEPT ![s] = b]
      BY <2>1, <2>2
    <2>5. BagToSet(b) \subseteq BagToSet(net[s])
      BY <1>1, <2>1, BagRemoveType DEF BagToSet, CarriesSegments
    <2>6. \A t \in Side : n[t] = IF t = s THEN b ELSE net[t]
      BY <1>1, <2>4 DEF CarriesSegments
    <2>7. \A t \in Side : BagToSet(n[t]) \subseteq BagToSet(net[t])
      BY <2>5, <2>6
    <2>8. QED BY <2>2, <2>3, <2>7 DEF Lesser
  <1>3. QED BY <1>1, <1>2 DEF Lesser

\* Handing segments to the carrier puts no others in flight.
LEMMA SendCarries ==
  ASSUME TypeOK, NEW s \in Side, NEW segments \in Seq(Segment), NEW n, Lesser(n),
         net' = Send(n, s, segments)
  PROVE  Carries(s, segments)
  <1>1. PICK p \in Side : p = Peer(s)
    BY TwoSides
  <1>2. PICK b : b = BagOfSeq(segments)
    OBVIOUS
  <1>3. PICK a : a = n[p]
    OBVIOUS
  <1>4. IsABag(b) /\ IsABag(a)
    BY <1>1, <1>2, <1>3, BagOfSeqType DEF Lesser, CarriesSegments
  <1>5. BagToSet(a (+) b) = BagToSet(a) \cup BagToSet(b)
    BY <1>4, BagSumType DEF BagToSet
  <1>6. BagToSet(b) = {segments[k] : k \in DOMAIN segments}
    BY <1>2 DEF BagToSet, BagOfSeq
  <1>7. DOMAIN segments = 1 .. Len(segments)
    OBVIOUS
  <1>8. PICK c : c = a (+) b
    OBVIOUS
  <1>9. net' = [n EXCEPT ![p] = c] /\ DOMAIN n = Side
    BY <1>1, <1>2, <1>3, <1>8 DEF Send, Lesser, CarriesSegments
  <1>10. \A t \in Side : net'[t] = IF t = p THEN c ELSE n[t]
    BY <1>9
  <1>11. ASSUME NEW t \in Side, NEW x \in BagToSet(net'[t])
         PROVE  \/ x \in BagToSet(net[t])
                \/ t = Peer(s) /\ \E k \in 1 .. Len(segments) : x = segments[k]
    <2>1. BagToSet(n[t]) \subseteq BagToSet(net[t])
      BY DEF Lesser
    <2>2. CASE t # p
      BY <1>10, <1>11, <2>1, <2>2
    <2>3. CASE t = p
      <3>1. x \in BagToSet(a) \cup {segments[k] : k \in 1 .. Len(segments)}
        BY <1>5, <1>6, <1>7, <1>8, <1>10, <1>11, <2>3
      <3>2. QED BY <1>1, <1>3, <2>1, <2>3, <3>1
    <2>4. QED BY <2>2, <2>3
  <1>12. QED BY <1>11 DEF Carries

\* The carrier may lose what it carries, and a reset may be added.
LEMMA CarrierKept ==
  ASSUME TypeOK, StreamsKept, UNCHANGED <<conn, opened, sent, received>>,
         \A t \in Side : \A x \in BagToSet(net'[t]) :
           x \in BagToSet(net[t]) \/ ("RST" \in x.flags /\ "SYN" \notin x.flags)
  PROVE  StreamsKept'
  <1>1. \A s, i : /\ (Current(s, i)' <=> Current(s, i)) /\ Over(s, i)' = Over(s, i)
                  /\ (Connected(s)' <=> Connected(s))
    BY DEF Current, Over, Connected, WritesNoMore
  <1>2. \A s, i : View(s, i)' = View(s, i)
    BY <1>1 DEF View
  <1>3. \A s, i, j : Follows(s, i, j)' <=> Follows(s, i, j)
    BY <1>1, <1>2 DEF Follows
  <1>4. \A s, i, j, a : Took(s, i, j, a)' <=> Took(s, i, j, a)
    BY <1>1, <1>3 DEF Took
  <1>5. \A s, i, ack : Acks(s, i, ack)' <=> Acks(s, i, ack)
    BY <1>4 DEF Acks
  <1>6. \A s, x : Genuine(s, x) => Genuine(s, x)'
    BY <1>2, <1>5 DEF Genuine
  <1>7. OnlyGenuine'
    <2>1. ASSUME NEW s \in Side, NEW x \in BagToSet(net'[Peer(s)]) PROVE Genuine(s, x)'
      <3>1. Peer(s) \in Side
        BY TwoSides
      <3>2. CASE x \in BagToSet(net[Peer(s)])
        BY <1>6, <3>2 DEF StreamsKept, OnlyGenuine
      <3>3. CASE "RST" \in x.flags /\ "SYN" \notin x.flags
        BY <3>3 DEF Genuine
      <3>4. QED BY <2>1, <3>1, <3>2, <3>3
    <2>2. QED BY <2>1 DEF OnlyGenuine
  <1>8. AllFit'
    BY <1>1 DEF StreamsKept, AllFit, Fits
  <1>9. AllAttend'
    BY <1>1, <1>3 DEF StreamsKept, AllAttend, Attends
  <1>10. QED BY <1>7, <1>8, <1>9 DEF StreamsKept
-----------------------------------------------------------------------------
(* The steps: a method of one connection                                   *)

\* A method of the connection of s leaves u, and the connection of its peer alone.
Leaves(s, u) ==
  /\ u.conn \in Conn /\ u.segments \in Seq(Segment) /\ Carries(s, u.segments)
  /\ conn'[s] = (IF u.closed THEN NoConn ELSE u.conn)
  /\ conn'[Peer(s)] = conn[Peer(s)]

\* What a method returns settles into the carrier and the table of its side.
LEMMA SettleLeaves ==
  ASSUME TypeOK, NEW s \in Side, NEW u \in Update, NEW n, Lesser(n), Settle(s, u, n)
  PROVE  Leaves(s, u)
  <1>1. u.conn \in Conn /\ u.segments \in Seq(Segment)
    BY DEF Update
  <1>2. net' = Send(n, s, u.segments)
    BY DEF Settle
  <1>3. Carries(s, u.segments)
    BY <1>1, <1>2, SendCarries
  <1>4. conn \in [Side -> Conn \cup {NoConn}] /\ Peer(s) \in Side /\ Peer(s) # s
    BY TwoSides DEF TypeOK
  <1>5. PICK c : c = IF u.closed THEN NoConn ELSE u.conn
    OBVIOUS
  <1>6. conn' = [conn EXCEPT ![s] = c]
    BY <1>5 DEF Settle
  <1>7. conn'[s] = c /\ conn'[Peer(s)] = conn[Peer(s)]
    BY <1>4, <1>6
  <1>8. QED BY <1>1, <1>3, <1>5, <1>7 DEF Leaves

\* The streams of the connection of s are its last ones.
LEMMA LastStream ==
  ASSUME TypeOK, NEW s \in Side, Connected(s)
  PROVE  /\ conn[s] \in Conn /\ opened[s] \in 1 .. opened[s] /\ opened[s] \in Nat
         /\ sent[s] \in [1 .. opened[s] -> Nat] /\ received[s] \in [1 .. opened[s] -> Seq(Byte)]
         /\ sent[s][opened[s]] \in Nat /\ received[s][opened[s]] \in Seq(Byte)
  <1>1. /\ conn[s] \in Conn /\ opened[s] > 0 /\ opened[s] \in Nat
        /\ sent[s] \in Seq(Nat) /\ Len(sent[s]) = opened[s]
        /\ received[s] \in Seq(Seq(Byte)) /\ Len(received[s]) = opened[s]
    BY ConnectedType DEF TypeOK
  <1>2. opened[s] \in 1 .. opened[s]
    BY <1>1
  <1>3. sent[s] \in [1 .. opened[s] -> Nat] /\ received[s] \in [1 .. opened[s] -> Seq(Byte)]
    BY <1>1
  <1>4. QED BY <1>1, <1>2, <1>3

\* A method that hears nothing takes in nothing.
LEMMA CatchesNothing ==
  ASSUME TypeOK, AllAttend, NEW s \in Side, Connected(s), NEW e, Hearing(conn[s], e)
  PROVE  Catches(s, e, <<>>)
  <1>1. CASE conn[s].state = "SynSent"
    <2>1. e.state = "SynSent" /\ e.read_closed = conn[s].read_closed
      BY <1>1 DEF Hearing
    <2>2. ~conn[s].read_closed
      BY <1>1 DEF AllAttend, Attends
    <2>3. QED BY <1>1, <2>1, <2>2 DEF Catches
  <1>2. CASE conn[s].state # "SynSent"
    <2>1. ASSUME NEW j \in 1 .. opened[Peer(s)], Follows(s, opened[s], j)
          PROVE  \E m \in Nat :
                   /\ Hears(e, View(Peer(s), j), Len(received[s][opened[s]]) + m)
                   /\ Len(<<>>) = m /\ NextBytes(<<>>, j, Len(received[s][opened[s]]))
      <3>1. PICK got \in Nat : got = Len(received[s][opened[s]])
        <4>1. received[s][opened[s]] \in Seq(Byte)
          BY LastStream
        <4>2. QED BY <4>1
      <3>2. Hears(conn[s], View(Peer(s), j), got)
        BY <2>1, <3>1 DEF Follows, Current
      <3>3. Hears(e, View(Peer(s), j), got)
        BY <3>2 DEF Hears, Hearing
      <3>4. got + 0 = got
        OBVIOUS
      <3>5. Len(<<>>) = 0 /\ NextBytes(<<>>, j, got)
        BY DEF NextBytes
      <3>6. QED BY <3>1, <3>3, <3>4, <3>5
    <2>2. QED BY <1>2, <2>1 DEF Catches
  <1>3. QED BY <1>1, <1>2

\* A method that neither writes nor takes in.
LEMMA QuietRuns ==
  ASSUME TypeOK, AllFit, AllAttend, NEW s \in Side, Connected(s), NEW u, Leaves(s, u),
         UNCHANGED <<opened, sent, received>>,
         Speaks(conn[s], u.conn, u.segments, Isn[s][opened[s]], opened[s]),
         Hearing(conn[s], u.conn), u.conn.accepted = conn[s].accepted
  PROVE  Runs(s, u, <<>>, 0)
  <1>1. /\ u.conn \in Conn /\ u.segments \in Seq(Segment) /\ Carries(s, u.segments)
        /\ conn'[s] = (IF u.closed THEN NoConn ELSE u.conn)
        /\ conn'[Peer(s)] = conn[Peer(s)]
    BY DEF Leaves
  <1>2. PICK o : o = opened[s]
    OBVIOUS
  <1>3. /\ conn[s] \in Conn /\ o \in 1 .. o
        /\ sent[s] \in [1 .. o -> Nat] /\ received[s] \in [1 .. o -> Seq(Byte)]
    BY <1>2, LastStream
  <1>4. sent'[s] = [sent[s] EXCEPT ![o] = @ + 0]
    <2>1. sent[s][o] + 0 = sent[s][o]
      BY <1>3
    <2>2. QED BY <1>3, <2>1
  <1>5. received'[s] = [received[s] EXCEPT ![o] = @ \o <<>>]
    <2>1. received[s][o] \in Seq(Byte)
      BY <1>3
    <2>2. received[s][o] \o <<>> = received[s][o]
      BY <2>1
    <2>3. QED BY <1>3, <2>2
  <1>6. sent[s][o] + 0 <= WriteLimit[s]
    <2>1. sent[s][o] <= WriteLimit[s] /\ sent[s][o] \in Nat
      BY <1>2, <1>3 DEF AllFit, Fits
    <2>2. QED BY <2>1
  <1>7. Unaffected(Peer(s)) /\ opened'[s] = opened[s]
    BY <1>1 DEF Unaffected
  <1>8. u.conn.accepted = conn[s].accepted + 0
    <2>1. conn[s].accepted \in Nat
      BY <1>3 DEF Conn
    <2>2. QED BY <2>1
  <1>9. Catches(s, u.conn, <<>>)
    BY CatchesNothing
  <1>10. <<>> \in Seq(Byte) /\ 0 \in Nat
    OBVIOUS
  <1>11. QED BY <1>1, <1>2, <1>4, <1>5, <1>6, <1>7, <1>8, <1>9, <1>10 DEF Runs

\* Nothing is written on a stream that is over, and nothing reported acknowledged
\* that the peer did not take in.
Reports(s, u, n) ==
  \/ u.closed /\ n = 0
  \/ u.conn.acked = conn[s].acked /\ n = 0
  \/ /\ u.conn.acked = conn[s].acked /\ ~u.closed
     /\ Willing(conn[s]) /\ Willing(u.conn)
  \/ /\ n = 0 /\ StaysWilling(conn[s], u.conn)
     /\ conn[s].acked < u.conn.acked
     /\ \E j \in 1 .. opened[Peer(s)] :
          /\ Follows(Peer(s), j, opened[s])
          /\ u.conn.acked <= Len(received[Peer(s)][j])

\* The connection of s makes a step.
Steps(s, u, more, n) == Runs(s, u, more, n) /\ Reports(s, u, n)

\* Poll, close, abort and read neither write nor take in.
LEMMA MethodSteps ==
  ASSUME StreamsApart, TypeOK, BooksKept, AllFit, AllAttend, NEW s \in Side
  PROVE  /\ CloseExpires(s) => Steps(s, Poll(conn[s], TRUE, FALSE), <<>>, 0)
         /\ RetryExpires(s) => Steps(s, Poll(conn[s], FALSE, TRUE), <<>>, 0)
         /\ AppClose(s) => Steps(s, Close(conn[s]), <<>>, 0)
         /\ AppAbort(s) => Steps(s, Closed(conn[s], <<ResetSegment(conn[s])>>), <<>>, 0)
         /\ \A max \in ReadSizes : AppRead(s, max) => Steps(s, Read(conn[s], max), <<>>, 0)
  <1> DEFINE first == Isn[s][opened[s]]
             i == opened[s]
  <1>1. ASSUME Connected(s)
        PROVE  /\ conn[s] \in SoundConn /\ Tells(conn[s], first, i)
               /\ first \in SeqNumber /\ i \in Nat
    <2>1. i \in 1 .. opened[s]
      <3>1. opened[s] > 0 /\ opened[s] \in Nat
        BY <1>1, ConnectedType DEF TypeOK
      <3>2. QED BY <3>1
    <2>2. first \in SeqNumber /\ i \in Nat
      BY <2>1, ViewType
    <2>3. QED BY <1>1, <2>2 DEF BooksKept, AllFit, Fits
  <1>2. ASSUME Connected(s), NEW u \in Update, OnlySpeaks(conn[s], u, first, i),
               Settle(s, u, net), UNCHANGED <<opened, sent, received>>
        PROVE  Steps(s, u, <<>>, 0)
    <2> Leaves(s, u)
      BY <1>2, TakenOffLesser, SettleLeaves
    <2>1. Speaks(conn[s], u.conn, u.segments, first, i) /\ Only(conn[s], u.conn)
      BY <1>2 DEF OnlySpeaks
    <2>2. Hearing(conn[s], u.conn) /\ u.conn.accepted = conn[s].accepted
      BY <2>1, OnlyHearing DEF Only
    <2>3. Runs(s, u, <<>>, 0)
      BY <1>2, <2>1, <2>2, QuietRuns
    <2>4. Reports(s, u, 0)
      BY <2>1 DEF Reports, Only
    <2>5. QED BY <2>3, <2>4 DEF Steps
  <1>3. ASSUME NEW closeDue \in BOOLEAN, NEW retryDue \in BOOLEAN, Connected(s),
               Settle(s, Poll(conn[s], closeDue, retryDue), net),
               UNCHANGED <<opened, sent, received>>
        PROVE  Steps(s, Poll(conn[s], closeDue, retryDue), <<>>, 0)
    <2>1. PICK u : u = Poll(conn[s], closeDue, retryDue)
      OBVIOUS
    <2>2. u \in Update
      BY <1>1, <1>3, <2>1, PollSettled, SettledFields DEF BooksKept
    <2>3. OnlySpeaks(conn[s], u, first, i)
      BY <1>1, <1>3, <2>1, PollSpeaks
    <2>4. QED BY <1>2, <1>3, <2>1, <2>2, <2>3
  <1>4. CloseExpires(s) => Steps(s, Poll(conn[s], TRUE, FALSE), <<>>, 0)
    BY <1>3 DEF CloseExpires
  <1>5. RetryExpires(s) => Steps(s, Poll(conn[s], FALSE, TRUE), <<>>, 0)
    BY <1>3 DEF RetryExpires, RetryPending
  <1>6. ASSUME AppClose(s) PROVE Steps(s, Close(conn[s]), <<>>, 0)
    <2>1. Connected(s) /\ Settle(s, Close(conn[s]), net) /\ UNCHANGED <<opened, sent, received>>
      BY <1>6 DEF AppClose, Held
    <2>2. PICK u : u = Close(conn[s])
      OBVIOUS
    <2>3. u \in Update
      BY <2>1, <2>2, CloseSettled, SettledFields DEF BooksKept
    <2>4. OnlySpeaks(conn[s], u, first, i)
      BY <1>1, <2>1, <2>2, CloseSpeaks
    <2>5. QED BY <1>2, <2>1, <2>2, <2>3, <2>4
  <1>7. ASSUME AppAbort(s) PROVE Steps(s, Closed(conn[s], <<ResetSegment(conn[s])>>), <<>>, 0)
    <2>1. PICK u : u = Closed(conn[s], <<ResetSegment(conn[s])>>)
      OBVIOUS
    <2>2. Connected(s) /\ Settle(s, u, net) /\ UNCHANGED <<opened, sent, received>>
      BY <1>7, <2>1 DEF AppAbort
    <2>3. u \in Update
      <3>1. conn[s] \in SoundConn /\ conn[s] \in Conn
        BY <2>2, SoundFields DEF BooksKept
      <3>2. u \in Settled
        BY <2>1, <3>1, ResetSegmentType, OneSegment, OpenSettled
      <3>3. QED BY <3>2, SettledFields
    <2>4. OnlySpeaks(conn[s], u, first, i)
      BY <1>1, <2>1, <2>2, ShortAnswers
    <2>5. QED BY <1>2, <2>1, <2>2, <2>3, <2>4
  <1>8. ASSUME NEW max \in ReadSizes, AppRead(s, max) PROVE Steps(s, Read(conn[s], max), <<>>, 0)
    <2>1. PICK u : u = Read(conn[s], max)
      OBVIOUS
    <2>2. Connected(s) /\ Settle(s, u, net) /\ UNCHANGED <<opened, sent, received>> /\ max \in Nat
      BY <1>8, <2>1, PairAssumption DEF AppRead, CanRead, Held
    <2>3. u \in Update
      BY <2>1, <2>2, ReadSettled, SettledFields DEF BooksKept
    <2>4. /\ Speaks(conn[s], u.conn, u.segments, first, i) /\ Hearing(conn[s], u.conn)
          /\ u.conn.accepted = conn[s].accepted /\ u.conn.acked = conn[s].acked
      BY <1>1, <2>1, <2>2, ReadSpeaks
    <2>5. Leaves(s, u)
      BY <2>2, <2>3, TakenOffLesser, SettleLeaves
    <2>6. Runs(s, u, <<>>, 0)
      BY <2>2, <2>4, <2>5, QuietRuns
    <2>7. Reports(s, u, 0)
      BY <2>4 DEF Reports
    <2>8. QED BY <2>1, <2>6, <2>7 DEF Steps
  <1>9. QED BY <1>4, <1>5, <1>6, <1>7, <1>8

\* The process restarts: the connection goes without a word.
LEMMA CrashSteps ==
  ASSUME StreamsApart, TypeOK, AllFit, AllAttend, NEW s \in Side, Crash(s)
  PROVE  Steps(s, Closed(conn[s], <<>>), <<>>, 0)
  <1>1. PICK u : u = Closed(conn[s], <<>>)
    OBVIOUS
  <1>2. u.conn = conn[s] /\ u.segments = <<>> /\ u.closed
    BY <1>1 DEF Closed
  <1>3. Connected(s) /\ UNCHANGED <<opened, sent, received>> /\ net' = net
    BY DEF Crash
  <1>4. Leaves(s, u)
    <2>1. conn[s] \in Conn /\ conn \in [Side -> Conn \cup {NoConn}]
      BY <1>3, ConnectedType DEF TypeOK
    <2>2. conn'[s] = NoConn /\ conn'[Peer(s)] = conn[Peer(s)]
      BY <2>1, TwoSides DEF Crash
    <2>3. u.segments \in Seq(Segment)
      BY <1>2
    <2>4. QED BY <1>2, <1>3, <2>1, <2>2, <2>3 DEF Leaves, Carries
  <1>5. Tells(conn[s], Isn[s][opened[s]], opened[s])
    BY <1>3 DEF AllFit, Fits
  <1>6. Isn[s][opened[s]] \in SeqNumber /\ opened[s] \in Nat /\ conn[s] \in Conn
    <2>1. opened[s] \in 1 .. opened[s] /\ conn[s] \in Conn
      BY <1>3, LastStream
    <2>2. QED BY <2>1, ViewType
  <1>7. OnlySpeaks(conn[s], u, Isn[s][opened[s]], opened[s])
    BY <1>1, <1>5, <1>6, SilentSpeaks
  <1>8. /\ Speaks(conn[s], u.conn, u.segments, Isn[s][opened[s]], opened[s])
        /\ Hearing(conn[s], u.conn) /\ u.conn.accepted = conn[s].accepted
    BY <1>2, <1>7, OnlyHearing DEF OnlySpeaks
  <1>9. Runs(s, u, <<>>, 0)
    BY <1>3, <1>4, <1>8, QuietRuns
  <1>10. Reports(s, u, 0)
    BY <1>2 DEF Reports
  <1>11. QED BY <1>1, <1>9, <1>10 DEF Steps

\* A write adds what the buffer takes to the stream of the connection.
LEMMA WriteSteps ==
  ASSUME StreamsApart, TypeOK, BooksKept, AllFit, AllAttend, NEW s \in Side,
         NEW n \in Nat, AppWrite(s, n)
  PROVE  \E data \in Seq(Byte) :
           /\ Steps(s, Write(conn[s], data), <<>>, WriteAccepts(conn[s], n))
           /\ Hearing(conn[s], Write(conn[s], data).conn)
  <1>1. PICK i : i = opened[s]
    OBVIOUS
  <1>2. PICK base : base = sent[s][i]
    OBVIOUS
  <1>3. PICK data : data = [k \in 1 .. n |-> Stream(i, base + k)]
    OBVIOUS
  <1>4. Connected(s) /\ Writable(conn[s]) /\ base + n <= WriteLimit[s]
    BY <1>1, <1>2 DEF AppWrite, Held, Written
  <1>5. PICK u : u = Write(conn[s], data)
    OBVIOUS
  <1>6. PICK k : k = WriteAccepts(conn[s], n)
    OBVIOUS
  <1>7. /\ Settle(s, u, net)
        /\ sent' = [sent EXCEPT ![s][i] = @ + k] /\ opened' = opened /\ received' = received
    BY <1>1, <1>2, <1>3, <1>5, <1>6 DEF AppWrite, Written
  <1>8. /\ conn[s] \in Conn /\ conn[s] \in SoundConn /\ i \in 1 .. i /\ i \in Nat /\ base \in Nat
        /\ sent[s] \in [1 .. i -> Nat] /\ received[s] \in [1 .. i -> Seq(Byte)]
    <2>1. conn[s] \in SoundConn
      BY <1>4 DEF BooksKept
    <2>2. QED BY <1>1, <1>2, <1>4, <2>1, LastStream
  <1>9. data \in Seq(Byte) /\ Len(data) = n
    <2>1. \A j \in 1 .. n : Stream(i, base + j) \in Byte
      BY <1>8 DEF Stream, Byte
    <2>2. QED BY <1>3, <2>1
  <1>10. Isn[s][i] \in SeqNumber /\ Tells(conn[s], Isn[s][i], i) /\ conn[s].accepted = base
    <2>1. Isn[s][i] \in SeqNumber
      BY <1>1, <1>8, ViewType
    <2>2. QED BY <1>1, <1>2, <1>4, <2>1 DEF AllFit, Fits
  <1>11. NextBytes(data, i, conn[s].accepted)
    BY <1>3, <1>9, <1>10 DEF NextBytes, Stream
  <1>12. conn[s].accepted + Len(data) + 2 + ReceiveBuffer < Modulus
    <2>1. WriteLimit[s] + 2 + ReceiveBuffer < Modulus /\ WriteLimit[s] \in Nat
          /\ ReceiveBuffer \in Nat /\ Modulus \in Nat
      BY PairAssumption, ConfigAssumption, ModulusAssumption DEF StreamsApart
    <2>2. base + n + 2 + ReceiveBuffer < Modulus
      BY <1>4, <1>8, <2>1
    <2>3. QED BY <1>9, <1>10, <2>2
  <1>13. /\ Speaks(conn[s], u.conn, u.segments, Isn[s][i], i) /\ Hearing(conn[s], u.conn)
         /\ u.conn.accepted = conn[s].accepted + k /\ u.conn.acked = conn[s].acked
    <2>1. /\ Speaks(conn[s], u.conn, u.segments, Isn[s][i], i) /\ Hearing(conn[s], u.conn)
          /\ u.conn.acked = conn[s].acked
          /\ u.conn.accepted = conn[s].accepted + WriteAccepts(conn[s], Len(data))
      <3>1. PICK c : c = conn[s]
        OBVIOUS
      <3>2. PICK first : first = Isn[s][i]
        OBVIOUS
      <3>3. /\ c \in SoundConn /\ first \in SeqNumber /\ Tells(c, first, i) /\ Writable(c)
            /\ NextBytes(data, i, c.accepted)
            /\ c.accepted + Len(data) + 2 + ReceiveBuffer < Modulus
        BY <1>4, <1>8, <1>10, <1>11, <1>12, <3>1, <3>2
      <3>4. u = Write(c, data)
        BY <1>5, <3>1
      <3>5. /\ Speaks(c, u.conn, u.segments, first, i) /\ Hearing(c, u.conn)
            /\ u.conn.acked = c.acked
            /\ u.conn.accepted = c.accepted + WriteAccepts(c, Len(data))
        BY <1>8, <1>9, <3>3, <3>4, WriteSpeaks
      <3>6. QED BY <3>1, <3>2, <3>5
    <2>2. QED BY <1>6, <1>9, <2>1
  <1>14. k \in Nat /\ k <= n
    BY <1>6, <1>8, WriteAcceptsType
  <1>15. Leaves(s, u)
    <2>1. u \in Update
      BY <1>4, <1>5, <1>8, <1>9, WriteSettled, SettledFields
    <2>2. QED BY <1>7, <2>1, TakenOffLesser, SettleLeaves
  <1>16. sent'[s] = [sent[s] EXCEPT ![i] = @ + k] /\ sent'[Peer(s)] = sent[Peer(s)]
    <2>1. sent \in [Side -> Seq(Nat)]
      BY DEF TypeOK
    <2>2. QED BY <1>7, <2>1, TwoSides
  <1>17. received'[s] = [received[s] EXCEPT ![i] = @ \o <<>>]
    <2>1. received[s][i] \in Seq(Byte)
      BY <1>8
    <2>2. received[s][i] \o <<>> = received[s][i]
      BY <2>1
    <2>3. QED BY <1>7, <1>8, <2>2
  <1>18. base + k <= WriteLimit[s]
    <2>1. WriteLimit[s] \in Nat
      BY PairAssumption
    <2>2. QED BY <1>4, <1>8, <1>14, <2>1
  <1>19. Unaffected(Peer(s))
    BY <1>7, <1>15, <1>16 DEF Leaves, Unaffected
  <1>20. Catches(s, u.conn, <<>>)
    BY <1>4, <1>13, CatchesNothing
  <1>21. <<>> \in Seq(Byte)
    OBVIOUS
  <1>22. Runs(s, u, <<>>, k)
    BY <1>1, <1>2, <1>4, <1>7, <1>13, <1>14, <1>15, <1>16, <1>17, <1>18, <1>19, <1>20, <1>21
       DEF Runs, Leaves
  <1>23. Reports(s, u, k)
    <2>1. Willing(u.conn) /\ ~u.closed
      BY <1>4, <1>5, <1>8, <1>9, WriteWilling
    <2>2. Willing(conn[s])
      BY <1>4 DEF Writable, Willing
    <2>3. QED BY <1>13, <2>1, <2>2 DEF Reports
  <1>24. QED BY <1>5, <1>6, <1>9, <1>13, <1>22, <1>23 DEF Steps

\* What is in flight to s is genuine.
LEMMA GenuineInFlight ==
  ASSUME TypeOK, OnlyGenuine, NEW s \in Side, NEW seg \in BagToSet(net[s])
  PROVE  /\ seg \in Segment
         /\ "RST" \in seg.flags => "SYN" \notin seg.flags
         /\ "RST" \notin seg.flags =>
              \E j \in 1 .. opened[Peer(s)] :
                Spoken(seg, View(Peer(s), j)) /\ (seg.ack # None => Acks(Peer(s), j, seg.ack))
  <1>1. PICK p \in Side : p = Peer(s) /\ Peer(p) = s
    BY TwoSides
  <1>2. Genuine(p, seg)
    BY <1>1 DEF OnlyGenuine
  <1>3. QED BY <1>1, <1>2, SegmentInFlight DEF Genuine

\* A segment that arrives for a connection: it takes in more of the stream it
\* follows, whoever else the segment was meant for, or the handshake goes on.
LEMMA InputCatches ==
  ASSUME StreamsApart, TypeOK, BooksKept, StreamsKept, NEW s \in Side, Connected(s),
         NEW seg \in BagToSet(net[s]), NEW e, e = InputKnown(conn[s], seg).conn
  PROVE  Catches(s, e, Arrived(conn[s], e))
  <1>1. PICK p \in Side : p = Peer(s)
    BY TwoSides
  <1>2. PICK c : c = conn[s]
    OBVIOUS
  <1>3. c \in SoundConn /\ c \in Conn /\ seg \in Segment
    BY <1>2, LastStream, GenuineInFlight DEF StreamsKept, BooksKept
  <1>4. PICK i : i = opened[s] /\ i \in 1 .. opened[s] /\ i \in Nat
    BY LastStream
  <1>5. Tells(c, Isn[s][i], i) /\ Isn[s][i] \in SeqNumber
    BY <1>2, <1>4, ViewType DEF StreamsKept, AllFit, Fits
  <1>6. PICK u : u = InputKnown(c, seg)
    OBVIOUS
  <1>7. /\ Listens(c, e, seg)
        /\ \/ Unmoved(c, e)
           \/ c.state = "SynSent" /\ Starts(c, e, seg)
              /\ "SYN" \in seg.flags /\ "RST" \notin seg.flags
           \/ c.state # "SynSent"
    BY <1>2, <1>3, <1>4, <1>5, <1>6, InputSpeaks
  <1>8. e \in Conn
    <2>1. u \in Update
      BY <1>3, <1>6, InputKnownType
    <2>2. QED BY <1>2, <1>6, <2>1 DEF Update
  <1>9. ASSUME NEW x \in Conn, x.recv_queue = c.recv_queue PROVE Arrived(c, x) = <<>>
    <2>1. PICK q \in Seq(Byte) : q = c.recv_queue
      BY <1>3 DEF Conn
    <2>2. SubSeq(q, Len(q) + 1, Len(q)) = <<>>
      BY <2>1
    <2>3. QED BY <1>9, <2>1, <2>2 DEF Arrived
  <1>10. CASE c.state = "SynSent"
    <2>1. ~c.read_closed
      BY <1>2, <1>10 DEF StreamsKept, AllAttend, Attends
    <2>2. CASE Unmoved(c, e)
      <3>1. e.state = "SynSent" /\ ~e.read_closed /\ e.recv_queue = c.recv_queue
        BY <1>10, <2>1, <2>2 DEF Unmoved, SameReceive
      <3>2. QED BY <1>2, <1>8, <1>9, <1>10, <3>1 DEF Catches
    <2>3. CASE Starts(c, e, seg) /\ "SYN" \in seg.flags /\ "RST" \notin seg.flags
      <3>1. PICK j \in 1 .. opened[p] : Spoken(seg, View(p, j))
        BY <1>1, <2>3, GenuineInFlight DEF StreamsKept
      <3>2. View(p, j) \in Views
        BY <3>1, ViewType DEF StreamsKept
      <3>3. Hears(e, View(p, j), 0)
        BY <1>3, <2>1, <2>3, <3>1, <3>2, StartsHears
      <3>4. ~e.read_closed /\ e.recv_queue = c.recv_queue
        BY <2>1, <2>3 DEF Starts
      <3>5. QED BY <1>1, <1>2, <1>8, <1>9, <1>10, <3>3, <3>4 DEF Catches
    <2>4. QED BY <1>7, <1>10, <2>2, <2>3
  <1>11. CASE c.state # "SynSent"
    <2>1. ASSUME NEW j \in 1 .. opened[Peer(s)], Follows(s, opened[s], j)
          PROVE  \E m \in Nat :
                   /\ Hears(e, View(Peer(s), j), Len(received[s][opened[s]]) + m)
                   /\ Len(Arrived(c, e)) = m
                   /\ NextBytes(Arrived(c, e), j, Len(received[s][opened[s]]))
      <3>1. PICK got \in Nat : got = Len(received[s][opened[s]])
        <4>1. received[s][opened[s]] \in Seq(Byte)
          BY LastStream
        <4>2. QED BY <4>1
      <3>2. PICK d \in Views : d = View(p, j)
        BY <1>1, ViewType DEF StreamsKept
      <3>3. Hears(c, d, got)
        BY <1>1, <1>2, <2>1, <3>1, <3>2 DEF Follows, Current
      <3>4. Gains(c, e, d, got)
        <4>1. CASE "RST" \in seg.flags
          BY <1>7, <3>2, <3>3, <4>1 DEF Listens
        <4>2. CASE "RST" \notin seg.flags
          <5>1. PICK k \in 1 .. opened[p] : Spoken(seg, View(p, k))
            BY <1>1, <4>2, GenuineInFlight DEF StreamsKept
          <5>2. PICK f \in Views : f = View(p, k)
            BY ViewType DEF StreamsKept
          <5>3. d = f \/ Apart(d, f)
            BY <1>1, <3>2, <5>2, ViewsApart DEF StreamsKept
          <5>4. (f = d \/ Apart(d, f)) /\ ("RST" \in seg.flags \/ Spoken(seg, f))
            BY <5>1, <5>2, <5>3
          <5>5. QED BY <1>7, <3>3, <5>4 DEF Listens
        <4>3. QED BY <4>1, <4>2
      <3>5. PICK m \in Nat :
              /\ Hears(e, d, got + m)
              /\ Len(e.recv_queue) = Len(c.recv_queue) + m
              /\ \A k \in 1 .. m : e.recv_queue[Len(c.recv_queue) + k] = <<d.id, got + k>>
        BY <3>4 DEF Gains
      <3>6. PICK q \in Seq(Byte) : q = e.recv_queue
        BY <1>8 DEF Conn
      <3>7. PICK l \in Nat : l = Len(c.recv_queue)
        <4>1. c.recv_queue \in Seq(Byte)
          BY <1>3 DEF Conn
        <4>2. QED BY <4>1
      <3>8. Arrived(c, e) = SubSeq(q, l + 1, l + m) /\ Len(q) = l + m
        BY <3>5, <3>6, <3>7 DEF Arrived
      <3>9. PICK more \in Seq(Byte) : more = SubSeq(q, l + 1, l + m)
        BY <1>3, <1>8, <3>8, ArrivedType
      <3>10. Len(more) = m /\ \A k \in 1 .. m : more[k] = q[l + k]
        <4>1. ASSUME NEW Q \in Seq(Byte), NEW L \in Nat, NEW M \in Nat, Len(Q) = L + M
              PROVE  /\ Len(SubSeq(Q, L + 1, L + M)) = M
                     /\ \A k \in 1 .. M : SubSeq(Q, L + 1, L + M)[k] = Q[L + k]
          BY <4>1
        <4>2. QED BY <3>8, <3>9, <4>1
      <3>11. d.id = j
        BY <3>2, ViewFields
      <3>12. NextBytes(more, j, got)
        BY <3>5, <3>6, <3>7, <3>10, <3>11 DEF NextBytes
      <3>13. QED BY <1>1, <3>1, <3>2, <3>5, <3>8, <3>9, <3>10, <3>12
    <2>2. QED BY <1>2, <1>11, <2>1 DEF Catches
  <1>12. QED BY <1>10, <1>11

\* A segment for a connection runs its input_segment, which takes in its peer's
\* stream only and answers with right acknowledgements.
LEMMA InputRuns ==
  ASSUME StreamsApart, TypeOK, BooksKept, StreamsKept, NEW s \in Side,
         NEW seg \in BagToSet(net[s]), NEW n, Lesser(n), InputConnected(s, seg, n)
  PROVE  Runs(s, InputKnown(conn[s], seg), Arrived(conn[s], InputKnown(conn[s], seg).conn), 0)
  <1>1. PICK u : u = InputKnown(conn[s], seg)
    OBVIOUS
  <1>2. PICK more : more = Arrived(conn[s], u.conn)
    OBVIOUS
  <1>3. PICK i : i = opened[s]
    OBVIOUS
  <1>4. Connected(s) /\ Settle(s, u, n) /\ opened' = opened /\ sent' = sent
        /\ received' = [received EXCEPT ![s][i] = @ \o more]
    BY <1>1, <1>2, <1>3 DEF InputConnected, Apply
  <1>5. /\ conn[s] \in SoundConn /\ conn[s] \in Conn /\ seg \in Segment
        /\ i \in 1 .. i /\ i \in Nat /\ sent[s] \in [1 .. i -> Nat]
    BY <1>3, <1>4, LastStream, GenuineInFlight DEF StreamsKept, BooksKept
  <1>6. u \in Update
    BY <1>1, <1>5, InputKnownType
  <1>7. Leaves(s, u)
    BY <1>4, <1>6, SettleLeaves
  <1>8. Tells(conn[s], Isn[s][i], i) /\ Isn[s][i] \in SeqNumber
    BY <1>3, <1>4, <1>5, ViewType DEF StreamsKept, AllFit, Fits
  <1>9. Handles(conn[s], u, Isn[s][i], i, seg)
    BY <1>1, <1>5, <1>8, InputSpeaks
  <1>10. Speaks(conn[s], u.conn, u.segments, Isn[s][i], i) /\ u.conn.accepted = conn[s].accepted
    BY <1>9 DEF Handles
  <1>11. u.conn.accepted = conn[s].accepted + 0
    <2>1. conn[s].accepted \in Nat
      BY <1>5 DEF Conn
    <2>2. QED BY <1>10, <2>1
  <1>12. Catches(s, u.conn, more)
    BY <1>1, <1>2, <1>4, InputCatches
  <1>13. more \in Seq(Byte)
    BY <1>2, <1>5, <1>7, ArrivedType DEF Leaves
  <1>14. received'[s] = [received[s] EXCEPT ![i] = @ \o more] /\ received'[Peer(s)] = received[Peer(s)]
    <2>1. received \in [Side -> Seq(Seq(Byte))]
      BY DEF TypeOK
    <2>2. QED BY <1>4, <2>1, TwoSides
  <1>15. sent'[s] = [sent[s] EXCEPT ![i] = @ + 0] /\ sent[s][i] + 0 <= WriteLimit[s]
    <2>1. sent[s][i] + 0 = sent[s][i] /\ sent[s][i] <= WriteLimit[s]
      BY <1>3, <1>5 DEF StreamsKept, AllFit, Fits
    <2>2. QED BY <1>4, <1>5, <2>1
  <1>16. Unaffected(Peer(s))
    BY <1>4, <1>7, <1>14 DEF Leaves, Unaffected
  <1>17. Runs(s, u, more, 0)
    BY <1>3, <1>4, <1>7, <1>10, <1>11, <1>12, <1>13, <1>14, <1>15, <1>16 DEF Runs, Leaves
  <1>18. QED BY <1>1, <1>2, <1>17

\* An ACK that a segment in flight carries covers only bytes that the peer took in.
LEMMA AckIsHonest ==
  ASSUME StreamsApart, TypeOK, BooksKept, StreamsKept, NEW s \in Side, Connected(s),
         NEW seg \in BagToSet(net[s]), "RST" \notin seg.flags, seg.ack # None,
         NEW first, first = Isn[s][opened[s]], NEW a \in Nat, a + 1 <= Distance(first, seg.ack),
         a <= conn[s].accepted, Distance(first, seg.ack) <= Distance(first, conn[s].send_nxt)
  PROVE  \E j \in 1 .. opened[Peer(s)] :
           Follows(Peer(s), j, opened[s]) /\ a <= Len(received[Peer(s)][j])
  <1>1. PICK p \in Side : p = Peer(s) /\ Peer(p) = s
    BY TwoSides
  <1>2. PICK o : o = opened[s]
    OBVIOUS
  <1>3. PICK j \in 1 .. opened[p] : Acks(p, j, seg.ack)
    BY <1>1, GenuineInFlight DEF StreamsKept
  <1>4. PICK k \in 1 .. o : \E b \in 1 .. 2 + sent[s][k] :
          seg.ack = Plus(Isn[s][k], b) /\ Took(p, j, k, b)
    BY <1>1, <1>2, <1>3 DEF Acks
  <1> PICK b \in 1 .. 2 + sent[s][k] : seg.ack = Plus(Isn[s][k], b) /\ Took(p, j, k, b)
    BY <1>4
  <1>5. PICK other : other = Isn[s][k]
    OBVIOUS
  <1>6. /\ o \in 1 .. o /\ o \in Nat /\ k \in Nat /\ other \in SeqNumber /\ first \in SeqNumber
        /\ sent[s][k] \in Nat /\ sent[s][o] \in Nat
        /\ sent[s][k] <= WriteLimit[s] /\ sent[s][o] <= WriteLimit[s]
        /\ o <= Len(Isn[s])
    BY <1>2, <1>4, <1>5, LastStream, ViewType DEF StreamsKept, AllFit, Fits
  <1>7. seg.ack \in SeqNumber
    <2>1. other \in Nat /\ b \in Nat
      BY <1>6, ModulusAssumption DEF SeqNumber
    <2>2. Plus(other, b) \in SeqNumber
      BY <2>1, PlusType
    <2>3. QED BY <1>5, <2>2
  <1>8. PICK d \in Nat : d = Distance(first, seg.ack) /\ seg.ack = Plus(first, d)
    <2>1. PICK d : d = Distance(first, seg.ack)
      OBVIOUS
    <2>2. d \in 0 .. Modulus - 1 /\ Plus(first, d) = seg.ack
      BY <1>6, <1>7, <2>1, PlusOfDistance
    <2>3. QED BY <2>1, <2>2, ModulusAssumption
  <1>9. a + 1 <= d /\ d <= 2 + sent[s][o] /\ a <= sent[s][o]
    <2>1. PICK c : c = conn[s]
      OBVIOUS
    <2>2. c \in Conn /\ Numbered(c, first) /\ c.accepted = sent[s][o]
      BY <1>2, <2>1, LastStream DEF StreamsKept, AllFit, Fits, Tells
    <2>3. PICK e \in Nat : e = Distance(first, c.send_nxt) /\ e <= 2 + c.accepted
      BY <1>6, <2>2, NumberedFacts
    <2>4. d <= e
      BY <1>8, <2>1, <2>3
    <2>5. QED BY <1>6, <1>8, <2>1, <2>2, <2>3, <2>4
  <1>10. /\ WriteLimit[s] \in Nat /\ ReceiveBuffer \in Nat /\ 1 <= ReceiveBuffer
         /\ WriteLimit[s] + 2 + ReceiveBuffer < Modulus /\ Modulus \in Nat
    BY PairAssumption, ConfigAssumption, ModulusAssumption DEF StreamsApart
  <1>11. b \in Nat /\ 1 <= b /\ b <= 2 + sent[s][k]
    BY <1>4, <1>6
  <1>12. k = o
    <2>1. SUFFICES ASSUME k # o PROVE FALSE
      OBVIOUS
    <2>2. o \in 1 .. Len(Isn[s]) /\ k \in 1 .. Len(Isn[s])
      <3>1. Len(Isn[s]) \in Nat
        BY PairAssumption
      <3>2. QED BY <1>4, <1>6, <3>1
    <2>3. PICK x \in Nat : x = Distance(first, other)
      BY <1>6, PlusOfDistance
    <2>4. PICK y \in Nat : y = Distance(other, first)
      BY <1>6, PlusOfDistance
    <2>5. x >= WriteLimit[s] + 2 + ReceiveBuffer /\ y >= WriteLimit[s] + 2 + ReceiveBuffer
      BY <1>2, <1>5, <2>1, <2>2, <2>3, <2>4 DEF StreamsApart
    <2>6. 1 <= d /\ d <= x /\ b < y
      <3>1. PICK w \in Nat : w = WriteLimit[s]
        BY <1>10
      <3>2. PICK m \in Nat : m = sent[s][o] /\ m <= w
        BY <1>6, <3>1
      <3>3. PICK l \in Nat : l = sent[s][k] /\ l <= w
        BY <1>6, <3>1
      <3>4. 1 <= d /\ d <= 2 + m /\ b <= 2 + l
        BY <1>9, <1>11, <3>2, <3>3
      <3>5. w + 2 + ReceiveBuffer <= x /\ w + 2 + ReceiveBuffer <= y
        BY <2>5, <3>1
      <3>6. QED BY <1>10, <1>11, <3>2, <3>3, <3>4, <3>5
    <2>7. first # other
      <3>1. x > 0
        BY <1>10, <2>5
      <3>2. first \in Int /\ Distance(first, first) = 0
        BY <1>6 DEF SeqNumber, Distance
      <3>3. QED BY <2>3, <3>1, <3>2
    <2>8. Plus(first, d) # Plus(other, b)
      BY <1>6, <1>11, <2>3, <2>4, <2>6, <2>7, ApartPlaces
    <2>9. QED BY <1>4, <1>5, <1>8, <2>8
  <1>13. b = d
    <2>1. other = first
      BY <1>2, <1>5, <1>12
    <2>2. b < Modulus
      BY <1>6, <1>10, <1>11
    <2>3. Distance(first, Plus(first, b)) = b
      BY <1>6, <1>11, <2>2, DistanceOfPlus
    <2>4. QED BY <1>4, <1>5, <1>8, <2>1, <2>3
  <1>14. a <= Len(received[p][j])
    <2>1. PICK got : got = Len(received[p][j])
      OBVIOUS
    <2>2. got \in Nat
      <3>1. received[p] \in Seq(Seq(Byte)) /\ Len(received[p]) = opened[p]
        BY DEF TypeOK
      <3>2. received[p][j] \in Seq(Byte)
        BY <3>1
      <3>3. QED BY <2>1, <3>2
    <2>3. b <= 1 + got \/ got = sent[s][o]
      BY <1>1, <1>4, <1>12, <2>1 DEF Took
    <2>4. QED BY <1>6, <1>9, <1>11, <1>13, <2>1, <2>2, <2>3
  <1>15. Follows(p, j, o)
    BY <1>4, <1>12 DEF Took
  <1>16. QED BY <1>1, <1>2, <1>14, <1>15

\* So an incoming segment reports nothing acknowledged too early, and an application
\* that may still write may do so afterwards.
LEMMA InputSteps ==
  ASSUME StreamsApart, TypeOK, BooksKept, StreamsKept, NEW s \in Side,
         NEW seg \in BagToSet(net[s]), NEW n, Lesser(n), InputConnected(s, seg, n)
  PROVE  Steps(s, InputKnown(conn[s], seg), Arrived(conn[s], InputKnown(conn[s], seg).conn), 0)
  <1>1. PICK u : u = InputKnown(conn[s], seg)
    OBVIOUS
  <1>2. PICK c : c = conn[s]
    OBVIOUS
  <1>3. PICK first : first = Isn[s][opened[s]]
    OBVIOUS
  <1>4. Connected(s)
    BY DEF InputConnected
  <1>5. /\ c \in SoundConn /\ c \in Conn /\ Idle(c) /\ seg \in Segment
        /\ opened[s] \in 1 .. opened[s] /\ opened[s] \in Nat
    BY <1>2, <1>4, LastStream, GenuineInFlight DEF StreamsKept, BooksKept
  <1>6. Tells(c, first, opened[s]) /\ first \in SeqNumber
    BY <1>2, <1>3, <1>4, <1>5, ViewType DEF StreamsKept, AllFit, Fits
  <1>7. Handles(c, u, first, opened[s], seg)
    BY <1>1, <1>2, <1>5, <1>6, InputSpeaks
  <1>8. StaysWilling(c, u.conn)
    BY <1>1, <1>2, <1>5, InputWilling
  <1>9. Reports(s, u, 0)
    <2>1. CASE u.conn.acked = c.acked
      BY <1>2, <2>1 DEF Reports
    <2>2. CASE u.conn.acked # c.acked
      <3>1. seg.ack # None /\ Learns(c, u.conn, first, seg.ack)
        BY <1>7, <2>2 DEF Handles
      <3>2. PICK a : a = u.conn.acked
        OBVIOUS
      <3>3. /\ c.acked < a /\ a + 1 <= Distance(first, seg.ack)
            /\ Distance(first, seg.ack) <= Distance(first, c.send_nxt)
        BY <2>2, <3>1, <3>2 DEF Learns
      <3>4. "RST" \notin seg.flags
        <4>1. SUFFICES ASSUME "RST" \in seg.flags PROVE FALSE
          OBVIOUS
        <4>2. u = OnReset(c, seg)
          BY <1>1, <1>2, <4>1 DEF InputKnown, StaleHandshakeAck, UnexpectedSyn, OnSegment
        <4>3. OnlySpeaks(c, u, first, opened[s])
          BY <1>5, <1>6, <4>2, OnResetSpeaks
        <4>4. QED BY <2>2, <4>3 DEF OnlySpeaks, Only
      <3>5. a \in Nat /\ a <= c.accepted
        <4>1. u.conn \in SoundConn /\ u.conn \in Conn
          BY <1>1, <1>2, <1>5, InputKnownSettled, SettledFields
        <4>2. PICK e : e = u.conn
          OBVIOUS
        <4>3. e.accepted = e.acked + PayloadBytes(e.unacked) + Len(e.send_queue)
          BY <4>1, <4>2, SoundFields DEF Sender
        <4>4. PayloadBytes(e.unacked) \in Nat /\ Len(e.send_queue) \in Nat /\ e.acked \in Nat
          <5>1. e.unacked \in Seq(TrackedSegment) /\ e.send_queue \in Seq(Byte) /\ e.acked \in Nat
            BY <4>1, <4>2 DEF Conn
          <5>2. PayloadBytes(e.unacked) \in Nat
            BY <5>1, PayloadCells
          <5>3. QED BY <5>1, <5>2
        <4>5. e.accepted = c.accepted
          BY <1>7, <4>2 DEF Handles
        <4>6. QED BY <3>2, <4>2, <4>3, <4>4, <4>5
      <3>6. \E j \in 1 .. opened[Peer(s)] :
              Follows(Peer(s), j, opened[s]) /\ a <= Len(received[Peer(s)][j])
        BY <1>2, <1>3, <1>4, <3>1, <3>3, <3>4, <3>5, AckIsHonest
      <3>7. QED BY <1>2, <1>8, <3>2, <3>3, <3>6 DEF Reports
    <2>3. QED BY <2>1, <2>2
  <1>10. QED BY <1>1, <1>9, InputRuns DEF Steps

-----------------------------------------------------------------------------
(* The steps: a new connection                                             *)

\* connect and a SYN at a listener start a stream in both directions.
LEMMA Opens ==
  ASSUME TypeOK, NEW s \in Side, NEW u \in Update, ~u.closed, ~Connected(s), MayOpen(s),
         StartStream(s), Leaves(s, u)
  PROVE  /\ Unaffected(Peer(s)) /\ conn'[s] = u.conn /\ opened'[s] = opened[s] + 1
         /\ sent'[s] = Append(sent[s], 0) /\ received'[s] = Append(received[s], <<>>)
  <1>1. /\ opened \in [Side -> Nat] /\ sent \in [Side -> Seq(Nat)]
        /\ received \in [Side -> Seq(Seq(Byte))]
    BY DEF TypeOK
  <1>2. PICK p \in Side : p = Peer(s) /\ p # s
    BY TwoSides
  <1>3. opened'[s] = opened[s] + 1 /\ opened'[p] = opened[p]
    BY <1>1, <1>2 DEF StartStream
  <1>4. sent'[s] = Append(sent[s], 0) /\ sent'[p] = sent[p]
    BY <1>1, <1>2 DEF StartStream
  <1>5. received'[s] = Append(received[s], <<>>) /\ received'[p] = received[p]
    BY <1>1, <1>2 DEF StartStream
  <1>6. conn'[s] = u.conn /\ conn'[p] = conn[p]
    BY <1>2 DEF Leaves
  <1>7. QED BY <1>2, <1>3, <1>4, <1>5, <1>6 DEF Unaffected

\* The next stream of s has a number, and there is room for it.
LEMMA NextStream ==
  ASSUME StreamsApart, TypeOK, NEW s \in Side, MayOpen(s)
  PROVE  /\ Isn[s][opened[s] + 1] \in SeqNumber /\ opened[s] + 1 \in Nat
         /\ 2 + ReceiveBuffer < Modulus
  <1>1. Isn[s] \in Seq(SeqNumber) /\ opened[s] \in Nat /\ opened[s] < Len(Isn[s])
    BY PairAssumption DEF TypeOK, MayOpen
  <1>2. opened[s] + 1 \in 1 .. Len(Isn[s])
    BY <1>1
  <1>3. WriteLimit[s] + 2 + ReceiveBuffer < Modulus /\ WriteLimit[s] \in Nat
        /\ ReceiveBuffer \in Nat /\ Modulus \in Nat
    BY PairAssumption, ConfigAssumption, ModulusAssumption DEF StreamsApart
  <1>4. 2 + ReceiveBuffer < Modulus
    BY <1>3
  <1>5. QED BY <1>1, <1>2, <1>4

\* connect begins a stream with a SYN.
LEMMA ConnectFounds ==
  ASSUME StreamsApart, TypeOK, NEW s \in Side, Connect(s)
  PROVE  Founds(s, Client(Isn[s][opened[s] + 1]))
  <1>1. PICK first : first = Isn[s][opened[s] + 1]
    OBVIOUS
  <1>2. PICK u : u = Client(first)
    OBVIOUS
  <1>3. ~Connected(s) /\ MayOpen(s) /\ Settle(s, u, net) /\ StartStream(s)
    BY <1>1, <1>2 DEF Connect
  <1>4. first \in SeqNumber /\ opened[s] + 1 \in Nat /\ 2 + ReceiveBuffer < Modulus
    BY <1>1, <1>3, NextStream
  <1>5. u \in Update
    BY <1>2, <1>4, CreationSettled, SettledFields
  <1>6. ~u.closed
    BY <1>2 DEF Client, SendTracked, Transmit, Open
  <1>7. Leaves(s, u)
    BY <1>3, <1>5, TakenOffLesser, SettleLeaves
  <1>8. /\ Unaffected(Peer(s)) /\ conn'[s] = u.conn /\ opened'[s] = opened[s] + 1
        /\ sent'[s] = Append(sent[s], 0) /\ received'[s] = Append(received[s], <<>>)
    BY <1>3, <1>5, <1>6, <1>7, Opens
  <1>9. Begins(u, first, opened[s] + 1, {None}) /\ u.conn.state = "SynSent"
    BY <1>2, <1>4, ClientBegins
  <1>10. Founds(s, u)
    BY <1>1, <1>3, <1>7, <1>8, <1>9 DEF Founds, Leaves
  <1>11. QED BY <1>1, <1>2, <1>10

\* A SYN for a listener without a connection begins one that follows the SYN's stream.
LEMMA SynFounds ==
  ASSUME StreamsApart, TypeOK, StreamsKept, NEW s \in Side, NEW seg \in BagToSet(net[s]),
         NEW n, Lesser(n), InputSyn(s, seg, n)
  PROVE  Founds(s, Server(seg, Isn[s][opened[s] + 1]))
  <1>1. PICK first : first = Isn[s][opened[s] + 1]
    OBVIOUS
  <1>2. PICK u : u = Server(seg, first)
    OBVIOUS
  <1>3. /\ ~Connected(s) /\ MayOpen(s) /\ Settle(s, u, n) /\ StartStream(s)
        /\ "SYN" \in seg.flags
    BY <1>1, <1>2 DEF InputSyn, IsSynRequest
  <1>4. first \in SeqNumber /\ opened[s] + 1 \in Nat /\ 2 + ReceiveBuffer < Modulus
    BY <1>1, <1>3, NextStream
  <1>5. PICK p \in Side : p = Peer(s)
    BY TwoSides
  <1>6. PICK j \in 1 .. opened[p] : seg \in Segment /\ Spoken(seg, View(p, j))
    BY <1>3, <1>5, GenuineInFlight DEF StreamsKept
  <1>7. PICK d \in Views : d = View(p, j)
    BY ViewType DEF StreamsKept
  <1>8. seg.seq = Isn[p][j]
    BY <1>3, <1>6, <1>7, ViewFields DEF Spoken
  <1>9. u \in Update
    BY <1>2, <1>4, <1>6, CreationSettled, SettledFields
  <1>10. ~u.closed
    BY <1>2 DEF Server, SendTracked, Transmit, Open
  <1>11. Leaves(s, u)
    BY <1>3, <1>9, SettleLeaves
  <1>12. /\ Unaffected(Peer(s)) /\ conn'[s] = u.conn /\ opened'[s] = opened[s] + 1
         /\ sent'[s] = Append(sent[s], 0) /\ received'[s] = Append(received[s], <<>>)
    BY <1>3, <1>9, <1>10, <1>11, Opens
  <1>13. /\ Begins(u, first, opened[s] + 1, {None, Plus(Isn[p][j], 1)})
         /\ u.conn.state # "SynSent" /\ Hears(u.conn, View(p, j), 0)
    <2>1. /\ Begins(u, first, opened[s] + 1, {None, Plus(seg.seq, 1)})
          /\ u.conn.state # "SynSent"
          /\ \A v \in Views : "SYN" \in seg.flags /\ Spoken(seg, v) => Hears(u.conn, v, 0)
      BY <1>2, <1>4, <1>6, ServerBegins
    <2>2. QED BY <1>3, <1>6, <1>7, <1>8, <2>1
  <1>14. Founds(s, u)
    BY <1>1, <1>3, <1>5, <1>11, <1>12, <1>13 DEF Founds, Leaves
  <1>15. QED BY <1>1, <1>2, <1>14

-----------------------------------------------------------------------------
(* The streams are kept                                                    *)

\* Lose, and a segment of an unknown tuple.
LEMMA IdleKept ==
  ASSUME StreamsApart, TypeOK, StreamsKept, NEW s \in Side, NEW seg \in Segment
  PROVE  /\ Lose(s, seg) => StreamsKept'
         /\ \A n : Lesser(n) /\ InputUnknown(s, seg, n) => StreamsKept'
  <1>1. ASSUME Lose(s, seg) PROVE StreamsKept'
    <2>1. Lesser(net')
      BY <1>1, TakenOffLesser DEF Lose
    <2>2. QED BY <1>1, <2>1, CarrierKept DEF Lesser, Lose
  <1>2. ASSUME NEW n, Lesser(n), InputUnknown(s, seg, n) PROVE StreamsKept'
    <2>1. UNCHANGED <<conn, opened, sent, received>>
      BY <1>2 DEF InputUnknown
    <2>2. CASE net' = n
      BY <1>2, <2>1, <2>2, CarrierKept DEF Lesser
    <2>3. CASE net' = Send(n, s, <<ResetFor(seg)>>)
      <3>1. PICK x : x = ResetFor(seg)
        OBVIOUS
      <3>2. x \in Segment /\ "RST" \in x.flags /\ "SYN" \notin x.flags
        <4>1. x \in Segment
          BY <3>1, ResetForType
        <4>2. QED BY <3>1, <4>1 DEF ResetFor
      <3>3. <<x>> \in Seq(Segment) /\ Len(<<x>>) = 1 /\ <<x>>[1] = x
        BY <3>2, OneSegment
      <3>4. Carries(s, <<x>>)
        BY <1>2, <2>3, <3>1, <3>3, SendCarries
      <3>5. \A t \in Side : \A y \in BagToSet(net'[t]) : y \in BagToSet(net[t]) \/ y = x
        BY <3>3, <3>4 DEF Carries
      <3>6. QED BY <2>1, <3>2, <3>5, CarrierKept
    <2>4. QED BY <1>2, <2>2, <2>3 DEF InputUnknown
  <1>3. QED BY <1>1, <1>2

\* Whichever way a segment goes, the streams are kept.
LEMMA InputKept ==
  ASSUME StreamsApart, TypeOK, TypeOK', BooksKept, StreamsKept, NEW s \in Side,
         NEW seg \in BagToSet(net[s]), NEW n, Lesser(n), Input(s, seg, n)
  PROVE  StreamsKept'
  <1>1. CASE InputSyn(s, seg, n)
    BY <1>1, SynFounds, FoundsKept
  <1>2. CASE InputUnknown(s, seg, n)
    BY <1>2, IdleKept, SegmentInFlight
  <1>3. CASE InputConnected(s, seg, n)
    BY <1>3, InputRuns, RunsKept
  <1>4. QED BY <1>1, <1>2, <1>3 DEF Input

\* Every step of either stack, of the carrier or of an application.
LEMMA StepStreams ==
  ASSUME StreamsApart, TypeOK, TypeOK', BooksKept, StreamsKept, [Next]_vars
  PROVE  StreamsKept'
  <1>1. CASE UNCHANGED vars
    BY <1>1, CarrierKept DEF vars
  <1>2. ASSUME NEW s \in Side, Connect(s) PROVE StreamsKept'
    BY <1>2, ConnectFounds, FoundsKept
  <1>3. ASSUME NEW s \in Side, NEW seg \in BagToSet(net[s]),
               Deliver(s, seg) \/ DeliverCopy(s, seg)
        PROVE  StreamsKept'
    BY <1>3, TakenOffLesser, InputKept DEF Deliver, DeliverCopy
  <1>4. ASSUME NEW s \in Side, NEW seg \in BagToSet(net[s]), Lose(s, seg) PROVE StreamsKept'
    BY <1>4, IdleKept, SegmentInFlight
  <1>5. ASSUME NEW s \in Side,
               \/ CloseExpires(s) \/ RetryExpires(s) \/ AppClose(s) \/ AppAbort(s)
               \/ \E max \in ReadSizes : AppRead(s, max)
        PROVE  StreamsKept'
    <2>1. \E u : Runs(s, u, <<>>, 0)
      BY <1>5, MethodSteps DEF StreamsKept, Steps
    <2>2. QED BY <2>1, RunsKept
  <1>6. ASSUME NEW s \in Side, NEW n \in 1 .. WriteLimit[s], AppWrite(s, n) PROVE StreamsKept'
    <2>1. n \in Nat
      BY PairAssumption
    <2>2. \E u, k : Runs(s, u, <<>>, k)
      BY <1>6, <2>1, WriteSteps DEF StreamsKept, Steps
    <2>3. QED BY <2>2, RunsKept
  <1>7. ASSUME NEW s \in Side, Crash(s) PROVE StreamsKept'
    BY <1>7, CrashSteps, RunsKept DEF StreamsKept, Steps
  <1>8. QED BY <1>1, <1>2, <1>3, <1>4, <1>5, <1>6, <1>7 DEF Next

\* Nothing is open and nothing in flight at first.
LEMMA StreamsKeptInit ==
  ASSUME Init
  PROVE  StreamsKept
  <1>1. \A s \in Side : ~Connected(s) /\ opened[s] = 0 /\ net[s] = EmptyBag
    BY DEF Init, Connected
  <1>2. OnlyGenuine
    <2>1. \A s \in Side : BagToSet(net[Peer(s)]) = {}
      BY <1>1, TwoSides DEF BagToSet, EmptyBag, SetToBag
    <2>2. QED BY <2>1 DEF OnlyGenuine
  <1>3. AllFit
    <2>1. \A s \in Side : 0 <= Len(Isn[s])
      BY PairAssumption
    <2>2. QED BY <1>1, <2>1 DEF AllFit, Fits
  <1>4. AllAttend
    BY <1>1 DEF AllAttend
  <1>5. QED BY <1>2, <1>3, <1>4 DEF StreamsKept

\* Every segment in flight is its sender's, byte by byte, and acknowledges only what
\* was taken in; every connection takes in one stream of its peer, from its first
\* byte on (input_segment, flush_data, poll, with a carrier that loses, repeats and
\* reorders).
THEOREM StreamsAreKept ==
  ASSUME StreamsApart
  PROVE  Spec => [](TypeOK /\ BooksKept /\ StreamsKept)
  <1>1. Init => StreamsKept
    BY StreamsKeptInit
  <1>2. TypeOK /\ BooksKept /\ TypeOK' /\ StreamsKept /\ [Next]_vars => StreamsKept'
    BY StepStreams
  <1>3. QED BY <1>1, <1>2, BooksAreKept, PTL DEF Spec

-----------------------------------------------------------------------------
(* One direction of the tuple                                              *)

\* The stream from s to its peer.
Flow(s) == INSTANCE ByteStream WITH
  sent <- sent[s], closed <- WritesNoMore(s), confirmed <- AckedBytes(s),
  received <- received[Peer(s)], ended <- AtEnd(Peer(s))

\* A step in terms of the streams.
LEMMA NextIs ==
  ASSUME StreamsApart, TypeOK, BooksKept, StreamsKept, [Next]_vars
  PROVE  \/ UNCHANGED <<conn, opened, sent, received>>
         \/ \E s \in Side : \E u, more, n : Steps(s, u, more, n)
         \/ \E s \in Side : \E u : Founds(s, u)
  <1>1. CASE UNCHANGED vars
    BY <1>1 DEF vars
  <1>2. ASSUME NEW s \in Side, Connect(s) PROVE \E u : Founds(s, u)
    BY <1>2, ConnectFounds
  <1>3. ASSUME NEW s \in Side, NEW seg \in BagToSet(net[s]), NEW n, Lesser(n), Input(s, seg, n)
        PROVE  \/ UNCHANGED <<conn, opened, sent, received>>
               \/ \E u, more, k : Steps(s, u, more, k)
               \/ \E u : Founds(s, u)
    <2>1. CASE InputSyn(s, seg, n)
      BY <1>3, <2>1, SynFounds
    <2>2. CASE InputUnknown(s, seg, n)
      BY <2>2 DEF InputUnknown
    <2>3. CASE InputConnected(s, seg, n)
      BY <1>3, <2>3, InputSteps
    <2>4. QED BY <1>3, <2>1, <2>2, <2>3 DEF Input
  <1>4. ASSUME NEW s \in Side, NEW seg \in BagToSet(net[s]),
               Deliver(s, seg) \/ DeliverCopy(s, seg)
        PROVE  \/ UNCHANGED <<conn, opened, sent, received>>
               \/ \E u, more, k : Steps(s, u, more, k)
               \/ \E u : Founds(s, u)
    BY <1>3, <1>4, TakenOffLesser DEF Deliver, DeliverCopy
  <1>5. ASSUME NEW s \in Side, NEW seg \in BagToSet(net[s]), Lose(s, seg)
        PROVE  UNCHANGED <<conn, opened, sent, received>>
    BY <1>5 DEF Lose
  <1>6. ASSUME NEW s \in Side,
               \/ CloseExpires(s) \/ RetryExpires(s) \/ AppClose(s) \/ AppAbort(s)
               \/ \E max \in ReadSizes : AppRead(s, max)
        PROVE  \E u, more, n : Steps(s, u, more, n)
    BY <1>6, MethodSteps DEF StreamsKept
  <1>7. ASSUME NEW s \in Side, NEW n \in 1 .. WriteLimit[s], AppWrite(s, n)
        PROVE  \E u, more, k : Steps(s, u, more, k)
    <2>1. n \in Nat
      BY PairAssumption
    <2>2. QED BY <1>7, <2>1, WriteSteps DEF StreamsKept
  <1>8. ASSUME NEW s \in Side, Crash(s) PROVE \E u, more, n : Steps(s, u, more, n)
    BY <1>8, CrashSteps DEF StreamsKept
  <1>9. QED BY <1>1, <1>2, <1>4, <1>5, <1>6, <1>7, <1>8 DEF Next

\* Whether the application of s may write, what it knows acknowledged and whether
\* it saw the end, before and after a step of its connection.
LEMMA StepsShow ==
  ASSUME TypeOK, NEW s \in Side, NEW u, NEW more, NEW n, Runs(s, u, more, n)
  PROVE  /\ Connected(s) /\ conn[s] \in Conn /\ u.conn \in Conn
         /\ WritesNoMore(s) <=> ~Willing(conn[s])
         /\ AckedBytes(s) = conn[s].acked /\ (AtEnd(s) <=> conn[s].read_closed)
         /\ u.closed => WritesNoMore(s)' /\ AckedBytes(s)' = 0 /\ ~AtEnd(s)'
         /\ ~u.closed => /\ WritesNoMore(s)' <=> ~Willing(u.conn)
                         /\ AckedBytes(s)' = u.conn.acked
                         /\ AtEnd(s)' <=> u.conn.read_closed
  <1>1. /\ Connected(s) /\ conn[s] \in Conn /\ u.conn \in Conn
        /\ conn'[s] = (IF u.closed THEN NoConn ELSE u.conn)
        /\ (Connected(s)' <=> ~u.closed)
    <2>1. /\ Connected(s) /\ u.conn \in Conn
          /\ conn'[s] = (IF u.closed THEN NoConn ELSE u.conn)
      BY DEF Runs
    <2>2. QED BY <2>1, RunsFields, ConnectedType
  <1>2. /\ WritesNoMore(s) <=> ~Willing(conn[s])
        /\ AckedBytes(s) = conn[s].acked /\ (AtEnd(s) <=> conn[s].read_closed)
    BY <1>1 DEF WritesNoMore, Willing, AckedBytes, AtEnd
  <1>3. u.closed => WritesNoMore(s)' /\ AckedBytes(s)' = 0 /\ ~AtEnd(s)'
    BY <1>1 DEF WritesNoMore, AckedBytes, AtEnd
  <1>4. ~u.closed => /\ WritesNoMore(s)' <=> ~Willing(u.conn)
                     /\ AckedBytes(s)' = u.conn.acked
                     /\ AtEnd(s)' <=> u.conn.read_closed
    BY <1>1 DEF WritesNoMore, Willing, AckedBytes, AtEnd
  <1>5. QED BY <1>1, <1>2, <1>3, <1>4

\* A side that a step does not touch shows the same.
LEMMA UnaffectedShows ==
  ASSUME NEW s, Unaffected(s)
  PROVE  /\ WritesNoMore(s)' = WritesNoMore(s) /\ AckedBytes(s)' = AckedBytes(s)
         /\ AtEnd(s)' = AtEnd(s) /\ sent'[s] = sent[s] /\ received'[s] = received[s]
  BY DEF Unaffected, WritesNoMore, AckedBytes, AtEnd, Connected

\* What the connection of s does to the stream it sends: forget it, add to it, end it,
\* learn what the peer took in of it, or nothing.
LEMMA SenderFlows ==
  ASSUME StreamsApart, TypeOK, StreamsKept, NEW s \in Side,
         NEW u, NEW more, NEW n, Steps(s, u, more, n)
  PROVE  Flow(s)!Next \/ UNCHANGED Flow(s)!vars
  <1>1. PICK p \in Side : p = Peer(s)
    BY TwoSides
  <1>2. PICK o : o = opened[s]
    OBVIOUS
  <1>3. Runs(s, u, more, n) /\ Reports(s, u, n)
    BY DEF Steps
  <1>4. received'[p] = received[p] /\ AtEnd(p)' = AtEnd(p)
    <2>1. Unaffected(p)
      BY <1>1, <1>3 DEF Runs
    <2>2. QED BY <2>1, UnaffectedShows
  <1>5. /\ sent[s] \in Seq(Nat) /\ Len(sent[s]) = o /\ o \in 1 .. o /\ o \in Nat
        /\ Len(received[p]) = opened[p] /\ sent[s][o] \in Nat
        /\ n \in Nat /\ sent'[s] = [sent[s] EXCEPT ![o] = @ + n]
    <2>1. sent[s] \in Seq(Nat) /\ Len(sent[s]) = o /\ Len(received[p]) = opened[p]
      BY <1>2 DEF TypeOK
    <2>2. n \in Nat /\ sent'[s] = [sent[s] EXCEPT ![o] = @ + n] /\ Connected(s)
      BY <1>2, <1>3 DEF Runs
    <2>3. QED BY <1>2, <2>1, <2>2, LastStream
  <1>6. n = 0 => sent'[s] = sent[s]
    <2>1. sent[s][o] + 0 = sent[s][o]
      BY <1>5
    <2>2. QED BY <1>5, <2>1
  <1>7. /\ conn[s] \in Conn /\ u.conn \in Conn
        /\ WritesNoMore(s) <=> ~Willing(conn[s])
        /\ AckedBytes(s) = conn[s].acked
        /\ u.closed => WritesNoMore(s)' /\ AckedBytes(s)' = 0
        /\ ~u.closed => /\ WritesNoMore(s)' <=> ~Willing(u.conn)
                        /\ AckedBytes(s)' = u.conn.acked
    BY <1>3, StepsShow
  <1>8. WritesNoMore(s) \in BOOLEAN /\ WritesNoMore(s)' \in BOOLEAN
    BY DEF WritesNoMore
  <1>9. WritesNoMore(s) => WritesNoMore(s)'
    <2>1. Grown(s)
      BY <1>3, RunsGrown DEF StreamsKept
    <2>2. PICK d \in Views : d = View(s, o)
      BY <1>2, <1>5, <2>1 DEF Grown
    <2>3. PICK e \in Views : e = View(s, o)'
      BY <1>2, <1>5, <2>1 DEF Grown
    <2>4. Grows(d, e)
      BY <1>2, <1>5, <2>1, <2>2, <2>3 DEF Grown
    <2>5. d.over = Over(s, o) /\ e.over = Over(s, o)'
      BY <2>2, <2>3 DEF View
    <2>6. opened'[s] = o /\ ~(o < o)
      BY <1>2, <1>3, <1>5 DEF Runs
    <2>7. QED BY <1>2, <2>4, <2>5, <2>6 DEF Grows, Over
  <1>10. CASE u.closed /\ n = 0
    <2>1. WritesNoMore(s)' = TRUE
      BY <1>7, <1>8, <1>10
    <2>2. Flow(s)!SenderForgets
      BY <1>1, <1>4, <1>6, <1>7, <1>10, <2>1 DEF Flow!SenderForgets
    <2>3. QED BY <2>2 DEF Flow!Next
  <1>11. CASE ~u.closed /\ u.conn.acked = conn[s].acked /\ n = 0
    <2>1. AckedBytes(s)' = AckedBytes(s) /\ sent'[s] = sent[s]
      BY <1>6, <1>7, <1>11
    <2>2. CASE WritesNoMore(s)' = WritesNoMore(s)
      BY <1>1, <1>4, <2>1, <2>2 DEF Flow!vars
    <2>3. CASE WritesNoMore(s)' # WritesNoMore(s)
      <3>1. WritesNoMore(s)' = TRUE
        BY <1>8, <1>9, <2>3
      <3>2. Flow(s)!Close
        BY <1>1, <1>4, <2>1, <3>1 DEF Flow!Close
      <3>3. QED BY <3>2 DEF Flow!Next
    <2>4. QED BY <2>2, <2>3
  <1>12. CASE /\ u.conn.acked = conn[s].acked /\ ~u.closed /\ n > 0
              /\ Willing(conn[s]) /\ Willing(u.conn)
    <2>1. ~WritesNoMore(s) /\ WritesNoMore(s)' = WritesNoMore(s) /\ AckedBytes(s)' = AckedBytes(s)
      BY <1>7, <1>8, <1>12
    <2>2. sent'[s][o] = sent[s][o] + n
      BY <1>5
    <2>3. sent'[s][o] \in Nat /\ sent'[s][o] > sent[s][o]
      BY <1>5, <1>12, <2>2
    <2>4. sent'[s] = [sent[s] EXCEPT ![o] = sent'[s][o]] /\ sent[s] # <<>>
      BY <1>5, <2>2
    <2>5. Flow(s)!Write
      BY <1>1, <1>4, <1>5, <2>1, <2>3, <2>4 DEF Flow!Write
    <2>6. QED BY <2>5 DEF Flow!Next
  <1>13. CASE /\ ~u.closed /\ n = 0 /\ StaysWilling(conn[s], u.conn)
              /\ conn[s].acked < u.conn.acked
              /\ \E j \in 1 .. opened[p] :
                   Follows(p, j, o) /\ u.conn.acked <= Len(received[p][j])
    <2>1. WritesNoMore(s)' = WritesNoMore(s) /\ sent'[s] = sent[s] /\ sent[s] # <<>>
      BY <1>5, <1>6, <1>7, <1>8, <1>9, <1>13 DEF StaysWilling
    <2>2. PICK a \in Nat : a = u.conn.acked
      BY <1>7 DEF Conn
    <2>3. PICK b \in Nat : b = conn[s].acked
      BY <1>7 DEF Conn
    <2>4. PICK j \in 1 .. opened[p] : Follows(p, j, o) /\ a <= Len(received[p][j])
      BY <1>13, <2>2
    <2>5. PICK got \in Nat : got = Len(received[p][j])
      <3>1. received[p] \in Seq(Seq(Byte)) /\ Len(received[p]) = opened[p]
        BY DEF TypeOK
      <3>2. received[p][j] \in Seq(Byte)
        BY <3>1
      <3>3. QED BY <3>2
    <2>6. a \in b + 1 .. got
      BY <1>13, <2>2, <2>3, <2>4, <2>5
    <2>7. Flow(s)!FromStream(j, o)
      <3>1. Peer(p) = s
        BY <1>1, TwoSides
      <3>2. received[p][j] = Request!Prefix(o, got) /\ got <= sent[s][o]
        BY <2>4, <2>5, <3>1 DEF Follows
      <3>3. Request!Prefix(o, got) = Flow(s)!Prefix(o, got)
        BY DEF Request!Prefix, Flow!Prefix
      <3>4. QED BY <1>1, <2>5, <3>2, <3>3 DEF Flow!FromStream
    <2>8. AckedBytes(s) = b /\ AckedBytes(s)' = a
      BY <1>7, <1>13, <2>2, <2>3
    <2>9. Flow(s)!Confirm
      BY <1>1, <1>4, <1>5, <2>1, <2>5, <2>6, <2>7, <2>8 DEF Flow!Confirm
    <2>10. QED BY <2>9 DEF Flow!Next
  <1>14. n = 0 \/ n > 0
    BY <1>5
  <1>15. QED BY <1>1, <1>2, <1>3, <1>10, <1>11, <1>12, <1>13, <1>14 DEF Reports

\* What it does to the stream it receives: forget it, take in more of it up to the end,
\* or nothing.
LEMMA ReceiverFlows ==
  ASSUME StreamsApart, TypeOK, StreamsKept, NEW s \in Side,
         NEW u, NEW more, NEW n, Runs(s, u, more, n)
  PROVE  Flow(Peer(s))!Next \/ UNCHANGED Flow(Peer(s))!vars
  <1>1. PICK p \in Side : p = Peer(s) /\ Peer(p) = s
    BY TwoSides
  <1>2. PICK o : o = opened[s]
    OBVIOUS
  <1>3. /\ sent'[p] = sent[p] /\ WritesNoMore(p)' = WritesNoMore(p)
        /\ AckedBytes(p)' = AckedBytes(p)
    <2>1. Unaffected(p)
      BY <1>1 DEF Runs
    <2>2. QED BY <2>1, UnaffectedShows
  <1>4. /\ received[s] \in Seq(Seq(Byte)) /\ Len(received[s]) = o /\ o \in 1 .. o /\ o \in Nat
        /\ received[s][o] \in Seq(Byte) /\ Len(sent[p]) = opened[p] /\ opened[p] \in Nat
        /\ received'[s] = [received[s] EXCEPT ![o] = @ \o more]
        /\ received[s] \in [1 .. o -> Seq(Byte)]
    <2>1. received[s] \in Seq(Seq(Byte)) /\ Len(received[s]) = o
          /\ Len(sent[p]) = opened[p] /\ opened[p] \in Nat
      BY <1>2 DEF TypeOK
    <2>2. received'[s] = [received[s] EXCEPT ![o] = @ \o more] /\ Connected(s)
      BY <1>2 DEF Runs
    <2>3. QED BY <1>2, <2>1, <2>2, LastStream
  <1>5. /\ Connected(s) /\ (AtEnd(s) <=> conn[s].read_closed)
        /\ u.closed => ~AtEnd(s)'
        /\ ~u.closed => (AtEnd(s)' <=> u.conn.read_closed)
    BY StepsShow
  <1>6. AtEnd(s) \in BOOLEAN /\ AtEnd(s)' \in BOOLEAN
    <2>1. conn[s] \in Conn /\ u.conn \in Conn
      BY StepsShow
    <2>2. conn[s].read_closed \in BOOLEAN /\ u.conn.read_closed \in BOOLEAN
      BY <2>1 DEF Conn
    <2>3. QED BY <1>5, <2>2 DEF AtEnd
  <1>7. ASSUME received'[s] = received[s], AtEnd(s)' = AtEnd(s) \/ ~AtEnd(s)'
        PROVE  Flow(p)!Next \/ UNCHANGED Flow(p)!vars
    <2>1. CASE AtEnd(s)' = AtEnd(s)
      BY <1>1, <1>3, <1>7, <2>1 DEF Flow!vars
    <2>2. CASE ~AtEnd(s)'
      <3>1. AtEnd(s)' = FALSE
        BY <1>6, <2>2
      <3>2. Flow(p)!ReceiverForgets
        BY <1>1, <1>3, <1>7, <3>1 DEF Flow!ReceiverForgets
      <3>3. QED BY <3>2 DEF Flow!Next
    <2>3. QED BY <1>7, <2>1, <2>2
  <1>8. CASE conn[s].state = "SynSent"
    <2>1. more = <<>> /\ ~u.conn.read_closed
      BY <1>8 DEF Runs, Catches
    <2>2. received[s][o] \o <<>> = received[s][o]
      BY <1>4
    <2>3. received'[s] = received[s]
      BY <1>4, <2>1, <2>2
    <2>4. ~AtEnd(s)'
      BY <1>5, <2>1
    <2>5. QED BY <1>1, <1>7, <2>3, <2>4
  <1>9. CASE conn[s].state # "SynSent"
    <2>1. PICK j \in 1 .. opened[p] : Follows(s, o, j)
      BY <1>1, <1>2, <1>5, <1>9 DEF StreamsKept, AllAttend, Attends
    <2>2. PICK got \in Nat : got = Len(received[s][o])
      <3>1. received[s][o] \in Seq(Byte)
        BY <1>4
      <3>2. QED BY <3>1
    <2>3. PICK m \in Nat :
            /\ received'[s][o] = Request!Prefix(j, got + m)
            /\ Hears(u.conn, View(p, j), got + m)
      <3>1. o \in 1 .. opened[s] /\ j \in 1 .. opened[Peer(s)]
        BY <1>1, <1>2, <1>4
      <3>2. \E m \in Nat :
              /\ received'[s][o] = Request!Prefix(j, Len(received[s][o]) + m)
              /\ Hears(u.conn, View(Peer(s), j), Len(received[s][o]) + m)
        BY <1>2, <2>1, <3>1, RunsFollows DEF StreamsKept
      <3>3. QED BY <1>1, <2>2, <3>2
    <2>4. PICK d \in Views : d = View(p, j)
      BY ViewType DEF StreamsKept
    <2>5. /\ sent[p][j] \in Nat /\ d.total = sent[p][j] /\ d.over = Over(p, j)
          /\ j \in Nat
      BY <2>4, ViewType, ViewFields DEF StreamsKept
    <2>6. PICK at \in Nat : at = got + m
      BY <2>2, <2>3
    <2>7. /\ at <= sent[p][j]
          /\ u.conn.read_closed => at = sent[p][j] /\ Over(p, j)
      BY <2>3, <2>4, <2>5, <2>6, HeardFacts
    <2>8. /\ received[s][o] = Request!Prefix(j, got)
          /\ conn[s].read_closed => got = sent[p][j]
      <3>1. Current(s, o)
        BY <1>2, <1>5 DEF Current
      <3>2. received[s][o] = Request!Prefix(j, got) /\ Hears(conn[s], d, got)
        BY <1>1, <2>1, <2>2, <2>4, <3>1 DEF Follows
      <3>3. QED BY <2>5, <3>2, HeardFacts
    <2>9. received'[s] = [received[s] EXCEPT ![o] = Request!Prefix(j, at)]
      <3>1. received'[s][o] = received[s][o] \o more
        BY <1>4
      <3>2. QED BY <1>4, <2>3, <2>6, <3>1
    <2>10. CASE AtEnd(s)
      <3>1. got = sent[p][j]
        BY <1>5, <2>8, <2>10
      <3>2. at = got
        BY <2>5, <2>6, <2>7, <3>1
      <3>3. received'[s] = received[s]
        <4>1. received'[s] = [received[s] EXCEPT ![o] = received[s][o]]
          BY <2>8, <2>9, <3>2
        <4>2. received[s] \in [1 .. o -> Seq(Byte)]
          BY <1>4
        <4>3. QED BY <4>1, <4>2
      <3>4. AtEnd(s)' = AtEnd(s) \/ ~AtEnd(s)'
        BY <1>6, <2>10
      <3>5. QED BY <1>1, <1>7, <3>3, <3>4
    <2>11. CASE ~AtEnd(s)
      <3>1. at \in got .. sent[p][j]
        BY <2>5, <2>6, <2>7
      <3>2. AtEnd(s)' => at = sent[p][j] /\ Over(p, j)
        BY <1>5, <2>7
      <3>3. Over(p, j) => Flow(p)!Over(j)
        BY <1>4 DEF Over, Flow!Over
      <3>4. /\ Request!Prefix(j, got) = Flow(p)!Prefix(j, got)
            /\ Request!Prefix(j, at) = Flow(p)!Prefix(j, at)
        BY DEF Request!Prefix, Flow!Prefix
      <3>5. received[s] # <<>> /\ j \in 1 .. Len(sent[p])
        BY <1>4
      <3>6. Flow(p)!Take
        <4>1. /\ received[s][o] = Flow(p)!Prefix(j, Len(received[s][o]))
              /\ received'[s] = [received[s] EXCEPT ![o] = Flow(p)!Prefix(j, at)]
              /\ AtEnd(s)' \in BOOLEAN
              /\ AtEnd(s)' => at = sent[p][j] /\ Flow(p)!Over(j)
              /\ at \in Len(received[s][o]) .. sent[p][j]
          BY <1>6, <2>2, <2>8, <2>9, <3>1, <3>2, <3>3, <3>4
        <4>2. \E i \in 1 .. Len(sent[p]) : \E k \in Len(received[s][o]) .. sent[p][i] :
                /\ received[s][o] = Flow(p)!Prefix(i, Len(received[s][o]))
                /\ received'[s] = [received[s] EXCEPT ![o] = Flow(p)!Prefix(i, k)]
                /\ AtEnd(s)' \in BOOLEAN
                /\ AtEnd(s)' => k = sent[p][i] /\ Flow(p)!Over(i)
          BY <3>5, <4>1
        <4>3. o = Len(received[s])
          BY <1>4
        <4>4. QED BY <1>1, <1>3, <2>11, <3>5, <4>2, <4>3 DEF Flow!Take
      <3>7. QED BY <1>1, <3>6 DEF Flow!Next
    <2>12. QED BY <2>10, <2>11
  <1>10. QED BY <1>8, <1>9

\* A new connection opens a stream in both directions.
LEMMA FoundsFlows ==
  ASSUME StreamsApart, TypeOK, AllFit, NEW s \in Side, NEW u, Founds(s, u)
  PROVE  Flow(s)!Next /\ Flow(Peer(s))!Next
  <1>1. PICK p \in Side : p = Peer(s) /\ Peer(p) = s
    BY TwoSides
  <1>2. PICK i : i = opened[s] + 1
    OBVIOUS
  <1>3. /\ sent'[s] = Append(sent[s], 0) /\ received'[s] = Append(received[s], <<>>)
        /\ conn'[s] = u.conn /\ Unaffected(p)
    BY <1>1 DEF Founds
  <1>4. /\ received'[p] = received[p] /\ AtEnd(p)' = AtEnd(p) /\ sent'[p] = sent[p]
        /\ WritesNoMore(p)' = WritesNoMore(p) /\ AckedBytes(p)' = AckedBytes(p)
    BY <1>3, UnaffectedShows
  <1>5. Connected(s)' /\ u.conn.acked = 0 /\ ~u.conn.read_closed
    <2>1. u.conn.acked = 0 /\ ~u.conn.read_closed
      BY DEF Founds, Begins
    <2>2. Connected(s)'
      BY <1>2, FoundsFields
    <2>3. QED BY <2>1, <2>2
  <1>6. WritesNoMore(s)' = FALSE
    <2>1. PICK w : w = View(s, i)'
      OBVIOUS
    <2>2. w = NewView(Isn[s][i], i)
      BY <1>2, <2>1, FoundsViews
    <2>3. w.over = Over(s, i)'
      BY <2>1 DEF View
    <2>4. ~w.over
      BY <2>2 DEF NewView
    <2>5. QED BY <2>3, <2>4 DEF Over, WritesNoMore
  <1>7. AckedBytes(s)' = 0
    BY <1>3, <1>5 DEF AckedBytes
  <1>8. AtEnd(s)' = FALSE
    BY <1>3, <1>5 DEF AtEnd
  <1>9. Flow(s)!SenderOpens
    BY <1>1, <1>3, <1>4, <1>6, <1>7 DEF Flow!SenderOpens
  <1>10. Flow(p)!ReceiverOpens
    BY <1>1, <1>3, <1>4, <1>8 DEF Flow!ReceiverOpens
  <1>11. QED BY <1>1, <1>9, <1>10 DEF Flow!Next

\* Every step of the pair is a step of the stream from s, or changes nothing of it.
LEMMA FlowStep ==
  ASSUME StreamsApart, TypeOK, BooksKept, StreamsKept, [Next]_vars, NEW q \in Side
  PROVE  Flow(q)!Next \/ UNCHANGED Flow(q)!vars
  <1>1. CASE UNCHANGED <<conn, opened, sent, received>>
    <2>1. Unaffected(q) /\ Unaffected(Peer(q))
      BY <1>1 DEF Unaffected
    <2>2. PICK p \in Side : p = Peer(q)
      BY TwoSides
    <2>3. /\ sent'[q] = sent[q] /\ WritesNoMore(q)' = WritesNoMore(q)
          /\ AckedBytes(q)' = AckedBytes(q)
          /\ received'[p] = received[p] /\ AtEnd(p)' = AtEnd(p)
      BY <2>1, <2>2, UnaffectedShows
    <2>4. QED BY <2>2, <2>3 DEF Flow!vars
  <1>2. ASSUME NEW s \in Side, NEW u, NEW more, NEW n, Steps(s, u, more, n)
        PROVE  Flow(q)!Next \/ UNCHANGED Flow(q)!vars
    <2>1. Runs(s, u, more, n)
      BY <1>2 DEF Steps
    <2>2. CASE q = s
      BY <1>2, <2>2, SenderFlows
    <2>3. CASE q = Peer(s)
      BY <2>1, <2>3, ReceiverFlows
    <2>4. QED BY <2>2, <2>3, TwoSides
  <1>3. ASSUME NEW s \in Side, NEW u, Founds(s, u) PROVE Flow(q)!Next
    <2>1. Flow(s)!Next /\ Flow(Peer(s))!Next
      BY <1>3, FoundsFlows DEF StreamsKept
    <2>2. QED BY <2>1, TwoSides
  <1>4. QED BY <1>1, <1>2, <1>3, NextIs

\* At the start nothing is written, nothing taken in, on either side.
LEMMA FlowInit ==
  ASSUME Init, NEW q \in Side
  PROVE  Flow(q)!Init
  <1>1. PICK p \in Side : p = Peer(q)
    BY TwoSides
  <1>2. \A s \in Side : /\ ~Connected(s) /\ sent[s] = <<>> /\ received[s] = <<>>
    BY DEF Init, Connected
  <1>3. /\ WritesNoMore(q) = TRUE /\ AckedBytes(q) = 0 /\ AtEnd(p) = FALSE
    BY <1>2 DEF WritesNoMore, AckedBytes, AtEnd
  <1>4. QED BY <1>1, <1>2, <1>3 DEF Flow!Init

\* The two directions are the flows of the two sides.
LEMMA TwoFlows ==
  /\ Opener \in Side /\ Acceptor \in Side
  /\ Flow(Opener)!Init => Request!Init
  /\ Flow(Opener)!Next => Request!Next
  /\ UNCHANGED Flow(Opener)!vars => UNCHANGED Request!vars
  /\ Flow(Acceptor)!Init => Reply!Init
  /\ Flow(Acceptor)!Next => Reply!Next
  /\ UNCHANGED Flow(Acceptor)!vars => UNCHANGED Reply!vars
  <1>1. Opener \in Side /\ Acceptor \in Side /\ Peer(Acceptor) = Opener
    BY PairAssumption, TwoSides DEF Acceptor
  <1>2. /\ Flow(Opener)!Init => Request!Init
        /\ UNCHANGED Flow(Opener)!vars => UNCHANGED Request!vars
    BY DEF Flow!Init, Request!Init, Flow!vars, Request!vars, Acceptor
  <1>3. Flow(Opener)!Next => Request!Next
    BY DEF Flow!Next, Flow!SenderOpens, Flow!ReceiverOpens, Flow!Write, Flow!Close, Flow!Take,
           Flow!Confirm, Flow!SenderForgets, Flow!ReceiverForgets, Flow!FromStream, Flow!Over,
           Flow!Prefix,
           Request!Next, Request!SenderOpens, Request!ReceiverOpens, Request!Write,
           Request!Close, Request!Take, Request!Confirm, Request!SenderForgets,
           Request!ReceiverForgets, Request!FromStream, Request!Over, Request!Prefix, Acceptor
  <1>4. /\ Flow(Acceptor)!Init => Reply!Init
        /\ UNCHANGED Flow(Acceptor)!vars => UNCHANGED Reply!vars
    BY <1>1 DEF Flow!Init, Reply!Init, Flow!vars, Reply!vars
  <1>5. Flow(Acceptor)!Next => Reply!Next
    BY <1>1
       DEF Flow!Next, Flow!SenderOpens, Flow!ReceiverOpens, Flow!Write, Flow!Close, Flow!Take,
           Flow!Confirm, Flow!SenderForgets, Flow!ReceiverForgets, Flow!FromStream, Flow!Over,
           Flow!Prefix,
           Reply!Next, Reply!SenderOpens, Reply!ReceiverOpens, Reply!Write,
           Reply!Close, Reply!Take, Reply!Confirm, Reply!SenderForgets,
           Reply!ReceiverForgets, Reply!FromStream, Reply!Over, Reply!Prefix
  <1>6. QED BY <1>1, <1>2, <1>3, <1>4, <1>5

\* Two stacks and a carrier implement a reliable byte stream in each direction:
\* bytes arrive once and in order, Acked is never early and an end of file is honest
\* (insert_received, drain_reassembly, apply_ack, SendProgress).
THEOREM StreamsImplemented ==
  ASSUME StreamsApart
  PROVE  Spec => ImplementsByteStream
  <1>1. Init => Request!Init /\ Reply!Init
    BY FlowInit, TwoFlows
  <1>2. TypeOK /\ BooksKept /\ StreamsKept /\ [Next]_vars
          => [Request!Next]_(Request!vars) /\ [Reply!Next]_(Reply!vars)
    <2>1. SUFFICES ASSUME TypeOK, BooksKept, StreamsKept, [Next]_vars
          PROVE  [Request!Next]_(Request!vars) /\ [Reply!Next]_(Reply!vars)
      OBVIOUS
    <2>2. Flow(Opener)!Next \/ UNCHANGED Flow(Opener)!vars
      BY <2>1, FlowStep, TwoFlows
    <2>3. Flow(Acceptor)!Next \/ UNCHANGED Flow(Acceptor)!vars
      BY <2>1, FlowStep, TwoFlows
    <2>4. QED BY <2>2, <2>3, TwoFlows
  <1>3. QED BY <1>1, <1>2, StreamsAreKept, PTL
            DEF Spec, ImplementsByteStream, Request!Spec, Reply!Spec

-----------------------------------------------------------------------------
(* What the applications see                                               *)

RequestFacts == INSTANCE ByteStreamProofs WITH
  sent <- sent[Opener], closed <- WritesNoMore(Opener), confirmed <- AckedBytes(Opener),
  received <- received[Acceptor], ended <- AtEnd(Acceptor)

ReplyFacts == INSTANCE ByteStreamProofs WITH
  sent <- sent[Acceptor], closed <- WritesNoMore(Acceptor), confirmed <- AckedBytes(Acceptor),
  received <- received[Opener], ended <- AtEnd(Opener)

\* In both directions a connection takes in the bytes of one connection of the peer,
\* each once and in order; is_read_closed comes after the last of them and no more is
\* written; and bytes reported acknowledged were taken in (ByteStream's invariants,
\* of the code in insert_received, drain_reassembly and apply_ack).
THEOREM StreamsAreReliable ==
  ASSUME StreamsApart
  PROVE  Spec => []( /\ Request!StreamIntact /\ Request!CleanEof /\ Request!AckedMeansReceived
                     /\ Reply!StreamIntact /\ Reply!CleanEof /\ Reply!AckedMeansReceived)
  <1>1. Request!Spec => [](Request!StreamIntact /\ Request!CleanEof /\ Request!AckedMeansReceived)
    BY RequestFacts!StreamIsReliable, PTL
       DEF RequestFacts!Spec, RequestFacts!Init, RequestFacts!Next, RequestFacts!vars,
           RequestFacts!SenderOpens, RequestFacts!ReceiverOpens, RequestFacts!Write,
           RequestFacts!Close, RequestFacts!Take, RequestFacts!Confirm,
           RequestFacts!SenderForgets, RequestFacts!ReceiverForgets, RequestFacts!Over,
           RequestFacts!FromStream, RequestFacts!Prefix, RequestFacts!StreamIntact,
           RequestFacts!CleanEof, RequestFacts!AckedMeansReceived,
           Request!Spec, Request!Init, Request!Next, Request!vars,
           Request!SenderOpens, Request!ReceiverOpens, Request!Write,
           Request!Close, Request!Take, Request!Confirm,
           Request!SenderForgets, Request!ReceiverForgets, Request!Over,
           Request!FromStream, Request!Prefix, Request!StreamIntact,
           Request!CleanEof, Request!AckedMeansReceived
  <1>2. Reply!Spec => [](Reply!StreamIntact /\ Reply!CleanEof /\ Reply!AckedMeansReceived)
    BY ReplyFacts!StreamIsReliable, PTL
       DEF ReplyFacts!Spec, ReplyFacts!Init, ReplyFacts!Next, ReplyFacts!vars,
           ReplyFacts!SenderOpens, ReplyFacts!ReceiverOpens, ReplyFacts!Write,
           ReplyFacts!Close, ReplyFacts!Take, ReplyFacts!Confirm,
           ReplyFacts!SenderForgets, ReplyFacts!ReceiverForgets, ReplyFacts!Over,
           ReplyFacts!FromStream, ReplyFacts!Prefix, ReplyFacts!StreamIntact,
           ReplyFacts!CleanEof, ReplyFacts!AckedMeansReceived,
           Reply!Spec, Reply!Init, Reply!Next, Reply!vars,
           Reply!SenderOpens, Reply!ReceiverOpens, Reply!Write,
           Reply!Close, Reply!Take, Reply!Confirm,
           Reply!SenderForgets, Reply!ReceiverForgets, Reply!Over,
           Reply!FromStream, Reply!Prefix, Reply!StreamIntact,
           Reply!CleanEof, Reply!AckedMeansReceived
  <1>3. QED BY <1>1, <1>2, StreamsImplemented, PTL DEF ImplementsByteStream
=============================================================================
