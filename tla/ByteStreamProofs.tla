-------------------------- MODULE ByteStreamProofs --------------------------
(***************************************************************************)
(* What a byte stream promises follows from its steps: whatever implements *)
(* ByteStream delivers in order, confirms no byte early and ends honestly. *)
(***************************************************************************)
EXTENDS ByteStream, TLAPS

Promise == TypeOK /\ StreamIntact /\ CleanEof /\ AckedMeansReceived

\* A prefix of one stream that is not empty is a prefix of no other.
LEMMA PrefixNamesStream ==
  ASSUME NEW i \in Nat, NEW h \in Nat, NEW n \in Nat, n > 0, Prefix(i, n) = Prefix(h, n)
  PROVE  i = h
<1>1. Prefix(i, n)[1] = Prefix(h, n)[1]
  OBVIOUS
<1>2. Prefix(i, n)[1] = <<i, 1>> /\ Prefix(h, n)[1] = <<h, 1>>
  BY DEF Prefix
<1> QED
  BY <1>1, <1>2

\* Prefixes are sequences of as many bytes as they say.
LEMMA PrefixType ==
  ASSUME NEW i \in Nat, NEW n \in Nat
  PROVE  /\ Prefix(i, n) \in Seq(Nat \X Nat) /\ Len(Prefix(i, n)) = n
         /\ n = 0 => Prefix(i, n) = <<>>
  BY DEF Prefix

\* What Append and an update at one place do to a sequence.
LEMMA AppendFacts ==
  ASSUME NEW S, NEW s \in Seq(S), NEW e \in S
  PROVE  /\ Append(s, e) \in Seq(S) /\ Len(Append(s, e)) = Len(s) + 1
         /\ \A i \in 1 .. Len(s) : Append(s, e)[i] = s[i]
         /\ Append(s, e)[Len(s) + 1] = e
  OBVIOUS

LEMMA ExceptFacts ==
  ASSUME NEW S, NEW s \in Seq(S), NEW j \in 1 .. Len(s), NEW e \in S
  PROVE  /\ [s EXCEPT ![j] = e] \in Seq(S) /\ Len([s EXCEPT ![j] = e]) = Len(s)
         /\ \A i \in 1 .. Len(s) : i # j => [s EXCEPT ![j] = e][i] = s[i]
         /\ [s EXCEPT ![j] = e][j] = e
  OBVIOUS

\* Streams that only grow keep what was taken from them.
LEMMA GrownStreamIntact ==
  ASSUME StreamIntact, received' = received, Len(sent) \in Nat, Len(sent') \in Nat,
         Len(sent') >= Len(sent), \A i \in 1 .. Len(sent) : sent'[i] >= sent[i],
         \A i \in 1 .. Len(sent) : sent[i] \in Nat /\ sent'[i] \in Nat,
         \A j \in 1 .. Len(received) : Len(received[j]) \in Nat
  PROVE  StreamIntact'
<1>1. ASSUME NEW j \in 1 .. Len(received), received[j] # <<>>
      PROVE  \E i \in 1 .. Len(sent') : FromStream(j, i)'
  <2>1. PICK i \in 1 .. Len(sent) : FromStream(j, i)
    BY <1>1 DEF StreamIntact
  <2>2. i \in 1 .. Len(sent')
    OBVIOUS
  <2>3. FromStream(j, i)'
    BY <2>1 DEF FromStream
  <2> QED
    BY <2>2, <2>3
<1> QED
  BY <1>1 DEF StreamIntact

LEMMA TypeFacts ==
  ASSUME TypeOK
  PROVE  /\ Len(sent) \in Nat /\ Len(received) \in Nat
         /\ \A i \in 1 .. Len(sent) : sent[i] \in Nat
         /\ \A j \in 1 .. Len(received) :
              received[j] \in Seq(Nat \X Nat) /\ Len(received[j]) \in Nat
         /\ sent # <<>> <=> Len(sent) > 0
         /\ received # <<>> <=> Len(received) > 0
<1>1. \A j \in 1 .. Len(received) : received[j] \in Seq(Nat \X Nat)
  BY DEF TypeOK
<1>2. \A q \in Seq(Nat \X Nat) : Len(q) \in Nat
  OBVIOUS
<1>3. Len(sent) \in Nat /\ \A i \in 1 .. Len(sent) : sent[i] \in Nat
  BY DEF TypeOK
<1>4. sent # <<>> <=> Len(sent) > 0
  BY DEF TypeOK
<1>5. received # <<>> <=> Len(received) > 0
  BY DEF TypeOK
<1>6. Len(received) \in Nat
  BY DEF TypeOK
<1> QED
  BY <1>1, <1>2, <1>3, <1>4, <1>5, <1>6

\* Nothing is promised of no connection.
LEMMA PromiseInit == Init => Promise
<1> SUFFICES ASSUME Init PROVE Promise
  OBVIOUS
<1>1. \A S : <<>> \in Seq(S)
  OBVIOUS
<1>2. TypeOK
  BY <1>1 DEF Init, TypeOK
<1> QED
  BY <1>2 DEF Init, Promise, StreamIntact, CleanEof, AckedMeansReceived

LEMMA SenderOpensKeeps == ASSUME Promise, SenderOpens PROVE Promise'
<1>0. TypeOK /\ StreamIntact /\ CleanEof
  BY DEF Promise
<1>1. /\ sent' = Append(sent, 0) /\ closed' = FALSE /\ confirmed' = 0
      /\ received' = received /\ ended' = ended
  BY DEF SenderOpens
<1>2. /\ sent' \in Seq(Nat) /\ Len(sent') = Len(sent) + 1
      /\ \A i \in 1 .. Len(sent) : sent'[i] = sent[i]
  BY <1>0, <1>1, AppendFacts DEF TypeOK
<1>3. StreamIntact'
  BY <1>0, <1>1, <1>2, TypeFacts, GrownStreamIntact
<1>4. CleanEof'
  BY <1>0, <1>1, <1>2, TypeFacts DEF CleanEof, Over
<1>5. AckedMeansReceived'
  BY <1>1 DEF AckedMeansReceived
<1>6. TypeOK'
  BY <1>0, <1>1, <1>2 DEF TypeOK
<1> QED
  BY <1>3, <1>4, <1>5, <1>6 DEF Promise

\* A stream grows only at its end, and one that is over not at all.
LEMMA WriteKeeps == ASSUME Promise, Write PROVE Promise'
<1> DEFINE last == Len(sent)
<1>0. TypeOK /\ StreamIntact /\ CleanEof /\ AckedMeansReceived
  BY DEF Promise
<1>1. /\ sent # <<>> /\ ~closed /\ sent'[last] \in Nat /\ sent'[last] > sent[last]
      /\ sent' = [sent EXCEPT ![last] = sent'[last]]
      /\ closed' = closed /\ confirmed' = confirmed
      /\ received' = received /\ ended' = ended
  BY DEF Write
<1>2. last \in 1 .. Len(sent)
  BY <1>0, <1>1, TypeFacts
<1>3. /\ sent' \in Seq(Nat) /\ Len(sent') = Len(sent)
      /\ \A i \in 1 .. Len(sent) : i # last => sent'[i] = sent[i]
  <2> DEFINE n == sent'[last]
  <2>1. n \in Nat /\ sent \in Seq(Nat)
    BY <1>0, <1>1 DEF TypeOK
  <2>2. sent' = [sent EXCEPT ![last] = n]
    BY <1>1
  <2> HIDE DEF n
  <2> QED
    BY <1>2, <2>1, <2>2, ExceptFacts
<1>4. \A i \in 1 .. Len(sent) : sent'[i] \in Nat /\ sent'[i] >= sent[i]
  BY <1>0, <1>1, <1>3, TypeFacts
<1>5. StreamIntact'
  BY <1>0, <1>1, <1>3, <1>4, TypeFacts, GrownStreamIntact
<1>6. CleanEof'
  BY <1>0, <1>1, <1>3, TypeFacts DEF CleanEof, Over
<1>7. AckedMeansReceived'
  <2> SUFFICES ASSUME confirmed > 0
               PROVE  sent' # <<>> /\ \E j \in 1 .. Len(received) :
                        FromStream(j, Len(sent))' /\ confirmed <= Len(received[j])
    BY <1>1, <1>3 DEF AckedMeansReceived
  <2>1. PICK j \in 1 .. Len(received) :
          FromStream(j, last) /\ confirmed <= Len(received[j])
    BY <1>0 DEF AckedMeansReceived
  <2>2. FromStream(j, Len(sent))'
    BY <1>0, <1>1, <1>2, <1>3, <1>4, <2>1, TypeFacts DEF FromStream
  <2>3. sent' # <<>>
    BY <1>2, <1>3
  <2> QED
    BY <2>1, <2>2, <2>3
<1> QED
  BY <1>0, <1>1, <1>3, <1>5, <1>6, <1>7 DEF Promise, TypeOK

LEMMA TakeKeeps == ASSUME Promise, Take PROVE Promise'
<1> USE DEF Promise, TypeOK
<1> DEFINE j == Len(received)
<1>1. /\ received # <<>> /\ j \in 1 .. Len(received) /\ received[j] \in Seq(Nat \X Nat)
      /\ UNCHANGED <<sent, closed, confirmed>>
  BY DEF Take
<1>0. PICK i \in 1 .. Len(sent) : \E n \in Len(received[j]) .. sent[i] :
        /\ received[j] = Prefix(i, Len(received[j]))
        /\ received' = [received EXCEPT ![j] = Prefix(i, n)]
        /\ ended' \in BOOLEAN
        /\ ended' => n = sent[i] /\ Over(i)
  BY DEF Take
<1>2. PICK n \in Len(received[j]) .. sent[i] :
        /\ received[j] = Prefix(i, Len(received[j]))
        /\ received' = [received EXCEPT ![j] = Prefix(i, n)]
        /\ ended' \in BOOLEAN
        /\ ended' => n = sent[i] /\ Over(i)
  BY <1>0
<1>3. /\ n \in Nat /\ n <= sent[i] /\ n >= Len(received[j])
      /\ Prefix(i, n) \in Seq(Nat \X Nat) /\ Len(Prefix(i, n)) = n
  <2>1. i \in Nat /\ sent[i] \in Nat /\ Len(received[j]) \in Nat
    BY <1>1, TypeFacts
  <2>2. n \in Nat /\ n <= sent[i] /\ n >= Len(received[j])
    BY <2>1
  <2> QED
    BY <2>1, <2>2, PrefixType
<1>4. /\ received' \in Seq(Seq(Nat \X Nat)) /\ Len(received') = Len(received)
      /\ received'[j] = Prefix(i, n) /\ received' # <<>>
      /\ \A h \in 1 .. Len(received) : h # j => received'[h] = received[h]
  BY <1>1, <1>2, <1>3
<1>5. FromStream(j, i)'
  BY <1>1, <1>3, <1>4 DEF FromStream
<1>6. StreamIntact'
  BY <1>1, <1>4, <1>5 DEF StreamIntact, FromStream
<1>7. CleanEof'
  BY <1>1, <1>2, <1>4 DEF CleanEof, Over
<1>8. AckedMeansReceived'
  <2> SUFFICES ASSUME confirmed > 0
               PROVE  sent # <<>> /\ \E h \in 1 .. Len(received) :
                        FromStream(h, Len(sent))' /\ confirmed <= Len(received'[h])
    BY <1>1, <1>4 DEF AckedMeansReceived
  <2>1. PICK h \in 1 .. Len(received) :
          FromStream(h, Len(sent)) /\ confirmed <= Len(received[h])
    BY DEF AckedMeansReceived
  <2>2. sent # <<>>
    BY DEF AckedMeansReceived
  <2>3. CASE h # j
    BY <1>1, <1>4, <2>1, <2>2, <2>3 DEF FromStream
  <2>4. CASE h = j
    <3>1. Len(received[j]) \in Nat /\ Len(received[j]) > 0
      BY <1>1, <2>1, <2>4
    <3>2. Prefix(i, Len(received[j])) = Prefix(Len(sent), Len(received[j]))
      BY <1>2, <2>1, <2>4 DEF FromStream
    <3>3. i = Len(sent)
      BY <3>1, <3>2, PrefixNamesStream
    <3>4. FromStream(h, Len(sent))'
      BY <1>1, <1>4, <1>5, <2>4, <3>3
    <3>5. confirmed <= Len(received'[j])
      BY <1>3, <1>4, <2>1, <2>4, <3>1
    <3> QED
      BY <2>2, <2>4, <3>4, <3>5
  <2> QED
    BY <2>3, <2>4
<1> QED
  BY <1>1, <1>2, <1>4, <1>6, <1>7, <1>8

LEMMA ConfirmKeeps == ASSUME Promise, Confirm PROVE Promise'
<1> USE DEF Promise, TypeOK
<1>1. PICK j \in 1 .. Len(received) :
        /\ FromStream(j, Len(sent))
        /\ confirmed' \in confirmed + 1 .. Len(received[j])
  BY DEF Confirm
<1>2. sent # <<>> /\ UNCHANGED <<sent, closed, received, ended>>
  BY DEF Confirm
<1>3. confirmed' \in Nat /\ confirmed' <= Len(received[j])
  BY <1>1
<1>4. AckedMeansReceived'
  BY <1>1, <1>2, <1>3 DEF AckedMeansReceived, FromStream
<1> QED
  BY <1>2, <1>3, <1>4 DEF StreamIntact, CleanEof, FromStream, Over

\* The other steps start or forget a connection, or close it.
LEMMA RestKeeps ==
  ASSUME Promise, ReceiverOpens \/ Close \/ SenderForgets \/ ReceiverForgets
  PROVE  Promise'
<1> USE DEF Promise, TypeOK
<1>1. CASE ReceiverOpens
  <2>1. /\ received' \in Seq(Seq(Nat \X Nat)) /\ Len(received') = Len(received) + 1
        /\ \A j \in 1 .. Len(received) : received'[j] = received[j]
        /\ received'[Len(received) + 1] = <<>>
        /\ ended' = FALSE /\ UNCHANGED <<sent, closed, confirmed>>
    <3>1. <<>> \in Seq(Nat \X Nat)
      OBVIOUS
    <3> QED
      BY <1>1, <3>1, AppendFacts DEF ReceiverOpens
  <2>2. StreamIntact'
    <3> SUFFICES ASSUME NEW j \in 1 .. Len(received) + 1, received'[j] # <<>>
                 PROVE  \E i \in 1 .. Len(sent) : FromStream(j, i)'
      BY <2>1 DEF StreamIntact
    <3>0. Len(received) \in Nat
      BY TypeFacts
    <3>1. j \in 1 .. Len(received) /\ received'[j] = received[j]
      <4>1. j # Len(received) + 1
        BY <2>1
      <4>2. j \in 1 .. Len(received)
        BY <3>0, <4>1
      <4> QED
        BY <2>1, <4>2
    <3>2. PICK i \in 1 .. Len(sent) : FromStream(j, i)
      BY <3>1 DEF StreamIntact
    <3>3. FromStream(j, i)'
      BY <2>1, <3>1, <3>2 DEF FromStream
    <3> QED
      BY <3>3
  <2>3. AckedMeansReceived'
    <3> SUFFICES ASSUME confirmed > 0
                 PROVE  sent # <<>> /\ \E j \in 1 .. Len(received) + 1 :
                          FromStream(j, Len(sent))' /\ confirmed <= Len(received'[j])
      BY <2>1 DEF AckedMeansReceived
    <3>1. PICK j \in 1 .. Len(received) :
            FromStream(j, Len(sent)) /\ confirmed <= Len(received[j])
      BY DEF AckedMeansReceived
    <3>2. FromStream(j, Len(sent))' /\ confirmed <= Len(received'[j])
      BY <2>1, <3>1 DEF FromStream
    <3>3. j \in 1 .. Len(received) + 1
      BY TypeFacts
    <3> QED
      BY <3>2, <3>3 DEF AckedMeansReceived
  <2> QED
    BY <2>1, <2>2, <2>3 DEF CleanEof
<1>2. CASE Close
  BY <1>2 DEF Close, StreamIntact, CleanEof, AckedMeansReceived, FromStream, Over
<1>3. CASE SenderForgets
  BY <1>3 DEF SenderForgets, StreamIntact, CleanEof, AckedMeansReceived, FromStream, Over
<1>4. CASE ReceiverForgets
  BY <1>4 DEF ReceiverForgets, StreamIntact, CleanEof, AckedMeansReceived, FromStream, Over
<1> QED
  BY <1>1, <1>2, <1>3, <1>4

\* Every behaviour of a byte stream keeps its promise: bytes in order and once,
\* an honest end of file, and Acked only for bytes the peer has
\* (drain_reassembly, is_read_closed, SendProgress).
THEOREM StreamIsReliable == Spec => [](StreamIntact /\ CleanEof /\ AckedMeansReceived)
<1>1. Init => Promise
  BY PromiseInit
<1>2. Promise /\ [Next]_vars => Promise'
  <2> SUFFICES ASSUME Promise, [Next]_vars PROVE Promise'
    OBVIOUS
  <2>1. CASE UNCHANGED vars
    BY <2>1 DEF vars, Promise, TypeOK, StreamIntact, CleanEof, AckedMeansReceived,
                FromStream, Over
  <2>2. CASE Next
    BY <2>2, SenderOpensKeeps, WriteKeeps, TakeKeeps, ConfirmKeeps, RestKeeps DEF Next
  <2> QED
    BY <2>1, <2>2
<1>3. Promise => StreamIntact /\ CleanEof /\ AckedMeansReceived
  BY DEF Promise
<1> QED
  BY <1>1, <1>2, <1>3, PTL DEF Spec
=============================================================================
