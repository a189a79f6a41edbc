----------------------------- MODULE ByteStream -----------------------------
(***************************************************************************)
(* What TCP/FIPS promises for the bytes of one direction of a tuple, from  *)
(* the connections of a sender to those of a receiver: "a reliable stream  *)
(* while both endpoints retain connection state".                          *)
(*                                                                         *)
(* Connections follow each other on both sides and either side may forget  *)
(* its own at any time.  The k-th byte written on the i-th connection of   *)
(* the sender is <<i, k>>.                                                 *)
(***************************************************************************)
EXTENDS Integers, Sequences

VARIABLES
  sent,        \* sent[i]: bytes written on the i-th connection of the sender
  closed,      \* the sender's application writes no more on its last one
  confirmed,   \* bytes reported acknowledged on the sender's connection
  received,    \* received[j]: bytes taken in on the receiver's j-th connection
  ended        \* the receiver's connection reports the end of the stream

vars == <<sent, closed, confirmed, received, ended>>

Prefix(i, n) == [k \in 1 .. n |-> <<i, k>>]

\* Connection j of the receiver took in the beginning of the i-th stream.
FromStream(j, i) ==
  Len(received[j]) <= sent[i] /\ received[j] = Prefix(i, Len(received[j]))

Init ==
  /\ sent = <<>> /\ closed = TRUE /\ confirmed = 0
  /\ received = <<>> /\ ended = FALSE

SenderOpens ==
  /\ sent' = Append(sent, 0) /\ closed' = FALSE /\ confirmed' = 0
  /\ UNCHANGED <<received, ended>>

ReceiverOpens ==
  /\ received' = Append(received, <<>>) /\ ended' = FALSE
  /\ UNCHANGED <<sent, closed, confirmed>>

Write ==
  /\ sent # <<>> /\ ~closed
  /\ LET last == Len(sent) IN
       /\ sent'[last] \in Nat /\ sent'[last] > sent[last]
       /\ sent' = [sent EXCEPT ![last] = sent'[last]]
  /\ UNCHANGED <<closed, confirmed, received, ended>>

Close ==
  /\ closed' = TRUE
  /\ UNCHANGED <<sent, confirmed, received, ended>>

\* Nothing more will be written on stream i.
Over(i) == i < Len(sent) \/ closed

\* The receiver takes in more of the stream it is at, and sees the end of it
\* only when that was all.
Take ==
  /\ received # <<>> /\ ~ended
  /\ LET j == Len(received) IN
     \E i \in 1 .. Len(sent) : \E n \in Len(received[j]) .. sent[i] :
       /\ received[j] = Prefix(i, Len(received[j]))
       /\ received' = [received EXCEPT ![j] = Prefix(i, n)]
       /\ ended' \in BOOLEAN
       /\ ended' => n = sent[i] /\ Over(i)
  /\ UNCHANGED <<sent, closed, confirmed>>

\* The sender learns of bytes that a receiver's connection took in.
Confirm ==
  /\ sent # <<>>
  /\ \E j \in 1 .. Len(received) :
       /\ FromStream(j, Len(sent))
       /\ confirmed' \in confirmed + 1 .. Len(received[j])
  /\ UNCHANGED <<sent, closed, received, ended>>

SenderForgets ==
  /\ closed' = TRUE /\ confirmed' = 0
  /\ UNCHANGED <<sent, received, ended>>

ReceiverForgets ==
  /\ ended' = FALSE
  /\ UNCHANGED <<sent, closed, confirmed, received>>

Next ==
  \/ SenderOpens \/ Write \/ Close \/ Confirm \/ SenderForgets
  \/ ReceiverOpens \/ Take \/ ReceiverForgets

Spec == Init /\ [][Next]_vars

-----------------------------------------------------------------------------
(* What follows                                                            *)

TypeOK ==
  /\ sent \in Seq(Nat) /\ closed \in BOOLEAN /\ confirmed \in Nat
  /\ received \in Seq(Seq(Nat \X Nat)) /\ ended \in BOOLEAN

\* A connection takes in the bytes of one connection of the peer, each once, in
\* the order written (insert_received, drain_reassembly).
StreamIntact ==
  \A j \in 1 .. Len(received) :
    received[j] # <<>> => \E i \in 1 .. Len(sent) : FromStream(j, i)

\* is_read_closed is an honest end of file: every byte the peer wrote before its
\* close was taken in, and it writes no more (drain_reassembly).
CleanEof ==
  ended => /\ received # <<>>
           /\ \E i \in 1 .. Len(sent) :
                /\ Over(i)
                /\ received[Len(received)] = Prefix(i, sent[i])

\* A marker that reports Acked is right: the bytes up to it are in the peer's
\* stream, even if the peer's connection is gone by now (SendProgress).
AckedMeansReceived ==
  confirmed > 0 => sent # <<>> /\ \E j \in 1 .. Len(received) :
    FromStream(j, Len(sent)) /\ confirmed <= Len(received[j])
=============================================================================
