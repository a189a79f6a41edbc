--------------------------- MODULE TcpPairStreams ---------------------------
(***************************************************************************)
(* TcpPair implements a ByteStream in each direction.                      *)
(***************************************************************************)
EXTENDS TcpPair

\* The side that listens.
Acceptor == Peer(Opener)

\* The streams of a side are so short, and their initial sequence numbers so far
\* apart, that no sequence number means two places (Connection::server and
\* connect_from_with_isn take theirs from the caller or at random).
StreamsApart ==
  \A s \in Side :
    /\ WriteLimit[s] + 2 + ReceiveBuffer < Modulus
    /\ \A i, j \in 1 .. Len(Isn[s]) :
         i # j => Distance(Isn[s][i], Isn[s][j]) >= WriteLimit[s] + 2 + ReceiveBuffer

\* close was called, or the connection is gone.
WritesNoMore(s) ==
  \/ ~Connected(s)
  \/ conn[s].close_requested
  \/ conn[s].state \notin {"SynSent", "SynReceived", "Established", "CloseWait"}

AckedBytes(s) == IF Connected(s) THEN conn[s].acked ELSE 0

AtEnd(s) == Connected(s) /\ conn[s].read_closed

Request == INSTANCE ByteStream WITH
  sent <- sent[Opener], closed <- WritesNoMore(Opener), confirmed <- AckedBytes(Opener),
  received <- received[Acceptor], ended <- AtEnd(Acceptor)

Reply == INSTANCE ByteStream WITH
  sent <- sent[Acceptor], closed <- WritesNoMore(Acceptor), confirmed <- AckedBytes(Acceptor),
  received <- received[Opener], ended <- AtEnd(Opener)

\* Whatever the carrier loses, repeats or reorders, whoever closes or forgets:
\* each step of the two stacks is a step of a reliable byte stream in each
\* direction, or changes nothing of it.  Bytes arrive once and in order, Acked is
\* never early and an end of file is honest (ByteStream's theorems).
ImplementsByteStream == Request!Spec /\ Reply!Spec
=============================================================================
