----------------------------- MODULE MCTcpPair -----------------------------
(***************************************************************************)
(* Small instances of TcpPair for TLC.  The client's stream crosses the    *)
(* wrap of the sequence space: its initial sequence number is Modulus - 2.  *)
(***************************************************************************)
EXTENDS TcpPairStreams

CONSTANTS client, server

Isns(c, s) == [x \in Side |-> IF x = client THEN c ELSE s]
Writes(c, s) == [x \in Side |-> IF x = client THEN c ELSE s]

OneConnection == Isns(<<Modulus - 2>>, <<5, 20, 11>>)
Reconnecting  == Isns(<<Modulus - 2, 13>>, <<5, 20, 11>>)

OneWay1 == Writes(1, 0)
OneWay2 == Writes(2, 0)
OneWay3 == Writes(3, 0)
OneWay4 == Writes(4, 0)
ServerOnly == Writes(0, 2)

\* The instances are ones the theorems about the streams speak of.
ASSUME StreamsAreApart == StreamsApart
=============================================================================
