----------------------------- MODULE Algorithms -----------------------------
(***************************************************************************)
(* Inputs for the pure parts of the core: the loops of a connection        *)
(* (ConnectionLoops) and segments and datagrams for the codec (Wire).      *)
(***************************************************************************)
EXTENDS ConnectionLoops

W == INSTANCE Wire

VARIABLE wire   \* a segment to encode or bytes to decode

Nothing == [input |-> "none"]

Options ==
  {W!EndOfList, W!NoOperation, W!MaxSegmentSize(1460), W!FipsVersion(1, 0),
   W!Unknown(1, <<>>), W!Unknown(2, <<9>>), W!Unknown(3, <<>>), W!Unknown(8, <<7, 254>>),
   W!Unknown(253, W!Zeros(34))}

OptionLists == UNION {[1 .. n -> Options] : n \in 0 .. 2}

WireSegment(port, number, flags, window, options, payload) ==
  [src_port |-> port, dst_port |-> 258, seq |-> number,
   ack |-> IF "ACK" \in flags THEN {<<number[2], 1>>} ELSE W!NoAck,
   flags |-> flags, window |-> window, options |-> options, payload |-> payload]

WireSegments ==
  {WireSegment(port, number, flags, 65535, options, payload) :
     port \in {0, 65535}, number \in {<<0, 0>>, <<65535, 256>>},
     flags \in {{}, {"SYN", "ECE"}, {"ACK", "PSH", "FIN"}, {"RST", "CWR"}},
     options \in OptionLists, payload \in {<<>>, <<1, 0, 255>>}}

\* Datagrams: encoded segments, cut anywhere or with one byte replaced.
Encoded ==
  {W!Encode(WireSegment(1, <<7, 0>>, flags, 3, options, <<5, 6>>)) :
     flags \in {{"SYN"}, {"ACK"}}, options \in OptionLists}

Datagrams ==
  LET bytes == {e.value : e \in {x \in Encoded : x.error = "none"}}
  IN  UNION {    {SubSeq(b, 1, n) : n \in 0 .. Len(b)}
            \cup {[b EXCEPT ![k] = v] : k \in DOMAIN b, v \in {0, 1, 2, 3, 4, 80, 96, 254, 255}} :
              b \in bytes}

AInit ==
  \/ Init /\ wire = Nothing
  \/ /\ done = FALSE /\ c = Fresh /\ table = <<>> /\ ack = None
     /\ wire \in    [input : {"segment"}, segment : WireSegments]
               \cup [input : {"bytes"}, bytes : Datagrams]

ASpec == AInit /\ [][Compare /\ UNCHANGED wire]_<<c, table, ack, done, wire>>

\* What encode can write and decode reads as it is meant: no end of the list in
\* the middle, no known option in disguise.
Canonical(s) ==
  \A k \in DOMAIN s.options :
    /\ s.options[k] # W!EndOfList
    /\ s.options[k].kind = "Unknown" => s.options[k].code \notin {2, W!FipsOption}

ReadsBack(s) == W!Decode(W!Encode(s).value) = W!Ok(s)

\* decode undoes encode: option padding, header length, flag bits and the split of
\* 32-bit numbers agree in both; and whatever bytes decode accepts, encode accepts
\* the segment and decode reads the same again.
CodecAgrees ==
  /\ wire.input = "segment" =>
       (Canonical(wire.segment) /\ W!Encode(wire.segment).error = "none"
          => ReadsBack(wire.segment))
  /\ wire.input = "bytes" =>
       LET d == W!Decode(wire.bytes)
       IN  d.error = "none" => W!Encode(d.value).error = "none" /\ ReadsBack(d.value)
=============================================================================
