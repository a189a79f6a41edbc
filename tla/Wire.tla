-------------------------------- MODULE Wire --------------------------------
(***************************************************************************)
(* The wire codec (rust/fips-tcp/src/wire.rs): Segment::encode and decode  *)
(* as operators on bytes.  A u32 is a pair of 16-bit words; flags are a    *)
(* set of names; a result carries "none" or the WireError.                 *)
(***************************************************************************)
EXTENDS Integers, Sequences, FiniteSetsExt, SequencesExt

HeaderLen  == 20
LongestHeader == 60
FipsOption == 254

Ok(value)  == [error |-> "none", value |-> value]
Err(error) == [error |-> error, value |-> <<>>]

\* to_be_bytes of a word, and back.
Be(word) == <<word \div 256, word % 256>>
Word(bytes, k) == 256 * bytes[k] + bytes[k + 1]

-----------------------------------------------------------------------------
(* Flags                                                                   *)

FlagBit == [FIN |-> 1, SYN |-> 2, RST |-> 4, PSH |-> 8, ACK |-> 16, ECE |-> 64, CWR |-> 128]

HasBit(bits, b) == (bits \div b) % 2 = 1

Bits(flags) == MapThenSumSet(LAMBDA f : FlagBit[f], flags)

\* URG and NS are what is left of the nine flag bits.
FlagsFromWire(bits) ==
  IF HasBit(bits, 32) \/ HasBit(bits, 256) THEN Err("UnsupportedFlags")
  ELSE Ok({f \in DOMAIN FlagBit : HasBit(bits, FlagBit[f])})

-----------------------------------------------------------------------------
(* Options                                                                 *)

EndOfList == [kind |-> "EndOfList"]
NoOperation == [kind |-> "NoOperation"]
MaxSegmentSize(size) == [kind |-> "MaxSegmentSize", size |-> size]
FipsVersion(version, reserved) ==
  [kind |-> "FipsVersion", version |-> version, reserved |-> reserved]
Unknown(code, data) == [kind |-> "Unknown", code |-> code, data |-> data]

EncodedLen(o) ==
  CASE o.kind \in {"EndOfList", "NoOperation"} -> 1
    [] o.kind \in {"MaxSegmentSize", "FipsVersion"} -> 4
    [] OTHER -> Len(o.data) + 2

OptionError(o) ==
  IF o.kind # "Unknown" THEN "none"
  ELSE IF EncodedLen(o) > 255 THEN "OptionTooLong"
  ELSE IF o.code <= 1 THEN "MalformedOption" ELSE "none"

OptionBytes(o) ==
  CASE o.kind = "EndOfList" -> <<0>>
    [] o.kind = "NoOperation" -> <<1>>
    [] o.kind = "MaxSegmentSize" -> <<2, 4>> \o Be(o.size)
    [] o.kind = "FipsVersion" -> <<FipsOption, 4, o.version, o.reserved>>
    [] o.kind = "Unknown" -> <<o.code, EncodedLen(o)>> \o o.data

\* The option of a code other than 0 and 1 with these data bytes.
OptionOf(code, data) ==
  IF code \in {2, FipsOption} /\ Len(data) # 2 THEN Err("MalformedOption")
  ELSE IF code = 2 THEN Ok(MaxSegmentSize(Word(data, 1)))
  ELSE IF code = FipsOption THEN Ok(FipsVersion(data[1], data[2]))
  ELSE Ok(Unknown(code, data))

\* Put an option in front of the rest, unless either is an error.
Followed(option, rest) ==
  IF option.error # "none" THEN option
  ELSE IF rest.error # "none" THEN rest ELSE Ok(<<option.value>> \o rest.value)

\* decode_options.
DecodeOptions(bytes) ==
  LET from[k \in 1 .. Len(bytes) + 1] ==
        IF k > Len(bytes) THEN Ok(<<>>)
        ELSE IF bytes[k] = 0 THEN Ok(<<>>)
        ELSE IF bytes[k] = 1 THEN Followed(Ok(NoOperation), from[k + 1])
        ELSE IF k = Len(bytes) THEN Err("MalformedOption")
        ELSE LET len == bytes[k + 1]
             IN  IF len < 2 \/ len > Len(bytes) - k + 1 THEN Err("MalformedOption")
                 ELSE Followed(OptionOf(bytes[k], SubSeq(bytes, k + 2, k + len - 1)),
                               from[k + len])
  IN  from[1]

-----------------------------------------------------------------------------
(* Segments: a record [src_port, dst_port, seq, ack, flags, window,        *)
(* options, payload], where ack is a set of at most one number.            *)

NoAck == {}

OptionsLen(options) == FoldLeft(LAMBDA sum, o : sum + EncodedLen(o), 0, options)

\* Fault: options end where they end.
PaddedNot(n) == n

Padded(n) == 4 * ((n + 3) \div 4)

Zeros(n) == [k \in 1 .. n |-> 0]

\* Segment::encode.
Encode(s) ==
  LET optionsLen == OptionsLen(s.options)
      headerLen  == HeaderLen + Padded(optionsLen)
      refused    == SelectSeq(s.options, LAMBDA o : OptionError(o) # "none")
      ack        == IF s.ack = NoAck THEN <<0, 0>> ELSE CHOOSE n \in s.ack : TRUE
  IN  IF s.src_port = 0 \/ s.dst_port = 0 THEN Err("ZeroPort")
      ELSE IF ("ACK" \in s.flags) # (s.ack # NoAck) THEN Err("AckFlagMismatch")
      ELSE IF headerLen > LongestHeader THEN Err("HeaderTooLong")
      ELSE IF refused # <<>> THEN Err(OptionError(refused[1]))
      ELSE Ok(Be(s.src_port) \o Be(s.dst_port) \o Be(s.seq[1]) \o Be(s.seq[2])
                \o Be(ack[1]) \o Be(ack[2])
                \o Be(4096 * (headerLen \div 4) + Bits(s.flags)) \o Be(s.window)
                \o Be(0) \o Be(0)
                \o FlattenSeq([k \in DOMAIN s.options |-> OptionBytes(s.options[k])])
                \o Zeros(headerLen - HeaderLen - optionsLen)
                \o s.payload)

\* Segment::decode; the checks are made in this order.
Decode(bytes) ==
  IF Len(bytes) < HeaderLen THEN Err("Truncated")
  ELSE
    LET headerLen == 4 * (bytes[13] \div 16)
        flags     == FlagsFromWire(Word(bytes, 13) % 512)
        options   == DecodeOptions(SubSeq(bytes, HeaderLen + 1, headerLen))
    IN  IF Word(bytes, 1) = 0 \/ Word(bytes, 3) = 0 THEN Err("ZeroPort")
        ELSE IF headerLen \notin HeaderLen .. LongestHeader \/ headerLen > Len(bytes)
        THEN Err("InvalidHeaderLength")
        ELSE IF Word(bytes, 17) # 0 THEN Err("NonZeroChecksum")
        ELSE IF Word(bytes, 19) # 0 THEN Err("UrgentUnsupported")
        ELSE IF flags.error # "none" THEN flags
        ELSE IF options.error # "none" THEN options
        ELSE Ok([src_port |-> Word(bytes, 1), dst_port |-> Word(bytes, 3),
                   seq |-> <<Word(bytes, 5), Word(bytes, 7)>>,
                   ack |-> IF "ACK" \in flags.value
                           THEN {<<Word(bytes, 9), Word(bytes, 11)>>} ELSE NoAck,
                   flags |-> flags.value, window |-> Word(bytes, 15),
                   options |-> options.value,
                   payload |-> SubSeq(bytes, headerLen + 1, Len(bytes))])
=============================================================================
