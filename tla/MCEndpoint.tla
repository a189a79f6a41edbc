----------------------------- MODULE MCEndpoint -----------------------------
(***************************************************************************)
(* One peer that FIPS presents by either of its two points: every kind of  *)
(* datagram from the one, a SYN and data from the other.                   *)
(***************************************************************************)
EXTENDS Endpoint

MCIncoming ==
  {d \in Datagram :
     IF d.from.odd THEN d.origin = "passive" /\ d.content \in {"syn", "data"}
     ELSE d.content = "malformed" => d.origin = "passive"}
=============================================================================
