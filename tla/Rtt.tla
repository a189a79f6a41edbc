-------------------------------- MODULE Rtt --------------------------------
(***************************************************************************)
(* The retransmission timeout of rtt.rs: smoothed round-trip time and      *)
(* variance, backoff, and Karn's rule through sample_after.  Times are     *)
(* milliseconds in the code and natural numbers here.                      *)
(***************************************************************************)
EXTENDS SeqSpace

CONSTANTS
  InitialRto, MinRto, MaxRto,     \* Config.initial_rto_ms, min_rto_ms, max_rto_ms
  MinMargin                       \* what a timeout adds to srtt at least: 5 in the code

ASSUME RtoAssumption ==
  /\ MinRto \in Nat \ {0} /\ InitialRto \in Nat /\ MaxRto \in Nat /\ MinMargin \in Nat
  /\ MinRto <= InitialRto /\ InitialRto <= MaxRto

NoEnd == -1          \* Option::None of sample_after

Estimator ==
  [have_measurement : BOOLEAN, srtt : Nat, rttvar : Nat, rto : MinRto .. MaxRto,
   consecutive_rtos : Nat, sample_after : SeqNumber \cup {NoEnd}]

ClampRto(ms) == Larger(MinRto, Smaller(ms, MaxRto))

CeilDiv(a, b) == (a + b - 1) \div b

AbsDiff(a, b) == IF a < b THEN b - a ELSE a - b

NewRtt ==
  [have_measurement |-> FALSE, srtt |-> 0, rttvar |-> 0, rto |-> ClampRto(InitialRto),
   consecutive_rtos |-> 0, sample_after |-> NoEnd]

CanSample(r, end) == r.sample_after = NoEnd \/ After(end, r.sample_after)

RttOnRetransmit(r, end) == [r EXCEPT !.sample_after = end]

\* A measured round trip: the timeout is srtt plus four times the variance.
Measured(r, srtt, rttvar) ==
  [r EXCEPT !.have_measurement = TRUE, !.srtt = srtt, !.rttvar = rttvar,
            !.rto = ClampRto(srtt + Larger(MinMargin, 4 * rttvar)),
            !.consecutive_rtos = 0, !.sample_after = NoEnd]

SampleAtLeastOne(r, ms) ==
  IF r.have_measurement
  THEN Measured(r, CeilDiv(r.srtt * 7 + ms, 8), CeilDiv(r.rttvar * 3 + AbsDiff(r.srtt, ms), 4))
  ELSE Measured(r, ms, ms \div 2)

Sample(r, ms) == SampleAtLeastOne(r, Larger(ms, 1))

\* Fault: the backoff is not capped.
BackOffUncapped(r) ==
  [r EXCEPT !.rto = @ * 2,
            !.have_measurement = @ /\ r.consecutive_rtos + 1 < 3,
            !.consecutive_rtos = IF @ + 1 < 3 THEN @ + 1 ELSE 0]

\* on_timeout: double, up to the cap; the third in a row forgets the measurement.
BackOff(r) ==
  [r EXCEPT !.rto = Smaller(@ * 2, MaxRto),
            !.have_measurement = @ /\ r.consecutive_rtos + 1 < 3,
            !.consecutive_rtos = IF @ + 1 < 3 THEN @ + 1 ELSE 0]
=============================================================================
