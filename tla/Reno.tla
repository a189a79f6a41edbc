-------------------------------- MODULE Reno --------------------------------
(***************************************************************************)
(* The congestion window of one connection (reno.rs).  The controller is a *)
(* record; its methods are operators that return the next one.  The mss is *)
(* the connection's: set_mss keeps the two equal.                          *)
(***************************************************************************)
EXTENDS SeqSpace

CONSTANT Unlimited              \* usize::MAX: slow start has not met a loss yet

ASSUME UnlimitedAssumption == Unlimited \in Nat \ {0}

Controller == [cwnd : Nat \ {0}, ssthresh : Nat \ {0}, fast : BOOLEAN, rto : BOOLEAN]

NewReno(mss) ==
  [cwnd |-> 2 * mss, ssthresh |-> Unlimited, fast |-> FALSE, rto |-> FALSE]

Window(r, mss) == Larger(r.cwnd, mss)

SetMss(r, mss) == [r EXCEPT !.cwnd = Larger(@, mss)]

\* An ACK of new payload leaves both recoveries; the one that ends fast
\* recovery deflates the window instead of growing it.
RenoOnAck(r, mss, acked) ==
  LET increment == IF r.cwnd < r.ssthresh THEN Smaller(acked, mss)
                                          ELSE Larger((mss * mss) \div r.cwnd, 1)
  IN  IF acked = 0 THEN r
      ELSE [r EXCEPT !.rto = FALSE,
                     !.fast = FALSE,
                     !.cwnd = IF r.fast THEN r.ssthresh
                                        ELSE Larger(@ + increment, mss)]

RenoOnDuplicateAck(r, mss) == IF r.fast THEN [r EXCEPT !.cwnd = @ + mss] ELSE r

HalfFlight(inFlight, mss) == Larger(inFlight \div 2, 2 * mss)

RenoOnFastLoss(r, mss, inFlight) ==
  IF r.fast THEN r
  ELSE [r EXCEPT !.ssthresh = HalfFlight(inFlight, mss),
                 !.cwnd = HalfFlight(inFlight, mss) + 3 * mss,
                 !.fast = TRUE]

RenoOnTimeout(r, mss, inFlight) ==
  [r EXCEPT !.ssthresh = IF r.rto THEN @ ELSE HalfFlight(inFlight, mss),
            !.rto = TRUE,
            !.cwnd = mss,
            !.fast = FALSE]
=============================================================================
