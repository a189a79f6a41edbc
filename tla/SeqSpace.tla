------------------------------ MODULE SeqSpace ------------------------------
(***************************************************************************)
(* TCP's wrapping sequence arithmetic (seq.rs).  A sequence number is an   *)
(* unsigned word: u32 in the code, any even modulus here, so that TLC can  *)
(* put both ends of a small window on either side of the wrap.             *)
(***************************************************************************)
EXTENDS Integers

CONSTANT Modulus                 \* 2^32 in the code

ASSUME ModulusAssumption == Modulus \in Nat /\ Modulus >= 4 /\ Modulus % 2 = 0

SeqNumber == 0 .. Modulus - 1

Smaller(a, b) == IF a < b THEN a ELSE b
Larger(a, b)  == IF a < b THEN b ELSE a

\* usize::saturating_sub
SaturatingSub(a, b) == IF a > b THEN a - b ELSE 0

\* Fault: an addition that does not wrap.
PlusUnwrapped(seq, count) == seq + count

\* u32::wrapping_add of a sequence number and a count of bytes.
Plus(seq, count) == (seq + count) % Modulus

\* How far "end" lies ahead of "start", going up and around.
Distance(start, end) == IF end >= start THEN end - start ELSE end - start + Modulus

\* (left - right) as i32 < 0: left is in the half of the space behind right.
Before(left, right) == 2 * Distance(right, left) >= Modulus

After(left, right) == Before(right, left)

BeforeOrEqual(left, right) == left = right \/ Before(left, right)

InClosedInterval(value, start, end) == ~Before(value, start) /\ ~After(value, end)
=============================================================================
