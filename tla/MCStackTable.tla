---------------------------- MODULE MCStackTable ----------------------------
(***************************************************************************)
(* Small instances of StackTable for TLC: two peers, one of them eligible  *)
(* for reserved slots.                                                     *)
(***************************************************************************)
EXTENDS StackTable

CONSTANTS p, q

ForP  == {{p}}
ForNone == {{}}
=============================================================================
