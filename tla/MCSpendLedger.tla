---------------------------- MODULE MCSpendLedger ----------------------------
(* Three calls in two processes, under a cap of two reservations.               *)
EXTENDS SpendLedger, TLC

CONSTANTS c1, c2, c3, p1, p2

Beside == c1 :> p1 @@ c2 :> p1 @@ c3 :> p2
Alone == c1 :> p1 @@ c2 :> p1 @@ c3 :> p1

(* One process beside another: with a fault (a crash or an append that fails),  *)
(* over a midnight, and with a call that runs without the cap. One process      *)
(* alone, whose three calls may overlap, over a midnight and with a fault.      *)
MCPlans == {
  [owner |-> Beside, capped |-> {c1, c2, c3}, midnights |-> 0, faults |-> 1],
  [owner |-> Beside, capped |-> {c1, c3}, midnights |-> 1, faults |-> 0],
  [owner |-> Alone, capped |-> {c1, c2, c3}, midnights |-> 1, faults |-> 0],
  [owner |-> Alone, capped |-> {c1, c2}, midnights |-> 1, faults |-> 1]}

(* Less than reserved, and more.                                                *)
MCBills == {1, 3}
=============================================================================
