-------------------------- MODULE MCCheckpointUndo --------------------------
(* Two runs of session A, one of session B, an undo of A's; one file and one   *)
(* path without a file.                                                        *)
EXTENDS CheckpointUndo, TLC

CONSTANTS A, B, a1, a2, b1, ua, fa, fb, old

MCSessionOf == (a1 :> A @@ a2 :> A @@ b1 :> B @@ ua :> A)
MCRunNo == (a1 :> 1 @@ a2 :> 2 @@ b1 :> 1)
MCStart == (fa :> old @@ fb :> Absent)

Cast(parts, most, puts, changes, deaths, loose, reuse) ==
  [who |-> parts, turns |-> most, writes |-> puts, edits |-> changes, crashes |-> deaths,
   stray |-> loose, again |-> reuse]

MCCasts == {Cast({a1, ua}, 2, 2, 1, 1, TRUE, FALSE),
            Cast({a1, b1, ua}, 1, 1, 0, 1, FALSE, FALSE),
            Cast({a1, a2, ua}, 2, 2, 0, 1, FALSE, TRUE)}
MCEditedCasts == {Cast({a1, a2, ua}, 2, 1, 1, 1, FALSE, TRUE)}
=============================================================================
