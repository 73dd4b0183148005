---------------------------- MODULE MCSessionLog ----------------------------
(* A fresh run and two resumes.                                                *)
EXTENDS SessionLog, TLC

CONSTANTS f, r1, r2, p1, p2, p3

(* Each run in a process of its own (the CLI's --resume), all in one (the      *)
(* terminal interface), or the resumes in one that opened the session later.   *)
MCDeployments ==
  {f :> p1 @@ r1 :> p2 @@ r2 :> p3, f :> p1 @@ r1 :> p1 @@ r2 :> p1,
   f :> p1 @@ r1 :> p2 @@ r2 :> p2}

(* The session goes to another process and comes back to the first.            *)
MCBackAgain == {f :> p1 @@ r1 :> p2 @@ r2 :> p1}
=============================================================================
