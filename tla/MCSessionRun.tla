---------------------------- MODULE MCSessionRun ----------------------------
(* One steer; two turns, or one where the session runs again, or where appends *)
(* fail beside an abort.                                                       *)
EXTENDS SessionRun

CONSTANTS s1

MCScenarios ==
  {{"steer", "abort", "pause"}, {"fail", "delegate"}, {"fail", "delegate", "abort"},
   {"note", "abort"}, {"abort", "veto", "again"}, {"crash", "veto", "again"}}

MCMaxTurns ==
  [m \in MCScenarios |-> IF "again" \in m \/ {"fail", "abort"} \subseteq m THEN 1 ELSE 2]
=============================================================================
