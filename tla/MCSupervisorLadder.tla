------------------------- MODULE MCSupervisorLadder -------------------------
(* Two loops and one piece of prose that looks like instructions.              *)
EXTENDS SupervisorLadder

CONSTANTS l1, l2, prose

MCTypeOf == [i \in Incidents |-> IF i = prose THEN "injection" ELSE "loop"]
MCSightings == {<<l1>>, <<prose, l2>>}
MCLadders == {<<"inject_guidance", "run_reviewer", "escalate", "abort">>,
              <<"inject_guidance", "force_replan", "escalate">>}
=============================================================================
