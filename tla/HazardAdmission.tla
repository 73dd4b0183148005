--------------------------- MODULE HazardAdmission ---------------------------
(* What the parallel turn strategy promises about one batch of tool calls      *)
(* (packages/core/src/parallel-runtime.ts): calls are admitted in the order    *)
(* the model issued them, a call is admitted only while nothing that conflicts *)
(* with it holds a lease, and a call that has finished never comes back.       *)
(* How the calls queue, ask and are cancelled is not said here.                *)
EXTENDS Naturals

CONSTANTS Calls,            \* the batch: a set of consecutive call indices
          Hazards,          \* what a call can be classified as
          Conflict(_, _)    \* whether two hazards may not overlap in time

VARIABLES lease,     \* the hazard of each call that holds an admission lease
          finished   \* the calls whose pipeline is over

vars == <<lease, finished>>

Leased == DOMAIN lease

Init == lease = [c \in {} |-> {}] /\ finished = {}

(* A call is admitted: every earlier call was admitted or is over, and what it *)
(* was classified as conflicts with no lease.                                  *)
Admit(c) ==
  /\ c \notin Leased \cup finished
  /\ \A d \in Calls : d < c => d \in Leased \cup finished
  /\ \E h \in Hazards :
       /\ \A d \in Leased : ~Conflict(h, lease[d])
       /\ lease' = [d \in Leased \cup {c} |-> IF d = c THEN h ELSE lease[d]]
  /\ UNCHANGED finished

(* A call is over, admitted or not: refused and cancelled calls end unadmitted.*)
Finish(c) ==
  /\ c \notin finished
  /\ finished' = finished \cup {c}
  /\ lease' = [d \in Leased \ {c} |-> lease[d]]

Next == \E c \in Calls : Admit(c) \/ Finish(c)

Spec == Init /\ [][Next]_vars
=============================================================================
