-------------------------- MODULE SupervisorLadder --------------------------
(* The supervisor beside a session (packages/supervisor/src/supervisor.ts) and *)
(* its ladder of interventions (policy.ts). The observer reads the session's   *)
(* events at its own pace, folds each into its state, lets the detectors look  *)
(* and the policy decide, and applies what was decided one by one. Asking a    *)
(* human and consulting a model take time, in which the session goes on, ends, *)
(* is aborted, or the host detaches the observer.                              *)
(*                                                                             *)
(* What a detector sees is free: any of the Sightings at any event. Records of *)
(* signals and of usage, confidence and texts are left out.                    *)
EXTENDS Integers, Sequences

CONSTANTS Incidents,         \* the signatures of signals
          TypeOf,            \* [Incidents -> signal types]
          Advisory,          \* the types that only ever give guidance: injection
          Sightings,         \* sequences of incidents that one event may show
          Ladders,           \* the rungs a harness can perform, lowest first
          Cooldown, MaxInterventions,
          Restores,          \* abortRestores
          MaxEvents          \* bound on the session's events

Types == {TypeOf[i] : i \in Incidents}
Rungs == {"inject_guidance", "force_replan", "run_reviewer", "run_grader", "escalate", "abort"}
Never == 0 - 1

ASSUME LadderAssumption ==
  /\ \A l \in Ladders : l \in Seq(Rungs) /\ l # <<>> /\ l[1] = "inject_guidance"
  /\ Advisory \subseteq Types /\ Sightings \subseteq Seq(Incidents)
  /\ Cooldown \in Nat /\ MaxInterventions \in Nat /\ MaxEvents \in Nat
  /\ Restores \in BOOLEAN

VARIABLES
  log, sess, reason,       \* the session: its events, its state, why it ended
  steers, gate,            \* guidance queued; is a fresh plan required
  closed,                  \* lifetime aborted, or detached
  obs, pos, turns, files,  \* the observer and its fold
  batch,                   \* decisions not applied yet, by number
  decided,                 \* every decision of the policy
  ladder, level, lastTurn, filesAt, expired,  \* LadderPolicy's maps
  recorded, outcomes,      \* decisions in the log; [decision, outcome] in the log
  restoring, restored

session == <<log, sess, reason>>
fold == <<pos, turns, files>>
policy == <<ladder, decided, level, lastTurn, filesAt>>
restore == <<restoring, restored>>
vars == <<session, steers, gate, closed, obs, fold, batch, policy, expired, recorded,
          outcomes, restore>>

Init ==
  /\ log = <<>> /\ sess = "running" /\ reason = "none"
  /\ steers = {} /\ gate = FALSE /\ closed = FALSE
  /\ obs = "read" /\ pos = 0 /\ turns = 0 /\ files = 0
  /\ batch = <<>> /\ decided = <<>> /\ ladder \in Ladders
  /\ level = [t \in Types |-> 0] /\ lastTurn = [t \in Types |-> Never]
  /\ filesAt = [t \in Types |-> Never] /\ expired = {}
  /\ recorded = {} /\ outcomes = {}
  /\ restoring = FALSE /\ restored = FALSE
-----------------------------------------------------------------------------
(* The session. Queued guidance goes to the model at a turn boundary; under a  *)
(* gate only a plan gets through. A plan without a gate tells nothing here.    *)
Work(event) ==
  /\ sess = "running" /\ Len(log) < MaxEvents
  /\ event \in {"call", "change"} => ~gate
  /\ event = "plan" => gate
  /\ log' = Append(log, event)
  /\ steers' = IF event = "turn" THEN {} ELSE steers
  /\ gate' = (gate /\ event # "plan")
  /\ UNCHANGED <<sess, reason, closed, obs, fold, batch, policy, expired, recorded, outcomes,
                 restore>>

(* lifecycle.abort, by a user; beginEnding, finish. An abort that comes too    *)
(* late leaves the reason as it is.                                            *)
UserAborts ==
  /\ sess = "running" /\ sess' = "aborted" /\ closed' = TRUE
  /\ UNCHANGED <<log, reason, steers, gate, obs, fold, batch, policy, expired, recorded,
                 outcomes, restore>>

BeginEnding ==
  /\ sess \in {"running", "aborted"} /\ sess' = "ending" /\ closed' = TRUE
  /\ reason' \in IF sess = "running" THEN {"done"} ELSE {"done", "aborted"}
  /\ UNCHANGED <<log, steers, gate, obs, fold, batch, policy, expired, recorded, outcomes,
                 restore>>

EndSession ==
  /\ sess = "ending" /\ sess' = "ended"
  /\ UNCHANGED <<log, reason, steers, gate, closed, obs, fold, batch, policy, expired,
                 recorded, outcomes, restore>>

Settle ==
  /\ sess = "ended" /\ sess' = "settled"
  /\ UNCHANGED <<log, reason, steers, gate, closed, obs, fold, batch, policy, expired,
                 recorded, outcomes, restore>>

Detach ==
  /\ ~closed /\ closed' = TRUE
  /\ UNCHANGED <<session, steers, gate, obs, fold, batch, policy, expired, recorded,
                 outcomes, restore>>
-----------------------------------------------------------------------------
(* The observer: fold the next event, and wait for the detectors to prepare.   *)
Fold ==
  /\ obs = "read" /\ ~closed /\ pos < Len(log)
  /\ pos' = pos + 1 /\ obs' = "prepare"
  /\ turns' = turns + (IF log[pos'] = "turn" THEN 1 ELSE 0)
  /\ files' = files + (IF log[pos'] = "change" THEN 1 ELSE 0)
  /\ UNCHANGED <<session, steers, gate, closed, batch, policy, expired, recorded, outcomes,
                 restore>>

(* LadderPolicy.decide, one signal after the other: p is the policy so far.    *)
NoCooldown(p, t) == FALSE
CoolsDown(p, t) == p.lastTurn[t] # Never /\ turns - p.lastTurn[t] < Cooldown
Progress(p, t) == p.filesAt[t] # Never /\ files > p.filesAt[t]
Climbed(p, t) == IF Progress(p, t) THEN 0 ELSE p.level[t]
Asks(rung, i) == rung = "escalate" /\ i \notin expired
RungOf(p, t) ==
  IF t \in Advisory THEN "inject_guidance"
  ELSE ladder[IF Climbed(p, t) < Len(ladder) THEN Climbed(p, t) + 1 ELSE Len(ladder)]

Decision(p, i) ==
  LET t == TypeOf[i]
      rung == RungOf(p, t)
  IN
  [incident |-> i, rung |-> rung,
   does |-> IF rung = "escalate" /\ ~Asks(rung, i) THEN "inject_guidance" ELSE rung,
   turns |-> turns, files |-> files]

DecideOne(p, i) ==
  LET t == TypeOf[i] IN
  IF Len(p.decided) >= MaxInterventions \/ CoolsDown(p, t) THEN p
  ELSE [decided |-> Append(p.decided, Decision(p, i)),
        level |-> [p.level EXCEPT ![t] = Climbed(p, t) + 1],
        lastTurn |-> [p.lastTurn EXCEPT ![t] = turns],
        filesAt |-> [p.filesAt EXCEPT ![t] = files]]

Decided(signals) ==
  LET before == [decided |-> decided, level |-> level, lastTurn |-> lastTurn,
                 filesAt |-> filesAt]
      after[n \in 0..Len(signals)] ==
        IF n = 0 THEN before ELSE DecideOne(after[n - 1], signals[n])
  IN  after[Len(signals)]

Decide ==
  \E signals \in Sightings :
    LET after == Decided(signals) IN
    /\ obs = "prepare" /\ ~closed /\ obs' = "apply"
    /\ decided' = after.decided /\ level' = after.level
    /\ lastTurn' = after.lastTurn /\ filesAt' = after.filesAt
    /\ batch' = [n \in 1..(Len(after.decided) - Len(decided)) |-> Len(decided) + n]
    /\ UNCHANGED <<session, steers, gate, closed, fold, ladder, expired, recorded, outcomes,
                   restore>>

NextEvent ==
  /\ obs = "apply" /\ batch = <<>> /\ obs' = "read"
  /\ UNCHANGED <<session, steers, gate, closed, fold, batch, policy, expired, recorded,
                 outcomes, restore>>

(* The observer leaves its loop as soon as it looks: between events, after the *)
(* detectors, before the next decision.                                        *)
Leave ==
  /\ obs \in {"read", "prepare", "apply"} /\ closed
  /\ batch' = <<>> /\ obs' = IF restoring THEN "restore" ELSE "returned"
  /\ UNCHANGED <<session, steers, gate, closed, fold, policy, expired, recorded, outcomes,
                 restore>>
-----------------------------------------------------------------------------
(* Applying a decision: control.record drops what comes after the end.         *)
Ended == sess \in {"ended", "settled"}
ToldWhileOpen(n, how) == IF closed THEN outcomes ELSE outcomes \cup {<<n, how>>}
Told(n, how) == IF Ended THEN outcomes ELSE outcomes \cup {<<n, how>>}

Begin(n, rungs) ==
  /\ obs = "apply" /\ ~closed /\ batch # <<>> /\ n = Head(batch) /\ decided[n].does \in rungs
  /\ recorded' = recorded \cup {n}

Guide(n) ==
  /\ Begin(n, {"inject_guidance"})
  /\ steers' = steers \cup {n} /\ outcomes' = Told(n, "queued") /\ batch' = Tail(batch)
  /\ UNCHANGED <<session, gate, closed, obs, fold, policy, expired, restore>>

RequirePlan(n) ==
  /\ Begin(n, {"force_replan"})
  /\ gate' = TRUE /\ outcomes' = Told(n, "applied") /\ batch' = Tail(batch)
  /\ UNCHANGED <<session, steers, closed, obs, fold, policy, expired, restore>>

(* control.abort closes the observer too.                                      *)
AbortSession(n) ==
  /\ Begin(n, {"abort"})
  /\ sess' = (IF sess = "running" THEN "aborted" ELSE sess) /\ closed' = TRUE
  /\ restoring' = Restores /\ outcomes' = Told(n, "applied") /\ batch' = Tail(batch)
  /\ UNCHANGED <<log, reason, steers, gate, obs, fold, policy, expired, restored>>

Ask(n) ==
  /\ Begin(n, {"escalate"}) /\ obs' = "ask"
  /\ UNCHANGED <<session, steers, gate, closed, fold, batch, policy, expired, outcomes, restore>>

(* The handler returns or throws, or the question is withdrawn because the     *)
(* observer closed. Of these and the expiry, only the expiry is remembered; the*)
(* log has it as a failure whose detail names it.                              *)
Replied(n, how) ==
  /\ obs = "ask" /\ n = Head(batch)
  /\ obs' = "apply" /\ outcomes' = Told(n, how) /\ batch' = Tail(batch)
  /\ UNCHANGED <<session, steers, gate, closed, fold, policy, expired, recorded, restore>>

Answered(n) == Replied(n, "applied")
AskFails(n) == Replied(n, "failed")

KeepAsking(i) == UNCHANGED expired
Remember(i) == expired' = expired \cup {i}

Expire(n) ==
  /\ obs = "ask" /\ n = Head(batch) /\ Remember(decided[n].incident)
  /\ obs' = "apply" /\ outcomes' = Told(n, "expired") /\ batch' = Tail(batch)
  /\ UNCHANGED <<session, steers, gate, closed, fold, policy, recorded, restore>>

Withdrawn(n) == closed /\ AskFails(n)

Consult(n) ==
  /\ Begin(n, {"run_reviewer", "run_grader"}) /\ obs' = "consult"
  /\ UNCHANGED <<session, steers, gate, closed, fold, batch, policy, expired, outcomes, restore>>

(* A review or a grade that is in time gives guidance, or nothing to say.      *)
AnyTime == TRUE
InTime == ~closed

Consulted(n) ==
  /\ obs = "consult" /\ n = Head(batch) /\ InTime
  /\ \/ steers' = steers \cup {n} /\ outcomes' = Told(n, "queued")
     \/ UNCHANGED steers /\ outcomes' = Told(n, "no-action")
  /\ obs' = "apply" /\ batch' = Tail(batch)
  /\ UNCHANGED <<session, gate, closed, fold, policy, expired, recorded, restore>>

(* It fails, its time is up, or it is cut short.                               *)
ConsultFails(n) ==
  /\ obs = "consult" /\ n = Head(batch)
  /\ obs' = "apply" /\ outcomes' = Told(n, "failed") /\ batch' = Tail(batch)
  /\ UNCHANGED <<session, steers, gate, closed, fold, policy, expired, recorded, restore>>

(* After session.done: restore a session that this observer's abort ended.     *)
RestoreAborted ==
  /\ obs = "restore" /\ sess = "settled" /\ reason = "aborted"
  /\ obs' = "returned" /\ restored' = TRUE
  /\ UNCHANGED <<session, steers, gate, closed, fold, batch, policy, expired, recorded,
                 outcomes, restoring>>

Restore ==
  /\ obs = "restore" /\ sess = "settled" /\ obs' = "returned"
  /\ restored' = (reason = "aborted")
  /\ UNCHANGED <<session, steers, gate, closed, fold, batch, policy, expired, recorded,
                 outcomes, restoring>>
-----------------------------------------------------------------------------
Numbers == 1..MaxInterventions
SessionStep ==
  \/ \E event \in {"call", "change", "turn", "plan"} : Work(event)
  \/ UserAborts \/ BeginEnding \/ EndSession \/ Settle
ObserverStep ==
  \/ Fold \/ Decide \/ NextEvent \/ Leave \/ Restore
  \/ \E n \in Numbers : \/ Guide(n) \/ RequirePlan(n) \/ AbortSession(n) \/ Ask(n)
                        \/ Consult(n) \/ Expire(n) \/ Withdrawn(n) \/ ConsultFails(n)
Reply == \E n \in Numbers : Answered(n) \/ AskFails(n) \/ Consulted(n)
Over == sess = "settled" /\ obs = "returned" /\ UNCHANGED vars

Next == SessionStep \/ Detach \/ ObserverStep \/ Reply \/ Over

(* The observer is always scheduled and its timers fire: a human or a model    *)
(* need never answer. The session may run on for ever, but one that is aborted *)
(* or ending settles. The preparation of a detector ends.                      *)
Fairness ==
  /\ WF_vars(ObserverStep)
  /\ WF_vars(sess # "running" /\ (BeginEnding \/ EndSession \/ Settle))

Spec == Init /\ [][Next]_vars /\ Fairness
-----------------------------------------------------------------------------
(* A type climbs the ladder one rung at a time, each rung a cooldown of turns  *)
(* after the last, and back to the first after a change to a file. In          *)
(* particular a session is aborted only after every other rung was tried for   *)
(* the same type with no file changed since, whatever other types interleave,  *)
(* questions expire or decisions are suppressed.                               *)
ClimbsInOrder ==
  \A n \in DOMAIN decided :
    LET d == decided[n]
        earlier == {m \in 1..(n - 1) : TypeOf[decided[m].incident] = TypeOf[d.incident]}
    IN
    /\ \A m \in earlier : decided[m].turns + Cooldown <= d.turns
    /\ \A k \in 2..Len(ladder) :
         d.rung = ladder[k] =>
           \E m \in earlier : decided[m].rung = ladder[k - 1] /\ decided[m].files = d.files

(* A question that expired is never put again in this session, even when it    *)
(* was decided on before it expired.                                           *)
ExpiredNotAsked ==
  [][\A n \in Numbers : Ask(n) =>
       \A m \in recorded : <<m, "expired">> \in outcomes =>
                             decided[m].incident # decided[n].incident]_vars

(* Once the session is ending or aborted, or the observer detached, nothing    *)
(* the observer still has in hand reaches the session.                         *)
SilentOnceClosed ==
  [][closed /\ obs' # obs => /\ steers' \subseteq steers /\ (gate' => gate)
                             /\ obs' \notin {"ask", "consult"}]_vars

(* What was applied has its outcome in the log, unless the session ended       *)
(* first, however the question, the review or the abort came out.              *)
OutcomesKnown ==
  ~Ended => \A n \in recorded \ {o[1] : o \in outcomes} : obs \in {"ask", "consult"} /\ n = Head(batch)

(* The observer returns once the session or the host is done with it, whoever  *)
(* never answers, and after a restore only when the session has settled.       *)
ObserverReturns == closed ~> obs = "returned"
=============================================================================
