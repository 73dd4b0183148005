---------------------------- MODULE ParallelBatch ----------------------------
(* The parallel turn strategy: one batch of tool calls run by a bounded pool   *)
(* of workers, each call driven through the tool pipeline                      *)
(* (packages/core/src/parallel-runtime.ts, and the points of                   *)
(* packages/core/src/tool-execution.ts at which the pipeline meets it).        *)
(*                                                                             *)
(* A call takes the prepare mutex, is classified, waits until it conflicts     *)
(* with no admitted call, is authorized (which frees the mutex for the next    *)
(* call), runs its body and finishes. A call that must run exclusively first   *)
(* drains the admitted calls and keeps the mutex to the end; an isolated call  *)
(* keeps it until its own worktree is ready.                                   *)
EXTENDS Integers, Sequences

CONSTANTS N,            \* number of calls in the batch
          Limit,        \* maxConcurrency of parallel()
          Names, Files, \* the paths tools declare, the physical files behind them
          Batches,      \* the batches of declared metadata to consider
          Exclusive,    \* the answers forceExclusive() may give
          Relinks       \* whether an unclassified tool may re-point a name

Calls == 1..N
Kinds == {"unknown", "isolated", "read", "write"}
Metadata == [kind : Kinds, paths : SUBSET Names]
Hazards == [kind : Kinds, targets : SUBSET Files]
NoHazard == [kind |-> "unknown", targets |-> {}]

ASSUME BatchAssumption ==
  /\ N \in Nat \ {0} /\ Limit \in Nat \ {0}
  /\ Batches \subseteq [Calls -> Metadata]
  /\ Exclusive \subseteq BOOLEAN /\ Relinks \in BOOLEAN

VARIABLES meta,      \* [Calls -> Metadata]: what each tool declares for its call
          alias,     \* [Names -> Files]: what each name resolves to on disk now
          next,      \* the next call a free worker takes
          pc,        \* where each call's pipeline is
          prepareQ,  \* the prepare mutex: its holder, then those behind it
          askQ,      \* the ask mutex, likewise
          exclusive, \* what forceExclusive() answered for the call
          active,    \* calls in the map of admitted calls
          hazard,    \* what the call was last classified as
          body,      \* the tool body: see Bodies
          aborted,   \* the session signal is aborted
          failed,    \* some pipeline threw
          outcome    \* what executeParallel returned

batch == <<meta, alias>>
locks == <<prepareQ, askQ>>
ctl   == <<aborted, failed, outcome>>
vars  == <<meta, alias, next, pc, prepareQ, askQ, exclusive, active, hazard, body,
           aborted, failed, outcome>>

(* Pipeline places. A call before "permission" is not admitted yet.            *)
Waiting  == {"queued", "drain", "drained", "gate", "classify", "check", "parked"}
Admitted == {"permission", "askPermission", "dialogPermission", "called", "running",
             "askEscalation", "dialogEscalation", "settling"}
Places   == {"new", "done"} \cup Waiting \cup Admitted

(* Not started, running (under the sandbox if there is one), refused by the    *)
(* sandbox, running outside it, left running by an abort, over.                *)
Bodies == {"none", "live", "denied", "outside", "orphan", "ended"}

stopped == aborted \/ failed
Overlap(s, t) == s \cap t # {}

Conflict(a, b) ==
  \/ "unknown" \in {a.kind, b.kind}
  \/ (a.kind = "isolated") # (b.kind = "isolated")
  \/ /\ a.kind # "isolated" /\ "write" \in {a.kind, b.kind}
     /\ Overlap(a.targets, b.targets)

(* What classify() reads off the file system for a call: unclassified          *)
(* metadata stays unknown, and any doubt about a path makes it unknown too.    *)
Physical(m) == [kind |-> m.kind, targets |-> {alias[n] : n \in m.paths}]
Classifications(m) ==
  IF m.kind = "unknown" \/ (m.kind # "isolated" /\ m.paths = {}) THEN {NoHazard}
  ELSE IF m.kind = "isolated" THEN {[kind |-> "isolated", targets |-> {}]}
  ELSE {Physical(m), NoHazard}

Holds(q, c) == q # <<>> /\ Head(q) = c
Release(q, c) == IF Holds(q, c) THEN Tail(q) ELSE q
Min2(a, b) == IF a < b THEN a ELSE b
Busy == {c \in Calls : pc[c] \notin {"new", "done"}}
Live(c) == body[c] \in {"live", "outside"}

TypeOK ==
  /\ meta \in [Calls -> Metadata] /\ alias \in [Names -> Files]
  /\ next \in 1..(N + 1) /\ pc \in [Calls -> Places]
  /\ prepareQ \in Seq(Calls) /\ askQ \in Seq(Calls)
  /\ exclusive \in [Calls -> BOOLEAN] /\ active \subseteq Calls
  /\ hazard \in [Calls -> Hazards]
  /\ body \in [Calls -> Bodies]
  /\ aborted \in BOOLEAN /\ failed \in BOOLEAN
  /\ outcome \in {"none", "results", "interrupted", "failed"}

(* Array.from starts every worker at once: each takes a call and enters the    *)
(* prepare mutex before the first of them awaits anything.                     *)
Init ==
  /\ meta \in Batches /\ alias \in [Names -> Files]
  /\ aborted = FALSE /\ failed = FALSE /\ outcome = "none"
  /\ next = Min2(Limit, N) + 1
  /\ pc = [c \in Calls |-> IF c < next THEN "queued" ELSE "new"]
  /\ prepareQ = [c \in 1..(next - 1) |-> c] /\ askQ = <<>>
  /\ exclusive = [c \in Calls |-> FALSE] /\ active = {}
  /\ hazard = [c \in Calls |-> NoHazard] /\ body = [c \in Calls |-> "none"]
-----------------------------------------------------------------------------
(* finish(): the lease and the mutex are given up, every call parked on        *)
(* `changed` is woken, and the same worker takes the next call, entering the   *)
(* mutex queue before it awaits. `throws` is a pipeline that rejected.         *)
WokenButDraining(p) == [c \in Calls |-> IF p[c] = "parked" THEN "classify" ELSE p[c]]
Woken(p) == [c \in Calls |-> IF p[c] = "parked" THEN "classify"
                             ELSE IF p[c] = "drain" THEN "drained" ELSE p[c]]

TakesNextPastEnd(throws) == ~stopped /\ ~throws /\ next <= N + 1
TakesNext(throws) == ~stopped /\ ~throws /\ next <= N

Finish(c, throws) ==
  LET p == Woken([pc EXCEPT ![c] = "done"])
      q == Release(prepareQ, c)
  IN /\ active' = active \ {c}
     /\ failed' = (failed \/ throws)
     /\ IF TakesNext(throws)
        THEN /\ pc' = [p EXCEPT ![next] = "queued"] /\ prepareQ' = Append(q, next)
             /\ next' = next + 1
        ELSE pc' = p /\ prepareQ' = q /\ UNCHANGED next

(* prepare(): the mutex is this call's, and forceExclusive() is asked once.    *)
(* An exclusive call waits for the map to empty; a stopped batch throws.       *)
PrepareHeld(c) ==
  /\ pc[c] = "queued" /\ Holds(prepareQ, c) /\ ~stopped
  /\ \E x \in Exclusive :
       /\ exclusive' = [exclusive EXCEPT ![c] = x]
       /\ pc' = [pc EXCEPT ![c] = IF x /\ active # {} THEN "drain" ELSE "gate"]
  /\ UNCHANGED <<batch, next, locks, active, hazard, body, ctl>>

Drained(c) ==
  /\ pc[c] = "drained"
  /\ IF active # {} THEN pc' = [pc EXCEPT ![c] = "drain"]
     ELSE ~stopped /\ pc' = [pc EXCEPT ![c] = "gate"]
  /\ UNCHANGED <<batch, next, locks, exclusive, active, hazard, body, ctl>>

(* The pipeline stops where prepare(), admit() and ask() look at stopped():    *)
(* it throws, and as a stopped batch dispatches nothing more, so it unwinds.   *)
Stopped(c) ==
  /\ stopped
  /\ \/ pc[c] = "queued" /\ Holds(prepareQ, c)
     \/ pc[c] = "drained" /\ active = {}
     \/ pc[c] = "check"
  /\ Finish(c, TRUE)
  /\ UNCHANGED <<batch, askQ, exclusive, hazard, body, aborted, outcome>>

(* Before admission the pipeline may refuse the call (allowlist, replan gate,  *)
(* invalid input, a pre_tool hook) or throw.                                   *)
GateFreesMutex(c) ==
  /\ pc[c] = "gate"
  /\ pc' = [pc EXCEPT ![c] = "classify"] /\ prepareQ' = Release(prepareQ, c)
  /\ UNCHANGED <<batch, next, askQ, exclusive, active, hazard, body, ctl>>

Gate(c) ==
  /\ pc[c] = "gate"
  /\ pc' = [pc EXCEPT ![c] = "classify"]
  /\ UNCHANGED <<batch, next, locks, exclusive, active, hazard, body, ctl>>

Refuse(c) ==
  /\ pc[c] \in {"gate", "permission"}
  /\ \E throws \in BOOLEAN : Finish(c, throws)
  /\ UNCHANGED <<batch, askQ, exclusive, hazard, body, aborted, outcome>>

(* admit(): classify() awaits the file system; its answer is used later.       *)
Classify(c) ==
  /\ pc[c] = "classify"
  /\ \E h \in Classifications(meta[c]) : hazard' = [hazard EXCEPT ![c] = h]
  /\ pc' = [pc EXCEPT ![c] = "check"]
  /\ UNCHANGED <<batch, next, locks, exclusive, active, body, ctl>>

CompatibleIgnoresReaders(c) ==
  \A d \in active : hazard[d].kind # "read" => ~Conflict(hazard[c], hazard[d])

Compatible(c) == \A d \in active : ~Conflict(hazard[c], hazard[d])

Admit(c) ==
  /\ pc[c] = "check" /\ ~stopped
  /\ IF Compatible(c)
     THEN active' = active \cup {c} /\ pc' = [pc EXCEPT ![c] = "permission"]
     ELSE pc' = [pc EXCEPT ![c] = "parked"] /\ UNCHANGED active
  /\ UNCHANGED <<batch, next, locks, exclusive, hazard, body, ctl>>
-----------------------------------------------------------------------------
(* Permission: allowed outright, or asked of the host under the ask mutex.     *)
FreesMutexAnyway(c) == meta[c].kind # "isolated"
FreesMutex(c) == ~exclusive[c] /\ meta[c].kind # "isolated"

Authorize(c) ==
  /\ pc[c] = "permission"
  /\ pc' = [pc EXCEPT ![c] = "called"]
  /\ prepareQ' = IF FreesMutex(c) THEN Release(prepareQ, c) ELSE prepareQ
  /\ UNCHANGED <<batch, next, askQ, exclusive, active, hazard, body, ctl>>

AskPermission(c) ==
  /\ pc[c] = "permission"
  /\ pc' = [pc EXCEPT ![c] = "askPermission"] /\ askQ' = Append(askQ, c)
  /\ UNCHANGED <<batch, next, prepareQ, exclusive, active, hazard, body, ctl>>

(* ask(): the handler runs only when its turn comes and the batch still runs.  *)
OpenDialogAtOnce(c) ==
  /\ pc[c] \in {"askPermission", "askEscalation"} /\ ~stopped
  /\ pc' = [pc EXCEPT ![c] = IF @ = "askPermission" THEN "dialogPermission"
                             ELSE "dialogEscalation"]
  /\ UNCHANGED <<batch, next, locks, exclusive, active, hazard, body, ctl>>

OpenDialog(c) ==
  /\ pc[c] \in {"askPermission", "askEscalation"} /\ Holds(askQ, c) /\ ~stopped
  /\ pc' = [pc EXCEPT ![c] = IF @ = "askPermission" THEN "dialogPermission"
                             ELSE "dialogEscalation"]
  /\ UNCHANGED <<batch, next, locks, exclusive, active, hazard, body, ctl>>

(* A stopped batch throws out of ask(). That fails the pipeline, unless the    *)
(* approval was about external input (caught: a denial) or an escalation (the  *)
(* pipeline records a failed result).                                          *)
StoppedAsk(c) ==
  /\ stopped /\ Holds(askQ, c) /\ askQ' = Tail(askQ)
  /\ \/ /\ pc[c] = "askPermission" /\ \E throws \in BOOLEAN : Finish(c, throws)
     \/ /\ pc[c] = "askEscalation" /\ pc' = [pc EXCEPT ![c] = "settling"]
        /\ UNCHANGED <<next, prepareQ, active, failed>>
  /\ UNCHANGED <<batch, exclusive, hazard, body, aborted, outcome>>

AnswerPermission(c) ==
  /\ pc[c] = "dialogPermission"
  /\ askQ' = Tail(askQ)
  /\ \/ /\ pc' = [pc EXCEPT ![c] = "called"]
        /\ prepareQ' = IF FreesMutex(c) THEN Release(prepareQ, c) ELSE prepareQ
        /\ UNCHANGED <<next, active, failed>>
     \/ \E throws \in BOOLEAN : Finish(c, throws)
  /\ UNCHANGED <<batch, exclusive, hazard, body, aborted, outcome>>

AnswerEscalation(c) ==
  /\ pc[c] = "dialogEscalation"
  /\ askQ' = Tail(askQ)
  /\ \E place \in {"called", "settling"} : pc' = [pc EXCEPT ![c] = place]
  /\ UNCHANGED <<batch, next, prepareQ, exclusive, active, hazard, body, ctl>>
-----------------------------------------------------------------------------
(* command(): the body starts unless the session was aborted meanwhile. A      *)
(* failed sibling does not stop it: only prepare, admit and ask look at that.  *)
StartBodyUnchecked(c) ==
  /\ pc[c] = "called"
  /\ pc' = [pc EXCEPT ![c] = "running"]
  /\ body' = [body EXCEPT ![c] = IF @ = "denied" THEN "outside" ELSE "live"]
  /\ UNCHANGED <<batch, next, locks, exclusive, active, hazard, ctl>>

StartBody(c) ==
  /\ pc[c] = "called"
  /\ IF aborted THEN pc' = [pc EXCEPT ![c] = "settling"] /\ UNCHANGED body
     ELSE /\ pc' = [pc EXCEPT ![c] = "running"]
          /\ body' = [body EXCEPT ![c] = IF @ = "denied" THEN "outside" ELSE "live"]
  /\ UNCHANGED <<batch, next, locks, exclusive, active, hazard, ctl>>

(* An isolated tool frees the mutex itself once its worktree exists.           *)
IsolatedReady(c) ==
  /\ pc[c] = "running" /\ meta[c].kind = "isolated" /\ ~exclusive[c]
  /\ Holds(prepareQ, c) /\ prepareQ' = Tail(prepareQ)
  /\ UNCHANGED <<batch, next, pc, askQ, exclusive, active, hazard, body, ctl>>

(* A body returns or throws. A body an abort left behind ends when it likes,   *)
(* and nobody waits for it here.                                               *)
EndBody(c) ==
  /\ Live(c) \/ body[c] = "orphan"
  /\ body' = [body EXCEPT ![c] = "ended"]
  /\ pc' = IF Live(c) THEN [pc EXCEPT ![c] = "settling"] ELSE pc
  /\ UNCHANGED <<batch, next, locks, exclusive, active, hazard, ctl>>

(* The sandbox refuses the call, before or while its body runs: the host is    *)
(* asked once whether to run it outside. Without a host to ask, or in an       *)
(* unattended run, the denial is final.                                        *)
SandboxDenied(c) ==
  /\ \/ pc[c] = "called" /\ body[c] = "none" /\ ~aborted
     \/ body[c] = "live"
  /\ body' = [body EXCEPT ![c] = "denied"]
  /\ \/ pc' = [pc EXCEPT ![c] = "askEscalation"] /\ askQ' = Append(askQ, c)
     \/ pc' = [pc EXCEPT ![c] = "settling"] /\ UNCHANGED askQ
  /\ UNCHANGED <<batch, next, prepareQ, exclusive, active, hazard, ctl>>

(* tool.result and post_tool are over; an append that fails throws.            *)
Settle(c) ==
  /\ pc[c] = "settling"
  /\ \E throws \in BOOLEAN : Finish(c, throws)
  /\ UNCHANGED <<batch, askQ, exclusive, hazard, body, aborted, outcome>>

(* An unclassified tool (a shell command) may re-point a name while it runs.   *)
Relink(c) ==
  /\ Relinks /\ Live(c) /\ hazard[c].kind = "unknown"
  /\ \E n \in Names, f \in Files : alias[n] # f /\ alias' = [alias EXCEPT ![n] = f]
  /\ UNCHANGED <<meta, next, pc, locks, exclusive, active, hazard, body, ctl>>

(* The session signal aborts. raceAbort lets it win over every running body:   *)
(* the pipeline goes on to its failed result and the body is left an orphan.   *)
AbortNoRace ==
  /\ ~aborted /\ outcome = "none" /\ aborted' = TRUE
  /\ UNCHANGED <<batch, next, pc, locks, exclusive, active, hazard, body, failed, outcome>>

Abort ==
  /\ ~aborted /\ outcome = "none" /\ aborted' = TRUE
  /\ pc' = [c \in Calls |-> IF Live(c) THEN "settling" ELSE pc[c]]
  /\ body' = [c \in Calls |-> IF Live(c) THEN "orphan" ELSE body[c]]
  /\ UNCHANGED <<batch, next, locks, exclusive, active, hazard, failed, outcome>>

(* Promise.all over the workers: none is left and none takes another call.     *)
JoinedFirst == (Busy = {} \/ failed) /\ (stopped \/ next > N)
Joined == Busy = {} /\ (stopped \/ next > N)

Return ==
  /\ outcome = "none" /\ Joined
  /\ outcome' = IF aborted THEN "interrupted" ELSE IF failed THEN "failed" ELSE "results"
  /\ UNCHANGED <<batch, next, pc, locks, exclusive, active, hazard, body, aborted, failed>>

Returned == outcome # "none" /\ UNCHANGED vars

Scheduler(c) ==
  \/ PrepareHeld(c) \/ Drained(c) \/ Stopped(c) \/ Gate(c) \/ Refuse(c) \/ Classify(c)
  \/ Admit(c) \/ Authorize(c) \/ AskPermission(c) \/ OpenDialog(c) \/ StoppedAsk(c)
  \/ AnswerPermission(c) \/ AnswerEscalation(c) \/ StartBody(c) \/ Settle(c)

Tool(c) == IsolatedReady(c) \/ EndBody(c) \/ SandboxDenied(c) \/ Relink(c)

Next == \/ \E c \in Calls : Scheduler(c) \/ Tool(c)
        \/ Abort \/ Return \/ Returned

(* The event loop runs every ready continuation and the host answers every     *)
(* dialog; nothing is assumed of a tool body, which may hang for ever.         *)
Fairness == WF_vars(Return) /\ \A c \in Calls : WF_vars(Scheduler(c))

Spec == Init /\ [][Next]_vars /\ Fairness
-----------------------------------------------------------------------------
(* Two admitted calls never conflict: the batch has no unordered pair of       *)
(* effects on one file, and no shell command beside anything (conflict(), and  *)
(* the check admit() makes between one await and the next).                    *)
NoConflictingLeases ==
  \A c, d \in active : c # d => ~Conflict(hazard[c], hazard[d])

(* A call that forceExclusive() made exclusive (hooks, background work) shares *)
(* the batch with no other admitted call, from drain to finish.                *)
ExclusiveRunsAlone == \A c \in active : exclusive[c] => active = {c}

(* The host is never shown a second dialog while one is open: an answer is     *)
(* always to the call that asked (ask() in parallel-runtime.ts).               *)
OneDialogAtATime ==
  \A c, d \in Calls : c # d =>
    ~ {pc[c], pc[d]} \subseteq {"dialogPermission", "dialogEscalation"}

(* No tool body starts after the session is aborted, whatever was queued,      *)
(* asked or already authorized then (command(): signal.throwIfAborted()).      *)
NoBodyAfterAbort ==
  [][aborted => \A c \in Calls : (body[c] # body'[c]) => body'[c] \notin {"live", "outside"}]_vars

(* "Never abandon a pipeline promise on failure/cancellation": when the batch  *)
(* returns or throws, no pipeline is part-way, no lease is left, and a body    *)
(* still running is one that an abort raced past.                              *)
NothingAbandoned ==
  outcome # "none" =>
    /\ Busy = {} /\ active = {}
    /\ \A c \in Calls : ~Live(c) /\ (body[c] = "orphan" => aborted)

(* Calls are admitted in the model's order, each compatible with what holds a  *)
(* lease, and a finished call stays finished: the batch implements             *)
(* HazardAdmission.                                                            *)
Lease == [c \in active |-> hazard[c]]
Finished == {c \in Calls : pc[c] = "done"}
Admission == INSTANCE HazardAdmission WITH
  lease <- Lease, finished <- Finished
AdmitsInOrder == Admission!Spec

(* An abort ends the batch even when a tool body never does.                   *)
AbortEndsBatch == aborted ~> (outcome # "none")

(* When every tool body ends, the batch returns: no wake-up of a draining or   *)
(* parked call is lost, and no call waits for a mutex nobody will free.        *)
BatchReturns ==
  (\A c \in Calls : WF_vars(EndBody(c))) => <>(outcome # "none")

(* "Reclassify after every earlier completion: an exclusive writer may have    *)
(* changed aliases" (parallel-runtime.ts:98): two bodies that run together,    *)
(* one of them writing, are on different files as the names resolve now.       *)
Touches(c) == {alias[n] : n \in meta[c].paths}
ConcurrentBodiesDisjoint ==
  \A c, d \in Calls :
    (/\ c # d /\ Live(c) /\ Live(d)
     /\ {meta[c].kind, meta[d].kind} \in {{"write"}, {"read", "write"}})
    => ~Overlap(Touches(c), Touches(d))
=============================================================================
