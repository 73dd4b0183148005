---------------------------- MODULE SpendLedger ----------------------------
(* The project's spend ledger and the wrapper that meters each model call      *)
(* (packages/core/src/spend-ledger.ts): several processes share one            *)
(* append-only file, usage.jsonl, behind an exclusive usage.lock.              *)
(*                                                                             *)
(* A metered call reserves its worst-case price, is sent, and is settled with  *)
(* what the provider reported. Inside a process the operations on the ledger   *)
(* form one queue; its head takes the lock file, reads the whole log, decides  *)
(* and appends one line. A call with a daily cap is sent only if its           *)
(* reservation was appended; a call without one is sent in any case, after an  *)
(* attempt to leave a gap record. No decision reads the order of the lines and *)
(* no line is written twice, so the log is a set. Only writers that take the   *)
(* lock write the file: the comparisons with the bytes read before, which find *)
(* the others, have nothing to find here.                                      *)
EXTENDS Integers, Sequences, FiniteSets, FiniteSetsExt

CONSTANTS Calls, Procs, NoProc,
          Plans,       \* the deployments to consider: the process of each call, the
                       \* calls under the cap, and how many midnights and faults
          Cap, Reserve,\* the cap, and the reservation of every call
          Bills,       \* what the provider may charge for one call
          MaxLive,     \* this.live.size < 32
          MaxWaiting   \* this.waiting < 64

ASSUME SpendAssumption ==
  /\ NoProc \notin Procs /\ Bills \subseteq Nat
  /\ \A x \in Plans : /\ x.owner \in [Calls -> Procs] /\ x.capped \subseteq Calls
                      /\ x.midnights \in Nat /\ x.faults \in Nat
  /\ {Cap, Reserve, MaxLive, MaxWaiting} \subseteq Nat \ {0}

Unknown == -1     \* a settlement without a cost, a call not stamped with a day

VARIABLES plan,      \* the deployment
          log, torn, \* the complete lines of usage.jsonl; it ends in a partial one
          lock,      \* the process whose usage.lock exists, or NoProc
          queue,     \* [Procs -> the calls whose operation is chained on `tail`]
          at,        \* [Procs -> how far the head of that queue is]
          stamp,     \* [Procs -> the day the head read from the clock]
          live,      \* [Procs -> the calls this ledger object admitted]
          pc,        \* where each call is
          billed,    \* what the provider really charges for the call
          usage,     \* the cost a call is settled with, or Unknown
          day, faults

vars == <<plan, log, torn, lock, queue, at, stamp, live, pc,
          billed, usage, day, faults>>
ledger == <<log, torn>>
memory == <<lock, queue, at, stamp, live>>
world == <<plan, day, faults>>

owner == plan.owner
capped == plan.capped   \* the calls whose meter has capMicros

(* admitting, marking (a gap record), settling: an operation is in the queue.  *)
(* unaccounted: the admission of an uncapped call failed; lost: its settlement *)
(* failed; dead: its process died.                                             *)
InQueue == {"admitting", "marking", "settling"}
Over == {"refused", "unmetered", "settled", "lost", "dead"}
Places == InQueue \cup Over \cup {"idle", "unaccounted", "streaming"}

Days == 0..plan.midnights
Admission(c, d) == [type |-> "admit", call |-> c, day |-> d, cost |-> Unknown]
Settlement(c, x) == [type |-> "settle", call |-> c, day |-> Unknown, cost |-> x]
Gap(c) == [type |-> "gap", call |-> c, day |-> Unknown, cost |-> Unknown]
Lines == [type : {"admit", "settle", "gap"}, call : Calls,
          day : Days \cup {Unknown}, cost : Bills \cup {Unknown}]

TypeOK ==
  /\ plan \in Plans
  /\ log \subseteq Lines /\ torn \in BOOLEAN
  /\ lock \in Procs \cup {NoProc}
  /\ \A p \in Procs : Len(queue[p]) <= MaxWaiting /\ Cardinality(live[p]) <= MaxLive
  /\ queue \in [Procs -> Seq(Calls)] /\ live \in [Procs -> SUBSET Calls]
  /\ at \in [Procs -> {"wait", "read", "write"}]
  /\ stamp \in [Procs -> Days]
  /\ pc \in [Calls -> Places]
  /\ billed \in [Calls -> Bills \cup {0}] /\ usage \in [Calls -> Bills \cup {Unknown}]
  /\ day \in Days /\ faults \in 0..plan.faults

Init ==
  /\ plan \in Plans
  /\ log = {} /\ torn = FALSE /\ lock = NoProc
  /\ queue = [p \in Procs |-> <<>>] /\ at = [p \in Procs |-> "wait"]
  /\ stamp = [p \in Procs |-> 0]
  /\ live = [p \in Procs |-> {}]
  /\ pc = [c \in Calls |-> "idle"] /\ billed = [c \in Calls |-> 0]
  /\ usage = [c \in Calls |-> Unknown] /\ day = 0 /\ faults = 0
-----------------------------------------------------------------------------
(* fold() and gate().                                                          *)
Recorded(type) == {r \in log : r.type = type}
Admitted(c) == \E r \in Recorded("admit") : r.call = c
Priced(c) == {r.cost : r \in {s \in Recorded("settle") : s.call = c /\ s.cost # Unknown}}

(* final?.cost ?? call.reserve                                                 *)
CountedSettledOnly(c) == IF Priced(c) = {} THEN 0 ELSE CHOOSE x \in Priced(c) : TRUE
Counted(c) == IF Priced(c) = {} THEN Reserve ELSE CHOOSE x \in Priced(c) : TRUE

Total(d) ==
  MapThenSumSet(LAMBDA r : Counted(r.call), {r \in Recorded("admit") : r.day = d})

(* An admission is settled with a price, or is this object's own of this day.  *)
CertainForAnyone(p, r) == Priced(r.call) # {} \/ r.day = day
Certain(p, r) == Priced(r.call) # {} \/ (r.call \in live[p] /\ r.day = day)

MayReserve(p) ==
  /\ Recorded("gap") = {}
  /\ \A r \in Recorded("admit") : Certain(p, r) /\ \A x \in Priced(r.call) : x <= Reserve
  /\ Total(day) + Reserve <= Cap
-----------------------------------------------------------------------------
(* locked(): the queue of one process and the lock file.                       *)
Place(c, place) == pc' = [pc EXCEPT ![c] = place]
RoomUnbounded(p) == TRUE
Room(p) == Len(queue[p]) < MaxWaiting
Enter(c) == queue' = [queue EXCEPT ![owner[c]] = Append(@, c)]
Turn(p) == queue[p] # <<>>
Holds(p) == at[p] # "wait"

(* The head's operation is over: the lock file is removed if it was taken, and *)
(* the next one in the queue begins.                                           *)
Leave(p) ==
  /\ queue' = [queue EXCEPT ![p] = Tail(@)] /\ at' = [at EXCEPT ![p] = "wait"]
  /\ lock' = IF Holds(p) THEN NoProc ELSE lock
  /\ UNCHANGED stamp

(* The caller's catch: settle() forgets the call whatever happened; the meter  *)
(* refuses a capped call, and sends an uncapped one after trying to note a gap.*)
FailedKeepingLive(c) ==
  /\ Place(c, CASE pc[c] = "settling" -> "lost" [] pc[c] = "marking" -> "unmetered"
               [] OTHER -> IF c \in capped THEN "refused" ELSE "unaccounted")
  /\ UNCHANGED live
Failed(c) ==
  /\ Place(c, CASE pc[c] = "settling" -> "lost" [] pc[c] = "marking" -> "unmetered"
               [] OTHER -> IF c \in capped THEN "refused" ELSE "unaccounted")
  /\ live' = IF pc[c] = "settling" THEN [live EXCEPT ![owner[c]] = @ \ {c}] ELSE live

(* One more operation, or "unavailable" at once when too many are waiting.     *)
Request(c, kind) ==
  /\ UNCHANGED <<lock, at, stamp>>
  /\ IF Room(owner[c]) THEN Enter(c) /\ Place(c, kind) /\ UNCHANGED live
     ELSE /\ UNCHANGED queue
          /\ Place(c, CASE kind = "settling" -> "lost" [] kind = "marking" -> "unmetered"
                        [] OTHER -> IF c \in capped THEN "refused" ELSE "unaccounted")
          /\ live' = IF kind = "settling" THEN [live EXCEPT ![owner[c]] = @ \ {c}] ELSE live

AcquireStealing(p) ==
  /\ Turn(p) /\ at[p] = "wait"
  /\ lock' = p /\ at' = [at EXCEPT ![p] = "read"]
  /\ UNCHANGED <<world, ledger, queue, stamp, live, pc, billed, usage>>

Acquire(p) ==
  /\ Turn(p) /\ at[p] = "wait" /\ lock = NoProc
  /\ lock' = p /\ at' = [at EXCEPT ![p] = "read"]
  /\ UNCHANGED <<world, ledger, queue, stamp, live, pc, billed, usage>>

(* The deadline passed while others held the queue or the lock file.           *)
GiveUpUnlessLocked(p) ==
  /\ Turn(p) /\ at[p] = "wait" /\ lock = NoProc
  /\ Failed(Head(queue[p])) /\ Leave(p)
  /\ UNCHANGED <<world, ledger, billed, usage>>
GiveUp(p) ==
  /\ Turn(p) /\ at[p] = "wait"
  /\ Failed(Head(queue[p])) /\ Leave(p)
  /\ UNCHANGED <<world, ledger, billed, usage>>

(* The caller aborts a call whose admission has not begun to read.             *)
AbortWaiting(p) ==
  /\ Turn(p) /\ at[p] \in {"wait", "read"} /\ pc[Head(queue[p])] = "admitting"
  /\ Place(Head(queue[p]), "refused") /\ Leave(p)
  /\ UNCHANGED <<world, ledger, live, billed, usage>>
-----------------------------------------------------------------------------
(* readRecords() and the decision of admit() or settle().                      *)
Allowed(p, c) ==
  CASE pc[c] = "admitting" -> Cardinality(live[p]) < MaxLive
                              /\ (c \in capped => MayReserve(p))
    [] pc[c] = "settling" -> c \in live[p] /\ Admitted(c)
                             /\ \A r \in Recorded("settle") : r.call # c
    [] OTHER -> TRUE

Read(p) ==
  /\ at[p] = "read" /\ ~torn /\ Allowed(p, Head(queue[p]))
  /\ at' = [at EXCEPT ![p] = "write"] /\ stamp' = [stamp EXCEPT ![p] = day]
  /\ UNCHANGED <<world, ledger, lock, queue, live, pc, billed, usage>>

Refuse(p) ==
  /\ at[p] = "read" /\ (torn \/ ~Allowed(p, Head(queue[p])))
  /\ Failed(Head(queue[p])) /\ Leave(p)
  /\ UNCHANGED <<world, ledger, billed, usage>>

Line(p, c) ==
  CASE pc[c] = "admitting" -> Admission(c, stamp[p])
    [] pc[c] = "settling" -> Settlement(c, usage[c])
    [] OTHER -> Gap(c)

(* The line is durable: an admitted call goes out to the provider, which will  *)
(* charge what it charges.                                                     *)
Write(p) ==
  LET c == Head(queue[p]) IN
  /\ at[p] = "write" /\ log' = log \cup {Line(p, c)} /\ Leave(p)
  /\ CASE pc[c] = "admitting" ->
            /\ Place(c, "streaming") /\ live' = [live EXCEPT ![p] = @ \cup {c}]
            /\ \E x \in Bills : billed' = [billed EXCEPT ![c] = x]
       [] pc[c] = "settling" ->
            /\ Place(c, "settled") /\ live' = [live EXCEPT ![p] = @ \ {c}]
            /\ UNCHANGED billed
       [] OTHER -> Place(c, "unmetered") /\ UNCHANGED <<live, billed>>
  /\ UNCHANGED <<world, torn, usage>>

(* The append throws: nothing, a part, or all of the line is in the file.      *)
WriteFails(p) ==
  LET c == Head(queue[p]) IN
  /\ at[p] = "write" /\ faults < plan.faults /\ faults' = faults + 1
  /\ \/ UNCHANGED ledger
     \/ torn' = TRUE /\ UNCHANGED log
     \/ log' = log \cup {Line(p, c)} /\ UNCHANGED torn
  /\ Failed(c) /\ Leave(p)
  /\ UNCHANGED <<plan, day, billed, usage>>
-----------------------------------------------------------------------------
(* meterProvider(): the life of one call.                                      *)
Ask(c) ==
  /\ pc[c] = "idle" /\ Request(c, "admitting")
  /\ UNCHANGED <<world, ledger, billed, usage>>

MarkGap(c) ==
  /\ pc[c] = "unaccounted" /\ Request(c, "marking")
  /\ UNCHANGED <<world, ledger, billed, usage>>

(* The stream ends, is aborted or abandoned. Only one that ended with a stop,  *)
(* a reported usage and no retry is settled with its price.                    *)
EndStream(c) ==
  /\ pc[c] = "streaming" /\ Request(c, "settling")
  /\ \E x \in {billed[c], Unknown} : usage' = [usage EXCEPT ![c] = x]
  /\ UNCHANGED <<world, ledger, billed>>

(* A process dies: its calls, its queue and its object's memory are gone, the  *)
(* lock file stays, and a line it was writing may be torn. Another process may *)
(* start in its place.                                                         *)
Crash(p) ==
  /\ faults < plan.faults /\ faults' = faults + 1
  /\ \E c \in Calls : owner[c] = p /\ pc[c] \notin Over \cup {"idle"}
  /\ pc' = [c \in Calls |-> IF owner[c] = p /\ pc[c] \notin Over \cup {"idle"}
                            THEN "dead" ELSE pc[c]]
  /\ torn' \in {torn, torn \/ at[p] = "write"}
  /\ queue' = [queue EXCEPT ![p] = <<>>] /\ at' = [at EXCEPT ![p] = "wait"]
  /\ live' = [live EXCEPT ![p] = {}]
  /\ UNCHANGED <<plan, log, lock, stamp, billed, usage, day>>

(* The operator stops every writer and removes a lock file left by a crash.    *)
RemoveLock ==
  /\ lock # NoProc /\ \A p \in Procs : at[p] = "wait" /\ ~Turn(p)
  /\ lock' = NoProc
  /\ UNCHANGED <<world, ledger, queue, at, stamp, live, pc, billed, usage>>

Midnight ==
  /\ day < plan.midnights /\ day' = day + 1
  /\ UNCHANGED <<plan, faults, ledger, memory, pc, billed, usage>>

Settled == (\A c \in Calls : pc[c] \in Over) /\ UNCHANGED vars

Step(p) ==
  \/ Acquire(p) \/ GiveUp(p) \/ Read(p) \/ Refuse(p) \/ Write(p)
  \/ WriteFails(p)

Next ==
  \/ \E p \in Procs : Step(p) \/ AbortWaiting(p) \/ Crash(p)
  \/ \E c \in Calls : Ask(c) \/ MarkGap(c) \/ EndStream(c)
  \/ RemoveLock \/ Midnight \/ Settled

(* An operation at the head of the queue goes on, and so does the catch that   *)
(* notes a gap. Nobody is obliged to call, to end a stream or to remove a lock.*)
Fairness ==
  /\ \A p \in Procs : WF_vars(Step(p))
  /\ \A c \in Calls : WF_vars(MarkGap(c))

Spec == Init /\ [][Next]_vars /\ Fairness
-----------------------------------------------------------------------------
(* What the provider charges for the capped calls of one UTC day, each up to   *)
(* its reservation, stays within the cap: whatever the processes, crashes,     *)
(* failed or incomplete settlements, retries and midnights. A charge without   *)
(* an admission line would count on every day (gate(), 197-208).               *)
Charged(c) == IF billed[c] <= Reserve THEN billed[c] ELSE Reserve
OnDay(d) == {c \in capped :
  billed[c] # 0 /\ \A r \in Recorded("admit") : r.call = c => r.day = d}
WithinCap == \A d \in Days : MapThenSumSet(Charged, OnDay(d)) <= Cap

(* Capped calls of two processes are never outstanding together: a reservation *)
(* another process holds blocks admission (docs/SPEND-LEDGER.md, "Concurrency")*)
(* and the lock makes the decision and the append one step for the others.     *)
Outstanding(c) == pc[c] \in {"streaming", "settling"}
OneSpender ==
  \A c, e \in capped : Outstanding(c) /\ Outstanding(e) => owner[c] = owner[e]

(* No capped call passes the gate once a recorded call was lost: its process   *)
(* died, its settlement failed or had no price, it cost more than reserved, or *)
(* it is of another day or another process; crash and failure free nothing.    *)
Accounted(e) == billed[e] <= Reserve /\ billed[e] \in Priced(e)
Passes(p) == at[p] = "read" /\ at'[p] = "write" /\ pc[Head(queue[p])] = "admitting"
NothingLost(p) ==
  \A r \in Recorded("admit") :
    \/ Accounted(r.call)
    \/ Outstanding(r.call) /\ owner[r.call] = p /\ r.day = day
LossStopsSpending ==
  [][\A p \in Procs : Passes(p) /\ Head(queue[p]) \in capped => NothingLost(p)]_vars

(* An operation never waits for ever, even behind the lock of a process that   *)
(* died: the call is sent, refused or settled, or its own process dies.        *)
OperationsReturn ==
  \A c \in Calls :
    /\ pc[c] = "admitting" ~> pc[c] \in {"streaming", "settling"} \cup Over
    /\ pc[c] = "settling" ~> pc[c] \in Over
=============================================================================
