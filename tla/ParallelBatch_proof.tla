------------------------- MODULE ParallelBatch_proof -------------------------
(* Proofs about the parallel turn strategy for every batch, limit and set of   *)
(* paths: no two admitted calls conflict, an exclusive call is alone, one      *)
(* dialog at a time, and the batch implements HazardAdmission.                 *)
EXTENDS ParallelBatch, TLAPS

(* The mutex queue lists calls in the order they were taken. Only its head has *)
(* got past `queued`, and every call that is not admitted yet is in it.        *)
QueueOrdered == \A i, j \in 1..Len(prepareQ) : i < j => prepareQ[i] < prepareQ[j]
QueueTaken ==
  \A i \in 1..Len(prepareQ) : prepareQ[i] < next /\ pc[prepareQ[i]] \notin {"new", "done"}
TailQueued == \A i \in 2..Len(prepareQ) : pc[prepareQ[i]] = "queued"
WaitingQueued == \A c \in Calls : pc[c] \in Waiting => \E i \in 1..Len(prepareQ) : prepareQ[i] = c
NewUntaken == \A c \in Calls : pc[c] = "new" <=> c >= next
ActiveAdmitted == active = {c \in Calls : pc[c] \in Admitted}

(* An exclusive call that has drained the batch keeps the mutex to its end.    *)
PastDrain == {"gate", "classify", "check", "parked"} \cup Admitted
ExclusiveHolds ==
  \A c \in Calls : exclusive[c] /\ pc[c] \in PastDrain => Holds(prepareQ, c) /\ active \subseteq {c}

(* Whoever has a dialog open is at the head of the ask mutex.                  *)
Dialogs == {"dialogPermission", "dialogEscalation"}
DialogHolds == \A c \in Calls : pc[c] \in Dialogs => Holds(askQ, c)

(* A body runs only where its pipeline waits for it, and an orphan only after  *)
(* an abort.                                                                   *)
BodyPlaces ==
  \A c \in Calls : (Live(c) => pc[c] = "running") /\ (body[c] = "orphan" => aborted)
ReturnedIdle == outcome # "none" => Busy = {}

QueueInv == QueueOrdered /\ QueueTaken /\ TailQueued /\ WaitingQueued /\ NewUntaken
IInv == /\ TypeOK /\ QueueInv /\ ActiveAdmitted /\ NoConflictingLeases
        /\ ExclusiveHolds /\ DialogHolds /\ BodyPlaces /\ ReturnedIdle
-----------------------------------------------------------------------------
LEMMA ConflictSymmetric ==
  ASSUME NEW a \in Hazards, NEW b \in Hazards
  PROVE  Conflict(a, b) <=> Conflict(b, a)
BY DEF Conflict, Overlap, Hazards

LEMMA ReleaseInSeq ==
  ASSUME NEW q \in Seq(Calls), NEW c \in Calls
  PROVE  Release(q, c) \in Seq(Calls)
BY DEF Release, Holds

(* What a call finishing does to the types, whichever handler it ends in.      *)
LEMMA FinishTypeOK ==
  ASSUME TypeOK, NEW c \in Calls, NEW throws \in BOOLEAN, Finish(c, throws)
  PROVE  /\ next' \in 1..(N + 1) /\ pc' \in [Calls -> Places]
         /\ prepareQ' \in Seq(Calls) /\ active' \subseteq Calls /\ failed' \in BOOLEAN
<1> USE BatchAssumption
<1>1. Release(prepareQ, c) \in Seq(Calls)
  BY ReleaseInSeq DEF TypeOK
<1>2. Woken([pc EXCEPT ![c] = "done"]) \in [Calls -> Places]
  BY DEF TypeOK, Woken, Places, Waiting, Admitted
<1>3. CASE TakesNext(throws)
  <2>1. next \in Calls /\ next + 1 \in 1..(N + 1)
    BY <1>3 DEF TypeOK, TakesNext, Calls
  <2> DEFINE p == Woken([pc EXCEPT ![c] = "done"])
  <2>2. [p EXCEPT ![next] = "queued"] \in [Calls -> Places]
    <3> HIDE DEF p
    <3> QED
      BY <1>2, <2>1 DEF Places, Waiting, p
  <2>3. Append(Release(prepareQ, c), next) \in Seq(Calls)
    BY <1>1, <2>1
  <2> QED
    BY <1>3, <2>1, <2>2, <2>3 DEF Finish, TypeOK
<1>4. CASE ~TakesNext(throws)
  BY <1>1, <1>2, <1>4 DEF Finish, TypeOK
<1> QED
  BY <1>3, <1>4

LEMMA ClassificationsTyped ==
  ASSUME NEW m \in Metadata, alias \in [Names -> Files]
  PROVE  Classifications(m) \subseteq Hazards
BY DEF Classifications, Physical, NoHazard, Hazards, Metadata, Kinds

LEMMA TypeInit == Init => TypeOK
<1> USE BatchAssumption
<1> SUFFICES ASSUME Init PROVE TypeOK
  OBVIOUS
<1>1. Min2(Limit, N) \in 1..N
  BY DEF Min2
<1>2. next \in 1..(N + 1) /\ next - 1 \in 0..N
  BY <1>1 DEF Init
<1>3. prepareQ \in Seq(Calls)
  BY <1>2 DEF Init, Calls
<1>4. meta \in [Calls -> Metadata]
  BY DEF Init
<1>5. NoHazard \in Hazards
  BY DEF NoHazard, Hazards, Kinds
<1>6. pc \in [Calls -> Places] /\ body \in [Calls -> Bodies]
  BY DEF Init, Places, Waiting, Bodies
<1>7. hazard \in [Calls -> Hazards] /\ exclusive \in [Calls -> BOOLEAN] /\ active \subseteq Calls
  BY <1>5 DEF Init
<1>8. askQ \in Seq(Calls)
  BY DEF Init
<1> QED
  BY <1>2, <1>3, <1>4, <1>6, <1>7, <1>8 DEF Init, TypeOK

LEMMA TypePreserved ==
  ASSUME TypeOK, DialogHolds, [Next]_vars
  PROVE  TypeOK'
<1> USE BatchAssumption DEF batch, locks, ctl
<1>1. ASSUME NEW c \in Calls, PrepareHeld(c) PROVE TypeOK'
  BY <1>1 DEF PrepareHeld, TypeOK, Places, Waiting
<1>2. ASSUME NEW c \in Calls, Drained(c) PROVE TypeOK'
  BY <1>2 DEF Drained, TypeOK, Places, Waiting
<1>3. ASSUME NEW c \in Calls, Stopped(c) PROVE TypeOK'
  BY <1>3, FinishTypeOK DEF Stopped, TypeOK
<1>4. ASSUME NEW c \in Calls, Gate(c) PROVE TypeOK'
  BY <1>4 DEF Gate, TypeOK, Places, Waiting
<1>5. ASSUME NEW c \in Calls, Refuse(c) PROVE TypeOK'
  <2>1. PICK throws \in BOOLEAN : Finish(c, throws)
    BY <1>5 DEF Refuse
  <2> QED
    BY <1>5, <2>1, FinishTypeOK DEF Refuse, TypeOK
<1>6. ASSUME NEW c \in Calls, Classify(c) PROVE TypeOK'
  <2>1. Classifications(meta[c]) \subseteq Hazards
    BY ClassificationsTyped DEF TypeOK
  <2> QED
    BY <1>6, <2>1 DEF Classify, TypeOK, Places, Waiting
<1>7. ASSUME NEW c \in Calls, Admit(c) PROVE TypeOK'
  BY <1>7 DEF Admit, TypeOK, Places, Waiting, Admitted
<1>8. ASSUME NEW c \in Calls, Authorize(c) PROVE TypeOK'
  BY <1>8, ReleaseInSeq DEF Authorize, TypeOK, Places, Admitted
<1>9. ASSUME NEW c \in Calls, AskPermission(c) PROVE TypeOK'
  BY <1>9 DEF AskPermission, TypeOK, Places, Admitted
<1>10. ASSUME NEW c \in Calls, OpenDialog(c) PROVE TypeOK'
  BY <1>10 DEF OpenDialog, TypeOK, Places, Admitted
<1>11. ASSUME NEW c \in Calls, StoppedAsk(c) PROVE TypeOK'
  <2>1. askQ' \in Seq(Calls)
    BY <1>11 DEF StoppedAsk, Holds, TypeOK
  <2>2. CASE \E throws \in BOOLEAN : Finish(c, throws)
    BY <1>11, <2>1, <2>2, FinishTypeOK DEF StoppedAsk, TypeOK
  <2>3. CASE /\ pc' = [pc EXCEPT ![c] = "settling"]
             /\ UNCHANGED <<next, prepareQ, active, failed>>
    BY <1>11, <2>1, <2>3 DEF StoppedAsk, TypeOK, Places, Admitted
  <2> QED
    BY <1>11, <2>2, <2>3 DEF StoppedAsk
<1>12. ASSUME NEW c \in Calls, AnswerPermission(c) PROVE TypeOK'
  <2>1. askQ' \in Seq(Calls)
    BY <1>12 DEF AnswerPermission, DialogHolds, Dialogs, Holds, TypeOK
  <2>2. CASE \E throws \in BOOLEAN : Finish(c, throws)
    BY <1>12, <2>1, <2>2, FinishTypeOK DEF AnswerPermission, TypeOK
  <2>3. CASE ~ \E throws \in BOOLEAN : Finish(c, throws)
    <3>1. /\ pc' = [pc EXCEPT ![c] = "called"] /\ UNCHANGED <<next, active, failed>>
          /\ prepareQ' = IF FreesMutex(c) THEN Release(prepareQ, c) ELSE prepareQ
          /\ UNCHANGED <<batch, exclusive, hazard, body, aborted, outcome>>
      BY <1>12, <2>3 DEF AnswerPermission
    <3>2. prepareQ' \in Seq(Calls)
      BY <3>1, ReleaseInSeq DEF TypeOK
    <3>3. pc' \in [Calls -> Places]
      BY <3>1 DEF TypeOK, Places, Admitted
    <3> QED
      BY <2>1, <3>1, <3>2, <3>3 DEF TypeOK
  <2> QED
    BY <2>2, <2>3
<1>13. ASSUME NEW c \in Calls, AnswerEscalation(c) PROVE TypeOK'
  <2>1. askQ' \in Seq(Calls)
    BY <1>13 DEF AnswerEscalation, DialogHolds, Dialogs, Holds, TypeOK
  <2> QED
    BY <1>13, <2>1 DEF AnswerEscalation, TypeOK, Places, Admitted
<1>14. ASSUME NEW c \in Calls, StartBody(c) PROVE TypeOK'
  BY <1>14 DEF StartBody, TypeOK, Places, Admitted, Bodies
<1>15. ASSUME NEW c \in Calls, Settle(c) PROVE TypeOK'
  BY <1>15, FinishTypeOK DEF Settle, TypeOK
<1>16. ASSUME NEW c \in Calls, IsolatedReady(c) PROVE TypeOK'
  BY <1>16 DEF IsolatedReady, Holds, TypeOK
<1>17. ASSUME NEW c \in Calls, EndBody(c) PROVE TypeOK'
  BY <1>17 DEF EndBody, TypeOK, Places, Admitted, Bodies
<1>18. ASSUME NEW c \in Calls, SandboxDenied(c) PROVE TypeOK'
  <2>1. CASE askQ' = Append(askQ, c) /\ pc' = [pc EXCEPT ![c] = "askEscalation"]
    BY <1>18, <2>1 DEF SandboxDenied, TypeOK, Places, Admitted, Bodies
  <2>2. CASE askQ' = askQ /\ pc' = [pc EXCEPT ![c] = "settling"]
    BY <1>18, <2>2 DEF SandboxDenied, TypeOK, Places, Admitted, Bodies
  <2> QED
    BY <1>18, <2>1, <2>2 DEF SandboxDenied
<1>19. ASSUME NEW c \in Calls, Relink(c) PROVE TypeOK'
  BY <1>19 DEF Relink, TypeOK
<1>20. CASE Abort
  BY <1>20 DEF Abort, TypeOK, Places, Admitted, Bodies
<1>21. CASE Return
  BY <1>21 DEF Return, TypeOK
<1>22. CASE UNCHANGED vars
  BY <1>22 DEF vars, TypeOK
<1> QED
  BY <1>1, <1>2, <1>3, <1>4, <1>5, <1>6, <1>7, <1>8, <1>9, <1>10, <1>11, <1>12, <1>13,
     <1>14, <1>15, <1>16, <1>17, <1>18, <1>19, <1>20, <1>21, <1>22
     DEF Next, Scheduler, Tool, Returned
-----------------------------------------------------------------------------
(* finish(): the call is done, woken calls stay where they are in the queue,   *)
(* and the call the worker takes next joins its end.                           *)
LEMMA FinishPlaces ==
  ASSUME TypeOK, NewUntaken, NEW c \in Calls, pc[c] # "new",
         NEW throws \in BOOLEAN, Finish(c, throws)
  PROVE  /\ pc'[c] = "done"
         /\ \A d \in Calls \ {c} :
              \/ pc'[d] = pc[d]
              \/ pc[d] = "parked" /\ pc'[d] = "classify"
              \/ pc[d] = "drain" /\ pc'[d] = "drained"
              \/ d = next /\ next' = next + 1 /\ pc[d] = "new" /\ pc'[d] = "queued"
         /\ \/ next' = next /\ prepareQ' = Release(prepareQ, c)
            \/ /\ next \in Calls /\ next' = next + 1 /\ pc[next] = "new" /\ pc'[next] = "queued"
               /\ prepareQ' = Append(Release(prepareQ, c), next)
         /\ active' = active \ {c}
<1> USE BatchAssumption
<1>1. c < next /\ c \in Nat /\ next \in Nat
  BY DEF TypeOK, NewUntaken, Calls
<1> DEFINE p == Woken([pc EXCEPT ![c] = "done"])
<1>2. /\ p[c] = "done" /\ p \in [Calls -> Places]
      /\ \A d \in Calls \ {c} : \/ p[d] = pc[d]
                                \/ pc[d] = "parked" /\ p[d] = "classify"
                                \/ pc[d] = "drain" /\ p[d] = "drained"
  BY DEF Woken, TypeOK, Places, Waiting
<1> HIDE DEF p
<1>3. CASE TakesNext(throws)
  <2>1. next \in Calls /\ pc[next] = "new"
    BY <1>3 DEF TakesNext, TypeOK, NewUntaken, Calls
  <2>2. pc' = [p EXCEPT ![next] = "queued"] /\ next' = next + 1 /\ active' = active \ {c}
        /\ prepareQ' = Append(Release(prepareQ, c), next)
    BY <1>3 DEF Finish, p
  <2> QED
    BY <1>1, <1>2, <2>1, <2>2
<1>4. CASE ~TakesNext(throws)
  <2>1. pc' = p /\ next' = next /\ prepareQ' = Release(prepareQ, c) /\ active' = active \ {c}
    BY <1>4 DEF Finish, p
  <2> QED
    BY <1>2, <2>1
<1> QED
  BY <1>3, <1>4

(* A call leaves the mutex queue only from its head, and what is left of the   *)
(* queue lists the other calls that were in it.                                *)
LEMMA ReleaseQueue ==
  ASSUME TypeOK, QueueInv, NEW c \in Calls, pc[c] # "queued" \/ Holds(prepareQ, c),
         NEW q, q = Release(prepareQ, c)
  PROVE  /\ q \in Seq(Calls)
         /\ \A i, j \in 1..Len(q) : i < j => q[i] < q[j]
         /\ \A i \in 1..Len(q) : /\ q[i] < next /\ pc[q[i]] \notin {"new", "done"}
                                 /\ q[i] # c
         /\ \A i \in 2..Len(q) : pc[q[i]] = "queued"
         /\ \A d \in Calls \ {c} : pc[d] \in Waiting => \E i \in 1..Len(q) : q[i] = d
<1>1. prepareQ \in Seq(Calls) /\ \A i \in 1..Len(prepareQ) : prepareQ[i] \in Nat
  BY BatchAssumption DEF TypeOK, Calls
<1>2. CASE Holds(prepareQ, c)
  <2>1. prepareQ # <<>> /\ prepareQ[1] = c /\ q = Tail(prepareQ)
    BY <1>1, <1>2 DEF Holds, Release
  <2>2. /\ q \in Seq(Calls) /\ Len(q) = Len(prepareQ) - 1
        /\ \A i \in 1..Len(q) : q[i] = prepareQ[i + 1] /\ i + 1 \in 2..Len(prepareQ)
    BY <1>1, <2>1
  <2>3. Len(prepareQ) \in Nat \ {0}
    BY <1>1, <2>1
  <2>4. \A i \in 1..Len(q) : /\ q[i] < next /\ pc[q[i]] \notin {"new", "done"}
                             /\ q[i] # c /\ pc[q[i]] = "queued"
    BY <1>1, <2>1, <2>2, <2>3 DEF QueueInv, QueueOrdered, QueueTaken, TailQueued
  <2>5. \A i, j \in 1..Len(q) : i < j => q[i] < q[j]
    <3> SUFFICES ASSUME NEW i \in 1..Len(q), NEW j \in 1..Len(q), i < j PROVE q[i] < q[j]
      OBVIOUS
    <3>1. prepareQ[i + 1] < prepareQ[j + 1]
      <4>1. i + 1 \in 1..Len(prepareQ) /\ j + 1 \in 1..Len(prepareQ) /\ i + 1 < j + 1
        BY <2>2, <2>3
      <4> QED
        BY <4>1 DEF QueueInv, QueueOrdered
    <3> QED
      BY <2>2, <3>1
  <2>6. ASSUME NEW d \in Calls \ {c}, pc[d] \in Waiting
        PROVE  \E i \in 1..Len(q) : q[i] = d
    <3>1. PICK i \in 1..Len(prepareQ) : prepareQ[i] = d
      BY <2>6 DEF QueueInv, WaitingQueued
    <3>2. i - 1 \in 1..Len(q) /\ q[i - 1] = d
      BY <2>1, <2>2, <2>3, <3>1
    <3> QED
      BY <3>2
  <2> QED
    BY <2>2, <2>3, <2>4, <2>5, <2>6
<1>3. CASE ~Holds(prepareQ, c)
  <2>1. q = prepareQ
    BY <1>3 DEF Release
  <2>2. \A i \in 1..Len(q) : q[i] # c
    BY <1>1, <1>3, <2>1 DEF Holds, QueueInv, TailQueued
  <2> QED
    BY <1>1, <2>1, <2>2
       DEF QueueInv, QueueOrdered, QueueTaken, TailQueued, WaitingQueued
<1> QED
  BY <1>2, <1>3

LEMMA FinishQueue ==
  ASSUME TypeOK, QueueInv, NEW c \in Calls, pc[c] # "new",
         pc[c] # "queued" \/ Holds(prepareQ, c),
         NEW throws \in BOOLEAN, Finish(c, throws)
  PROVE  QueueInv'
<1> DEFINE q == Release(prepareQ, c)
<1>1. /\ q \in Seq(Calls)
      /\ \A i, j \in 1..Len(q) : i < j => q[i] < q[j]
      /\ \A i \in 1..Len(q) : q[i] < next /\ pc[q[i]] \notin {"new", "done"} /\ q[i] # c
      /\ \A i \in 2..Len(q) : pc[q[i]] = "queued"
      /\ \A d \in Calls \ {c} : pc[d] \in Waiting => \E i \in 1..Len(q) : q[i] = d
  BY ReleaseQueue
<1>2. /\ pc'[c] = "done"
      /\ \A d \in Calls \ {c} :
           \/ pc'[d] = pc[d]
           \/ pc[d] = "parked" /\ pc'[d] = "classify"
           \/ pc[d] = "drain" /\ pc'[d] = "drained"
           \/ d = next /\ next' = next + 1 /\ pc[d] = "new" /\ pc'[d] = "queued"
      /\ \/ next' = next /\ prepareQ' = q
         \/ /\ next \in Calls /\ next' = next + 1 /\ pc[next] = "new" /\ pc'[next] = "queued"
            /\ prepareQ' = Append(q, next)
  BY FinishPlaces DEF QueueInv
<1>3. \A d \in Calls : d \in Nat
  BY BatchAssumption DEF Calls
<1>4. next \in Nat
  BY BatchAssumption DEF TypeOK
<1> HIDE DEF q
<1>5. \A i \in 1..Len(q) : q[i] \in Calls \ {c} /\ pc'[q[i]] \notin {"new", "done"}
  BY <1>1, <1>2, <1>3
<1>6. \A i \in 2..Len(q) : pc'[q[i]] = "queued"
  BY <1>1, <1>2, <1>5
<1>7. \A d \in Calls : pc'[d] = "new" <=> d >= next'
  <2>1. c < next
    BY <1>3, <1>4 DEF QueueInv, NewUntaken
  <2> QED
    BY <1>2, <1>3, <1>4, <2>1 DEF QueueInv, NewUntaken
<1>8. CASE next' = next /\ prepareQ' = q
  <2>1. WaitingQueued'
    BY <1>1, <1>2, <1>4, <1>8 DEF WaitingQueued, Waiting
  <2> QED
    BY <1>1, <1>5, <1>6, <1>7, <1>8, <2>1
       DEF QueueInv, QueueOrdered, QueueTaken, TailQueued, NewUntaken
<1>9. CASE /\ next \in Calls /\ next' = next + 1 /\ pc[next] = "new" /\ pc'[next] = "queued"
           /\ prepareQ' = Append(q, next)
  <2>1. /\ Len(prepareQ') = Len(q) + 1 /\ Len(q) \in Nat
        /\ prepareQ'[Len(q) + 1] = next
        /\ \A i \in 1..Len(q) : prepareQ'[i] = q[i]
    BY <1>1, <1>9
  <2>2. QueueOrdered'
    <3> SUFFICES ASSUME NEW i \in 1..Len(prepareQ'), NEW j \in 1..Len(prepareQ'), i < j
                 PROVE  prepareQ'[i] < prepareQ'[j]
      BY DEF QueueOrdered
    <3>1. i \in 1..Len(q) /\ (j \in 1..Len(q) \/ j = Len(q) + 1)
      BY <2>1
    <3> QED
      BY <1>1, <2>1, <3>1
  <2>3. QueueTaken'
    <3> SUFFICES ASSUME NEW i \in 1..Len(prepareQ')
                 PROVE  prepareQ'[i] < next' /\ pc'[prepareQ'[i]] \notin {"new", "done"}
      BY DEF QueueTaken
    <3>1. CASE i \in 1..Len(q)
      <4>1. q[i] < next /\ q[i] \in Nat
        BY <1>1, <1>3, <1>5, <3>1
      <4> QED
        BY <1>4, <1>5, <1>9, <2>1, <3>1, <4>1
    <3>2. CASE i = Len(q) + 1
      BY <1>4, <1>9, <2>1, <3>2
    <3> QED
      BY <2>1, <3>1, <3>2
  <2>4. TailQueued'
    BY <1>6, <1>9, <2>1 DEF TailQueued
  <2>5. WaitingQueued'
    <3> SUFFICES ASSUME NEW d \in Calls, pc'[d] \in Waiting
                 PROVE  \E i \in 1..Len(prepareQ') : prepareQ'[i] = d
      BY DEF WaitingQueued
    <3>1. CASE d = next
      BY <2>1, <3>1
    <3>2. CASE d # next
      <4>1. d # c /\ pc[d] \in Waiting
        BY <1>2, <3>2 DEF Waiting
      <4> QED
        BY <1>1, <2>1, <4>1
    <3> QED
      BY <3>1, <3>2
  <2> QED
    BY <1>7, <2>2, <2>3, <2>4, <2>5 DEF QueueInv, NewUntaken
<1> QED
  BY <1>2, <1>8, <1>9

(* A call moves on in its pipeline, giving the mutex up at most once admitted. *)
LEMMA MoveQueue ==
  ASSUME TypeOK, QueueInv, NEW c \in Calls, NEW p \in Places \ {"new", "done", "queued"},
         pc[c] \notin {"new", "done"}, pc[c] = "queued" => Holds(prepareQ, c),
         p \in Waiting => pc[c] \in Waiting,
         pc' = [pc EXCEPT ![c] = p], next' = next,
         \/ prepareQ' = prepareQ
         \/ p \in Admitted /\ prepareQ' = Release(prepareQ, c)
  PROVE  QueueInv'
<1>1. /\ \A d \in Calls : d \in Nat
      /\ \A i \in 1..Len(prepareQ) : prepareQ[i] \in Calls
  BY BatchAssumption DEF TypeOK, Calls
<1>2. pc'[c] = p /\ \A d \in Calls \ {c} : pc'[d] = pc[d]
  BY DEF TypeOK
<1>3. NewUntaken'
  BY <1>2 DEF QueueInv, NewUntaken
<1>4. CASE prepareQ' = prepareQ
  <2>1. QueueOrdered'
    BY <1>4 DEF QueueInv, QueueOrdered
  <2>2. QueueTaken'
    BY <1>1, <1>2, <1>4 DEF QueueInv, QueueTaken
  <2>3. TailQueued'
    <3> SUFFICES ASSUME NEW i \in 2..Len(prepareQ) PROVE pc'[prepareQ[i]] = "queued"
      BY <1>4 DEF TailQueued
    <3>1. prepareQ[1] < prepareQ[i] /\ Len(prepareQ) \in Nat /\ prepareQ # <<>>
      BY DEF TypeOK, QueueInv, QueueOrdered
    <3>2. Holds(prepareQ, c) => prepareQ[i] # c
      BY <1>1, <3>1 DEF Holds, TypeOK
    <3>3. pc[prepareQ[i]] = "queued"
      BY DEF QueueInv, TailQueued
    <3>4. prepareQ[i] \in Calls
      BY <1>1, <3>1
    <3> QED
      BY <1>2, <3>2, <3>3, <3>4
  <2>4. WaitingQueued'
    BY <1>2, <1>4 DEF QueueInv, WaitingQueued
  <2> QED
    BY <1>3, <2>1, <2>2, <2>3, <2>4 DEF QueueInv
<1>5. CASE p \in Admitted /\ prepareQ' = Release(prepareQ, c)
  <2> DEFINE q == prepareQ'
  <2>1. /\ q \in Seq(Calls)
        /\ \A i, j \in 1..Len(q) : i < j => q[i] < q[j]
        /\ \A i \in 1..Len(q) : q[i] < next /\ pc[q[i]] \notin {"new", "done"} /\ q[i] # c
        /\ \A i \in 2..Len(q) : pc[q[i]] = "queued"
        /\ \A d \in Calls \ {c} : pc[d] \in Waiting => \E i \in 1..Len(q) : q[i] = d
    BY <1>5, ReleaseQueue
  <2>2. \A i \in 1..Len(q) : q[i] \in Calls \ {c}
    BY <2>1
  <2>3. p \notin Waiting
    BY <1>5 DEF Admitted, Waiting
  <2> HIDE DEF q
  <2>4. \A i \in 1..Len(q) : pc'[q[i]] = pc[q[i]]
    BY <1>2, <2>2
  <2> QED
    BY <1>2, <1>3, <2>1, <2>3, <2>4
       DEF QueueInv, QueueOrdered, QueueTaken, TailQueued, WaitingQueued, q
<1> QED
  BY <1>4, <1>5

LEMMA QueuePreserved ==
  ASSUME TypeOK, QueueInv, BodyPlaces, [Next]_vars
  PROVE  QueueInv'
<1> USE DEF batch, locks, ctl
<1>1. ASSUME NEW c \in Calls, PrepareHeld(c) PROVE QueueInv'
  BY <1>1, MoveQueue DEF PrepareHeld, Places, Waiting
<1>2. ASSUME NEW c \in Calls, Drained(c) PROVE QueueInv'
  BY <1>2, MoveQueue DEF Drained, Places, Waiting
<1>3. ASSUME NEW c \in Calls, Stopped(c) PROVE QueueInv'
  BY <1>3, FinishQueue DEF Stopped
<1>4. ASSUME NEW c \in Calls, Gate(c) PROVE QueueInv'
  BY <1>4, MoveQueue DEF Gate, Places, Waiting
<1>5. ASSUME NEW c \in Calls, Refuse(c) PROVE QueueInv'
  BY <1>5, FinishQueue DEF Refuse
<1>6. ASSUME NEW c \in Calls, Classify(c) PROVE QueueInv'
  BY <1>6, MoveQueue DEF Classify, Places, Waiting
<1>7. ASSUME NEW c \in Calls, Admit(c) PROVE QueueInv'
  <2>1. CASE Compatible(c)
    BY <1>7, <2>1, MoveQueue DEF Admit, Places, Waiting, Admitted
  <2>2. CASE ~Compatible(c)
    BY <1>7, <2>2, MoveQueue DEF Admit, Places, Waiting, Admitted
  <2> QED
    BY <2>1, <2>2
<1>8. ASSUME NEW c \in Calls, Authorize(c) PROVE QueueInv'
  BY <1>8, MoveQueue DEF Authorize, Places, Admitted, Waiting
<1>9. ASSUME NEW c \in Calls, AskPermission(c) PROVE QueueInv'
  BY <1>9, MoveQueue DEF AskPermission, Places, Admitted, Waiting
<1>10. ASSUME NEW c \in Calls, OpenDialog(c) PROVE QueueInv'
  BY <1>10, MoveQueue DEF OpenDialog, Places, Admitted, Waiting
<1>11. ASSUME NEW c \in Calls, StoppedAsk(c) PROVE QueueInv'
  <2>1. CASE \E throws \in BOOLEAN : Finish(c, throws)
    BY <1>11, <2>1, FinishQueue DEF StoppedAsk
  <2>2. CASE pc[c] = "askEscalation"
    BY <1>11, <2>2, MoveQueue DEF StoppedAsk, Places, Admitted, Waiting
  <2> QED
    BY <1>11, <2>1, <2>2 DEF StoppedAsk
<1>12. ASSUME NEW c \in Calls, AnswerPermission(c) PROVE QueueInv'
  <2>1. CASE \E throws \in BOOLEAN : Finish(c, throws)
    BY <1>12, <2>1, FinishQueue DEF AnswerPermission
  <2>2. CASE ~ \E throws \in BOOLEAN : Finish(c, throws)
    BY <1>12, <2>2, MoveQueue DEF AnswerPermission, Places, Admitted, Waiting
  <2> QED
    BY <2>1, <2>2
<1>13. ASSUME NEW c \in Calls, AnswerEscalation(c) PROVE QueueInv'
  BY <1>13, MoveQueue DEF AnswerEscalation, Places, Admitted, Waiting
<1>14. ASSUME NEW c \in Calls, StartBody(c) PROVE QueueInv'
  BY <1>14, MoveQueue DEF StartBody, Places, Admitted, Waiting
<1>15. ASSUME NEW c \in Calls, Settle(c) PROVE QueueInv'
  BY <1>15, FinishQueue DEF Settle
<1>16. ASSUME NEW c \in Calls, IsolatedReady(c) PROVE QueueInv'
  <2>1. pc' = [pc EXCEPT ![c] = "running"] /\ prepareQ' = Release(prepareQ, c)
    BY <1>16 DEF IsolatedReady, Release, TypeOK
  <2> QED
    BY <1>16, <2>1, MoveQueue DEF IsolatedReady, Places, Admitted, Waiting
<1>17. ASSUME NEW c \in Calls, EndBody(c) PROVE QueueInv'
  <2>1. CASE Live(c)
    BY <1>17, <2>1, MoveQueue DEF EndBody, BodyPlaces, Places, Admitted, Waiting
  <2>2. CASE ~Live(c)
    BY <1>17, <2>2 DEF EndBody, QueueInv, QueueOrdered, QueueTaken, TailQueued,
                       WaitingQueued, NewUntaken
  <2> QED
    BY <2>1, <2>2
<1>18. ASSUME NEW c \in Calls, SandboxDenied(c) PROVE QueueInv'
  BY <1>18, MoveQueue DEF SandboxDenied, BodyPlaces, Live, Places, Admitted, Waiting
<1>19. CASE Abort
  <2>1. \A c \in Calls : /\ pc'[c] = "new" <=> pc[c] = "new"
                         /\ pc'[c] = "done" <=> pc[c] = "done"
                         /\ pc'[c] \in Waiting => pc[c] \in Waiting
                         /\ pc[c] = "queued" => pc'[c] = "queued"
    BY <1>19 DEF Abort, BodyPlaces, Waiting
  <2>2. \A i \in 1..Len(prepareQ) : prepareQ[i] \in Calls
    BY DEF TypeOK
  <2>3. \A i \in 2..Len(prepareQ) : i \in 1..Len(prepareQ)
    BY DEF TypeOK
  <2> QED
    BY <1>19, <2>1, <2>2, <2>3 DEF Abort, QueueInv, QueueOrdered, QueueTaken, TailQueued,
                                   WaitingQueued, NewUntaken
<1>20. CASE UNCHANGED <<next, pc, prepareQ>>
  BY <1>20 DEF QueueInv, QueueOrdered, QueueTaken, TailQueued, WaitingQueued, NewUntaken
<1> QED
  BY <1>1, <1>2, <1>3, <1>4, <1>5, <1>6, <1>7, <1>8, <1>9, <1>10, <1>11, <1>12, <1>13,
     <1>14, <1>15, <1>16, <1>17, <1>18, <1>19, <1>20
     DEF Next, Scheduler, Tool, Relink, Return, Returned, vars
-----------------------------------------------------------------------------
(* A call that has left `queued` and is not admitted yet is the head of the    *)
(* queue, so every earlier call is admitted or over: admission is in order.    *)
LEMMA HeadInOrder ==
  ASSUME TypeOK, QueueInv, NEW c \in Calls, pc[c] \in Waiting \ {"queued"}
  PROVE  /\ Holds(prepareQ, c)
         /\ \A d \in Calls : d < c => pc[d] \in Admitted \cup {"done"}
<1>1. prepareQ \in Seq(Calls) /\ Calls \subseteq Nat /\ next \in Nat
  BY BatchAssumption DEF TypeOK, Calls
<1>2. PICK i \in 1..Len(prepareQ) : prepareQ[i] = c
  BY DEF QueueInv, WaitingQueued
<1>3. i = 1 /\ prepareQ # <<>>
  BY <1>1, <1>2 DEF QueueInv, TailQueued
<1>4. Holds(prepareQ, c)
  BY <1>1, <1>2, <1>3 DEF Holds
<1>5. ASSUME NEW d \in Calls, d < c
      PROVE  pc[d] \in Admitted \cup {"done"}
  <2>1. pc[d] # "new"
    <3>1. c < next
      BY <1>2 DEF QueueInv, QueueTaken
    <3> QED
      BY <1>1, <1>5, <3>1 DEF QueueInv, NewUntaken
  <2>2. pc[d] \notin Waiting
    <3>1. ASSUME pc[d] \in Waiting PROVE FALSE
      <4>1. PICK j \in 1..Len(prepareQ) : prepareQ[j] = d
        BY <3>1 DEF QueueInv, WaitingQueued
      <4>2. j # 1 /\ 1 < j
        BY <1>1, <1>2, <1>3, <1>5, <4>1
      <4>3. c < d
        BY <1>2, <1>3, <4>1, <4>2 DEF QueueInv, QueueOrdered
      <4> QED
        BY <1>1, <1>5, <4>3
    <3> QED
      BY <3>1
  <2> QED
    BY <2>1, <2>2 DEF TypeOK, Places
<1> QED
  BY <1>4, <1>5

LeaseInv == ActiveAdmitted /\ NoConflictingLeases /\ ExclusiveHolds

LEMMA FinishLease ==
  ASSUME TypeOK, QueueInv, LeaseInv, NEW c \in Calls, pc[c] # "new",
         NEW throws \in BOOLEAN, Finish(c, throws), UNCHANGED <<exclusive, hazard>>
  PROVE  LeaseInv'
<1>1. /\ pc'[c] = "done"
      /\ \A d \in Calls \ {c} :
           \/ pc'[d] = pc[d]
           \/ pc[d] = "parked" /\ pc'[d] = "classify"
           \/ pc[d] = "drain" /\ pc'[d] = "drained"
           \/ d = next /\ next' = next + 1 /\ pc[d] = "new" /\ pc'[d] = "queued"
      /\ \/ next' = next /\ prepareQ' = Release(prepareQ, c)
         \/ /\ next \in Calls /\ next' = next + 1 /\ pc[next] = "new" /\ pc'[next] = "queued"
            /\ prepareQ' = Append(Release(prepareQ, c), next)
      /\ active' = active \ {c}
  BY FinishPlaces DEF QueueInv
<1>2. ActiveAdmitted'
  BY <1>1 DEF LeaseInv, ActiveAdmitted, Admitted
<1>3. NoConflictingLeases'
  BY <1>1 DEF LeaseInv, NoConflictingLeases
<1>4. ExclusiveHolds'
  <2> SUFFICES ASSUME NEW d \in Calls, exclusive[d], pc'[d] \in PastDrain
               PROVE  Holds(prepareQ', d) /\ active' \subseteq {d}
    BY DEF ExclusiveHolds, Holds
  <2>1. d # c /\ pc[d] \in PastDrain
    BY <1>1 DEF PastDrain, Admitted
  <2>2. Holds(prepareQ, d) /\ active \subseteq {d}
    BY <2>1 DEF LeaseInv, ExclusiveHolds
  <2>3. Release(prepareQ, c) = prepareQ
    BY <2>1, <2>2 DEF Release, Holds
  <2>4. Holds(prepareQ', d)
    <3>1. CASE prepareQ' = prepareQ
      BY <2>2, <3>1
    <3>2. CASE next \in Calls /\ prepareQ' = Append(prepareQ, next)
      BY <2>2, <3>2 DEF TypeOK, Holds
    <3> QED
      BY <1>1, <2>3, <3>1, <3>2
  <2> QED
    BY <1>1, <2>2, <2>4
<1> QED
  BY <1>2, <1>3, <1>4 DEF LeaseInv

(* A call moves without being admitted or giving its lease up.                 *)
LEMMA MoveLease ==
  ASSUME TypeOK, LeaseInv, NEW c \in Calls, NEW p \in Places,
         pc' = [pc EXCEPT ![c] = p], active' = active,
         p \in Admitted <=> pc[c] \in Admitted,
         p \in PastDrain => pc[c] \in PastDrain,
         exclusive' = exclusive,
         \/ hazard' = hazard
         \/ pc[c] \notin Admitted /\ \E h \in Hazards : hazard' = [hazard EXCEPT ![c] = h],
         prepareQ' = prepareQ \/ (~exclusive[c] /\ prepareQ' = Release(prepareQ, c))
  PROVE  LeaseInv'
<1>1. pc'[c] = p /\ \A d \in Calls \ {c} : pc'[d] = pc[d]
  BY DEF TypeOK
<1>2. ActiveAdmitted'
  BY <1>1 DEF LeaseInv, ActiveAdmitted
<1>3. \A d \in active : hazard'[d] = hazard[d]
  BY DEF LeaseInv, ActiveAdmitted, TypeOK
<1>4. NoConflictingLeases'
  BY <1>3 DEF LeaseInv, NoConflictingLeases
<1>5. ExclusiveHolds'
  <2> SUFFICES ASSUME NEW d \in Calls, exclusive[d], pc'[d] \in PastDrain
               PROVE  Holds(prepareQ', d) /\ active' \subseteq {d}
    BY DEF ExclusiveHolds, Holds
  <2>1. Holds(prepareQ, d) /\ active \subseteq {d}
    BY <1>1 DEF LeaseInv, ExclusiveHolds
  <2>2. prepareQ' = prepareQ
    BY <2>1 DEF Release, Holds
  <2> QED
    BY <2>1, <2>2
<1> QED
  BY <1>2, <1>4, <1>5 DEF LeaseInv

(* The admission check: the call that is admitted conflicts with no lease, and *)
(* as it holds the mutex, no exclusive call that has drained is another one.   *)
LEMMA AdmitLease ==
  ASSUME TypeOK, QueueInv, LeaseInv, NEW c \in Calls, Admit(c), Compatible(c)
  PROVE  LeaseInv'
<1>1. /\ pc[c] = "check" /\ pc' = [pc EXCEPT ![c] = "permission"]
      /\ active' = active \cup {c} /\ UNCHANGED <<exclusive, hazard, prepareQ>>
  BY DEF Admit, locks, ctl
<1>2. pc'[c] = "permission" /\ \A d \in Calls \ {c} : pc'[d] = pc[d]
  BY <1>1 DEF TypeOK
<1>3. ActiveAdmitted'
  BY <1>1, <1>2 DEF LeaseInv, ActiveAdmitted, Admitted
<1>4. NoConflictingLeases'
  <2>1. \A d \in active : ~Conflict(hazard[c], hazard[d])
    BY DEF Compatible
  <2>2. \A d \in active : ~Conflict(hazard[d], hazard[c])
    BY <2>1, ConflictSymmetric DEF TypeOK
  <2>3. \A d, e \in active \cup {c} : d # e => ~Conflict(hazard[d], hazard[e])
    BY <2>1, <2>2 DEF LeaseInv, NoConflictingLeases
  <2> QED
    BY <1>1, <2>3 DEF NoConflictingLeases
<1>5. ExclusiveHolds'
  <2> SUFFICES ASSUME NEW d \in Calls, exclusive[d], pc'[d] \in PastDrain
               PROVE  Holds(prepareQ, d) /\ active' \subseteq {d}
    BY <1>1 DEF ExclusiveHolds, Holds
  <2>1. pc[d] \in PastDrain
    BY <1>1, <1>2 DEF PastDrain
  <2>2. Holds(prepareQ, d) /\ active \subseteq {d}
    BY <2>1 DEF LeaseInv, ExclusiveHolds
  <2>3. Holds(prepareQ, c)
    BY <1>1, HeadInOrder DEF Waiting
  <2>4. d = c
    BY <2>2, <2>3 DEF Holds
  <2> QED
    BY <1>1, <2>2, <2>4
<1> QED
  BY <1>3, <1>4, <1>5 DEF LeaseInv

LEMMA LeasePreserved ==
  ASSUME TypeOK, QueueInv, LeaseInv, BodyPlaces, [Next]_vars
  PROVE  LeaseInv'
<1> USE DEF batch, locks, ctl
<1>1. ASSUME NEW c \in Calls, PrepareHeld(c) PROVE LeaseInv'
  <2>1. PICK x \in Exclusive :
          /\ exclusive' = [exclusive EXCEPT ![c] = x]
          /\ pc' = [pc EXCEPT ![c] = IF x /\ active # {} THEN "drain" ELSE "gate"]
    BY <1>1 DEF PrepareHeld
  <2>2. /\ pc[c] = "queued" /\ Holds(prepareQ, c) /\ active' = active /\ hazard' = hazard
        /\ prepareQ' = prepareQ
    BY <1>1 DEF PrepareHeld
  <2>3. /\ pc'[c] \in {"drain", "gate"} /\ \A d \in Calls \ {c} : pc'[d] = pc[d]
        /\ exclusive'[c] = x /\ \A d \in Calls \ {c} : exclusive'[d] = exclusive[d]
        /\ x /\ pc'[c] = "gate" => active = {}
    BY <2>1 DEF TypeOK
  <2>4. ActiveAdmitted' /\ NoConflictingLeases'
    BY <2>2, <2>3 DEF LeaseInv, ActiveAdmitted, NoConflictingLeases, Admitted
  <2>5. ExclusiveHolds'
    BY <2>2, <2>3 DEF LeaseInv, ExclusiveHolds, PastDrain, Admitted, Holds
  <2> QED
    BY <2>4, <2>5 DEF LeaseInv
<1>2. ASSUME NEW c \in Calls, Drained(c) PROVE LeaseInv'
  <2>1. CASE active # {}
    BY <1>2, <2>1, MoveLease DEF Drained, Places, Waiting, PastDrain, Admitted
  <2>2. CASE active = {}
    <3>1. Holds(prepareQ, c)
      BY <1>2, HeadInOrder DEF Drained, Waiting
    <3>2. /\ pc[c] = "drained" /\ pc' = [pc EXCEPT ![c] = "gate"] /\ active' = {}
          /\ UNCHANGED <<exclusive, hazard, prepareQ>>
      BY <1>2, <2>2 DEF Drained
    <3>3. pc'[c] = "gate" /\ \A d \in Calls \ {c} : pc'[d] = pc[d]
      BY <3>2 DEF TypeOK
    <3>4. ActiveAdmitted' /\ NoConflictingLeases'
      BY <2>2, <3>2, <3>3 DEF LeaseInv, ActiveAdmitted, NoConflictingLeases, Admitted
    <3>5. ExclusiveHolds'
      BY <3>1, <3>2, <3>3 DEF LeaseInv, ExclusiveHolds, Holds
    <3> QED
      BY <3>4, <3>5 DEF LeaseInv
  <2> QED
    BY <2>1, <2>2
<1>3. ASSUME NEW c \in Calls, Stopped(c) PROVE LeaseInv'
  BY <1>3, FinishLease DEF Stopped
<1>4. ASSUME NEW c \in Calls, Gate(c) PROVE LeaseInv'
  BY <1>4, MoveLease DEF Gate, Places, Waiting, PastDrain, Admitted
<1>5. ASSUME NEW c \in Calls, Refuse(c) PROVE LeaseInv'
  BY <1>5, FinishLease DEF Refuse
<1>6. ASSUME NEW c \in Calls, Classify(c) PROVE LeaseInv'
  <2>1. Classifications(meta[c]) \subseteq Hazards
    BY ClassificationsTyped DEF TypeOK
  <2>2. \E h \in Hazards : hazard' = [hazard EXCEPT ![c] = h]
    BY <1>6, <2>1 DEF Classify
  <2> QED
    BY <1>6, <2>2, MoveLease DEF Classify, Places, Waiting, PastDrain, Admitted
<1>7. ASSUME NEW c \in Calls, Admit(c) PROVE LeaseInv'
  <2>1. CASE Compatible(c)
    BY <1>7, <2>1, AdmitLease
  <2>2. CASE ~Compatible(c)
    BY <1>7, <2>2, MoveLease DEF Admit, Places, Waiting, PastDrain, Admitted
  <2> QED
    BY <2>1, <2>2
<1>8. ASSUME NEW c \in Calls, Authorize(c) PROVE LeaseInv'
  BY <1>8, MoveLease DEF Authorize, FreesMutex, Places, PastDrain, Admitted
<1>9. ASSUME NEW c \in Calls, AskPermission(c) PROVE LeaseInv'
  BY <1>9, MoveLease DEF AskPermission, Places, PastDrain, Admitted
<1>10. ASSUME NEW c \in Calls, OpenDialog(c) PROVE LeaseInv'
  BY <1>10, MoveLease DEF OpenDialog, Places, PastDrain, Admitted
<1>11. ASSUME NEW c \in Calls, StoppedAsk(c) PROVE LeaseInv'
  <2>1. CASE \E throws \in BOOLEAN : Finish(c, throws)
    BY <1>11, <2>1, FinishLease DEF StoppedAsk
  <2>2. CASE pc[c] = "askEscalation"
    BY <1>11, <2>2, MoveLease DEF StoppedAsk, Places, PastDrain, Admitted
  <2> QED
    BY <1>11, <2>1, <2>2 DEF StoppedAsk
<1>12. ASSUME NEW c \in Calls, AnswerPermission(c) PROVE LeaseInv'
  <2>1. CASE \E throws \in BOOLEAN : Finish(c, throws)
    BY <1>12, <2>1, FinishLease DEF AnswerPermission
  <2>2. CASE ~ \E throws \in BOOLEAN : Finish(c, throws)
    BY <1>12, <2>2, MoveLease DEF AnswerPermission, FreesMutex, Places, PastDrain, Admitted
  <2> QED
    BY <2>1, <2>2
<1>13. ASSUME NEW c \in Calls, AnswerEscalation(c) PROVE LeaseInv'
  BY <1>13, MoveLease DEF AnswerEscalation, Places, PastDrain, Admitted
<1>14. ASSUME NEW c \in Calls, StartBody(c) PROVE LeaseInv'
  BY <1>14, MoveLease DEF StartBody, Places, PastDrain, Admitted
<1>15. ASSUME NEW c \in Calls, Settle(c) PROVE LeaseInv'
  BY <1>15, FinishLease DEF Settle
<1>16. ASSUME NEW c \in Calls, IsolatedReady(c) PROVE LeaseInv'
  <2>1. pc' = [pc EXCEPT ![c] = "running"] /\ prepareQ' = Release(prepareQ, c)
    BY <1>16 DEF IsolatedReady, Release, TypeOK
  <2> QED
    BY <1>16, <2>1, MoveLease DEF IsolatedReady, Places, PastDrain, Admitted
<1>17. ASSUME NEW c \in Calls, EndBody(c) PROVE LeaseInv'
  <2>1. CASE Live(c)
    BY <1>17, <2>1, MoveLease DEF EndBody, BodyPlaces, Places, PastDrain, Admitted
  <2>2. CASE ~Live(c)
    BY <1>17, <2>2
       DEF EndBody, LeaseInv, ActiveAdmitted, NoConflictingLeases, ExclusiveHolds, Holds
  <2> QED
    BY <2>1, <2>2
<1>18. ASSUME NEW c \in Calls, SandboxDenied(c) PROVE LeaseInv'
  BY <1>18, MoveLease DEF SandboxDenied, BodyPlaces, Live, Places, PastDrain, Admitted
<1>19. CASE Abort
  <2>1. \A c \in Calls : /\ pc'[c] \in Admitted <=> pc[c] \in Admitted
                         /\ pc'[c] \in PastDrain => pc[c] \in PastDrain
    BY <1>19 DEF Abort, BodyPlaces, Admitted, PastDrain
  <2> QED
    BY <1>19, <2>1
       DEF Abort, LeaseInv, ActiveAdmitted, NoConflictingLeases, ExclusiveHolds, Holds
<1>20. CASE UNCHANGED <<pc, prepareQ, exclusive, active, hazard>>
  BY <1>20 DEF LeaseInv, ActiveAdmitted, NoConflictingLeases, ExclusiveHolds, Holds
<1> QED
  BY <1>1, <1>2, <1>3, <1>4, <1>5, <1>6, <1>7, <1>8, <1>9, <1>10, <1>11, <1>12, <1>13,
     <1>14, <1>15, <1>16, <1>17, <1>18, <1>19, <1>20
     DEF Next, Scheduler, Tool, Relink, Return, Returned, vars
-----------------------------------------------------------------------------
(* Dialogs, bodies and the outcome: none of them is touched by finish() but    *)
(* for the place of the calls.                                                 *)
EdgeInv == DialogHolds /\ BodyPlaces /\ ReturnedIdle

LEMMA FinishEdge ==
  ASSUME TypeOK, QueueInv, EdgeInv, NEW c \in Calls, pc[c] \notin {"new", "done", "running"},
         NEW throws \in BOOLEAN, Finish(c, throws),
         UNCHANGED <<body, aborted, outcome>>,
         askQ' = askQ \/ Holds(askQ, c)
  PROVE  EdgeInv'
<1>1. /\ pc'[c] = "done"
      /\ \A d \in Calls \ {c} :
           \/ pc'[d] = pc[d]
           \/ pc[d] = "parked" /\ pc'[d] = "classify"
           \/ pc[d] = "drain" /\ pc'[d] = "drained"
           \/ d = next /\ next' = next + 1 /\ pc[d] = "new" /\ pc'[d] = "queued"
  BY FinishPlaces DEF QueueInv
<1>2. DialogHolds'
  BY <1>1 DEF EdgeInv, DialogHolds, Dialogs, Holds
<1>3. BodyPlaces'
  BY <1>1 DEF EdgeInv, BodyPlaces, Live
<1>4. outcome = "none"
  BY DEF EdgeInv, ReturnedIdle, Busy
<1> QED
  BY <1>2, <1>3, <1>4 DEF EdgeInv, ReturnedIdle

LEMMA MoveEdge ==
  ASSUME TypeOK, EdgeInv, NEW c \in Calls, NEW p \in Places,
         pc[c] \notin {"new", "done"}, pc' = [pc EXCEPT ![c] = p],
         UNCHANGED <<aborted, outcome>>,
         \/ body' = body /\ pc[c] # "running"
         \/ \E b \in Bodies \ {"orphan"} :
              body' = [body EXCEPT ![c] = b] /\ (b \in {"live", "outside"} => p = "running"),
         \/ askQ' = askQ /\ (p \in Dialogs => Holds(askQ, c))
         \/ askQ' = Append(askQ, c) /\ p \notin Dialogs
         \/ Holds(askQ, c) /\ p \notin Dialogs
  PROVE  EdgeInv'
<1>1. pc'[c] = p /\ \A d \in Calls \ {c} : pc'[d] = pc[d]
  BY DEF TypeOK
<1>2. DialogHolds'
  <2> SUFFICES ASSUME NEW d \in Calls, pc'[d] \in Dialogs PROVE Holds(askQ', d)
    BY DEF DialogHolds, Holds
  <2>1. CASE d = c
    BY <1>1, <2>1
  <2>2. CASE d # c
    <3>1. Holds(askQ, d)
      BY <1>1, <2>2 DEF EdgeInv, DialogHolds
    <3>2. CASE askQ' = askQ
      BY <3>1, <3>2
    <3>3. CASE askQ' = Append(askQ, c)
      BY <3>1, <3>3 DEF Holds, TypeOK
    <3> QED
      BY <2>2, <3>1, <3>2, <3>3 DEF Holds
  <2> QED
    BY <2>1, <2>2
<1>3. BodyPlaces'
  <2>1. CASE body' = body /\ pc[c] # "running"
    BY <1>1, <2>1 DEF EdgeInv, BodyPlaces, Live
  <2>2. ASSUME NEW b \in Bodies \ {"orphan"}, body' = [body EXCEPT ![c] = b],
               b \in {"live", "outside"} => p = "running"
        PROVE  BodyPlaces'
    <3>1. body'[c] = b /\ \A d \in Calls \ {c} : body'[d] = body[d]
      BY <2>2 DEF TypeOK
    <3> QED
      BY <1>1, <2>2, <3>1 DEF EdgeInv, BodyPlaces, Live
  <2> QED
    BY <2>1, <2>2
<1>4. outcome = "none"
  BY DEF EdgeInv, ReturnedIdle, Busy
<1> QED
  BY <1>2, <1>3, <1>4 DEF EdgeInv, ReturnedIdle

LEMMA EdgePreserved ==
  ASSUME TypeOK, QueueInv, EdgeInv, [Next]_vars
  PROVE  EdgeInv'
<1> USE DEF batch, locks, ctl
<1>1. ASSUME NEW c \in Calls, PrepareHeld(c) PROVE EdgeInv'
  BY <1>1, MoveEdge DEF PrepareHeld, Places, Waiting, Dialogs
<1>2. ASSUME NEW c \in Calls, Drained(c) PROVE EdgeInv'
  BY <1>2, MoveEdge DEF Drained, Places, Waiting, Dialogs
<1>3. ASSUME NEW c \in Calls, Stopped(c) PROVE EdgeInv'
  BY <1>3, FinishEdge DEF Stopped
<1>4. ASSUME NEW c \in Calls, Gate(c) PROVE EdgeInv'
  BY <1>4, MoveEdge DEF Gate, Places, Waiting, Dialogs
<1>5. ASSUME NEW c \in Calls, Refuse(c) PROVE EdgeInv'
  BY <1>5, FinishEdge DEF Refuse
<1>6. ASSUME NEW c \in Calls, Classify(c) PROVE EdgeInv'
  BY <1>6, MoveEdge DEF Classify, Places, Waiting, Dialogs
<1>7. ASSUME NEW c \in Calls, Admit(c) PROVE EdgeInv'
  <2>1. CASE Compatible(c)
    BY <1>7, <2>1, MoveEdge DEF Admit, Places, Admitted, Dialogs
  <2>2. CASE ~Compatible(c)
    BY <1>7, <2>2, MoveEdge DEF Admit, Places, Waiting, Dialogs
  <2> QED
    BY <2>1, <2>2
<1>8. ASSUME NEW c \in Calls, Authorize(c) PROVE EdgeInv'
  BY <1>8, MoveEdge DEF Authorize, Places, Admitted, Dialogs
<1>9. ASSUME NEW c \in Calls, AskPermission(c) PROVE EdgeInv'
  BY <1>9, MoveEdge DEF AskPermission, Places, Admitted, Dialogs
<1>10. ASSUME NEW c \in Calls, OpenDialog(c) PROVE EdgeInv'
  BY <1>10, MoveEdge DEF OpenDialog, Places, Admitted, Dialogs
<1>11. ASSUME NEW c \in Calls, StoppedAsk(c) PROVE EdgeInv'
  <2>1. CASE \E throws \in BOOLEAN : Finish(c, throws)
    BY <1>11, <2>1, FinishEdge DEF StoppedAsk
  <2>2. CASE pc[c] = "askEscalation"
    BY <1>11, <2>2, MoveEdge DEF StoppedAsk, Places, Admitted, Dialogs
  <2> QED
    BY <1>11, <2>1, <2>2 DEF StoppedAsk
<1>12. ASSUME NEW c \in Calls, AnswerPermission(c) PROVE EdgeInv'
  <2>0. Holds(askQ, c)
    BY <1>12 DEF AnswerPermission, EdgeInv, DialogHolds, Dialogs
  <2>1. CASE \E throws \in BOOLEAN : Finish(c, throws)
    BY <1>12, <2>0, <2>1, FinishEdge DEF AnswerPermission
  <2>2. CASE ~ \E throws \in BOOLEAN : Finish(c, throws)
    BY <1>12, <2>0, <2>2, MoveEdge DEF AnswerPermission, Places, Admitted, Dialogs
  <2> QED
    BY <2>1, <2>2
<1>13. ASSUME NEW c \in Calls, AnswerEscalation(c) PROVE EdgeInv'
  <2>1. Holds(askQ, c)
    BY <1>13 DEF AnswerEscalation, EdgeInv, DialogHolds, Dialogs
  <2> QED
    BY <1>13, <2>1, MoveEdge DEF AnswerEscalation, Places, Admitted, Dialogs
<1>14. ASSUME NEW c \in Calls, StartBody(c) PROVE EdgeInv'
  <2>1. CASE aborted
    BY <1>14, <2>1, MoveEdge DEF StartBody, Places, Admitted, Dialogs
  <2>2. CASE ~aborted
    <3>1. \E b \in {"live", "outside"} : body' = [body EXCEPT ![c] = b]
      BY <1>14, <2>2 DEF StartBody, TypeOK
    <3> QED
      BY <1>14, <2>2, <3>1, MoveEdge DEF StartBody, Places, Admitted, Dialogs, Bodies
  <2> QED
    BY <2>1, <2>2
<1>15. ASSUME NEW c \in Calls, Settle(c) PROVE EdgeInv'
  BY <1>15, FinishEdge DEF Settle
<1>16. ASSUME NEW c \in Calls, IsolatedReady(c) PROVE EdgeInv'
  BY <1>16 DEF IsolatedReady, EdgeInv, DialogHolds, BodyPlaces, Live, ReturnedIdle, Busy, Holds
<1>17. ASSUME NEW c \in Calls, EndBody(c) PROVE EdgeInv'
  <2>1. CASE Live(c)
    <3>1. pc[c] = "running"
      BY <2>1 DEF EdgeInv, BodyPlaces
    <3> QED
      <4>1. /\ body' = [body EXCEPT ![c] = "ended"] /\ pc' = [pc EXCEPT ![c] = "settling"]
            /\ UNCHANGED <<askQ, aborted, outcome>>
        BY <1>17, <2>1 DEF EndBody
      <4>2. /\ "ended" \in Bodies \ {"orphan"} /\ "ended" \notin {"live", "outside"}
            /\ "settling" \in Places /\ "settling" \notin Dialogs
        BY DEF Bodies, Places, Admitted, Dialogs
      <4> QED
        BY <3>1, <4>1, <4>2, MoveEdge
  <2>2. CASE ~Live(c)
    <3>1. body'[c] = "ended" /\ \A d \in Calls \ {c} : body'[d] = body[d]
      BY <1>17, <2>2 DEF EndBody, TypeOK
    <3> QED
      BY <1>17, <2>2, <3>1
         DEF EndBody, EdgeInv, DialogHolds, BodyPlaces, Live, ReturnedIdle, Busy, Holds
  <2> QED
    BY <2>1, <2>2
<1>18. ASSUME NEW c \in Calls, SandboxDenied(c) PROVE EdgeInv'
  <2>1. pc[c] \in {"called", "running"}
    BY <1>18 DEF SandboxDenied, EdgeInv, BodyPlaces, Live
  <2> QED
    <3>1. body' = [body EXCEPT ![c] = "denied"] /\ UNCHANGED <<aborted, outcome>>
      BY <1>18 DEF SandboxDenied
    <3>2. /\ "denied" \in Bodies \ {"orphan"} /\ "denied" \notin {"live", "outside"}
          /\ {"askEscalation", "settling"} \subseteq Places \ Dialogs
      BY DEF Bodies, Places, Admitted, Dialogs
    <3>3. \/ askQ' = Append(askQ, c) /\ pc' = [pc EXCEPT ![c] = "askEscalation"]
          \/ askQ' = askQ /\ pc' = [pc EXCEPT ![c] = "settling"]
      BY <1>18 DEF SandboxDenied
    <3>4. CASE askQ' = Append(askQ, c) /\ pc' = [pc EXCEPT ![c] = "askEscalation"]
      BY <2>1, <3>1, <3>2, <3>4, MoveEdge
    <3>5. CASE askQ' = askQ /\ pc' = [pc EXCEPT ![c] = "settling"]
      BY <2>1, <3>1, <3>2, <3>5, MoveEdge
    <3> QED
      BY <3>3, <3>4, <3>5
<1>19. CASE Abort
  <2>1. \A c \in Calls : /\ pc'[c] \in Dialogs => pc[c] \in Dialogs
                         /\ body'[c] \notin {"live", "outside"}
    BY <1>19 DEF Abort, Live, Dialogs
  <2> QED
    BY <1>19, <2>1 DEF Abort, EdgeInv, DialogHolds, BodyPlaces, Live, ReturnedIdle, Holds
<1>20. CASE Return
  BY <1>20 DEF Return, Joined, EdgeInv, DialogHolds, BodyPlaces, Live, ReturnedIdle, Busy, Holds
<1>21. CASE UNCHANGED <<pc, askQ, body, aborted, outcome>>
  BY <1>21 DEF EdgeInv, DialogHolds, BodyPlaces, Live, ReturnedIdle, Busy, Holds
<1> QED
  BY <1>1, <1>2, <1>3, <1>4, <1>5, <1>6, <1>7, <1>8, <1>9, <1>10, <1>11, <1>12, <1>13,
     <1>14, <1>15, <1>16, <1>17, <1>18, <1>19, <1>20, <1>21
     DEF Next, Scheduler, Tool, Relink, Returned, vars
-----------------------------------------------------------------------------
LEMMA InductiveInit == Init => IInv
<1> SUFFICES ASSUME Init PROVE IInv
  OBVIOUS
<1> USE BatchAssumption
<1>1. next \in 2..(N + 1)
  BY DEF Init, Min2
<1>2. /\ prepareQ \in Seq(Calls) /\ Len(prepareQ) = next - 1
      /\ \A i \in 1..Len(prepareQ) : prepareQ[i] = i /\ pc[i] = "queued"
  <2>1. prepareQ = [i \in 1..(next - 1) |-> i] /\ next - 1 \in 1..N
    BY <1>1 DEF Init
  <2>2. prepareQ \in Seq(Calls)
    BY TypeInit DEF TypeOK
  <2>3. Len(prepareQ) = next - 1
    BY <2>1, <2>2
  <2>4. \A i \in 1..(next - 1) : i \in Calls /\ i < next
    BY <1>1, <2>1 DEF Calls
  <2> QED
    BY <2>1, <2>2, <2>3, <2>4 DEF Init
<1>3. QueueOrdered /\ QueueTaken /\ TailQueued
  BY <1>1, <1>2 DEF QueueOrdered, QueueTaken, TailQueued
<1>4. WaitingQueued /\ NewUntaken
  <2>1. \A c \in Calls : pc[c] = IF c < next THEN "queued" ELSE "new"
    BY DEF Init
  <2>2. \A c \in Calls : c < next => c \in 1..Len(prepareQ)
    BY <1>1, <1>2 DEF Calls
  <2>3. NewUntaken
    BY <1>1, <2>1 DEF NewUntaken, Calls
  <2> QED
    BY <1>2, <2>1, <2>2, <2>3 DEF WaitingQueued, Waiting
<1>5. ActiveAdmitted /\ NoConflictingLeases /\ ExclusiveHolds
  BY DEF Init, ActiveAdmitted, NoConflictingLeases, ExclusiveHolds, Admitted
<1>6. DialogHolds /\ BodyPlaces /\ ReturnedIdle
  BY DEF Init, DialogHolds, Dialogs, BodyPlaces, Live, ReturnedIdle
<1> QED
  BY <1>3, <1>4, <1>5, <1>6, TypeInit DEF IInv, QueueInv

LEMMA Inductive == Spec => []IInv
<1>1. IInv /\ [Next]_vars => IInv'
  BY TypePreserved, QueuePreserved, LeasePreserved, EdgePreserved DEF IInv, LeaseInv, EdgeInv
<1> QED
  BY InductiveInit, <1>1, PTL DEF Spec

(* Type correctness: every variable of the batch keeps its type, for every     *)
(* batch, concurrency limit and answer of forceExclusive().                    *)
THEOREM TypeCorrect == Spec => []TypeOK
<1>1. IInv => TypeOK
  BY DEF IInv
<1> QED
  BY <1>1, Inductive, PTL

(* No two admitted calls conflict: whatever the batch, however many workers,   *)
(* and whatever classify() answers each time it is asked (admit()).            *)
THEOREM LeasesNeverConflict == Spec => []NoConflictingLeases
<1>1. IInv => NoConflictingLeases
  BY DEF IInv
<1> QED
  BY <1>1, Inductive, PTL

(* A call made exclusive by forceExclusive() is the only one admitted: it      *)
(* drained the batch under the mutex and keeps the mutex to finish().          *)
THEOREM ExclusiveIsAlone == Spec => []ExclusiveRunsAlone
<1>1. IInv => ExclusiveRunsAlone
  BY DEF IInv, ActiveAdmitted, ExclusiveHolds, ExclusiveRunsAlone, PastDrain
<1> QED
  BY <1>1, Inductive, PTL

(* The host sees one dialog at a time, whichever calls ask and whether for a   *)
(* permission or for a run outside the sandbox (ask()).                        *)
THEOREM DialogsNeverOverlap == Spec => []OneDialogAtATime
<1>1. IInv => OneDialogAtATime
  BY DEF IInv, DialogHolds, Dialogs, Holds, OneDialogAtATime
<1> QED
  BY <1>1, Inductive, PTL

(* When executeParallel() returns or throws, no pipeline is part-way and only  *)
(* an abort can have left a tool body running.                                 *)
THEOREM ReturnAbandonsNothing == Spec => []NothingAbandoned
<1>1. IInv => NothingAbandoned
  <2> SUFFICES ASSUME IInv, outcome # "none"
               PROVE  /\ Busy = {} /\ active = {}
                      /\ \A c \in Calls : ~Live(c) /\ (body[c] = "orphan" => aborted)
    BY DEF NothingAbandoned
  <2>1. Busy = {} /\ \A c \in Calls : pc[c] \in {"new", "done"}
    BY DEF IInv, ReturnedIdle, Busy
  <2>2. active = {}
    BY <2>1 DEF IInv, ActiveAdmitted, Admitted
  <2> QED
    BY <2>1, <2>2 DEF IInv, BodyPlaces
<1> QED
  BY <1>1, Inductive, PTL

(* No tool body starts once the session is aborted (command()).                *)
THEOREM NoBodyStartsAfterAbort == Spec => NoBodyAfterAbort
<1>1. IInv /\ [Next]_vars =>
        [aborted => \A c \in Calls :
           (body[c] # body'[c]) => body'[c] \notin {"live", "outside"}]_vars
  <2> SUFFICES ASSUME IInv, [Next]_vars, aborted, NEW d \in Calls, body[d] # body'[d]
               PROVE  body'[d] \notin {"live", "outside"}
    OBVIOUS
  <2> USE DEF batch, locks, ctl
  <2>1. body \in [Calls -> Bodies]
    BY DEF IInv, TypeOK
  <2>2. ASSUME NEW c \in Calls, StartBody(c) PROVE FALSE
    BY <2>2 DEF StartBody
  <2>3. ASSUME NEW c \in Calls, EndBody(c) \/ SandboxDenied(c)
        PROVE  body'[d] \notin {"live", "outside"}
    BY <2>1, <2>3 DEF EndBody, SandboxDenied
  <2>4. CASE Abort
    BY <2>4 DEF Abort
  <2>5. ASSUME NEW c \in Calls, Scheduler(c), ~StartBody(c) PROVE FALSE
    BY <2>5 DEF Scheduler, PrepareHeld, Drained, Stopped, Gate, Refuse, Classify, Admit,
       Authorize, AskPermission, OpenDialog, StoppedAsk, AnswerPermission,
       AnswerEscalation, Settle
  <2>6. ASSUME NEW c \in Calls, IsolatedReady(c) \/ Relink(c) PROVE FALSE
    BY <2>6 DEF IsolatedReady, Relink
  <2>7. CASE Return \/ UNCHANGED vars
    BY <2>7 DEF Return, vars
  <2> QED
    BY <2>2, <2>3, <2>4, <2>5, <2>6, <2>7 DEF Next, Tool, Returned
<1> QED
  BY <1>1, Inductive, PTL DEF Spec, NoBodyAfterAbort
-----------------------------------------------------------------------------
(* Refinement: finish() is HazardAdmission's Finish, the admission check its   *)
(* Admit, and every other step leaves leases and finished calls as they are.   *)
LEMMA FinishRefines ==
  ASSUME IInv, NEW c \in Calls, pc[c] \notin {"new", "done"},
         NEW throws \in BOOLEAN, Finish(c, throws), UNCHANGED hazard
  PROVE  Admission!Finish(c)
<1>1. /\ pc'[c] = "done" /\ active' = active \ {c}
      /\ \A d \in Calls \ {c} : pc'[d] = "done" <=> pc[d] = "done"
  BY FinishPlaces DEF IInv, QueueInv
<1>2. c \notin Finished /\ Finished' = Finished \cup {c}
  BY <1>1 DEF Finished
<1>3. DOMAIN Lease = active
  BY DEF Lease
<1>4. Lease' = [d \in active \ {c} |-> Lease[d]]
  BY <1>1 DEF Lease
<1> QED
  BY <1>2, <1>3, <1>4 DEF Admission!Finish, Admission!Leased

LEMMA AdmitRefines ==
  ASSUME IInv, NEW c \in Calls, Admit(c), Compatible(c)
  PROVE  Admission!Admit(c)
<1>1. /\ pc[c] = "check" /\ pc' = [pc EXCEPT ![c] = "permission"]
      /\ active' = active \cup {c} /\ hazard' = hazard
  BY DEF Admit
<1>2. \A d \in Calls : d < c => d \in active \cup Finished
  BY <1>1, HeadInOrder DEF IInv, ActiveAdmitted, Finished, Waiting
<1>3. c \notin active \cup Finished
  BY <1>1 DEF IInv, ActiveAdmitted, Admitted, Finished
<1>4. DOMAIN Lease = active /\ \A d \in active : Lease[d] = hazard[d]
  BY DEF Lease
<1>5. hazard[c] \in Hazards /\ \A d \in active : ~Conflict(hazard[c], Lease[d])
  BY <1>4 DEF IInv, TypeOK, Compatible
<1>6. Lease' = [d \in active \cup {c} |-> IF d = c THEN hazard[c] ELSE Lease[d]]
  BY <1>1, <1>4 DEF Lease
<1>7. Finished' = Finished
  BY <1>1 DEF IInv, TypeOK, Finished
<1> QED
  BY <1>2, <1>3, <1>4, <1>5, <1>6, <1>7 DEF Admission!Admit, Admission!Leased

(* The parallel strategy implements HazardAdmission: admission is first in,    *)
(* first out, each call is compatible with the leases it joins, and finished   *)
(* calls stay finished.                                                        *)
THEOREM AdmissionIsInOrder == Spec => AdmitsInOrder
<1>1. Init => Admission!Init
  BY DEF Init, Admission!Init, Lease, Finished
<1>2. IInv /\ [Next]_vars => [Admission!Next]_(Admission!vars)
  <2> SUFFICES ASSUME IInv, [Next]_vars, ~ \E c \in Calls : Admission!Admit(c) \/ Admission!Finish(c)
               PROVE  UNCHANGED <<Lease, Finished>>
    BY DEF Admission!Next, Admission!vars
  <2> USE DEF batch, locks, ctl
  <2>1. ASSUME NEW c \in Calls, NEW throws \in BOOLEAN, Finish(c, throws), hazard' = hazard,
               pc[c] \notin {"new", "done"}
        PROVE  FALSE
    BY <2>1, FinishRefines
  <2>2. ASSUME NEW c \in Calls, Stopped(c) \/ Refuse(c) \/ Settle(c) PROVE FALSE
    BY <2>1, <2>2 DEF Stopped, Refuse, Settle
  <2>3. ASSUME NEW c \in Calls, NEW p, pc[c] # "done", p # "done", pc' = [pc EXCEPT ![c] = p],
               active' = active, \A d \in active : hazard'[d] = hazard[d]
        PROVE  UNCHANGED <<Lease, Finished>>
    <3>1. Lease' = Lease
      BY <2>3 DEF Lease
    <3>2. Finished' = Finished
      BY <2>3 DEF Finished, IInv, TypeOK
    <3> QED
      BY <3>1, <3>2
  <2>4. ASSUME NEW c \in Calls, PrepareHeld(c) \/ Drained(c) \/ Gate(c) \/ Authorize(c)
               \/ AskPermission(c) \/ OpenDialog(c) \/ AnswerEscalation(c) \/ StartBody(c)
               \/ SandboxDenied(c)
        PROVE  UNCHANGED <<Lease, Finished>>
    <3>1. /\ active' = active /\ hazard' = hazard
          /\ \E p \in Places \ {"done"} : pc' = [pc EXCEPT ![c] = p]
      BY <2>4 DEF PrepareHeld, Drained, Gate, Authorize, AskPermission, OpenDialog,
                  AnswerEscalation, StartBody, SandboxDenied, Places, Waiting, Admitted
    <3>2. pc[c] # "done"
      BY <2>4 DEF PrepareHeld, Drained, Gate, Authorize, AskPermission, OpenDialog,
                  AnswerEscalation, StartBody, SandboxDenied, IInv, BodyPlaces, Live
    <3> QED
      BY <2>3, <3>1, <3>2
  <2>5. ASSUME NEW c \in Calls, Classify(c) PROVE UNCHANGED <<Lease, Finished>>
    <3>1. \A d \in active : hazard'[d] = hazard[d]
      BY <2>5 DEF Classify, IInv, ActiveAdmitted, Admitted, TypeOK
    <3> QED
      BY <2>3, <2>5, <3>1 DEF Classify
  <2>6. ASSUME NEW c \in Calls, Admit(c) PROVE UNCHANGED <<Lease, Finished>>
    BY <2>3, <2>6, AdmitRefines DEF Admit
  <2>7. ASSUME NEW c \in Calls, StoppedAsk(c) PROVE UNCHANGED <<Lease, Finished>>
    BY <2>1, <2>3, <2>7 DEF StoppedAsk
  <2>8. ASSUME NEW c \in Calls, AnswerPermission(c) PROVE UNCHANGED <<Lease, Finished>>
    BY <2>1, <2>3, <2>8 DEF AnswerPermission
  <2>9. ASSUME NEW c \in Calls, EndBody(c) PROVE UNCHANGED <<Lease, Finished>>
    <3>1. CASE Live(c)
      BY <2>3, <2>9, <3>1 DEF EndBody, IInv, BodyPlaces
    <3>2. CASE ~Live(c)
      BY <2>9, <3>2 DEF EndBody, Lease, Finished
    <3> QED
      BY <3>1, <3>2
  <2>10. CASE Abort
    BY <2>10 DEF Abort, Lease, Finished, IInv, BodyPlaces
  <2>11. CASE UNCHANGED <<pc, active, hazard>>
    BY <2>11 DEF Lease, Finished
  <2> QED
    BY <2>2, <2>4, <2>5, <2>6, <2>7, <2>8, <2>9, <2>10, <2>11
       DEF Next, Scheduler, Tool, IsolatedReady, Relink, Return, Returned, vars
<1> QED
  BY <1>1, <1>2, Inductive, PTL DEF Spec, AdmitsInOrder, Admission!Spec
=============================================================================
