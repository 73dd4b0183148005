-------------------------- MODULE MemoryIngest_proof --------------------------
(* Proofs about the writers of a wiki, for every number of ingests, agents,    *)
(* sessions and topics: nobody takes away what another one put on a page, what *)
(* a complete ingest found is on its pages and in the index, and the marker of *)
(* a session never goes back.                                                  *)
EXTENDS MemoryIngest, TLAPS

Written(f) == page[About(f)] # Nothing /\ f \in page[About(f)]
Listed(x) == row[x] = "active"
Busy(i) == pc[i] \notin {"idle", "over", "gone"}

(* A change under way has the wiki's lock, what it read is what is there, and  *)
(* it is about the page that it opened.                                        *)
ViewInv(p) ==
  view[p] # Nothing =>
    /\ Holds(p, Wiki) /\ on[p] \in Pages
    /\ pc[p] \in {"reserve", "page", "source", "sourceRow", "row", "mark", "replace", "created"}
    /\ view[p].row = row /\ (pc[p] # "created" => view[p].page = page[on[p]])
    /\ pc[p] \in {"reserve", "page"} => on[p] \in todo[p]
    /\ pc[p] \in {"source", "sourceRow", "mark"} => on[p] = SessionOf[p]

(* An ingest at work has its session's lock, so that no other one completes.   *)
HeldInv(i) ==
  /\ Busy(i) => Holds(i, SessionOf[i])
  /\ Busy(i) /\ pc[i] # "read" => best[SessionOf[i]] <= upto[i] /\ upto[i] <= events[SessionOf[i]]

(* From the session's page on: what was found about a topic that is not left   *)
(* to do is written and listed.                                                *)
ProgressInv(i) ==
  /\ pc[i] \in {"source", "sourceRow", "page", "row", "mark"} =>
       \A f \in found[i] : About(f) \notin todo[i] => Written(f) /\ Listed(About(f))
  /\ pc[i] = "row" => \A f \in found[i] : About(f) = on[i] => Written(f)
  /\ pc[i] \in {"page", "row", "mark"} => Listed(SessionOf[i])
  /\ pc[i] = "mark" => todo[i] = {}

Own(p) ==
  /\ ViewInv(p)
  /\ p \in Ingests => pc[p] # "replace" /\ HeldInv(p) /\ ProgressInv(p)
  /\ p \in Agents => pc[p] \in {"idle", "replace", "over", "gone"}
BestKnown == \A s \in Sessions : best[s] <= events[s]
IInv ==
  TypeOK /\ (\A p \in Writers : Own(p)) /\ BestKnown /\ CompleteIsWritten /\ CaptureNeverBack
-----------------------------------------------------------------------------
(* What a step may do to the wiki, and what it leaves to the other writers.    *)
Grows ==
  /\ \A x \in Pages : page[x] # Nothing => page'[x] # Nothing /\ page[x] \subseteq page'[x]
  /\ \A x \in Pages : Listed(x) => Listed(x)'
  /\ \A s \in Sessions : events[s] <= events'[s]
Apart(q) ==
  /\ pc'[q] = pc[q] /\ on'[q] = on[q] /\ view'[q] = view[q]
  /\ q \in Ingests => upto'[q] = upto[q] /\ found'[q] = found[q] /\ todo'[q] = todo[q]
  /\ \A r \in LockRoots : Holds(q, r) => Holds(q, r)'
  /\ view[q] # Nothing => UNCHANGED <<page, row>>
  /\ q \in Ingests /\ Busy(q) => best'[SessionOf[q]] = best[SessionOf[q]]

LEMMA Roots == Wiki \in LockRoots /\ \A s \in Sessions : s \in LockRoots /\ s # Wiki
BY IngestAssumption

LEMMA Topical ==
  ASSUME NEW f \in Facts
  PROVE  About(f) \in Topics /\ About(f) \in Pages
BY IngestAssumption DEF Facts, About, Pages

LEMMA OthersKeep ==
  ASSUME IInv, TypeOK', Grows, NEW q \in Writers, Apart(q)
  PROVE  Own(q)'
<1>1. Own(q)
  BY DEF IInv
<1>2. ViewInv(q)'
  BY <1>1, IngestAssumption, Roots DEF Own, ViewInv, Apart, Writers
<1>3. ASSUME q \in Ingests PROVE HeldInv(q)'
  <2>1. SessionOf[q] \in Sessions /\ SessionOf[q] \in LockRoots
    BY <1>3, IngestAssumption
  <2>2. /\ upto[q] \in Nat /\ best[SessionOf[q]] \in Nat /\ events[SessionOf[q]] \in Nat
        /\ events'[SessionOf[q]] \in Nat
    BY <1>3, <2>1, IngestAssumption DEF IInv, TypeOK
  <2> QED
    BY <1>1, <1>3, <2>1, <2>2 DEF Own, HeldInv, Apart, Grows, Busy
<1>4. ASSUME q \in Ingests PROVE ProgressInv(q)'
  <2>1. SessionOf[q] \in Pages
    BY <1>3, <1>4, IngestAssumption DEF Pages
  <2>2. /\ pc'[q] = pc[q] /\ on'[q] = on[q] /\ found'[q] = found[q] /\ todo'[q] = todo[q]
    BY <1>4 DEF Apart
  <2>3. \A f \in found[q] : About(f) \in Pages
    BY <1>4, Topical DEF IInv, TypeOK
  <2>4. \A f \in found[q] : /\ Written(f) => Written(f)'
                            /\ Listed(About(f)) => Listed(About(f))'
    BY <2>3 DEF Grows, Written, Listed, About
  <2>5. Listed(SessionOf[q]) => Listed(SessionOf[q])'
    BY <2>1 DEF Grows
  <2> QED
    BY <1>1, <1>4, <2>2, <2>4, <2>5 DEF Own, ProgressInv, About
<1> QED
  BY <1>1, <1>2, <1>3, <1>4 DEF Own, Apart

LEMMA CompleteKept ==
  ASSUME IInv, Grows, UNCHANGED kept
  PROVE  CompleteIsWritten'
<1> SUFFICES ASSUME NEW s \in Sessions, NEW f \in kept[s]
             PROVE  Written(f)' /\ Listed(About(f))' /\ Listed(s)'
  BY DEF CompleteIsWritten, Written, Listed
<1>1. About(f) \in Pages /\ s \in Pages
  BY Topical DEF IInv, TypeOK, Pages
<1>2. Written(f) /\ Listed(About(f)) /\ Listed(s)
  BY DEF IInv, CompleteIsWritten, Written, Listed
<1> QED
  BY <1>1, <1>2 DEF Grows, Written, Listed, About

(* A step of p that marks nothing.                                             *)
LEMMA StepKeeps ==
  ASSUME IInv, TypeOK', NEW p \in Writers, Own(p)', Grows, \A q \in Writers \ {p} : Apart(q),
         UNCHANGED history, \A s \in Sessions : capture'[s] \in {capture[s], Pending}
  PROVE  IInv'
<1>1. \A q \in Writers : Own(q)'
  BY OthersKeep
<1>2. BestKnown'
  <2> SUFFICES ASSUME NEW s \in Sessions PROVE best'[s] <= events'[s]
    BY DEF BestKnown
  <2>1. best'[s] = best[s] /\ best[s] <= events[s] /\ events[s] <= events'[s]
    BY DEF history, IInv, BestKnown, Grows
  <2>2. best[s] \in Nat /\ events[s] \in Nat /\ events'[s] \in Nat
    BY IngestAssumption DEF IInv, TypeOK
  <2> QED
    BY <2>1, <2>2
<1>3. CompleteIsWritten'
  BY CompleteKept DEF history
<1>4. CaptureNeverBack'
  BY DEF IInv, CaptureNeverBack, history
<1> QED
  BY <1>1, <1>2, <1>3, <1>4 DEF IInv
-----------------------------------------------------------------------------
(* The steps that leave the wiki as it is.                                     *)
LEMMA SubjectsOf ==
  ASSUME NEW p \in Writers, NEW x \in Subjects(p)
  PROVE  /\ pc[p] \in {"reserve", "page", "row", "source", "sourceRow", "mark", "replace"}
         /\ pc[p] \in {"reserve", "page"} => x \in todo[p]
         /\ pc[p] = "row" => x = on[p]
         /\ pc[p] \in {"source", "sourceRow", "mark"} => x = SessionOf[p]
         /\ pc[p] = "replace" => x = PageOf[p]
BY DEF Subjects

LEMMA OpenKeeps ==
  ASSUME IInv, NEW p \in Writers, NEW x \in Pages, Open(p, x)
  PROVE  IInv'
<1>1. TypeOK /\ Own(p)
  BY DEF IInv
<1>2. /\ UNCHANGED <<events, page, reserved, row, capture, pc, upto, found, todo, base, crashes,
                     kept, best>>
      /\ view[p] = Nothing /\ x \in Subjects(p) /\ lock[Wiki] = NoProc
      /\ lock' = [lock EXCEPT ![Wiki] = p] /\ on' = [on EXCEPT ![p] = x]
      /\ view' = [view EXCEPT ![p] = [page |-> page[x], row |-> row]]
  BY DEF Open, Acquire, Free, wiki, plan, history
<1>3. TypeOK'
  <2>1. [page |-> page[x], row |-> row]
          \in [page : Texts \cup {Nothing}, row : [Pages -> {Nothing, "planned", "active"}]]
    BY <1>1 DEF TypeOK
  <2>2. view' \in [Writers -> [page : Texts \cup {Nothing},
                     row : [Pages -> {Nothing, "planned", "active"}]] \cup {Nothing}]
    BY <1>1, <1>2, <2>1 DEF TypeOK
  <2> QED
    BY <1>1, <1>2, <2>2, Roots DEF TypeOK
<1>4. /\ on'[p] = x /\ view'[p].page = page[x] /\ view'[p].row = row /\ Holds(p, Wiki)'
  BY <1>1, <1>2, Roots DEF TypeOK, Holds
<1>5. ViewInv(p)'
  BY <1>2, <1>4, SubjectsOf DEF ViewInv
<1>6. ASSUME p \in Ingests PROVE HeldInv(p)' /\ ProgressInv(p)'
  <2>1. HeldInv(p) /\ ProgressInv(p) /\ SessionOf[p] \in Sessions
    BY <1>1, <1>6, IngestAssumption DEF Own
  <2>2. HeldInv(p)'
    BY <1>1, <1>2, <1>6, <2>1, Roots DEF HeldInv, Busy, Holds, TypeOK
  <2>3. pc[p] = "row" => on'[p] = on[p]
    BY <1>2, <1>4, SubjectsOf
  <2>4. ProgressInv(p)'
    BY <1>2, <2>1, <2>3 DEF ProgressInv, Written, Listed, About
  <2> QED
    BY <2>2, <2>4
<1>7. Own(p)'
  BY <1>1, <1>2, <1>5, <1>6 DEF Own
<1>8. ASSUME NEW q \in Writers \ {p} PROVE Apart(q)
  <2>1. \A r \in LockRoots : Holds(q, r) => Holds(q, r)'
    BY <1>1, <1>2, IngestAssumption, Roots DEF TypeOK, Holds
  <2> QED
    BY <1>1, <1>2, <2>1 DEF Apart, TypeOK
<1>9. Grows
  BY <1>1, <1>2, IngestAssumption DEF Grows, Listed, TypeOK
<1> QED
  BY <1>2, <1>3, <1>7, <1>8, <1>9, StepKeeps DEF history

(* An ingest goes on with its session's lock, or gives back what it holds.     *)
LEMMA EnterKeeps == ASSUME IInv, NEW i \in Ingests, Enter(i) PROVE IInv'
<1>1. TypeOK /\ Own(i) /\ i \in Writers /\ SessionOf[i] \in Sessions
  BY IngestAssumption DEF IInv, Writers
<1>2. /\ UNCHANGED <<events, page, reserved, row, capture, on, view, upto, found, todo, base,
                     crashes, kept, best>>
      /\ pc[i] = "idle" /\ pc' = [pc EXCEPT ![i] = "read"]
      /\ lock[SessionOf[i]] = NoProc /\ lock' = [lock EXCEPT ![SessionOf[i]] = i]
  BY DEF Enter, Acquire, Free, Goto, wiki, open, plan, history
<1>3. TypeOK'
  BY <1>1, <1>2, Roots DEF TypeOK, Stages, Changing
<1>4. view[i] = Nothing
  BY <1>1, <1>2 DEF Own, ViewInv
<1>5. Own(i)'
  <2>1. HeldInv(i)'
    BY <1>1, <1>2, Roots DEF HeldInv, Busy, Holds, TypeOK
  <2>2. ViewInv(i)' /\ ProgressInv(i)' /\ pc'[i] = "read"
    BY <1>1, <1>2, <1>4 DEF ViewInv, ProgressInv, TypeOK
  <2> QED
    BY <2>1, <2>2, IngestAssumption DEF Own
<1>6. ASSUME NEW q \in Writers \ {i} PROVE Apart(q)
  <2>1. \A r \in LockRoots : Holds(q, r) => Holds(q, r)'
    BY <1>1, <1>2, IngestAssumption, Roots DEF TypeOK, Holds
  <2> QED
    BY <1>1, <1>2, <2>1 DEF Apart, TypeOK
<1>7. Grows
  BY <1>1, <1>2, IngestAssumption DEF Grows, Listed, TypeOK
<1> QED
  BY <1>1, <1>2, <1>3, <1>5, <1>6, <1>7, StepKeeps DEF history

LEMMA ReadLogKeeps == ASSUME IInv, NEW i \in Ingests, ReadLog(i) PROVE IInv'
<1> DEFINE s == SessionOf[i]
<1>1. TypeOK /\ Own(i) /\ i \in Writers /\ s \in Sessions
  BY IngestAssumption DEF IInv, Writers
<1>2. /\ UNCHANGED <<events, page, reserved, row, capture, on, view, found, todo, base,
                     crashes, kept, best>>
      /\ pc[i] = "read"
  BY DEF ReadLog, wiki, open, history
<1>3. \/ pc' = [pc EXCEPT ![i] = "over"] /\ lock' = [lock EXCEPT ![s] = NoProc] /\ upto' = upto
      \/ /\ pc' = [pc EXCEPT ![i] = "distil"] /\ lock' = lock
         /\ upto' = [upto EXCEPT ![i] = events[s]]
  BY DEF ReadLog, Goto, Unlock
<1>4. Holds(i, s) /\ view[i] = Nothing
  BY <1>1, <1>2 DEF Own, HeldInv, ViewInv, Busy
<1>5. TypeOK'
  <2>1. pc' \in [Writers -> Stages] /\ lock' \in [LockRoots -> Writers \cup {NoProc}]
    BY <1>1, <1>3, Roots DEF TypeOK, Stages, Changing
  <2>2. upto' \in [Ingests -> 0..MaxLog]
    BY <1>1, <1>3 DEF TypeOK
  <2> QED
    BY <1>1, <1>2, <2>1, <2>2 DEF TypeOK
<1>6. Own(i)'
  <2>1. ViewInv(i)' /\ ProgressInv(i)' /\ pc'[i] \in {"over", "distil"}
    BY <1>1, <1>2, <1>3, <1>4 DEF ViewInv, ProgressInv, TypeOK
  <2>2. HeldInv(i)'
    <3>1. CASE pc'[i] = "over"
      BY <3>1 DEF HeldInv, Busy
    <3>2. CASE pc'[i] = "distil"
      <4>1. lock' = lock /\ upto'[i] = events[s]
        BY <1>1, <1>3, <3>2 DEF TypeOK
      <4>2. best[s] <= events[s] /\ events[s] \in Nat
        BY <1>1, IngestAssumption DEF IInv, BestKnown, TypeOK
      <4> QED
        BY <1>2, <1>4, <4>1, <4>2 DEF HeldInv, Holds
    <3> QED
      BY <2>1, <3>1, <3>2
  <2> QED
    BY <1>1, <2>1, <2>2, IngestAssumption DEF Own
<1>7. ASSUME NEW q \in Writers \ {i} PROVE Apart(q)
  <2>1. \A r \in LockRoots : Holds(q, r) => Holds(q, r)'
    BY <1>1, <1>3, <1>4, Roots DEF TypeOK, Holds
  <2>2. pc'[q] = pc[q]
    BY <1>1, <1>3 DEF TypeOK
  <2>3. q \in Ingests => upto'[q] = upto[q]
    BY <1>1, <1>3 DEF TypeOK
  <2> QED
    BY <1>2, <2>1, <2>2, <2>3 DEF Apart
<1>8. Grows
  BY <1>1, <1>2, IngestAssumption DEF Grows, Listed, TypeOK
<1> QED
  BY <1>1, <1>2, <1>5, <1>6, <1>7, <1>8, StepKeeps DEF history

LEMMA DistilKeeps == ASSUME IInv, NEW i \in Ingests, Distil(i) PROVE IInv'
<1>1. TypeOK /\ Own(i) /\ i \in Writers /\ SessionOf[i] \in Sessions
  BY IngestAssumption DEF IInv, Writers
<1>2. /\ UNCHANGED <<lock, events, page, reserved, row, capture, on, view, upto, base,
                     crashes, kept, best>>
      /\ pc[i] = "distil"
  BY DEF Distil, wiki, open, history
<1>3. PICK facts \in SUBSET {<<SessionOf[i], k>> : k \in 1..upto[i]} :
        /\ found' = [found EXCEPT ![i] = facts]
        /\ todo' = [todo EXCEPT ![i] = TargetsOf(facts)]
        /\ pc' = [pc EXCEPT ![i] = IF facts = {} THEN "source" ELSE "reserve"]
  BY DEF Distil, Goto
<1>4. facts \subseteq Facts
  <2>1. upto[i] \in 0..MaxLog
    BY <1>1 DEF TypeOK
  <2> QED
    BY <1>1, <2>1, IngestAssumption DEF Facts
<1>5. TargetsOf(facts) \subseteq Topics
  BY <1>4, Topical DEF TargetsOf
<1>6. TypeOK'
  BY <1>1, <1>2, <1>3, <1>4, <1>5 DEF TypeOK, Stages, Changing
<1>7. Own(i)'
  <2>1. view[i] = Nothing /\ pc'[i] \in {"source", "reserve"} /\ found'[i] = facts
        /\ todo'[i] = TargetsOf(facts)
    BY <1>1, <1>2, <1>3 DEF Own, ViewInv, TypeOK
  <2>2. ViewInv(i)'
    BY <1>2, <2>1 DEF ViewInv
  <2>3. HeldInv(i)'
    BY <1>1, <1>2, <2>1 DEF Own, HeldInv, Busy, Holds
  <2>4. \A f \in found'[i] : About(f) \in todo'[i]
    BY <2>1 DEF TargetsOf
  <2>5. ProgressInv(i)'
    BY <2>1, <2>4 DEF ProgressInv, About
  <2> QED
    BY <1>1, <2>1, <2>2, <2>3, <2>5, IngestAssumption DEF Own
<1>8. ASSUME NEW q \in Writers \ {i} PROVE Apart(q)
  BY <1>1, <1>2, <1>3 DEF Apart, TypeOK, Holds
<1>9. Grows
  BY <1>1, <1>2, IngestAssumption DEF Grows, Listed, TypeOK
<1> QED
  BY <1>1, <1>2, <1>6, <1>7, <1>8, <1>9, StepKeeps DEF history

(* A writer stops: it is over or dead, and gave back its own locks, or kept    *)
(* them all.                                                                   *)
LEMMA StopKeeps ==
  ASSUME IInv, NEW p \in Writers, NEW end \in {"over", "gone"}, pc' = [pc EXCEPT ![p] = end],
         view' = [view EXCEPT ![p] = Nothing], lock' = lock \/ ReleaseAll(p),
         UNCHANGED <<events, page, reserved, row, capture, on, upto, found, todo, base, kept, best>>,
         crashes' \in Nat
  PROVE  IInv'
<1>1. TypeOK
  BY DEF IInv
<1>2. lock' \in [LockRoots -> Writers \cup {NoProc}]
  BY <1>1 DEF TypeOK, ReleaseAll, Holds
<1>3. TypeOK'
  BY <1>1, <1>2 DEF TypeOK, Stages
<1>4. pc'[p] = end /\ view'[p] = Nothing
  BY <1>1 DEF TypeOK
<1>5. Own(p)'
  BY <1>4 DEF Own, ViewInv, HeldInv, Busy, ProgressInv
<1>6. ASSUME NEW q \in Writers \ {p} PROVE Apart(q)
  <2>1. \A r \in LockRoots : Holds(q, r) => Holds(q, r)'
    BY <1>1 DEF TypeOK, ReleaseAll, Holds
  <2> QED
    BY <1>1, <2>1 DEF Apart, TypeOK
<1>7. Grows
  BY <1>1, IngestAssumption DEF Grows, Listed, TypeOK
<1> QED
  BY <1>3, <1>5, <1>6, <1>7, StepKeeps DEF history

LEMMA CrashKeeps == ASSUME IInv, NEW p \in Writers, Crash(p) PROVE IInv'
<1>1. crashes' \in Nat
  BY DEF Crash, IInv, TypeOK
<1> QED
  BY <1>1, StopKeeps DEF Crash, Goto, wiki, plan, history

LEMMA FailsKeeps == ASSUME IInv, NEW i \in Ingests, IngestFails(i) PROVE IInv'
<1>1. crashes' \in Nat /\ i \in Writers
  BY DEF IngestFails, IInv, TypeOK, Writers
<1> QED
  BY <1>1, StopKeeps DEF IngestFails, Goto, wiki, plan, history

(* memory_write reads without a lock, and gives the lock back on a conflict.   *)
LEMMA AgentKeeps ==
  ASSUME IInv, NEW a \in Agents, ReadPage(a) \/ Conflict(a)
  PROVE  IInv'
<1>1. TypeOK /\ Own(a) /\ a \in Writers /\ a \notin Ingests
  BY IngestAssumption DEF IInv, Writers
<1>2. /\ UNCHANGED <<events, page, reserved, row, capture, on, upto, found, todo, crashes,
                     kept, best>>
      /\ \E stage \in {"idle", "replace"} : pc' = [pc EXCEPT ![a] = stage]
  BY DEF ReadPage, Conflict, Close, Goto, wiki, open, plan, history
<1>3. \/ lock' = lock /\ view' = view /\ view[a] = Nothing
      \/ /\ lock' = [lock EXCEPT ![Wiki] = NoProc] /\ view' = [view EXCEPT ![a] = Nothing]
         /\ Holds(a, Wiki)
  <2>1. CASE ReadPage(a)
    BY <1>1, <2>1 DEF ReadPage, Own, ViewInv, open
  <2>2. CASE Conflict(a)
    BY <1>1, <2>2 DEF Conflict, Opened, Close, Unlock, Own, ViewInv
  <2> QED
    BY <2>1, <2>2
<1>4. base' \in [Agents -> Texts \cup {Nothing}]
  <2>1. PageOf[a] \in Pages
    BY IngestAssumption DEF Pages
  <2> QED
    BY <1>1, <2>1 DEF ReadPage, Conflict, TypeOK
<1>5. TypeOK'
  <2>1. lock' \in [LockRoots -> Writers \cup {NoProc}]
    BY <1>1, <1>3, Roots DEF TypeOK
  <2>2. pc' \in [Writers -> Stages]
    BY <1>1, <1>2 DEF TypeOK, Stages
  <2>3. view' \in [Writers -> [page : Texts \cup {Nothing},
                     row : [Pages -> {Nothing, "planned", "active"}]] \cup {Nothing}]
    BY <1>1, <1>3 DEF TypeOK
  <2> QED
    BY <1>1, <1>2, <1>4, <2>1, <2>2, <2>3 DEF TypeOK
<1>6. Own(a)'
  <2>1. view'[a] = Nothing /\ pc'[a] \in {"idle", "replace"}
    BY <1>1, <1>2, <1>3 DEF TypeOK
  <2> QED
    BY <1>1, <2>1 DEF Own, ViewInv
<1>7. ASSUME NEW q \in Writers \ {a} PROVE Apart(q)
  <2>1. \A r \in LockRoots : Holds(q, r) => Holds(q, r)'
    BY <1>1, <1>3, Roots DEF TypeOK, Holds
  <2>2. view'[q] = view[q] /\ pc'[q] = pc[q]
    BY <1>1, <1>2, <1>3 DEF TypeOK
  <2> QED
    BY <1>2, <2>1, <2>2 DEF Apart
<1>8. Grows
  BY <1>1, <1>2, IngestAssumption DEF Grows, Listed, TypeOK
<1> QED
  BY <1>1, <1>2, <1>5, <1>6, <1>7, <1>8, StepKeeps DEF history

(* A log grows; the operator removes the lock of a dead process.               *)
LEMMA AroundKeeps ==
  ASSUME IInv, (\E s \in Sessions : Grow(s)) \/ (\E r \in LockRoots : ClearLock(r))
  PROVE  IInv'
<1>1. TypeOK
  BY DEF IInv
<1>2. UNCHANGED <<page, reserved, row, capture, pc, on, view, upto, found, todo, base, crashes,
                  kept, best>>
  BY DEF Grow, ClearLock, wiki, plan, open, history
<1>3. events' \in [Sessions -> 0..MaxLog] /\ \A s \in Sessions : events[s] <= events'[s]
  <2>1. \A s \in Sessions : events[s] \in Nat
    BY <1>1, IngestAssumption DEF TypeOK
  <2>2. CASE \E s \in Sessions : Grow(s)
    <3>1. PICK s \in Sessions : events[s] < MaxLog /\ events' = [events EXCEPT ![s] = @ + 1]
      BY <2>2 DEF Grow
    <3>2. events[s] + 1 \in 0..MaxLog
      BY <2>1, <3>1, IngestAssumption
    <3>3. events' \in [Sessions -> 0..MaxLog]
      BY <1>1, <3>1, <3>2 DEF TypeOK
    <3>4. ASSUME NEW t \in Sessions PROVE events[t] <= events'[t]
      BY <1>1, <2>1, <3>1 DEF TypeOK
    <3> QED
      BY <3>3, <3>4
  <2>3. CASE \E r \in LockRoots : ClearLock(r)
    <3>1. events' = events
      BY <2>3 DEF ClearLock
    <3> QED
      BY <1>1, <2>1, <3>1 DEF TypeOK
  <2> QED
    BY <2>2, <2>3
<1>4. /\ lock' \in [LockRoots -> Writers \cup {NoProc}]
      /\ \A q \in Writers : pc[q] # "gone" =>
           \A r \in LockRoots : Holds(q, r) => Holds(q, r)'
  BY <1>1 DEF Grow, ClearLock, RemoveLock, Dead, TypeOK, Holds
<1>5. TypeOK'
  BY <1>1, <1>2, <1>3, <1>4 DEF TypeOK
<1>6. Grows
  BY <1>1, <1>2, <1>3 DEF Grows, Listed
<1>7. ASSUME NEW q \in Writers PROVE Own(q)'
  <2>1. CASE pc[q] # "gone"
    <3>1. Apart(q)
      BY <1>2, <1>4, <2>1 DEF Apart
    <3> QED
      BY <1>5, <1>6, <3>1, OthersKeep
  <2>2. CASE pc[q] = "gone"
    <3>1. view[q] = Nothing
      BY <2>2 DEF IInv, Own, ViewInv
    <3> QED
      BY <1>2, <2>2, <3>1 DEF IInv, Own, ViewInv, HeldInv, Busy, ProgressInv
  <2> QED
    BY <2>1, <2>2
<1>8. BestKnown'
  <2> SUFFICES ASSUME NEW s \in Sessions PROVE best'[s] <= events'[s]
    BY DEF BestKnown
  <2>1. best'[s] = best[s] /\ best[s] <= events[s] /\ events[s] <= events'[s]
    BY <1>2, <1>3 DEF IInv, BestKnown
  <2>2. best[s] \in Nat /\ events[s] \in Nat /\ events'[s] \in Nat
    BY <1>1, <1>3, IngestAssumption DEF TypeOK
  <2> QED
    BY <2>1, <2>2
<1>9. CompleteIsWritten'
  BY <1>2, <1>6, CompleteKept
<1>10. CaptureNeverBack'
  BY <1>2 DEF IInv, CaptureNeverBack
<1> QED
  BY <1>5, <1>7, <1>8, <1>9, <1>10 DEF IInv
-----------------------------------------------------------------------------
(* The steps that change the wiki, each with its lock.                         *)
LEMMA ViewAlone ==
  ASSUME IInv, NEW p \in Writers, view[p] # Nothing, NEW q \in Writers \ {p}
  PROVE  view[q] = Nothing
BY DEF IInv, Own, ViewInv, Holds

LEMMA CloseKeeps ==
  ASSUME IInv, NEW p \in Writers, NEW stage \in Stages, view[p] # Nothing, Close(p, stage)
  PROVE  /\ lock' \in [LockRoots -> Writers \cup {NoProc}] /\ pc' \in [Writers -> Stages]
         /\ view' \in [Writers -> [page : Texts \cup {Nothing},
                row : [Pages -> {Nothing, "planned", "active"}]] \cup {Nothing}]
         /\ on' = on /\ pc'[p] = stage /\ view'[p] = Nothing
         /\ \A s \in Sessions : Holds(p, s) => Holds(p, s)'
         /\ \A q \in Writers \ {p} : /\ pc'[q] = pc[q] /\ view'[q] = Nothing /\ view[q] = Nothing
                                     /\ \A r \in LockRoots : Holds(q, r) => Holds(q, r)'
<1>1. TypeOK /\ Holds(p, Wiki)
  BY DEF IInv, Own, ViewInv
<1>2. /\ lock' = [lock EXCEPT ![Wiki] = NoProc] /\ pc' = [pc EXCEPT ![p] = stage]
      /\ view' = [view EXCEPT ![p] = Nothing] /\ on' = on
  BY DEF Close, Unlock, Goto
<1>3. /\ lock' \in [LockRoots -> Writers \cup {NoProc}] /\ pc' \in [Writers -> Stages]
      /\ pc'[p] = stage /\ view'[p] = Nothing
  BY <1>1, <1>2, Roots DEF TypeOK
<1>4. view' \in [Writers -> [page : Texts \cup {Nothing},
                row : [Pages -> {Nothing, "planned", "active"}]] \cup {Nothing}]
  BY <1>1, <1>2 DEF TypeOK
<1>5. \A s \in Sessions : Holds(p, s) => Holds(p, s)'
  BY <1>1, <1>2, Roots DEF TypeOK, Holds
<1>6. ASSUME NEW q \in Writers \ {p}
      PROVE  /\ pc'[q] = pc[q] /\ view'[q] = Nothing /\ view[q] = Nothing
             /\ \A r \in LockRoots : Holds(q, r) => Holds(q, r)'
  <2>1. view[q] = Nothing
    BY ViewAlone
  <2>2. \A r \in LockRoots : Holds(q, r) => Holds(q, r)'
    BY <1>1, <1>2, Roots DEF TypeOK, Holds
  <2> QED
    BY <1>1, <1>2, <2>1, <2>2 DEF TypeOK
<1> QED
  BY <1>2, <1>3, <1>4, <1>5, <1>6

(* What a change makes of a page and of the index only ever adds to them.      *)
PageGrows(p) ==
  page' = page \/ \E text \in Texts : /\ page' = [page EXCEPT ![on[p]] = text]
                                      /\ page[on[p]] # Nothing => page[on[p]] \subseteq text
RowGrows(p) ==
  row' = row \/ \E status \in {"planned", "active"} :
                  /\ row' = [row EXCEPT ![on[p]] = status]
                  /\ row[on[p]] = "active" => status = "active"

LEMMA ChangeGrows ==
  ASSUME IInv, NEW p \in Writers, view[p] # Nothing, PageGrows(p), RowGrows(p), UNCHANGED events
  PROVE  /\ Grows /\ page' \in [Pages -> Texts \cup {Nothing}]
         /\ row' \in [Pages -> {Nothing, "planned", "active"}]
<1>1. TypeOK /\ on[p] \in Pages
  BY DEF IInv, Own, ViewInv
<1>2. /\ page' \in [Pages -> Texts \cup {Nothing}]
      /\ \A x \in Pages : page[x] # Nothing => page'[x] # Nothing /\ page[x] \subseteq page'[x]
  <2>1. CASE page' = page
    BY <1>1, <2>1 DEF TypeOK
  <2>2. CASE page' # page
    <3>1. PICK text \in Texts : /\ page' = [page EXCEPT ![on[p]] = text]
                                /\ page[on[p]] # Nothing => page[on[p]] \subseteq text
      BY <2>2 DEF PageGrows
    <3>2. text # Nothing
      BY IngestAssumption
    <3> QED
      BY <1>1, <3>1, <3>2 DEF TypeOK
  <2> QED
    BY <2>1, <2>2
<1>3. /\ row' \in [Pages -> {Nothing, "planned", "active"}]
      /\ \A x \in Pages : Listed(x) => Listed(x)'
  BY <1>1 DEF RowGrows, Listed, TypeOK
<1>4. \A s \in Sessions : events[s] <= events'[s]
  BY <1>1, IngestAssumption DEF TypeOK
<1> QED
  BY <1>2, <1>3, <1>4 DEF Grows

LEMMA ChangeKeeps ==
  ASSUME IInv, NEW p \in Writers, NEW stage \in Stages, view[p] # Nothing, Close(p, stage),
         PageGrows(p), RowGrows(p), reserved' \subseteq Topics,
         todo' \in [Ingests -> SUBSET Topics], \A q \in Ingests : q # p => todo'[q] = todo[q],
         capture' \in [Sessions -> 0..Pending],
         \A s \in Sessions : capture'[s] \in {capture[s], Pending},
         UNCHANGED <<events, upto, found, base, crashes, kept, best>>,
         p \in Ingests => stage # "replace" /\ ProgressInv(p)',
         p \in Agents => stage \in {"idle", "over"}
  PROVE  IInv'
<1>1. TypeOK /\ Own(p)
  BY DEF IInv
<1>2. Grows /\ page' \in [Pages -> Texts \cup {Nothing}]
            /\ row' \in [Pages -> {Nothing, "planned", "active"}]
  BY ChangeGrows
<1>3. TypeOK'
  BY <1>1, <1>2, CloseKeeps DEF TypeOK
<1>4. pc'[p] = stage /\ view'[p] = Nothing
  BY CloseKeeps
<1>5. ASSUME p \in Ingests PROVE HeldInv(p)'
  <2>1. SessionOf[p] \in Sessions
    BY <1>5, IngestAssumption
  <2>2. Busy(p) /\ pc[p] # "read" /\ HeldInv(p)
    BY <1>1, <1>5 DEF Own, ViewInv, Busy
  <2>3. Holds(p, SessionOf[p])'
    BY <2>1, <2>2, CloseKeeps DEF HeldInv
  <2> QED
    BY <2>2, <2>3 DEF HeldInv
<1>6. Own(p)'
  BY <1>4, <1>5 DEF Own, ViewInv
<1>7. ASSUME NEW q \in Writers \ {p} PROVE Apart(q)
  BY CloseKeeps DEF Apart
<1> QED
  BY <1>2, <1>3, <1>6, <1>7, StepKeeps DEF history

(* What the change of an ingest knows when its lock is given back.             *)
LEMMA ViewOf ==
  ASSUME IInv, NEW p \in Writers, view[p] # Nothing
  PROVE  /\ TypeOK /\ Own(p) /\ on[p] \in Pages /\ view[p].row = row
         /\ pc[p] # "created" => view[p].page = page[on[p]]
         /\ pc[p] # "created" => /\ Body(p) \in Texts
                                 /\ page[on[p]] # Nothing => page[on[p]] = Body(p)
         /\ pc[p] \in {"source", "sourceRow", "mark"} => on[p] = SessionOf[p]
         /\ p \in Ingests => ProgressInv(p) /\ todo[p] \in SUBSET Topics
<1>1. /\ TypeOK /\ Own(p) /\ on[p] \in Pages /\ view[p].row = row
      /\ pc[p] # "created" => view[p].page = page[on[p]]
      /\ pc[p] \in {"source", "sourceRow", "mark"} => on[p] = SessionOf[p]
  BY DEF IInv, Own, ViewInv
<1>2. p \in Ingests => ProgressInv(p) /\ todo[p] \in SUBSET Topics
  BY <1>1 DEF Own, TypeOK
<1>3. {} \in Texts /\ page[on[p]] \in Texts \cup {Nothing}
  BY <1>1 DEF TypeOK, Texts
<1>4. pc[p] # "created" => /\ Body(p) \in Texts
                           /\ page[on[p]] # Nothing => page[on[p]] = Body(p)
  BY <1>1, <1>3 DEF Body
<1> QED
  BY <1>1, <1>2, <1>4

LEMMA AddFactsGrows ==
  ASSUME IInv, NEW p \in Writers, view[p] # Nothing, pc[p] # "created",
         NEW facts \in SUBSET Facts, AddFacts(p, facts)
  PROVE  /\ PageGrows(p) /\ page'[on[p]] = Body(p) \cup facts /\ page'[on[p]] # Nothing
         /\ page' = [page EXCEPT ![on[p]] = Body(p) \cup facts]
<1>1. Body(p) \cup facts \in Texts
  BY ViewOf DEF Texts
<1>2. page' = [page EXCEPT ![on[p]] = Body(p) \cup facts]
  BY DEF AddFacts
<1>3. PageGrows(p)
  BY <1>1, <1>2, ViewOf DEF PageGrows
<1>4. page'[on[p]] = Body(p) \cup facts
  BY <1>2, ViewOf DEF TypeOK
<1> QED
  BY <1>1, <1>2, <1>3, <1>4, IngestAssumption

LEMMA UpsertRowGrows ==
  ASSUME IInv, NEW p \in Writers, view[p] # Nothing, NEW status \in {"planned", "active"},
         UpsertRow(p, status), row[on[p]] = "active" => status = "active"
  PROVE  RowGrows(p) /\ row'[on[p]] = status
<1>1. row' = [row EXCEPT ![on[p]] = status]
  BY ViewOf DEF UpsertRow
<1> QED
  BY <1>1, ViewOf DEF RowGrows, TypeOK

LEMMA CreatePageKeeps ==
  ASSUME IInv, NEW i \in Ingests, CreatePage(i)
  PROVE  IInv' /\ Grows
<1>1. i \in Writers /\ view[i] # Nothing /\ pc[i] = "reserve"
  BY DEF CreatePage, Opened, Writers
<1>2. TypeOK /\ Own(i)
  BY <1>1, ViewOf
<1>3. /\ UNCHANGED <<lock, events, row, capture, on, view, upto, found, todo, base, crashes,
                     kept, best>>
      /\ pc' = [pc EXCEPT ![i] = "created"]
  BY DEF CreatePage, Goto, open, plan, history
<1>4. PageGrows(i)
  <2>1. CASE page[on[i]] = Nothing
    <3>1. AddFacts(i, {}) /\ {} \in SUBSET Facts
      BY <2>1 DEF CreatePage
    <3> QED
      BY <1>1, <3>1, AddFactsGrows
  <2>2. CASE page[on[i]] # Nothing
    BY <2>2 DEF CreatePage, PageGrows
  <2> QED
    BY <2>1, <2>2
<1>5. Grows /\ page' \in [Pages -> Texts \cup {Nothing}]
  BY <1>1, <1>3, <1>4, ChangeGrows DEF RowGrows
<1>6. reserved' \subseteq Topics
  <2>1. view[i] # Nothing => on[i] \in Pages
    BY <1>1, ViewOf
  <2>2. on[i] \in Topics
    BY <1>1, <1>2 DEF Own, ViewInv, TypeOK
  <2> QED
    BY <1>2, <2>2 DEF CreatePage, TypeOK
<1>7. TypeOK'
  BY <1>2, <1>3, <1>5, <1>6 DEF TypeOK, Stages, Changing
<1>8. Own(i)'
  <2>1. pc'[i] = "created"
    BY <1>1, <1>2, <1>3 DEF TypeOK
  <2>2. ViewInv(i)'
    BY <1>1, <1>2, <1>3, <2>1 DEF Own, ViewInv, Holds
  <2>3. HeldInv(i)' /\ ProgressInv(i)'
    BY <1>1, <1>2, <1>3, <2>1 DEF Own, HeldInv, Busy, Holds, ProgressInv
  <2> QED
    BY <2>1, <2>2, <2>3, IngestAssumption DEF Own
<1>9. ASSUME NEW q \in Writers \ {i} PROVE Apart(q)
  BY <1>1, <1>2, <1>3, ViewAlone DEF Apart, TypeOK, Holds
<1> QED
  BY <1>1, <1>3, <1>5, <1>7, <1>8, <1>9, StepKeeps DEF history

LEMMA FoundStays ==
  ASSUME IInv, NEW i \in Ingests, Grows
  PROVE  /\ \A f \in found[i] : /\ f \in Facts /\ About(f) \in Topics /\ About(f) \in Pages
                                /\ Written(f) => Written(f)'
                                /\ Listed(About(f)) => Listed(About(f))'
         /\ Listed(SessionOf[i]) => Listed(SessionOf[i])'
         /\ TargetsOf(found[i]) \subseteq Topics
<1>1. \A f \in found[i] : f \in Facts /\ About(f) \in Topics /\ About(f) \in Pages
  BY Topical DEF IInv, TypeOK
<1>2. \A f \in found[i] : /\ Written(f) => Written(f)'
                          /\ Listed(About(f)) => Listed(About(f))'
  BY <1>1 DEF Grows, Written, Listed, About
<1>3. SessionOf[i] \in Pages
  BY IngestAssumption DEF Pages
<1>4. TargetsOf(found[i]) \subseteq Topics
  BY <1>1 DEF TargetsOf
<1> QED
  BY <1>1, <1>2, <1>3, <1>4 DEF Grows

LEMMA CreateRowKeeps == ASSUME IInv, NEW i \in Ingests, CreateRow(i) PROVE IInv'
<1> DEFINE rest == todo[i] \ {on[i]}
           status == Claimed(row[on[i]])
           stage == IF rest = {} THEN "source" ELSE "reserve"
<1>1. i \in Writers /\ i \notin Agents /\ view[i] # Nothing /\ pc[i] = "created"
  BY IngestAssumption DEF CreateRow, Opened, Writers
<1>2. /\ TypeOK /\ on[i] \in Pages /\ view[i].row = row /\ todo[i] \in SUBSET Topics
  BY <1>1, ViewOf
<1>3. /\ UNCHANGED <<events, page, reserved, capture, upto, found, base, crashes, kept, best>>
      /\ todo' = [todo EXCEPT ![i] = IF rest = {} THEN TargetsOf(found[i]) ELSE rest]
      /\ Close(i, stage)
  BY DEF CreateRow, history
<1>4. UpsertRow(i, status)
  BY <1>2 DEF CreateRow
<1>5. status \in {"planned", "active"} /\ (row[on[i]] = "active" => status = "active")
  BY <1>2, IngestAssumption DEF TypeOK, Claimed
<1>6. RowGrows(i) /\ PageGrows(i)
  BY <1>1, <1>3, <1>4, <1>5, UpsertRowGrows DEF PageGrows
<1>7. Grows /\ stage \in Stages
  BY <1>1, <1>3, <1>6, ChangeGrows DEF Stages, Changing
<1>8. /\ todo' \in [Ingests -> SUBSET Topics] /\ \A q \in Ingests : q # i => todo'[q] = todo[q]
      /\ todo'[i] = IF rest = {} THEN TargetsOf(found[i]) ELSE rest
  BY <1>2, <1>3, <1>7, FoundStays DEF TypeOK
<1>9. ProgressInv(i)'
  <2>1. pc'[i] = stage /\ found'[i] = found[i]
    BY <1>1, <1>3, <1>7, CloseKeeps
  <2>2. rest = {} => \A f \in found[i] : About(f) \in todo'[i]
    BY <1>8 DEF TargetsOf
  <2> QED
    BY <2>1, <2>2 DEF ProgressInv, About
<1>10. /\ reserved' \subseteq Topics /\ capture' \in [Sessions -> 0..Pending]
       /\ \A s \in Sessions : capture'[s] \in {capture[s], Pending}
  BY <1>2, <1>3 DEF TypeOK
<1>11. stage # "replace"
  OBVIOUS
<1> HIDE DEF stage
<1> QED
  BY <1>1, <1>3, <1>6, <1>7, <1>8, <1>9, <1>10, <1>11, ChangeKeeps

LEMMA WriteSourceKeeps ==
  ASSUME IInv, NEW i \in Ingests, WriteSource(i)
  PROVE  IInv' /\ Grows
<1>1. i \in Writers /\ i \notin Agents /\ view[i] # Nothing /\ pc[i] = "source"
  BY IngestAssumption DEF WriteSource, Opened, Writers
<1>2. TypeOK /\ SessionOf[i] \in Sessions /\ ProgressInv(i)
  BY <1>1, ViewOf, IngestAssumption
<1>3. /\ UNCHANGED <<events, reserved, row, upto, found, todo, base, crashes, kept, best>>
      /\ Close(i, "sourceRow") /\ capture' = [capture EXCEPT ![SessionOf[i]] = Pending]
      /\ AddFacts(i, {}) /\ {} \in SUBSET Facts
  BY DEF WriteSource, plan, history
<1>4. RowGrows(i) /\ PageGrows(i)
  BY <1>1, <1>3, AddFactsGrows DEF RowGrows
<1>5. Grows /\ "sourceRow" \in Stages
  BY <1>1, <1>3, <1>4, ChangeGrows DEF Stages, Changing
<1>6. ProgressInv(i)'
  <2>1. pc'[i] = "sourceRow"
    BY <1>1, <1>3, <1>5, CloseKeeps
  <2>2. \A f \in found[i] : About(f) \notin todo[i] => Written(f)' /\ Listed(About(f))'
    BY <1>1, <1>2, <1>5, FoundStays DEF ProgressInv
  <2> QED
    BY <1>3, <2>1, <2>2 DEF ProgressInv, About
<1>7. Pending \in 0..Pending
  BY IngestAssumption DEF Pending
<1>8. /\ reserved' \subseteq Topics /\ capture' \in [Sessions -> 0..Pending]
      /\ \A s \in Sessions : capture'[s] \in {capture[s], Pending}
      /\ todo' \in [Ingests -> SUBSET Topics] /\ \A q \in Ingests : q # i => todo'[q] = todo[q]
  BY <1>2, <1>3, <1>7 DEF TypeOK
<1> QED
  BY <1>1, <1>3, <1>4, <1>5, <1>6, <1>8, ChangeKeeps

LEMMA WriteSourceRowKeeps == ASSUME IInv, NEW i \in Ingests, WriteSourceRow(i) PROVE IInv'
<1> DEFINE stage == IF todo[i] = {} THEN "mark" ELSE "page"
<1>1. i \in Writers /\ i \notin Agents /\ view[i] # Nothing /\ pc[i] = "sourceRow"
  BY IngestAssumption DEF WriteSourceRow, Opened, Writers
<1>2. TypeOK /\ on[i] = SessionOf[i] /\ ProgressInv(i)
  BY <1>1, ViewOf
<1>3. /\ UNCHANGED <<events, page, reserved, capture, upto, found, todo, base, crashes, kept, best>>
      /\ Close(i, stage) /\ UpsertRow(i, "active")
  BY DEF WriteSourceRow, plan, history
<1>4. RowGrows(i) /\ PageGrows(i) /\ Listed(SessionOf[i])'
  BY <1>1, <1>2, <1>3, UpsertRowGrows DEF PageGrows, Listed
<1>5. Grows /\ stage \in Stages
  BY <1>1, <1>3, <1>4, ChangeGrows DEF Stages, Changing
<1>6. ProgressInv(i)'
  <2>1. pc'[i] = stage
    BY <1>1, <1>3, <1>5, CloseKeeps
  <2>2. \A f \in found[i] : About(f) \notin todo[i] => Written(f)' /\ Listed(About(f))'
    BY <1>1, <1>2, <1>5, FoundStays DEF ProgressInv
  <2>3. pc'[i] = "mark" => todo[i] = {}
    BY <2>1
  <2>4. pc'[i] # "row"
    BY <2>1
  <2> QED
    BY <1>3, <1>4, <2>2, <2>3, <2>4 DEF ProgressInv, About
<1>7. /\ reserved' \subseteq Topics /\ capture' \in [Sessions -> 0..Pending]
      /\ \A s \in Sessions : capture'[s] \in {capture[s], Pending}
      /\ todo' \in [Ingests -> SUBSET Topics] /\ \A q \in Ingests : q # i => todo'[q] = todo[q]
  BY <1>2, <1>3 DEF TypeOK
<1>8. stage # "replace"
  OBVIOUS
<1> HIDE DEF stage
<1> QED
  BY <1>1, <1>3, <1>4, <1>5, <1>6, <1>7, <1>8, ChangeKeeps

LEMMA WritePageKeeps ==
  ASSUME IInv, NEW i \in Ingests, WritePage(i)
  PROVE  IInv' /\ Grows
<1> DEFINE new == {f \in found[i] : About(f) = on[i]}
<1>1. i \in Writers /\ i \notin Agents /\ view[i] # Nothing /\ pc[i] = "page"
  BY IngestAssumption DEF WritePage, Opened, Writers
<1>2. TypeOK /\ on[i] \in Pages /\ ProgressInv(i)
  BY <1>1, ViewOf
<1>3. /\ UNCHANGED <<events, row, capture, upto, found, todo, base, crashes, kept, best>>
      /\ Close(i, "row") /\ AddFacts(i, new) /\ reserved' = reserved \ {on[i]}
  BY DEF WritePage, plan, history
<1>4. new \in SUBSET Facts
  BY <1>2 DEF TypeOK
<1>5. RowGrows(i) /\ PageGrows(i)
  BY <1>1, <1>3, <1>4, AddFactsGrows DEF RowGrows
<1>6. Grows /\ "row" \in Stages
  BY <1>1, <1>3, <1>5, ChangeGrows DEF Stages, Changing
<1>7. ProgressInv(i)'
  <2>1. pc'[i] = "row" /\ on' = on
    BY <1>1, <1>3, <1>6, CloseKeeps
  <2>2. \A f \in found[i] : About(f) \notin todo[i] => Written(f)' /\ Listed(About(f))'
    BY <1>1, <1>2, <1>6, FoundStays DEF ProgressInv
  <2>3. Listed(SessionOf[i])'
    BY <1>1, <1>2, <1>6, FoundStays DEF ProgressInv
  <2>4. \A f \in found[i] : About(f) = on[i] => Written(f)'
    <3>1. page'[on[i]] = Body(i) \cup new /\ page'[on[i]] # Nothing
      BY <1>1, <1>3, <1>4, AddFactsGrows
    <3> QED
      BY <3>1 DEF Written, About
  <2> QED
    BY <1>3, <2>1, <2>2, <2>3, <2>4 DEF ProgressInv, About
<1>8. /\ reserved' \subseteq Topics /\ capture' \in [Sessions -> 0..Pending]
      /\ \A s \in Sessions : capture'[s] \in {capture[s], Pending}
      /\ todo' \in [Ingests -> SUBSET Topics] /\ \A q \in Ingests : q # i => todo'[q] = todo[q]
  BY <1>2, <1>3 DEF TypeOK
<1> QED
  BY <1>1, <1>3, <1>5, <1>6, <1>7, <1>8, ChangeKeeps

LEMMA WriteRowKeeps == ASSUME IInv, NEW i \in Ingests, WriteRow(i) PROVE IInv'
<1> DEFINE rest == todo[i] \ {on[i]}
           stage == IF rest = {} THEN "mark" ELSE "page"
<1>1. i \in Writers /\ i \notin Agents /\ view[i] # Nothing /\ pc[i] = "row"
  BY IngestAssumption DEF WriteRow, Opened, Writers
<1>2. TypeOK /\ on[i] \in Pages /\ ProgressInv(i)
  BY <1>1, ViewOf
<1>3. /\ UNCHANGED <<events, page, reserved, capture, upto, found, base, crashes, kept, best>>
      /\ Close(i, stage) /\ UpsertRow(i, "active") /\ todo' = [todo EXCEPT ![i] = rest]
  BY DEF WriteRow, history
<1>4. RowGrows(i) /\ PageGrows(i) /\ Listed(on[i])'
  <2>1. RowGrows(i) /\ row'[on[i]] = "active"
    BY <1>1, <1>3, UpsertRowGrows
  <2>2. on' = on
    BY <1>3 DEF Close
  <2> QED
    BY <1>3, <2>1, <2>2 DEF PageGrows, Listed
<1>5. Grows /\ stage \in Stages
  BY <1>1, <1>3, <1>4, ChangeGrows DEF Stages, Changing
<1>6. /\ todo' \in [Ingests -> SUBSET Topics] /\ \A q \in Ingests : q # i => todo'[q] = todo[q]
      /\ todo'[i] = rest
  BY <1>2, <1>3 DEF TypeOK
<1>7. ProgressInv(i)'
  <2>1. pc'[i] = stage
    BY <1>1, <1>3, <1>5, CloseKeeps
  <2>2. ASSUME NEW f \in found[i], About(f) \notin rest PROVE Written(f)' /\ Listed(About(f))'
    <3>1. CASE About(f) = on[i]
      <4>1. Written(f)'
        BY <1>1, <1>2, <1>5, <3>1, FoundStays DEF ProgressInv
      <4>2. on' = on
        BY <1>3 DEF Close
      <4> QED
        BY <1>4, <3>1, <4>1, <4>2 DEF Listed, About
    <3>2. CASE About(f) \notin todo[i]
      BY <1>1, <1>2, <1>5, <3>2, FoundStays DEF ProgressInv
    <3> QED
      BY <2>2, <3>1, <3>2
  <2>3. Listed(SessionOf[i])'
    BY <1>1, <1>2, <1>5, FoundStays DEF ProgressInv
  <2>4. pc'[i] \in {"mark", "page"} /\ (pc'[i] = "mark" => rest = {})
    BY <2>1
  <2> QED
    BY <1>3, <1>6, <2>2, <2>3, <2>4 DEF ProgressInv, About
<1>8. /\ reserved' \subseteq Topics /\ capture' \in [Sessions -> 0..Pending]
      /\ \A s \in Sessions : capture'[s] \in {capture[s], Pending}
  BY <1>2, <1>3 DEF TypeOK
<1>9. stage # "replace"
  OBVIOUS
<1> HIDE DEF stage
<1> QED
  BY <1>1, <1>3, <1>4, <1>5, <1>6, <1>7, <1>8, <1>9, ChangeKeeps

LEMMA ReplaceKeeps ==
  ASSUME IInv, NEW a \in Agents, Replace(a)
  PROVE  IInv' /\ Grows
<1> DEFINE old == IF base[a] = Nothing THEN {} ELSE base[a]
<1>1. a \in Writers /\ a \notin Ingests /\ view[a] # Nothing /\ pc[a] = "replace"
  BY IngestAssumption DEF Replace, Opened, Writers
<1>2. /\ TypeOK /\ on[a] \in Pages /\ view[a].page = page[on[a]] /\ view[a].page = base[a]
  BY <1>1, ViewOf DEF Replace, SameVersion
<1>3. /\ UNCHANGED <<events, capture, upto, found, todo, base, crashes, kept, best>>
      /\ Close(a, "over") /\ reserved' = reserved \ {on[a]}
      /\ page' = [page EXCEPT ![on[a]] = old \cup {a}]
      /\ UpsertRow(a, "active") \/ row' = row
  BY DEF Replace, plan, history
<1>4. PageGrows(a)
  <2>1. old \cup {a} \in Texts
    BY <1>2 DEF TypeOK, Texts
  <2>2. page[on[a]] # Nothing => page[on[a]] \subseteq old \cup {a}
    BY <1>2
  <2> QED
    BY <1>3, <2>1, <2>2 DEF PageGrows
<1>5. RowGrows(a)
  BY <1>1, <1>3, UpsertRowGrows DEF RowGrows
<1>6. /\ reserved' \subseteq Topics /\ capture' \in [Sessions -> 0..Pending]
      /\ \A s \in Sessions : capture'[s] \in {capture[s], Pending}
      /\ todo' \in [Ingests -> SUBSET Topics] /\ \A q \in Ingests : q # a => todo'[q] = todo[q]
  BY <1>2, <1>3 DEF TypeOK
<1>7. Grows /\ "over" \in Stages
  BY <1>1, <1>3, <1>4, <1>5, ChangeGrows DEF Stages
<1> QED
  BY <1>1, <1>3, <1>4, <1>5, <1>6, <1>7, ChangeKeeps

(* The marker: nobody else of the session is under way, and all is written.    *)
LEMMA MarkKeeps == ASSUME IInv, NEW i \in Ingests, Mark(i) PROVE IInv'
<1> DEFINE s == SessionOf[i]
<1>1. /\ i \in Writers /\ i \notin Agents /\ view[i] # Nothing /\ pc[i] = "mark"
      /\ s \in Sessions /\ s \in LockRoots /\ s # Wiki
  BY IngestAssumption, Roots DEF Mark, Opened, Writers
<1>2. TypeOK /\ Own(i) /\ HeldInv(i) /\ ProgressInv(i) /\ Holds(i, Wiki) /\ Busy(i)
  BY <1>1 DEF IInv, Own, ViewInv, Busy
<1>3. /\ UNCHANGED <<on, events, page, reserved, row, upto, found, todo, base, crashes>>
      /\ capture' = [capture EXCEPT ![s] = upto[i]]
      /\ kept' = [kept EXCEPT ![s] = @ \cup found[i]]
      /\ best' = [best EXCEPT ![s] = IF upto[i] > @ THEN upto[i] ELSE @]
      /\ lock' = [lock EXCEPT ![Wiki] = NoProc, ![s] = NoProc]
      /\ pc' = [pc EXCEPT ![i] = "over"] /\ view' = [view EXCEPT ![i] = Nothing]
  BY DEF Mark, Goto, plan
<1>4. /\ upto[i] \in 0..MaxLog /\ upto[i] \in Nat /\ best[s] \in Nat /\ Holds(i, s)
      /\ best[s] <= upto[i] /\ upto[i] <= events[s]
  BY <1>1, <1>2, IngestAssumption DEF TypeOK, HeldInv
<1>5. best'[s] = upto[i] /\ capture'[s] = upto[i] /\ kept'[s] = kept[s] \cup found[i]
  <2>1. /\ best'[s] = IF upto[i] > best[s] THEN upto[i] ELSE best[s]
        /\ capture'[s] = upto[i] /\ kept'[s] = kept[s] \cup found[i]
    BY <1>1, <1>2, <1>3 DEF TypeOK
  <2>2. upto[i] > best[s] \/ upto[i] = best[s]
    BY <1>4
  <2> QED
    BY <2>1, <2>2
<1>6. \A t \in Sessions \ {s} : /\ best'[t] = best[t] /\ capture'[t] = capture[t]
                                /\ kept'[t] = kept[t]
  BY <1>2, <1>3 DEF TypeOK
<1>7. TypeOK'
  <2>1. best' \in [Sessions -> 0..MaxLog] /\ capture' \in [Sessions -> 0..Pending]
    <3>1. upto[i] \in 0..Pending
      BY <1>4, IngestAssumption DEF Pending
    <3>2. (IF upto[i] > best[s] THEN upto[i] ELSE best[s]) \in 0..MaxLog
      BY <1>1, <1>2, <1>4 DEF TypeOK
    <3> QED
      BY <1>2, <1>3, <3>1, <3>2 DEF TypeOK
  <2>2. kept' \in [Sessions -> SUBSET Facts]
    BY <1>1, <1>2, <1>3 DEF TypeOK
  <2>3. lock' \in [LockRoots -> Writers \cup {NoProc}] /\ pc' \in [Writers -> Stages]
    BY <1>1, <1>2, <1>3, Roots DEF TypeOK, Stages
  <2>4. view' \in [Writers -> [page : Texts \cup {Nothing},
                     row : [Pages -> {Nothing, "planned", "active"}]] \cup {Nothing}]
    BY <1>1, <1>2, <1>3 DEF TypeOK
  <2> QED
    BY <1>2, <1>3, <2>1, <2>2, <2>3, <2>4 DEF TypeOK
<1>8. Grows
  BY <1>2, <1>3, IngestAssumption DEF Grows, Listed, TypeOK
<1>9. ASSUME NEW q \in Writers \ {i} PROVE Own(q)'
  <2>1. pc'[q] = pc[q] /\ view'[q] = view[q] /\ view[q] = Nothing
    BY <1>1, <1>2, <1>3, ViewAlone DEF TypeOK
  <2>2. \A r \in LockRoots : Holds(q, r) => Holds(q, r)'
    BY <1>1, <1>2, <1>3, <1>4, Roots DEF TypeOK, Holds
  <2>3. ASSUME q \in Ingests, Busy(q) PROVE best'[SessionOf[q]] = best[SessionOf[q]]
    <3>1. SessionOf[q] \in Sessions /\ Holds(q, SessionOf[q])
      BY <2>3, IngestAssumption DEF IInv, Own, HeldInv
    <3>2. SessionOf[q] # s
      BY <1>4, <3>1 DEF Holds
    <3> QED
      BY <1>6, <3>1, <3>2
  <2>4. Apart(q)
    BY <1>3, <2>1, <2>2, <2>3 DEF Apart
  <2> QED
    BY <1>7, <1>8, <2>4, OthersKeep
<1>10. Own(i)'
  <2>1. pc'[i] = "over" /\ view'[i] = Nothing
    BY <1>1, <1>2, <1>3 DEF TypeOK
  <2> QED
    BY <2>1 DEF Own, ViewInv, HeldInv, Busy, ProgressInv
<1>11. BestKnown'
  <2> SUFFICES ASSUME NEW t \in Sessions PROVE best'[t] <= events'[t]
    BY DEF BestKnown
  <2> QED
    BY <1>3, <1>4, <1>5, <1>6 DEF IInv, BestKnown
<1>12. CompleteIsWritten'
  <2> SUFFICES ASSUME NEW t \in Sessions, NEW f \in kept'[t]
               PROVE  Written(f) /\ Listed(About(f)) /\ Listed(t)
    BY <1>3 DEF CompleteIsWritten, Written, Listed, About
  <2>1. CASE f \in kept[t]
    BY <2>1 DEF IInv, CompleteIsWritten, Written, Listed
  <2>2. CASE f \notin kept[t]
    <3>1. t = s /\ f \in found[i]
      BY <1>5, <1>6, <2>2
    <3> QED
      BY <1>1, <1>2, <3>1 DEF ProgressInv
  <2> QED
    BY <2>1, <2>2
<1>13. CaptureNeverBack'
  <2> SUFFICES ASSUME NEW t \in Sessions, capture'[t] # Pending PROVE capture'[t] = best'[t]
    BY DEF CaptureNeverBack, Pending
  <2> QED
    BY <1>5, <1>6 DEF IInv, CaptureNeverBack
<1> QED
  BY <1>7, <1>9, <1>10, <1>11, <1>12, <1>13 DEF IInv
-----------------------------------------------------------------------------
LEMMA InitInv == Init => IInv
<1> SUFFICES ASSUME Init PROVE IInv
  OBVIOUS
<1>1. PICK c \in Casts : /\ events = c.events /\ crashes = c.crashes
                         /\ pc = [p \in Writers |-> IF p \in c.who THEN "idle" ELSE "over"]
  BY DEF Init
<1>2. /\ MaxLog \in Nat /\ c.crashes \in Nat /\ c.events \in [Sessions -> 0..MaxLog]
  BY IngestAssumption
<1>3. TypeOK
  <2>1. /\ lock \in [LockRoots -> Writers \cup {NoProc}]
        /\ on \in [Writers -> Pages \cup {Nothing}] /\ pc \in [Writers -> Stages]
        /\ view \in [Writers -> [page : Texts \cup {Nothing},
                       row : [Pages -> {Nothing, "planned", "active"}]] \cup {Nothing}]
    BY <1>1 DEF Init, LockInit, Stages
  <2>2. /\ page \in [Pages -> Texts \cup {Nothing}] /\ reserved \subseteq Topics
        /\ row \in [Pages -> {Nothing, "planned", "active"}]
        /\ base \in [Agents -> Texts \cup {Nothing}]
    BY DEF Init
  <2>3. /\ capture \in [Sessions -> 0..Pending] /\ upto \in [Ingests -> 0..MaxLog]
        /\ best \in [Sessions -> 0..MaxLog] /\ kept \in [Sessions -> SUBSET Facts]
        /\ found \in [Ingests -> SUBSET Facts] /\ todo \in [Ingests -> SUBSET Topics]
    <3>1. Pending \in 0..Pending /\ 0 \in 0..MaxLog
      BY <1>2 DEF Pending
    <3> QED
      BY <3>1 DEF Init
  <2> QED
    BY <1>1, <1>2, <2>1, <2>2, <2>3 DEF TypeOK
<1>4. ASSUME NEW p \in Writers PROVE Own(p)
  <2>1. view[p] = Nothing /\ pc[p] \in {"idle", "over"}
    BY <1>1 DEF Init
  <2> QED
    BY <2>1 DEF Own, ViewInv, HeldInv, Busy, ProgressInv
<1>5. BestKnown
  <2> SUFFICES ASSUME NEW s \in Sessions PROVE best[s] <= events[s]
    BY DEF BestKnown
  <2>1. best[s] = 0 /\ events[s] \in 0..MaxLog
    BY <1>1, <1>2 DEF Init
  <2> QED
    BY <1>2, <2>1
<1>6. CompleteIsWritten /\ CaptureNeverBack
  BY DEF Init, CompleteIsWritten, CaptureNeverBack
<1> QED
  BY <1>3, <1>4, <1>5, <1>6 DEF IInv

LEMMA InvNext == IInv /\ [Next]_vars => IInv'
<1> SUFFICES ASSUME IInv, [Next]_vars PROVE IInv'
  OBVIOUS
<1>1. CASE \E p \in Writers : Crash(p) \/ \E x \in Pages : Open(p, x)
  BY <1>1, CrashKeeps, OpenKeeps
<1>2. ASSUME NEW i \in Ingests, IngestStep(i) PROVE IInv'
  BY <1>2, EnterKeeps, ReadLogKeeps, DistilKeeps, CreatePageKeeps, CreateRowKeeps,
     WriteSourceKeeps, WriteSourceRowKeeps, WritePageKeeps, WriteRowKeeps, MarkKeeps
     DEF IngestStep
<1>3. CASE \E i \in Ingests : IngestFails(i)
  BY <1>3, FailsKeeps
<1>4. CASE \E a \in Agents : AgentStep(a)
  BY <1>4, AgentKeeps, ReplaceKeeps DEF AgentStep
<1>5. CASE (\E s \in Sessions : Grow(s)) \/ (\E r \in LockRoots : ClearLock(r))
  BY <1>5, AroundKeeps
<1>6. CASE UNCHANGED vars
  BY <1>6 DEF vars, wiki, plan, open, history, IInv, TypeOK, Own, ViewInv, HeldInv, ProgressInv,
     Busy, Holds, Written, Listed, About, BestKnown, CompleteIsWritten, CaptureNeverBack, Body,
     Facts, Pages, Writers, Texts, Pending
<1> QED
  BY <1>1, <1>2, <1>3, <1>4, <1>5, <1>6 DEF Next, Finished

(* The four changes of pages add to them; no other step touches one.           *)
PagesKept == \A x \in Pages : page[x] # Nothing => page'[x] # Nothing /\ page[x] \subseteq page'[x]

LEMMA PagesGrow == IInv /\ [Next]_vars => PagesKept
<1> SUFFICES ASSUME IInv, [Next]_vars PROVE PagesKept
  OBVIOUS
<1>1. page' = page => PagesKept
  BY DEF PagesKept
<1>2. Grows => PagesKept
  BY DEF Grows, PagesKept
<1>3. CASE \E p \in Writers : Crash(p) \/ \E x \in Pages : Open(p, x)
  BY <1>1, <1>3 DEF Crash, Open, wiki
<1>4. ASSUME NEW i \in Ingests, IngestStep(i) PROVE PagesKept
  <2>1. CASE CreatePage(i) \/ WriteSource(i) \/ WritePage(i)
    BY <1>2, <2>1, CreatePageKeeps, WriteSourceKeeps, WritePageKeeps
  <2>2. CASE Enter(i) \/ ReadLog(i) \/ Distil(i)
    BY <1>1, <2>2 DEF Enter, ReadLog, Distil, wiki
  <2>3. CASE CreateRow(i) \/ WriteSourceRow(i) \/ WriteRow(i) \/ Mark(i)
    BY <1>1, <2>3 DEF CreateRow, WriteSourceRow, WriteRow, Mark
  <2> QED
    BY <1>4, <2>1, <2>2, <2>3 DEF IngestStep
<1>5. CASE \E i \in Ingests : IngestFails(i)
  BY <1>1, <1>5 DEF IngestFails, wiki
<1>6. ASSUME NEW a \in Agents, AgentStep(a) PROVE PagesKept
  <2>1. CASE Replace(a)
    BY <1>2, <2>1, ReplaceKeeps
  <2>2. CASE ReadPage(a) \/ Conflict(a)
    BY <1>1, <2>2 DEF ReadPage, Conflict, wiki
  <2> QED
    BY <1>6, <2>1, <2>2 DEF AgentStep
<1>7. CASE (\E s \in Sessions : Grow(s)) \/ (\E r \in LockRoots : ClearLock(r))
  BY <1>1, <1>7 DEF Grow, ClearLock, wiki
<1>8. CASE UNCHANGED vars
  BY <1>1, <1>8 DEF vars
<1> QED
  BY <1>3, <1>4, <1>5, <1>6, <1>7, <1>8 DEF Next, Finished
-----------------------------------------------------------------------------
(* The inductive invariant holds: changes have the wiki's lock and read what   *)
(* is there, ingests have their session's lock, and their progress is on disk. *)
THEOREM IngestInvariant == Spec => []IInv
BY InitInv, InvNext, PTL DEF Spec

(* What an ingest that is marked complete found is on its pages, and they are  *)
(* listed as active, for any number of writers, deaths and cleared locks.      *)
THEOREM IngestWritten == Spec => []CompleteIsWritten
<1>1. IInv => CompleteIsWritten
  BY DEF IInv
<1> QED
  BY <1>1, IngestInvariant, PTL

(* The marker of a session stands for its longest completed capture.           *)
THEOREM IngestCapture == Spec => []CaptureNeverBack
<1>1. IInv => CaptureNeverBack
  BY DEF IInv
<1> QED
  BY <1>1, IngestInvariant, PTL

(* No step takes a fact off a page, nor a page out of the wiki.                *)
THEOREM IngestKeepsFacts == Spec => FactsKept
<1>1. IInv /\ [Next]_vars => [PagesKept]_vars
  BY PagesGrow
<1> QED
  BY <1>1, IngestInvariant, PTL DEF Spec, FactsKept, PagesKept
=============================================================================
