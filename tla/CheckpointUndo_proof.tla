------------------------- MODULE CheckpointUndo_proof -------------------------
(* Proofs about checkpoints and undos of one worktree, for every number of     *)
(* sessions, runs, undos, paths and turns: the lease excludes, a run that gave *)
(* up a call never seals, no undo destroys what somebody wrote, and none       *)
(* touches what only others wrote unless a checkpoint was used twice.          *)
EXTENDS CheckpointUndo, TLAPS

Active(q) == pc[q] \notin {"idle", "over", "gone"}
Ended == {"release", "remove", "close", "over", "gone"}

(* Who works on the files has the lease, and the lock says so from the moment  *)
(* the owner is named until it is given back.                                  *)
LeaseInv(q) ==
  /\ pc[q] = "name" => lock = [by |-> q, named |-> FALSE] /\ q \notin leased
  /\ pc[q] \in {"capture", "publish", "record", "body", "settle", "adopt", "stage", "confirm",
                "install", "remove"} => q \in leased
  /\ q \in leased /\ ~Stopped(q) =>
       lock.by = q /\ (pc[q] \notin {"remove", "close"} => lock.named)
  /\ q \in Runs /\ attempt[q] # 0 => q \in leased \/ pc[q] \in {"close", "over", "gone"}

(* A seal comes at the end; a run that gave up a call stays uncertain, begins  *)
(* no further call and never comes to sealing.                                 *)
StrayInv(r) ==
  /\ pc[r] \notin Ended => sealed[r] = NoTree
  /\ r \in strays => /\ sealed[r] = NoTree /\ pc[r] \in {"ready", "seal"} \cup Ended
                     /\ pc[r] \in {"ready", "seal"} => r \in uncertain

(* A session has one run under way, its latest, or is closed.                  *)
RunInv(r) ==
  Active(r) => /\ latest[SessionOf[r]] = r /\ ~closed[SessionOf[r]]
               /\ \A q \in Runs : SessionOf[q] = SessionOf[r] /\ RunNo[q] < RunNo[r] => Stopped(q)
ClosedInv == \A s \in Sessions : closed[s] => latest[s] # NoProc

(* An undo has the log of its session to itself: what it read there stays.     *)
AimInv(u) ==
  Active(u) => /\ sess[SessionOf[u]] = u /\ closed[SessionOf[u]]
               /\ SealOf(u) # NoTree /\ Target(u) # NoTree

(* Nothing is aside before an undo installs; a path that is left to do is not  *)
(* aside yet, unless it is the one half done.                                  *)
AsideInv(u) ==
  /\ pc[u] \in {"idle", "lease", "name", "stage", "confirm"} =>
       half[u] = Absent /\ \A p \in Paths : originals[u][p] = Absent
  /\ \A p \in todo[u] : half[u] # p => originals[u][p] = Absent

IInv ==
  /\ TypeOK
  /\ \A q \in Procs : LeaseInv(q)
  /\ \A r \in Runs : StrayInv(r) /\ RunInv(r)
  /\ ClosedInv
  /\ \A u \in Undos : AimInv(u) /\ AsideInv(u)
  /\ NothingDestroyed
-----------------------------------------------------------------------------
(* Type correctness, action by action.                                         *)
LEMMA Parameters ==
  /\ MaxTurns \in Nat /\ \A c \in Casts : c.turns \in 1..MaxTurns /\ c.writes \in Nat
  /\ \A r \in Runs : r \in Procs /\ SessionOf[r] \in Sessions
  /\ \A u \in Undos : u \in Procs /\ SessionOf[u] \in Sessions
  /\ NoProc \notin Procs /\ User \notin Procs
BY UndoAssumption DEF Procs, Turns

LEMMA TurnOne == ASSUME TypeOK PROVE 1 \in Turns /\ 0 \in 0..MaxTurns
<1>1. cast.turns \in 1..MaxTurns /\ MaxTurns \in Nat
  BY Parameters DEF TypeOK
<1> QED
  BY <1>1 DEF Turns

LEMMA LeaseType ==
  ASSUME IInv, TypeOK, NEW q \in Procs, LeaseStep(q)
  PROVE  TypeOK'
<1>1. CASE MakeLock(q)
  BY <1>1, UndoAssumption DEF TypeOK, MakeLock, Goto, Stages, run, undo, log, budget, seen, git
<1>2. CASE NameOwner(q)
  <2>1. pc' \in [Procs -> Stages] /\ leased' \subseteq Procs
    BY <1>2 DEF TypeOK, NameOwner, Goto, Stages
  <2>2. lock = [by |-> q, named |-> FALSE] /\ lock' = [lock EXCEPT !.named = TRUE]
    BY <1>2 DEF IInv, LeaseInv, NameOwner
  <2>3. lock' = [by |-> q, named |-> TRUE]
    BY <2>2
  <2>4. lock' \in [by : Procs \cup {NoProc}, named : BOOLEAN] /\ lock'.by # NoProc
    BY <2>3, Parameters
  <2> QED
    BY <1>2, <2>1, <2>4 DEF TypeOK, NameOwner, run, undo, log, budget, seen, git
<1>3. CASE Unname(q)
  BY <1>3, UndoAssumption DEF TypeOK, Unname, Goto, Stages, run, undo, log, budget, seen, git
<1>4. CASE RemoveLock(q)
  BY <1>4, UndoAssumption
     DEF TypeOK, RemoveLock, NoLock, Goto, Stages, run, undo, log, budget, seen, git
<1>5. CASE KeepLock(q)
  BY <1>5, UndoAssumption DEF TypeOK, KeepLock, Goto, Stages, run, undo, log, budget, seen, git
<1>6. CASE Crash(q)
  <2>1. crashes' \in 0..cast.crashes /\ cast' = cast
    BY <1>6, UndoAssumption DEF TypeOK, Crash
  <2>2. /\ owned' \in [Runs -> Trees \cup {NoTree}] /\ taken' \in [Runs -> Trees \cup {NoTree}]
        /\ attempt' \in [Runs -> 0..MaxTurns] /\ turn' \in [Runs -> Turns]
    <3>1. 1 \in Turns /\ 0 \in 0..MaxTurns
      BY TurnOne
    <3> QED
      BY <1>6, <3>1 DEF TypeOK, Crash, Forget
  <2>3. pc' \in [Procs -> Stages] /\ leased' \subseteq Procs /\ orphan' \subseteq Runs
        /\ uncertain' \subseteq Runs
    BY <1>6 DEF TypeOK, Crash, Forget, Goto, Stages
  <2> QED
    BY <1>6, <2>1, <2>2, <2>3 DEF TypeOK, Crash, undo, log, seen, git
<1> QED
  BY <1>1, <1>2, <1>3, <1>4, <1>5, <1>6 DEF LeaseStep

LEMMA CallType ==
  ASSUME TypeOK, NEW r \in Runs, CallStep(r)
  PROVE  TypeOK'
<1>1. CASE BeginCall(r)
  <2>1. pc' \in [Procs -> Stages] /\ uncertain' \subseteq Runs
    <3>1. pc' = pc \/ \E stage \in Stages : pc' = [pc EXCEPT ![r] = stage]
      BY <1>1 DEF BeginCall, Goto, Stages
    <3>2. uncertain' = uncertain \cup {r} \/ uncertain' = uncertain
      BY <1>1 DEF BeginCall
    <3>3. pc \in [Procs -> Stages] /\ uncertain \subseteq Runs
      BY DEF TypeOK
    <3>4. pc' \in [Procs -> Stages]
      BY <3>1, <3>3
    <3> QED
      BY <3>2, <3>3, <3>4
  <2> QED
    BY <1>1, <2>1 DEF TypeOK, BeginCall, undo, log, budget, seen, git
<1>2. CASE Reuse(r)
  <2>1. /\ pc' \in [Procs -> Stages] /\ attempt' \in [Runs -> 0..MaxTurns]
    BY <1>2, Parameters DEF TypeOK, Reuse, Call, Goto, Stages, Turns
  <2>2. created' \in [Runs -> [Turns -> Trees \cup {NoTree}]]
    BY <1>2, Parameters DEF TypeOK, Reuse
  <2> QED
    BY <1>2, <2>1, <2>2 DEF TypeOK, Reuse, undo, log, budget, seen, git
<1>3. CASE Capture(r)
  BY <1>3, UndoAssumption DEF TypeOK, Capture, Goto, Stages, Procs, undo, log, budget, seen, git
<1>4. CASE Publish(r)
  BY <1>4, UndoAssumption DEF TypeOK, Publish, Goto, Stages, Procs, run, undo, log, budget, seen
<1>5. CASE Record(r)
  <2>1. /\ pc' \in [Procs -> Stages] /\ attempt' \in [Runs -> 0..MaxTurns]
    BY <1>5, Parameters DEF TypeOK, Record, Call, Goto, Stages, Turns
  <2>2. created' \in [Runs -> [Turns -> Trees \cup {NoTree}]]
        /\ taken' \in [Runs -> Trees \cup {NoTree}]
    BY <1>5, Parameters DEF TypeOK, Record
  <2> QED
    BY <1>5, <2>1, <2>2 DEF TypeOK, Record, undo, log, budget, seen, git
<1>6. CASE CallDenied(r)
  BY <1>6, UndoAssumption
     DEF TypeOK, CallDenied, Goto, Stages, Procs, undo, log, budget, seen, git
<1>7. ASSUME NEW p \in Paths, Write(r, p) PROVE TypeOK'
  <2>1. PICK text \in {<<r, turn[r]>>, Absent} : Put(r, turn[r], p, text)
    BY <1>7 DEF Write
  <2>2. text \in Texts \cup {Absent} /\ turn[r] \in Turns
    BY DEF TypeOK, Texts
  <2>3. /\ tree' \in Trees /\ last' \in [Paths -> Texts \cup {Absent}]
        /\ made' \subseteq [path : Paths, text : Texts \cup {Absent}, by : Sessions \cup {User},
                            turn : Turns]
    BY <2>1, <2>2, Parameters DEF TypeOK, Trees, Put
  <2>4. writes' \in [Runs -> 0..cast.writes]
    BY <1>7, Parameters DEF TypeOK, Write
  <2> QED
    BY <1>7, <2>3, <2>4 DEF TypeOK, Write, undo, log, budget, git
<1>8. CASE Settle(r)
  BY <1>8, UndoAssumption
     DEF TypeOK, Settle, Goto, Stages, Procs, run, undo, log, budget, seen, git
<1>9. CASE GiveUp(r)
  BY <1>9, UndoAssumption
     DEF TypeOK, GiveUp, Doubt, Goto, Stages, Procs, undo, log, budget, seen, git
<1>10. CASE OrphanEnds(r)
  BY <1>10, UndoAssumption
     DEF TypeOK, OrphanEnds, Goto, Stages, Procs, undo, log, budget, seen, git
<1>11. CASE AfterCapture(r)
  BY <1>11, UndoAssumption
     DEF TypeOK, AfterCapture, Doubt, Goto, Stages, Procs, undo, log, budget, seen, git
<1>12. CASE Adopt(r)
  BY <1>12, UndoAssumption DEF TypeOK, Adopt, Goto, Stages, Procs, undo, log, budget, seen, git
<1>13. CASE AfterFails(r)
  BY <1>13, UndoAssumption
     DEF TypeOK, AfterFails, Doubt, Goto, Stages, Procs, undo, log, budget, seen, git
<1> QED
  BY <1>1, <1>2, <1>3, <1>4, <1>5, <1>6, <1>7, <1>8, <1>9, <1>10, <1>11, <1>12, <1>13
     DEF CallStep

LEMMA RunType ==
  ASSUME TypeOK, NEW r \in Runs, RunStep(r)
  PROVE  TypeOK'
<1> DEFINE s == SessionOf[r]
<1>0. /\ r \in Procs /\ s \in Sessions /\ MaxTurns \in Nat /\ completed[s] \in 0..MaxTurns
      /\ cast.turns \in 1..MaxTurns /\ turn[r] \in 1..MaxTurns
  BY Parameters DEF TypeOK, Turns
<1>1. CASE StartRun(r)
  <2>1. turn' \in [Runs -> Turns]
    <3>1. completed[s] + 1 \in Turns
      BY <1>0, <1>1 DEF StartRun, Turns
    <3> QED
      BY <1>1, <3>1 DEF TypeOK, StartRun
  <2>2. /\ sess' \in [Sessions -> Procs \cup {NoProc}]
        /\ latest' \in [Sessions -> Runs \cup {NoProc}]
        /\ \A t \in Sessions : /\ sess'[t] = NoProc \/ SessionOf[sess'[t]] = t
                               /\ latest'[t] = NoProc \/ SessionOf[latest'[t]] = t
    BY <1>0, <1>1 DEF TypeOK, StartRun
  <2>3. pc' \in [Procs -> Stages] /\ closed' \in [Sessions -> BOOLEAN]
    BY <1>0, <1>1 DEF TypeOK, StartRun, Goto, Stages
  <2> QED
    BY <1>1, <2>1, <2>2, <2>3 DEF TypeOK, StartRun, undo, budget, seen, git
<1>2. CASE NextTurn(r)
  <2>1. turn[r] + 1 \in Turns /\ turn[r] \in 0..MaxTurns
    BY <1>0, <1>2 DEF NextTurn, Turns
  <2>2. turn' \in [Runs -> Turns] /\ completed' \in [Sessions -> 0..MaxTurns]
    BY <1>2, <2>1 DEF TypeOK, NextTurn
  <2> QED
    BY <1>2, <2>2 DEF TypeOK, NextTurn, undo, budget, seen, git
<1>3. CASE CallStep(r)
  BY <1>3, CallType
<1>4. CASE Finish(r)
  <2>1. turn[r] \in 0..MaxTurns
    BY <1>0
  <2>2. completed' \in [Sessions -> 0..MaxTurns] /\ pc' \in [Procs -> Stages]
    BY <1>0, <1>4, <2>1 DEF TypeOK, Finish, Goto, Stages
  <2> QED
    BY <1>4, <2>2 DEF TypeOK, Finish, run, undo, budget, seen, git
<1>5. CASE SealCheck(r)
  BY <1>0, <1>5, UndoAssumption
     DEF TypeOK, SealCheck, Goto, Stages, run, undo, log, budget, seen, git
<1>6. CASE SealRef(r)
  <2>1. Pruned(s) \in [Turns -> Trees \cup {NoTree}]
    BY <1>0 DEF TypeOK, Pruned
  <2>2. refs' \in [Sessions -> [Turns -> Trees \cup {NoTree}]]
        /\ seals' \in [Sessions -> SUBSET Turns] /\ pc' \in [Procs -> Stages]
    BY <1>0, <1>6, <2>1 DEF TypeOK, SealRef, Goto, Stages
  <2> QED
    BY <1>6, <2>2 DEF TypeOK, SealRef, run, undo, log, budget, seen
<1>7. CASE Seal(r)
  BY <1>0, <1>7, UndoAssumption DEF TypeOK, Seal, Goto, Stages, run, undo, budget, seen, git
<1>8. CASE NoSeal(r)
  BY <1>0, <1>8, UndoAssumption DEF TypeOK, NoSeal, Goto, Stages, run, undo, log, budget, seen,
     git
<1>9. CASE EndRun(r)
  <2>1. /\ owned' \in [Runs -> Trees \cup {NoTree}] /\ taken' \in [Runs -> Trees \cup {NoTree}]
        /\ attempt' \in [Runs -> 0..MaxTurns] /\ turn' \in [Runs -> Turns]
        /\ uncertain' \subseteq Runs
    <3>1. 1 \in Turns /\ 0 \in 0..MaxTurns
      BY TurnOne
    <3> QED
      BY <1>9, <3>1 DEF TypeOK, EndRun, Forget
  <2>2. sess' \in [Sessions -> Procs \cup {NoProc}]
        /\ \A t \in Sessions : sess'[t] = NoProc \/ SessionOf[sess'[t]] = t
    BY <1>0, <1>9 DEF TypeOK, EndRun
  <2>3. pc' \in [Procs -> Stages] /\ closed' \in [Sessions -> BOOLEAN]
    BY <1>0, <1>9 DEF TypeOK, EndRun, Goto, Stages
  <2> QED
    BY <1>9, <2>1, <2>2, <2>3 DEF TypeOK, EndRun, undo, budget, seen, git
<1> QED
  BY <1>1, <1>2, <1>3, <1>4, <1>5, <1>6, <1>7, <1>8, <1>9 DEF RunStep

(* The tree that an undo goes back to is one of a run of its own session.      *)
LEMMA UndoType ==
  ASSUME IInv, TypeOK, NEW u \in Undos, UndoStep(u)
  PROVE  TypeOK'
<1> DEFINE s == SessionOf[u]
<1>0. u \in Procs /\ s \in Sessions
  BY Parameters
<1>1. ASSUME NEW t \in Turns, BeginUndo(u, t) PROVE TypeOK'
  <2>1. sess' \in [Sessions -> Procs \cup {NoProc}]
        /\ \A x \in Sessions : sess'[x] = NoProc \/ SessionOf[sess'[x]] = x
    BY <1>0, <1>1 DEF TypeOK, BeginUndo
  <2>2. pc' \in [Procs -> Stages] /\ goal' \in [Undos -> Turns]
    BY <1>0, <1>1 DEF TypeOK, BeginUndo, Goto, Stages
  <2> QED
    BY <1>1, <2>1, <2>2 DEF TypeOK, BeginUndo, run, log, budget, seen, git
<1>2. CASE StageFiles(u)
  BY <1>0, <1>2 DEF TypeOK, StageFiles, Goto, Stages, run, undo, log, budget, seen, git
<1>3. CASE Confirm(u)
  <2>1. Changed(u) \subseteq Paths
    BY DEF Changed
  <2> QED
    BY <1>0, <1>3, <2>1 DEF TypeOK, Confirm, Goto, Stages, run, log, budget, seen, git
<1>4. ASSUME NEW p \in Paths, Displace(u, p) PROVE TypeOK'
  <2>1. tree' \in Trees /\ originals' \in [Undos -> Trees]
    BY <1>4 DEF TypeOK, Trees, Displace
  <2>2. todo' \in [Undos -> SUBSET Paths] /\ half' \in [Undos -> Paths \cup {Absent}]
    <3>1. /\ todo' = [todo EXCEPT ![u] = @ \ {p}] \/ todo' = todo
          /\ half' = [half EXCEPT ![u] = p] \/ half' = half
      BY <1>4 DEF Displace
    <3> QED
      BY <3>1 DEF TypeOK
  <2> QED
    BY <1>4, <2>1, <2>2 DEF TypeOK, Displace, run, log, budget, seen, git
<1>5. ASSUME NEW p \in Paths, PutBack(u, p) PROVE TypeOK'
  <2>1. tree' \in Trees
    <3>1. Target(u) \in Trees
      <4>1. Target(u) # NoTree /\ latest[s] \in Runs /\ goal[u] \in Turns
        <5>1. Active(u) /\ AimInv(u)
          BY <1>5 DEF IInv, Active, PutBack
        <5>2. latest[s] # NoProc /\ Target(u) # NoTree
          BY <1>0, <5>1 DEF IInv, AimInv, ClosedInv
        <5> QED
          BY <1>0, <5>2 DEF TypeOK
      <4> QED
        BY <4>1 DEF TypeOK, Target
    <3>2. Target(u)[p] \in Texts \cup {Absent}
      BY <3>1 DEF Trees
    <3> QED
      BY <1>5, <3>2 DEF TypeOK, Trees, PutBack
  <2>2. todo' \in [Undos -> SUBSET Paths] /\ half' \in [Undos -> Paths \cup {Absent}]
    BY <1>5 DEF TypeOK, PutBack
  <2> QED
    BY <1>5, <2>1, <2>2 DEF TypeOK, PutBack, run, log, budget, seen, git
<1>6. CASE Restored(u)
  BY <1>0, <1>6 DEF TypeOK, Restored, Goto, Stages, run, undo, log, budget, seen, git
<1>7. CASE UndoFails(u)
  BY <1>0, <1>7 DEF TypeOK, UndoFails, Goto, Stages, run, undo, log, budget, seen, git
<1>8. CASE EndUndo(u)
  BY <1>0, <1>8 DEF TypeOK, EndUndo, Goto, Stages, run, undo, log, budget, seen, git
<1> QED
  BY <1>1, <1>2, <1>3, <1>4, <1>5, <1>6, <1>7, <1>8 DEF UndoStep

LEMMA AroundType ==
  ASSUME TypeOK,
         (\E p \in Paths : Edit(p)) \/ (\E s \in Sessions : ClearSession(s)) \/ Recover
  PROVE  TypeOK'
<1>1. ASSUME NEW p \in Paths, Edit(p) PROVE TypeOK'
  <2>1. edits \in Nat /\ edits > 0 /\ edits <= cast.edits /\ cast.edits \in Nat
    BY <1>1, UndoAssumption DEF TypeOK, Edit
  <2>2. <<User, edits>> \in Texts
    <3>1. \E n \in {c["edits"] : c \in Casts} : \A c \in Casts : c["edits"] <= n
      BY UndoAssumption
    <3>2. /\ Limit("edits") \in {c["edits"] : c \in Casts}
          /\ \A c \in Casts : c["edits"] <= Limit("edits")
      BY <3>1 DEF Limit
    <3>3. Limit("edits") \in Nat /\ cast.edits <= Limit("edits")
      BY <3>2, UndoAssumption DEF TypeOK
    <3>4. edits \in 1..Limit("edits")
      BY <2>1, <3>3
    <3> QED
      BY <3>4 DEF Texts
  <2>3. PICK text \in {<<User, edits>>, Absent} : Put(User, 1, p, text)
    BY <1>1 DEF Edit
  <2>4. text \in Texts \cup {Absent} /\ 1 \in Turns
    BY <2>2, TurnOne
  <2>5. /\ tree' \in Trees /\ last' \in [Paths -> Texts \cup {Absent}]
        /\ made' \subseteq [path : Paths, text : Texts \cup {Absent}, by : Sessions \cup {User},
                            turn : Turns]
    BY <2>3, <2>4 DEF TypeOK, Trees, Put
  <2>6. edits' \in 0..cast.edits
    BY <1>1, <2>1 DEF Edit
  <2> QED
    BY <1>1, <2>5, <2>6 DEF TypeOK, Edit, run, undo, log, git
<1>2. ASSUME NEW s \in Sessions, ClearSession(s) PROVE TypeOK'
  BY <1>2 DEF TypeOK, ClearSession, run, undo, log, budget, seen, git
<1>3. CASE Recover
  BY <1>3, UndoAssumption DEF TypeOK, Recover, NoLock, run, undo, log, budget, seen, git
<1> QED
  BY <1>1, <1>2, <1>3
-----------------------------------------------------------------------------
(* The lease. A step that leaves the lock alone only moves one process.        *)
LEMMA LeaseTypes ==
  ASSUME TypeOK
  PROVE  /\ pc \in [Procs -> Stages] /\ leased \subseteq Procs
         /\ attempt \in [Runs -> 0..MaxTurns] /\ turn \in [Runs -> Turns]
         /\ lock \in [by : Procs \cup {NoProc}, named : BOOLEAN]
         /\ Runs \subseteq Procs /\ Undos \subseteq Procs /\ NoProc \notin Procs
BY Parameters DEF TypeOK

LEMMA SameLease ==
  ASSUME IInv, NEW q \in Procs, NEW stage \in Stages, pc' = [pc EXCEPT ![q] = stage],
         UNCHANGED <<lock, leased>>, \A r \in Runs \ {q} : attempt'[r] = attempt[r],
         LeaseInv(q)'
  PROVE  \A o \in Procs : LeaseInv(o)'
<1> SUFFICES ASSUME NEW o \in Procs, o # q PROVE LeaseInv(o)'
  OBVIOUS
<1>1. pc'[o] = pc[o] /\ LeaseInv(o)
  BY LeaseTypes DEF IInv
<1>2. o \in Runs => attempt'[o] = attempt[o]
  OBVIOUS
<1> QED
  BY <1>1, <1>2 DEF LeaseInv, Stopped

LEMMA LeaseStepKeeps ==
  ASSUME IInv, NEW q \in Procs, LeaseStep(q), NEW o \in Procs
  PROVE  LeaseInv(o)'
<1>0. TypeOK /\ LeaseInv(q) /\ LeaseInv(o)
  BY DEF IInv
<1>1. CASE MakeLock(q)
  <2>1. /\ lock = NoLock /\ lock' = [by |-> q, named |-> FALSE] /\ UNCHANGED <<leased, attempt>>
        /\ pc' = [pc EXCEPT ![q] = "name"] /\ q \notin leased /\ pc[q] = "lease"
    BY <1>1 DEF MakeLock, Goto, run
  <2>2. lock.by \notin Procs
    BY <1>0, <2>1, LeaseTypes DEF NoLock
  <2>3. CASE o = q
    <3>1. pc'[q] = "name"
      BY <1>0, <2>1, LeaseTypes
    <3> QED
      BY <1>0, <2>1, <2>3, <3>1 DEF LeaseInv, Stopped
  <2>4. CASE o # q
    <3>1. pc'[o] = pc[o] /\ lock.by # o /\ lock # [by |-> o, named |-> FALSE]
      BY <1>0, <2>1, <2>2, <2>4, LeaseTypes DEF NoLock
    <3> QED
      BY <1>0, <2>1, <2>4, <3>1 DEF LeaseInv, Stopped
  <2> QED
    BY <2>3, <2>4
<1>2. CASE NameOwner(q)
  <2>1. /\ lock.by = q /\ lock'.by = q /\ lock'.named = TRUE /\ leased' = leased \cup {q}
        /\ pc' = [pc EXCEPT ![q] = IF q \in Runs THEN "capture" ELSE "stage"]
        /\ attempt' = attempt /\ lock'.named
    BY <1>0, <1>2 DEF NameOwner, Goto, run, LeaseInv
  <2>2. CASE o = q
    <3>1. pc'[q] \in {"capture", "stage"} /\ q \in leased'
      BY <1>0, <2>1, LeaseTypes
    <3> QED
      BY <2>1, <2>2, <3>1 DEF LeaseInv
  <2>3. CASE o # q
    <3>1. pc'[o] = pc[o] /\ (o \in leased' <=> o \in leased) /\ pc[o] # "name"
      BY <1>0, <1>2, <2>1, <2>3, LeaseTypes DEF LeaseInv, NameOwner
    <3> QED
      BY <1>0, <2>1, <2>3, <3>1 DEF LeaseInv, Stopped
  <2> QED
    BY <2>2, <2>3
<1>3. CASE Unname(q)
  <2>1. /\ lock.by = q /\ lock'.by = q /\ leased' = leased /\ q \in leased
        /\ pc' = [pc EXCEPT ![q] = "remove"] /\ attempt' = attempt
    BY <1>3 DEF Unname, Goto, run
  <2>2. CASE o = q
    BY <1>0, <2>1, <2>2, LeaseTypes DEF LeaseInv, Stopped
  <2>3. CASE o # q
    <3>1. pc'[o] = pc[o] /\ pc[o] # "name"
      BY <1>0, <1>3, <2>1, <2>3, LeaseTypes DEF LeaseInv
    <3> QED
      BY <1>0, <2>1, <2>3, <3>1 DEF LeaseInv, Stopped
  <2> QED
    BY <2>2, <2>3
<1>4. CASE RemoveLock(q)
  <2>1. /\ lock.by = q /\ leased' = leased \ {q}
        /\ pc' = [pc EXCEPT ![q] = "close"] /\ attempt' = attempt
    BY <1>0, <1>4 DEF RemoveLock, Goto, run, LeaseInv, Stopped
  <2>2. CASE o = q
    BY <1>0, <2>1, <2>2, LeaseTypes DEF LeaseInv, Stopped
  <2>3. CASE o # q
    <3>1. pc'[o] = pc[o] /\ pc[o] # "name" /\ (o \in leased' <=> o \in leased)
      BY <1>0, <2>1, <2>3, LeaseTypes DEF LeaseInv
    <3> QED
      BY <1>0, <2>1, <2>3, <3>1 DEF LeaseInv, Stopped
  <2> QED
    BY <2>2, <2>3
<1>5. CASE KeepLock(q)
  <2>1. /\ UNCHANGED <<lock, leased, attempt>> /\ pc' = [pc EXCEPT ![q] = "close"]
        /\ pc[q] \in {"release", "remove"}
    BY <1>5 DEF KeepLock, Goto, run
  <2> QED
    BY <1>0, <2>1, LeaseTypes DEF LeaseInv, Stopped
<1>6. CASE Crash(q)
  <2>1. /\ lock' = lock /\ leased' = leased \ {q} /\ pc' = [pc EXCEPT ![q] = "gone"]
        /\ attempt' = [r \in Runs |-> IF r = q THEN 0 ELSE attempt[r]]
    BY <1>6 DEF Crash, Goto, Forget
  <2> QED
    BY <1>0, <2>1, LeaseTypes DEF LeaseInv, Stopped
<1> QED
  BY <1>1, <1>2, <1>3, <1>4, <1>5, <1>6 DEF LeaseStep

(* A run's steps: with a lease from the first capture of a turn on.            *)
LEMMA RunLease ==
  ASSUME IInv, NEW r \in Runs, RunStep(r), NEW o \in Procs
  PROVE  LeaseInv(o)'
<1>0. TypeOK /\ LeaseInv(r) /\ r \in Procs
  BY LeaseTypes DEF IInv
<1>1. UNCHANGED <<lock, leased>> /\ \A q \in Runs \ {r} : attempt'[q] = attempt[q]
  BY <1>0, LeaseTypes
     DEF RunStep, CallStep, StartRun, NextTurn, BeginCall, Reuse, Capture, Publish, Record,
         CallDenied, Write, Settle, GiveUp, OrphanEnds, AfterCapture, Adopt, AfterFails, Finish,
         SealCheck, SealRef, Seal, NoSeal, EndRun, Forget, Call, run
<1>2. ASSUME pc' = pc, attempt' = attempt PROVE LeaseInv(o)'
  BY <1>1, <1>2 DEF IInv, LeaseInv, Stopped
<1>3. ASSUME NEW stage \in Stages, pc' = [pc EXCEPT ![r] = stage], LeaseInv(r)'
      PROVE  LeaseInv(o)'
  BY <1>0, <1>1, <1>3, SameLease
<1>4. ASSUME NEW stage \in Stages, pc' = [pc EXCEPT ![r] = stage], attempt' = attempt,
             stage \notin {"name", "remove", "over", "gone"}, pc[r] \notin {"remove", "close"},
             stage \in {"ready", "lease", "seal", "sealing", "sealed", "release"} \/ r \in leased,
             ~Stopped(r)
      PROVE  LeaseInv(o)'
  <2>1. pc'[r] = stage
    BY <1>0, <1>4, LeaseTypes
  <2>2. LeaseInv(r)'
    BY <1>0, <1>1, <1>4, <2>1 DEF LeaseInv, Stopped
  <2> QED
    BY <1>3, <1>4, <2>2
<1>5. CASE StartRun(r)
  <2>1. pc[r] = "idle" /\ pc' = [pc EXCEPT ![r] = "ready"] /\ attempt' = attempt
    BY <1>5 DEF StartRun, Goto
  <2> QED
    BY <1>4, <2>1 DEF Stages, Stopped
<1>6. CASE NextTurn(r) \/ (\E p \in Paths : Write(r, p)) \/ OrphanEnds(r)
  BY <1>2, <1>6 DEF NextTurn, Write, OrphanEnds
<1>7. CASE BeginCall(r)
  <2>1. CASE pc' = pc
    BY <1>2, <1>7, <2>1 DEF BeginCall
  <2>2. CASE pc' # pc
    <3>1. /\ pc[r] = "ready" /\ attempt' = attempt
          /\ pc' = [pc EXCEPT ![r] = IF attempt[r] = turn[r] THEN "body"
                                     ELSE IF r \in leased THEN "capture" ELSE "lease"]
      BY <1>7, <2>2 DEF BeginCall, Goto
    <3>2. attempt[r] = turn[r] => r \in leased
      <4>1. turn[r] # 0
        BY <1>0, LeaseTypes, Parameters DEF Turns
      <4> QED
        BY <1>0, <3>1, <4>1 DEF LeaseInv
    <3> QED
      BY <1>4, <3>1, <3>2 DEF Stages, Stopped
  <2> QED
    BY <2>1, <2>2
<1>8. CASE Reuse(r) \/ Record(r)
  <2>1. /\ pc[r] \in {"capture", "record"} /\ pc' = [pc EXCEPT ![r] = "body"]
        /\ r \in leased
    BY <1>0, <1>8 DEF Reuse, Record, Call, Goto, LeaseInv
  <2>2. pc'[r] = "body"
    BY <1>0, <2>1, LeaseTypes
  <2>3. LeaseInv(r)'
    BY <1>0, <1>1, <2>1, <2>2 DEF LeaseInv, Stopped
  <2> QED
    BY <1>3, <2>1, <2>3 DEF Stages
<1>9. CASE Capture(r) \/ Publish(r) \/ CallDenied(r) \/ Settle(r) \/ GiveUp(r)
  <2>1. \E stage \in {"publish", "record", "ready", "settle"} :
          /\ pc' = [pc EXCEPT ![r] = stage] /\ attempt' = attempt
          /\ pc[r] \in {"capture", "publish", "lease", "name", "record", "body"}
          /\ stage = "ready" \/ r \in leased
    BY <1>0, <1>9
       DEF Capture, Publish, CallDenied, Settle, GiveUp, Goto, run, LeaseInv
  <2> QED
    BY <1>4, <2>1 DEF Stages, Stopped
<1>10. CASE AfterCapture(r) \/ Adopt(r) \/ AfterFails(r)
  <2>1. \E stage \in {"adopt", "ready"} :
          /\ pc' = [pc EXCEPT ![r] = stage] /\ attempt' = attempt
          /\ pc[r] \in {"settle", "adopt"} /\ r \in leased
    BY <1>0, <1>10 DEF AfterCapture, Adopt, AfterFails, Goto, LeaseInv
  <2> QED
    BY <1>4, <2>1 DEF Stages, Stopped
<1>11. CASE Finish(r) \/ SealCheck(r) \/ SealRef(r) \/ Seal(r) \/ NoSeal(r)
  <2>1. \E stage \in {"seal", "sealing", "sealed", "release"} :
          /\ pc' = [pc EXCEPT ![r] = stage] /\ attempt' = attempt
          /\ pc[r] \in {"ready", "seal", "sealing", "sealed"}
    BY <1>11 DEF Finish, SealCheck, SealRef, Seal, NoSeal, Goto, run
  <2> QED
    BY <1>4, <2>1 DEF Stages, Stopped
<1>12. CASE EndRun(r)
  <2>1. pc' = [pc EXCEPT ![r] = "over"]
    BY <1>12 DEF EndRun, Goto
  <2>2. pc'[r] = "over"
    BY <1>0, <2>1, LeaseTypes
  <2>3. LeaseInv(r)'
    BY <2>2 DEF LeaseInv, Stopped
  <2> QED
    BY <1>3, <2>1, <2>3 DEF Stages
<1> QED
  BY <1>5, <1>6, <1>7, <1>8, <1>9, <1>10, <1>11, <1>12 DEF RunStep, CallStep

LEMMA UndoLease ==
  ASSUME IInv, NEW u \in Undos, UndoStep(u), NEW o \in Procs
  PROVE  LeaseInv(o)'
<1>0. TypeOK /\ LeaseInv(u) /\ u \in Procs
  BY LeaseTypes DEF IInv
<1>1. UNCHANGED <<lock, leased, attempt>>
  BY DEF UndoStep, BeginUndo, StageFiles, Confirm, Displace, PutBack, Restored, UndoFails,
     EndUndo, run
<1>2. CASE pc' = pc
  BY <1>1, <1>2 DEF IInv, LeaseInv, Stopped
<1>3. CASE pc' # pc
  <2>1. PICK stage \in Stages :
          /\ pc' = [pc EXCEPT ![u] = stage] /\ ~Stopped(u) /\ pc[u] # "remove"
          /\ \/ stage \in {"lease", "release"} /\ pc[u] # "close"
             \/ stage = "over"
             \/ stage \in {"confirm", "install"} /\ pc[u] \in {"stage", "confirm"}
    BY <1>3 DEF UndoStep, BeginUndo, StageFiles, Confirm, Displace, PutBack, Restored,
                UndoFails, EndUndo, Goto, Stages, Stopped
  <2>2. pc'[u] = stage
    BY <1>0, <2>1, LeaseTypes
  <2>3. LeaseInv(u)'
    BY <1>0, <1>1, <2>1, <2>2, UndoAssumption DEF LeaseInv, Stopped
  <2> QED
    BY <1>0, <1>1, <2>1, <2>3, SameLease
<1> QED
  BY <1>2, <1>3

LEMMA AroundLease ==
  ASSUME IInv, NEW o \in Procs,
         (\E p \in Paths : Edit(p)) \/ (\E s \in Sessions : ClearSession(s)) \/ Recover
  PROVE  LeaseInv(o)'
<1>1. UNCHANGED <<pc, leased, attempt>> /\ LeaseInv(o)
  BY DEF Edit, ClearSession, Recover, run, IInv
<1>2. CASE lock' = lock
  BY <1>1, <1>2 DEF LeaseInv, Stopped
<1>3. CASE lock' # lock
  <2>1. Stopped(lock.by)
    BY <1>3 DEF Edit, ClearSession, Recover, LockLeft
  <2>2. pc[o] # "name" /\ ~(o \in leased /\ ~Stopped(o))
    BY <1>1, <2>1 DEF LeaseInv, Stopped
  <2> QED
    BY <1>1, <2>2 DEF LeaseInv, Stopped
<1> QED
  BY <1>2, <1>3
-----------------------------------------------------------------------------
(* What a step leaves to the others: a run's step and an undo's change their   *)
(* own part, and a step on the lease changes the lock, pc and what is forgotten.*)
LEMMA RunFrame ==
  ASSUME TypeOK, NEW r \in Runs, RunStep(r)
  PROVE  /\ \A o \in Procs \ {r} : pc'[o] = pc[o]
         /\ \A q \in Runs \ {r} : /\ sealed'[q] = sealed[q] /\ created'[q] = created[q]
                                  /\ q \in strays' <=> q \in strays
                                  /\ q \in uncertain' <=> q \in uncertain
         /\ UNCHANGED <<goal, todo, half, originals>> /\ (~Stopped(r) \/ UNCHANGED pc)
<1>1. r \in Procs /\ pc \in [Procs -> Stages] /\ sealed \in [Runs -> Trees \cup {NoTree}]
      /\ created \in [Runs -> [Turns -> Trees \cup {NoTree}]]
  BY Parameters DEF TypeOK
<1>2. UNCHANGED <<goal, todo, half, originals>>
  BY DEF RunStep, CallStep, StartRun, NextTurn, BeginCall, Reuse, Capture, Publish, Record,
         CallDenied, Write, Settle, GiveUp, OrphanEnds, AfterCapture, Adopt, AfterFails, Finish,
         SealCheck, SealRef, Seal, NoSeal, EndRun, undo
<1>3. (~Stopped(r) /\ \E stage \in Stages : pc' = [pc EXCEPT ![r] = stage]) \/ pc' = pc
  BY DEF RunStep, CallStep, StartRun, NextTurn, BeginCall, Reuse, Capture, Publish, Record,
         CallDenied, Write, Settle, GiveUp, OrphanEnds, AfterCapture, Adopt, AfterFails, Finish,
         SealCheck, SealRef, Seal, NoSeal, EndRun, Goto, Call, Stages, Stopped
<1>4. \A q \in Runs \ {r} : sealed'[q] = sealed[q] /\ created'[q] = created[q]
  BY <1>1
     DEF RunStep, CallStep, StartRun, NextTurn, BeginCall, Reuse, Capture, Publish, Record,
         CallDenied, Write, Settle, GiveUp, OrphanEnds, AfterCapture, Adopt, AfterFails, Finish,
         SealCheck, SealRef, Seal, NoSeal, EndRun, log
<1>5. \A q \in Runs \ {r} : (q \in strays' <=> q \in strays) /\ (q \in uncertain' <=> q \in uncertain)
  BY DEF RunStep, CallStep, StartRun, NextTurn, BeginCall, Reuse, Capture, Publish, Record,
         CallDenied, Write, Settle, GiveUp, OrphanEnds, AfterCapture, Adopt, AfterFails, Finish,
         SealCheck, SealRef, Seal, NoSeal, EndRun, Doubt, Forget, run
<1> QED
  BY <1>1, <1>2, <1>3, <1>4, <1>5

LEMMA UndoFrame ==
  ASSUME TypeOK, NEW u \in Undos, UndoStep(u)
  PROVE  /\ \A o \in Procs \ {u} : pc'[o] = pc[o]
         /\ UNCHANGED <<latest, closed, created, sealed, strays, uncertain>>
         /\ \A s \in Sessions \ {SessionOf[u]} : sess'[s] = sess[s]
         /\ \A v \in Undos \ {u} : /\ goal'[v] = goal[v] /\ todo'[v] = todo[v]
                                   /\ half'[v] = half[v] /\ originals'[v] = originals[v]
         /\ ~Stopped(u)
<1>1. u \in Procs /\ pc \in [Procs -> Stages] /\ goal \in [Undos -> Turns]
      /\ todo \in [Undos -> SUBSET Paths] /\ half \in [Undos -> Paths \cup {Absent}]
      /\ originals \in [Undos -> Trees] /\ sess \in [Sessions -> Procs \cup {NoProc}]
  BY Parameters DEF TypeOK
<1>2. UNCHANGED <<latest, closed, created, sealed, strays, uncertain>>
  BY DEF UndoStep, BeginUndo, StageFiles, Confirm, Displace, PutBack, Restored, UndoFails,
         EndUndo, log, run
<1>3. ~Stopped(u) /\ ((\E stage \in Stages : pc' = [pc EXCEPT ![u] = stage]) \/ pc' = pc)
  BY DEF UndoStep, BeginUndo, StageFiles, Confirm, Displace, PutBack, Restored, UndoFails,
         EndUndo, Goto, Stages, Stopped
<1>4. \A s \in Sessions \ {SessionOf[u]} : sess'[s] = sess[s]
  BY <1>1
     DEF UndoStep, BeginUndo, StageFiles, Confirm, Displace, PutBack, Restored, UndoFails,
     EndUndo
<1>5. \A v \in Undos \ {u} : /\ goal'[v] = goal[v] /\ todo'[v] = todo[v]
                             /\ half'[v] = half[v] /\ originals'[v] = originals[v]
  BY <1>1
     DEF UndoStep, BeginUndo, StageFiles, Confirm, Displace, PutBack, Restored, UndoFails,
         EndUndo, undo
<1> QED
  BY <1>1, <1>2, <1>3, <1>4, <1>5

LEMMA LeaseFrame ==
  ASSUME TypeOK, NEW q \in Procs, LeaseStep(q)
  PROVE  /\ \A o \in Procs \ {q} : pc'[o] = pc[o]
         /\ UNCHANGED <<latest, closed, created, sealed, strays, sess, goal, todo, half, originals,
                        tree, last>>
         /\ \A o \in Runs \ {q} : o \in uncertain' <=> o \in uncertain
         /\ pc[q] # "idle" /\ ~Stopped(q)
         /\ \/ pc'[q] = "gone"
            \/ /\ UNCHANGED uncertain
               /\ \/ pc[q] = "lease" /\ pc'[q] = "name"
                  \/ pc[q] = "name" /\ pc'[q] \in {"capture", "stage"}
                  \/ pc[q] \in {"release", "remove"} /\ pc'[q] \in {"remove", "close"}
<1>1. pc \in [Procs -> Stages]
  BY DEF TypeOK
<1>2. UNCHANGED <<latest, closed, created, sealed, strays, sess, goal, todo, half, originals,
                  tree, last>>
  BY DEF LeaseStep, MakeLock, NameOwner, Unname, RemoveLock, KeepLock, Crash, run, log, undo,
     seen
<1>3. \A o \in Runs \ {q} : o \in uncertain' <=> o \in uncertain
  BY DEF LeaseStep, MakeLock, NameOwner, Unname, RemoveLock, KeepLock, Crash, Forget, run
<1>4. pc[q] # "idle" /\ ~Stopped(q)
  BY DEF LeaseStep, MakeLock, NameOwner, Unname, RemoveLock, KeepLock, Crash, Stopped
<1>5. \/ pc' = [pc EXCEPT ![q] = "gone"]
      \/ /\ UNCHANGED uncertain
         /\ \/ pc[q] = "lease" /\ pc' = [pc EXCEPT ![q] = "name"]
            \/ /\ pc[q] = "name"
               /\ pc' = [pc EXCEPT ![q] = IF q \in Runs THEN "capture" ELSE "stage"]
            \/ pc[q] = "release" /\ pc' = [pc EXCEPT ![q] = "remove"]
            \/ pc[q] \in {"release", "remove"} /\ pc' = [pc EXCEPT ![q] = "close"]
  BY DEF LeaseStep, MakeLock, NameOwner, Unname, RemoveLock, KeepLock, Crash, Goto, run
<1>6. \A o \in Procs \ {q} : pc'[o] = pc[o]
  BY <1>1, <1>5
<1>7. \/ pc'[q] = "gone"
      \/ /\ UNCHANGED uncertain
         /\ \/ pc[q] = "lease" /\ pc'[q] = "name"
            \/ pc[q] = "name" /\ pc'[q] \in {"capture", "stage"}
            \/ pc[q] \in {"release", "remove"} /\ pc'[q] \in {"remove", "close"}
  BY <1>1, <1>5
<1> QED
  BY <1>2, <1>3, <1>4, <1>6, <1>7

LEMMA AroundFrame ==
  ASSUME (\E p \in Paths : Edit(p)) \/ (\E s \in Sessions : ClearSession(s)) \/ Recover
  PROVE  UNCHANGED <<pc, latest, closed, created, sealed, strays, uncertain, goal, todo, half,
                     originals>>
BY DEF Edit, ClearSession, Recover, run, log, undo
-----------------------------------------------------------------------------
(* Seals and strays.                                                           *)
LEMMA StrayStep ==
  ASSUME IInv, NEW r \in Runs, RunStep(r)
  PROVE  StrayInv(r)'
<1>0. /\ StrayInv(r) /\ r \in Procs /\ pc \in [Procs -> Stages]
      /\ sealed \in [Runs -> Trees \cup {NoTree}]
  BY Parameters DEF IInv, TypeOK
<1>1. ASSUME NEW stage \in Stages, pc' = [pc EXCEPT ![r] = stage],
             UNCHANGED <<sealed, strays>>, stage \notin Ended => pc[r] \notin Ended,
             r \in strays => /\ stage \in {"ready", "seal"} \cup Ended
                             /\ stage \in {"ready", "seal"} => r \in uncertain'
      PROVE  StrayInv(r)'
  <2>1. pc'[r] = stage
    BY <1>0, <1>1
  <2> QED
    BY <1>0, <1>1, <2>1 DEF StrayInv
<1>2. ASSUME pc' = pc, UNCHANGED <<sealed, strays>>, uncertain \subseteq uncertain'
      PROVE  StrayInv(r)'
  BY <1>0, <1>2 DEF StrayInv
<1>3. r \in strays => pc[r] \in {"ready", "seal"} \cup Ended
  BY <1>0 DEF StrayInv
<1>4. CASE StartRun(r) \/ Reuse(r) \/ Capture(r) \/ Publish(r) \/ Record(r) \/ CallDenied(r)
           \/ Settle(r) \/ AfterCapture(r) \/ Adopt(r) \/ AfterFails(r)
  <2>1. r \notin strays
    BY <1>3, <1>4 DEF StartRun, Reuse, Capture, Publish, Record, CallDenied, Settle,
                      AfterCapture, Adopt, AfterFails, Ended
  <2>2. /\ UNCHANGED <<sealed, strays>> /\ pc[r] \notin Ended
        /\ \E stage \in Stages : pc' = [pc EXCEPT ![r] = stage]
    BY <1>4 DEF StartRun, Reuse, Capture, Publish, Record, CallDenied, Settle, AfterCapture,
                Adopt, AfterFails, Call, Goto, log, run, Ended, Stages
  <2> QED
    BY <1>1, <2>1, <2>2
<1>5. CASE NextTurn(r) \/ (\E p \in Paths : Write(r, p)) \/ OrphanEnds(r)
  BY <1>2, <1>5 DEF NextTurn, Write, OrphanEnds, log
<1>6. CASE BeginCall(r)
  <2>1. UNCHANGED <<sealed, strays>> /\ pc[r] = "ready" /\ r \notin uncertain
    BY <1>6 DEF BeginCall, log
  <2>2. r \notin strays
    BY <1>0, <2>1 DEF StrayInv
  <2>3. CASE pc' = pc
    BY <1>0, <2>1, <2>2, <2>3 DEF StrayInv
  <2>4. CASE pc' # pc
    <3>1. pc' = [pc EXCEPT ![r] = IF attempt[r] = turn[r] THEN "body"
                                  ELSE IF r \in leased THEN "capture" ELSE "lease"]
      BY <1>6, <2>4 DEF BeginCall, Goto
    <3> QED
      BY <1>1, <2>1, <2>2, <3>1 DEF Stages, Ended
  <2> QED
    BY <2>3, <2>4
<1>7. CASE GiveUp(r)
  <2>1. /\ UNCHANGED sealed /\ pc[r] = "body" /\ pc' = [pc EXCEPT ![r] = "ready"]
        /\ r \in uncertain'
    BY <1>7 DEF GiveUp, Doubt, Goto, log
  <2>2. pc'[r] = "ready" /\ sealed[r] = NoTree
    BY <1>0, <2>1 DEF StrayInv, Ended
  <2> QED
    BY <1>0, <2>1, <2>2 DEF StrayInv
<1>8. CASE Finish(r) \/ SealCheck(r) \/ SealRef(r)
  <2>1. /\ UNCHANGED <<sealed, strays, uncertain>>
        /\ \/ pc[r] = "ready" /\ pc' = [pc EXCEPT ![r] = "seal"]
           \/ pc[r] = "seal" /\ pc' = [pc EXCEPT ![r] = "sealing"] /\ r \notin uncertain
           \/ pc[r] = "sealing" /\ pc' = [pc EXCEPT ![r] = "sealed"]
    BY <1>8 DEF Finish, SealCheck, SealRef, Goto, log, run
  <2> QED
    BY <1>0, <1>1, <2>1 DEF StrayInv, Stages, Ended
<1>9. CASE Seal(r)
  <2>1. /\ pc[r] = "sealed" /\ pc' = [pc EXCEPT ![r] = "release"] /\ UNCHANGED strays
        /\ r \notin strays
    BY <1>3, <1>9 DEF Seal, Goto, run, Ended
  <2>2. pc'[r] = "release"
    BY <1>0, <2>1
  <2> QED
    BY <2>1, <2>2 DEF StrayInv, Ended
<1>10. CASE NoSeal(r) \/ EndRun(r)
  <2>1. /\ UNCHANGED <<sealed, strays>>
        /\ \E stage \in {"release", "over"} : pc' = [pc EXCEPT ![r] = stage]
    BY <1>10 DEF NoSeal, EndRun, Goto, log, run
  <2> QED
    BY <1>1, <2>1 DEF Stages, Ended
<1> QED
  BY <1>4, <1>5, <1>6, <1>7, <1>8, <1>9, <1>10 DEF RunStep, CallStep

LEMMA StrayKeeps ==
  ASSUME IInv, [Next]_vars, NEW r \in Runs
  PROVE  StrayInv(r)'
<1>0. StrayInv(r) /\ r \in Procs /\ TypeOK
  BY Parameters DEF IInv
<1>1. ASSUME UNCHANGED <<pc, sealed, strays, uncertain>> PROVE StrayInv(r)'
  BY <1>0, <1>1 DEF StrayInv
<1>2. ASSUME pc'[r] = pc[r], sealed'[r] = sealed[r], r \in strays' <=> r \in strays,
             r \in uncertain' <=> r \in uncertain
      PROVE  StrayInv(r)'
  BY <1>0, <1>2 DEF StrayInv
<1>3. ASSUME NEW q \in Procs, LeaseStep(q) PROVE StrayInv(r)'
  <2>1. CASE q # r
    BY <1>0, <1>2, <1>3, <2>1, LeaseFrame
  <2>2. CASE q = r
    <3>1. UNCHANGED <<sealed, strays>>
      BY <1>0, <1>3, LeaseFrame
    <3>2. CASE pc'[r] = "gone"
      BY <1>0, <3>1, <3>2 DEF StrayInv, Ended
    <3>3. CASE pc'[r] # "gone"
      <4>1. \/ pc[r] \in {"lease", "name"} /\ pc'[r] \in {"name", "capture", "stage"}
            \/ pc[r] \in {"release", "remove"} /\ pc'[r] \in {"remove", "close"}
        BY <1>0, <1>3, <2>2, <3>3, LeaseFrame
      <4> QED
        BY <1>0, <3>1, <4>1 DEF StrayInv, Ended
    <3> QED
      BY <3>2, <3>3
  <2> QED
    BY <2>1, <2>2
<1>4. ASSUME NEW q \in Runs, RunStep(q) PROVE StrayInv(r)'
  BY <1>0, <1>2, <1>4, RunFrame, StrayStep
<1>5. ASSUME NEW u \in Undos, UndoStep(u) PROVE StrayInv(r)'
  <2>1. r # u
    BY UndoAssumption
  <2> QED
    BY <1>0, <1>2, <1>5, <2>1, UndoFrame
<1>6. CASE (\E p \in Paths : Edit(p)) \/ (\E s \in Sessions : ClearSession(s)) \/ Recover
  BY <1>1, <1>6, AroundFrame
<1>7. CASE UNCHANGED vars
  BY <1>1, <1>7 DEF vars, log, run
<1> QED
  BY <1>3, <1>4, <1>5, <1>6, <1>7 DEF Next, Quiet
-----------------------------------------------------------------------------
(* Who has a session.                                                          *)
LEMMA RunLog ==
  ASSUME TypeOK, NEW r \in Runs, RunStep(r)
  PROVE  StartRun(r) \/ EndRun(r) \/ (Active(r) /\ UNCHANGED <<sess, latest, closed>>)
                     \/ UNCHANGED <<pc, sess, latest, closed, created, sealed>>
BY DEF RunStep, CallStep, NextTurn, BeginCall, Reuse, Capture, Publish, Record,
       CallDenied, Write, Settle, GiveUp, OrphanEnds, AfterCapture, Adopt, AfterFails, Finish,
       SealCheck, SealRef, Seal, NoSeal, Active, log

LEMMA StoppedStays ==
  ASSUME TypeOK, [Next]_vars, NEW q \in Procs, Stopped(q)
  PROVE  Stopped(q)'
<1>1. CASE \E o \in Procs : LeaseStep(o)
  BY <1>1, LeaseFrame DEF Stopped
<1>2. CASE \E r \in Runs : RunStep(r)
  BY <1>2, RunFrame DEF Stopped
<1>3. CASE \E u \in Undos : UndoStep(u)
  BY <1>3, UndoFrame DEF Stopped
<1>4. CASE (\E p \in Paths : Edit(p)) \/ (\E s \in Sessions : ClearSession(s)) \/ Recover
  BY <1>4, AroundFrame DEF Stopped
<1>5. CASE UNCHANGED vars
  BY <1>5 DEF vars, Stopped
<1> QED
  BY <1>1, <1>2, <1>3, <1>4, <1>5 DEF Next, Quiet

LEMMA RunsKeep ==
  ASSUME IInv, [Next]_vars
  PROVE  ClosedInv' /\ \A r \in Runs : RunInv(r)'
<1>0. /\ TypeOK /\ Runs \subseteq Procs /\ pc \in [Procs -> Stages] /\ closed \in [Sessions -> BOOLEAN]
      /\ latest \in [Sessions -> Runs \cup {NoProc}] /\ SessionOf \in [Procs -> Sessions]
      /\ NoProc \notin Runs
  BY UndoAssumption, Parameters DEF IInv, TypeOK
<1>1. \A r \in Runs : RunInv(r)
  BY DEF IInv
<1>2. ASSUME UNCHANGED <<latest, closed>>, \A r \in Runs : Active(r)' => Active(r)
      PROVE  ClosedInv' /\ \A r \in Runs : RunInv(r)'
  <2>1. ASSUME NEW r \in Runs PROVE RunInv(r)'
    <3>1. \A q \in Runs : Stopped(q) => Stopped(q)'
      BY <1>0, StoppedStays
    <3> QED
      BY <1>1, <1>2, <3>1 DEF RunInv
  <2> QED
    BY <1>2, <2>1 DEF IInv, ClosedInv
<1>3. ASSUME NEW o \in Procs, LeaseStep(o) PROVE ClosedInv' /\ \A r \in Runs : RunInv(r)'
  BY <1>0, <1>2, <1>3, LeaseFrame DEF Active, Stopped
<1>4. ASSUME NEW u \in Undos, UndoStep(u) PROVE ClosedInv' /\ \A r \in Runs : RunInv(r)'
  BY <1>0, <1>2, <1>4, UndoFrame, UndoAssumption DEF Active, Stopped
<1>5. ASSUME NEW r \in Runs, StartRun(r) PROVE ClosedInv' /\ \A q \in Runs : RunInv(q)'
  <2>1. /\ latest' = [latest EXCEPT ![SessionOf[r]] = r] /\ pc' = [pc EXCEPT ![r] = "ready"]
        /\ closed' = [closed EXCEPT ![SessionOf[r]] = FALSE] /\ pc[r] = "idle"
        /\ \A q \in Runs : SessionOf[q] = SessionOf[r] /\ RunNo[q] < RunNo[r] => Stopped(q)
    BY <1>5 DEF StartRun, Goto
  <2>2. \A q \in Procs : Stopped(q) => Stopped(q)'
    BY <1>0, StoppedStays
  <2>3. RunInv(r)'
    BY <1>0, <2>1, <2>2 DEF RunInv
  <2>4. ASSUME NEW q \in Runs, q # r, SessionOf[q] = SessionOf[r] PROVE ~Active(q)
    <3>1. RunNo[q] \in Nat /\ RunNo[r] \in Nat /\ RunNo[q] # RunNo[r]
      BY <2>4, UndoAssumption
    <3>2. CASE RunNo[q] < RunNo[r]
      BY <2>1, <2>4, <3>2 DEF Active, Stopped
    <3>3. CASE RunNo[r] < RunNo[q]
      BY <1>1, <2>1, <2>4, <3>3 DEF RunInv, Stopped
    <3> QED
      BY <3>1, <3>2, <3>3
  <2>5. ASSUME NEW q \in Runs, q # r PROVE RunInv(q)'
    <3>1. Active(q)' <=> Active(q)
      BY <1>0, <2>1, <2>5 DEF Active
    <3>2. CASE SessionOf[q] = SessionOf[r]
      BY <2>4, <2>5, <3>1, <3>2 DEF RunInv
    <3>3. CASE SessionOf[q] # SessionOf[r]
      <4>1. latest'[SessionOf[q]] = latest[SessionOf[q]] /\ closed'[SessionOf[q]] = closed[SessionOf[q]]
        BY <1>0, <2>1, <3>3
      <4> QED
        BY <1>0, <1>1, <2>2, <3>1, <4>1 DEF RunInv
    <3> QED
      BY <3>2, <3>3
  <2>6. ClosedInv'
    BY <1>0, <2>1 DEF IInv, ClosedInv
  <2> QED
    BY <2>3, <2>5, <2>6
<1>6. ASSUME NEW r \in Runs, EndRun(r) PROVE ClosedInv' /\ \A q \in Runs : RunInv(q)'
  <2>1. /\ latest' = latest /\ pc' = [pc EXCEPT ![r] = "over"]
        /\ closed' = [closed EXCEPT ![SessionOf[r]] = TRUE] /\ Active(r)
    BY <1>6 DEF EndRun, Goto, Active
  <2>2. \A q \in Procs : Stopped(q) => Stopped(q)'
    BY <1>0, StoppedStays
  <2>3. latest[SessionOf[r]] = r
    BY <1>1, <2>1 DEF RunInv
  <2>4. ClosedInv'
    BY <1>0, <2>1, <2>3 DEF IInv, ClosedInv
  <2>5. ASSUME NEW q \in Runs, Active(q)' PROVE RunInv(q)'
    <3>1. q # r /\ Active(q)
      BY <1>0, <2>1, <2>5 DEF Active
    <3>2. SessionOf[q] # SessionOf[r]
      BY <1>1, <2>3, <3>1 DEF RunInv
    <3>3. closed'[SessionOf[q]] = closed[SessionOf[q]]
      BY <1>0, <2>1, <3>2
    <3> QED
      BY <1>0, <1>1, <2>1, <2>2, <3>1, <3>3 DEF RunInv
  <2> QED
    BY <2>4, <2>5 DEF RunInv
<1>7. ASSUME NEW r \in Runs, RunStep(r) PROVE ClosedInv' /\ \A q \in Runs : RunInv(q)'
  <2>1. CASE StartRun(r) \/ EndRun(r)
    BY <1>5, <1>6, <2>1
  <2>2. CASE Active(r) /\ UNCHANGED <<sess, latest, closed>>
    BY <1>0, <1>2, <1>7, <2>2, RunFrame DEF Active
  <2>3. CASE UNCHANGED <<pc, sess, latest, closed, created, sealed>>
    BY <1>2, <2>3 DEF Active
  <2> QED
    BY <1>0, <1>7, <2>1, <2>2, <2>3, RunLog
<1>8. CASE (\E p \in Paths : Edit(p)) \/ (\E s \in Sessions : ClearSession(s)) \/ Recover
  BY <1>2, <1>8, AroundFrame DEF Active
<1>9. CASE UNCHANGED vars
  BY <1>2, <1>9 DEF vars, log, Active
<1> QED
  BY <1>3, <1>4, <1>7, <1>8, <1>9 DEF Next, Quiet

(* What an undo under way read in the log stays as it was, and the session     *)
(* stays the undo's up to its end.                                             *)
LEMMA AimFixed ==
  ASSUME IInv, [Next]_vars, NEW u \in Undos, Active(u)
  PROVE  /\ SealOf(u)' = SealOf(u) /\ Target(u)' = Target(u) /\ Changed(u)' = Changed(u)
         /\ closed[SessionOf[u]]' /\ (EndUndo(u) \/ sess[SessionOf[u]]' = u)
<1> DEFINE s == SessionOf[u]
           Fixed == /\ latest'[s] = latest[s] /\ goal'[u] = goal[u]
                    /\ created'[latest[s]] = created[latest[s]]
                    /\ sealed'[latest[s]] = sealed[latest[s]]
                    /\ closed'[s] /\ (EndUndo(u) \/ sess'[s] = u)
<1>0. /\ TypeOK /\ u \in Procs /\ s \in Sessions /\ pc \in [Procs -> Stages] /\ pc[u] # "gone"
      /\ sess[s] = u /\ closed[s] /\ latest[s] # NoProc
      /\ latest \in [Sessions -> Runs \cup {NoProc}] /\ Runs \subseteq Procs
      /\ closed \in [Sessions -> BOOLEAN] /\ sess \in [Sessions -> Procs \cup {NoProc}]
      /\ SessionOf \in [Procs -> Sessions] /\ goal \in [Undos -> Turns] /\ NoProc \notin Procs
      /\ Runs \cap Undos = {}
  BY UndoAssumption, Parameters DEF IInv, AimInv, ClosedInv, TypeOK, Active
<1> SUFFICES Fixed
  BY DEF SealOf, Target, Changed
<1>1. ASSUME NEW q \in Procs, LeaseStep(q) PROVE Fixed
  BY <1>0, <1>1, LeaseFrame
<1>2. ASSUME NEW r \in Runs, RunStep(r) PROVE Fixed
  <2>1. goal' = goal
    BY <1>0, <1>2, RunFrame
  <2>2. CASE StartRun(r)
    <3>1. SessionOf[r] # s
      BY <1>0, <2>2 DEF StartRun
    <3> QED
      BY <1>0, <2>1, <2>2, <3>1 DEF StartRun
  <2>3. CASE Active(r)
    <3>1. latest[s] # r /\ SessionOf[r] # s
      BY <1>0, <2>3 DEF IInv, RunInv, TypeOK
    <3>2. latest' = latest /\ closed'[s] = closed[s] /\ sess'[s] = sess[s]
      BY <1>0, <1>2, <2>3, <3>1, RunLog DEF StartRun, EndRun, Active
    <3> QED
      BY <1>0, <1>2, <2>1, <3>1, <3>2, RunFrame
  <2>4. CASE UNCHANGED <<pc, sess, latest, closed, created, sealed>>
    BY <1>0, <2>1, <2>4
  <2> QED
    BY <1>0, <1>2, <2>2, <2>3, <2>4, RunLog DEF EndRun, Active
<1>3. ASSUME NEW v \in Undos, UndoStep(v) PROVE Fixed
  <2>1. UNCHANGED <<latest, closed, created, sealed>>
    BY <1>0, <1>3, UndoFrame
  <2>2. CASE v # u
    <3>1. CASE SessionOf[v] # s
      BY <1>0, <1>3, <2>1, <2>2, <3>1, UndoFrame
    <3>2. CASE SessionOf[v] = s
      <4>1. ~Active(v)
        BY <1>0, <2>2, <3>2 DEF IInv, AimInv
      <4>2. sess' = sess
        BY <1>0, <1>3, <3>2, <4>1
           DEF UndoStep, BeginUndo, StageFiles, Confirm, Displace, PutBack, Restored, UndoFails,
               EndUndo, Active
      <4> QED
        BY <1>0, <1>3, <2>1, <2>2, <4>2, UndoFrame
    <3> QED
      BY <3>1, <3>2
  <2>3. CASE v = u
    <3>1. goal' = goal /\ (EndUndo(u) \/ sess' = sess)
      BY <1>0, <1>3, <2>3
         DEF UndoStep, BeginUndo, StageFiles, Confirm, Displace, PutBack, Restored, UndoFails,
             EndUndo, undo, Active
    <3> QED
      BY <1>0, <2>1, <3>1
  <2> QED
    BY <2>2, <2>3
<1>4. CASE (\E p \in Paths : Edit(p)) \/ Recover
  <2>1. UNCHANGED <<latest, closed, created, sealed, goal, sess>>
    BY <1>4 DEF Edit, Recover, log, undo
  <2> QED
    BY <1>0, <2>1
<1>5. ASSUME NEW t \in Sessions, ClearSession(t) PROVE Fixed
  BY <1>0, <1>5 DEF ClearSession, log, undo
<1>6. CASE UNCHANGED vars
  BY <1>0, <1>6 DEF vars, undo, log
<1> QED
  BY <1>1, <1>2, <1>3, <1>4, <1>5, <1>6 DEF Next, Quiet

LEMMA AimKeeps ==
  ASSUME IInv, [Next]_vars, NEW u \in Undos
  PROVE  AimInv(u)'
<1> DEFINE s == SessionOf[u]
<1>0. /\ TypeOK /\ u \in Procs /\ s \in Sessions /\ pc \in [Procs -> Stages] /\ AimInv(u)
      /\ sess \in [Sessions -> Procs \cup {NoProc}] /\ goal \in [Undos -> Turns]
      /\ u \notin Runs
  BY UndoAssumption, Parameters DEF IInv, TypeOK
<1>1. CASE EndUndo(u)
  <2>1. pc'[u] = "over"
    BY <1>0, <1>1 DEF EndUndo, Goto
  <2> QED
    BY <2>1 DEF AimInv, Active
<1>2. CASE Active(u) /\ ~EndUndo(u)
  BY <1>0, <1>2, AimFixed DEF AimInv
<1>3. ASSUME NEW t \in Turns, BeginUndo(u, t) PROVE AimInv(u)'
  <2>1. /\ closed[s] /\ sealed[latest[s]] # NoTree /\ created[latest[s]][t] # NoTree
        /\ sess' = [sess EXCEPT ![s] = u] /\ goal' = [goal EXCEPT ![u] = t]
        /\ UNCHANGED <<latest, closed, created, sealed>>
    BY <1>3 DEF BeginUndo, log
  <2>2. sess'[s] = u /\ goal'[u] = t
    BY <1>0, <2>1
  <2> QED
    BY <2>1, <2>2 DEF AimInv, SealOf, Target
<1>4. CASE ~Active(u) /\ ~\E t \in Turns : BeginUndo(u, t)
  <2>1. ~UndoStep(u)
    BY <1>4 DEF UndoStep, StageFiles, Confirm, Displace, PutBack, Restored, UndoFails, EndUndo,
                Active
  <2>2. Active(u)' => Active(u)
    <3>1. ASSUME NEW q \in Procs, LeaseStep(q) PROVE Active(u)' => Active(u)
      BY <1>0, <3>1, LeaseFrame DEF Active, Stopped
    <3>2. ASSUME NEW r \in Runs, RunStep(r) PROVE pc'[u] = pc[u]
      BY <1>0, <3>2, RunFrame
    <3>3. ASSUME NEW v \in Undos, UndoStep(v) PROVE pc'[u] = pc[u]
      BY <1>0, <2>1, <3>3, UndoFrame
    <3>4. CASE (\E p \in Paths : Edit(p)) \/ (\E t \in Sessions : ClearSession(t)) \/ Recover
      BY <3>4, AroundFrame DEF Active
    <3>5. CASE UNCHANGED vars
      BY <3>5 DEF vars, Active
    <3> QED
      BY <3>1, <3>2, <3>3, <3>4, <3>5 DEF Next, Quiet, Active
  <2> QED
    BY <1>4, <2>2 DEF AimInv
<1> QED
  BY <1>1, <1>2, <1>3, <1>4
-----------------------------------------------------------------------------
(* What is aside.                                                              *)
LEMMA AsideStep ==
  ASSUME IInv, NEW u \in Undos, UndoStep(u)
  PROVE  AsideInv(u)'
<1>0. /\ TypeOK /\ u \in Procs /\ pc \in [Procs -> Stages] /\ AsideInv(u)
      /\ todo \in [Undos -> SUBSET Paths] /\ half \in [Undos -> Paths \cup {Absent}]
      /\ originals \in [Undos -> Trees] /\ Absent \notin Paths
  BY UndoAssumption, Parameters DEF IInv, TypeOK
<1>1. ASSUME UNCHANGED <<todo, half, originals>>,
             pc'[u] \in {"idle", "lease", "name", "stage", "confirm"} =>
               pc[u] \in {"idle", "lease", "name", "stage", "confirm"}
      PROVE  AsideInv(u)'
  BY <1>0, <1>1 DEF AsideInv
<1>2. CASE (\E t \in Turns : BeginUndo(u, t)) \/ StageFiles(u) \/ Restored(u) \/ UndoFails(u)
           \/ EndUndo(u)
  <2>1. /\ UNCHANGED <<todo, half, originals>>
        /\ \/ pc[u] = "idle" /\ pc' = [pc EXCEPT ![u] = "lease"]
           \/ pc[u] = "stage" /\ pc' = [pc EXCEPT ![u] = "confirm"]
           \/ pc' = [pc EXCEPT ![u] = "release"]
           \/ pc' = [pc EXCEPT ![u] = "over"]
    BY <1>2 DEF BeginUndo, StageFiles, Restored, UndoFails, EndUndo, Goto, undo
  <2> QED
    BY <1>0, <1>1, <2>1
<1>3. CASE Confirm(u)
  <2>1. /\ pc[u] = "confirm" /\ pc' = [pc EXCEPT ![u] = "install"] /\ UNCHANGED <<half, originals>>
        /\ todo' = [todo EXCEPT ![u] = Changed(u)]
    BY <1>3 DEF Confirm, Goto
  <2>2. pc'[u] = "install" /\ todo'[u] \subseteq Paths
    BY <1>0, <2>1 DEF Changed
  <2>3. \A p \in Paths : originals[u][p] = Absent
    BY <1>0, <2>1 DEF AsideInv
  <2> QED
    BY <2>1, <2>2, <2>3 DEF AsideInv
<1>4. ASSUME NEW p \in Paths, Displace(u, p) PROVE AsideInv(u)'
  <2>1. /\ pc[u] = "install" /\ pc' = pc /\ half[u] = Absent /\ p \in todo[u]
        /\ originals' = [originals EXCEPT ![u][p] = tree[p]]
        /\ \/ todo' = [todo EXCEPT ![u] = @ \ {p}] /\ half' = half
           \/ half' = [half EXCEPT ![u] = p] /\ todo' = todo
    BY <1>4 DEF Displace
  <2>2. ASSUME NEW x \in todo'[u], half'[u] # x PROVE originals'[u][x] = Absent
    <3>1. x \in todo[u] /\ x # p
      BY <1>0, <2>1, <2>2
    <3>2. originals'[u][x] = originals[u][x]
      BY <1>0, <2>1, <3>1 DEF Trees
    <3>3. half[u] # x
      BY <1>0, <2>1, <3>1
    <3> QED
      BY <1>0, <3>1, <3>2, <3>3 DEF AsideInv
  <2> QED
    BY <2>1, <2>2 DEF AsideInv
<1>5. ASSUME NEW p \in Paths, PutBack(u, p) PROVE AsideInv(u)'
  <2>1. /\ pc[u] = "install" /\ pc' = pc /\ half[u] \in {Absent, p} /\ originals' = originals
        /\ todo' = [todo EXCEPT ![u] = @ \ {p}] /\ half' = [half EXCEPT ![u] = Absent]
    BY <1>5 DEF PutBack
  <2>2. ASSUME NEW x \in todo'[u] PROVE originals[u][x] = Absent
    <3>1. x \in todo[u] /\ x # p /\ half[u] # x
      BY <1>0, <2>1, <2>2
    <3> QED
      BY <1>0, <3>1 DEF AsideInv
  <2> QED
    BY <2>1, <2>2 DEF AsideInv
<1> QED
  BY <1>2, <1>3, <1>4, <1>5 DEF UndoStep

LEMMA AsideKeeps ==
  ASSUME IInv, [Next]_vars, NEW u \in Undos
  PROVE  AsideInv(u)'
<1>0. TypeOK /\ AsideInv(u) /\ u \in Procs
  BY Parameters DEF IInv
<1>1. ASSUME todo'[u] = todo[u], half'[u] = half[u], originals'[u] = originals[u],
             pc'[u] \in {"idle", "lease", "name", "stage", "confirm"} =>
               pc[u] \in {"idle", "lease", "name", "stage", "confirm"}
      PROVE  AsideInv(u)'
  BY <1>0, <1>1 DEF AsideInv
<1>2. ASSUME NEW q \in Procs, LeaseStep(q) PROVE AsideInv(u)'
  BY <1>0, <1>1, <1>2, LeaseFrame
<1>3. ASSUME NEW r \in Runs, RunStep(r) PROVE AsideInv(u)'
  <2>1. r # u
    BY UndoAssumption
  <2> QED
    BY <1>0, <1>1, <1>3, <2>1, RunFrame
<1>4. ASSUME NEW v \in Undos, UndoStep(v) PROVE AsideInv(u)'
  <2>1. CASE v = u
    BY <1>4, <2>1, AsideStep
  <2>2. CASE v # u
    BY <1>0, <1>1, <1>4, <2>2, UndoFrame
  <2> QED
    BY <2>1, <2>2
<1>5. CASE (\E p \in Paths : Edit(p)) \/ (\E s \in Sessions : ClearSession(s)) \/ Recover
  BY <1>1, <1>5, AroundFrame
<1>6. CASE UNCHANGED vars
  BY <1>1, <1>6 DEF vars, undo
<1> QED
  BY <1>2, <1>3, <1>4, <1>5, <1>6 DEF Next, Quiet

(* A file is at its path or aside: what is moved aside replaces nothing that   *)
(* is aside, and what is put back meets an empty path.                         *)
LEMMA DestroysNothing ==
  ASSUME IInv, [Next]_vars
  PROVE  NothingDestroyed'
<1>0. /\ TypeOK /\ NothingDestroyed /\ tree \in [Paths -> Texts \cup {Absent}]
      /\ last \in [Paths -> Texts \cup {Absent}] /\ originals \in [Undos -> Trees]
  BY DEF IInv, TypeOK, Trees
<1>1. ASSUME UNCHANGED <<tree, last, originals>> PROVE NothingDestroyed'
  BY <1>0, <1>1 DEF NothingDestroyed
<1>2. ASSUME NEW q, NEW n, NEW p \in Paths, NEW text, Put(q, n, p, text), UNCHANGED originals
      PROVE  NothingDestroyed'
  <2>1. tree' = [tree EXCEPT ![p] = text] /\ last' = [last EXCEPT ![p] = text]
    BY <1>2 DEF Put
  <2>2. ASSUME NEW x \in Paths
        PROVE  \/ last'[x] \in {Absent, tree'[x]}
               \/ \E u \in Undos : originals'[u][x] = last'[x]
    <3>1. CASE x = p
      BY <1>0, <2>1, <3>1
    <3>2. CASE x # p
      BY <1>0, <1>2, <2>1, <3>2 DEF NothingDestroyed
    <3> QED
      BY <3>1, <3>2
  <2> QED
    BY <2>2 DEF NothingDestroyed
<1>3. ASSUME NEW o \in Procs, LeaseStep(o) PROVE NothingDestroyed'
  BY <1>0, <1>1, <1>3, LeaseFrame
<1>4. ASSUME NEW r \in Runs, RunStep(r) PROVE NothingDestroyed'
  <2>1. CASE \E p \in Paths : Write(r, p)
    BY <1>2, <2>1 DEF Write, undo
  <2>2. CASE ~(\E p \in Paths : Write(r, p))
    <3>1. UNCHANGED <<tree, last, originals>>
      BY <1>4, <2>2
         DEF RunStep, CallStep, StartRun, NextTurn, BeginCall, Reuse, Capture, Publish, Record,
             CallDenied, Settle, GiveUp, OrphanEnds, AfterCapture, Adopt, AfterFails, Finish,
             SealCheck, SealRef, Seal, NoSeal, EndRun, undo, seen
    <3> QED
      BY <1>1, <3>1
  <2> QED
    BY <2>1, <2>2
<1>5. ASSUME NEW u \in Undos, NEW p \in Paths, Displace(u, p) PROVE NothingDestroyed'
  <2>1. /\ tree' = [tree EXCEPT ![p] = Absent] /\ last' = last
        /\ originals' = [originals EXCEPT ![u][p] = tree[p]] /\ tree[p] # Absent
        /\ p \in todo[u] /\ half[u] = Absent
    BY <1>5 DEF Displace, seen
  <2>2. originals[u][p] = Absent
    BY <2>1, UndoAssumption DEF IInv, AsideInv
  <2>3. originals'[u][p] = tree[p]
    BY <1>0, <2>1 DEF Trees
  <2>4. \A v \in Undos : originals[v][p] # Absent => originals'[v][p] = originals[v][p]
    BY <1>0, <2>1, <2>2
  <2>5. \A x \in Paths \ {p} : tree'[x] = tree[x] /\ \A v \in Undos : originals'[v][x] = originals[v][x]
    BY <1>0, <2>1 DEF Trees
  <2>6. ASSUME NEW x \in Paths
        PROVE  \/ last[x] \in {Absent, tree'[x]}
               \/ \E v \in Undos : originals'[v][x] = last[x]
    BY <1>0, <2>3, <2>4, <2>5 DEF NothingDestroyed
  <2> QED
    BY <2>1, <2>6 DEF NothingDestroyed
<1>6. ASSUME NEW u \in Undos, NEW p \in Paths, PutBack(u, p) PROVE NothingDestroyed'
  <2>1. /\ tree' = [tree EXCEPT ![p] = Target(u)[p]] /\ tree[p] = Absent
        /\ UNCHANGED <<last, originals>>
    BY <1>6 DEF PutBack, Vacant, seen
  <2>2. \A x \in Paths : tree[x] # Absent => tree'[x] = tree[x]
    BY <1>0, <2>1
  <2> QED
    BY <1>0, <2>1, <2>2 DEF NothingDestroyed
<1>7. ASSUME NEW u \in Undos, UndoStep(u) PROVE NothingDestroyed'
  <2>1. CASE \E p \in Paths : Displace(u, p) \/ PutBack(u, p)
    BY <1>5, <1>6, <2>1
  <2>2. CASE ~(\E p \in Paths : Displace(u, p) \/ PutBack(u, p))
    <3>1. UNCHANGED <<tree, last, originals>>
      BY <1>7, <2>2 DEF UndoStep, BeginUndo, StageFiles, Confirm, Restored, UndoFails, EndUndo,
                        undo, seen
    <3> QED
      BY <1>1, <3>1
  <2> QED
    BY <2>1, <2>2
<1>8. ASSUME NEW p \in Paths, Edit(p) PROVE NothingDestroyed'
  BY <1>2, <1>8 DEF Edit, undo
<1>9. CASE (\E s \in Sessions : ClearSession(s)) \/ Recover \/ UNCHANGED vars
  <2>1. UNCHANGED <<tree, last, originals>>
    BY <1>9 DEF ClearSession, Recover, vars, undo, seen
  <2> QED
    BY <1>1, <2>1
<1> QED
  BY <1>3, <1>4, <1>7, <1>8, <1>9 DEF Next, Quiet
-----------------------------------------------------------------------------
LEMMA InitInv == Init => IInv
<1> SUFFICES ASSUME Init PROVE IInv
  OBVIOUS
<1>1. PICK c \in Casts : /\ writes = [r \in Runs |-> c.writes]
                         /\ pc = [q \in Procs |-> IF q \in c.who THEN "idle" ELSE "over"]
                         /\ cast = c /\ edits = c.edits /\ crashes = c.crashes
  BY DEF Init
<1>2. \A q \in Procs : pc[q] \in {"idle", "over"}
  BY <1>1
<1>3. TypeOK
  <2>1. /\ pc \in [Procs -> Stages] /\ cast \in Casts
        /\ writes \in [Runs -> 0..cast.writes]
        /\ edits \in 0..cast.edits /\ crashes \in 0..cast.crashes
    BY <1>1, UndoAssumption DEF Stages
  <2>2. 1 \in Turns /\ 0 \in 0..MaxTurns
    <3>1. c.turns \in 1..MaxTurns /\ MaxTurns \in Nat
      BY Parameters
    <3> QED
      BY <3>1 DEF Turns
  <2>3. /\ turn \in [Runs -> Turns] /\ attempt \in [Runs -> 0..MaxTurns]
        /\ completed \in [Sessions -> 0..MaxTurns] /\ goal \in [Undos -> Turns]
        /\ closed \in [Sessions -> BOOLEAN]
    BY <2>2 DEF Init
  <2>4. /\ tree \in Trees /\ last \in [Paths -> Texts \cup {Absent}]
        /\ originals \in [Undos -> Trees] /\ half \in [Undos -> Paths \cup {Absent}]
        /\ todo \in [Undos -> SUBSET Paths]
    BY UndoAssumption DEF Init, Trees
  <2>5. /\ refs \in [Sessions -> [Turns -> Trees \cup {NoTree}]]
        /\ created \in [Runs -> [Turns -> Trees \cup {NoTree}]]
        /\ seals \in [Sessions -> SUBSET Turns] /\ sealed \in [Runs -> Trees \cup {NoTree}]
        /\ owned \in [Runs -> Trees \cup {NoTree}] /\ taken \in [Runs -> Trees \cup {NoTree}]
    BY DEF Init, None
  <2>6. /\ sess \in [Sessions -> Procs \cup {NoProc}] /\ latest \in [Sessions -> Runs \cup {NoProc}]
        /\ \A s \in Sessions : sess[s] = NoProc /\ latest[s] = NoProc
        /\ lock \in [by : Procs \cup {NoProc}, named : BOOLEAN] /\ ~lock.named
    BY DEF Init, NoLock
  <2>7. /\ leased \subseteq Procs /\ uncertain \subseteq Runs /\ orphan \subseteq Runs
        /\ strays \subseteq Runs /\ made = {}
    BY DEF Init
  <2> QED
    BY <2>1, <2>3, <2>4, <2>5, <2>6, <2>7 DEF TypeOK
<1>4. ASSUME NEW q \in Procs PROVE LeaseInv(q)
  <2>1. q \notin leased /\ (q \in Runs => attempt[q] = 0)
    BY DEF Init
  <2> QED
    BY <1>2, <2>1 DEF LeaseInv
<1>5. ASSUME NEW r \in Runs PROVE StrayInv(r) /\ RunInv(r)
  BY <1>2, Parameters DEF Init, StrayInv, RunInv, Active
<1>6. ASSUME NEW u \in Undos PROVE AimInv(u) /\ AsideInv(u)
  BY <1>2, Parameters DEF Init, AimInv, AsideInv, Active
<1>7. ClosedInv /\ NothingDestroyed
  BY DEF Init, ClosedInv, NothingDestroyed
<1> QED
  BY <1>3, <1>4, <1>5, <1>6, <1>7 DEF IInv

LEMMA TypeNext == IInv /\ [Next]_vars => TypeOK'
<1> SUFFICES ASSUME IInv, [Next]_vars PROVE TypeOK'
  OBVIOUS
<1>0. TypeOK
  BY DEF IInv
<1>1. CASE UNCHANGED vars
  BY <1>0, <1>1 DEF vars, run, undo, log, budget, seen, git, TypeOK
<1> QED
  BY <1>0, <1>1, LeaseType, RunType, UndoType, AroundType DEF Next, Quiet

LEMMA InvNext == IInv /\ [Next]_vars => IInv'
<1> SUFFICES ASSUME IInv, [Next]_vars PROVE IInv'
  OBVIOUS
<1>1. ASSUME NEW o \in Procs PROVE LeaseInv(o)'
  <2>1. CASE UNCHANGED vars
    BY <2>1 DEF vars, run, IInv, LeaseInv, Stopped
  <2> QED
    BY <2>1, LeaseStepKeeps, RunLease, UndoLease, AroundLease DEF Next, Quiet
<1> QED
  BY <1>1, TypeNext, StrayKeeps, RunsKeep, AimKeeps, AsideKeeps, DestroysNothing DEF IInv
-----------------------------------------------------------------------------
(* The inductive invariant holds: who works on the files has the lease, and an *)
(* undo has its session.                                                       *)
THEOREM UndoInvariant == Spec => []IInv
BY InitInv, InvNext, PTL DEF Spec

(* At most one process works on the worktree's files, for any number of runs,  *)
(* undos, deaths and recovered locks.                                          *)
THEOREM UndoExcludes == Spec => []LeaseExcludes
<1>1. IInv => LeaseExcludes
  <2> SUFFICES ASSUME IInv, NEW q \in Procs, NEW o \in Procs,
                      {pc[q], pc[o]} \subseteq {"capture", "publish", "record", "body", "settle",
                                                "confirm", "install"}
               PROVE  q = o
    BY DEF LeaseExcludes
  <2>1. lock.by = q /\ lock.by = o
    BY DEF IInv, LeaseInv, Stopped
  <2> QED
    BY <2>1
<1> QED
  BY <1>1, UndoInvariant, PTL

(* A run that gave up a call never seals.                                      *)
THEOREM UndoSeals == Spec => []SealIsCertain
<1>1. IInv => SealIsCertain
  BY DEF IInv, StrayInv, SealIsCertain, TypeOK
<1> QED
  BY <1>1, UndoInvariant, PTL

(* Nothing that anybody wrote is destroyed by an undo, wherever it stops.      *)
THEOREM UndoDestroysNothing == Spec => []NothingDestroyed
<1>1. IInv => NothingDestroyed
  BY DEF IInv
<1> QED
  BY <1>1, UndoInvariant, PTL
-----------------------------------------------------------------------------
(* Whose writes an undo moves.                                                 *)
(* Somebody wrote this while calls were under way; or a call of the session    *)
(* did, in turn n or later.                                                    *)
Anyones(m, p, text) == \E w \in m : w.path = p /\ w.text = text /\ w.by = User
Recorded(m, s, n, p, text) ==
  \E w \in m : w.path = p /\ w.text = text /\ (w.by = User \/ (w.by = s /\ w.turn >= n))

(* A tree differs from a checkpoint of turn n only by what calls wrote since.  *)
Owns(m, s, n, base, x) ==
  x # NoTree /\ \A p \in Paths : x[p] # base[p] => Recorded(m, s, n, p, x[p])

InCall == {"capture", "publish", "record", "body", "settle"}

(* Between the capture and its record, only what is anybody's can appear.      *)
TakenInv(r) ==
  /\ pc[r] \in {"publish", "record"} =>
       /\ taken[r] # NoTree
       /\ \A p \in Paths : tree[p] # taken[r][p] => Anyones(made, p, tree[p])
  /\ pc[r] = "idle" => sealed[r] = NoTree /\ \A t \in Turns : created[r][t] = NoTree

(* What a run takes for its own differs from each of its checkpoints only by   *)
(* what calls wrote since: the tree in a call, the capture after it, then the  *)
(* tree the run owns, unless it is uncertain, and what it seals.               *)
OwnInv(r, t) ==
  LET Own(x) == Owns(made, SessionOf[r], t, created[r][t], x) IN
  created[r][t] # NoTree =>
    /\ Active(r) => t <= turn[r]
    /\ Active(r) /\ pc[r] \notin Ended => r \in leased /\ pc[r] \notin {"lease", "name"}
    /\ pc[r] \in InCall => Own(tree)
    /\ pc[r] = "adopt" => Own(taken[r])
    /\ pc[r] \in {"ready", "seal", "capture", "publish", "record"} /\ r \notin uncertain =>
         Own(owned[r])
    /\ pc[r] \in {"sealing", "sealed"} => Own(owned[r])
    /\ sealed[r] # NoTree => Own(sealed[r])

(* What an undo has still to move is the seal's, or anybody's by now.          *)
InstallInv(u) ==
  pc[u] = "install" =>
    /\ todo[u] \subseteq Changed(u)
    /\ \A p \in todo[u] : half[u] # p /\ tree[p] # SealOf(u)[p] => Anyones(made, p, tree[p])

OwnsInv ==
  /\ \A r \in Runs : TakenInv(r) /\ \A t \in Turns : OwnInv(r, t)
  /\ \A u \in Undos : InstallInv(u)
  /\ orphan \subseteq strays

(* No run takes the checkpoint that an earlier attempt, or an earlier run of   *)
(* the session, made of its turn.                                              *)
NeverTwice == \A r \in Runs : ~Reuse(r)

LEMMA OwnsGrows ==
  ASSUME NEW m, NEW n, m \subseteq n, NEW s, NEW t, NEW base, NEW x, Owns(m, s, t, base, x)
  PROVE  Owns(n, s, t, base, x)
BY DEF Owns, Recorded

LEMMA OwnsMeanwhile ==
  ASSUME NEW m, NEW n, m \subseteq n, NEW s, NEW t, NEW base, NEW x, Owns(m, s, t, base, x),
         NEW y, y # NoTree, \A p \in Paths : y[p] # x[p] => Anyones(n, p, y[p])
  PROVE  Owns(n, s, t, base, y)
<1> SUFFICES ASSUME NEW p \in Paths, y[p] # base[p] PROVE Recorded(n, s, t, p, y[p])
  BY DEF Owns
<1>1. CASE y[p] = x[p]
  BY <1>1 DEF Owns, Recorded
<1>2. CASE y[p] # x[p]
  BY <1>2 DEF Anyones, Recorded
<1> QED
  BY <1>1, <1>2

LEMMA MadeGrows == ASSUME [Next]_vars PROVE made \subseteq made'
<1>1. ASSUME NEW q, NEW n, NEW p, NEW text, Put(q, n, p, text) PROVE made \subseteq made'
  BY <1>1 DEF Put
<1>2. ASSUME NEW o \in Procs, LeaseStep(o) PROVE made \subseteq made'
  BY <1>2 DEF LeaseStep, MakeLock, NameOwner, Unname, RemoveLock, KeepLock, Crash, seen
<1>3. ASSUME NEW r \in Runs, RunStep(r) PROVE made \subseteq made'
  <2>1. CASE \E p \in Paths : Write(r, p)
    BY <1>1, <2>1 DEF Write
  <2>2. CASE ~\E p \in Paths : Write(r, p)
    BY <1>3, <2>2
       DEF RunStep, CallStep, StartRun, NextTurn, BeginCall, Reuse, Capture, Publish, Record,
           CallDenied, Settle, GiveUp, OrphanEnds, AfterCapture, Adopt, AfterFails, Finish,
           SealCheck, SealRef, Seal, NoSeal, EndRun, seen
  <2> QED
    BY <2>1, <2>2
<1>4. ASSUME NEW u \in Undos, UndoStep(u) PROVE made \subseteq made'
  BY <1>4 DEF UndoStep, BeginUndo, StageFiles, Confirm, Displace, PutBack, Restored, UndoFails,
              EndUndo, seen
<1>5. ASSUME NEW p \in Paths, Edit(p) PROVE made \subseteq made'
  BY <1>1, <1>5 DEF Edit
<1>6. CASE (\E s \in Sessions : ClearSession(s)) \/ Recover \/ UNCHANGED vars
  BY <1>6 DEF ClearSession, Recover, vars, seen
<1> QED
  BY <1>2, <1>3, <1>4, <1>5, <1>6 DEF Next, Quiet

(* Who changes the worktree.                                                   *)
LEMMA TreeSteps ==
  ASSUME [Next]_vars, tree' # tree
  PROVE  \E p \in Paths : \/ \E r \in Runs : Write(r, p)
                          \/ \E u \in Undos : Displace(u, p) \/ PutBack(u, p)
                          \/ Edit(p)
<1>1. ASSUME NEW o \in Procs, LeaseStep(o) PROVE tree' = tree
  BY <1>1 DEF LeaseStep, MakeLock, NameOwner, Unname, RemoveLock, KeepLock, Crash
<1>2. ASSUME NEW r \in Runs, RunStep(r), ~\E p \in Paths : Write(r, p) PROVE tree' = tree
  BY <1>2
     DEF RunStep, CallStep, StartRun, NextTurn, BeginCall, Reuse, Capture, Publish, Record,
         CallDenied, Settle, GiveUp, OrphanEnds, AfterCapture, Adopt, AfterFails, Finish,
         SealCheck, SealRef, Seal, NoSeal, EndRun
<1>3. ASSUME NEW u \in Undos, UndoStep(u), ~\E p \in Paths : Displace(u, p) \/ PutBack(u, p)
      PROVE  tree' = tree
  BY <1>3 DEF UndoStep, BeginUndo, StageFiles, Confirm, Restored, UndoFails, EndUndo
<1>4. ASSUME (\E s \in Sessions : ClearSession(s)) \/ Recover \/ UNCHANGED vars
      PROVE  tree' = tree
  BY <1>4 DEF ClearSession, Recover, vars
<1> QED
  BY <1>1, <1>2, <1>3, <1>4 DEF Next, Quiet

(* What appears in the worktree while somebody works on it, by a step of       *)
(* somebody else, is recorded as anybody's: no undo moves anything meanwhile.  *)
LEMMA Meanwhile ==
  ASSUME IInv, [Next]_vars, NEW o \in Procs, pc[o] \in InCall \cup {"install"},
         o \in Runs => \A p \in Paths : ~Write(o, p),
         o \in Undos => \A p \in Paths : ~Displace(o, p) /\ ~PutBack(o, p),
         NEW x \in Paths, tree'[x] # tree[x]
  PROVE  Anyones(made', x, tree'[x])
<1>0. /\ Runs \subseteq Procs /\ Undos \subseteq Procs /\ User \notin Procs
      /\ tree \in [Paths -> Texts \cup {Absent}]
  BY LeaseTypes, Parameters DEF IInv, TypeOK, Trees
<1>1. Working(o) /\ lock.by = o
  <2>1. Working(o) /\ o \in leased /\ ~Stopped(o)
    BY DEF Working, InCall, IInv, LeaseInv, Stopped
  <2> QED
    BY <2>1 DEF IInv, LeaseInv
<1>2. ASSUME NEW q, q # o, NEW n, NEW p \in Paths, NEW text, Put(q, n, p, text)
      PROVE  Anyones(made', x, tree'[x])
  <2>1. /\ tree' = [tree EXCEPT ![p] = text]
        /\ made' = made \cup {[path |-> p, text |-> text, by |-> User, turn |-> n]}
    BY <1>1, <1>2 DEF Put
  <2>2. x = p /\ tree'[x] = text
    BY <1>0, <2>1
  <2>3. [path |-> p, text |-> text, by |-> User, turn |-> n] \in made'
    BY <2>1
  <2> QED
    BY <2>2, <2>3 DEF Anyones
<1>3. ASSUME NEW u \in Undos, NEW p \in Paths, Displace(u, p) \/ PutBack(u, p) PROVE FALSE
  <2>1. u # o /\ pc[u] = "install"
    BY <1>3 DEF Displace, PutBack
  <2>2. u \in leased /\ ~Stopped(u) /\ LeaseInv(u)
    BY <1>0, <2>1 DEF IInv, LeaseInv, Stopped
  <2> QED
    BY <1>1, <2>1, <2>2 DEF LeaseInv
<1>4. ASSUME NEW r \in Runs, NEW p \in Paths, Write(r, p) PROVE Anyones(made', x, tree'[x])
  BY <1>2, <1>4 DEF Write
<1>5. ASSUME NEW p \in Paths, Edit(p) PROVE Anyones(made', x, tree'[x])
  BY <1>0, <1>2, <1>5 DEF Edit
<1> QED
  BY <1>3, <1>4, <1>5, TreeSteps

(* What the steps of others leave a run.                                       *)
LEMMA Untouched ==
  ASSUME TypeOK, [Next]_vars, NEW r \in Runs, ~RunStep(r), ~LeaseStep(r)
  PROVE  /\ pc'[r] = pc[r] /\ turn'[r] = turn[r] /\ created'[r] = created[r]
         /\ sealed'[r] = sealed[r] /\ owned'[r] = owned[r] /\ taken'[r] = taken[r]
         /\ r \in uncertain' <=> r \in uncertain
         /\ r \in leased' <=> r \in leased
<1>0. /\ r \in Procs /\ Runs \cap Undos = {}
      /\ owned \in [Runs -> Trees \cup {NoTree}] /\ taken \in [Runs -> Trees \cup {NoTree}]
      /\ turn \in [Runs -> Turns]
  BY UndoAssumption, LeaseTypes DEF TypeOK
<1>1. ASSUME NEW q \in Procs, LeaseStep(q)
      PROVE  /\ pc'[r] = pc[r] /\ turn'[r] = turn[r] /\ created'[r] = created[r]
             /\ sealed'[r] = sealed[r] /\ owned'[r] = owned[r] /\ taken'[r] = taken[r]
             /\ r \in uncertain' <=> r \in uncertain
             /\ r \in leased' <=> r \in leased
  <2>1. q # r
    BY <1>1
  <2>2. turn'[r] = turn[r] /\ owned'[r] = owned[r] /\ taken'[r] = taken[r]
    BY <1>0, <1>1, <2>1
       DEF LeaseStep, MakeLock, NameOwner, Unname, RemoveLock, KeepLock, Crash, Forget, run
  <2>3. r \in leased' <=> r \in leased
    BY <1>1, <2>1 DEF LeaseStep, MakeLock, NameOwner, Unname, RemoveLock, KeepLock, Crash
  <2> QED
    BY <1>0, <1>1, <2>1, <2>2, <2>3, LeaseFrame
<1>2. ASSUME NEW q \in Runs, RunStep(q)
      PROVE  /\ pc'[r] = pc[r] /\ turn'[r] = turn[r] /\ created'[r] = created[r]
             /\ sealed'[r] = sealed[r] /\ owned'[r] = owned[r] /\ taken'[r] = taken[r]
             /\ r \in uncertain' <=> r \in uncertain
             /\ r \in leased' <=> r \in leased
  <2>1. q # r
    BY <1>2
  <2>2. turn'[r] = turn[r] /\ owned'[r] = owned[r] /\ taken'[r] = taken[r] /\ leased' = leased
    BY <1>0, <1>2, <2>1
       DEF RunStep, CallStep, StartRun, NextTurn, BeginCall, Reuse, Capture, Publish, Record,
           CallDenied, Write, Settle, GiveUp, OrphanEnds, AfterCapture, Adopt, AfterFails,
           Finish, SealCheck, SealRef, Seal, NoSeal, EndRun, Forget, Call, run
  <2> QED
    BY <1>0, <1>2, <2>1, <2>2, RunFrame
<1>3. ASSUME NEW u \in Undos, UndoStep(u)
      PROVE  pc'[r] = pc[r] /\ UNCHANGED <<turn, created, sealed, owned, taken, uncertain, leased>>
  BY <1>0, <1>3, UndoFrame
     DEF UndoStep, BeginUndo, StageFiles, Confirm, Displace, PutBack, Restored, UndoFails,
         EndUndo, run
<1>4. CASE (\E p \in Paths : Edit(p)) \/ (\E s \in Sessions : ClearSession(s)) \/ Recover
           \/ UNCHANGED vars
  BY <1>4 DEF Edit, ClearSession, Recover, vars, run, log
<1> QED
  BY <1>1, <1>2, <1>3, <1>4 DEF Next, Quiet

LEMMA OwnOthers ==
  ASSUME IInv, OwnsInv, [Next]_vars, NEW r \in Runs, ~RunStep(r), ~LeaseStep(r)
  PROVE  TakenInv(r)' /\ \A t \in Turns : OwnInv(r, t)'
<1>0. TypeOK /\ r \in Procs /\ NoTree \notin Trees /\ tree \in Trees /\ tree' \in Trees
  BY LeaseTypes, UndoAssumption, TypeNext DEF IInv, TypeOK
<1>1. made \subseteq made'
  BY MadeGrows
<1>2. ASSUME pc[r] \in InCall
      PROVE  \A p \in Paths : tree'[p] # tree[p] => Anyones(made', p, tree'[p])
  <2>1. r \notin Undos /\ \A p \in Paths : ~Write(r, p)
    BY UndoAssumption DEF RunStep, CallStep
  <2> QED
    BY <1>0, <1>2, <2>1, Meanwhile
<1>3. TakenInv(r)'
  <2>1. TakenInv(r)
    BY DEF OwnsInv
  <2>2. ASSUME pc[r] \in {"publish", "record"}, NEW p \in Paths, tree'[p] # taken[r][p]
        PROVE  Anyones(made', p, tree'[p])
    <3>1. CASE tree'[p] = tree[p]
      BY <1>1, <2>1, <2>2, <3>1 DEF TakenInv, Anyones
    <3>2. CASE tree'[p] # tree[p]
      BY <1>2, <2>2, <3>2 DEF InCall
    <3> QED
      BY <3>1, <3>2
  <2> QED
    BY <1>0, <2>1, <2>2, Untouched DEF TakenInv
<1>4. ASSUME NEW t \in Turns PROVE OwnInv(r, t)'
  <2> DEFINE s == SessionOf[r]
             base == created[r][t]
  <2>1. OwnInv(r, t)
    BY DEF OwnsInv
  <2>2. ASSUME NEW x, Owns(made, s, t, base, x) PROVE Owns(made', s, t, base, x)
    BY <1>1, <2>2, OwnsGrows
  <2>3. ASSUME pc[r] \in InCall, Owns(made, s, t, base, tree)
        PROVE  Owns(made', s, t, base, tree')
    <3>1. tree' # NoTree
      BY <1>0
    <3> HIDE DEF s, base
    <3> QED
      BY <1>1, <1>2, <2>3, <3>1, OwnsMeanwhile
  <2>4. base' = base
    BY <1>0, Untouched
  <2> QED
    BY <1>0, <2>1, <2>2, <2>3, <2>4, Untouched DEF OwnInv, Active
<1> QED
  BY <1>3, <1>4

LEMMA OwnLease ==
  ASSUME IInv, OwnsInv, NEW r \in Runs, LeaseStep(r)
  PROVE  TakenInv(r)' /\ \A t \in Turns : OwnInv(r, t)'
<1>0. TypeOK /\ r \in Procs
  BY LeaseTypes DEF IInv
<1>1. UNCHANGED <<made, tree, created, sealed>>
  BY DEF LeaseStep, MakeLock, NameOwner, Unname, RemoveLock, KeepLock, Crash, log, seen
<1>2. CASE pc'[r] = "gone"
  BY <1>1, <1>2 DEF OwnsInv, TakenInv, OwnInv, Active, InCall
<1>3. CASE pc'[r] # "gone"
  <2>1. \/ pc[r] = "lease" /\ pc'[r] = "name"
        \/ pc[r] = "name" /\ pc'[r] \in {"capture", "stage"}
        \/ pc[r] \in {"release", "remove"} /\ pc'[r] \in {"remove", "close"}
    BY <1>0, <1>3, LeaseFrame
  <2>2. turn' = turn
    BY <1>0, <1>3, LeaseTypes
       DEF LeaseStep, MakeLock, NameOwner, Unname, RemoveLock, KeepLock, Crash, Goto, run
  <2>3. ASSUME NEW t \in Turns PROVE OwnInv(r, t)'
    <3>1. OwnInv(r, t)
      BY DEF OwnsInv
    <3>2. CASE created[r][t] = NoTree
      BY <1>1, <3>2 DEF OwnInv
    <3>3. CASE created[r][t] # NoTree
      <4>1. pc[r] \in {"release", "remove"} /\ pc'[r] \in {"remove", "close"}
        BY <2>1, <3>1, <3>3 DEF OwnInv, Active, Ended
      <4> QED
        BY <1>1, <2>2, <3>1, <4>1 DEF OwnInv, Active, Ended, InCall
    <3> QED
      BY <3>2, <3>3
  <2> QED
    BY <1>1, <2>1, <2>3 DEF TakenInv
<1> QED
  BY <1>2, <1>3

(* A call that begins has the tree that the run owns; what the call writes is  *)
(* recorded in the run's turn, which is no earlier than its checkpoints.       *)
LEMMA OwnRun ==
  ASSUME IInv, OwnsInv, [Next]_vars, NEW r \in Runs, RunStep(r), ~Reuse(r)
  PROVE  TakenInv(r)' /\ \A t \in Turns : OwnInv(r, t)'
<1> DEFINE s == SessionOf[r]
           Own(t, x) == Owns(made, s, t, created[r][t], x)
<1>0. /\ TypeOK /\ r \in Procs /\ s \in Sessions /\ NoTree \notin Trees /\ tree \in Trees
      /\ LeaseInv(r) /\ StrayInv(r) /\ TakenInv(r) /\ \A t \in Turns : OwnInv(r, t)
      /\ User \notin Procs /\ created \in [Runs -> [Turns -> Trees \cup {NoTree}]]
      /\ owned \in [Runs -> Trees \cup {NoTree}] /\ taken \in [Runs -> Trees \cup {NoTree}]
      /\ sealed \in [Runs -> Trees \cup {NoTree}] /\ orphan \subseteq strays
      /\ made \subseteq made'
  BY LeaseTypes, Parameters, UndoAssumption, MadeGrows DEF IInv, OwnsInv, TypeOK
<1>1. turn \in [Runs -> Turns] /\ pc \in [Procs -> Stages] /\ turn[r] \in Nat
  BY <1>0, LeaseTypes, Parameters DEF Turns
<1>2. ASSUME UNCHANGED <<made, tree, created, sealed>>, pc'[r] # "idle",
             pc'[r] \in {"publish", "record"} =>
               /\ taken'[r] # NoTree
               /\ \A p \in Paths : tree[p] # taken'[r][p] => Anyones(made, p, tree[p]),
             ASSUME NEW t \in Turns, created[r][t] # NoTree
             PROVE  /\ Active(r)' => t <= turn'[r]
                    /\ Active(r)' /\ pc'[r] \notin Ended =>
                         r \in leased' /\ pc'[r] \notin {"lease", "name"}
                    /\ pc'[r] \in InCall => Own(t, tree)
                    /\ pc'[r] = "adopt" => Own(t, taken'[r])
                    /\ pc'[r] \in {"ready", "seal", "capture", "publish", "record"}
                         /\ r \notin uncertain' => Own(t, owned'[r])
                    /\ pc'[r] \in {"sealing", "sealed"} => Own(t, owned'[r])
      PROVE  TakenInv(r)' /\ \A t \in Turns : OwnInv(r, t)'
  BY <1>0, <1>2 DEF TakenInv, OwnInv
<1>3. ASSUME UNCHANGED <<made, tree, created, sealed, turn, leased>>,
             Active(r), pc[r] \notin Ended, pc'[r] # "idle",
             pc'[r] \in {"publish", "record"} =>
               /\ taken'[r] # NoTree
               /\ \A p \in Paths : tree[p] # taken'[r][p] => Anyones(made, p, tree[p]),
             pc'[r] \in {"lease", "name"} => r \notin leased,
             ASSUME NEW t \in Turns, created[r][t] # NoTree
             PROVE  /\ pc'[r] \in InCall => Own(t, tree)
                    /\ pc'[r] = "adopt" => Own(t, taken'[r])
                    /\ pc'[r] \in {"ready", "seal", "capture", "publish", "record"}
                         /\ r \notin uncertain' => Own(t, owned'[r])
                    /\ pc'[r] \in {"sealing", "sealed"} => Own(t, owned'[r])
      PROVE  TakenInv(r)' /\ \A t \in Turns : OwnInv(r, t)'
  <2>1. ASSUME NEW t \in Turns, created[r][t] # NoTree
        PROVE  t <= turn[r] /\ r \in leased
    BY <1>0, <1>3, <2>1 DEF OwnInv
  <2> QED
    BY <1>2, <1>3, <2>1
<1>4. CASE StartRun(r)
  <2>1. /\ pc[r] = "idle" /\ UNCHANGED <<made, tree, created, sealed, leased>>
        /\ pc' = [pc EXCEPT ![r] = "ready"]
    BY <1>4 DEF StartRun, Goto, seen
  <2>2. \A t \in Turns : created[r][t] = NoTree
    BY <1>0, <2>1 DEF TakenInv
  <2> QED
    BY <1>0, <1>1, <1>2, <2>1, <2>2
<1>5. CASE NextTurn(r)
  <2>1. /\ pc[r] = "ready" /\ pc' = pc /\ turn' = [turn EXCEPT ![r] = @ + 1]
        /\ UNCHANGED <<made, tree, created, sealed, leased, owned, uncertain>>
    BY <1>5 DEF NextTurn, seen
  <2>2. turn'[r] = turn[r] + 1
    BY <1>1, <2>1
  <2>3. ASSUME NEW t \in Turns, created[r][t] # NoTree
        PROVE  t <= turn[r] + 1 /\ r \in leased /\ (r \notin uncertain => Own(t, owned[r]))
    <3>1. t <= turn[r] /\ r \in leased /\ (r \notin uncertain => Own(t, owned[r]))
      BY <1>0, <2>1, <2>3 DEF OwnInv, Active, Ended
    <3>2. t \in Nat
      BY Parameters DEF Turns
    <3> QED
      BY <1>1, <3>1, <3>2
  <2> QED
    BY <1>2, <2>1, <2>2, <2>3 DEF InCall
<1>6. CASE BeginCall(r)
  <2>1. /\ pc[r] = "ready" /\ r \notin uncertain
        /\ UNCHANGED <<made, tree, created, sealed, leased, owned, turn>>
    BY <1>6 DEF BeginCall, log, seen
  <2>2. CASE Differs(r)
    <3>1. pc' = pc /\ r \in uncertain'
      BY <1>6, <2>2 DEF BeginCall
    <3> QED
      BY <1>3, <2>1, <3>1 DEF Active, Ended, InCall
  <2>3. CASE ~Differs(r)
    <3>1. /\ uncertain' = uncertain
          /\ pc' = [pc EXCEPT ![r] = IF attempt[r] = turn[r] THEN "body"
                                     ELSE IF r \in leased THEN "capture" ELSE "lease"]
      BY <1>6, <2>3 DEF BeginCall, Goto
    <3>2. pc'[r] \in {"body", "capture"} \/ (pc'[r] = "lease" /\ r \notin leased)
      BY <1>0, <1>1, <3>1
    <3>3. ASSUME NEW t \in Turns, created[r][t] # NoTree PROVE Own(t, owned[r]) /\ owned[r] = tree
      <4>1. Own(t, owned[r])
        BY <1>0, <2>1, <3>3 DEF OwnInv
      <4> QED
        BY <2>3, <4>1 DEF Differs, Owns
    <3> QED
      BY <1>3, <2>1, <3>1, <3>2, <3>3 DEF Active, Ended
  <2> QED
    BY <2>2, <2>3
<1>7. CASE Capture(r)
  <2>1. /\ pc[r] = "capture" /\ pc' = [pc EXCEPT ![r] = "publish"]
        /\ taken' = [taken EXCEPT ![r] = tree]
        /\ UNCHANGED <<made, tree, created, sealed, leased, owned, turn, uncertain>>
    BY <1>7 DEF Capture, Goto, log, seen
  <2>2. pc'[r] = "publish" /\ taken'[r] = tree
    BY <1>0, <1>1, <2>1
  <2>3. ASSUME NEW t \in Turns, created[r][t] # NoTree
        PROVE  Own(t, tree) /\ (r \notin uncertain => Own(t, owned[r]))
    BY <1>0, <2>1, <2>3 DEF OwnInv, InCall
  <2> QED
    BY <1>0, <1>3, <2>1, <2>2, <2>3 DEF Active, Ended
<1>8. CASE Publish(r)
  <2>1. /\ pc[r] = "publish" /\ pc' = [pc EXCEPT ![r] = "record"] /\ taken[r] = tree
        /\ UNCHANGED <<made, tree, created, sealed, leased, owned, turn, uncertain, taken>>
    BY <1>8 DEF Publish, Goto, log, run, seen
  <2>2. pc'[r] = "record"
    BY <1>0, <1>1, <2>1
  <2>3. ASSUME NEW t \in Turns, created[r][t] # NoTree
        PROVE  Own(t, tree) /\ (r \notin uncertain => Own(t, owned[r]))
    BY <1>0, <2>1, <2>3 DEF OwnInv, InCall
  <2> QED
    BY <1>0, <1>3, <2>1, <2>2, <2>3 DEF Active, Ended
<1>9. CASE Record(r)
  <2>1. /\ pc[r] = "record" /\ pc' = [pc EXCEPT ![r] = "body"]
        /\ created' = [created EXCEPT ![r][turn[r]] = taken[r]]
        /\ UNCHANGED <<made, tree, sealed, leased, turn>>
    BY <1>9 DEF Record, Call, Goto, seen
  <2>2. pc'[r] = "body" /\ r \in leased /\ sealed[r] = NoTree
    BY <1>0, <1>1, <2>1 DEF LeaseInv, StrayInv, Ended
  <2>3. ASSUME NEW t \in Turns, created'[r][t] # NoTree
        PROVE  t <= turn[r] /\ Owns(made, s, t, created'[r][t], tree)
    <3>1. CASE t = turn[r]
      <4>1. created'[r][t] = taken[r]
        BY <1>0, <2>1, <3>1
      <4>2. tree # NoTree /\ \A p \in Paths : tree[p] # taken[r][p] => Anyones(made, p, tree[p])
        BY <1>0, <2>1 DEF TakenInv
      <4> QED
        BY <1>1, <3>1, <4>1, <4>2 DEF Owns, Anyones, Recorded
    <3>2. CASE t # turn[r]
      <4>1. created'[r][t] = created[r][t]
        BY <1>0, <2>1, <3>2
      <4> QED
        BY <1>0, <2>1, <2>3, <4>1 DEF OwnInv, Active, InCall
    <3> QED
      BY <3>1, <3>2
  <2> QED
    BY <2>1, <2>2, <2>3 DEF TakenInv, OwnInv, Active, Ended, InCall
<1>10. CASE CallDenied(r)
  <2>1. /\ pc[r] \in {"lease", "name", "capture", "publish", "record"}
        /\ pc' = [pc EXCEPT ![r] = "ready"]
        /\ UNCHANGED <<made, tree, created, sealed, leased, owned, turn, uncertain>>
    BY <1>10 DEF CallDenied, Goto, log, seen
  <2>2. pc'[r] = "ready"
    BY <1>0, <1>1, <2>1
  <2>3. ASSUME NEW t \in Turns, created[r][t] # NoTree, r \notin uncertain
        PROVE  Own(t, owned[r])
    BY <1>0, <2>1, <2>3 DEF OwnInv, Active, Ended
  <2> QED
    BY <1>3, <2>1, <2>2, <2>3 DEF Active, Ended, InCall
<1>11. ASSUME NEW p \in Paths, Write(r, p) PROVE TakenInv(r)' /\ \A t \in Turns : OwnInv(r, t)'
  <2>1. /\ pc[r] = "body" \/ r \in orphan
        /\ UNCHANGED <<pc, created, sealed, leased, owned, turn, uncertain, taken>>
    BY <1>11 DEF Write, log
  <2>2. PICK text : Put(r, turn[r], p, text)
    BY <1>11 DEF Write
  <2>3. PICK author \in {User, s} :
          /\ tree' = [tree EXCEPT ![p] = text]
          /\ made' = made \cup {[path |-> p, text |-> text, by |-> author, turn |-> turn[r]]}
    BY <1>0, <2>2 DEF Put
  <2>4. pc[r] \notin {"publish", "record"}
    BY <1>0, <2>1 DEF StrayInv, Ended
  <2>5. tree' # NoTree
    BY <1>0, TypeNext DEF IInv, TypeOK
  <2>6. ASSUME NEW t \in Turns, t <= turn[r], Own(t, tree)
        PROVE  Owns(made', s, t, created[r][t], tree')
    <3>1. ASSUME NEW x \in Paths, tree'[x] # created[r][t][x] PROVE Recorded(made', s, t, x, tree'[x])
      <4>1. CASE x = p
        <5>1. tree'[x] = text
          BY <1>0, <2>3, <4>1 DEF Trees
        <5>2. [path |-> p, text |-> text, by |-> author, turn |-> turn[r]] \in made'
          BY <2>3
        <5> QED
          BY <1>1, <2>6, <4>1, <5>1, <5>2 DEF Recorded
      <4>2. CASE x # p
        <5>1. tree'[x] = tree[x]
          BY <1>0, <2>3, <4>2 DEF Trees
        <5> QED
          BY <1>0, <2>6, <3>1, <5>1 DEF Owns, Recorded
      <4> QED
        BY <4>1, <4>2
    <3> QED
      BY <2>5, <3>1 DEF Owns
  <2>7. ASSUME NEW t \in Turns, NEW x, Own(t, x) PROVE Owns(made', s, t, created[r][t], x)
    BY <1>0, <2>7, OwnsGrows
  <2>8. ASSUME NEW t \in Turns PROVE OwnInv(r, t)'
    BY <1>0, <2>1, <2>6, <2>7 DEF OwnInv, Active, InCall
  <2> QED
    BY <1>0, <2>1, <2>4, <2>8 DEF TakenInv
<1>12. CASE Settle(r) \/ GiveUp(r)
  <2>1. /\ pc[r] = "body"
        /\ \/ pc' = [pc EXCEPT ![r] = "settle"]
           \/ pc' = [pc EXCEPT ![r] = "ready"] /\ r \in uncertain'
        /\ UNCHANGED <<made, tree, created, sealed, leased, turn>>
    BY <1>12 DEF Settle, GiveUp, Doubt, Goto, log, run, seen
  <2>2. pc'[r] = "settle" \/ (pc'[r] = "ready" /\ r \in uncertain')
    BY <1>0, <1>1, <2>1
  <2>3. ASSUME NEW t \in Turns, created[r][t] # NoTree PROVE Own(t, tree)
    BY <1>0, <2>1, <2>3 DEF OwnInv, InCall
  <2> QED
    BY <1>3, <2>1, <2>2, <2>3 DEF Active, Ended, InCall
<1>13. CASE OrphanEnds(r)
  <2>1. UNCHANGED <<made, tree, created, sealed, leased, turn, pc, owned, taken, uncertain>>
    BY <1>13 DEF OrphanEnds, log, seen
  <2> QED
    BY <1>0, <2>1 DEF TakenInv, OwnInv, Active
<1>14. CASE AfterCapture(r)
  <2>1. /\ pc[r] = "settle" /\ pc' = [pc EXCEPT ![r] = "adopt"]
        /\ taken' = [taken EXCEPT ![r] = tree]
        /\ UNCHANGED <<made, tree, created, sealed, leased, turn>>
    BY <1>14 DEF AfterCapture, Goto, log, seen
  <2>2. pc'[r] = "adopt" /\ taken'[r] = tree
    BY <1>0, <1>1, <2>1
  <2>3. ASSUME NEW t \in Turns, created[r][t] # NoTree PROVE Own(t, tree)
    BY <1>0, <2>1, <2>3 DEF OwnInv, InCall
  <2> QED
    BY <1>3, <2>1, <2>2, <2>3 DEF Active, Ended, InCall
<1>15. CASE Adopt(r)
  <2>1. /\ pc[r] = "adopt" /\ pc' = [pc EXCEPT ![r] = "ready"]
        /\ owned' = [owned EXCEPT ![r] = taken[r]]
        /\ UNCHANGED <<made, tree, created, sealed, leased, turn>>
    BY <1>15 DEF Adopt, Goto, log, seen
  <2>2. pc'[r] = "ready" /\ owned'[r] = taken[r]
    BY <1>0, <1>1, <2>1
  <2>3. ASSUME NEW t \in Turns, created[r][t] # NoTree PROVE Own(t, taken[r])
    BY <1>0, <2>1, <2>3 DEF OwnInv
  <2> QED
    BY <1>3, <2>1, <2>2, <2>3 DEF Active, Ended, InCall
<1>16. CASE AfterFails(r)
  <2>1. /\ pc[r] \in {"settle", "adopt"} /\ pc' = [pc EXCEPT ![r] = "ready"]
        /\ r \in uncertain' /\ UNCHANGED <<made, tree, created, sealed, leased, turn>>
    BY <1>16 DEF AfterFails, Doubt, Goto, log, seen
  <2>2. pc'[r] = "ready"
    BY <1>0, <1>1, <2>1
  <2> QED
    BY <1>3, <2>1, <2>2 DEF Active, Ended, InCall
<1>17. CASE Finish(r) \/ SealCheck(r) \/ SealRef(r)
  <2>1. /\ \/ pc[r] = "ready" /\ pc' = [pc EXCEPT ![r] = "seal"]
           \/ pc[r] = "seal" /\ pc' = [pc EXCEPT ![r] = "sealing"] /\ r \notin uncertain
           \/ pc[r] = "sealing" /\ pc' = [pc EXCEPT ![r] = "sealed"]
        /\ UNCHANGED <<made, tree, created, sealed, leased, owned, turn, uncertain>>
    BY <1>17 DEF Finish, SealCheck, SealRef, Goto, log, run, seen
  <2>2. \/ pc[r] = "ready" /\ pc'[r] = "seal"
        \/ pc[r] = "seal" /\ pc'[r] = "sealing" /\ r \notin uncertain
        \/ pc[r] = "sealing" /\ pc'[r] = "sealed"
    BY <1>0, <1>1, <2>1
  <2>3. ASSUME NEW t \in Turns, created[r][t] # NoTree,
               pc[r] \in {"ready", "seal"} => r \notin uncertain
        PROVE  Own(t, owned[r])
    BY <1>0, <2>2, <2>3 DEF OwnInv
  <2> QED
    BY <1>3, <2>1, <2>2, <2>3 DEF Active, Ended, InCall
<1>18. CASE Seal(r)
  <2>1. /\ pc[r] = "sealed" /\ pc' = [pc EXCEPT ![r] = "release"]
        /\ sealed' = [sealed EXCEPT ![r] = owned[r]]
        /\ UNCHANGED <<made, tree, created, turn>>
    BY <1>18 DEF Seal, Goto, run, seen
  <2>2. pc'[r] = "release" /\ sealed'[r] = owned[r]
    BY <1>0, <1>1, <2>1
  <2>3. ASSUME NEW t \in Turns, created[r][t] # NoTree PROVE Own(t, owned[r]) /\ t <= turn[r]
    BY <1>0, <2>1, <2>3 DEF OwnInv, Active
  <2> QED
    BY <2>1, <2>2, <2>3 DEF TakenInv, OwnInv, Active, Ended, InCall
<1>19. CASE NoSeal(r) \/ EndRun(r)
  <2>1. /\ \/ Active(r) /\ pc' = [pc EXCEPT ![r] = "release"] /\ turn' = turn
           \/ pc' = [pc EXCEPT ![r] = "over"]
        /\ UNCHANGED <<made, tree, created, sealed>>
    BY <1>19 DEF NoSeal, EndRun, Active, Goto, log, run, seen
  <2>2. (Active(r) /\ pc'[r] = "release" /\ turn' = turn) \/ pc'[r] = "over"
    BY <1>0, <1>1, <2>1
  <2> QED
    BY <1>0, <2>1, <2>2 DEF TakenInv, OwnInv, Active, Ended, InCall
<1> QED
  BY <1>4, <1>5, <1>6, <1>7, <1>8, <1>9, <1>10, <1>11, <1>12, <1>13, <1>14, <1>15, <1>16,
     <1>17, <1>18, <1>19 DEF RunStep, CallStep

LEMMA InstallKeeps ==
  ASSUME IInv, OwnsInv, [Next]_vars, NEW u \in Undos
  PROVE  InstallInv(u)'
<1>0. /\ TypeOK /\ u \in Procs /\ u \notin Runs /\ pc \in [Procs -> Stages] /\ Absent \notin Paths
      /\ todo \in [Undos -> SUBSET Paths] /\ half \in [Undos -> Paths \cup {Absent}]
      /\ tree \in [Paths -> Texts \cup {Absent}] /\ Undos \subseteq Procs
  BY UndoAssumption, LeaseTypes DEF IInv, TypeOK, Trees
<1>1. CASE pc'[u] # "install"
  BY <1>1 DEF InstallInv
<1>2. CASE Confirm(u)
  <2>1. /\ tree' = tree /\ tree = SealOf(u) /\ todo' = [todo EXCEPT ![u] = Changed(u)]
        /\ Active(u)
    BY <1>2 DEF Confirm, Matches, Active
  <2>2. SealOf(u)' = SealOf(u) /\ Changed(u)' = Changed(u)
    BY <2>1, AimFixed
  <2>3. todo'[u] = Changed(u)
    BY <1>0, <2>1
  <2> QED
    BY <2>1, <2>2, <2>3 DEF InstallInv
<1>3. ASSUME pc[u] = "install"
      PROVE  /\ SealOf(u)' = SealOf(u) /\ Changed(u)' = Changed(u) /\ todo[u] \subseteq Changed(u)
             /\ \A p \in todo[u] : half[u] # p /\ tree[p] # SealOf(u)[p] => Anyones(made, p, tree[p])
             /\ made \subseteq made'
  BY <1>3, AimFixed, MadeGrows DEF Active, OwnsInv, InstallInv
<1>4. ASSUME NEW p \in Paths, Displace(u, p) \/ PutBack(u, p) PROVE InstallInv(u)'
  <2>1. /\ pc[u] = "install" /\ half[u] \in {Absent, p}
        /\ \A x \in Paths \ {p} : tree'[x] = tree[x]
    BY <1>0, <1>4 DEF Displace, PutBack
  <2>2. todo'[u] \subseteq todo[u] /\ \A x \in todo'[u] : half'[u] # x => x # p
    <3>1. CASE Displace(u, p)
      BY <1>0, <3>1 DEF Displace
    <3>2. CASE PutBack(u, p)
      BY <1>0, <3>2 DEF PutBack
    <3> QED
      BY <1>4, <3>1, <3>2
  <2>3. ASSUME NEW x \in todo'[u], half'[u] # x, tree'[x] # SealOf(u)[x]
        PROVE  Anyones(made', x, tree'[x])
    <3>1. x # p /\ x \in todo[u] /\ half[u] # x /\ tree'[x] = tree[x]
      BY <1>0, <2>1, <2>2, <2>3
    <3> QED
      BY <1>3, <2>1, <2>3, <3>1 DEF Anyones
  <2> QED
    BY <1>3, <2>1, <2>2, <2>3 DEF InstallInv
<1>5. CASE /\ pc'[u] = "install" /\ ~Confirm(u)
           /\ \A p \in Paths : ~Displace(u, p) /\ ~PutBack(u, p)
  <2>1. pc[u] = "install" /\ todo'[u] = todo[u] /\ half'[u] = half[u]
    <3>1. ASSUME NEW q \in Procs, LeaseStep(q)
          PROVE  pc[u] = "install" /\ todo'[u] = todo[u] /\ half'[u] = half[u]
      BY <1>0, <1>5, <3>1, LeaseFrame
    <3>2. ASSUME NEW r \in Runs, RunStep(r)
          PROVE  pc[u] = "install" /\ todo'[u] = todo[u] /\ half'[u] = half[u]
      BY <1>0, <1>5, <3>2, RunFrame
    <3>3. ASSUME NEW v \in Undos, UndoStep(v), v # u
          PROVE  pc[u] = "install" /\ todo'[u] = todo[u] /\ half'[u] = half[u]
      BY <1>0, <1>5, <3>3, UndoFrame
    <3>4. ~UndoStep(u)
      <4>1. ASSUME UndoStep(u)
            PROVE  \E stage \in {"lease", "confirm", "release", "over"} :
                     pc' = [pc EXCEPT ![u] = stage]
        BY <1>5, <4>1 DEF UndoStep, BeginUndo, StageFiles, Restored, UndoFails, EndUndo, Goto
      <4> QED
        BY <1>0, <1>5, <4>1
    <3>5. CASE (\E p \in Paths : Edit(p)) \/ (\E s \in Sessions : ClearSession(s)) \/ Recover
      BY <1>5, <3>5, AroundFrame
    <3>6. CASE UNCHANGED vars
      BY <1>5, <3>6 DEF vars, undo
    <3> QED
      BY <3>1, <3>2, <3>3, <3>4, <3>5, <3>6 DEF Next, Quiet
  <2>2. ASSUME NEW x \in todo[u], half[u] # x, tree'[x] # SealOf(u)[x]
        PROVE  Anyones(made', x, tree'[x])
    <3>1. CASE tree'[x] = tree[x]
      BY <1>3, <2>1, <2>2, <3>1 DEF Anyones
    <3>2. CASE tree'[x] # tree[x]
      BY <1>0, <1>5, <2>1, <3>2, Meanwhile
    <3> QED
      BY <3>1, <3>2
  <2> QED
    BY <1>3, <2>1, <2>2 DEF InstallInv
<1> QED
  BY <1>1, <1>2, <1>4, <1>5

LEMMA OrphansStray == ASSUME orphan \subseteq strays, [Next]_vars PROVE orphan' \subseteq strays'
<1>1. ASSUME NEW q \in Procs, LeaseStep(q) PROVE orphan' \subseteq orphan /\ strays' = strays
  BY <1>1 DEF LeaseStep, MakeLock, NameOwner, Unname, RemoveLock, KeepLock, Crash, run
<1>2. ASSUME NEW r \in Runs, RunStep(r) PROVE orphan' \subseteq strays'
  BY <1>2
     DEF RunStep, CallStep, StartRun, NextTurn, BeginCall, Reuse, Capture, Publish, Record,
         CallDenied, Write, Settle, GiveUp, OrphanEnds, AfterCapture, Adopt, AfterFails, Finish,
         SealCheck, SealRef, Seal, NoSeal, EndRun, run
<1>3. ASSUME NEW u \in Undos, UndoStep(u) PROVE UNCHANGED <<orphan, strays>>
  BY <1>3 DEF UndoStep, BeginUndo, StageFiles, Confirm, Displace, PutBack, Restored, UndoFails,
              EndUndo, run
<1>4. CASE (\E p \in Paths : Edit(p)) \/ (\E s \in Sessions : ClearSession(s)) \/ Recover
           \/ UNCHANGED vars
  BY <1>4 DEF Edit, ClearSession, Recover, vars, run
<1> QED
  BY <1>1, <1>2, <1>3, <1>4 DEF Next, Quiet

LEMMA OwnsNext == IInv /\ OwnsInv /\ [Next]_vars /\ [NeverTwice]_vars => OwnsInv'
<1> SUFFICES ASSUME IInv, OwnsInv, [Next]_vars, [NeverTwice]_vars PROVE OwnsInv'
  OBVIOUS
<1>1. ASSUME NEW r \in Runs PROVE TakenInv(r)' /\ \A t \in Turns : OwnInv(r, t)'
  <2>1. CASE NeverTwice
    BY <2>1, OwnRun, OwnLease, OwnOthers DEF NeverTwice
  <2>2. CASE UNCHANGED vars
    <3>1. UNCHANGED <<tree, made, pc, leased, turn, created, sealed, owned, taken, uncertain>>
      BY <2>2 DEF vars, run, log, seen
    <3> QED
      BY <3>1 DEF OwnsInv, TakenInv, OwnInv, Active
  <2> QED
    BY <2>1, <2>2
<1>2. orphan' \subseteq strays'
  BY OrphansStray DEF OwnsInv
<1> QED
  BY <1>1, <1>2, InstallKeeps DEF OwnsInv

LEMMA OwnsInit == Init => OwnsInv
<1> SUFFICES ASSUME Init PROVE OwnsInv
  OBVIOUS
<1>1. \A q \in Procs : pc[q] \in {"idle", "over"}
  BY DEF Init
<1>2. \A r \in Runs : sealed[r] = NoTree /\ \A t \in Turns : created[r][t] = NoTree
  BY DEF Init, None
<1>3. orphan = {} /\ Runs \subseteq Procs /\ Undos \subseteq Procs
  BY Parameters DEF Init
<1> QED
  BY <1>1, <1>2, <1>3 DEF OwnsInv, TakenInv, OwnInv, InstallInv

(* What an undo moves is what the session's own calls wrote since.             *)
LEMMA MovesOwn ==
  ASSUME IInv, OwnsInv, NEW u \in Undos, NEW p \in Paths,
         Displace(u, p) \/ (PutBack(u, p) /\ half[u] = Absent)
  PROVE  \E w \in made : /\ w.path = p /\ w.text = tree[p]
                         /\ \/ w.by = User
                            \/ w.by = SessionOf[u] /\ w.turn >= goal[u]
<1> DEFINE s == SessionOf[u]
           r == latest[s]
<1>1. pc[u] = "install" /\ half[u] # p /\ p \in todo[u] /\ p \in Changed(u)
  BY UndoAssumption DEF Displace, PutBack, OwnsInv, InstallInv
<1>2. tree[p] = SealOf(u)[p] \/ Anyones(made, p, tree[p])
  BY <1>1 DEF OwnsInv, InstallInv
<1>3. Recorded(made, s, goal[u], p, SealOf(u)[p])
  <2>1. Active(u) /\ AimInv(u) /\ s \in Sessions /\ goal[u] \in Turns
    BY <1>1, Parameters DEF Active, IInv, TypeOK
  <2>2. r \in Runs /\ SessionOf[r] = s
    BY <2>1 DEF IInv, AimInv, ClosedInv, TypeOK
  <2>3. created[r][goal[u]] # NoTree /\ sealed[r] # NoTree
    BY <2>1 DEF AimInv, SealOf, Target
  <2>4. Owns(made, s, goal[u], created[r][goal[u]], sealed[r])
    BY <2>1, <2>2, <2>3 DEF OwnsInv, OwnInv
  <2> QED
    BY <1>1, <2>4 DEF Owns, Changed, SealOf, Target
<1> QED
  BY <1>2, <1>3 DEF Anyones, Recorded

(* In every behaviour in which no checkpoint is used twice, an undo touches    *)
(* only what the session's own calls wrote in the turn it goes back to or      *)
(* later, or what appeared while calls were under way.                         *)
THEOREM UndoTakesOnlyOwn == Spec /\ [][NeverTwice]_vars => TakesOnlyOwn
<1>1. Spec /\ [][NeverTwice]_vars => []OwnsInv
  BY OwnsInit, OwnsNext, UndoInvariant, PTL DEF Spec
<1>2. IInv /\ OwnsInv =>
        [\A u \in Undos, p \in Paths :
          (Displace(u, p) \/ (PutBack(u, p) /\ half[u] = Absent)) =>
            \E w \in made : /\ w.path = p /\ w.text = tree[p]
                            /\ \/ w.by = User
                               \/ w.by = SessionOf[u] /\ w.turn >= goal[u]]_vars
  BY MovesOwn
<1> QED
  BY <1>1, <1>2, UndoInvariant, PTL DEF TakesOnlyOwn
=============================================================================
