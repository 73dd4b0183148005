--------------------------- MODULE CheckpointUndo ---------------------------
(* Checkpoints of a worktree and the undo that goes back to one                *)
(* (packages/core/src/checkpointer.ts, checkpoint-lock.ts, checkpoint-undo.ts). *)
(* Before the first mutating call of a turn a run takes the worktree's lease    *)
(* and puts the tree into a Git ref; after every call it takes the tree for its *)
(* own, and before every call it compares. At its end it seals what it owns. An *)
(* undo of a sealed session moves every file that differs from a checkpoint     *)
(* aside and puts the checkpoint's file in its place, one path after the other. *)
(*                                                                              *)
(* Runs and undos are processes of their own; any of them may die at any step   *)
(* and leave its lock, with or without the owner's name in it, for an operator  *)
(* to move away. Somebody else may edit any path at any time.                   *)
(*                                                                              *)
(* HEAD and the index are compared together with the tree and are not told      *)
(* apart from it. Calls of one run follow each other (no parallel batch).       *)
EXTENDS Naturals, FiniteSets

CONSTANTS Sessions, Runs, Undos, Paths,
          SessionOf,     \* [Runs \cup Undos -> Sessions]
          RunNo,         \* [Runs -> the order of a session's runs]
          Casts,         \* who takes part, the turns and writes a run has, how many edits
                         \* and deaths there may be, whether a call may be given up, and
                         \* whether a checkpoint that exists may be used again
          MaxTurns,
          Retained,      \* checkpoints of a session that a seal keeps
          Start,         \* the worktree at first
          Absent,        \* no file at a path
          NoTree, NoProc, User

Procs == Runs \cup Undos
Turns == 1..MaxTurns
Limit(f) == CHOOSE n \in {c[f] : c \in Casts} : \A c \in Casts : c[f] <= n
Texts == {Start[p] : p \in Paths} \cup (Runs \X Turns) \cup ({User} \X (1..Limit("edits")))
Trees == [Paths -> Texts \cup {Absent}]

ASSUME UndoAssumption ==
  /\ SessionOf \in [Procs -> Sessions] /\ RunNo \in [Runs -> Nat]
  /\ \A q, r \in Runs : q # r /\ SessionOf[q] = SessionOf[r] => RunNo[q] # RunNo[r]
  /\ MaxTurns \in Nat /\ Retained \in Nat \ {0}
  /\ Runs \cap Undos = {} /\ NoProc \notin Procs \cup {User} /\ User \notin Procs
  /\ Start \in Trees /\ NoTree \notin Trees /\ Absent \notin Paths
  /\ \E most \in Casts : \A c \in Casts : c.edits <= most.edits
  /\ \A c \in Casts : /\ c.who \subseteq Procs /\ c.turns \in Turns /\ c.writes \in Nat
                      /\ c.edits \in Nat /\ c.crashes \in Nat
                      /\ c.stray \in BOOLEAN /\ c.again \in BOOLEAN

VARIABLES tree,        \* the worktree
          lock,        \* the lock directory: who made it, and whether owner.json is there
          seals,       \* [Sessions -> the turns of refs/agentrig/.../sealed/turn]
          refs,        \* [Sessions -> [Turns -> the tree of refs/agentrig/.../turn]]
          sess,        \* [Sessions -> the holder of the session log's lock]
          latest, completed, closed,   \* the log: its last run, turn.end, session.end
          created, sealed,             \* the log: checkpoint.created, checkpoint.sealed
          pc, turn,
          leased,      \* who believes that the lease is its own
          owned, uncertain, attempt,   \* Checkpointer's maps
          taken,       \* [Runs -> the tree of the capture under way]
          writes, orphan,  \* [Runs -> the writes its calls have left]; runs with a call
                           \* that goes on after it was given up
          goal, todo, half, originals, \* an undo: its turn, the paths left, the path moved
                                       \* aside and not yet put back, what is aside
          edits, crashes, cast,
          last, made,  \* what the last writer of a path put there; what calls wrote
          strays       \* runs that gave up a call

run == <<turn, owned, uncertain, attempt, taken, writes, orphan, strays>>
undo == <<goal, todo, half, originals>>
log == <<latest, completed, closed, created, sealed>>
budget == <<edits, crashes, cast>>
seen == <<last, made>>
git == <<refs, seals>>
vars == <<tree, lock, git, sess, log, pc, leased, run, undo, budget, seen>>

NoLock == [by |-> NoProc, named |-> FALSE]
None == [t \in Turns |-> NoTree]
Stages == {"idle", "ready", "lease", "name", "capture", "publish", "record", "body", "settle",
           "adopt", "seal", "sealing", "sealed", "stage", "confirm", "install", "release",
           "remove", "close", "over", "gone"}

TypeOK ==
  /\ pc \in [Procs -> Stages]
  /\ tree \in Trees
  /\ lock \in [by : Procs \cup {NoProc}, named : BOOLEAN]
  /\ lock.by = NoProc => ~lock.named
  /\ refs \in [Sessions -> [Turns -> Trees \cup {NoTree}]]
  /\ seals \in [Sessions -> SUBSET Turns]
  /\ sess \in [Sessions -> Procs \cup {NoProc}] /\ latest \in [Sessions -> Runs \cup {NoProc}]
  /\ \A s \in Sessions : /\ sess[s] = NoProc \/ SessionOf[sess[s]] = s
                         /\ latest[s] = NoProc \/ SessionOf[latest[s]] = s
  /\ completed \in [Sessions -> 0..MaxTurns] /\ closed \in [Sessions -> BOOLEAN]
  /\ created \in [Runs -> [Turns -> Trees \cup {NoTree}]]
  /\ sealed \in [Runs -> Trees \cup {NoTree}]
  /\ turn \in [Runs -> Turns] /\ attempt \in [Runs -> 0..MaxTurns]
  /\ leased \subseteq Procs /\ uncertain \subseteq Runs /\ orphan \subseteq Runs
  /\ owned \in [Runs -> Trees \cup {NoTree}] /\ taken \in [Runs -> Trees \cup {NoTree}]
  /\ writes \in [Runs -> 0..cast.writes]
  /\ goal \in [Undos -> Turns] /\ todo \in [Undos -> SUBSET Paths]
  /\ half \in [Undos -> Paths \cup {Absent}]
  /\ originals \in [Undos -> Trees]
  /\ cast \in Casts /\ edits \in 0..cast.edits /\ crashes \in 0..cast.crashes
  /\ last \in [Paths -> Texts \cup {Absent}]
  /\ made \subseteq [path : Paths, text : Texts \cup {Absent}, by : Sessions \cup {User},
                    turn : Turns]
  /\ strays \subseteq Runs

Init ==
  /\ \E c \in Casts :
       /\ writes = [r \in Runs |-> c.writes]
       /\ pc = [q \in Procs |-> IF q \in c.who THEN "idle" ELSE "over"]
       /\ cast = c /\ edits = c.edits /\ crashes = c.crashes
  /\ tree = Start /\ lock = NoLock
  /\ refs = [s \in Sessions |-> None] /\ seals = [s \in Sessions |-> {}]
  /\ sess = [s \in Sessions |-> NoProc]
  /\ latest = [s \in Sessions |-> NoProc] /\ completed = [s \in Sessions |-> 0]
  /\ closed = [s \in Sessions |-> FALSE]
  /\ created = [r \in Runs |-> None] /\ sealed = [r \in Runs |-> NoTree]
  /\ turn = [r \in Runs |-> 1] /\ attempt = [r \in Runs |-> 0]
  /\ leased = {} /\ uncertain = {} /\ orphan = {}
  /\ owned = [r \in Runs |-> NoTree] /\ taken = [r \in Runs |-> NoTree]
  /\ goal = [u \in Undos |-> 1] /\ todo = [u \in Undos |-> {}]
  /\ half = [u \in Undos |-> Absent]
  /\ originals = [u \in Undos |-> [p \in Paths |-> Absent]]
  /\ last = Start /\ made = {}
  /\ strays = {}
-----------------------------------------------------------------------------
Goto(q, stage) == pc' = [pc EXCEPT ![q] = stage]
Stopped(q) == pc[q] \in {"over", "gone"}

(* A call from the comparison before it to the capture after it: what anybody  *)
(* writes meanwhile is taken for the run's. An undo from its last comparison.  *)
Working(q) == pc[q] \in {"lease", "name", "capture", "publish", "record", "body", "settle",
                         "install"}

(* A call of a run, or somebody else, writes a file or removes it. What is     *)
(* written while others work is anybody's, in any turn.                        *)
Put(q, n, p, text) ==
  LET anyones == \E o \in Procs \ {q} : Working(o)
      author == IF anyones \/ q = User THEN User ELSE SessionOf[q]
  IN
  /\ tree' = [tree EXCEPT ![p] = text] /\ last' = [last EXCEPT ![p] = text]
  /\ made' = IF q # User \/ anyones
             THEN made \cup {[path |-> p, text |-> text, by |-> author, turn |-> n]}
             ELSE made

(* assertCheckpointLock, and no call of the run that goes on in the background. *)
Guard(q) == (q \in leased => lock = [by |-> q, named |-> TRUE]) /\ q \notin orphan
-----------------------------------------------------------------------------
(* The lease: a directory, then owner.json in it; both Checkpointer.lease of a *)
(* run and of an undo.                                                         *)
MakeLockAnyway(q) ==
  /\ pc[q] = "lease" /\ q \notin leased
  /\ lock' = [by |-> q, named |-> FALSE] /\ Goto(q, "name")
  /\ UNCHANGED <<tree, git, sess, log, leased, run, undo, budget, seen>>

MakeLock(q) ==
  /\ pc[q] = "lease" /\ q \notin leased /\ lock = NoLock
  /\ lock' = [by |-> q, named |-> FALSE] /\ Goto(q, "name")
  /\ UNCHANGED <<tree, git, sess, log, leased, run, undo, budget, seen>>

NameOwner(q) ==
  /\ pc[q] = "name"
  /\ lock' = [lock EXCEPT !.named = TRUE] /\ leased' = leased \cup {q}
  /\ Goto(q, IF q \in Runs THEN "capture" ELSE "stage")
  /\ UNCHANGED <<tree, git, sess, log, run, undo, budget, seen>>

(* releaseCheckpointLock: owner.json goes, then the directory.                 *)
Unname(q) ==
  /\ pc[q] = "release" /\ q \in leased /\ lock = [by |-> q, named |-> TRUE]
  /\ lock' = [lock EXCEPT !.named = FALSE] /\ Goto(q, "remove")
  /\ UNCHANGED <<tree, git, sess, log, leased, run, undo, budget, seen>>

RemoveLock(q) ==
  /\ pc[q] = "remove"
  /\ lock' = NoLock /\ leased' = leased \ {q} /\ Goto(q, "close")
  /\ UNCHANGED <<tree, git, sess, log, run, undo, budget, seen>>

(* There is no lease to give back, or it cannot be: the error is only reported. *)
KeepLock(q) ==
  /\ pc[q] \in {"release", "remove"} /\ Goto(q, "close")
  /\ UNCHANGED <<tree, lock, git, sess, log, leased, run, undo, budget, seen>>

(* recoverLockPath: an operator moves the lock of a dead owner away, and one   *)
(* without an owner when nothing that could have made it is left.              *)
LockLeft == Stopped(lock.by)

Recover ==
  /\ lock # NoLock /\ LockLeft
  /\ lock' = NoLock
  /\ UNCHANGED <<tree, git, sess, log, pc, leased, run, undo, budget, seen>>
-----------------------------------------------------------------------------
(* A run: the first of its session, or a resume, which holds the log's lock.   *)
StartRun(r) ==
  LET s == SessionOf[r] IN
  /\ pc[r] = "idle" /\ \A q \in Runs : SessionOf[q] = s /\ RunNo[q] < RunNo[r] => Stopped(q)
  /\ sess[s] = NoProc /\ completed[s] < cast.turns
  /\ sess' = IF latest[s] = NoProc THEN sess ELSE [sess EXCEPT ![s] = r]
  /\ latest' = [latest EXCEPT ![s] = r] /\ closed' = [closed EXCEPT ![s] = FALSE]
  /\ turn' = [turn EXCEPT ![r] = completed[s] + 1] /\ Goto(r, "ready")
  /\ UNCHANGED <<tree, lock, git, completed, created, sealed, leased, owned, uncertain,
                 attempt, taken, writes, orphan, strays, undo, budget, seen>>

NextTurn(r) ==
  LET s == SessionOf[r] IN
  /\ pc[r] = "ready" /\ turn[r] < cast.turns
  /\ completed' = [completed EXCEPT ![s] = turn[r]] /\ turn' = [turn EXCEPT ![r] = @ + 1]
  /\ UNCHANGED <<tree, lock, git, sess, latest, closed, created, sealed, pc, leased, owned,
                 uncertain, attempt, taken, writes, orphan, strays, undo, budget, seen>>

(* handler(): refuse, or compare the worktree with what the run owns.          *)
Differs(r) == owned[r] # NoTree /\ owned[r] # tree

BeginCall(r) ==
  /\ pc[r] = "ready" /\ r \notin uncertain /\ Guard(r)
  /\ IF Differs(r)
     THEN uncertain' = uncertain \cup {r} /\ UNCHANGED pc
     ELSE /\ UNCHANGED uncertain
          /\ Goto(r, IF attempt[r] = turn[r] THEN "body"
                     ELSE IF r \in leased THEN "capture" ELSE "lease")
  /\ UNCHANGED <<tree, lock, git, sess, log, leased, turn, owned, attempt, taken, writes,
                 orphan, strays, undo, budget, seen>>

Call(r) == attempt' = [attempt EXCEPT ![r] = turn[r]] /\ Goto(r, "body")

(* snapshot(): a checkpoint of this turn that exists is recorded once more.    *)
Reuse(r) ==
  LET ref == refs[SessionOf[r]][turn[r]] IN
  /\ pc[r] = "capture" /\ Guard(r) /\ ref # NoTree /\ cast.again
  /\ created' = [created EXCEPT ![r][turn[r]] = ref] /\ Call(r)
  /\ UNCHANGED <<tree, lock, git, sess, latest, completed, closed, sealed, leased, turn,
                 owned, uncertain, taken, writes, orphan, strays, undo, budget, seen>>

Capture(r) ==
  /\ pc[r] = "capture" /\ Guard(r) /\ refs[SessionOf[r]][turn[r]] = NoTree
  /\ taken' = [taken EXCEPT ![r] = tree] /\ Goto(r, "publish")
  /\ UNCHANGED <<tree, lock, git, sess, log, leased, turn, owned, uncertain, attempt, writes,
                 orphan, strays, undo, budget, seen>>

(* The second capture agrees with the first: update-ref, then the event.       *)
Publish(r) ==
  /\ pc[r] = "publish" /\ Guard(r) /\ taken[r] = tree
  /\ refs' = [refs EXCEPT ![SessionOf[r]][turn[r]] = taken[r]] /\ Goto(r, "record")
  /\ UNCHANGED <<tree, seals, lock, sess, log, leased, run, undo, budget, seen>>

Record(r) ==
  /\ pc[r] = "record"
  /\ created' = [created EXCEPT ![r][turn[r]] = taken[r]]
  /\ taken' = [taken EXCEPT ![r] = NoTree] /\ Call(r)
  /\ UNCHANGED <<tree, lock, git, sess, latest, completed, closed, sealed, leased, turn,
                 owned, uncertain, writes, orphan, strays, undo, budget, seen>>

(* The hook fails, is timed out or finds the lock taken: the call is denied.   *)
CallDenied(r) ==
  /\ pc[r] \in {"lease", "name", "capture", "publish", "record"} /\ Goto(r, "ready")
  /\ taken' = [taken EXCEPT ![r] = NoTree]
  /\ UNCHANGED <<tree, lock, git, sess, log, leased, turn, owned, uncertain, attempt, writes,
                 orphan, strays, undo, budget, seen>>
-----------------------------------------------------------------------------
(* The body of a mutating call, and of one that was given up.                  *)
Write(r, p) ==
  /\ pc[r] = "body" \/ r \in orphan
  /\ writes[r] > 0 /\ writes' = [writes EXCEPT ![r] = @ - 1]
  /\ \E text \in {<<r, turn[r]>>, Absent} \ {tree[p]} : Put(r, turn[r], p, text)
  /\ UNCHANGED <<lock, git, sess, log, pc, leased, turn, owned, uncertain, attempt, taken,
                 orphan, strays, undo, budget>>

Settle(r) ==
  /\ pc[r] = "body" /\ Goto(r, "settle")
  /\ UNCHANGED <<tree, lock, git, sess, log, leased, run, undo, budget, seen>>

(* afterTool(): the run is uncertain from here to the end of the comparison,   *)
(* which fails for a call that left something running, or that an abort left.  *)
NoDoubt(r) == UNCHANGED uncertain
Doubt(r) == uncertain' = uncertain \cup {r}

GiveUp(r) ==
  /\ pc[r] = "body" /\ cast.stray /\ Doubt(r)
  /\ orphan' = orphan \cup {r} /\ strays' = strays \cup {r} /\ Goto(r, "ready")
  /\ UNCHANGED <<tree, lock, git, sess, log, leased, turn, owned, attempt, taken, writes,
                 undo, budget, seen>>

OrphanEnds(r) ==
  /\ r \in orphan /\ orphan' = orphan \ {r}
  /\ UNCHANGED <<tree, lock, git, sess, log, pc, leased, turn, owned, uncertain, attempt,
                 taken, writes, strays, undo, budget, seen>>

AfterCapture(r) ==
  /\ pc[r] = "settle" /\ Guard(r) /\ Doubt(r)
  /\ taken' = [taken EXCEPT ![r] = tree] /\ Goto(r, "adopt")
  /\ UNCHANGED <<tree, lock, git, sess, log, leased, turn, owned, attempt, writes, orphan,
                 strays, undo, budget, seen>>

Adopt(r) ==
  /\ pc[r] = "adopt" /\ Guard(r)
  /\ owned' = [owned EXCEPT ![r] = taken[r]] /\ uncertain' = uncertain \ {r}
  /\ Goto(r, "ready") /\ taken' = [taken EXCEPT ![r] = NoTree]
  /\ UNCHANGED <<tree, lock, git, sess, log, leased, turn, attempt, writes, orphan,
                 strays, undo, budget, seen>>

AfterFails(r) ==
  /\ pc[r] \in {"settle", "adopt"} /\ Doubt(r) /\ Goto(r, "ready")
  /\ taken' = [taken EXCEPT ![r] = NoTree]
  /\ UNCHANGED <<tree, lock, git, sess, log, leased, turn, owned, attempt, writes,
                 orphan, strays, undo, budget, seen>>
-----------------------------------------------------------------------------
(* The end of a run: turn.end, unless the turn was only text; seal, give the   *)
(* lease back, session.end.                                                    *)
Finish(r) ==
  LET s == SessionOf[r] IN
  /\ pc[r] = "ready" /\ Goto(r, "seal")
  /\ \E t \in {completed[s], turn[r]} : /\ refs[s][turn[r]] # NoTree => t = turn[r]
                                       /\ completed' = [completed EXCEPT ![s] = t]
  /\ UNCHANGED <<tree, lock, git, sess, latest, closed, created, sealed, leased, run, undo,
                 budget, seen>>

SealCheck(r) ==
  /\ pc[r] = "seal" /\ r \notin uncertain /\ r \in leased /\ Guard(r)
  /\ owned[r] # NoTree /\ ~Differs(r)
  /\ Goto(r, "sealing")
  /\ UNCHANGED <<tree, lock, git, sess, log, leased, run, undo, budget, seen>>

(* One transaction creates the seal's ref, once in a turn's life, and prunes;  *)
(* then the event.                                                             *)
Pruned(s) ==
  LET all == {t \in Turns : refs[s][t] # NoTree}
  IN  [t \in Turns |-> IF Cardinality({x \in all : x > t}) < Retained THEN refs[s][t] ELSE NoTree]

SealRef(r) ==
  LET s == SessionOf[r] IN
  /\ pc[r] = "sealing" /\ turn[r] \notin seals[s]
  /\ seals' = [seals EXCEPT ![s] = @ \cup {turn[r]}]
  /\ refs' = [refs EXCEPT ![s] = Pruned(s)] /\ Goto(r, "sealed")
  /\ UNCHANGED <<tree, lock, sess, log, leased, run, undo, budget, seen>>

Seal(r) ==
  /\ pc[r] = "sealed"
  /\ sealed' = [sealed EXCEPT ![r] = owned[r]] /\ Goto(r, "release")
  /\ UNCHANGED <<tree, lock, git, sess, latest, completed, closed, created, leased, run,
                 undo, budget, seen>>

NoSeal(r) ==
  /\ pc[r] \in {"seal", "sealing", "sealed"} /\ Goto(r, "release")
  /\ UNCHANGED <<tree, lock, git, sess, log, leased, run, undo, budget, seen>>

Forget(q) ==
  /\ owned' = [r \in Runs |-> IF r = q THEN NoTree ELSE owned[r]]
  /\ taken' = [r \in Runs |-> IF r = q THEN NoTree ELSE taken[r]]
  /\ attempt' = [r \in Runs |-> IF r = q THEN 0 ELSE attempt[r]]
  /\ turn' = [r \in Runs |-> IF r = q THEN 1 ELSE turn[r]]
  /\ uncertain' = uncertain \ {q}

EndRun(r) ==
  LET s == SessionOf[r] IN
  /\ pc[r] = "close" /\ Goto(r, "over")
  /\ closed' = [closed EXCEPT ![s] = TRUE]
  /\ sess' = IF sess[s] = r THEN [sess EXCEPT ![s] = NoProc] ELSE sess
  /\ Forget(r)
  /\ UNCHANGED <<tree, lock, git, latest, completed, created, sealed, leased, writes,
                 orphan, strays, undo, budget, seen>>
-----------------------------------------------------------------------------
(* undoSession(): a closed session whose latest run is sealed, and a turn of   *)
(* that run whose checkpoint is still there.                                   *)
SealOf(u) == sealed[latest[SessionOf[u]]]
Target(u) == created[latest[SessionOf[u]]][goal[u]]
Changed(u) == {p \in Paths : SealOf(u)[p] # Target(u)[p]}

BeginUndo(u, t) ==
  LET s == SessionOf[u]
      r == latest[s]
  IN
  /\ pc[u] = "idle" /\ sess[s] = NoProc
  /\ closed[s] /\ sealed[r] # NoTree
  /\ created[r][t] # NoTree /\ refs[s][t] = created[r][t]
  /\ sess' = [sess EXCEPT ![s] = u] /\ goal' = [goal EXCEPT ![u] = t] /\ Goto(u, "lease")
  /\ UNCHANGED <<tree, lock, git, log, leased, run, todo, half, originals, budget, seen>>

(* The comparison, before anything is staged and once more before anything is  *)
(* touched.                                                                    *)
AnyTree(u) == TRUE
Matches(u) == tree = SealOf(u)

StageFiles(u) ==
  /\ pc[u] = "stage" /\ Guard(u) /\ Matches(u) /\ Goto(u, "confirm")
  /\ UNCHANGED <<tree, lock, git, sess, log, leased, run, undo, budget, seen>>

Confirm(u) ==
  /\ pc[u] = "confirm" /\ Guard(u) /\ Matches(u)
  /\ todo' = [todo EXCEPT ![u] = Changed(u)] /\ Goto(u, "install")
  /\ UNCHANGED <<tree, lock, git, sess, log, leased, run, goal, half, originals, budget, seen>>

(* rename(path, originals/n), whatever is there by now.                        *)
Displace(u, p) ==
  /\ pc[u] = "install" /\ half[u] = Absent /\ p \in todo[u]
  /\ SealOf(u)[p] # Absent /\ tree[p] # Absent
  /\ originals' = [originals EXCEPT ![u][p] = tree[p]] /\ tree' = [tree EXCEPT ![p] = Absent]
  /\ IF Target(u)[p] = Absent
     THEN todo' = [todo EXCEPT ![u] = @ \ {p}] /\ UNCHANGED half
     ELSE half' = [half EXCEPT ![u] = p] /\ UNCHANGED todo
  /\ UNCHANGED <<lock, git, sess, log, pc, leased, run, goal, budget, seen>>

(* copyFile(staged/n, path, COPYFILE_EXCL)                                     *)
VacantOrNot(p) == TRUE
Vacant(p) == tree[p] = Absent

PutBack(u, p) ==
  /\ pc[u] = "install" /\ p \in todo[u] /\ Target(u)[p] # Absent
  /\ half[u] = (IF SealOf(u)[p] = Absent THEN Absent ELSE p)
  /\ Vacant(p) /\ tree' = [tree EXCEPT ![p] = Target(u)[p]]
  /\ todo' = [todo EXCEPT ![u] = @ \ {p}] /\ half' = [half EXCEPT ![u] = Absent]
  /\ UNCHANGED <<lock, git, sess, log, pc, leased, run, goal, originals, budget, seen>>

(* The tree is the checkpoint's: an audit log records it.                      *)
Restored(u) ==
  /\ pc[u] = "install" /\ todo[u] = {} /\ tree = Target(u) /\ Goto(u, "release")
  /\ UNCHANGED <<tree, lock, git, sess, log, leased, run, undo, budget, seen>>

UndoFails(u) ==
  /\ pc[u] \in {"lease", "name", "stage", "confirm", "install"} /\ Goto(u, "release")
  /\ UNCHANGED <<tree, lock, git, sess, log, leased, run, undo, budget, seen>>

EndUndo(u) ==
  /\ pc[u] = "close" /\ Goto(u, "over")
  /\ sess' = [sess EXCEPT ![SessionOf[u]] = NoProc]
  /\ UNCHANGED <<tree, lock, git, log, leased, run, undo, budget, seen>>
-----------------------------------------------------------------------------
(* Somebody else, at any time.                                                 *)
Edit(p) ==
  /\ edits > 0 /\ edits' = edits - 1
  /\ \E text \in {<<User, edits>>, Absent} \ {tree[p]} : Put(User, 1, p, text)
  /\ UNCHANGED <<lock, git, sess, log, pc, leased, run, undo, crashes, cast>>

(* A process dies; the locks it made stay.                                     *)
Crash(q) ==
  /\ crashes > 0 /\ ~Stopped(q) /\ pc[q] # "idle" /\ crashes' = crashes - 1
  /\ Goto(q, "gone") /\ Forget(q) /\ leased' = leased \ {q}
  /\ orphan' = orphan \ {q}
  /\ UNCHANGED <<tree, lock, git, sess, log, writes, strays, undo, edits, cast, seen>>

ClearSession(s) ==
  /\ sess[s] # NoProc /\ pc[sess[s]] = "gone" /\ sess' = [sess EXCEPT ![s] = NoProc]
  /\ UNCHANGED <<tree, lock, git, log, pc, leased, run, undo, budget, seen>>

(* Nothing is under way; a resume or an undo that has no use may never come.   *)
Quiet == (\A q \in Procs : Stopped(q) \/ pc[q] = "idle") /\ UNCHANGED vars

LeaseStep(q) ==
  MakeLock(q) \/ NameOwner(q) \/ Unname(q) \/ RemoveLock(q) \/ KeepLock(q) \/ Crash(q)
CallStep(r) ==
  \/ BeginCall(r) \/ Reuse(r) \/ Capture(r) \/ Publish(r) \/ Record(r) \/ CallDenied(r)
  \/ \E p \in Paths : Write(r, p)
  \/ Settle(r) \/ GiveUp(r) \/ OrphanEnds(r) \/ AfterCapture(r) \/ Adopt(r) \/ AfterFails(r)
RunStep(r) ==
  \/ StartRun(r) \/ NextTurn(r) \/ CallStep(r)
  \/ Finish(r) \/ SealCheck(r) \/ SealRef(r) \/ Seal(r) \/ NoSeal(r) \/ EndRun(r)
UndoStep(u) ==
  \/ \E t \in Turns : BeginUndo(u, t)
  \/ StageFiles(u) \/ Confirm(u)
  \/ \E p \in Paths : Displace(u, p) \/ PutBack(u, p)
  \/ Restored(u) \/ UndoFails(u) \/ EndUndo(u)

Next ==
  \/ \E q \in Procs : LeaseStep(q)
  \/ \E r \in Runs : RunStep(r)
  \/ \E u \in Undos : UndoStep(u)
  \/ \E p \in Paths : Edit(p)
  \/ \E s \in Sessions : ClearSession(s)
  \/ Recover \/ Quiet

Spec == Init /\ [][Next]_vars
-----------------------------------------------------------------------------
(* Whatever an undo does, and wherever it stops or dies: what the last writer  *)
(* of a path put there is at the path or among the originals set aside.        *)
NothingDestroyed ==
  \A p \in Paths : \/ last[p] \in {Absent, tree[p]}
                   \/ \E u \in Undos : originals[u][p] = last[p]

(* An undo changes only what the session's own calls wrote in the turn it goes *)
(* back to or later: never what only another session wrote, and never an edit  *)
(* that was made while no call was under way.                                  *)
TakesOnlyOwn ==
  [][\A u \in Undos, p \in Paths :
       (Displace(u, p) \/ (PutBack(u, p) /\ half[u] = Absent)) =>
         \E w \in made : /\ w.path = p /\ w.text = tree[p]
                         /\ \/ w.by = User
                            \/ w.by = SessionOf[u] /\ w.turn >= goal[u]]_vars

(* Two processes never work on the files of the worktree at once, across       *)
(* deaths, leases without an owner and leases moved away.                      *)
LeaseExcludes ==
  \A q, o \in Procs : {pc[q], pc[o]} \subseteq {"capture", "publish", "record", "body",
                        "settle", "confirm", "install"} => q = o

(* A run that gave up a call, which may still be writing, never seals.         *)
SealIsCertain == \A r \in strays : sealed[r] = NoTree
=============================================================================
