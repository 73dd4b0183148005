--------------------------- MODULE DreamWorkspace ---------------------------
(* Dreams: maintenance that rewrites a copy of the wiki and, if it was asked   *)
(* to, installs the copy in place of the live one (packages/memory/src/dream:  *)
(* copyWiki, runDream, markDreamed, applyDream, discardDreamWorkspace).        *)
(*                                                                             *)
(* A dream copies the wiki into an output directory under the locks of both    *)
(* and registers the copy in a manifest beside it, works without a lock, and   *)
(* installs it with two renames: the live wiki becomes a backup, a staged copy *)
(* of the output becomes the live wiki. Beside the dreams run writers of pages,*)
(* which take the wiki's lock; store.init(), which takes none; people who edit *)
(* a page, who know of no lock; and the operator, who discards outputs and     *)
(* removes the locks of processes that died.                                   *)
(*                                                                             *)
(* A directory is the process that made it (its identity), the changes its     *)
(* pages contain, and its scheduling stamp. What the model and the consolidated*)
(* pages say is left out: a dream's work on its copy is one change, its name.  *)
(* A call that fails does so by an abort, a limit, a timeout or the file       *)
(* system, so every step that may fail has the failure beside it.              *)
EXTENDS Naturals, FiniteSets, MemoryLock

CONSTANTS Dreams, Writers, Editors, Inits, Outs,   \* Outs: the output directories
          Wiki, Op,       \* the wiki's lock; the operator's process
          Nowhere,        \* no directory, no manifest
          First,          \* who made the wiki, and what it contains at first
          Skeleton,       \* the files of store.init()
          At,             \* [Dreams -> the time each dream stamps]
          Casts,          \* who takes part beside the dreams and the operator, and
                          \* the output directory each dream is given
          MaxCrashes

Others == Writers \cup Editors \cup Inits
Changes == Dreams \cup Writers \cup Editors \cup {First, Skeleton}
Makers == Dreams \cup Writers \cup Inits \cup {First}
Directories == [by : Makers, pages : SUBSET Changes, stamp : Nat]
Manifests == [by : Dreams, released : BOOLEAN, root : Makers, print : SUBSET Changes]

ASSUME DreamAssumption ==
  /\ LockRoots = {Wiki} \cup Outs /\ Wiki \notin Outs
  /\ At \in [Dreams -> Nat \ {0}] /\ MaxCrashes \in Nat
  /\ \A c \in Casts : /\ c.others \subseteq Writers \cup Editors \cup Inits
                      /\ c.where \in [Dreams -> Outs]
  /\ Op \notin Dreams \cup Writers /\ NoProc \notin Dreams \cup Writers \cup {Op}
  /\ Dreams \cap Writers = {} /\ Writers \cap (Editors \cup Inits) = {}
  /\ Nowhere \notin Directories /\ Nowhere \notin Manifests

VARIABLES live,           \* the directory at the wiki's path, or Nowhere
          backup, staged, \* [Dreams -> <wiki>.before-dream-*, <wiki>.dream-staged-*]
          out, manifest,  \* [Outs -> the output directory, its <out>.dream.json]
          pc, where,      \* [Dreams -> how far runDream is, and its output directory]
          before,         \* [Dreams -> the fingerprint taken before the copy, while copying]
          doing,          \* [Others -> how far the call or the edit is]
          asked, seen,    \* [Outs -> the owner the operator inspected; the manifest
                          \*          discardDreamWorkspace observed]
          crashes,
          ever, written, marked, installed   \* what happened (no decision reads it)

vars == <<lock, live, backup, staged, out, manifest, pc, where, before, doing,
          asked, seen, crashes, ever, written, marked, installed>>
wikis == <<live, backup, staged>>
outputs == <<out, manifest>>
recovery == <<asked, seen>>
history == <<ever, written, marked, installed>>
others == <<doing, recovery, crashes>>
dreaming == <<pc, where, before>>

(* The stages of copyWiki, of the work on the copy, of applyDream and of the   *)
(* end of runDream. A dream that returned gave its workspace to the caller; one*)
(* that is done did not; one that is gone left with its process.               *)
Copying == {"snapshot", "copy", "publish"}
Working == {"dream", "stamp", "decide"}
Installing == {"install", "check", "swap", "moved", "restore", "refill"}
Ending == {"unstage", "undo", "handoff", "retain", "cleanup", "dispose", "removing"}
Stages == Copying \cup Working \cup Installing \cup Ending
          \cup {"idle", "returned", "done", "gone"}

HoldsBoth(d) == Holds(d, Wiki) /\ Holds(d, where[d])

TypeOK ==
  /\ lock \in [LockRoots -> Dreams \cup Writers \cup {Op, NoProc}]
  /\ live \in Directories \cup {Nowhere}
  /\ backup \in [Dreams -> Directories \cup {Nowhere}]
  /\ staged \in [Dreams -> Directories \cup {Nowhere}]
  /\ out \in [Outs -> Directories \cup {Nowhere}]
  /\ manifest \in [Outs -> Manifests \cup {Nowhere}]
  /\ pc \in [Dreams -> Stages] /\ where \in [Dreams -> Outs]
  /\ before \in [Dreams -> SUBSET Changes]
  /\ doing \in [Others -> {"idle", "in", "done", "gone"}]
  /\ asked \in [Outs -> Dreams \cup {Nowhere}]
  /\ seen \in [Outs -> Manifests \cup {Nowhere}]
  /\ crashes \in 0..MaxCrashes
  /\ ever \subseteq Changes /\ written \subseteq Writers
  /\ marked \subseteq Dreams /\ installed \subseteq Dreams

Original == [by |-> First, pages |-> {First, Skeleton}, stamp |-> 0]

Init ==
  /\ LockInit /\ live = Original
  /\ backup = [d \in Dreams |-> Nowhere] /\ staged = [d \in Dreams |-> Nowhere]
  /\ out = [o \in Outs |-> Nowhere] /\ manifest = [o \in Outs |-> Nowhere]
  /\ pc = [d \in Dreams |-> "idle"]
  /\ before = [d \in Dreams |-> {}]
  /\ \E c \in Casts :
       /\ where = c.where
       /\ doing = [x \in Others |-> IF x \in c.others THEN "idle" ELSE "done"]
  /\ asked = [o \in Outs |-> Nowhere] /\ seen = [o \in Outs |-> Nowhere]
  /\ crashes = 0
  /\ ever = Original.pages /\ written = {} /\ marked = {} /\ installed = {}
-----------------------------------------------------------------------------
exceptPc == <<lock, wikis, outputs, where, before, others, history>>
Goto(d, stage) == pc' = [pc EXCEPT ![d] = stage]
Moves(d, from, to) == pc[d] \in from /\ Goto(d, to) /\ UNCHANGED exceptPc
Fresh(p) == [by |-> p, pages |-> {}, stamp |-> 0]
Mine(d) == out[where[d]] # Nowhere /\ out[where[d]].by = d
Registered(d) == manifest[where[d]] # Nowhere /\ manifest[where[d]].by = d

(* locked(): the two locks in the order of their paths, whichever that is.     *)
TakeLock(d) ==
  /\ pc[d] \in {"snapshot", "install"}
  /\ \E r \in {Wiki, where[d]} : Acquire(d, r)
  /\ UNCHANGED <<wikis, outputs, dreaming, others, history>>
-----------------------------------------------------------------------------
(* copyWiki().                                                                 *)
Begin(d) ==
  live # Nowhere /\ out[where[d]] = Nowhere /\ Moves(d, {"idle"}, "snapshot")

(* No wiki, an output that exists already, an abort: nothing was made.         *)
BeginFails(d) == Moves(d, {"idle"}, "done")

(* The contents of a wiki, and not its stamp.                                  *)
Fingerprint(dir) == dir.pages

(* mkdir fails if the directory exists; then nothing is this dream's to clean. *)
MakeOutput(d) ==
  /\ pc[d] = "snapshot" /\ HoldsBoth(d)
  /\ live # Nowhere /\ out[where[d]] = Nowhere
  /\ out' = [out EXCEPT ![where[d]] = Fresh(d)]
  /\ Goto(d, "copy")
  /\ UNCHANGED <<lock, wikis, manifest, where, before, others, history>>

CopyContents(d) ==
  /\ pc[d] = "copy"
  /\ manifest[where[d]] = Nowhere /\ live # Nowhere
  /\ before' = [before EXCEPT ![d] = Fingerprint(live)]
  /\ out' = [out EXCEPT ![where[d]].pages = live.pages, ![where[d]].stamp = live.stamp]
  /\ Goto(d, "publish")
  /\ UNCHANGED <<lock, wikis, manifest, where, others, history>>

(* The manifest is written; an abort seen after that still fails the copy.     *)
Publish(d) ==
  /\ pc[d] = "publish"
  /\ live # Nowhere /\ Fingerprint(live) = before[d]
  /\ manifest' = [manifest EXCEPT ![where[d]] =
       [by |-> d, released |-> FALSE, root |-> live.by, print |-> before[d]]]
  /\ before' = [before EXCEPT ![d] = {}] /\ ReleaseAll(d)
  /\ Goto(d, "dream") \/ Goto(d, "cleanup")
  /\ UNCHANGED <<wikis, out, where, others, history>>

CopyFails(d) ==
  /\ pc[d] \in Copying
  /\ before' = [before EXCEPT ![d] = {}] /\ ReleaseAll(d)
  /\ Goto(d, IF pc[d] = "snapshot" THEN "done" ELSE "cleanup")
  /\ UNCHANGED <<wikis, outputs, where, others, history>>
-----------------------------------------------------------------------------
(* dreamInto(): the copy is edited, then the copy and the live wiki stamped.   *)
(* A live wiki that cannot be stamped is only a warning.                       *)
Consolidate(d) ==
  /\ pc[d] = "dream" /\ Free(where[d]) /\ Mine(d)
  /\ out' = [out EXCEPT ![where[d]].pages = @ \cup {d}]
  /\ Goto(d, "stamp")
  /\ UNCHANGED <<lock, wikis, manifest, where, before, others, history>>

Later(a, b) == IF a >= b THEN a ELSE b

StampCopy(d) ==
  /\ pc[d] = "stamp" /\ Free(where[d]) /\ Mine(d)
  /\ out' = [out EXCEPT ![where[d]].stamp = Later(@, At[d])]
  /\ Goto(d, "decide")
  /\ UNCHANGED <<lock, wikis, manifest, where, before, others, history>>

StampLive(d) ==
  /\ pc[d] = "decide" /\ d \notin marked
  /\ Free(Wiki) /\ live # Nowhere
  /\ live' = [live EXCEPT !.stamp = Later(@, At[d])]
  /\ marked' = marked \cup {d}
  /\ UNCHANGED <<lock, backup, staged, outputs, dreaming, others, ever, written, installed>>

(* A review hands its copy over; with autoApply the copy is installed, unless  *)
(* the scan or the consolidation was incomplete.                               *)
Decide(d) == Moves(d, {"decide"}, "handoff") \/ Moves(d, {"decide"}, "install")
WorkFails(d) == Moves(d, Working, "dispose")
-----------------------------------------------------------------------------
(* applyDream(), under both locks.                                             *)
SameRoot(d) ==
  Registered(d) /\ Mine(d) /\ live # Nowhere /\ live.by = manifest[where[d]].root
SameSource(d) ==
  /\ Registered(d) /\ Mine(d) /\ live # Nowhere
  /\ live.by = manifest[where[d]].root /\ Fingerprint(live) = manifest[where[d]].print

CheckSource(d) ==
  HoldsBoth(d) /\ SameSource(d) /\ Moves(d, {"install"}, "check")

(* The stamp of the live wiki, or none if it has none, not the copy's.         *)
CopiedStamp(d) == out[where[d]].stamp
StagedStamp(d) == IF live = Nowhere THEN 0 ELSE live.stamp

Stage(d) ==
  /\ pc[d] = "check"
  /\ staged' = [staged EXCEPT ![d] =
                  [by |-> d, pages |-> out[where[d]].pages, stamp |-> StagedStamp(d)]]
  /\ Goto(d, "swap")
  /\ UNCHANGED <<lock, live, backup, outputs, where, before, others, history>>

MoveAway(d) ==
  /\ pc[d] = "swap" /\ live # Nowhere
  /\ backup' = [backup EXCEPT ![d] = live] /\ live' = Nowhere
  /\ Goto(d, "moved")
  /\ UNCHANGED <<lock, staged, outputs, where, before, others, history>>

(* A rename replaces an empty directory, and no other.                         *)
Vacant == live # Nowhere => live.pages = {}

NoBackup(d) == [backup EXCEPT ![d] = Nowhere]
BackupKept(d) == backup

MoveIn(d) ==
  /\ pc[d] = "moved" /\ Vacant
  /\ live' = staged[d] /\ staged' = [staged EXCEPT ![d] = Nowhere]
  /\ backup' = BackupKept(d)
  /\ ever' = ever \cup staged[d].pages /\ installed' = installed \cup {d}
  /\ Goto(d, "unstage")
  /\ UNCHANGED <<lock, outputs, where, before, others, written, marked>>

MoveInFails(d) == Moves(d, {"moved"}, "restore")

(* The original goes back unless something took its path meanwhile.            *)
BeginRestore(d) == live = Nowhere /\ Moves(d, {"restore"}, "refill")

Restore(d) ==
  /\ pc[d] = "refill" /\ Vacant
  /\ live' = backup[d] /\ backup' = [backup EXCEPT ![d] = Nowhere]
  /\ Goto(d, "undo")
  /\ UNCHANGED <<lock, staged, outputs, where, before, others, history>>

(* Neither rename succeeded: backup and staged copy are kept, and named.       *)
RestoreFails(d) ==
  /\ pc[d] \in {"restore", "refill"}
  /\ ReleaseAll(d) /\ Goto(d, "retain")
  /\ UNCHANGED <<wikis, outputs, where, before, others, history>>

(* Before the first rename a failure leaves the wiki as it is.                 *)
InstallFails(d) == Moves(d, {"install", "check", "swap"}, "undo")

Unstage(d) ==
  /\ pc[d] \in {"unstage", "undo"}
  /\ staged' = [staged EXCEPT ![d] = Nowhere] \/ UNCHANGED staged   \* cleanup may fail
  /\ ReleaseAll(d) /\ Goto(d, IF pc[d] = "undo" THEN "retain" ELSE "handoff")
  /\ UNCHANGED <<live, backup, outputs, where, before, others, history>>
-----------------------------------------------------------------------------
(* The end of runDream: release(), or dispose(), or the cleanup of copyWiki.   *)
Over(d) == Goto(d, IF pc[d] = "handoff" THEN "returned" ELSE "done")

HandOff(d) ==
  /\ pc[d] \in {"handoff", "retain"} /\ Free(where[d])
  /\ Registered(d) /\ Mine(d)
  /\ manifest' = [manifest EXCEPT ![where[d]].released = TRUE]
  /\ Over(d)
  /\ UNCHANGED <<lock, wikis, out, where, before, others, history>>

RemoveOutput(d) ==
  /\ \/ pc[d] = "cleanup"
     \/ pc[d] = "dispose" /\ Registered(d)
  /\ out[where[d]] # Nowhere => Mine(d)
  /\ Acquire(d, where[d])
  /\ out' = [out EXCEPT ![where[d]] = Nowhere]
  /\ Goto(d, "removing")
  /\ UNCHANGED <<wikis, manifest, where, before, others, history>>

RemoveManifest(d) ==
  /\ pc[d] = "removing"
  /\ manifest' = [manifest EXCEPT ![where[d]] = IF Registered(d) THEN Nowhere ELSE @]
  /\ ReleaseAll(d) /\ Goto(d, "done")
  /\ UNCHANGED <<wikis, out, where, before, others, history>>

(* What fails here is a warning: the artifact stays, and stays owned.          *)
EndFails(d) ==
  /\ pc[d] \in {"handoff", "retain", "cleanup", "dispose", "removing"}
  /\ ReleaseAll(d) /\ Over(d)
  /\ UNCHANGED <<wikis, outputs, where, before, others, history>>

(* dreamOnSessionEnd disposes of what it applied and of a clean review.        *)
Tidy(d) == Moves(d, {"returned"}, "dispose")

(* The process of a dream ends, or dies with its locks and directories left.   *)
Exit(d) == Moves(d, {"returned", "done"}, "gone")

Crash(d) ==
  /\ pc[d] \notin {"idle", "returned", "done", "gone"} /\ crashes < MaxCrashes
  /\ crashes' = crashes + 1 /\ Goto(d, "gone")
  /\ UNCHANGED <<lock, wikis, outputs, where, before, doing, recovery, history>>
-----------------------------------------------------------------------------
(* FileMemoryStore: a page is written under the wiki's lock; mkdir makes the   *)
(* directories that are missing, the wiki's included.                          *)
Added(p, change) ==
  IF live = Nowhere THEN [Fresh(p) EXCEPT !.pages = {change}]
  ELSE [live EXCEPT !.pages = @ \cup {change}]

BeginWrite(w) ==
  /\ doing[w] = "idle" /\ Acquire(w, Wiki)
  /\ doing' = [doing EXCEPT ![w] = "in"]
  /\ UNCHANGED <<wikis, outputs, dreaming, recovery, crashes, history>>

Write(w) ==
  /\ doing[w] = "in"
  /\ live' = Added(w, w) /\ ever' = ever \cup {w} /\ written' = written \cup {w}
  /\ ReleaseAll(w) /\ doing' = [doing EXCEPT ![w] = "done"]
  /\ UNCHANGED <<backup, staged, outputs, dreaming, recovery, crashes, marked, installed>>

WriterDies(w) ==
  /\ doing[w] = "in" /\ crashes < MaxCrashes
  /\ crashes' = crashes + 1 /\ doing' = [doing EXCEPT ![w] = "gone"]
  /\ UNCHANGED <<lock, wikis, outputs, dreaming, recovery, history>>

(* store.init(): the root, then its files, without the lock.                   *)
InitRoot(k) ==
  /\ doing[k] = "idle" /\ doing' = [doing EXCEPT ![k] = "in"]
  /\ live' = IF live = Nowhere THEN Fresh(k) ELSE live
  /\ UNCHANGED <<lock, backup, staged, outputs, dreaming, recovery, crashes, history>>

InitFiles(k) ==
  /\ doing[k] = "in" /\ doing' = [doing EXCEPT ![k] = "done"]
  /\ live' = Added(k, Skeleton)
  /\ UNCHANGED <<lock, backup, staged, outputs, dreaming, recovery, crashes, history>>

(* A person saves a page of the wiki that is there.                            *)
Edit(e) ==
  /\ doing[e] = "idle" /\ live # Nowhere
  /\ doing' = [doing EXCEPT ![e] = "done"]
  /\ live' = Added(e, e) /\ ever' = ever \cup {e}
  /\ UNCHANGED <<lock, backup, staged, outputs, dreaming, recovery, crashes,
                 written, marked, installed>>
-----------------------------------------------------------------------------
(* The operator: inspectDreamWorkspace() shows the owner of an output, and     *)
(* discardDreamWorkspace() is given that owner.                                *)
Inspect(o) ==
  /\ manifest[o] # Nowhere
  /\ out[o] # Nowhere => out[o].by = manifest[o].by
  /\ asked' = [asked EXCEPT ![o] = manifest[o].by]
  /\ UNCHANGED <<lock, wikis, outputs, dreaming, doing, seen, crashes, history>>

Idle(o) == seen[o] = Nowhere /\ ~Holds(Op, o)
HandedOver(m) == pc[m.by] \notin Copying
Stopped(m) == m.released \/ pc[m.by] = "gone"
Discardable(o, m) ==
  /\ m # Nowhere /\ m.by = asked[o] /\ Stopped(m)
  /\ out[o] # Nowhere => out[o].by = m.by

Observe(o) ==
  /\ Idle(o) /\ Discardable(o, manifest[o])
  /\ seen' = [seen EXCEPT ![o] = manifest[o]]
  /\ UNCHANGED <<lock, wikis, outputs, dreaming, doing, asked, crashes, history>>

(* Read again under the lock: any change since then refuses the discard.       *)
Unchanged(o) == manifest[o] = seen[o] /\ Discardable(o, manifest[o])

Discard(o) ==
  /\ seen[o] # Nowhere /\ ~Holds(Op, o) /\ Unchanged(o)
  /\ Acquire(Op, o)
  /\ out' = [out EXCEPT ![o] = Nowhere]
  /\ UNCHANGED <<wikis, manifest, dreaming, others, history>>

DiscardManifest(o) ==
  /\ seen[o] # Nowhere /\ Holds(Op, o)
  /\ manifest' = [manifest EXCEPT ![o] = Nowhere] \/ UNCHANGED manifest   \* may fail
  /\ lock' = [lock EXCEPT ![o] = NoProc] /\ seen' = [seen EXCEPT ![o] = Nowhere]
  /\ UNCHANGED <<wikis, out, dreaming, doing, asked, crashes, history>>

(* Refused or timed out, before anything was removed.                          *)
DiscardFails(o) ==
  /\ seen[o] # Nowhere /\ ~Holds(Op, o)
  /\ seen' = [seen EXCEPT ![o] = Nowhere]
  /\ UNCHANGED <<lock, wikis, outputs, dreaming, doing, asked, crashes, history>>

OperatorDies(o) ==
  /\ seen[o] # Nowhere /\ Holds(Op, o) /\ crashes < MaxCrashes
  /\ crashes' = crashes + 1 /\ seen' = [seen EXCEPT ![o] = Nowhere]
  /\ UNCHANGED <<lock, wikis, outputs, dreaming, doing, asked, history>>

Dead(r) == {d \in Dreams : pc[d] = "gone"} \cup {w \in Writers : doing[w] = "gone"}
           \cup (IF r \in Outs /\ seen[r] = Nowhere THEN {Op} ELSE {})

ClearLock(r) ==
  /\ RemoveLock(r, Dead(r))
  /\ UNCHANGED <<wikis, outputs, dreaming, others, history>>
-----------------------------------------------------------------------------
Finished ==
  /\ \A d \in Dreams : pc[d] = "gone"
  /\ \A x \in Others \ Editors : doing[x] \in {"done", "gone"}
  /\ UNCHANGED vars

CopyStep(d) ==
  \/ TakeLock(d) \/ MakeOutput(d) \/ CopyContents(d) \/ Publish(d) \/ CopyFails(d)
WorkStep(d) ==
  \/ Consolidate(d) \/ StampCopy(d) \/ StampLive(d) \/ Decide(d) \/ WorkFails(d)
InstallStep(d) ==
  \/ CheckSource(d) \/ Stage(d) \/ MoveAway(d) \/ MoveIn(d)
  \/ MoveInFails(d) \/ BeginRestore(d) \/ Restore(d) \/ RestoreFails(d)
  \/ InstallFails(d) \/ Unstage(d)
EndStep(d) ==
  \/ HandOff(d) \/ RemoveOutput(d) \/ RemoveManifest(d) \/ EndFails(d)
DreamStep(d) == CopyStep(d) \/ WorkStep(d) \/ InstallStep(d) \/ EndStep(d)

WriterStep(w) == BeginWrite(w) \/ Write(w) \/ WriterDies(w)
InitStep(k) == InitRoot(k) \/ InitFiles(k)
OperatorStep(o) ==
  \/ Inspect(o) \/ Observe(o) \/ Discard(o) \/ DiscardManifest(o)
  \/ DiscardFails(o) \/ OperatorDies(o)

Next ==
  \/ \E d \in Dreams : \/ Begin(d) \/ BeginFails(d)
                       \/ DreamStep(d) \/ Tidy(d) \/ Exit(d) \/ Crash(d)
  \/ \E w \in Writers : WriterStep(w)
  \/ \E k \in Inits : InitStep(k)
  \/ \E e \in Editors : Edit(e)
  \/ \E o \in Outs : OperatorStep(o)
  \/ \E r \in LockRoots : ClearLock(r)
  \/ Finished

Spec == Init /\ [][Next]_vars
-----------------------------------------------------------------------------
(* Whatever was once in the wiki is in it or in a backup: written by anyone,   *)
(* with or without the lock, and whichever rename fails or crash comes first   *)
(* ("Backups and failed-restore artifacts are retained").                      *)
NothingLost ==
  \A c \in ever : \/ live # Nowhere /\ c \in live.pages
                  \/ \E d \in Dreams : backup[d] # Nowhere /\ c \in backup[d].pages

(* The renames of d are half done, for the moment or for good.                 *)
HalfSwapped(d) == backup[d] # Nowhere /\ d \notin installed

(* Outside a half-done swap the wiki is at its path and has every page written *)
(* under the lock: a copy taken before a write never replaces the wiki with it.*)
WritesInstalled ==
  (\A d \in Dreams : ~HalfSwapped(d)) => live # Nowhere /\ written \subseteq live.pages

(* Nor does an install take back the stamp of a dream that ended meanwhile.    *)
StampsKept ==
  (\A d \in Dreams : ~HalfSwapped(d)) => \A d \in marked : live.stamp >= At[d]

(* An output directory is removed by its own dream, or by the operator who     *)
(* inspected that dream's output, once it was handed over or its process died. *)
OwnStep(d) == pc'[d] # pc[d]
OutputsGuarded ==
  [][\A o \in Outs : out[o] # Nowhere /\ out'[o] = Nowhere =>
       LET d == out[o].by
       IN \/ OwnStep(d)
          \/ (asked[o] = d /\ pc[d] \in {"returned", "done", "dispose", "gone"})]_vars
=============================================================================
