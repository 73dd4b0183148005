------------------------- MODULE DreamWorkspace_proof -------------------------
(* Proofs about dreams, for every number of dreams, outputs, writers, editors  *)
(* and inits: no page of a wiki is lost, an install takes back no write and no *)
(* stamp, and an output is removed by its owner or after it was handed over.   *)
EXTENDS DreamWorkspace, TLAPS

Early == {"idle", "snapshot", "copy", "publish", "dream", "stamp", "decide", "install", "check",
          "swap"}
Swapping == {"moved", "restore", "refill"}
Locked == {"copy", "publish", "check", "swap"} \cup Swapping
Left == {"returned", "done", "dispose", "removing", "gone"}

(* How far a dream is, in the directories: no backup before the first rename,  *)
(* one while the swap is half done; its copy is its own while it copies it.    *)
StageInv(d) ==
  /\ pc[d] \in Locked => HoldsBoth(d)
  /\ pc[d] \in Early => backup[d] = Nowhere
  /\ pc[d] \in Swapping => backup[d] # Nowhere
  /\ pc[d] \in Early \cup Swapping => d \notin installed
  /\ pc[d] \in {"swap", "moved"} => staged[d] # Nowhere
  /\ pc[d] \in {"copy", "publish", "check"} => Mine(d)
  /\ pc[d] = "publish" => before[d] \subseteq out[where[d]].pages

(* An output and its manifest are where their dream put them, and stay as long *)
(* as it may use them; the copy has what the manifest says it was made of.     *)
OutInv(o) ==
  /\ out[o] # Nowhere =>
       /\ out[o].by \in Dreams /\ where[out[o].by] = o
       /\ pc[out[o].by] \notin {"idle", "snapshot", "removing"}
  /\ manifest[o] # Nowhere =>
       /\ where[manifest[o].by] = o /\ pc[manifest[o].by] \notin {"idle"} \cup Copying
       /\ manifest[o].released => pc[manifest[o].by] \in Left
       /\ out[o] # Nowhere /\ out[o].by = manifest[o].by => manifest[o].print \subseteq out[o].pages

WriterInv(w) == doing[w] = "in" => Holds(w, Wiki)

(* A swap that was left half done stays so; otherwise every write and stamp is *)
(* in the wiki, or in what takes its place.                                    *)
Stranded == \E d \in Dreams : HalfSwapped(d) /\ pc[d] \notin Swapping
Has(dir) ==
  dir # Nowhere /\ written \subseteq dir.pages /\ \A e \in marked : dir.stamp >= At[e]
InstallInv ==
  /\ (\A d \in Dreams : pc[d] \notin Swapping) => Has(live)
  /\ \A d \in Dreams : /\ pc[d] = "check" => written \subseteq out[where[d]].pages
                       /\ pc[d] \in {"swap", "moved"} => Has(staged[d])
                       /\ pc[d] \in Swapping => Has(backup[d])

IInv ==
  /\ TypeOK
  /\ \A d \in Dreams : StageInv(d)
  /\ \A o \in Outs : OutInv(o)
  /\ \A w \in Writers : WriterInv(w)
  /\ NothingLost
  /\ ~Stranded => InstallInv
DreamMoves(d) ==
  Begin(d) \/ BeginFails(d) \/ DreamStep(d) \/ Tidy(d) \/ Exit(d) \/ Crash(d)
OthersMove ==
  \/ \E w \in Writers : WriterStep(w)
  \/ \E k \in Inits : InitStep(k)
  \/ \E e \in Editors : Edit(e)
  \/ \E o \in Outs : OperatorStep(o)
  \/ \E r \in LockRoots : ClearLock(r)
  \/ Finished
-----------------------------------------------------------------------------
LEMMA Parameters ==
  /\ Wiki \in LockRoots /\ \A o \in Outs : o \in LockRoots /\ o # Wiki
  /\ Op \notin Dreams /\ Op \notin Writers /\ NoProc \notin Dreams /\ NoProc \notin Writers
  /\ Op # NoProc /\ \A w \in Writers : w \notin Dreams /\ w \in Others
  /\ \A d \in Dreams : At[d] \in Nat
BY DreamAssumption DEF Others

LEMMA WhoMoves ==
  ASSUME [Next]_vars
  PROVE  (\E d \in Dreams : DreamMoves(d)) \/ OthersMove \/ UNCHANGED vars
BY DEF Next, DreamMoves, OthersMove

(* A directory keeps its shape when its pages or its stamp change.             *)
LEMMA Shape ==
  ASSUME NEW x \in Directories
  PROVE  /\ x.by \in Makers /\ x.pages \subseteq Changes /\ x.stamp \in Nat /\ x # Nowhere
         /\ \A ps \in SUBSET Changes :
              /\ [x EXCEPT !.pages = ps] \in Directories /\ [x EXCEPT !.pages = ps].pages = ps
              /\ [x EXCEPT !.pages = ps].by = x.by /\ [x EXCEPT !.pages = ps].stamp = x.stamp
         /\ \A n \in Nat :
              /\ [x EXCEPT !.stamp = n] \in Directories /\ [x EXCEPT !.stamp = n].stamp = n
              /\ [x EXCEPT !.stamp = n].by = x.by /\ [x EXCEPT !.stamp = n].pages = x.pages
BY DreamAssumption DEF Directories

LEMMA FreshShape ==
  ASSUME NEW k \in Makers
  PROVE  /\ Fresh(k) \in Directories /\ Fresh(k) # Nowhere
         /\ Fresh(k).by = k /\ Fresh(k).pages = {} /\ Fresh(k).stamp = 0
BY DreamAssumption DEF Fresh, Directories

LEMMA Latest == \A m, n \in Nat : Later(m, n) \in Nat /\ Later(m, n) >= m /\ Later(m, n) >= n
BY DEF Later

LEMMA AddedShape ==
  ASSUME TypeOK, NEW k, NEW c \in Changes, live = Nowhere => k \in Makers
  PROVE  /\ Added(k, c) \in Directories /\ c \in Added(k, c).pages
         /\ live # Nowhere => /\ live.pages \subseteq Added(k, c).pages
                              /\ Added(k, c).pages \subseteq live.pages \cup {c}
                              /\ Added(k, c).stamp = live.stamp
         /\ live = Nowhere => Added(k, c).pages = {c}
<1>1. CASE live = Nowhere
  <2>1. Added(k, c) = [Fresh(k) EXCEPT !.pages = {c}]
    BY <1>1 DEF Added
  <2>2. Fresh(k) \in Directories /\ {c} \in SUBSET Changes
    BY <1>1, FreshShape
  <2> QED
    BY <1>1, <2>1, <2>2, Shape
<1>2. CASE live # Nowhere
  <2>1. live \in Directories
    BY <1>2 DEF TypeOK
  <2>2. live.pages \cup {c} \in SUBSET Changes
    BY <2>1, Shape
  <2>3. Added(k, c) = [live EXCEPT !.pages = live.pages \cup {c}]
    BY <1>2, <2>1 DEF Added
  <2> QED
    BY <1>2, <2>1, <2>2, <2>3, Shape
<1> QED
  BY <1>1, <1>2

LEMMA CopyType ==
  ASSUME IInv, TypeOK, NEW d \in Dreams, CopyStep(d)
  PROVE  TypeOK'
<1>1. CASE TakeLock(d)
  BY <1>1, DreamAssumption DEF TypeOK, TakeLock, Acquire, wikis, outputs, recovery, history,
                               others, dreaming
<1>2. CASE MakeOutput(d)
  <2>1. out' \in [Outs -> Directories \cup {Nowhere}] /\ pc' \in [Dreams -> Stages]
    BY <1>2, FreshShape DEF TypeOK, MakeOutput, Goto, Stages, Copying, Makers
  <2> QED
    BY <1>2, <2>1 DEF TypeOK, MakeOutput, wikis, recovery, history, others
<1>3. CASE CopyContents(d)
  <2>1. live \in Directories /\ out[where[d]] \in Directories /\ where[d] \in Outs
    BY <1>3 DEF CopyContents, TypeOK, IInv, StageInv, Mine
  <2>2. out' \in [Outs -> Directories \cup {Nowhere}]
    BY <1>3, <2>1 DEF CopyContents, TypeOK, Directories
  <2>3. before' \in [Dreams -> SUBSET Changes] /\ pc' \in [Dreams -> Stages]
    BY <1>3, <2>1, Shape DEF CopyContents, TypeOK, Fingerprint, Goto, Stages, Copying
  <2> QED
    BY <1>3, <2>2, <2>3 DEF TypeOK, CopyContents, wikis, recovery, history, others
<1>4. CASE Publish(d)
  <2>1. live \in Directories /\ where[d] \in Outs /\ before[d] \in SUBSET Changes
    BY <1>4 DEF Publish, TypeOK
  <2>2. [by |-> d, released |-> FALSE, root |-> live.by, print |-> before[d]] \in Manifests
    BY <2>1, Shape DEF Manifests
  <2>3. manifest' \in [Outs -> Manifests \cup {Nowhere}]
    BY <1>4, <2>1, <2>2 DEF Publish, TypeOK
  <2>4. lock' \in [LockRoots -> Dreams \cup Writers \cup {Op, NoProc}]
    BY <1>4 DEF Publish, TypeOK, ReleaseAll
  <2>5. before' \in [Dreams -> SUBSET Changes] /\ pc' \in [Dreams -> Stages]
    BY <1>4 DEF Publish, TypeOK, Goto, Stages, Working, Ending
  <2> QED
    BY <1>4, <2>3, <2>4, <2>5 DEF TypeOK, Publish, wikis, recovery, history, others
<1>5. CASE CopyFails(d)
  <2>1. lock' \in [LockRoots -> Dreams \cup Writers \cup {Op, NoProc}]
    BY <1>5 DEF CopyFails, TypeOK, ReleaseAll
  <2>2. before' \in [Dreams -> SUBSET Changes] /\ pc' \in [Dreams -> Stages]
    BY <1>5 DEF CopyFails, TypeOK, Goto, Stages, Ending
  <2> QED
    BY <1>5, <2>1, <2>2 DEF TypeOK, CopyFails, wikis, outputs, recovery, history, others
<1> QED
  BY <1>1, <1>2, <1>3, <1>4, <1>5 DEF CopyStep

LEMMA MovesType ==
  ASSUME TypeOK, NEW d \in Dreams, NEW from, NEW to \in Stages, Moves(d, from, to)
  PROVE  TypeOK'
BY DEF TypeOK, Moves, Goto, exceptPc, wikis, outputs, recovery, history, others

LEMMA WorkType ==
  ASSUME TypeOK, NEW d \in Dreams, WorkStep(d)
  PROVE  TypeOK'
<1>0. where[d] \in Outs /\ d \in Changes
  BY DEF TypeOK, Changes
<1>1. CASE Consolidate(d)
  <2>1. out[where[d]] \in Directories
    BY <1>0, <1>1 DEF Consolidate, Mine, TypeOK
  <2>2. [out[where[d]] EXCEPT !.pages = @ \cup {d}] \in Directories
    BY <1>0, <2>1, Shape
  <2>3. out' \in [Outs -> Directories \cup {Nowhere}] /\ pc' \in [Dreams -> Stages]
    BY <1>0, <1>1, <2>2 DEF Consolidate, TypeOK, Goto, Stages, Working
  <2> QED
    BY <1>1, <2>3 DEF TypeOK, Consolidate, wikis, recovery, history, others
<1>2. CASE StampCopy(d)
  <2>1. out[where[d]] \in Directories
    BY <1>0, <1>2 DEF StampCopy, Mine, TypeOK
  <2>2. [out[where[d]] EXCEPT !.stamp = Later(@, At[d])] \in Directories
    BY <2>1, Shape, Latest, Parameters
  <2>3. out' \in [Outs -> Directories \cup {Nowhere}] /\ pc' \in [Dreams -> Stages]
    BY <1>0, <1>2, <2>2 DEF StampCopy, TypeOK, Goto, Stages, Working
  <2> QED
    BY <1>2, <2>3 DEF TypeOK, StampCopy, wikis, recovery, history, others
<1>3. CASE StampLive(d)
  <2>1. live \in Directories /\ live' = [live EXCEPT !.stamp = Later(@, At[d])]
    BY <1>3 DEF StampLive, TypeOK
  <2>2. live' \in Directories
    BY <2>1, Shape, Latest, Parameters
  <2> QED
    BY <1>3, <2>2 DEF TypeOK, StampLive, outputs, dreaming, recovery, others
<1>4. CASE Decide(d) \/ WorkFails(d)
  BY <1>4, MovesType DEF Decide, WorkFails, Stages, Ending, Installing
<1> QED
  BY <1>1, <1>2, <1>3, <1>4 DEF WorkStep

LEMMA InstallType ==
  ASSUME IInv, TypeOK, NEW d \in Dreams, InstallStep(d)
  PROVE  TypeOK'
<1>0. where[d] \in Outs
  BY DEF TypeOK
<1>1. CASE CheckSource(d) \/ MoveInFails(d) \/ BeginRestore(d) \/ InstallFails(d)
  BY <1>1, MovesType
     DEF CheckSource, MoveInFails, BeginRestore, InstallFails, Stages, Installing, Ending
<1>2. CASE Stage(d)
  <2>1. out[where[d]] \in Directories /\ StagedStamp(d) \in Nat
    BY <1>0, <1>2, Shape DEF Stage, IInv, StageInv, Mine, TypeOK, StagedStamp
  <2>2. [by |-> d, pages |-> out[where[d]].pages, stamp |-> StagedStamp(d)] \in Directories
    BY <2>1, Shape DEF Directories, Makers
  <2>3. staged' \in [Dreams -> Directories \cup {Nowhere}] /\ pc' \in [Dreams -> Stages]
    BY <1>2, <2>2 DEF Stage, TypeOK, Goto, Stages, Installing
  <2> QED
    BY <1>2, <2>3 DEF TypeOK, Stage, outputs, recovery, history, others
<1>3. CASE MoveAway(d)
  BY <1>3 DEF TypeOK, MoveAway, Goto, Stages, Installing, outputs, recovery, history, others
<1>4. CASE MoveIn(d)
  <2>1. staged[d] \in Directories
    BY <1>4 DEF MoveIn, IInv, StageInv, TypeOK
  <2>2. ever' \subseteq Changes /\ installed' \subseteq Dreams /\ live' \in Directories
    BY <1>4, <2>1, Shape DEF MoveIn, TypeOK
  <2>3. staged' \in [Dreams -> Directories \cup {Nowhere}] /\ pc' \in [Dreams -> Stages]
    BY <1>4 DEF MoveIn, TypeOK, Goto, Stages, Ending
  <2> QED
    BY <1>4, <2>2, <2>3 DEF TypeOK, MoveIn, BackupKept, outputs, recovery, others
<1>5. CASE Restore(d)
  BY <1>5 DEF TypeOK, Restore, Goto, Stages, Ending, outputs, recovery, history, others
<1>6. CASE RestoreFails(d)
  BY <1>6 DEF TypeOK, RestoreFails, ReleaseAll, Goto, Stages, Ending, wikis, outputs, recovery,
     history, others
<1>7. CASE Unstage(d)
  BY <1>7 DEF TypeOK, Unstage, ReleaseAll, Goto, Stages, Ending, outputs, recovery, history,
     others
<1> QED
  BY <1>1, <1>2, <1>3, <1>4, <1>5, <1>6, <1>7 DEF InstallStep

LEMMA EndType ==
  ASSUME TypeOK, NEW d \in Dreams, EndStep(d)
  PROVE  TypeOK'
<1>0. where[d] \in Outs /\ where[d] \in LockRoots
  BY Parameters DEF TypeOK
<1>1. CASE HandOff(d)
  <2>1. manifest[where[d]] \in Manifests
    BY <1>0, <1>1 DEF HandOff, Registered, TypeOK
  <2>2. [manifest[where[d]] EXCEPT !.released = TRUE] \in Manifests
    BY <2>1 DEF Manifests
  <2>3. manifest' \in [Outs -> Manifests \cup {Nowhere}] /\ pc' \in [Dreams -> Stages]
    BY <1>0, <1>1, <2>2 DEF HandOff, Over, TypeOK, Goto, Stages
  <2> QED
    BY <1>1, <2>3 DEF TypeOK, HandOff, wikis, recovery, history, others
<1>2. CASE RemoveOutput(d)
  BY <1>0, <1>2 DEF TypeOK, RemoveOutput, Acquire, Goto, Stages, Ending, wikis, recovery,
                    history, others
<1>3. CASE RemoveManifest(d)
  BY <1>3 DEF TypeOK, RemoveManifest, ReleaseAll, Goto, Stages, wikis, recovery, history, others
<1>4. CASE EndFails(d)
  BY <1>4 DEF TypeOK, EndFails, ReleaseAll, Over, Goto, Stages, wikis, outputs, recovery,
              history, others
<1> QED
  BY <1>1, <1>2, <1>3, <1>4 DEF EndStep

LEMMA AloneType ==
  ASSUME TypeOK, NEW d \in Dreams, Begin(d) \/ BeginFails(d) \/ Tidy(d) \/ Exit(d) \/ Crash(d)
  PROVE  TypeOK'
<1>1. CASE Begin(d) \/ BeginFails(d) \/ Tidy(d) \/ Exit(d)
  BY <1>1, MovesType DEF Begin, BeginFails, Tidy, Exit, Stages, Copying, Ending
<1>2. CASE Crash(d)
  BY <1>2, DreamAssumption DEF TypeOK, Crash, Goto, Stages, wikis, outputs, recovery, history
<1> QED
  BY <1>1, <1>2

LEMMA BesideType ==
  ASSUME TypeOK, \/ \E w \in Writers : WriterStep(w)
                 \/ \E k \in Inits : InitStep(k)
                 \/ \E e \in Editors : Edit(e)
  PROVE  TypeOK'
<1>1. ASSUME NEW w \in Writers, WriterStep(w) PROVE TypeOK'
  <2>0. w \in Others /\ w \in Changes /\ w \in Makers
    BY DEF Others, Changes, Makers
  <2>1. CASE BeginWrite(w)
    BY <2>0, <2>1, Parameters
       DEF TypeOK, BeginWrite, Acquire, wikis, outputs, dreaming, recovery, history
  <2>2. CASE Write(w)
    <3>1. live' \in Directories
      BY <2>0, <2>2, AddedShape DEF Write
    <3>2. ever' \subseteq Changes /\ written' \subseteq Writers
      BY <2>0, <2>2 DEF Write, TypeOK
    <3>3. /\ doing' \in [Others -> {"idle", "in", "done", "gone"}]
          /\ lock' \in [LockRoots -> Dreams \cup Writers \cup {Op, NoProc}]
      BY <2>2 DEF Write, ReleaseAll, TypeOK
    <3> QED
      BY <2>2, <3>1, <3>2, <3>3 DEF TypeOK, Write, outputs, dreaming, recovery
  <2>3. CASE WriterDies(w)
    <3>1. crashes' \in 0..MaxCrashes
      BY <2>3, DreamAssumption DEF WriterDies, TypeOK
    <3>2. doing' \in [Others -> {"idle", "in", "done", "gone"}]
      BY <2>3 DEF WriterDies, TypeOK
    <3> QED
      BY <2>3, <3>1, <3>2 DEF TypeOK, WriterDies, wikis, outputs, dreaming, recovery, history
  <2> QED
    BY <1>1, <2>1, <2>2, <2>3 DEF WriterStep
<1>2. ASSUME NEW k \in Inits, InitStep(k) PROVE TypeOK'
  <2>0. Skeleton \in Changes /\ k \in Makers
    BY DEF Changes, Makers
  <2>1. live' \in Directories \cup {Nowhere}
    BY <1>2, <2>0, AddedShape, FreshShape DEF InitStep, InitRoot, InitFiles, TypeOK
  <2> QED
    BY <1>2, <2>1 DEF TypeOK, InitStep, InitRoot, InitFiles, outputs, dreaming, recovery,
       history
<1>3. ASSUME NEW e \in Editors, Edit(e) PROVE TypeOK'
  <2>0. e \in Changes
    BY DEF Changes
  <2>1. live' \in Directories
    BY <1>3, <2>0, AddedShape DEF Edit
  <2> QED
    BY <1>3, <2>0, <2>1 DEF TypeOK, Edit, outputs, dreaming, recovery
<1> QED
  BY <1>1, <1>2, <1>3

LEMMA OperatorType ==
  ASSUME TypeOK, \/ \E o \in Outs : OperatorStep(o)
                 \/ \E r \in LockRoots : ClearLock(r)
  PROVE  TypeOK'
<1>1. ASSUME NEW o \in Outs, OperatorStep(o) PROVE TypeOK'
  <2>1. CASE Inspect(o)
    <3>1. manifest[o].by \in Dreams
      BY <2>1 DEF Inspect, TypeOK, Manifests
    <3> QED
      BY <2>1, <3>1 DEF TypeOK, Inspect, wikis, outputs, dreaming, history
  <2>2. CASE Observe(o) \/ DiscardFails(o)
    BY <2>2 DEF TypeOK, Observe, DiscardFails, wikis, outputs, dreaming, history
  <2>3. CASE Discard(o) \/ DiscardManifest(o)
    BY <2>3, Parameters
       DEF TypeOK, Discard, DiscardManifest, Acquire, wikis, dreaming, recovery, others, history
  <2>4. CASE OperatorDies(o)
    BY <2>4, DreamAssumption DEF TypeOK, OperatorDies, wikis, outputs, dreaming, history
  <2> QED
    BY <1>1, <2>1, <2>2, <2>3, <2>4 DEF OperatorStep
<1>2. ASSUME NEW r \in LockRoots, ClearLock(r) PROVE TypeOK'
  BY <1>2 DEF TypeOK, ClearLock, RemoveLock, wikis, outputs, dreaming, others, recovery, history
<1> QED
  BY <1>1, <1>2

LEMMA TypeKeeps ==
  ASSUME IInv, [Next]_vars
  PROVE  TypeOK'
<1>0. TypeOK
  BY DEF IInv
<1>1. ASSUME NEW d \in Dreams, DreamMoves(d) PROVE TypeOK'
  BY <1>0, <1>1, CopyType, WorkType, InstallType, EndType, AloneType DEF DreamMoves, DreamStep
<1>2. CASE OthersMove /\ ~Finished
  BY <1>0, <1>2, BesideType, OperatorType DEF OthersMove
<1>3. CASE UNCHANGED vars
  BY <1>0, <1>3 DEF TypeOK, vars
<1> QED
  BY <1>1, <1>2, <1>3, WhoMoves DEF Finished
-----------------------------------------------------------------------------
(* What a step of a dream leaves alone: the other dreams, their outputs, their *)
(* directories, their locks.                                                   *)
LEMMA DreamFrame ==
  ASSUME TypeOK, NEW d \in Dreams, DreamMoves(d)
  PROVE  /\ \A e \in Dreams : e # d =>
              /\ pc'[e] = pc[e] /\ before'[e] = before[e]
              /\ staged'[e] = staged[e] /\ backup'[e] = backup[e]
              /\ e \in installed' <=> e \in installed
         /\ \A o \in Outs : o # where[d] => out'[o] = out[o] /\ manifest'[o] = manifest[o]
         /\ where' = where /\ doing' = doing /\ written' = written
         /\ \A r \in LockRoots : \A p : Holds(p, r) /\ p # d /\ p # NoProc => Holds(p, r)'
<1>0. where[d] \in Outs /\ where[d] \in LockRoots /\ Wiki \in LockRoots
  BY Parameters DEF TypeOK
<1>1. /\ \A e \in Dreams : e # d => pc'[e] = pc[e] /\ before'[e] = before[e]
      /\ where' = where /\ doing' = doing /\ written' = written
  BY <1>0 DEF TypeOK, DreamMoves, DreamStep, CopyStep, WorkStep, InstallStep, EndStep,
              TakeLock, MakeOutput, CopyContents, Publish, CopyFails, Consolidate, StampCopy,
              StampLive, Decide, WorkFails, CheckSource, Stage, MoveAway, MoveIn, MoveInFails,
              BeginRestore, Restore, RestoreFails, InstallFails, Unstage, HandOff,
              RemoveOutput, RemoveManifest, EndFails, Begin, BeginFails, Tidy, Exit, Crash,
              Moves, Over, Goto, exceptPc, wikis, outputs, recovery, history, others, dreaming
<1>2. \A e \in Dreams : e # d =>
        /\ staged'[e] = staged[e] /\ backup'[e] = backup[e]
        /\ e \in installed' <=> e \in installed
  BY <1>0 DEF TypeOK, DreamMoves, DreamStep, CopyStep, WorkStep, InstallStep, EndStep,
              TakeLock, MakeOutput, CopyContents, Publish, CopyFails, Consolidate, StampCopy,
              StampLive, Decide, WorkFails, CheckSource, Stage, MoveAway, MoveIn, MoveInFails,
              BeginRestore, Restore, RestoreFails, InstallFails, Unstage, HandOff,
              RemoveOutput, RemoveManifest, EndFails, Begin, BeginFails, Tidy, Exit, Crash,
              Moves, BackupKept, exceptPc, wikis, outputs, recovery, history, others, dreaming
<1>3. \A o \in Outs : o # where[d] => out'[o] = out[o] /\ manifest'[o] = manifest[o]
  BY <1>0 DEF TypeOK, DreamMoves, DreamStep, CopyStep, WorkStep, InstallStep, EndStep, TakeLock,
     MakeOutput, CopyContents, Publish, CopyFails, Consolidate, StampCopy, StampLive, Decide,
     WorkFails, CheckSource, Stage, MoveAway, MoveIn, MoveInFails, BeginRestore, Restore,
     RestoreFails, InstallFails, Unstage, HandOff, RemoveOutput, RemoveManifest, EndFails,
     Begin, BeginFails, Tidy, Exit, Crash, Moves, exceptPc, wikis, outputs, recovery,
     history, others, dreaming
<1>4. \A r \in LockRoots : \A p : Holds(p, r) /\ p # d /\ p # NoProc => Holds(p, r)'
  BY <1>0 DEF TypeOK, DreamMoves, DreamStep, CopyStep, WorkStep, InstallStep, EndStep, TakeLock,
     MakeOutput, CopyContents, Publish, CopyFails, Consolidate, StampCopy, StampLive, Decide,
     WorkFails, CheckSource, Stage, MoveAway, MoveIn, MoveInFails, BeginRestore, Restore,
     RestoreFails, InstallFails, Unstage, HandOff, RemoveOutput, RemoveManifest, EndFails,
     Begin, BeginFails, Tidy, Exit, Crash, Moves, exceptPc, wikis, outputs, recovery,
     history, others, dreaming, Holds, Free, Acquire, ReleaseAll
<1> QED
  BY <1>1, <1>2, <1>3, <1>4

(* What the others leave alone: the dreams, and the locks of those that run.   *)
LEMMA OthersFrame ==
  ASSUME TypeOK, OthersMove
  PROVE  /\ UNCHANGED <<backup, staged, dreaming, marked, installed>>
         /\ \A d \in Dreams : \A r \in LockRoots :
              Holds(d, r) /\ pc[d] # "gone" => Holds(d, r)'
         /\ \A o \in Outs : out'[o] # out[o] => out'[o] = Nowhere /\ Discard(o)
         /\ \A o \in Outs : manifest'[o] # manifest[o] => manifest'[o] = Nowhere
<1>1. ASSUME NEW w \in Writers, WriterStep(w)
      PROVE  /\ UNCHANGED <<backup, staged, outputs, dreaming, marked, installed>>
             /\ \A d \in Dreams : \A r \in LockRoots : Holds(d, r) => Holds(d, r)'
  BY <1>1, Parameters DEF TypeOK, WriterStep, BeginWrite, Write, WriterDies, wikis, outputs,
                          history, Holds, Free, Acquire, ReleaseAll
<1>2. ASSUME \/ \E k \in Inits : InitStep(k)
             \/ \E e \in Editors : Edit(e)
             \/ Finished
      PROVE  UNCHANGED <<lock, backup, staged, outputs, dreaming, marked, installed>>
  BY <1>2 DEF InitStep, InitRoot, InitFiles, Edit, Finished, vars, outputs, dreaming, history
<1>3. ASSUME NEW o \in Outs, OperatorStep(o)
      PROVE  /\ UNCHANGED <<backup, staged, dreaming, marked, installed>>
             /\ \A d \in Dreams : \A r \in LockRoots : Holds(d, r) => Holds(d, r)'
             /\ \A x \in Outs : out'[x] # out[x] => out'[x] = Nowhere /\ Discard(x)
             /\ \A x \in Outs : manifest'[x] # manifest[x] => manifest'[x] = Nowhere
  <2>1. CASE Inspect(o) \/ Observe(o) \/ DiscardFails(o) \/ OperatorDies(o)
    BY <2>1 DEF Inspect, Observe, DiscardFails, OperatorDies, wikis, outputs, history, Holds
  <2>2. CASE Discard(o)
    BY <2>2, Parameters DEF TypeOK, Discard, Acquire, Free, Holds, wikis, history
  <2>3. CASE DiscardManifest(o)
    BY <2>3, Parameters DEF TypeOK, DiscardManifest, Holds, wikis, history
  <2> QED
    BY <1>3, <2>1, <2>2, <2>3 DEF OperatorStep
<1>4. ASSUME NEW r \in LockRoots, ClearLock(r)
      PROVE  /\ UNCHANGED <<backup, staged, outputs, dreaming, marked, installed>>
             /\ \A d \in Dreams : \A x \in LockRoots :
                  Holds(d, x) /\ pc[d] # "gone" => Holds(d, x)'
  BY <1>4, Parameters DEF TypeOK, ClearLock, RemoveLock, Dead, Holds, wikis, outputs, history
<1> DEFINE Frame ==
      /\ UNCHANGED <<backup, staged, dreaming, marked, installed>>
      /\ \A d \in Dreams : \A r \in LockRoots :
           Holds(d, r) /\ pc[d] # "gone" => Holds(d, r)'
      /\ \A o \in Outs : out'[o] # out[o] => out'[o] = Nowhere /\ Discard(o)
      /\ \A o \in Outs : manifest'[o] # manifest[o] => manifest'[o] = Nowhere
<1>5. ASSUME NEW w \in Writers, WriterStep(w) PROVE Frame
  BY <1>1, <1>5 DEF outputs
<1>6. ASSUME \/ \E k \in Inits : InitStep(k)
             \/ \E e \in Editors : Edit(e)
             \/ Finished
      PROVE  Frame
  BY <1>2, <1>6 DEF outputs, Holds
<1>7. ASSUME NEW o \in Outs, OperatorStep(o) PROVE Frame
  BY <1>3, <1>7
<1>8. ASSUME NEW r \in LockRoots, ClearLock(r) PROVE Frame
  BY <1>4, <1>8 DEF outputs
<1> HIDE DEF Frame
<1>9. Frame
  BY <1>5, <1>6, <1>7, <1>8 DEF OthersMove
<1> QED
  BY <1>9 DEF Frame
-----------------------------------------------------------------------------
(* No other process removes or makes the output of a dream that holds its lock.*)
LEMMA OutputHeld ==
  ASSUME IInv, [Next]_vars, NEW d \in Dreams, pc[d] \in {"copy", "publish", "check"},
         ~DreamMoves(d)
  PROVE  out'[where[d]] = out[where[d]] /\ where' = where
<1>0. TypeOK /\ where[d] \in Outs /\ Holds(d, where[d]) /\ out[where[d]] # Nowhere
      /\ out[where[d]].by = d /\ d # NoProc
  BY Parameters DEF IInv, TypeOK, StageInv, HoldsBoth, Locked, Mine
<1>1. ASSUME NEW e \in Dreams, DreamMoves(e) PROVE out'[where[d]] = out[where[d]] /\ where' = where
  <2>1. where' = where /\ (where[e] # where[d] => out'[where[d]] = out[where[d]])
    BY <1>0, <1>1, DreamFrame
  <2>2. CASE where[e] = where[d]
    <3>1. e # d /\ ~Free(where[e]) /\ ~Mine(e) /\ out[where[e]] # Nowhere
      BY <1>0, <1>1, <2>2 DEF Free, Holds, Mine
    <3>2. ~MakeOutput(e) /\ ~Consolidate(e) /\ ~StampCopy(e) /\ ~RemoveOutput(e)
      BY <3>1 DEF MakeOutput, Consolidate, StampCopy, RemoveOutput
    <3>3. ~CopyContents(e)
      BY <3>1 DEF CopyContents, IInv, StageInv
    <3>4. out' = out
      BY <1>1, <3>2, <3>3 DEF DreamMoves, DreamStep, CopyStep, WorkStep, InstallStep, EndStep,
                              TakeLock, Publish, CopyFails, StampLive, Decide, WorkFails,
                              CheckSource, Stage, MoveAway, MoveIn, MoveInFails, BeginRestore,
                              Restore, RestoreFails, InstallFails, Unstage, HandOff,
                              RemoveManifest, EndFails, Begin, BeginFails, Tidy, Exit, Crash,
                              Moves, exceptPc, outputs
    <3> QED
      BY <2>1, <3>4
  <2> QED
    BY <2>1, <2>2
<1>2. CASE OthersMove
  BY <1>0, <1>2, OthersFrame DEF Discard, Acquire, Free, Holds, dreaming
<1>3. CASE UNCHANGED vars
  BY <1>3 DEF vars
<1> QED
  BY <1>1, <1>2, <1>3, WhoMoves

(* A dream's own step keeps its stage in order.                                *)
LEMMA StageOfMover ==
  ASSUME IInv, TypeOK', NEW d \in Dreams, DreamMoves(d)
  PROVE  StageInv(d)'
<1>0. /\ TypeOK /\ StageInv(d) /\ where[d] \in Outs /\ where[d] \in LockRoots /\ Wiki \in LockRoots
      /\ d # NoProc /\ where' = where
  BY Parameters, DreamFrame DEF IInv, TypeOK
<1>1. CASE Begin(d) \/ BeginFails(d) \/ Tidy(d) \/ Exit(d) \/ Crash(d)
  BY <1>0, <1>1 DEF TypeOK, StageInv, Early, Swapping, Locked, Begin, BeginFails, Tidy, Exit,
                    Crash, Moves, Goto, exceptPc, wikis, outputs, history, HoldsBoth, Holds,
                    Mine
<1>2. CASE TakeLock(d)
  BY <1>0, <1>2 DEF TypeOK, StageInv, Early, Swapping, Locked, TakeLock, Acquire, Free,
     wikis, outputs, history, dreaming, HoldsBoth, Holds, Mine
<1>3. CASE MakeOutput(d)
  <2>1. pc'[d] = "copy" /\ backup' = backup /\ installed' = installed /\ pc[d] \in Early
    BY <1>0, <1>3 DEF MakeOutput, Goto, TypeOK, Early, wikis, history
  <2>2. Mine(d)' /\ HoldsBoth(d)'
    <3>1. out'[where[d]] = Fresh(d) /\ d \in Makers
      BY <1>0, <1>3 DEF MakeOutput, TypeOK, Makers
    <3> QED
      BY <1>0, <1>3, <3>1, FreshShape DEF MakeOutput, Mine, HoldsBoth, Holds
  <2> QED
    BY <1>0, <2>1, <2>2 DEF StageInv, Swapping
<1>4. CASE CopyContents(d)
  <2>1. pc'[d] = "publish" /\ backup' = backup /\ installed' = installed /\ pc[d] \in Early
    BY <1>0, <1>4 DEF CopyContents, Goto, TypeOK, Early, wikis, history
  <2>2. out[where[d]] \in Directories /\ out[where[d]].by = d /\ live \in Directories
    BY <1>0, <1>4 DEF CopyContents, StageInv, Mine, TypeOK
  <2>3. /\ out'[where[d]].by = d /\ out'[where[d]].pages = live.pages /\ out'[where[d]] # Nowhere
        /\ before'[d] = live.pages
    <3>1. out'[where[d]] \in Directories
      BY <1>0, <1>4, <2>2 DEF CopyContents, TypeOK, Directories
    <3>2. out'[where[d]].by = d /\ out'[where[d]].pages = live.pages
      BY <1>0, <1>4, <2>2 DEF CopyContents, TypeOK, Directories
    <3>3. before'[d] = live.pages
      BY <1>0, <1>4 DEF CopyContents, TypeOK, Fingerprint
    <3> QED
      BY <3>1, <3>2, <3>3, Shape
  <2>4. HoldsBoth(d)'
    BY <1>0, <1>4 DEF CopyContents, StageInv, Locked, HoldsBoth, Holds
  <2> QED
    BY <1>0, <2>1, <2>3, <2>4 DEF StageInv, Swapping, Mine
<1>5. CASE Publish(d) \/ CopyFails(d)
  BY <1>0, <1>5 DEF TypeOK, StageInv, Early, Swapping, Locked, Publish, CopyFails, Goto,
     wikis, history, outputs
<1>6. CASE Consolidate(d) \/ StampCopy(d) \/ StampLive(d)
  BY <1>0, <1>6 DEF TypeOK, StageInv, Early, Swapping, Locked, Consolidate, StampCopy,
                    StampLive, Goto, wikis, history, dreaming
<1>7. CASE Decide(d) \/ WorkFails(d)
  BY <1>0, <1>7 DEF TypeOK, StageInv, Early, Swapping, Locked, Decide, WorkFails, Working,
                    Moves, exceptPc, Goto, wikis, history, outputs
<1>8. CASE CheckSource(d)
  BY <1>0, <1>8 DEF TypeOK, StageInv, Early, Swapping, Locked, CheckSource, SameSource, Moves,
     exceptPc, Goto, wikis, history, outputs, HoldsBoth, Holds, Mine
<1>9. CASE Stage(d)
  <2>1. /\ pc'[d] = "swap" /\ backup' = backup /\ installed' = installed /\ pc[d] \in Early
        /\ HoldsBoth(d)'
    BY <1>0, <1>9 DEF Stage, Goto, TypeOK, Early, history, StageInv, Locked, HoldsBoth, Holds
  <2>2. staged'[d] # Nowhere
    <3>1. out[where[d]] \in Directories /\ StagedStamp(d) \in Nat
      BY <1>0, <1>9, Shape DEF Stage, StageInv, Mine, TypeOK, StagedStamp
    <3>2. [by |-> d, pages |-> out[where[d]].pages, stamp |-> StagedStamp(d)] \in Directories
      BY <3>1, Shape DEF Directories, Makers
    <3> QED
      BY <1>9, <3>2, DreamAssumption DEF Stage, TypeOK, IInv
  <2> QED
    BY <1>0, <2>1, <2>2 DEF StageInv, Swapping
<1>10. CASE MoveAway(d)
  BY <1>0, <1>10 DEF TypeOK, StageInv, Early, Swapping, Locked, MoveAway, Goto,
     history, outputs, HoldsBoth, Holds, Mine
<1>11. CASE MoveIn(d) \/ Restore(d) \/ RestoreFails(d) \/ Unstage(d)
  BY <1>0, <1>11 DEF TypeOK, StageInv, Early, Swapping, Locked, MoveIn, Restore, RestoreFails,
     Unstage, Goto
<1>12. CASE MoveInFails(d) \/ BeginRestore(d) \/ InstallFails(d)
  BY <1>0, <1>12 DEF TypeOK, StageInv, Early, Swapping, Locked, MoveInFails, BeginRestore,
                     InstallFails, Moves, exceptPc, Goto, wikis, history, outputs, HoldsBoth,
                     Holds, Mine
<1>13. CASE EndStep(d)
  BY <1>0, <1>13 DEF TypeOK, StageInv, Early, Swapping, Locked, EndStep, HandOff, RemoveOutput,
                     RemoveManifest, EndFails, Over, Goto
<1> QED
  BY <1>1, <1>2, <1>3, <1>4, <1>5, <1>6, <1>7, <1>8, <1>9, <1>10, <1>11, <1>12, <1>13
     DEF DreamMoves, DreamStep, CopyStep, WorkStep, InstallStep

LEMMA StageKeeps ==
  ASSUME IInv, [Next]_vars, NEW d \in Dreams
  PROVE  StageInv(d)'
<1>0. /\ TypeOK /\ StageInv(d) /\ TypeOK' /\ d # NoProc /\ Wiki \in LockRoots
      /\ where[d] \in LockRoots
  BY Parameters, TypeKeeps DEF IInv, TypeOK
<1>1. CASE DreamMoves(d)
  BY <1>0, <1>1, StageOfMover
<1>2. CASE ~DreamMoves(d)
  <2>1. /\ pc'[d] = pc[d] /\ before'[d] = before[d] /\ staged'[d] = staged[d]
        /\ backup'[d] = backup[d] /\ where' = where /\ (d \in installed' <=> d \in installed)
    BY <1>0, <1>2, WhoMoves, DreamFrame, OthersFrame DEF dreaming, vars
  <2>2. pc[d] \in Locked => HoldsBoth(d)'
    <3>1. \A r \in LockRoots : Holds(d, r) /\ pc[d] # "gone" => Holds(d, r)'
      BY <1>0, <1>2, WhoMoves, DreamFrame, OthersFrame DEF vars, Holds
    <3> QED
      BY <1>0, <2>1, <3>1 DEF StageInv, Locked, HoldsBoth, Swapping, Holds
  <2>3. pc[d] \in {"copy", "publish", "check"} => out'[where[d]] = out[where[d]]
    BY <1>2, OutputHeld
  <2> QED
    BY <1>0, <2>1, <2>2, <2>3 DEF StageInv, Mine
<1> QED
  BY <1>1, <1>2
-----------------------------------------------------------------------------
(* A dream goes forward: it copies once, and one that left stays so.           *)
LEMMA Forward ==
  ASSUME TypeOK, NEW d \in Dreams, DreamMoves(d)
  PROVE  /\ pc'[d] \in {"idle", "snapshot"} => pc[d] \in {"idle", "snapshot"}
         /\ pc'[d] # "idle" \/ pc[d] = "idle"
         /\ pc'[d] \in Copying => pc[d] \in {"idle"} \cup Copying
         /\ pc[d] \in Left => pc'[d] \in Left
         /\ pc'[d] = "removing" => RemoveOutput(d)
BY DEF TypeOK, Copying, Working, Left, DreamMoves, DreamStep, CopyStep, WorkStep, InstallStep,
       EndStep, TakeLock, MakeOutput, CopyContents, Publish, CopyFails, Consolidate, StampCopy,
       StampLive, Decide, WorkFails, CheckSource, Stage, MoveAway, MoveIn, MoveInFails,
       BeginRestore, Restore, RestoreFails, InstallFails, Unstage, HandOff, RemoveOutput,
       RemoveManifest, EndFails, Begin, BeginFails, Tidy, Exit, Crash, Moves, Over, Goto,
       dreaming

(* Which steps of a dream change an output or a manifest.                      *)
OnOutput(d) ==
  \/ MakeOutput(d) \/ CopyContents(d) \/ Publish(d) \/ Consolidate(d) \/ StampCopy(d)
  \/ HandOff(d) \/ RemoveOutput(d) \/ RemoveManifest(d)

LEMMA OutOfMover ==
  ASSUME IInv, TypeOK', NEW d \in Dreams, DreamMoves(d)
  PROVE  OutInv(where[d])'
<1>0. /\ TypeOK /\ StageInv(d) /\ OutInv(where[d]) /\ where[d] \in Outs /\ where' = where
      /\ \A e \in Dreams : e # d => pc'[e] = pc[e]
  BY DreamFrame DEF IInv, TypeOK
<1>a. /\ pc[d] \in Stages /\ pc'[d] \in Stages
      /\ out[where[d]] # Nowhere => out[where[d]].by \in Dreams
      /\ manifest[where[d]] # Nowhere => manifest[where[d]].by \in Dreams
  BY <1>0 DEF TypeOK, OutInv, Manifests
<1>1. CASE ~OnOutput(d)
  <2>1. out' = out /\ manifest' = manifest
    BY <1>1 DEF OnOutput, DreamMoves, DreamStep, CopyStep, WorkStep, InstallStep, EndStep,
       TakeLock, CopyFails, StampLive, Decide, WorkFails, CheckSource, Stage, MoveAway,
       MoveIn, MoveInFails, BeginRestore, Restore, RestoreFails, InstallFails, Unstage,
       EndFails, Begin, BeginFails, Tidy, Exit, Crash, Moves, exceptPc, outputs
  <2>2. pc'[d] # "removing"
    BY <1>0, <1>1, Forward DEF OnOutput
  <2> QED
    BY <1>0, <1>a, <2>1, <2>2, Forward DEF OutInv
<1>2. CASE MakeOutput(d)
  <2>1. pc[d] = "snapshot" /\ pc'[d] = "copy" /\ out'[where[d]] = Fresh(d) /\ manifest' = manifest
    BY <1>0, <1>2 DEF MakeOutput, Goto, TypeOK
  <2>2. Fresh(d).by = d
    BY FreshShape DEF Makers
  <2> QED
    BY <1>0, <1>a, <2>1, <2>2 DEF OutInv, Copying, Left
<1>3. CASE CopyContents(d)
  <2>1. pc[d] = "copy" /\ pc'[d] = "publish" /\ manifest' = manifest /\ manifest[where[d]] = Nowhere
    BY <1>0, <1>3 DEF CopyContents, Goto, TypeOK
  <2>2. out[where[d]] \in Directories /\ out[where[d]].by = d
    BY <1>0, <1>3 DEF CopyContents, StageInv, Mine, TypeOK
  <2>3. out'[where[d]].by = d
    BY <1>0, <1>3, <2>2 DEF CopyContents, TypeOK, Directories
  <2> QED
    BY <1>0, <2>1, <2>3 DEF OutInv
<1>4. CASE Publish(d)
  <2>1. /\ pc[d] = "publish" /\ pc'[d] \in {"dream", "cleanup"} /\ out' = out
        /\ manifest'[where[d]].by = d /\ manifest'[where[d]].released = FALSE
        /\ manifest'[where[d]].print = before[d]
    BY <1>0, <1>4 DEF Publish, Goto, TypeOK
  <2> QED
    BY <1>0, <1>a, <2>1 DEF OutInv, StageInv, Copying
<1>5. CASE Consolidate(d) \/ StampCopy(d)
  <2>1. /\ pc[d] \in {"dream", "stamp"} /\ pc'[d] \in {"stamp", "decide"} /\ manifest' = manifest
        /\ out[where[d]] \in Directories /\ out[where[d]].by = d /\ out[where[d]] # Nowhere
    BY <1>0, <1>5 DEF Consolidate, StampCopy, Goto, TypeOK, Mine
  <2>2. out'[where[d]].by = d /\ out[where[d]].pages \subseteq out'[where[d]].pages
    BY <1>0, <1>5, <2>1 DEF Consolidate, StampCopy, TypeOK, Directories
  <2> QED
    BY <1>0, <1>a, <2>1, <2>2 DEF OutInv, Copying, Left
<1>6. CASE HandOff(d)
  <2>1. /\ pc[d] \in {"handoff", "retain"} /\ pc'[d] \in {"returned", "done"} /\ out' = out
        /\ manifest[where[d]] \in Manifests /\ manifest[where[d]].by = d
        /\ manifest'[where[d]] = [manifest[where[d]] EXCEPT !.released = TRUE]
    BY <1>0, <1>6 DEF HandOff, Over, Goto, TypeOK, Registered
  <2>2. manifest'[where[d]].by = d /\ manifest'[where[d]].print = manifest[where[d]].print
    BY <2>1 DEF Manifests
  <2>3. manifest[where[d]] # Nowhere
    BY <1>6 DEF HandOff, Registered
  <2> QED
    BY <1>0, <1>a, <2>1, <2>2, <2>3 DEF OutInv, Copying, Left
<1>7. CASE RemoveOutput(d)
  <2>1. /\ pc[d] \in {"cleanup", "dispose"} /\ pc'[d] = "removing" /\ manifest' = manifest
        /\ out'[where[d]] = Nowhere
    BY <1>0, <1>7 DEF RemoveOutput, Goto, TypeOK
  <2> QED
    BY <1>0, <1>a, <2>1 DEF OutInv, Copying, Left
<1>8. CASE RemoveManifest(d)
  <2>1. /\ pc[d] = "removing" /\ pc'[d] = "done" /\ out' = out
        /\ manifest'[where[d]] = IF Registered(d) THEN Nowhere ELSE manifest[where[d]]
    BY <1>0, <1>8 DEF RemoveManifest, Goto, TypeOK
  <2> QED
    BY <1>0, <1>a, <2>1 DEF OutInv, Registered, Copying
<1> QED
  BY <1>1, <1>2, <1>3, <1>4, <1>5, <1>6, <1>7, <1>8 DEF OnOutput

LEMMA OutKeeps ==
  ASSUME IInv, [Next]_vars, NEW o \in Outs
  PROVE  OutInv(o)'
<1>0. TypeOK /\ TypeOK' /\ OutInv(o)
  BY TypeKeeps DEF IInv
<1>1. ASSUME NEW d \in Dreams, DreamMoves(d) PROVE OutInv(o)'
  <2>1. CASE o = where[d]
    <3>1. OutInv(where[d])' /\ where' = where
      BY <1>0, <1>1, OutOfMover, DreamFrame
    <3> QED
      BY <2>1, <3>1 DEF OutInv
  <2>2. CASE o # where[d]
    <3>1. /\ out'[o] = out[o] /\ manifest'[o] = manifest[o] /\ where' = where
          /\ \A e \in Dreams : e # d => pc'[e] = pc[e]
      BY <1>0, <1>1, <2>2, DreamFrame
    <3>2. manifest[o] # Nowhere => manifest[o].by \in Dreams
      BY <1>0 DEF TypeOK, Manifests
    <3> QED
      BY <1>0, <2>2, <3>1, <3>2 DEF OutInv
  <2> QED
    BY <2>1, <2>2
<1>2. CASE OthersMove
  BY <1>0, <1>2, OthersFrame DEF OutInv, dreaming
<1>3. CASE UNCHANGED vars
  BY <1>0, <1>3 DEF OutInv, vars
<1> QED
  BY <1>1, <1>2, <1>3, WhoMoves

LEMMA WriterKeeps ==
  ASSUME IInv, [Next]_vars, NEW w \in Writers
  PROVE  WriterInv(w)'
<1>0. /\ TypeOK /\ WriterInv(w) /\ w \in Others /\ w \notin Dreams /\ w # NoProc /\ w # Op
      /\ Wiki \in LockRoots /\ Wiki \notin Outs
  BY Parameters, DreamAssumption DEF IInv
<1>1. ASSUME NEW d \in Dreams, DreamMoves(d) PROVE WriterInv(w)'
  BY <1>0, <1>1, DreamFrame DEF WriterInv, Holds
<1>2. ASSUME NEW v \in Writers, WriterStep(v) PROVE WriterInv(w)'
  <2>0. v \in Others /\ v # NoProc
    BY Parameters
  <2>1. CASE BeginWrite(v)
    BY <1>0, <2>0, <2>1 DEF BeginWrite, WriterInv, Acquire, Free, Holds, TypeOK
  <2>2. CASE Write(v)
    BY <1>0, <2>0, <2>2 DEF Write, WriterInv, ReleaseAll, Holds, TypeOK
  <2>3. CASE WriterDies(v)
    BY <1>0, <2>0, <2>3 DEF WriterDies, WriterInv, Holds, TypeOK
  <2> QED
    BY <1>2, <2>1, <2>2, <2>3 DEF WriterStep
<1>3. ASSUME \/ \E k \in Inits : InitStep(k)
             \/ \E e \in Editors : Edit(e)
      PROVE  WriterInv(w)'
  BY <1>0, <1>3, DreamAssumption
     DEF InitStep, InitRoot, InitFiles, Edit, WriterInv, Holds, TypeOK
<1>4. ASSUME NEW o \in Outs, OperatorStep(o) PROVE WriterInv(w)'
  BY <1>0, <1>4 DEF OperatorStep, Inspect, Observe, Discard, DiscardManifest, DiscardFails,
     OperatorDies, WriterInv, Acquire, Free, Holds, TypeOK, others
<1>5. ASSUME NEW r \in LockRoots, ClearLock(r) PROVE WriterInv(w)'
  BY <1>0, <1>5 DEF ClearLock, RemoveLock, Dead, WriterInv, Holds, TypeOK, others
<1>6. CASE UNCHANGED vars
  BY <1>0, <1>6 DEF WriterInv, Holds, vars
<1> QED
  BY <1>1, <1>2, <1>3, <1>4, <1>5, <1>6, WhoMoves DEF OthersMove, Finished
-----------------------------------------------------------------------------
(* What a step does to the live wiki: nothing, or it adds to it, or it is one  *)
(* of the renames of an install.                                               *)
Still == UNCHANGED <<live, backup, ever, written, marked, installed>>
Grows ==
  /\ UNCHANGED <<backup, installed>> /\ live' # Nowhere
  /\ live # Nowhere => live.pages \subseteq live'.pages /\ live'.stamp >= live.stamp
  /\ \A c \in ever' : c \in ever \/ c \in live'.pages
  /\ \A c \in written' : c \in written \/ c \in live'.pages
  /\ \A e \in marked' : e \in marked \/ live'.stamp >= At[e]
  /\ written' # written => \E w \in Writers : Holds(w, Wiki)
  /\ marked' # marked => Free(Wiki)
Renames(d) == MoveAway(d) \/ MoveIn(d) \/ Restore(d)

LEMMA WikiStep ==
  ASSUME IInv, [Next]_vars
  PROVE  Still \/ Grows \/ \E d \in Dreams : Renames(d)
<1>0. TypeOK
  BY DEF IInv
<1>1. ASSUME NEW d \in Dreams, DreamMoves(d), ~Renames(d) PROVE Still \/ Grows
  <2>1. CASE StampLive(d)
    <3>1. /\ live \in Directories /\ live # Nowhere /\ At[d] \in Nat /\ live.stamp \in Nat
          /\ live' = [live EXCEPT !.stamp = Later(live.stamp, At[d])]
      BY <1>0, <2>1, Parameters DEF StampLive, TypeOK, Directories
    <3>2. /\ live' # Nowhere /\ live'.pages = live.pages
          /\ live'.stamp >= live.stamp /\ live'.stamp >= At[d]
      BY <3>1, Shape, Latest
    <3> QED
      BY <1>0, <2>1, <3>1, <3>2 DEF StampLive, Grows
  <2>2. CASE ~StampLive(d)
    BY <1>1, <2>2 DEF Still, Renames, DreamMoves, DreamStep, CopyStep, WorkStep, InstallStep,
                      EndStep, TakeLock, MakeOutput, CopyContents, Publish, CopyFails,
                      Consolidate, StampCopy, Decide, WorkFails, CheckSource, Stage,
                      MoveInFails, BeginRestore, RestoreFails, InstallFails, Unstage, HandOff,
                      RemoveOutput, RemoveManifest, EndFails, Begin, BeginFails, Tidy, Exit,
                      Crash, Moves, exceptPc, wikis, history
  <2> QED
    BY <2>1, <2>2
<1>2. ASSUME NEW w \in Writers, WriterStep(w) PROVE Still \/ Grows
  <2>1. CASE Write(w)
    <3>1. w \in Changes /\ w \in Makers /\ live' = Added(w, w)
      BY <2>1 DEF Write, Changes, Makers
    <3>2. /\ live' # Nowhere /\ w \in live'.pages
          /\ live # Nowhere => live.pages \subseteq live'.pages /\ live'.stamp >= live.stamp
      BY <1>0, <3>1, AddedShape, Shape DEF TypeOK
    <3> QED
      BY <2>1, <3>2 DEF Write, Grows, IInv, WriterInv
  <2>2. CASE ~Write(w)
    BY <1>2, <2>2 DEF WriterStep, BeginWrite, WriterDies, Still, wikis, history
  <2> QED
    BY <2>1, <2>2
<1>3. ASSUME NEW k \in Inits, InitStep(k) PROVE Still \/ Grows
  <2>1. Skeleton \in Changes /\ k \in Makers
    BY DEF Changes, Makers
  <2>2. CASE live = Nowhere
    <3>1. live' # Nowhere
      BY <1>0, <1>3, <2>1, <2>2, AddedShape, FreshShape, DreamAssumption
         DEF InitStep, InitRoot, InitFiles
    <3> QED
      BY <1>3, <2>2, <3>1 DEF InitStep, InitRoot, InitFiles, Grows, history
  <2>3. CASE live # Nowhere /\ InitRoot(k)
    BY <2>3 DEF InitRoot, Still, history
  <2>4. CASE live # Nowhere /\ InitFiles(k)
    <3>1. /\ live' # Nowhere
          /\ live.pages \subseteq live'.pages /\ live'.stamp >= live.stamp
      BY <1>0, <2>1, <2>4, AddedShape, Shape DEF InitFiles, TypeOK
    <3> QED
      BY <2>4, <3>1 DEF InitFiles, Grows, history
  <2> QED
    BY <1>3, <2>2, <2>3, <2>4 DEF InitStep
<1>4. ASSUME NEW e \in Editors, Edit(e) PROVE Still \/ Grows
  <2>1. e \in Changes /\ live # Nowhere /\ live' = Added(e, e)
    BY <1>4 DEF Edit, Changes
  <2>2. /\ live' # Nowhere /\ e \in live'.pages
        /\ live.pages \subseteq live'.pages /\ live'.stamp >= live.stamp
    BY <1>0, <2>1, AddedShape, Shape DEF TypeOK
  <2> QED
    BY <1>4, <2>2 DEF Edit, Grows
<1>5. ASSUME \/ \E o \in Outs : OperatorStep(o)
             \/ \E r \in LockRoots : ClearLock(r)
             \/ UNCHANGED vars
      PROVE  Still
  BY <1>5 DEF OperatorStep, Inspect, Observe, Discard, DiscardManifest, DiscardFails,
     OperatorDies, ClearLock, Still, vars, wikis, history
<1> QED
  BY <1>1, <1>2, <1>3, <1>4, <1>5, WhoMoves DEF OthersMove, Finished

LEMMA NothingLostKeeps ==
  ASSUME IInv, [Next]_vars
  PROVE  NothingLost'
<1>0. TypeOK /\ NothingLost
  BY DEF IInv
<1>1. CASE Still
  BY <1>0, <1>1 DEF Still, NothingLost
<1>2. CASE Grows
  BY <1>0, <1>2 DEF Grows, NothingLost
<1>3. ASSUME NEW d \in Dreams, MoveAway(d) PROVE NothingLost'
  <2>1. /\ backup[d] = Nowhere /\ live # Nowhere /\ backup'[d] = live /\ ever' = ever
        /\ \A e \in Dreams : e # d => backup'[e] = backup[e]
    BY <1>0, <1>3 DEF MoveAway, TypeOK, IInv, StageInv, Early, history
  <2> QED
    BY <1>0, <2>1 DEF NothingLost
<1>4. ASSUME NEW d \in Dreams, MoveIn(d) PROVE NothingLost'
  <2>1. /\ live' = staged[d] /\ live' # Nowhere /\ backup' = backup
        /\ ever' = ever \cup live'.pages /\ (live # Nowhere => live.pages = {})
    BY <1>0, <1>4 DEF MoveIn, Vacant, BackupKept, IInv, StageInv
  <2> QED
    BY <1>0, <2>1 DEF NothingLost
<1>5. ASSUME NEW d \in Dreams, Restore(d) PROVE NothingLost'
  <2>1. /\ live' = backup[d] /\ live' # Nowhere /\ ever' = ever
        /\ (live # Nowhere => live.pages = {})
        /\ \A e \in Dreams : e # d => backup'[e] = backup[e]
    BY <1>0, <1>5 DEF Restore, Vacant, TypeOK, IInv, StageInv, Swapping, history
  <2> QED
    BY <1>0, <2>1 DEF NothingLost
<1> QED
  BY <1>1, <1>2, <1>3, <1>4, <1>5, WikiStep DEF Renames

(* A swap that was left half done stays so.                                    *)
LEMMA StrandedStays ==
  ASSUME IInv, [Next]_vars, Stranded
  PROVE  Stranded'
<1>0. TypeOK
  BY DEF IInv
<1>1. PICK d \in Dreams : HalfSwapped(d) /\ pc[d] \notin Swapping
  BY DEF Stranded
<1>2. pc[d] \notin Early /\ backup[d] # Nowhere /\ d \notin installed
  BY <1>1 DEF HalfSwapped, IInv, StageInv
<1>3. CASE DreamMoves(d)
  BY <1>0, <1>2, <1>3 DEF Stranded, HalfSwapped, TypeOK, Early, Swapping, Working, Copying,
     DreamMoves, DreamStep, CopyStep, WorkStep, InstallStep, EndStep, TakeLock,
     MakeOutput, CopyContents, Publish, CopyFails, Consolidate, StampCopy, StampLive, Decide,
     WorkFails, CheckSource, Stage, MoveAway, MoveIn, MoveInFails, BeginRestore, Restore,
     RestoreFails, InstallFails, Unstage, HandOff, RemoveOutput, RemoveManifest, EndFails,
     Begin, BeginFails, Tidy, Exit, Crash, Moves, Over, Goto, dreaming,
     BackupKept, exceptPc, wikis, history
<1>4. CASE ~DreamMoves(d)
  BY <1>0, <1>2, <1>1, <1>4, WhoMoves, DreamFrame, OthersFrame
     DEF Stranded, HalfSwapped, dreaming, vars
<1> QED
  BY <1>3, <1>4

(* While one dream holds the wiki's lock no other swaps, so the wiki is whole. *)
LEMMA WikiWhole ==
  ASSUME IInv, ~Stranded, NEW d \in Dreams, Holds(d, Wiki), pc[d] \notin Swapping
  PROVE  Has(live)
<1>1. \A e \in Dreams : pc[e] \in Swapping => Holds(e, Wiki)
  BY DEF IInv, StageInv, Locked, HoldsBoth
<1>2. \A e \in Dreams : pc[e] \notin Swapping
  BY <1>1 DEF Holds
<1> QED
  BY <1>2 DEF IInv, InstallInv

(* Nobody else writes a page or stamps the wiki while a dream holds its lock.  *)
LEMMA HeldUnwritten ==
  ASSUME IInv, [Next]_vars, NEW d \in Dreams, Holds(d, Wiki)
  PROVE  written' = written /\ marked' = marked
<1>1. CASE Still
  BY <1>1 DEF Still
<1>2. CASE Grows
  BY <1>2, Parameters DEF Grows, Free, Holds
<1>3. ASSUME NEW e \in Dreams, Renames(e) PROVE written' = written /\ marked' = marked
  BY <1>3 DEF Renames, MoveAway, MoveIn, Restore, history
<1> QED
  BY <1>1, <1>2, <1>3, WikiStep

(* A dream that leaves a swap leaves the whole wiki at its path, or half done. *)
LEMMA LeavesSwap ==
  ASSUME IInv, [Next]_vars, ~Stranded, ~Stranded', NEW d \in Dreams, pc[d] \in Swapping,
         pc'[d] \notin Swapping
  PROVE  Has(live)'
<1>0. /\ TypeOK /\ Holds(d, Wiki) /\ backup[d] # Nowhere /\ d \notin installed
      /\ written' = written /\ marked' = marked /\ Has(backup[d])
      /\ pc[d] = "moved" => Has(staged[d])
  BY HeldUnwritten DEF IInv, StageInv, Locked, HoldsBoth, InstallInv
<1>1. DreamMoves(d)
  BY <1>0, WhoMoves, DreamFrame, OthersFrame DEF dreaming, vars
<1>2. CASE MoveIn(d)
  BY <1>0, <1>2 DEF MoveIn, Has
<1>3. CASE Restore(d)
  BY <1>0, <1>3 DEF Restore, Has
<1>4. CASE ~MoveIn(d) /\ ~Restore(d)
  <2>1. backup'[d] = backup[d] /\ installed' = installed
    BY <1>0, <1>1, <1>4 DEF TypeOK, Swapping, DreamMoves, DreamStep, CopyStep, WorkStep,
                            InstallStep, EndStep, TakeLock, MakeOutput, CopyContents, Publish,
                            CopyFails, Consolidate, StampCopy, StampLive, Decide, WorkFails,
                            CheckSource, Stage, MoveAway, MoveIn, MoveInFails, BeginRestore,
                            Restore, RestoreFails, InstallFails, Unstage, HandOff,
                            RemoveOutput, RemoveManifest, EndFails, Begin, BeginFails, Tidy,
                            Exit, Crash, Moves, Over, Goto, dreaming, exceptPc, wikis, history
  <2> QED
    BY <1>0, <2>1 DEF Stranded, HalfSwapped
<1> QED
  BY <1>2, <1>3, <1>4

LEMMA LiveKeeps ==
  ASSUME IInv, [Next]_vars, ~Stranded, ~Stranded', \A d \in Dreams : pc'[d] \notin Swapping
  PROVE  Has(live)'
<1>0. TypeOK /\ TypeOK'
  BY TypeKeeps DEF IInv
<1>1. CASE \A d \in Dreams : pc[d] \notin Swapping
  <2>1. Has(live)
    BY <1>1 DEF IInv, InstallInv
  <2>2. CASE Still
    BY <2>1, <2>2 DEF Still, Has
  <2>3. CASE Grows
    <3>1. live \in Directories /\ live' \in Directories /\ live # Nowhere
      BY <1>0, <2>1, <2>3 DEF TypeOK, Grows, Has
    <3>2. live.stamp \in Nat /\ live'.stamp \in Nat /\ live'.stamp >= live.stamp
      BY <2>3, <3>1, Shape DEF Grows
    <3>3. \A e \in marked' : live'.stamp >= At[e]
      <4>1. \A e \in marked' : At[e] \in Nat
        BY <1>0, Parameters DEF TypeOK
      <4> QED
        BY <2>1, <2>3, <3>2, <4>1 DEF Has, Grows
    <3> QED
      BY <2>1, <2>3, <3>1, <3>3 DEF Has, Grows
  <2>4. ASSUME NEW d \in Dreams, Renames(d) PROVE FALSE
    BY <1>0, <1>1, <2>4 DEF Renames, MoveAway, MoveIn, Restore, Goto, Swapping, TypeOK
  <2> QED
    BY <2>2, <2>3, <2>4, WikiStep
<1>2. CASE \E d \in Dreams : pc[d] \in Swapping
  BY <1>2, LeavesSwap
<1> QED
  BY <1>1, <1>2

LEMMA DreamInstalls ==
  ASSUME IInv, [Next]_vars, ~Stranded, NEW d \in Dreams
  PROVE  /\ pc'[d] = "check" => written' \subseteq out'[where'[d]].pages
         /\ pc'[d] \in {"swap", "moved"} => Has(staged[d])'
         /\ pc'[d] \in Swapping => Has(backup[d])'
<1>0. TypeOK /\ StageInv(d) /\ InstallInv /\ where[d] \in Outs
  BY DEF IInv, TypeOK
<1>1. CASE pc'[d] = pc[d] /\ pc[d] \in {"check", "swap"} \cup Swapping
  <2>1. /\ Holds(d, Wiki) /\ written' = written /\ marked' = marked
    BY <1>0, <1>1, HeldUnwritten DEF StageInv, Locked, HoldsBoth
  <2>2. ~DreamMoves(d)
    BY <1>0, <1>1 DEF TypeOK, Swapping, Working, Copying, DreamMoves, DreamStep, CopyStep,
                      WorkStep, InstallStep, EndStep, TakeLock, MakeOutput, CopyContents,
                      Publish, CopyFails, Consolidate, StampCopy, StampLive, Decide, WorkFails,
                      CheckSource, Stage, MoveAway, MoveIn, MoveInFails, BeginRestore, Restore,
                      RestoreFails, InstallFails, Unstage, HandOff, RemoveOutput,
                      RemoveManifest, EndFails, Begin, BeginFails, Tidy, Exit, Crash, Moves,
                      Over, Goto, dreaming
  <2>3. staged'[d] = staged[d] /\ backup'[d] = backup[d]
    BY <1>0, <2>2, WhoMoves, DreamFrame, OthersFrame DEF vars
  <2>4. pc[d] = "check" => out'[where'[d]] = out[where[d]]
    BY <2>2, OutputHeld
  <2> QED
    BY <1>0, <1>1, <2>1, <2>3, <2>4 DEF InstallInv, Has
<1>2. CASE CheckSource(d)
  <2>1. /\ pc[d] = "install" /\ pc'[d] = "check" /\ Holds(d, Wiki) /\ where' = where /\ out' = out
        /\ written' = written /\ Registered(d) /\ Mine(d) /\ live.pages = manifest[where[d]].print
    BY <1>0, <1>2 DEF CheckSource, HoldsBoth, SameSource, Fingerprint, Moves, Goto, TypeOK,
       exceptPc, outputs, history
  <2>2. written \subseteq live.pages
    BY <2>1, WikiWhole DEF Has, Swapping
  <2>3. live.pages \subseteq out[where[d]].pages
    BY <1>0, <2>1 DEF IInv, OutInv, Registered, Mine
  <2> QED
    BY <2>1, <2>2, <2>3 DEF Swapping
<1>3. CASE Stage(d)
  <2>1. /\ pc[d] = "check" /\ pc'[d] = "swap" /\ Holds(d, Wiki)
        /\ written' = written /\ marked' = marked
        /\ staged'[d] = [by |-> d, pages |-> out[where[d]].pages, stamp |-> StagedStamp(d)]
    BY <1>0, <1>3 DEF Stage, StageInv, Locked, HoldsBoth, Goto, TypeOK, history
  <2>2. Has(live)
    BY <2>1, WikiWhole DEF Swapping
  <2>3. /\ staged'[d].pages = out[where[d]].pages /\ staged'[d].stamp = live.stamp
        /\ staged'[d] # Nowhere
    <3>1. TypeOK' /\ StageInv(d)'
      BY TypeKeeps, StageKeeps
    <3> QED
      BY <2>1, <2>2, <3>1 DEF StagedStamp, Has, StageInv
  <2>4. written \subseteq out[where[d]].pages
    BY <1>0, <2>1 DEF InstallInv
  <2>5. Has(staged[d])'
    BY <2>1, <2>2, <2>3, <2>4 DEF Has
  <2> QED
    BY <2>1, <2>5 DEF Swapping
<1>4. CASE MoveAway(d)
  <2>1. /\ pc[d] = "swap" /\ pc'[d] = "moved" /\ Holds(d, Wiki) /\ staged' = staged
        /\ written' = written /\ marked' = marked /\ backup'[d] = live
    BY <1>0, <1>4 DEF MoveAway, StageInv, Locked, HoldsBoth, Goto, TypeOK, history
  <2>2. Has(live) /\ Has(staged[d])
    BY <1>0, <2>1, WikiWhole DEF Swapping, InstallInv
  <2> QED
    BY <2>1, <2>2 DEF Has
<1>5. CASE MoveInFails(d) \/ BeginRestore(d)
  <2>1. /\ pc[d] \in Swapping /\ pc'[d] \in {"restore", "refill"}
        /\ written' = written /\ marked' = marked /\ backup' = backup
    BY <1>0, <1>5 DEF MoveInFails, BeginRestore, Moves, Goto, TypeOK, Swapping, exceptPc, wikis,
       history
  <2> QED
    BY <1>0, <2>1 DEF InstallInv, Has
<1>6. CASE /\ pc'[d] # pc[d]
           /\ ~CheckSource(d) /\ ~Stage(d) /\ ~MoveAway(d) /\ ~MoveInFails(d) /\ ~BeginRestore(d)
  <2>1. DreamMoves(d)
    BY <1>0, <1>6, WhoMoves, DreamFrame, OthersFrame DEF dreaming, vars
  <2>2. pc'[d] \notin {"check", "swap"} \cup Swapping
    BY <1>0, <1>6, <2>1 DEF TypeOK, Swapping, DreamMoves, DreamStep, CopyStep, WorkStep,
                            InstallStep, EndStep, TakeLock, MakeOutput, CopyContents, Publish,
                            CopyFails, Consolidate, StampCopy, StampLive, Decide, WorkFails,
                            CheckSource, Stage, MoveAway, MoveIn, MoveInFails, BeginRestore,
                            Restore, RestoreFails, InstallFails, Unstage, HandOff,
                            RemoveOutput, RemoveManifest, EndFails, Begin, BeginFails, Tidy,
                            Exit, Crash, Moves, Over, Goto, dreaming
  <2> QED
    BY <2>2 DEF Swapping
<1> QED
  BY <1>1, <1>2, <1>3, <1>4, <1>5, <1>6 DEF Swapping

LEMMA InstallKeeps ==
  ASSUME IInv, [Next]_vars
  PROVE  (~Stranded => InstallInv)'
<1> SUFFICES ASSUME ~Stranded' PROVE InstallInv'
  OBVIOUS
<1>1. ~Stranded
  BY StrandedStays
<1>2. (\A d \in Dreams : pc'[d] \notin Swapping) => Has(live)'
  BY <1>1, LiveKeeps
<1>3. \A d \in Dreams : /\ pc'[d] = "check" => written' \subseteq out'[where'[d]].pages
                        /\ pc'[d] \in {"swap", "moved"} => Has(staged[d])'
                        /\ pc'[d] \in Swapping => Has(backup[d])'
  BY <1>1, DreamInstalls
<1> QED
  BY <1>2, <1>3 DEF InstallInv, Swapping
-----------------------------------------------------------------------------
LEMMA InitInv ==
  ASSUME Init
  PROVE  IInv
<1>0. Original \in Directories /\ Original.pages = {First, Skeleton} /\ Original # Nowhere
  BY DreamAssumption DEF Original, Directories, Makers, Changes
<1>1. TypeOK
  <2>1. /\ lock \in [LockRoots -> Dreams \cup Writers \cup {Op, NoProc}]
        /\ live \in Directories \cup {Nowhere}
        /\ backup \in [Dreams -> Directories \cup {Nowhere}]
        /\ staged \in [Dreams -> Directories \cup {Nowhere}]
        /\ out \in [Outs -> Directories \cup {Nowhere}]
        /\ manifest \in [Outs -> Manifests \cup {Nowhere}]
    BY <1>0 DEF Init, LockInit
  <2>2. /\ pc \in [Dreams -> Stages] /\ where \in [Dreams -> Outs]
        /\ before \in [Dreams -> SUBSET Changes]
        /\ doing \in [Others -> {"idle", "in", "done", "gone"}]
    BY DreamAssumption DEF Init, Stages
  <2>3. /\ asked \in [Outs -> Dreams \cup {Nowhere}]
        /\ seen \in [Outs -> Manifests \cup {Nowhere}]
        /\ crashes \in 0..MaxCrashes
        /\ ever \subseteq Changes /\ written \subseteq Writers
        /\ marked \subseteq Dreams /\ installed \subseteq Dreams
    BY <1>0, DreamAssumption, Shape DEF Init
  <2> QED
    BY <2>1, <2>2, <2>3 DEF TypeOK
<1>2. \A d \in Dreams : StageInv(d)
  BY DEF Init, StageInv, Locked, Early, Swapping
<1>3. \A o \in Outs : OutInv(o)
  BY DEF Init, OutInv
<1>4. \A w \in Writers : WriterInv(w)
  BY DEF Init, WriterInv, Others
<1>5. NothingLost
  BY <1>0 DEF Init, NothingLost
<1>6. InstallInv
  BY <1>0 DEF Init, InstallInv, Has, Swapping
<1> QED
  BY <1>1, <1>2, <1>3, <1>4, <1>5, <1>6 DEF IInv

LEMMA InvNext == IInv /\ [Next]_vars => IInv'
BY TypeKeeps, StageKeeps, OutKeeps, WriterKeeps, NothingLostKeeps, InstallKeeps DEF IInv

(* The inductive invariant holds in every reachable state.                     *)
THEOREM DreamInvariant == Spec => []IInv
BY InitInv, InvNext, PTL DEF Spec

(* Whatever was once in the wiki stays in it or in a backup, whichever rename  *)
(* of an install fails and whichever process dies in between.                  *)
THEOREM DreamLosesNothing == Spec => []NothingLost
<1>1. IInv => NothingLost
  BY DEF IInv
<1> QED
  BY <1>1, DreamInvariant, PTL

LEMMA WholeUnlessSwapped ==
  ASSUME IInv, \A d \in Dreams : ~HalfSwapped(d)
  PROVE  Has(live)
<1>1. ~Stranded
  BY DEF Stranded
<1>2. \A d \in Dreams : pc[d] \notin Swapping
  BY DEF IInv, StageInv, HalfSwapped
<1> QED
  BY <1>1, <1>2 DEF IInv, InstallInv

(* No install replaces the wiki with a copy taken before a locked write.       *)
THEOREM DreamKeepsWrites == Spec => []WritesInstalled
<1>1. IInv => WritesInstalled
  BY WholeUnlessSwapped DEF WritesInstalled, Has
<1> QED
  BY <1>1, DreamInvariant, PTL

(* No install takes back the time a later dream stamped on the live wiki.      *)
THEOREM DreamKeepsStamps == Spec => []StampsKept
<1>1. IInv => StampsKept
  BY WholeUnlessSwapped DEF StampsKept, Has
<1> QED
  BY <1>1, DreamInvariant, PTL
-----------------------------------------------------------------------------
(* Who may remove an output: only its dream takes one of its own steps to it.  *)
Guarded(o) ==
  out[o] # Nowhere /\ out'[o] = Nowhere =>
    LET d == out[o].by
    IN \/ OwnStep(d)
       \/ (asked[o] = d /\ pc[d] \in {"returned", "done", "dispose", "gone"})

LEMMA OutputsStep ==
  ASSUME IInv, [Next]_vars, NEW o \in Outs
  PROVE  Guarded(o)
<1> SUFFICES ASSUME out[o] # Nowhere, out'[o] = Nowhere
             PROVE  \/ OwnStep(out[o].by)
                    \/ /\ asked[o] = out[o].by
                       /\ pc[out[o].by] \in {"returned", "done", "dispose", "gone"}
  BY DEF Guarded
<1>0. TypeOK /\ TypeOK' /\ OutInv(o)
  BY TypeKeeps DEF IInv
<1>1. ASSUME NEW d \in Dreams, DreamMoves(d) PROVE OwnStep(out[o].by)
  <2>1. where[d] = o /\ where' = where
    BY <1>0, <1>1, DreamFrame
  <2>2. CASE RemoveOutput(d)
    BY <1>0, <2>1, <2>2 DEF RemoveOutput, Mine, OwnStep, Goto, TypeOK
  <2>3. CASE MakeOutput(d)
    BY <2>1, <2>3 DEF MakeOutput
  <2>4. CASE CopyContents(d)
    <3>1. out[o] \in Directories /\ live \in Directories
      BY <1>0, <2>4 DEF TypeOK, CopyContents
    <3>2. out'[o] \in Directories
      BY <1>0, <2>1, <2>4, <3>1 DEF CopyContents, TypeOK, Directories
    <3> QED
      BY <3>2, Shape
  <2>5. CASE Consolidate(d) \/ StampCopy(d)
    <3>1. out[o] \in Directories
      BY <1>0 DEF TypeOK
    <3>2. out'[o] \in Directories
      <4>1. CASE Consolidate(d)
        <5>1. out'[o] = [out[o] EXCEPT !.pages = @ \cup {d}]
          BY <1>0, <2>1, <4>1 DEF Consolidate, TypeOK
        <5> QED
          BY <3>1, <5>1 DEF Directories, Changes
      <4>2. CASE StampCopy(d)
        <5>1. out'[o] = [out[o] EXCEPT !.stamp = Later(@, At[d])]
          BY <1>0, <2>1, <4>2 DEF StampCopy, TypeOK
        <5> QED
          BY <3>1, <5>1, Shape, Latest, Parameters
      <4> QED
        BY <2>5, <4>1, <4>2
    <3> QED
      BY <3>2, Shape
  <2>6. CASE ~RemoveOutput(d) /\ ~MakeOutput(d) /\ ~CopyContents(d) /\ ~Consolidate(d) /\ ~StampCopy(d)
    <3>1. out' = out
      BY <1>1, <2>6 DEF DreamMoves, DreamStep, CopyStep, WorkStep, InstallStep, EndStep,
                        TakeLock, Publish, CopyFails, StampLive, Decide, WorkFails,
                        CheckSource, Stage, MoveAway, MoveIn, MoveInFails, BeginRestore,
                        Restore, RestoreFails, InstallFails, Unstage, HandOff, RemoveManifest,
                        EndFails, Begin, BeginFails, Tidy, Exit, Crash, Moves, exceptPc,
                        outputs
    <3> QED
      BY <3>1
  <2> QED
    BY <2>2, <2>3, <2>4, <2>5, <2>6
<1>2. CASE OthersMove
  <2>1. Discard(o)
    BY <1>0, <1>2, OthersFrame
  <2>2. /\ manifest[o] # Nowhere /\ manifest[o].by = asked[o] /\ out[o].by = manifest[o].by
        /\ manifest[o].released \/ pc[manifest[o].by] = "gone"
    BY <2>1 DEF Discard, Unchanged, Discardable, Stopped
  <2> QED
    BY <1>0, <2>2 DEF OutInv, Left
<1>3. CASE UNCHANGED vars
  BY <1>3 DEF vars
<1> QED
  BY <1>1, <1>2, <1>3, WhoMoves

(* An output is removed by its dream, or by the operator once it was released  *)
(* or its process died.                                                        *)
THEOREM DreamGuardsOutputs == Spec => OutputsGuarded
<1>1. IInv /\ [Next]_vars => \A o \in Outs : Guarded(o)
  BY OutputsStep
<1>2. IInv /\ [Next]_vars => [\A o \in Outs : Guarded(o)]_vars
  BY <1>1
<1> QED
  BY <1>2, DreamInvariant, PTL DEF Spec, OutputsGuarded, Guarded
=============================================================================
