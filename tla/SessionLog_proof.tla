--------------------------- MODULE SessionLog_proof ---------------------------
(* Proofs about the log of a session for every set of runs and processes: a    *)
(* fragment at the end of the file that nobody has a number past stays the     *)
(* end, whoever runs beside whom; and the lines are numbered in order as long  *)
(* as no resume starts beside a live fresh run and the session never comes     *)
(* back to a process after another one wrote to it.                            *)
EXTENDS SessionLog, SequenceTheorems, TLAPS

(* Two runs share a process only if every run of another process comes before  *)
(* both: that is the fresh run, the one whose place in the order is known.     *)
NeverBack ==
  \A d \in Deployments : \A a, b, c \in Runs :
    a # c /\ d[a] = d[c] /\ d[b] # d[a] => b = Fresh

(* At most one run is under way: nobody resumes before the fresh run is over,  *)
(* and of the others the one that has the lock.                                *)
FreshFirst ==
  pc[Fresh] = "idle" \/ Live(Fresh) => \A r \in Runs \ {Fresh} : pc[r] = "idle"
NothingYet ==
  pc[Fresh] = "idle" => log = <<>> /\ tail = <<>> /\ \A r \in Runs : pc[r] = "idle"
LockHeld == \A r \in Runs \ {Fresh} : Live(r) => lock = r

(* The cached number of a process that still has a run to come, or under way,  *)
(* is the number of the next line, unless the file has a line that does not    *)
(* parse or one without its newline.                                           *)
Coming(r) == pc[r] = "idle" \/ Live(r)
Clean == \A i \in 1..Len(log) : log[i].seq # Corrupt
Unadvanced == \E w \in Runs : pc[w] = "written"
NextLine == IF Unadvanced THEN Len(log) - 1 ELSE Len(log)
CacheUsed == \A p \in Procs : seqs[p] # Unread => \E r \in Runs : proc[r] = p /\ pc[r] # "idle"
CacheTrue ==
  \A r \in Runs : Coming(r) /\ seqs[proc[r]] # Unread /\ tail = <<>> /\ Clean
    => seqs[proc[r]] = NextLine
Stamped ==
  \A r \in Runs : pc[r] \in {"stamped", "written"} => seqs[proc[r]] = pending[r]

(* SeqInOrder, of the lines that end in a newline and of what is behind them.  *)
LogOrder ==
  \A i \in 1..Len(log) : (\A j \in 1..i : log[j].seq # Corrupt) => log[i].seq = i - 1
TailOrder == tail # <<>> /\ Clean /\ tail[1].seq # Corrupt => tail[1].seq = Len(log)

(* The invariant of the first induction, which assumes nothing of the runs.    *)
Numbered ==
  \A r \in Runs : pc[r] \in {"stamped", "written"} => seqs[proc[r]] # Unread
TInv == TypeOK /\ NothingYet /\ Numbered

(* The invariant of the second.                                                *)
NeverBackNow ==
  \A a, b, c \in Runs : a # c /\ proc[a] = proc[c] /\ proc[b] # proc[a] => b = Fresh
IInv ==
  /\ TypeOK /\ NothingYet /\ NeverBackNow
  /\ FreshFirst /\ LockHeld /\ CacheUsed /\ CacheTrue /\ Stamped /\ LogOrder /\ TailOrder
-----------------------------------------------------------------------------
LEMMA CutShortType ==
  ASSUME TypeOK, NEW r \in Runs, NEW t \in CutShort(r)
  PROVE  t \in {<<>>} \cup {<<l>> : l \in Line}
<1>1. /\ [seq |-> Corrupt, run |-> r] \in Line
      /\ [seq |-> pending[r], run |-> r] \in Line
  BY DEF TypeOK, Line
<1>2. /\ tail \in {<<>>} \cup {<<l>> : l \in Line}
      /\ <<[seq |-> Corrupt, run |-> r]>> \in {<<l>> : l \in Line}
      /\ <<[seq |-> pending[r], run |-> r]>> \in {<<l>> : l \in Line}
  BY <1>1 DEF TypeOK
<1> QED
  BY <1>2 DEF CutShort

(* A step of one run leaves the types.                                         *)
LEMMA RunTypes ==
  ASSUME TypeOK, NEW r \in Runs,
         \/ Resume(r) \/ Load(r) \/ Stamp(r) \/ Write(r) \/ WriteFails(r)
         \/ Written(r) \/ GiveUp(r) \/ Close(r)
  PROVE  TypeOK'
<1> USE DEF TypeOK, Places, Writing
<1>1. CASE Resume(r) \/ Load(r) \/ GiveUp(r) \/ Close(r)
  BY <1>1 DEF Resume, Load, GiveUp, Close, At
<1>2. CASE Stamp(r)
  <2>1. Len(Seen) \in Nat /\ proc[r] \in Procs
    BY DEF Seen, Line
  <2>2. PICK n \in NextSeq(r) : /\ pending' = [pending EXCEPT ![r] = n]
                                /\ seqs' = [seqs EXCEPT ![proc[r]] = n]
    BY <1>2 DEF Stamp
  <2>3. n \in Nat
    BY <2>1, <2>2 DEF NextSeq
  <2> QED
    BY <1>2, <2>2, <2>3 DEF Stamp, At
<1>3. CASE Write(r)
  <2>1. [seq |-> IF tail = <<>> THEN pending[r] ELSE Corrupt, run |-> r] \in Line
    BY DEF Line
  <2>2. log' \in Seq(Line)
    BY <1>3, <2>1 DEF Write
  <2> QED
    BY <1>3, <2>2 DEF Write, At
<1>4. CASE WriteFails(r)
  <2>1. tail' \in {<<>>} \cup {<<l>> : l \in Line}
    BY <1>4, CutShortType DEF WriteFails
  <2> QED
    BY <1>4, <2>1 DEF WriteFails, At
<1>5. CASE Written(r)
  BY <1>5 DEF Written, At
<1> QED
  BY <1>1, <1>2, <1>3, <1>4, <1>5

LEMMA Types == ASSUME TypeOK, [Next]_vars PROVE TypeOK'
<1>1. ASSUME NEW p \in Procs, Crash(p) PROVE TypeOK'
  <2>1. tail' \in {<<>>} \cup {<<l>> : l \in Line}
    BY <1>1, CutShortType DEF Crash, TypeOK
  <2> QED
    BY <1>1, <2>1 DEF Crash, TypeOK, Places
<1>2. CASE StartFresh
  BY <1>2, LogAssumption DEF StartFresh, At, TypeOK, Places, Writing
<1>3. CASE RemoveStaleLock
  BY <1>3 DEF RemoveStaleLock, TypeOK
<1>4. CASE UNCHANGED vars
  BY <1>4 DEF vars, TypeOK
<1> QED
  BY <1>1, <1>2, <1>3, <1>4, RunTypes DEF Next, Settled

LEMMA InitTypes == ASSUME Init PROVE TypeOK /\ NothingYet /\ Numbered
<1>1. proc \in [Runs -> Procs] /\ log \in Seq(Line) /\ tail \in {<<>>} \cup {<<l>> : l \in Line}
  BY LogAssumption DEF Init
<1>2. /\ lock \in Runs \cup {NoRun} /\ claimed \subseteq Procs
      /\ seqs \in [Procs -> Nat \cup {Unread}] /\ pc \in [Runs -> Places]
      /\ pending \in [Runs -> Nat]
  BY DEF Init, Unread, Places
<1>3. NothingYet /\ Numbered
  BY DEF Init, NothingYet, Numbered
<1> QED
  BY <1>1, <1>2, <1>3 DEF TypeOK

(* Only a run that is under way touches the file, and none is before the fresh *)
(* one; a number that was taken is forgotten only with its runs.               *)
LEMMA TInvNext == ASSUME TInv, [Next]_vars PROVE TInv'
<1>1. TypeOK /\ TypeOK' /\ Fresh \in Runs
  BY Types, LogAssumption DEF TInv
<1>2. /\ pc \in [Runs -> Places] /\ pc' \in [Runs -> Places] /\ proc \in [Runs -> Procs]
      /\ seqs \in [Procs -> Nat \cup {Unread}] /\ pending \in [Runs -> Nat]
      /\ pending' \in [Runs -> Nat]
  BY <1>1 DEF TypeOK
<1>3. ASSUME NEW r \in Runs,
             \/ Resume(r) \/ Load(r) \/ Stamp(r) \/ Write(r) \/ WriteFails(r)
             \/ Written(r) \/ GiveUp(r) \/ Close(r)
      PROVE  NothingYet' /\ Numbered'
  <2>1. /\ pc'[r] # "idle" /\ pc[Fresh] # "idle" /\ proc' = proc
        /\ \A q \in Runs \ {r} : pc'[q] = pc[q]
    BY <1>1, <1>2, <1>3
       DEF TInv, NothingYet, Resume, MayResume, Load, Stamp, Write, WriteFails, Written,
           GiveUp, Close, At
  <2>2. NothingYet'
    BY <1>1, <2>1 DEF NothingYet
  <2>3. CASE Stamp(r)
    <3>1. seqs' = [seqs EXCEPT ![proc[r]] = pending'[r]] /\ pending'[r] # Unread
      BY <1>2, <2>3 DEF Stamp, Unread
    <3> QED
      BY <1>2, <2>1, <2>2, <3>1 DEF TInv, Numbered
  <2>4. CASE Written(r)
    <3>1. seqs' = [seqs EXCEPT ![proc[r]] = pending[r] + 1] /\ pending[r] + 1 # Unread
      BY <1>2, <2>4 DEF Written, Unread
    <3> QED
      BY <1>2, <2>1, <2>2, <3>1 DEF TInv, Numbered
  <2>5. CASE \/ Resume(r) \/ Load(r) \/ Write(r) \/ WriteFails(r) \/ GiveUp(r) \/ Close(r)
    <3>1. seqs' = seqs /\ (pc'[r] \in {"stamped", "written"} => pc[r] \in {"stamped", "written"})
      BY <1>2, <2>5 DEF Resume, Load, Write, WriteFails, GiveUp, Close, At
    <3> QED
      BY <1>2, <2>1, <2>2, <3>1 DEF TInv, Numbered
  <2> QED
    BY <1>3, <2>3, <2>4, <2>5
<1>4. ASSUME NEW p \in Procs, Crash(p) PROVE NothingYet' /\ Numbered'
  <2>1. /\ proc' = proc /\ seqs' = [seqs EXCEPT ![p] = Unread]
        /\ pc' = [r \in Runs |-> IF proc[r] = p /\ Live(r) THEN "dead" ELSE pc[r]]
    BY <1>4 DEF Crash
  <2>2. pc[Fresh] # "idle"
    BY <1>1, <1>4 DEF Crash, TInv, NothingYet, Live
  <2>3. NothingYet'
    BY <1>1, <2>1, <2>2 DEF NothingYet
  <2>4. Numbered'
    BY <1>2, <2>1 DEF TInv, Numbered, Live
  <2> QED
    BY <2>3, <2>4
<1>5. CASE StartFresh
  BY <1>1, <1>2, <1>5 DEF StartFresh, At, TInv, NothingYet, Numbered, Unread
<1>6. CASE RemoveStaleLock \/ UNCHANGED vars
  <2>1. UNCHANGED <<proc, log, tail, seqs, pc>>
    BY <1>6 DEF RemoveStaleLock, vars
  <2> QED
    BY <1>1, <2>1 DEF TInv, NothingYet, Numbered
<1> QED
  BY <1>1, <1>3, <1>4, <1>5, <1>6 DEF TInv, Next, Settled

(* Behind a fragment nobody writes who has no number already, since the log    *)
(* does not read and gives out none.                                           *)
LEMMA FragmentStays ==
  ASSUME TInv, [Next]_vars, Fragment, Forgotten
  PROVE  UNCHANGED <<log, tail>> /\ Forgotten'
<1>1. /\ pc \in [Runs -> Places] /\ proc \in [Runs -> Procs] /\ Fresh \in Runs
      /\ seqs \in [Procs -> Nat \cup {Unread}] /\ log \in Seq(Line)
      /\ tail \in {<<>>} \cup {<<l>> : l \in Line}
  BY LogAssumption DEF TInv, TypeOK
<1>2. ~Readable
  <2>1. PICK l \in Line : tail = <<l>> /\ l.seq = Corrupt
    BY <1>1 DEF Fragment
  <2>2. Len(Seen) = Len(log) + 1 /\ Seen[Len(log) + 1] = l /\ Len(log) \in Nat
    BY <1>1, <2>1 DEF Seen
  <2>3. Len(log) + 1 \in 1..Len(Seen) /\ Seen[Len(log) + 1].seq # Len(log) + 1 - 1
    BY <2>1, <2>2 DEF Corrupt
  <2> QED
    BY <2>3 DEF Readable
<1>3. \A r \in Runs : pc[r] \notin {"stamped", "written"}
  BY DEF TInv, Numbered, Forgotten, Live
<1>4. ~StartFresh
  BY DEF StartFresh, TInv, NothingYet, Fragment
<1>5. ASSUME NEW r \in Runs,
             \/ Resume(r) \/ Load(r) \/ Stamp(r) \/ Write(r) \/ WriteFails(r)
             \/ Written(r) \/ GiveUp(r) \/ Close(r)
      PROVE  UNCHANGED <<log, tail>> /\ Forgotten'
  <2>1. ~Stamp(r)
    BY <1>2 DEF Stamp, NextSeq, Forgotten, Live
  <2>2. CASE Resume(r) \/ Load(r) \/ GiveUp(r) \/ Close(r)
    <3>1. UNCHANGED <<proc, log, tail, seqs>> /\ (pc[r] = "idle" \/ Live(r))
      BY <2>2 DEF Resume, MayResume, Load, GiveUp, Close, Live
    <3>2. \A q \in Runs \ {r} : pc'[q] = pc[q]
      BY <1>1, <2>2 DEF Resume, Load, GiveUp, Close, At
    <3> QED
      BY <3>1, <3>2 DEF Forgotten, Live
  <2> QED
    BY <1>3, <1>5, <2>1, <2>2 DEF Write, WriteFails, Written
<1>6. ASSUME NEW p \in Procs, Crash(p) PROVE UNCHANGED <<log, tail>> /\ Forgotten'
  BY <1>1, <1>3, <1>6 DEF Crash, Forgotten, Live
<1>7. CASE RemoveStaleLock \/ UNCHANGED vars
  BY <1>7 DEF RemoveStaleLock, vars, Forgotten, Live
<1> QED
  BY <1>4, <1>5, <1>6, <1>7 DEF Next, Settled
-----------------------------------------------------------------------------
LEMMA OneLive ==
  ASSUME IInv, NEW a \in Runs, NEW b \in Runs, Live(a), Live(b)
  PROVE  a = b
BY LogAssumption DEF IInv, FreshFirst, LockHeld, Live

(* A process whose cached number may still be used is the one that writes.     *)
LEMMA SameProcess ==
  ASSUME IInv, NEW b \in Runs, Live(b), NEW r \in Runs, Coming(r), seqs[proc[r]] # Unread
  PROVE  proc[r] = proc[b]
<1>1. proc[r] \in Procs
  BY DEF IInv, TypeOK
<1>2. PICK a \in Runs : proc[a] = proc[r] /\ pc[a] # "idle"
  BY <1>1 DEF IInv, CacheUsed
<1>3. CASE r = b
  BY <1>3
<1>4. CASE r # b
  <2>1. pc[r] = "idle"
    BY <1>4, OneLive DEF Coming
  <2>2. SUFFICES ASSUME proc[r] # proc[b] PROVE FALSE
    OBVIOUS
  <2>3. b = Fresh
    BY <1>2, <2>1, <2>2 DEF IInv, NeverBackNow
  <2>4. a # Fresh
    BY <1>2, <2>2, <2>3
  <2> QED
    BY <1>2, <2>3, <2>4 DEF IInv, FreshFirst
<1> QED
  BY <1>3, <1>4

(* The order of the two parts of the file is the order of what a reader meets. *)
LEMMA InOrder == ASSUME TypeOK, LogOrder, TailOrder PROVE SeqInOrder
<1> SUFFICES ASSUME NEW i \in 1..Len(Seen), \A j \in 1..i : Seen[j].seq # Corrupt
             PROVE  Seen[i].seq = i - 1
  BY DEF SeqInOrder
<1>1. log \in Seq(Line) /\ Len(log) \in Nat
  BY DEF TypeOK
<1>2. CASE i \in 1..Len(log)
  <2>1. \A j \in 1..Len(log) : Seen[j] = log[j]
    BY <1>1 DEF Seen, TypeOK
  <2> QED
    BY <1>1, <1>2, <2>1 DEF LogOrder
<1>3. CASE i \notin 1..Len(log)
  <2>1. tail # <<>>
    BY <1>1, <1>3 DEF Seen
  <2>2. PICK l \in Line : tail = <<l>>
    BY <2>1 DEF TypeOK
  <2>3. /\ Len(Seen) = Len(log) + 1 /\ Seen[Len(log) + 1] = l
        /\ \A j \in 1..Len(log) : Seen[j] = log[j]
    BY <1>1, <2>2 DEF Seen
  <2>4. i = Len(log) + 1
    BY <1>1, <1>3, <2>3
  <2>5. Clean /\ l.seq # Corrupt
    BY <1>1, <2>3, <2>4 DEF Clean
  <2> QED
    BY <1>1, <2>2, <2>3, <2>4, <2>5 DEF TailOrder
<1> QED
  BY <1>2, <1>3

LEMMA InitInv == ASSUME Overlap = FALSE, NeverBack, Init PROVE IInv
<1>1. TypeOK /\ NothingYet
  BY InitTypes
<1>2. NeverBackNow
  BY DEF Init, NeverBackNow, NeverBack
<1>3. FreshFirst /\ LockHeld /\ Stamped /\ CacheTrue
  BY <1>1 DEF Init, TypeOK, FreshFirst, LockHeld, Stamped, CacheTrue, Live, Coming, Unread
<1>4. CacheUsed /\ LogOrder /\ TailOrder
  BY DEF Init, CacheUsed, LogOrder, TailOrder
<1> QED
  BY <1>1, <1>2, <1>3, <1>4 DEF IInv

LEMMA TypesKept == ASSUME IInv, [Next]_vars PROVE TypeOK' /\ NothingYet'
<1>1. TInv
  BY DEF IInv, TInv, TypeOK, Stamped, Numbered, Unread
<1> QED
  BY <1>1, TInvNext DEF TInv

(* Starting, loading, refusing, closing: the file and the numbers stay, and a  *)
(* run that was over stays over.                                               *)
Quiet ==
  /\ UNCHANGED <<proc, log, tail, seqs, pending>>
  /\ \A r \in Runs : /\ pc[r] # "idle" => pc'[r] # "idle"
                     /\ Coming(r)' => Coming(r)
                     /\ pc'[r] = "stamped" => pc[r] = "stamped"
                     /\ pc'[r] = "written" <=> pc[r] = "written"

LEMMA QuietKeeps ==
  ASSUME IInv, Quiet
  PROVE  NeverBackNow' /\ CacheUsed' /\ CacheTrue' /\ Stamped' /\ LogOrder' /\ TailOrder'
BY DEF Quiet, IInv, NeverBackNow, CacheUsed, CacheTrue, Stamped, LogOrder, TailOrder, Clean,
   NextLine, Unadvanced

LEMMA QuietSteps ==
  ASSUME IInv, Overlap = FALSE, NEW r \in Runs,
         Resume(r) \/ Load(r) \/ GiveUp(r) \/ Close(r)
  PROVE  IInv'
<1> USE DEF Live
<1>1. pc \in [Runs -> Places] /\ Fresh \in Runs
  BY LogAssumption DEF IInv, TypeOK
<1>2. Quiet
  <2>1. UNCHANGED <<proc, log, tail, seqs, pending>>
    BY DEF Resume, Load, GiveUp, Close
  <2>2. \A q \in Runs \ {r} : pc'[q] = pc[q]
    BY <1>1 DEF Resume, Load, GiveUp, Close, At
  <2>3. /\ pc'[r] \notin {"idle", "stamped", "written"} /\ pc[r] # "written"
        /\ Coming(r)
    BY <1>1 DEF Resume, MayResume, Load, GiveUp, Close, At, Coming
  <2> QED
    BY <2>1, <2>2, <2>3 DEF Quiet, Coming
<1>3. TypeOK' /\ NothingYet'
  BY TypesKept DEF Next
<1>4. FreshFirst'
  BY <1>1 DEF Resume, MayResume, Load, GiveUp, Close, At, IInv, FreshFirst
<1>5. LockHeld'
  <2>1. CASE Resume(r)
    BY <1>1, <2>1, LogAssumption DEF Resume, MayResume, At, IInv, LockHeld
  <2>2. CASE Load(r) \/ GiveUp(r)
    BY <1>1, <2>2 DEF Load, GiveUp, At, IInv, LockHeld
  <2>3. CASE Close(r)
    BY <1>1, <2>3, OneLive DEF Close, At, IInv, LockHeld
  <2> QED
    BY <2>1, <2>2, <2>3
<1> QED
  BY <1>2, <1>3, <1>4, <1>5, QuietKeeps DEF IInv

(* The fresh run's process starts to number at 0, and the log is empty.        *)
LEMMA StartKeeps == ASSUME IInv, StartFresh PROVE IInv'
<1> DEFINE p == proc[Fresh]
<1>1. /\ pc \in [Runs -> Places] /\ proc \in [Runs -> Procs] /\ Fresh \in Runs
      /\ seqs \in [Procs -> Nat \cup {Unread}]
  BY LogAssumption DEF IInv, TypeOK
<1>2. /\ pc' = [pc EXCEPT ![Fresh] = "open"] /\ seqs' = [seqs EXCEPT ![p] = 0]
      /\ UNCHANGED <<proc, log, tail, lock, pending>> /\ claimed' = claimed \cup {p}
      /\ pc[Fresh] = "idle"
  BY DEF StartFresh, At
<1>3. log = <<>> /\ tail = <<>> /\ \A r \in Runs : pc[r] = "idle"
  BY <1>2 DEF IInv, NothingYet
<1>4. \A q \in Procs : seqs[q] = Unread
  BY <1>3 DEF IInv, CacheUsed
<1>5. TypeOK' /\ NothingYet'
  BY TypesKept DEF Next
<1>6. FreshFirst' /\ LockHeld' /\ NeverBackNow' /\ LogOrder' /\ TailOrder' /\ Stamped'
  BY <1>1, <1>2, <1>3
     DEF IInv, FreshFirst, LockHeld, Live, NeverBackNow, LogOrder, TailOrder, Stamped
<1>7. CacheUsed' /\ CacheTrue'
  <2>1. NextLine' = 0
    BY <1>1, <1>2, <1>3 DEF NextLine, Unadvanced
  <2> QED
    BY <1>1, <1>2, <1>3, <1>4, <2>1 DEF CacheUsed, CacheTrue
<1> QED
  BY <1>5, <1>6, <1>7 DEF IInv

LEMMA StampKeeps == ASSUME IInv, NEW r \in Runs, Stamp(r) PROVE IInv'
<1>1. /\ pc \in [Runs -> Places] /\ Live(r) /\ proc[r] \in Procs
      /\ seqs \in [Procs -> Nat \cup {Unread}] /\ Len(log) \in Nat
      /\ pending \in [Runs -> Nat] /\ log \in Seq(Line)
  BY DEF IInv, TypeOK, Stamp, Live
<1>2. /\ pc' = [pc EXCEPT ![r] = "stamped"] /\ UNCHANGED <<proc, log, tail, lock, claimed>>
      /\ pc[r] \in {"open", "failing"}
  BY DEF Stamp, At
<1>3. \A w \in Runs : pc[w] # "written"
  BY <1>1, <1>2, OneLive DEF Live
<1>4. PICK n \in NextSeq(r) : /\ pending' = [pending EXCEPT ![r] = n]
                              /\ seqs' = [seqs EXCEPT ![proc[r]] = n]
  BY DEF Stamp
<1>5. ASSUME tail = <<>>, Clean PROVE n = Len(log)
  <2>1. Len(Seen) = Len(log)
    BY <1>1, <1>5 DEF Seen
  <2> QED
    BY <1>1, <1>3, <1>4, <1>5, <2>1
       DEF NextSeq, IInv, CacheTrue, Coming, NextLine, Unadvanced
<1>6. TypeOK' /\ NothingYet'
  BY TypesKept DEF Next
<1>7. FreshFirst' /\ LockHeld' /\ NeverBackNow' /\ LogOrder' /\ TailOrder'
  <2>1. FreshFirst' /\ LockHeld' /\ NeverBackNow'
    BY <1>1, <1>2 DEF IInv, FreshFirst, LockHeld, Live, NeverBackNow
  <2>2. LogOrder' /\ TailOrder'
    BY <1>2 DEF IInv, LogOrder, TailOrder, Clean
  <2> QED
    BY <2>1, <2>2
<1>8. CacheUsed'
  BY <1>1, <1>2, <1>4 DEF IInv, CacheUsed
<1>9. CacheTrue'
  <2> SUFFICES ASSUME NEW q \in Runs, Coming(q)', seqs'[proc'[q]] # Unread,
                      tail' = <<>>, Clean'
               PROVE  seqs'[proc'[q]] = NextLine'
    BY DEF CacheTrue
  <2>1. NextLine' = Len(log) /\ n = Len(log)
    BY <1>1, <1>2, <1>3, <1>5 DEF NextLine, Unadvanced, Clean
  <2>2. Coming(q)
    BY <1>1, <1>2 DEF Coming, Live
  <2>3. proc[q] = proc[r]
    <3>1. CASE proc[q] # proc[r]
      <4>1. seqs[proc[q]] # Unread
        BY <1>1, <1>2, <1>4, <3>1 DEF IInv, TypeOK
      <4> QED
        BY <1>1, <2>2, <4>1, SameProcess
    <3> QED
      BY <3>1
  <2> QED
    BY <1>1, <1>2, <1>4, <2>1, <2>3
<1>10. Stamped'
  <2> SUFFICES ASSUME NEW q \in Runs, pc'[q] \in {"stamped", "written"}
               PROVE  seqs'[proc'[q]] = pending'[q]
    BY DEF Stamped
  <2>1. q = r
    BY <1>1, <1>2, OneLive DEF Live
  <2> QED
    BY <1>1, <1>2, <1>4, <2>1
<1> QED
  BY <1>6, <1>7, <1>8, <1>9, <1>10 DEF IInv

LEMMA WriteKeeps == ASSUME IInv, NEW r \in Runs, Write(r) PROVE IInv'
<1>1. /\ pc \in [Runs -> Places] /\ Live(r) /\ proc[r] \in Procs /\ Len(log) \in Nat
      /\ seqs \in [Procs -> Nat \cup {Unread}] /\ pending \in [Runs -> Nat]
      /\ log \in Seq(Line)
  BY DEF IInv, TypeOK, Write, Live
<1>2. /\ pc' = [pc EXCEPT ![r] = "written"] /\ UNCHANGED <<proc, lock, claimed, seqs, pending>>
      /\ pc[r] = "stamped" /\ tail' = <<>>
  BY DEF Write, At
<1>3. \A w \in Runs : pc[w] # "written"
  BY <1>1, <1>2, OneLive DEF Live
<1>4. seqs[proc[r]] = pending[r] /\ pending[r] \in Nat /\ seqs[proc[r]] # Unread
  BY <1>1, <1>2 DEF IInv, Stamped, Unread
<1>5. tail = <<>> /\ Clean => pending[r] = Len(log)
  BY <1>1, <1>3, <1>4 DEF IInv, CacheTrue, Coming, NextLine, Unadvanced
<1>6. PICK n \in Nat \cup {Corrupt} :
        /\ log' = Append(log, [seq |-> n, run |-> r])
        /\ n # Corrupt => tail = <<>> /\ n = pending[r]
  BY <1>4 DEF Write
<1>7. /\ Len(log') = Len(log) + 1 /\ log'[Len(log) + 1].seq = n
      /\ \A i \in 1..Len(log) : log'[i] = log[i]
  BY <1>1, <1>6
<1>8. TypeOK' /\ NothingYet'
  BY TypesKept DEF Next
<1>9. FreshFirst' /\ LockHeld' /\ NeverBackNow' /\ CacheUsed' /\ Stamped' /\ TailOrder'
  BY <1>1, <1>2
     DEF IInv, FreshFirst, LockHeld, Live, NeverBackNow, CacheUsed, Stamped, TailOrder
<1>10. ASSUME \A j \in 1..Len(log) : log'[j].seq # Corrupt, n # Corrupt
       PROVE  tail = <<>> /\ Clean /\ n = Len(log)
  BY <1>1, <1>5, <1>6, <1>7, <1>10 DEF Clean
<1>11. LogOrder'
  <2> SUFFICES ASSUME NEW i \in 1..Len(log'), \A j \in 1..i : log'[j].seq # Corrupt
               PROVE  log'[i].seq = i - 1
    BY DEF LogOrder
  <2>1. CASE i \in 1..Len(log)
    <3>1. \A j \in 1..i : log[j] = log'[j]
      BY <1>1, <1>7, <2>1
    <3>2. log[i].seq = i - 1
      BY <2>1, <3>1 DEF IInv, LogOrder
    <3> QED
      BY <1>7, <2>1, <3>2
  <2>2. CASE i = Len(log) + 1
    BY <1>1, <1>7, <1>10, <2>2
  <2> QED
    BY <1>1, <1>7, <2>1, <2>2
<1>12. CacheTrue'
  <2> SUFFICES ASSUME NEW q \in Runs, Coming(q)', seqs'[proc'[q]] # Unread, Clean'
               PROVE  seqs'[proc'[q]] = NextLine'
    BY DEF CacheTrue
  <2>1. NextLine' = Len(log)
    BY <1>1, <1>2, <1>7 DEF NextLine, Unadvanced
  <2>2. Coming(q)
    BY <1>1, <1>2 DEF Coming, Live
  <2>3. proc[q] = proc[r]
    BY <1>1, <1>2, <2>2, SameProcess
  <2>4. n # Corrupt /\ \A j \in 1..Len(log) : log'[j].seq # Corrupt
    BY <1>1, <1>7 DEF Clean
  <2>5. pending[r] = Len(log)
    BY <1>6, <1>10, <2>4
  <2> QED
    BY <1>2, <1>4, <2>1, <2>3, <2>5
<1> QED
  BY <1>8, <1>9, <1>11, <1>12 DEF IInv

(* What an append that stops half way leaves behind the last newline carries   *)
(* the next number, or does not parse.                                         *)
LEMMA CutShortInOrder ==
  ASSUME IInv, NEW r \in Runs, pc[r] = "stamped", tail' \in CutShort(r), log' = log
  PROVE  TailOrder' /\ (tail' = <<>> => tail = <<>>)
<1>1. Live(r) /\ Len(log) \in Nat /\ pending[r] \in Nat
  BY DEF IInv, TypeOK, Live
<1>2. \A w \in Runs : pc[w] # "written"
  BY <1>1, OneLive DEF Live
<1>3. tail = <<>> /\ Clean => pending[r] = Len(log)
  BY <1>1, <1>2 DEF IInv, Stamped, CacheTrue, Coming, NextLine, Unadvanced, Unread
<1> QED
  BY <1>3 DEF CutShort, IInv, TailOrder, Clean

LEMMA WriteFailsKeeps == ASSUME IInv, NEW r \in Runs, WriteFails(r) PROVE IInv'
<1>1. pc \in [Runs -> Places] /\ Live(r)
  BY DEF IInv, TypeOK, WriteFails, Live
<1>2. PICK place \in {"open", "ended"} : pc' = [pc EXCEPT ![r] = place]
  BY DEF WriteFails, At
<1>3. UNCHANGED <<proc, log, lock, claimed, seqs, pending>> /\ pc[r] = "stamped"
  BY DEF WriteFails
<1>4. TypeOK' /\ NothingYet'
  BY TypesKept DEF Next
<1>5. TailOrder' /\ (tail' = <<>> => tail = <<>>)
  BY <1>3, CutShortInOrder DEF WriteFails
<1>6. FreshFirst' /\ LockHeld' /\ NeverBackNow' /\ LogOrder' /\ CacheUsed' /\ Stamped'
  BY <1>1, <1>2, <1>3
     DEF IInv, FreshFirst, LockHeld, Live, NeverBackNow, LogOrder, CacheUsed, Stamped
<1>7. CacheTrue'
  <2>1. NextLine' = NextLine /\ \A q \in Runs : Coming(q)' => Coming(q)
    BY <1>1, <1>2, <1>3 DEF NextLine, Unadvanced, Coming, Live
  <2> QED
    BY <1>3, <1>5, <2>1 DEF IInv, CacheTrue, Clean
<1> QED
  BY <1>4, <1>5, <1>6, <1>7 DEF IInv

LEMMA WrittenKeeps == ASSUME IInv, NEW r \in Runs, Written(r) PROVE IInv'
<1>1. /\ pc \in [Runs -> Places] /\ Live(r) /\ proc[r] \in Procs /\ Len(log) \in Nat
      /\ seqs \in [Procs -> Nat \cup {Unread}] /\ pending \in [Runs -> Nat]
  BY DEF IInv, TypeOK, Written, Live
<1>2. PICK place \in {"open", "ended"} : pc' = [pc EXCEPT ![r] = place]
  BY DEF Written, At
<1>3. /\ UNCHANGED <<proc, log, tail, lock, claimed, pending>> /\ pc[r] = "written"
      /\ seqs' = [seqs EXCEPT ![proc[r]] = pending[r] + 1]
  BY DEF Written
<1>4. seqs[proc[r]] = pending[r] /\ pending[r] \in Nat /\ seqs[proc[r]] # Unread
  BY <1>1, <1>3 DEF IInv, Stamped, Unread
<1>5. tail = <<>> /\ Clean => pending[r] = Len(log) - 1
  BY <1>1, <1>3, <1>4 DEF IInv, CacheTrue, Coming, NextLine, Unadvanced
<1>6. \A q \in Runs \ {r} : ~Live(q)
  BY <1>1, OneLive
<1>7. TypeOK' /\ NothingYet'
  BY TypesKept DEF Next
<1>8. FreshFirst' /\ LockHeld' /\ NeverBackNow' /\ LogOrder' /\ TailOrder'
  BY <1>1, <1>2, <1>3
     DEF IInv, FreshFirst, LockHeld, Live, NeverBackNow, LogOrder, TailOrder, Clean
<1>9. CacheUsed' /\ Stamped'
  BY <1>1, <1>2, <1>3, <1>6 DEF IInv, CacheUsed, Stamped, Live
<1>10. CacheTrue'
  <2> SUFFICES ASSUME NEW q \in Runs, Coming(q)', seqs'[proc'[q]] # Unread,
                      tail' = <<>>, Clean'
               PROVE  seqs'[proc'[q]] = NextLine'
    BY DEF CacheTrue
  <2>1. NextLine' = Len(log) /\ pending[r] = Len(log) - 1
    BY <1>1, <1>2, <1>3, <1>5, <1>6 DEF NextLine, Unadvanced, Live, Clean
  <2>2. Coming(q)
    BY <1>1, <1>2 DEF Coming, Live
  <2>3. proc[q] = proc[r]
    <3>1. CASE proc[q] # proc[r]
      <4>1. seqs[proc[q]] # Unread
        BY <1>1, <1>3, <3>1 DEF IInv, TypeOK
      <4> QED
        BY <1>1, <2>2, <4>1, SameProcess
    <3> QED
      BY <3>1
  <2> QED
    BY <1>1, <1>3, <1>4, <2>1, <2>3
<1> QED
  BY <1>7, <1>8, <1>9, <1>10 DEF IInv

(* A process dies with the one run that was under way: its number is forgotten,*)
(* and whoever else has one is over.                                           *)
LEMMA CrashKeeps == ASSUME IInv, NEW p \in Procs, Crash(p) PROVE IInv'
<1>1. /\ pc \in [Runs -> Places] /\ proc \in [Runs -> Procs] /\ Len(log) \in Nat
      /\ seqs \in [Procs -> Nat \cup {Unread}]
  BY DEF IInv, TypeOK
<1>2. PICK b \in Runs : proc[b] = p /\ Live(b)
  BY DEF Crash
<1>3. \A q \in Runs \ {b} : ~Live(q)
  BY <1>2, OneLive
<1>4. pc' = [pc EXCEPT ![b] = "dead"]
  BY <1>1, <1>2, <1>3 DEF Crash
<1>5. /\ seqs' = [seqs EXCEPT ![p] = Unread] /\ UNCHANGED <<proc, log, lock, pending>>
      /\ claimed' = claimed \ {p}
  BY DEF Crash
<1>6. pc[b] # "idle"
  BY <1>2 DEF Live
<1>7. TypeOK' /\ NothingYet'
  BY TypesKept DEF Next
<1>8. FreshFirst' /\ LockHeld' /\ NeverBackNow' /\ LogOrder'
  BY <1>1, <1>2, <1>4, <1>5, <1>6 DEF IInv, FreshFirst, LockHeld, Live, NeverBackNow, LogOrder
<1>9. CacheUsed' /\ Stamped'
  BY <1>1, <1>3, <1>4, <1>5 DEF IInv, CacheUsed, Stamped, Live
<1>10. CacheTrue'
  <2> SUFFICES ASSUME NEW q \in Runs, Coming(q)', seqs'[proc'[q]] # Unread PROVE FALSE
    BY DEF CacheTrue
  <2>1. proc[q] # p /\ seqs[proc[q]] # Unread
    BY <1>1, <1>5
  <2>2. Coming(q)
    BY <1>1, <1>4 DEF Coming, Live
  <2> QED
    BY <1>2, <2>1, <2>2, SameProcess
<1>11. TailOrder'
  <2>1. CASE UNCHANGED tail
    BY <1>5, <2>1 DEF IInv, TailOrder, Clean
  <2>2. CASE \E r \in Runs : pc[r] = "stamped" /\ tail' \in CutShort(r)
    BY <1>5, <2>2, CutShortInOrder
  <2> QED
    BY <2>1, <2>2 DEF Crash
<1> QED
  BY <1>7, <1>8, <1>9, <1>10, <1>11 DEF IInv

LEMMA RemoveKeeps == ASSUME IInv, RemoveStaleLock PROVE IInv'
<1>1. UNCHANGED <<proc, log, tail, claimed, seqs, pc, pending>> /\ pc[lock] = "dead"
  BY DEF RemoveStaleLock
<1>2. TypeOK' /\ NothingYet'
  BY TypesKept DEF Next
<1>3. LockHeld'
  BY <1>1 DEF IInv, LockHeld, Live
<1> QED
  BY <1>1, <1>2, <1>3
     DEF IInv, NeverBackNow, FreshFirst, CacheUsed, CacheTrue, Stamped, LogOrder, TailOrder,
         Live, Coming, Clean, NextLine, Unadvanced

LEMMA InvNext == ASSUME Overlap = FALSE, IInv, [Next]_vars PROVE IInv'
<1>1. CASE StartFresh \/ RemoveStaleLock
  BY <1>1, StartKeeps, RemoveKeeps
<1>2. ASSUME NEW r \in Runs, Resume(r) \/ Load(r) \/ GiveUp(r) \/ Close(r) PROVE IInv'
  BY <1>2, QuietSteps
<1>3. ASSUME NEW r \in Runs, Stamp(r) \/ Write(r) \/ WriteFails(r) \/ Written(r) PROVE IInv'
  BY <1>3, StampKeeps, WriteKeeps, WriteFailsKeeps, WrittenKeeps
<1>4. ASSUME NEW p \in Procs, Crash(p) PROVE IInv'
  BY <1>4, CrashKeeps
<1>5. CASE UNCHANGED vars
  BY <1>5 DEF vars, IInv, TypeOK, NothingYet, NeverBackNow, FreshFirst, LockHeld, CacheUsed,
              CacheTrue, Stamped, LogOrder, TailOrder, Live, Coming, Clean, NextLine, Unadvanced
<1> QED
  BY <1>1, <1>2, <1>3, <1>4, <1>5 DEF Next, Settled
-----------------------------------------------------------------------------
(* Whoever runs beside whom, and whatever crashes and appends that stop part   *)
(* way: a log that ends in a fragment is never written again once no run under *)
(* way or to come has a cached number (nextSeq reads the log before it numbers *)
(* a line, and a fragment does not parse).                                     *)
THEOREM LogTornIsFinal == Spec => TornIsFinal
<1>1. Init => TInv
  BY InitTypes DEF TInv
<1>2. TInv /\ [Next]_vars => TInv'
  BY TInvNext
<1>3. TInv /\ [Next]_vars => [Fragment /\ Forgotten => UNCHANGED <<log, tail>> /\ Forgotten']_vars
  BY FragmentStays
<1> QED
  BY <1>1, <1>2, <1>3, PTL DEF Spec, TornIsFinal

(* The invariant of the order of the lines.                                    *)
THEOREM LogInvariant ==
  ASSUME Overlap = FALSE, NeverBack
  PROVE  Spec => []IInv
<1>1. Init => IInv
  BY InitInv
<1>2. IInv /\ [Next]_vars => IInv'
  BY InvNext
<1> QED
  BY <1>1, <1>2, PTL DEF Spec

(* Whatever the number of runs, resumes, crashes and appends that stop part    *)
(* way: as far as the log parses, its last line without a newline included,    *)
(* every line carries the number of its position (nextSeq, append), if the     *)
(* session never returns to a process and nobody resumes it beside a live      *)
(* fresh run. Run session_log_back shows that the first is needed.             *)
THEOREM LogInOrder ==
  ASSUME Overlap = FALSE, NeverBack
  PROVE  Spec => []SeqInOrder
<1>1. IInv => SeqInOrder
  BY InOrder DEF IInv
<1> QED
  BY <1>1, LogInvariant, PTL
=============================================================================
