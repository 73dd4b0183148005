----------------------------- MODULE SessionLog -----------------------------
(* One session's append-only log, written by runs of several processes         *)
(* (packages/core/src/session-store.ts, and the places of agent.ts and         *)
(* session-lifecycle.ts that claim, lock, load, append and release).           *)
(*                                                                             *)
(* A fresh run claims the id inside its process; a resumed run takes the lock  *)
(* file. Every append stamps the next sequence number (cached per process, or  *)
(* counted on disk the first time), writes one line and then advances the      *)
(* cache. A crash, or an append that fails part way, can leave a line without  *)
(* its end, or without only its newline; a crash leaves the lock file behind.  *)
EXTENDS Integers, Sequences

CONSTANTS Runs, Procs,  \* runs of the one session, processes that share the directory
          NoRun,        \* no run
          Deployments,  \* the ways of placing the runs in processes to consider
          Fresh,        \* the run that creates the session; every other one resumes it
          MaxLen,       \* bound on the log
          Overlap,      \* whether a resume may start beside a live fresh run
          Faults        \* whether processes die and appends fail

ASSUME LogAssumption ==
  /\ Deployments \subseteq [Runs -> Procs] /\ Fresh \in Runs /\ NoRun \notin Runs
  /\ MaxLen \in Nat /\ Overlap \in BOOLEAN /\ Faults \in BOOLEAN

Unread == -1      \* this process has not counted the log yet
Corrupt == -2     \* the sequence number of a line, or part of one, that does not parse

VARIABLES proc,     \* [Runs -> Procs]: the process each run is in
          log,      \* the lines that end in a newline: [seq, run]
          tail,     \* what follows the last newline: nothing, or one line or part of one
          lock,     \* the run whose lock file exists, or NoRun
          claimed,  \* processes with a live claim on the id
          seqs,     \* [Procs -> cached next sequence number or Unread]
          pc,       \* where each run is
          pending   \* the number a run's append in flight was stamped with

vars == <<proc, log, tail, lock, claimed, seqs, pc, pending>>

(* idle; load (resumeSnapshot); open (between appends); failing (load threw,   *)
(* its error and session.end are still appended); stamped, written (inside an  *)
(* append); ended (session.end written); closed; refused; dead.                *)
Writing == {"open", "failing", "stamped", "written", "ended"}
Places == Writing \cup {"idle", "load", "closed", "refused", "dead"}

Line == [seq : Nat \cup {Corrupt}, run : Runs]

TypeOK ==
  /\ proc \in [Runs -> Procs]
  /\ log \in Seq(Line) /\ tail \in {<<>>} \cup {<<l>> : l \in Line}
  /\ lock \in Runs \cup {NoRun} /\ claimed \subseteq Procs
  /\ seqs \in [Procs -> Nat \cup {Unread}] /\ pc \in [Runs -> Places]
  /\ pending \in [Runs -> Nat]

Init ==
  /\ proc \in Deployments
  /\ log = <<>> /\ tail = <<>> /\ lock = NoRun /\ claimed = {}
  /\ seqs = [p \in Procs |-> Unread] /\ pc = [r \in Runs |-> "idle"]
  /\ pending = [r \in Runs |-> 0]

At(r, place) == pc' = [pc EXCEPT ![r] = place]
Live(r) == pc[r] \notin {"idle", "closed", "refused", "dead"}

(* read(): every line must parse and carry the next number, the last one too   *)
(* where its newline is missing.                                               *)
Seen == log \o tail
Readable == \A i \in 1..Len(Seen) : Seen[i].seq = i - 1
-----------------------------------------------------------------------------
(* create() and claim(): the id is this process's, its numbering starts at 0.  *)
StartFresh ==
  LET p == proc[Fresh] IN
  /\ pc[Fresh] = "idle" /\ p \notin claimed
  /\ claimed' = claimed \cup {p}
  /\ seqs' = [seqs EXCEPT ![p] = 0] /\ At(Fresh, "open")
  /\ UNCHANGED <<proc, log, tail, lock, pending>>

(* acquireLock(): the lock file is created or the run is refused, with nothing *)
(* written. A claim of this process is not looked at.                          *)
MayResume(r) ==
  /\ r # Fresh /\ pc[r] = "idle" /\ pc[Fresh] # "idle"
  /\ Overlap \/ ~Live(Fresh)

Resume(r) ==
  /\ MayResume(r)
  /\ IF lock = NoRun THEN lock' = r /\ At(r, "load")
     ELSE At(r, "refused") /\ UNCHANGED lock
  /\ UNCHANGED <<proc, log, tail, claimed, seqs, pending>>

(* resumeSnapshot(): the conversation is materialized from the log.            *)
Load(r) ==
  /\ pc[r] = "load"
  /\ At(r, IF Readable /\ Seen # <<>> THEN "open" ELSE "failing")
  /\ UNCHANGED <<proc, log, tail, lock, claimed, seqs, pending>>

(* Mutant: what does not parse at the end is not looked at.                    *)
NextSeqTolerant(r) ==
  IF seqs[proc[r]] # Unread THEN {seqs[proc[r]]} ELSE {Len(log)}

(* nextSeq(): the cached number, or the number of lines on disk; a log that    *)
(* does not read fails the append, which writes nothing.                       *)
NextSeq(r) ==
  IF seqs[proc[r]] # Unread THEN {seqs[proc[r]]} ELSE IF Readable THEN {Len(Seen)} ELSE {}

Stamp(r) ==
  /\ pc[r] \in {"open", "failing"} /\ Len(log) < MaxLen
  /\ \E n \in NextSeq(r) :
       /\ pending' = [pending EXCEPT ![r] = n]
       /\ seqs' = [seqs EXCEPT ![proc[r]] = n]
  /\ At(r, "stamped")
  /\ UNCHANGED <<proc, log, tail, lock, claimed>>

(* One line goes to the file. Behind a line without a newline it makes one     *)
(* line with it, which does not parse.                                         *)
Write(r) ==
  /\ pc[r] = "stamped"
  /\ log' = Append(log, [seq |-> IF tail = <<>> THEN pending[r] ELSE Corrupt, run |-> r])
  /\ tail' = <<>> /\ At(r, "written")
  /\ UNCHANGED <<proc, lock, claimed, seqs, pending>>

(* What is behind the last newline when an append stops before its own: what   *)
(* was there, a part that does not parse, or all but the newline.              *)
CutShort(r) ==
  {tail, <<[seq |-> Corrupt, run |-> r]>>}
    \cup (IF tail = <<>> THEN {<<[seq |-> pending[r], run |-> r]>>} ELSE {})

(* The append throws, of session.end or another event: before a byte is        *)
(* written, or part way (a full disk). The cached number stays.                *)
WriteFails(r) ==
  /\ Faults /\ pc[r] = "stamped" /\ tail' \in CutShort(r)
  /\ \E place \in {"open", "ended"} : At(r, place)
  /\ UNCHANGED <<proc, log, lock, claimed, seqs, pending>>

(* Mutant: the cache stays.                                                    *)
WrittenUncached(r) ==
  /\ pc[r] = "written"
  /\ \E place \in {"open", "ended"} : At(r, place)
  /\ UNCHANGED <<proc, log, tail, lock, claimed, seqs, pending>>

(* The cache moves on, and the event was one of many or session.end.           *)
Written(r) ==
  /\ pc[r] = "written"
  /\ seqs' = [seqs EXCEPT ![proc[r]] = pending[r] + 1]
  /\ \E place \in {"open", "ended"} : At(r, place)
  /\ UNCHANGED <<proc, log, tail, lock, claimed, pending>>

(* The log does not read and so cannot be numbered, or its bound is reached:   *)
(* finish() goes on without session.end.                                       *)
GiveUp(r) ==
  /\ pc[r] \in {"open", "failing"} /\ (NextSeq(r) = {} \/ Len(log) = MaxLen)
  /\ At(r, "ended")
  /\ UNCHANGED <<proc, log, tail, lock, claimed, seqs, pending>>

(* finish(): the lock file is removed, or the claim given back.                *)
Close(r) ==
  /\ pc[r] = "ended" /\ At(r, "closed")
  /\ IF r = Fresh THEN claimed' = claimed \ {proc[r]} /\ UNCHANGED lock
     ELSE lock' = NoRun /\ UNCHANGED claimed
  /\ UNCHANGED <<proc, log, tail, seqs, pending>>
-----------------------------------------------------------------------------
(* A process dies: its runs stop where they are, its memory is gone, and of a  *)
(* line it was writing any part may be on disk. Its lock file stays.           *)
Crash(p) ==
  /\ Faults /\ \E r \in Runs : proc[r] = p /\ Live(r)
  /\ pc' = [r \in Runs |-> IF proc[r] = p /\ Live(r) THEN "dead" ELSE pc[r]]
  /\ \/ UNCHANGED tail
     \/ \E r \in Runs : proc[r] = p /\ pc[r] = "stamped" /\ tail' \in CutShort(r)
  /\ claimed' = claimed \ {p} /\ seqs' = [seqs EXCEPT ![p] = Unread]
  /\ UNCHANGED <<proc, log, lock, pending>>

(* "If that process is gone, delete <path>": a person removes a stale lock.    *)
RemoveStaleLock ==
  /\ lock # NoRun /\ pc[lock] = "dead" /\ lock' = NoRun
  /\ UNCHANGED <<proc, log, tail, claimed, seqs, pc, pending>>

Settled == (\A r \in Runs : ~Live(r)) /\ UNCHANGED vars

Next ==
  \/ StartFresh \/ RemoveStaleLock \/ Settled
  \/ \E r \in Runs : \/ Resume(r) \/ Load(r) \/ Stamp(r) \/ Write(r) \/ WriteFails(r)
                     \/ Written(r) \/ GiveUp(r) \/ Close(r)
  \/ \E p \in Procs : Crash(p)

Spec == Init /\ [][Next]_vars
-----------------------------------------------------------------------------
(* "Events are written in `seq` order with no gaps": a reader never meets a    *)
(* number twice or misses one. Up to the first line that does not parse, where *)
(* it stops, every line carries the number of its position.                    *)
SeqInOrder ==
  \A i \in 1..Len(Seen) : (\A j \in 1..i : Seen[j].seq # Corrupt) => Seen[i].seq = i - 1

(* A log that ends in a part of a line that does not parse is never written    *)
(* again, once no run under way or to come has a cached number: the next line  *)
(* would merge with the part (nextSeq reads the log before it numbers a line). *)
Fragment == tail # <<>> /\ tail[1].seq = Corrupt
Forgotten == \A r \in Runs : pc[r] = "idle" \/ Live(r) => seqs[proc[r]] = Unread
TornIsFinal == [][Fragment /\ Forgotten => UNCHANGED <<log, tail>> /\ Forgotten']_vars
=============================================================================
