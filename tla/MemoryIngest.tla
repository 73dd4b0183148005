---------------------------- MODULE MemoryIngest ----------------------------
(* The wiki as its writers share it (packages/memory/src): ingestSession, which*)
(* distils a session's log into facts on the pages of their topics and marks   *)
(* the session's own page when all of it is written, and memory_write, which   *)
(* replaces a page it read before if the page is still the one it read.        *)
(*                                                                             *)
(* An ingest holds a lock of its session from beginning to end, the model's    *)
(* calls included, and the wiki's write lock for one change at a time. A change*)
(* reads the page or the whole index, writes a new file and renames it over the*)
(* old one: Open is the lock and the read, the change follows. An ingest that  *)
(* fails or dies leaves what it changed; another ingest of the session starts  *)
(* over. Every event of a log may give one fact, about the topic of the event; *)
(* what the model makes of the log is a choice at each ingest.                 *)
(*                                                                             *)
(* Not in the model: log.md, the pins (read only here) and the annotation of   *)
(* facts by a backend after the ingest is complete, which keeps their text.    *)
EXTENDS Naturals, FiniteSets, MemoryLock

CONSTANTS Sessions, Topics, Ingests, Agents,
          Wiki,          \* the wiki's write lock; each session has its own
          Nothing,       \* no page, no row, no capture, no view
          SessionOf,     \* [Ingests -> the session it distils]
          TopicOf,       \* [Sessions -> [Nat -> the topic of that event]]
          PageOf,        \* [Agents -> the page memory_write replaces]
          Casts,         \* who takes part, the events each log has at first, and
                         \* how many processes may die
          MaxLog

Pages == Topics \cup Sessions
Writers == Ingests \cup Agents
Facts == {<<s, k>> : s \in Sessions, k \in 1..MaxLog}
About(f) == TopicOf[f[1]][f[2]]
Texts == SUBSET (Facts \cup Agents)

ASSUME IngestAssumption ==
  /\ LockRoots = {Wiki} \cup Sessions /\ Wiki \notin Sessions
  /\ SessionOf \in [Ingests -> Sessions] /\ PageOf \in [Agents -> Topics]
  /\ MaxLog \in Nat
  /\ \A c \in Casts : /\ c.who \subseteq Ingests \cup Agents /\ c.crashes \in Nat
                      /\ c.events \in [Sessions -> 0..MaxLog]
  /\ TopicOf \in [Sessions -> [1..MaxLog -> Topics]]
  /\ NoProc \notin Writers /\ Ingests \cap Agents = {}
  /\ (\A text \in Texts : text # Nothing) /\ Nothing \notin {"planned", "active"}

VARIABLES events,      \* [Sessions -> how many events the log has]
          page,        \* [Pages -> the facts on it, or Nothing]
          reserved,    \* the pages with a reservation's placeholder
          row,         \* [Pages -> its row in index.md]
          capture,     \* [Sessions -> the events its page says are captured, or Pending]
          pc, on, view,\* [Writers -> how far it is, the page its change is about,
                       \*             what it read under the lock]
          upto, found, \* [Ingests -> the events it read, the facts it distilled]
          todo,        \* [Ingests -> the topics the current loop has left]
          base,        \* [Agents -> the page as it was read]
          crashes,     \* how many more processes may die
          kept, best   \* [Sessions -> the facts, and the events, of complete ingests]

vars == <<lock, events, page, reserved, row, capture, pc, on, view, upto, found, todo,
          base, crashes, kept, best>>
wiki == <<page, reserved, row, capture>>
plan == <<upto, found, todo>>
open == <<on, view>>
history == <<kept, best>>

Pending == MaxLog + 1      \* <!-- ingest:pending -->, or no marker that can be read

Changing == {"reserve", "created", "source", "sourceRow", "page", "row", "mark"}
Stages == Changing \cup {"idle", "read", "distil", "replace", "over", "gone"}

TypeOK ==
  /\ lock \in [LockRoots -> Writers \cup {NoProc}]
  /\ events \in [Sessions -> 0..MaxLog]
  /\ page \in [Pages -> Texts \cup {Nothing}] /\ reserved \subseteq Topics
  /\ row \in [Pages -> {Nothing, "planned", "active"}]
  /\ capture \in [Sessions -> 0..Pending]
  /\ pc \in [Writers -> Stages]
  /\ on \in [Writers -> Pages \cup {Nothing}]
  /\ view \in [Writers -> [page : Texts \cup {Nothing},
                           row : [Pages -> {Nothing, "planned", "active"}]] \cup {Nothing}]
  /\ upto \in [Ingests -> 0..MaxLog] /\ found \in [Ingests -> SUBSET Facts]
  /\ todo \in [Ingests -> SUBSET Topics]
  /\ base \in [Agents -> Texts \cup {Nothing}]
  /\ crashes \in Nat
  /\ kept \in [Sessions -> SUBSET Facts] /\ best \in [Sessions -> 0..MaxLog]

Init ==
  /\ LockInit
  /\ \E c \in Casts :
       /\ events = c.events /\ crashes = c.crashes
       /\ pc = [p \in Writers |-> IF p \in c.who THEN "idle" ELSE "over"]
  /\ page = [x \in Pages |-> Nothing] /\ reserved = {}
  /\ row = [x \in Pages |-> Nothing]
  /\ capture = [s \in Sessions |-> Pending]
  /\ on = [p \in Writers |-> Nothing] /\ view = [p \in Writers |-> Nothing]
  /\ upto = [i \in Ingests |-> 0] /\ found = [i \in Ingests |-> {}]
  /\ todo = [i \in Ingests |-> {}] /\ base = [a \in Agents |-> Nothing]
  /\ kept = [s \in Sessions |-> {}] /\ best = [s \in Sessions |-> 0]
-----------------------------------------------------------------------------
Goto(p, stage) == pc' = [pc EXCEPT ![p] = stage]
Unlock(r) == lock' = [lock EXCEPT ![r] = NoProc]
TargetsOf(facts) == {About(f) : f \in facts}

(* withMutationLock: the lock, and what the change reads under it.             *)
Subjects(p) ==
  CASE pc[p] \in {"reserve", "page"} -> todo[p]
    [] pc[p] = "row" -> {on[p]}
    [] pc[p] \in {"source", "sourceRow", "mark"} -> {SessionOf[p]}
    [] pc[p] = "replace" -> {PageOf[p]}
    [] OTHER -> {}

Open(p, x) ==
  /\ view[p] = Nothing /\ x \in Subjects(p)
  /\ Acquire(p, Wiki)
  /\ on' = [on EXCEPT ![p] = x]
  /\ view' = [view EXCEPT ![p] = [page |-> page[x], row |-> row]]
  /\ UNCHANGED <<events, wiki, pc, plan, base, crashes, history>>

Opened(p, stage) == pc[p] = stage /\ view[p] # Nothing
Close(p, stage) ==
  /\ Goto(p, stage) /\ Unlock(Wiki)
  /\ view' = [view EXCEPT ![p] = Nothing] /\ UNCHANGED on

(* What a change makes of what it read: a page gains facts, the index a row.   *)
Body(p) == IF view[p].page = Nothing THEN {} ELSE view[p].page
AddFacts(p, facts) == page' = [page EXCEPT ![on[p]] = Body(p) \cup facts]
UpsertRow(p, status) == row' = [view[p].row EXCEPT ![on[p]] = status]
-----------------------------------------------------------------------------
EnterBeside(i) ==
  /\ pc[i] = "idle" /\ Goto(i, "read")
  /\ UNCHANGED <<lock, events, wiki, open, plan, base, crashes, history>>

(* ingestSession(), inside the lock of its session.                            *)
Enter(i) ==
  /\ pc[i] = "idle" /\ Acquire(i, SessionOf[i])
  /\ Goto(i, "read")
  /\ UNCHANGED <<events, wiki, open, plan, base, crashes, history>>

(* A capture of as many events or more makes this one a duplicate.             *)
Captured(s, n) == capture[s] # Pending /\ n <= capture[s]

ReadLog(i) ==
  LET s == SessionOf[i] IN
  /\ pc[i] = "read"
  /\ \/ Captured(s, events[s]) /\ Goto(i, "over") /\ Unlock(s) /\ UNCHANGED upto
     \/ /\ ~Captured(s, events[s]) /\ Goto(i, "distil") /\ UNCHANGED lock
        /\ upto' = [upto EXCEPT ![i] = events[s]]
  /\ UNCHANGED <<events, wiki, open, found, todo, base, crashes, history>>

Distil(i) ==
  /\ pc[i] = "distil"
  /\ \E facts \in SUBSET {<<SessionOf[i], k>> : k \in 1..upto[i]} :
       /\ found' = [found EXCEPT ![i] = facts]
       /\ todo' = [todo EXCEPT ![i] = TargetsOf(facts)]
       /\ Goto(i, IF facts = {} THEN "source" ELSE "reserve")
  /\ UNCHANGED <<lock, events, wiki, open, upto, base, crashes, history>>

(* reserve(): the page is created with a placeholder unless it exists; then its*)
(* row, which keeps the status it has.                                         *)
CreatePage(i) ==
  /\ Opened(i, "reserve") /\ Goto(i, "created")
  /\ IF page[on[i]] = Nothing
     THEN AddFacts(i, {}) /\ reserved' = reserved \cup {on[i]}
     ELSE UNCHANGED <<page, reserved>>
  /\ UNCHANGED <<lock, events, row, capture, open, plan, base, crashes, history>>

AlwaysPlanned(status) == "planned"
Claimed(status) == IF status = Nothing THEN "planned" ELSE status

CreateRow(i) ==
  LET rest == todo[i] \ {on[i]} IN
  /\ Opened(i, "created")
  /\ UpsertRow(i, Claimed(view[i].row[on[i]]))
  /\ todo' = [todo EXCEPT ![i] = IF rest = {} THEN TargetsOf(found[i]) ELSE rest]
  /\ Close(i, IF rest = {} THEN "source" ELSE "reserve")
  /\ UNCHANGED <<events, page, reserved, capture, upto, found, base, crashes, history>>

(* The session's page: its narrative, and pending until all of it is written.  *)
WriteSource(i) ==
  /\ Opened(i, "source")
  /\ AddFacts(i, {}) /\ capture' = [capture EXCEPT ![SessionOf[i]] = Pending]
  /\ Close(i, "sourceRow")
  /\ UNCHANGED <<events, reserved, row, plan, base, crashes, history>>

WriteSourceRow(i) ==
  /\ Opened(i, "sourceRow") /\ UpsertRow(i, "active")
  /\ Close(i, IF todo[i] = {} THEN "mark" ELSE "page")
  /\ UNCHANGED <<events, page, reserved, capture, plan, base, crashes, history>>

(* The facts a page does not have yet; any placeholder goes.                   *)
WritePage(i) ==
  /\ Opened(i, "page")
  /\ AddFacts(i, {f \in found[i] : About(f) = on[i]})
  /\ reserved' = reserved \ {on[i]}
  /\ Close(i, "row")
  /\ UNCHANGED <<events, row, capture, plan, base, crashes, history>>

WriteRow(i) ==
  LET rest == todo[i] \ {on[i]} IN
  /\ Opened(i, "row") /\ UpsertRow(i, "active")
  /\ todo' = [todo EXCEPT ![i] = rest]
  /\ Close(i, IF rest = {} THEN "mark" ELSE "page")
  /\ UNCHANGED <<events, page, reserved, capture, upto, found, base, crashes, history>>

(* The completion marker, last of all local changes; then the session's lock.  *)
Mark(i) ==
  LET s == SessionOf[i] IN
  /\ Opened(i, "mark") /\ page[s] # Nothing
  /\ capture' = [capture EXCEPT ![s] = upto[i]]
  /\ kept' = [kept EXCEPT ![s] = @ \cup found[i]]
  /\ best' = [best EXCEPT ![s] = IF upto[i] > @ THEN upto[i] ELSE @]
  /\ lock' = [lock EXCEPT ![Wiki] = NoProc, ![s] = NoProc]
  /\ Goto(i, "over") /\ view' = [view EXCEPT ![i] = Nothing]
  /\ UNCHANGED <<on, events, page, reserved, row, plan, base, crashes>>

(* A provider, the budget, an abort, a lock or the file system: the ingest     *)
(* ends, and what it changed stays.                                            *)
IngestFails(i) ==
  /\ pc[i] \notin {"idle", "over", "gone"}
  /\ ReleaseAll(i) /\ Goto(i, "over") /\ view' = [view EXCEPT ![i] = Nothing]
  /\ UNCHANGED <<on, events, wiki, plan, base, crashes, history>>
-----------------------------------------------------------------------------
(* memory_write: the model rewrites the page it read, and reads again if the   *)
(* page is no longer the same.                                                 *)
ReadPage(a) ==
  /\ pc[a] = "idle" /\ Goto(a, "replace")
  /\ base' = [base EXCEPT ![a] = page[PageOf[a]]]
  /\ UNCHANGED <<lock, events, wiki, open, plan, crashes, history>>

AnyVersion(a) == TRUE
SameVersion(a) == view[a].page = base[a]

Replace(a) ==
  LET old == IF base[a] = Nothing THEN {} ELSE base[a] IN
  /\ Opened(a, "replace") /\ SameVersion(a)
  /\ page' = [page EXCEPT ![on[a]] = old \cup {a}] /\ reserved' = reserved \ {on[a]}
  /\ UpsertRow(a, "active") \/ UNCHANGED row      \* a failure here is only a warning
  /\ Close(a, "over")
  /\ UNCHANGED <<events, capture, plan, base, crashes, history>>

Conflict(a) ==
  /\ Opened(a, "replace") /\ ~SameVersion(a)
  /\ Close(a, "idle")
  /\ UNCHANGED <<events, wiki, plan, base, crashes, history>>
-----------------------------------------------------------------------------
Grow(s) ==
  /\ events[s] < MaxLog /\ events' = [events EXCEPT ![s] = @ + 1]
  /\ UNCHANGED <<lock, wiki, pc, open, plan, base, crashes, history>>

Crash(p) ==
  /\ pc[p] \notin {"idle", "over", "gone"} /\ crashes > 0
  /\ crashes' = crashes - 1
  /\ Goto(p, "gone") /\ view' = [view EXCEPT ![p] = Nothing]
  /\ UNCHANGED <<lock, on, events, wiki, plan, base, history>>

Dead == {p \in Writers : pc[p] = "gone"}

ClearLock(r) ==
  /\ RemoveLock(r, Dead)
  /\ UNCHANGED <<events, wiki, pc, open, plan, base, crashes, history>>
-----------------------------------------------------------------------------
Finished == (\A p \in Writers : pc[p] \in {"over", "gone"}) /\ UNCHANGED vars

IngestStep(i) ==
  \/ Enter(i) \/ ReadLog(i) \/ Distil(i)
  \/ CreatePage(i) \/ CreateRow(i) \/ WriteSource(i) \/ WriteSourceRow(i)
  \/ WritePage(i) \/ WriteRow(i) \/ Mark(i)
AgentStep(a) == ReadPage(a) \/ Replace(a) \/ Conflict(a)

Next ==
  \/ \E p \in Writers : Crash(p) \/ \E x \in Pages : Open(p, x)
  \/ \E i \in Ingests : IngestStep(i) \/ IngestFails(i)
  \/ \E a \in Agents : AgentStep(a)
  \/ \E s \in Sessions : Grow(s)
  \/ \E r \in LockRoots : ClearLock(r)
  \/ Finished

Spec == Init /\ [][Next]_vars
-----------------------------------------------------------------------------
(* No writer takes away what another one put on a page: an ingest appends to   *)
(* the page as it is, and a page the model rewrote is refused if it changed    *)
(* after it was read.                                                          *)
FactsKept ==
  [][\A x \in Pages : page[x] # Nothing => page'[x] # Nothing /\ page[x] \subseteq page'[x]]_vars

(* An ingest that is marked complete wrote every fact it found, and each of its*)
(* pages is listed in the index as active, whoever reserved, wrote or listed   *)
(* them meanwhile: a page without a row is never found again.                  *)
CompleteIsWritten ==
  \A s \in Sessions : \A f \in kept[s] :
    /\ page[About(f)] # Nothing /\ f \in page[About(f)]
    /\ row[About(f)] = "active" /\ row[s] = "active"

(* The marker never stands for an older, shorter capture than one completed    *)
(* before: a duplicate that read less of the log is skipped.                   *)
CaptureNeverBack ==
  \A s \in Sessions : capture[s] # Pending => capture[s] = best[s]
=============================================================================
