# A specification of agentrig's core

TLA+ models of the parts of agentrig where order, interruption and failure decide
whether the program is right, TLC configurations that check them on small
instances, and theorems about every model checked by TLAPS. Paths are relative to
the repository; `core/`, `memory/` and `supervisor/` stand for the `src/` directories
of those packages.

    tlc -config MCParallelBatch.cfg MCParallelBatch      # and so on, see "Runs"
    tlapm ParallelBatch_proof.tla

## The system

agentrig runs coding agents. A *session* is a conversation with a model, recorded
as an append-only JSONL log. A *run* of a session is one call of `runAgent`: it
claims or locks the session, rebuilds the conversation if it resumes, and then
loops: take queued steers, ask the model, record the answer, run the tools it
calls, compact, until the answer is final, a budget is spent or somebody aborts.
Around the loop stand the host (terminal, CI, ACP or MCP server), a supervisor
that reads the event stream and steers, hooks, subagents (sessions of their own),
background jobs, and the ledger of money spent, shared by all processes of a
project.

| component | state it keeps | operations | talks to |
|---|---|---|---|
| agent loop (`agent.ts`, `compaction.ts`) | conversation, turn and retry counters, steer queue, staged continuation | turn steps, compaction, catch/finally; `control.*` | all below |
| lifecycle (`session-lifecycle.ts`) | append chain, abort and end signals, orphans, pause gate | `emit`, `raceAbort`, `settleOrphans`, `beginEnding`, `finish`, `abort` | store, tools |
| session store (`session-store.ts`) | log, snapshot, lock file; per process: claims, cached numbers | `create`, `claim`, `acquireLock`, `append`, `read`, `resumeSnapshot` | file system, other processes |
| tool scheduler (`parallel-runtime.ts`, `turn-strategy.ts`) | worker pool, prepare and ask mutexes, admitted calls with their hazards | `prepare`, `admit`, `authorized`, `ask`, `finish` | tool pipeline, file system |
| tool pipeline (`tool-execution.ts`) | the stage of one call | gates, permission, sandbox, body, result | hooks, host, grants, checkpointer |
| spend ledger (`spend-ledger.ts`) | `usage.jsonl`, `usage.lock`; per process: queue, live calls | `admit`, `settle`, `gap`, `end`, `check`; `meterProvider` | every model call, other processes |
| permission grants (`permission-grants.ts`) | grants, audit queue shared with child views | `grant`, `revoke`, `authorize`, `flush` | pipeline, log |
| checkpointer, undo (`checkpoint*.ts`) | lease directory, git refs, seal | `lease`, `guard`, `handler`, `seal`, `undoSession` | pipeline, git |
| supervisor (`packages/supervisor`) | window of events, ladder, cooldowns, pending escalations | `decide`, apply, outcome | stream, `control.*` |
| memory and dreams (`packages/memory`) | wiki pages, raw notes, write lock, review copies | store, ingest, dream, apply, discard | session_end hooks |
| background jobs (`tools/background-jobs.ts`) | registry of processes and unread output | start, read, kill, dispose | bash tool, abort signal |
| subagents (`tools/subagent.ts`, `children.ts`) | a run per child, worktrees | spawn, await, merge | agent loop, scheduler |
| providers, MCP, sandbox, skills, CLI | connections, command lines, text | I/O and formatting | |

What makes each right, and is hard:

* **scheduler** - calls that touch the same thing are ordered as the model issued
  them although classification, dialogs and hooks all await; no deadlock on the
  two mutexes; abort wins at every await. Interleaving.
* **agent loop and lifecycle** - about thirty ways out of a turn, each with its
  own lines and messages; the log must replay to the conversation; steers are
  never lost; what the run owns is always released. Ordering, partial failure.
* **session store** - several processes, stale caches, torn lines.
* **spend ledger** - the cap holds over processes, crashes, lost settlements and
  midnight. Atomicity, crashes.
* **dreams** - a copy that is hours old replaces the wiki by two renames, while
  others write, and each step may fail or be the last of its process.
* **ingest** - a dozen small changes, each under the lock, none under one lock
  together; several writers of one page. Partial failure, stale reads.
* **checkpoints** - whose change is it? A lease, a comparison before and after each
  call, a seal, and a restore that may stop between two files.
* **supervisor** - an observer that lags behind a session which ends while it waits
  for a human or a model.

The list of hazards in `PROJECT.json` names the lines.

## Modules

| module | models | checked by |
|---|---|---|
| `HazardAdmission` | abstract: what a batch promises about admission | target of refinement |
| `ParallelBatch` | `executeParallelBatch` with the pipeline around it | `MCParallelBatch*` |
| `SessionLog` | one session's log under several runs and processes | `MCSessionLog*` |
| `SessionRun` | the runs of one session: loop, lifecycle, replay and resume | `MCSessionRun*` |
| `SpendLedger` | the ledger and `meterProvider` in several processes | `MCSpendLedger` |
| `MemoryLock` | the write lock of a memory directory | part of the next two |
| `DreamWorkspace` | dreams: copy, work, install, hand over, discard | `MCDreamWorkspace` |
| `MemoryIngest` | ingests and `memory_write` on shared pages and the index | `MCMemoryIngest` |
| `CheckpointUndo` | checkpoints of a worktree, their lease and seal, and the undo | `MCCheckpointUndo*` |
| `SupervisorLadder` | the observer of a session and its ladder of interventions | `MCSupervisorLadder` |
| `ParallelBatch_proof`, `SessionLog_proof`, `SpendLedger_proof`, `DreamWorkspace_proof`, `MemoryIngest_proof`, `CheckpointUndo_proof`, `SupervisorLadder_proof`, `SessionRun_proof` | theorems about the module each is named after | TLAPS |

They meet at narrow interfaces. `SessionRun` takes a batch of tools as one step
that answers all calls, is interrupted, or rejects, possibly leaving a body
behind: these are the outcomes `results`, `interrupted` and `failed`, and the
`orphan` bodies, of `ParallelBatch`. It takes the log as a sequence that either
grows by a line or does not: `SessionLog` is where lines are numbered, torn and
written by others. The commands "delete the lock" and "resume" appear in both.
`DreamWorkspace` and `MemoryIngest` extend one model of the lock and meet in
`Write`: a change to a page under the wiki's lock. `CheckpointUndo` takes a run of
`SessionRun` as a sequence of turns and mutating calls with an end, and a settled
or abandoned body of `ParallelBatch` as `Settle` or `GiveUp`. `SupervisorLadder`
ends where a steer is queued: what becomes of it is `SteersConserved` of
`SessionRun`.

A definition that `Next` does not use and that stands right before an operator with
the same parameters is a mutant: that operator with a plausible mistake. Each
property fails on one of them (`PROJECT.json`, "mutants").

### ParallelBatch

One batch of `N` calls on `Limit` workers. `pc[c]` is the await a call's pipeline
is suspended at; the code between two awaits is one action. `prepareQ` and `askQ`
are the promise-chain mutexes, as queues whose head holds the mutex. `active` with
`hazard` is the map of admitted calls; `exclusive` the answer of
`forceExclusive()`. `alias` is the file system as far as classification sees it:
which file each name means. `Classify` reads it and `Admit` uses the answer, two
steps, because the code awaits in between. `Woken` is the promise `changed`.
`body` says whether a tool body runs, was left behind by an abort, was denied by
the sandbox, and so on.

Any classification may also come out as "unknown", as `classify()` gives up on
every doubt. `Refuse` stands for everything between two awaits of the pipeline
that ends a call early: allowlists, the replan gate, invalid input, a pre_tool
hook, a denial; its `throws` for a pipeline that rejects. Paths inside one
another and inodes are abstracted to "names the same file".

A call the sandbox refuses is put to the host once more, or, without a host to ask
and in an unattended run, denied for good (`SandboxDenied`).

Not modelled: an approval dialog for external input that an abort races past,
which stays on the host's screen while the pipeline has moved on; and the diagnostics
call that the pipeline makes inside the call of a write that succeeded
(`tool-execution.ts:559-584`): a checker, run before the outer call settles, under the
outer call's lease, which is one that goes with no other, and with the outer call's
dialogs.

### SessionLog

`StartFresh` is `create()` with `claim()`; `Resume` is `acquireLock()`. An append
is `Stamp` (number), `Write` (one line), `Written` (advance the cache): other
processes may act between them. The file is `log`, the lines that end in a newline,
and `tail`, what is behind the last newline. An append that stops part way
(`WriteFails`, or `Crash` in the middle of it) leaves there a fragment, which does not
parse and has the number `Corrupt`, or a whole line that lacks only its newline
(`CutShort`). `read()` goes line by line and takes such a last line like any
other: it is `Seen`, and `nextSeq()` counts it. The next append merges with whatever
`tail` holds to one line that does not parse. `GiveUp` is a run that cannot number its
lines, because the log does not read.

So the code does not keep a log readable: it is spoilt by a tear of the newline alone,
and by an append of which only a part was written when the process goes on. What it
keeps is `SeqInOrder`, for the lines a reader meets before the first that does not
parse; and `TornIsFinal`: a fragment stays the end of the file as soon as nobody has a
cached number past it, as it is after a crash, since whoever numbers a line reads
the log first.

`Deployments` places the runs in processes; `Overlap = FALSE` keeps a resume from
starting beside a live fresh run. That is an assumption, not something the code
guards: a fresh run holds no lock file. With `Overlap = TRUE` `SeqInOrder` fails.

### SessionRun

`log` holds the lines other parts read, `queue` the lines handed to `emit()` and
not yet appended: the loop waits for its own line (`Awaiting`), observers do not.
`onFail` is where an append that throws takes the loop: into its catch, or past a
`.catch(() => {})`. `messages` is the conversation as a sequence of `user`,
`assistant`, `calls` and `results`; `Balanced` and `Cut` are
`balanceInterruptedExchanges` and the compaction boundary on such sequences.
`Replay` is `messagesFromEvents`, a fold over the lines (`Folded`). As long as no line
carries a whole message (`authoritative`), it makes a message of the text streamed for a
response, which the message of that answer then replaces; afterwards
requests, deltas and responses are passed over. One `model.delta` stands for all those of
an attempt: whether there is text is all the fold looks at. `tool.call` and `tool.result`
are left out: the loop runs a tool only after the message with its call is in the log, and
from then on the fold passes over them; what they add to `balanceInterruptedExchanges` is
the text of a result it would else make up. `ThisRun`, `base` and `loaded` separate the
runs of a session.
`Scenarios` lists which events of the surroundings (steer, pause, abort, failing
append, delegation change, observer's line, veto, crash, resume) are combined.

`log` leaves out lines that the replay and the properties do not read: requests,
usage, errors, and so on, and the deltas, responses and delegation changes that no
later replay sees (`Unread`). `PromptHook` lets the task pass or refuses it; what the
hook may add to the task is left out, as is a resume with an empty task. Features configured off
are listed with the component.

### SpendLedger

`queue[p]` is the chain of operations of one process, `at[p]` how far its head is:
waiting for `usage.lock`, reading, about to append. Reading and deciding are one
step (nobody else can write between them while the lock is held), appending
another. `live` are the calls this ledger object admitted. The log is a set of
lines: no decision depends on their order and none is written twice.
`billed` is the provider's real charge, which no code sees; `usage` is what the
meter settles with: the charge, or unknown after a retry, an abort or an
incomplete stream. `Plans` are the deployments.

Not modelled: `end()` records, `check()` and `report()`, which write no charge;
bytes written by programs that do not take the lock; `unlink` failing; calls
without a price.

### DreamWorkspace

A directory is a record of who made it (the identity the code compares), the
changes its pages contain, and its scheduling stamp; `live` is what stands at the
wiki's path, `Nowhere` if nothing does. `pc[d]` is how far `runDream` is, one action
for each step that another process can see: making the output, copying, the
manifest, the two renames, the restore. Every step has its failure beside it
(`CopyFails`, `WorkFails`, `InstallFails`, `MoveInFails`, `RestoreFails`, `EndFails`),
because an abort, a limit or the file system may cause one anywhere, and `Crash`
leaves everything as it is. Writers of pages take the wiki's lock; `store.init()`
and a person's editor do not. The operator's `inspect` and `discard` act on the
manifest they saw (`asked`, `seen`). `ever`, `written`, `marked` and `installed` are
history.

What a dream does to its copy is a single change, its own name. The order of the
two locks is left open, which allows more than the code's order by path. A
review that somebody installs later by hand is the same call of `applyDream`.

### MemoryIngest

A change under the wiki's lock is two actions: `Open` takes the lock and reads (`view`),
the change writes and gives it back. Between two changes of an ingest anything may
happen. A page is the set of facts on it, plus the names of rewrites; `reserved`
are the pages that still have a placeholder; `row` is the catalog. `capture` is
the marker of a session's page: how many events it covers, or `Pending`. An
ingest that fails or dies leaves what it did; a later one starts over. Replacing a
page keeps the facts the model read (it was told to merge them), so that
`FactsKept` speaks of what changed behind its back.

Not modelled: `log.md`, pins, the annotation of provenance, aliases and merging of
pages.

### CheckpointUndo

`tree` is the worktree, `refs` the checkpoints of a session by turn, `seals` the
turns that have a seal's ref; `created` and `sealed` are the events in the log, one
step after the ref, so that a death or a failed append separates them. `lock` has
two parts, the directory and the name in it: the two steps of taking and of giving
back. `owned`, `uncertain` and `attempt` are the maps of `Checkpointer`. A
comparison is one step and the use of its result the next. `GiveUp` is a call that
goes on after the session stopped waiting for it. An undo keeps the lease, compares
twice, and then moves one file after the other; `half` is the file it has moved aside and
not yet replaced.

Assumptions: HEAD and index are compared with the tree and not told apart from it;
the calls of a run follow each other; a session is resumed after its earlier runs
have stopped; an operator moves only locks of dead owners, and one without a name
only when nothing that could have made it is left (`Recover` is one step: two
operators are not raced); what is written *while* a call or an undo works counts as
anybody's, as the code's precondition asks for other writers to be stopped
(`guard`, checkpointer.ts:404); a turn is sealed at most once. Sparse and
linked worktrees and paths that are not files are refused by the code and left out.

### SupervisorLadder

`log` is the session's events as far as the supervisor counts them, `pos` how many
the observer has folded. `obs` is the await it is suspended at: the next event, a
detector's preparation, a human, a model, the settled session before a restore.
`decided` lists every decision with the turn and file count it was made at, `batch`
those not applied yet. `Sightings` are what the detectors may report on any event,
chosen freely: all of their thresholds and windows are inside that choice. `Ladders`
are the rungs left after the harness's capabilities are taken off.

Cooldowns count the turns the observer has folded when it decides, as in the code:
guidance that is queued and not yet delivered does not stop the clock. Not modelled:
confidence, texts, records of signals and usage, a fold that throws, rungs the
harness cannot perform.

## Runs

| run | bounds | shows |
|---|---|---|
| `parallel_batch` | 3 calls, 2 workers, 2 names, 2 files, four batches; 581 thousand states | `NoConflictingLeases`, `ExclusiveRunsAlone`, `OneDialogAtATime`, `NoBodyAfterAbort`, `NothingAbandoned`; refinement of `HazardAdmission` (`AdmitsInOrder`); `AbortEndsBatch`, `BatchReturns` |
| `parallel_batch_relink` | 3 calls, 3 workers | violated: a stale classification admits two bodies on one file |
| `session_log` | a fresh run, two resumes; one, two or three processes; 6 lines; 1.35 million states | `SeqInOrder`, `TornIsFinal` |
| `session_log_back` | the session leaves a process and comes back | violated: a stale cached number is used again |
| `session_run` | 1 run of 2 turns, or of 1 where appends fail beside an abort, or 2 runs of 1 turn; 1 steer, 1 recovery, 1 continuation; 985 thousand states | `EndIsLast`, `TurnsBracketed`, `SteersConserved`, `ConversationPaired`, `ReplayMatches`, `EndsAfterOrphans`, `ContinuationsAnswered`, `AbortReturns` |
| `session_run_cleanup` | as above | violated: a failing append skips `finish()` |
| `spend_ledger` | 3 calls, 2 processes, cap of 2 reservations, charges below and above one; 324 thousand states | `WithinCap`, `OneSpender`, `LossStopsSpending`, `OperationsReturn` |
| `dream_workspace` | 2 dreams, 1 writer, 1 editor or 1 `init`, 1 or 2 outputs, 1 crash; 3.3 million states | `NothingLost`, `WritesInstalled`, `StampsKept`, `OutputsGuarded` |
| `memory_ingest` | 3 ingests, 2 sessions of 2 events, 2 topics, 1 rewrite, 1 death; 2.6 million states | `CompleteIsWritten`, `CaptureNeverBack`, `FactsKept` |
| `checkpoint_undo` | 3 runs of 2 sessions, 1 undo, 2 paths, 2 turns, 2 writes, 1 edit, 1 death; 1.27 million states | `NothingDestroyed`, `LeaseExcludes`, `SealIsCertain`, `TakesOnlyOwn` |
| `undo_reused_turn` | 2 runs, 1 undo, 1 edit, 1 death | violated: a checkpoint made before an edit is used again after it |
| `supervisor` | 4 events, 3 incidents, 2 ladders, 4 decisions; 715 thousand states | `ClimbsInOrder`, `ExpiredNotAsked`, `SilentOnceClosed`, `OutcomesKnown`, `ObserverReturns` |

`parallel_batch` and `spend_ledger` also check the type invariants, on which the
proofs build. The other modules state theirs for the reader and the proofs
(`SupervisorLadder` in its proof module).

**Why the bounds are enough.** With three calls on two workers a call waits in the
queue, one is being classified and one runs; every wake-up, overtaking and mutex
hand-over needs no more, and the proofs do not depend on the bound. Two turns
let a steer, a continuation or a recovery of one turn act on the next, and the
counters reset; two runs let a resume read what a crash left, text without its message
included. In `session_log` the second resume finds
what the first one left. A cap of two reservations with three
calls makes the third refusal the interesting one; queue and live sets are bounded
at two so that both limits are hit. `KeepLast = 1` makes compaction possible
within the messages of two turns. Counters of the code that only grow are bounded
by these constants alone.

Two dreams make one of them stale, or discard the other's output; a third would
find nothing new, as the properties relate two at a time. In `memory_ingest` the casts
give each hazard its own company: a session that grows under two ingests; two
sessions with a common topic and a rewrite of its page; two ingests of one session
beside one of the other. In `checkpoint_undo` one seal keeps one checkpoint
(the code keeps two), so that with two turns one is pruned. Its casts are a
run that gives up a call beside an edit; runs of two sessions on one worktree; and a
run resumed in a turn that has a checkpoint. In the last one nobody edits: with an
edit it is the run `undo_reused_turn`. In `supervisor` a
cooldown of one turn (the code's default is two) and four decisions reach the end of
both ladders, with a question that expires while another one of its kind waits.

**Deadlock** is checked in every run: a finished instance stutters in an action
of its own (`Returned`, `Settled`, `Finished`, `Quiet`, `Over`).

**Fairness.** `ParallelBatch`: every continuation the event loop has ready runs,
and the host answers a dialog (`Scheduler`); a tool body owes nothing, so
`BatchReturns` speaks of batches whose bodies end. `SessionRun`: the loop, its
ending and the append chain make progress, because the provider and the
tools settle or are raced past by an abort, hooks have a time limit and the grace
timer fires; the host owes nothing, so `AbortReturns` excludes only a host that
keeps the gate shut. `SpendLedger`: the head of a process's queue goes on, which
its two-second deadline ensures; no stream need end and nobody need remove a lock.
`SupervisorLadder`: the observer is scheduled, its timers fire and a detector's
preparation ends; a human or a model need never answer, and the session may run for
ever, but settles once it is aborted or ending. The other modules have safety
properties only.

## Where the code and its words differ

1. `core/parallel-runtime.ts:99` - a call classified while a shell command runs
   is compared with the leases after it; the comment at line 98 promises a new
   classification after every earlier completion.
2. `core/session-store.ts:618` - the cached next number survives another
   process's run of the session, against "in `seq` order with no gaps" (line 71).
3. `core/agent.ts:1270` - `flushDelegations()` in the finally block is the one
   append there without a handler; if it fails, `finish()` does not run.
4. `core/checkpointer.ts:304` - a ref that exists for the turn is recorded again as
   the checkpoint, whatever was edited since an attempt published it. After the
   call was denied, or the run died and was resumed in that turn, the run seals and
   an undo takes the edit back; line 332 says the reuse is safe, and
   `docs/plans/R4b.md:30` that checkpoints of earlier runs are not eligible because they
   may predate external edits.

Seen while modelling, and not told by a run of their own: a last line that lost only its
newline is read, counted and then merged with the next append
(`core/session-store.ts:268` and `:252`), and so is one of which an append wrote a part
before it threw (both are in `session_log`, where `SeqInOrder` stops at the merged line);
the text of an answer that a crash or a fatal failure of the stream cut off before the first
`message.append` has no `turn.aborted` to drop it, so that the replay hands it on to
the next response (`core/session-store.ts:708-729`: the comment at 711 wants no
text of an attempt replayed in a later one): it goes when that response's message is
appended, and stays when there is none (`ReplayMatches` leaves out the runs after
such a cut);
an approval handler that throws
(`core/tool-execution.ts:397`) rejects the pipeline and the turn gets no `turn.end`,
which `core/tools/subagent.ts:628` says every turn has; and with no `message.append` in
the log the snapshot wins over steers and tasks recorded later
(`core/session-store.ts:454`, against `core/agent.ts:504`).

## What is proved

`ParallelBatch_proof` proves, for every number of calls and workers and every set
of names, files and batches that satisfies `BatchAssumption`:

* `TypeCorrect`, `LeasesNeverConflict`, `ExclusiveIsAlone`, `DialogsNeverOverlap`,
  `ReturnAbandonsNothing`: the five invariants of `parallel_batch`;
* `NoBodyStartsAfterAbort`: the action property;
* `AdmissionIsInOrder`: every step is a step of `HazardAdmission` or a stutter.

The argument is one inductive invariant, `IInv`. `ExclusiveRunsAlone` and
`OneDialogAtATime` are not inductive, and no invariant of the map speaks of the
order of admission; what carries the
induction is *who holds the mutex*:

* `QueueInv`: `prepareQ` is duplicate-free and increasing, holds exactly started
  calls, every call before its admission is in it, and all but the head are still
  queued;
* `ExclusiveHolds`: an admitted exclusive call is still at the head of `prepareQ`,
  and nothing else was admitted since the map was empty;
* `ActiveAdmitted`: the map holds exactly the calls past admission;
* `DialogHolds`: a call with a dialog open is the head of `askQ`;
* `BodyPlaces`: which bodies can exist at which place;
* `ReturnedIdle`: after the return nothing is under way.

From `QueueInv` the head of the mutex is the lowest call not yet admitted or over,
which is the order of `HazardAdmission`. Each action preserves each conjunct in a
step of its own; the temporal theorems then follow by PTL. The lemmas are about
the mutex queues (release, head, append) and about `Finish`, the end of a call in
ten of the actions, which takes one call out and lets the next one in.

`SpendLedger_proof` proves, for every set of calls and processes (of any size) and
every cap, reservation, price and deployment that satisfies `SpendAssumption`:

* `LedgerTypeCorrect`: types, and the limits on queues and live calls;
* `LedgerOneSpender`: capped calls of two processes are never outstanding together;
* `LedgerLossStops`: no capped call passes the gate once a recorded call was lost;
* `LedgerWithinCap`: the charges of a day sum to the cap at most.

`OneSpender` says nothing of the file, though the file is what the decision reads,
and the decision is taken a step before the append. Its inductive invariant adds:

* `QueueInv`: a queue holds calls of its own process, each once, and whoever got
  past waiting is the head of its queue and has the lock;
* `OutstandingAdmitted`: an outstanding call has its admission in the log, so that
  the reader of the log sees it;
* `SettlementsTrue`, `UsageTrue`: a settled call is over, and a price in the log is
  what was charged;
* `LiveOwned`: the live set of an object holds outstanding calls of its process;
* `DecisionStands`: between the read and the append, what was decided stays true.

Another process's outstanding call is then in the log, without a settlement, and in
no live set of the reader: the gate is shut. Only the read and the append of an
admission can break `DecisionStands` or make a call outstanding; all other steps
are shown `Quiet` (nobody becomes outstanding, a new settlement is true, no
decision is under way that was not before), and one lemma shows that a quiet step
keeps the invariant.

`WithinCap` compares two sums: what the provider charged, and what `gate()` counts in the
log. Neither speaks of a single step, and the fold that sums has no theorem that
the provers could use. Both are therefore told in *units* (`Units(f, S)` has `f[x]`
elements for each `x` of `S`), whose number is a cardinality; that the fold
computes it is proved by the size of the least set for which it would not (`SumUnique`,
`SumExists`). A map from calls to their admission lines, into amounts at least as high, then
shows the one sum below the other (`UnitsBound`, `ChargedCounted`): a settlement counts
what was charged and anything else the whole reservation. `CapInv` has, beside the sum
itself, that a charged call is in the log (`ChargedAdmitted`) and that what the gate found
to be free is still so at the append (`GateStands`): a line added meanwhile only lowers
what a day counts, unless it is an admission, and those wait for the lock.

`SessionLog_proof` proves `LogTornIsFinal` (`TornIsFinal`) for any runs, processes
and lengths and without a hypothesis, runs that overlap included: who is inside an
append has a cached number (`Numbered`), and before the first run there is no fragment
(`NothingYet`). `LogInOrder` (`SeqInOrder`) has two hypotheses.
`Overlap = FALSE` is the assumption of the module. `NeverBack` says that no deployment
brings a session back to a process after another one resumed it; the run
`session_log_back` shows what happens otherwise, so that the theorem delimits the
finding. In `IInv` at most one run is under way (`FreshFirst`, `LockHeld`), and the
cached number of every process *that still has a run to come* is that of the next
line (`CacheTrue`), while every line so far parses and ends in a newline: of the other
processes it is stale, which is why `NeverBack` is needed and where the induction uses
it. `TailOrder` says the same of a last line that lacks its newline, which carries the
number its append was stamped with.

`MemoryIngest_proof` proves all three properties of `memory_ingest`
(`IngestWritten`, `IngestCapture`, `IngestKeepsFacts`), with any number of ingests,
agents, sessions, topics and deaths. What carries it: whoever has read for a change
has the wiki's lock and what it read is still there (`ViewInv`); an ingest at work has its
session's lock, so that no other one of the session completes meanwhile (`HeldInv`);
and from the session's page on, what it found about a topic it has done with is on the
page and in the index (`ProgressInv`). Most of the induction is one lemma: a change
by one writer only adds (`Grows`), which the progress of the others survives.

`CheckpointUndo_proof` proves `UndoExcludes` (`LeaseExcludes`), `UndoSeals`
(`SealIsCertain`) and `UndoDestroysNothing` (`NothingDestroyed`), for any sessions, runs,
undos, paths and recovered locks. `LeaseInv` ties what a process believes to what
the lock directory says, in each of the two steps of taking and giving back;
`StrayInv` follows a run that gave up a call; `RunInv` and `AimInv` say who has the
session's log; `AsideInv` which paths an undo may have moved aside.

The fourth theorem, `UndoTakesOnlyOwn`, proves `TakesOnlyOwn` of every behaviour in which
no run takes an existing checkpoint of its turn once more (`NeverTwice`). The run
`undo_reused_turn` shows what such a reuse does, so that the theorem says that there is no
other way. `OwnInv` follows, for each checkpoint of a run, what the run takes for its own
through a call (the tree), the capture after it, the tree it owns and the one it seals: it
differs from the checkpoint only by what calls wrote since. `InstallInv` does the same for
the paths an undo has left. Both rest on one lemma (`Meanwhile`): what
appears while somebody works on the files is recorded as anybody's, since the only step
that could bring something else, an undo's, is excluded by the lease.

`DreamWorkspace_proof` proves all four properties of `dream_workspace`
(`DreamLosesNothing`, `DreamKeepsWrites`, `DreamKeepsStamps`, `DreamGuardsOutputs`), for
any dreams, outputs, writers, editors, `init`s and crashes. `StageInv` says what each
step of the swap leaves at which path and who has both locks; `OutInv` that an output
and its manifest belong to the dream that made them, and that the copy contains what the
manifest's fingerprint stands for. `InstallInv` has every locked write in the wiki or in
what is about to take its place. It fails while a process that died mid-swap has left
the wiki's path empty, and a swap once stranded stays so: hence `~Stranded => InstallInv`.

`SupervisorLadder_proof` proves four of the five properties of `supervisor`, for any
incidents, ladders and limits and whatever the detectors report:

* `LadderClimbs` (`ClimbsInOrder`), if no rung stands twice on a ladder
  (`DistinctRungs`): so it is in the default one and in every part of it, but a
  configuration can list a rung twice, and then the rung does not tell the place;
* `LadderAsksOnce` (`ExpiredNotAsked`), if `Cooldown > 0`: with none, two incidents of one
  kind may be decided on in one event, both questions wait in the batch, and the second
  one is put after the first expires;
* `LadderSilent` (`SilentOnceClosed`) and `LadderOutcomes` (`OutcomesKnown`).

One event may bring any number of signals, and the policy is a fold over them. That
it keeps `PolicyInv` (the maps remember each kind's last decision, and each decision
has its predecessor on the rung below) and what it adds (`Adds`) is proved by
induction over their number: the set of the numbers for which it fails would have
a least one (`Least`, from `WFMin`), which needs no theorem with an operator as its parameter
(`UpTo`). `BatchInv` has the batch as the tail of the decisions, one of a
kind, none of a question that had expired when it was decided; an expiry adds the
head's incident, and with a cooldown no other of the batch is of its kind.

`SessionRun_proof` proves all seven invariants of `session_run`, for any steers, turns,
retries, continuations, compactions and runs, any length of the conversation, and every
combination of the events around the loop. `Next` has some forty actions, so that the
proofs go in two steps. First, every step of the loop is shown to be in one of two
tables: `Goes`, the places it goes to without a line, and `Emits`, those where it waits
for one, with the line's kind, the place after it and the place should the append fail
(`TurnMoves`, `EndingMoves`); `Says` is what a line tells of the step (its turn, its
steer, the messages it adds). All other steps are an append, a failed one, an observer's
line, a death, or leave the log, the chain and the place alone. Then each invariant is
carried through the tables:

* `RunChained`: the loop waits for one line at most, of a kind its place calls for
  (`Chained`). Everything below rests on it;
* `RunEndIsLast`: `Ends` follows the end line through the chain: it is the last of it,
  and whatever is handed over later is dropped;
* `RunEndsAfterOrphans`: `Left` has the word about orphans on its way, not only in the log;
* `RunTurnsBracketed`: inside a turn its start is in the log with no other mark behind it,
  or on its way (`Turned`); a start whose append failed leaves by a path without an end;
* `RunSteersConserved`: `Conserved` adds where steers in hand may be. What lines tell is a
  recursive function; that it commutes with an append, and with dropping a line nobody
  reads, is proved once, by the least number for which it fails (`ToldAppend`, `ToldWithout`);
* `RunReplayMatches`: the same for the replay (`Replayed`), which says where a task or a
  steer is in the log and not yet in memory, and where the text of an answer is in the log
  before its message (`Early`) or waits there for the response. Until a line carries a
  message no answer ends the conversation in memory: the next answer's message would
  replace it in the replay;
* `RunConversationPaired`: in memory calls wait only where the loop is about to answer
  them (`InMemory`); on disk they may wait wherever a run was cut short, but a line with
  results is handed over only when they do (`OnDisk`), and as long as a message may
  replace the one before it there are no calls to lose (`Simple`). What the next run
  makes of that is `BalancedPaired`: the balancing mends every log in which results follow
  their calls; and `CompactedPaired`: the cut of a compaction separates no pair;
* `RunContinuationsAnswered`: continuations written or on their way are the answers to
  them and the one that is staged (`Continued`), and a continuation is staged only where
  none is (`Unstaged`).

All of these invariants but the last were first checked by TLC on the instances of the
runs.

Only model-checked: the liveness properties (`AbortEndsBatch`, `BatchReturns`,
`AbortReturns`, `OperationsReturn`, `ObserverReturns`), which are beyond the prover. Every
safety property of a passing run is a theorem: five of them under one of the hypotheses
that the text above gives (`NeverBack`, `DistinctRungs`, a cooldown, `NeverTwice`), each with
what goes wrong without it.

## Not modelled

Wire formats, prompts, rendering, path and pattern matching, sandbox command
lines, authentication, search and ranking: input and output or functions of data
without a state to go wrong. This is most of the repository by lines: the terminal
interface, the providers, the detectors, page formats, reports and command-line
plumbing. Of the parts with state:

* permission grants, the slots of `provider-concurrency.ts` and the registry of
  background jobs are small and are left to the plan below;
* a subagent is a session, whose runs are `SessionRun`; the tree of them and the merge
  of their worktrees is not modelled;
* the raw notes and the automatic trigger of ingests and dreams decide *when* the
  modelled calls are made, which the models leave open.

## Plan

In order of what can go wrong:

1. done - the scheduler, its refinement and proof; the session log; the runs of a
   session; the spend ledger and its proof; dreams; ingests; checkpoints and undo;
   the supervisor.
2. Proofs: every safety property is proved; left is the refinement of an abstract
   session by `SessionRun`.
3. `PermissionGrants`: parent and child views, the audit queue, flush beside
   concurrent calls; property: no dispatch on an unrecorded grant. Composes with
   the pipeline of `ParallelBatch`.
4. `BackgroundJobs` and `ProviderSlots`: what outlives whom.
