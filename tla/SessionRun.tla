----------------------------- MODULE SessionRun -----------------------------
(* The runs of one session, one after another: the agent loop of              *)
(* packages/core/src/agent.ts, the lifecycle it runs under                     *)
(* (session-lifecycle.ts), and what a resumed run rebuilds from the log        *)
(* (session-store.ts).                                                         *)
(*                                                                             *)
(* The loop, the tools it runs and the host all write through one promise      *)
(* chain: `queue` holds the lines handed to emit() and not yet appended, and   *)
(* the loop goes on when its own line is in the log. Only lines that a later   *)
(* run or a property reads are kept; informational ones are left out.          *)
(* Conversations are sequences of "user", "assistant", "calls" (an assistant   *)
(* message with tool calls) and "results". The output contract, attachments,   *)
(* grants, spend and checkpointers are configured off, and so is a user_prompt *)
(* hook that adds to the task.                                                 *)
EXTENDS Integers, FiniteSets, Sequences, SequencesExt

CONSTANTS Steers,         \* steers the host, a supervisor or a hook may send
          None,           \* no steer, no turn, no snapshot
          MaxTurns,       \* the budget's maxTurns, in each scenario
          MaxRuns,        \* bound on the runs of the session
          MaxRecoveries,  \* streamRecoveries a run may use (3 in the code)
          MaxContinued,   \* consecutive continuations (2 in the code)
          KeepLast,       \* messages a compaction keeps (keepLastMessages)
          Scenarios       \* the sets of events to consider together

(* What may happen around the loop: calls of the host, lines of a tool or an   *)
(* observer, a pre_model hook that refuses, an append that fails, the death of *)
(* the process, another run.                                                   *)
Events == {"steer", "pause", "abort", "delegate", "note", "veto", "fail", "crash", "again"}

ASSUME RunAssumption ==
  /\ None \notin Steers /\ MaxTurns \in [Scenarios -> Nat] /\ MaxRuns \in Nat \ {0}
  /\ MaxRecoveries \in Nat /\ MaxContinued \in Nat /\ KeepLast \in Nat
  /\ Scenarios \subseteq SUBSET Events

VARIABLES
  log, queue,   \* lines appended; lines handed to emit() and not yet appended
  may, run,     \* the events of this behaviour; which run of the session this is
  pc, onFail,   \* where the loop is; where it goes if its line's append fails
  messages,     \* the conversation in memory
  loaded, base, \* the conversation this run began with, and the log's length then
  snapshot,     \* the resume cache on disk, or None
  turns, before, answer, recovered, recoveries, continued, staged, \* the loop's counters
  paused, held, \* the pause gate; the loop waits at it
  aborted, ending, endAborted, ended,  \* the lifecycle's signals and flags
  owned,        \* the lock or claim is this run's and its stream is open
  sent, pendingSteers, delivering,     \* steers sent, queued, spliced off the queue
  orphan, undrained    \* work left behind by an abort; delegation changes not logged

conversation == <<messages, loaded, base, snapshot>>
turn == <<turns, before, answer, recovered, recoveries, continued, staged>>
gate == <<paused, held>>
signals == <<aborted, ending, endAborted, ended, owned>>
steers == <<sent, pendingSteers, delivering>>
others == <<orphan, undrained>>
world == <<may, run>>
vars == <<log, queue, pc, onFail, conversation, turn, gate, signals, steers, others, world>>

(* An error stop and a refusal both end the turn: "failed".                    *)
Stops == {"end_turn", "max_tokens", "failed"}
Blocks == {"user", "assistant", "calls", "results"}
Kinds == {"session.start", "session.resume", "steer", "turn.start", "turn.aborted",
          "turn.continued", "model.delta", "model.response", "message.append", "context.compact", "turn.end",
          "context.delegation", "unattempted", "orphaned", "session.finishing",
          "undelivered", "note", "session.end"}
Places == {"begin", "started", "gate", "steer", "steered", "asking", "vetted", "requested",
           "streaming", "responded", "heard", "decide", "truncated", "continue", "tools", "answered",
           "compacting", "compactFailed", "closing", "saving", "caught", "turnFailed",
           "ending", "flushed", "orphans", "settled", "hooks", "undelivered",
           "release", "closed", "escaped", "dead"}
Returned == {"closed", "escaped", "dead"}

(* A line: its turn, the messages it puts in the conversation, its steer.      *)
Line == [kind : Kinds, turn : Nat, blocks : Seq(Blocks), steer : Steers \cup {None}]
Plain(kind) == [kind |-> kind, turn |-> 0, blocks |-> <<>>, steer |-> None]
OfTurn(kind, n) == [Plain(kind) EXCEPT !.turn = n]
Carrying(kind, blocks) == [Plain(kind) EXCEPT !.blocks = blocks]
OfSteer(kind, s) == [Plain(kind) EXCEPT !.steer = s]

(* An answer: whether text was streamed, why it stopped, the message it makes. *)
NoAnswer == [text |-> FALSE, stop |-> "end_turn", content |-> "none"]

TypeOK ==
  /\ log \in Seq(Line)
  /\ queue \in Seq([line : Line, by : {"loop", "other"}])
  /\ pc \in Places /\ onFail \in Places /\ may \in Scenarios /\ run \in 1..MaxRuns
  /\ messages \in Seq(Blocks) /\ loaded \in Seq(Blocks) /\ base \in Nat
  /\ snapshot = None \/ snapshot \in Seq(Blocks)
  /\ turns \in Nat /\ before \in Nat
  /\ answer \in [text : BOOLEAN, stop : Stops, content : {"none", "assistant", "calls"}]
  /\ recovered \in BOOLEAN /\ recoveries \in 0..MaxRecoveries
  /\ continued \in 0..MaxContinued /\ staged \in BOOLEAN
  /\ \A flag \in {paused, held, aborted, ending, endAborted, ended, owned, orphan, undrained} :
       flag \in BOOLEAN
  /\ sent \in Seq(Steers) /\ pendingSteers \in Seq(Steers) /\ delivering \in Seq(Steers)
-----------------------------------------------------------------------------
(* Conversations.                                                              *)

(* resumableMessages(): synthesize the results of calls left unanswered at the *)
(* end.                                                                        *)
Resumable(m) == IF m # <<>> /\ Last(m) = "calls" THEN Append(m, "results") ELSE m

(* balanceInterruptedExchanges(): the same after every message.                *)
Balanced(m) ==
  LET kept[i \in 0..Len(m)] ==
        IF i = 0 THEN <<>>
        ELSE Append(IF m[i] = "results" THEN kept[i - 1] ELSE Resumable(kept[i - 1]), m[i])
  IN  Resumable(kept[Len(m)])

(* summarizeOlderTurns().compact: the first message, a summary, and the last   *)
(* ones; the cut is pulled back so that the tail does not start with results.  *)
Cut(m) ==
  LET cut == Len(m) + 1 - KeepLast
  IN  IF cut \in DOMAIN m /\ m[cut] = "results" THEN cut - 1 ELSE cut

Compacted(m, cut) == <<m[1], "user">> \o SubSeq(m, cut, Len(m))

(* messagesFromEvents(): a line folded into what was replayed so far. While no *)
(* line carries a whole message, a response makes one of the text streamed for *)
(* it, which gives way to the message of the answer.                           *)
Blank == [messages |-> <<>>, streamed |-> FALSE, authoritative |-> FALSE]

OfAssistant(m) == m # <<>> /\ Last(m) \in {"assistant", "calls"}

Folded(so, line) ==
  CASE line.kind = "context.compact" ->
         [messages |-> line.blocks, streamed |-> FALSE, authoritative |-> TRUE]
    [] line.kind = "message.append" ->
         [messages |-> (IF ~so.authoritative /\ OfAssistant(so.messages) /\ OfAssistant(line.blocks)
                        THEN Front(so.messages) ELSE so.messages) \o line.blocks,
          streamed |-> FALSE, authoritative |-> TRUE]
    [] line.kind = "model.delta" -> [so EXCEPT !.streamed = ~so.authoritative]
    [] line.kind = "model.response" ->
         [so EXCEPT !.messages = IF so.streamed THEN Append(@, "assistant") ELSE @,
                    !.streamed = FALSE]
    [] line.kind = "turn.aborted" -> [so EXCEPT !.streamed = FALSE]
    [] OTHER -> [so EXCEPT !.messages = @ \o line.blocks]

Replay(so, lines) ==
  LET after[i \in 0..Len(lines)] == IF i = 0 THEN so ELSE Folded(after[i - 1], lines[i])
  IN  after[Len(lines)]

PassedOver(line) == LET so == Replay(Blank, log) IN Folded(so, line) = so

Appended(lines) == \E i \in DOMAIN lines : lines[i].kind = "message.append"

(* resumeSnapshot(): the log decides, unless it holds no message.append and    *)
(* there is a cached snapshot.                                                 *)
ResumeSnapshot ==
  IF snapshot # None /\ ~Appended(log) THEN Balanced(snapshot)
  ELSE Balanced(Replay(Blank, log).messages)

(* materializeSnapshot() counts the turns that ended.                          *)
TurnsRecorded ==
  LET ends == {log[i].turn : i \in {j \in DOMAIN log : log[j].kind = "turn.end"}}
  IN  IF ends = {} THEN 0 ELSE CHOOSE n \in ends : \A k \in ends : k <= n
-----------------------------------------------------------------------------
(* emit(): the line joins the chain; the loop waits for it and then is at      *)
(* `next`, or at `fail` when the append throws.                                *)
Emit(line, next, fail) ==
  /\ queue' = Append(queue, [line |-> line, by |-> "loop"])
  /\ pc' = next /\ onFail' = fail /\ UNCHANGED log

Awaiting == \E i \in DOMAIN queue : queue[i].by = "loop"
At(place) == pc = place /\ ~Awaiting
Go(place) == pc' = place /\ UNCHANGED <<log, queue, onFail>>

Push(block) == messages' = Append(messages, block) /\ UNCHANGED <<loaded, base, snapshot>>

EndTurn == Emit(OfTurn("turn.end", turns), "ending", "caught")

(* Nothing reads a delegation change, a part of an answer that the replay of   *)
(* the log passes over, or an observer's line unless it lands behind the end.  *)
Unread(line) ==
  \/ line.kind = "context.delegation"
  \/ line.kind \in {"model.delta", "model.response"} /\ PassedOver(line)
  \/ line.kind = "note" /\ (log = <<>> \/ Last(log).kind # "session.end")

Write ==
  /\ queue # <<>>
  /\ log' = IF Unread(Head(queue).line) THEN log ELSE Append(log, Head(queue).line)
  /\ queue' = Tail(queue)
  /\ UNCHANGED <<pc, onFail, conversation, turn, gate, signals, steers, others, world>>

WriteFails ==
  /\ "fail" \in may /\ queue # <<>>
  /\ queue' = Tail(queue)
  /\ pc' = IF Head(queue).by = "loop" THEN onFail ELSE pc
  /\ UNCHANGED <<log, onFail, conversation, turn, gate, signals, steers, others, world>>
-----------------------------------------------------------------------------
(* The loop.                                                                   *)

(* A fresh run starts the session; a later one rebuilds the conversation. With *)
(* nothing to resume it throws.                                                *)
Begin ==
  /\ At("begin")
  /\ IF run = 1
     THEN Emit(Carrying("session.start", <<"user">>), "started", "caught")
          /\ UNCHANGED <<conversation, turn>>
     ELSE IF log = <<>> \/ (log[1].kind # "session.start" /\ (snapshot = None \/ Appended(log)))
     THEN Go("caught") /\ UNCHANGED <<conversation, turn>>
     ELSE /\ Emit(Carrying("session.resume", <<"user">>), "started", "caught")
          /\ loaded' = ResumeSnapshot /\ UNCHANGED <<messages, base, snapshot>>
          /\ turns' = TurnsRecorded /\ before' = turns'
          /\ UNCHANGED <<answer, recovered, recoveries, continued, staged>>
  /\ UNCHANGED <<gate, signals, steers, others, world>>

(* The user_prompt hook lets the task pass, or refuses it.                     *)
PromptHook ==
  \/ Go("gate") /\ held' = paused
  \/ "veto" \in may /\ Go("ending") /\ UNCHANGED held

(* The task is added once its line is in the log.                              *)
Started ==
  /\ At("started")
  /\ PromptHook
  /\ messages' = Append(loaded, "user") /\ UNCHANGED <<loaded, base, snapshot>>
  /\ UNCHANGED <<turn, paused, signals, steers, others, world>>

(* Mutant: the steers are taken before the checks.                             *)
PassGateTakingFirst ==
  /\ At("gate") /\ ~held
  /\ Go(IF aborted \/ turns >= MaxTurns[may] THEN "ending" ELSE "steer")
  /\ delivering' = pendingSteers /\ pendingSteers' = <<>>
  /\ UNCHANGED <<conversation, turn, gate, signals, sent, others, world>>

(* Past the gate: abort, then the budget, then the queued steers are taken.    *)
PassGate ==
  /\ At("gate") /\ ~held
  /\ IF aborted \/ turns >= MaxTurns[may]
     THEN Go("ending") /\ UNCHANGED steers
     ELSE /\ Go("steer") /\ delivering' = pendingSteers /\ pendingSteers' = <<>>
          /\ UNCHANGED sent
  /\ UNCHANGED <<conversation, turn, gate, signals, others, world>>

DeliverSteer ==
  /\ At("steer") /\ delivering # <<>>
  /\ Emit([OfSteer("steer", Head(delivering)) EXCEPT !.blocks = <<"user">>], "steered", "caught")
  /\ UNCHANGED <<conversation, turn, gate, signals, steers, others, world>>

Steered ==
  /\ At("steered")
  /\ Go("steer") /\ Push("user") /\ delivering' = Tail(delivering)
  /\ UNCHANGED <<turn, gate, signals, sent, pendingSteers, others, world>>

StartTurn ==
  /\ At("steer") /\ delivering = <<>>
  /\ turns' = turns + 1 /\ recovered' = FALSE
  /\ Emit(OfTurn("turn.start", turns'), "asking", "caught")
  /\ UNCHANGED <<conversation, before, answer, recoveries, continued, staged, gate, signals, steers, others, world>>

(* The hooks of a point have run: flushDelegations() logs what the host        *)
(* changed until now.                                                          *)
HooksRun(point, next) ==
  /\ At(point)
  /\ undrained' = FALSE
  /\ IF undrained THEN Emit(Plain("context.delegation"), next, "caught") ELSE Go(next)
  /\ UNCHANGED <<conversation, turn, gate, signals, steers, orphan, world>>

(* A pre_model hook refuses the request: the loop is left at once.             *)
RequestRefused ==
  /\ "veto" \in may /\ At("vetted")
  /\ Go("ending")
  /\ UNCHANGED <<conversation, turn, gate, signals, steers, others, world>>

(* The last check before the request; tokens, dollars or minutes may be used   *)
(* up as well as turns.                                                        *)
BeforeRequest ==
  /\ At("vetted")
  /\ \/ EndTurn
     \/ ~aborted /\ Go("requested")
  /\ UNCHANGED <<conversation, turn, gate, signals, steers, others, world>>

(* throwIfAborted(), then the attempt, which begins without text; a staged     *)
(* continuation is one only now.                                               *)
Attempt ==
  /\ At("requested")
  /\ answer' = NoAnswer
  /\ IF aborted THEN EndTurn /\ UNCHANGED staged
     ELSE IF staged
     THEN Emit(OfTurn("turn.continued", turns), "streaming", "turnFailed") /\ staged' = FALSE
     ELSE Go("streaming") /\ UNCHANGED staged
  /\ UNCHANGED <<conversation, turns, before, recovered, recoveries, continued,
                 gate, signals, steers, others, world>>

(* Text of the answer arrives: one line stands for the deltas of an attempt. A *)
(* failed append throws inside the stream.                                     *)
StreamText ==
  /\ At("streaming") /\ ~answer.text
  /\ answer' = [answer EXCEPT !.text = TRUE]
  /\ Emit(Plain("model.delta"), "streaming", "turnFailed")
  /\ UNCHANGED <<conversation, turns, before, recovered, recoveries, continued, staged,
                 gate, signals, steers, others, world>>

(* Mutant: an attempt that is retried ends the turn.                           *)
StreamThrowsEndingTurn ==
  /\ At("streaming") /\ ~recovered /\ recoveries < MaxRecoveries
  /\ Emit(OfTurn("turn.end", turns), "requested", "caught")
  /\ recovered' = TRUE /\ recoveries' = recoveries + 1
  /\ UNCHANGED <<conversation, turns, before, answer, continued, staged, gate, signals,
                 steers, others, world>>

(* The stream throws: after an abort; with nothing committed to recover from;  *)
(* after a partial answer, which is retried once a turn unless the budget is   *)
(* used up.                                                                    *)
StreamThrows ==
  /\ At("streaming")
  /\ \/ aborted /\ EndTurn /\ UNCHANGED <<recovered, recoveries>>
     \/ ~aborted /\ Go("turnFailed") /\ UNCHANGED <<recovered, recoveries>>
     \/ /\ ~aborted /\ ~recovered /\ recoveries < MaxRecoveries
        /\ \/ EndTurn /\ UNCHANGED <<recovered, recoveries>>
           \/ /\ Emit(OfTurn("turn.aborted", turns), "requested", "caught")
              /\ recovered' = TRUE /\ recoveries' = recoveries + 1
  /\ UNCHANGED <<conversation, turns, before, answer, continued, staged, gate, signals,
                 steers, others, world>>

(* The answer is complete; an abort does not cut short a cooperative stream.   *)
(* Its text, if any, is part of its message.                                   *)
Respond ==
  /\ At("streaming")
  /\ \E stop \in Stops, content \in {"none", "assistant", "calls"} :
       /\ answer' = [answer EXCEPT !.stop = stop, !.content = content]
       /\ answer.text => content # "none"
  /\ Emit(Plain("model.response"), "responded", "caught")
  /\ UNCHANGED <<conversation, turns, before, recovered, recoveries, continued, staged,
                 gate, signals, steers, others, world>>

(* The post_model hook has run, perhaps queueing a steer of its own.           *)
AppendAnswer(injected) ==
  /\ At("heard")
  /\ sent' = sent \o injected /\ pendingSteers' = pendingSteers \o injected
  /\ IF answer.content = "none" THEN Go("decide") /\ UNCHANGED conversation
     ELSE Emit(Carrying("message.append", <<answer.content>>), "decide", "caught") /\ Push(answer.content)
  /\ UNCHANGED <<turn, gate, signals, delivering, others, world>>
-----------------------------------------------------------------------------
(* What the answer leads to.                                                   *)
TurnOver ==
  \/ aborted
  \/ answer.stop = "failed"
  \/ answer.stop = "end_turn" /\ answer.content # "calls"

Decide ==
  /\ At("decide")
  /\ IF TurnOver THEN EndTurn
     ELSE Go(IF answer.stop = "max_tokens" THEN "truncated" ELSE "tools")
  /\ continued' = IF TurnOver \/ answer.stop = "max_tokens" THEN continued ELSE 0
  /\ answer' = IF answer.stop = "max_tokens" THEN [answer EXCEPT !.text = FALSE] ELSE NoAnswer
  /\ UNCHANGED <<conversation, turns, before, recovered, recoveries, staged,
                 gate, signals, steers, others, world>>

(* A truncated answer's calls are answered as not executed ...                 *)
Truncated ==
  /\ At("truncated")
  /\ IF answer.content = "calls"
     THEN Emit(Carrying("message.append", <<"results">>), "continue", "caught") /\ Push("results")
     ELSE Go("continue") /\ UNCHANGED conversation
  /\ UNCHANGED <<turn, gate, signals, steers, others, world>>

(* ... and the model is asked to go on, a bounded number of times in a row.    *)
StageContinuation ==
  /\ At("continue")
  /\ IF continued >= MaxContinued THEN EndTurn /\ UNCHANGED <<conversation, continued, staged>>
     ELSE /\ continued' = continued + 1 /\ staged' = TRUE
          /\ Emit(Carrying("message.append", <<"user">>), "compacting", "caught") /\ Push("user")
  /\ UNCHANGED <<turns, before, answer, recovered, recoveries, gate, signals, steers, others, world>>

(* The turn strategy answers every call. An abort may have raced past a body   *)
(* that goes on.                                                               *)
ToolsReturn ==
  /\ At("tools")
  /\ Emit(Carrying("message.append", <<"results">>), "answered", "caught") /\ Push("results")
  /\ orphan' \in {orphan} \cup {aborted}
  /\ UNCHANGED <<turn, gate, signals, steers, undrained, world>>

(* A required question was refused: the run ends. Otherwise it goes on.        *)
ToolsAnswered ==
  /\ At("answered")
  /\ EndTurn \/ Go("compacting")
  /\ UNCHANGED <<conversation, turn, gate, signals, steers, others, world>>

(* interrupted: the batch's results are not appended.                          *)
ToolsInterrupted ==
  /\ At("tools") /\ aborted
  /\ EndTurn /\ orphan' \in {orphan, TRUE}
  /\ UNCHANGED <<conversation, turn, gate, signals, steers, undrained, world>>

(* The pipeline rejects: an approval handler or a classification throws.       *)
ToolsReject ==
  /\ At("tools")
  /\ Go("caught")
  /\ UNCHANGED <<conversation, turn, gate, signals, steers, others, world>>

(* Compaction is not due, vetoed, ineffective or failed.                       *)
KeepConversation ==
  /\ At("compacting")
  /\ Go("closing")
  /\ UNCHANGED <<conversation, turn, gate, signals, steers, others, world>>

(* Mutants: the boundary is not pulled back; the line carries what was there   *)
(* before.                                                                     *)
CompactAnywhere ==
  /\ At("compacting") /\ Len(messages) + 1 - KeepLast > 2
  /\ messages' = Compacted(messages, Len(messages) + 1 - KeepLast)
  /\ Emit(Carrying("context.compact", messages'), "closing", "compactFailed")
  /\ UNCHANGED <<loaded, base, snapshot, turn, gate, signals, steers, others, world>>

CompactLoggingBefore ==
  /\ At("compacting") /\ Cut(messages) > 2
  /\ messages' = Compacted(messages, Cut(messages))
  /\ Emit(Carrying("context.compact", messages), "closing", "compactFailed")
  /\ UNCHANGED <<loaded, base, snapshot, turn, gate, signals, steers, others, world>>

(* The conversation is replaced, then the replacement logged.                  *)
Compact ==
  /\ At("compacting") /\ Cut(messages) > 2
  /\ messages' = Compacted(messages, Cut(messages))
  /\ Emit(Carrying("context.compact", messages'), "closing", "compactFailed")
  /\ UNCHANGED <<loaded, base, snapshot, turn, gate, signals, steers, others, world>>

(* raceAbort: the summarization is left running.                               *)
CompactAborted ==
  /\ At("compacting") /\ aborted
  /\ EndTurn /\ orphan' = TRUE
  /\ UNCHANGED <<conversation, turn, gate, signals, steers, undrained, world>>

CompactFailed ==
  /\ At("compactFailed")
  /\ IF aborted THEN EndTurn ELSE Go("closing")
  /\ UNCHANGED <<conversation, turn, gate, signals, steers, others, world>>

CloseTurn ==
  /\ At("closing")
  /\ Emit(OfTurn("turn.end", turns), "saving", "caught")
  /\ UNCHANGED <<conversation, turn, gate, signals, steers, others, world>>

(* saveSnapshot(), best effort.                                                *)
Saves ==
  /\ \/ snapshot' = Resumable(messages)
     \/ "fail" \in may /\ UNCHANGED snapshot
  /\ UNCHANGED <<messages, loaded, base>>

SaveSnapshot ==
  /\ At("saving")
  /\ Saves /\ Go("gate") /\ held' = paused
  /\ UNCHANGED <<turn, paused, signals, steers, others, world>>
-----------------------------------------------------------------------------
(* catch and finally.                                                          *)
Caught ==
  /\ At("caught") /\ Go("ending")
  /\ UNCHANGED <<conversation, turn, gate, signals, steers, others, world>>

TurnFailed ==
  /\ At("turnFailed") /\ Emit(OfTurn("turn.end", turns), "ending", "ending")
  /\ UNCHANGED <<conversation, turn, gate, signals, steers, others, world>>

(* finally: the principals are closed and their last changes are logged, with  *)
(* no handler should that fail.                                                *)
ClosePrincipals ==
  /\ At("ending")
  /\ undrained' = FALSE
  /\ IF undrained THEN Emit(Plain("context.delegation"), "flushed", "escaped") ELSE Go("flushed")
  /\ UNCHANGED <<conversation, turn, gate, signals, steers, orphan, world>>

(* Mutant: a staged continuation is dropped in silence.                        *)
BeginEndingSilently ==
  /\ At("flushed") /\ ending' = TRUE /\ Go("orphans") /\ staged' = FALSE
  /\ UNCHANGED <<conversation, turns, before, answer, recovered, recoveries, continued, gate,
                 aborted, endAborted, ended, owned, steers, others, world>>

(* beginEnding(), and a word about a continuation that was never attempted.    *)
BeginEnding ==
  /\ At("flushed")
  /\ ending' = TRUE
  /\ IF staged THEN Emit(Plain("unattempted"), "orphans", "orphans") ELSE Go("orphans")
  /\ staged' = FALSE
  /\ UNCHANGED <<conversation, turns, before, answer, recovered, recoveries, continued, gate,
                 aborted, endAborted, ended, owned, steers, others, world>>

(* Mutants: the timer is armed for sessions that were not aborted; nothing is  *)
(* waited for.                                                                 *)
GraceExpiresUnlessAborted ==
  /\ At("orphans") /\ orphan /\ ~aborted
  /\ Emit(Plain("orphaned"), "settled", "settled")
  /\ UNCHANGED <<conversation, turn, gate, signals, steers, others, world>>

OrphansLeft ==
  /\ At("orphans") /\ Go("settled")
  /\ UNCHANGED <<conversation, turn, gate, signals, steers, others, world>>

(* settleOrphans(): the grace period is up.                                    *)
GraceExpires ==
  /\ At("orphans") /\ orphan
  /\ Emit(Plain("orphaned"), "settled", "settled")
  /\ UNCHANGED <<conversation, turn, gate, signals, steers, others, world>>

OrphansSettled ==
  /\ At("orphans") /\ ~orphan
  /\ Go("settled")
  /\ UNCHANGED <<conversation, turn, gate, signals, steers, others, world>>

(* A resumed run that started no turn leaves the previous snapshot.            *)
Finishing ==
  /\ At("settled")
  /\ IF messages # <<>> /\ (run = 1 \/ turns > before)
     THEN Saves ELSE UNCHANGED conversation
  /\ Emit(Plain("session.finishing"), "hooks", "hooks")
  /\ UNCHANGED <<turn, gate, signals, steers, others, world>>

(* The session_end hooks have run or been cut short; what is still queued is   *)
(* reported.                                                                   *)
EndHooks ==
  /\ At("hooks")
  /\ Go("undelivered") /\ delivering' = pendingSteers /\ pendingSteers' = <<>>
  /\ UNCHANGED <<conversation, turn, gate, signals, sent, others, world>>

ReportSteer ==
  /\ At("undelivered") /\ delivering # <<>>
  /\ Emit(OfSteer("undelivered", Head(delivering)), "undelivered", "undelivered")
  /\ delivering' = Tail(delivering)
  /\ UNCHANGED <<conversation, turn, gate, signals, sent, pendingSteers, others, world>>

Finish ==
  /\ At("undelivered") /\ delivering = <<>>
  /\ ended' = TRUE /\ Emit(Plain("session.end"), "release", "release")
  /\ UNCHANGED <<conversation, turn, gate, aborted, ending, endAborted, owned, steers, others, world>>

(* The chain is drained; the lock and the claim are released, the signal       *)
(* aborts what is tied to it, the stream is closed.                            *)
Release ==
  /\ At("release") /\ queue = <<>>
  /\ Go("closed") /\ owned' = FALSE /\ aborted' = TRUE
  /\ UNCHANGED <<conversation, turn, gate, ending, endAborted, ended, steers, others, world>>
-----------------------------------------------------------------------------
(* Around the loop: the host, the tools, the process.                          *)
Live == pc \notin Returned

Steer(s) ==
  /\ "steer" \in may /\ pc # "dead" /\ s \notin ToSet(sent)
  /\ sent' = Append(sent, s) /\ pendingSteers' = Append(pendingSteers, s)
  /\ UNCHANGED <<log, queue, pc, onFail, conversation, turn, gate, signals, delivering, others, world>>

Pause ==
  /\ "pause" \in may /\ Live /\ paused' = TRUE /\ UNCHANGED held
  /\ UNCHANGED <<log, queue, pc, onFail, conversation, turn, signals, steers, others, world>>

Resume ==
  /\ Live /\ paused' = FALSE /\ held' = FALSE
  /\ UNCHANGED <<log, queue, pc, onFail, conversation, turn, signals, steers, others, world>>

Abort ==
  /\ "abort" \in may /\ Live
  /\ endAborted' = (endAborted \/ ending \/ aborted) /\ aborted' = TRUE
  /\ paused' = FALSE /\ held' = FALSE
  /\ UNCHANGED <<log, queue, pc, onFail, conversation, turn, ending, ended, owned, steers, others, world>>

(* setHookDelegation(): refused once the principals are closed.                *)
Delegate ==
  /\ "delegate" \in may /\ Live /\ pc \notin {"flushed", "orphans", "settled", "hooks", "undelivered", "release"}
  /\ undrained' = TRUE
  /\ UNCHANGED <<log, queue, pc, onFail, conversation, turn, gate, signals, steers, orphan, world>>

(* Mutant: the end is not looked at.                                           *)
NoteAnyTime ==
  /\ "note" \in may /\ Live /\ \A i \in DOMAIN queue : queue[i].by = "loop"
  /\ queue' = Append(queue, [line |-> Plain("note"), by |-> "other"])
  /\ UNCHANGED <<log, pc, onFail, conversation, turn, gate, signals, steers, orphan, undrained, world>>

(* record(), or a tool's ctx.emit: dropped after the end. One at a time.       *)
Note ==
  /\ "note" \in may /\ Live /\ ~ended /\ \A i \in DOMAIN queue : queue[i].by = "loop"
  /\ queue' = Append(queue, [line |-> Plain("note"), by |-> "other"])
  /\ UNCHANGED <<log, pc, onFail, conversation, turn, gate, signals, steers, orphan, undrained, world>>

OrphanSettles ==
  /\ orphan /\ orphan' = FALSE
  /\ UNCHANGED <<log, queue, pc, onFail, conversation, turn, gate, signals, steers, undrained, world>>

(* The process dies: what was not appended is gone.                            *)
Crash ==
  /\ "crash" \in may /\ Live
  /\ pc' = "dead" /\ queue' = <<>> /\ orphan' = FALSE
  /\ UNCHANGED <<log, onFail, conversation, turn, gate, signals, steers, undrained, world>>

Init ==
  /\ log = <<>> /\ snapshot = None /\ run = 1 /\ may \in Scenarios
  /\ pc = "begin" /\ onFail = "caught" /\ queue = <<>>
  /\ messages = <<>> /\ loaded = <<>> /\ base = 0
  /\ turns = 0 /\ before = 0 /\ answer = NoAnswer
  /\ recovered = FALSE /\ recoveries = 0 /\ continued = 0 /\ staged = FALSE
  /\ paused = FALSE /\ held = FALSE
  /\ aborted = FALSE /\ ending = FALSE /\ endAborted = FALSE /\ ended = FALSE /\ owned = TRUE
  /\ sent = <<>> /\ pendingSteers = <<>> /\ delivering = <<>>
  /\ orphan = FALSE /\ undrained = FALSE

(* The session is resumed: its last run released the lock, or died and someone *)
(* removed it (SessionLog). What was kept in memory is not there any more.     *)
RunAgain ==
  /\ "again" \in may /\ run < MaxRuns
  /\ pc = "dead" \/ (pc \in Returned /\ ~owned)
  /\ run' = run + 1 /\ UNCHANGED <<log, snapshot, may>>
  /\ pc' = "begin" /\ onFail' = "caught" /\ queue' = <<>>
  /\ messages' = <<>> /\ loaded' = <<>> /\ base' = Len(log)
  /\ turns' = 0 /\ before' = 0 /\ answer' = NoAnswer
  /\ recovered' = FALSE /\ recoveries' = 0 /\ continued' = 0 /\ staged' = FALSE
  /\ paused' = FALSE /\ held' = FALSE
  /\ aborted' = FALSE /\ ending' = FALSE /\ endAborted' = FALSE /\ ended' = FALSE /\ owned' = TRUE
  /\ sent' = <<>> /\ pendingSteers' = <<>> /\ delivering' = <<>>
  /\ orphan' = FALSE /\ undrained' = FALSE

(* Nothing is left to do: the run has returned.                                *)
Settled == pc \in Returned /\ UNCHANGED vars
-----------------------------------------------------------------------------
Turn ==
  \/ Begin \/ Started \/ PassGate \/ DeliverSteer \/ Steered \/ StartTurn
  \/ HooksRun("asking", "vetted") \/ HooksRun("responded", "heard")
  \/ RequestRefused \/ BeforeRequest \/ Attempt \/ StreamText \/ StreamThrows \/ Respond
  \/ AppendAnswer(<<>>)
  \/ "steer" \in may /\ \E s \in Steers \ ToSet(sent) : AppendAnswer(<<s>>)
  \/ Decide \/ Truncated \/ StageContinuation
  \/ ToolsReturn \/ ToolsAnswered \/ ToolsInterrupted \/ ToolsReject
  \/ KeepConversation \/ Compact \/ CompactAborted \/ CompactFailed
  \/ CloseTurn \/ SaveSnapshot

Ending ==
  \/ Caught \/ TurnFailed \/ ClosePrincipals \/ BeginEnding \/ GraceExpires
  \/ OrphansSettled \/ Finishing \/ EndHooks \/ ReportSteer \/ Finish \/ Release

Host ==
  \/ \E s \in Steers : Steer(s)
  \/ Pause \/ Resume \/ Abort \/ Delegate \/ Note \/ OrphanSettles
  \/ Crash \/ RunAgain \/ Settled

Next == Turn \/ Ending \/ Write \/ WriteFails \/ Host

(* Every promise the loop awaits settles: the provider and the tools answer or *)
(* honour their signal, hooks have a time limit, the grace timer fires. The    *)
(* host owes nothing.                                                          *)
Fairness == WF_vars(Turn \/ Ending) /\ WF_vars(Write)

Spec == Init /\ [][Next]_vars /\ Fairness
-----------------------------------------------------------------------------
(* What a run promises.                                                        *)
ThisRun == SubSeq(log, base + 1, Len(log))
Lines == ThisRun \o [i \in DOMAIN queue |-> queue[i].line]

(* Every run's lines end with its session.end: nothing the loop, a tool an     *)
(* abort raced past, or an observer emits lands behind it (agent.ts: record(): *)
(* "session.end is always the last line"; lifecycle isEnded).                  *)
EndIsLast ==
  \A i \in base + 1..Len(log) : log[i].kind = "session.end" => i = Len(log)

(* A turn that ended was started, and ended once, before any other turn began: *)
(* a reader of the log may attribute what lies between to that turn.           *)
TurnsBracketed ==
  \A i \in DOMAIN log : log[i].kind = "turn.end" =>
    \E j \in 1..(i - 1) : /\ log[j] = OfTurn("turn.start", log[i].turn)
                          /\ \A k \in (j + 1)..(i - 1) : log[k].kind \notin {"turn.start", "turn.end"}

(* The steers that lines speak of.                                             *)
Told(lines) ==
  LET told[i \in 0..Len(lines)] ==
        IF i = 0 THEN <<>>
        ELSE IF lines[i].kind \in {"steer", "undelivered"} THEN Append(told[i - 1], lines[i].steer)
        ELSE told[i - 1]
  IN  told[Len(lines)]

(* No steer is lost, doubled or overtaken on its way through the loop: those   *)
(* sent are those in the log, delivered or reported undelivered, then those    *)
(* the loop has in hand, then those still queued (agent.ts, both splice(0)     *)
(* loops). A steer sent after the last splice stays queued for good.           *)
SteersConserved ==
  LET inHand == IF pc = "steered" THEN Tail(delivering) ELSE delivering
  IN  "fail" \notin may /\ pc # "dead" => sent = Told(Lines) \o inHand \o pendingSteers

(* Calls are followed by their results, and results preceded by their calls,   *)
(* wherever a request or a resumed run reads them: "A snapshot must always be  *)
(* resumable", "never orphan a tool_result" (agent.ts, compaction.ts).         *)
Paired(m) ==
  \A i \in DOMAIN m : /\ m[i] = "calls" => i < Len(m) /\ m[i + 1] = "results"
                      /\ m[i] = "results" => i > 1 /\ m[i - 1] = "calls"

ConversationPaired ==
  /\ pc = "streaming" => Paired(messages)
  /\ snapshot # None => Paired(snapshot)

(* The log is the source of truth: the conversation in memory is what a later  *)
(* run would rebuild from the conversation this one began with and the lines   *)
(* it emitted, whichever path the turn took. From its response on, an answer   *)
(* may be in the log as its text alone, as long as no line carries a message;  *)
(* that is replaced, not repeated, by the answer's message. (Of a run cut off  *)
(* in the middle of such an answer, the next one inherits its text: excluded.) *)
Before == Replay(Blank, SubSeq(log, 1, base))
Rebuilt == Replay([Before EXCEPT !.messages = loaded], Lines)

ReplayMatches ==
  LET early == answer.text /\ ~Rebuilt.authoritative /\ pc \in {"responded", "heard"}
  IN  "fail" \notin may /\ ~Before.streamed /\ pc \notin {"started", "steered", "dead"} =>
        Rebuilt.messages = IF early THEN Append(messages, "assistant") ELSE messages

(* The loop does not end before the work an abort left running, unless the     *)
(* grace is up and the log says so (settleOrphans).                            *)
EndsAfterOrphans ==
  ended /\ orphan => \/ \E l \in ToSet(ThisRun) : l.kind = "orphaned"
                     \/ "fail" \in may

(* A continuation message is followed by an attempt, or by the word that none  *)
(* was made (finally: "a staged continuation that never became an attempt").   *)
ContinuationsAnswered ==
  LET said(kind) == {i \in DOMAIN ThisRun : ThisRun[i].kind = kind}
      nudges == {i \in said("message.append") : ThisRun[i].blocks = <<"user">>}
  IN  "fail" \notin may /\ pc = "closed" =>
        Cardinality(nudges) = Cardinality(said("turn.continued") \cup said("unattempted"))

(* An aborted session, and one that is ending, returns, as long as the host    *)
(* does not keep the gate shut: abort opens the gate and wins over tools that  *)
(* ignore their signal, and the orphans are waited for no longer than the      *)
(* grace.                                                                      *)
AbortReturns == <>[]~paused => (aborted \/ ending ~> pc \in Returned)

(* Owned cleanup is never skipped: a run that has returned has released its    *)
(* lock and closed its stream, which finish() does last ("An informational     *)
(* notice must not skip owned cleanup if its append fails").                   *)
ReturnReleases == pc \in Returned \ {"dead"} => ~owned
=============================================================================
