# A TLA+ model of miniphi

miniphi is a local coding agent in JavaScript: a terminal interface hands a task to
an *agent session*, the session asks a model served by LM Studio for actions, shows
the operator a preview of every change, and applies what is approved with a guarded
file writer. This directory holds TLA+ modules of its core, the TLC configurations
that check them on small instances, and TLAPS proofs of what matters most about them
for every value of the constants. Every definition is translated from the code; the
code's comments, tests and documents are quoted only where they disagree with it
(see [What the code does otherwise](#what-the-code-does-otherwise)).

Paths below are relative to `src/src/` unless they begin with `src/`.

    tlasany M.tla                  parse
    tlc -config X.cfg M            check one configuration
    tlapm M.tla                    check the proofs of M

## The system

    terminal UI (ui/) ---- permission requests, events ----+
        | submitTask, cancel                               |
        v                                                  v
    AgentSession ---- approver ------------------------ operator
        |  |  |  \
        |  |  |   +-- ContextGraph   what the next prompt shows; subtasks, pins, caps
        |  |  |         \-- Cheetah mirror ---- Cheetah server (optional)
        |  |  +------ LMStudioHandler: chatStream, retries, transports ---- LM Studio
        |  +--------- web research, vision, knowledge lookup
        +------------ agent-executor: proposals and commits
                          \-- file-edit-guard: compare, copy, write, verify, undo

    commands/ ---- LMStudioHandler, one prompt after another
              \--- prompt-step-journal ---- .miniphi/prompt-exchanges ---- cache-pruner

Everything runs in one Node.js process on one thread. Concurrency is what happens
between two awaits: the operator's editor, a watcher or a command the session itself
started write the same files; the operator cancels; a request times out; a call
fails; the process dies. Several runs of the program share the `.miniphi` tree, and
the Cheetah server has a life of its own.

| Component | State | Operations | What makes it correct | Modelled |
|---|---|---|---|---|
| Guarded file writer, `libs/file-edit-guard.js` | the file, rollback copies | `writeFileWithGuard`, `attemptRollback` | a status never lies about the file; nothing approved for one text replaces another; what was replaced can be recovered | `FileEditGuard`, all of it |
| Proposals and commits, `agent/agent-executor.js` | none | `buildMutationProposal`, `commitMutation`, `executeReadonly` | the preview is what is compared; refusals write nothing | in `FileEditGuard` and `AgentSession`; path safety, schemas and diff text left out |
| Agent session, `agent/agent-session.js` | turn counters, signatures of actions, evidence, edits, the last validation | `submitTask` and its handlers, `cancel` | it ends; "completed" can be believed; the evidence shown is current; repeated actions are answered truthfully | `AgentSession`; context engine, references, local memory, transcripts and events left out |
| Context graph, `libs/context-graph.js` | nodes, edges, stack of subtasks | `add`, `decay`, `reform`, context operations, `select` | edges and stack stay consistent; caps bound it; pins survive | `ContextGraph`; selection and rendering, which change nothing, left out |
| Approvers, `agent/approvers.js`, `libs/command-authorization-manager.js` | approvals for the session, pending requests | ask, answer | one answer for each request | a choice of the environment |
| LM Studio transport, `libs/lmstudio-handler.js` and others | chat history, transport in use, protocol gate | `chatStream`, `load`, retries | a retry repeats nothing; the history is what was said and answered; every call ends | `LMStudioChat`; timers, parsing and the clients left out |
| Cheetah mirror, `libs/cheetah-context-engine.js` and others | fingerprints, cooldown, transport | `sync`, `recall`, `select` | a recall sees the graph as it is; the mirror recovers | `CheetahMirror`; ranking of what is recalled left out |
| Journals and memory, `libs/prompt-step-journal.js` and others | JSON files and their indexes | open, append, set the status | what was reported as recorded is there after a crash; index and files agree | `StepJournal`; the other stores, which write a file and a row of an index in the same way, left out |
| Cache pruner, `libs/cache-pruner.js` | the `.miniphi` tree | prune | what is kept is whole | in `StepJournal`, for the prompt journals |
| Cheetah learning, context references, model routing, analysis pipeline, recompose, workspace scanning, command execution and resources, web and vision, command line, terminal UI | see `PROJECT.json` | | | no |

`PROJECT.json` lists all components with their files, and every hazard with the line
where it bites and the properties that watch it. The parts in the last row are text
processing, scoring over real numbers, or input and output with no protocol of their
own; where one of them matters to the session it is a choice of the environment there
(a command succeeds or fails and may change a file, a search succeeds, fails or is
absent, the operator answers yes or no). The C sources under `src/samples` (bash, besh) are
data that miniphi's benchmarks analyse ("its source code is not used for miniphi code,
but for its testing", `src/samples/WHY_SAMPLES.md`). They are no part of the program
and are not modelled, although they are most of the lines of the repository.

What is hard to test in this code:

* the window between preview and commit, which stays open while the operator thinks,
  and the five awaits of the guard, with failures and crashes at each;
* memory of what was done (`_actionSignatures`, live evidence nodes) against files
  that change by writes, commands, failed writes and other programs;
* the loop's many budgets (turns, idle turns, graces, warnings, context-only turns,
  reforms, research) and the exemptions each has from another;
* validation that must be the last thing that happened before "completed";
* caps that evict against pins that forbid it, while a subtask is being opened or
  closed by the very call that evicts;
* four kinds of retry with budgets of their own over two transports that each turns
  on or off, while every failed attempt must take back exactly the prompt it pushed;
* fingerprints that are set before a batch of which any prefix may be applied, and a
  server that may forget everything unnoticed;
* a step, a session and an index that are three writes, none of them atomic, in
  directories which another run shares and the pruner removes.

## The modules

| Module | What it is |
|---|---|
| `GuardedUpdate` | the abstract specification of a guarded update: a compare-and-swap of a file with a truthful outcome |
| `FileOutcome` | what one guarded write may come to for its caller: a status, and the file with it |
| `FileEditGuard` | preview, approval, guard, rollback copy, write, verification and undo of one file, one action per await |
| `FileEditGuardProofs` | theorems about it, among them that it implements `GuardedUpdate`, and comes to nothing but what `FileOutcome` lists |
| `AgentSession` | `submitTask`: the loop of turns and everything a turn does |
| `MCAgentSession` | the symmetry of its texts |
| `AgentSessionProofs` | theorems about it |
| `ContextGraph` | the context graph under the session's calls and the model's operations |
| `ContextGraphProofs` | theorems about its caps, edges, pins and stack |
| `Conversation` | the abstract specification of a chat: prompts, answers, and what is remembered |
| `LMStudioChat` | `chatStream` with its retries and transports, and the history over several calls |
| `LMStudioChatProofs` | theorems about it, among them that it implements `Conversation` |
| `CheetahMirror` | the mirror of the graph: sync, recall, failures, and the server |
| `MCCheetahMirror` | the graph of its instances |
| `CheetahMirrorProofs` | theorems about it |
| `StepJournal` | the journals of runs that share an index, with crashes, and the pruner |
| `MCStepJournal` | its symmetry |
| `StepJournalProofs` | theorems about its files and its index |
| `LeastNumber` | induction over the numbers, for the proofs about `ContextGraph` and `StepJournal` |

The constants of most instances are sets of model values and small numbers, which the
configurations give directly; `CheetahMirror` needs the edges of a graph, and two
instances a symmetry, so these three have MC modules. Symmetry is used where it is
sound and no liveness is checked: the runs and sessions of `StepJournal` are alike,
and so are the texts of `AgentSession_evidence`, since a step of the session asks of
two texts only whether they differ.

Each module puts the mutated forms of its definitions (a guard dropped, a reset
forgotten, an order swapped) directly before the definition they mutate. They are no
part of the specification; `PROJECT.json` names them. They show that each property
can be broken by a plausible mistake.

### FileEditGuard

One file. `disk` is what it holds: a text of `Content`, `NoFile`, or `Torn` for a
file that a failing or interrupted `writeFile` left truncated or partly written.
`rollbacks` is the rollback directory, which a crash does not empty. `op` is the
mutation in hand: what was previewed (`before`, `expected`), what is wanted
(`after`), what the guard's own read found (`seen`), the copy it made (`copy`).

| Action | Code |
|---|---|
| `Propose` | `buildMutationProposal`: the read, the refusals, the remembered hash |
| `Decide` | `approver(...)`: approved or rejected, after any time |
| `GuardRead` | `writeFileWithGuard` up to the comparison of hashes; `hash-mismatch`, `unchanged` |
| `CopyRollback` | `copyFile` to the rollback directory; a failure is recorded, not fatal |
| `WriteTarget` | `writeFile` |
| `Verify` | the read back |
| `AttemptRollback` | `attemptRollback`: from the copy, else from memory, else nothing |
| `ExternalWrite` | another program writes, creates or removes the file |
| `Crash` | the process dies, perhaps in the middle of a write |

A hash is modelled by the text it is the hash of, so SHA-256 is taken to be
injective. Each rollback copy has a name of its own, which the code gives it unless
two fall on the same millisecond. The undo from memory writes back text that was read
as UTF-8; a file that is not UTF-8 would come back altered, which is a detail of the
data and left out. `clean`, `replaced`, `copyFailed` and `opFaults` are observers that no
guard reads.

Fairness is weak fairness of the guard's own steps, as one: awaited calls settle and
the operator answers. Nothing is assumed of other programs or of failures.

`GuardedUpdate` has the abstract file keep its old text until the verdict is in. The
mapping shows it so: while the guard stands at `verify` or `undo` and nobody has
interfered, `AbstractFile` is what the guard saw; otherwise it is the disk. The write
is thereby no step, and the verdict is the swap. An interference ends the promise
(`calm` is FALSE) until the guard reads again.

### AgentSession

`pc` names the places of `submitTask` (`seed`, `turn`, `model`, `ops`, `act`,
`approve`, `settle`, `close`, `guard`, `stopped`), and the module's header says what
happens at each. The model is an adversary: it may reply with anything at any time.
The guarded write is one step: `Approved(status)` does to the file what `FileOutcome`
says the status may mean, and `GuardStatusIsTruthful` proves of `FileEditGuard`, await
by await, that a write nobody interferes with comes to nothing else. (A failed write may
leave the file as it was, torn, or written after all: a new file that could not be
read back has nothing to go back to.) The window in which the operator decides is not
part of that step: while `pc = "approve"` the operator may change the file and cancel.

The variables carry the code's names where they can; the declarations give the field
each stands for. `signatures` is `_actionSignatures`; `nodes` are the context nodes
that show a file, with the label `_liveEvidenceNode` looks for, the text shown, and,
as observers, the reasons (`taint`) why the text may no longer be that of the file:
a write of the session, the operator, a command, a mismatch found by the guard, a
failed write, or a node the model brought back itself. `dirty`, `stall` and `untrue`
are observers, too. `interrupt` stands for the cancelled flag and the clock: cancel is
looked at first, so it hides a deadline.

Whatever the guard answers, `Approved` adds a node labelled with the answer, as the code
does: the report of an edit that was refused, rolled back or failed shows its new lines
under "Applied diff" like that of one that was written. A successful write retires the
labels in `Replaceable`, and those reports are not among them. `EvidenceIsCurrent` is
therefore about `Replaceable` alone, and `SupersededIsRetired`, which says of all nodes
what the comment in the code says, is violated (`AgentSession_refused`).

| Actions | Code |
|---|---|
| `SeedPinned`, `SeedResearch`, `StartLoop` | before the loop: pinned files, forced research, preflight validation |
| `BeginTurn`, `GetTurn` | cancel, deadline, the request with its retries, truncated answers |
| `ContextOp`, `ResolveSnippet`, `ReformAndAskAgain`, `StartActions` | context operations, missing snippets, a declared gap |
| `ReadOnly`, `DoResearch`, `Consult` | `_handleReadonly`, `_handleResearch`, `_handleVisualReview`, `_handleKnowledgeLookup` |
| `ResearchRequired`, `ProposeCommand` | the research gate, `_handleCommand` |
| `EditThrows`, `EditRefused`, `EditDuplicate`, `EditProposed` | `_handleMutation` up to the approval |
| `Reject`, `RunCommand`, `Approved`, `CommitThrows` | the answer, and what follows from it |
| `Finish`, `EndActions`, `Validate`, `Complete`, `Continue` | the end of a turn's actions, validation |
| `NoActions`, `ProductiveTurn`, `ExcusedTurn`, `IdleTurn` | the guards against endless sessions |
| `ExternalChange`, `Interrupt` | the world around the session |

A missing snippet is read and remembered as often as the model asks for it, up to
`MaxSnippets` in a turn and after the turn's context operations, as in the code; a file
asked for in two turns is there twice.

`Kinds` and `Interrupts` choose what the model does and how the session is
interrupted in one instance; the full set is `AllKinds`. Messages that expire after
a turn, transcripts, events, the context engine, context references and local memory
are left out: no guard of the loop reads them. A malformed action
is rejected before anything is counted, so it is no step here.

Fairness is weak fairness of the session's own steps, as one: each request has a
timeout, commands and validations end, and the operator or a policy answers. Weak
fairness of the whole is enough because the steps of a turn are bounded by its own
budgets; nothing is assumed of cancel, the deadline or the operator's editor.

### ContextGraph

`nodes` is a function from ids to nodes, `edges` a set of pairs, `stack` the
`_subtaskStack`. What the session does: `Remember` (evidence, a correction that
expires, a standing rule), `Validate` (`_validateCurrentWorkspace`: the old issues
are dropped, the new one is pinned), `Retire` (`_retireSupersededFileContext`),
`Decay`, `Reform`. What the model does, in any order: `Pin`, `Unpin`, `Expand`,
`Collapse`, `Drop`, `Note`, `Link`, `OpenSubtask`, `CloseSubtask`, `FocusOn`.
`Added` is `add` with both its caps, `_enforceRetainedCap` and `_enforceNodeCap`.

Texts, references, importance and scores are left out. Where a score decides which
node is evicted, the model allows every choice that a score could make, within the
order the code fixes first (expiring corrections before rules, the oldest first;
dropped nodes before others). There is no fairness: the graph only answers calls.

`Profiles` says what is done to the graph in one behaviour or another: `Init` picks a
profile, and the actions outside it do not happen. It lets one run look at two uses
of the graph that are each too large together.

### LMStudioChat

One handler and one caller. `history` is `chatHistory` after the system prompt; an
entry says whose prompt it is or answers. `call` holds the locals of `chatStream`, and
`pc` the await it stands at: `truncating` (counting tokens), `requesting`,
`reloading` and `mending` (loading the model after a failed attempt, or a failed
count), `probing` (the snapshot of a protocol warning) and `recording`; `loop` is the
top of the retry loop.

| Action | Code |
|---|---|
| `ChatStream` | the call, and `_withIsolatedHistory` of the analyzer around it |
| `Attempt` | the prompt is pushed, schema and transport are chosen (`_shouldUseRest`); what is refused here is thrown outside the `try` |
| `Spent` | "exceeded retry budget" |
| `Truncate`, `TruncateFails`, `Mend` | `_truncateHistory`; a model found unloaded there is loaded, and the loop goes round |
| `Respond`, `Recorded` | the answer is pushed and recorded |
| `Catch` | the prompt is popped, then the first of `Reload`, `FallBack`, `RetryHang`, protocol warning, `RetrySchema` that applies, or the failure is recorded |
| `Reloaded`, `Probe` | `load` after a failed attempt; the web socket is turned off |
| `EnsureLoaded` | the adaptive handler's load before a call |
| `ClearHistory` | `clearHistory`, which callers use to begin anew between two calls |
| `Resume` | a session out of time saves the history while a call is under way, and a later process goes on with it |

The handler is taken to have a registry of schemas, as the program's always have: a
schema that is named is then known or missing, and an answer is "invalid" only of a
known one. (Without a registry an empty answer to a call that names a schema would be
retried in the same way.) An attempt ends in any way an attempt can: an answer, or a
failure of one of the five kinds the catch tells apart. How timers, streams and clients bring it about is left
out. `left` and `stalled` are observers: the calls that were refused or abandoned, and
the transport whose hang is being retried.

`Conversation` is what the history promises: prompts are asked one after another, each
is answered at most once, an exchange is remembered when it is had or not at all, and
exchanges are forgotten from the oldest, to make room for the prompt that is asked, or
all of them between two prompts.
`Exchanged` maps to `remembered`: the answers in the history that stays, which is the
one put aside while a call is isolated. The prompt is open from `ChatStream` until the
answer is pushed or the call is over. Trying it again is nothing to the conversation,
so pushing, popping, retrying and reloading are no steps. Its own promise, `NeverAgain`,
says that what was forgotten or never answered does not come back.

Fairness is weak fairness of `Step`: every await of `chatStream` is answered or times
out (session and prompt timeouts, the no-token timer). Nothing is assumed about which
of the two, nor that there is a next call.

### CheetahMirror

`state` and `version` are the graph, seen as the engine sees it: which nodes are live,
and whether what a fingerprint covers has changed. `prints` and `edgePrints` are the
engine's fingerprints, `job` the batch in hand, `remote` and `remoteEdges` what the
server holds.

| Actions | Code |
|---|---|
| `Add`, `Change`, `Drop`, `Restore`, `Remove` | what the session does to its graph between two prompts |
| `Sync`, `Skip` | `sync`, of `select` (then a recall follows) or at the end of the session; nothing within the cooldown, unless the service is required |
| `CoolDown` | the cooldown has passed |
| `Ready` | `_ready` of the client: binary, or text after a failed handshake |
| `Delete`, `Set`, `SetEdges` | the commands of the batch, in the order they are sent |
| `Answered`, `Recall`, `Fault` | the batch or the recall is answered, or the transport fails; with the catches of `sync` and `recall` |
| `Restart` | the server restarts with an empty directory |

The server is not in the repository. It is modelled from how the engine uses it and
from the answers the engine's tests give (an unknown seed is an error). What is
assumed: the commands of one connection apply in order, each on its own; an edge needs
both its nodes; a batch the client gave up has applied what it ever will before the
next is sent, which the cooldown makes likely but does not enforce. `emptied` and
`lost` are observers: a restart nobody noticed yet, and the nodes on the server whose
fingerprints were forgotten.

Fairness: prompt follows prompt, the server answers what it is asked, and the cooldown
elapses. Faults and restarts are bounded, so this says that the mirror recovers once
they stop, not that it keeps up with them.

### StepJournal

`run` is what each process is doing; a run has one session open, and may be the
pruner instead. A step is a number, the place of its append among all appends.

| Actions | Code |
|---|---|
| `OpenSession`, `MakeDirectory` | `openSession`, which reads the session and makes its directories |
| `AppendStep`, `StepWritten`, `SessionWritten` | `appendStep`: the step, then the session that counts it |
| `SetStatus` | `setStatus` |
| `ReadIndex`, `IndexWritten` | `_updateIndex`; the operation returns |
| `Exit`, `Crash` | the process ends, perhaps in the middle of a write, which leaves a torn file |
| `Prune`, `RemoveTarget`, `TargetsRemoved`, `PrunedIndexWritten` | `pruneIndexEntries` |

A torn file reads as absent, as in the code; so does an index that somebody is
writing. Two processes that write the index at once may leave it torn: the model lets
the first of them that ends leave it so, until the last has written it. (The last may
leave the tail of a longer text behind its own, which would read as the same torn file,
for longer.) The default
index is a constant of the module that `_updateIndex` changes when it falls back to
it, so each run has one of its own (`default`). What is assumed: a session is open in
one run at a time (its id is made of the time, or given by the operator), the index
is there from the start, and the removal of one directory is one step. There is no
fairness: nothing is claimed to happen.

## The runs

Passing runs:

| Run | Question | Bounds | Distinct states |
|---|---|---|---|
| `FileEditGuard` | Is the guarded writer a truthful compare-and-swap, whatever fails or crashes and whoever else writes? | 3 texts, 2 mutations, 2 external writes, 3 failures | 243,000 |
| `AgentSession_evidence` | Does the context show files as they are after the session's own writes, and does every step take the session nearer to its end? | 1 file, 2 texts, 2 turns of 2 actions, 1 context operation and 1 snippet a turn, cancel and deadline | 2,772,000 up to symmetry |
| `AgentSession_loop` | Can "completed" be believed, does a model that ignores corrections stop, and does every session end? | 3 turns of 1 action, validator, required research, 1 grace, 1 reform, 1 external change | 774,000 |
| `ContextGraph` | Do stack, parents and edges agree, and do the caps bound the graph without losing what is pinned? | caps 2 and 3, 5 nodes ever, 2 turns, corrections that last 1 turn, 1 drawn edge, two profiles | 812,000 |
| `LMStudioChat` | Do retries over two transports leave the history a conversation, keep off a transport that hung or was turned off, and end? | 4 calls, with a schema or none or one that is missing, REST, one schema retry and one hang retry | 480,000 |
| `CheetahMirror` | Does every recall find the graph as it is on the server, and does the mirror recover? | a mission, a subtask and a node it owns, 2 versions, 2 faults, 1 restart | 312,000 |
| `StepJournal` | What survives crashes between and in the middle of the writes of two runs, with the pruner beside them? | 2 runs, 2 sessions of 2 steps, 3 appends, an index of 2 rows of which 1 is kept, 1 crash | 5,615,000 |

Why these bounds are enough to be worth something:

* *FileEditGuard.* Three texts tell apart what was previewed, what is wanted and what
  somebody else wrote. Three failures allow a write that fails, an undo that fails
  and a crash in the next mutation; with two mutations the rollback copies of one
  are there when the next is undone. Two external writes can put the previewed text
  back after the guard saw another one (ABA).
* *AgentSession_evidence.* One file is enough because what is retired, tainted and
  shown depends on one path at a time; two texts, because only "the same" and
  "another" matter; two turns of two actions allow read, write, read again, and a
  context operation in between that drops, revives or expands.
* *AgentSession_loop.* Three turns hold one that makes progress, or one that is excused
  by a grace, and the two idle ones that end the session, in every order the code
  allows: one grace more than the budget shows as a third turn without progress.
  Liveness is checked here because the counters interact most: the research gate
  counts as progress, refusals and duplicates do not, reforms repeat turns. Context
  operations and snippets, which are bounded within a turn the same way, and cancel and
  the deadline, which only end a session sooner, are left to `AgentSession_evidence`;
  searches and listings, which differ from reads only by their label, to
  `AgentSession_renewed`.
* *ContextGraph.* With caps of two and three nodes, the mission, a subtask, its child
  and an outcome already compete; five ids let an outcome push out the very subtask
  it closes. The first profile is the session's pressure on the caps with pins, the
  second subtasks with everything that reshapes them. The real caps are 6 and 400,
  and nothing in the code depends on their size.
* *LMStudioChat.* Budgets of one are the code's. Four calls give one that is refused
  or abandoned, one in isolation and two around them; what a call leaves to the next
  is the history and three flags.
* *CheetahMirror.* Three nodes are the mission, a subtask in focus and what it owns,
  so that a node, and edges on either side of it, can go and come back while another
  stays; two faults let the replay after the first fail as well, and fall on different
  prefixes of a batch; the related pair that joins a node to itself is in the graphs
  the code builds (a subtask owns itself).
* *StepJournal.* Two runs are enough for every race about the shared index, since
  each writes a row of its own; a run that crashed may come back with either session.
  Three appends fill one session and begin the other.

Three properties come with the liveness ones: `SessionShrinks`, `CallShrinks` and
`JobShrinks` name what is left of a session, a call and a job (`Remaining`) and say that
no step of it is free. They carry what the liveness properties say about the code (no
budget exempts from another so as to go round for good), without its fairness, and they
bound the work: a call has at most `6 * MaxAttempts + 4` steps, a job one for each command
of its batch and four more, a session at most `MaxTurns` turns of `TurnWork` steps each.
Only before the first turn may a session do something that brings it no nearer, and
then it has read one pinned file more, or spent one search.

What each property says is in the comment before it. `TypeOK` of each module is
part of one of its runs. `ContextGraph`'s bounds mention `pinHigh`, the most nodes
ever pinned at once, because pinned nodes are beyond both caps: the graph is bounded
by the caps *and* what is pinned, not by the caps alone.

### What the code does otherwise

Five runs check one statement of a comment, a test, a document or a prompt each, and
find it violated; `PROJECT.json` quotes the lines.

| Run | The statement | What happens |
|---|---|---|
| `FileEditGuard_newfile` | the eventual write is guarded against changes between preview and commit | a new file has no hash, so a file that appears meanwhile is replaced unseen (it is kept in the rollback directory, if there is one) |
| `AgentSession_applied` | "already applied" means the file is in exactly that state | the signature is recorded before the operator answers, so a rejected or failed edit counts as applied when it comes again |
| `AgentSession_refused` | a successful write makes earlier reads and edit snapshots of the file stale, and both versions are not kept | the report of an edit that was refused, rolled back or failed, with its lines, is not retired by a later write |
| `AgentSession_renewed` | once a file changes, a new read of it and a new search can return new evidence | after a command, a `hash-mismatch` or a failed write the read is answered from before; the second repetition of a search after a write is answered by the node from before the write |
| `CheetahMirror_focus` | of a required service, only its absence stops the model's turn | the model may drop the subtask in focus; the sync deletes its node, and the recall names it as a seed all the same, fails, and ends the session |

More was met while reading. It is visible in the text, or limits what a property of a
passing run can say, and has no run of its own:

| Where | What |
|---|---|
| `agent/agent-executor.js:312` | `expected_hash` of the action schema is stored and never read |
| `agent/agent-session.js:2017` | the recap asks for a field of the validation result that does not exist |
| `libs/context-graph.js:381` | closing a subtask leaves expanded evidence expanded |
| `libs/context-graph.js:1052` | pinned corrections are never evicted, so a retained layer outgrows its cap (`RetainedIsBounded` says by how much) |
| `libs/cheetah-context-engine.js:483` | a failed sync forgets which nodes were to be deleted: they stay on the server (`lost`) |
| `libs/cheetah-context-engine.js:601` | a server that was emptied is noticed only by a recall that fails, and the sync before it may have written every seed again (`emptied`) |
| `libs/lmstudio-handler.js:252` | a call that is refused after its prompt was pushed leaves the prompt in the history (`left`) |
| `libs/lmstudio-handler.js:755` | a protocol warning in the last attempt ends as "exceeded retry budget" |
| `libs/lmstudio-handler.js:584` | with the web socket turned off, the fallback from REST goes over REST again |
| `libs/efficient-log-analyzer.js:464` | callers collect the tokens of failed attempts, too |
| `libs/prompt-step-journal.js:101` | a session whose file was torn starts counting at zero, over the steps it has (`spoiled`) |
| `libs/prompt-step-journal.js:233` | the default index is changed, and serves as the index of the next journal |
| `libs/memory-store-utils.js:25` | of two runs that write the index together one row is lost |

## What is proved

All theorems hold for every value of the constants that satisfies the named
assumption of the module (`GuardAssumption`, `SessionAssumption`, `GraphAssumption`,
`ChatAssumption`, `MirrorAssumption`, `JournalAssumption`): sets of texts that do not
contain the special values, bounds that are numbers, caps above zero, a mission among
a finite set of nodes. In particular nothing is assumed about how many files, texts,
turns, nodes, calls, runs, failures or crashes there are.

`FileEditGuardProofs`:

| Theorem | Property |
|---|---|
| `TypeCorrect` | `[]TypeOK` |
| `GuardInvariant` | `[]GuardInv`, the inductive invariant |
| `GuardStatusIsTruthful` | `[]StatusIsTruthful`: the outcomes are those of `FileOutcome` |
| `GuardFailedNeedsTwoFaults` | `[]FailedNeedsTwoFaults` |
| `GuardReplacedIsRecoverable` | `[]ReplacedIsRecoverable` |
| `GuardOnlyPreviewedIsReplaced` | `[]OnlyPreviewedIsReplaced` |
| `GuardImplementsUpdate` | `ImplementsGuardedUpdate`, the refinement of `GuardedUpdate` |
| `GuardMutationShrinks` | `MutationShrinks`, which no run checks: every step of a mutation leads it nearer to its verdict |

None of the four properties is inductive: they speak of the end of a mutation or of
`replaced`, and say nothing of the awaits before. `GuardInv` adds what a calm guard
knows at each await: from the comparison on, what it saw is what was previewed, and
not yet what is wanted (`Compared`); before the write the disk is what it saw, after it
what was wanted, and in the undo one of these or torn, after a failure (`Tracked`); the copy, once made, is what
it saw and stays in the directory (`Copied`). The refinement uses the same invariant:
initial states map to initial states, and each step to the abstract step of the same
moment or to none.

`AgentSessionProofs`:

| Theorem | Property |
|---|---|
| `SessionTypeCorrect` | `[]TypeOK`, for sessions of any size |
| `SessionStallsAreBounded` | `[]StallsAreBounded` |
| `SessionCompletedIsValidated` | `[]CompletedIsValidated` |
| `SessionEvidenceIsCurrent` | `[]EvidenceIsCurrent` |
| `SessionEachStepShrinks` | `SessionShrinks`, an action property |

* *Stalls.* `StallInv`: the turns without progress are paid for, each by the idle
  counter or by a grace of its own, less the grace still owed. `GrantPays` shows that
  an instruction given before buys nothing.
* *Completed.* `CompletedInv`: once an edit was written, either the last validation
  failed or the turn has progress that forces the next validation; only the turn
  that passes it closes as finished, and nothing dirties the workspace between the
  validation and the stop. Without the clause about progress, the idle guard
  could complete on a stale verdict.
* *Evidence.* The property is inductive with `TypeOK` (`EvidenceInv` is the same, by way
  of `Current`, which speaks of one node and any files). The lemmas say what the three
  operators on nodes do: marking a change excuses every node it makes stale, retiring
  before a write leaves no other live node about the file that the property speaks of,
  and a new node shows the file as it is, unless it reports an edit that did not succeed
  (of which the property does not speak). `WrittenDisk` and `LeftAloneDisk` take from `FileOutcome` what each
  status means for the file.
* *Shrinks.* One lemma for each place of the loop: a step within the turn takes from
  `LeftOfTurn`, one that begins the next turn takes a whole `TurnWork` and gives no
  more than that back (`NextTurnIsNearer`), one that stops takes all. That the counts
  it subtracts from are never exceeded is `TypeOK`.

`ContextGraphProofs`:

| Theorem | Property |
|---|---|
| `GraphInvariant` | `[]GraphInv`, the inductive invariant |
| `GraphStack` | `[](GraphInv /\ StackInv)`, the inductive invariant of the stack |
| `GraphTypeCorrect` | `[]TypeOK` |
| `GraphStackIsPath` | `[]StackIsPath` |
| `GraphEdgesAttached` | `[]EdgesAttached` |
| `GraphRetainedIsBounded` | `[]RetainedIsBounded` |
| `GraphStaysBounded` | `[]GraphIsBounded` |
| `GraphPinnedSurvives` | `PinnedSurvives`, an action property |

`GraphInv` says what the caps look at in a node (no dropped node is pinned or
retained, the mission is the only one in its layer) and bounds the population of the
retained layer and of the graph by the most pins there ever were. `AddedToLayer` and
`AddedToGraph` are the heart of it: after `add` and its evictions a layer is within
its cap, or all of it but the new node is pinned; and a graph over its cap has nothing
left to evict. Every other action keeps the nodes in their layers or removes some
(`Reshaped`), or adds one (`Inserted`).

`StackInv` says that every parent is older than its child, and that each subtask on the
stack that is still in the graph has the one below it as its parent (`Linked`). The path of the focus is a recursive function; what it computes follows from
the first of these by induction on the id (`StrongInduction` of `LeastNumber`): it
ends where the chain of parents ends, at the top level or at a subtask that was evicted,
which is where the stack's part above the last such subtask begins.

`LMStudioChatProofs`:

| Theorem | Property |
|---|---|
| `ChatTypeCorrect` | `[]TypeOK`, the budgets of all retries among the types |
| `ChatHangTurns` | `[]HangTurns` |
| `ChatDisabledStaysOff` | `[]DisabledStaysOff` |
| `ChatHistoryIsConversation` | `[]HistoryIsConversation` |
| `ChatImplementsConversation` | `ImplementsConversation`, the refinement of `Conversation` |
| `ChatNeverAgain` | `[]C!InOrder /\ C!NeverAgain`: the abstract promises, of the handler |
| `ChatCallShrinks` | `CallShrinks`, an action property |

* *Types.* The counters are within their budgets because an attempt that is made is
  not the last to be counted (`Counted`), and each retry counts its attempt.
* *Hang.* `HangInv`: from the hang on the override names the other transport, and any
  other failure forgets the hang.
* *History.* `TalkInv`: while a prompt is asked it is the last entry and all before it
  is settled; at any other place the whole history is settled, and so is the one put
  aside. `Settled` is the property for a history alone; lemmas say that it survives
  pushing with the call among those left, answering, popping, and taking a suffix that
  begins with a prompt.
* *Refinement.* `OrderInv`: entries are in the order of their calls, and the call under
  way is newer than all but its own prompt. An answer is then the newest exchange, and
  a suffix forgets exactly the exchanges older than its first prompt. `NeverAgain` is
  proved of `Conversation`, and comes to the handler with the refinement.
* *Shrinks.* Each retry counts an attempt before it goes round, which is six steps less
  to go, and the longest way round has no more; `Counted` keeps the difference a number.

`CheetahMirrorProofs`:

| Theorem | Property |
|---|---|
| `MirrorTypeCorrect` | `[]TypeOK` |
| `MirrorInvariant` | `[]MirrorInv`, the inductive invariant |
| `MirrorRecallSeesGraph` | `[]RecallSeesGraph` |
| `MirrorJobShrinks` | `JobShrinks`, an action property |
| `MirrorOnlyFaultsFail` | `[]OnlyFaultsFail`, provided no subtask in focus is ever dropped (`Foci \cap Droppable = {}`), which is the case `CheetahMirror_focus` shows to be needed |

`MirrorInv` holds for each place: between prompts the fingerprints are what the server
holds, but for what was lost (`AtRest`); a batch is just what they did not cover
(`Batch`), and what is no longer in it is on the server (`Applied`); the server holds
no edge without its nodes, so that a node that comes back finds its edges forgotten on
both sides (`ServerEdges`); a seed is live (`Seeded`). For `JobShrinks` the commands of the
batch that are unanswered are counted; each step takes one of them, by the facts about
cardinalities of finite sets.

`StepJournalProofs`:

| Theorem | Property |
|---|---|
| `JournalFiles` | `[]FilesInv`, the inductive invariant |
| `JournalCountedAreWritten` | `[]CountedAreWritten` |
| `JournalAckedStepsKept` | `[]AckedStepsKept` |
| `JournalRows` | `[]JournalInv`, the inductive invariant of files and index |
| `JournalTypeCorrect` | `[]TypeOK` |
| `JournalIndexNeverLeads` | `[]IndexNeverLeads` |

`FilesInv`: a session is open in one run (`Exclusive`), what that run has in hand is
what the files hold at each await (`InHand`: the next step's place is not counted yet,
and is counted only once written), and what was reported is among what is counted
(`AckedAreCounted`). A step is therefore never written over one that was reported.

For the index: whatever list of rows there is, in the file, in the hands of a run or of
the pruner, or as a default, has at most one row of a session, and none that counts more
than the session's file (or than it will, once the write under way is done). Lists change
only by filtering one session out, putting a row in front and cutting the end off.
`RowsOfOthers`, the filter, is a recursive function; that its result holds only rows of
the list, none of the session filtered out and no two of one session, is shown by
induction on the length of the list (`SetInduction`).

The library's induction theorems have an operator as a parameter, which the provers
cannot instantiate. `LeastNumber` has them for sets instead: a set of numbers that is
not empty has a least one, because the inclusion of finite sets is well founded. A
predicate is then the set of numbers that have it.

Only model-checked: `EveryMutationEnds`, `SessionEnds`, `CallEnds` and `MirrorRecovers`,
which are liveness under fairness and beyond the prover. Of the first three, the part
that depends on the code is proved (`MutationShrinks`, `SessionShrinks`, `CallShrinks`):
what the runs add is that fairness makes the steps happen, and that there is one to make.
`MirrorRecovers` is more than the end of a job (`JobShrinks`): that the next one covers
what the last one left is only checked. All invariants and action properties of the
passing runs are theorems.

## Not modelled

* The components marked `not_modelled`, for the reasons given there and above: what
  they do is text, scores or input and output, and what the modelled parts see of them
  is a choice of the environment.
* In the modelled components, what changes no state or decides nothing: selection and
  rendering of the context, schemas and normalisation of actions, path safety, diff
  text, events, transcripts, formatting of journals.
* Timers. The awaits they bound end in one of the ways an await can end, at any time.

Ten hazards have no property. Four of them are outside the models. The names of rollback
copies are made of a label and the millisecond, and the directory's names are not
modelled. Cancel and deadline are looked at only between turns and actions, so that an
approval that nobody answers holds the session: the fairness of the session excludes it.
Two sentences of the guide to the model disagree about evidence that was expanded when
its subtask closes, so neither is claimed. And one timer variable serves all attempts of
`chatStream`, with closures of callbacks that the source does not determine.

The other six are steps the models take, and what the code does with them is what a
property has to excuse: a write by another program between the guard's write and its
read-back (`calm`), prompts left by refused calls and by a session out of time (`left`),
nodes a failed sync leaves on the server (`lost`), sessions the pruner removes under a
run (`spoiled`), and the order of corrections of one turn. `PROJECT.json` says of each
why no property covers it.

## The plan

Done: `GuardedUpdate`, `FileOutcome` and `FileEditGuard` with their refinement;
`AgentSession`, which takes a commit as `FileOutcome` has it; `ContextGraph`;
`LMStudioChat` with `Conversation`; `CheetahMirror`; `StepJournal`; and the proofs of
each. Left, in this order:

1. The graph that `CheetahMirror` mirrors as the one of `ContextGraph`: that each step
   of the latter is one of the changes the former allows between two prompts.
2. The memory of approvals (`libs/command-authorization-manager.js`, the pending map
   of the UI approver) as actions of `AgentSession`.
3. `ContextSelect`: `select`, the choice of nodes under the token budget, as a
   function, checked against a reference: pinned and retained nodes first, the budget
   kept by everything that is not exempt from it, digests instead of full texts.
4. The other stores that upsert an index, and `task-execution-register`, which writes
   through one temporary file that several writers share.
