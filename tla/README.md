# GoFlow Agent in TLA+

This directory models the parts of GoFlow Agent that decide what happens to work
that outlives one call: agent runs and their tool approvals, workflow runs and the
graph executor, the MCP servers that run the tools, and the three stores on disk
(session, workspace memory, resource modules). TLC checks the models on small
instances and TLAPS proves the central properties for every instance. All paths
below are relative to `src/`.

## 1. The system

GoFlow is one Go process: an HTTP server (or a terminal front end) over one
runtime and one session. Nothing is distributed; the hard part is that HTTP
handlers, background goroutines, child processes, files and restarts meet in the
same session.

| part | state it keeps | operations | meets |
|---|---|---|---|
| Ordinary agent runs (`internal/api/agent_runs.go`, `internal/session/agent_runs.go`) | run records: status, pending call, pending list, resume context, 300 events; the map of active runs; `agentExecMu` | start, retry, approve / deny one or all (foreground, streamed, background), cancel, event stream | approval queue, conversation, session |
| Approval queue and suspended turns (`internal/agent/runtime.go`) | `approvalStore`; maps of suspended turns and of their results | queue, resolve, requeue, capture, annotate, resume, restore | run records, MCP manager |
| Conversation loop and executor (`internal/agent/agent.go`, `executor.go`, `execution.go`) | locals of one turn | model call, batch of tool calls, suspension, final summary | providers, queue, MCP manager |
| MCP client (`internal/mcp/client.go`) | slot gate, mutex, child process and pipes, `nextID`, failures, cooldown | call, list, health, start, stop, close | child process |
| MCP manager (`internal/mcp/manager.go`, `router.go`) | clients, tool index | find, refresh, call, close | clients |
| Model providers (`internal/llm`) | none between calls | chat, stream, retry, fallback | conversation |
| Workflow runs (`internal/api/workflow_runs.go`, `internal/session/workflow_runs.go`) | run records, the one snapshot of "the" workflow, active map, `workflowExecMu` | start, retry, cancel, eight kinds of resume | engine, session |
| Workflow engine (`internal/agent/workflow_graph.go`, `workflow.go`) | queue and results of one execution; the stored run | stages, joins, fan-out, repeats, retries, routes, sub-workflows, pauses | runtime, approval queue |
| Session and persistence (`internal/session`) | everything that survives: records, replay events, session.json and its archive | snapshot, save, load, compaction | all |
| Workspace rebinding (`internal/api/workspace.go`, `cmd/goflow/main.go`) | current runtime and app | rebind under both mutexes | runs, session, configuration |
| Memory store (`internal/memory/store.go`) | project memory, solutions, errors, file index: four files | record, retire, restore, supersede, offer, rebuild | finished turns, prompts, console |
| Resource modules (`internal/api/resources.go`, `kits.go`) and their loader (`internal/config/loader.go`) | files of providers, agents, tools, other modules | save, import, scaffold, delete, load | bootstrap, rebinding |
| Policy, other configuration, skills, scaffolds' texts, console, bootstrap | local | reads, pure decisions | - |

Where behaviour is hard:

* **Interleavings.** A turn holds `agentExecMu`, a workflow execution
  `workflowExecMu`. Cancel, `POST /api/approvals/approve-all`, the streamed legacy
  approval and the checks a request makes before it waits for the mutex run beside
  it. Under an MCP client's mutex only one exchange runs, but a call that timed out
  leaves a goroutine that still reads the connection. The memory and resource
  files have no lock at all.
* **Copies.** A pending call is in the approval store, in the session's list and in
  its run; a workflow's state is in the run and in the session's one snapshot; the
  session is in session.json and in its archive. They are written one after the
  other, and a restart rebuilds one from the others.
* **Suspension.** A turn with several calls waits for several answers, a workflow
  stops at approvals, inputs, tools, budgets and children, over several
  endpoints, across restarts, and must continue exactly once.
* **Failure.** A tool can fail before or after its effect, a policy can refuse an
  approved call, a client can disconnect in the middle of its own approval, a
  server can die, hang, print nonsense or answer late, the process can be killed
  between two file operations.

What makes the parts correct: a call is executed at most once and never after a
denial; a run that waits can be answered and then continues; what completed stays
completed, what ended stays ended; executions exclude each other and a cancel finds
the one it is for; a result belongs to its request; slots, starts and cooldowns
stay within their limits; calls, executions and requests return; what was saved
can be loaded, and nothing is replaced that nobody asked to replace.
`PROJECT.json` lists the hazards line by line, with the property that covers each
or why none does.

## 2. Modules

| module | what it is |
|---|---|
| `AgentRuns` | runs, approval queue, suspended turns, handlers and restart in one state machine |
| `ApprovalLedger` | what the queue promises about one call: new, queued, claimed, executed / refused / gone |
| `AgentRunsProofs` | the inductive invariants of `AgentRuns` and what follows from them; that it implements `ApprovalLedger` |
| `McpClient` | one MCP connection: callers, slots, mutex, process, pipes, readers, breaker, close |
| `McpClientProofs` | its inductive invariant and what follows from it |
| `WorkflowGraph` | one run of a graph workflow: the executor's queue and results, and every way to pause and resume |
| `WorkflowGraphProofs` | its inductive invariant, for every graph: what the executor's position, a wait and a suspended call tell of each other, and which results are there when |
| `WorkflowRuns` | the requests that start, resume, retry and cancel workflow runs, over one mutex and one snapshot |
| `WorkflowRunsProofs` | its inductive invariants and what follows from them |
| `SessionStore` | Save and Load with kills in between, the switch of workspaces, the event stream |
| `SessionStoreProofs` | its inductive invariants: types, files that can be loaded at any moment, events that are kept and delivered |
| `Filters`, `FiltersProofs` | the loop that picks a part of a list (`agentRunEventsForQuery`, the results of a workflow, the branches of a fan-out), and what it returns for every list |
| `MemoryStore` | jobs that read, change and write the memory files side by side |
| `MemoryStoreProofs` | its inductive invariant: what each job has left to do, and what it may take for granted there |
| `ResourceStore` | requests that save, import and delete modules side by side, and the loader |
| `ResourceStoreProofs` | its inductive invariant: one writer per file, and references that are there |
| `MC...` | instances for TLC |

### AgentRuns

*State.* `status`, `pendingCall`, `pending`, `resumeCtx` are the fields of a run
record. `store` is `approvalStore`, `annotated` the items that name a captured
turn (`ordinaryResume`), `suspensions` and `answers` the maps
`ordinaryApprovalResumes` and `ordinaryResumeResults`, `owner` the run id inside
an item. `pc` and the variables of the turn are the locals of whoever holds
`agentExecMu`; `active` is the map of cancel functions, `lockQueue` the requests
that wait for the mutex, `cancels` the cancel handlers between their check and
their effect, `bulkTodo` and `bulkHeld` the approve-all handler. `executed`,
`refused` and `resumed` are history.

*Steps.* A session operation holds the session mutex and is one step. A handler is
cut where another goroutine can come in between: before and after
`mcp.CallTool`, before each `ResolvePendingApproval`, between the check of a
request and its lock, between the run record and its registration, between the
last write to the run and the release of the mutex.

| code | actions |
|---|---|
| `startAgentBackgroundWithRetry` | `StartRun`, `Register`, then the conversation |
| `continueConversation`, `RunToolCalls` | `ChatAnswers`, `ChatFails`, `ChatCallsTools`, `QueueCall`, `NextTurn`, `Suspend`, `StreamBreaks` |
| `handleAgentRunToolApproval`, `handleApprovalAction`, their streams | `RequestApproval`, `LegacyApproval`, `ApproveInBackground`, `TakeLock` |
| `runAgentRunToolApprovalActionLocked`, `...AllAction` | `CheckAgain`, `ApprovalNotFound`, `ClaimCall`, `DenyCall`, `ExecuteCall`, `ExecuteFails`, `PolicyRejects`, `RecordResult`, `ClientGone`, `Resume`, `StayAwaiting` |
| `CompleteAgentRun`, `FailAgentRun`, `CancelAgentRun`; deferred calls | `Finish`, `Release` |
| `handleAgentRunCancel` | `RequestCancel`, `CancelActive`, `CancelPaused` |
| `ApproveAllPendingToolCalls` | `BulkList`, `BulkClaim`, `BulkNotFound`, `BulkExecute`, `BulkExecuteFails`, `BulkPolicyRejects` |
| save on a clean stop, `NewRuntime` | `Restart` |

*Abstractions.* A call is its id. Calls that need no approval leave no state
behind and are not steps. When several calls remain on a run, the code shows the
last; the model shows any of them. Queueing a call (store, session list, run) and
resolving it are one step each, so the windows inside those two are not seen. A
retry is a start. Foreground `/api/run` turns have no run record and are out of
the model.

### McpClient

*State.* `slots` is the number of tokens in `callGate`, `mu` the holder of `c.mu`,
`failures` and `cooling` are `consecutiveFailure` and "now is before
`cooldownUntil`", `proc` the child process (`dead`: exited, not yet waited for),
`stdin` and `stdout` the pipes, `readers` the goroutines in `readLimitedLine`,
`req` and `line` the request and the received line of the holder of the mutex. A
message has the id on the wire and a serial number that exists only in the model
and tells requests apart even if ids were reused. `accepted` is the last pair of
request and answer that a call returned as a success.

*Steps.* `call` is `BeginCall`, `AcquireSlot` or `GiveUpSlot`, `Lock`, then
`ensureStarted` (`Refuse`, `FindProcess`, `Trip`, `StartServer`, `StartFails`),
then `callLocked`: the request gets its id and is measured (`TooLarge`, `Build`), it is
written (`Send`, `SendFails`: a caller in front of a full pipe can leave by these two
only), and one of `TimeOut`, `EndOfFile`, `Succeed`, `Reject` ends the call. `HealthStatus` uses the same steps without a
slot and counts a failure twice, as the code does. `ReadLine` is any reading
goroutine; with two of them on one `bufio.Reader` the outcome of the race is a
whole line for either, a garbled one, or a lost one. `ServerAnswers` and the other
`Server...` actions are the child process, which is not part of the repository:
they are what the client must cope with. `CloseManager` and `CloseClient` are the
two halves of `Manager.Close`.

*Abstractions.* Bytes, JSON and the metrics counters are left out; a result that
does not decode, and an rpc error, are both `Reject`. Failure to wait for a killed
process is left out. A goroutine starts to read as soon as its call waits.

### WorkflowGraph

*State.* `status`, `nextStage` and `saved` are the stored run; `pending` and
`inStore` the suspended tool call in the approval queue, `child` the nested run.
`queue`, `completed`, `seen`, `cur` and `loop` are the locals of
`executeWorkflowGraphQueue` and its helpers; `phase` tells whether it works on the
queue, calls a stage's agent or is between two rounds of a repeat. `approve`,
`budgetOn` and `supplied` are what a resume passes in, `cancelled` the context.
`preApproved`, `gatesPassed`, `entered`, `fanned`, `toolRuns` are history.

*Steps.* One action per branch of the loop over the queue: a stage that was seen,
visual, waits at a gate or an input, a join that has to wait, a route, a fan-out in
sequence (`FanOut`) or in goroutines (`RunBranches`), a repeat (`EnterRepeat`,
`Iterate`), a nested workflow, a budget, an agent's call (`CallStage`) and what
comes of it (`StageFails`, `StageSuspends`, `StageIncomplete`,
`StageBreaksContract`, `StageSucceeds`). Every resume of `workflow.go` is an
action with the checks of its `CanResume...` function. The graph algorithms
(`Named`, `Following`, `Required`, `Chain`, `UntilJoin`) are functions of the
graph and the results; the queue is a sequence of stage indices as in the code.

*Abstractions.* What a model answers decides routes, selections and conditions
nondeterministically. Retries of a stage end in its last answer. The goroutines of
concurrent branches meet only where the executor waits for them, so a fan-out is
one step that chooses each branch's outcome. A child is three outcomes; its own
requests are in `WorkflowRuns`.

### WorkflowRuns

*State.* `list` and `runs` are `session.workflowRuns`, `current` is
`session.workflow`, `store` and `approved` the approval queue and
`approvedWorkflowResumes`, `active` the map of cancel functions, `execMu` the
holder of `workflowExecMu`, `req` the goroutines with their locals. `owner` and
`toolRuns` are history.

| code | actions |
|---|---|
| the handlers' reads and checks, before the lock | `AskStart`, `AskRetry`, `AskApproval`, `AskToolApproval`, `AskInput`, `AskSubWorkflow`, `AskContinue`, `AskEscalate`, `AskBudget` |
| `workflowExecMu` waited for, or `TryLock` for a background action | `Lock`, `Take` |
| `WorkflowRunner.Run` and its hook | `Start`, `RegisterStarted` |
| the `Resume...` entry points | `RegisterResumed`, `Check` / `Refuse`, `Admit`, `Reread`, `Write`, `AnswerApproved`, `AnswerDenied` |
| an execution | `Finish`, `AskTool`, `FindCall`, `StartChild`, `WaitForChild`, `NameChild`, `Fail`, `Return`, each with `Set` and `Write` where it persists |
| `completeWorkflowRun`; the deferred calls | `Record`, `RecordChild`, `Leave` |
| `handleWorkflowRunCancel` | `AskCancel`, `LookUpCancel`, `CancelActive`, `CancelPaused`, `CancelMark`, `SetCancelled` |
| streamed approval of a workflow's call | `AskLegacy`, `ResumeLegacy` |

*Steps.* Wherever the code releases the session's lock between two things it does,
they are two steps: the check of a resume, `SetWorkflow`, the second look at
`Snapshot().Workflow` and `UpdateWorkflowRunState` (`Check`, `Admit`, `Reread`,
`Write`); the search for the call of a pause and the two writes of
`persistWorkflowState` (`FindCall`, `Set`, `Write`); the mark of a cancel and the
snapshot it sets (`CancelMark` or `Fail`, then `SetCancelled`). A request holds what
it read or is about to write in `snap`, and a cancel, which takes no workflow mutex,
can come in between anywhere.

*Abstractions.* What an execution does inside is one of its outcomes. All runs are
of one workflow and one request text, which is what a retry is. Nested runs are one
level deep. The five-second wait of a background start only decides what the
client is told.

### SessionStore

*State.* `apps` are the applications a process bootstrapped, each a workspace and
the session in memory; `current` is main's, `serving` the server's; `exec` the
holder of the two execution mutexes; `select` the requests that change the
workspace; `save` the Save under way; `disk` session.json and archive of every
path; `client` the follower of a run. `log` and `image` are history.

*Steps.* `Save` is cut at every file operation (`WriteTemporary`, `RenameArchive`
or `CopyArchive` with `FinishCopy`, `TruncateFile`, `WriteFile`), and any of them
may fail. `Load` with its migration is part of `Start` and of `BootSelect`. A
switch of the workspace is ask, lock both mutexes, bootstrap, save, switch the
app, switch the server. `AppendEvent` and `EndRun` give an event its sequence
number and cut the window; `Follow`, `Poll`, `Disconnect` are the stream.

*Abstractions.* A session is one run with its events. Compaction cuts the form of
an event and keeps its number, as the code does for the fields the model has.

### MemoryStore

*State.* `disk` holds the four files, missing, empty (truncated) or whole; `job`,
`todo` and `val` what each goroutine does, the file operations it has left and the
value it loaded; `ws` the version of every workspace file. Every content has a tag
for its kind (`Base`, `Index`, `Text`); `Walk` is the order in which a walk of the
workspace finds its files. `Before` gives the solutions an earlier process may have
left. The ghosts record what no file says: `last` the content of a file while it is
truncated, `stale` who read a file before another one wrote it, `since` what was true
of a file during a check, `retired` every solution that was retired and has not become
active since, be it in the base or evicted from it.

*Steps.* A job is a program of file operations, so that two jobs interleave at
every one of them: `Check`, `LoadBase`, `Offer`, `LoadIndex`, `BeginFresh`,
`Compare`, `Search`, `Summarize`, `Return`, `Look`, `Truncate`, `Write`. The eleven
kinds of job are the exported operations of the store and the console's dashboard.
A rebuilding takes the files one by one; a file is left out when it is gone, when its
summary fails, or when the index is full (`MaxFiles`, 2500 in the code). A full index
counts as fresh although the workspace has files it does not name (`FoundAll`).

*Abstractions.* Texts, scores and timestamps are left out; which solutions a prompt
is offered is any choice among those that can be found.

### ResourceStore

*State.* `final` and `temp` give the inode a module's path and its `.tmp` name,
`data` what an inode holds (an inode is named after who created it, for which file
and with how many items left, so that a request never creates one twice); `req`, `pc`, `todo`, `steps`, `open` are the handlers;
`running` the providers and agents of the active configuration (what it has counts as
existing, also without its file); `load` a configuration being read.

*Steps.* `Receive`, `FindConflicts`, `Look`, `Check`, then the file operations of a
save (`OpenTemp`, `WriteTemp`, `Rename`, `Cleanup`) or of a delete (`FindModule`,
`RemoveFile`); `LoadProviders` and `LoadAgents` are a rebind, with requests that go
on in between; `Kill` and `Start` the process.

*What the model shows of the code.* All saves of a file share one `.tmp`. Two that
overlap can leave mixed or empty content, and one of them reports an error
although its content was saved, while the other's was acknowledged and never
lands. A delete does not look for references, so that the next start may refuse.
An import is not rolled back. The two properties name these exceptions
(`overlapped`, `deleted`) and hold for everything else.

*Abstractions.* Of a document only the reference matters that the loader validates.
A default agent that names a module is left out, and so are skill files and their
reload.

## 3. Runs

`MaxWaiting` bounds the requests that wait for `agentExecMu` (1: one request that
waits, next to the turn, the cancel handlers and approve-all, is already three
actors on one call). `Events` and `Ops` switch on what the environment and the
operator may do, so that each question is asked with the events that bear on it.

| run | instance | shows |
|---|---|---|
| `agent_runs_races` | 1 run, 2 calls; cancel, approve-all, policy rejection, disconnect | `TypeOK`, `AtMostOnce`, `DeniedNeverRuns`, `ResumedOnce`, and the refinement of `ApprovalLedger` |
| `agent_runs_restart` | 1 run, 2 calls; restart (idle or in mid-turn), approve-all, cancel, tool errors, policy denials | `PendingInStore`, `ChatMeansAnswered` |
| `agent_runs_operator` | 2 runs, 2 calls; tool errors, policy rejections; fair | `AwaitingIsActionable`, `NoStrandedTurn`, `RequestsServed`, `RunsSettle` |
| `mcp_client` | 2 callers, 1 slot, limit 2, pipe of 1 request, 3 requests, 1 line buffered; every event; fair | `TypeOK`, `AnswerIsOwn`, `BoundedStarts`, `SlotsBalance`, `QuietInCooldown`, `CallsReturn` |
| `workflow_graph` | 6 graphs of 2 to 5 stages and the 200 graphs of three stages described below, 2 suspended calls, 6 stage runs; every operator action, restart, cancel; fair | `TypeOK`, `OneResultEach`, `JoinsWait`, `WaitsCanBeAnswered`, `ToolRunsOnce`, `CompletedStays`, `ExecutorReturns` |
| `workflow_runs` | 2 requests, 2 runs of which 1 is kept, 1 call; starts, retries, approvals of stages and tools, nested resumes, cancels; fair | `TypeOK`, `OneExecution`, `CancelReaches`, `EndedStaysEnded`, `RequestsReturn` |
| `workflow_nested` | 1 request at a time, 3 runs of which 2 are kept, 2 calls; nested runs, approvals without the lock, pauses for input and budget, escalations, cancel | `ParentsKnowTheirChild` |
| `session_store` | 2 workspaces with a path each, 1 selector, 4 events, window 2, 3 apps, 2 starts, 1 kill, 1 failing file operation | `TypeOK`, `RecoverableNow`, `KeptAtStop`, `StreamDelivers` |
| `memory_store` | 2 goroutines, 2 items, 1 kept and perhaps left from before, 2 files of which 1 is indexed; 3 jobs on the bases, or 3 on the index and 2 edits, or 2 of any kind, 1 edit and 1 kill | `TypeOK`, `FreshEntries`, `NothingLostAlone` |
| `resource_store` | 2 requests on 2 providers, an agent, a tool and a kit; 2 rebinds, 2 kills | `TypeOK`, `NextStartAccepts`, `NeverReplacesUnasked` |

Why these bounds show what they should:

* Agent runs: two calls are the least that make a turn with several answers, and
  any two actors that quarrel over a call do so with one; a second run matters only
  for what runs share, the mutex and the store, and is in `agent_runs_operator`.
* MCP client: two requests are the least with a late answer of one at the other,
  one slot with two callers makes one queue, and a health check needs none, so both
  can contend for the mutex; a pipe of one request is full when the first is not read,
  so that the next write blocks; with a limit of two the first failure does not trip
  the breaker and the second does. `MaxRequests` stops new calls when the ids are
  used up; it is not a limit of the code.
* Workflow graph: each graph is small because the executor looks at one stage, its
  successors and what has completed; together they have every kind of stage, every
  way out of one (contract, reroute, escalation, on_error, route, join, hard
  budget) and two gates, two rounds or two branches wherever one could hide an
  order. `MaxTries` and `MaxCalls` leave room for a stage that is paused, continued
  and escalated, and for a tool call after another. Five of them are graphs somebody
  would write, the sixth has a repeat without a body it could run. `validateWorkflowGraph` accepts many others (it looks up the names of
  stages, nothing more), so the run also has every graph (`Threes`) of a concurrent
  fan-out or a route and two stages or joins behind it, each followed by nothing, by
  any one of the three or by both: circles, branches that meet in no join or in each
  other, joins nobody reaches.
* Workflow runs: two requests are the least for a race, and the properties speak of
  two; with `Window` 1 a second run evicts the first one while it waits or is
  being worked on. Pauses for input and budget and the escalation take the same path
  as the approval of a stage, under other names; they are in `workflow_nested`, where
  they cost little. Nested runs double the runs, so that run has one
  request at a time: what it asks does not depend on a race for the lock.
* Session: a window of 2 with 4 events makes events leave it while a client lags
  behind; two starts and a kill are a recovery and what follows it; 3 apps are a
  switch and the way back.
* Memory and resources: all interference is between two jobs on one file, with a
  third job afterwards that meets its result. Keeping 1 of 2 items makes the limit
  bite, and so does an index with room for 1 of 2 files; a solution left from before
  lets three jobs retire it, evict it and learn it again. For the resources a kit has a provider its agent needs, another names a
  provider that may be absent, and a request may overwrite or not. The longest import has
  `MaxItems` = 3 items: the provider, the agent that needs it, and a tool.

`CHECK_DEADLOCK FALSE` stands where the system may stop: every run ended or waits
for an operator, or a bound is reached.

Two runs end in a counterexample, each against a sentence of the repository's own
documents (`findings` in `PROJECT.json` quotes them):

| run | what TLC finds |
|---|---|
| `restart_between_answers` | two calls pending, one answered, restart: the answer is lost, the turn can never be completed |
| `session_shared` | an absolute `persist_path`, as in the Docker configuration: switching the workspace bootstraps from the file before the old session is saved to it; the next clean stop overwrites what was saved |

### Fairness

`AgentRuns`: weak fairness of the turn, because goroutines run and a model or tool
call ends (both carry contexts and timeouts); strong fairness of `ChatEnds`,
because `MaxIterations` ends every conversation; strong fairness of `TakeAnyLock`,
because a `sync.Mutex` in starvation mode hands the lock to a waiter and
`TryLock` then fails. The operator is not fair: nobody has to answer.

`McpClient`: weak fairness of what a caller does under the mutex (including its
timer), of the reader and of the end of a cooldown; strong fairness of the slot (a
channel serves its senders in order), of the mutex, and of a server that is up and
again and again has a request to read and room for the answer. No step that is fair
takes a caller out of a write to a full pipe but the write itself and its failure.
`CallsReturn` therefore leaves out a server that does not read (`NotReading`: it
hangs, or it waits for somebody to read what it has printed, and all goroutines that
would are gone): there the property is false, TLC finds either case when it is left
out, and section 4 has the sentence it contradicts.

`WorkflowGraph`: weak fairness of `Execute`, the executor's own steps. It asks
nothing of operators, so `ExecutorReturns` says that the executor always comes to a
pause or an end, through repeats, reroutes and joins that put themselves back into
the queue. Joins that wait for each other are excepted (`JoinsInCircle`), because
there it is false (section 4).

`WorkflowRuns`: weak fairness of `Step(t)`, what a goroutine does by itself, and
strong fairness of `Lock(t)`, for the reason given above. Whether a stage asks for
a tool or starts a nested run is not fair; an execution that keeps doing either is
stopped by the bounds.

## 4. What documents and comments say and the code does not do

Beside the two runs above, the models met these disagreements. Each has a
definition that states the sentence; no run checks it, because the code violates
it. To see the counterexample, check it with the constants given here (where
nothing is said, those of the module's run).

| sentence | what the code does | definition and constants |
|---|---|---|
| `internal/agent/runtime.go:740`: `CancelAgentRunAndApprovals` "clears its pending approval" | the call the run shows is resolved, its others stay in the store | `AgentRuns!CancelledIsEmpty`, `Events = {"cancel"}` |
| `docs/configuration.md:1158`: a run that pauses on tool approval includes its pending approvals | with a call that policy denies ahead of it the run is recorded as denied, without pending approvals, while the call stays in the store | `AgentRuns!DeniedIsEmpty`, `Events = {"denied"}` |
| `README.md:586`: the streamed approval endpoints resume the execution | a streamed approval whose client left stores the answer and stops (`internal/api/agent_runs.go:1061`) | `AgentRuns!NoStrandedTurn`, `Events = {"disconnect"}` |
| `docs/mcp.md:441-443`: `restart_limit` and `cooldown` are a circuit breaker | after `restart_limit` failures it is never started again | `McpClient!RecoversAfterCooldown`, `CallingSpec`, `Events = {"startFails"}` |
| `internal/mcp/manager.go:191`: "Close stops all managed MCP server processes" | a call that waits for the slot or the mutex starts the process again | `McpClient!ClosedStaysDown`, `Events = {"close"}` |
| `docs/mcp.md:438`: each server has a per-call timeout | a server that does not read blocks the write, and everybody behind it | `McpClient!TimeoutBoundsCalls`, `FairSpec`, `Events = {"hang"}` |
| `docs/workflows.md:287`: an approval stage pauses before it is entered unless the run is pre-approved | every resume passes approve = true (`workflow_graph.go:2901`), so that one gate's approval opens the later ones too | `WorkflowGraph!GatesAreApproved`, `Graphs <- GatesOnly`, `Ops = {"approve"}`, `MaxCalls = 1`, `MaxTries = 4` |
| `docs/workflows.md:2616`: a live stage without evidence is blocked before the model runs | concurrent branches, repeats and escalations do not ask | `WorkflowGraph!LiveStagesAreReady`, `Graphs <- LiveBranch`, `Ops = {}` |
| `docs/workflows.md:1251`: parallel fans out to every stage in next | a hard budget that pauses a concurrent fan-out records the stage as completed; the approval resumes behind it | `WorkflowGraph!FansOutToEvery`, `Graphs <- FanOnly`, `Ops = {"budget"}` |
| `internal/session/workflow_runs.go:135`: a cancelling run is a running one | the hook registers the nested run, and its request unregisters that one: the parent's function stays behind, and a cancel after the pause marks a run nobody executes | `WorkflowRuns!CancellingRunsExecute`, `Ops <- NestedOps`, `Outcomes <- NestedOutcomes`, `MaxStarts = 2`, `MaxCalls = 1`, `Window = 2` |
| `docs/workflows.md:918`: "one-time `approve_tool`" | `persistWorkflowState` picks a call by name and stage, and `approvedWorkflowResumes` is never cleared: a retry can show and run the call of an earlier run | `WorkflowRuns!ApprovedOnce`, `Ops <- RetryOps`, `Outcomes <- LockedOutcomes`, `MaxStarts = 2`, `MaxCalls = 2`, `Window = 2` |
| `README.md:317`: with `/workspace use` "The old workspace session is saved" | a request to select a workspace compares its path before it takes the mutexes, and not again: the second of two requests for one path loads that path's file into a new session, and what was recorded in the first one's is overwritten | `SessionStore!KeptAtStop`, `Selectors = {s1, s2}`, `MaxEvents = 2`, `MaxApps = 4`, `MaxStarts = 2`, `MaxCrashes = 0`, `MaxFaults = 0` |
| `internal/memory/store.go:147`: "Existing user edits are never overwritten." | the profile is written after a look at the file, whatever happened since | `MemoryStore!UserEditsKept`, the constants of `memory_store.cfg` |
| `docs/resources.md:220`: a retired solution stays out until restored | an update that overlaps the retirement writes the old item back; one that fell out of a full base is learned again as active | `MemoryStore!RetiredStaysOut`, the same |

Further behaviour the models have and no document excludes: a cancel that comes
between the check of a resume and its write of "running" is overwritten, and the
run goes on (`EndedStaysEnded` speaks of runs nobody works on, and says so); a run
that was running at the last save is restored as running with nobody behind it; a cancel that read
the run before it resumed marks a completed run as cancelled; a cancelled context
goes through retries and on_error routes, so that a cancelled workflow may end
completed; a budget pause inside a repeat cannot be approved, and a tool pause
inside one cannot be rebuilt after a restart; a second incomplete branch of a
fan-out counts as completed for the join; a child that is blocked or denied counts
as completed for its parent; sequence numbers are given again after a kill.

One of these deserves a fix of its own. Validation accepts joins that wait for each
other (each `next` of the other, or by `wait_for`), or for themselves. When two of
them are queued, each finds what it waits for in the queue and puts itself behind it
(`workflow_graph.go:597-606`): the loop never ends, it never looks at its context, so
a cancel does not end it either, and `workflowExecMu` stays locked for every other
workflow request. `WorkflowGraph!ReturnsFromCircles`, checked with the constants of
`workflow_graph`, shows it.

## 5. Proofs

Proved by TLAPS for all values of the constants that satisfy the named
assumptions (`AgentRunsAssumption`, `McpClientAssumption`, `ConstantsAssumption` and
`NobodyAssumption` of `WorkflowRuns`, `HomeAssumption`, `NamesAssumption` and
`BoundAssumption` of `SessionStore`, `KindAssumption`, `OfferAssumption` and
`BoundAssumption` of `ResourceStore`, `LimitAssumption`, `WalkAssumption`,
`BoundAssumption` and `BeforeAssumption` of `MemoryStore`, `GraphsAssumption` and
`BoundsAssumption` of `WorkflowGraph`). A hypothesis that a single theorem adds is
named where the theorem is described:

* `AgentRunsProofs`: `TypeOK`, `AtMostOnce`, `DeniedNeverRuns`, `PendingInStore`.
  `AtMostOnce` alone is not inductive: nothing in it stops a call that was
  executed from being in the store. `IInv` adds `Unanswered` (a call in the store,
  or never asked for, has no effect and no denial), `Claims` (a call taken by an
  approval is held by one approval and is nowhere else), `PendingInStore` (the copy
  a restart restores is part of the store), `Ownership` and `Control` (where the
  turn is determines what its locals hold). Each group of actions has its lemma; the
  long ones are approvals, approve-all and the conversation.
* `AgentRunsProofs`, second part: `Spec => ImplementsLedger`. `LedgerState` gives each
  call its abstract state from where it is. `Lives` and the `...Moves` lemmas say
  which ledger step each handler takes; `IInv` supplies what the mapping needs
  (that a claimed call is neither queued nor executed).
* `AgentRunsProofs`, third part: `ResumedOnce` and `ChatMeansAnswered`, for every set of events.
  Neither follows from the guards of `Resume`: its turn stays among the suspended
  ones until the end of the conversation, and for ever when that fails. What makes
  them hold is `LastTurn` (a turn that has not continued has every call of its run
  that has not gone back to the model), with `Whole` and `Disjoint` (the calls of a
  turn are of one run and continue together; two copies of a turn are the same
  calls), `Truthful` (a recorded answer is what happened) and `Deciding` (a call that
  an approval executes or records has not gone back, because it was in the queue).
  `Conversing` has the calls of the run under way at each place of the turn. All
  these also hold of the copies a restart would restore, so `Restart` keeps them.
  The second part, `AwaitingIsActionable` and `NoStrandedTurn`, assumes `Calm`: no
  cancel, approve-all, hang-up or restart. Tool failures, policy refusals and denials
  are included. For `AwaitingIsActionable` each of the four is needed: with any one of
  them TLC finds it violated on two calls (`restart_between_answers` is the one
  that contradicts a document), because they answer or drop calls without going on
  with the turn. `NoStrandedTurn` fails with approve-all and with a hang-up only; with
  a cancel or a restart TLC finds no violation, and the proof does not cover it. The invariant says of each awaiting run where its turn is
  (`Awaiting`), that no call of a suspended turn is lost between queue, execution
  and answer (`NotLost`), and what a failed resume leaves behind (`Leftover`).
* `McpClientProofs`: `TypeOK`, `AnswerIsOwn`, `BoundedStarts`, `SlotsBalance`,
  `QuietInCooldown`. The strengthening: `Mutex` (one caller between lock and
  return), `Serials` (an id on the wire belongs to one request, so comparing ids is
  enough), `Writing` (the request about to be written is the last one built),
  `StartsCost` (every start since the last success, except one that is
  still running, has cost a failure). `SlotsBalance` is about the cardinality of the
  set of calls in progress and uses the library's facts on finite sets.

* `WorkflowRunsProofs`: `TypeOK`, `OneExecution`, `CancelReaches`, for any `Ops`
  (also with the approval endpoint that takes no lock, which both properties
  exempt), any window and any number of runs and requests. `OneExecution` is not
  inductive: a request between its lock and its execution, or between the end of it
  and its deferred calls, has the mutex too and is not executing. `LockHeld` says
  that every request from "locked" to "leaving" is the holder. `CancelReaches`
  needs `Registered`: where in the code a request is determines the run it has
  registered, and only the holder of the mutex writes `active`. `PlaceOK` has, for
  each place, what the locals of the request hold there (a parent only while a
  nested run executes, a call only before it is answered), `Unused` that runs not
  yet started have no record and no cancel function; `SessionOK`, `QueueOK` and
  `ServerOK` are the types.

* `WorkflowRunsProofs`, second part: `EndedStaysEnded`, from the assumption that no request
  uses the approval endpoint without the lock (the instance of `workflow_runs` leaves
  it out too). Cancels are not excluded, however many. `EInv` adds to `IInv` `KnownOp` (which
  operation a request carries out, where the code depends on it), `Fresh` (a run not yet
  started has no status), `HeldOK` and `SettledOK`: what a request holds to write, or
  will read again from the session's snapshot, is about the run it executes, or a cancel
  has put it there and it is an ending. What makes it delicate are the writes of others
  in that moment: a cancel takes no lock, and a new run can evict the one that is being
  written.

* `WorkflowRunsProofs`, third part: `ParentsKnowTheirChild`, from `NoRaces`: a request
  that uses an operation without the lock (cancel, the approval endpoint) is the only
  one. Any number of requests may start, retry, resume and nest runs at the same time.
  The assumption is needed: with a cancel beside an execution TLC finds a parent that
  waits for no run, because the name goes into the snapshot of whichever run was
  cancelled. `CInv` adds `NestedNamed` (a run that waits names a later run, or the
  request that executes it is about to name it) and, for each request, `NestingOK`: a
  nested run was started after its parent; between the pause and the name the
  snapshot is the parent's; a pause that is about to be recorded is that of a run
  that names its child. That no other request writes in between is `Sole`, from the
  mutex.

* `SessionStoreProofs`: `TypeOK` and `RecoverableNow`, for any workspaces with shared
  or separate files, any number of requests that switch, and any window. The
  invariant about the files is `FilesHeld`: the files of a path that nobody saves are
  `Settled` (session.json has the records of the last finished Save, and the archive
  has them or is not there), and while a Save is under way they satisfy its
  `Progress`: after each of its steps, which file still has the old records and which
  has the new ones. It is inductive only with `Control`: one Save at a time, owned by
  main, which is stopping, or by the switch that holds the mutexes (`Saver`,
  `Switching`), so that a Load never meets a Save in its middle. `TypeOK` needs
  `Numbered`: the numbers of a run's events increase and, before it completes, none is
  greater than the count of all events, so that the next number is in range; a
  migrated file of an older version satisfies it too.

* `SessionStoreProofs`, second part: `KeptAtStop` and `StreamDelivers`, for any
  workspaces, windows, histories, switches, kills and failing file operations, from
  `[]SwitchesAway`: no request holds the two mutexes for a path that is the served one
  already. The handler makes that comparison before it takes them, so with two
  requests it can fail, and `KeptAtStop` with it (section 4); with files of its own
  for every workspace and one request at a time it always holds (`EventsKeptAlone`,
  `StreamDeliveredAlone`). `Roles` says who is served and what may be saved: the served
  application, by main or by the switch that replaces it, while no turn runs.
  `KeptNow`: the session of a path (`Live`: the served one's, or what was saved last)
  has the last events recorded for the path, at every moment, not only when the
  process has stopped. `InOrder`: whatever can be served to the client now or after
  the next load, from either file of a Save cut short, has only later events behind
  the client's cursor, also after kills and failures. `SeenNow`: up to the cursor the
  client has been sent everything the session of its path holds; applications that
  were replaced recorded nothing that is not in it. What a stream sends is `Unsent`;
  that it picks the events above the cursor and keeps their order is a fact about a
  loop over a list of any length. `FiltersProofs` proves it once (`FilterPlaces`), by
  induction over a set of places (`UpTo`), which needs no operator as a parameter.

* `ResourceStoreProofs`: `TypeOK`, `NextStartAccepts` and `NeverReplacesUnasked`, for any
  modules, any number of requests and any imports. No lock protects the files, so the
  invariant says what does: a file nobody raced for has one request between looking
  and having saved it (`Alone`), and what is in its `.tmp` is that request's (`Own`);
  an inode is at one path at most, because it is created once (`Past`, `Inoded`).
  References stay good because only a delete takes a module away (`Known`), and a
  save goes on only after its check (`Checked`); the active configuration names
  providers that are there or were deleted (`Loaded`). A tool is two files, written
  and renamed code first, and looking for it means looking for its code: `Paired`
  (a configuration has its code) is what makes `Absent` (what may not be overwritten
  is not there) hold for the configuration as well. The lemmas on plans
  (`PlanFollows`, `PlanMoves`) say what is left of a save after each of its
  operations.

* `MemoryStoreProofs`: `TypeOK`, `FreshEntries` and `NothingLostAlone`, for any goroutines,
  items, workspace, limits and bases left from before. None is inductive, because each is
  about what a job does at one of its last operations and depends on what it read at
  an earlier one. A job's state is what it has left of its program, so the invariant
  first says which remainders there are: `Chain` has the operations that may come
  next (`Follows`), those that may come at all after another (`Later`), and which kind
  of job does them (`Allowed`); `ProgramProper` shows it of every program, by putting
  programs together (`ConcatChain`), and `TailProper` keeps it. On that rest `Fits`
  (what a job holds is the kind of content its next operation writes or reads: why no
  file ever gets another one's content), `Seen` (while a check runs, what the index in
  hand says of a file was true since the check began, or the file is yet to be
  summarised, or it has no entry in a full index), `KeepsBases` (a job that nobody
  overtook drops an item only from a full base, and is a restore when it makes active
  what the base has as retired) and `KeepsEdits` (a dashboard that has looked, and that
  nobody overtook, did not find the user's text). `KeepsEdits` is the reason for `Ends`:
  a dashboard that will write `project.md` has the write among its operations from
  its beginning, and so is marked when somebody else writes.

* `WorkflowGraphProofs`: `TypeOK`, `WaitsCanBeAnswered` and `ToolRunsOnce`, for any set of
  graphs that `GraphsAssumption` allows and any number of tool calls.
  `GraphsAssumption` asks no more than the types of a validated definition: stages
  that name stages of the graph, but any circle, join, repeat or strategy among them.
  The first two parts of the module say what each loop of the executor returns for
  every list: `Unique`, `Without`, `Named`, `NextOf`, `Branches`, `UntilJoin` give
  stages of the graph (by `FilterPlaces`, and `FlattenLoop` for the concatenation of
  lists), and every stage of a `Chain` but its last is one an agent can run
  (`ChainType`, by `Rounds`, the induction for a loop that runs a number of times).
  `WaitsCanBeAnswered` is not inductive. Output of a stage can be continued only if
  the stage is an agent's, so the call that came back incomplete must have been of
  such a stage; and that call may come several waits after the decision to make it:
  for a stage in a repeat, suspended on a tool, resumed and escalated.
  `Position` has what the executor is doing (a call is of a stage an agent can run, by
  itself or as the body of the repeat in `loop`), `Waiting` has the same of a stored
  run and of the call in the approval queue, and `CallsAhead`, for `ToolRunsOnce`, that
  no call later than the current one has run and that the current one, while the run
  waits for it, has not run either. There is one lemma for every action;
  `JoinStep` and `BranchFacts` are about the outcomes of concurrent branches.

* `WorkflowGraphProofs`, last part: `OneResultEach`, `JoinsWait` and `CompletedStays`,
  for the same graphs and calls, from `BodiesApart`: a body belongs to one repeat, and
  a contract it breaks can only block the run. The assumption is needed. A result is
  named after its stage or its iteration (`body[2]`), and the name does not tell whose
  iteration it is (`workflow_graph.go:5116`): two repeats with one body, or a repeat
  whose body breaks its contract and is rerouted to the repeat, record the same
  iteration again. The graphs of `workflow_graph` satisfy it. `Order`, which strengthens `IInv`, says which results a
  run has at each place of the executor (`Running`): at the head of the loop they are
  `Sound` (`Distinct`; `Joined`, joins after what they wait for; `Looped`, iterations only
  of repeats that ended or of the one under way, up to its round); at a call the stage
  or iteration has none yet (`Before`). What a stored run holds depends on the status
  it returned with (`HeldAt`): a run that is blocked or waits for output ends in the
  unfinished result (`AtStop`), and one that waits for a tool has the results from
  before the call, in the run and in the approval queue. So every resume finds again
  what the loop it enters relies on. `Kept` relates the two: while the run executes,
  every completed result of the stored run is among those it holds, whence
  `CompletedStays`. For concurrent branches, whose results are put together at the end,
  the stages of a branch have no result before (`BranchesFresh`), the plans of two
  branches share no stage (`PlansApart`, from the absence of `Conflict`), the
  concatenation is without repetition (`FlattenDistinct`), and a join has the results
  of every branch before it (`JoinOrder`).

Only model-checked: the liveness properties, because fairness and ENABLED are beyond
the prover. Every invariant and every other action property of the passing runs is
stated by a theorem, some of them under a hypothesis that its bullet above names and
explains.

## 6. Not modelled

The models stand for a small share of the lines. What is left out falls in four
groups.

* *No state of their own, or state nobody shares:* prompt building, quality
  scoring, compaction of conversations, artifacts, patches and exports, listings,
  status pages and metrics, the console and its commands, the terminal front end
  and the web assets, skills, templates and the texts of scaffolds and kits, the
  parsing and normalising of configuration and workflow files. These are the
  longest files of the repository (`cmd/goflow/main.go`,
  `internal/api/runtime_status.go`, most of `internal/agent/workflow_graph.go`
  beside the executor), and a model of them would be their transcription.
* *The operating system:* process isolation and sandboxing; a failure there is
  `StartFails` of `McpClient`.
* *Pure decisions:* the risk policy and model routing; the models take every
  decision they can return.
* *Finer or wider than the models go:* the three copies of a pending call are
  written in one step in `AgentRuns`; provider retry and fallback are one call that
  ends; the tool index and ambiguous names; the team's approvals that an input at a
  policy guard records as results of their own (`workflow_graph.go:4651`), which belong
  to no stage of the graph; hand-off between agents and the blackboard; more than one level of nested runs; the sets of blockers that
  keep a workspace from being switched.

`components` in `PROJECT.json` has each part's status. What would come next: the
approval store, the session's list and the run's copy with their steps apart, to be
composed with `ApprovalLedger`; the tool index with its refresh; hand-off and the
blackboard; and an abstract life of a workflow run that `WorkflowRuns` and
`WorkflowGraph` both implement.
