------------------------------ MODULE AgentRuns ------------------------------
(***************************************************************************)
(* Durable ordinary agent runs: the run records of the session, the        *)
(* approval queue of the runtime, and the HTTP handlers that share them.   *)
(*                                                                         *)
(*   session  (internal/session/agent_runs.go)  status, pendingCall,       *)
(*            pending, resumeCtx: every operation holds the session mutex, *)
(*            so each is one step here                                     *)
(*   runtime  (internal/agent/runtime.go)  store, annotated, suspensions,  *)
(*            answers: the approval store and the maps of suspended turns  *)
(*   server   (internal/api/agent_runs.go)  the goroutine or handler that  *)
(*            holds agentExecMu is "the turn"; pc is where it is, "idle"   *)
(*            when the mutex is free. Cancel, /api/approvals/approve-all   *)
(*            and requests that wait for the mutex run beside it.          *)
(*                                                                         *)
(* The model provider and the MCP servers are the environment: a chat      *)
(* returns any answer, a tool call returns or fails.                       *)
(***************************************************************************)
EXTENDS Naturals, FiniteSets

CONSTANTS
    Runs,        \* ids of ordinary agent runs
    Calls,       \* tool call ids that need approval
    NoRun, NoCall,
    Events,      \* which optional events of the environment may happen
    MaxWaiting   \* requests that wait for agentExecMu at one time

EventNames == {"cancel", "approveAll", "restart", "interrupt", "disconnect",
               "toolError", "policyReject", "denied"}

ASSUME AgentRunsAssumption ==
    /\ NoRun \notin Runs
    /\ NoCall \notin Calls
    /\ Events \subseteq EventNames
    /\ MaxWaiting \in Nat

VARIABLES
    status, pendingCall, pending, resumeCtx,           \* session, per run
    owner, store, annotated, suspensions, answers,     \* runtime
    pc, cur, ctxDone, batch, suspended, denied,        \* the turn: conversation
    target, every, decision, todo, held,               \* the turn: approval
    resuming, outcome,                                 \* the turn: its end
    active, lockQueue, cancels,                        \* server
    bulkTodo, bulkHeld,                                \* approve-all handler
    executed, refused, resumed                         \* history

sessionVars  == <<status, pendingCall, pending, resumeCtx>>
queueVars    == <<owner, store, annotated>>
resumeVars   == <<suspensions, answers>>
chatVars     == <<batch, suspended, denied>>
approvalVars == <<every, decision, todo, held>>
serverVars   == <<active, lockQueue, cancels>>
bulkVars     == <<bulkTodo, bulkHeld>>
history      == <<executed, refused, resumed>>

vars == <<sessionVars, queueVars, resumeVars, pc, cur, ctxDone, chatVars,
          approvalVars, target, resuming, outcome, serverVars, bulkVars, history>>

Status    == {"absent", "running", "cancelling", "awaiting", "paused",
              "completed", "failed", "cancelled", "denied"}
Terminal  == {"completed", "failed", "cancelled", "denied"}
Cancellable == {"running", "cancelling", "awaiting", "paused"}
Locations == {"idle", "starting", "chat", "tools", "check", "resolve",
              "execute", "record", "resume", "finish", "release"}
\* Where a policy denial stands among the results collected so far.
DeniedAt  == {"no", "before", "after"}
Answers   == {"none", "ok", "denied"}
Decisions == {"approve", "deny"}
\* What the turn still has to write to its run; "none": nothing.
Outcomes  == Terminal \cup {"awaiting", "paused", "none"}

Suspension == [calls : SUBSET Calls, denied : BOOLEAN]
NoContext  == [calls |-> {}, denied |-> FALSE]
Request    == [run : Runs, call : Calls, decision : Decisions, all : BOOLEAN]

TypeOK ==
    /\ status \in [Runs -> Status]
    /\ pendingCall \in [Runs -> Calls \cup {NoCall}]
    /\ pending \in [Runs -> SUBSET Calls]
    /\ resumeCtx \in [Runs -> Suspension]
    /\ owner \in [Calls -> Runs \cup {NoRun}]
    /\ store \subseteq Calls
    /\ annotated \subseteq Calls
    /\ suspensions \subseteq Suspension
    /\ answers \in [Calls -> Answers]
    /\ pc \in Locations
    /\ cur \in Runs \cup {NoRun}
    /\ ctxDone \in BOOLEAN
    /\ batch \subseteq Calls
    /\ suspended \subseteq Calls
    /\ denied \in DeniedAt
    /\ target \in Calls \cup {NoCall}
    /\ every \in BOOLEAN
    /\ decision \in Decisions
    /\ todo \subseteq Calls
    /\ held \in Calls \cup {NoCall}
    /\ resuming \subseteq Calls
    /\ outcome \in Outcomes
    /\ active \subseteq Runs
    /\ lockQueue \subseteq Request
    /\ cancels \subseteq Runs
    /\ bulkTodo \subseteq Calls
    /\ bulkHeld \in Calls \cup {NoCall}
    /\ executed \in [Calls -> Nat]
    /\ refused \subseteq Calls
    /\ resumed \in [Calls -> Nat]
-----------------------------------------------------------------------------
(* Shared operations                                                       *)

\* The suspended turn a call belongs to (ordinaryCallResumes).
SuspensionOf(c) == {s \in suspensions : c \in s.calls}

Queued(c)    == c \in store
Resumable(c) == Queued(c) /\ SuspensionOf(c) # {}

\* The call ids a run shows as pending.
PendingIds(r) == pending[r] \cup ({pendingCall[r]} \ {NoCall})

\* OrdinaryToolApprovalsResumable: all of them belong to one suspended turn.
OneTurn(ids) == ids # {} /\ \E s \in suspensions : ids \subseteq s.calls

\* Mutant: the item is read, not taken, so two callers can find it.
ResolveKeepsItem(c) ==
    LET r    == owner[c]
        rest == pending[r] \ {c}
    IN  /\ pending' = [pending EXCEPT ![r] = rest]
        /\ \E next \in IF rest = {} THEN {NoCall} ELSE rest :
              pendingCall' = [pendingCall EXCEPT ![r] = next]
        /\ UNCHANGED <<store, owner, annotated, status, resumeCtx>>

\* Mutant: ClearAgentRunPendingApproval is forgotten.
ResolveKeepsRunCopy(c) ==
    /\ store' = store \ {c}
    /\ UNCHANGED <<owner, annotated, sessionVars>>

\* Mutant: the run does not go on to the approval that remains.
ResolveForgetsRest(c) ==
    LET r == owner[c]
    IN  /\ store' = store \ {c}
        /\ pending' = [pending EXCEPT ![r] = @ \ {c}]
        /\ pendingCall' = [pendingCall EXCEPT ![r] = NoCall]
        /\ UNCHANGED <<owner, annotated, status, resumeCtx>>

\* ResolvePendingApproval: out of the store and off its run in one go; the
\* run then shows one of the approvals that remain (the code: the last). The
\* item itself, annotated or not, goes to the caller.
Resolve(c) ==
    LET r    == owner[c]
        rest == pending[r] \ {c}
    IN  /\ store' = store \ {c}
        /\ pending' = [pending EXCEPT ![r] = rest]
        /\ \E next \in IF rest = {} THEN {NoCall} ELSE rest :
              pendingCall' = [pendingCall EXCEPT ![r] = next]
        /\ UNCHANGED <<owner, annotated, status, resumeCtx>>

\* approvals.Add, then AppendAgentRunPendingApproval. It is also what
\* requeuePendingApproval does with an approval that policy refuses.
Queue(c, r) ==
    /\ store' = store \cup {c}
    /\ owner' = [owner EXCEPT ![c] = r]
    /\ status' = [status EXCEPT ![r] = "awaiting"]
    /\ pendingCall' = [pendingCall EXCEPT ![r] = c]
    /\ pending' = [pending EXCEPT ![r] = @ \cup {c}]
    /\ UNCHANGED <<annotated, resumeCtx>>

\* recordOrdinaryResumeResult: dropped unless the item names a captured turn.
Answer(c, a) ==
    answers' = IF c \in annotated THEN [answers EXCEPT ![c] = a] ELSE answers

\* Give up the turn with something to write to the run.
FinishWith(o) ==
    /\ pc' = "finish"
    /\ outcome' = o
-----------------------------------------------------------------------------
(* Starting a run                                                          *)

\* startAgentBackgroundWithRetry up to the run record: a retry differs only
\* in the run it names. TryLock, so it never waits.
StartRun(r) ==
    /\ pc = "idle"
    /\ status[r] = "absent"
    /\ status' = [status EXCEPT ![r] = "running"]
    /\ cur' = r
    /\ pc' = "starting"
    /\ UNCHANGED <<pendingCall, pending, resumeCtx, queueVars, resumeVars, ctxDone,
                   chatVars, approvalVars, target, resuming, outcome,
                   serverVars, bulkVars, history>>

\* registerActiveAgentRun, then the goroutine and its first model call.
Register ==
    /\ pc = "starting"
    /\ active' = active \cup {cur}
    /\ pc' = "chat"
    /\ UNCHANGED <<sessionVars, queueVars, resumeVars, cur, ctxDone, chatVars,
                   approvalVars, target, resuming, outcome, lockQueue, cancels,
                   bulkVars, history>>
-----------------------------------------------------------------------------
(* The conversation: continueConversation and the executor                 *)

\* The model answers without tools, or the iteration budget is spent on a
\* summary (an incomplete result pauses the run).
ChatAnswers ==
    /\ pc = "chat"
    /\ \E incomplete \in BOOLEAN :
         FinishWith(IF incomplete THEN "paused"
                    ELSE IF denied # "no" THEN "denied" ELSE "completed")
    /\ UNCHANGED <<sessionVars, queueVars, resumeVars, cur, ctxDone, chatVars,
                   approvalVars, target, resuming, serverVars, bulkVars, history>>

\* Mutant: the error is returned and FailAgentRun forgotten.
ChatFailsUnrecorded ==
    /\ pc = "chat"
    /\ pc' = "release"
    /\ resuming' = {}
    /\ UNCHANGED <<sessionVars, queueVars, resumeVars, cur, ctxDone, chatVars,
                   approvalVars, target, outcome, serverVars, bulkVars, history>>

\* The model call fails. A cancelled context is reported as such, except by
\* the summary after the iteration budget, which hides the cause.
ChatFails ==
    /\ pc = "chat"
    /\ \E o \in {"failed"} \cup (IF ctxDone THEN {"cancelled"} ELSE {}) : FinishWith(o)
    /\ resuming' = {}
    /\ UNCHANGED <<sessionVars, queueVars, resumeVars, cur, ctxDone, chatVars,
                   approvalVars, target, serverVars, bulkVars, history>>

\* The model asks for tools: new calls that need approval, and perhaps calls
\* policy refuses, before or after the first of them (with no call to wait for,
\* before all that come later). Calls that run at once leave no trace here.
ChatCallsTools ==
    /\ pc = "chat"
    /\ \E A \in SUBSET {c \in Calls : owner[c] = NoRun},
          d \in IF "denied" \in Events THEN DeniedAt ELSE {"no"} :
         /\ A = {} => d = "before"
         /\ batch' = A
         /\ denied' = IF denied = "no" THEN d ELSE denied
    /\ pc' = "tools"
    /\ suspended' = {}
    /\ UNCHANGED <<sessionVars, queueVars, resumeVars, cur, ctxDone, approvalVars,
                   target, resuming, outcome, serverVars, bulkVars, history>>

\* RunToolCalls on a call that needs approval: the approval event and
\* queueApprovalForAgentRun. The call will be annotated by Suspend.
QueueCall(c) ==
    /\ pc = "tools"
    /\ c \in batch
    /\ Queue(c, cur)
    /\ batch' = batch \ {c}
    /\ suspended' = suspended \cup {c}
    /\ target' = c
    /\ UNCHANGED <<resumeVars, pc, cur, ctxDone, denied, approvalVars, resuming,
                   outcome, serverVars, bulkVars, history>>

\* No call of the batch is suspended: observations go back to the model.
NextTurn ==
    /\ pc = "tools"
    /\ batch = {} /\ suspended = {}
    /\ pc' = "chat"
    /\ UNCHANGED <<sessionVars, queueVars, resumeVars, cur, ctxDone, chatVars,
                   approvalVars, target, resuming, outcome, serverVars, bulkVars, history>>

\* The results are emitted (a suspended one sets the status again and names
\* the last call), CaptureOrdinaryApprovalContext stores the turn in the
\* runtime and on the run, and agentRunStatusForResult picks the status.
Suspend ==
    /\ pc = "tools"
    /\ batch = {} /\ suspended # {}
    /\ LET turn == [calls |-> suspended, denied |-> denied # "no"]
       IN  /\ suspensions' = suspensions \cup {turn}
           /\ resumeCtx' = [resumeCtx EXCEPT ![cur] = turn]
    /\ annotated' = annotated \cup (suspended \cap store)
    /\ status' = [status EXCEPT ![cur] = "awaiting"]
    /\ pendingCall' = [pendingCall EXCEPT ![cur] = target]
    /\ FinishWith(IF denied = "before" THEN "denied" ELSE "awaiting")
    /\ UNCHANGED <<pending, owner, store, answers, cur, ctxDone, chatVars,
                   approvalVars, target, resuming, serverVars, bulkVars, history>>

\* Writing an event to a closed browser stream aborts a streamed turn.
StreamBreaks ==
    /\ "disconnect" \in Events
    /\ pc = "tools"
    /\ cur \notin active
    /\ FinishWith("failed")
    /\ batch' = {}
    /\ resuming' = {}
    /\ UNCHANGED <<sessionVars, queueVars, resumeVars, cur, ctxDone, suspended,
                   denied, approvalVars, target, serverVars, bulkVars, history>>
-----------------------------------------------------------------------------
(* Approving and denying                                                   *)

\* handleAgentRunToolApproval: the checks on a snapshot of the run.
Approvable(r, c, all) ==
    /\ status[r] = "awaiting"
    /\ c \in (IF pendingCall[r] # NoCall THEN {pendingCall[r]} ELSE pending[r])
    /\ IF all THEN PendingIds(r) \subseteq store /\ OneTurn(PendingIds(r))
              ELSE Resumable(c)

\* A foreground or streamed request passes the checks and waits for the mutex.
RequestApproval(r, c, d, all) ==
    /\ Cardinality(lockQueue) < MaxWaiting
    /\ Approvable(r, c, all)
    /\ lockQueue' = lockQueue \cup {[run |-> r, call |-> c, decision |-> d, all |-> all]}
    /\ UNCHANGED <<sessionVars, queueVars, resumeVars, pc, cur, ctxDone, chatVars,
                   approvalVars, target, resuming, outcome, active, cancels,
                   bulkVars, history>>

\* /api/approvals/{call}/{action}: finds the run through the approval and
\* never looks at the status of the run.
LegacyApproval(c, d) ==
    /\ Cardinality(lockQueue) < MaxWaiting
    /\ Resumable(c)
    /\ lockQueue' = lockQueue \cup
          {[run |-> owner[c], call |-> c, decision |-> d, all |-> FALSE]}
    /\ UNCHANGED <<sessionVars, queueVars, resumeVars, pc, cur, ctxDone, chatVars,
                   approvalVars, target, resuming, outcome, active, cancels,
                   bulkVars, history>>

\* What a turn that handles an approval starts from.
BeginApproval(r, c, d, all) ==
    /\ pc = "idle"
    /\ pc' = "check"
    /\ cur' = r
    /\ target' = c
    /\ every' = all
    /\ decision' = d
    /\ UNCHANGED <<sessionVars, queueVars, resumeVars, ctxDone, chatVars, todo, held,
                   resuming, outcome, cancels, bulkVars, history>>

\* The mutex is free and goes to one of the requests that wait.
TakeLock(w) ==
    /\ w \in lockQueue
    /\ BeginApproval(w.run, w.call, w.decision, w.all)
    /\ lockQueue' = lockQueue \ {w}
    /\ UNCHANGED active

\* startAgentRunBackgroundAction: TryLock, and the run can be cancelled.
ApproveInBackground(r, c, d, all) ==
    /\ Approvable(r, c, all)
    /\ BeginApproval(r, c, d, all)
    /\ active' = active \cup {r}
    /\ UNCHANGED lockQueue

\* Under the mutex a single action checks its call again. An action on all
\* calls takes what the run shows now, and looks for the suspended turn only.
CheckAgain ==
    LET shown == IF pending[cur] # {} THEN pending[cur] ELSE PendingIds(cur)
        valid == IF every THEN OneTurn(PendingIds(cur)) ELSE Resumable(target)
    IN  /\ pc = "check"
        /\ pc' = IF valid THEN "resolve" ELSE "release"
        /\ todo' = IF valid /\ every THEN shown ELSE IF valid THEN {target} ELSE {}
        /\ UNCHANGED <<sessionVars, queueVars, resumeVars, cur, ctxDone, chatVars,
                       target, every, decision, held, resuming, outcome,
                       serverVars, bulkVars, history>>

\* ApproveToolCall and DenyToolCall fail when somebody else was first.
ApprovalNotFound(c) ==
    /\ pc = "resolve"
    /\ c \in todo \ store
    /\ FinishWith("failed")
    /\ UNCHANGED <<sessionVars, queueVars, resumeVars, cur, ctxDone, chatVars, target,
                   approvalVars, resuming, serverVars, bulkVars, history>>

\* ApproveToolCall up to mcp.CallTool.
ClaimCall(c) ==
    /\ pc = "resolve" /\ decision = "approve"
    /\ c \in todo \cap store
    /\ Resolve(c)
    /\ held' = c
    /\ target' = c
    /\ pc' = "execute"
    /\ UNCHANGED <<resumeVars, cur, ctxDone, chatVars, every, decision, todo, resuming,
                   outcome, serverVars, bulkVars, history>>

\* Mutant: DenyToolCall does not look at Found.
DenyCallUnchecked(c) ==
    /\ pc = "resolve" /\ decision = "deny"
    /\ c \in todo
    /\ Resolve(c)
    /\ Answer(c, "denied")
    /\ refused' = refused \cup {c}
    /\ todo' = todo \ {c}
    /\ target' = c
    /\ pc' = "record"
    /\ UNCHANGED <<suspensions, cur, ctxDone, chatVars, every, decision, held, resuming,
                   outcome, serverVars, bulkVars, executed, resumed>>

\* DenyToolCall.
DenyCall(c) ==
    /\ pc = "resolve" /\ decision = "deny"
    /\ c \in todo \cap store
    /\ Resolve(c)
    /\ Answer(c, "denied")
    /\ refused' = refused \cup {c}
    /\ todo' = todo \ {c}
    /\ target' = c
    /\ pc' = "record"
    /\ UNCHANGED <<suspensions, cur, ctxDone, chatVars, every, decision, held, resuming,
                   outcome, serverVars, bulkVars, executed, resumed>>

\* The tool returns; the result waits for the rest of its turn.
ExecuteCall ==
    /\ pc = "execute"
    /\ executed' = [executed EXCEPT ![held] = @ + 1]
    /\ Answer(held, "ok")
    /\ todo' = todo \ {held}
    /\ held' = NoCall
    /\ pc' = "record"
    /\ UNCHANGED <<sessionVars, queueVars, suspensions, cur, ctxDone, chatVars, target,
                   every, decision, resuming, outcome, serverVars, bulkVars,
                   refused, resumed>>

\* Mutant: an approval whose tool fails is put back, as policy's are.
ExecuteFailsRequeues ==
    /\ pc = "execute"
    /\ "toolError" \in Events \/ ctxDone
    /\ \E n \in {0, 1} : executed' = [executed EXCEPT ![held] = @ + n]
    /\ Queue(held, owner[held])
    /\ held' = NoCall
    /\ FinishWith("failed")
    /\ UNCHANGED <<resumeVars, cur, ctxDone, chatVars, target, every, decision, todo,
                   resuming, serverVars, bulkVars, refused, resumed>>

\* The tool fails, or its context is cancelled, before or after its effect.
ExecuteFails ==
    /\ pc = "execute"
    /\ "toolError" \in Events \/ ctxDone
    /\ \E n \in {0, 1} : executed' = [executed EXCEPT ![held] = @ + n]
    /\ held' = NoCall
    /\ FinishWith("failed")
    /\ UNCHANGED <<sessionVars, queueVars, resumeVars, cur, ctxDone, chatVars, target,
                   every, decision, todo, resuming, serverVars, bulkVars,
                   refused, resumed>>

\* Risk policy, or the refusal to remember a tool, puts the approval back; the
\* handler still fails the run.
PolicyRejects ==
    /\ pc = "execute"
    /\ "policyReject" \in Events
    /\ Queue(held, owner[held])
    /\ held' = NoCall
    /\ FinishWith("failed")
    /\ UNCHANGED <<resumeVars, cur, ctxDone, chatVars, target, every, decision, todo,
                   resuming, serverVars, bulkVars, history>>

\* Mutant: a denied call ends the action, the turn waits for ever.
RecordResultOnDeny ==
    /\ pc = "record"
    /\ pc' = IF todo # {} THEN "resolve"
             ELSE IF decision = "deny" THEN "release" ELSE "resume"
    /\ UNCHANGED <<sessionVars, queueVars, resumeVars, cur, ctxDone, chatVars, target,
                   approvalVars, resuming, outcome, serverVars, bulkVars, history>>

\* The result is recorded as an event of the run.
RecordResult ==
    /\ pc = "record"
    /\ pc' = IF todo = {} THEN "resume" ELSE "resolve"
    /\ UNCHANGED <<sessionVars, queueVars, resumeVars, cur, ctxDone, chatVars, target,
                   approvalVars, resuming, outcome, serverVars, bulkVars, history>>

\* Mutant: the handler completes the run with the status it has not got.
ClientGoneFinishes ==
    /\ "disconnect" \in Events
    /\ pc = "record"
    /\ cur \notin active
    /\ pc' = "finish"
    /\ UNCHANGED <<sessionVars, queueVars, resumeVars, cur, ctxDone, chatVars, target,
                   approvalVars, resuming, outcome, serverVars, bulkVars, history>>

\* It is also written to the client of a streamed approval: if the client is
\* gone the handler returns and leaves the run as it is.
ClientGone ==
    /\ "disconnect" \in Events
    /\ pc = "record"
    /\ cur \notin active
    /\ pc' = "release"
    /\ UNCHANGED <<sessionVars, queueVars, resumeVars, cur, ctxDone, chatVars, target,
                   approvalVars, resuming, outcome, serverVars, bulkVars, history>>

\* Mutant: any result is enough.
AnsweredInPart(s) == \E c \in s.calls : answers[c] # "none"

Answered(s) == \A c \in s.calls : answers[c] # "none"

\* ResumeApprovedOrdinaryToolCall: every call of the turn has its result.
Resume(s) ==
    /\ pc = "resume"
    /\ s \in SuspensionOf(target) /\ Answered(s)
    /\ pc' = "chat"
    /\ resuming' = s.calls
    /\ denied' = IF s.denied \/ \E c \in s.calls : answers[c] = "denied"
                 THEN "before" ELSE "no"
    /\ resumed' = [c \in Calls |-> IF c \in s.calls THEN resumed[c] + 1 ELSE resumed[c]]
    /\ UNCHANGED <<sessionVars, queueVars, resumeVars, cur, ctxDone, batch, suspended,
                   target, approvalVars, outcome, serverVars, bulkVars,
                   executed, refused>>

\* Other calls of the turn still wait for the operator.
StayAwaiting ==
    /\ pc = "resume"
    /\ ~ \E s \in SuspensionOf(target) : Answered(s)
    /\ pc' = "release"
    /\ UNCHANGED <<sessionVars, queueVars, resumeVars, cur, ctxDone, chatVars, target,
                   approvalVars, resuming, outcome, serverVars, bulkVars, history>>
-----------------------------------------------------------------------------
(* The end of a turn                                                       *)

\* CompleteAgentRun, FailAgentRun or CancelAgentRun. Only the first keeps or
\* clears the approvals by the status; a failed run keeps them. A resumed turn
\* that did not fail is forgotten by clearOrdinaryResume.
Finish ==
    LET clears == outcome \in {"completed", "denied", "cancelled"}
    IN  /\ pc = "finish"
        /\ status' = [status EXCEPT ![cur] = outcome]
        /\ pendingCall' = [pendingCall EXCEPT ![cur] = IF clears THEN NoCall ELSE @]
        /\ pending' = [pending EXCEPT ![cur] = IF clears THEN {} ELSE @]
        /\ resumeCtx' = [resumeCtx EXCEPT
                            ![cur] = IF outcome \in Terminal THEN NoContext ELSE @]
        /\ suspensions' = {s \in suspensions : s.calls \cap resuming = {}}
        /\ answers' = [c \in Calls |-> IF c \in resuming THEN "none" ELSE answers[c]]
        /\ pc' = "release"
        /\ UNCHANGED <<queueVars, cur, ctxDone, chatVars, target, approvalVars, resuming,
                       outcome, serverVars, bulkVars, history>>

\* No turn: the locals of the handler have their initial values.
NoTurn ==
    /\ pc' = "idle" /\ cur' = NoRun /\ ctxDone' = FALSE
    /\ batch' = {} /\ suspended' = {} /\ denied' = "no"
    /\ target' = NoCall /\ every' = FALSE /\ decision' = "approve"
    /\ todo' = {} /\ held' = NoCall
    /\ resuming' = {} /\ outcome' = "none"

\* Mutant: the returns before the run is completed keep the mutex.
ReleaseAfterOutcome ==
    /\ pc = "release"
    /\ outcome # "none"
    /\ active' = active \ {cur}
    /\ NoTurn
    /\ UNCHANGED <<sessionVars, queueVars, resumeVars, lockQueue, cancels, bulkVars,
                   history>>

\* The deferred calls: unregisterActiveAgentRun, then agentExecMu.Unlock.
Release ==
    /\ pc = "release"
    /\ active' = active \ {cur}
    /\ NoTurn
    /\ UNCHANGED <<sessionVars, queueVars, resumeVars, lockQueue, cancels, bulkVars,
                   history>>

\* The client of a foreground turn goes away: its request context is done.
Disconnect ==
    /\ "disconnect" \in Events
    /\ pc \notin {"idle", "starting"} /\ cur \notin active
    /\ ctxDone' = TRUE
    /\ UNCHANGED <<sessionVars, queueVars, resumeVars, pc, cur, chatVars, target,
                   approvalVars, resuming, outcome, serverVars, bulkVars, history>>
-----------------------------------------------------------------------------
(* Cancel: a handler of its own, without the mutex                         *)

\* handleAgentRunCancel: the status is checked on a snapshot ...
RequestCancel(r) ==
    /\ "cancel" \in Events
    /\ status[r] \in Cancellable
    /\ cancels' = cancels \cup {r}
    /\ UNCHANGED <<sessionVars, queueVars, resumeVars, pc, cur, ctxDone, chatVars, target,
                   approvalVars, resuming, outcome, active, lockQueue, bulkVars, history>>

\* ... and used here. A run with a background goroutine has its context cancelled.
CancelActive(r) ==
    /\ r \in cancels \cap active
    /\ status' = [status EXCEPT ![r] = IF @ \in Terminal THEN @ ELSE "cancelling"]
    /\ ctxDone' = TRUE
    /\ cancels' = cancels \ {r}
    /\ UNCHANGED <<pendingCall, pending, resumeCtx, queueVars, resumeVars, pc, cur,
                   chatVars, target, approvalVars, resuming, outcome, active,
                   lockQueue, bulkVars, history>>

\* CancelAgentRunAndApprovals on any other run: the one call it shows leaves the
\* approval store, then all of them leave the run.
CancelPaused(r) ==
    /\ r \in cancels \ active
    /\ store' = store \ {pendingCall[r]}
    /\ status' = [status EXCEPT ![r] = "cancelled"]
    /\ pendingCall' = [pendingCall EXCEPT ![r] = NoCall]
    /\ pending' = [pending EXCEPT ![r] = {}]
    /\ resumeCtx' = [resumeCtx EXCEPT ![r] = NoContext]
    /\ cancels' = cancels \ {r}
    /\ UNCHANGED <<owner, annotated, resumeVars, pc, cur, ctxDone, chatVars, target,
                   approvalVars, resuming, outcome, active, lockQueue, bulkVars, history>>
-----------------------------------------------------------------------------
(* POST /api/approvals/approve-all: no mutex, no run, no resume            *)

BulkList ==
    /\ "approveAll" \in Events
    /\ bulkTodo = {} /\ bulkHeld = NoCall
    /\ bulkTodo' = store
    /\ UNCHANGED <<sessionVars, queueVars, resumeVars, pc, cur, ctxDone, chatVars, target,
                   approvalVars, resuming, outcome, serverVars, bulkHeld, history>>

BulkClaim(c) ==
    /\ bulkHeld = NoCall
    /\ c \in bulkTodo \cap store
    /\ Resolve(c)
    /\ bulkHeld' = c
    /\ bulkTodo' = bulkTodo \ {c}
    /\ UNCHANGED <<resumeVars, pc, cur, ctxDone, chatVars, target, approvalVars,
                   resuming, outcome, serverVars, history>>

\* The first approval that is gone ends the request.
BulkNotFound(c) ==
    /\ bulkHeld = NoCall
    /\ c \in bulkTodo \ store
    /\ bulkTodo' = {}
    /\ UNCHANGED <<sessionVars, queueVars, resumeVars, pc, cur, ctxDone, chatVars, target,
                   approvalVars, resuming, outcome, serverVars, bulkHeld, history>>

BulkExecute ==
    /\ bulkHeld # NoCall
    /\ executed' = [executed EXCEPT ![bulkHeld] = @ + 1]
    /\ Answer(bulkHeld, "ok")
    /\ bulkHeld' = NoCall
    /\ UNCHANGED <<sessionVars, queueVars, suspensions, pc, cur, ctxDone, chatVars, target,
                   approvalVars, resuming, outcome, serverVars, bulkTodo, refused, resumed>>

BulkExecuteFails ==
    /\ "toolError" \in Events
    /\ bulkHeld # NoCall
    /\ \E n \in {0, 1} : executed' = [executed EXCEPT ![bulkHeld] = @ + n]
    /\ bulkHeld' = NoCall
    /\ bulkTodo' = {}
    /\ UNCHANGED <<sessionVars, queueVars, resumeVars, pc, cur, ctxDone, chatVars, target,
                   approvalVars, resuming, outcome, serverVars, refused, resumed>>

BulkPolicyRejects ==
    /\ "policyReject" \in Events
    /\ bulkHeld # NoCall
    /\ Queue(bulkHeld, owner[bulkHeld])
    /\ bulkHeld' = NoCall
    /\ bulkTodo' = {}
    /\ UNCHANGED <<resumeVars, pc, cur, ctxDone, chatVars, target, approvalVars,
                   resuming, outcome, serverVars, history>>
-----------------------------------------------------------------------------
(* Restart                                                                 *)

\* The server saves the session when it stops; "interrupt": while a turn runs.
\* NewRuntime restores the approvals of the runs and of the session, and the
\* suspended turns, but no result of a call that was answered.
Restart ==
    /\ "restart" \in Events
    /\ pc = "idle" \/ "interrupt" \in Events
    /\ store' = store \cup UNION {pending[r] : r \in Runs}
    /\ annotated' = {c \in Calls : \E r \in Runs : c \in pending[r] \cap resumeCtx[r].calls}
    /\ suspensions' = {resumeCtx[r] : r \in Runs} \ {NoContext}
    /\ answers' = [c \in Calls |-> "none"]
    /\ NoTurn
    /\ active' = {} /\ lockQueue' = {} /\ cancels' = {}
    /\ bulkTodo' = {} /\ bulkHeld' = NoCall
    /\ UNCHANGED <<sessionVars, owner, history>>
-----------------------------------------------------------------------------
(* The specification                                                       *)

Init ==
    /\ status = [r \in Runs |-> "absent"]
    /\ pendingCall = [r \in Runs |-> NoCall]
    /\ pending = [r \in Runs |-> {}]
    /\ resumeCtx = [r \in Runs |-> NoContext]
    /\ owner = [c \in Calls |-> NoRun]
    /\ store = {} /\ annotated = {} /\ suspensions = {}
    /\ answers = [c \in Calls |-> "none"]
    /\ pc = "idle" /\ cur = NoRun /\ ctxDone = FALSE
    /\ batch = {} /\ suspended = {} /\ denied = "no"
    /\ target = NoCall /\ every = FALSE /\ decision = "approve"
    /\ todo = {} /\ held = NoCall
    /\ resuming = {} /\ outcome = "none"
    /\ active = {} /\ lockQueue = {} /\ cancels = {}
    /\ bulkTodo = {} /\ bulkHeld = NoCall
    /\ executed = [c \in Calls |-> 0]
    /\ refused = {}
    /\ resumed = [c \in Calls |-> 0]

ChatEnds == ChatAnswers \/ ChatFails

Conversation ==
    \/ ChatEnds \/ ChatCallsTools \/ NextTurn \/ Suspend \/ StreamBreaks
    \/ \E c \in Calls : QueueCall(c)

ApprovalSteps ==
    \/ CheckAgain
    \/ \E c \in Calls : ApprovalNotFound(c) \/ ClaimCall(c) \/ DenyCall(c)
    \/ ExecuteCall \/ ExecuteFails \/ PolicyRejects
    \/ RecordResult \/ ClientGone
    \/ (\E s \in suspensions : Resume(s)) \/ StayAwaiting

\* What the holder of agentExecMu does.
TurnStep == Register \/ Conversation \/ ApprovalSteps \/ Finish \/ Release

Operator ==
    \/ \E r \in Runs : StartRun(r) \/ RequestCancel(r)
    \/ \E r \in Runs, c \in Calls, d \in Decisions, all \in BOOLEAN :
          RequestApproval(r, c, d, all) \/ ApproveInBackground(r, c, d, all)
    \/ \E c \in Calls, d \in Decisions : LegacyApproval(c, d)
    \/ Disconnect

Cancel == \E r \in Runs : CancelActive(r) \/ CancelPaused(r)

Bulk ==
    \/ BulkList \/ BulkExecute \/ BulkExecuteFails \/ BulkPolicyRejects
    \/ \E c \in Calls : BulkClaim(c) \/ BulkNotFound(c)

TakeAnyLock == \E w \in lockQueue : TakeLock(w)

Next == Operator \/ TakeAnyLock \/ TurnStep \/ Cancel \/ Bulk \/ Restart

Spec == Init /\ [][Next]_vars

\* Goroutines run; MaxIterations ends every conversation; sync.Mutex gives the
\* lock to a waiter that starves for a millisecond, and TryLock then fails.
Fairness ==
    /\ WF_vars(TurnStep)
    /\ SF_vars(ChatEnds)
    /\ SF_vars(TakeAnyLock)

FairSpec == Spec /\ Fairness
-----------------------------------------------------------------------------
(* Correctness                                                             *)

\* A tool call that needs approval has its effect at most once, whichever of
\* the run actions, the approval endpoints, approve-all and a restart answer it:
\* approvalStore.Resolve hands an item to one caller, and nothing puts it back
\* after mcp.CallTool.
AtMostOnce == \A c \in Calls : executed[c] <= 1

\* A denied call never has its effect, and a call that had it is not denied.
DeniedNeverRuns == \A c \in refused : executed[c] = 0

\* An approval a run shows can still be answered: Resolve takes a call from the
\* store and from its run together, so the copy a restart restores from the run
\* never brings back a call that was answered.
PendingInStore ==
    \A r \in Runs : pending[r] \subseteq {c \in store : owner[c] = r}

\* The model is only called again when every call it asked for was executed or
\* refused (OpenAI-style providers reject a history with an unanswered call).
ChatMeansAnswered ==
    pc = "chat" => \A c \in Calls : owner[c] = cur => executed[c] > 0 \/ c \in refused

\* A suspended turn continues once: two answers that arrive together do not
\* make two conversations out of it.
ResumedOnce == \A c \in Calls : resumed[c] <= 1

\* When nothing runs, a run that says it awaits an approval names one that the
\* operator can answer.
AwaitingIsActionable ==
    pc = "idle" => \A r \in Runs : status[r] = "awaiting" =>
                     pendingCall[r] # NoCall /\ Resumable(pendingCall[r])

\* When nothing runs, no turn of an awaiting run has all its answers and yet was
\* not continued.
NoStrandedTurn ==
    pc = "idle" => \A s \in suspensions :
                     (\A c \in s.calls : status[owner[c]] = "awaiting") => ~ Answered(s)

\* A cancelled run leaves no approval behind that could still be granted.
CancelledIsEmpty ==
    pc = "idle" => \A c \in store : status[owner[c]] # "cancelled"

\* Nothing waits for the operator on behalf of a run that ended as denied.
DeniedIsEmpty ==
    pc = "idle" => \A c \in store : status[owner[c]] # "denied"

\* A request that waits for agentExecMu gets it, although background starts and
\* approvals try the same mutex all the time.
RequestsServed == lockQueue # {} ~> lockQueue = {}

\* A run that started does not say so for ever.
RunsSettle ==
    \A r \in Runs : status[r] \in {"running", "cancelling"} ~>
                     status[r] \notin {"running", "cancelling"}

\* The inductive invariant behind the proofs. What the place of the turn says:
\* it has a run, it holds a call only around mcp.CallTool, and it only ends with
\* something to write.
Control ==
    /\ pc # "idle" => cur \in Runs
    /\ batch # {} => pc = "tools"
    /\ held # NoCall <=> pc = "execute"
    /\ pc = "finish" => outcome # "none"

\* Every approval has a run, and a run shows approvals of its own.
Ownership ==
    /\ \A c \in store : owner[c] \in Runs
    /\ \A r \in Runs : pendingCall[r] # NoCall => owner[pendingCall[r]] = r
    /\ \A c \in batch : owner[c] = NoRun
    /\ pc = "tools" /\ suspended # {} => target # NoCall /\ owner[target] = cur

\* No call that waits, or that nobody asked for yet, has an answer.
Unanswered ==
    \A c \in Calls : c \in store \/ owner[c] = NoRun => executed[c] = 0 /\ c \notin refused

\* A call an approval holds is nowhere else.
Claims ==
    /\ held # NoCall => held # bulkHeld
    /\ \A c \in {held, bulkHeld} \ {NoCall} :
         owner[c] \in Runs /\ c \notin store /\ executed[c] = 0 /\ c \notin refused

IInv ==
    /\ TypeOK /\ Control /\ Ownership /\ PendingInStore /\ Unanswered /\ Claims
    /\ AtMostOnce /\ DeniedNeverRuns

\* The queue, both ways of approving and the restart implement the ledger.
LedgerState ==
    [c \in Calls |->
        IF c \in {held, bulkHeld} THEN "claimed"
        ELSE IF executed[c] > 0   THEN "executed"
        ELSE IF c \in refused     THEN "refused"
        ELSE IF c \in store       THEN "queued"
        ELSE IF owner[c] = NoRun  THEN "new" ELSE "gone"]

Ledger == INSTANCE ApprovalLedger WITH state <- LedgerState

ImplementsLedger == Ledger!LedgerSpec
=============================================================================
