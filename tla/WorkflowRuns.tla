----------------------------- MODULE WorkflowRuns -----------------------------
(***************************************************************************)
(* The durable runs of graph workflows and the requests that work on them: *)
(* the handlers of internal/api/workflow_runs.go, the runner's entry       *)
(* points in internal/agent/workflow.go and the run list of                *)
(* internal/session/workflow_runs.go.                                      *)
(*                                                                         *)
(* A request is a goroutine of the server. It reads the run, checks its    *)
(* status, waits for workflowExecMu (or gives up, when the caller asked    *)
(* for a background run), registers a cancel function, checks the status   *)
(* again and executes. Cancelling takes no lock. What an execution does    *)
(* inside is the subject of WorkflowGraph; here it is one of its outcomes. *)
(* All runs are runs of the same workflow with the same request text, as a *)
(* run and its retries are.                                                *)
(***************************************************************************)
EXTENDS Naturals, Sequences, FiniteSets, SequencesExt

CONSTANTS
    Requests,       \* goroutines of the server
    MaxStarts,      \* bound: runs that are ever started
    MaxCalls,       \* bound: tool calls that need an approval
    Window,         \* maxWorkflowRuns: how many runs the session keeps
    Outcomes,       \* what an execution may end with, beside errors
    Ops             \* what each request may ask for: subsets of OpNames

OpNames == {"start", "retry", "approve", "tool", "deny", "input", "child",
            "continue", "escalate", "budget", "cancel", "legacy", "legacyDeny",
            "sub", "gone"}

ASSUME ConstantsAssumption ==
    /\ MaxStarts \in Nat /\ MaxCalls \in Nat /\ Window \in Nat \ {0}
    /\ Ops \in [Requests -> SUBSET OpNames]
    /\ Outcomes \subseteq {"completed", "blocked", "awaiting_approval",
                           "awaiting_input", "awaiting_tool_approval",
                           "paused_need_more_budget", "awaiting_budget_approval"}

Runs   == 1..MaxStarts
Calls  == 1..MaxCalls
NoRun  == 0
NoCall == 0
Nobody == "nobody"          \* the mutex is free; no cancel function
Gone   == "gone"            \* the cancel function of a request that returned

ASSUME NobodyAssumption == Nobody \notin Requests /\ Gone \notin Requests

VARIABLES
    list,       \* session.workflowRuns: the runs it keeps, newest first
    runs,       \* their records
    started,    \* how many runs were started
    current,    \* session.workflow: the one snapshot of "the" workflow
    store,      \* the calls in the approval queue
    approved,   \* approvedWorkflowResumes: approved calls, never removed
    active,     \* activeWorkflowRuns: whose cancel function a run has
    execMu,     \* who holds workflowExecMu
    req,        \* the goroutines
    owner,      \* history: the run that asked for a call
    toolRuns    \* history: how often a call's tool was executed

session == <<list, runs, started, current>>
queue   == <<store, approved>>
vars    == <<session, queue, active, execMu, req, owner, toolRuns>>

Paused == {"awaiting_approval", "awaiting_input", "awaiting_tool_approval",
           "awaiting_sub_workflow", "paused_need_more_budget",
           "awaiting_budget_approval"}

\* isTerminalWorkflowStatus
Terminal == {"completed", "denied", "failed", "blocked", "cancelled"}

Statuses == Paused \cup Terminal \cup {"running", "cancelling"}

\* workflowRunStatusCancellable
Cancellable == Paused \cup {"running", "cancelling"}

\* workflowRunStatusActive without the two pauses a retry is allowed in
Busy == {"running", "cancelling"}

\* The stage a run is at: none yet, the stage whose tool needs approval, another.
Stages == {"none", "tool", "other"}

StageOf(status) ==
    CASE status = "awaiting_tool_approval" -> "tool"
      [] status \in {"completed", "failed"} -> "none"
      [] OTHER                              -> "other"

Visible == ToSet(list)

NoSnapshot == [run |-> NoRun, status |-> "none", stage |-> "none",
               call |-> NoCall, child |-> NoRun]

\* snap is the snapshot a request is about to write, next where it goes on then.
IdleRequest ==
    [pc |-> "idle", op |-> "none", run |-> NoRun, parent |-> NoRun, child |-> NoRun, hook |-> NoRun,
     seen |-> FALSE, out |-> "none", call |-> NoCall, target |-> Nobody,
     background |-> FALSE, cancelled |-> FALSE, snap |-> NoSnapshot, next |-> "none"]

Pcs == {"idle", "asked", "locked", "started", "registered", "checked", "admitted",
        "answer", "running", "suspended", "set", "write", "persisted", "waits",
        "naming", "failSet", "failed", "leaving",
        "cancel", "cancelActive", "cancelPaused", "cancelMark", "cancelSet", "legacy"}

\* The run a request is responsible for: the outermost one of a nested execution.
Top(t) == IF req[t].parent # NoRun THEN req[t].parent ELSE req[t].run

\* The request works on run r: it may still write the run's status.
Working == {"started", "checked", "admitted", "answer", "running", "suspended",
            "set", "write", "persisted", "waits", "naming", "failSet", "failed"}

Executes(t, r) == req[t].pc \in Working /\ r \in {req[t].run, req[t].parent}

NoRecord == [status |-> "none", stage |-> "none", call |-> NoCall, child |-> NoRun,
             attempt |-> 0]

Init ==
    /\ list = <<>> /\ runs = [r \in Runs |-> NoRecord] /\ started = 0
    /\ current = NoSnapshot
    /\ store = {} /\ approved = {}
    /\ active = [r \in Runs |-> Nobody]
    /\ execMu = Nobody
    /\ req = [t \in Requests |-> IdleRequest]
    /\ owner = [c \in Calls |-> NoRun]
    /\ toolRuns = [c \in Calls |-> 0]

------------------------------------------------------------------------------
(* The session's run list                                                  *)

\* Mutant: the list is not trimmed.
PrependAll(r, record) ==
    /\ list' = <<r>> \o list
    /\ runs' = [runs EXCEPT ![r] = record]

\* The newest Window runs are kept, whatever the status of the oldest.
Prepend(r, record) ==
    LET kept == SubSeq(<<r>> \o list, 1, IF Len(list) < Window THEN Len(list) + 1 ELSE Window)
    IN  /\ list' = kept
        /\ runs' = [x \in Runs |-> IF x = r THEN record
                                   ELSE IF x \in ToSet(kept) THEN runs[x] ELSE NoRecord]

\* StartWorkflowRunWithOptions and SetWorkflow
StartRun(r, retryOf) ==
    LET attempt == IF retryOf = NoRun THEN 1
                   ELSE IF retryOf \in Visible THEN runs[retryOf].attempt + 1 ELSE 2
    IN  /\ Prepend(r, [NoRecord EXCEPT !.status = "running", !.attempt = attempt])
        /\ started' = r
        /\ current' = [run |-> r, status |-> "running", stage |-> "none",
                       call |-> NoCall, child |-> NoRun]

\* UpdateWorkflowRunState: the run takes over the snapshot; a run that was
\* evicted comes back, at the front.
UpdateRun(s) ==
    LET record == [runs[s.run] EXCEPT !.status = s.status, !.stage = s.stage,
                                      !.call = s.call, !.child = s.child]
    IN  /\ IF s.run \in Visible THEN runs' = [runs EXCEPT ![s.run] = record] /\ UNCHANGED list
           ELSE Prepend(s.run, record)
        /\ UNCHANGED started

\* SetWorkflow; UpdateWorkflowRunState with the same snapshot is a step of its
\* own (Write), and then the request goes on as q.
Persist(t, s, q) ==
    /\ current' = s
    /\ req' = [req EXCEPT ![t] = [q EXCEPT !.pc = "write", !.snap = s, !.next = q.pc]]
    /\ UNCHANGED <<list, runs, started>>

\* CompleteWorkflowRun: nothing happens to a run that was evicted.
CompleteRun(r, status) ==
    /\ runs' = IF r \notin Visible THEN runs ELSE
                 [runs EXCEPT ![r] =
                    [@ EXCEPT !.status = status, !.stage = StageOf(status),
                       !.call = IF status = "awaiting_tool_approval" THEN runs[r].call ELSE NoCall,
                       !.child = IF status = "awaiting_sub_workflow" THEN runs[r].child ELSE NoRun]]
    /\ UNCHANGED <<list, started, current>>

Cancelled(r) == [run |-> r, status |-> "cancelled", stage |-> runs[r].stage,
                 call |-> NoCall, child |-> NoRun]

\* CancelWorkflowRun, of a run that the session still keeps; the SetWorkflow of
\* both its callers is a step of its own (SetCancelled).
CancelRun(r) ==
    /\ runs' = [runs EXCEPT ![r] = [@ EXCEPT !.status = "cancelled",
                                      !.call = NoCall, !.child = NoRun]]
    /\ current' = IF current.run = r THEN Cancelled(r) ELSE current
    /\ UNCHANGED <<list, started>>

\* RequestWorkflowRunCancel
RequestCancel(r) ==
    IF r \notin Visible THEN UNCHANGED session
    ELSE LET status == IF runs[r].status \in Terminal THEN runs[r].status
                       ELSE "cancelling"
         IN  /\ runs' = [runs EXCEPT ![r].status = status]
             /\ current' = IF current.run = r
                           THEN [current EXCEPT !.status = status] ELSE current
             /\ UNCHANGED <<list, started>>

------------------------------------------------------------------------------
(* The handlers: read the run, check its status, ask for the lock          *)

\* Mutant: a background action does not ask for the lock.
TakeAnyway(t, ask) ==
    \/ /\ req' = [req EXCEPT ![t] = [ask EXCEPT !.pc = "asked"]]
       /\ UNCHANGED execMu
    \/ /\ execMu' = t
       /\ req' = [req EXCEPT ![t] = [ask EXCEPT !.pc = "locked", !.background = TRUE]]

\* A plain or streaming request waits for the lock; a background request takes
\* it at once or is refused (startWorkflowBackground and
\* startWorkflowRunBackgroundAction).
Take(t, ask) ==
    \/ /\ req' = [req EXCEPT ![t] = [ask EXCEPT !.pc = "asked"]]
       /\ UNCHANGED execMu
    \/ /\ execMu = Nobody /\ execMu' = t
       /\ req' = [req EXCEPT ![t] = [ask EXCEPT !.pc = "locked", !.background = TRUE]]

Ask(t, op, r) ==
    /\ op \in Ops[t] /\ req[t].pc = "idle"
    /\ Take(t, [IdleRequest EXCEPT !.op = op, !.run = r])
    /\ UNCHANGED <<session, queue, active, owner, toolRuns>>

AskStart(t) == started < MaxStarts /\ Ask(t, "start", NoRun)

\* A retry is refused only while the run executes.
AskRetry(t, r) ==
    started < MaxStarts /\ runs[r].status \notin Busy /\ Ask(t, "retry", r)

AskApproval(t, r) == runs[r].status = "awaiting_approval" /\ Ask(t, "approve", r)

\* CanResumeToolApproval: a graph workflow's context can always be rebuilt.
AskToolApproval(t, r) ==
    /\ runs[r].status = "awaiting_tool_approval" /\ runs[r].call # NoCall
    /\ \E op \in {"tool", "deny"} : Ask(t, op, r)

AskInput(t, r) == runs[r].status = "awaiting_input" /\ Ask(t, "input", r)

ChildCompleted(r) ==
    /\ runs[r].child \in Visible
    /\ runs[runs[r].child].status = "completed"

AskSubWorkflow(t, r) ==
    runs[r].status = "awaiting_sub_workflow" /\ ChildCompleted(r) /\ Ask(t, "child", r)

AskContinue(t, r) ==
    runs[r].status = "paused_need_more_budget" /\ Ask(t, "continue", r)

AskEscalate(t, r) == runs[r].status = "blocked" /\ Ask(t, "escalate", r)

AskBudget(t, r) ==
    runs[r].status = "awaiting_budget_approval" /\ Ask(t, "budget", r)

\* Sync requests: s.workflowExecMu.Lock()
Lock(t) ==
    /\ req[t].pc = "asked" /\ execMu = Nobody
    /\ execMu' = t
    /\ req' = [req EXCEPT ![t].pc = "locked"]
    /\ UNCHANGED <<session, queue, active, owner, toolRuns>>

------------------------------------------------------------------------------
(* Execution, under the lock                                               *)

\* WorkflowRunner.Run: the run is visible before its cancel function is known.
Start(t) ==
    /\ req[t].pc = "locked" /\ req[t].op \in {"start", "retry"}
    /\ IF started < MaxStarts
       THEN LET r == started + 1 IN
            /\ StartRun(r, req[t].run)
            /\ req' = [req EXCEPT ![t].pc = "started", ![t].run = r]
       ELSE req' = [req EXCEPT ![t].pc = "leaving"] /\ UNCHANGED session
    /\ UNCHANGED <<queue, active, execMu, owner, toolRuns>>

\* The hook of runWorkflowWithCancelHook sees nested runs too, and the run it
\* saw last is the one that is unregistered in the end.
RegisterStarted(t) ==
    /\ req[t].pc = "started"
    /\ IF req[t].op \in {"start", "retry"}
       THEN /\ active' = [active EXCEPT ![req[t].run] = t]
            /\ req' = [req EXCEPT ![t].pc = "running", ![t].hook = req[t].run]
       ELSE /\ req' = [req EXCEPT ![t].pc = "running"]
            /\ UNCHANGED active
    /\ UNCHANGED <<session, queue, execMu, owner, toolRuns>>

\* Mutant: a resumed run has no cancel function.
RegisterNothing(t) ==
    /\ req[t].pc = "locked" /\ req[t].op \notin {"start", "retry"}
    /\ req' = [req EXCEPT ![t].pc = "registered"]
    /\ UNCHANGED <<session, queue, active, execMu, owner, toolRuns>>

RegisterResumed(t) ==
    /\ req[t].pc = "locked" /\ req[t].op \notin {"start", "retry"}
    /\ active' = [active EXCEPT ![req[t].run] = t]
    /\ req' = [req EXCEPT ![t].pc = "registered"]
    /\ UNCHANGED <<session, queue, execMu, owner, toolRuns>>

\* The status each entry point of the runner checks again.
Awaits(op) ==
    CASE op = "approve"            -> {"awaiting_approval"}
      [] op \in {"tool", "deny"}   -> {"awaiting_tool_approval"}
      [] op = "input"              -> {"awaiting_input"}
      [] op = "child"              -> {"awaiting_sub_workflow"}
      [] op = "continue"           -> {"paused_need_more_budget"}
      [] op = "escalate"           -> {"blocked"}
      [] op = "budget"             -> {"awaiting_budget_approval"}

\* Mutant: the runner trusts the check of the handler.
AdmitAnyway(t) == TRUE

\* pendingToolApprovalFromRun: the run names the call to be answered.
NamesCall(r) == runs[r].call # NoCall

Admissible(t) ==
    LET r == req[t].run IN
    /\ r \in Visible
    /\ runs[r].status \in Awaits(req[t].op)
    /\ req[t].op \in {"tool", "deny"} => NamesCall(r)
    /\ req[t].op = "child" => ChildCompleted(r)

\* ResumeApproval, ResumeInput, ResumeToolApproval, ... read the run and check
\* it. What they go on with is what they read: a cancel, which takes no lock, is
\* overwritten by what follows.
Check(t) ==
    /\ req[t].pc = "registered" /\ Admissible(t)
    /\ LET r    == req[t].run
           call == IF req[t].op \in {"tool", "deny"} THEN runs[r].call ELSE NoCall
       IN  req' = [req EXCEPT ![t].pc = "checked", ![t].call = call,
                     ![t].snap = [run |-> r, status |-> "running",
                                  stage |-> runs[r].stage, call |-> call, child |-> NoRun]]
    /\ UNCHANGED <<session, queue, active, execMu, owner, toolRuns>>

\* SetWorkflow
Admit(t) ==
    /\ req[t].pc = "checked"
    /\ current' = req[t].snap
    /\ req' = [req EXCEPT ![t].pc = "admitted", ![t].snap = NoSnapshot]
    /\ UNCHANGED <<list, runs, started, queue, active, execMu, owner, toolRuns>>

Refuse(t) ==
    /\ req[t].pc = "registered" /\ ~Admissible(t)
    /\ req' = [req EXCEPT ![t].pc = "leaving"]
    /\ UNCHANGED <<session, queue, active, execMu, owner, toolRuns>>

\* UpdateWorkflowRunState(session.Snapshot().Workflow): the snapshot is read
\* again, and a cancel of another run may have replaced it.
Reread(t) ==
    /\ req[t].pc = "admitted"
    /\ req' = [req EXCEPT ![t].pc = "write", ![t].snap = current,
                 ![t].next = IF req[t].call = NoCall THEN "running" ELSE "answer"]
    /\ UNCHANGED <<session, queue, active, execMu, owner, toolRuns>>

\* UpdateWorkflowRunState of what was set or read before
Write(t) ==
    /\ req[t].pc = "write"
    /\ UpdateRun(req[t].snap)
    /\ req' = [req EXCEPT ![t] = [@ EXCEPT !.pc = req[t].next,
                                     !.snap = NoSnapshot, !.next = "none"]]
    /\ UNCHANGED <<current, queue, active, execMu, owner, toolRuns>>

\* approveWorkflowGraphTool: the call leaves the queue, the tool runs.
AnswerApproved(t) ==
    /\ req[t].pc = "answer" /\ req[t].op \notin {"deny", "legacyDeny"}
    /\ LET c == req[t].call IN
       /\ store' = store \ {c}
       /\ approved' = IF c \in store THEN approved \cup {c} ELSE approved
       /\ toolRuns' = [toolRuns EXCEPT ![c] = IF @ < 2 THEN @ + 1 ELSE @]
    /\ req' = [req EXCEPT ![t].pc = "running", ![t].call = NoCall]
    /\ UNCHANGED <<session, active, execMu, owner>>

Snapshot(t, status, call, child) ==
    [run |-> req[t].run, status |-> status, stage |-> StageOf(status),
     call |-> call, child |-> child]

\* resumeWorkflowGraph with approve = false
AnswerDenied(t) ==
    /\ req[t].pc = "answer" /\ req[t].op \in {"deny", "legacyDeny"}
    /\ store' = store \ {req[t].call}
    /\ approved' = approved \ {req[t].call}
    /\ Persist(t, Snapshot(t, "denied", NoCall, NoRun),
               [req[t] EXCEPT !.pc = "persisted", !.out = "denied"])
    /\ UNCHANGED <<active, execMu, owner, toolRuns>>

\* persistWorkflowState of the last or the pausing stage
Finish(t) ==
    /\ req[t].pc = "running"
    /\ \E o \in Outcomes \ {"awaiting_tool_approval"} :
          Persist(t, Snapshot(t, o, NoCall, NoRun),
                  [req[t] EXCEPT !.pc = "persisted", !.out = o])
    /\ UNCHANGED <<queue, active, execMu, owner, toolRuns>>

\* A stage asks for a tool that needs approval: the call enters the queue.
AskTool(t) ==
    /\ req[t].pc = "running" /\ "awaiting_tool_approval" \in Outcomes
    /\ \E c \in Calls :
          /\ owner[c] = NoRun /\ \A d \in 1..(c - 1) : owner[d] # NoRun
          /\ owner' = [owner EXCEPT ![c] = req[t].run]
          /\ store' = store \cup {c}
    /\ req' = [req EXCEPT ![t].pc = "suspended"]
    /\ UNCHANGED <<session, approved, active, execMu, toolRuns>>

\* persistWorkflowState looks for the call of its run in the queue, by the name
\* of the workflow and the stage; of several it takes the one whose id is first.
FindCall(t) ==
    /\ req[t].pc = "suspended"
    /\ \E c \in IF store = {} THEN {NoCall} ELSE store :
          req' = [req EXCEPT ![t].pc = "set", ![t].out = "awaiting_tool_approval",
                    ![t].snap = Snapshot(t, "awaiting_tool_approval", c, NoRun)]
    /\ UNCHANGED <<session, queue, active, execMu, owner, toolRuns>>

\* Mutant: the snapshot is set, and the run is forgotten.
SetOnly(t) ==
    /\ req[t].pc = "set"
    /\ current' = req[t].snap
    /\ req' = [req EXCEPT ![t].pc = "persisted", ![t].snap = NoSnapshot]
    /\ UNCHANGED <<list, runs, started, queue, active, execMu, owner, toolRuns>>

\* SetWorkflow of what was found or named
Set(t) ==
    /\ req[t].pc = "set"
    /\ Persist(t, req[t].snap, [req[t] EXCEPT !.pc = "persisted"])
    /\ UNCHANGED <<queue, active, execMu, owner, toolRuns>>

\* A sub_workflow stage runs another run inside this request.
StartChild(t) ==
    /\ "sub" \in Ops[t] /\ req[t].pc = "running" /\ req[t].parent = NoRun
    /\ started < MaxStarts
    /\ StartRun(started + 1, NoRun)
    /\ req' = [req EXCEPT ![t].pc = "started", ![t].parent = req[t].run,
                          ![t].run = started + 1]
    /\ UNCHANGED <<queue, active, execMu, owner, toolRuns>>

\* failWorkflowRun, for the nested run first: the run is cancelled when the
\* context is, be it by a cancel or because the client of a request that is not
\* in the background went away.
ContextDone(t) == req[t].cancelled \/ ("gone" \in Ops[t] /\ ~req[t].background)

Fail(t) ==
    /\ req[t].pc = "running"
    /\ \/ /\ ContextDone(t) /\ req[t].run \in Visible
          /\ CancelRun(req[t].run)
          /\ req' = [req EXCEPT ![t].pc = "failSet", ![t].snap = Cancelled(req[t].run)]
       \/ /\ ContextDone(t) /\ req[t].run \notin Visible
          /\ req' = [req EXCEPT ![t].pc = "failed"]
          /\ UNCHANGED session
       \/ /\ ~req[t].cancelled
          /\ Persist(t, Snapshot(t, "failed", NoCall, NoRun), [req[t] EXCEPT !.pc = "failed"])
    /\ UNCHANGED <<queue, active, execMu, owner, toolRuns>>

\* The error goes up: to the parent, which goes on with it, or to the handler.
Return(t) ==
    /\ req[t].pc = "failed"
    /\ req' = IF req[t].parent = NoRun THEN [req EXCEPT ![t].pc = "leaving"]
              ELSE [req EXCEPT ![t].pc = "running", ![t].run = req[t].parent,
                               ![t].parent = NoRun]
    /\ UNCHANGED <<session, queue, active, execMu, owner, toolRuns>>

\* completeWorkflowRun
Record(t) ==
    /\ req[t].pc = "persisted" /\ req[t].parent = NoRun
    /\ CompleteRun(req[t].run, req[t].out)
    /\ req' = [req EXCEPT ![t].pc = "leaving", ![t].out = "none"]
    /\ UNCHANGED <<queue, active, execMu, owner, toolRuns>>

\* PendingApproval, PendingInput or PendingSubWorkflow of a result
Suspends == {"awaiting_approval", "awaiting_input", "awaiting_tool_approval"}

\* completeWorkflowRun of the nested run; the parent goes on with its next
\* stage or waits for the nested run.
RecordChild(t) ==
    /\ req[t].pc = "persisted" /\ req[t].parent # NoRun
    /\ CompleteRun(req[t].run, req[t].out)
    /\ req' = [req EXCEPT ![t].run = req[t].parent, ![t].parent = NoRun,
                 ![t].out = "none",
                 ![t].child = IF req[t].out \in Suspends THEN req[t].run ELSE NoRun,
                 ![t].pc = IF req[t].out \in Suspends THEN "waits" ELSE "running"]
    /\ UNCHANGED <<queue, active, execMu, owner, toolRuns>>

\* persistWorkflowSubWorkflowState persists the state and then names the child
\* in whatever the session's snapshot is by then.
WaitForChild(t) ==
    /\ req[t].pc = "waits"
    /\ Persist(t, Snapshot(t, "awaiting_sub_workflow", NoCall, NoRun),
               [req[t] EXCEPT !.pc = "naming"])
    /\ UNCHANGED <<queue, active, execMu, owner, toolRuns>>

NameChild(t) ==
    /\ req[t].pc = "naming"
    /\ req' = [req EXCEPT ![t].pc = "set", ![t].child = NoRun,
                 ![t].out = "awaiting_sub_workflow",
                 ![t].snap = [current EXCEPT !.child = req[t].child]]
    /\ UNCHANGED <<session, queue, active, execMu, owner, toolRuns>>

\* Mutant: the lock is kept when the execution failed.
LeaveLocked(t) ==
    /\ req[t].pc = "leaving"
    /\ req' = [req EXCEPT ![t] = IdleRequest]
    /\ UNCHANGED <<session, queue, active, execMu, owner, toolRuns>>

\* The deferred calls: unregisterActiveWorkflowRun, cancel, Unlock. A cancel
\* function that is still registered, or held by somebody, does nothing now.
Leave(t) ==
    /\ req[t].pc = "leaving"
    /\ LET r == IF req[t].op \in {"start", "retry"} THEN req[t].hook ELSE req[t].run
           unregisters == req[t].op \notin {"legacy", "legacyDeny"}
       IN  active' = [x \in Runs |-> IF x = r /\ unregisters THEN Nobody
                                     ELSE IF active[x] = t THEN Gone ELSE active[x]]
    /\ execMu' = IF execMu = t THEN Nobody ELSE execMu
    /\ req' = [u \in Requests |-> IF u = t THEN IdleRequest
                                  ELSE IF req[u].target = t
                                       THEN [req[u] EXCEPT !.target = Gone] ELSE req[u]]
    /\ UNCHANGED <<session, queue, owner, toolRuns>>

------------------------------------------------------------------------------
(* Requests that take no lock                                              *)

\* handleWorkflowRunCancel has read the run.
AskCancel(t, r) ==
    /\ "cancel" \in Ops[t] /\ req[t].pc = "idle"
    /\ req' = [req EXCEPT ![t] = [IdleRequest EXCEPT !.pc = "cancel", !.op = "cancel",
                                     !.run = r, !.seen = runs[r].status \in Cancellable]]
    /\ UNCHANGED <<session, queue, active, execMu, owner, toolRuns>>

\* workflowRunCancelFunc, else the status that was read (seen) decides.
LookUpCancel(t) ==
    /\ req[t].pc = "cancel"
    /\ LET fn == active[req[t].run] IN
       req' = IF fn # Nobody
              THEN [req EXCEPT ![t].pc = "cancelActive", ![t].target = fn]
              ELSE IF req[t].seen
              THEN [req EXCEPT ![t].pc = "cancelPaused"]
              ELSE [req EXCEPT ![t] = IdleRequest]
    /\ UNCHANGED <<session, queue, active, execMu, owner, toolRuns>>

\* RequestWorkflowRunCancel and cancel()
CancelActive(t) ==
    /\ req[t].pc = "cancelActive"
    /\ RequestCancel(req[t].run)
    /\ req' = [u \in Requests |-> IF u = t THEN IdleRequest
                                  ELSE IF u = req[t].target
                                       THEN [req[u] EXCEPT !.cancelled = TRUE] ELSE req[u]]
    /\ UNCHANGED <<queue, active, execMu, owner, toolRuns>>

\* workflowRunMatchesPendingApproval: by the call, else by name and stage.
Matching(r) ==
    IF runs[r].call # NoCall THEN store \cap {runs[r].call}
    ELSE IF runs[r].stage = "other" THEN {} ELSE store

\* CancelWorkflowRunAndApprovals: deny the calls ...
CancelPaused(t) ==
    /\ req[t].pc = "cancelPaused"
    /\ LET r == req[t].run IN
       IF r \in Visible
       THEN /\ store' = store \ Matching(r) /\ approved' = approved \ Matching(r)
            /\ req' = [req EXCEPT ![t].pc = "cancelMark"]
       ELSE req' = [req EXCEPT ![t] = IdleRequest] /\ UNCHANGED queue
    /\ UNCHANGED <<session, active, execMu, owner, toolRuns>>

\* ... then mark the run, whatever has become of it ...
CancelMark(t) ==
    /\ req[t].pc = "cancelMark"
    /\ IF req[t].run \in Visible
       THEN /\ CancelRun(req[t].run)
            /\ req' = [req EXCEPT ![t].pc = "cancelSet", ![t].snap = Cancelled(req[t].run)]
       ELSE req' = [req EXCEPT ![t] = IdleRequest] /\ UNCHANGED session
    /\ UNCHANGED <<queue, active, execMu, owner, toolRuns>>

\* ... and make it the session's workflow, as failWorkflowRun does too.
SetCancelled(t) ==
    /\ req[t].pc \in {"cancelSet", "failSet"}
    /\ current' = req[t].snap
    /\ req' = [req EXCEPT ![t] = IF req[t].pc = "cancelSet" THEN IdleRequest
                                 ELSE [@ EXCEPT !.pc = "failed", !.snap = NoSnapshot]]
    /\ UNCHANGED <<list, runs, started, queue, active, execMu, owner, toolRuns>>

\* handleApprovalActionStream of a call of a workflow
AskLegacy(t, c) ==
    /\ req[t].pc = "idle" /\ c \in store
    /\ \E op \in Ops[t] \cap {"legacy", "legacyDeny"} :
          req' = [req EXCEPT ![t] = [IdleRequest EXCEPT !.pc = "legacy", !.op = op,
                                        !.call = c]]
    /\ UNCHANGED <<session, queue, active, execMu, owner, toolRuns>>

\* WorkflowRunner.Resume: without the lock, and for the run of the session's
\* snapshot (workflowRunIDForResume).
ResumeLegacy(t) ==
    /\ req[t].pc = "legacy"
    /\ req' = IF req[t].call \in store \cup approved
              THEN [req EXCEPT ![t].pc = "answer", ![t].run = current.run]
              ELSE [req EXCEPT ![t] = IdleRequest]
    /\ UNCHANGED <<session, queue, active, execMu, owner, toolRuns>>

------------------------------------------------------------------------------
Handlers(t) ==
    \/ AskStart(t)
    \/ \E r \in Visible :
          \/ AskRetry(t, r) \/ AskApproval(t, r) \/ AskToolApproval(t, r)
          \/ AskInput(t, r) \/ AskSubWorkflow(t, r) \/ AskContinue(t, r)
          \/ AskEscalate(t, r) \/ AskBudget(t, r) \/ AskCancel(t, r)
    \/ \E c \in Calls : AskLegacy(t, c)

\* What the server does by itself once a request is there.
Step(t) ==
    \/ Start(t) \/ RegisterStarted(t) \/ RegisterResumed(t)
    \/ Check(t) \/ Refuse(t) \/ Admit(t) \/ Reread(t)
    \/ AnswerApproved(t) \/ AnswerDenied(t)
    \/ Finish(t) \/ FindCall(t) \/ Set(t) \/ Write(t) \/ Fail(t) \/ Return(t)
    \/ Record(t) \/ RecordChild(t) \/ WaitForChild(t) \/ NameChild(t) \/ Leave(t)
    \/ LookUpCancel(t) \/ CancelActive(t) \/ CancelPaused(t) \/ CancelMark(t)
    \/ SetCancelled(t)
    \/ ResumeLegacy(t)

Next ==
    \E t \in Requests :
        \/ Handlers(t) \/ Lock(t) \/ Step(t)
        \/ AskTool(t) \/ StartChild(t)

Spec == Init /\ [][Next]_vars

\* A goroutine that can run does run; a Go mutex does not starve a waiter.
FairSpec == Spec /\ \A t \in Requests : WF_vars(Step(t)) /\ SF_vars(Lock(t))

------------------------------------------------------------------------------
(* Properties                                                              *)

RunRecord == [status : Statuses \cup {"none"}, stage : Stages,
              call : Calls \cup {NoCall}, child : Runs \cup {NoRun}, attempt : 0..MaxStarts]

SnapshotRecord == [run : Runs \cup {NoRun}, status : Statuses \cup {"none"},
                   stage : Stages, call : Calls \cup {NoCall}, child : Runs \cup {NoRun}]

RequestRecord ==
    [pc : Pcs, op : OpNames \cup {"none"}, run : Runs \cup {NoRun},
     parent : Runs \cup {NoRun}, child : Runs \cup {NoRun}, hook : Runs \cup {NoRun},
     seen : BOOLEAN, out : Statuses \cup {"none"},
     call : Calls \cup {NoCall}, target : Requests \cup {Nobody, Gone},
     background : BOOLEAN, cancelled : BOOLEAN,
     snap : SnapshotRecord, next : Pcs \cup {"none"}]

\* Every variable has its type; the list names no run twice.
TypeOK ==
    /\ list \in Seq(Runs) /\ Len(list) <= Window
    /\ \A i, j \in DOMAIN list : list[i] = list[j] => i = j
    /\ runs \in [Runs -> RunRecord] /\ started \in 0..MaxStarts
    /\ current \in SnapshotRecord
    /\ store \subseteq Calls /\ approved \subseteq Calls
    /\ active \in [Runs -> Requests \cup {Nobody, Gone}]
    /\ execMu \in Requests \cup {Nobody}
    /\ req \in [Requests -> RequestRecord]
    /\ owner \in [Calls -> Runs \cup {NoRun}]
    /\ toolRuns \in [Calls -> 0..2]

Legacy == {"legacy", "legacyDeny"}

\* Two requests never execute workflow runs at the same time, whether they
\* waited for workflowExecMu or found it free (startWorkflowBackground).
OneExecution ==
    \A t, u \in Requests :
        /\ req[t].pc \in Working /\ req[t].op \notin Legacy
        /\ req[u].pc \in Working /\ req[u].op \notin Legacy
        => t = u

\* From the moment a run is registered until its execution returns, a cancel
\* of the run finds the function of the request that executes it.
CancelReaches ==
    \A t \in Requests :
        req[t].pc \in Working \ {"started"} /\ req[t].op \notin Legacy
            => active[Top(t)] = t

\* A run that ended is not taken up again: the status a handler saw is checked
\* once more under the lock, so no request begins to work on it, and without one
\* it never runs or waits again, whatever snapshot another request writes back.
\* (A blocked run may be escalated; a late cancel may still change the status,
\* and a run that was evicted is forgotten. A cancel that comes between that
\* check and the write of "running" finds a request at work on the run: it is
\* overwritten.)
EndedStaysEnded ==
    [][\A r \in Runs :
          runs[r].status \in Terminal \ {"blocked"}
          /\ ~(\E t \in Requests : Executes(t, r))
          => /\ ~(\E t \in Requests : Executes(t, r))'
             /\ runs'[r].status \in Terminal \cup {"cancelling", NoRecord.status}]_vars

\* Every request is answered: the lock is released on every path, and nobody
\* waits for somebody who waits.
RequestsReturn == \A t \in Requests : req[t].pc # "idle" ~> req[t].pc = "idle"

\* RequestWorkflowRunCancel "marks a running workflow as cancellation-
\* requested": a run is cancelling only while a request executes it.
CancellingRunsExecute ==
    \A r \in Visible :
        runs[r].status = "cancelling" => \E t \in Requests : Executes(t, r)

\* A run that waits for a nested run names a run that was started after it:
\* otherwise no handler could resume the parent. (A cancel while the parent is
\* being persisted can break this: the name is written into the snapshot of the
\* run that was cancelled, or the pause is recorded over the cancelled run.)
ParentsKnowTheirChild ==
    \A r \in Visible :
        runs[r].status = "awaiting_sub_workflow" /\ ~(\E t \in Requests : Executes(t, r))
            => runs[r].child > r

\* An approval executes the tool of a call once.
ApprovedOnce == \A c \in Calls : toolRuns[c] <= 1

=============================================================================
