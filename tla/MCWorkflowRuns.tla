---------------------------- MODULE MCWorkflowRuns ----------------------------
(* Small instances of WorkflowRuns.                                        *)
EXTENDS WorkflowRuns, TLC

CONSTANTS r1, r2

TwoRequests == {r1, r2}

\* Two requests: everything but the approval endpoint that takes no lock, and
\* the pauses for input and budget and the escalation, which differ from the
\* others by name only; the second request only starts, approves stages and cancels.
LockedOps ==
    (r1 :> OpNames \ {"legacy", "legacyDeny", "input", "continue", "budget", "escalate"}) @@
    (r2 :> {"start", "approve", "cancel"})

LockedOutcomes == {"completed", "awaiting_approval", "awaiting_tool_approval"}

\* One request at a time: nested runs, the approval endpoint without the lock,
\* cancels, and the pauses for input and budget.
NestedOps ==
    (r1 :> {"start", "sub", "child", "input", "continue", "escalate", "budget",
            "cancel", "legacy", "legacyDeny"}) @@
    (r2 :> {})

NestedOutcomes == {"completed", "blocked", "awaiting_input", "awaiting_tool_approval",
                   "paused_need_more_budget", "awaiting_budget_approval"}

\* One request at a time: retries, and approvals of tool calls.
RetryOps == (r1 :> {"start", "retry", "tool"}) @@ (r2 :> {})
=============================================================================
