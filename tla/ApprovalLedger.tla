--------------------------- MODULE ApprovalLedger ---------------------------
(***************************************************************************)
(* What the approval queue of the runtime promises about one tool call,    *)
(* whoever answers it and in whatever order: a call that waits for the     *)
(* operator is taken from the queue by one actor at a time, and leaves it  *)
(* for good by being executed once, refused, or withdrawn.                 *)
(* The type approvalDecision of src/internal/agent/runtime.go is this      *)
(* promise in one struct: Found is TRUE for a single caller of Resolve.    *)
(* AgentRuns implements this module; the mapping is AgentRuns!Ledger.      *)
(***************************************************************************)
CONSTANT Calls      \* tool call ids, as the model provider issues them

VARIABLE state      \* the life of every call

Queued   == "queued"     \* in the queue, waiting for the operator
Claimed  == "claimed"    \* taken by an approval that has not run the tool yet

States == {"new", Queued, Claimed, "executed", "refused", "gone"}

LedgerTypeOK == state \in [Calls -> States]

LedgerInit == state = [c \in Calls |-> "new"]

Move(c, from, to) ==
    /\ state[c] = from
    /\ state' = [state EXCEPT ![c] = to]

\* The executor meets a call that needs approval.
Enqueue(c)  == Move(c, "new", Queued)
\* An approval takes the call, or hands it back when policy refuses it.
Claim(c)    == Move(c, Queued, Claimed)
Requeue(c)  == Move(c, Claimed, Queued)
\* The claimed call runs; or the approval that holds it fails before that.
Execute(c)  == Move(c, Claimed, "executed")
Abandon(c)  == Move(c, Claimed, "gone")
\* The operator denies the call, or cancels the run that waits for it.
Refuse(c)   == Move(c, Queued, "refused")
Withdraw(c) == Move(c, Queued, "gone")

\* A restart forgets every claim; the queue itself is restored.
ForgetClaims ==
    state' = [c \in Calls |-> IF state[c] = Claimed THEN "gone" ELSE state[c]]

LedgerNext ==
    \/ \E c \in Calls : \/ Enqueue(c) \/ Claim(c) \/ Requeue(c) \/ Execute(c)
                        \/ Abandon(c) \/ Refuse(c) \/ Withdraw(c)
    \/ ForgetClaims

LedgerSpec == LedgerInit /\ [][LedgerNext]_state
=============================================================================
