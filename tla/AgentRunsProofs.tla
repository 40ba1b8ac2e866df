--------------------------- MODULE AgentRunsProofs ---------------------------
(* Proofs about AgentRuns, for any runs, any calls and every set of events. *)
EXTENDS AgentRuns, TLAPS

\* A step that leaves the queue, the claims and the answers alone only has to
\* keep the types, the place of the turn and the owners.
LEMMA Frame ==
  ASSUME IInv, TypeOK', Control', Ownership',
         UNCHANGED <<pending, owner, store, held, bulkHeld, executed, refused>>
  PROVE  IInv'
BY DEF IInv, PendingInStore, Unanswered, Claims, AtMostOnce, DeniedNeverRuns

\* Requests only fill the waiting lists; a new run owns nothing yet.
LEMMA OperatorInv == ASSUME IInv, Operator PROVE IInv'
<1> USE AgentRunsAssumption DEF sessionVars, queueVars, resumeVars, chatVars,
  approvalVars, serverVars, bulkVars, history, IInv
<1>1. CASE \E r \in Runs : StartRun(r)
  <2>1. TypeOK'
    BY <1>1 DEF StartRun, TypeOK, Control, Status, Locations, Outcomes, Terminal,
      Decisions, DeniedAt, Answers
  <2>2. Control' /\ Ownership'
    BY <1>1 DEF StartRun, TypeOK, Control, Ownership
  <2> QED BY <1>1, <2>1, <2>2, Frame DEF StartRun
<1>2. CASE \E r \in Runs : RequestCancel(r)
  <2>1. TypeOK'
    BY <1>2 DEF RequestCancel, TypeOK, Control, Status, Locations, Outcomes, Terminal,
      Decisions, DeniedAt, Answers
  <2>2. Control' /\ Ownership'
    BY <1>2 DEF RequestCancel, TypeOK, Control, Ownership
  <2> QED BY <1>2, <2>1, <2>2, Frame DEF RequestCancel
<1>3. CASE \E r \in Runs, c \in Calls, d \in Decisions, all \in BOOLEAN :
                RequestApproval(r, c, d, all)
  <2>1. TypeOK'
    BY <1>3 DEF RequestApproval, TypeOK, Control, Status, Locations, Outcomes,
      Terminal, Decisions, DeniedAt, Answers, Request
  <2>2. Control' /\ Ownership'
    BY <1>3 DEF RequestApproval, TypeOK, Control, Ownership
  <2> QED BY <1>3, <2>1, <2>2, Frame DEF RequestApproval
<1>4. CASE \E r \in Runs, c \in Calls, d \in Decisions, all \in BOOLEAN :
                ApproveInBackground(r, c, d, all)
  <2>1. TypeOK'
    BY <1>4 DEF ApproveInBackground, BeginApproval, TypeOK, Control, Status,
      Locations, Outcomes, Terminal, Decisions, DeniedAt, Answers
  <2>2. Control' /\ Ownership'
    BY <1>4 DEF ApproveInBackground, BeginApproval, TypeOK, Control, Ownership,
      Request
  <2> QED BY <1>4, <2>1, <2>2, Frame DEF ApproveInBackground, BeginApproval
<1>5. CASE \E c \in Calls, d \in Decisions : LegacyApproval(c, d)
  <2>1. PICK c \in Calls, d \in Decisions : LegacyApproval(c, d)
    BY <1>5
  <2>2. owner[c] \in Runs
    BY <2>1 DEF LegacyApproval, Resumable, Queued, Ownership
  <2>3. [run |-> owner[c], call |-> c, decision |-> d, all |-> FALSE] \in Request
    BY <2>2 DEF Request
  <2>4. TypeOK'
    BY <2>1, <2>3 DEF LegacyApproval, TypeOK
  <2>5. Control' /\ Ownership'
    BY <2>1 DEF LegacyApproval, Control, Ownership
  <2> QED BY <2>1, <2>4, <2>5, Frame DEF LegacyApproval
<1>6. CASE Disconnect
  <2>1. TypeOK'
    BY <1>6 DEF Disconnect, TypeOK, Control, Status, Locations, Outcomes, Terminal,
      Decisions, DeniedAt, Answers
  <2>2. Control' /\ Ownership'
    BY <1>6 DEF Disconnect, TypeOK, Control, Ownership
  <2> QED BY <1>6, <2>1, <2>2, Frame DEF Disconnect
<1>7. ASSUME NEW r \in Runs, StartRun(r) \/ RequestCancel(r) PROVE IInv'
  BY <1>1, <1>2, <1>7
<1>8. ASSUME NEW r \in Runs, NEW c \in Calls, NEW d \in Decisions, NEW all \in BOOLEAN,
             RequestApproval(r, c, d, all) \/ ApproveInBackground(r, c, d, all)
      PROVE  IInv'
  BY <1>3, <1>4, <1>8
<1> HIDE DEF IInv
<1> QED BY <1>5, <1>6, <1>7, <1>8 DEF Operator

\* The conversation queues calls that nobody asked for before.
LEMMA ConversationInv == ASSUME IInv, Conversation PROVE IInv'
<1> USE AgentRunsAssumption DEF sessionVars, queueVars, resumeVars, chatVars,
  approvalVars, serverVars, bulkVars, history, IInv
<1>1. CASE ChatAnswers
  <2>1. TypeOK'
    BY <1>1 DEF ChatAnswers, FinishWith, TypeOK, Control, Status, Locations, Outcomes,
      Terminal, Decisions, DeniedAt, Answers
  <2>2. Control' /\ Ownership'
    BY <1>1 DEF ChatAnswers, FinishWith, TypeOK, Control, Ownership
  <2> QED BY <1>1, <2>1, <2>2, Frame DEF ChatAnswers, FinishWith
<1>2. CASE ChatFails
  <2>1. TypeOK'
    BY <1>2 DEF ChatFails, FinishWith, TypeOK, Control, Status, Locations, Outcomes,
      Terminal, Decisions, DeniedAt, Answers
  <2>2. Control' /\ Ownership'
    BY <1>2 DEF ChatFails, FinishWith, TypeOK, Control, Ownership
  <2> QED BY <1>2, <2>1, <2>2, Frame DEF ChatFails, FinishWith
<1>3. CASE ChatCallsTools
  <2>1. TypeOK'
    BY <1>3 DEF ChatCallsTools, TypeOK, Control, Status, Locations, Outcomes,
      Terminal, Decisions, DeniedAt, Answers
  <2>2. Control' /\ Ownership'
    BY <1>3 DEF ChatCallsTools, TypeOK, Control, Ownership
  <2> QED BY <1>3, <2>1, <2>2, Frame DEF ChatCallsTools
<1>4. CASE NextTurn
  <2>1. TypeOK'
    BY <1>4 DEF NextTurn, TypeOK, Control, Status, Locations, Outcomes, Terminal,
      Decisions, DeniedAt, Answers
  <2>2. Control' /\ Ownership'
    BY <1>4 DEF NextTurn, TypeOK, Control, Ownership
  <2> QED BY <1>4, <2>1, <2>2, Frame DEF NextTurn
<1>5. CASE Suspend
  <2> DEFINE turn == [calls |-> suspended, denied |-> denied # "no"]
  <2>1. turn \in Suspension
    BY DEF TypeOK, Suspension, DeniedAt
  <2>2. suspensions' \subseteq Suspension /\ resumeCtx' \in [Runs -> Suspension]
    BY <1>5, <2>1 DEF Suspend, TypeOK
  <2>3. TypeOK'
    BY <1>5, <2>2 DEF Suspend, FinishWith, TypeOK, Control, Status, Locations,
      Outcomes, Terminal, Decisions, DeniedAt, Answers
  <2>4. Control' /\ Ownership'
    BY <1>5 DEF Suspend, FinishWith, TypeOK, Control, Ownership
  <2> QED BY <1>5, <2>3, <2>4, Frame DEF Suspend, FinishWith
<1>6. CASE StreamBreaks
  <2>1. TypeOK'
    BY <1>6 DEF StreamBreaks, FinishWith, TypeOK, Control, Status, Locations,
      Outcomes, Terminal, Decisions, DeniedAt, Answers
  <2>2. Control' /\ Ownership'
    BY <1>6 DEF StreamBreaks, FinishWith, TypeOK, Control, Ownership
  <2> QED BY <1>6, <2>1, <2>2, Frame DEF StreamBreaks, FinishWith
<1>7. CASE \E c \in Calls : QueueCall(c)
  <2>1. TypeOK'
    BY <1>7 DEF QueueCall, Queue, TypeOK, Control, Ownership, PendingInStore, Claims,
      Status, Locations, Outcomes, Terminal, Decisions, DeniedAt, Answers
  <2>2. Control'
    BY <1>7 DEF QueueCall, Queue, TypeOK, Control, Claims, Locations
  <2>3. Ownership'
    BY <1>7 DEF QueueCall, Queue, TypeOK, Control, PendingInStore, Ownership, Claims
  <2>4. PendingInStore'
    BY <1>7 DEF QueueCall, Queue, TypeOK, Control, PendingInStore, Ownership, Claims
  <2>5. Unanswered'
    BY <1>7 DEF QueueCall, Queue, TypeOK, Control, Ownership, Unanswered, Claims
  <2>6. Claims'
    BY <1>7 DEF QueueCall, Queue, TypeOK, Control, Ownership, Unanswered, Claims
  <2>7. AtMostOnce'
    BY <1>7 DEF QueueCall, Queue, TypeOK, Control, AtMostOnce, Claims
  <2>8. DeniedNeverRuns'
    BY <1>7 DEF QueueCall, Queue, TypeOK, Control, DeniedNeverRuns, Unanswered, Claims
  <2> QED BY <2>1, <2>2, <2>3, <2>4, <2>5, <2>6, <2>7, <2>8 DEF IInv
<1> QED BY <1>1, <1>2, <1>3, <1>4, <1>5, <1>6, <1>7 DEF Conversation, ChatEnds

\* An approval takes a call from the queue and executes or refuses it.
LEMMA ApprovalInv == ASSUME IInv, ApprovalSteps PROVE IInv'
<1> USE AgentRunsAssumption DEF sessionVars, queueVars, resumeVars, chatVars,
  approvalVars, serverVars, bulkVars, history, IInv
<1>1. CASE CheckAgain
  <2>1. cur \in Runs
    BY <1>1 DEF CheckAgain, Control
  <2>2. pending[cur] \subseteq Calls /\ PendingIds(cur) \subseteq Calls
    BY <2>1 DEF TypeOK, PendingIds
  <2>3. todo' \subseteq Calls
    BY <1>1, <2>2 DEF CheckAgain, TypeOK, OneTurn, Resumable, Queued
  <2>4. TypeOK'
    BY <1>1, <2>3 DEF CheckAgain, TypeOK, Locations
  <2>5. Control' /\ Ownership'
    BY <1>1 DEF CheckAgain, Control, Ownership
  <2> QED BY <1>1, <2>4, <2>5, Frame DEF CheckAgain
<1>2. CASE \E c \in Calls : ApprovalNotFound(c)
  <2>1. TypeOK'
    BY <1>2 DEF ApprovalNotFound, FinishWith, TypeOK, Control, Status, Locations,
      Outcomes, Terminal, Decisions, DeniedAt, Answers
  <2>2. Control' /\ Ownership'
    BY <1>2 DEF ApprovalNotFound, FinishWith, TypeOK, Control, Ownership
  <2> QED BY <1>2, <2>1, <2>2, Frame DEF ApprovalNotFound, FinishWith
<1>3. CASE \E c \in Calls : ClaimCall(c)
  <2>1. TypeOK'
    BY <1>3 DEF ClaimCall, Resolve, TypeOK, Control, Ownership, PendingInStore,
      Claims, Status, Locations, Outcomes, Terminal, Decisions, DeniedAt, Answers
  <2>2. Control'
    BY <1>3 DEF ClaimCall, Resolve, TypeOK, Control, Claims, Locations
  <2>3. Ownership'
    BY <1>3 DEF ClaimCall, Resolve, TypeOK, Control, PendingInStore, Ownership, Claims
  <2>4. PendingInStore'
    BY <1>3 DEF ClaimCall, Resolve, TypeOK, Control, PendingInStore, Ownership, Claims
  <2>5. Unanswered'
    BY <1>3 DEF ClaimCall, Resolve, TypeOK, Control, Ownership, Unanswered, Claims
  <2>6. Claims'
    BY <1>3 DEF ClaimCall, Resolve, TypeOK, Control, Ownership, Unanswered, Claims
  <2>7. AtMostOnce'
    BY <1>3 DEF ClaimCall, Resolve, TypeOK, Control, AtMostOnce, Claims
  <2>8. DeniedNeverRuns'
    BY <1>3 DEF ClaimCall, Resolve, TypeOK, Control, DeniedNeverRuns, Unanswered,
      Claims
  <2> QED BY <2>1, <2>2, <2>3, <2>4, <2>5, <2>6, <2>7, <2>8 DEF IInv
<1>4. CASE \E c \in Calls : DenyCall(c)
  <2>1. TypeOK'
    BY <1>4 DEF DenyCall, Resolve, Answer, TypeOK, Control, Ownership, PendingInStore,
      Claims, Status, Locations, Outcomes, Terminal, Decisions, DeniedAt, Answers
  <2>2. Control'
    BY <1>4 DEF DenyCall, Resolve, Answer, TypeOK, Control, Claims, Locations
  <2>3. Ownership'
    BY <1>4 DEF DenyCall, Resolve, Answer, TypeOK, Control, PendingInStore, Ownership,
      Claims
  <2>4. PendingInStore'
    BY <1>4 DEF DenyCall, Resolve, Answer, TypeOK, Control, PendingInStore, Ownership,
      Claims
  <2>5. Unanswered'
    BY <1>4 DEF DenyCall, Resolve, Answer, TypeOK, Control, Ownership, Unanswered,
      Claims
  <2>6. Claims'
    BY <1>4 DEF DenyCall, Resolve, Answer, TypeOK, Control, Ownership, Unanswered,
      Claims
  <2>7. AtMostOnce'
    BY <1>4 DEF DenyCall, Resolve, Answer, TypeOK, Control, AtMostOnce, Claims
  <2>8. DeniedNeverRuns'
    BY <1>4 DEF DenyCall, Resolve, Answer, TypeOK, Control, DeniedNeverRuns,
      Unanswered, Claims
  <2> QED BY <2>1, <2>2, <2>3, <2>4, <2>5, <2>6, <2>7, <2>8 DEF IInv
<1>5. CASE ExecuteCall
  <2>1. TypeOK'
    BY <1>5 DEF ExecuteCall, Answer, TypeOK, Control, Ownership, PendingInStore,
      Claims, Status, Locations, Outcomes, Terminal, Decisions, DeniedAt, Answers
  <2>2. Control'
    BY <1>5 DEF ExecuteCall, Answer, TypeOK, Control, Claims, Locations
  <2>3. Ownership'
    BY <1>5 DEF ExecuteCall, Answer, TypeOK, Control, PendingInStore, Ownership,
      Claims
  <2>4. PendingInStore'
    BY <1>5 DEF ExecuteCall, Answer, TypeOK, Control, PendingInStore, Ownership,
      Claims
  <2>5. Unanswered'
    BY <1>5 DEF ExecuteCall, Answer, TypeOK, Control, Ownership, Unanswered, Claims
  <2>6. Claims'
    BY <1>5 DEF ExecuteCall, Answer, TypeOK, Control, Ownership, Unanswered, Claims
  <2>7. AtMostOnce'
    BY <1>5 DEF ExecuteCall, Answer, TypeOK, Control, AtMostOnce, Claims
  <2>8. DeniedNeverRuns'
    BY <1>5 DEF ExecuteCall, Answer, TypeOK, Control, DeniedNeverRuns, Unanswered,
      Claims
  <2> QED BY <2>1, <2>2, <2>3, <2>4, <2>5, <2>6, <2>7, <2>8 DEF IInv
<1>6. CASE ExecuteFails
  <2>1. TypeOK'
    BY <1>6 DEF ExecuteFails, FinishWith, TypeOK, Control, Ownership, PendingInStore,
      Claims, Status, Locations, Outcomes, Terminal, Decisions, DeniedAt, Answers
  <2>2. Control'
    BY <1>6 DEF ExecuteFails, FinishWith, TypeOK, Control, Claims, Locations
  <2>3. Ownership'
    BY <1>6 DEF ExecuteFails, FinishWith, TypeOK, Control, PendingInStore, Ownership,
      Claims
  <2>4. PendingInStore'
    BY <1>6 DEF ExecuteFails, FinishWith, TypeOK, Control, PendingInStore, Ownership,
      Claims
  <2>5. Unanswered'
    BY <1>6 DEF ExecuteFails, FinishWith, TypeOK, Control, Ownership, Unanswered,
      Claims
  <2>6. Claims'
    BY <1>6 DEF ExecuteFails, FinishWith, TypeOK, Control, Ownership, Unanswered,
      Claims
  <2>7. AtMostOnce'
    BY <1>6 DEF ExecuteFails, FinishWith, TypeOK, Control, AtMostOnce, Claims
  <2>8. DeniedNeverRuns'
    BY <1>6 DEF ExecuteFails, FinishWith, TypeOK, Control, DeniedNeverRuns,
      Unanswered, Claims
  <2> QED BY <2>1, <2>2, <2>3, <2>4, <2>5, <2>6, <2>7, <2>8 DEF IInv
<1>7. CASE PolicyRejects
  <2>1. TypeOK'
    BY <1>7 DEF PolicyRejects, Queue, FinishWith, TypeOK, Control, Ownership,
      PendingInStore, Claims, Status, Locations, Outcomes, Terminal, Decisions,
      DeniedAt, Answers
  <2>2. Control'
    BY <1>7 DEF PolicyRejects, Queue, FinishWith, TypeOK, Control, Claims, Locations
  <2>3. Ownership'
    BY <1>7 DEF PolicyRejects, Queue, FinishWith, TypeOK, Control, PendingInStore,
      Ownership, Claims
  <2>4. PendingInStore'
    BY <1>7 DEF PolicyRejects, Queue, FinishWith, TypeOK, Control, PendingInStore,
      Ownership, Claims
  <2>5. Unanswered'
    BY <1>7 DEF PolicyRejects, Queue, FinishWith, TypeOK, Control, Ownership,
      Unanswered, Claims
  <2>6. Claims'
    BY <1>7 DEF PolicyRejects, Queue, FinishWith, TypeOK, Control, Ownership,
      Unanswered, Claims
  <2>7. AtMostOnce'
    BY <1>7 DEF PolicyRejects, Queue, FinishWith, TypeOK, Control, AtMostOnce, Claims
  <2>8. DeniedNeverRuns'
    BY <1>7 DEF PolicyRejects, Queue, FinishWith, TypeOK, Control, DeniedNeverRuns,
      Unanswered, Claims
  <2> QED BY <2>1, <2>2, <2>3, <2>4, <2>5, <2>6, <2>7, <2>8 DEF IInv
<1>8. CASE RecordResult
  <2>1. TypeOK'
    BY <1>8 DEF RecordResult, TypeOK, Control, Status, Locations, Outcomes, Terminal,
      Decisions, DeniedAt, Answers
  <2>2. Control' /\ Ownership'
    BY <1>8 DEF RecordResult, TypeOK, Control, Ownership
  <2> QED BY <1>8, <2>1, <2>2, Frame DEF RecordResult
<1>9. CASE ClientGone
  <2>1. TypeOK'
    BY <1>9 DEF ClientGone, TypeOK, Control, Status, Locations, Outcomes, Terminal,
      Decisions, DeniedAt, Answers
  <2>2. Control' /\ Ownership'
    BY <1>9 DEF ClientGone, TypeOK, Control, Ownership
  <2> QED BY <1>9, <2>1, <2>2, Frame DEF ClientGone
<1>10. CASE \E s \in suspensions : Resume(s)
  <2>1. TypeOK'
    BY <1>10 DEF Resume, SuspensionOf, TypeOK, Control, Status, Locations, Outcomes,
      Terminal, Decisions, DeniedAt, Answers, Suspension
  <2>2. Control' /\ Ownership'
    BY <1>10 DEF Resume, SuspensionOf, TypeOK, Control, Ownership
  <2> QED BY <1>10, <2>1, <2>2, Frame DEF Resume, SuspensionOf
<1>11. CASE StayAwaiting
  <2>1. TypeOK'
    BY <1>11 DEF StayAwaiting, TypeOK, Control, Status, Locations, Outcomes, Terminal,
      Decisions, DeniedAt, Answers
  <2>2. Control' /\ Ownership'
    BY <1>11 DEF StayAwaiting, TypeOK, Control, Ownership
  <2> QED BY <1>11, <2>1, <2>2, Frame DEF StayAwaiting
<1> QED BY <1>1, <1>2, <1>3, <1>4, <1>5, <1>6, <1>7, <1>8, <1>9, <1>10, <1>11 DEF ApprovalSteps

\* Approve-all is a second approval with a call of its own.
LEMMA BulkInv == ASSUME IInv, Bulk PROVE IInv'
<1> USE AgentRunsAssumption DEF sessionVars, queueVars, resumeVars, chatVars,
  approvalVars, serverVars, bulkVars, history, IInv
<1>1. CASE BulkList
  <2>1. TypeOK'
    BY <1>1 DEF BulkList, TypeOK, Control, Status, Locations, Outcomes, Terminal,
      Decisions, DeniedAt, Answers
  <2>2. Control' /\ Ownership'
    BY <1>1 DEF BulkList, TypeOK, Control, Ownership
  <2> QED BY <1>1, <2>1, <2>2, Frame DEF BulkList
<1>2. CASE BulkExecute
  <2>1. TypeOK'
    BY <1>2 DEF BulkExecute, Answer, TypeOK, Control, Ownership, PendingInStore,
      Claims, Status, Locations, Outcomes, Terminal, Decisions, DeniedAt, Answers
  <2>2. Control'
    BY <1>2 DEF BulkExecute, Answer, TypeOK, Control, Claims, Locations
  <2>3. Ownership'
    BY <1>2 DEF BulkExecute, Answer, TypeOK, Control, PendingInStore, Ownership,
      Claims
  <2>4. PendingInStore'
    BY <1>2 DEF BulkExecute, Answer, TypeOK, Control, PendingInStore, Ownership,
      Claims
  <2>5. Unanswered'
    BY <1>2 DEF BulkExecute, Answer, TypeOK, Control, Ownership, Unanswered, Claims
  <2>6. Claims'
    BY <1>2 DEF BulkExecute, Answer, TypeOK, Control, Ownership, Unanswered, Claims
  <2>7. AtMostOnce'
    BY <1>2 DEF BulkExecute, Answer, TypeOK, Control, AtMostOnce, Claims
  <2>8. DeniedNeverRuns'
    BY <1>2 DEF BulkExecute, Answer, TypeOK, Control, DeniedNeverRuns, Unanswered,
      Claims
  <2> QED BY <2>1, <2>2, <2>3, <2>4, <2>5, <2>6, <2>7, <2>8 DEF IInv
<1>3. CASE BulkExecuteFails
  <2>1. TypeOK'
    BY <1>3 DEF BulkExecuteFails, TypeOK, Control, Ownership, PendingInStore, Claims,
      Status, Locations, Outcomes, Terminal, Decisions, DeniedAt, Answers
  <2>2. Control'
    BY <1>3 DEF BulkExecuteFails, TypeOK, Control, Claims, Locations
  <2>3. Ownership'
    BY <1>3 DEF BulkExecuteFails, TypeOK, Control, PendingInStore, Ownership, Claims
  <2>4. PendingInStore'
    BY <1>3 DEF BulkExecuteFails, TypeOK, Control, PendingInStore, Ownership, Claims
  <2>5. Unanswered'
    BY <1>3 DEF BulkExecuteFails, TypeOK, Control, Ownership, Unanswered, Claims
  <2>6. Claims'
    BY <1>3 DEF BulkExecuteFails, TypeOK, Control, Ownership, Unanswered, Claims
  <2>7. AtMostOnce'
    BY <1>3 DEF BulkExecuteFails, TypeOK, Control, AtMostOnce, Claims
  <2>8. DeniedNeverRuns'
    BY <1>3 DEF BulkExecuteFails, TypeOK, Control, DeniedNeverRuns, Unanswered, Claims
  <2> QED BY <2>1, <2>2, <2>3, <2>4, <2>5, <2>6, <2>7, <2>8 DEF IInv
<1>4. CASE BulkPolicyRejects
  <2>1. TypeOK'
    BY <1>4 DEF BulkPolicyRejects, Queue, TypeOK, Control, Ownership, PendingInStore,
      Claims, Status, Locations, Outcomes, Terminal, Decisions, DeniedAt, Answers
  <2>2. Control'
    BY <1>4 DEF BulkPolicyRejects, Queue, TypeOK, Control, Claims, Locations
  <2>3. Ownership'
    BY <1>4 DEF BulkPolicyRejects, Queue, TypeOK, Control, PendingInStore, Ownership,
      Claims
  <2>4. PendingInStore'
    BY <1>4 DEF BulkPolicyRejects, Queue, TypeOK, Control, PendingInStore, Ownership,
      Claims
  <2>5. Unanswered'
    BY <1>4 DEF BulkPolicyRejects, Queue, TypeOK, Control, Ownership, Unanswered,
      Claims
  <2>6. Claims'
    BY <1>4 DEF BulkPolicyRejects, Queue, TypeOK, Control, Ownership, Unanswered,
      Claims
  <2>7. AtMostOnce'
    BY <1>4 DEF BulkPolicyRejects, Queue, TypeOK, Control, AtMostOnce, Claims
  <2>8. DeniedNeverRuns'
    BY <1>4 DEF BulkPolicyRejects, Queue, TypeOK, Control, DeniedNeverRuns,
      Unanswered, Claims
  <2> QED BY <2>1, <2>2, <2>3, <2>4, <2>5, <2>6, <2>7, <2>8 DEF IInv
<1>5. CASE \E c \in Calls : BulkClaim(c)
  <2>1. TypeOK'
    BY <1>5 DEF BulkClaim, Resolve, TypeOK, Control, Ownership, PendingInStore,
      Claims, Status, Locations, Outcomes, Terminal, Decisions, DeniedAt, Answers
  <2>2. Control'
    BY <1>5 DEF BulkClaim, Resolve, TypeOK, Control, Claims, Locations
  <2>3. Ownership'
    BY <1>5 DEF BulkClaim, Resolve, TypeOK, Control, PendingInStore, Ownership, Claims
  <2>4. PendingInStore'
    BY <1>5 DEF BulkClaim, Resolve, TypeOK, Control, PendingInStore, Ownership, Claims
  <2>5. Unanswered'
    BY <1>5 DEF BulkClaim, Resolve, TypeOK, Control, Ownership, Unanswered, Claims
  <2>6. Claims'
    BY <1>5 DEF BulkClaim, Resolve, TypeOK, Control, Ownership, Unanswered, Claims
  <2>7. AtMostOnce'
    BY <1>5 DEF BulkClaim, Resolve, TypeOK, Control, AtMostOnce, Claims
  <2>8. DeniedNeverRuns'
    BY <1>5 DEF BulkClaim, Resolve, TypeOK, Control, DeniedNeverRuns, Unanswered,
      Claims
  <2> QED BY <2>1, <2>2, <2>3, <2>4, <2>5, <2>6, <2>7, <2>8 DEF IInv
<1>6. CASE \E c \in Calls : BulkNotFound(c)
  <2>1. TypeOK'
    BY <1>6 DEF BulkNotFound, TypeOK, Control, Status, Locations, Outcomes, Terminal,
      Decisions, DeniedAt, Answers
  <2>2. Control' /\ Ownership'
    BY <1>6 DEF BulkNotFound, TypeOK, Control, Ownership
  <2> QED BY <1>6, <2>1, <2>2, Frame DEF BulkNotFound
<1> QED BY <1>1, <1>2, <1>3, <1>4, <1>5, <1>6 DEF Bulk

\* The end of a turn clears or keeps what the run shows, never the queue.
LEMMA FinishInv == ASSUME IInv, Finish PROVE IInv'
<1> USE AgentRunsAssumption DEF sessionVars, queueVars, resumeVars, chatVars,
  approvalVars, serverVars, bulkVars, history, IInv
<1>0. Finish
  OBVIOUS
<1>1. TypeOK'
  BY <1>0 DEF Finish, TypeOK, Control, Ownership, PendingInStore, Claims, Status,
    Locations, Outcomes, Terminal, Decisions, DeniedAt, Answers, NoContext,
    Suspension
<1>2. Control'
  BY <1>0 DEF Finish, TypeOK, Control, Claims, Locations
<1>3. Ownership'
  BY <1>0 DEF Finish, TypeOK, Control, PendingInStore, Ownership, Claims
<1>4. PendingInStore'
  BY <1>0 DEF Finish, TypeOK, Control, PendingInStore, Ownership, Claims
<1>5. Unanswered'
  BY <1>0 DEF Finish, TypeOK, Control, Ownership, Unanswered, Claims
<1>6. Claims'
  BY <1>0 DEF Finish, TypeOK, Control, Ownership, Unanswered, Claims
<1>7. AtMostOnce'
  BY <1>0 DEF Finish, TypeOK, Control, AtMostOnce, Claims
<1>8. DeniedNeverRuns'
  BY <1>0 DEF Finish, TypeOK, Control, DeniedNeverRuns, Unanswered, Claims
<1> QED BY <1>1, <1>2, <1>3, <1>4, <1>5, <1>6, <1>7, <1>8 DEF IInv

\* Cancel withdraws the call the run shows.
LEMMA CancelPausedInv == ASSUME IInv, (\E r \in Runs : CancelPaused(r)) PROVE IInv'
<1> USE AgentRunsAssumption DEF sessionVars, queueVars, resumeVars, chatVars,
  approvalVars, serverVars, bulkVars, history, IInv
<1>0. (\E r \in Runs : CancelPaused(r))
  OBVIOUS
<1>1. TypeOK'
  BY <1>0 DEF CancelPaused, TypeOK, Control, Ownership, PendingInStore, Claims,
    Status, Locations, Outcomes, Terminal, Decisions, DeniedAt, Answers, NoContext,
    Suspension
<1>2. Control'
  BY <1>0 DEF CancelPaused, TypeOK, Control, Claims, Locations
<1>3. Ownership'
  BY <1>0 DEF CancelPaused, TypeOK, Control, PendingInStore, Ownership, Claims
<1>4. PendingInStore'
  BY <1>0 DEF CancelPaused, TypeOK, Control, PendingInStore, Ownership, Claims
<1>5. Unanswered'
  BY <1>0 DEF CancelPaused, TypeOK, Control, Ownership, Unanswered, Claims
<1>6. Claims'
  BY <1>0 DEF CancelPaused, TypeOK, Control, Ownership, Unanswered, Claims
<1>7. AtMostOnce'
  BY <1>0 DEF CancelPaused, TypeOK, Control, AtMostOnce, Claims
<1>8. DeniedNeverRuns'
  BY <1>0 DEF CancelPaused, TypeOK, Control, DeniedNeverRuns, Unanswered, Claims
<1> QED BY <1>1, <1>2, <1>3, <1>4, <1>5, <1>6, <1>7, <1>8 DEF IInv
\* The mutex changes hands; a request was made for a run and a call.
LEMMA LockInv ==
  ASSUME IInv, TakeAnyLock \/ Register \/ Release \/ \E r \in Runs : CancelActive(r)
  PROVE  IInv'
<1> USE AgentRunsAssumption DEF sessionVars, queueVars, resumeVars, chatVars,
  approvalVars, serverVars, bulkVars, history, IInv
<1>1. CASE TakeAnyLock
  <2>1. PICK w \in lockQueue : TakeLock(w)
    BY <1>1 DEF TakeAnyLock
  <2>2. w.run \in Runs /\ w.call \in Calls /\ w.decision \in Decisions /\ w.all \in BOOLEAN
    BY DEF TypeOK, Request
  <2>3. TypeOK'
    BY <2>1, <2>2 DEF TakeLock, BeginApproval, TypeOK, Locations
  <2>4. Control' /\ Ownership'
    BY <2>1, <2>2 DEF TakeLock, BeginApproval, TypeOK, Control, Ownership
  <2> QED BY <2>1, <2>3, <2>4, Frame DEF TakeLock, BeginApproval
<1>2. CASE Register
  <2>1. TypeOK'
    BY <1>2 DEF Register, TypeOK, Control, Locations
  <2>2. Control' /\ Ownership'
    BY <1>2 DEF Register, TypeOK, Control, Ownership
  <2> QED BY <1>2, <2>1, <2>2, Frame DEF Register
<1>3. CASE Release
  <2>1. TypeOK'
    BY <1>3 DEF Release, NoTurn, TypeOK, Locations, Outcomes, Decisions, DeniedAt
  <2>2. Control' /\ Ownership'
    BY <1>3 DEF Release, NoTurn, TypeOK, Control, Ownership
  <2>3. held' = held
    BY <1>3 DEF Release, NoTurn, Control
  <2> QED BY <1>3, <2>1, <2>2, <2>3, Frame DEF Release
<1>4. CASE \E r \in Runs : CancelActive(r)
  <2>1. TypeOK'
    BY <1>4 DEF CancelActive, TypeOK, Status
  <2>2. Control' /\ Ownership'
    BY <1>4 DEF CancelActive, Control, Ownership
  <2> QED BY <1>4, <2>1, <2>2, Frame DEF CancelActive
<1> QED BY <1>1, <1>2, <1>3, <1>4

\* A restart restores what the runs show, which is already in the queue
\* (PendingInStore), and forgets the calls that were held.
LEMMA RestartInv == ASSUME IInv, Restart PROVE IInv'
<1> USE AgentRunsAssumption DEF sessionVars, queueVars, resumeVars, chatVars,
  approvalVars, serverVars, bulkVars, history, IInv
<1>1. store' = store
  BY DEF Restart, PendingInStore
<1>2. suspensions' \subseteq Suspension
  BY DEF Restart, TypeOK
<1>3. TypeOK'
  BY <1>1, <1>2 DEF Restart, NoTurn, TypeOK, Locations, Outcomes, Decisions, DeniedAt, Answers
<1>4. Control' /\ Ownership'
  BY <1>1 DEF Restart, NoTurn, TypeOK, Control, Ownership
<1>5. PendingInStore' /\ Unanswered' /\ AtMostOnce' /\ DeniedNeverRuns'
  BY <1>1 DEF Restart, PendingInStore, Unanswered, AtMostOnce, DeniedNeverRuns
<1>6. Claims'
  BY DEF Restart, NoTurn, Claims
<1> QED BY <1>3, <1>4, <1>5, <1>6

LEMMA InitInv == Init => IInv
<1> SUFFICES ASSUME Init PROVE IInv
  OBVIOUS
<1> USE AgentRunsAssumption DEF Init
<1>1. NoContext \in Suspension
  BY DEF NoContext, Suspension
<1>2. TypeOK
  BY <1>1 DEF TypeOK, Status, Answers, Locations, DeniedAt, Decisions, Outcomes
<1>3. Control /\ Ownership /\ PendingInStore
  BY DEF Control, Ownership, PendingInStore
<1>4. Unanswered /\ Claims /\ AtMostOnce /\ DeniedNeverRuns
  BY DEF Unanswered, Claims, AtMostOnce, DeniedNeverRuns
<1> QED BY <1>2, <1>3, <1>4 DEF IInv

LEMMA NextInv == IInv /\ [Next]_vars => IInv'
<1> SUFFICES ASSUME IInv, [Next]_vars PROVE IInv'
  OBVIOUS
<1>1. CASE UNCHANGED vars
  <2> USE <1>1 DEF vars, sessionVars, queueVars, resumeVars, chatVars, approvalVars,
    serverVars, bulkVars, history, IInv
  <2>1. TypeOK'
    BY DEF TypeOK
  <2>2. Control' /\ Ownership'
    BY DEF Control, Ownership
  <2> QED BY <2>1, <2>2, Frame
<1>2. CASE Operator
  BY <1>2, OperatorInv
<1>3. CASE Conversation
  BY <1>3, ConversationInv
<1>4. CASE ApprovalSteps
  BY <1>4, ApprovalInv
<1>5. CASE Finish
  BY <1>5, FinishInv
<1>6. CASE Bulk
  BY <1>6, BulkInv
<1>7. CASE \E r \in Runs : CancelPaused(r)
  BY <1>7, CancelPausedInv
<1>8. CASE Restart
  BY <1>8, RestartInv
<1>9. CASE TakeAnyLock \/ Register \/ Release \/ \E r \in Runs : CancelActive(r)
  BY <1>9, LockInv
<1> QED
  BY <1>1, <1>2, <1>3, <1>4, <1>5, <1>6, <1>7, <1>8, <1>9 DEF Next, TurnStep, Cancel

THEOREM Invariance == Spec => []IInv
BY InitInv, NextInv, PTL DEF Spec

\* Every variable keeps its type, in every interleaving of the handlers.
THEOREM TypeCorrect == Spec => []TypeOK
<1>1. IInv => TypeOK
  BY DEF IInv
<1> QED BY <1>1, Invariance, PTL

\* Resolve hands an approval to one caller, so its tool runs at most once,
\* across both approval handlers, cancel and restart.
THEOREM CallsRunAtMostOnce == Spec => []AtMostOnce
<1>1. IInv => AtMostOnce
  BY DEF IInv
<1> QED BY <1>1, Invariance, PTL

\* The tool of a call that was denied never runs.
THEOREM DeniedCallsNeverRun == Spec => []DeniedNeverRuns
<1>1. IInv => DeniedNeverRuns
  BY DEF IInv
<1> QED BY <1>1, Invariance, PTL

\* The approvals a run shows, which a restart restores, wait in the queue.
THEOREM RunsShowQueuedCalls == Spec => []PendingInStore
<1>1. IInv => PendingInStore
  BY DEF IInv
<1> QED BY <1>1, Invariance, PTL

------------------------------------------------------------------------------
(* AgentRuns implements ApprovalLedger: every step moves one call along its *)
(* life, forgets the claims, or is a stutter of the ledger.                 *)

\* What the ledger does not look at may change.
LEMMA LedgerStutter ==
  ASSUME UNCHANGED <<owner, store, held, bulkHeld, executed, refused>>
  PROVE  LedgerState' = LedgerState
BY DEF LedgerState

\* A step that changes the life of one call only.
LEMMA LedgerMove ==
  ASSUME NEW d \in Calls, NEW to, LedgerState'[d] = to,
         \A c \in Calls \ {d} : LedgerState'[c] = LedgerState[c]
  PROVE  Ledger!Move(d, LedgerState[d], to)
<1>1. DOMAIN LedgerState = Calls /\ LedgerState = [c \in Calls |-> LedgerState[c]]
  BY DEF LedgerState
<1>2. LedgerState' = [c \in Calls |-> LedgerState'[c]]
  BY DEF LedgerState
<1>3. LedgerState' = [LedgerState EXCEPT ![d] = to]
  BY <1>1, <1>2
<1> QED BY <1>3 DEF Ledger!Move

\* How the life of one call reads off the variables.
LEMMA Lives ==
  ASSUME IInv, NEW c \in Calls
  PROVE  /\ c \in store => LedgerState[c] = "queued"
         /\ c \in {held, bulkHeld} => LedgerState[c] = "claimed"
         /\ owner[c] = NoRun => LedgerState[c] = "new"
<1> USE AgentRunsAssumption DEF IInv
<1>1. ASSUME c \in store PROVE LedgerState[c] = "queued"
  BY <1>1 DEF LedgerState, Claims, Unanswered, TypeOK
<1>2. ASSUME c \in {held, bulkHeld} PROVE LedgerState[c] = "claimed"
  BY <1>2 DEF LedgerState
<1>3. ASSUME owner[c] = NoRun PROVE LedgerState[c] = "new"
  BY <1>3 DEF LedgerState, Claims, Unanswered, Ownership, TypeOK
<1> QED BY <1>1, <1>2, <1>3

\* An executor step that asks the operator for a call.
LEMMA QueueMoves ==
  ASSUME IInv, NEW d \in Calls, QueueCall(d)
  PROVE  Ledger!Enqueue(d)
<1> USE AgentRunsAssumption DEF IInv, approvalVars, bulkVars, history
<1>1. owner[d] = NoRun /\ LedgerState[d] = "new"
  BY Lives DEF QueueCall, Ownership
<1>2. LedgerState'[d] = "queued"
  BY <1>1 DEF QueueCall, Queue, LedgerState, Claims, Unanswered, TypeOK, Control
<1>3. \A c \in Calls \ {d} : LedgerState'[c] = LedgerState[c]
  BY DEF QueueCall, Queue, LedgerState, TypeOK
<1> QED BY <1>1, <1>2, <1>3, LedgerMove DEF Ledger!Enqueue, Ledger!Queued

\* Either handler takes a call from the queue.
LEMMA ClaimMoves ==
  ASSUME IInv, NEW d \in Calls, ClaimCall(d) \/ BulkClaim(d)
  PROVE  Ledger!Claim(d)
<1> USE AgentRunsAssumption DEF IInv, bulkVars, history, approvalVars
<1>1. d \in store /\ LedgerState[d] = "queued"
  BY Lives DEF ClaimCall, BulkClaim
<1>2. LedgerState'[d] = "claimed"
  BY DEF ClaimCall, BulkClaim, LedgerState
<1>3. \A c \in Calls \ {d} : LedgerState'[c] = LedgerState[c]
  BY DEF ClaimCall, BulkClaim, Resolve, LedgerState, Control
<1> QED BY <1>1, <1>2, <1>3, LedgerMove DEF Ledger!Claim, Ledger!Queued, Ledger!Claimed

\* The operator denies a call.
LEMMA DenyMoves ==
  ASSUME IInv, NEW d \in Calls, DenyCall(d)
  PROVE  Ledger!Refuse(d)
<1> USE AgentRunsAssumption DEF IInv, bulkVars, history, approvalVars
<1>1. d \in store /\ LedgerState[d] = "queued"
  BY Lives DEF DenyCall
<1>2. LedgerState'[d] = "refused"
  BY <1>1 DEF DenyCall, Resolve, LedgerState, Claims, Unanswered, TypeOK
<1>3. \A c \in Calls \ {d} : LedgerState'[c] = LedgerState[c]
  BY DEF DenyCall, Resolve, LedgerState
<1> QED BY <1>1, <1>2, <1>3, LedgerMove DEF Ledger!Refuse, Ledger!Queued

\* A cancelled run withdraws the call it shows, unless somebody took it before.
LEMMA CancelMoves ==
  ASSUME IInv, NEW r \in Runs, CancelPaused(r)
  PROVE  LedgerState' = LedgerState \/ \E d \in Calls : Ledger!Withdraw(d)
<1> USE AgentRunsAssumption DEF IInv, bulkVars, history, approvalVars
<1> DEFINE d == pendingCall[r]
<1>1. CASE d \in store
  <2>1. d \in Calls /\ LedgerState[d] = "queued"
    BY <1>1, Lives DEF TypeOK
  <2>2. LedgerState'[d] = "gone"
    BY <1>1, <2>1 DEF CancelPaused, LedgerState, Claims, Unanswered, Ownership, TypeOK
  <2>3. \A c \in Calls \ {d} : LedgerState'[c] = LedgerState[c]
    BY DEF CancelPaused, LedgerState
  <2> QED BY <2>1, <2>2, <2>3, LedgerMove DEF Ledger!Withdraw, Ledger!Queued
<1>2. CASE d \notin store
  <2>1. store' = store
    BY <1>2 DEF CancelPaused
  <2> QED BY <2>1, LedgerStutter DEF CancelPaused
<1> QED BY <1>1, <1>2

\* The tool of a claimed call runs, fails before it ran, or is put back.
LEMMA HeldMoves ==
  ASSUME IInv, ExecuteCall \/ ExecuteFails \/ PolicyRejects
  PROVE  \E d \in Calls : Ledger!Execute(d) \/ Ledger!Abandon(d) \/ Ledger!Requeue(d)
<1> USE AgentRunsAssumption DEF IInv, bulkVars, history, queueVars
<1>1. held \in Calls /\ LedgerState[held] = "claimed"
  BY Lives DEF ExecuteCall, ExecuteFails, PolicyRejects, Control, TypeOK
<1>2. \A c \in Calls \ {held} : LedgerState'[c] = LedgerState[c]
  BY <1>1 DEF ExecuteCall, ExecuteFails, PolicyRejects, Queue, LedgerState, TypeOK
<1>3. LedgerState'[held] \in {"executed", "gone", "queued"}
  <2>1. held # bulkHeld /\ held \notin refused /\ executed[held] = 0 /\ owner[held] \in Runs
        /\ held \notin store
    BY <1>1 DEF Claims
  <2>2. CASE ExecuteCall
    BY <1>1, <2>1, <2>2 DEF ExecuteCall, LedgerState, TypeOK
  <2>3. CASE ExecuteFails
    BY <1>1, <2>1, <2>3 DEF ExecuteFails, LedgerState, TypeOK
  <2>4. CASE PolicyRejects
    BY <1>1, <2>1, <2>4 DEF PolicyRejects, Queue, LedgerState, TypeOK
  <2> QED BY <2>2, <2>3, <2>4
<1> QED
  BY <1>1, <1>2, <1>3, LedgerMove
  DEF Ledger!Execute, Ledger!Abandon, Ledger!Requeue, Ledger!Queued, Ledger!Claimed

\* The same of a call that approve-all holds.
LEMMA BulkHeldMoves ==
  ASSUME IInv, BulkExecute \/ BulkExecuteFails \/ BulkPolicyRejects
  PROVE  \E d \in Calls : Ledger!Execute(d) \/ Ledger!Abandon(d) \/ Ledger!Requeue(d)
<1> USE AgentRunsAssumption DEF IInv, approvalVars, history, queueVars
<1>1. bulkHeld \in Calls /\ LedgerState[bulkHeld] = "claimed"
  BY Lives DEF BulkExecute, BulkExecuteFails, BulkPolicyRejects, TypeOK
<1>2. \A c \in Calls \ {bulkHeld} : LedgerState'[c] = LedgerState[c]
  BY <1>1 DEF BulkExecute, BulkExecuteFails, BulkPolicyRejects, Queue, LedgerState, TypeOK
<1>3. LedgerState'[bulkHeld] \in {"executed", "gone", "queued"}
  <2>1. held # bulkHeld /\ bulkHeld \notin refused /\ executed[bulkHeld] = 0
        /\ owner[bulkHeld] \in Runs /\ bulkHeld \notin store
    BY <1>1 DEF Claims
  <2>2. CASE BulkExecute
    BY <1>1, <2>1, <2>2 DEF BulkExecute, LedgerState, TypeOK
  <2>3. CASE BulkExecuteFails
    BY <1>1, <2>1, <2>3 DEF BulkExecuteFails, LedgerState, TypeOK
  <2>4. CASE BulkPolicyRejects
    BY <1>1, <2>1, <2>4 DEF BulkPolicyRejects, Queue, LedgerState, TypeOK
  <2> QED BY <2>2, <2>3, <2>4
<1> QED
  BY <1>1, <1>2, <1>3, LedgerMove
  DEF Ledger!Execute, Ledger!Abandon, Ledger!Requeue, Ledger!Queued, Ledger!Claimed

\* The queue survives a restart, a call that was being executed does not.
LEMMA RestartMoves == ASSUME IInv, Restart PROVE Ledger!ForgetClaims
<1> USE AgentRunsAssumption DEF IInv, history
<1>1. store' = store
  BY DEF Restart, PendingInStore
<1>2. ASSUME NEW c \in Calls
      PROVE  LedgerState'[c] = IF LedgerState[c] = "claimed" THEN "gone" ELSE LedgerState[c]
  BY <1>1 DEF Restart, NoTurn, LedgerState, Claims, TypeOK
<1> QED BY <1>2 DEF Ledger!ForgetClaims, Ledger!Claimed, LedgerState

LEMMA LedgerInit == Init => Ledger!LedgerInit
BY AgentRunsAssumption DEF Init, Ledger!LedgerInit, LedgerState

\* Every step of the program is a step of the ledger or none.
LEMMA LedgerStep ==
  ASSUME IInv, [Next]_vars
  PROVE  [Ledger!LedgerNext]_LedgerState
<1> USE DEF sessionVars, queueVars, resumeVars, chatVars, approvalVars, serverVars,
  bulkVars, history
<1>1. CASE UNCHANGED vars
  BY <1>1, LedgerStutter DEF vars
<1>2. CASE Operator
  BY <1>2, LedgerStutter DEF Operator, StartRun, RequestCancel, RequestApproval,
    ApproveInBackground, BeginApproval, LegacyApproval, Disconnect
<1>3. CASE TakeAnyLock \/ Register
  BY <1>3, LedgerStutter DEF TakeAnyLock, TakeLock, BeginApproval, Register
<1>4. CASE Release
  <2>1. held' = held
    BY <1>4 DEF Release, NoTurn, IInv, Control
  <2> QED BY <1>4, <2>1, LedgerStutter DEF Release
<1>5. CASE Finish \/ \E r \in Runs : CancelActive(r)
  BY <1>5, LedgerStutter DEF Finish, CancelActive
<1>6. CASE Conversation
  <2>1. CASE \E c \in Calls : QueueCall(c)
    BY <2>1, QueueMoves DEF Ledger!LedgerNext
  <2>2. CASE ChatEnds \/ ChatCallsTools \/ NextTurn \/ Suspend \/ StreamBreaks
    BY <2>2, LedgerStutter DEF ChatEnds, ChatAnswers, ChatFails, ChatCallsTools,
      NextTurn, Suspend, StreamBreaks
  <2> QED BY <1>6, <2>1, <2>2 DEF Conversation
<1>7. CASE ApprovalSteps
  <2>1. CASE \E c \in Calls : ClaimCall(c)
    BY <2>1, ClaimMoves DEF Ledger!LedgerNext
  <2>2. CASE \E c \in Calls : DenyCall(c)
    BY <2>2, DenyMoves DEF Ledger!LedgerNext
  <2>3. CASE ExecuteCall \/ ExecuteFails \/ PolicyRejects
    BY <2>3, HeldMoves DEF Ledger!LedgerNext
  <2>4. CASE CheckAgain \/ (\E c \in Calls : ApprovalNotFound(c)) \/ RecordResult
             \/ ClientGone \/ (\E s \in suspensions : Resume(s)) \/ StayAwaiting
    BY <2>4, LedgerStutter DEF CheckAgain, ApprovalNotFound, RecordResult, ClientGone,
      Resume, StayAwaiting
  <2> QED BY <1>7, <2>1, <2>2, <2>3, <2>4 DEF ApprovalSteps
<1>8. CASE Bulk
  <2>1. CASE \E c \in Calls : BulkClaim(c)
    BY <2>1, ClaimMoves DEF Ledger!LedgerNext
  <2>2. CASE BulkExecute \/ BulkExecuteFails \/ BulkPolicyRejects
    BY <2>2, BulkHeldMoves DEF Ledger!LedgerNext
  <2>3. CASE BulkList \/ \E c \in Calls : BulkNotFound(c)
    BY <2>3, LedgerStutter DEF BulkList, BulkNotFound
  <2> QED BY <1>8, <2>1, <2>2, <2>3 DEF Bulk
<1>9. CASE \E r \in Runs : CancelPaused(r)
  BY <1>9, CancelMoves DEF Ledger!LedgerNext
<1>10. CASE Restart
  BY <1>10, RestartMoves DEF Ledger!LedgerNext
<1> QED
  BY <1>1, <1>2, <1>3, <1>4, <1>5, <1>6, <1>7, <1>8, <1>9, <1>10 DEF Next, TurnStep, Cancel

\* The approval queue of the runtime, the two ways to approve, deny, cancel and
\* restart together keep the promise of the ledger.
THEOREM LedgerRefinement == Spec => ImplementsLedger
<1>1. Init => Ledger!LedgerInit
  BY LedgerInit
<1>2. IInv /\ [Next]_vars => [Ledger!LedgerNext]_LedgerState
  BY LedgerStep
<1> QED BY <1>1, <1>2, Invariance, PTL DEF Spec, ImplementsLedger, Ledger!LedgerSpec

------------------------------------------------------------------------------
(* A suspended turn continues once, and a model is only called again when  *)
(* every call it asked for was answered: what has to hold in addition      *)

Done(c) == executed[c] > 0 \/ c \in refused

\* The suspended turns the runtime knows, and those a restart would restore.
Turns == (suspensions \cup {resumeCtx[r] : r \in Runs}) \ {NoContext}

\* A result that waits for its turn is the result of what happened.
Truthful ==
    \A c \in Calls : /\ answers[c] = "ok" => executed[c] > 0
                     /\ answers[c] = "denied" => c \in refused

\* What went back to the model was answered.
Counted ==
    \A c \in Calls : resumed[c] \in {0, 1} /\ (resumed[c] = 1 => Done(c) /\ owner[c] \in Runs)

\* The calls of a turn are of one run, and continue together.
Whole ==
    \A s \in Turns :
        /\ s.calls # {} /\ s.calls \subseteq Calls
        /\ \A c \in s.calls : owner[c] \in Runs
        /\ \A c, d \in s.calls : owner[c] = owner[d] /\ resumed[c] = resumed[d]

Disjoint == \A s, t \in Turns : s.calls = t.calls \/ s.calls \cap t.calls = {}

\* A turn that has not continued is the last one of its run.
LastTurn ==
    \A s \in Turns : \A c \in s.calls, d \in Calls :
        resumed[c] = 0 /\ owner[d] = owner[c] => d \in s.calls \/ resumed[d] = 1

\* Whose calls have not gone back to the model while its turn is executed: those
\* of the batch that is being queued.
Conversing ==
    /\ \A r \in Runs, c \in Calls : status[r] = "absent" => owner[c] # r
    /\ pc = "starting" => \A c \in Calls : owner[c] # cur
    /\ pc = "chat" => \A c \in Calls : owner[c] = cur => resumed[c] = 1
    /\ pc = "tools" =>
         /\ \A c \in Calls : owner[c] = cur => c \in suspended \/ resumed[c] = 1
         /\ \A c \in suspended : /\ owner[c] = cur /\ resumed[c] = 0
                                 /\ \A s \in Turns : c \notin s.calls

\* An approval is for a call of its run that has not gone back.
Deciding ==
    /\ \A w \in lockQueue : owner[w.call] = w.run
    /\ pc \in {"check", "resolve", "execute", "record", "resume"} =>
          target \in Calls /\ owner[target] = cur
    /\ pc = "resolve" => \A c \in todo : owner[c] = cur
    /\ pc = "execute" => held = target
    /\ pc \in {"execute", "record"} => \A c \in todo : owner[c] = cur
    /\ pc \in {"execute", "record", "resume"} => resumed[target] = 0

TInv ==
    /\ Truthful /\ Counted /\ Whole /\ Disjoint /\ LastTurn /\ Conversing /\ Deciding
------------------------------------------------------------------------------
(* Steps                                                                   *)

\* What is said of turns stands while none is added and none continues.
LEMMA Kept ==
  ASSUME TInv, UNCHANGED <<owner, resumed>>, Turns' \subseteq Turns,
         \A c \in Calls : Done(c) => Done(c)'
  PROVE  Counted' /\ Whole' /\ Disjoint' /\ LastTurn'
<1>1. Counted'
  BY DEF TInv, Counted
<1>2. Whole'
  BY DEF TInv, Whole
<1>3. Disjoint'
  BY DEF TInv, Disjoint
<1>4. LastTurn'
  BY DEF TInv, LastTurn
<1> QED BY <1>1, <1>2, <1>3, <1>4

LEMMA SameTurns == ASSUME UNCHANGED <<suspensions, resumeCtx>> PROVE Turns' = Turns
BY DEF Turns

LEMMA SameAnswers ==
  ASSUME UNCHANGED <<executed, refused>>
  PROVE  /\ \A c \in Calls : Done(c) => Done(c)'
         /\ TInv /\ UNCHANGED answers => Truthful'
BY DEF Done, TInv, Truthful

\* A step beside the turn, or one that ends it: nothing is asked for, and nothing
\* goes back to the model.
LEMMA Aside ==
  ASSUME TInv, UNCHANGED <<owner, resumed>>, Turns' \subseteq Turns, Truthful',
         \A c \in Calls : Done(c) => Done(c)',
         \A r \in Runs : status'[r] = "absent" => status[r] = "absent",
         \A w \in lockQueue' : owner[w.call] = w.run,
         \/ UNCHANGED <<pc, cur, suspended, target, todo, held>>
         \/ pc' \in {"finish", "release", "idle"}
  PROVE  TInv'
<1>1. Counted' /\ Whole' /\ Disjoint' /\ LastTurn'
  BY Kept
<1>2. Conversing'
  BY DEF TInv, Conversing
<1>3. Deciding'
  BY DEF TInv, Deciding
<1> QED BY <1>1, <1>2, <1>3 DEF TInv

\* The requests that wait are the ones that waited.
LEMMA Waiting == ASSUME TInv PROVE \A w \in lockQueue : owner[w.call] = w.run
BY DEF TInv, Deciding

LEMMA OperatorTurns == ASSUME IInv, TInv, Operator PROVE TInv'
<1> USE DEF sessionVars, queueVars, resumeVars, chatVars, approvalVars, serverVars,
            bulkVars, history
<1>1. ASSUME NEW r \in Runs, StartRun(r) PROVE TInv'
  <2>1. Truthful' /\ Counted' /\ Whole' /\ Disjoint' /\ LastTurn'
    BY <1>1, Kept, SameTurns, SameAnswers DEF StartRun
  <2>2. \A c \in Calls : owner[c] # r
    BY <1>1 DEF StartRun, TInv, Conversing
  <2>3. Conversing'
    BY <1>1, <2>2 DEF StartRun, TInv, Conversing, IInv, TypeOK
  <2>4. Deciding'
    BY <1>1 DEF StartRun, TInv, Deciding
  <2> QED BY <2>1, <2>3, <2>4 DEF TInv
<1>2. ASSUME NEW r \in Runs, RequestCancel(r) PROVE TInv'
  BY <1>2, Aside, SameTurns, SameAnswers, Waiting DEF RequestCancel
<1>3. ASSUME NEW r \in Runs, NEW c \in Calls, Approvable(r, c, TRUE) \/ Approvable(r, c, FALSE)
      PROVE  owner[c] = r
  <2>1. c = pendingCall[r] \/ c \in pending[r]
    BY <1>3 DEF Approvable
  <2> QED BY <2>1, AgentRunsAssumption DEF IInv, Ownership, PendingInStore
<1>4. ASSUME NEW r \in Runs, NEW c \in Calls, NEW d \in Decisions, NEW all \in BOOLEAN,
             RequestApproval(r, c, d, all)
      PROVE  TInv'
  <2> DEFINE w == [run |-> r, call |-> c, decision |-> d, all |-> all]
  <2>1. owner[w.call] = w.run
    BY <1>3, <1>4 DEF RequestApproval
  <2>2. \A v \in lockQueue' : owner[v.call] = v.run
    BY <1>4, <2>1, Waiting DEF RequestApproval
  <2> QED BY <1>4, <2>2, Aside, SameTurns, SameAnswers DEF RequestApproval
<1>5. ASSUME NEW r \in Runs, NEW c \in Calls, NEW d \in Decisions, NEW all \in BOOLEAN,
             ApproveInBackground(r, c, d, all)
      PROVE  TInv'
  <2>1. owner[c] = r
    BY <1>3, <1>5 DEF ApproveInBackground
  <2>2. Truthful' /\ Counted' /\ Whole' /\ Disjoint' /\ LastTurn'
    BY <1>5, Kept, SameTurns, SameAnswers DEF ApproveInBackground, BeginApproval
  <2>3. Conversing'
    BY <1>5 DEF ApproveInBackground, BeginApproval, TInv, Conversing
  <2>4. Deciding'
    BY <1>5, <2>1 DEF ApproveInBackground, BeginApproval, TInv, Deciding
  <2> QED BY <2>2, <2>3, <2>4 DEF TInv
<1>6. ASSUME NEW c \in Calls, NEW d \in Decisions, LegacyApproval(c, d) PROVE TInv'
  <2> DEFINE w == [run |-> owner[c], call |-> c, decision |-> d, all |-> FALSE]
  <2>1. owner[w.call] = w.run
    OBVIOUS
  <2>2. \A v \in lockQueue' : owner[v.call] = v.run
    BY <1>6, <2>1, Waiting DEF LegacyApproval
  <2> QED BY <1>6, <2>2, Aside, SameTurns, SameAnswers DEF LegacyApproval
<1>7. CASE Disconnect
  BY <1>7, Aside, SameTurns, SameAnswers, Waiting DEF Disconnect
<1> QED BY <1>1, <1>2, <1>4, <1>5, <1>6, <1>7 DEF Operator

\* The calls of a new batch were never asked for; when all are queued, they make a
\* turn of their own, the last one of its run.
LEMMA ConversationTurns == ASSUME IInv, TInv, Conversation PROVE TInv'
<1> USE AgentRunsAssumption DEF sessionVars, queueVars, resumeVars, chatVars, approvalVars,
            serverVars, bulkVars, history
<1>1. CASE ChatAnswers
  BY <1>1, Aside, SameTurns, SameAnswers, Waiting DEF ChatAnswers, FinishWith
<1>2. CASE ChatFails
  BY <1>2, Aside, SameTurns, SameAnswers, Waiting DEF ChatFails, FinishWith
<1>3. CASE StreamBreaks
  BY <1>3, Aside, SameTurns, SameAnswers, Waiting DEF StreamBreaks, FinishWith
<1>4. CASE ChatCallsTools
  <2>1. Truthful' /\ Counted' /\ Whole' /\ Disjoint' /\ LastTurn'
    BY <1>4, Kept, SameTurns, SameAnswers DEF ChatCallsTools
  <2>2. Conversing' /\ Deciding'
    BY <1>4 DEF ChatCallsTools, TInv, Conversing, Deciding
  <2> QED BY <2>1, <2>2 DEF TInv
<1>5. CASE NextTurn
  <2>1. Truthful' /\ Counted' /\ Whole' /\ Disjoint' /\ LastTurn'
    BY <1>5, Kept, SameTurns, SameAnswers DEF NextTurn
  <2>2. Conversing' /\ Deciding'
    BY <1>5 DEF NextTurn, TInv, Conversing, Deciding
  <2> QED BY <2>1, <2>2 DEF TInv
<1>6. ASSUME NEW c \in Calls, QueueCall(c) PROVE TInv'
  <2>1. /\ pc = "tools" /\ c \in batch /\ cur \in Runs /\ owner[c] = NoRun
        /\ owner' = [owner EXCEPT ![c] = cur] /\ suspended' = suspended \cup {c}
        /\ status' = [status EXCEPT ![cur] = "awaiting"]
        /\ UNCHANGED <<pc, cur, suspensions, resumeCtx, answers, resumed, executed,
                       refused, lockQueue>>
    BY <1>6 DEF QueueCall, Queue, IInv, Control, Ownership
  <2>2. /\ Turns' = Turns /\ owner'[c] = cur
        /\ \A d \in Calls \ {c} : owner'[d] = owner[d]
    BY <2>1, SameTurns DEF IInv, TypeOK
  <2>3. /\ resumed[c] = 0 /\ \A s \in Turns : c \notin s.calls
    BY <2>1 DEF TInv, Counted, Whole
  <2>4. Truthful' /\ Counted'
    BY <2>1, <2>2, <2>3 DEF TInv, Truthful, Counted, Done
  <2>5. Whole' /\ Disjoint'
    BY <2>1, <2>2, <2>3 DEF TInv, Whole, Disjoint
  <2>6. LastTurn'
    <3> SUFFICES ASSUME NEW s \in Turns, NEW x \in s.calls, NEW d \in Calls,
                        resumed[x] = 0, owner'[d] = owner'[x]
                 PROVE  d \in s.calls \/ resumed[d] = 1
      BY <2>1, <2>2 DEF LastTurn
    <3>1. x \in Calls /\ x # c /\ owner'[x] = owner[x]
      BY <2>2, <2>3 DEF TInv, Whole
    <3>2. owner[x] # cur
      BY <2>1, <3>1 DEF TInv, Conversing
    <3>3. d # c /\ owner[d] = owner[x]
      BY <2>2, <3>1, <3>2
    <3> QED BY <3>3 DEF TInv, LastTurn
  <2>7. Conversing'
    BY <2>1, <2>2, <2>3 DEF TInv, Conversing, IInv, TypeOK
  <2>8. Deciding'
    <3>1. \A w \in lockQueue : w.call # c
      BY <2>1 DEF TInv, Deciding, IInv, TypeOK, Request
    <3>2. \A w \in lockQueue : w.call \in Calls
      BY DEF IInv, TypeOK, Request
    <3> QED BY <2>1, <2>2, <3>1, <3>2 DEF TInv, Deciding
  <2> QED BY <2>4, <2>5, <2>6, <2>7, <2>8 DEF TInv
<1>7. CASE Suspend
  <2> DEFINE turn == [calls |-> suspended, denied |-> denied # "no"]
  <2>1. /\ pc = "tools" /\ suspended # {} /\ cur \in Runs /\ suspended \subseteq Calls
        /\ pc' \in {"finish"}
        /\ suspensions' = suspensions \cup {turn}
        /\ resumeCtx' = [resumeCtx EXCEPT ![cur] = turn]
        /\ status' = [status EXCEPT ![cur] = "awaiting"]
        /\ UNCHANGED <<owner, answers, resumed, executed, refused, lockQueue>>
    BY <1>7 DEF Suspend, FinishWith, IInv, Control, TypeOK
  <2>2. Turns' \subseteq Turns \cup {turn}
    BY <2>1 DEF Turns, IInv, TypeOK
  <2>3. turn.calls = suspended
    OBVIOUS
  <2> HIDE DEF turn
  <2>4. /\ \A c \in suspended : owner[c] = cur /\ resumed[c] = 0
        /\ \A s \in Turns : s.calls \cap suspended = {}
        /\ \A c \in Calls : owner[c] = cur => c \in suspended \/ resumed[c] = 1
    BY <2>1 DEF TInv, Conversing
  <2>5. Truthful' /\ Counted'
    BY <2>1, SameAnswers DEF TInv, Counted, Done
  <2>6. Whole'
    BY <2>1, <2>2, <2>3, <2>4 DEF TInv, Whole
  <2>7. Disjoint'
    BY <2>1, <2>2, <2>3, <2>4 DEF TInv, Disjoint
  <2>8. LastTurn'
    BY <2>1, <2>2, <2>3, <2>4 DEF TInv, LastTurn
  <2>9. Conversing' /\ Deciding'
    BY <2>1 DEF TInv, Conversing, Deciding, IInv, TypeOK
  <2> QED BY <2>5, <2>6, <2>7, <2>8, <2>9 DEF TInv
<1> QED BY <1>1, <1>2, <1>3, <1>4, <1>5, <1>6, <1>7 DEF Conversation, ChatEnds

\* Calls that wait have not gone back to the model.
LEMMA QueuedNotResumed == ASSUME IInv, TInv, NEW c \in store PROVE c \in Calls /\ resumed[c] = 0
BY DEF IInv, TypeOK, Unanswered, TInv, Counted, Done

\* An approval answers one call after the other, and then the turn continues if it
\* has all its answers: none of its calls has gone back before.
LEMMA ApprovalTurns == ASSUME IInv, TInv, ApprovalSteps PROVE TInv'
<1> USE AgentRunsAssumption DEF sessionVars, queueVars, resumeVars, chatVars, approvalVars,
            serverVars, bulkVars, history
<1>1. CASE CheckAgain
  <2>1. Truthful' /\ Counted' /\ Whole' /\ Disjoint' /\ LastTurn'
    BY <1>1, Kept, SameTurns, SameAnswers DEF CheckAgain
  <2>2. cur \in Runs /\ target \in Calls /\ owner[target] = cur
    BY <1>1 DEF CheckAgain, IInv, Control, TInv, Deciding
  <2>3. \A c \in pending[cur] \cup PendingIds(cur) : owner[c] = cur
    BY <2>2 DEF IInv, Ownership, PendingInStore, PendingIds
  <2>4. \A c \in todo' : owner[c] = cur
    BY <1>1, <2>2, <2>3 DEF CheckAgain
  <2>5. Conversing'
    BY <1>1 DEF CheckAgain, TInv, Conversing
  <2>6. Deciding'
    BY <1>1, <2>2, <2>4 DEF CheckAgain, TInv, Deciding
  <2> QED BY <2>1, <2>5, <2>6 DEF TInv
<1>2. ASSUME NEW c \in Calls, ApprovalNotFound(c) PROVE TInv'
  BY <1>2, Aside, SameTurns, SameAnswers, Waiting DEF ApprovalNotFound, FinishWith
<1>3. ASSUME NEW c \in Calls, ClaimCall(c) PROVE TInv'
  <2>1. /\ pc = "resolve" /\ c \in todo /\ c \in store /\ pc' = "execute"
        /\ held' = c /\ target' = c
        /\ UNCHANGED <<cur, todo, owner, status, suspensions, resumeCtx, answers,
                       resumed, executed, refused, lockQueue>>
    BY <1>3 DEF ClaimCall, Resolve
  <2>2. Truthful' /\ Counted' /\ Whole' /\ Disjoint' /\ LastTurn'
    BY <2>1, Kept, SameTurns, SameAnswers
  <2>3. Conversing' /\ Deciding'
    BY <2>1, QueuedNotResumed DEF TInv, Conversing, Deciding
  <2> QED BY <2>2, <2>3 DEF TInv
<1>4. ASSUME NEW c \in Calls, DenyCall(c) PROVE TInv'
  <2>1. /\ pc = "resolve" /\ c \in todo /\ c \in store /\ pc' = "record" /\ target' = c
        /\ refused' = refused \cup {c} /\ todo' \subseteq todo
        /\ answers' \in {answers, [answers EXCEPT ![c] = "denied"]}
        /\ UNCHANGED <<cur, owner, status, suspensions, resumeCtx, resumed, executed,
                       lockQueue>>
    BY <1>4 DEF DenyCall, Resolve, Answer
  <2>2. Truthful' /\ \A d \in Calls : Done(d) => Done(d)'
    BY <2>1 DEF TInv, Truthful, Done, IInv, TypeOK
  <2>3. Counted' /\ Whole' /\ Disjoint' /\ LastTurn'
    BY <2>1, <2>2, Kept, SameTurns
  <2>4. Conversing' /\ Deciding'
    BY <2>1, QueuedNotResumed DEF TInv, Conversing, Deciding
  <2> QED BY <2>2, <2>3, <2>4 DEF TInv
<1>5. CASE ExecuteCall
  <2>1. /\ pc = "execute" /\ pc' = "record" /\ held \in Calls /\ todo' \subseteq todo
        /\ executed' = [executed EXCEPT ![held] = @ + 1]
        /\ answers' \in {answers, [answers EXCEPT ![held] = "ok"]}
        /\ UNCHANGED <<cur, target, owner, status, suspensions, resumeCtx, resumed, refused,
                       lockQueue>>
    BY <1>5 DEF ExecuteCall, Answer, IInv, Control, TypeOK
  <2>2. Truthful' /\ \A d \in Calls : Done(d) => Done(d)'
    BY <2>1 DEF TInv, Truthful, Done, IInv, TypeOK
  <2>3. Counted' /\ Whole' /\ Disjoint' /\ LastTurn'
    BY <2>1, <2>2, Kept, SameTurns
  <2>4. Conversing' /\ Deciding'
    BY <2>1 DEF TInv, Conversing, Deciding
  <2> QED BY <2>2, <2>3, <2>4 DEF TInv
<1>6. CASE ExecuteFails
  <2>1. /\ pc' = "finish" /\ held \in Calls
        /\ \E n \in {0, 1} : executed' = [executed EXCEPT ![held] = @ + n]
        /\ UNCHANGED <<owner, status, suspensions, resumeCtx, resumed, answers, refused,
                       lockQueue>>
    BY <1>6 DEF ExecuteFails, FinishWith, IInv, Control, TypeOK
  <2>2. Truthful' /\ \A d \in Calls : Done(d) => Done(d)'
    BY <2>1 DEF TInv, Truthful, Done, IInv, TypeOK
  <2> QED BY <2>1, <2>2, Aside, SameTurns, Waiting
<1>7. CASE PolicyRejects
  <2>1. /\ pc' = "finish" /\ held \in Calls /\ owner[held] \in Runs
        /\ owner' = owner /\ status' = [status EXCEPT ![owner[held]] = "awaiting"]
        /\ UNCHANGED <<suspensions, resumeCtx, resumed, answers, executed, refused, lockQueue>>
    BY <1>7 DEF PolicyRejects, Queue, FinishWith, IInv, Control, Claims, TypeOK
  <2>2. \A r \in Runs : status'[r] = "absent" => status[r] = "absent"
    BY <2>1 DEF IInv, TypeOK
  <2> QED BY <2>1, <2>2, Aside, SameTurns, SameAnswers, Waiting
<1>8. CASE RecordResult
  <2>1. Truthful' /\ Counted' /\ Whole' /\ Disjoint' /\ LastTurn'
    BY <1>8, Kept, SameTurns, SameAnswers DEF RecordResult
  <2>2. Conversing' /\ Deciding'
    BY <1>8 DEF RecordResult, TInv, Conversing, Deciding
  <2> QED BY <2>1, <2>2 DEF TInv
<1>9. CASE ClientGone
  BY <1>9, Aside, SameTurns, SameAnswers, Waiting DEF ClientGone
<1>10. CASE StayAwaiting
  BY <1>10, Aside, SameTurns, SameAnswers, Waiting DEF StayAwaiting
<1>11. ASSUME NEW s \in suspensions, Resume(s) PROVE TInv'
  <2>1. /\ pc = "resume" /\ pc' = "chat" /\ target \in s.calls
        /\ \A c \in s.calls : answers[c] # "none"
        /\ resumed' = [c \in Calls |-> IF c \in s.calls THEN resumed[c] + 1 ELSE resumed[c]]
        /\ UNCHANGED <<cur, owner, status, suspensions, resumeCtx, answers, executed, refused,
                       lockQueue>>
    BY <1>11 DEF Resume, SuspensionOf, Answered
  <2>2. s \in Turns /\ Turns' = Turns
    BY <2>1, SameTurns DEF Turns, NoContext
  <2>3. /\ owner[target] = cur /\ resumed[target] = 0
        /\ s.calls \subseteq Calls
        /\ \A c \in s.calls : owner[c] = cur /\ resumed[c] = 0
    BY <2>1, <2>2 DEF TInv, Deciding, Whole
  <2>4. \A c \in Calls : resumed'[c] = IF c \in s.calls THEN 1 ELSE resumed[c]
    BY <2>1, <2>3
  <2>5. \A c \in s.calls : Done(c)
    BY <2>1, <2>3 DEF TInv, Truthful, Done, IInv, TypeOK, Answers
  <2>6. Truthful'
    BY <2>1 DEF TInv, Truthful
  <2>7. Counted'
    BY <2>1, <2>2, <2>3, <2>4, <2>5 DEF TInv, Counted, Done, Whole
  <2>8. Whole'
    <3> SUFFICES ASSUME NEW t \in Turns
                 PROVE  /\ t.calls # {} /\ t.calls \subseteq Calls
                        /\ \A c \in t.calls : owner[c] \in Runs
                        /\ \A c, d \in t.calls : owner[c] = owner[d] /\ resumed'[c] = resumed'[d]
      BY <2>1, <2>2 DEF Whole
    <3>1. t.calls = s.calls \/ t.calls \cap s.calls = {}
      BY <2>2 DEF TInv, Disjoint
    <3> QED BY <2>4, <3>1 DEF TInv, Whole
  <2>9. Disjoint'
    BY <2>2 DEF TInv, Disjoint
  <2>10. LastTurn'
    <3> SUFFICES ASSUME NEW t \in Turns, NEW x \in t.calls, NEW d \in Calls,
                        resumed'[x] = 0, owner[d] = owner[x]
                 PROVE  d \in t.calls \/ resumed'[d] = 1
      BY <2>1, <2>2 DEF LastTurn
    <3>1. x \in Calls
      BY DEF TInv, Whole
    <3>2. resumed[x] = 0
      BY <2>4, <3>1
    <3>3. d \in t.calls \/ resumed[d] = 1
      BY <3>2 DEF TInv, LastTurn
    <3> QED BY <2>4, <3>3
  <2>11. \A c \in Calls : owner[c] = cur => resumed'[c] = 1
    BY <2>1, <2>2, <2>3, <2>4 DEF TInv, LastTurn
  <2>12. Conversing' /\ Deciding'
    BY <2>1, <2>11 DEF TInv, Conversing, Deciding
  <2> QED BY <2>6, <2>7, <2>8, <2>9, <2>10, <2>12 DEF TInv
<1> QED BY <1>1, <1>2, <1>3, <1>4, <1>5, <1>6, <1>7, <1>8, <1>9, <1>10, <1>11
        DEF ApprovalSteps

\* Approve-all answers calls and continues nothing.
LEMMA BulkTurns == ASSUME IInv, TInv, Bulk PROVE TInv'
<1> USE AgentRunsAssumption DEF sessionVars, queueVars, resumeVars, chatVars, approvalVars,
            serverVars, bulkVars, history
<1>1. CASE BulkList
  BY <1>1, Aside, SameTurns, SameAnswers, Waiting DEF BulkList
<1>2. ASSUME NEW c \in Calls, BulkClaim(c) PROVE TInv'
  BY <1>2, Aside, SameTurns, SameAnswers, Waiting DEF BulkClaim, Resolve
<1>3. ASSUME NEW c \in Calls, BulkNotFound(c) PROVE TInv'
  BY <1>3, Aside, SameTurns, SameAnswers, Waiting DEF BulkNotFound
<1>4. CASE BulkExecute
  <2>1. /\ bulkHeld \in Calls
        /\ executed' = [executed EXCEPT ![bulkHeld] = @ + 1]
        /\ answers' \in {answers, [answers EXCEPT ![bulkHeld] = "ok"]}
        /\ UNCHANGED <<pc, cur, suspended, target, todo, held, owner, status, suspensions,
                       resumeCtx, resumed, refused, lockQueue>>
    BY <1>4 DEF BulkExecute, Answer, IInv, TypeOK
  <2>2. Truthful' /\ \A d \in Calls : Done(d) => Done(d)'
    BY <2>1 DEF TInv, Truthful, Done, IInv, TypeOK
  <2> QED BY <2>1, <2>2, Aside, SameTurns, Waiting
<1>5. CASE BulkExecuteFails
  <2>1. /\ bulkHeld \in Calls
        /\ \E n \in {0, 1} : executed' = [executed EXCEPT ![bulkHeld] = @ + n]
        /\ UNCHANGED <<pc, cur, suspended, target, todo, held, owner, status, suspensions,
                       resumeCtx, resumed, answers, refused, lockQueue>>
    BY <1>5 DEF BulkExecuteFails, IInv, TypeOK
  <2>2. Truthful' /\ \A d \in Calls : Done(d) => Done(d)'
    BY <2>1 DEF TInv, Truthful, Done, IInv, TypeOK
  <2> QED BY <2>1, <2>2, Aside, SameTurns, Waiting
<1>6. CASE BulkPolicyRejects
  <2>1. /\ bulkHeld \in Calls /\ owner[bulkHeld] \in Runs
        /\ owner' = owner /\ status' = [status EXCEPT ![owner[bulkHeld]] = "awaiting"]
        /\ UNCHANGED <<pc, cur, suspended, target, todo, held, suspensions, resumeCtx,
                       resumed, answers, executed, refused, lockQueue>>
    BY <1>6 DEF BulkPolicyRejects, Queue, IInv, Claims, TypeOK
  <2>2. \A r \in Runs : status'[r] = "absent" => status[r] = "absent"
    BY <2>1 DEF IInv, TypeOK
  <2> QED BY <2>1, <2>2, Aside, SameTurns, SameAnswers, Waiting
<1> QED BY <1>1, <1>2, <1>3, <1>4, <1>5, <1>6 DEF Bulk

\* What forgets suspended turns, their results or the turn that is executed.
LEMMA ForgettingTurns ==
  ASSUME IInv, TInv,
         Finish \/ Release \/ Restart \/ \E r \in Runs : CancelPaused(r) \/ CancelActive(r)
  PROVE  TInv'
<1> USE AgentRunsAssumption DEF sessionVars, queueVars, resumeVars, chatVars, approvalVars,
            serverVars, bulkVars, history
<1>1. CASE Finish
  <2>1. /\ pc' = "release" /\ cur \in Runs
        /\ status' = [status EXCEPT ![cur] = outcome] /\ outcome # "absent"
        /\ resumeCtx' \in {resumeCtx, [resumeCtx EXCEPT ![cur] = NoContext]}
        /\ suspensions' \subseteq suspensions
        /\ \A c \in Calls : answers'[c] \in {answers[c], "none"}
        /\ UNCHANGED <<owner, resumed, executed, refused, lockQueue>>
    <3>1. pc = "finish" /\ cur \in Runs /\ outcome # "absent"
      BY <1>1 DEF Finish, IInv, Control, TypeOK, Outcomes, Terminal
    <3>2. resumeCtx' \in {resumeCtx, [resumeCtx EXCEPT ![cur] = NoContext]}
      BY <1>1, <3>1 DEF Finish, IInv, TypeOK
    <3> QED BY <1>1, <3>1, <3>2 DEF Finish
  <2>2. Turns' \subseteq Turns
    BY <2>1 DEF Turns, IInv, TypeOK
  <2>3. Truthful'
    BY <2>1 DEF TInv, Truthful
  <2>4. \A r \in Runs : status'[r] = "absent" => status[r] = "absent"
    BY <2>1 DEF IInv, TypeOK
  <2> QED BY <2>1, <2>2, <2>3, <2>4, Aside, SameAnswers, Waiting
<1>2. CASE Release
  BY <1>2, Aside, SameTurns, SameAnswers, Waiting DEF Release, NoTurn
<1>3. CASE Restart
  <2>1. /\ pc' = "idle" /\ lockQueue' = {}
        /\ UNCHANGED <<status, owner, resumeCtx, resumed, executed, refused>>
        /\ answers' = [c \in Calls |-> "none"]
        /\ suspensions' = {resumeCtx[r] : r \in Runs} \ {NoContext}
    BY <1>3 DEF Restart, NoTurn
  <2>2. Turns' \subseteq Turns
    BY <2>1 DEF Turns
  <2>3. Truthful'
    BY <2>1 DEF Truthful
  <2> QED BY <2>1, <2>2, <2>3, Aside, SameAnswers
<1>4. ASSUME NEW r \in Runs, CancelPaused(r) PROVE TInv'
  <2>1. /\ status' = [status EXCEPT ![r] = "cancelled"]
        /\ resumeCtx' = [resumeCtx EXCEPT ![r] = NoContext]
        /\ UNCHANGED <<pc, cur, suspended, target, todo, held, owner, suspensions,
                       resumed, answers, executed, refused, lockQueue>>
    BY <1>4 DEF CancelPaused
  <2>2. Turns' \subseteq Turns
    BY <2>1 DEF Turns, IInv, TypeOK
  <2>3. \A q \in Runs : status'[q] = "absent" => status[q] = "absent"
    BY <2>1 DEF IInv, TypeOK
  <2> QED BY <2>1, <2>2, <2>3, Aside, SameAnswers, Waiting
<1>5. ASSUME NEW r \in Runs, CancelActive(r) PROVE TInv'
  <2>1. \A q \in Runs : status'[q] = "absent" => status[q] = "absent"
    BY <1>5 DEF CancelActive, IInv, TypeOK
  <2> QED BY <1>5, <2>1, Aside, SameTurns, SameAnswers, Waiting DEF CancelActive
<1> QED BY <1>1, <1>2, <1>3, <1>4, <1>5

LEMMA LockTurns == ASSUME IInv, TInv, TakeAnyLock \/ Register PROVE TInv'
<1> USE DEF sessionVars, queueVars, resumeVars, chatVars, approvalVars, serverVars,
            bulkVars, history
<1>1. CASE TakeAnyLock
  <2>1. PICK w \in lockQueue : TakeLock(w)
    BY <1>1 DEF TakeAnyLock
  <2>2. owner[w.call] = w.run /\ w.call \in Calls
    BY Waiting DEF IInv, TypeOK, Request
  <2>3. Truthful' /\ Counted' /\ Whole' /\ Disjoint' /\ LastTurn'
    BY <2>1, Kept, SameTurns, SameAnswers DEF TakeLock, BeginApproval
  <2>4. Conversing'
    BY <2>1 DEF TakeLock, BeginApproval, TInv, Conversing
  <2>5. Deciding'
    BY <2>1, <2>2 DEF TakeLock, BeginApproval, TInv, Deciding
  <2> QED BY <2>3, <2>4, <2>5 DEF TInv
<1>2. CASE Register
  <2>1. Truthful' /\ Counted' /\ Whole' /\ Disjoint' /\ LastTurn'
    BY <1>2, Kept, SameTurns, SameAnswers DEF Register
  <2>2. Conversing' /\ Deciding'
    BY <1>2 DEF Register, TInv, Conversing, Deciding
  <2> QED BY <2>1, <2>2 DEF TInv
<1> QED BY <1>1, <1>2

LEMMA InitTurns == Init => TInv
<1> SUFFICES ASSUME Init PROVE TInv
  OBVIOUS
<1> USE AgentRunsAssumption DEF Init
<1>1. Turns = {}
  BY DEF Turns
<1>2. Truthful /\ Counted /\ Whole /\ Disjoint /\ LastTurn
  BY <1>1 DEF Truthful, Counted, Whole, Disjoint, LastTurn
<1>3. Conversing /\ Deciding
  BY DEF Conversing, Deciding
<1> QED BY <1>2, <1>3 DEF TInv

LEMMA NextTurns == IInv /\ TInv /\ [Next]_vars => TInv'
<1> SUFFICES ASSUME IInv, TInv, [Next]_vars PROVE TInv'
  OBVIOUS
<1>1. CASE UNCHANGED vars
  BY <1>1, Aside, SameTurns, SameAnswers, Waiting
     DEF vars, sessionVars, queueVars, resumeVars, chatVars, approvalVars, serverVars,
         bulkVars, history
<1> QED BY <1>1, OperatorTurns, ConversationTurns, ApprovalTurns, BulkTurns,
        ForgettingTurns, LockTurns DEF Next, TurnStep, Cancel
------------------------------------------------------------------------------
(* Every turn continues once                                               *)

LEMMA Turning == Spec => []TInv
BY InitTurns, NextTurns, Invariance, PTL DEF Spec

\* Two answers that arrive together do not make two conversations out of one
\* suspended turn (ResumeApprovedOrdinaryToolCall), with any number of requests,
\* approve-all beside them, failures, cancels and restarts at any moment.
THEOREM TurnsContinueOnce == Spec => []ResumedOnce
<1>1. TInv => ResumedOnce
  BY DEF TInv, Counted, ResumedOnce
<1> QED BY <1>1, Turning, PTL

\* The model is never called with a call of its own unanswered: continueConversation
\* goes on from a suspended turn only with every result, and no other turn of the
\* run is left behind it, whatever fails, is cancelled or restarts in between.
THEOREM ChatsAreAnswered == Spec => []ChatMeansAnswered
<1>1. TInv => ChatMeansAnswered
  BY DEF TInv, Counted, Conversing, Done, ChatMeansAnswered
<1> QED BY <1>1, Turning, PTL

------------------------------------------------------------------------------
(* Runs that wait for the operator, while nothing is cancelled and nobody  *)
(* uses approve-all, hangs up or restarts the process                      *)

Calm == Events \cap {"cancel", "approveAll", "disconnect", "restart"} = {}

\* The turn of a run is about to write something else than awaiting.
Ending(r) ==
    \/ status[r] # "awaiting"
    \/ cur = r /\ pc = "finish" /\ outcome # "awaiting"

\* The calls a run shows belong to a turn that has not continued.
Open(r) ==
    \E s \in suspensions : /\ pending[r] \subseteq s.calls
                           /\ \E c \in s.calls : owner[c] = r /\ resumed[c] = 0

Shows(r) == pendingCall[r] \in pending[r]

\* An awaiting run shows a call of its turn, unless the turn is being executed.
Awaiting ==
    \A r \in Runs :
        \/ Ending(r)
        \/ Open(r) /\ Shows(r)
        \/ cur = r /\ pc \in {"chat", "tools"}
        \/ /\ cur = r /\ pc \in {"resolve", "execute", "record", "resume"}
           /\ Open(r) /\ (pending[r] # {} => Shows(r))

\* A call of a suspended turn has its result, or the run shows it, or it is being
\* executed, or the run is at its end.
NotLost ==
    \A s \in suspensions : \A c \in s.calls :
        /\ c \in annotated
        /\ resumed[c] = 0 => \/ c \in pending[owner[c]] \/ answers[c] # "none"
                             \/ c = held \/ Ending(owner[c])

\* A turn that has continued is kept only until its run's next end, or for ever
\* when that end was a failure; such a run asks for nothing any more.
Leftover ==
    \A s \in suspensions : \A c \in s.calls : resumed[c] = 1 =>
        \/ c \in resuming
        \/ /\ Ending(owner[c])
           /\ \A d \in Calls : owner[d] = owner[c] => resumed[d] = 1
           /\ ~ (cur = owner[c] /\ pc \in {"chat", "tools"})

\* What the executed turn is waiting for, or resumes.
Place ==
    /\ cancels = {} /\ bulkTodo = {} /\ bulkHeld = NoCall
    /\ \A s \in suspensions : s.calls # {}
    /\ pc = "tools" => /\ suspended \subseteq pending[cur]
                       /\ suspended # {} => target \in suspended
    /\ pc = "finish" /\ outcome = "awaiting" => status[cur] = "awaiting"
    /\ \A c \in resuming : resumed[c] = 1 /\ owner[c] = cur
    /\ pc \notin {"chat", "tools", "finish", "release"} => resuming = {}
    /\ pc = "release" => \A s \in suspensions : s.calls \cap resuming = {}

WInv == Awaiting /\ NotLost /\ Leftover /\ Place

\* The calls of suspended turns belong to runs.
LEMMA Members ==
  ASSUME TInv, NEW s \in suspensions, NEW c \in s.calls
  PROVE  s \in Turns /\ c \in Calls /\ owner[c] \in Runs
<1>1. s \in Turns
  BY DEF Turns, NoContext
<1> QED BY <1>1 DEF TInv, Whole

LEMMA SameOpen ==
  ASSUME UNCHANGED <<suspensions, pending, pendingCall, owner, resumed>>, NEW r \in Runs
  PROVE  (Open(r)' <=> Open(r)) /\ (Shows(r)' <=> Shows(r))
BY DEF Open, Shows

\* A request that waits changes nothing of this.
LEMMA WaitingStill ==
  ASSUME WInv, UNCHANGED <<status, pendingCall, pending, owner, annotated, suspensions,
                           answers, resumed, resuming, held, cancels, bulkTodo, bulkHeld,
                           pc, cur, outcome, suspended, target>>
  PROVE  WInv'
<1>1. Awaiting'
  BY SameOpen DEF WInv, Awaiting, Ending
<1>2. NotLost' /\ Leftover' /\ Place'
  BY DEF WInv, NotLost, Leftover, Place, Ending
<1> QED BY <1>1, <1>2 DEF WInv

\* A turn begins: all awaiting runs show their calls.
LEMMA WaitingBegins ==
  ASSUME TInv, WInv, pc = "idle", pc' \in {"starting", "check"}, cur' \in Runs,
         \A r \in Runs : status[r] # "awaiting" => status'[r] # "awaiting",
         \A r \in Runs : status[r] = "awaiting" => status'[r] = "awaiting",
         UNCHANGED <<pendingCall, pending, owner, annotated, suspensions, answers, resumed,
                     resuming, held, cancels, bulkTodo, bulkHeld>>
  PROVE  WInv'
<1>1. Awaiting'
  BY SameOpen DEF WInv, Awaiting, Ending
<1>2. NotLost' /\ Leftover'
  <2>1. \A s \in suspensions : \A c \in s.calls : owner[c] \in Runs
    BY Members
  <2>2. \A r : Ending(r) => status[r] # "awaiting"
    BY DEF Ending
  <2> QED BY <2>1, <2>2 DEF WInv, NotLost, Leftover, Place, Ending
<1>3. Place'
  BY DEF WInv, Place
<1> QED BY <1>1, <1>2, <1>3 DEF WInv

\* What a run shows has not gone back to the model.
LEMMA Shown ==
  ASSUME IInv, TInv, NEW r \in Runs, NEW c \in pending[r]
  PROVE  c \in store /\ c \in Calls /\ owner[c] = r /\ resumed[c] = 0
BY QueuedNotResumed DEF IInv, PendingInStore

LEMMA WaitingOperator == ASSUME Calm, IInv, TInv, WInv, Operator PROVE WInv'
<1> USE DEF sessionVars, queueVars, resumeVars, chatVars, approvalVars, serverVars,
            bulkVars, history
<1>1. ASSUME NEW r \in Runs, StartRun(r) PROVE WInv'
  BY <1>1, WaitingBegins DEF StartRun, IInv, TypeOK
<1>2. ASSUME NEW r \in Runs, NEW c \in Calls, NEW d \in Decisions, NEW all \in BOOLEAN,
             RequestApproval(r, c, d, all)
      PROVE  WInv'
  BY <1>2, WaitingStill DEF RequestApproval
<1>3. ASSUME NEW r \in Runs, NEW c \in Calls, NEW d \in Decisions, NEW all \in BOOLEAN,
             ApproveInBackground(r, c, d, all)
      PROVE  WInv'
  BY <1>3, WaitingBegins DEF ApproveInBackground, BeginApproval
<1>4. ASSUME NEW c \in Calls, NEW d \in Decisions, LegacyApproval(c, d) PROVE WInv'
  BY <1>4, WaitingStill DEF LegacyApproval
<1>5. ~ Disconnect /\ \A r \in Runs : ~ RequestCancel(r)
  BY DEF Calm, Disconnect, RequestCancel
<1> QED BY <1>1, <1>2, <1>3, <1>4, <1>5 DEF Operator

LEMMA WaitingConversation == ASSUME Calm, IInv, TInv, WInv, Conversation PROVE WInv'
<1> USE DEF sessionVars, queueVars, resumeVars, chatVars, approvalVars, serverVars,
            bulkVars, history
<1>1. CASE ChatAnswers
  <2>1. outcome' # "awaiting" /\ pc = "chat" /\ pc' = "finish"
    BY <1>1 DEF ChatAnswers, FinishWith
  <2>2. Awaiting'
    BY <1>1, <2>1, SameOpen DEF ChatAnswers, WInv, Awaiting, Ending
  <2>3. NotLost' /\ Leftover' /\ Place'
    BY <1>1, <2>1 DEF ChatAnswers, WInv, NotLost, Leftover, Place, Ending
  <2> QED BY <2>2, <2>3 DEF WInv
<1>2. CASE ChatFails
  <2>1. /\ outcome' # "awaiting" /\ pc = "chat" /\ pc' = "finish" /\ resuming' = {}
        /\ cur' = cur
    BY <1>2 DEF ChatFails, FinishWith
  <2>2. Awaiting'
    BY <1>2, <2>1, SameOpen DEF ChatFails, WInv, Awaiting, Ending
  <2>3. NotLost' /\ Place'
    BY <1>2, <2>1 DEF ChatFails, WInv, NotLost, Place, Ending
  <2>4. \A d \in Calls : owner[d] = cur => resumed[d] = 1
    BY <2>1 DEF TInv, Conversing
  <2>5. \A c \in resuming : owner[c] = cur
    BY DEF WInv, Place
  <2>6. Leftover'
    BY <1>2, <2>1, <2>4, <2>5 DEF ChatFails, WInv, Leftover, Ending
  <2> QED BY <2>2, <2>3, <2>6 DEF WInv
<1>3. CASE ChatCallsTools
  <2>1. /\ pc = "chat" /\ pc' = "tools" /\ suspended' = {}
        /\ UNCHANGED <<status, pendingCall, pending, owner, annotated, suspensions, answers,
                       resumed, resuming, held, cancels, bulkTodo, bulkHeld, cur, outcome>>
    BY <1>3 DEF ChatCallsTools
  <2>2. Awaiting'
    BY <2>1, SameOpen DEF WInv, Awaiting, Ending
  <2>3. NotLost' /\ Leftover' /\ Place'
    BY <2>1 DEF WInv, NotLost, Leftover, Place, Ending
  <2> QED BY <2>2, <2>3 DEF WInv
<1>4. CASE NextTurn
  <2>1. /\ pc = "tools" /\ pc' = "chat"
        /\ UNCHANGED <<status, pendingCall, pending, owner, annotated, suspensions, answers,
                       resumed, resuming, held, cancels, bulkTodo, bulkHeld, cur, outcome>>
    BY <1>4 DEF NextTurn
  <2>2. Awaiting'
    BY <2>1, SameOpen DEF WInv, Awaiting, Ending
  <2>3. NotLost' /\ Leftover' /\ Place'
    BY <2>1 DEF WInv, NotLost, Leftover, Place, Ending
  <2> QED BY <2>2, <2>3 DEF WInv
<1>5. ASSUME NEW c \in Calls, QueueCall(c) PROVE WInv'
  <2>1. /\ pc = "tools" /\ cur \in Runs /\ owner[c] = NoRun
        /\ owner' = [owner EXCEPT ![c] = cur] /\ suspended' = suspended \cup {c}
        /\ status' = [status EXCEPT ![cur] = "awaiting"]
        /\ pendingCall' = [pendingCall EXCEPT ![cur] = c]
        /\ pending' = [pending EXCEPT ![cur] = @ \cup {c}]
        /\ target' = c
        /\ UNCHANGED <<annotated, suspensions, answers, resumed, resuming, held, cancels,
                       bulkTodo, bulkHeld, pc, cur, outcome>>
    BY <1>5 DEF QueueCall, Queue, IInv, Control, Ownership
  <2>2. /\ \A d \in Calls \ {c} : owner'[d] = owner[d]
        /\ \A r \in Runs \ {cur} : /\ status'[r] = status[r] /\ pending'[r] = pending[r]
                                   /\ pendingCall'[r] = pendingCall[r]
        /\ pending'[cur] = pending[cur] \cup {c} /\ status'[cur] = "awaiting"
        /\ owner'[c] = cur /\ pendingCall'[cur] = c
    BY <2>1 DEF IInv, TypeOK
  <2>3. \A s \in suspensions : \A d \in s.calls : d # c /\ owner'[d] = owner[d]
    BY <2>1, <2>2, Members, AgentRunsAssumption
  <2>4. Awaiting'
    <3> SUFFICES ASSUME NEW r \in Runs, r # cur
                 PROVE  Ending(r)' \/ (Open(r)' /\ Shows(r)')
      BY <2>1 DEF Awaiting
    <3>1. Ending(r) \/ (Open(r) /\ Shows(r))
      BY DEF WInv, Awaiting
    <3>2. Ending(r) => Ending(r)'
      BY <2>1, <2>2 DEF Ending
    <3>3. Open(r) /\ Shows(r) => Open(r)' /\ Shows(r)'
      BY <2>1, <2>2, <2>3 DEF Open, Shows
    <3> QED BY <3>1, <3>2, <3>3
  <2>5. \A s \in suspensions : \A d \in s.calls : owner[d] = cur => resumed[d] = 1
    BY <2>1, Members DEF TInv, Conversing
  <2>6. NotLost'
    <3> SUFFICES ASSUME NEW s \in suspensions, NEW d \in s.calls
                 PROVE  /\ d \in annotated
                        /\ resumed[d] = 0 => \/ d \in pending'[owner'[d]] \/ answers[d] # "none"
                                             \/ d = held \/ Ending(owner[d])'
      BY <2>1, <2>3 DEF NotLost, Ending
    <3>1. owner[d] \in Runs
      BY Members
    <3>2. CASE owner[d] = cur
      BY <2>5, <3>2 DEF WInv, NotLost
    <3>3. CASE owner[d] # cur
      <4>1. /\ d \in annotated
            /\ resumed[d] = 0 => \/ d \in pending[owner[d]] \/ answers[d] # "none"
                                 \/ d = held \/ Ending(owner[d])
        BY DEF WInv, NotLost
      <4>2. Ending(owner[d]) => Ending(owner[d])'
        BY <2>1, <2>2, <2>3, <3>1, <3>3 DEF Ending
      <4> QED BY <2>2, <2>3, <3>1, <3>3, <4>1, <4>2
    <3> QED BY <3>2, <3>3
  <2>7. Leftover'
    <3> SUFFICES ASSUME NEW s \in suspensions, NEW d \in s.calls, resumed[d] = 1, d \notin resuming
                 PROVE  /\ Ending(owner[d])'
                        /\ \A e \in Calls : owner'[e] = owner'[d] => resumed[e] = 1
                        /\ ~ (cur = owner'[d] /\ pc \in {"chat", "tools"})
      BY <2>1, <2>3 DEF Leftover
    <3>1. /\ Ending(owner[d]) /\ owner[d] # cur
          /\ \A e \in Calls : owner[e] = owner[d] => resumed[e] = 1
      BY <2>1 DEF WInv, Leftover
    <3>2. Ending(owner[d])'
      BY <2>1, <2>2, <2>3, <3>1, Members DEF Ending
    <3> QED BY <2>1, <2>2, <2>3, <3>1, <3>2
  <2>8. Place'
    <3>1. \A d \in resuming : d \in Calls
      BY DEF IInv, TypeOK
    <3>2. \A d \in resuming : owner'[d] = cur
      BY <2>2, <3>1 DEF WInv, Place
    <3> QED BY <2>1, <2>2, <3>2 DEF WInv, Place
  <2> QED BY <2>4, <2>6, <2>7, <2>8 DEF WInv
<1>6. CASE Suspend
  <2> DEFINE turn == [calls |-> suspended, denied |-> denied # "no"]
  <2>1. /\ pc = "tools" /\ suspended # {} /\ cur \in Runs /\ pc' = "finish"
        /\ suspensions' = suspensions \cup {turn}
        /\ annotated' = annotated \cup (suspended \cap store)
        /\ status' = [status EXCEPT ![cur] = "awaiting"]
        /\ pendingCall' = [pendingCall EXCEPT ![cur] = target]
        /\ UNCHANGED <<owner, pending, answers, resumed, resuming, held, cancels, bulkTodo,
                       bulkHeld, cur>>
    BY <1>6 DEF Suspend, FinishWith, IInv, Control
  <2>2. turn.calls = suspended
    OBVIOUS
  <2> HIDE DEF turn
  <2>3. /\ suspended \subseteq pending[cur] /\ pending[cur] \subseteq suspended
        /\ suspended \subseteq store /\ target \in suspended
        /\ \A c \in suspended : owner[c] = cur /\ resumed[c] = 0
    <3>1. /\ suspended \subseteq pending[cur] /\ target \in suspended
          /\ \A c \in suspended : owner[c] = cur /\ resumed[c] = 0
          /\ \A c \in Calls : owner[c] = cur => c \in suspended \/ resumed[c] = 1
      BY <2>1 DEF WInv, Place, TInv, Conversing
    <3>2. pending[cur] \subseteq suspended /\ pending[cur] \subseteq store
      BY <2>1, <3>1, Shown
    <3> QED BY <3>1, <3>2
  <2>4. /\ status'[cur] = "awaiting" /\ pendingCall'[cur] = target
        /\ \A r \in Runs \ {cur} : status'[r] = status[r] /\ pendingCall'[r] = pendingCall[r]
    BY <2>1 DEF IInv, TypeOK
  <2>5. Awaiting'
    <3>1. Open(cur)' /\ Shows(cur)'
      BY <2>1, <2>2, <2>3, <2>4 DEF Open, Shows
    <3>2. ASSUME NEW r \in Runs, r # cur PROVE Ending(r)' \/ (Open(r)' /\ Shows(r)')
      <4>1. Ending(r) \/ (Open(r) /\ Shows(r))
        BY <2>1, <3>2 DEF WInv, Awaiting
      <4>2. Ending(r) => Ending(r)'
        BY <2>1, <2>4, <3>2 DEF Ending
      <4>3. Open(r) /\ Shows(r) => Open(r)' /\ Shows(r)'
        BY <2>1, <2>4, <3>2 DEF Open, Shows
      <4> QED BY <4>1, <4>2, <4>3
    <3> QED BY <2>1, <3>1, <3>2 DEF Awaiting
  <2>6. \A s \in suspensions : \A d \in s.calls : owner[d] = cur => resumed[d] = 1
    BY <2>1, Members DEF TInv, Conversing
  <2>7. NotLost'
    <3>1. ASSUME NEW s \in suspensions, NEW d \in s.calls
          PROVE  /\ d \in annotated'
                 /\ resumed[d] = 0 => \/ d \in pending[owner[d]] \/ answers[d] # "none"
                                      \/ d = held \/ Ending(owner[d])'
      <4>1. /\ d \in annotated
            /\ resumed[d] = 0 => \/ d \in pending[owner[d]] \/ answers[d] # "none"
                                 \/ d = held \/ Ending(owner[d])
        BY DEF WInv, NotLost
      <4>2. resumed[d] = 0 => owner[d] # cur /\ owner[d] \in Runs
        BY <2>6, Members
      <4>3. resumed[d] = 0 /\ Ending(owner[d]) => Ending(owner[d])'
        BY <2>1, <2>4, <4>2 DEF Ending
      <4> QED BY <2>1, <4>1, <4>3
    <3>2. ASSUME NEW d \in suspended PROVE d \in annotated' /\ d \in pending[owner[d]]
      BY <2>1, <2>3
    <3> QED BY <2>1, <2>2, <3>1, <3>2 DEF NotLost, Ending
  <2>8. Leftover'
    <3>1. ASSUME NEW s \in suspensions, NEW d \in s.calls, resumed[d] = 1, d \notin resuming
          PROVE  /\ Ending(owner[d])'
                 /\ \A e \in Calls : owner[e] = owner[d] => resumed[e] = 1
      <4>1. /\ Ending(owner[d]) /\ owner[d] # cur /\ owner[d] \in Runs
            /\ \A e \in Calls : owner[e] = owner[d] => resumed[e] = 1
        BY <2>1, <3>1, Members DEF WInv, Leftover
      <4>2. Ending(owner[d])'
        BY <2>1, <2>4, <4>1 DEF Ending
      <4> QED BY <4>1, <4>2
    <3> QED BY <2>1, <2>2, <2>3, <3>1 DEF Leftover, Ending
  <2>9. Place'
    BY <2>1, <2>2, <2>4 DEF WInv, Place
  <2> QED BY <2>5, <2>7, <2>8, <2>9 DEF WInv
<1>7. ~ StreamBreaks
  BY DEF Calm, StreamBreaks
<1> QED BY <1>1, <1>2, <1>3, <1>4, <1>5, <1>6, <1>7 DEF Conversation, ChatEnds

\* The turn gives up: what it leaves behind belongs to a run at its end.
LEMMA WaitingFails ==
  ASSUME IInv, TInv, WInv, pc \in {"resolve", "execute"}, pc' = "finish", outcome' = "failed",
         UNCHANGED <<status, pendingCall, pending, owner, annotated, suspensions, answers,
                     resumed, resuming, cancels, bulkTodo, bulkHeld, cur>>
  PROVE  WInv'
<1>1. Awaiting'
  BY SameOpen DEF WInv, Awaiting, Ending
<1>2. \A s \in suspensions : \A c \in s.calls : c = held => owner[c] = cur
  BY Members, AgentRunsAssumption DEF TInv, Deciding, IInv, Control
<1>3. NotLost'
  BY <1>2 DEF WInv, NotLost, Ending
<1>4. Leftover' /\ Place'
  BY DEF WInv, Leftover, Place, Ending
<1> QED BY <1>1, <1>3, <1>4 DEF WInv

\* A call of the executed turn is taken from its run, which shows the rest.
LEMMA WaitingResolves ==
  ASSUME IInv, TInv, WInv, NEW c \in Calls, owner[c] = cur,
         pc = "resolve", pc' \in {"execute", "record"},
         pending' = [pending EXCEPT ![cur] = @ \ {c}],
         NEW next \in Calls \cup {NoCall}, pending'[cur] # {} => next \in pending'[cur],
         pendingCall' = [pendingCall EXCEPT ![cur] = next],
         \A d \in Calls \ {c} : answers'[d] = answers[d],
         c \in annotated => c = held' \/ answers'[c] # "none",
         UNCHANGED <<status, owner, annotated, suspensions, resumed, resuming, cancels,
                     bulkTodo, bulkHeld, cur>>
  PROVE  WInv'
<1>1. /\ cur \in Runs /\ held = NoCall
      /\ pending'[cur] = pending[cur] \ {c} /\ pendingCall'[cur] = next
      /\ \A r \in Runs \ {cur} : pending'[r] = pending[r] /\ pendingCall'[r] = pendingCall[r]
  BY DEF IInv, Control, TypeOK
<1>2. ASSUME NEW r \in Runs, r # cur, Open(r) /\ Shows(r) PROVE Open(r)' /\ Shows(r)'
  BY <1>1, <1>2 DEF Open, Shows
<1>3. Open(cur) => Open(cur)'
  BY <1>1 DEF Open
<1>4. pending'[cur] # {} => Shows(cur)'
  BY <1>1 DEF Shows
<1>5. \A r \in Runs : Ending(r) => Ending(r)'
  BY DEF Ending
<1>6. Awaiting'
  BY <1>2, <1>3, <1>4, <1>5 DEF WInv, Awaiting
<1>7. NotLost'
  <2> SUFFICES ASSUME NEW s \in suspensions, NEW d \in s.calls
               PROVE  /\ d \in annotated
                      /\ resumed[d] = 0 => \/ d \in pending'[owner[d]] \/ answers'[d] # "none"
                                           \/ d = held' \/ Ending(owner[d])'
    BY DEF NotLost, Ending
  <2>1. /\ d \in Calls /\ owner[d] \in Runs /\ d \in annotated
        /\ resumed[d] = 0 => \/ d \in pending[owner[d]] \/ answers[d] # "none"
                             \/ d = held \/ Ending(owner[d])
    BY Members DEF WInv, NotLost
  <2>2. CASE d = c
    BY <2>1, <2>2
  <2>3. CASE d # c
    BY <1>1, <1>5, <2>1, <2>3, AgentRunsAssumption
  <2> QED BY <2>2, <2>3
<1>8. Leftover' /\ Place'
  BY DEF WInv, Leftover, Place, Ending
<1> QED BY <1>6, <1>7, <1>8 DEF WInv

\* Nothing that waits changes while an approval checks and records.
LEMMA WaitingMoves ==
  ASSUME IInv, TInv, WInv,
         \/ pc = "check" /\ pc' \in {"resolve", "release"}
         \/ pc = "record" /\ pc' \in {"resume", "resolve"},
         UNCHANGED <<status, pendingCall, pending, owner, annotated, suspensions, answers,
                     resumed, resuming, held, cancels, bulkTodo, bulkHeld, cur>>
  PROVE  WInv'
<1>1. Awaiting'
  BY SameOpen DEF WInv, Awaiting, Ending
<1>2. NotLost' /\ Leftover' /\ Place'
  BY DEF WInv, NotLost, Leftover, Place, Ending
<1> QED BY <1>1, <1>2 DEF WInv

LEMMA WaitingApproval == ASSUME Calm, IInv, TInv, WInv, ApprovalSteps PROVE WInv'
<1> USE DEF sessionVars, queueVars, resumeVars, chatVars, approvalVars, serverVars,
            bulkVars, history
<1>1. CASE CheckAgain
  BY <1>1, WaitingMoves DEF CheckAgain
<1>2. ASSUME NEW c \in Calls, ApprovalNotFound(c) PROVE WInv'
  BY <1>2, WaitingFails DEF ApprovalNotFound, FinishWith
<1>3. ASSUME NEW c \in Calls, pc = "resolve", c \in todo, Resolve(c)
      PROVE  /\ cur \in Runs /\ owner[c] = cur
             /\ pending' = [pending EXCEPT ![cur] = @ \ {c}]
             /\ \E next \in Calls \cup {NoCall} :
                   /\ pending'[cur] # {} => next \in pending'[cur]
                   /\ pendingCall' = [pendingCall EXCEPT ![cur] = next]
             /\ UNCHANGED <<owner, annotated, status>>
  <2>1. cur \in Runs /\ owner[c] = cur
    BY <1>3 DEF TInv, Deciding, IInv, Control
  <2>2. pending[cur] \subseteq Calls
    BY <2>1 DEF IInv, TypeOK
  <2>3. pending' = [pending EXCEPT ![cur] = pending[cur] \ {c}]
    BY <1>3, <2>1 DEF Resolve
  <2>4. pending'[cur] = pending[cur] \ {c}
    BY <2>1, <2>3 DEF IInv, TypeOK
  <2>5. PICK next \in IF pending[cur] \ {c} = {} THEN {NoCall} ELSE pending[cur] \ {c} :
              pendingCall' = [pendingCall EXCEPT ![cur] = next]
    BY <1>3, <2>1 DEF Resolve
  <2>6. next \in Calls \cup {NoCall} /\ (pending'[cur] # {} => next \in pending'[cur])
    BY <2>2, <2>4, <2>5
  <2>7. UNCHANGED <<owner, annotated, status>>
    BY <1>3 DEF Resolve
  <2> QED BY <2>1, <2>3, <2>5, <2>6, <2>7
<1>4. ASSUME NEW c \in Calls, ClaimCall(c) PROVE WInv'
  <2>1. /\ pc = "resolve" /\ c \in todo /\ Resolve(c) /\ held' = c /\ pc' = "execute"
        /\ UNCHANGED <<answers, suspensions, resumed, resuming, cancels, bulkTodo, bulkHeld, cur>>
    BY <1>4 DEF ClaimCall
  <2> QED BY <1>3, <2>1, WaitingResolves
<1>5. ASSUME NEW c \in Calls, DenyCall(c) PROVE WInv'
  <2>1. /\ pc = "resolve" /\ c \in todo /\ Resolve(c) /\ pc' = "record"
        /\ answers' = IF c \in annotated THEN [answers EXCEPT ![c] = "denied"] ELSE answers
        /\ UNCHANGED <<suspensions, resumed, resuming, cancels, bulkTodo, bulkHeld, cur>>
    BY <1>5 DEF DenyCall, Answer
  <2>2. /\ \A d \in Calls \ {c} : answers'[d] = answers[d]
        /\ c \in annotated => answers'[c] # "none"
    BY <2>1 DEF IInv, TypeOK
  <2> QED BY <1>3, <2>1, <2>2, WaitingResolves
<1>6. CASE ExecuteCall
  <2>1. /\ pc = "execute" /\ pc' = "record" /\ held \in Calls
        /\ answers' = IF held \in annotated THEN [answers EXCEPT ![held] = "ok"] ELSE answers
        /\ UNCHANGED <<status, pendingCall, pending, owner, annotated, suspensions, resumed,
                       resuming, cancels, bulkTodo, bulkHeld, cur>>
    BY <1>6 DEF ExecuteCall, Answer, IInv, Control, TypeOK
  <2>2. /\ \A d \in Calls \ {held} : answers'[d] = answers[d]
        /\ held \in annotated => answers'[held] # "none"
    BY <2>1 DEF IInv, TypeOK
  <2>3. Awaiting'
    BY <2>1, SameOpen DEF WInv, Awaiting, Ending
  <2>4. NotLost'
    BY <2>1, <2>2, Members DEF WInv, NotLost, Ending
  <2>5. Leftover' /\ Place'
    BY <2>1 DEF WInv, Leftover, Place, Ending
  <2> QED BY <2>3, <2>4, <2>5 DEF WInv
<1>7. CASE ExecuteFails
  BY <1>7, WaitingFails DEF ExecuteFails, FinishWith
<1>8. CASE PolicyRejects
  <2>1. /\ pc = "execute" /\ cur \in Runs /\ held \in Calls /\ owner[held] = cur /\ resumed[held] = 0
        /\ pc' = "finish" /\ outcome' = "failed"
        /\ status' = [status EXCEPT ![cur] = "awaiting"]
        /\ pendingCall' = [pendingCall EXCEPT ![cur] = held]
        /\ pending' = [pending EXCEPT ![cur] = @ \cup {held}]
        /\ UNCHANGED <<owner, annotated, suspensions, answers, resumed, resuming, cancels,
                       bulkTodo, bulkHeld, cur>>
    <3>1. pc = "execute" /\ cur \in Runs /\ held \in Calls /\ owner[held] = cur /\ resumed[held] = 0
      BY <1>8 DEF PolicyRejects, IInv, Control, TInv, Deciding
    <3> QED BY <1>8, <3>1 DEF PolicyRejects, Queue, FinishWith, IInv, TypeOK
  <2>2. \A r \in Runs \ {cur} : /\ status'[r] = status[r] /\ pending'[r] = pending[r]
                                /\ pendingCall'[r] = pendingCall[r]
    BY <2>1 DEF IInv, TypeOK
  <2>3. ASSUME NEW r \in Runs, r # cur, Open(r) /\ Shows(r) PROVE Open(r)' /\ Shows(r)'
    BY <2>1, <2>2, <2>3 DEF Open, Shows
  <2>4. \A r \in Runs : r = cur \/ Ending(r) => Ending(r)'
    BY <2>1, <2>2 DEF Ending
  <2>5. Awaiting'
    BY <2>3, <2>4 DEF WInv, Awaiting
  <2>6. NotLost'
    <3> SUFFICES ASSUME NEW s \in suspensions, NEW d \in s.calls
                 PROVE  /\ d \in annotated
                        /\ resumed[d] = 0 => \/ d \in pending'[owner[d]] \/ answers[d] # "none"
                                             \/ d = held' \/ Ending(owner[d])'
      BY <2>1 DEF NotLost, Ending
    <3> QED BY <2>1, <2>2, <2>4, Members DEF WInv, NotLost
  <2>7. Leftover'
    <3> SUFFICES ASSUME NEW s \in suspensions, NEW d \in s.calls, resumed[d] = 1
                 PROVE  /\ Ending(owner[d])'
                        /\ \A e \in Calls : owner[e] = owner[d] => resumed[e] = 1
      BY <2>1 DEF Leftover, Ending
    <3> QED BY <2>1, <2>4, Members DEF WInv, Leftover, Place
  <2>8. Place'
    BY <2>1 DEF WInv, Place
  <2> QED BY <2>5, <2>6, <2>7, <2>8 DEF WInv
<1>9. CASE RecordResult
  BY <1>9, WaitingMoves DEF RecordResult
<1>10. ~ ClientGone
  BY DEF Calm, ClientGone
<1>11. CASE StayAwaiting
  <2>1. /\ pc = "resume" /\ pc' = "release" /\ held = NoCall /\ cur \in Runs
        /\ target \in Calls /\ owner[target] = cur /\ resumed[target] = 0
        /\ UNCHANGED <<status, pendingCall, pending, owner, annotated, suspensions, answers,
                       resumed, resuming, held, cancels, bulkTodo, bulkHeld, cur>>
    BY <1>11 DEF StayAwaiting, IInv, Control, TInv, Deciding
  <2>2. ASSUME Open(cur), ~ Ending(cur) PROVE pending[cur] # {}
    <3>1. PICK s \in suspensions : \E c \in s.calls : owner[c] = cur /\ resumed[c] = 0
      BY <2>2 DEF Open
    <3>2. s \in Turns /\ target \in s.calls
      BY <2>1, <3>1, Members DEF TInv, LastTurn
    <3>3. PICK d \in s.calls : answers[d] = "none"
      BY <1>11, <3>2 DEF StayAwaiting, SuspensionOf, Answered
    <3>4. d \in Calls /\ owner[d] = cur /\ resumed[d] = 0
      BY <2>1, <3>2, <3>3 DEF TInv, Whole
    <3> QED BY <2>1, <2>2, <3>3, <3>4, AgentRunsAssumption DEF WInv, NotLost
  <2>3. Awaiting'
    BY <2>1, <2>2, SameOpen DEF WInv, Awaiting, Ending
  <2>4. NotLost' /\ Leftover' /\ Place'
    BY <2>1 DEF WInv, NotLost, Leftover, Place, Ending
  <2> QED BY <2>3, <2>4 DEF WInv
<1>12. ASSUME NEW s \in suspensions, Resume(s) PROVE WInv'
  <2>1. /\ pc = "resume" /\ pc' = "chat" /\ target \in s.calls /\ resuming' = s.calls
        /\ resumed' = [c \in Calls |-> IF c \in s.calls THEN resumed[c] + 1 ELSE resumed[c]]
        /\ UNCHANGED <<status, pendingCall, pending, owner, annotated, suspensions, answers,
                       held, cancels, bulkTodo, bulkHeld, cur>>
    BY <1>12 DEF Resume, SuspensionOf
  <2>2. /\ s \in Turns /\ owner[target] = cur /\ resumed[target] = 0 /\ target \in Calls
        /\ s.calls \subseteq Calls
        /\ \A c \in s.calls : owner[c] = cur /\ resumed[c] = 0
    BY <2>1, Members DEF TInv, Deciding, Whole
  <2>3. \A c \in Calls : resumed'[c] = IF c \in s.calls THEN 1 ELSE resumed[c]
    BY <2>1, <2>2
  <2>4. Awaiting'
    <3> SUFFICES ASSUME NEW r \in Runs, r # cur PROVE Ending(r)' \/ (Open(r)' /\ Shows(r)')
      BY <2>1 DEF Awaiting
    <3>1. Ending(r) \/ (Open(r) /\ Shows(r))
      BY DEF WInv, Awaiting
    <3>2. Ending(r) => Ending(r)'
      BY <2>1 DEF Ending
    <3>3. Open(r) => Open(r)'
      BY <2>1, <2>2, <2>3, Members DEF Open
    <3>4. Shows(r) => Shows(r)'
      BY <2>1 DEF Shows
    <3> QED BY <3>1, <3>2, <3>3, <3>4
  <2>5. NotLost'
    <3> SUFFICES ASSUME NEW t \in suspensions, NEW d \in t.calls
                 PROVE  /\ d \in annotated
                        /\ resumed'[d] = 0 => \/ d \in pending[owner[d]] \/ answers[d] # "none"
                                              \/ d = held \/ Ending(owner[d])'
      BY <2>1 DEF NotLost, Ending
    <3> QED BY <2>1, <2>3, Members DEF WInv, NotLost, Ending
  <2>6. Leftover'
    <3> SUFFICES ASSUME NEW t \in suspensions, NEW d \in t.calls, resumed'[d] = 1, d \notin s.calls
                 PROVE  /\ Ending(owner[d])'
                        /\ \A e \in Calls : owner[e] = owner[d] => resumed'[e] = 1
                        /\ cur # owner[d]
      BY <2>1 DEF Leftover, Ending
    <3>1. resumed[d] = 1
      BY <2>3, Members
    <3>2. /\ Ending(owner[d])
          /\ \A e \in Calls : owner[e] = owner[d] => resumed[e] = 1
      BY <2>1, <3>1 DEF WInv, Leftover, Place
    <3> QED BY <2>1, <2>2, <2>3, <3>2 DEF Ending
  <2>7. Place'
    BY <2>1, <2>2, <2>3 DEF WInv, Place
  <2> QED BY <2>4, <2>5, <2>6, <2>7 DEF WInv
<1> QED BY <1>1, <1>2, <1>4, <1>5, <1>6, <1>7, <1>8, <1>9, <1>10, <1>11, <1>12
        DEF ApprovalSteps

\* The end of a turn: the run says so, or awaits the calls of its own last turn.
LEMMA WaitingFinish == ASSUME IInv, TInv, WInv, Finish PROVE WInv'
<1> USE DEF sessionVars, queueVars, resumeVars, chatVars, approvalVars, serverVars,
            bulkVars, history
<1> DEFINE clears == outcome \in {"completed", "denied", "cancelled"}
<1>1. /\ pc = "finish" /\ pc' = "release" /\ cur \in Runs /\ held = NoCall
      /\ status' = [status EXCEPT ![cur] = outcome]
      /\ pendingCall' = [pendingCall EXCEPT ![cur] = IF clears THEN NoCall ELSE @]
      /\ pending' = [pending EXCEPT ![cur] = IF clears THEN {} ELSE @]
      /\ suspensions' = {s \in suspensions : s.calls \cap resuming = {}}
      /\ answers' = [c \in Calls |-> IF c \in resuming THEN "none" ELSE answers[c]]
      /\ UNCHANGED <<owner, annotated, resumed, resuming, held, cancels, bulkTodo, bulkHeld,
                     cur, outcome>>
  BY DEF Finish, IInv, Control
<1>2. /\ status'[cur] = outcome
      /\ ~ clears => pending'[cur] = pending[cur] /\ pendingCall'[cur] = pendingCall[cur]
      /\ \A r \in Runs \ {cur} : /\ status'[r] = status[r] /\ pending'[r] = pending[r]
                                 /\ pendingCall'[r] = pendingCall[r]
  BY <1>1 DEF IInv, TypeOK
<1>3. \A r \in Runs : Ending(r) => Ending(r)'
  BY <1>1, <1>2 DEF Ending, WInv, Place
<1>4. ASSUME NEW s \in suspensions, NEW c \in s.calls, resumed[c] = 0
      PROVE  s \in suspensions'
  <2>1. \A d \in s.calls : resumed[d] = 0
    BY <1>4, Members DEF TInv, Whole
  <2> QED BY <1>1, <2>1 DEF WInv, Place
<1>5. ASSUME NEW r \in Runs, ~ Ending(r)' PROVE Open(r)' /\ Shows(r)'
  <2>1. ~ Ending(r) /\ Open(r) /\ Shows(r)
    BY <1>1, <1>3, <1>5 DEF WInv, Awaiting
  <2>2. r = cur => ~ clears
    BY <1>1, <2>1 DEF Ending
  <2>3. pending'[r] = pending[r] /\ pendingCall'[r] = pendingCall[r]
    BY <1>2, <2>2
  <2> QED BY <1>1, <1>4, <2>1, <2>3 DEF Open, Shows
<1>6. Awaiting'
  BY <1>5 DEF Awaiting
<1>7. NotLost'
  <2> SUFFICES ASSUME NEW s \in suspensions', NEW d \in s.calls
               PROVE  /\ d \in annotated
                      /\ resumed[d] = 0 => \/ d \in pending'[owner[d]] \/ answers'[d] # "none"
                                           \/ d = held \/ Ending(owner[d])'
    BY <1>1 DEF NotLost, Ending
  <2>1. s \in suspensions /\ s.calls \cap resuming = {} /\ d \in Calls /\ owner[d] \in Runs
    BY <1>1, Members
  <2>2. /\ d \in annotated /\ answers'[d] = answers[d]
        /\ resumed[d] = 0 => \/ d \in pending[owner[d]] \/ answers[d] # "none"
                             \/ d = held \/ Ending(owner[d])
    BY <1>1, <2>1 DEF WInv, NotLost
  <2>3. owner[d] = cur /\ clears => Ending(owner[d])'
    BY <1>1, <1>2 DEF Ending
  <2> QED BY <1>1, <1>2, <1>3, <2>1, <2>2, <2>3
<1>8. Leftover'
  BY <1>1, <1>3, Members DEF WInv, Leftover, Ending
<1>9. Place'
  BY <1>1 DEF WInv, Place
<1> QED BY <1>6, <1>7, <1>8, <1>9 DEF WInv

LEMMA WaitingRelease == ASSUME IInv, TInv, WInv, Release PROVE WInv'
<1>1. /\ pc = "release" /\ pc' = "idle" /\ held' = held /\ resuming' = {}
      /\ UNCHANGED <<status, pendingCall, pending, owner, annotated, suspensions, answers,
                     resumed, cancels, bulkTodo, bulkHeld>>
  BY DEF Release, NoTurn, IInv, Control, sessionVars, queueVars, resumeVars, bulkVars, history
<1>2. Awaiting'
  BY <1>1, SameOpen DEF WInv, Awaiting, Ending
<1>3. NotLost' /\ Leftover' /\ Place'
  BY <1>1 DEF WInv, NotLost, Leftover, Place, Ending
<1> QED BY <1>2, <1>3 DEF WInv

LEMMA WaitingLock == ASSUME IInv, TInv, WInv, TakeAnyLock \/ Register PROVE WInv'
<1> USE DEF sessionVars, queueVars, resumeVars, chatVars, approvalVars, serverVars,
            bulkVars, history
<1>1. CASE TakeAnyLock
  <2>1. PICK w \in lockQueue : TakeLock(w)
    BY <1>1 DEF TakeAnyLock
  <2>2. w.run \in Runs
    BY DEF IInv, TypeOK, Request
  <2> QED BY <2>1, <2>2, WaitingBegins DEF TakeLock, BeginApproval
<1>2. CASE Register
  <2>1. /\ pc = "starting" /\ pc' = "chat" /\ cur \in Runs
        /\ UNCHANGED <<status, pendingCall, pending, owner, annotated, suspensions, answers,
                       resumed, resuming, held, cancels, bulkTodo, bulkHeld, cur>>
    BY <1>2 DEF Register, IInv, Control
  <2>2. Awaiting'
    BY <2>1, SameOpen DEF WInv, Awaiting, Ending
  <2>3. \A s \in suspensions : \A c \in s.calls : owner[c] # cur
    BY <2>1, Members DEF TInv, Conversing
  <2>4. NotLost' /\ Leftover' /\ Place'
    BY <2>1, <2>3 DEF WInv, NotLost, Leftover, Place, Ending
  <2> QED BY <2>2, <2>4 DEF WInv
<1> QED BY <1>1, <1>2

LEMMA InitWaiting == Init => WInv
<1> SUFFICES ASSUME Init PROVE WInv
  OBVIOUS
<1> USE DEF Init
<1>1. Awaiting
  BY DEF Awaiting, Ending
<1>2. NotLost /\ Leftover /\ Place
  BY DEF NotLost, Leftover, Place
<1> QED BY <1>1, <1>2 DEF WInv

LEMMA NextWaiting ==
  ASSUME Calm
  PROVE  IInv /\ TInv /\ WInv /\ [Next]_vars => WInv'
<1> SUFFICES ASSUME IInv, TInv, WInv, [Next]_vars PROVE WInv'
  OBVIOUS
<1>1. CASE UNCHANGED vars
  BY <1>1, WaitingStill
     DEF vars, sessionVars, queueVars, resumeVars, chatVars, approvalVars, serverVars,
         bulkVars, history
<1>2. ~ Cancel
  BY DEF Cancel, CancelActive, CancelPaused, WInv, Place
<1>3. ~ Bulk
  BY DEF Calm, Bulk, BulkList, BulkExecute, BulkExecuteFails, BulkPolicyRejects, BulkClaim,
         BulkNotFound, WInv, Place
<1>4. ~ Restart
  BY DEF Calm, Restart
<1> QED BY <1>1, <1>2, <1>3, <1>4, WaitingOperator, WaitingConversation, WaitingApproval,
           WaitingFinish, WaitingRelease, WaitingLock DEF Next, TurnStep

LEMMA AlwaysWaiting == ASSUME Calm PROVE Spec => []WInv
BY InitWaiting, NextWaiting, Invariance, Turning, PTL DEF Spec

\* Whatever fails or is refused by policy, a run that says it awaits an approval
\* shows one that is in the queue and belongs to a turn the runtime still knows: as
\* long as nobody cancels, uses approve-all, hangs up or restarts the process, the
\* status ResolvePendingApproval and CompleteAgentRun leave on the run is true.
THEOREM AwaitingRunsAreActionable == ASSUME Calm PROVE Spec => []AwaitingIsActionable
<1>1. IInv /\ TInv /\ WInv => AwaitingIsActionable
  <2> SUFFICES ASSUME IInv, TInv, WInv, pc = "idle", NEW r \in Runs, status[r] = "awaiting"
               PROVE  pendingCall[r] # NoCall /\ Resumable(pendingCall[r])
    BY DEF AwaitingIsActionable
  <2>1. Open(r) /\ Shows(r)
    BY DEF WInv, Awaiting, Ending
  <2>2. pendingCall[r] \in store /\ pendingCall[r] \in Calls
    BY <2>1, Shown DEF Shows
  <2>3. SuspensionOf(pendingCall[r]) # {}
    BY <2>1 DEF Open, Shows, SuspensionOf
  <2> QED BY <2>2, <2>3, AgentRunsAssumption DEF Resumable, Queued
<1> QED BY <1>1, AlwaysWaiting, Turning, Invariance, PTL

\* Under the same condition no turn of an awaiting run has every answer and was not
\* continued: the approval that brings the last answer goes on with the turn in the
\* same request (ResumeApprovedOrdinaryToolCall).
THEOREM NoTurnIsStranded == ASSUME Calm PROVE Spec => []NoStrandedTurn
<1>1. IInv /\ TInv /\ WInv => NoStrandedTurn
  <2> SUFFICES ASSUME IInv, TInv, WInv, pc = "idle", NEW s \in suspensions,
                      \A c \in s.calls : status[owner[c]] = "awaiting"
               PROVE  ~ Answered(s)
    BY DEF NoStrandedTurn
  <2>1. PICK c \in s.calls : c \in Calls /\ owner[c] \in Runs /\ s \in Turns
    <3>1. PICK c \in s.calls : TRUE
      BY DEF WInv, Place
    <3> QED BY <3>1, Members
  <2> DEFINE r == owner[c]
  <2>2. ~ Ending(r)
    BY DEF Ending
  <2>3. resumed[c] = 0
    BY <2>1, <2>2 DEF WInv, Leftover, Place, TInv, Counted
  <2>4. Shows(r)
    BY <2>1, <2>2 DEF WInv, Awaiting
  <2> DEFINE p == pendingCall[r]
  <2>5. p \in store /\ p \in Calls /\ owner[p] = r /\ resumed[p] = 0
    BY <2>1, <2>4, Shown DEF Shows
  <2>6. p \in s.calls
    BY <2>1, <2>3, <2>5 DEF TInv, LastTurn
  <2>7. answers[p] = "none"
    BY <2>5 DEF IInv, Unanswered, TInv, Truthful, TypeOK, Answers
  <2> QED BY <2>6, <2>7 DEF Answered
<1> QED BY <1>1, AlwaysWaiting, Turning, Invariance, PTL
=============================================================================
