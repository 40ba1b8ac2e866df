-------------------------- MODULE WorkflowRunsProofs --------------------------
(* Proofs about WorkflowRuns, for any requests, runs, calls and operations. *)
EXTENDS WorkflowRuns, TLAPS

------------------------------------------------------------------------------
(* The inductive invariant                                                 *)

\* The session keeps at most Window different runs, of the n that were started.
ListOK(l, n) ==
    /\ l \in Seq(Runs) /\ Len(l) <= Window
    /\ \A i, j \in DOMAIN l : l[i] = l[j] => i = j
    /\ \A i \in DOMAIN l : l[i] <= n

\* No record counts more attempts than runs were started.
RecordsOK(f, n) == f \in [Runs -> RunRecord] /\ \A r \in Runs : f[r].attempt <= n

SessionOK ==
    /\ started \in 0..MaxStarts
    /\ ListOK(list, started) /\ RecordsOK(runs, started)
    /\ current \in SnapshotRecord /\ current.run <= started

QueueOK ==
    /\ store \subseteq Calls /\ approved \subseteq Calls
    /\ owner \in [Calls -> Runs \cup {NoRun}] /\ toolRuns \in [Calls -> 0..2]

ServerOK ==
    /\ active \in [Runs -> Requests \cup {Nobody, Gone}]
    /\ execMu \in Requests \cup {Nobody}
    /\ req \in [Requests -> RequestRecord]

\* Where a request holds a snapshot it is about to write, and where a written
\* snapshot leads.
Holding == {"checked", "set", "write", "cancelSet", "failSet"}

AfterWrite == {"running", "answer", "persisted", "naming", "failed"}

Holds(q, n) ==
    /\ q.snap.run <= n
    /\ q.pc \in Holding => q.snap.run # NoRun
    /\ q.pc = "write" => q.next \in AfterWrite

\* Which run a request works on is known wherever the code uses it.
PlaceOK(q) ==
    /\ q.run <= started /\ q.parent <= started /\ Holds(q, started)
    /\ q.pc \in Working \cup {"registered", "cancel", "cancelActive", "cancelPaused",
                              "cancelMark", "cancelSet"} => q.run # NoRun
    /\ q.pc \in {"asked", "locked"} =>
           q.op \notin Legacy /\ (q.op \in {"start", "retry"} \/ q.run # NoRun)
    /\ q.pc \in {"idle", "asked", "locked", "registered", "legacy"} => q.parent = NoRun
    /\ q.pc = "started" /\ q.parent = NoRun => q.op \in {"start", "retry"}
    /\ q.pc = "legacy" => q.op \in Legacy

\* Until the first run is started there is nothing to work on.
Unused ==
    current.run = NoRun =>
        /\ list = <<>> /\ store = {} /\ approved = {}
        /\ \A t \in Requests : req[t].run = NoRun

\* The requests that must hold workflowExecMu.
InLock == Working \cup {"locked", "registered", "leaving"}

LockHeld ==
    \A t \in Requests : req[t].pc \in InLock /\ req[t].op \notin Legacy => execMu = t

\* The requests whose run must have their cancel function.
Cancels(q) ==
    \/ q.pc \in (Working \ {"started"}) \cup {"registered"}
    \/ q.pc = "started" /\ q.parent # NoRun

Registered ==
    \A t \in Requests : Cancels(req[t]) /\ req[t].op \notin Legacy => active[Top(t)] = t

IInv ==
    /\ SessionOK /\ QueueOK /\ ServerOK
    /\ \A t \in Requests : PlaceOK(req[t])
    /\ Unused /\ LockHeld /\ Registered

------------------------------------------------------------------------------
(* What the operations of the session keep                                 *)

\* A run that the list does not hold goes to its front, the oldest may go.
LEMMA PrependOK ==
  ASSUME NEW n \in 0..MaxStarts, ListOK(list, n), RecordsOK(runs, n),
         NEW r \in Runs, r <= n, r \notin ToSet(list),
         NEW record \in RunRecord, record.attempt <= n,
         Prepend(r, record)
  PROVE  ListOK(list', n) /\ RecordsOK(runs', n)
<1> USE ConstantsAssumption
<1> DEFINE l    == <<r>> \o list
           m    == IF Len(list) < Window THEN Len(list) + 1 ELSE Window
           kept == SubSeq(l, 1, m)
<1>1. list \in Seq(Runs) /\ Len(list) \in Nat
  BY DEF ListOK
<1>2. l \in Seq(Runs) /\ Len(l) = Len(list) + 1
  BY <1>1
<1>3. \A i \in 1..Len(l) : l[i] = IF i = 1 THEN r ELSE list[i - 1]
  BY <1>1
<1>4. m \in 1..Len(l) /\ m <= Window
  BY <1>1, <1>2
<1>5. kept \in Seq(Runs) /\ Len(kept) = m /\ \A i \in 1..m : kept[i] = l[i]
  BY <1>2, <1>4
<1>6. DOMAIN kept = 1..m
  BY <1>5
<1>7. \A i \in 2..Len(l) : i - 1 \in DOMAIN list /\ list[i - 1] \in ToSet(list)
  BY <1>1, <1>2 DEF ToSet
<1>8. \A i, j \in DOMAIN kept : kept[i] = kept[j] => i = j
  <2> SUFFICES ASSUME NEW i \in 1..m, NEW j \in 1..m, kept[i] = kept[j]
               PROVE  i = j
    BY <1>6
  <2>1. l[i] = l[j] /\ i \in 1..Len(l) /\ j \in 1..Len(l)
    BY <1>2, <1>4, <1>5
  <2>2. CASE i = 1 /\ j = 1
    BY <2>2
  <2>3. CASE i = 1 /\ j # 1
    BY <1>3, <1>7, <2>1, <2>3
  <2>4. CASE i # 1 /\ j = 1
    BY <1>3, <1>7, <2>1, <2>4
  <2>5. CASE i # 1 /\ j # 1
    <3>1. list[i - 1] = list[j - 1] /\ i - 1 \in DOMAIN list /\ j - 1 \in DOMAIN list
      BY <1>2, <1>3, <1>7, <2>1, <2>5
    <3>2. i - 1 = j - 1
      BY <3>1 DEF ListOK
    <3> QED BY <3>2
  <2> QED BY <2>2, <2>3, <2>4, <2>5
<1>9. \A i \in DOMAIN kept : kept[i] <= n
  <2> SUFFICES ASSUME NEW i \in 1..m PROVE l[i] <= n
    BY <1>5, <1>6
  <2>1. CASE i = 1
    BY <1>2, <1>3, <1>4, <2>1
  <2>2. CASE i # 1
    <3>1. i - 1 \in DOMAIN list /\ l[i] = list[i - 1]
      BY <1>2, <1>3, <1>4, <1>7, <2>2
    <3> QED BY <3>1 DEF ListOK
  <2> QED BY <2>1, <2>2
<1>10. ListOK(kept, n)
  BY <1>4, <1>5, <1>8, <1>9 DEF ListOK
<1>11. NoRecord \in RunRecord /\ NoRecord.attempt <= n
  BY DEF NoRecord, RunRecord, Stages
<1>12. RecordsOK(runs', n)
  BY <1>11 DEF Prepend, RecordsOK
<1> QED BY <1>10, <1>12 DEF Prepend

\* The statuses and the stage an operation may write.
LEMMA StatusTypes ==
  /\ \A s \in Statuses \cup {"none"} : StageOf(s) \in Stages
  /\ Outcomes \subseteq Statuses /\ Terminal \subseteq Statuses
  /\ {"none", "running", "cancelling", "cancelled", "denied", "failed",
      "awaiting_sub_workflow"} \subseteq Statuses \cup {"none"}
BY ConstantsAssumption DEF StageOf, Stages, Statuses, Paused, Terminal

\* A new run gets the next number.
LEMMA StartRunOK ==
  ASSUME SessionOK, started < MaxStarts,
         NEW retryOf \in Runs \cup {NoRun}, retryOf <= started,
         StartRun(started + 1, retryOf)
  PROVE  SessionOK' /\ started' = started + 1 /\ current'.run = started + 1
<1> USE ConstantsAssumption
<1> DEFINE r       == started + 1
           attempt == IF retryOf = NoRun THEN 1
                      ELSE IF retryOf \in Visible THEN runs[retryOf].attempt + 1 ELSE 2
           record  == [NoRecord EXCEPT !.status = "running", !.attempt = attempt]
<1>1. r \in Runs /\ r \in 0..MaxStarts /\ started \in Nat
  BY DEF SessionOK, Runs
<1>2. attempt \in 0..MaxStarts /\ attempt <= r
  <2>1. CASE retryOf = NoRun
    BY <1>1, <2>1
  <2>2. CASE retryOf # NoRun
    <3>1. runs[retryOf].attempt \in 0..MaxStarts /\ runs[retryOf].attempt <= started
      BY <2>2 DEF SessionOK, RecordsOK, RunRecord
    <3>2. started >= 1
      BY <1>1, <2>2 DEF Runs, NoRun
    <3> QED BY <1>1, <2>2, <3>1, <3>2
  <2> QED BY <2>1, <2>2
<1>3. record \in RunRecord /\ record.attempt <= r
  BY <1>2, StatusTypes DEF RunRecord, NoRecord, Stages
<1>4. ListOK(list, r) /\ RecordsOK(runs, r)
  <2>1. \A i \in DOMAIN list : list[i] \in Nat /\ list[i] <= started
    BY DEF SessionOK, ListOK, Runs
  <2>2. \A x \in Runs : runs[x].attempt \in Nat /\ runs[x].attempt <= started
    BY DEF SessionOK, RecordsOK, RunRecord
  <2> QED BY <1>1, <2>1, <2>2 DEF SessionOK, ListOK, RecordsOK
<1>5. r \notin ToSet(list)
  BY <1>1 DEF SessionOK, ListOK, ToSet
<1>6. Prepend(r, record) /\ started' = r
  BY DEF StartRun
<1>7. ListOK(list', r) /\ RecordsOK(runs', r)
  <2> HIDE DEF r, record
  <2> QED BY <1>1, <1>3, <1>4, <1>5, <1>6, PrependOK DEF r
<1>8. current' \in SnapshotRecord /\ current'.run = r
  BY <1>1, StatusTypes DEF StartRun, SnapshotRecord, Stages
<1> QED BY <1>1, <1>6, <1>7, <1>8 DEF SessionOK

\* A run takes over a snapshot.
LEMMA UpdateRunOK ==
  ASSUME SessionOK, NEW s \in SnapshotRecord, s.run # NoRun, s.run <= started,
         UpdateRun(s)
  PROVE  ListOK(list', started) /\ RecordsOK(runs', started) /\ started' = started
<1> DEFINE record == [runs[s.run] EXCEPT !.status = s.status, !.stage = s.stage,
                                         !.call = s.call, !.child = s.child]
<1>1. s.run \in Runs
  BY DEF SnapshotRecord
<1>2. record \in RunRecord /\ record.attempt <= started
  <2>1. runs[s.run] \in RunRecord /\ runs[s.run].attempt <= started
    BY <1>1 DEF SessionOK, RecordsOK
  <2>2. /\ s.status \in Statuses \cup {"none"} /\ s.stage \in Stages
        /\ s.call \in Calls \cup {NoCall} /\ s.child \in Runs \cup {NoRun}
    BY DEF SnapshotRecord
  <2> DEFINE old == runs[s.run]
             named == [old EXCEPT !.status = s.status, !.stage = s.stage]
  <2>3. old \in RunRecord
    BY <2>1
  <2> HIDE DEF old
  <2>4. named \in RunRecord /\ named.attempt = old.attempt
    BY <2>2, <2>3 DEF RunRecord
  <2>5. record = [named EXCEPT !.call = s.call, !.child = s.child]
    BY <2>3 DEF old, RunRecord
  <2> HIDE DEF named, record
  <2>6. record \in RunRecord /\ record.attempt = named.attempt
    BY <2>2, <2>4, <2>5 DEF RunRecord
  <2> QED BY <2>1, <2>4, <2>6 DEF old
<1>3. CASE s.run \in Visible
  BY <1>1, <1>2, <1>3 DEF UpdateRun, SessionOK, RecordsOK
<1>4. CASE s.run \notin Visible
  <2>1. Prepend(s.run, record) /\ started' = started
    BY <1>4 DEF UpdateRun
  <2> HIDE DEF record
  <2> QED BY <1>1, <1>2, <1>4, <2>1, PrependOK DEF SessionOK, Visible
<1> QED BY <1>3, <1>4

LEMMA CompleteRunOK ==
  ASSUME SessionOK, NEW r \in Runs, NEW status \in Statuses \cup {"none"},
         CompleteRun(r, status)
  PROVE  SessionOK' /\ started' = started /\ current' = current
<1> DEFINE record == [runs[r] EXCEPT !.status = status, !.stage = StageOf(status),
                        !.call = IF status = "awaiting_tool_approval"
                                 THEN runs[r].call ELSE NoCall,
                        !.child = IF status = "awaiting_sub_workflow"
                                  THEN runs[r].child ELSE NoRun]
<1>1. record \in RunRecord /\ record.attempt = runs[r].attempt
  <2>1. StageOf(status) \in Stages
    BY StatusTypes
  <2> QED BY <2>1 DEF SessionOK, RecordsOK, RunRecord
<1>2. runs' = IF r \notin Visible THEN runs ELSE [runs EXCEPT ![r] = record]
  BY DEF CompleteRun
<1>3. RecordsOK(runs', started)
  <2> HIDE DEF record
  <2> QED BY <1>1, <1>2 DEF SessionOK, RecordsOK
<1> QED BY <1>3 DEF CompleteRun, SessionOK

LEMMA CancelledType ==
  ASSUME SessionOK, NEW r \in Runs
  PROVE  Cancelled(r) \in SnapshotRecord /\ Cancelled(r).run = r
BY StatusTypes DEF Cancelled, SessionOK, RecordsOK, RunRecord, SnapshotRecord

LEMMA CancelRunOK ==
  ASSUME SessionOK, NEW r \in Visible, CancelRun(r)
  PROVE  SessionOK' /\ started' = started /\ current'.run = current.run
<1>1. r \in Runs /\ r <= started
  BY DEF SessionOK, ListOK, Visible, ToSet
<1>2. RecordsOK(runs', started)
  <2> DEFINE record == [runs[r] EXCEPT !.status = "cancelled",
                                       !.call = NoCall, !.child = NoRun]
  <2>1. record \in RunRecord /\ record.attempt = runs[r].attempt
    BY <1>1, StatusTypes DEF SessionOK, RecordsOK, RunRecord
  <2>2. runs' = [runs EXCEPT ![r] = record]
    BY DEF CancelRun
  <2> HIDE DEF record
  <2> QED BY <1>1, <2>1, <2>2 DEF SessionOK, RecordsOK
<1>3. current' \in SnapshotRecord /\ current'.run = current.run
  BY <1>1, CancelledType DEF CancelRun, SessionOK
<1> QED BY <1>1, <1>2, <1>3 DEF CancelRun, SessionOK

LEMMA RequestCancelOK ==
  ASSUME SessionOK, NEW r \in Runs, RequestCancel(r)
  PROVE  SessionOK' /\ started' = started /\ current'.run = current.run
<1>1. CASE r \notin Visible
  BY <1>1 DEF RequestCancel, session, SessionOK
<1>2. CASE r \in Visible
  <2>1. RecordsOK(runs', started)
    <3> DEFINE record == [runs[r] EXCEPT !.status =
                            IF runs[r].status \in Terminal THEN runs[r].status
                            ELSE "cancelling"]
    <3>1. record \in RunRecord /\ record.attempt = runs[r].attempt
      BY StatusTypes DEF SessionOK, RecordsOK, RunRecord
    <3>2. runs' = [runs EXCEPT ![r] = record]
      BY <1>2 DEF RequestCancel
    <3> HIDE DEF record
    <3> QED BY <3>1, <3>2 DEF SessionOK, RecordsOK
  <2>2. current' \in SnapshotRecord /\ current'.run = current.run
    BY <1>2, StatusTypes DEF RequestCancel, SessionOK, RecordsOK, RunRecord, SnapshotRecord
  <2> QED BY <1>2, <2>1, <2>2 DEF RequestCancel, SessionOK
<1> QED BY <1>1, <1>2

------------------------------------------------------------------------------
(* The steps of one request                                                *)

\* What a request owes to the others: the lock and the cancel function.
Duties(t) ==
    /\ req[t].pc \in InLock /\ req[t].op \notin Legacy => execMu = t
    /\ Cancels(req[t]) /\ req[t].op \notin Legacy => active[Top(t)] = t

\* A step of request t changes only its own record, takes the lock only when it
\* is free, and registers itself only when it has the lock.
LEMMA OwnStep ==
  ASSUME IInv, NEW t \in Requests,
         SessionOK', QueueOK', ServerOK', started <= started', Unused',
         \A u \in Requests \ {t} : req'[u] = req[u],
         PlaceOK(req[t])', Duties(t)',
         execMu' = execMu \/ execMu = Nobody,
         active' = active \/ (execMu = t /\ \E r : active' = [active EXCEPT ![r] = t])
  PROVE  IInv'
<1>1. ASSUME NEW u \in Requests PROVE PlaceOK(req[u])'
  <2>1. CASE u = t
    BY <2>1
  <2>2. CASE u # t
    <3>1. req'[u] = req[u] /\ PlaceOK(req[u])
      BY <2>2 DEF IInv
    <3>2. /\ req[u].run \in Nat /\ req[u].parent \in Nat /\ req[u].snap.run \in Nat
          /\ started \in Nat /\ started' \in Nat
      BY ConstantsAssumption
        DEF IInv, ServerOK, SessionOK, RequestRecord, SnapshotRecord, Runs, NoRun
    <3> QED BY <3>1, <3>2 DEF PlaceOK, Holds
  <2> QED BY <2>1, <2>2
<1>2. LockHeld'
  BY NobodyAssumption DEF IInv, LockHeld, Duties
<1>3. Registered'
  <2> SUFFICES ASSUME NEW u \in Requests, u # t,
                      Cancels(req[u]) /\ req[u].op \notin Legacy
               PROVE  active'[Top(u)] = u
    BY DEF Registered, Duties, Cancels, Top
  <2>1. active[Top(u)] = u
    BY DEF IInv, Registered
  <2>2. execMu # t
    BY DEF IInv, LockHeld, Cancels, InLock, Working
  <2> QED BY <2>1, <2>2
<1> QED BY <1>1, <1>2, <1>3 DEF IInv

\* A step that only moves the request on.
LEMMA MoveStep ==
  ASSUME IInv, NEW t \in Requests, UNCHANGED <<session, queue, owner, toolRuns>>,
         ServerOK', req[t].run = NoRun => req'[t].run = NoRun \/ current.run # NoRun,
         \A u \in Requests \ {t} : req'[u] = req[u],
         PlaceOK(req[t])', Duties(t)',
         execMu' = execMu \/ execMu = Nobody,
         active' = active \/ (execMu = t /\ \E r : active' = [active EXCEPT ![r] = t])
  PROVE  IInv'
<1>1. SessionOK' /\ QueueOK' /\ started <= started'
  BY ConstantsAssumption DEF IInv, session, queue, SessionOK, QueueOK
<1>2. Unused'
  BY DEF IInv, Unused, session, queue
<1> QED BY <1>1, <1>2, OwnStep

LEMMA IdleType == IdleRequest \in RequestRecord
BY DEF IdleRequest, RequestRecord, Pcs, NoSnapshot, SnapshotRecord, Stages

\* A request that does not hold a snapshot keeps what it has.
SameSnap(q, p) == p.snap = q.snap /\ p.pc \notin Holding

LEMMA SnapHolds ==
  ASSUME IInv, NEW t \in Requests, started' = started \/ started' = started + 1,
         SameSnap(req[t], req'[t])
  PROVE  Holds(req'[t], started')
<1>1. /\ req[t].snap.run <= started /\ req[t].snap.run \in Nat /\ started \in Nat
  BY ConstantsAssumption
    DEF IInv, PlaceOK, Holds, ServerOK, SessionOK, RequestRecord, SnapshotRecord, Runs, NoRun
<1> QED BY <1>1 DEF SameSnap, Holds, Holding

LEMMA IdleHolds == ASSUME IInv PROVE Holds(IdleRequest, started)
BY ConstantsAssumption
  DEF IInv, SessionOK, Holds, Holding, IdleRequest, NoSnapshot, NoRun

\* A handler that read a run, or nothing, asks for the lock.
LEMMA AskOK ==
  ASSUME IInv, NEW t \in Requests, NEW op \in OpNames \ (Legacy \cup {"cancel"}),
         NEW r \in Runs \cup {NoRun}, Ask(t, op, r),
         r = NoRun => op = "start", r # NoRun => r \in Visible
  PROVE  IInv'
<1> DEFINE ask == [IdleRequest EXCEPT !.op = op, !.run = r]
<1>1. r <= started /\ started \in Nat /\ (r = NoRun \/ current.run # NoRun)
  BY ConstantsAssumption DEF IInv, SessionOK, ListOK, Unused, Visible, ToSet, Runs, NoRun
<1>2. /\ ask \in RequestRecord /\ ask.parent = NoRun /\ ask.run = r /\ ask.op = op
      /\ ask.snap = NoSnapshot
  BY IdleType DEF IdleRequest, RequestRecord
<1>3. UNCHANGED <<session, queue, active, owner, toolRuns>> /\ Take(t, ask)
  BY DEF Ask
<1> HIDE DEF ask
<1>4. /\ ServerOK' /\ \A u \in Requests \ {t} : req'[u] = req[u]
      /\ req'[t].pc \in {"asked", "locked"} /\ req'[t].op = op /\ req'[t].run = r
      /\ req'[t].parent = NoRun /\ req'[t].snap = NoSnapshot
      /\ IF req'[t].pc = "locked" THEN execMu = Nobody /\ execMu' = t ELSE execMu' = execMu
  <2>1. CASE /\ req' = [req EXCEPT ![t] = [ask EXCEPT !.pc = "asked"]]
             /\ UNCHANGED execMu
    <3>1. [ask EXCEPT !.pc = "asked"] \in RequestRecord
      BY <1>2 DEF RequestRecord, Pcs
    <3> QED BY <1>2, <1>3, <2>1, <3>1 DEF IInv, ServerOK, RequestRecord
  <2>2. CASE /\ execMu = Nobody /\ execMu' = t
             /\ req' = [req EXCEPT ![t] = [ask EXCEPT !.pc = "locked",
                                                      !.background = TRUE]]
    <3>1. [ask EXCEPT !.pc = "locked"] \in RequestRecord
      BY <1>2 DEF RequestRecord, Pcs
    <3>2. [[ask EXCEPT !.pc = "locked"] EXCEPT !.background = TRUE] \in RequestRecord
      BY <3>1 DEF RequestRecord
    <3> QED BY <1>2, <1>3, <2>2, <3>2 DEF IInv, ServerOK, RequestRecord
  <2> QED BY <1>3, <2>1, <2>2 DEF Take
<1>5. PlaceOK(req[t])'
  <2>1. Holds(req'[t], started)
    BY <1>1, <1>4 DEF Holds, Holding, NoSnapshot, NoRun
  <2> QED BY <1>1, <1>3, <1>4, <2>1 DEF PlaceOK, session, Working, Legacy, NoRun
<1>6. Duties(t)'
  BY <1>4 DEF Duties, InLock, Cancels, Working
<1> QED BY <1>1, <1>3, <1>4, <1>5, <1>6, MoveStep

\* The handlers that ask for the lock.
LEMMA HandlersInv == ASSUME IInv, NEW t \in Requests, Handlers(t) PROVE IInv'
<1> USE DEF OpNames, Legacy
<1>1. Visible \subseteq Runs
  BY DEF IInv, SessionOK, ListOK, Visible, ToSet
<1>2. CASE AskStart(t)
  BY <1>2, AskOK DEF AskStart
<1>3. CASE \E r \in Visible :
          \/ AskRetry(t, r) \/ AskApproval(t, r) \/ AskToolApproval(t, r)
          \/ AskInput(t, r) \/ AskSubWorkflow(t, r) \/ AskContinue(t, r)
          \/ AskEscalate(t, r) \/ AskBudget(t, r)
  <2>1. PICK r \in Visible :
          \E op \in OpNames \ (Legacy \cup {"cancel"}) : Ask(t, op, r)
    BY <1>3 DEF AskRetry, AskApproval, AskToolApproval, AskInput, AskSubWorkflow,
      AskContinue, AskEscalate, AskBudget
  <2>2. r # NoRun
    BY <1>1, ConstantsAssumption DEF Runs, NoRun
  <2> QED BY <1>1, <2>1, <2>2, AskOK
<1>4. CASE \E r \in Visible : AskCancel(t, r)
  <2>1. PICK r \in Visible : AskCancel(t, r)
    BY <1>4
  <2>2. r \in Runs /\ r # NoRun /\ r <= started /\ current.run # NoRun
    BY <1>1, ConstantsAssumption
      DEF IInv, SessionOK, ListOK, Unused, Visible, ToSet, Runs, NoRun
  <2>3. ServerOK' /\ \A u \in Requests \ {t} : req'[u] = req[u]
    <3> DEFINE q == [IdleRequest EXCEPT !.pc = "cancel", !.op = "cancel", !.run = r]
    <3>1. q \in RequestRecord
      BY <2>2, IdleType DEF RequestRecord, IdleRequest, Pcs, OpNames
    <3>2. [q EXCEPT !.seen = runs[r].status \in Cancellable] \in RequestRecord
      <4> DEFINE b == runs[r].status \in Cancellable
      <4>1. b \in BOOLEAN
        OBVIOUS
      <4> HIDE DEF q, b
      <4>2. [q EXCEPT !.seen = b] \in RequestRecord
        BY <3>1, <4>1 DEF RequestRecord
      <4> QED BY <4>2 DEF b
    <3> QED BY <2>1, <3>2 DEF IInv, ServerOK, AskCancel
  <2>4. PlaceOK(req[t])' /\ Duties(t)'
    BY <2>1, <2>2, ConstantsAssumption DEF IInv, ServerOK, SessionOK, AskCancel,
      IdleRequest, PlaceOK, Duties, Cancels, InLock, Working, NoRun, session,
      Holds, Holding, NoSnapshot
  <2> QED BY <2>1, <2>2, <2>3, <2>4, MoveStep DEF AskCancel
<1>5. CASE \E c \in Calls : AskLegacy(t, c)
  <2>1. PICK c \in Calls, op \in {"legacy", "legacyDeny"} :
          /\ req' = [req EXCEPT ![t] = [IdleRequest EXCEPT !.pc = "legacy", !.op = op,
                                          !.call = c]]
          /\ UNCHANGED <<session, queue, active, execMu, owner, toolRuns>>
    BY <1>5 DEF AskLegacy
  <2>2. ServerOK' /\ \A u \in Requests \ {t} : req'[u] = req[u]
    <3> DEFINE q == [IdleRequest EXCEPT !.pc = "legacy", !.op = op, !.call = c]
    <3>1. q \in RequestRecord
      BY IdleType DEF RequestRecord, IdleRequest, Pcs, OpNames
    <3> HIDE DEF q
    <3> QED BY <2>1, <3>1 DEF IInv, ServerOK, q
  <2>3. PlaceOK(req[t])' /\ Duties(t)' /\ req'[t].run = NoRun
    BY <2>1, ConstantsAssumption DEF IInv, ServerOK, SessionOK, IdleRequest,
      PlaceOK, Duties, Cancels, InLock, Working, NoRun, session, Holds, Holding, NoSnapshot
  <2> QED BY <2>1, <2>2, <2>3, MoveStep
<1> QED BY <1>2, <1>3, <1>4, <1>5 DEF Handlers

\* workflowExecMu is free.
LEMMA LockInv == ASSUME IInv, NEW t \in Requests, Lock(t) PROVE IInv'
<1>1. ServerOK' /\ \A u \in Requests \ {t} : req'[u] = req[u]
  BY DEF IInv, ServerOK, RequestRecord, Lock, Pcs
<1>2. PlaceOK(req[t])' /\ (req[t].run = NoRun => req'[t].run = NoRun \/ current.run # NoRun)
  BY DEF IInv, ServerOK, PlaceOK, RequestRecord, Lock, session, Working, Holds, Holding
<1>3. Duties(t)' /\ (active' = active \/ (execMu = t /\ \E r : active' = [active EXCEPT ![r] = t]))
  BY DEF IInv, ServerOK, RequestRecord, Lock, PlaceOK, LockHeld, Registered, Duties,
    Cancels, InLock, Working, Top, Legacy, OpNames
<1> QED BY <1>1, <1>2, <1>3, MoveStep DEF Lock

\* The hook registers the cancel function of a run that was started.
LEMMA RegisterStartedInv == ASSUME IInv, NEW t \in Requests, RegisterStarted(t) PROVE IInv'
<1>1. ServerOK' /\ \A u \in Requests \ {t} : req'[u] = req[u]
  BY DEF IInv, ServerOK, RequestRecord, RegisterStarted, Pcs
<1>2. PlaceOK(req[t])' /\ (req[t].run = NoRun => req'[t].run = NoRun \/ current.run # NoRun)
  BY DEF IInv, ServerOK, PlaceOK, RequestRecord, RegisterStarted, session, Working, Holds, Holding
<1>3. Duties(t)' /\ (active' = active \/ (execMu = t /\ \E r : active' = [active EXCEPT ![r] = t]))
  BY DEF IInv, ServerOK, RequestRecord, RegisterStarted, PlaceOK, LockHeld, Registered, Duties,
    Cancels, InLock, Working, Top, Legacy, OpNames
<1> QED BY <1>1, <1>2, <1>3, MoveStep DEF RegisterStarted

\* A resumed run gets its cancel function.
LEMMA RegisterResumedInv ==
  ASSUME IInv, NEW t \in Requests, RegisterResumed(t) PROVE IInv'
<1>1. /\ req[t].run \in Runs /\ req[t].run # NoRun /\ req[t].run <= started
      /\ req[t].parent = NoRun /\ req[t].op \notin Legacy /\ execMu = t
  BY DEF IInv, ServerOK, PlaceOK, RegisterResumed, RequestRecord, LockHeld, InLock
<1>2. ServerOK' /\ \A u \in Requests \ {t} : req'[u] = req[u]
  <2>1. [req[t] EXCEPT !.pc = "registered"] \in RequestRecord
    BY DEF IInv, ServerOK, RequestRecord, Pcs
  <2> QED BY <1>1, <2>1 DEF IInv, ServerOK, RegisterResumed
<1>3. /\ req'[t].pc = "registered" /\ req'[t].run = req[t].run
      /\ req'[t].parent = NoRun /\ req'[t].op = req[t].op
      /\ req'[t].snap = req[t].snap
  BY <1>1 DEF IInv, ServerOK, RegisterResumed, RequestRecord
<1>4. PlaceOK(req[t])'
  BY <1>1, <1>3 DEF IInv, PlaceOK, RegisterResumed, session, Working, Holds, Holding
<1>5. Duties(t)'
  BY <1>1, <1>3 DEF IInv, ServerOK, RegisterResumed, Duties, Top
<1> QED BY <1>1, <1>2, <1>3, <1>4, <1>5, MoveStep DEF RegisterResumed

\* The status is no longer the one the handler saw.
LEMMA RefuseInv == ASSUME IInv, NEW t \in Requests, Refuse(t) PROVE IInv'
<1>1. ServerOK' /\ \A u \in Requests \ {t} : req'[u] = req[u]
  BY DEF IInv, ServerOK, RequestRecord, Refuse, Pcs
<1>2. PlaceOK(req[t])' /\ (req[t].run = NoRun => req'[t].run = NoRun \/ current.run # NoRun)
  BY DEF IInv, ServerOK, PlaceOK, RequestRecord, Refuse, session, Working, Holds, Holding
<1>3. Duties(t)' /\ (active' = active \/ (execMu = t /\ \E r : active' = [active EXCEPT ![r] = t]))
  BY DEF IInv, ServerOK, RequestRecord, Refuse, PlaceOK, LockHeld, Registered, Duties,
    Cancels, InLock, Working, Top, Legacy, OpNames
<1> QED BY <1>1, <1>2, <1>3, MoveStep DEF Refuse

\* A cancel finds the function, goes by the status it saw, or ends.
LEMMA LookUpCancelInv ==
  ASSUME IInv, NEW t \in Requests, LookUpCancel(t) PROVE IInv'
<1>1. req[t].run \in Runs /\ req[t].run # NoRun
  BY DEF IInv, ServerOK, PlaceOK, LookUpCancel, RequestRecord
<1>2. PICK q \in RequestRecord :
        /\ req' = [req EXCEPT ![t] = q]
        /\ q = IdleRequest \/ /\ q.pc \in {"cancelActive", "cancelPaused"}
                              /\ q.run = req[t].run /\ q.parent = req[t].parent
                              /\ q.snap = req[t].snap
  <2>1. [req[t] EXCEPT !.pc = "cancelActive", !.target = active[req[t].run]] \in RequestRecord
    <3>1. [req[t] EXCEPT !.pc = "cancelActive"] \in RequestRecord
      BY DEF IInv, ServerOK, RequestRecord, Pcs
    <3> QED BY <1>1, <3>1 DEF IInv, ServerOK, RequestRecord
  <2>2. [req[t] EXCEPT !.pc = "cancelPaused"] \in RequestRecord
    BY DEF IInv, ServerOK, RequestRecord, Pcs
  <2>3. CASE active[req[t].run] # Nobody
    BY <2>1, <2>3 DEF IInv, ServerOK, LookUpCancel, RequestRecord
  <2>4. CASE active[req[t].run] = Nobody /\ req[t].seen
    BY <2>2, <2>4 DEF IInv, ServerOK, LookUpCancel, RequestRecord
  <2>5. CASE active[req[t].run] = Nobody /\ ~req[t].seen
    BY <2>5, IdleType DEF LookUpCancel
  <2> QED BY <2>3, <2>4, <2>5
<1>3. ServerOK' /\ req'[t] = q /\ \A u \in Requests \ {t} : req'[u] = req[u]
  BY <1>2 DEF IInv, ServerOK, LookUpCancel
<1>4. PlaceOK(req[t])' /\ Duties(t)'
  BY <1>1, <1>2, <1>3, ConstantsAssumption DEF IInv, SessionOK, PlaceOK, Duties, InLock,
    Cancels, Working, IdleRequest, NoRun, LookUpCancel, session, Holds, Holding, NoSnapshot
<1> QED BY <1>1, <1>3, <1>4, MoveStep DEF LookUpCancel

\* The approval endpoint without the lock takes the run of the snapshot.
LEMMA ResumeLegacyInv ==
  ASSUME IInv, NEW t \in Requests, ResumeLegacy(t) PROVE IInv'
<1>1. req[t].op \in Legacy /\ req[t].parent = NoRun
  BY DEF IInv, PlaceOK, ResumeLegacy
<1>2. PICK q \in RequestRecord :
        /\ req' = [req EXCEPT ![t] = q]
        /\ q = IdleRequest \/ /\ q.pc = "answer" /\ q.op \in Legacy
                              /\ q.run = current.run /\ q.run # NoRun
                              /\ q.parent = NoRun /\ q.snap = req[t].snap
  <2>1. [req[t] EXCEPT !.pc = "answer", !.run = current.run] \in RequestRecord
    <3>1. [req[t] EXCEPT !.pc = "answer"] \in RequestRecord
      BY DEF IInv, ServerOK, RequestRecord, Pcs
    <3>2. current.run \in Runs \cup {NoRun}
      BY DEF IInv, SessionOK, SnapshotRecord
    <3> QED BY <3>1, <3>2 DEF RequestRecord
  <2>2. CASE req[t].call \in store \cup approved
    <3>1. current.run # NoRun
      BY <2>2 DEF IInv, Unused
    <3> DEFINE q == [req[t] EXCEPT !.pc = "answer", !.run = current.run]
    <3>2. req' = [req EXCEPT ![t] = q]
      BY <2>2 DEF ResumeLegacy
    <3>3. /\ q.pc = "answer" /\ q.op = req[t].op /\ q.run = current.run
          /\ q.parent = req[t].parent /\ q.snap = req[t].snap
      BY DEF IInv, ServerOK, RequestRecord
    <3>4. q \in RequestRecord
      BY <2>1
    <3> HIDE DEF q
    <3> QED BY <1>1, <3>1, <3>2, <3>3, <3>4
  <2>3. CASE req[t].call \notin store \cup approved
    BY <2>3, IdleType DEF ResumeLegacy
  <2> QED BY <2>2, <2>3
<1>3. ServerOK' /\ req'[t] = q /\ \A u \in Requests \ {t} : req'[u] = req[u]
  BY <1>2 DEF IInv, ServerOK, ResumeLegacy
<1>4. PlaceOK(req[t])' /\ Duties(t)'
  BY <1>2, <1>3, ConstantsAssumption DEF IInv, SessionOK, PlaceOK, Duties, InLock,
    Cancels, Working, IdleRequest, NoRun, ResumeLegacy, session, Holds, Holding, NoSnapshot
<1>5. req'[t].run = NoRun \/ current.run # NoRun
  BY <1>2, <1>3 DEF IdleRequest
<1> QED BY <1>3, <1>4, <1>5, MoveStep DEF ResumeLegacy

------------------------------------------------------------------------------
(* Executions                                                              *)

LEMMA WorkingFacts ==
  ASSUME IInv, NEW t \in Requests, req[t].pc \in Working \cup {"registered"}
  PROVE  /\ req[t] \in RequestRecord
         /\ req[t].run \in Runs /\ req[t].run # NoRun /\ req[t].run <= started
         /\ req[t].parent \in Runs \cup {NoRun} /\ req[t].parent <= started
         /\ current.run # NoRun /\ started \in Nat
         /\ req[t].snap \in SnapshotRecord /\ req[t].snap.run <= started
         /\ req[t].next \in Pcs \cup {"none"}
BY ConstantsAssumption
  DEF IInv, ServerOK, SessionOK, PlaceOK, RequestRecord, Unused, NoRun, Runs, Holds

\* A step of an execution that keeps its lock, its cancel function and the
\* run it is responsible for.
LEMMA WorkStep ==
  ASSUME IInv, NEW t \in Requests, Cancels(req[t]),
         SessionOK', QueueOK', started <= started', current'.run # NoRun,
         UNCHANGED <<active, execMu>>,
         req' \in [Requests -> RequestRecord],
         \A u \in Requests \ {t} : req'[u] = req[u],
         req'[t].pc \in Working \cup {"leaving"},
         req'[t].pc = "started" => req'[t].parent # NoRun,
         req'[t].op = req[t].op, req'[t].run # NoRun, req'[t].run <= started',
         req'[t].parent <= started', Top(t)' = Top(t), Holds(req'[t], started')
  PROVE  IInv'
<1>1. ServerOK' /\ Unused'
  BY DEF IInv, ServerOK, Unused
<1>2. PlaceOK(req[t])'
  BY DEF PlaceOK, Working
<1>3. Duties(t)'
  BY DEF IInv, LockHeld, Registered, Duties, Cancels, InLock, Working
<1> QED BY <1>1, <1>2, <1>3, OwnStep

\* A run is started, or the bound on runs is reached.
LEMMA StartInv == ASSUME IInv, NEW t \in Requests, Start(t) PROVE IInv'
<1>1. /\ req[t] \in RequestRecord /\ req[t].parent = NoRun
      /\ req[t].run \in Runs \cup {NoRun} /\ req[t].run <= started
      /\ req[t].op \in {"start", "retry"} /\ execMu = t /\ started \in Nat
  BY ConstantsAssumption DEF IInv, SessionOK, ServerOK, PlaceOK, RequestRecord, Start,
    LockHeld, InLock, Legacy
<1>2. CASE started < MaxStarts
  <2> DEFINE r == started + 1
  <2>1. StartRun(r, req[t].run)
    BY <1>2 DEF Start
  <2>2. SessionOK' /\ started' = r /\ current'.run = r
    BY <1>1, <1>2, <2>1, StartRunOK DEF IInv
  <2>3. r \in Runs /\ r # NoRun
    BY <1>1, <1>2, ConstantsAssumption DEF Runs, NoRun
  <2>4. [req[t] EXCEPT !.pc = "started"] \in RequestRecord
    BY <1>1 DEF RequestRecord, Pcs
  <2>5. [[req[t] EXCEPT !.pc = "started"] EXCEPT !.run = r] \in RequestRecord
    BY <2>3, <2>4 DEF RequestRecord
  <2>6. /\ ServerOK' /\ \A u \in Requests \ {t} : req'[u] = req[u]
        /\ req'[t].pc = "started" /\ req'[t].run = r /\ req'[t].parent = NoRun
        /\ req'[t].op = req[t].op /\ SameSnap(req[t], req'[t])
    BY <1>1, <1>2, <2>5 DEF IInv, ServerOK, Start, RequestRecord, SameSnap, Holding
  <2>h. Holds(req'[t], started')
    BY <2>2, <2>6, SnapHolds
  <2>7. PlaceOK(req[t])' /\ Duties(t)' /\ Unused'
    BY <1>1, <1>2, <2>2, <2>3, <2>6, <2>h, ConstantsAssumption
      DEF PlaceOK, Duties, Cancels, Working, NoRun, Start, Unused
  <2>8. QueueOK' /\ started <= started'
    BY <1>1, <2>2 DEF IInv, QueueOK, Start, queue
  <2> QED BY <2>2, <2>6, <2>7, <2>8, OwnStep DEF Start
<1>3. CASE ~(started < MaxStarts)
  <2>1. [req[t] EXCEPT !.pc = "leaving"] \in RequestRecord
    BY <1>1 DEF RequestRecord, Pcs
  <2>2. /\ ServerOK' /\ \A u \in Requests \ {t} : req'[u] = req[u]
        /\ req'[t].pc = "leaving" /\ req'[t].run = req[t].run
        /\ req'[t].parent = NoRun /\ started' = started /\ SameSnap(req[t], req'[t])
    BY <1>1, <1>3, <2>1 DEF IInv, ServerOK, Start, RequestRecord, session, SameSnap, Holding
  <2>h. Holds(req'[t], started')
    BY <2>2, SnapHolds
  <2>3. PlaceOK(req[t])' /\ Duties(t)'
    BY <1>1, <2>2, <2>h, ConstantsAssumption
      DEF PlaceOK, Duties, Cancels, Working, Start, NoRun
  <2> QED BY <1>1, <1>3, <2>2, <2>3, MoveStep DEF Start
<1> QED BY <1>2, <1>3

\* A step of an execution that stays with its run.
LEMMA SameRun ==
  ASSUME IInv, NEW t \in Requests, req[t].pc \in Working \cup {"registered"},
         Cancels(req[t]), SessionOK', QueueOK', started' = started, current'.run # NoRun,
         UNCHANGED <<active, execMu>>,
         req' \in [Requests -> RequestRecord],
         \A u \in Requests \ {t} : req'[u] = req[u],
         req'[t].pc \in (Working \ {"started"}) \cup {"leaving"},
         req'[t].op = req[t].op, req'[t].run = req[t].run,
         req'[t].parent = req[t].parent,
         SameSnap(req[t], req'[t]) \/ Holds(req'[t], started)
  PROVE  IInv'
<1>1. /\ req[t].run # NoRun /\ req[t].run <= started /\ req[t].parent <= started
      /\ started \in Nat
  BY WorkingFacts
<1>2. Top(t)' = Top(t)
  BY DEF Top
<1>3. Holds(req'[t], started')
  BY SnapHolds
<1> QED BY <1>1, <1>2, <1>3, WorkStep

\* The status is still the one the request may resume from.
LEMMA CheckInv == ASSUME IInv, NEW t \in Requests, Check(t) PROVE IInv'
<1> DEFINE r    == req[t].run
           call == IF req[t].op \in {"tool", "deny"} THEN runs[r].call ELSE NoCall
           s    == [run |-> r, status |-> "running", stage |-> runs[r].stage,
                    call |-> call, child |-> NoRun]
           q1   == [req[t] EXCEPT !.pc = "checked"]
           q2   == [q1 EXCEPT !.call = call]
           q    == [q2 EXCEPT !.snap = s]
<1>1. /\ req[t] \in RequestRecord /\ r \in Runs /\ r # NoRun /\ r <= started
      /\ Cancels(req[t]) /\ current.run # NoRun /\ started \in Nat
  BY WorkingFacts DEF Check, Cancels
<1>2. call \in Calls \cup {NoCall} /\ runs[r].stage \in Stages
  BY <1>1 DEF IInv, SessionOK, RecordsOK, RunRecord
<1>3. s \in SnapshotRecord /\ s.run = r
  <2> HIDE DEF call
  <2> QED BY <1>1, <1>2, StatusTypes DEF SnapshotRecord
<1>4. req' = [req EXCEPT ![t] = q]
  BY <1>1 DEF Check, IInv, ServerOK
<1> HIDE DEF call, s
<1>5. /\ q \in RequestRecord /\ q.pc = "checked" /\ q.op = req[t].op /\ q.run = r
      /\ q.parent = req[t].parent /\ q.snap = s
  <2>1. q1 \in RequestRecord
    BY <1>1 DEF RequestRecord, Pcs
  <2>2. q1.op = req[t].op /\ q1.run = r /\ q1.parent = req[t].parent /\ q1.pc = "checked"
    BY <1>1 DEF RequestRecord
  <2> HIDE DEF q1
  <2>3. /\ q2 \in RequestRecord /\ q2.op = q1.op /\ q2.run = q1.run /\ q2.pc = q1.pc
        /\ q2.parent = q1.parent
    BY <1>2, <2>1 DEF RequestRecord
  <2> HIDE DEF q2
  <2> QED BY <1>3, <2>2, <2>3 DEF RequestRecord
<1> HIDE DEF q
<1>6. /\ req' \in [Requests -> RequestRecord] /\ \A u \in Requests \ {t} : req'[u] = req[u]
      /\ req'[t] = q
  BY <1>4, <1>5 DEF IInv, ServerOK
<1>7. Holds(q, started)
  BY <1>1, <1>3, <1>5 DEF Holds
<1>8. SessionOK' /\ started' = started /\ current' = current /\ QueueOK'
  BY DEF IInv, SessionOK, QueueOK, Check, session, queue
<1> QED BY <1>1, <1>5, <1>6, <1>7, <1>8, SameRun DEF Check, Working

\* The session's snapshot is that of the run.
LEMMA AdmitInv == ASSUME IInv, NEW t \in Requests, Admit(t) PROVE IInv'
<1> DEFINE q1 == [req[t] EXCEPT !.pc = "admitted"]
           q  == [q1 EXCEPT !.snap = NoSnapshot]
<1>1. /\ req[t] \in RequestRecord /\ Cancels(req[t]) /\ req[t].pc \in Working
      /\ req[t].snap \in SnapshotRecord /\ req[t].snap.run <= started
      /\ req[t].snap.run # NoRun /\ started \in Nat
  BY WorkingFacts DEF Admit, Cancels, Working, IInv, PlaceOK, Holds, Holding
<1>2. /\ q \in RequestRecord /\ q.pc = "admitted" /\ q.op = req[t].op
      /\ q.run = req[t].run /\ q.parent = req[t].parent /\ q.snap = NoSnapshot
  <2>1. /\ q1 \in RequestRecord /\ q1.pc = "admitted" /\ q1.op = req[t].op
        /\ q1.run = req[t].run /\ q1.parent = req[t].parent
    BY <1>1 DEF RequestRecord, Pcs
  <2>2. NoSnapshot \in SnapshotRecord
    BY DEF NoSnapshot, SnapshotRecord, Stages
  <2> HIDE DEF q1
  <2> QED BY <2>1, <2>2 DEF RequestRecord
<1>3. req' = [req EXCEPT ![t] = q]
  BY <1>1 DEF Admit, IInv, ServerOK
<1> HIDE DEF q
<1>4. /\ req' \in [Requests -> RequestRecord] /\ \A u \in Requests \ {t} : req'[u] = req[u]
      /\ req'[t] = q
  BY <1>2, <1>3 DEF IInv, ServerOK
<1>5. Holds(q, started)
  BY <1>1, <1>2 DEF Holds, Holding, NoSnapshot, NoRun
<1>6. SessionOK' /\ started' = started /\ current'.run # NoRun
  BY <1>1 DEF Admit, IInv, SessionOK
<1>7. QueueOK'
  BY DEF IInv, QueueOK, Admit, queue
<1> QED BY <1>1, <1>2, <1>4, <1>5, <1>6, <1>7, SameRun DEF Admit, Working

\* The snapshot is read again.
LEMMA RereadInv == ASSUME IInv, NEW t \in Requests, Reread(t) PROVE IInv'
<1> DEFINE next == IF req[t].call = NoCall THEN "running" ELSE "answer"
           q1   == [req[t] EXCEPT !.pc = "write"]
           q2   == [q1 EXCEPT !.snap = current]
           q    == [q2 EXCEPT !.next = next]
<1>1. /\ req[t] \in RequestRecord /\ Cancels(req[t]) /\ req[t].pc \in Working
      /\ current.run # NoRun /\ current \in SnapshotRecord /\ current.run <= started
  BY WorkingFacts DEF Reread, Cancels, Working, IInv, SessionOK
<1>2. next \in AfterWrite /\ next \in Pcs
  BY DEF AfterWrite, Pcs
<1>3. req' = [req EXCEPT ![t] = q]
  BY DEF Reread, IInv, ServerOK
<1> HIDE DEF next
<1>4. /\ q \in RequestRecord /\ q.pc = "write" /\ q.op = req[t].op
      /\ q.run = req[t].run /\ q.parent = req[t].parent /\ q.snap = current /\ q.next = next
  <2>1. /\ q1 \in RequestRecord /\ q1.pc = "write" /\ q1.op = req[t].op
        /\ q1.run = req[t].run /\ q1.parent = req[t].parent
    BY <1>1 DEF RequestRecord, Pcs
  <2> HIDE DEF q1
  <2>2. /\ q2 \in RequestRecord /\ q2.pc = q1.pc /\ q2.op = q1.op
        /\ q2.run = q1.run /\ q2.parent = q1.parent /\ q2.snap = current
    BY <1>1, <2>1 DEF RequestRecord
  <2> HIDE DEF q2
  <2> QED BY <1>2, <2>1, <2>2 DEF RequestRecord
<1> HIDE DEF q
<1>5. /\ req' \in [Requests -> RequestRecord] /\ \A u \in Requests \ {t} : req'[u] = req[u]
      /\ req'[t] = q
  BY <1>3, <1>4 DEF IInv, ServerOK
<1>6. Holds(q, started)
  BY <1>1, <1>2, <1>4 DEF Holds
<1>7. SessionOK' /\ started' = started /\ current' = current /\ QueueOK'
  BY DEF IInv, SessionOK, QueueOK, Reread, session, queue
<1> QED BY <1>1, <1>4, <1>5, <1>6, <1>7, SameRun DEF Reread, Working

\* What the request holds is written into the run list.
LEMMA WriteFacts ==
  ASSUME IInv, NEW t \in Requests, Write(t)
  PROVE  /\ req[t] \in RequestRecord /\ Cancels(req[t]) /\ req[t].pc \in Working
         /\ req[t].snap \in SnapshotRecord /\ req[t].snap.run # NoRun
         /\ req[t].snap.run <= started /\ req[t].next \in AfterWrite
         /\ current.run # NoRun
         /\ req' \in [Requests -> RequestRecord]
         /\ \A u \in Requests \ {t} : req'[u] = req[u]
         /\ req'[t].pc = req[t].next /\ req'[t].op = req[t].op
         /\ req'[t].run = req[t].run /\ req'[t].parent = req[t].parent
         /\ req'[t].out = req[t].out /\ req'[t].child = req[t].child
         /\ req'[t].snap = NoSnapshot
<1> DEFINE q1 == [req[t] EXCEPT !.pc = req[t].next]
           q2 == [q1 EXCEPT !.snap = NoSnapshot]
           q  == [q2 EXCEPT !.next = "none"]
<1>1. /\ req[t] \in RequestRecord /\ Cancels(req[t]) /\ req[t].pc \in Working
      /\ req[t].snap \in SnapshotRecord /\ req[t].snap.run # NoRun
      /\ req[t].snap.run <= started /\ req[t].next \in AfterWrite
      /\ current.run # NoRun
  BY WorkingFacts DEF Write, Cancels, Working, IInv, PlaceOK, Holds, Holding
<1>2. /\ q \in RequestRecord /\ q.pc = req[t].next /\ q.op = req[t].op
      /\ q.run = req[t].run /\ q.parent = req[t].parent
      /\ q.out = req[t].out /\ q.child = req[t].child /\ q.snap = NoSnapshot
  <2>1. /\ q1 \in RequestRecord /\ q1.pc = req[t].next /\ q1.op = req[t].op
        /\ q1.run = req[t].run /\ q1.parent = req[t].parent
        /\ q1.out = req[t].out /\ q1.child = req[t].child
    BY <1>1 DEF RequestRecord, Pcs, AfterWrite
  <2>2. NoSnapshot \in SnapshotRecord
    BY DEF NoSnapshot, SnapshotRecord, Stages
  <2> HIDE DEF q1
  <2>3. /\ q2 \in RequestRecord /\ q2.pc = q1.pc /\ q2.op = q1.op
        /\ q2.run = q1.run /\ q2.parent = q1.parent
        /\ q2.out = q1.out /\ q2.child = q1.child /\ q2.snap = NoSnapshot
    BY <2>1, <2>2 DEF RequestRecord
  <2> HIDE DEF q2
  <2> QED BY <2>1, <2>3 DEF RequestRecord
<1>3. req' = [req EXCEPT ![t] = q]
  BY DEF Write, IInv, ServerOK
<1> HIDE DEF q
<1>5. /\ req' \in [Requests -> RequestRecord] /\ \A u \in Requests \ {t} : req'[u] = req[u]
      /\ req'[t] = q
  BY <1>2, <1>3 DEF IInv, ServerOK
<1> QED BY <1>1, <1>2, <1>5

LEMMA WriteInv == ASSUME IInv, NEW t \in Requests, Write(t) PROVE IInv'
<1>1. SessionOK' /\ started' = started /\ current' = current
  BY WriteFacts, UpdateRunOK DEF Write, IInv, SessionOK
<1>2. QueueOK'
  BY DEF IInv, QueueOK, Write, queue
<1>3. Holds(req'[t], started)
  <2>1. started \in Nat /\ req'[t].pc \in AfterWrite /\ req'[t].snap = NoSnapshot
    BY WriteFacts, ConstantsAssumption DEF IInv, SessionOK
  <2> QED BY <2>1 DEF Holds, Holding, AfterWrite, NoSnapshot, NoRun
<1>4. req'[t].pc \in Working \ {"started"}
  BY WriteFacts DEF AfterWrite, Working
<1>5. UNCHANGED <<active, execMu>>
  BY DEF Write
<1> QED BY <1>1, <1>2, <1>3, <1>4, <1>5, WriteFacts, SameRun

\* The snapshot an execution persists.
LEMMA SnapshotType ==
  ASSUME IInv, NEW t \in Requests, req[t].pc \in Working, NEW status \in Statuses,
         NEW call \in Calls \cup {NoCall}, NEW child \in Runs \cup {NoRun}
  PROVE  /\ Snapshot(t, status, call, child) \in SnapshotRecord
         /\ Snapshot(t, status, call, child).run = req[t].run
         /\ req[t].run # NoRun /\ req[t].run <= started
BY WorkingFacts, StatusTypes DEF Snapshot, SnapshotRecord

\* A snapshot is set; the run is written later.
LEMMA PersistFacts ==
  ASSUME IInv, NEW t \in Requests, NEW s \in SnapshotRecord,
         NEW q \in RequestRecord, q.pc \in AfterWrite, Persist(t, s, q)
  PROVE  /\ current' = s /\ UNCHANGED <<list, runs, started>>
         /\ req' \in [Requests -> RequestRecord]
         /\ \A u \in Requests \ {t} : req'[u] = req[u]
         /\ req'[t].pc = "write" /\ req'[t].snap = s /\ req'[t].next = q.pc
         /\ req'[t].op = q.op /\ req'[t].run = q.run /\ req'[t].parent = q.parent
         /\ req'[t].out = q.out /\ req'[t].child = q.child
<1> DEFINE q1 == [q EXCEPT !.pc = "write"]
           q2 == [q1 EXCEPT !.snap = s]
           p  == [q2 EXCEPT !.next = q.pc]
<1>1. /\ p \in RequestRecord /\ p.pc = "write" /\ p.snap = s /\ p.next = q.pc
      /\ p.op = q.op /\ p.run = q.run /\ p.parent = q.parent
      /\ p.out = q.out /\ p.child = q.child
  <2>1. /\ q1 \in RequestRecord /\ q1.pc = "write" /\ q1.op = q.op
        /\ q1.run = q.run /\ q1.parent = q.parent /\ q1.out = q.out /\ q1.child = q.child
    BY DEF RequestRecord, Pcs
  <2> HIDE DEF q1
  <2>2. /\ q2 \in RequestRecord /\ q2.pc = q1.pc /\ q2.op = q1.op /\ q2.run = q1.run
        /\ q2.parent = q1.parent /\ q2.out = q1.out /\ q2.child = q1.child /\ q2.snap = s
    BY <2>1 DEF RequestRecord
  <2>3. q.pc \in Pcs
    BY DEF RequestRecord
  <2> HIDE DEF q2
  <2> QED BY <2>1, <2>2, <2>3 DEF RequestRecord
<1>3. req' = [req EXCEPT ![t] = p]
  BY DEF Persist, IInv, ServerOK
<1> HIDE DEF p
<1>4. /\ req' \in [Requests -> RequestRecord] /\ \A u \in Requests \ {t} : req'[u] = req[u]
      /\ req'[t] = p
  BY <1>1, <1>3 DEF IInv, ServerOK
<1> QED BY <1>1, <1>4 DEF Persist

LEMMA PersistInv ==
  ASSUME IInv, NEW t \in Requests, req[t].pc \in Working, Cancels(req[t]),
         NEW s \in SnapshotRecord, s.run # NoRun, s.run <= started,
         NEW q \in RequestRecord, q.pc \in AfterWrite,
         q.op = req[t].op, q.run = req[t].run, q.parent = req[t].parent,
         Persist(t, s, q), QueueOK', UNCHANGED <<active, execMu>>
  PROVE  IInv'
<1>1. /\ current' = s /\ UNCHANGED <<list, runs, started>>
      /\ req' \in [Requests -> RequestRecord]
      /\ \A u \in Requests \ {t} : req'[u] = req[u]
      /\ req'[t].pc = "write" /\ req'[t].snap = s /\ req'[t].next = q.pc
      /\ req'[t].op = q.op /\ req'[t].run = q.run /\ req'[t].parent = q.parent
  BY PersistFacts
<1>2. SessionOK' /\ current'.run # NoRun
  BY <1>1 DEF IInv, SessionOK
<1>3. Holds(req'[t], started)
  BY <1>1 DEF Holds
<1>4. req'[t].pc \in (Working \ {"started"}) \cup {"leaving"}
  BY <1>1 DEF Working
<1> QED BY <1>1, <1>2, <1>3, <1>4, SameRun

\* The tool of an approved call runs.
LEMMA AnswerApprovedInv == ASSUME IInv, NEW t \in Requests, AnswerApproved(t) PROVE IInv'
<1>1. /\ req[t] \in RequestRecord /\ current.run # NoRun /\ req[t].pc \in Working
      /\ Cancels(req[t])
  BY WorkingFacts DEF AnswerApproved, Cancels, Working
<1>2. [[req[t] EXCEPT !.pc = "running"] EXCEPT !.call = NoCall] \in RequestRecord
  <2>1. [req[t] EXCEPT !.pc = "running"] \in RequestRecord
    BY <1>1 DEF RequestRecord, Pcs
  <2> QED BY <2>1 DEF RequestRecord
<1>3. /\ req' \in [Requests -> RequestRecord] /\ \A u \in Requests \ {t} : req'[u] = req[u]
      /\ req'[t].pc = "running" /\ req'[t].op = req[t].op /\ req'[t].run = req[t].run
      /\ req'[t].parent = req[t].parent /\ SameSnap(req[t], req'[t])
  BY <1>1, <1>2 DEF IInv, ServerOK, AnswerApproved, RequestRecord, SameSnap, Holding
<1>4. QueueOK'
  <2> DEFINE c == req[t].call
  <2>1. toolRuns' = [toolRuns EXCEPT ![c] = IF toolRuns[c] < 2 THEN toolRuns[c] + 1
                                            ELSE toolRuns[c]]
    BY DEF AnswerApproved
  <2>2. toolRuns' \in [Calls -> 0..2]
    <3>1. \A x \in 0..2 : (IF x < 2 THEN x + 1 ELSE x) \in 0..2
      OBVIOUS
    <3>2. CASE c \in Calls
      <4>1. toolRuns[c] \in 0..2
        BY <3>2 DEF IInv, QueueOK
      <4> QED BY <2>1, <3>1, <4>1 DEF IInv, QueueOK
    <3>3. CASE c \notin Calls
      <4>1. toolRuns' = toolRuns
        BY <2>1, <3>3 DEF IInv, QueueOK
      <4> QED BY <4>1 DEF IInv, QueueOK
    <3> QED BY <3>2, <3>3
  <2> QED BY <2>2 DEF IInv, QueueOK, AnswerApproved
<1>5. SessionOK' /\ started' = started /\ current' = current
  BY DEF IInv, SessionOK, AnswerApproved, session
<1> QED BY <1>1, <1>3, <1>4, <1>5, SameRun DEF AnswerApproved, Working

\* The run of a denied call ends.
LEMMA AnswerDeniedInv == ASSUME IInv, NEW t \in Requests, AnswerDenied(t) PROVE IInv'
<1> DEFINE s == Snapshot(t, "denied", NoCall, NoRun)
           q == [req[t] EXCEPT !.pc = "persisted", !.out = "denied"]
<1>1. req[t] \in RequestRecord /\ req[t].pc \in Working /\ Cancels(req[t])
  BY WorkingFacts DEF AnswerDenied, Cancels, Working
<1>2. /\ q \in RequestRecord /\ q.pc = "persisted" /\ q.op = req[t].op
      /\ q.run = req[t].run /\ q.parent = req[t].parent
  <2> DEFINE q1 == [req[t] EXCEPT !.pc = "persisted"]
  <2>1. /\ q1 \in RequestRecord /\ q1.pc = "persisted" /\ q1.op = req[t].op
        /\ q1.run = req[t].run /\ q1.parent = req[t].parent
    BY <1>1 DEF RequestRecord, Pcs
  <2>2. q = [q1 EXCEPT !.out = "denied"]
    OBVIOUS
  <2> HIDE DEF q1, q
  <2> QED BY <2>1, <2>2 DEF RequestRecord, Statuses, Terminal
<1>3. s \in SnapshotRecord /\ s.run # NoRun /\ s.run <= started
  BY <1>1, SnapshotType DEF Statuses, Terminal
<1>4. Persist(t, s, q) /\ UNCHANGED <<active, execMu>>
  BY DEF AnswerDenied
<1>5. QueueOK'
  BY DEF IInv, QueueOK, AnswerDenied
<1> HIDE DEF s, q
<1> QED BY <1>1, <1>2, <1>3, <1>4, <1>5, PersistInv DEF AfterWrite

\* The last or the pausing stage is persisted.
LEMMA FinishInv == ASSUME IInv, NEW t \in Requests, Finish(t) PROVE IInv'
<1>1. PICK o \in Outcomes :
        Persist(t, Snapshot(t, o, NoCall, NoRun),
                [req[t] EXCEPT !.pc = "persisted", !.out = o])
  BY DEF Finish
<1> DEFINE s == Snapshot(t, o, NoCall, NoRun)
           q == [req[t] EXCEPT !.pc = "persisted", !.out = o]
<1>2. req[t] \in RequestRecord /\ req[t].pc \in Working /\ Cancels(req[t])
  BY WorkingFacts DEF Finish, Cancels, Working
<1>3. o \in Statuses
  BY StatusTypes
<1>4. /\ q \in RequestRecord /\ q.pc = "persisted" /\ q.op = req[t].op
      /\ q.run = req[t].run /\ q.parent = req[t].parent
  <2> DEFINE q1 == [req[t] EXCEPT !.pc = "persisted"]
  <2>1. /\ q1 \in RequestRecord /\ q1.pc = "persisted" /\ q1.op = req[t].op
        /\ q1.run = req[t].run /\ q1.parent = req[t].parent
    BY <1>2 DEF RequestRecord, Pcs
  <2>2. q = [q1 EXCEPT !.out = o]
    OBVIOUS
  <2> HIDE DEF q1, q
  <2> QED BY <1>3, <2>1, <2>2 DEF RequestRecord
<1>5. s \in SnapshotRecord /\ s.run # NoRun /\ s.run <= started
  BY <1>2, <1>3, SnapshotType
<1>6. QueueOK' /\ UNCHANGED <<active, execMu>>
  BY DEF IInv, QueueOK, Finish, queue
<1>7. Persist(t, s, q)
  BY <1>1
<1> HIDE DEF s, q
<1> QED BY <1>2, <1>4, <1>5, <1>6, <1>7, PersistInv DEF AfterWrite

\* A stage puts a call into the queue.
LEMMA AskToolInv == ASSUME IInv, NEW t \in Requests, AskTool(t) PROVE IInv'
<1>1. /\ req[t] \in RequestRecord /\ req[t].run \in Runs /\ current.run # NoRun
      /\ req[t].pc \in Working /\ Cancels(req[t])
  BY WorkingFacts DEF AskTool, Cancels, Working
<1>2. [req[t] EXCEPT !.pc = "suspended"] \in RequestRecord
  BY <1>1 DEF RequestRecord, Pcs
<1>3. /\ req' \in [Requests -> RequestRecord] /\ \A u \in Requests \ {t} : req'[u] = req[u]
      /\ req'[t].pc = "suspended" /\ req'[t].op = req[t].op /\ req'[t].run = req[t].run
      /\ req'[t].parent = req[t].parent /\ SameSnap(req[t], req'[t])
  BY <1>1, <1>2 DEF IInv, ServerOK, AskTool, RequestRecord, SameSnap, Holding
<1>4. QueueOK'
  BY <1>1 DEF IInv, QueueOK, AskTool
<1>5. SessionOK' /\ started' = started /\ current' = current
  BY DEF IInv, SessionOK, AskTool, session
<1> QED BY <1>1, <1>3, <1>4, <1>5, SameRun DEF AskTool, Working

\* A step that makes an execution hold a snapshot it will set.
LEMMA HoldInv ==
  ASSUME IInv, NEW t \in Requests, req[t].pc \in Working, Cancels(req[t]),
         NEW q \in RequestRecord, q.pc \in {"set", "failSet"}, q.op = req[t].op,
         q.run = req[t].run, q.parent = req[t].parent,
         q.snap.run # NoRun, q.snap.run <= started,
         req' = [req EXCEPT ![t] = q], SessionOK', started' = started,
         current'.run # NoRun, UNCHANGED <<queue, active, execMu, owner, toolRuns>>
  PROVE  IInv'
<1>1. /\ req' \in [Requests -> RequestRecord] /\ \A u \in Requests \ {t} : req'[u] = req[u]
      /\ req'[t] = q
  BY DEF IInv, ServerOK
<1>2. Holds(q, started)
  BY DEF Holds
<1>3. QueueOK'
  BY DEF IInv, QueueOK, queue
<1>4. q.pc \in Working \ {"started"}
  BY DEF Working
<1> QED BY <1>1, <1>2, <1>3, <1>4, SameRun

\* The pause names some call of the queue.
LEMMA FindCallInv == ASSUME IInv, NEW t \in Requests, FindCall(t) PROVE IInv'
<1>1. PICK c \in Calls \cup {NoCall} :
        req' = [req EXCEPT ![t].pc = "set", ![t].out = "awaiting_tool_approval",
                    ![t].snap = Snapshot(t, "awaiting_tool_approval", c, NoRun)]
  BY DEF FindCall, IInv, QueueOK
<1> DEFINE s  == Snapshot(t, "awaiting_tool_approval", c, NoRun)
           q1 == [req[t] EXCEPT !.pc = "set", !.out = "awaiting_tool_approval"]
           q  == [q1 EXCEPT !.snap = s]
<1>2. /\ req[t] \in RequestRecord /\ req[t].pc \in Working /\ Cancels(req[t])
      /\ current.run # NoRun
  BY WorkingFacts DEF FindCall, Cancels, Working
<1>3. s \in SnapshotRecord /\ s.run # NoRun /\ s.run <= started
  BY <1>2, SnapshotType DEF Statuses, Paused
<1>4. /\ q1 \in RequestRecord /\ q1.pc = "set" /\ q1.op = req[t].op
      /\ q1.run = req[t].run /\ q1.parent = req[t].parent
  <2> DEFINE q0 == [req[t] EXCEPT !.pc = "set"]
  <2>1. /\ q0 \in RequestRecord /\ q0.pc = "set" /\ q0.op = req[t].op
        /\ q0.run = req[t].run /\ q0.parent = req[t].parent
    BY <1>2 DEF RequestRecord, Pcs
  <2>2. q1 = [q0 EXCEPT !.out = "awaiting_tool_approval"]
    OBVIOUS
  <2> HIDE DEF q0, q1
  <2> QED BY <2>1, <2>2 DEF RequestRecord, Statuses, Paused
<1>5. req' = [req EXCEPT ![t] = q]
  BY <1>1, <1>2 DEF IInv, ServerOK
<1>6. /\ q \in RequestRecord /\ q.pc = q1.pc /\ q.op = q1.op /\ q.run = q1.run
      /\ q.parent = q1.parent /\ q.snap = s
  <2> HIDE DEF q1, s
  <2> QED BY <1>3, <1>4 DEF RequestRecord
<1> HIDE DEF s, q1, q
<1>7. SessionOK' /\ started' = started /\ current' = current
  BY DEF IInv, SessionOK, FindCall, session
<1>8. UNCHANGED <<queue, active, execMu, owner, toolRuns>>
  BY DEF FindCall
<1> QED BY <1>2, <1>3, <1>4, <1>5, <1>6, <1>7, <1>8, HoldInv

\* The snapshot of the pause is set.
LEMMA SetInv == ASSUME IInv, NEW t \in Requests, Set(t) PROVE IInv'
<1> DEFINE q == [req[t] EXCEPT !.pc = "persisted"]
<1>1. /\ req[t] \in RequestRecord /\ req[t].pc \in Working /\ Cancels(req[t])
      /\ req[t].snap \in SnapshotRecord /\ req[t].snap.run # NoRun
      /\ req[t].snap.run <= started
  BY WorkingFacts DEF Set, Cancels, Working, IInv, PlaceOK, Holds, Holding
<1>2. /\ q \in RequestRecord /\ q.pc = "persisted" /\ q.op = req[t].op
      /\ q.run = req[t].run /\ q.parent = req[t].parent
  BY <1>1 DEF RequestRecord, Pcs
<1>3. Persist(t, req[t].snap, q) /\ UNCHANGED <<active, execMu>> /\ QueueOK'
  BY DEF Set, IInv, QueueOK, queue
<1> HIDE DEF q
<1> QED BY <1>1, <1>2, <1>3, PersistInv DEF AfterWrite

\* A stage runs a nested run inside the request.
LEMMA StartChildInv == ASSUME IInv, NEW t \in Requests, StartChild(t) PROVE IInv'
<1> DEFINE r == started + 1
<1>1. /\ req[t] \in RequestRecord /\ req[t].run \in Runs /\ req[t].run # NoRun
      /\ req[t].run <= started /\ req[t].parent = NoRun /\ started \in Nat
      /\ Cancels(req[t])
  BY WorkingFacts DEF StartChild, Cancels, Working
<1>2. r \in Runs /\ r # NoRun
  BY <1>1, ConstantsAssumption DEF StartChild, Runs, NoRun
<1>3. [[[req[t] EXCEPT !.pc = "started"] EXCEPT !.parent = req[t].run] EXCEPT !.run = r]
        \in RequestRecord
  <2>1. [req[t] EXCEPT !.pc = "started"] \in RequestRecord
    BY <1>1 DEF RequestRecord, Pcs
  <2>2. [[req[t] EXCEPT !.pc = "started"] EXCEPT !.parent = req[t].run] \in RequestRecord
    BY <1>1, <2>1 DEF RequestRecord
  <2> QED BY <1>2, <2>2 DEF RequestRecord
<1>4. /\ req' \in [Requests -> RequestRecord] /\ \A u \in Requests \ {t} : req'[u] = req[u]
      /\ req'[t].pc = "started" /\ req'[t].op = req[t].op /\ req'[t].run = r
      /\ req'[t].parent = req[t].run /\ SameSnap(req[t], req'[t])
  BY <1>1, <1>3 DEF IInv, ServerOK, StartChild, RequestRecord, SameSnap, Holding
<1>5. QueueOK'
  BY DEF IInv, QueueOK, StartChild, queue
<1>6. SessionOK' /\ started' = r /\ current'.run = r
  <2>1. NoRun <= started /\ started < MaxStarts
    BY <1>1 DEF StartChild, NoRun
  <2> QED BY <2>1, StartRunOK DEF StartChild, IInv
<1>7. Top(t)' = Top(t)
  BY <1>1, <1>4 DEF Top
<1>8. req[t].run <= started' /\ started <= started' /\ r <= started'
  BY <1>1, <1>6, ConstantsAssumption DEF Runs
<1>9. Holds(req'[t], started')
  BY <1>4, <1>6, SnapHolds
<1> QED BY <1>1, <1>2, <1>4, <1>5, <1>6, <1>7, <1>8, <1>9, WorkStep DEF StartChild, Working

\* What happens to a nested run that ends: the request goes on with the parent.
LEMMA ReturnToParent ==
  ASSUME IInv, NEW t \in Requests, req[t].pc \in Working, Cancels(req[t]),
         req[t].parent # NoRun,
         SessionOK', QueueOK', started' = started, current'.run # NoRun,
         UNCHANGED <<active, execMu>>,
         req' \in [Requests -> RequestRecord],
         \A u \in Requests \ {t} : req'[u] = req[u],
         req'[t].pc \in Working \ {"started"}, req'[t].op = req[t].op,
         req'[t].run = req[t].parent, req'[t].parent = NoRun,
         SameSnap(req[t], req'[t])
  PROVE  IInv'
<1>1. req[t].parent <= started /\ started \in Nat
  BY WorkingFacts
<1>2. Top(t)' = Top(t)
  BY DEF Top
<1>3. Holds(req'[t], started')
  BY SnapHolds
<1> QED BY <1>1, <1>2, <1>3, WorkStep DEF NoRun

\* The run fails, or is cancelled because its context is.
LEMMA FailInv == ASSUME IInv, NEW t \in Requests, Fail(t) PROVE IInv'
<1> DEFINE r == req[t].run
<1>1. /\ req[t] \in RequestRecord /\ r \in Runs /\ r # NoRun /\ r <= started
      /\ current.run # NoRun /\ req[t].pc \in Working /\ Cancels(req[t])
  BY WorkingFacts DEF Fail, Cancels, Working
<1>2. UNCHANGED <<queue, active, execMu, owner, toolRuns>> /\ QueueOK'
  BY DEF IInv, QueueOK, Fail, queue
<1>3. CASE /\ r \in Visible /\ CancelRun(r)
           /\ req' = [req EXCEPT ![t].pc = "failSet", ![t].snap = Cancelled(r)]
  <2> DEFINE q1 == [req[t] EXCEPT !.pc = "failSet"]
             q  == [q1 EXCEPT !.snap = Cancelled(r)]
  <2>1. Cancelled(r) \in SnapshotRecord /\ Cancelled(r).run = r
    BY <1>1, CancelledType DEF IInv
  <2>2. /\ q1 \in RequestRecord /\ q1.pc = "failSet" /\ q1.op = req[t].op
        /\ q1.run = r /\ q1.parent = req[t].parent
    BY <1>1 DEF RequestRecord, Pcs
  <2>3. /\ q \in RequestRecord /\ q.pc = q1.pc /\ q.op = q1.op /\ q.run = q1.run
        /\ q.parent = q1.parent /\ q.snap = Cancelled(r)
    <3> HIDE DEF q1
    <3> QED BY <2>1, <2>2 DEF RequestRecord
  <2>4. req' = [req EXCEPT ![t] = q]
    BY <1>3 DEF IInv, ServerOK
  <2>5. SessionOK' /\ started' = started /\ current'.run # NoRun
    BY <1>1, <1>3, CancelRunOK DEF IInv
  <2> HIDE DEF q1, q, r
  <2> QED BY <1>1, <1>2, <2>1, <2>2, <2>3, <2>4, <2>5, HoldInv DEF r
<1>4. CASE req' = [req EXCEPT ![t].pc = "failed"] /\ UNCHANGED session
  <2>1. /\ req' \in [Requests -> RequestRecord] /\ \A u \in Requests \ {t} : req'[u] = req[u]
        /\ req'[t] = [req[t] EXCEPT !.pc = "failed"]
    <3>1. [req[t] EXCEPT !.pc = "failed"] \in RequestRecord
      BY <1>1 DEF RequestRecord, Pcs
    <3> QED BY <1>4, <3>1 DEF IInv, ServerOK
  <2>2. /\ req'[t].pc = "failed" /\ req'[t].op = req[t].op /\ req'[t].run = req[t].run
        /\ req'[t].parent = req[t].parent /\ SameSnap(req[t], req'[t])
    BY <1>1, <2>1 DEF RequestRecord, SameSnap, Holding
  <2>3. SessionOK' /\ started' = started /\ current' = current
    BY <1>4 DEF IInv, SessionOK, session
  <2> QED BY <1>1, <1>2, <2>1, <2>2, <2>3, SameRun DEF Working
<1>5. CASE Persist(t, Snapshot(t, "failed", NoCall, NoRun), [req[t] EXCEPT !.pc = "failed"])
  <2> DEFINE s == Snapshot(t, "failed", NoCall, NoRun)
             q == [req[t] EXCEPT !.pc = "failed"]
  <2>1. s \in SnapshotRecord /\ s.run # NoRun /\ s.run <= started
    BY <1>1, SnapshotType DEF Statuses, Terminal
  <2>2. /\ q \in RequestRecord /\ q.pc = "failed" /\ q.op = req[t].op
        /\ q.run = req[t].run /\ q.parent = req[t].parent
    BY <1>1 DEF RequestRecord, Pcs
  <2>3. Persist(t, s, q)
    BY <1>5
  <2> HIDE DEF s, q
  <2> QED BY <1>1, <1>2, <2>1, <2>2, <2>3, PersistInv DEF AfterWrite
<1> QED BY <1>3, <1>4, <1>5 DEF Fail

\* The error goes to the parent or to the handler.
LEMMA ReturnInv == ASSUME IInv, NEW t \in Requests, Return(t) PROVE IInv'
<1>1. /\ req[t] \in RequestRecord /\ current.run # NoRun
      /\ req[t].parent \in Runs \cup {NoRun} /\ req[t].pc \in Working /\ Cancels(req[t])
  BY WorkingFacts DEF Return, Cancels, Working
<1>2. SessionOK' /\ started' = started /\ current' = current /\ QueueOK'
  BY DEF IInv, SessionOK, QueueOK, Return, session, queue
<1>3. CASE req[t].parent = NoRun
  <2>1. /\ req' \in [Requests -> RequestRecord] /\ \A u \in Requests \ {t} : req'[u] = req[u]
        /\ req'[t] = [req[t] EXCEPT !.pc = "leaving"]
    <3>1. [req[t] EXCEPT !.pc = "leaving"] \in RequestRecord
      BY <1>1 DEF RequestRecord, Pcs
    <3> QED BY <1>3, <3>1 DEF Return, IInv, ServerOK
  <2>2. /\ req'[t].pc = "leaving" /\ req'[t].op = req[t].op /\ req'[t].run = req[t].run
        /\ req'[t].parent = req[t].parent /\ SameSnap(req[t], req'[t])
    BY <1>1, <2>1 DEF RequestRecord, SameSnap, Holding
  <2> QED BY <1>1, <1>2, <2>1, <2>2, SameRun DEF Return
<1>4. CASE req[t].parent # NoRun
  <2> DEFINE q1 == [req[t] EXCEPT !.pc = "running"]
             q2 == [q1 EXCEPT !.run = req[t].parent]
             q  == [q2 EXCEPT !.parent = NoRun]
  <2>1. /\ q1 \in RequestRecord /\ q1.pc = "running" /\ q1.op = req[t].op
        /\ q1.snap = req[t].snap
    BY <1>1 DEF RequestRecord, Pcs
  <2>2. /\ q \in RequestRecord /\ q.pc = q1.pc /\ q.op = q1.op /\ q.run = req[t].parent
        /\ q.parent = NoRun /\ q.snap = q1.snap
    <3> HIDE DEF q1
    <3>1. /\ q2 \in RequestRecord /\ q2.pc = q1.pc /\ q2.op = q1.op
          /\ q2.run = req[t].parent /\ q2.snap = q1.snap
      BY <1>1, <2>1 DEF RequestRecord
    <3> HIDE DEF q2
    <3> QED BY <3>1 DEF RequestRecord
  <2>3. req' = [req EXCEPT ![t] = q]
    BY <1>1, <1>4 DEF Return, IInv, ServerOK
  <2> HIDE DEF q1, q
  <2>4. /\ req' \in [Requests -> RequestRecord] /\ \A u \in Requests \ {t} : req'[u] = req[u]
        /\ req'[t] = q
    BY <2>2, <2>3 DEF IInv, ServerOK
  <2>5. SameSnap(req[t], req'[t]) /\ req'[t].pc \in Working \ {"started"}
    BY <2>1, <2>2, <2>4 DEF SameSnap, Holding, Working
  <2> QED BY <1>1, <1>2, <1>4, <2>1, <2>2, <2>4, <2>5, ReturnToParent DEF Return
<1> QED BY <1>3, <1>4

\* The outcome is recorded in the run.
LEMMA RecordInv == ASSUME IInv, NEW t \in Requests, Record(t) PROVE IInv'
<1>1. /\ req[t] \in RequestRecord /\ req[t].run \in Runs /\ current.run # NoRun
      /\ req[t].pc \in Working /\ Cancels(req[t])
  BY WorkingFacts DEF Record, Cancels, Working
<1>2. [[req[t] EXCEPT !.pc = "leaving"] EXCEPT !.out = "none"] \in RequestRecord
  <2>1. [req[t] EXCEPT !.pc = "leaving"] \in RequestRecord
    BY <1>1 DEF RequestRecord, Pcs
  <2> QED BY <2>1 DEF RequestRecord
<1>3. /\ req' \in [Requests -> RequestRecord] /\ \A u \in Requests \ {t} : req'[u] = req[u]
      /\ req'[t].pc = "leaving" /\ req'[t].op = req[t].op /\ req'[t].run = req[t].run
      /\ req'[t].parent = req[t].parent /\ SameSnap(req[t], req'[t])
  BY <1>1, <1>2 DEF IInv, ServerOK, Record, RequestRecord, SameSnap, Holding
<1>4. QueueOK'
  BY DEF IInv, QueueOK, Record, queue
<1>5. SessionOK' /\ started' = started /\ current' = current
  BY <1>1, CompleteRunOK DEF Record, IInv, RequestRecord
<1> QED BY <1>1, <1>3, <1>4, <1>5, SameRun DEF Record

\* A nested run is recorded; the parent goes on or waits for it.
LEMMA RecordChildInv == ASSUME IInv, NEW t \in Requests, RecordChild(t) PROVE IInv'
<1> DEFINE waits == req[t].out \in Suspends
           child == IF waits THEN req[t].run ELSE NoRun
           pc    == IF waits THEN "waits" ELSE "running"
<1>1. /\ req[t] \in RequestRecord /\ req[t].run \in Runs /\ current.run # NoRun
      /\ req[t].parent \in Runs \cup {NoRun} /\ req[t].pc \in Working /\ Cancels(req[t])
  BY WorkingFacts DEF RecordChild, Cancels, Working
<1>2. child \in Runs \cup {NoRun} /\ pc \in {"waits", "running"}
  BY <1>1
<1> HIDE DEF child, pc
<1> DEFINE q1 == [req[t] EXCEPT !.run = req[t].parent]
           q2 == [q1 EXCEPT !.parent = NoRun]
           q3 == [q2 EXCEPT !.out = "none"]
           q4 == [q3 EXCEPT !.child = child]
           q5 == [q4 EXCEPT !.pc = pc]
<1>3. q5 \in RequestRecord
  <2>1. q1 \in RequestRecord
    BY <1>1 DEF RequestRecord
  <2> HIDE DEF q1
  <2>2. q2 \in RequestRecord
    BY <2>1 DEF RequestRecord
  <2> HIDE DEF q2
  <2>3. q3 \in RequestRecord
    BY <2>2 DEF RequestRecord
  <2> HIDE DEF q3
  <2>4. q4 \in RequestRecord
    BY <1>2, <2>3 DEF RequestRecord
  <2> HIDE DEF q4
  <2> QED BY <1>2, <2>4 DEF RequestRecord, Pcs
<1>4. req' = [req EXCEPT ![t] = q5]
  BY <1>1 DEF RecordChild, child, pc, IInv, ServerOK
<1>5. /\ q5.pc = pc /\ q5.op = req[t].op /\ q5.run = req[t].parent /\ q5.parent = NoRun
      /\ SameSnap(req[t], q5)
  BY <1>1, <1>2 DEF RequestRecord, SameSnap, Holding
<1> HIDE DEF q5
<1>6. /\ req' \in [Requests -> RequestRecord] /\ \A u \in Requests \ {t} : req'[u] = req[u]
      /\ req'[t] = q5
  BY <1>3, <1>4 DEF IInv, ServerOK
<1>7. QueueOK'
  BY DEF IInv, QueueOK, RecordChild, queue
<1>8. SessionOK' /\ started' = started /\ current' = current
  BY <1>1, CompleteRunOK DEF RecordChild, IInv, RequestRecord
<1>9. SameSnap(req[t], req'[t]) /\ req'[t].pc \in Working \ {"started"}
  BY <1>2, <1>5, <1>6 DEF Working
<1>10. UNCHANGED <<active, execMu>> /\ req[t].parent # NoRun
  BY DEF RecordChild
<1> QED BY <1>1, <1>5, <1>6, <1>7, <1>8, <1>9, <1>10, ReturnToParent

\* The parent's pause is persisted before its child is named.
LEMMA WaitForChildInv == ASSUME IInv, NEW t \in Requests, WaitForChild(t) PROVE IInv'
<1> DEFINE s == Snapshot(t, "awaiting_sub_workflow", NoCall, NoRun)
           q == [req[t] EXCEPT !.pc = "naming"]
<1>1. req[t] \in RequestRecord /\ req[t].pc \in Working /\ Cancels(req[t])
  BY WorkingFacts DEF WaitForChild, Cancels, Working
<1>2. /\ q \in RequestRecord /\ q.pc = "naming" /\ q.op = req[t].op
      /\ q.run = req[t].run /\ q.parent = req[t].parent
  BY <1>1 DEF RequestRecord, Pcs
<1>3. s \in SnapshotRecord /\ s.run # NoRun /\ s.run <= started
  BY <1>1, SnapshotType DEF Statuses, Paused
<1>4. Persist(t, s, q) /\ UNCHANGED <<active, execMu>> /\ QueueOK'
  BY DEF WaitForChild, IInv, QueueOK, queue
<1> HIDE DEF s, q
<1> QED BY <1>1, <1>2, <1>3, <1>4, PersistInv DEF AfterWrite

\* The child is named in whatever the snapshot is.
LEMMA NameChildInv == ASSUME IInv, NEW t \in Requests, NameChild(t) PROVE IInv'
<1> DEFINE s  == [current EXCEPT !.child = req[t].child]
           q1 == [req[t] EXCEPT !.pc = "set"]
           q2 == [q1 EXCEPT !.child = NoRun]
           q3 == [q2 EXCEPT !.out = "awaiting_sub_workflow"]
           q  == [q3 EXCEPT !.snap = s]
<1>1. /\ req[t] \in RequestRecord /\ req[t].pc \in Working /\ Cancels(req[t])
      /\ current.run # NoRun /\ current.run <= started
  BY WorkingFacts DEF NameChild, Cancels, Working, IInv, SessionOK
<1>2. s \in SnapshotRecord /\ s.run = current.run
  BY <1>1 DEF IInv, SessionOK, SnapshotRecord, RequestRecord
<1>3. req' = [req EXCEPT ![t] = q]
  BY DEF NameChild, IInv, ServerOK
<1> HIDE DEF s
<1>4. /\ q \in RequestRecord /\ q.pc = "set" /\ q.op = req[t].op
      /\ q.run = req[t].run /\ q.parent = req[t].parent /\ q.snap = s
  <2>1. /\ q1 \in RequestRecord /\ q1.pc = "set" /\ q1.op = req[t].op
        /\ q1.run = req[t].run /\ q1.parent = req[t].parent
    BY <1>1 DEF RequestRecord, Pcs
  <2> HIDE DEF q1
  <2>2. /\ q2 \in RequestRecord /\ q2.pc = q1.pc /\ q2.op = q1.op /\ q2.run = q1.run
        /\ q2.parent = q1.parent
    BY <2>1 DEF RequestRecord
  <2> HIDE DEF q2
  <2>3. /\ q3 \in RequestRecord /\ q3.pc = q2.pc /\ q3.op = q2.op /\ q3.run = q2.run
        /\ q3.parent = q2.parent
    BY <2>2 DEF RequestRecord, Statuses, Paused
  <2> HIDE DEF q3
  <2> QED BY <1>2, <2>1, <2>2, <2>3 DEF RequestRecord
<1> HIDE DEF q
<1>5. SessionOK' /\ started' = started /\ current' = current
  BY DEF IInv, SessionOK, NameChild, session
<1>6. UNCHANGED <<queue, active, execMu, owner, toolRuns>>
  BY DEF NameChild
<1> QED BY <1>1, <1>2, <1>3, <1>4, <1>5, <1>6, HoldInv

------------------------------------------------------------------------------
(* Steps that touch other requests: a cancel marks its target, and whoever *)
(* returns takes its cancel function along.                                *)

\* What the invariant says of a request does not depend on the rest of it.
Alike(p, q) ==
    /\ p.pc = q.pc /\ p.op = q.op /\ p.run = q.run /\ p.parent = q.parent
    /\ p.snap = q.snap /\ p.next = q.next

\* The request ends; the others keep their place.
LEMMA EndStep ==
  ASSUME IInv, NEW t \in Requests, req'[t] = IdleRequest,
         SessionOK', QueueOK', ServerOK', Unused', started' = started,
         \A u \in Requests \ {t} : Alike(req[u], req'[u]),
         \A u \in Requests \ {t} :
            req[u].pc \in InLock /\ req[u].op \notin Legacy => execMu' = execMu,
         \A r \in Runs, u \in Requests \ {t} :
            (req[u].op \notin Legacy /\ Cancels(req[u])) /\ active[r] = u => active'[r] = u
  PROVE  IInv'
<1>1. ASSUME NEW u \in Requests PROVE PlaceOK(req[u])'
  <2>1. CASE u = t
    BY <2>1, IdleHolds, ConstantsAssumption
      DEF IInv, SessionOK, PlaceOK, IdleRequest, NoRun, Working
  <2>2. CASE u # t
    BY <2>2 DEF IInv, PlaceOK, Alike, Holds
  <2> QED BY <2>1, <2>2
<1>2. LockHeld'
  BY DEF IInv, LockHeld, Alike, IdleRequest, InLock, Working
<1>3. Registered'
  <2> SUFFICES ASSUME NEW u \in Requests, u # t,
                      Cancels(req[u]) /\ req[u].op \notin Legacy
               PROVE  active'[Top(u)] = u
    BY DEF Registered, Cancels, Top, Alike, IdleRequest, Working
  <2>1. active[Top(u)] = u
    BY DEF IInv, Registered
  <2>2. Top(u) \in Runs
    <3>1. req[u].pc \in Working \cup {"registered"}
      BY DEF Cancels, Working
    <3> QED BY <3>1, WorkingFacts DEF Top
  <2> QED BY <2>1, <2>2
<1> QED BY <1>1, <1>2, <1>3 DEF IInv

\* The cancel function is called: its request is marked.
LEMMA CancelActiveInv == ASSUME IInv, NEW t \in Requests, CancelActive(t) PROVE IInv'
<1>1. req[t].run \in Runs
  BY DEF IInv, ServerOK, PlaceOK, CancelActive, RequestRecord
<1>2. SessionOK' /\ started' = started /\ current'.run = current.run
  BY <1>1, RequestCancelOK DEF CancelActive, IInv
<1>3. \A u \in Requests : [req[u] EXCEPT !.cancelled = TRUE] \in RequestRecord
  <2>1. ASSUME NEW q \in RequestRecord PROVE [q EXCEPT !.cancelled = TRUE] \in RequestRecord
    BY DEF RequestRecord
  <2> QED BY <2>1 DEF IInv, ServerOK
<1>4. ServerOK' /\ req'[t] = IdleRequest
  BY <1>3, IdleType DEF IInv, ServerOK, CancelActive
<1>5. \A u \in Requests \ {t} : Alike(req[u], req'[u])
  BY DEF IInv, ServerOK, CancelActive, Alike, RequestRecord
<1>6. Unused'
  <2>1. list' = list \/ current.run # NoRun
    BY DEF CancelActive, RequestCancel, session
  <2> QED BY <1>2, <1>4, <1>5, <2>1 DEF IInv, Unused, CancelActive, Alike, IdleRequest, queue
<1>7. QueueOK'
  BY DEF IInv, QueueOK, CancelActive, queue
<1> QED BY <1>2, <1>4, <1>5, <1>6, <1>7, EndStep DEF CancelActive

\* The calls of a paused run are denied.
LEMMA CancelPausedInv == ASSUME IInv, NEW t \in Requests, CancelPaused(t) PROVE IInv'
<1>1. req[t].run # NoRun /\ req[t] \in RequestRecord
  BY DEF IInv, ServerOK, PlaceOK, CancelPaused
<1>2. SessionOK' /\ QueueOK'
  BY DEF IInv, SessionOK, QueueOK, CancelPaused, session, queue
<1>3. current.run # NoRun
  BY <1>1 DEF IInv, Unused
<1>4. CASE req[t].run \in Visible
  <2>1. [req[t] EXCEPT !.pc = "cancelMark"] \in RequestRecord
    BY <1>1 DEF RequestRecord, Pcs
  <2>2. /\ ServerOK' /\ \A u \in Requests \ {t} : req'[u] = req[u]
        /\ req'[t] = [req[t] EXCEPT !.pc = "cancelMark"]
    BY <1>4, <2>1 DEF IInv, ServerOK, CancelPaused
  <2>3. Duties(t)'
    BY <1>1, <2>2 DEF Duties, InLock, Cancels, Working, RequestRecord
  <2>4. PlaceOK(req[t])'
    BY <1>1, <2>2 DEF IInv, PlaceOK, Working, RequestRecord, CancelPaused, session,
      Holds, Holding
  <2>5. Unused' /\ started <= started'
    BY <1>3, ConstantsAssumption DEF IInv, SessionOK, Unused, CancelPaused, session
  <2> QED BY <1>2, <2>2, <2>3, <2>4, <2>5, OwnStep DEF CancelPaused
<1>5. CASE req[t].run \notin Visible
  <2>1. /\ ServerOK' /\ req'[t] = IdleRequest
        /\ \A u \in Requests \ {t} : Alike(req[u], req'[u])
    BY <1>5, IdleType DEF IInv, ServerOK, CancelPaused, Alike
  <2>2. Unused' /\ started' = started
    BY <1>3 DEF IInv, Unused, CancelPaused, session
  <2> QED BY <1>2, <2>1, <2>2, EndStep DEF CancelPaused
<1> QED BY <1>4, <1>5

\* The run is marked as cancelled, whatever has become of it.
LEMMA CancelMarkInv == ASSUME IInv, NEW t \in Requests, CancelMark(t) PROVE IInv'
<1> DEFINE r == req[t].run
<1>1. /\ req[t] \in RequestRecord /\ r \in Runs /\ r # NoRun /\ r <= started
      /\ req[t].parent <= started /\ started \in Nat
  BY ConstantsAssumption
    DEF IInv, SessionOK, ServerOK, PlaceOK, CancelMark, RequestRecord
<1>2. current.run # NoRun
  BY <1>1 DEF IInv, Unused
<1>3. QueueOK' /\ UNCHANGED <<active, execMu>>
  BY DEF IInv, QueueOK, CancelMark, queue
<1>4. CASE r \in Visible
  <2> DEFINE q1 == [req[t] EXCEPT !.pc = "cancelSet"]
             q  == [q1 EXCEPT !.snap = Cancelled(r)]
  <2>1. Cancelled(r) \in SnapshotRecord /\ Cancelled(r).run = r
    BY <1>1, CancelledType DEF IInv
  <2>2. /\ q1 \in RequestRecord /\ q1.pc = "cancelSet" /\ q1.op = req[t].op
        /\ q1.run = r /\ q1.parent = req[t].parent
    BY <1>1 DEF RequestRecord, Pcs
  <2>3. /\ q \in RequestRecord /\ q.pc = q1.pc /\ q.op = q1.op /\ q.run = q1.run
        /\ q.parent = q1.parent /\ q.snap = Cancelled(r)
    <3> HIDE DEF q1
    <3> QED BY <2>1, <2>2 DEF RequestRecord
  <2>4. req' = [req EXCEPT ![t] = q]
    BY <1>4 DEF CancelMark, IInv, ServerOK
  <2>5. SessionOK' /\ started' = started /\ current'.run # NoRun
    BY <1>2, <1>4, CancelRunOK DEF CancelMark, IInv
  <2> HIDE DEF q1, q, r
  <2>6. /\ ServerOK' /\ \A u \in Requests \ {t} : req'[u] = req[u]
        /\ req'[t] = q
    BY <1>3, <2>3, <2>4 DEF IInv, ServerOK
  <2>7. PlaceOK(req[t])'
    BY <1>1, <2>1, <2>2, <2>3, <2>5, <2>6 DEF PlaceOK, Holds, Working, r
  <2>8. Duties(t)'
    BY <2>2, <2>3, <2>6 DEF Duties, InLock, Cancels, Working
  <2>9. Unused' /\ started <= started'
    BY <1>1, <2>5 DEF Unused
  <2> QED BY <1>3, <2>5, <2>6, <2>7, <2>8, <2>9, OwnStep
<1>5. CASE r \notin Visible
  <2>1. /\ ServerOK' /\ req'[t] = IdleRequest
        /\ \A u \in Requests \ {t} : Alike(req[u], req'[u])
    BY <1>3, <1>5, IdleType DEF IInv, ServerOK, CancelMark, Alike
  <2>2. SessionOK' /\ Unused' /\ started' = started
    BY <1>2, <1>5 DEF IInv, SessionOK, Unused, CancelMark, session
  <2> QED BY <1>3, <2>1, <2>2, EndStep
<1> QED BY <1>4, <1>5

\* The cancelled run becomes the session's workflow.
LEMMA SetCancelledInv == ASSUME IInv, NEW t \in Requests, SetCancelled(t) PROVE IInv'
<1>1. /\ req[t] \in RequestRecord /\ req[t].snap \in SnapshotRecord
      /\ req[t].snap.run # NoRun /\ req[t].snap.run <= started
  BY DEF IInv, ServerOK, PlaceOK, Holds, Holding, SetCancelled, RequestRecord
<1>2. SessionOK' /\ started' = started /\ current'.run # NoRun
  BY <1>1 DEF IInv, SessionOK, SetCancelled
<1>3. QueueOK' /\ UNCHANGED <<active, execMu>>
  BY DEF IInv, QueueOK, SetCancelled, queue
<1>4. CASE req[t].pc = "cancelSet"
  <2>1. /\ ServerOK' /\ req'[t] = IdleRequest
        /\ \A u \in Requests \ {t} : Alike(req[u], req'[u])
    BY <1>3, <1>4, IdleType DEF IInv, ServerOK, SetCancelled, Alike
  <2>2. Unused'
    BY <1>2 DEF Unused
  <2> QED BY <1>2, <1>3, <2>1, <2>2, EndStep
<1>5. CASE req[t].pc = "failSet"
  <2> DEFINE q1 == [req[t] EXCEPT !.pc = "failed"]
             q  == [q1 EXCEPT !.snap = NoSnapshot]
  <2>1. NoSnapshot \in SnapshotRecord
    BY DEF NoSnapshot, SnapshotRecord, Stages
  <2>2. /\ q1 \in RequestRecord /\ q1.pc = "failed" /\ q1.op = req[t].op
        /\ q1.run = req[t].run /\ q1.parent = req[t].parent
    BY <1>1 DEF RequestRecord, Pcs
  <2>3. /\ q \in RequestRecord /\ q.pc = q1.pc /\ q.op = q1.op /\ q.run = q1.run
        /\ q.parent = q1.parent /\ q.snap = NoSnapshot
    <3> HIDE DEF q1
    <3> QED BY <2>1, <2>2 DEF RequestRecord
  <2>4. req' = [req EXCEPT ![t] = q]
    BY <1>5 DEF SetCancelled, IInv, ServerOK
  <2> HIDE DEF q1, q
  <2>5. /\ req' \in [Requests -> RequestRecord] /\ \A u \in Requests \ {t} : req'[u] = req[u]
        /\ req'[t] = q
    BY <2>3, <2>4 DEF IInv, ServerOK
  <2>6. Holds(q, started)
    BY <2>2, <2>3, ConstantsAssumption
      DEF Holds, Holding, NoSnapshot, NoRun, IInv, SessionOK
  <2>7. Cancels(req[t]) /\ req[t].pc \in Working
    BY <1>5 DEF Cancels, Working
  <2> QED BY <1>2, <1>3, <2>2, <2>3, <2>5, <2>6, <2>7, SameRun DEF Working
<1> QED BY <1>4, <1>5 DEF SetCancelled

\* The deferred calls of a request that returns. If somebody else has the lock
\* this was a request without it, and it unregisters nobody.
LEMMA LeaveInv == ASSUME IInv, NEW t \in Requests, Leave(t) PROVE IInv'
<1>1. \A u \in Requests : [req[u] EXCEPT !.target = Gone] \in RequestRecord
  BY DEF IInv, ServerOK, RequestRecord
<1>2. ServerOK' /\ req'[t] = IdleRequest
  BY <1>1, IdleType DEF IInv, ServerOK, Leave
<1>3. \A u \in Requests \ {t} : Alike(req[u], req'[u])
  BY DEF IInv, ServerOK, Leave, Alike, RequestRecord
<1>4. SessionOK' /\ QueueOK' /\ started' = started
  BY DEF IInv, SessionOK, QueueOK, Leave, session, queue
<1>5. Unused'
  BY <1>2, <1>3 DEF IInv, Unused, Leave, session, queue, Alike, IdleRequest
<1>6. ASSUME NEW u \in Requests \ {t}, req[u].pc \in InLock, req[u].op \notin Legacy
      PROVE  execMu = u /\ req[t].op \in Legacy
  BY <1>6 DEF IInv, LockHeld, Leave, InLock
<1>7. ASSUME NEW u \in Requests \ {t}, req[u].pc \in InLock, req[u].op \notin Legacy
      PROVE  execMu' = execMu
  BY <1>6, <1>7 DEF Leave
<1>8. ASSUME NEW r \in Runs, NEW u \in Requests \ {t},
             req[u].op \notin Legacy, Cancels(req[u]), active[r] = u
      PROVE  active'[r] = u
  <2>1. req[u].pc \in InLock
    BY <1>8 DEF Cancels, InLock, Working
  <2>2. req[t].op \in Legacy
    BY <1>6, <1>8, <2>1
  <2> QED BY <1>8, <2>2 DEF Leave, Legacy
<1> QED BY <1>2, <1>3, <1>4, <1>5, <1>7, <1>8, EndStep

------------------------------------------------------------------------------
(* The theorems                                                            *)

LEMMA InitInv == Init => IInv
<1> SUFFICES ASSUME Init PROVE IInv
  OBVIOUS
<1> USE ConstantsAssumption
<1>1. NoRecord \in RunRecord /\ NoRecord.attempt <= 0
  BY DEF NoRecord, RunRecord, Stages
<1>2. SessionOK
  BY <1>1 DEF Init, SessionOK, ListOK, RecordsOK, SnapshotRecord, Stages, NoRun, NoSnapshot
<1>3. QueueOK /\ ServerOK
  BY IdleType DEF Init, QueueOK, ServerOK
<1>4. \A t \in Requests : PlaceOK(req[t])
  BY DEF Init, PlaceOK, IdleRequest, NoRun, Working, Holds, Holding, NoSnapshot
<1>5. Unused /\ LockHeld /\ Registered
  BY DEF Init, Unused, LockHeld, Registered, IdleRequest, InLock, Cancels, Working
<1> QED BY <1>2, <1>3, <1>4, <1>5 DEF IInv

LEMMA NextInv == IInv /\ [Next]_vars => IInv'
<1> SUFFICES ASSUME IInv, [Next]_vars PROVE IInv'
  OBVIOUS
<1>1. ASSUME NEW t \in Requests, Step(t) PROVE IInv'
  BY <1>1, StartInv, RegisterStartedInv, RegisterResumedInv, CheckInv, AdmitInv,
    RefuseInv, RereadInv, AnswerApprovedInv, AnswerDeniedInv, FinishInv, FindCallInv,
    SetInv, WriteInv, FailInv, ReturnInv, SetCancelledInv, RecordInv, RecordChildInv, WaitForChildInv, NameChildInv, LeaveInv, LookUpCancelInv,
    CancelActiveInv, CancelPausedInv, CancelMarkInv, ResumeLegacyInv DEF Step
<1>2. ASSUME Next PROVE IInv'
  BY <1>1, <1>2, HandlersInv, LockInv, AskToolInv, StartChildInv DEF Next
<1>3. CASE UNCHANGED vars
  <2>1. SessionOK' /\ QueueOK' /\ ServerOK' /\ Unused' /\ LockHeld' /\ Registered'
    BY <1>3 DEF IInv, vars, session, queue, SessionOK, QueueOK, ServerOK, Unused,
      LockHeld, Registered, Top
  <2>2. \A t \in Requests : PlaceOK(req[t])'
    BY <1>3 DEF IInv, vars, session, PlaceOK
  <2> QED BY <2>1, <2>2 DEF IInv
<1> QED BY <1>2, <1>3

\* The inductive invariant holds in every reachable state, for any requests,
\* bounds, outcomes and operations.
THEOREM Invariance == Spec => []IInv
<1> QED BY InitInv, NextInv, PTL DEF Spec

\* Every variable keeps its type, and the session's list of at most
\* maxWorkflowRuns runs names no run twice.
THEOREM TypeCorrect == Spec => []TypeOK
<1>1. IInv => TypeOK
  BY DEF IInv, SessionOK, ListOK, RecordsOK, QueueOK, ServerOK, TypeOK
<1> QED BY <1>1, Invariance, PTL

\* workflowExecMu keeps executions apart, whether a request waited for it or
\* took it with TryLock.
THEOREM ExecutionsAreExclusive == Spec => []OneExecution
<1>1. IInv => OneExecution
  BY DEF IInv, LockHeld, OneExecution, InLock
<1> QED BY <1>1, Invariance, PTL

\* While a request executes a run, the run's registered cancel function is
\* that of the request: a cancel never misses it.
THEOREM CancelsReachTheRun == Spec => []CancelReaches
<1>1. IInv => CancelReaches
  BY DEF IInv, Registered, CancelReaches, Cancels
<1> QED BY <1>1, Invariance, PTL

------------------------------------------------------------------------------
(* Runs that ended stay ended: what has to hold in addition                *)

Ended == Terminal \ {"blocked"}

\* The statuses that do not bring a run back to life.
Lifeless == Terminal \cup {"cancelling"}

\* The operations that resume a run.
Resumes == {"approve", "tool", "deny", "input", "child", "continue", "escalate", "budget"}

\* No request is on the approval endpoint, and what the others may be about is
\* known where the code depends on it.
KnownOp(q) ==
    /\ q.op \notin Legacy
    /\ q.pc \in {"asked", "locked"} => q.op \in Resumes \cup {"start", "retry"}
    /\ q.pc = "registered" => q.op \in Resumes

\* A run that was not started has no status.
Fresh == \A r \in Runs : r > started => runs[r].status = "none"

\* The requests that are about to write the session's snapshot to its run.
Settling(q) ==
    \/ q.pc \in {"admitted", "naming"}
    \/ q.pc = "write" /\ q.next = "naming"

\* What a request holds, or will read again, is about its own run, or a cancel
\* has written it.
HeldOK(q) ==
    /\ q.pc = "checked" => q.snap.run = q.run
    /\ q.pc \in {"set", "write"} => q.snap.run = q.run \/ q.snap.status \in Lifeless
    /\ q.pc \in {"cancelSet", "failSet"} => q.snap.status = "cancelled"

SettledOK(q) == Settling(q) => current.run = q.run \/ current.status \in Lifeless

EInv ==
    /\ IInv /\ Fresh
    /\ \A t \in Requests : KnownOp(req[t]) /\ HeldOK(req[t]) /\ SettledOK(req[t])

\* An ended run that nobody executes: it stays so (an action).
Rests(r) ==
    /\ runs'[r].status \in Lifeless \cup {NoRecord.status}
    /\ ~(\E t \in Requests : Executes(t, r))'

\* What a step has to show: the invariant, and that ended runs stay ended.
Goal ==
    /\ Fresh'
    /\ \A t \in Requests : KnownOp(req[t])' /\ HeldOK(req[t])' /\ SettledOK(req[t])'
    /\ \A r \in Runs :
          runs[r].status \in Ended /\ ~(\E t \in Requests : Executes(t, r)) => Rests(r)

\* The request works on no run that it did not work on before (an action).
TakesNothing(t) ==
    \/ req'[t].pc \notin Working
    \/ /\ req[t].pc \in Working
       /\ req'[t].run \in {req[t].run, req[t].parent}
       /\ req'[t].parent \in {req[t].parent, NoRun}

LEMMA Taking ==
  ASSUME NEW t \in Requests, TakesNothing(t), NEW r \in Runs, Executes(t, r)'
  PROVE  Executes(t, r)
BY ConstantsAssumption DEF TakesNothing, Executes, Runs, NoRun

------------------------------------------------------------------------------
(* What the operations of the session do to the other runs                 *)

LEMMA PrependKeeps ==
  ASSUME NEW r \in Runs, NEW record, Prepend(r, record)
  PROVE  /\ runs'[r] = record
         /\ \A x \in Runs \ {r} : runs'[x] \in {runs[x], NoRecord}
BY DEF Prepend

LEMMA UpdateRunKeeps ==
  ASSUME SessionOK, NEW s \in SnapshotRecord, s.run # NoRun, UpdateRun(s)
  PROVE  /\ runs'[s.run].status = s.status /\ runs'[s.run].child = s.child
         /\ \A x \in Runs \ {s.run} : runs'[x] \in {runs[x], NoRecord}
<1> DEFINE record == [runs[s.run] EXCEPT !.status = s.status, !.stage = s.stage,
                                         !.call = s.call, !.child = s.child]
<1>1. s.run \in Runs /\ record.status = s.status /\ record.child = s.child
  BY DEF SnapshotRecord, SessionOK, RecordsOK, RunRecord
<1>2. CASE s.run \in Visible
  <2>1. runs' = [runs EXCEPT ![s.run] = record]
    BY <1>2 DEF UpdateRun
  <2> HIDE DEF record
  <2> QED BY <1>1, <2>1 DEF SessionOK, RecordsOK
<1>3. CASE s.run \notin Visible
  <2>1. Prepend(s.run, record)
    BY <1>3 DEF UpdateRun
  <2> HIDE DEF record
  <2> QED BY <1>1, <2>1, PrependKeeps
<1> QED BY <1>2, <1>3

LEMMA CompleteRunKeeps ==
  ASSUME SessionOK, NEW r \in Runs, NEW status, CompleteRun(r, status)
  PROVE  \A x \in Runs \ {r} : runs'[x] = runs[x]
BY DEF CompleteRun, SessionOK, RecordsOK

LEMMA CancelRunKeeps ==
  ASSUME SessionOK, NEW r \in Visible, CancelRun(r)
  PROVE  /\ r \in Runs /\ runs'[r].status = "cancelled"
         /\ \A x \in Runs \ {r} : runs'[x] = runs[x]
         /\ current'.run = current.run
         /\ current' = current \/ current'.status = "cancelled"
         /\ \A x \in Runs : x > started => runs'[x] = runs[x]
<1>1. r \in Runs /\ r <= started /\ started \in Nat
  BY ConstantsAssumption DEF SessionOK, ListOK, Visible, ToSet
<1> DEFINE record == [runs[r] EXCEPT !.status = "cancelled",
                                     !.call = NoCall, !.child = NoRun]
<1>2. record.status = "cancelled" /\ runs' = [runs EXCEPT ![r] = record]
  BY <1>1 DEF CancelRun, SessionOK, RecordsOK, RunRecord
<1>3. /\ current'.run = current.run
      /\ current' = current \/ current'.status = "cancelled"
  BY DEF CancelRun, Cancelled
<1>4. \A x \in Runs : x > started => x # r
  BY <1>1 DEF Runs
<1> HIDE DEF record
<1> QED BY <1>1, <1>2, <1>3, <1>4 DEF SessionOK, RecordsOK

LEMMA RequestCancelKeeps ==
  ASSUME SessionOK, NEW r \in Runs, RequestCancel(r)
  PROVE  /\ \A x \in Runs : runs'[x].status = runs[x].status
                            \/ runs'[x].status = "cancelling"
         /\ \A x \in Runs \ {r} : runs'[x] = runs[x]
         /\ \A x \in Runs : x > started => runs'[x] = runs[x]
         /\ current'.run = current.run
         /\ current' = current \/ current'.status \in Lifeless
<1>1. CASE r \notin Visible
  BY <1>1 DEF RequestCancel, session
<1>2. CASE r \in Visible
  <2>1. r <= started /\ started \in Nat /\ r \in Nat
    BY <1>2, ConstantsAssumption DEF SessionOK, ListOK, Visible, ToSet, Runs
  <2> DEFINE status == IF runs[r].status \in Terminal THEN runs[r].status ELSE "cancelling"
             record == [runs[r] EXCEPT !.status = status]
  <2>2. record.status = status
    BY DEF SessionOK, RecordsOK, RunRecord
  <2>3. runs' = [runs EXCEPT ![r] = record]
    BY <1>2 DEF RequestCancel
  <2>4. \A x \in Runs : x > started => x # r
    BY <2>1 DEF Runs
  <2>5. current' = IF current.run = r THEN [current EXCEPT !.status = status] ELSE current
    BY <1>2 DEF RequestCancel
  <2>6. status \in Lifeless /\ (status = runs[r].status \/ status = "cancelling")
    BY DEF Lifeless
  <2>7. runs'[r].status = status /\ \A x \in Runs \ {r} : runs'[x] = runs[x]
    <3> HIDE DEF record, status
    <3> QED BY <2>2, <2>3 DEF SessionOK, RecordsOK
  <2>8. current'.run = current.run /\ (current' = current \/ current'.status = status)
    <3> HIDE DEF status
    <3> QED BY <2>5 DEF SessionOK, SnapshotRecord
  <2> HIDE DEF status
  <2> QED BY <2>4, <2>6, <2>7, <2>8
<1> QED BY <1>1, <1>2

------------------------------------------------------------------------------
(* The steps                                                               *)

\* The requests that hold a snapshot, or will read the session's again.
Loaded == {"checked", "set", "write", "cancelSet", "failSet", "admitted", "naming"}

\* A step that leaves the session alone and begins nothing.
LEMMA QuietStep ==
  ASSUME EInv, UNCHANGED session,
         \A u \in Requests :
            /\ KnownOp(req'[u]) /\ TakesNothing(u)
            /\ \/ req'[u].pc \notin Loaded
               \/ /\ req'[u].pc = req[u].pc /\ req'[u].run = req[u].run
                  /\ req'[u].snap = req[u].snap /\ req'[u].next = req[u].next
  PROVE  Goal
<1>1. current' = current /\ runs' = runs /\ started' = started
  BY DEF session
<1>2. ASSUME NEW u \in Requests PROVE HeldOK(req[u])' /\ SettledOK(req[u])'
  <2>1. CASE req'[u].pc \notin Loaded
    BY <2>1 DEF HeldOK, SettledOK, Settling, Loaded
  <2>2. CASE req'[u].pc \in Loaded
    BY <1>1, <2>2 DEF EInv, HeldOK, SettledOK, Settling
  <2> QED BY <2>1, <2>2
<1>3. ASSUME NEW r \in Runs, runs[r].status \in Ended, ~(\E t \in Requests : Executes(t, r))
      PROVE  Rests(r)
  BY <1>1, <1>3, Taking DEF Rests, Ended, Lifeless
<1>4. Fresh' /\ \A u \in Requests : KnownOp(req[u])'
  BY <1>1 DEF EInv, Fresh
<1> QED BY <1>2, <1>3, <1>4 DEF Goal

\* A step of the holder of workflowExecMu: nobody else has anything to write.
LEMMA HolderStep ==
  ASSUME EInv, NEW t \in Requests, req[t].pc \in InLock,
         \A u \in Requests \ {t} : req'[u] = req[u],
         KnownOp(req'[t]), HeldOK(req'[t]), SettledOK(req[t])', Fresh',
         \A r \in Runs :
            runs[r].status \in Ended /\ ~Executes(t, r) =>
               /\ runs'[r].status \in Lifeless \cup {NoRecord.status}
               /\ ~Executes(t, r)'
  PROVE  Goal
<1>1. \A u \in Requests \ {t} : req[u].pc \notin InLock
  BY DEF EInv, IInv, LockHeld, KnownOp
<1>2. ASSUME NEW u \in Requests
      PROVE  KnownOp(req[u])' /\ HeldOK(req[u])' /\ SettledOK(req[u])'
  <2>1. CASE u = t
    BY <2>1
  <2>2. CASE u # t
    BY <1>1, <2>2 DEF EInv, SettledOK, Settling, InLock, Working
  <2> QED BY <2>1, <2>2
<1>3. \A u \in Requests \ {t}, r \in Runs : ~Executes(u, r)'
  BY <1>1 DEF Executes, InLock
<1>4. ASSUME NEW r \in Runs, runs[r].status \in Ended, ~(\E u \in Requests : Executes(u, r))
      PROVE  Rests(r)
  BY <1>3, <1>4 DEF Rests
<1> QED BY <1>2, <1>4 DEF Goal

\* What every step starts from.
LEMMA HolderFacts ==
  ASSUME EInv, NEW t \in Requests
  PROVE  /\ IInv /\ SessionOK /\ req \in [Requests -> RequestRecord]
         /\ req[t] \in RequestRecord /\ KnownOp(req[t])
         /\ HeldOK(req[t]) /\ SettledOK(req[t])
         /\ started \in Nat /\ Runs \subseteq Nat /\ PlaceOK(req[t])
         /\ NoRecord.status = "none" /\ Ended \subseteq Lifeless
         /\ \A r \in Runs : runs[r] \in RunRecord
BY ConstantsAssumption
   DEF EInv, IInv, ServerOK, SessionOK, RecordsOK, Runs, NoRecord, Ended, Lifeless

LEMMA HandlersEnds ==
  ASSUME EInv, NEW t \in Requests, Ops[t] \cap Legacy = {}, Handlers(t)
  PROVE  Goal
<1> DEFINE Quiet(q) ==
             /\ KnownOp(q) /\ q.pc \notin Working /\ q.pc \notin Loaded
<1>1. req \in [Requests -> RequestRecord]
  BY HolderFacts
<1>2. SUFFICES UNCHANGED session /\ \E q : req' = [req EXCEPT ![t] = q] /\ Quiet(q)
  <2>1. PICK q : req' = [req EXCEPT ![t] = q] /\ Quiet(q)
    BY <1>2
  <2>2. req'[t] = q /\ \A u \in Requests \ {t} : req'[u] = req[u]
    BY <1>1, <2>1
  <2>3. ASSUME NEW u \in Requests PROVE KnownOp(req'[u]) /\ TakesNothing(u)
    BY <2>1, <2>2, HolderFacts DEF EInv, TakesNothing
  <2>4. \A u \in Requests : req'[u].pc \notin Loaded \/ req'[u] = req[u]
    BY <2>1, <2>2
  <2> QED BY <1>2, <2>3, <2>4, QuietStep
<1>3. ASSUME NEW op \in Resumes \cup {"start", "retry"}, NEW r, Ask(t, op, r)
      PROVE  UNCHANGED session /\ \E q : req' = [req EXCEPT ![t] = q] /\ Quiet(q)
  <2> DEFINE ask  == [IdleRequest EXCEPT !.op = op, !.run = r]
             wait == [ask EXCEPT !.pc = "asked"]
             take == [ask EXCEPT !.pc = "locked", !.background = TRUE]
  <2>1. /\ wait.op = op /\ wait.pc = "asked" /\ take.op = op /\ take.pc = "locked"
    BY DEF IdleRequest
  <2>2. UNCHANGED session /\ (req' = [req EXCEPT ![t] = wait] \/ req' = [req EXCEPT ![t] = take])
    BY <1>3 DEF Ask, Take
  <2>3. op \notin Legacy
    BY DEF Legacy, Resumes
  <2> HIDE DEF wait, take
  <2>4. Quiet(wait) /\ Quiet(take)
    BY <2>1, <2>3 DEF KnownOp, Working, Loaded
  <2> QED BY <2>2, <2>4
<1>4. ASSUME NEW r, AskCancel(t, r)
      PROVE  UNCHANGED session /\ \E q : req' = [req EXCEPT ![t] = q] /\ Quiet(q)
  <2> DEFINE q == [IdleRequest EXCEPT !.pc = "cancel", !.op = "cancel", !.run = r,
                                      !.seen = runs[r].status \in Cancellable]
  <2>1. q.op = "cancel" /\ q.pc = "cancel"
    BY DEF IdleRequest
  <2>2. req' = [req EXCEPT ![t] = q] /\ UNCHANGED session
    BY <1>4 DEF AskCancel
  <2> HIDE DEF q
  <2>3. Quiet(q)
    BY <2>1 DEF KnownOp, Working, Loaded, Legacy
  <2> QED BY <2>2, <2>3
<1>5. ASSUME NEW c, AskLegacy(t, c) PROVE FALSE
  BY <1>5 DEF AskLegacy, Legacy
<1>6. CASE AskStart(t)
  <2>1. Ask(t, "start", NoRun)
    BY <1>6 DEF AskStart
  <2> QED BY <1>3, <2>1
<1>7. ASSUME NEW r \in Visible,
             \/ AskRetry(t, r) \/ AskApproval(t, r) \/ AskToolApproval(t, r)
             \/ AskInput(t, r) \/ AskSubWorkflow(t, r) \/ AskContinue(t, r)
             \/ AskEscalate(t, r) \/ AskBudget(t, r)
      PROVE  \E op \in Resumes \cup {"start", "retry"} : Ask(t, op, r)
  BY <1>7 DEF AskRetry, AskApproval, AskToolApproval, AskInput, AskSubWorkflow,
    AskContinue, AskEscalate, AskBudget, Resumes
<1> QED BY <1>3, <1>4, <1>5, <1>6, <1>7 DEF Handlers

\* Steps that only move requests on, and those of a late cancel before it writes.
LEMMA QuietEnds ==
  ASSUME EInv, NEW t \in Requests,
         \/ Lock(t) \/ RegisterStarted(t) \/ RegisterResumed(t) \/ Refuse(t)
         \/ AnswerApproved(t) \/ AskTool(t) \/ Leave(t) \/ LookUpCancel(t)
         \/ CancelPaused(t) \/ ResumeLegacy(t) \/ Return(t)
  PROVE  Goal
<1>1. UNCHANGED session
  BY DEF Lock, RegisterStarted, RegisterResumed, Refuse, AnswerApproved, AskTool,
    Leave, LookUpCancel, CancelPaused, ResumeLegacy, Return
<1>2. req \in [Requests -> RequestRecord]
  BY HolderFacts
<1>3. ASSUME NEW u \in Requests
      PROVE  /\ KnownOp(req'[u]) /\ TakesNothing(u)
             /\ \/ req'[u].pc \notin Loaded
                \/ /\ req'[u].pc = req[u].pc /\ req'[u].run = req[u].run
                   /\ req'[u].snap = req[u].snap /\ req'[u].next = req[u].next
  <2>1. req[u] \in RequestRecord /\ KnownOp(req[u])
    BY HolderFacts
  <2>2. CASE Lock(t) \/ Refuse(t) \/ AskTool(t) \/ RegisterResumed(t)
    BY <1>2, <2>1, <2>2 DEF Lock, Refuse, AskTool, RegisterResumed, TakesNothing, Working,
      RequestRecord, KnownOp, Resumes, Loaded
  <2>3. CASE RegisterStarted(t) \/ AnswerApproved(t)
    BY <1>2, <2>1, <2>3 DEF RegisterStarted, AnswerApproved, TakesNothing, Working,
      RequestRecord, KnownOp, Resumes, Loaded
  <2>4. CASE LookUpCancel(t) \/ CancelPaused(t)
    BY <1>2, <2>1, <2>4 DEF LookUpCancel, CancelPaused, TakesNothing, Working,
      RequestRecord, KnownOp, Resumes, Loaded, IdleRequest, Legacy
  <2>5. CASE Leave(t)
    <3>1. u # t => req'[u] \in {req[u], [req[u] EXCEPT !.target = Gone]}
      BY <1>2, <2>5 DEF Leave
    <3>2. u = t => req'[u] = IdleRequest
      BY <1>2, <2>5 DEF Leave
    <3>3. CASE u # t
      BY <2>1, <3>1, <3>3 DEF TakesNothing, RequestRecord, KnownOp
    <3>4. CASE u = t
      BY <3>2, <3>4 DEF TakesNothing, IdleRequest, Working, Loaded, KnownOp, Legacy
    <3> QED BY <3>3, <3>4
  <2>6. CASE ResumeLegacy(t)
    BY <1>2, <2>1, <2>6, HolderFacts DEF ResumeLegacy, PlaceOK, KnownOp
  <2>7. CASE Return(t)
    <3>1. CASE u # t
      BY <1>2, <2>1, <2>7, <3>1 DEF Return, TakesNothing
    <3>2. CASE u = t
      BY <1>2, <2>1, <2>7, <3>2 DEF Return, TakesNothing, Working,
        RequestRecord, KnownOp, Resumes, Loaded
    <3> QED BY <3>1, <3>2
  <2> QED BY <2>2, <2>3, <2>4, <2>5, <2>6, <2>7
<1> QED BY <1>1, <1>3, QuietStep

\* A new run takes no other run's place, except that the oldest may go.
LEMMA StartRunEnds ==
  ASSUME EInv, NEW t \in Requests, NEW retryOf, started < MaxStarts,
         StartRun(started + 1, retryOf)
  PROVE  /\ Fresh' /\ started + 1 \in Runs /\ runs[started + 1].status \notin Ended
         /\ \A r \in Runs :
               runs[r].status \in Ended => runs'[r].status \in Lifeless \cup {NoRecord.status}
<1>1. started + 1 \in Runs /\ started \in Nat
  BY HolderFacts, ConstantsAssumption DEF Runs
<1> DEFINE attempt == IF retryOf = NoRun THEN 1
                      ELSE IF retryOf \in Visible THEN runs[retryOf].attempt + 1 ELSE 2
           record  == [NoRecord EXCEPT !.status = "running", !.attempt = attempt]
<1>2. Prepend(started + 1, record) /\ started' = started + 1
  BY DEF StartRun
<1>3. \A x \in Runs \ {started + 1} : runs'[x] \in {runs[x], NoRecord}
  <2> HIDE DEF record
  <2> QED BY <1>1, <1>2, PrependKeeps
<1>4. Fresh'
  BY <1>1, <1>2, <1>3, HolderFacts DEF Fresh, EInv
<1>5. runs[started + 1].status = "none"
  BY <1>1 DEF EInv, Fresh
<1> QED BY <1>1, <1>3, <1>4, <1>5 DEF Ended, Terminal, Lifeless

LEMMA StartEnds == ASSUME EInv, NEW t \in Requests, Start(t) PROVE Goal
<1>1. /\ req[t].pc \in InLock /\ \A u \in Requests \ {t} : req'[u] = req[u]
      /\ KnownOp(req'[t]) /\ req'[t].pc \in {"started", "leaving"}
      /\ req'[t].parent = NoRun
  BY HolderFacts DEF Start, InLock, RequestRecord, KnownOp, PlaceOK
<1>2. HeldOK(req'[t]) /\ SettledOK(req[t])'
  BY <1>1 DEF HeldOK, SettledOK, Settling
<1>3. CASE started < MaxStarts
  <2>1. req'[t].run = started + 1 /\ StartRun(started + 1, req[t].run)
    BY <1>3, HolderFacts DEF Start, RequestRecord
  <2>2. /\ Fresh' /\ started + 1 \in Runs /\ runs[started + 1].status \notin Ended
        /\ \A r \in Runs :
              runs[r].status \in Ended => runs'[r].status \in Lifeless \cup {NoRecord.status}
    BY <1>3, <2>1, StartRunEnds
  <2>3. \A r \in Runs : Executes(t, r)' => r = started + 1
    BY <1>1, <2>1, ConstantsAssumption DEF Executes, Runs, NoRun
  <2>4. \A r \in Runs :
            runs[r].status \in Ended /\ ~Executes(t, r) =>
               /\ runs'[r].status \in Lifeless \cup {NoRecord.status}
               /\ ~Executes(t, r)'
    BY <2>2, <2>3
  <2> QED BY <1>1, <1>2, <2>2, <2>4, HolderStep
<1>4. CASE ~(started < MaxStarts)
  <2>1. UNCHANGED session /\ req'[t].pc = "leaving"
    BY <1>4, HolderFacts DEF Start, RequestRecord
  <2>2. \A r \in Runs : ~Executes(t, r)' /\ runs'[r] = runs[r]
    BY <2>1 DEF Executes, Working, session
  <2>3. Fresh'
    BY <2>1 DEF EInv, Fresh, session
  <2> QED BY <1>1, <1>2, <2>2, <2>3, HolderFacts, HolderStep
<1> QED BY <1>3, <1>4

LEMMA StartChildEnds == ASSUME EInv, NEW t \in Requests, StartChild(t) PROVE Goal
<1>1. /\ req[t].pc \in InLock /\ \A u \in Requests \ {t} : req'[u] = req[u]
      /\ KnownOp(req'[t]) /\ req'[t].pc = "started" /\ req[t].pc \in Working
      /\ req'[t].run = started + 1 /\ req'[t].parent = req[t].run
  BY HolderFacts DEF StartChild, InLock, Working, RequestRecord, KnownOp
<1>2. HeldOK(req'[t]) /\ SettledOK(req[t])'
  BY <1>1 DEF HeldOK, SettledOK, Settling
<1>3. /\ Fresh' /\ started + 1 \in Runs /\ runs[started + 1].status \notin Ended
      /\ \A r \in Runs :
            runs[r].status \in Ended => runs'[r].status \in Lifeless \cup {NoRecord.status}
  BY StartRunEnds DEF StartChild
<1>4. \A r \in Runs : Executes(t, r)' => r = started + 1 \/ Executes(t, r)
  BY <1>1 DEF Executes
<1>5. \A r \in Runs :
          runs[r].status \in Ended /\ ~Executes(t, r) =>
             /\ runs'[r].status \in Lifeless \cup {NoRecord.status}
             /\ ~Executes(t, r)'
  BY <1>3, <1>4
<1> QED BY <1>1, <1>2, <1>3, <1>5, HolderStep

\* A step of an execution that leaves the run list alone.
LEMMA WithinStep ==
  ASSUME EInv, NEW t \in Requests, req[t].pc \in InLock,
         \A u \in Requests \ {t} : req'[u] = req[u],
         KnownOp(req'[t]), HeldOK(req'[t]), SettledOK(req[t])',
         UNCHANGED <<list, runs, started>>, TakesNothing(t)
  PROVE  Goal
<1>1. Fresh'
  BY DEF EInv, Fresh
<1>2. \A r \in Runs :
          runs[r].status \in Ended /\ ~Executes(t, r) =>
             /\ runs'[r].status \in Lifeless \cup {NoRecord.status}
             /\ ~Executes(t, r)'
  BY Taking, HolderFacts
<1> QED BY <1>1, <1>2, HolderStep

\* The run a resume is admitted to has not ended.
LEMMA CheckEnds == ASSUME EInv, NEW t \in Requests, Check(t) PROVE Goal
<1>1. /\ req[t].pc \in InLock /\ \A u \in Requests \ {t} : req'[u] = req[u]
      /\ KnownOp(req'[t]) /\ req'[t].pc = "checked" /\ req'[t].run = req[t].run
      /\ req'[t].parent = NoRun /\ req'[t].snap.run = req[t].run
  BY HolderFacts DEF Check, InLock, RequestRecord, KnownOp, PlaceOK
<1>2. runs[req[t].run].status \notin Ended
  <2>1. runs[req[t].run].status \in Awaits(req[t].op) /\ req[t].op \in Resumes
    BY HolderFacts DEF Check, Admissible, KnownOp
  <2> QED BY <2>1 DEF Resumes, Awaits, Ended, Terminal
<1>3. UNCHANGED session
  BY DEF Check
<1>4. HeldOK(req'[t]) /\ SettledOK(req[t])' /\ Fresh'
  BY <1>1, <1>3 DEF HeldOK, SettledOK, Settling, EInv, Fresh, session
<1>5. \A r \in Runs : Executes(t, r)' => r = req[t].run
  BY <1>1, ConstantsAssumption DEF Executes, Runs, NoRun
<1>6. \A r \in Runs :
          runs[r].status \in Ended /\ ~Executes(t, r) =>
             /\ runs'[r].status \in Lifeless \cup {NoRecord.status}
             /\ ~Executes(t, r)'
  BY <1>2, <1>3, <1>5, HolderFacts DEF session
<1> QED BY <1>1, <1>4, <1>6, HolderStep

LEMMA AdmitEnds == ASSUME EInv, NEW t \in Requests, Admit(t) PROVE Goal
<1>1. /\ req[t].pc = "checked" /\ req[t].pc \in InLock
      /\ \A u \in Requests \ {t} : req'[u] = req[u]
      /\ KnownOp(req'[t]) /\ req'[t].pc = "admitted" /\ req'[t].run = req[t].run
      /\ req'[t].parent = req[t].parent
  BY HolderFacts DEF Admit, InLock, Working, RequestRecord, KnownOp
<1>2. current'.run = req[t].run
  BY <1>1, HolderFacts DEF Admit, HeldOK
<1>3. HeldOK(req'[t]) /\ SettledOK(req[t])'
  BY <1>1, <1>2 DEF HeldOK, SettledOK
<1>4. TakesNothing(t) /\ UNCHANGED <<list, runs, started>>
  BY <1>1 DEF TakesNothing, Working, Admit
<1> QED BY <1>1, <1>3, <1>4, WithinStep

\* The snapshot is taken over, whosever it is by then.
LEMMA RereadEnds == ASSUME EInv, NEW t \in Requests, Reread(t) PROVE Goal
<1>1. /\ req[t].pc = "admitted" /\ req[t].pc \in InLock
      /\ \A u \in Requests \ {t} : req'[u] = req[u]
      /\ KnownOp(req'[t]) /\ req'[t].pc = "write" /\ req'[t].run = req[t].run
      /\ req'[t].parent = req[t].parent /\ req'[t].snap = current
      /\ req'[t].next \in {"running", "answer"}
  BY HolderFacts DEF Reread, InLock, Working, RequestRecord, KnownOp
<1>2. current.run = req[t].run \/ current.status \in Lifeless
  BY <1>1, HolderFacts DEF SettledOK, Settling
<1>3. HeldOK(req'[t]) /\ SettledOK(req[t])'
  BY <1>1, <1>2 DEF HeldOK, SettledOK, Settling
<1>4. TakesNothing(t) /\ UNCHANGED <<list, runs, started>>
  BY <1>1 DEF TakesNothing, Working, Reread, session
<1> QED BY <1>1, <1>3, <1>4, WithinStep

\* What is held is written to its run.
LEMMA WriteEnds == ASSUME EInv, NEW t \in Requests, Write(t) PROVE Goal
<1> DEFINE s == req[t].snap
<1>a. IInv
  BY DEF EInv
<1>b. req[t].pc = "write" /\ req[t].pc \in InLock
  BY DEF Write, InLock, Working
<1>1. /\ req[t].pc \in Working
      /\ s \in SnapshotRecord /\ s.run # NoRun /\ s.run <= started
      /\ req[t].next \in AfterWrite
      /\ \A u \in Requests \ {t} : req'[u] = req[u]
      /\ req'[t].pc = req[t].next /\ req'[t].op = req[t].op
      /\ req'[t].run = req[t].run /\ req'[t].parent = req[t].parent
  BY <1>a, WriteFacts
<1>2. UpdateRun(s) /\ UNCHANGED <<started, current>>
  BY DEF Write, UpdateRun
<1>3. s.run = req[t].run \/ s.status \in Lifeless
  BY <1>b, HolderFacts DEF HeldOK
<1> HIDE DEF s
<1>4. /\ runs'[s.run].status = s.status
      /\ \A x \in Runs \ {s.run} : runs'[x] \in {runs[x], NoRecord}
  BY <1>1, <1>2, HolderFacts, UpdateRunKeeps
<1>5. Fresh'
  BY <1>1, <1>2, <1>4, HolderFacts DEF EInv, Fresh, SnapshotRecord
<1>6. KnownOp(req'[t]) /\ HeldOK(req'[t]) /\ SettledOK(req[t])'
  <2>1. KnownOp(req'[t]) /\ HeldOK(req'[t])
    BY <1>1, HolderFacts DEF KnownOp, HeldOK, AfterWrite
  <2>2. Settling(req'[t]) => Settling(req[t])
    BY <1>1, <1>b DEF Settling, AfterWrite
  <2> QED BY <1>1, <1>2, <2>1, <2>2, HolderFacts DEF SettledOK
<1>7. TakesNothing(t)
  BY <1>1 DEF TakesNothing
<1>8. \A r \in Runs :
          runs[r].status \in Ended /\ ~Executes(t, r) =>
             /\ runs'[r].status \in Lifeless \cup {NoRecord.status}
             /\ ~Executes(t, r)'
  <2> SUFFICES ASSUME NEW r \in Runs, runs[r].status \in Ended, ~Executes(t, r)
               PROVE  runs'[r].status \in Lifeless \cup {NoRecord.status}
    BY <1>7, Taking
  <2>1. CASE r = s.run
    <3>1. s.run # req[t].run
      BY <1>1, <2>1 DEF Executes
    <3> QED BY <1>3, <1>4, <2>1, <3>1
  <2>2. CASE r # s.run
    BY <1>4, <2>2, HolderFacts
  <2> QED BY <2>1, <2>2
<1> QED BY <1>1, <1>b, <1>5, <1>6, <1>8, HolderStep

\* A snapshot of the own run, or one that a cancel has written, is set.
LEMMA PersistEnds ==
  ASSUME EInv, NEW t \in Requests, req[t].pc \in Working,
         NEW s \in SnapshotRecord, s.run = req[t].run \/ s.status \in Lifeless,
         NEW q \in RequestRecord, q.pc \in AfterWrite, Persist(t, s, q),
         q.pc = "naming" => s.run = req[t].run,
         q.op = req[t].op, q.run = req[t].run, q.parent = req[t].parent
  PROVE  Goal
<1>1. /\ current' = s /\ UNCHANGED <<list, runs, started>>
      /\ \A u \in Requests \ {t} : req'[u] = req[u]
      /\ req'[t].pc = "write" /\ req'[t].snap = s /\ req'[t].next = q.pc
      /\ req'[t].op = q.op /\ req'[t].run = q.run /\ req'[t].parent = q.parent
  BY PersistFacts, HolderFacts
<1>2. KnownOp(req'[t]) /\ HeldOK(req'[t]) /\ SettledOK(req[t])'
  BY <1>1, HolderFacts DEF KnownOp, HeldOK, SettledOK, Settling
<1>3. TakesNothing(t) /\ req[t].pc \in InLock
  BY <1>1 DEF TakesNothing, Working, InLock
<1> QED BY <1>1, <1>2, <1>3, WithinStep

\* An execution ends.
LEMMA AnswerDeniedEnds == ASSUME EInv, NEW t \in Requests, AnswerDenied(t) PROVE Goal
<1> DEFINE s == Snapshot(t, "denied", NoCall, NoRun)
           q == [req[t] EXCEPT !.pc = "persisted", !.out = "denied"]
<1>2. req[t].pc \in Working /\ "denied" \in Statuses
  BY StatusTypes DEF AnswerDenied, Working, Statuses, Terminal
<1>3. Persist(t, s, q)
  BY DEF AnswerDenied
<1>4. s \in SnapshotRecord /\ s.run = req[t].run
  BY <1>2, SnapshotType, HolderFacts
<1>5. /\ q \in RequestRecord /\ q.pc = "persisted" /\ q.op = req[t].op
      /\ q.run = req[t].run /\ q.parent = req[t].parent
  <2> DEFINE q1 == [req[t] EXCEPT !.pc = "persisted"]
  <2>1. /\ q1 \in RequestRecord /\ q1.pc = "persisted" /\ q1.op = req[t].op
        /\ q1.run = req[t].run /\ q1.parent = req[t].parent
    BY HolderFacts DEF RequestRecord, Pcs
  <2>2. q = [q1 EXCEPT !.out = "denied"]
    OBVIOUS
  <2> HIDE DEF q1, q
  <2> QED BY <1>2, <2>1, <2>2 DEF RequestRecord
<1> HIDE DEF s, q
<1> QED BY <1>2, <1>3, <1>4, <1>5, PersistEnds DEF AfterWrite

LEMMA FinishEnds == ASSUME EInv, NEW t \in Requests, Finish(t) PROVE Goal
<1>1. PICK o \in Outcomes :
         Persist(t, Snapshot(t, o, NoCall, NoRun),
                 [req[t] EXCEPT !.pc = "persisted", !.out = o])
  BY Zenon DEF Finish
<1> DEFINE s == Snapshot(t, o, NoCall, NoRun)
           q == [req[t] EXCEPT !.pc = "persisted", !.out = o]
<1>2. req[t].pc \in Working /\ o \in Statuses
  BY StatusTypes DEF Finish, Working, Statuses, Terminal
<1>3. Persist(t, s, q)
  BY <1>1
<1>4. s \in SnapshotRecord /\ s.run = req[t].run
  BY <1>2, SnapshotType, HolderFacts
<1>5. /\ q \in RequestRecord /\ q.pc = "persisted" /\ q.op = req[t].op
      /\ q.run = req[t].run /\ q.parent = req[t].parent
  <2> DEFINE q1 == [req[t] EXCEPT !.pc = "persisted"]
  <2>1. /\ q1 \in RequestRecord /\ q1.pc = "persisted" /\ q1.op = req[t].op
        /\ q1.run = req[t].run /\ q1.parent = req[t].parent
    BY HolderFacts DEF RequestRecord, Pcs
  <2>2. q = [q1 EXCEPT !.out = o]
    OBVIOUS
  <2> HIDE DEF q1, q
  <2> QED BY <1>2, <2>1, <2>2 DEF RequestRecord
<1> HIDE DEF s, q
<1> QED BY <1>2, <1>3, <1>4, <1>5, PersistEnds DEF AfterWrite

LEMMA SetEnds == ASSUME EInv, NEW t \in Requests, Set(t) PROVE Goal
<1> DEFINE q == [req[t] EXCEPT !.pc = "persisted"]
<1>1. /\ req[t].pc = "set" /\ req[t].pc \in Working /\ req[t].snap \in SnapshotRecord
      /\ req[t].snap.run = req[t].run \/ req[t].snap.status \in Lifeless
  BY HolderFacts DEF Set, Working, RequestRecord, HeldOK
<1>2. /\ q \in RequestRecord /\ q.pc = "persisted" /\ q.op = req[t].op
      /\ q.run = req[t].run /\ q.parent = req[t].parent
  BY HolderFacts DEF RequestRecord, Pcs
<1>3. Persist(t, req[t].snap, q)
  BY DEF Set
<1> HIDE DEF q
<1> QED BY <1>1, <1>2, <1>3, PersistEnds DEF AfterWrite

LEMMA WaitForChildEnds == ASSUME EInv, NEW t \in Requests, WaitForChild(t) PROVE Goal
<1> DEFINE s == Snapshot(t, "awaiting_sub_workflow", NoCall, NoRun)
           q == [req[t] EXCEPT !.pc = "naming"]
<1>1. req[t].pc \in Working
  BY DEF WaitForChild, Working
<1>2. s \in SnapshotRecord /\ s.run = req[t].run
  BY <1>1, SnapshotType, HolderFacts DEF Statuses, Paused
<1>3. /\ q \in RequestRecord /\ q.pc = "naming" /\ q.op = req[t].op
      /\ q.run = req[t].run /\ q.parent = req[t].parent
  BY HolderFacts DEF RequestRecord, Pcs
<1>4. Persist(t, s, q)
  BY DEF WaitForChild
<1> HIDE DEF s, q
<1> QED BY <1>1, <1>2, <1>3, <1>4, PersistEnds DEF AfterWrite

\* A call is found for the pause of the own run; a nested run is named in
\* whatever the session's snapshot is.
LEMMA HoldEnds ==
  ASSUME EInv, NEW t \in Requests, FindCall(t) \/ NameChild(t) PROVE Goal
<1>1. /\ req[t].pc \in Working /\ \A u \in Requests \ {t} : req'[u] = req[u]
      /\ KnownOp(req'[t]) /\ req'[t].pc = "set"
      /\ req'[t].run = req[t].run /\ req'[t].parent = req[t].parent
  <2>1. CASE FindCall(t)
    BY <2>1, HolderFacts DEF FindCall, Working, RequestRecord, KnownOp
  <2>2. CASE NameChild(t)
    BY <2>2, HolderFacts DEF NameChild, Working, RequestRecord, KnownOp
  <2> QED BY <2>1, <2>2
<1>2. req'[t].snap.run = req[t].run \/ req'[t].snap.status \in Lifeless
  <2>1. CASE FindCall(t)
    BY <2>1, HolderFacts DEF FindCall, Snapshot, RequestRecord
  <2>2. CASE NameChild(t)
    <3>1. current.run = req[t].run \/ current.status \in Lifeless
      BY <2>2, HolderFacts DEF NameChild, SettledOK, Settling
    <3>2. /\ req'[t].snap = [current EXCEPT !.child = req[t].child]
          /\ current \in SnapshotRecord
      BY <2>2, HolderFacts DEF NameChild, RequestRecord, SessionOK
    <3> QED BY <3>1, <3>2 DEF SnapshotRecord
  <2> QED BY <2>1, <2>2
<1>3. HeldOK(req'[t]) /\ SettledOK(req[t])'
  BY <1>1, <1>2 DEF HeldOK, SettledOK, Settling
<1>4. TakesNothing(t) /\ req[t].pc \in InLock /\ UNCHANGED <<list, runs, started>>
  BY <1>1 DEF TakesNothing, InLock, FindCall, NameChild, session
<1> QED BY <1>1, <1>3, <1>4, WithinStep

\* The end of an execution, or of a nested one.
LEMMA RecordEnds ==
  ASSUME EInv, NEW t \in Requests, Record(t) \/ RecordChild(t) PROVE Goal
<1>1. /\ req[t].pc \in Working /\ req[t].pc \in InLock
      /\ \A u \in Requests \ {t} : req'[u] = req[u]
      /\ KnownOp(req'[t]) /\ req'[t].pc \notin Loaded /\ TakesNothing(t)
  <2>1. CASE Record(t)
    BY <2>1, HolderFacts DEF Record, InLock, Working, RequestRecord, Loaded, KnownOp,
      TakesNothing
  <2>2. CASE RecordChild(t)
    BY <2>2, HolderFacts DEF RecordChild, InLock, Working, RequestRecord, Loaded, KnownOp,
      TakesNothing
  <2> QED BY <2>1, <2>2
<1>2. CompleteRun(req[t].run, req[t].out) /\ req[t].run \in Runs /\ started' = started
  BY <1>1, HolderFacts DEF Record, RecordChild, CompleteRun, PlaceOK, RequestRecord
<1>3. \A x \in Runs \ {req[t].run} : runs'[x] = runs[x]
  BY <1>2, HolderFacts, CompleteRunKeeps
<1>4. req[t].run <= started
  BY HolderFacts DEF PlaceOK
<1>5. Fresh'
  BY <1>2, <1>3, <1>4, HolderFacts DEF EInv, Fresh
<1>6. HeldOK(req'[t]) /\ SettledOK(req[t])'
  BY <1>1 DEF HeldOK, SettledOK, Settling, Loaded
<1>7. \A r \in Runs :
          runs[r].status \in Ended /\ ~Executes(t, r) =>
             /\ runs'[r].status \in Lifeless \cup {NoRecord.status}
             /\ ~Executes(t, r)'
  BY <1>1, <1>3, Taking, HolderFacts DEF Executes
<1> QED BY <1>1, <1>5, <1>6, <1>7, HolderStep

LEMMA FailEnds == ASSUME EInv, NEW t \in Requests, Fail(t) PROVE Goal
<1>1. req[t].pc \in Working /\ req[t].pc \in InLock
  BY DEF Fail, Working, InLock
<1>2. CASE /\ req[t].run \in Visible /\ CancelRun(req[t].run)
           /\ req' = [req EXCEPT ![t].pc = "failSet", ![t].snap = Cancelled(req[t].run)]
  <2>1. /\ \A u \in Requests \ {t} : req'[u] = req[u]
        /\ KnownOp(req'[t]) /\ req'[t].pc = "failSet" /\ TakesNothing(t)
        /\ req'[t].snap.status = "cancelled"
    BY <1>1, <1>2, HolderFacts
      DEF RequestRecord, KnownOp, TakesNothing, Cancelled
  <2>2. /\ \A x \in Runs \ {req[t].run} : runs'[x] = runs[x]
        /\ \A x \in Runs : x > started => runs'[x] = runs[x]
        /\ started' = started
    <3>1. SessionOK
      BY HolderFacts
    <3>2. started' = started
      BY <1>2 DEF CancelRun
    <3> QED BY <1>2, <3>1, <3>2, CancelRunKeeps
  <2>3. Fresh'
    BY <2>2 DEF EInv, Fresh
  <2>4. HeldOK(req'[t]) /\ SettledOK(req[t])'
    BY <2>1 DEF HeldOK, SettledOK, Settling
  <2>5. \A r \in Runs :
            runs[r].status \in Ended /\ ~Executes(t, r) =>
               /\ runs'[r].status \in Lifeless \cup {NoRecord.status}
               /\ ~Executes(t, r)'
    BY <1>1, <2>1, <2>2, Taking, HolderFacts DEF Executes
  <2> QED BY <1>1, <2>1, <2>3, <2>4, <2>5, HolderStep
<1>3. CASE req' = [req EXCEPT ![t].pc = "failed"] /\ UNCHANGED session
  <2>1. /\ \A u \in Requests \ {t} : req'[u] = req[u]
        /\ KnownOp(req'[t]) /\ req'[t].pc = "failed" /\ TakesNothing(t)
    BY <1>1, <1>3, HolderFacts DEF RequestRecord, KnownOp, TakesNothing
  <2>2. HeldOK(req'[t]) /\ SettledOK(req[t])' /\ UNCHANGED <<list, runs, started>>
    BY <1>3, <2>1 DEF HeldOK, SettledOK, Settling, session
  <2> QED BY <1>1, <2>1, <2>2, WithinStep
<1>4. CASE Persist(t, Snapshot(t, "failed", NoCall, NoRun), [req[t] EXCEPT !.pc = "failed"])
  <2> DEFINE s == Snapshot(t, "failed", NoCall, NoRun)
             q == [req[t] EXCEPT !.pc = "failed"]
  <2>1. s \in SnapshotRecord /\ s.run = req[t].run
    BY <1>1, SnapshotType, HolderFacts DEF Statuses, Terminal
  <2>2. /\ q \in RequestRecord /\ q.pc = "failed" /\ q.op = req[t].op
        /\ q.run = req[t].run /\ q.parent = req[t].parent
    BY HolderFacts DEF RequestRecord, Pcs
  <2>3. Persist(t, s, q)
    BY <1>4
  <2> HIDE DEF s, q
  <2> QED BY <1>1, <2>1, <2>2, <2>3, PersistEnds DEF AfterWrite
<1> QED BY <1>2, <1>3, <1>4 DEF Fail

\* A request that goes on as before, or holds what it has cancelled (an action).
Harmless(u) ==
    /\ KnownOp(req'[u]) /\ TakesNothing(u)
    /\ \/ req'[u].pc \notin Loaded
       \/ req'[u].pc = "cancelSet" /\ req'[u].snap.status = "cancelled"
       \/ /\ req'[u].pc = req[u].pc /\ req'[u].run = req[u].run
          /\ req'[u].snap = req[u].snap /\ req'[u].next = req[u].next

\* What a cancel leaves in the runs and in the snapshot (an action).
LeavesLifeless ==
    /\ Fresh' /\ (current' = current \/ current'.status \in Lifeless)
    /\ \A r \in Runs :
          runs[r].status \in Ended => runs'[r].status \in Lifeless \cup {NoRecord.status}

\* A cancel writes beside the execution.
LEMMA CancelStep ==
  ASSUME EInv, LeavesLifeless, \A u \in Requests : Harmless(u) PROVE Goal
<1>1. ASSUME NEW u \in Requests PROVE HeldOK(req[u])' /\ SettledOK(req[u])'
  <2>1. CASE req'[u].pc \notin Loaded
    BY <2>1 DEF HeldOK, SettledOK, Settling, Loaded
  <2>2. CASE req'[u].pc = "cancelSet" /\ req'[u].snap.status = "cancelled"
    BY <2>2 DEF HeldOK, SettledOK, Settling
  <2>3. CASE /\ req'[u].pc = req[u].pc /\ req'[u].run = req[u].run
             /\ req'[u].snap = req[u].snap /\ req'[u].next = req[u].next
    BY <2>3 DEF EInv, HeldOK, SettledOK, Settling, LeavesLifeless
  <2> QED BY <2>1, <2>2, <2>3 DEF Harmless
<1>2. ASSUME NEW r \in Runs, runs[r].status \in Ended, ~(\E t \in Requests : Executes(t, r))
      PROVE  Rests(r)
  BY <1>2, Taking DEF Rests, LeavesLifeless, Harmless
<1> QED BY <1>1, <1>2 DEF Goal, LeavesLifeless, Harmless

LEMMA CancelActiveEnds == ASSUME EInv, NEW t \in Requests, CancelActive(t) PROVE Goal
<1>1. req[t].run \in Runs /\ RequestCancel(req[t].run) /\ started' = started
  BY HolderFacts DEF CancelActive, PlaceOK, RequestRecord, RequestCancel, session
<1>2. LeavesLifeless
  BY <1>1, HolderFacts, RequestCancelKeeps DEF EInv, Fresh, Lifeless, LeavesLifeless
<1>3. ASSUME NEW u \in Requests PROVE Harmless(u)
  <2>1. CASE u = t
    <3>1. req'[u] = IdleRequest
      BY <2>1, HolderFacts DEF CancelActive
    <3> QED BY <3>1 DEF IdleRequest, KnownOp, Legacy, TakesNothing, Working, Loaded, Harmless
  <2>2. CASE u # t
    <3>1. req'[u] \in {req[u], [req[u] EXCEPT !.cancelled = TRUE]}
      BY <2>2, HolderFacts DEF CancelActive
    <3>2. req[u] \in RequestRecord /\ KnownOp(req[u])
      BY HolderFacts
    <3> QED BY <3>1, <3>2 DEF RequestRecord, KnownOp, TakesNothing, Harmless
  <2> QED BY <2>1, <2>2
<1> QED BY <1>2, <1>3, CancelStep

LEMMA CancelMarkEnds == ASSUME EInv, NEW t \in Requests, CancelMark(t) PROVE Goal
<1> DEFINE r == req[t].run
<1>1. CASE r \in Visible
  <2>1. CancelRun(r) /\ started' = started
    BY <1>1 DEF CancelMark, CancelRun
  <2>2. LeavesLifeless
    <3>1. /\ r \in Runs /\ runs'[r].status = "cancelled"
          /\ \A x \in Runs \ {r} : runs'[x] = runs[x]
          /\ current' = current \/ current'.status = "cancelled"
          /\ \A x \in Runs : x > started => runs'[x] = runs[x]
      BY <1>1, <2>1, HolderFacts, CancelRunKeeps
    <3> HIDE DEF r
    <3> QED BY <2>1, <3>1, HolderFacts DEF EInv, Fresh, Lifeless, Terminal, LeavesLifeless
  <2>3. /\ \A u \in Requests \ {t} : req'[u] = req[u]
        /\ KnownOp(req'[t]) /\ TakesNothing(t)
        /\ req'[t].pc = "cancelSet" /\ req'[t].snap.status = "cancelled"
    BY <1>1, HolderFacts DEF CancelMark, RequestRecord, KnownOp, TakesNothing, Working, Cancelled
  <2>4. ASSUME NEW u \in Requests PROVE Harmless(u)
    <3>1. CASE u = t
      BY <2>3, <3>1 DEF Harmless
    <3>2. CASE u # t
      BY <2>3, <3>2, HolderFacts DEF TakesNothing, Harmless
    <3> QED BY <3>1, <3>2
  <2> QED BY <2>2, <2>4, CancelStep
<1>2. CASE r \notin Visible
  <2>1. /\ UNCHANGED session /\ req'[t] = IdleRequest
        /\ \A u \in Requests \ {t} : req'[u] = req[u]
    BY <1>2, HolderFacts DEF CancelMark
  <2>2. ASSUME NEW u \in Requests
        PROVE  /\ KnownOp(req'[u]) /\ TakesNothing(u)
               /\ req'[u].pc \notin Loaded \/ req'[u] = req[u]
    <3>1. CASE u = t
      BY <2>1, <3>1 DEF IdleRequest, KnownOp, Legacy, TakesNothing, Working, Loaded
    <3>2. CASE u # t
      BY <2>1, <3>2, HolderFacts DEF TakesNothing
    <3> QED BY <3>1, <3>2
  <2> QED BY <2>1, <2>2, QuietStep
<1> QED BY <1>1, <1>2

LEMMA SetCancelledEnds == ASSUME EInv, NEW t \in Requests, SetCancelled(t) PROVE Goal
<1>1. current' = req[t].snap /\ UNCHANGED <<list, runs, started>>
  BY DEF SetCancelled
<1>2. current'.status \in Lifeless
  BY <1>1, HolderFacts DEF SetCancelled, HeldOK, Lifeless, Terminal
<1>3. LeavesLifeless
  BY <1>1, <1>2, HolderFacts DEF EInv, Fresh, LeavesLifeless
<1>4. ASSUME NEW u \in Requests PROVE Harmless(u)
  <2>1. CASE u # t
    BY <2>1, HolderFacts DEF SetCancelled, TakesNothing, Harmless
  <2>2. CASE u = t /\ req[t].pc = "cancelSet"
    <3>1. req'[u] = IdleRequest
      BY <2>2, HolderFacts DEF SetCancelled
    <3> QED BY <3>1 DEF IdleRequest, KnownOp, Legacy, TakesNothing, Working, Loaded, Harmless
  <2>3. CASE u = t /\ req[t].pc = "failSet"
    <3>1. /\ req'[u].pc = "failed" /\ req'[u].op = req[u].op /\ req'[u].run = req[u].run
          /\ req'[u].parent = req[u].parent
      BY <2>3, HolderFacts DEF SetCancelled, RequestRecord
    <3> QED BY <2>3, <3>1, HolderFacts DEF KnownOp, TakesNothing, Working, Loaded, Harmless
  <2> QED BY <2>1, <2>2, <2>3 DEF SetCancelled
<1> QED BY <1>3, <1>4, CancelStep

------------------------------------------------------------------------------
(* The theorem about endings                                               *)

LEMMA NextGoal ==
  ASSUME \A t \in Requests : Ops[t] \cap Legacy = {}, EInv, Next
  PROVE  Goal
<1>1. PICK t \in Requests : Handlers(t) \/ Lock(t) \/ Step(t) \/ AskTool(t) \/ StartChild(t)
  BY DEF Next
<1>2. CASE Handlers(t)
  BY <1>2, HandlersEnds
<1>3. CASE Step(t)
  BY <1>3, QuietEnds, StartEnds, CheckEnds, AdmitEnds, RereadEnds, AnswerDeniedEnds,
    FinishEnds,
    SetEnds, WriteEnds, HoldEnds, WaitForChildEnds, RecordEnds, FailEnds,
    CancelActiveEnds, CancelMarkEnds, SetCancelledEnds DEF Step
<1> QED BY <1>1, <1>2, <1>3, QuietEnds, StartChildEnds

LEMMA EInit == Init => EInv
<1> SUFFICES ASSUME Init PROVE EInv
  OBVIOUS
<1> QED BY InitInv DEF Init, EInv, KnownOp, IdleRequest, Legacy, Fresh,
  NoRecord, HeldOK, SettledOK, Settling

\* No request takes up a workflow run that ended, and without one the run never
\* runs or waits again, in any interleaving of starts, retries, resumes, nested
\* runs and cancels: the entry points check the status again under
\* workflowExecMu, and the snapshots that are written back later are of the
\* request's own run or what a cancel has left. (A cancel between that check and
\* the write of "running" is overwritten: the run is executed then.) The
\* approval endpoint that takes no lock has to be unused.
THEOREM EndingsAreFinal ==
  ASSUME \A t \in Requests : Ops[t] \cap Legacy = {}
  PROVE  Spec => EndedStaysEnded
<1>1. EInv /\ [Next]_vars => EInv'
  <2> SUFFICES ASSUME EInv, [Next]_vars PROVE EInv'
    OBVIOUS
  <2>1. IInv'
    BY NextInv DEF EInv
  <2>2. CASE Next
    BY <2>1, <2>2, NextGoal DEF Goal, EInv
  <2>3. CASE UNCHANGED vars
    BY <2>1, <2>3 DEF vars, session, EInv, Fresh, SettledOK
  <2> QED BY <2>2, <2>3
<1>2. EInv /\ [Next]_vars =>
        [\A r \in Runs :
          runs[r].status \in Terminal \ {"blocked"}
          /\ ~(\E t \in Requests : Executes(t, r))
          => /\ ~(\E t \in Requests : Executes(t, r))'
             /\ runs'[r].status \in Terminal \cup {"cancelling", NoRecord.status}]_vars
  BY NextGoal DEF Goal, Rests, Ended, Lifeless
<1> QED BY <1>1, <1>2, EInit, PTL DEF Spec, EndedStaysEnded

------------------------------------------------------------------------------
(* Runs that wait for a nested run                                         *)

\* The operations that take no lock.
Unlocked == {"cancel", "legacy", "legacyDeny"}

\* A request that uses one of them is the only one.
NoRaces == \A t, u \in Requests : Ops[t] \cap Unlocked # {} /\ Ops[u] # {} => t = u

CancelPcs == {"cancel", "cancelActive", "cancelPaused", "cancelMark", "cancelSet"}

AllowedOp(q, t) ==
    /\ q.pc # "idle" => q.op \in Ops[t]
    /\ q.pc \in CancelPcs => q.op = "cancel"

\* The requests that may write to the session.
Writing == (InLock \ {"leaving"}) \cup CancelPcs

\* The snapshot names the nested run that its run waits for.
Named(s) == s.status = "awaiting_sub_workflow" => s.run < s.child

\* The request holds the snapshot that names its nested run.
Naming(q) ==
    /\ q.out = "awaiting_sub_workflow"
    /\ q.pc = "set" \/ (q.pc = "write" /\ q.next = "persisted")

\* What a request knows of the nested run it has started, or waits for.
NestingOK(q) ==
    /\ q.pc \in Working /\ q.parent # NoRun => q.parent < q.run
    /\ q.pc = "checked" => q.snap.status = "running"
    /\ q.pc = "admitted" => current.status = "running"
    /\ q.pc \in {"waits", "naming"} => q.run < q.child
    /\ q.pc = "naming" => current.run = q.run
    /\ q.pc = "write" /\ q.next = "naming" =>
           q.run < q.child /\ current.run = q.run /\ q.snap.run = q.run
    /\ q.pc = "set" \/ (q.pc = "write" /\ q.next # "naming") => Named(q.snap)
    /\ Naming(q) => q.snap.run = q.run /\ q.run < q.snap.child
    /\ q.pc = "persisted" /\ q.out = "awaiting_sub_workflow" => q.run < runs[q.run].child

\* The request is about to name the nested run that run r waits for.
WillName(q, r) == q.run = r /\ (q.pc = "naming" \/ Naming(q))

NestedNamed ==
    \A r \in Runs : runs[r].status = "awaiting_sub_workflow" =>
        r < runs[r].child \/ \E t \in Requests : WillName(req[t], r)

CInv ==
    /\ IInv /\ NestedNamed
    /\ \A t \in Requests : AllowedOp(req[t], t) /\ NestingOK(req[t])

LEMMA CInit == Init => CInv
<1> SUFFICES ASSUME Init PROVE CInv
  OBVIOUS
<1>1. \A r \in Runs : runs[r].status = "none"
  BY DEF Init, NoRecord
<1>2. \A t \in Requests : req[t].pc = "idle"
  BY DEF Init, IdleRequest
<1> QED BY <1>1, <1>2, InitInv
        DEF CInv, NestedNamed, AllowedOp, NestingOK, Naming, CancelPcs, Working

\* One request at a time writes to the session.
LEMMA Sole ==
  ASSUME NoRaces, CInv, NEW t \in Requests, NEW u \in Requests,
         req[t].pc \in Writing, req[u].pc \in Writing
  PROVE  t = u
<1>1. \A v \in {t, u} : req[v].pc # "idle" /\ req[v].op \in Ops[v] /\ AllowedOp(req[v], v)
  BY DEF CInv, AllowedOp, Writing, InLock, Working, CancelPcs
<1>2. CASE req[t].op \in Unlocked \/ req[u].op \in Unlocked
  BY <1>1, <1>2 DEF NoRaces
<1>3. CASE req[t].op \notin Unlocked /\ req[u].op \notin Unlocked
  <2>1. \A v \in {t, u} : req[v].pc \in InLock /\ req[v].op \notin Legacy
    BY <1>1, <1>3 DEF AllowedOp, Writing, Unlocked, Legacy
  <2> QED BY <2>1 DEF CInv, IInv, LockHeld
<1> QED BY <1>2, <1>3

\* The fields that matter are those of before.
SameRequest(u) ==
    /\ req'[u].pc = req[u].pc /\ req'[u].op = req[u].op /\ req'[u].run = req[u].run
    /\ req'[u].parent = req[u].parent /\ req'[u].child = req[u].child
    /\ req'[u].out = req[u].out /\ req'[u].snap = req[u].snap /\ req'[u].next = req[u].next

\* What a step has to show.
Nested == NestedNamed' /\ \A u \in Requests : AllowedOp(req[u], u)' /\ NestingOK(req[u])'

\* What the step of a request may do to the runs (an action).
RunsOK(t) ==
    \A r \in Runs :
        \/ runs'[r].status # "awaiting_sub_workflow" \/ r < runs'[r].child
        \/ WillName(req'[t], r)
        \/ runs'[r] = runs[r] /\ ~WillName(req[t], r)

\* A step of a request that may write.
LEMMA WriteStep ==
  ASSUME NoRaces, CInv, NEW t \in Requests, req[t].pc \in Writing,
         \A u \in Requests \ {t} : SameRequest(u),
         AllowedOp(req[t], t)', NestingOK(req[t])', RunsOK(t)
  PROVE  Nested
<1>1. \A u \in Requests \ {t} : req[u].pc \notin Writing
  BY Sole
<1>2. ASSUME NEW u \in Requests PROVE AllowedOp(req[u], u)' /\ NestingOK(req[u])'
  <2>1. CASE u = t
    BY <2>1
  <2>2. CASE u # t
    BY <1>1, <2>2 DEF SameRequest, CInv, AllowedOp, NestingOK, Naming, Writing, InLock, Working
  <2> QED BY <2>1, <2>2
<1>3. ASSUME NEW r \in Runs, runs'[r].status = "awaiting_sub_workflow", ~(r < runs'[r].child)
      PROVE  \E u \in Requests : WillName(req'[u], r)
  <2>1. CASE WillName(req'[t], r)
    BY <2>1
  <2>2. CASE runs'[r] = runs[r] /\ ~WillName(req[t], r)
    <3>1. PICK u \in Requests : WillName(req[u], r)
      BY <1>3, <2>2 DEF CInv, NestedNamed
    <3>2. u # t /\ req[u].pc \in Writing
      BY <2>2, <3>1 DEF WillName, Naming, Writing, InLock, Working
    <3> QED BY <1>1, <3>2
  <2> QED BY <1>3, <2>1, <2>2 DEF RunsOK
<1> QED BY <1>2, <1>3 DEF Nested, NestedNamed, WillName

\* A step that leaves the session alone.
LEMMA StillStep ==
  ASSUME CInv, NEW t \in Requests, UNCHANGED session, \A r \in Runs : ~WillName(req[t], r),
         \A u \in Requests \ {t} : SameRequest(u),
         AllowedOp(req[t], t)', NestingOK(req[t])'
  PROVE  Nested
<1>1. runs' = runs /\ current' = current
  BY DEF session
<1>2. ASSUME NEW u \in Requests PROVE AllowedOp(req[u], u)' /\ NestingOK(req[u])'
  <2>1. CASE u = t
    BY <2>1
  <2>2. CASE u # t
    BY <1>1, <2>2 DEF SameRequest, CInv, AllowedOp, NestingOK, Naming
  <2> QED BY <2>1, <2>2
<1>3. \A u \in Requests, r \in Runs : WillName(req[u], r) => u # t /\ WillName(req'[u], r)
  BY DEF WillName, Naming, SameRequest
<1> QED BY <1>1, <1>2, <1>3 DEF Nested, CInv, NestedNamed, WillName

\* What every step starts from.
LEMMA RequestFacts ==
  ASSUME CInv, NEW t \in Requests
  PROVE  /\ SessionOK /\ req \in [Requests -> RequestRecord]
         /\ req[t] \in RequestRecord /\ PlaceOK(req[t])
         /\ AllowedOp(req[t], t) /\ NestingOK(req[t])
         /\ started \in Nat /\ Runs \subseteq Nat
         /\ req[t].run \in Nat /\ req[t].parent \in Nat
         /\ NoRecord.status = "none" /\ IInv
         /\ req[t].snap \in SnapshotRecord
<1>1. req \in [Requests -> RequestRecord] /\ req[t] \in RequestRecord /\ Runs \subseteq Nat
  BY ConstantsAssumption DEF CInv, IInv, ServerOK, Runs
<1> QED BY <1>1, ConstantsAssumption
        DEF CInv, IInv, SessionOK, NoRecord, RequestRecord, NoRun, Runs

\* A request that only moves on, to a place that needs no knowledge.
LEMMA QuietNested ==
  ASSUME CInv, NEW t \in Requests,
         \/ Lock(t) \/ RegisterStarted(t) \/ RegisterResumed(t) \/ Refuse(t)
         \/ AnswerApproved(t) \/ AskTool(t) \/ Leave(t) \/ LookUpCancel(t)
         \/ CancelPaused(t) \/ ResumeLegacy(t) \/ Return(t)
  PROVE  Nested
<1>1. UNCHANGED session /\ \A r \in Runs : ~WillName(req[t], r)
  BY DEF Lock, RegisterStarted, RegisterResumed, Refuse, AnswerApproved, AskTool,
    Leave, LookUpCancel, CancelPaused, ResumeLegacy, Return, WillName, Naming
<1>2. /\ req \in [Requests -> RequestRecord] /\ req[t] \in RequestRecord
      /\ PlaceOK(req[t]) /\ AllowedOp(req[t], t) /\ NestingOK(req[t])
  BY RequestFacts
<1>3. \A u \in Requests \ {t} : SameRequest(u)
  <2>1. CASE Leave(t)
    <3>1. ASSUME NEW u \in Requests \ {t} PROVE SameRequest(u)
      <4>1. req'[u] \in {req[u], [req[u] EXCEPT !.target = Gone]}
        BY <2>1, <1>2 DEF Leave
      <4>2. req[u] \in RequestRecord
        BY <1>2
      <4> QED BY <4>1, <4>2 DEF SameRequest, RequestRecord
    <3> QED BY <3>1
  <2>2. CASE ~Leave(t)
    BY <1>2, <2>2 DEF Lock, RegisterStarted, RegisterResumed, Refuse, AnswerApproved, AskTool,
      LookUpCancel, CancelPaused, ResumeLegacy, Return, SameRequest
  <2> QED BY <2>1, <2>2
<1>4. /\ req'[t].pc \notin {"checked", "admitted", "waits", "naming", "set", "write", "persisted"}
      /\ req'[t].pc \in CancelPcs => req[t].pc \in CancelPcs
      /\ req'[t].pc # "idle" => req[t].pc # "idle" /\ req'[t].op = req[t].op
      /\ req'[t].pc \in Working => \/ req'[t].parent = NoRun
                                   \/ /\ req[t].pc \in Working
                                      /\ req'[t].run = req[t].run
                                      /\ req'[t].parent = req[t].parent
  <2>1. CASE Lock(t) \/ Refuse(t) \/ AskTool(t) \/ RegisterResumed(t)
    BY <1>2, <2>1 DEF Lock, Refuse, AskTool, RegisterResumed, RequestRecord, Working, CancelPcs
  <2>2. CASE RegisterStarted(t) \/ AnswerApproved(t)
    BY <1>2, <2>2 DEF RegisterStarted, AnswerApproved, RequestRecord, Working, CancelPcs
  <2>3. CASE LookUpCancel(t) \/ CancelPaused(t)
    BY <1>2, <2>3 DEF LookUpCancel, CancelPaused, RequestRecord, IdleRequest, Working, CancelPcs
  <2>4. CASE Leave(t)
    BY <1>2, <2>4 DEF Leave, IdleRequest, Working, CancelPcs
  <2>5. CASE ResumeLegacy(t)
    BY <1>2, <2>5 DEF ResumeLegacy, RequestRecord, IdleRequest, PlaceOK, Working, CancelPcs
  <2>6. CASE Return(t)
    BY <1>2, <2>6 DEF Return, RequestRecord, Working, CancelPcs
  <2> QED BY <2>1, <2>2, <2>3, <2>4, <2>5, <2>6
<1>5. AllowedOp(req[t], t)'
  BY <1>2, <1>4 DEF AllowedOp, CancelPcs
<1>6. NestingOK(req[t])'
  BY <1>2, <1>4 DEF NestingOK, Naming
<1> QED BY <1>1, <1>3, <1>5, <1>6, StillStep

LEMMA HandlersNested == ASSUME CInv, NEW t \in Requests, Handlers(t) PROVE Nested
<1>1. req \in [Requests -> RequestRecord] /\ req[t] \in RequestRecord
  BY RequestFacts
<1>2. ASSUME NEW q, req' = [req EXCEPT ![t] = q], q.op \in Ops[t], UNCHANGED session,
             q.pc \in {"asked", "locked", "cancel", "legacy"}, req[t].pc = "idle",
             q.pc = "cancel" => q.op = "cancel"
      PROVE  Nested
  <2>1. req'[t] = q /\ \A u \in Requests \ {t} : SameRequest(u)
    BY <1>1, <1>2 DEF SameRequest
  <2>2. AllowedOp(q, t) /\ NestingOK(req[t])'
    BY <1>2, <2>1 DEF AllowedOp, NestingOK, Naming, CancelPcs, Working
  <2>3. AllowedOp(req[t], t)'
    BY <2>1, <2>2 DEF AllowedOp
  <2>4. \A r \in Runs : ~WillName(req[t], r)
    BY <1>2 DEF WillName, Naming
  <2> QED BY <1>2, <2>1, <2>2, <2>3, <2>4, StillStep
<1>3. ASSUME NEW op, NEW r, Ask(t, op, r) PROVE Nested
  <2> DEFINE ask == [IdleRequest EXCEPT !.op = op, !.run = r]
             waits == [ask EXCEPT !.pc = "asked"]
             takes == [ask EXCEPT !.pc = "locked", !.background = TRUE]
  <2>1. /\ waits.op = op /\ waits.pc = "asked" /\ takes.op = op /\ takes.pc = "locked"
    BY DEF IdleRequest
  <2>2. /\ op \in Ops[t] /\ req[t].pc = "idle" /\ UNCHANGED session
        /\ req' = [req EXCEPT ![t] = waits] \/ req' = [req EXCEPT ![t] = takes]
    BY <1>3 DEF Ask, Take
  <2> HIDE DEF waits, takes
  <2> QED BY <1>2, <2>1, <2>2
<1>4. ASSUME NEW r, AskCancel(t, r) PROVE Nested
  <2> DEFINE q == [IdleRequest EXCEPT !.pc = "cancel", !.op = "cancel",
                                      !.run = r, !.seen = runs[r].status \in Cancellable]
  <2>1. q.op = "cancel" /\ q.pc = "cancel"
    BY DEF IdleRequest
  <2>2. /\ "cancel" \in Ops[t] /\ req[t].pc = "idle" /\ UNCHANGED session
        /\ req' = [req EXCEPT ![t] = q]
    BY <1>4 DEF AskCancel
  <2> HIDE DEF q
  <2> QED BY <1>2, <2>1, <2>2
<1>5. ASSUME NEW c, AskLegacy(t, c) PROVE Nested
  <2>1. PICK op \in Ops[t] \cap {"legacy", "legacyDeny"} :
           req' = [req EXCEPT ![t] = [IdleRequest EXCEPT !.pc = "legacy", !.op = op, !.call = c]]
    BY <1>5, Zenon DEF AskLegacy
  <2> DEFINE q == [IdleRequest EXCEPT !.pc = "legacy", !.op = op, !.call = c]
  <2>2. q.op = op /\ q.pc = "legacy"
    BY DEF IdleRequest
  <2>3. req[t].pc = "idle" /\ UNCHANGED session /\ req' = [req EXCEPT ![t] = q]
    BY <1>5, <2>1 DEF AskLegacy
  <2> HIDE DEF q
  <2> QED BY <1>2, <2>1, <2>2, <2>3
<1> QED BY <1>3, <1>4, <1>5
        DEF Handlers, AskStart, AskRetry, AskApproval, AskToolApproval, AskInput, AskSubWorkflow,
            AskContinue, AskEscalate, AskBudget

\* A step of an execution: the request goes on or gets ready to leave.
LEMMA ExecutionStep ==
  ASSUME NoRaces, CInv, NEW t \in Requests, req[t].pc \in InLock \ {"leaving"},
         \A u \in Requests \ {t} : req'[u] = req[u],
         req'[t].op = req[t].op, req'[t].pc \in Working \cup {"leaving"},
         NestingOK(req[t])', RunsOK(t)
  PROVE  Nested
<1>1. req[t].pc \in Writing /\ \A u \in Requests \ {t} : SameRequest(u)
  BY DEF Writing, SameRequest
<1>2. AllowedOp(req[t], t)'
  BY RequestFacts DEF AllowedOp, CancelPcs, InLock, Working
<1> QED BY <1>1, <1>2, WriteStep

\* What the operations of the session do to runs that wait for a nested run.
LEMMA StartRunNested ==
  ASSUME NEW r \in Runs, NEW retryOf, StartRun(r, retryOf)
  PROVE  /\ \A x \in Runs : runs'[x].status # "awaiting_sub_workflow" \/ runs'[x] = runs[x]
         /\ current'.status = "running"
<1> DEFINE attempt == IF retryOf = NoRun THEN 1
                      ELSE IF retryOf \in Visible THEN runs[retryOf].attempt + 1 ELSE 2
           record  == [NoRecord EXCEPT !.status = "running", !.attempt = attempt]
<1>1. Prepend(r, record) /\ record.status = "running" /\ NoRecord.status = "none"
  BY DEF StartRun, NoRecord
<1>2. current'.status = "running"
  BY DEF StartRun
<1> HIDE DEF record
<1>3. runs'[r] = record /\ \A x \in Runs \ {r} : runs'[x] \in {runs[x], NoRecord}
  BY <1>1, PrependKeeps
<1> QED BY <1>1, <1>2, <1>3

LEMMA UpdateRunNested ==
  ASSUME CInv, NEW s \in SnapshotRecord, s.run # NoRun, UpdateRun(s), Named(s)
  PROVE  \A x \in Runs : \/ runs'[x].status # "awaiting_sub_workflow"
                         \/ x < runs'[x].child \/ runs'[x] = runs[x]
<1>1. SessionOK /\ NoRecord.status = "none"
  BY DEF CInv, IInv, NoRecord
<1>2. /\ runs'[s.run].status = s.status /\ runs'[s.run].child = s.child
      /\ \A x \in Runs \ {s.run} : runs'[x] \in {runs[x], NoRecord}
  BY <1>1, UpdateRunKeeps
<1> QED BY <1>1, <1>2 DEF Named

LEMMA CancelRunNested ==
  ASSUME CInv, NEW r \in Visible, CancelRun(r)
  PROVE  \A x \in Runs : runs'[x].status = "cancelled" \/ runs'[x] = runs[x]
BY CancelRunKeeps DEF CInv, IInv

LEMMA RequestCancelNested ==
  ASSUME CInv, NEW r \in Runs, RequestCancel(r)
  PROVE  \A x \in Runs : \/ runs'[x].status # "awaiting_sub_workflow"
                         \/ runs'[x] = runs[x]
<1>1. runs \in [Runs -> RunRecord]
  BY DEF CInv, IInv, SessionOK, RecordsOK
<1>2. CASE r \notin Visible
  BY <1>2 DEF RequestCancel, session
<1>3. CASE r \in Visible
  <2> DEFINE status == IF runs[r].status \in Terminal THEN runs[r].status ELSE "cancelling"
             record == [runs[r] EXCEPT !.status = status]
  <2>1. record.status = status /\ runs' = [runs EXCEPT ![r] = record]
    BY <1>1, <1>3 DEF RequestCancel, RunRecord
  <2>2. status # "awaiting_sub_workflow"
    BY DEF Terminal
  <2> HIDE DEF record, status
  <2> QED BY <1>1, <2>1, <2>2
<1> QED BY <1>2, <1>3

LEMMA StartNested ==
  ASSUME NoRaces, CInv, NEW t \in Requests, Start(t) PROVE Nested
<1>1. /\ req[t].pc = "locked" /\ req[t].pc \in InLock \ {"leaving"}
      /\ \A u \in Requests \ {t} : req'[u] = req[u]
      /\ req'[t].op = req[t].op /\ req'[t].pc \in {"started", "leaving"}
      /\ req'[t].parent = req[t].parent
  BY RequestFacts DEF Start, InLock, RequestRecord
<1>2. req[t].parent = NoRun
  BY <1>1, RequestFacts DEF PlaceOK
<1>3. NestingOK(req[t])'
  BY <1>1, <1>2 DEF NestingOK, Naming
<1>4. \A x \in Runs : runs'[x].status # "awaiting_sub_workflow" \/ runs'[x] = runs[x]
  <2>1. CASE started < MaxStarts
    <3>1. started + 1 \in Runs
      BY <2>1, RequestFacts, ConstantsAssumption DEF Runs
    <3> QED BY <2>1, <3>1, StartRunNested DEF Start
  <2>2. CASE ~(started < MaxStarts)
    BY <2>2 DEF Start, session
  <2> QED BY <2>1, <2>2
<1>5. \A r \in Runs : ~WillName(req[t], r)
  BY <1>1 DEF WillName, Naming
<1> QED BY <1>1, <1>3, <1>4, <1>5, ExecutionStep DEF Working, RunsOK

LEMMA StartChildNested ==
  ASSUME NoRaces, CInv, NEW t \in Requests, StartChild(t) PROVE Nested
<1>1. /\ req[t].pc = "running" /\ req[t].pc \in InLock \ {"leaving"}
      /\ \A u \in Requests \ {t} : req'[u] = req[u]
      /\ req'[t].op = req[t].op /\ req'[t].pc = "started"
      /\ req'[t].parent = req[t].run /\ req'[t].run = started + 1
  BY RequestFacts DEF StartChild, InLock, Working, RequestRecord
<1>2. req[t].run <= started
  BY RequestFacts DEF PlaceOK
<1>3. NestingOK(req[t])'
  BY <1>1, <1>2, RequestFacts DEF NestingOK, Naming
<1>4. \A x \in Runs : runs'[x].status # "awaiting_sub_workflow" \/ runs'[x] = runs[x]
  <2>1. started + 1 \in Runs
    BY RequestFacts, ConstantsAssumption DEF Runs, StartChild
  <2> QED BY <2>1, StartRunNested DEF StartChild
<1>5. \A r \in Runs : ~WillName(req[t], r)
  BY <1>1 DEF WillName, Naming
<1> QED BY <1>1, <1>3, <1>4, <1>5, ExecutionStep DEF Working, RunsOK

\* A step of an execution that leaves the run list alone and only moves on with
\* the same run.
LEMMA KeepingStep ==
  ASSUME NoRaces, CInv, NEW t \in Requests, req[t].pc \in InLock \ {"leaving"},
         \A u \in Requests \ {t} : req'[u] = req[u], UNCHANGED <<list, runs, started>>,
         req'[t].op = req[t].op, req'[t].pc \in Working \cup {"leaving"},
         NestingOK(req[t])',
         \A r \in Runs : WillName(req[t], r) => WillName(req'[t], r)
  PROVE  Nested
<1>1. RunsOK(t)
  BY DEF RunsOK
<1> QED BY <1>1, ExecutionStep

LEMMA CheckNested ==
  ASSUME NoRaces, CInv, NEW t \in Requests, Check(t) PROVE Nested
<1>1. /\ req[t].pc = "registered" /\ req[t].pc \in InLock \ {"leaving"}
      /\ \A u \in Requests \ {t} : req'[u] = req[u]
      /\ req'[t].op = req[t].op /\ req'[t].pc = "checked"
      /\ req'[t].parent = NoRun /\ req'[t].snap.status = "running"
  BY RequestFacts DEF Check, InLock, RequestRecord, PlaceOK
<1>2. NestingOK(req[t])'
  BY <1>1 DEF NestingOK, Naming
<1>3. UNCHANGED <<list, runs, started>> /\ \A r \in Runs : ~WillName(req[t], r)
  BY <1>1 DEF WillName, Naming, Check, session
<1> QED BY <1>1, <1>2, <1>3, KeepingStep DEF Working

LEMMA AdmitNested ==
  ASSUME NoRaces, CInv, NEW t \in Requests, Admit(t) PROVE Nested
<1>1. /\ req[t].pc = "checked" /\ req[t].pc \in InLock \ {"leaving"}
      /\ \A u \in Requests \ {t} : req'[u] = req[u]
      /\ req'[t].op = req[t].op /\ req'[t].pc = "admitted"
      /\ req'[t].parent = req[t].parent /\ req'[t].run = req[t].run
  BY RequestFacts DEF Admit, InLock, Working, RequestRecord
<1>2. current'.status = "running"
  BY <1>1, RequestFacts DEF Admit, NestingOK
<1>3. NestingOK(req[t])'
  BY <1>1, <1>2, RequestFacts DEF NestingOK, Naming, Working
<1>4. UNCHANGED <<list, runs, started>> /\ \A r \in Runs : ~WillName(req[t], r)
  BY <1>1 DEF WillName, Naming, Admit
<1> QED BY <1>1, <1>3, <1>4, KeepingStep DEF Working

\* The snapshot an admitted request takes over is the one it has written.
LEMMA RereadNested ==
  ASSUME NoRaces, CInv, NEW t \in Requests, Reread(t) PROVE Nested
<1>1. /\ req[t].pc = "admitted" /\ req[t].pc \in InLock \ {"leaving"}
      /\ \A u \in Requests \ {t} : req'[u] = req[u]
      /\ req'[t].op = req[t].op /\ req'[t].pc = "write"
      /\ req'[t].parent = req[t].parent /\ req'[t].run = req[t].run
      /\ req'[t].snap = current /\ req'[t].next \in {"running", "answer"}
  BY RequestFacts DEF Reread, InLock, Working, RequestRecord
<1>2. current.status = "running"
  BY <1>1, RequestFacts DEF NestingOK
<1>3. NestingOK(req[t])'
  BY <1>1, <1>2, RequestFacts DEF NestingOK, Naming, Named, Working
<1>4. UNCHANGED <<list, runs, started>> /\ \A r \in Runs : ~WillName(req[t], r)
  BY <1>1 DEF WillName, Naming, Reread, session
<1> QED BY <1>1, <1>3, <1>4, KeepingStep DEF Working

\* A snapshot is set: it names the nested run it waits for, or the request goes
\* on to name it.
LEMMA PersistNested ==
  ASSUME NoRaces, CInv, NEW t \in Requests, req[t].pc \in Working,
         NEW s \in SnapshotRecord, NEW q \in RequestRecord, q.pc \in AfterWrite,
         q.op = req[t].op, q.run = req[t].run, q.parent = req[t].parent, Persist(t, s, q),
         IF q.pc = "naming" THEN s.run = q.run /\ q.run < q.child ELSE Named(s),
         q.pc = "persisted" /\ q.out = "awaiting_sub_workflow" =>
             s.run = q.run /\ q.run < s.child,
         \A r \in Runs : WillName(req[t], r) =>
             r = q.run /\ q.pc = "persisted" /\ q.out = "awaiting_sub_workflow"
  PROVE  Nested
<1>1. /\ current' = s /\ UNCHANGED <<list, runs, started>>
      /\ \A u \in Requests \ {t} : req'[u] = req[u]
      /\ req'[t].pc = "write" /\ req'[t].snap = s /\ req'[t].next = q.pc
      /\ req'[t].op = q.op /\ req'[t].run = q.run /\ req'[t].parent = q.parent
      /\ req'[t].out = q.out /\ req'[t].child = q.child
  BY PersistFacts, RequestFacts
<1>2. req[t].parent # NoRun => req[t].parent < req[t].run
  BY RequestFacts DEF NestingOK
<1>3. NestingOK(req[t])'
  BY <1>1, <1>2 DEF NestingOK, Naming
<1>4. \A r \in Runs : WillName(req[t], r) => WillName(req'[t], r)
  BY <1>1 DEF WillName, Naming
<1>5. req[t].pc \in InLock \ {"leaving"} /\ req'[t].pc \in Working
  BY <1>1 DEF InLock, Working
<1> QED BY <1>1, <1>3, <1>4, <1>5, KeepingStep

\* An execution ends with a status that names no nested run.
LEMMA AnswerDeniedNested == ASSUME NoRaces, CInv, NEW t \in Requests, AnswerDenied(t) PROVE Nested
<1> DEFINE s == Snapshot(t, "denied", NoCall, NoRun)
           q == [req[t] EXCEPT !.pc = "persisted", !.out = "denied"]
<1>2. /\ req[t].pc \in Working /\ "denied" \in Statuses /\ "denied" # "awaiting_sub_workflow"
      /\ \A r \in Runs : ~WillName(req[t], r)
  BY StatusTypes, ConstantsAssumption DEF AnswerDenied, Working, Statuses, Terminal, WillName, Naming
<1>3. Persist(t, s, q)
  BY DEF AnswerDenied
<1>4. s \in SnapshotRecord /\ Named(s)
  BY <1>2, SnapshotType, RequestFacts DEF Named, Snapshot
<1>5. /\ q \in RequestRecord /\ q.pc = "persisted" /\ q.op = req[t].op
      /\ q.run = req[t].run /\ q.parent = req[t].parent /\ q.out = "denied"
  <2> DEFINE q1 == [req[t] EXCEPT !.pc = "persisted"]
  <2>1. /\ q1 \in RequestRecord /\ q1.pc = "persisted" /\ q1.op = req[t].op
        /\ q1.run = req[t].run /\ q1.parent = req[t].parent
    BY RequestFacts DEF RequestRecord, Pcs
  <2>2. q = [q1 EXCEPT !.out = "denied"]
    OBVIOUS
  <2> HIDE DEF q1, q
  <2> QED BY <1>2, <2>1, <2>2 DEF RequestRecord
<1> HIDE DEF s, q
<1> QED BY <1>2, <1>3, <1>4, <1>5, PersistNested DEF AfterWrite

LEMMA FinishNested == ASSUME NoRaces, CInv, NEW t \in Requests, Finish(t) PROVE Nested
<1>1. PICK o \in Outcomes :
         Persist(t, Snapshot(t, o, NoCall, NoRun),
                 [req[t] EXCEPT !.pc = "persisted", !.out = o])
  BY Zenon DEF Finish
<1> DEFINE s == Snapshot(t, o, NoCall, NoRun)
           q == [req[t] EXCEPT !.pc = "persisted", !.out = o]
<1>2. /\ req[t].pc \in Working /\ o \in Statuses /\ o # "awaiting_sub_workflow"
      /\ \A r \in Runs : ~WillName(req[t], r)
  BY StatusTypes, ConstantsAssumption DEF Finish, Working, Statuses, Terminal, WillName, Naming
<1>3. Persist(t, s, q)
  BY <1>1
<1>4. s \in SnapshotRecord /\ Named(s)
  BY <1>2, SnapshotType, RequestFacts DEF Named, Snapshot
<1>5. /\ q \in RequestRecord /\ q.pc = "persisted" /\ q.op = req[t].op
      /\ q.run = req[t].run /\ q.parent = req[t].parent /\ q.out = o
  <2> DEFINE q1 == [req[t] EXCEPT !.pc = "persisted"]
  <2>1. /\ q1 \in RequestRecord /\ q1.pc = "persisted" /\ q1.op = req[t].op
        /\ q1.run = req[t].run /\ q1.parent = req[t].parent
    BY RequestFacts DEF RequestRecord, Pcs
  <2>2. q = [q1 EXCEPT !.out = o]
    OBVIOUS
  <2> HIDE DEF q1, q
  <2> QED BY <1>2, <2>1, <2>2 DEF RequestRecord
<1> HIDE DEF s, q
<1> QED BY <1>2, <1>3, <1>4, <1>5, PersistNested DEF AfterWrite

LEMMA FindCallNested ==
  ASSUME NoRaces, CInv, NEW t \in Requests, FindCall(t) PROVE Nested
<1>1. /\ req[t].pc = "suspended" /\ req[t].pc \in InLock \ {"leaving"}
      /\ \A u \in Requests \ {t} : req'[u] = req[u]
      /\ req'[t].op = req[t].op /\ req'[t].pc = "set"
      /\ req'[t].parent = req[t].parent /\ req'[t].run = req[t].run
      /\ req'[t].snap.status = "awaiting_tool_approval"
      /\ req'[t].out = "awaiting_tool_approval"
  BY RequestFacts DEF FindCall, Snapshot, InLock, Working, RequestRecord
<1>2. NestingOK(req[t])'
  BY <1>1, RequestFacts DEF NestingOK, Naming, Named, Working
<1>3. UNCHANGED <<list, runs, started>> /\ \A r \in Runs : ~WillName(req[t], r)
  BY <1>1 DEF WillName, Naming, FindCall, session
<1> QED BY <1>1, <1>2, <1>3, KeepingStep DEF Working

LEMMA SetNested ==
  ASSUME NoRaces, CInv, NEW t \in Requests, Set(t) PROVE Nested
<1> DEFINE q == [req[t] EXCEPT !.pc = "persisted"]
<1>1. /\ req[t].pc = "set" /\ req[t].pc \in Working /\ req[t].snap \in SnapshotRecord
      /\ Named(req[t].snap)
      /\ req[t].out = "awaiting_sub_workflow" =>
            req[t].snap.run = req[t].run /\ req[t].run < req[t].snap.child
  BY RequestFacts DEF Set, Working, NestingOK, Naming
<1>2. /\ q \in RequestRecord /\ q.pc = "persisted" /\ q.op = req[t].op
      /\ q.run = req[t].run /\ q.parent = req[t].parent /\ q.out = req[t].out
  BY RequestFacts DEF RequestRecord, Pcs
<1>3. Persist(t, req[t].snap, q)
  BY DEF Set
<1> HIDE DEF q
<1>4. \A r \in Runs : WillName(req[t], r) =>
          r = q.run /\ q.pc = "persisted" /\ q.out = "awaiting_sub_workflow"
  BY <1>1, <1>2 DEF WillName, Naming
<1> QED BY <1>1, <1>2, <1>3, <1>4, PersistNested DEF AfterWrite

\* The parent waits, and is about to name the nested run.
LEMMA WaitForChildNested ==
  ASSUME NoRaces, CInv, NEW t \in Requests, WaitForChild(t) PROVE Nested
<1> DEFINE s == Snapshot(t, "awaiting_sub_workflow", NoCall, NoRun)
           q == [req[t] EXCEPT !.pc = "naming"]
<1>1. /\ req[t].pc = "waits" /\ req[t].pc \in Working
      /\ \A r \in Runs : ~WillName(req[t], r) /\ req[t].run < req[t].child
  BY RequestFacts DEF WaitForChild, Working, WillName, Naming, NestingOK
<1>2. s \in SnapshotRecord /\ s.run = req[t].run
  BY <1>1, SnapshotType, RequestFacts DEF Statuses, Paused
<1>3. /\ q \in RequestRecord /\ q.pc = "naming" /\ q.op = req[t].op
      /\ q.run = req[t].run /\ q.parent = req[t].parent /\ q.child = req[t].child
  BY RequestFacts DEF RequestRecord, Pcs
<1>4. Persist(t, s, q)
  BY DEF WaitForChild
<1>5. req[t].run < req[t].child
  BY <1>1, RequestFacts DEF NestingOK
<1> HIDE DEF s, q
<1> QED BY <1>1, <1>2, <1>3, <1>4, <1>5, PersistNested DEF AfterWrite

\* The snapshot is still that of the parent, so the parent names its nested run.
LEMMA NameChildNested ==
  ASSUME NoRaces, CInv, NEW t \in Requests, NameChild(t) PROVE Nested
<1> DEFINE s  == [current EXCEPT !.child = req[t].child]
           q1 == [req[t] EXCEPT !.pc = "set"]
           q2 == [q1 EXCEPT !.child = NoRun]
           q3 == [q2 EXCEPT !.out = "awaiting_sub_workflow"]
           q  == [q3 EXCEPT !.snap = s]
<1>a. req[t].pc = "naming" /\ req[t].pc \in InLock \ {"leaving"}
  BY DEF NameChild, InLock, Working
<1>b. req' = [req EXCEPT ![t] = q]
  BY RequestFacts DEF NameChild
<1> HIDE DEF s
<1>c. /\ q.pc = "set" /\ q.op = req[t].op /\ q.run = req[t].run
      /\ q.parent = req[t].parent /\ q.snap = s /\ q.out = "awaiting_sub_workflow"
  <2>1. /\ DOMAIN q1 = DOMAIN req[t] /\ q1.pc = "set" /\ q1.op = req[t].op
        /\ q1.run = req[t].run /\ q1.parent = req[t].parent
    BY RequestFacts DEF RequestRecord
  <2>0. /\ {"pc", "op", "run", "parent", "child", "out", "snap"} \subseteq DOMAIN req[t]
    BY RequestFacts DEF RequestRecord
  <2> HIDE DEF q1
  <2>2. /\ DOMAIN q2 = DOMAIN q1 /\ q2.pc = q1.pc /\ q2.op = q1.op /\ q2.run = q1.run
        /\ q2.parent = q1.parent
    BY <2>0, <2>1
  <2> HIDE DEF q2
  <2>3. /\ DOMAIN q3 = DOMAIN q2 /\ q3.pc = q2.pc /\ q3.op = q2.op /\ q3.run = q2.run
        /\ q3.parent = q2.parent /\ q3.out = "awaiting_sub_workflow"
    BY <2>0, <2>1, <2>2
  <2> HIDE DEF q3
  <2>4. /\ q.pc = q3.pc /\ q.op = q3.op /\ q.run = q3.run
        /\ q.parent = q3.parent /\ q.out = q3.out /\ q.snap = s
    BY <2>0, <2>1, <2>2, <2>3
  <2> QED BY <2>1, <2>2, <2>3, <2>4
<1> HIDE DEF q
<1>1. /\ \A u \in Requests \ {t} : req'[u] = req[u]
      /\ req'[t] = q
  BY <1>b, RequestFacts
<1>2. current.run = req[t].run /\ req[t].run < req[t].child
  BY <1>a, RequestFacts DEF NestingOK
<1>3. req'[t].snap.run = req[t].run /\ req'[t].snap.child = req[t].child
  BY <1>1, <1>2, <1>c, RequestFacts DEF SessionOK, SnapshotRecord, s
<1>4. NestingOK(req[t])'
  BY <1>a, <1>1, <1>2, <1>c, <1>3, RequestFacts DEF NestingOK, Naming, Named, Working
<1>5. /\ UNCHANGED <<list, runs, started>>
      /\ \A r \in Runs : WillName(req[t], r) => WillName(req'[t], r)
  BY <1>a, <1>1, <1>c DEF WillName, Naming, NameChild, session
<1>6. req'[t].op = req[t].op /\ req'[t].pc \in Working
  BY <1>1, <1>c DEF Working
<1> QED BY <1>a, <1>1, <1>4, <1>5, <1>6, KeepingStep

\* What is held is written to its run.
LEMMA WriteNested ==
  ASSUME NoRaces, CInv, NEW t \in Requests, Write(t) PROVE Nested
<1> DEFINE s == req[t].snap
<1>a. IInv
  BY DEF CInv
<1>b. req[t].pc = "write" /\ req[t].pc \in InLock \ {"leaving"}
  BY DEF Write, InLock, Working
<1>1. /\ req[t].pc \in Working
      /\ s \in SnapshotRecord /\ s.run # NoRun /\ s.run <= started
      /\ req[t].next \in AfterWrite
      /\ \A u \in Requests \ {t} : req'[u] = req[u]
      /\ req'[t].pc = req[t].next /\ req'[t].op = req[t].op
      /\ req'[t].run = req[t].run /\ req'[t].parent = req[t].parent
      /\ req'[t].out = req[t].out /\ req'[t].child = req[t].child
  BY <1>a, WriteFacts
<1>2. UpdateRun(s) /\ UNCHANGED <<started, current>>
  BY DEF Write, UpdateRun
<1>3. NestingOK(req[t]) /\ SessionOK /\ s.run \in Runs /\ NoRecord.status = "none"
  BY <1>1, RequestFacts DEF SnapshotRecord
<1>4. /\ req[t].next = "naming" =>
            req[t].run < req[t].child /\ current.run = req[t].run /\ s.run = req[t].run
      /\ req[t].next # "naming" => Named(s)
      /\ req[t].next = "persisted" /\ req[t].out = "awaiting_sub_workflow" =>
            s.run = req[t].run /\ req[t].run < s.child
      /\ req[t].parent # NoRun => req[t].parent < req[t].run
  BY <1>b, <1>1, <1>3 DEF NestingOK, Naming
<1> HIDE DEF s
<1>5. /\ runs'[s.run].status = s.status /\ runs'[s.run].child = s.child
      /\ \A x \in Runs \ {s.run} : runs'[x] \in {runs[x], NoRecord}
  BY <1>1, <1>2, <1>3, UpdateRunKeeps
<1>6. NestingOK(req[t])'
  BY <1>1, <1>2, <1>4, <1>5 DEF NestingOK, Naming, AfterWrite
<1>7. \A r \in Runs : WillName(req[t], r) =>
          r = s.run /\ r < s.child /\ req[t].next = "persisted"
  BY <1>b, <1>1, <1>4 DEF WillName, Naming
<1>8. RunsOK(t)
  <2> SUFFICES ASSUME NEW r \in Runs
               PROVE  \/ runs'[r].status # "awaiting_sub_workflow" \/ r < runs'[r].child
                      \/ WillName(req'[t], r)
                      \/ runs'[r] = runs[r] /\ ~WillName(req[t], r)
    BY DEF RunsOK
  <2>1. CASE r # s.run
    BY <1>3, <1>5, <1>7, <2>1
  <2>2. CASE r = s.run /\ req[t].next = "naming"
    BY <1>1, <1>4, <2>2 DEF WillName
  <2>3. CASE r = s.run /\ req[t].next # "naming"
    BY <1>4, <1>5, <2>3 DEF Named
  <2> QED BY <2>1, <2>2, <2>3
<1>9. req'[t].pc \in Working
  BY <1>1 DEF AfterWrite, Working
<1> QED BY <1>b, <1>1, <1>6, <1>8, <1>9, ExecutionStep

LEMMA FailNested ==
  ASSUME NoRaces, CInv, NEW t \in Requests, Fail(t) PROVE Nested
<1>1. /\ req[t].pc = "running" /\ req[t].pc \in InLock \ {"leaving"} /\ req[t].pc \in Working
      /\ \A r \in Runs : ~WillName(req[t], r)
  BY DEF Fail, InLock, Working, WillName, Naming
<1>2. CASE /\ req[t].run \in Visible /\ CancelRun(req[t].run)
           /\ req' = [req EXCEPT ![t].pc = "failSet", ![t].snap = Cancelled(req[t].run)]
  <2>1. /\ \A u \in Requests \ {t} : req'[u] = req[u]
        /\ req'[t].op = req[t].op /\ req'[t].pc = "failSet"
        /\ req'[t].run = req[t].run /\ req'[t].parent = req[t].parent
    BY <1>2, RequestFacts DEF RequestRecord
  <2>2. NestingOK(req[t])'
    BY <1>1, <2>1, RequestFacts DEF NestingOK, Naming, Working
  <2>3. \A x \in Runs : runs'[x].status = "cancelled" \/ runs'[x] = runs[x]
    BY <1>2, CancelRunNested
  <2>4. RunsOK(t)
    BY <1>1, <2>3 DEF RunsOK
  <2> QED BY <1>1, <2>1, <2>2, <2>4, ExecutionStep DEF Working
<1>3. CASE req' = [req EXCEPT ![t].pc = "failed"] /\ UNCHANGED session
  <2>1. /\ \A u \in Requests \ {t} : req'[u] = req[u]
        /\ req'[t].op = req[t].op /\ req'[t].pc = "failed"
        /\ req'[t].run = req[t].run /\ req'[t].parent = req[t].parent
    BY <1>3, RequestFacts DEF RequestRecord
  <2>2. NestingOK(req[t])' /\ UNCHANGED <<list, runs, started>>
    BY <1>1, <1>3, <2>1, RequestFacts DEF NestingOK, Naming, Working, session
  <2> QED BY <1>1, <2>1, <2>2, KeepingStep DEF Working
<1>4. CASE Persist(t, Snapshot(t, "failed", NoCall, NoRun), [req[t] EXCEPT !.pc = "failed"])
  <2> DEFINE s == Snapshot(t, "failed", NoCall, NoRun)
             q == [req[t] EXCEPT !.pc = "failed"]
  <2>1. s \in SnapshotRecord /\ Named(s)
    BY <1>1, SnapshotType, RequestFacts DEF Statuses, Terminal, Named, Snapshot
  <2>2. /\ q \in RequestRecord /\ q.pc = "failed" /\ q.op = req[t].op
        /\ q.run = req[t].run /\ q.parent = req[t].parent
    BY RequestFacts DEF RequestRecord, Pcs
  <2>3. Persist(t, s, q)
    BY <1>4
  <2> HIDE DEF s, q
  <2> QED BY <1>1, <2>1, <2>2, <2>3, PersistNested DEF AfterWrite
<1> QED BY <1>2, <1>3, <1>4 DEF Fail

\* The pause is recorded over a run that names its nested run.
LEMMA CompleteRunNested ==
  ASSUME CInv, NEW t \in Requests, req[t].pc = "persisted",
         CompleteRun(req[t].run, req[t].out)
  PROVE  \A x \in Runs : \/ runs'[x].status # "awaiting_sub_workflow"
                         \/ x < runs'[x].child \/ runs'[x] = runs[x]
<1> DEFINE r   == req[t].run
           out == req[t].out
           record == [runs[r] EXCEPT !.status = out, !.stage = StageOf(out),
                       !.call = IF out = "awaiting_tool_approval" THEN runs[r].call ELSE NoCall,
                       !.child = IF out = "awaiting_sub_workflow" THEN runs[r].child ELSE NoRun]
<1>1. runs \in [Runs -> RunRecord] /\ r \in Runs
  BY RequestFacts DEF SessionOK, RecordsOK, PlaceOK, Working, RequestRecord
<1>2. runs' = runs \/ runs' = [runs EXCEPT ![r] = record]
  BY DEF CompleteRun
<1>3. /\ record.status = out
      /\ out = "awaiting_sub_workflow" => record.child = runs[r].child
  BY <1>1 DEF RunRecord
<1>4. out = "awaiting_sub_workflow" => r < runs[r].child
  BY RequestFacts DEF NestingOK
<1> HIDE DEF record, r, out
<1> QED BY <1>1, <1>2, <1>3, <1>4

LEMMA RecordNested ==
  ASSUME NoRaces, CInv, NEW t \in Requests, Record(t) \/ RecordChild(t) PROVE Nested
<1>1. /\ req[t].pc = "persisted" /\ req[t].pc \in InLock \ {"leaving"}
      /\ \A u \in Requests \ {t} : req'[u] = req[u]
      /\ req'[t].op = req[t].op
      /\ \/ req'[t].pc = "leaving"
         \/ /\ req[t].parent # NoRun
            /\ req'[t].pc \in {"running", "waits"} /\ req'[t].parent = NoRun
            /\ req'[t].run = req[t].parent
            /\ req'[t].pc = "waits" => req'[t].child = req[t].run
  <2>1. CASE Record(t)
    BY <2>1, RequestFacts DEF Record, InLock, Working, RequestRecord
  <2>2. CASE RecordChild(t)
    BY <2>2, RequestFacts DEF RecordChild, InLock, Working, RequestRecord
  <2> QED BY <2>1, <2>2
<1>2. CompleteRun(req[t].run, req[t].out)
  BY DEF Record, RecordChild
<1>3. \A x \in Runs : \/ runs'[x].status # "awaiting_sub_workflow"
                      \/ x < runs'[x].child \/ runs'[x] = runs[x]
  BY <1>1, <1>2, CompleteRunNested
<1>4. req[t].parent # NoRun => req[t].parent < req[t].run
  BY <1>1, RequestFacts DEF NestingOK, Working
<1>5. NestingOK(req[t])'
  BY <1>1, <1>4 DEF NestingOK, Naming, Working
<1>6. \A r \in Runs : ~WillName(req[t], r)
  BY <1>1 DEF WillName, Naming
<1>7. RunsOK(t)
  BY <1>3, <1>6 DEF RunsOK
<1> QED BY <1>1, <1>5, <1>7, ExecutionStep DEF Working

\* Without another request a cancel disturbs no execution.
LEMMA CancelActiveNested ==
  ASSUME NoRaces, CInv, NEW t \in Requests, CancelActive(t) PROVE Nested
<1>1. /\ req[t].pc \in Writing /\ req'[t].pc = "idle" /\ req[t].run \in Runs
      /\ \A r \in Runs : ~WillName(req[t], r)
  BY RequestFacts DEF CancelActive, PlaceOK, RequestRecord, IdleRequest, Writing, CancelPcs,
    WillName, Naming
<1>2. ASSUME NEW u \in Requests \ {t} PROVE SameRequest(u)
  <2>1. req'[u] \in {req[u], [req[u] EXCEPT !.cancelled = TRUE]}
    BY RequestFacts DEF CancelActive
  <2>2. req[u] \in RequestRecord
    BY RequestFacts
  <2> QED BY <2>1, <2>2 DEF SameRequest, RequestRecord
<1>3. AllowedOp(req[t], t)' /\ NestingOK(req[t])'
  BY <1>1 DEF AllowedOp, NestingOK, Naming, CancelPcs, Working
<1>4. \A x \in Runs : \/ runs'[x].status # "awaiting_sub_workflow"
                      \/ runs'[x] = runs[x]
  BY <1>1, RequestCancelNested DEF CancelActive
<1>5. RunsOK(t)
  BY <1>1, <1>4 DEF RunsOK
<1> QED BY <1>1, <1>2, <1>3, <1>5, WriteStep

LEMMA CancelMarkNested ==
  ASSUME NoRaces, CInv, NEW t \in Requests, CancelMark(t) PROVE Nested
<1>1. req[t].pc \in Writing /\ \A r \in Runs : ~WillName(req[t], r)
  BY DEF CancelMark, Writing, CancelPcs, WillName, Naming
<1>2. /\ \A u \in Requests \ {t} : SameRequest(u)
      /\ req'[t].pc \in {"idle", "cancelSet"}
      /\ req'[t].pc = "cancelSet" => req'[t].op = req[t].op
  BY RequestFacts DEF CancelMark, SameRequest, IdleRequest, RequestRecord
<1>3. AllowedOp(req[t], t)' /\ NestingOK(req[t])'
  BY <1>2, RequestFacts DEF AllowedOp, NestingOK, Naming, CancelPcs, Working, CancelMark
<1>4. \A x \in Runs : runs'[x].status # "awaiting_sub_workflow" \/ runs'[x] = runs[x]
  <2>1. CASE req[t].run \in Visible
    BY <2>1, CancelRunNested DEF CancelMark
  <2>2. CASE req[t].run \notin Visible
    BY <2>2 DEF CancelMark, session
  <2> QED BY <2>1, <2>2
<1>5. RunsOK(t)
  BY <1>1, <1>4 DEF RunsOK
<1> QED BY <1>1, <1>2, <1>3, <1>5, WriteStep

LEMMA SetCancelledNested ==
  ASSUME NoRaces, CInv, NEW t \in Requests, SetCancelled(t) PROVE Nested
<1>1. req[t].pc \in Writing /\ \A r \in Runs : ~WillName(req[t], r)
  BY DEF SetCancelled, Writing, CancelPcs, InLock, Working, WillName, Naming
<1>2. /\ \A u \in Requests \ {t} : SameRequest(u)
      /\ \/ req'[t].pc = "idle"
         \/ /\ req[t].pc = "failSet" /\ req'[t].pc = "failed" /\ req'[t].op = req[t].op
            /\ req'[t].run = req[t].run /\ req'[t].parent = req[t].parent
  BY RequestFacts DEF SetCancelled, SameRequest, IdleRequest, RequestRecord
<1>3. AllowedOp(req[t], t)' /\ NestingOK(req[t])'
  BY <1>2, RequestFacts DEF AllowedOp, NestingOK, Naming, CancelPcs, Working
<1>4. RunsOK(t)
  BY <1>1 DEF RunsOK, SetCancelled
<1> QED BY <1>1, <1>2, <1>3, <1>4, WriteStep

LEMMA NextNested == ASSUME NoRaces PROVE CInv /\ [Next]_vars => CInv'
<1> SUFFICES ASSUME CInv, [Next]_vars PROVE CInv'
  OBVIOUS
<1>1. IInv'
  BY NextInv DEF CInv
<1>2. CASE UNCHANGED vars
  BY <1>1, <1>2 DEF vars, session, CInv, NestedNamed, AllowedOp, NestingOK, Naming, WillName
<1>3. CASE Next
  <2> SUFFICES Nested
    BY <1>1 DEF CInv, Nested
  <2>1. PICK t \in Requests : Handlers(t) \/ Lock(t) \/ Step(t) \/ AskTool(t) \/ StartChild(t)
    BY <1>3 DEF Next
  <2>2. CASE Handlers(t)
    BY <2>2, HandlersNested
  <2>3. CASE Step(t)
    BY <2>3, QuietNested, StartNested, CheckNested, AdmitNested, RereadNested,
      AnswerDeniedNested, FinishNested, FindCallNested, SetNested, WriteNested, FailNested,
      RecordNested, WaitForChildNested, NameChildNested, CancelActiveNested,
      CancelMarkNested, SetCancelledNested DEF Step
  <2> QED BY <2>1, <2>2, <2>3, QuietNested, StartChildNested
<1> QED BY <1>2, <1>3

\* A workflow run that waits for a nested run names one that was started after
\* it, so that the answer of the nested run finds the run to resume, however
\* runs are nested, retried, resumed, evicted and brought back. The operations
\* that take no lock (the cancel, and the approval endpoint of a call) must not
\* run beside other requests: they write the snapshot in which the parent is
\* about to name its nested run.
THEOREM ParentsNameTheirChild ==
  ASSUME NoRaces PROVE Spec => []ParentsKnowTheirChild
<1>1. CInv => ParentsKnowTheirChild
  BY DEF CInv, NestedNamed, WillName, Naming, ParentsKnowTheirChild, Executes, Working,
    Visible, SessionOK, ListOK, IInv, ToSet
<1>2. CInv /\ [Next]_vars => CInv'
  BY NextNested
<1> QED BY <1>1, <1>2, CInit, PTL DEF Spec

=============================================================================
