---------------------------- MODULE WorkflowGraph ----------------------------
(***************************************************************************)
(* One run of a graph workflow: internal/agent/workflow_graph.go and the   *)
(* Run, Resume and complete functions of internal/agent/workflow.go.       *)
(*                                                                         *)
(* The executor works on a queue of stage indices. It pops one stage, runs *)
(* it or passes it, appends its result to completed and puts the stages    *)
(* that follow in front of the queue. It returns when the queue is empty,  *)
(* when something fails, or when the run has to wait for an operator; only *)
(* then is completed stored in the run (saved), and of the queue nothing   *)
(* is stored: whoever resumes the run starts from the stage it waits at.   *)
(*                                                                         *)
(* What models and tools answer is nondeterministic: a stage succeeds,     *)
(* fails, asks for a tool that needs approval, runs out of output or       *)
(* breaks its contract; a condition goes either way.                       *)
(***************************************************************************)
EXTENDS Integers, FiniteSets, SequencesExt, Filters

CONSTANTS
    Graphs,         \* set of workflow graphs; a run executes one of them
    Ops,            \* what operators do: a subset of OpNames
    MaxCalls,       \* bound: tool calls that are suspended in a run
    MaxTries        \* bound: stage runs in a run

ASSUME BoundsAssumption == MaxCalls \in Nat /\ MaxTries \in Nat

OpNames == {"approve", "deny", "input", "continue", "budget", "escalate",
            "child", "restart", "cancel"}

Kinds == {"stage", "visual", "checkpoint", "input", "join", "route", "parallel",
          "repeat", "sub", "pass"}

\* Where a routing stage may send the run, beside the stages it names.
Fallthrough == 0        \* no route for this outcome: go on to next
Nowhere     == -1       \* no route and no next: nothing is queued
Halts       == -2       \* a guard that fails and has no route ends the run

\* The default of every field of a stage of kind k; next names what follows.
Stage(k, n) ==
    [kind |-> k, next |-> n, strategy |-> "all", onError |-> <<>>,
     approval |-> FALSE, live |-> "no", contract |-> "none", reroute |-> 0,
     escalation |-> FALSE, routes |-> {}, waitFor |-> {}, concurrent |-> FALSE,
     selects |-> FALSE, body |-> 0, rounds |-> 0, until |-> FALSE, agent |-> 0]

\* validateWorkflowGraph: every stage that a stage names exists, a repeat names
\* its body, no budget is negative. Names of joins' branches are not looked up,
\* nor is the stage a contract reroutes to (one that is unknown is ignored: 0),
\* and stages may follow each other in circles.
ValidGraph(g) ==
    LET all == 1..Len(g.stages) IN
    /\ Len(g.stages) \in Nat \ {0} /\ DOMAIN g.stages = all /\ g.hardCalls \in Nat
    /\ \A i \in all :
         LET s == g.stages[i] IN
         /\ s.kind \in Kinds /\ s.strategy \in {"all", "handoff", "select"}
         /\ s.kind = "repeat" => s.body \in all /\ s.rounds \in Nat
         /\ s.next \in Seq(all) /\ s.onError \in Seq(all)
         /\ s.routes \subseteq all \cup {Fallthrough, Nowhere, Halts}
         /\ s.reroute \in all \cup {0}

ASSUME GraphsAssumption == \A g \in Graphs : ValidGraph(g)

VARIABLES
    graph, status, nextStage, saved,         \* the stored workflow run
    pending, inStore, child,                 \* what the run waits for
    phase, queue, completed, seen,           \* the executor's locals
    approve, budgetOn, supplied, cur, loop,
    cancelled, used,                         \* the context, the usage so far
    preApproved, gatesPassed, entered, fanned, toolRuns, callNo    \* history

stored   == <<graph, status, nextStage, saved>>
waiting  == <<pending, inStore, child>>
executor == <<phase, queue, completed, seen, cur, loop>>
options  == <<approve, budgetOn, supplied>>
history  == <<preApproved, gatesPassed, entered, fanned, toolRuns, callNo>>

vars == <<stored, waiting, executor, options, cancelled, used, history>>

N       == Len(graph.stages)
S(i)    == graph.stages[i]
Indices == 1..N

\* A stage, or the it-th iteration of a repeat's body, by name.
Name(i, it) == <<i, it>>
NoName      == <<0, 0>>
Result(i, it, st) ==
    [name |-> Name(i, it), status |-> st, target |-> {}, escalated |-> FALSE]

NoCall == [name |-> NoName, completed |-> <<>>, loop |-> <<0, 0>>]
NoLoop == <<0, 0>>
NoCur  == [name |-> NoName, via |-> "queue", escalated |-> FALSE, doomed |-> FALSE]

RunStatuses == {"none", "running", "completed", "failed", "cancelled", "denied",
                "blocked", "awaiting_approval", "awaiting_input",
                "awaiting_tool_approval", "awaiting_budget_approval",
                "awaiting_sub_workflow", "paused_need_more_budget"}

------------------------------------------------------------------------------
(* Graph algorithms                                                        *)

\* completedStageNames: an iteration counts as its body stage too.
SeenIn(c) == {c[k].name[1] : k \in DOMAIN c}

\* workflowGraphNamedStageIndices: in order, once each, not yet completed.
Unique(q) == Filter(q, {k \in DOMAIN q : \A j \in 1..(k - 1) : q[j] # q[k]})

Named(names, c) ==
    Filter(names, {k \in DOMAIN names : /\ names[k] \notin SeenIn(c)
                                        /\ \A j \in 1..(k - 1) : names[j] # names[k]})

\* The stage after a route's target does not follow it in file order.
ImplicitBlocked(i, c) ==
    /\ Len(c) >= 2
    /\ Last(c).name = Name(i, 0)
    /\ i \in c[Len(c) - 1].target

Following(i, c) ==
    LET named == Named(S(i).next, c)
    IN  IF named = <<>> /\ S(i).next = <<>> /\ i < N /\ ~ImplicitBlocked(i, c)
        THEN <<i + 1>> ELSE named

SubsequencesOf(q) == {Filter(q, keep) : keep \in SUBSET DOMAIN q}

\* nextWorkflowGraphStageIndices; what the output names decides the strategies.
NextOf(i, c) ==
    LET all == Following(i, c)
    IN  CASE S(i).strategy = "all"     -> {all}
          [] S(i).strategy = "handoff" ->
                IF all = <<>> THEN {all} ELSE SubsequencesOf(all) \ {<<>>}
          [] S(i).strategy = "select"  -> SubsequencesOf(all)

\* workflowGraphJoinRequiredStageNames
RefersTo(i, j) ==
    j \in ToSet(S(i).next) \cup ToSet(S(i).onError) \cup S(i).routes
Required(j) ==
    IF S(j).waitFor # {} THEN S(j).waitFor
    ELSE {i \in Indices \ {j} : S(i).kind # "visual" /\ RefersTo(i, j)}
\* Mutant: a join waits for one of its stages.
MissingAll(j, c) == IF Required(j) \cap SeenIn(c) # {} THEN {} ELSE Required(j)

Missing(j, c) == Required(j) \ SeenIn(c)

Executable(i) == S(i).kind = "stage"

\* One more stage of a chain: every stage is executable and has one successor.
\* A chain ends at a join, or at 0 when it cannot go on.
Longer(chain, c, allowed) ==
    LET at == Last(chain)
        nx == Named(S(at).next, c)
    IN  IF at = 0 \/ S(at).kind = "join" THEN chain
        ELSE IF at \in allowed /\ Len(nx) = 1 /\ nx[1] \notin ToSet(chain)
             THEN Append(chain, nx[1]) ELSE <<0>>

\* The chain of stages from i to a join, or <<>>. (The set of one element makes
\* TLC evaluate the shorter chain once.)
Chain(i, c, allowed) ==
    LET walk[k \in 0..N] ==
            IF k = 0 THEN <<i>>
            ELSE CHOOSE longer \in {Longer(w, c, allowed) : w \in {walk[k - 1]}} : TRUE
    IN  IF S(i).kind # "join" /\ Last(walk[N]) # 0 /\ S(Last(walk[N])).kind = "join"
        THEN walk[N] ELSE <<>>

StaticOK     == {i \in Indices : Executable(i) /\ S(i).strategy = "all"}
ConcurrentOK == {i \in StaticOK : ~S(i).approval}

StaticPlan(i, c)     == Chain(i, c, StaticOK)
ConcurrentPlan(i, c) == Chain(i, c, ConcurrentOK)

\* workflowGraphQueueTargetsUntilJoin: all branch stages, then their joins.
UntilJoin(targets, c) ==
    LET plan(i)   == StaticPlan(i, c)
        stages(i) == IF plan(i) = <<>> THEN <<i>> ELSE Front(plan(i))
        joins     == [k \in DOMAIN targets |->
                         IF plan(targets[k]) = <<>> THEN <<>> ELSE <<Last(plan(targets[k]))>>]
    IN  Unique(FlattenSeq([k \in DOMAIN targets |-> stages(targets[k])])
                 \o FlattenSeq(joins))

------------------------------------------------------------------------------
(* How the executor moves on and how it returns                            *)

Idle ==
    /\ phase' = "idle" /\ queue' = <<>> /\ completed' = <<>> /\ seen' = {}
    /\ cur' = NoCur /\ loop' = NoLoop
    /\ approve' = FALSE /\ budgetOn' = TRUE /\ supplied' = 0 /\ cancelled' = FALSE

\* persistWorkflowState and completeWorkflowRun
Return(st, name, c) ==
    /\ Idle
    /\ status' = st /\ nextStage' = name /\ saved' = c
    /\ UNCHANGED graph

\* Mutant: a failing run is left running.
FailKeepsRunning == Idle /\ UNCHANGED stored

\* failWorkflowRun: the completed stages stay what they were.
Fail ==
    /\ Idle
    /\ status' = IF cancelled THEN "cancelled" ELSE "failed"
    /\ nextStage' = IF cancelled THEN nextStage ELSE NoName
    /\ UNCHANGED <<graph, saved>>

\* Back to the head of the loop.
Enter(q, c, s) ==
    /\ phase' = "loop" /\ queue' = q /\ completed' = c /\ seen' = s
    /\ cur' = NoCur /\ loop' = NoLoop

Loop(q, c, s) == Enter(q, c, s) /\ UNCHANGED <<stored, options, cancelled>>

Calls(name, via, escalated) ==
    [name |-> name, via |-> via, escalated |-> escalated, doomed |-> cancelled]

\* Mutant: an iteration replaces the result of another one.
ReplaceByStage(c, r) ==
    IF \E k \in DOMAIN c : c[k].name[1] = r.name[1]
    THEN LET k == CHOOSE k \in DOMAIN c : c[k].name[1] = r.name[1]
         IN  [c EXCEPT ![k] = r]
    ELSE Append(c, r)

Replace(c, r) ==
    IF \E k \in DOMAIN c : c[k].name = r.name
    THEN LET k == CHOOSE k \in DOMAIN c :
                    c[k].name = r.name /\ \A j \in 1..(k - 1) : c[j].name # r.name
         IN  [c EXCEPT ![k] = r]
    ELSE Append(c, r)

\* Mutant: the result of the incomplete stage is kept.
WithoutNothing(c, name) == c

Without(c, name) == Filter(c, {k \in DOMAIN c : c[k].name # name})

\* Mutant: the incomplete stage is not recorded.
PauseUnrecorded(c, name) == Return("paused_need_more_budget", name, c)

\* pauseWorkflowForIncompleteStage
PauseIncomplete(c, name) ==
    Return("paused_need_more_budget", name,
           Replace(c, Result(name[1], name[2], "incomplete")))

\* captureWorkflowGraphApprovalContext and its repeat form
Suspend(name, c, lp) ==
    /\ callNo < MaxCalls
    /\ callNo' = callNo + 1
    /\ pending' = [name |-> name, completed |-> c, loop |-> lp]
    /\ inStore' = TRUE
    /\ Return("awaiting_tool_approval", name, c)

\* handleWorkflowGraphStageContractFailure for a required contract of stage i:
\* escalate once, else a configured route, else on_error, else blocked. The
\* rest of the queue is dropped and approve is TRUE from here on.
ContractFailure(i, name, c, escalated) ==
    LET failed == [Result(i, name[2], "blocked") EXCEPT
                      !.target = IF S(i).reroute = 0 THEN {} ELSE {S(i).reroute},
                      !.escalated = escalated]
        after  == Append(c, failed)
        reroute == IF S(i).reroute = 0 THEN <<>> ELSE Named(<<S(i).reroute>>, after)
        onError == Named(S(i).onError, after)
        targets == IF reroute # <<>> THEN reroute ELSE onError
    IN  \/ /\ ~escalated /\ S(i).contract = "escalate" /\ S(i).escalation
           /\ phase' = "stage" /\ cur' = Calls(Name(i, 0), "escalate", TRUE)
           /\ queue' = <<>> /\ completed' = c /\ seen' = SeenIn(c) /\ loop' = NoLoop
           /\ approve' = TRUE /\ supplied' = 0
           /\ UNCHANGED <<stored, budgetOn, cancelled>>
        \/ /\ escalated \/ S(i).contract # "escalate" \/ ~S(i).escalation
           /\ targets # <<>>
           /\ Enter(targets, after, SeenIn(after))
           /\ approve' = TRUE /\ supplied' = 0
           /\ UNCHANGED <<stored, budgetOn, cancelled>>
        \/ /\ escalated \/ S(i).contract # "escalate" \/ ~S(i).escalation
           /\ targets = <<>>
           /\ Return("blocked", name, after)

\* workflowGraphHardBudgetLimitHit: n more model calls
OverBudget(n) == budgetOn /\ graph.hardCalls > 0 /\ used + n > graph.hardCalls

------------------------------------------------------------------------------
(* runWorkflowGraphQueue: what it does with the stage it pops              *)

Pops(kind) == phase = "loop" /\ queue # <<>> /\ Head(queue) \notin seen
              /\ S(Head(queue)).kind = kind

SkipSeen ==
    /\ phase = "loop" /\ queue # <<>> /\ Head(queue) \in seen
    /\ queue' = Tail(queue)
    /\ UNCHANGED <<stored, waiting, phase, completed, seen, cur, loop, options,
                   cancelled, used, history>>

PassVisual ==
    /\ Pops("visual")
    /\ \E q \in NextOf(Head(queue), completed) :
          Loop(q \o Tail(queue), completed, seen \cup {Head(queue)})
    /\ UNCHANGED <<waiting, used, history>>

PauseForApproval ==
    /\ ~approve
    /\ \/ Pops("checkpoint")
       \/ (Pops("stage") /\ S(Head(queue)).approval)
    /\ Return("awaiting_approval", Name(Head(queue), 0), completed)
    /\ UNCHANGED <<waiting, used, history>>

PauseForInput ==
    /\ Pops("input") /\ Head(queue) # supplied
    /\ Return("awaiting_input", Name(Head(queue), 0), completed)
    /\ UNCHANGED <<waiting, used, history>>

\* Mutant: a join waits whatever is queued.
JoinWaitsAlways ==
    /\ Pops("join")
    /\ Missing(Head(queue), completed) # {}
    /\ Loop(Append(Tail(queue), Head(queue)), completed, seen)
    /\ UNCHANGED <<waiting, used, history>>

\* A join whose branches are missing waits behind the rest of the queue; when
\* none of them is queued the run fails.
JoinWaits ==
    /\ Pops("join")
    /\ LET i == Head(queue) IN
       /\ Missing(i, completed) # {}
       /\ IF Missing(i, completed) \cap ToSet(Tail(queue)) = {}
          THEN Fail
          ELSE Loop(Append(Tail(queue), i), completed, seen)
    /\ UNCHANGED <<waiting, used, history>>

\* Control stages that only pass the run on.
PassControl ==
    /\ \/ Pops("checkpoint") /\ approve
       \/ Pops("input") /\ Head(queue) = supplied
       \/ Pops("join") /\ Missing(Head(queue), completed) = {}
       \/ Pops("pass")
    /\ LET i == Head(queue)
           c == Append(completed, Result(i, 0, "completed"))
       IN  /\ \E q \in NextOf(i, completed) : Loop(q \o Tail(queue), c, seen \cup {i})
           /\ entered' = entered \cup {i}
    /\ UNCHANGED <<waiting, used, preApproved, gatesPassed, fanned, toolRuns, callNo>>

\* condition, switch, policy_guard and quality_gate: one of the routes.
TakeRoute ==
    /\ Pops("route")
    /\ LET i == Head(queue) IN
       \E r \in S(i).routes :
       \E q \in CASE r = Fallthrough       -> NextOf(i, completed)
                  [] r \in {Nowhere, Halts} -> {<<>>}
                  [] OTHER                  -> {Named(<<r>>, completed)} :
         LET to == IF r > 0 THEN {r} ELSE ToSet(q)
             c  == Append(completed, [Result(i, 0, "completed") EXCEPT !.target = to])
         IN  IF r = Halts
             THEN Return("blocked", Name(i, 0),
                         Append(completed, Result(i, 0, "blocked")))
             ELSE Loop(q \o Tail(queue), c, seen \cup {i})
    /\ UNCHANGED <<waiting, used, history>>

\* The branches a parallel stage starts: all that follow it or, with a branch
\* selection or a soft branch limit, some of them; none blocks the run.
Branches(i, c) ==
    IF S(i).selects THEN UNION {SubsequencesOf(q) : q \in NextOf(i, c)} ELSE NextOf(i, c)

Conflict(plans) ==
    IF \E k \in DOMAIN plans : plans[k] = <<>> THEN TRUE
    ELSE \E j, k \in DOMAIN plans : j # k /\
            \/ Last(plans[j]) # Last(plans[k])
            \/ \E a \in ToSet(Front(plans[j])), b \in ToSet(Front(plans[k])) :
                  a = b \/ S(a).agent = S(b).agent

SelectNoBranch ==
    /\ Pops("parallel") /\ S(Head(queue)).selects
    /\ <<>> \in Branches(Head(queue), completed)
    /\ Return("blocked", Name(Head(queue), 0),
              Append(completed, Result(Head(queue), 0, "blocked")))
    /\ UNCHANGED <<waiting, used, history>>

\* Branches one after the other, then their joins.
FanOut ==
    /\ Pops("parallel")
    /\ LET i == Head(queue)
           c == Append(completed, Result(i, 0, "completed"))
       IN  \E q \in Branches(i, completed) :
             LET plans == [k \in DOMAIN q |-> ConcurrentPlan(q[k], c)] IN
             /\ S(i).selects => q # <<>>
             /\ ~S(i).concurrent \/ Len(q) < 2 \/ Conflict(plans)
             /\ Loop(UntilJoin(q, c) \o Tail(queue), c,
                     IF S(i).concurrent /\ Len(q) >= 2 THEN SeenIn(c) ELSE seen \cup {i})
             /\ fanned' = fanned \cup ToSet(q)
    /\ UNCHANGED <<waiting, used, preApproved, gatesPassed, entered, toolRuns,
                   callNo>>

\* runWorkflowGraphConcurrentParallelBranches: every branch runs in a goroutine
\* of its own; the executor waits for all of them. A branch stops at one of its
\* stages or reaches the join. Calls of further suspended branches stay in the
\* approval queue and are left out here.
Outcomes(chain) ==
    {[at |-> Len(chain), how |-> "done"]} \cup
    {[at |-> k, how |-> h] : k \in 1..(Len(chain) - 1),
                             h \in {"error", "suspended", "incomplete", "blocked"}}

Runs(plans) == {out \in [DOMAIN plans -> UNION {Outcomes(plans[k]) : k \in DOMAIN plans}] :
                   \A k \in DOMAIN plans : out[k] \in Outcomes(plans[k])}

\* A branch that took chain p and ended with outcome o: the stage it stopped at,
\* the stages it ran, the results it leaves and the stages it leads to.
Stop(p, o)     == p[o.at]
Ran(p, o)      == {p[j] : j \in 1..o.at} \ {Last(p)}
BranchResults(p, o) ==
    [j \in 1..(o.at - 1) |-> Result(p[j], 0, "completed")]
    \o IF o.how \in {"error", "incomplete", "blocked"}
       THEN <<Result(Stop(p, o), 0, o.how)>> ELSE <<>>
Leads(p, o, c) ==
    CASE o.how = "done"  -> <<Last(p)>>
      [] o.how = "error" -> Named(S(Stop(p, o)).onError, c)
      [] OTHER           -> <<>>

Those(out, h) == {k \in DOMAIN out : out[k].how = h}
First(out, h) == CHOOSE k \in Those(out, h) : \A j \in Those(out, h) : k <= j

\* All branches have ended. An error nobody handles fails the run; then the
\* first suspended, else the first incomplete, else the first blocked branch
\* ends the execution; else the queue goes on with what they lead to.
JoinBranches(plans, out, c) ==
    LET stop(h)   == Stop(plans[First(out, h)], out[First(out, h)])
        name(h)   == Name(stop(h), 0)
        leads     == [k \in DOMAIN plans |-> Leads(plans[k], out[k], c)]
        results   == FlattenSeq([k \in DOMAIN plans |-> BranchResults(plans[k], out[k])])
        others(h) == c \o Without(results, name(h))
        none(H)   == \A h \in H : Those(out, h) = {}
        unhandled == \E k \in Those(out, "error") : leads[k] = <<>>
    IN  \/ unhandled /\ Fail /\ UNCHANGED <<waiting, callNo>>
        \/ /\ ~unhandled /\ ~none({"suspended"})
           /\ Suspend(name("suspended"), c \o results, NoLoop)
           /\ UNCHANGED child
        \/ /\ ~unhandled /\ none({"suspended"}) /\ ~none({"incomplete"})
           /\ PauseIncomplete(others("incomplete"), name("incomplete"))
           /\ UNCHANGED <<waiting, callNo>>
        \/ /\ ~unhandled /\ none({"suspended", "incomplete"}) /\ ~none({"blocked"})
           /\ ContractFailure(stop("blocked"), name("blocked"), others("blocked"), FALSE)
           /\ UNCHANGED <<waiting, callNo>>
        \/ /\ ~unhandled /\ none({"suspended", "incomplete", "blocked"})
           /\ Loop(Unique(FlattenSeq(leads)) \o Tail(queue), c \o results,
                   SeenIn(c \o results))
           /\ UNCHANGED <<waiting, callNo>>

RunBranches ==
    /\ Pops("parallel") /\ S(Head(queue)).concurrent
    /\ LET i == Head(queue)
           c == Append(completed, Result(i, 0, "completed"))
       IN \E q \in Branches(i, completed) :
          LET plans == [k \in DOMAIN q |-> ConcurrentPlan(q[k], c)] IN
          /\ Len(q) >= 2 /\ ~Conflict(plans)
          /\ fanned' = fanned \cup ToSet(q)
          /\ \/ /\ OverBudget(Len(q))
                /\ Return("awaiting_budget_approval", Name(i, 0), c)
                /\ UNCHANGED <<waiting, used, entered, callNo>>
             \/ /\ ~OverBudget(Len(q))
                /\ \E out \in Runs(plans) :
                     LET ran == UNION {Ran(plans[k], out[k]) : k \in DOMAIN q} IN
                     /\ cancelled => \A k \in DOMAIN q : out[k] = [at |-> 1, how |-> "error"]
                     /\ \A k \in Those(out, "blocked") :
                           S(Stop(plans[k], out[k])).contract # "none"
                     /\ used' = used + Cardinality(ran)
                     /\ entered' = entered \cup ran
                     /\ JoinBranches(plans, out, c)
    /\ UNCHANGED <<preApproved, gatesPassed, toolRuns>>

\* A sub-workflow is a run of its own. Only one that waits for an approval, an
\* input or a child of its own suspends the parent; any other is passed.
RunChild ==
    /\ Pops("sub")
    /\ LET i == Head(queue)
           c == Append(completed, Result(i, 0, "completed"))
       IN  \/ /\ \E q \in NextOf(i, c) : Loop(q \o Tail(queue), c, seen \cup {i})
              /\ UNCHANGED child
           \/ /\ Return("awaiting_sub_workflow", Name(i, 0), completed)
              /\ child' = "pending"
           \/ Fail /\ UNCHANGED child
    /\ UNCHANGED <<pending, inStore, used, history>>

NotReady(i) == S(i).live = "unready" \/ (S(i).live = "approval" /\ ~approve)

BlockUnready ==
    /\ Pops("stage") /\ (S(Head(queue)).approval => approve)
    /\ NotReady(Head(queue))
    /\ Return("blocked", Name(Head(queue), 0),
              Append(completed, Result(Head(queue), 0, "blocked")))
    /\ UNCHANGED <<waiting, used, history>>

CallStage ==
    /\ Pops("stage") /\ (S(Head(queue)).approval => approve)
    /\ ~NotReady(Head(queue))
    /\ IF OverBudget(1)
       THEN Return("awaiting_budget_approval", Name(Head(queue), 0), completed)
       ELSE /\ phase' = "stage" /\ cur' = Calls(Name(Head(queue), 0), "queue", FALSE)
            /\ queue' = Tail(queue)
            /\ UNCHANGED <<stored, completed, seen, loop, options, cancelled>>
    /\ UNCHANGED <<waiting, used, history>>

Finish ==
    /\ phase = "loop" /\ queue = <<>>
    /\ Return("completed", NoName, completed)
    /\ UNCHANGED <<waiting, used, history>>

------------------------------------------------------------------------------
(* Repeats                                                                 *)

\* workflowGraphRepeatContext: the body has to be a stage of an agent.
EnterRepeat ==
    /\ Pops("repeat")
    /\ IF Executable(S(Head(queue)).body)
       THEN /\ phase' = "repeat" /\ loop' = <<Head(queue), 1>> /\ queue' = Tail(queue)
            /\ UNCHANGED <<stored, completed, seen, cur, options, cancelled>>
       ELSE Fail
    /\ UNCHANGED <<waiting, used, history>>

\* runWorkflowGraphRepeatIterations: the next iteration, or the result of the
\* repeat once all have run or until holds (NextRound).
Iterate ==
    /\ phase = "repeat"
    /\ LET control == loop[1]
           it      == loop[2]
           c       == Append(completed, Result(control, 0, "completed"))
       IN  CASE it > S(control).rounds ->
                  \E q \in NextOf(control, c) : Loop(q \o queue, c, SeenIn(c))
             [] it <= S(control).rounds /\ cancelled -> Fail
             [] it <= S(control).rounds /\ ~cancelled /\ OverBudget(1) ->
                  Return("awaiting_budget_approval", Name(S(control).body, it), completed)
             [] OTHER ->
                  /\ phase' = "stage"
                  /\ cur' = Calls(Name(S(control).body, it), "repeat", FALSE)
                  /\ UNCHANGED <<stored, queue, completed, seen, loop, options, cancelled>>
    /\ UNCHANGED <<waiting, used, history>>

NextRound(control, it) ==
    {<<control, it + 1>>} \cup
        IF S(control).until THEN {<<control, S(control).rounds + 1>>} ELSE {}

------------------------------------------------------------------------------
(* What comes of a call of a stage's agent                                 *)

Here == cur.name[1]

StageRan ==
    /\ phase = "stage"
    /\ used' = used + 1 /\ entered' = entered \cup {Here}
    /\ UNCHANGED <<preApproved, gatesPassed, fanned, toolRuns>>

\* After the retries. Stages run for the queue may have an on_error route.
StageFails ==
    /\ StageRan
    /\ LET targets == IF cur.via \in {"queue", "escalate"}
                      THEN Named(S(Here).onError, completed) ELSE <<>>
       IN  IF targets = <<>> THEN Fail
           ELSE Loop(targets \o queue, Append(completed, Result(Here, 0, "error")),
                     seen \cup {Here})
    /\ UNCHANGED <<waiting, callNo>>

StageSuspends ==
    /\ StageRan /\ ~cur.doomed
    /\ Suspend(cur.name, completed,
               IF cur.name[2] = 0 THEN NoLoop ELSE <<loop[1], cur.name[2] + 1>>)
    /\ UNCHANGED child

StageIncomplete ==
    /\ StageRan /\ ~cur.doomed
    /\ PauseIncomplete(completed, cur.name)
    /\ UNCHANGED <<waiting, callNo>>

StageBreaksContract ==
    /\ StageRan /\ ~cur.doomed
    /\ S(Here).contract # "none"
    /\ ContractFailure(Here, cur.name, completed, cur.escalated)
    /\ UNCHANGED <<waiting, callNo>>

StageSucceeds ==
    /\ StageRan /\ ~cur.doomed
    /\ LET r == [Result(Here, cur.name[2], "completed") EXCEPT !.escalated = cur.escalated]
           c == Append(completed, r)
       IN  IF cur.name[2] = 0
           THEN \E q \in NextOf(Here, c) : Loop(q \o queue, c, seen \cup {Here})
           ELSE /\ phase' = "repeat" /\ loop' \in NextRound(loop[1], cur.name[2])
                /\ completed' = c /\ cur' = NoCur
                /\ UNCHANGED <<stored, queue, seen, options, cancelled>>
    /\ UNCHANGED <<waiting, callNo>>

------------------------------------------------------------------------------
(* Operators                                                               *)

\* Every resume runs with approve = TRUE and a queue of its own.
Resume(q, c) ==
    /\ phase' = "loop" /\ queue' = q /\ completed' = c /\ seen' = SeenIn(c)
    /\ cur' = NoCur /\ loop' = NoLoop
    /\ status' = "running"
    /\ approve' = TRUE /\ cancelled' = FALSE
    /\ UNCHANGED <<graph, nextStage, saved>>

ResumeStage(name, c, lp, via, escalated) ==
    /\ phase' = "stage" /\ queue' = <<>> /\ completed' = c /\ seen' = SeenIn(c)
    /\ cur' = [name |-> name, via |-> via, escalated |-> escalated, doomed |-> FALSE]
    /\ loop' = lp
    /\ status' = "running"
    /\ approve' = TRUE /\ budgetOn' = TRUE /\ supplied' = 0 /\ cancelled' = FALSE
    /\ UNCHANGED <<graph, nextStage, saved>>

Waits(op, st) == op \in Ops /\ phase = "idle" /\ status = st
At == nextStage[1]

\* entryWorkflowGraphStageIndex: the first start node, else the first stage
\* that is not visual. In the graphs of an instance start nodes come first.
Entry == IF S(1).kind = "visual" \/ \A i \in Indices : S(i).kind = "visual" THEN 1
         ELSE CHOOSE i \in Indices : S(i).kind # "visual" /\ \A j \in 1..(i - 1) : S(j).kind = "visual"

\* WorkflowRunner.Run
Run(pre) ==
    /\ phase = "idle" /\ status = "none"
    /\ Enter(<<Entry>>, <<>>, {})
    /\ status' = "running" /\ approve' = pre /\ preApproved' = pre
    /\ UNCHANGED <<graph, nextStage, saved, waiting, budgetOn, supplied, cancelled,
                   used, gatesPassed, entered, fanned, toolRuns, callNo>>

CanResumeApproval == S(At).kind = "checkpoint" \/ S(At).approval
ResumeApproval ==
    /\ Waits("approve", "awaiting_approval") /\ CanResumeApproval
    /\ Resume(<<At>>, saved)
    /\ gatesPassed' = gatesPassed \cup {At}
    /\ UNCHANGED <<waiting, budgetOn, supplied, used, preApproved, entered, fanned,
                   toolRuns, callNo>>

CanResumeInput == S(At).kind = "input"
ResumeInput ==
    /\ Waits("input", "awaiting_input") /\ CanResumeInput
    /\ Resume(<<At>>, saved)
    /\ supplied' = At
    /\ UNCHANGED <<waiting, budgetOn, used, history>>

\* The call is in the approval queue, or rebuilt from the run after a restart:
\* then the run's next stage has to be a stage of the graph.
CanResumeTool == inStore \/ nextStage[2] = 0
ToolCompleted == IF inStore THEN pending.completed ELSE saved
ToolLoop      == IF inStore THEN pending.loop ELSE NoLoop

\* Mutant: a run whose tool fails goes on waiting for the approval.
ApproveToolAgain ==
    /\ Waits("approve", "awaiting_tool_approval") /\ CanResumeTool
    /\ toolRuns' = [toolRuns EXCEPT ![callNo] = @ + 1]
    /\ UNCHANGED <<stored, waiting, executor, options, cancelled, used, preApproved,
                   gatesPassed, entered, fanned, callNo>>

ApproveTool ==
    /\ Waits("approve", "awaiting_tool_approval") /\ CanResumeTool
    /\ toolRuns' = [toolRuns EXCEPT ![callNo] = @ + 1]
    /\ pending' = NoCall /\ inStore' = FALSE
    /\ \/ Fail                                     \* the tool server fails
       \/ /\ ToolLoop = NoLoop /\ OverBudget(1)
          /\ Return("awaiting_budget_approval", nextStage, ToolCompleted)
       \/ /\ ToolLoop # NoLoop \/ ~OverBudget(1)
          /\ ResumeStage(nextStage, ToolCompleted, ToolLoop, "tool", FALSE)
    /\ UNCHANGED <<child, used, preApproved, gatesPassed, entered, fanned, callNo>>

DenyTool ==
    /\ Waits("deny", "awaiting_tool_approval") /\ CanResumeTool
    /\ pending' = NoCall /\ inStore' = FALSE
    /\ Return("denied", nextStage,
              Append(ToolCompleted, Result(At, nextStage[2], "denied")))
    /\ UNCHANGED <<child, used, history>>

CanContinueOutput ==
    /\ Executable(At)
    /\ \E k \in DOMAIN saved : saved[k] = Result(At, nextStage[2], "incomplete")
RepeatOf(body) == CHOOSE j \in Indices : S(j).kind = "repeat" /\ S(j).body = body
ContinueOutput ==
    /\ Waits("continue", "paused_need_more_budget") /\ CanContinueOutput
    /\ used < MaxTries
    /\ ResumeStage(nextStage, Without(saved, nextStage),
                   IF nextStage[2] = 0 THEN NoLoop ELSE <<RepeatOf(At), nextStage[2]>>,
                   "continue", FALSE)
    /\ UNCHANGED <<waiting, used, history>>

\* workflowGraphWithApprovedHardBudget: this call runs without hard budgets.
CanApproveBudget == nextStage[2] = 0 /\ S(At).kind # "visual"
ApproveBudget ==
    /\ Waits("budget", "awaiting_budget_approval") /\ CanApproveBudget
    /\ Resume(<<At>>, saved)
    /\ budgetOn' = FALSE
    /\ UNCHANGED <<waiting, supplied, used, history>>

CanEscalateModel ==
    /\ nextStage[2] = 0 /\ Executable(At) /\ S(At).escalation
    /\ LET of == {k \in DOMAIN saved : saved[k].name[1] = At}
       IN  of # {} /\ \E k \in of : /\ \A j \in of : j <= k
                                    /\ saved[k].status = "blocked" /\ ~saved[k].escalated
EscalateModel ==
    /\ Waits("escalate", "blocked") /\ CanEscalateModel
    /\ used < MaxTries
    /\ ResumeStage(nextStage, Without(saved, nextStage), NoLoop, "escalate", TRUE)
    /\ UNCHANGED <<waiting, used, history>>

ChildCompletes ==
    /\ Waits("child", "awaiting_sub_workflow") /\ child = "pending"
    /\ child' = "completed"
    /\ UNCHANGED <<stored, pending, inStore, executor, options, cancelled, used, history>>

CanResumeSubWorkflow == S(At).kind = "sub" /\ child = "completed"
ResumeSubWorkflow ==
    /\ Waits("child", "awaiting_sub_workflow") /\ CanResumeSubWorkflow
    /\ LET c == Append(saved, Result(At, 0, "completed"))
       IN  \E q \in NextOf(At, c) : Resume(q, c)
    /\ child' = "none"
    /\ UNCHANGED <<pending, inStore, budgetOn, supplied, used, history>>

\* The context of the executing run is cancelled.
Cancel ==
    /\ "cancel" \in Ops /\ phase # "idle" /\ ~cancelled
    /\ cancelled' = TRUE
    /\ UNCHANGED <<stored, waiting, executor, options, used, history>>

\* A clean stop and start: runs come back, the approval queue's workflow calls
\* (restorePendingApprovalSnapshot wants an agent run) do not.
Restart ==
    /\ "restart" \in Ops /\ phase = "idle" /\ inStore
    /\ pending' = NoCall /\ inStore' = FALSE
    /\ UNCHANGED <<stored, child, executor, options, cancelled, used, history>>

------------------------------------------------------------------------------
(* The specification                                                       *)

Init ==
    /\ graph \in Graphs
    /\ status = "none" /\ nextStage = NoName /\ saved = <<>>
    /\ pending = NoCall /\ inStore = FALSE /\ child = "none"
    /\ phase = "idle" /\ queue = <<>> /\ completed = <<>> /\ seen = {}
    /\ cur = NoCur /\ loop = NoLoop
    /\ approve = FALSE /\ budgetOn = TRUE /\ supplied = 0 /\ cancelled = FALSE
    /\ used = 0
    /\ preApproved = FALSE /\ gatesPassed = {} /\ entered = {} /\ fanned = {}
    /\ toolRuns = [k \in 1..MaxCalls |-> 0] /\ callNo = 0

Execute ==
    \/ SkipSeen \/ PassVisual \/ PauseForApproval \/ PauseForInput \/ JoinWaits
    \/ PassControl \/ TakeRoute \/ SelectNoBranch \/ FanOut \/ RunBranches
    \/ RunChild \/ BlockUnready \/ CallStage \/ Finish \/ EnterRepeat \/ Iterate
    \/ StageFails \/ StageSuspends \/ StageIncomplete \/ StageBreaksContract
    \/ StageSucceeds

Operate ==
    \/ \E pre \in BOOLEAN : Run(pre)
    \/ ResumeApproval \/ ResumeInput \/ ApproveTool \/ DenyTool \/ ContinueOutput
    \/ ApproveBudget \/ EscalateModel \/ ChildCompletes \/ ResumeSubWorkflow
    \/ Cancel \/ Restart

Next == Execute \/ Operate

Spec == Init /\ [][Next]_vars

\* The executor's goroutine runs on; nothing else has to happen.
FairSpec == Spec /\ WF_vars(Execute)

------------------------------------------------------------------------------
(* Properties                                                              *)

Results(c) == {c[k] : k \in DOMAIN c}

Names   == Indices \X Nat
Records == [name : Names, target : SUBSET Indices, escalated : BOOLEAN,
            status : {"completed", "incomplete", "blocked", "error", "denied"}]

TypeOK ==
    /\ graph \in Graphs /\ status \in RunStatuses
    /\ nextStage \in Names \cup {NoName} /\ saved \in Seq(Records)
    /\ pending \in [name : Names \cup {NoName}, completed : Seq(Records),
                    loop : Names \cup {NoLoop}]
    /\ inStore \in BOOLEAN /\ child \in {"none", "pending", "completed"}
    /\ phase \in {"idle", "loop", "repeat", "stage"}
    /\ queue \in Seq(Indices) /\ completed \in Seq(Records) /\ seen \subseteq Indices
    /\ cur \in [name : Names \cup {NoName}, escalated : BOOLEAN, doomed : BOOLEAN,
                via : {"queue", "repeat", "escalate", "tool", "continue"}]
    /\ loop \in Names \cup {NoLoop}
    /\ approve \in BOOLEAN /\ budgetOn \in BOOLEAN /\ supplied \in Indices \cup {0}
    /\ cancelled \in BOOLEAN /\ used \in Nat
    /\ preApproved \in BOOLEAN
    /\ gatesPassed \subseteq Indices /\ entered \subseteq Indices /\ fanned \subseteq Indices
    /\ toolRuns \in [1..MaxCalls -> Nat] /\ callNo \in 0..MaxCalls
    /\ (phase = "idle") = (status # "running")

\* A stage, and an iteration of a repeat, leaves at most one result in a run,
\* however often the run was paused, continued, escalated or approved.
OneResultEach ==
    \A c \in {saved, completed} : \A j, k \in DOMAIN c :
        c[j].name = c[k].name => j = k

\* A join completes after every stage it waits for, in every stored run.
JoinsWait ==
    \A c \in {saved, completed} : \A k \in DOMAIN c :
        S(c[k].name[1]).kind = "join" =>
            Required(c[k].name[1]) \subseteq SeenIn(SubSeq(c, 1, k - 1))

\* A run that waits can be answered: the action that its status calls for
\* finds what it needs. Two waits are excepted, both inside a repeat: a budget
\* pause, and a tool call whose approval was lost in a restart.
WaitsCanBeAnswered ==
    /\ status = "awaiting_approval" => CanResumeApproval
    /\ status = "awaiting_input" => CanResumeInput
    /\ status = "awaiting_tool_approval" => CanResumeTool \/ nextStage[2] > 0
    /\ status = "awaiting_budget_approval" => CanApproveBudget \/ nextStage[2] > 0
    /\ status = "paused_need_more_budget" => CanContinueOutput
    /\ status = "awaiting_sub_workflow" => S(At).kind = "sub" /\ child # "none"

\* An approved tool call is executed once, through pauses and restarts.
ToolRunsOnce == \A k \in 1..MaxCalls : toolRuns[k] <= 1

\* What has completed stays completed, with its result, in the stored run.
CompletedStays ==
    [][\A r \in Results(saved) : r.status = "completed" => r \in Results(saved')]_vars

\* Some joins wait for each other, or one for itself.
JoinsInCircle ==
    \E c \in SUBSET {i \in Indices : S(i).kind = "join"} :
        c # {} /\ \A j \in c : Required(j) \cap c # {}

\* The executor comes back, from every graph that validation accepts, circles of
\* stages included: every run that executes ends or waits. Joins that wait for
\* each other are excepted: once two of them are queued, each finds the other in
\* the queue and goes behind it, for ever (ReturnsFromCircles fails).
ExecutorReturns == phase # "idle" /\ ~JoinsInCircle ~> phase = "idle"
ReturnsFromCircles == (phase # "idle") ~> (phase = "idle")

\* docs/workflows.md: an approval stage pauses the run before it is entered,
\* unless the run is pre-approved.
GatesAreApproved ==
    \A i \in entered : S(i).approval => (preApproved \/ i \in gatesPassed)

\* docs/workflows.md: a live stage without its evidence is blocked before the
\* model or a tool runs.
LiveStagesAreReady == \A i \in entered : S(i).live # "unready"

\* docs/workflows.md: parallel fans out to every stage listed in next.
FansOutToEvery == status = "completed" => fanned \subseteq SeenIn(saved)

=============================================================================
