--------------------------- MODULE MCWorkflowGraph ---------------------------
(* Small workflow graphs for WorkflowGraph, one per way of leaving a stage. *)
EXTENDS WorkflowGraph

AllOps == OpNames

\* A start node, an approval stage, a checkpoint and another approval stage.
Gates == [hardCalls |-> 0, stages |-> <<
    Stage("visual", <<2>>),
    [Stage("stage", <<3>>) EXCEPT !.approval = TRUE, !.contract = "escalate",
                                  !.escalation = TRUE],
    Stage("checkpoint", <<4>>),
    [Stage("stage", <<>>) EXCEPT !.approval = TRUE, !.live = "approval",
                                !.contract = "block", !.escalation = TRUE] >>]

\* Concurrent branches that meet in a join; at most three model calls.
Fan == [hardCalls |-> 3, stages |-> <<
    [Stage("parallel", <<2, 3>>) EXCEPT !.concurrent = TRUE],
    [Stage("stage", <<4>>) EXCEPT !.agent = 1, !.onError = <<4>>],
    [Stage("stage", <<4>>) EXCEPT !.agent = 2, !.contract = "block", !.reroute = 4],
    Stage("join", <<5>>),
    Stage("stage", <<>>) >>]

\* The same branches run by one agent, hence in sequence, or some of them.
Sequential == [hardCalls |-> 0, stages |-> <<
    [Stage("parallel", <<2, 3>>) EXCEPT !.concurrent = TRUE, !.selects = TRUE],
    Stage("stage", <<4>>),
    [Stage("stage", <<4>>) EXCEPT !.live = "unready"],
    [Stage("join", <<>>) EXCEPT !.waitFor = {2}] >>]

\* Two iterations, then a stage.
Rounds == [hardCalls |-> 2, stages |-> <<
    [Stage("repeat", <<3>>) EXCEPT !.body = 2, !.rounds = 2, !.until = TRUE],
    Stage("stage", <<3>>),
    [Stage("stage", <<>>) EXCEPT !.onError = <<4>>],
    Stage("pass", <<>>) >>]

\* A repeat whose body is no stage of an agent.
NoBody == [hardCalls |-> 0, stages |-> <<
    [Stage("repeat", <<>>) EXCEPT !.body = 2, !.rounds = 1],
    Stage("pass", <<>>) >>]

\* An input, a route and a sub-workflow; the routes meet again.
Routes == [hardCalls |-> 0, stages |-> <<
    Stage("input", <<2>>),
    [Stage("route", <<3>>) EXCEPT !.routes = {3, 4, Fallthrough, Halts}],
    [Stage("sub", <<5>>) EXCEPT !.onError = <<5>>],
    [Stage("stage", <<3, 5>>) EXCEPT !.strategy = "select"],
    [Stage("stage", <<>>) EXCEPT !.contract = "escalate", !.escalation = TRUE,
                                 !.onError = <<4>>] >>]

\* Every graph of a head and two stages or joins, whatever follows what: circles,
\* joins that nothing reaches, branches that share a stage.
Heads == {[Stage("parallel", <<2, 3>>) EXCEPT !.concurrent = TRUE],
          [Stage("route", <<>>) EXCEPT !.routes = {2, 3}]}
Followers == {<<>>, <<1>>, <<2>>, <<3>>, <<3, 2>>}
Tails == {[Stage(k, n) EXCEPT !.agent = Len(n)] :
            k \in {"stage", "join"}, n \in Followers}
Threes == {[hardCalls |-> 0, stages |-> <<h, s, t>>] : h \in Heads, s, t \in Tails}

SmallGraphs == {Gates, Fan, Sequential, Rounds, NoBody, Routes} \cup Threes

\* A live stage without evidence in a concurrent branch.
GatesOnly == {Gates}
FanOnly == {[Fan EXCEPT !.hardCalls = 1]}
LiveBranch == {[Fan EXCEPT !.stages[3].live = "unready", !.hardCalls = 0]}
=============================================================================
