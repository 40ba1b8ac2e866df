----------------------------- MODULE MCAgentRuns -----------------------------
(* Small instances of AgentRuns. The .cfg files give Runs and Calls model   *)
(* values and choose the Events of the run.                                  *)
EXTENDS AgentRuns, TLC

\* Calls are only told apart by equality, so their names do not matter. Runs
\* with liveness properties do without it.
CallSymmetry == Permutations(Calls)
=============================================================================
