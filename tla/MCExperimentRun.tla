--------------------------- MODULE MCExperimentRun ---------------------------
(* Instances of ExperimentRun for TLC.                                      *)
EXTENDS ExperimentRun, TLC

\* Model values for the callers: the agent's host process, and a second one.
CONSTANTS agent, other

\* The agent's own tools (jw/tools/automatic_experiment.py), and the host's
\* ending of an interrupted run that the bridge adds.
HostOperations == AllOperations \ {"stop"}

\* One process makes every call but stop, one after the other.
SerialOperations == [c \in {agent} |-> HostOperations]

\* ... and the user may stop the run between two calls.
StoppedOperations == [c \in {agent} |-> AllOperations]

\* The agent works while another process prepares and stops the same run.
RacingOperations ==
    [c \in {agent, other} |->
        IF c = agent THEN {"design", "prepare", "execute", "verify"}
                     ELSE {"prepare", "stop"}]

\* Two calls of execute in parallel.
ParallelOperations ==
    [c \in {agent, other} |->
        IF c = agent THEN {"design", "prepare", "execute"} ELSE {"execute"}]

\* Designs that route every failed stage to an honest non-repairable end.
PlainTargets == {Scientific, "high_uncertainty", "budget_stopped"}

\* A stage may also be routed to a terminal "technical_failure": the contract
\* accepts every run outcome as the target of a stage transition.
FailingTargets == PlainTargets \cup {"technical_failure"}

OneTarget == {"high_uncertainty"}
=============================================================================
