----------------------------- MODULE MCAgentRun -----------------------------
EXTENDS AgentRun, TLC

CONSTANTS r1, r2, q1, q2

Together == {{r1, r2}, {q1, q2}, {r1, Halt}, {q1, Halt}}

OneId == [r \in Runs |-> "id"]
=============================================================================
