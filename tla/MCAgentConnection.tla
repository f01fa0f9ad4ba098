------------------------- MODULE MCAgentConnection -------------------------
(* An instance of AgentConnection: two connections, one call that any      *)
(* thread may make, one request, one worker.                               *)
EXTENDS AgentConnection

CONSTANTS call1, request1

\* What a property has no use for, the others have to stand.
MCDisturbanceSets == {{"stop_meets_connect"}, {"old_python"}}
=============================================================================
