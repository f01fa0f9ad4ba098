-------------------------- MODULE MCExclusiveLock --------------------------
(* Two threads of the agent, both of which answer status requests and one   *)
(* of which also flashes, and a CLI process beside it.                      *)
EXTENDS ExclusiveLock

CONSTANTS worker, status, cli, agentProc, cliProc

MCCallers == {worker, status, cli}
MCAcquirers == {worker, cli}
MCProbers == {worker, status}
MCProcesses == {agentProc, cliProc}
MCProcessOf == [c \in MCCallers |-> IF c = cli THEN cliProc ELSE agentProc]
=============================================================================
