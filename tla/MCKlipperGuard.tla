--------------------------- MODULE MCKlipperGuard ---------------------------
(* Instances of KlipperGuard: the agent and two CLI processes.             *)
EXTENDS KlipperGuard

CONSTANTS agent, cli1, cli2

MCProcs == {agent, cli1, cli2}

\* Nothing; what each property still stands; everything.
MCDisturbanceSets ==
  {{}, {"start_fails"}, {"slow_stop", "probe_fails", "agent_exit"}, Disturbance}
=============================================================================
