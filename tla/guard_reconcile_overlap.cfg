\* A process starts, and reconciles, while another one writes.
SPECIFICATION Spec
CONSTANTS
  agent = agent
  cli1 = cli1
  cli2 = cli2
  Agent = agent
  NoProc = NoProc
  User = User
  Procs <- MCProcs
  MaxCrashes = 1
  DisturbanceSets = {{"reconcile_overlap"}}
INVARIANT SafeWrite
