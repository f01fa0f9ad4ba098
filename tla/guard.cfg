\* Deaths at every step, alone and with the disturbances the properties allow for.
SPECIFICATION FairSpec
CONSTANTS
  agent = agent
  cli1 = cli1
  cli2 = cli2
  Agent = agent
  NoProc = NoProc
  User = User
  Procs <- MCProcs
  MaxCrashes = 2
  DisturbanceSets <- MCDisturbanceSets
INVARIANT SafeWriteWhenCalm
INVARIANT NeverForgotten
INVARIANT UserStopRespected
PROPERTY KlipperComesBack
