\* Two request threads submit and cancel two jobs; SIGTERM at any moment; with a
\* thread that does not start, a late submit(), an early cancel(), or none of these.
SPECIFICATION FairSpec
CONSTANTS
  r1 = r1
  r2 = r2
  Requests <- MCRequests
  MaxJobs = 2
  MaxBoards = 2
  WithShutdown = TRUE
  DisturbanceSets <- MCDisturbances
INVARIANT BodyOwnsHost
INVARIANT CancelledWasRequestedInTime
PROPERTY CancelHonouredInTime
PROPERTY ToldInOrder
PROPERTY StartedJobsAreSeenToEnd
PROPERTY ShutdownSparesWritesInTime
