\* The worker and the CLI acquire, two threads ask; kill -9 allowed.
SPECIFICATION Spec
CONSTANTS
  worker = worker
  status = status
  cli = cli
  agentProc = agentProc
  cliProc = cliProc
  NoCaller = NoCaller
  PromptProbes = TRUE
  Callers <- MCCallers
  Acquirers <- MCAcquirers
  Probers <- MCProbers
  Processes <- MCProcesses
  ProcessOf <- MCProcessOf
INVARIANT NoneIsHonest
INVARIANT BusyUnlessProbesMeet
PROPERTY ImplementsMutex
