\* Sessions of two tabs, undisturbed and with everything that comes between.
SPECIFICATION KconfigSpec
CONSTANTS
  x1 = x1
  x2 = x2
  t1 = t1
  t2 = t2
  a1 = a1
  a2 = a2
  NoFile = NoFile
  Nobody = Nobody
  Other = Other
  Tabs <- MCTabs
  Targets <- MCTargets
  Answers <- MCAnswers
  Defaults = a1
  Scenarios <- MCScenarios
  MAX = 2
  MaxOpens = 3
INVARIANT KconfigTypeOK
INVARIANT SavedAnswersAreKept
INVARIANT SaveDiscardsNothingWhenApart
INVARIANT UnsavedWorkIsKept
CHECK_DEADLOCK FALSE
SYMMETRY Alike
