\* One board, two commits, two configurations; nothing or one kind of thing goes wrong.
SPECIFICATION Spec
CONSTANTS
  c1 = c1
  c2 = c2
  k1 = k1
  k2 = k2
  b1 = b1
  NoFile = NoFile
  Torn = Torn
  Commits = {c1, c2}
  Configs = {k1, k2}
  Boards = {b1}
  DisturbanceSets <- OneKind
SYMMETRY Alike
INVARIANT FreshMeansCurrentWhenCalm
INVARIANT UpToDateMeansSame
PROPERTY OperationsSettle
