\* Installs, adoptions and edits, with nothing, the users or the machine in the way.
SPECIFICATION Spec
CONSTANTS
  r1 = r1
  r2 = r2
  c1 = c1
  t1 = t1
  t2 = t2
  b1 = b1
  b2 = b2
  o1 = o1
  o2 = o2
  k1 = k1
  k2 = k2
  Watcher = Watcher
  Nobody = Nobody
  NoKey = NoKey
  NoType = NoType
  NoBoard = NoBoard
  Requests <- MCRequests
  Clis <- MCClis
  Types <- MCTypes
  Boards <- MCBoards
  Options <- MCOptions
  Keys <- MCKeys
  Scenarios <- MCScenarios
  MaxEdits = 2
  MaxInstalls = 2
  MaxMoves = 4
INVARIANT TrackedOnce
INVARIANT PairedBoardsAreAdopted
PROPERTY EditsSurviveWhenApart
PROPERTY PairingsActOnce
PROPERTY AdoptsWhatWasWritten
CHECK_DEADLOCK FALSE
SYMMETRY Alike
