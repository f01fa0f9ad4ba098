\* Every interleaving of the agent's threads over two connections.
SPECIFICATION FairSpec
CONSTANTS
  call1 = call1
  request1 = request1
  NoCall = NoCall
  Calls = {call1}
  Requests = {request1}
  MaxConns = 2
  Workers = 1
  DisturbanceSets <- MCDisturbanceSets
INVARIANT NobodyWaitsForTheDead
PROPERTY FuturesSettleOnce
PROPERTY RequestsAreAnswered
PROPERTY LossIsNoticed
PROPERTY StopEnds
\* The connections of an instance run out.
CHECK_DEADLOCK FALSE
