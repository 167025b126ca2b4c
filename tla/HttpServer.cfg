\* Two connections, two workers, bodies in one piece or two.
CONSTANTS
  Connections = {c1, c2}
  Workers = {w1, w2}
  Bodies <- MCBodies
  MaxPieces = 2
SPECIFICATION FairSpec
INVARIANT OneAnswerPerRequest
INVARIANT OneCallPerRequest
INVARIANT NothingAfterStop
PROPERTY StopEnds
