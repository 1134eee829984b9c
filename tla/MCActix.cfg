SPECIFICATION FairSpec
CONSTANTS
  r1 = r1
  r2 = r2
  r3 = r3
  r4 = r4
  Requests = {r1, r2, r3, r4}
  BadInputs = {r4}
  MaxBatch = 2
  ModelFaults = {"err", "short"}
INVARIANTS TypeOK LogitsAreOwn OneSenderEach DroppedByPanicOnly
PROPERTY EveryHandlerEnds
