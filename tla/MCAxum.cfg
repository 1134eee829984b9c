SPECIFICATION FairSpec
CONSTANTS
  r1 = r1
  r2 = r2
  r3 = r3
  r4 = r4
  Requests = {r1, r2, r3, r4}
  BadBodies = {r4}
  MaxBatch = 2
  MayCrash = TRUE
INVARIANTS TypeOK NobodyCutOff ResponsesFit
PROPERTIES SignalEndsMain EveryHandlerEnds
