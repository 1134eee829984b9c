SPECIFICATION Spec
CONSTANTS
  h1 = h1
  h2 = h2
  r1 = r1
  r2 = r2
  r3 = r3
  r4 = r4
  Requests = {r1, r2, r3, r4}
  Handles <- TwoHandles
  Primary = h1
  HandleOf <- ByHandle
  NumSessions = 2
  PreprocessOnInfer = FALSE
  PreErr = {}
  PrePanic = {r3}
  PostErr = {r4}
  PostPanic = {}
  Faults = {}
  DiscardOnClose = TRUE
  MaxBatch = 3
  MinBatch = 1
  IndexMod = 3
  CancelLoses = FALSE
INVARIANTS TypeOK AnswerFitsInput NoCallerForgotten BatchWithinLimits
PROPERTIES OneBatchAtATime ImplementsService
