SPECIFICATION Spec
CONSTANTS
  h1 = h1
  h2 = h2
  r1 = r1
  r2 = r2
  r3 = r3
  r4 = r4
  Requests = {r1, r2, r3, r4}
  Handles <- TwoHandles
  Primary = h1
  HandleOf <- ByHandle
  NumSessions = 1
  PreprocessOnInfer = TRUE
  PreErr = {r3}
  PrePanic = {r4}
  PostErr = {}
  PostPanic = {}
  Faults = {"batchPanic", "workerPanic"}
  DiscardOnClose = FALSE
  MaxBatch = 3
  MinBatch = 2
  IndexMod = 8
  CancelLoses = FALSE
INVARIANTS NoCallerForgotten GracefulExit
PROPERTY ImplementsService
CHECK_DEADLOCK FALSE
