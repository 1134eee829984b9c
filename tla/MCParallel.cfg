SPECIFICATION Spec
CONSTANTS
  h1 = h1
  h2 = h2
  r1 = r1
  r2 = r2
  r3 = r3
  r4 = r4
  Requests = {r1, r2, r3}
  Handles <- OneHandle
  Primary = h1
  HandleOf <- ByHandle
  NumSessions = 2
  PreprocessOnInfer = FALSE
  PreErr = {}
  PrePanic = {}
  PostErr = {}
  PostPanic = {}
  Faults = {}
  DiscardOnClose = TRUE
  MaxBatch = 2
  MinBatch = 1
  IndexMod = 8
  CancelLoses = FALSE
INVARIANT SessionsRunInParallel

