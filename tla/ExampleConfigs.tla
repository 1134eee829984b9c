--------------------------- MODULE ExampleConfigs ---------------------------
(***************************************************************************)
(* The configurations that the programs of examples/ build.                *)
(***************************************************************************)
EXTENDS Config

Pool(sessions, threads, batch) ==
  WithMaxBatchSize(
    WithThreadsPerSession(WithNumSessions(Default, sessions), threads), batch)

BasicInference == WithMinBatchSize(Pool(2, 4, 8), 1)
AudioProcessing == WithMinBatchSize(Pool(2, 4, 8), 1)
ImageProcessing == WithMinBatchSize(Pool(2, 4, 8), 1)
PersonDetection == WithMinBatchSize(Pool(2, 4, 8), 1)
AxumServer == Pool(4, 2, 16)

CudaInference ==
  WithExecutionProvider(WithMinBatchSize(Pool(4, 2, 16), 1), Cuda(0))
TensorRTInference ==
  WithExecutionProvider(WithMinBatchSize(Pool(4, 1, 32), 1), TensorRT(0, TRUE))
CustomProvider ==
  WithExecutionProvider(WithMinBatchSize(Pool(2, 2, 8), 1), Custom("memory"))
CustomNames ==
  WithOutputName(
    WithInputName(WithMinBatchSize(Pool(2, 2, 8), 1), "images"), "output")
=============================================================================
