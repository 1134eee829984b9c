SPECIFICATION FairSpec
CONSTANTS
  s1 = s1
  s2 = s2
  Starts = {s1}
  Jobs <- FastJobs
  Features = {"Cuda", "TensorRT", "Xnnpack", "CoreML"}
  Compiled = {"TensorRT"}
INVARIANT OptionsReachTheRuntime
