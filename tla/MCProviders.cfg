SPECIFICATION FairSpec
CONSTANTS
  s1 = s1
  s2 = s2
  Starts = {s1, s2}
  Jobs <- MixedJobs
  Features = {"Cuda", "TensorRT", "Xnnpack", "CoreML"}
  Compiled = {"Cuda"}
INVARIANT AvailableProviderSuffices
