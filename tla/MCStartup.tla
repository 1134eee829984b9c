----------------------------- MODULE MCStartup ------------------------------
(* Small instances of Startup for TLC, from the programs of examples/. *)
EXTENDS Startup, ExampleConfigs

CONSTANTS s1, s2

Job(from, kind, config) == [from |-> from, kind |-> kind, config |-> config]

\* One provider that this build has and one that it refuses, models without
\* inputs or outputs with and without a name for them, a file that is no model.
MixedJobs ==
  {Job("file", "model", WithNumSessions(CudaInference, 1)),
   Job("url", "model", CustomProvider),
   Job("url", "model", TensorRTInference),
   Job("url", "no_inputs", CustomNames),
   Job("url", "no_outputs", BasicInference),
   Job("file", "garbage", CustomNames)}

FastJobs == {Job("file", "model", TensorRTInference)}
=============================================================================
