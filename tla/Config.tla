------------------------------- MODULE Config --------------------------------
(***************************************************************************)
(* ServerConfig and its builder methods, and the ExecutionProvider values  *)
(* that go into it (src/config.rs).  An Option<String> is a set of at most *)
(* one name; the callback of a Custom provider is a name.                  *)
(***************************************************************************)
EXTENDS Naturals, Sequences

ExecutionProvider ==
  [name : {"Cpu", "Cuda", "TensorRT", "Xnnpack", "CoreML", "Custom"},
   device_id : Nat, fp16 : BOOLEAN, callback : STRING]

\* A variant without fields, and the three that have some.
Plain(name) == [name |-> name, device_id |-> 0, fp16 |-> FALSE, callback |-> ""]
Cuda(device_id) == [Plain("Cuda") EXCEPT !.device_id = device_id]
TensorRT(device_id, fp16) ==
  [Plain("TensorRT") EXCEPT !.device_id = device_id, !.fp16 = fp16]
Custom(callback) == [Plain("Custom") EXCEPT !.callback = callback]

ServerConfig ==
  [num_sessions : Nat, threads_per_session : Nat,
   max_batch_size : Nat, min_batch_size : Nat, max_wait_time : Nat,
   execution_providers : Seq(ExecutionProvider), optimization_level : 0 .. 3,
   input_name : SUBSET STRING, output_name : SUBSET STRING,
   preprocess_on_infer : BOOLEAN]

Default ==
  [num_sessions |-> 1, threads_per_session |-> 1,
   max_batch_size |-> 8, min_batch_size |-> 1, max_wait_time |-> 10,
   execution_providers |-> << Plain("Cpu") >>, optimization_level |-> 3,
   input_name |-> {}, output_name |-> {}, preprocess_on_infer |-> FALSE]

WithNumSessions(c, num) == [c EXCEPT !.num_sessions = num]
WithThreadsPerSession(c, threads) == [c EXCEPT !.threads_per_session = threads]
WithMaxBatchSize(c, size) == [c EXCEPT !.max_batch_size = size]
WithMinBatchSize(c, size) == [c EXCEPT !.min_batch_size = size]
WithMaxWaitTime(c, duration) == [c EXCEPT !.max_wait_time = duration]

\* The provider joins the list, which holds Cpu from the start.
WithExecutionProvider(c, provider) ==
  [c EXCEPT !.execution_providers = Append(@, provider)]

WithOptimizationLevel(c, level) == [c EXCEPT !.optimization_level = level]
WithInputName(c, name) == [c EXCEPT !.input_name = {name}]
WithOutputName(c, name) == [c EXCEPT !.output_name = {name}]
WithPreprocessOnInfer(c, enabled) == [c EXCEPT !.preprocess_on_infer = enabled]
=============================================================================
