--------------------------- MODULE SessionBuilder ---------------------------
(***************************************************************************)
(* SessionBuilder::build: the execution providers of the configuration are *)
(* applied in order, the first one this binary was compiled without ends   *)
(* the build, and the model file is loaded last.  A file is its owner (the *)
(* call it was meant for) and what it holds.                               *)
(***************************************************************************)
EXTENDS Sequences, Config

CONSTANTS
  Features,  \* the providers that need a feature of the crate
  Compiled   \* those whose feature is on in this build

ASSUME FeaturesAssumption == Compiled \subseteq Features

Kinds == {"model", "no_inputs", "no_outputs", "garbage"}

\* Cpu is always applied, as the default of the runtime, and a callback is.
Applies(p) == p.name \in Features => p.name \in Compiled

\* apply_execution_provider() bails for none of the listed providers.
Accepted(providers) == \A i \in DOMAIN providers : Applies(providers[i])

\* What is handed to the runtime: default().build(), without the options.
Registered(p) ==
  IF p.name \in Features THEN [p EXCEPT !.device_id = 0, !.fp16 = FALSE] ELSE p

\* commit_from_file() needs a file that holds an ONNX model.
Loadable(disk, path) == path \in DOMAIN disk /\ disk[path].kind # "garbage"

Builds(config, disk, path) ==
  Accepted(config.execution_providers) /\ Loadable(disk, path)

\* The session that a successful build returns.
SessionFrom(config, file) ==
  LET providers == config.execution_providers
  IN  [file |-> file,
       providers |-> [i \in DOMAIN providers |-> Registered(providers[i])]]
=============================================================================
