------------------------------ MODULE Startup -------------------------------
(***************************************************************************)
(* Server::from_file and Server::from_url up to the point where every      *)
(* session thread has its session.  A call downloads (from_url only),      *)
(* writes the model to a temporary file, builds a session once to see that *)
(* it can be built and to read the names of its tensors, drops it, and     *)
(* starts the threads, which build their own sessions from the same path   *)
(* and retry for as long as it takes.  Several calls run at the same time, *)
(* and the system may clean its directory of temporary files.              *)
(***************************************************************************)
EXTENDS Naturals, SessionBuilder

CONSTANTS
  Starts,  \* the calls of from_file and from_url
  Jobs     \* what they may be called with, see JobsAssumption

ASSUME JobsAssumption ==
  \A j \in Jobs :
    /\ j.from \in {"file", "url"}             \* which of the two is called
    /\ j.kind \in Kinds                       \* what the file or the URL holds
    /\ j.config \in ServerConfig

VARIABLES
  job,      \* per call, its arguments
  pc,       \* per call, where it is
  disk,     \* the files that exist: a function from paths to contents
  thread,   \* per call and session thread, where the thread is
  session   \* per call and session thread, the session it has built

vars == <<job, pc, disk, thread, session>>

Contents == [owner : Starts, kind : Kinds]
Nothing == [owner |-> "nobody", kind |-> "garbage"]
NoSession == [file |-> Nothing, providers |-> << >>]

Workers(s) == 1 .. job[s].config.num_sessions
UserPath(s) == <<"user", s>>

\* Slip: one name for the temporary file of every call.
SharedTempPath(s) == <<"tmp", "ort-superserve-model.onnx">>

\* ort-superserve-model-{uuid}.onnx
TempPath(s) == <<"tmp", s>>

path(s) == IF job[s].from = "url" THEN TempPath(s) ELSE UserPath(s)

PcStates == {"download", "write", "probe", "names", "started", "refused",
             "failed", "dropped"}
ThreadStates == {"none", "init", "sleeping", "idle"}

TypeOK ==
  /\ job \in [Starts -> Jobs]
  /\ pc \in [Starts -> PcStates]
  /\ \A p \in DOMAIN disk : disk[p] \in Contents
  /\ DOMAIN thread = Starts /\ DOMAIN session = Starts
  /\ \A s \in Starts :
       /\ thread[s] \in [Workers(s) -> ThreadStates]
       /\ session[s] \in [Workers(s) -> [file : Contents \cup {Nothing},
                                         providers : Seq(ExecutionProvider)]]

Init ==
  /\ job \in [Starts -> Jobs]
  /\ pc = [s \in Starts |-> IF job[s].from = "url" THEN "download" ELSE "probe"]
  /\ disk = [p \in {UserPath(s) : s \in {t \in Starts : job[t].from = "file"}} |->
               [owner |-> p[2], kind |-> job[p[2]].kind]]
  /\ thread = [s \in Starts |-> [w \in Workers(s) |-> "none"]]
  /\ session = [s \in Starts |-> [w \in Workers(s) |-> NoSession]]

threadVars == <<thread, session>>

\* The disk with content c at path p.
Saved(p, c) == [q \in DOMAIN disk \cup {p} |-> IF q = p THEN c ELSE disk[q]]

Goto(s, from, to) == pc[s] = from /\ pc' = [pc EXCEPT ![s] = to]

-----------------------------------------------------------------------------
(* The call. *)

\* get(), its status and bytes() are fine; or one of them is not.
Download(s) == Goto(s, "download", "write") /\ UNCHANGED <<job, disk, threadVars>>
DownloadFails(s) == Goto(s, "download", "failed") /\ UNCHANGED <<job, disk, threadVars>>

\* The caller drops the future at one of the two awaits, both in the download.
Cancel(s) == Goto(s, "download", "dropped") /\ UNCHANGED <<job, disk, threadVars>>

Write(s) ==
  /\ Goto(s, "write", "probe")
  /\ disk' = Saved(path(s), [owner |-> s, kind |-> job[s].kind])
  /\ UNCHANGED <<job, threadVars>>

\* fs::write() fails, before or after it has created the file.
WriteFails(s) ==
  /\ Goto(s, "write", "failed")
  /\ \/ disk' = disk
     \/ disk' = Saved(path(s), [owner |-> s, kind |-> "garbage"])
  /\ UNCHANGED <<job, threadVars>>

\* Slip: the threads are trusted to find out.
ProbeSkipped(s) == Goto(s, "probe", "names") /\ UNCHANGED <<job, disk, threadVars>>

\* The session that is built for the names of the tensors only.
Probe(s) ==
  /\ Builds(job[s].config, disk, path(s))
  /\ Goto(s, "probe", "names")
  /\ UNCHANGED <<job, disk, threadVars>>

ProbeRefused(s) ==
  /\ ~Accepted(job[s].config.execution_providers)
  /\ Goto(s, "probe", "refused")
  /\ UNCHANGED <<job, disk, threadVars>>

\* Without a loadable file, or for any reason of the runtime's own.
ProbeFails(s) ==
  /\ Accepted(job[s].config.execution_providers)
  /\ Goto(s, "probe", "failed")
  /\ UNCHANGED <<job, disk, threadVars>>

\* A name that the configuration gives is not compared with the model.
NamesKnown(s) ==
  /\ job[s].config.input_name # {} \/ job[s].kind # "no_inputs"
  /\ job[s].config.output_name # {} \/ job[s].kind # "no_outputs"

NamesMissing(s) ==
  /\ ~NamesKnown(s)
  /\ Goto(s, "names", "failed")
  /\ UNCHANGED <<job, disk, threadVars>>

\* Slip: the pool has the size of the default configuration.
StartDefaultPool(s) ==
  /\ NamesKnown(s)
  /\ Goto(s, "names", "started")
  /\ thread' = [thread EXCEPT ![s] = [w \in 1 .. Default.num_sessions |-> "init"]]
  /\ UNCHANGED <<job, disk, session>>

\* Server::start: the threads are spawned and the handle is returned.
Start(s) ==
  /\ NamesKnown(s)
  /\ Goto(s, "names", "started")
  /\ thread' = [thread EXCEPT ![s] = [w \in Workers(s) |-> "init"]]
  /\ UNCHANGED <<job, disk, session>>

-----------------------------------------------------------------------------
(* The threads, up to their receive loop. *)

BuildSession(s, w) ==
  /\ thread[s][w] = "init"
  /\ Builds(job[s].config, disk, path(s))
  /\ thread' = [thread EXCEPT ![s][w] = "idle"]
  /\ session' = [session EXCEPT ![s][w] =
                   SessionFrom(job[s].config, disk[path(s)])]
  /\ UNCHANGED <<job, pc, disk>>

\* Slip: the thread ends after a failed build.
BuildFailsForGood(s, w) ==
  /\ thread[s][w] = "init"
  /\ thread' = [thread EXCEPT ![s][w] = "none"]
  /\ UNCHANGED <<job, pc, disk, session>>

\* A missing file, or any reason of the runtime's own; then sleep(5 s).
BuildFails(s, w) ==
  /\ thread[s][w] = "init"
  /\ thread' = [thread EXCEPT ![s][w] = "sleeping"]
  /\ UNCHANGED <<job, pc, disk, session>>

Retry(s, w) ==
  /\ thread[s][w] = "sleeping"
  /\ thread' = [thread EXCEPT ![s][w] = "init"]
  /\ UNCHANGED <<job, pc, disk, session>>

\* The system cleans its directory of temporary files.
CleanTemp(s) ==
  /\ TempPath(s) \in DOMAIN disk
  /\ disk' = [p \in DOMAIN disk \ {TempPath(s)} |-> disk[p]]
  /\ UNCHANGED <<job, pc, threadVars>>

-----------------------------------------------------------------------------
CallStep(s) ==
  \/ Download(s) \/ DownloadFails(s) \/ Write(s) \/ WriteFails(s)
  \/ Probe(s) \/ ProbeRefused(s) \/ ProbeFails(s) \/ NamesMissing(s) \/ Start(s)

ThreadStep(s, w) == BuildSession(s, w) \/ BuildFails(s, w) \/ Retry(s, w)

Done ==
  \A s \in Starts :
    /\ pc[s] \in {"started", "refused", "failed", "dropped"}
    /\ \A w \in Workers(s) : thread[s][w] \in {"none", "idle"}

Next ==
  \/ \E s \in Starts : CallStep(s) \/ Cancel(s) \/ CleanTemp(s)
  \/ \E s \in Starts : \E w \in Workers(s) : ThreadStep(s, w)
  \/ Done /\ UNCHANGED vars

Spec == Init /\ [][Next]_vars

(***************************************************************************)
(* A polled call and a running thread go on, the network answers, and a    *)
(* build that can succeed and is tried again and again does so at last.    *)
(***************************************************************************)
MaxSessions ==
  CHOOSE n \in {j.config.num_sessions : j \in Jobs} :
    \A j \in Jobs : j.config.num_sessions <= n

Fairness ==
  \A s \in Starts :
    /\ WF_vars(CallStep(s))
    /\ \A w \in 1 .. MaxSessions :
         /\ WF_vars(w \in Workers(s) /\ ThreadStep(s, w))
         /\ SF_vars(w \in Workers(s) /\ BuildSession(s, w))

FairSpec == Spec /\ Fairness
-----------------------------------------------------------------------------
\* A session is built from the model its own call was given, although several
\* calls download, write and build at the same time (the uuid in the path).
OwnModel ==
  \A s \in Starts : \A w \in Workers(s) :
    thread[s][w] = "idle" => session[s][w].file.owner = s

\* A thread that retries for ever can hope: nothing that the configuration or
\* the model itself decides stands in its way.  Threads look at neither, they
\* rely on the probe that from_file and from_url make before start().
ThreadsCanHope ==
  \A s \in Starts : \A w \in Workers(s) :
    thread[s][w] # "none" =>
      /\ Accepted(job[s].config.execution_providers)
      /\ job[s].kind # "garbage" /\ NamesKnown(s)

\* Once a call has returned a server, every thread gets its session, unless the
\* temporary file is cleaned away first: threads load it after the return.
ThreadsComeUp ==
  \A s \in Starts :
    pc[s] = "started" ~>
      \/ \A w \in Workers(s) : thread[s][w] = "idle"
      \/ path(s) \notin DOMAIN disk

\* config.rs says of the list of providers that the first available one is
\* used; so a call is refused only if none of them is there.
AvailableProviderSuffices ==
  \A s \in Starts :
    pc[s] = "refused" =>
      ~\E i \in DOMAIN job[s].config.execution_providers :
          Applies(job[s].config.execution_providers[i])

\* config.rs says that device_id is the device to use and that fp16 enables
\* half precision; so a session runs with the options it was asked for.
OptionsReachTheRuntime ==
  \A s \in Starts : \A w \in Workers(s) :
    thread[s][w] = "idle" =>
      session[s][w].providers = job[s].config.execution_providers
=============================================================================
