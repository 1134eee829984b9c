--------------------------- MODULE StartupProofs ----------------------------
(***************************************************************************)
(* Theorems about Startup: the probe and the fresh path of the temporary   *)
(* file protect the session threads, for any number of calls and threads.  *)
(***************************************************************************)
EXTENDS Startup, TLAPS

\* The types, and that the variables that are functions are nothing else.
Shapes ==
  /\ TypeOK
  /\ thread = [s \in Starts |-> thread[s]]
  /\ session = [s \in Starts |-> session[s]]

\* What lies at the path of a call is its own, whole or broken.
OwnFiles ==
  \A s \in Starts :
    path(s) \in DOMAIN disk =>
      disk[path(s)] \in [owner : {s}, kind : {job[s].kind, "garbage"}]

\* What a call knows at each place.
Passed(s) == Accepted(job[s].config.execution_providers) /\ job[s].kind # "garbage"

Knowledge ==
  \A s \in Starts :
    /\ pc[s] \in {"names", "started"} => Passed(s)
    /\ pc[s] = "started" => NamesKnown(s)
    /\ \A w \in Workers(s) : thread[s][w] # "none" => pc[s] = "started"

StartupInv == Shapes /\ OwnFiles /\ Knowledge /\ OwnModel

\* Two calls never share a path: the uuid, or the user's own file.
LEMMA PathsDiffer ==
  ASSUME NEW s \in Starts, NEW t \in Starts, path(s) = path(t)
  PROVE  s = t
BY DEF path, TempPath, UserPath

\* Writing to its own path, a call leaves every other call's file alone.
LEMMA SavedKeepsOwn ==
  ASSUME OwnFiles, NEW s \in Starts, NEW k,
         k \in {job[s].kind, "garbage"},
         job' = job, disk' = Saved(path(s), [owner |-> s, kind |-> k])
  PROVE  OwnFiles'
<1> SUFFICES ASSUME NEW t \in Starts, path(t)' \in DOMAIN disk'
             PROVE  disk'[path(t)'] \in [owner : {t}, kind : {job'[t].kind, "garbage"}]
  BY DEF OwnFiles
<1>1. path(t)' = path(t)
  BY DEF path, TempPath, UserPath
<1>2. CASE t = s
  BY <1>1, <1>2 DEF Saved
<1>3. CASE t # s
  <2>1. path(t) # path(s)
    BY <1>3, PathsDiffer
  <2>2. path(t) \in DOMAIN disk /\ disk'[path(t)] = disk[path(t)]
    BY <1>1, <2>1 DEF Saved
  <2>. QED BY <1>1, <2>2 DEF OwnFiles
<1>. QED BY <1>2, <1>3

\* A step that keeps every path, and files or fewer of them, keeps OwnFiles.
LEMMA FewerFiles ==
  ASSUME OwnFiles, job' = job,
         DOMAIN disk' \subseteq DOMAIN disk,
         \A p \in DOMAIN disk' : disk'[p] = disk[p]
  PROVE  OwnFiles'
<1>1. \A t \in Starts : path(t)' = path(t)
  BY DEF path, TempPath, UserPath
<1>. QED BY <1>1 DEF OwnFiles

\* The session that a build returns has the type of a session.
LEMMA SessionFromType ==
  ASSUME NEW config \in ServerConfig, NEW file
  PROVE  SessionFrom(config, file)
           \in [file : {file}, providers : Seq(ExecutionProvider)]
<1>. DEFINE providers == config.execution_providers
<1>1. providers \in Seq(ExecutionProvider)
  BY DEF ServerConfig
<1>. HIDE DEF providers
<1>2. \A p \in ExecutionProvider : Registered(p) \in ExecutionProvider
  BY DEF Registered, ExecutionProvider
<1>3. [i \in DOMAIN providers |-> Registered(providers[i])] \in Seq(ExecutionProvider)
  BY <1>1, <1>2
<1>. QED BY <1>3 DEF SessionFrom, providers

\* At the start no call has done anything.
LEMMA StartupInit == Init => StartupInv
<1> SUFFICES ASSUME Init PROVE StartupInv
  OBVIOUS
<1>1. OwnFiles
  <2> SUFFICES ASSUME NEW s \in Starts, path(s) \in DOMAIN disk
               PROVE  disk[path(s)] \in [owner : {s}, kind : {job[s].kind, "garbage"}]
    BY DEF OwnFiles
  <2>1. path(s)[2] = s
    BY DEF path, TempPath, UserPath
  <2>2. disk[path(s)] = [owner |-> path(s)[2], kind |-> job[path(s)[2]].kind]
    BY DEF Init
  <2>. QED BY <2>1, <2>2
<1>2. Shapes
  <2>1. job \in [Starts -> Jobs] /\ pc \in [Starts -> PcStates]
    BY DEF Init, PcStates
  <2>2. ASSUME NEW p \in DOMAIN disk PROVE disk[p] \in Contents
    <3>1. PICK s \in Starts : p = UserPath(s)
      BY DEF Init
    <3>2. p[2] = s
      BY <3>1 DEF UserPath
    <3>3. disk[p] = [owner |-> s, kind |-> job[s].kind]
      BY <3>2 DEF Init
    <3>4. job[s].kind \in Kinds
      BY <2>1, JobsAssumption
    <3>. QED BY <3>3, <3>4 DEF Contents
  <2>3. NoSession \in [file : Contents \cup {Nothing}, providers : Seq(ExecutionProvider)]
    BY DEF NoSession
  <2>4. ASSUME NEW s \in Starts
        PROVE  /\ thread[s] \in [Workers(s) -> ThreadStates]
               /\ session[s] \in [Workers(s) -> [file : Contents \cup {Nothing},
                                                 providers : Seq(ExecutionProvider)]]
    BY <2>3 DEF Init, ThreadStates
  <2>5. /\ thread = [s \in Starts |-> thread[s]]
        /\ session = [s \in Starts |-> session[s]]
    BY DEF Init
  <2>6. DOMAIN thread = Starts /\ DOMAIN session = Starts
    BY DEF Init
  <2>. QED BY <2>1, <2>2, <2>4, <2>5, <2>6 DEF Shapes, TypeOK
<1>3. Knowledge
  BY DEF Init, Knowledge
<1>4. OwnModel
  BY DEF Init, OwnModel
<1>. QED BY <1>1, <1>2, <1>3, <1>4 DEF StartupInv

\* The files keep their type when one is written, and when some are removed.
LEMMA SavedType ==
  ASSUME NEW p, NEW c \in Contents, \A q \in DOMAIN disk : disk[q] \in Contents,
         disk' = Saved(p, c)
  PROVE  \A q \in DOMAIN disk' : disk'[q] \in Contents
BY DEF Saved

\* Every step of every call and thread preserves the invariant.
LEMMA StartupStep == StartupInv /\ [Next]_vars => StartupInv'
<1> SUFFICES ASSUME StartupInv, [Next]_vars PROVE StartupInv'
  OBVIOUS
<1>. USE DEF StartupInv
<1>a. \A s \in Starts : job[s].kind \in Kinds /\ job[s].config \in ServerConfig
  BY JobsAssumption DEF Shapes, TypeOK
\* The steps of a call that move its position, and the file at its path.
<1>1. ASSUME NEW s \in Starts, NEW from \in PcStates, NEW to \in PcStates,
             Goto(s, from, to), UNCHANGED <<job, threadVars>>, OwnFiles',
             \A p \in DOMAIN disk' : disk'[p] \in Contents,
             from # "started",
             to = "names" => Passed(s),
             to = "started" => FALSE
      PROVE  StartupInv'
  <2>1. Shapes'
    BY <1>1 DEF Shapes, TypeOK, Goto, threadVars, Workers
  <2>2. Knowledge'
    BY <1>1 DEF Knowledge, Goto, threadVars, Shapes, TypeOK, Passed, NamesKnown, Workers
  <2>3. OwnModel'
    BY <1>1 DEF OwnModel, threadVars, Workers
  <2>. QED BY <1>1, <2>1, <2>2, <2>3
<1>b. \A q \in DOMAIN disk : disk[q] \in Contents
  BY DEF Shapes, TypeOK
<1>c. \A s \in Starts : \A k \in {job[s].kind, "garbage"} :
        [owner |-> s, kind |-> k] \in Contents
  BY <1>a DEF Contents, Kinds
<1>2. ASSUME NEW s \in Starts, CallStep(s) \/ Cancel(s) PROVE StartupInv'
  <2>1. CASE Download(s) \/ DownloadFails(s) \/ Cancel(s) \/ ProbeRefused(s)
             \/ ProbeFails(s) \/ NamesMissing(s)
    <3>1. UNCHANGED <<job, disk, threadVars>>
      BY <2>1 DEF Download, DownloadFails, Cancel, ProbeRefused, ProbeFails,
                  NamesMissing
    <3>2. OwnFiles'
      BY <3>1, FewerFiles
    <3>3. \A p \in DOMAIN disk' : disk'[p] \in Contents
      BY <1>b, <3>1
    <3>. QED BY <1>1, <2>1, <3>1, <3>2, <3>3 DEF Download, DownloadFails, Cancel,
                  ProbeRefused, ProbeFails, NamesMissing, PcStates
  <2>2. CASE Write(s)
    <3>1. OwnFiles'
      BY <2>2, SavedKeepsOwn DEF Write
    <3>2. \A p \in DOMAIN disk' : disk'[p] \in Contents
      BY <1>b, <1>c, <2>2, SavedType DEF Write
    <3>. QED BY <1>1, <2>2, <3>1, <3>2 DEF Write, PcStates
  <2>3. CASE WriteFails(s)
    <3>1. ASSUME disk' = disk
          PROVE  OwnFiles' /\ \A p \in DOMAIN disk' : disk'[p] \in Contents
      BY <1>b, <2>3, <3>1, FewerFiles DEF WriteFails
    <3>2. ASSUME disk' = Saved(path(s), [owner |-> s, kind |-> "garbage"])
          PROVE  OwnFiles' /\ \A p \in DOMAIN disk' : disk'[p] \in Contents
      <4>1. OwnFiles'
        BY <2>3, <3>2, SavedKeepsOwn DEF WriteFails
      <4>2. \A p \in DOMAIN disk' : disk'[p] \in Contents
        BY <1>b, <1>c, <3>2, SavedType
      <4>. QED BY <4>1, <4>2
    <3>3. OwnFiles' /\ \A p \in DOMAIN disk' : disk'[p] \in Contents
      BY <2>3, <3>1, <3>2 DEF WriteFails
    <3>. QED BY <1>1, <2>3, <3>3 DEF WriteFails, PcStates
  <2>4. CASE Probe(s)
    <3>1. OwnFiles'
      BY <2>4, FewerFiles DEF Probe
    <3>2. Passed(s)
      BY <2>4 DEF Probe, Builds, Loadable, OwnFiles, Passed
    <3>3. \A p \in DOMAIN disk' : disk'[p] \in Contents
      BY <1>b, <2>4 DEF Probe
    <3>. QED BY <1>1, <2>4, <3>1, <3>2, <3>3 DEF Probe, PcStates
  <2>5. CASE Start(s)
    <3>1. Shapes'
      <4>1. \A t \in Starts : thread'[t] \in [Workers(t) -> ThreadStates]
        BY <2>5 DEF Start, Shapes, TypeOK, ThreadStates
      <4>. QED BY <2>5, <4>1 DEF Start, Goto, Shapes, TypeOK, PcStates, Workers
    <3>2. OwnFiles'
      BY <2>5, FewerFiles DEF Start
    <3>3. Knowledge'
      BY <2>5 DEF Start, Goto, Knowledge, Shapes, TypeOK, Passed, NamesKnown, Workers
    <3>4. OwnModel'
      BY <2>5 DEF Start, OwnModel, Shapes, TypeOK, Workers
    <3>. QED BY <3>1, <3>2, <3>3, <3>4
  <2>. QED BY <1>2, <2>1, <2>2, <2>3, <2>4, <2>5 DEF CallStep
\* A step of one thread: the call and the files stay as they are.
<1>3. ASSUME NEW s \in Starts, NEW w \in Workers(s), BuildSession(s, w)
      PROVE  StartupInv'
  <2>1. /\ path(s) \in DOMAIN disk
        /\ disk[path(s)] \in [owner : {s}, kind : {job[s].kind, "garbage"}]
    BY <1>3 DEF BuildSession, Builds, Loadable, OwnFiles
  <2>2. disk[path(s)] \in Contents /\ disk[path(s)].owner = s
    BY <2>1, <1>a DEF Contents, Kinds
  <2>. DEFINE built == SessionFrom(job[s].config, disk[path(s)])
  <2>3. /\ built \in [file : Contents \cup {Nothing}, providers : Seq(ExecutionProvider)]
        /\ built.file.owner = s
    BY <1>a, <2>2, SessionFromType
  <2>. HIDE DEF built
  <2>4. /\ thread' = [thread EXCEPT ![s][w] = "idle"]
        /\ session' = [session EXCEPT ![s][w] = built]
        /\ UNCHANGED <<job, pc, disk>>
    BY <1>3 DEF BuildSession, built
  <2>5. Shapes'
    BY <2>3, <2>4 DEF Shapes, TypeOK, ThreadStates, Workers
  <2>6. OwnFiles'
    BY <2>4, FewerFiles
  <2>7. Knowledge'
    BY <1>3, <2>4 DEF BuildSession, Knowledge, Shapes, TypeOK, Passed, NamesKnown, Workers
  <2>8. OwnModel'
    BY <2>3, <2>4 DEF OwnModel, Shapes, TypeOK, Workers
  <2>. QED BY <2>5, <2>6, <2>7, <2>8
<1>4. ASSUME NEW s \in Starts, NEW w \in Workers(s), BuildFails(s, w) \/ Retry(s, w)
      PROVE  StartupInv'
  <2>1. PICK x \in {"sleeping", "init"} : thread' = [thread EXCEPT ![s][w] = x]
    BY <1>4 DEF BuildFails, Retry
  <2>2. UNCHANGED <<job, pc, disk, session>> /\ thread[s][w] # "none"
    BY <1>4 DEF BuildFails, Retry
  <2>3. \A t \in Starts : /\ thread'[t] \in [Workers(t) -> ThreadStates]
                         /\ \A v \in Workers(t) : thread'[t][v] \in {thread[t][v], x}
    BY <2>1 DEF Shapes, TypeOK, ThreadStates
  <2>4. Shapes'
    BY <2>1, <2>2, <2>3 DEF Shapes, TypeOK, Workers
  <2>5. OwnFiles'
    BY <2>2, FewerFiles
  <2>6. Knowledge'
    BY <2>1, <2>2 DEF Knowledge, Shapes, TypeOK, Passed, NamesKnown, Workers
  <2>7. OwnModel'
    BY <2>2, <2>3 DEF OwnModel, Workers
  <2>. QED BY <2>4, <2>5, <2>6, <2>7
<1>5. ASSUME NEW s \in Starts, CleanTemp(s) PROVE StartupInv'
  <2>1. Shapes'
    BY <1>5 DEF CleanTemp, Shapes, TypeOK, threadVars, Workers
  <2>2. OwnFiles'
    BY <1>5, FewerFiles DEF CleanTemp
  <2>3. Knowledge'
    BY <1>5 DEF CleanTemp, Knowledge, Passed, NamesKnown, threadVars, Workers
  <2>4. OwnModel'
    BY <1>5 DEF CleanTemp, OwnModel, threadVars, Workers
  <2>. QED BY <2>1, <2>2, <2>3, <2>4
<1>6. CASE UNCHANGED vars
  <2>1. OwnFiles'
    BY <1>6, FewerFiles DEF vars
  <2>2. Shapes'
    BY <1>6 DEF vars, Shapes, TypeOK, Workers
  <2>. QED BY <1>6, <2>1, <2>2 DEF vars, Knowledge, Passed, NamesKnown, OwnModel, Workers
<1>. QED
  BY <1>2, <1>3, <1>4, <1>5, <1>6 DEF Next, ThreadStep

\* The invariant that the theorems about the start of a server follow from.
THEOREM StartupInvariance == Spec => []StartupInv
BY StartupInit, StartupStep, PTL DEF Spec

\* Every variable of the start of a server keeps its type.
THEOREM StartupTypeOK == Spec => []TypeOK
<1>1. StartupInv => TypeOK
  BY DEF StartupInv, Shapes
<1>. QED BY <1>1, StartupInvariance, PTL

\* No session thread is ever built from another call's model: the temporary
\* files of concurrent from_url calls do not meet.
THEOREM OwnModelHolds == Spec => []OwnModel
<1>1. StartupInv => OwnModel
  BY DEF StartupInv
<1>. QED BY <1>1, StartupInvariance, PTL

\* No thread is spawned for a configuration or a model that it could never
\* load, so no thread retries without hope because of them.
THEOREM ThreadsCanHopeHolds == Spec => []ThreadsCanHope
<1>1. StartupInv => ThreadsCanHope
  BY DEF StartupInv, Knowledge, Passed, ThreadsCanHope
<1>. QED BY <1>1, StartupInvariance, PTL
=============================================================================
