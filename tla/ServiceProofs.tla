--------------------------- MODULE ServiceProofs ---------------------------
(***************************************************************************)
(* Theorems about what the server does for its callers: no error path      *)
(* forgets one, an error that blames the server has its cause there, the   *)
(* batcher leaves nobody behind, and the server implements BatchService.   *)
(* FateInv and OnceInv (SuperserveInv) are inductive next to IInv, which   *)
(* SuperserveProofs proves invariant first.                                *)
(***************************************************************************)
EXTENDS SuperserveProofs

USE DEF channelVars, commandChannel, workerChannels, callerVars, workerVars,
        batchVars, batcherVars, vars

-----------------------------------------------------------------------------
(* The callers. *)

\* The tags that the properties tell apart.
LEMMA FateTags ==
  /\ Open # Dropped /\ None # Open /\ None # Dropped
  /\ None.tag = "none" /\ Open.tag = "open" /\ Dropped.tag = "dropped"
  /\ ServerClosed.tag = "server_closed"
  /\ ServerClosed \notin Content
  /\ \A e \in BatcherErrors :
       Err(e) # Open /\ Err(e) # Dropped /\ Err(e).tag = e
  /\ \A r \in Requests :
       Ok(r) # Open /\ Ok(r) # Dropped /\ Ok(r).tag = "ok"
  /\ ResponseClosed # ServerClosed
BY DEF None, Open, Dropped, Err, Ok, ServerClosed, ResponseClosed, Content,
       Reply, BatcherErrors

\* What the callers leave alone.
LEMMA CallerFrame ==
  ASSUME CallerAction
  PROVE  UNCHANGED <<batcherVars, workerVars, workerChannels, result, command_rx>>
BY DEF CallerAction, CallersNext, CallersStep, CloneServer, Shutdown, Infer,
       PreprocessInInfer, Respond, Cancel, SendCommand

\* The part of FateInv that speaks of one call.
CallFate(r) ==
  /\ responder[r] = Open =>
       \/ caller[r] = "preprocessing"
       \/ r \in Range(commands) \cup CurrentBatch
  /\ InFlight(r) => HandleOf[r] \in senders
  /\ caller[r] = "preprocessing" => PreprocessOnInfer
  /\ responder[r] = Dropped =>
       \/ r \in PostPanic
       \/ phase \in {"unwinding", "dead"}
       \/ CancelLoses
       \/ PreprocessOnInfer /\ ~InFlight(r)
  /\ outcome[r] = ServerClosed => phase = "dead"
  /\ responder[r].tag = "unavailable" =>
       \E w \in Workers : session[w] = "dead"
  /\ responder[r].tag = "worker_closed" =>
       \E w \in Workers : session[w] \in {"unwinding", "dead"}
  /\ responder[r].tag = "insufficient" => MinBatch > 1
  /\ responder[r].tag = "mismatch" => "count" \in Faults

CallFates == \A r \in Requests : CallFate(r)
TaskFates == EndsTogether /\ ThreadEndsKnown /\ ResultCauses

\* FateInv, sorted into what it says of calls and of tasks.
LEMMA FateParts == FateInv <=> CallFates /\ TaskFates
BY DEF FateInv, CallFates, CallFate, TaskFates, Placed, HandlesHeld,
       NoCallerForgotten, ErrorsHaveCause

\* The same after a step.
LEMMA FatePartsPrimed == FateInv' <=> CallFates' /\ TaskFates'
BY DEF FateInv, CallFates, CallFate, TaskFates, Placed, HandlesHeld,
       NoCallerForgotten, ErrorsHaveCause

\* A call that nothing happened to keeps its fate, if the steps of others only
\* add to the commands.
LEMMA OthersKeepFate ==
  ASSUME IInv, FateInv, CallerAction, NEW r \in Requests,
         responder'[r] = responder[r], caller'[r] = caller[r],
         outcome'[r] = outcome[r],
         InFlight(r) => HandleOf[r] \in senders',
         Range(commands) \subseteq Range(commands')
  PROVE  CallFate(r)'
<1>1. UNCHANGED <<phase, session, CurrentBatch>>
  BY CallerFrame DEF CurrentBatch
<1>2. CallFate(r)
  BY FateParts DEF CallFates
<1>. QED  BY <1>1, <1>2 DEF CallFate, InFlight

\* The commands of the others stay where they are.
LEMMA CommandsGrow ==
  ASSUME IInv, NEW r \in Requests, commands' = Append(commands, r)
  PROVE  Range(commands) \subseteq Range(commands') /\ r \in Range(commands')
<1>1. commands \in Seq(Requests)
  BY DEF IInv, TypeOK, ChannelsTypeOK
<1>2. /\ DOMAIN commands' = 1 .. Len(commands) + 1
      /\ commands'[Len(commands) + 1] = r
      /\ \A i \in DOMAIN commands :
           i \in DOMAIN commands' /\ commands'[i] = commands[i]
  BY <1>1
<1>3. Len(commands) + 1 \in DOMAIN commands'
  BY <1>1, <1>2
<1>. QED  BY <1>2, <1>3 DEF Range

\* A step of one call, seen by that call and by the others.
OneCallStep(r) ==
  /\ CallFate(r)'
  /\ \A q \in Requests \ {r} :
       /\ responder'[q] = responder[q] /\ caller'[q] = caller[q]
       /\ outcome'[q] = outcome[q]
  /\ UNCHANGED senders
  /\ UNCHANGED commands \/ (senders # {} /\ commands' = Append(commands, r))

\* A step of a call changes the fate of that call only, to one that has a reason.
LEMMA CallerSteps ==
  ASSUME IInv, FateInv, CallerAction, NEW r \in Requests,
         Infer(r) \/ CallersStep(r) \/ Cancel(r)
  PROVE  OneCallStep(r)
<1>1. /\ responder \in [Requests -> Content]
      /\ caller \in [Requests -> CallerStates]
      /\ outcome \in [Requests ->
                        Reply \cup {None, ServerClosed, ResponseClosed}]
  BY DEF IInv, TypeOK, ChannelsTypeOK, CallersTypeOK, Content
<1>2. UNCHANGED <<phase, session, CurrentBatch, command_rx>>
  BY CallerFrame DEF CurrentBatch
<1>3. CallFate(r) /\ EndsTogether
  BY FateParts DEF CallFates, TaskFates
<1>4. ASSUME SendCommand(r), HandleOf[r] \in senders, UNCHANGED senders
      PROVE  OneCallStep(r)
  <2>1. CASE command_rx
    <3>1. /\ commands' = Append(commands, r)
          /\ responder' = [responder EXCEPT ![r] = Open]
          /\ caller' = [caller EXCEPT ![r] = "waiting"]
          /\ UNCHANGED outcome
      BY <1>4, <2>1 DEF SendCommand
    <3>2. r \in Range(commands')
      BY <3>1, CommandsGrow
    <3>3. responder'[r] = Open /\ caller'[r] = "waiting"
      BY <1>1, <3>1
    <3>4. CallFate(r)'
      BY <1>2, <1>3, <1>4, <3>1, <3>2, <3>3, FateTags DEF CallFate, InFlight
    <3>. QED  BY <1>1, <1>4, <3>1, <3>4 DEF OneCallStep
  <2>2. CASE ~command_rx
    <3>1. /\ responder' = [responder EXCEPT ![r] = Dropped]
          /\ caller' = [caller EXCEPT ![r] = "returned"]
          /\ outcome' = [outcome EXCEPT ![r] = ServerClosed]
          /\ UNCHANGED commands
      BY <1>4, <2>2 DEF SendCommand
    <3>2. phase = "dead"
      BY <1>3, <1>4, <2>2 DEF EndsTogether
    <3>3. responder'[r] = Dropped /\ caller'[r] = "returned"
      BY <1>1, <3>1
    <3>4. CallFate(r)'
      BY <1>2, <1>3, <3>2, <3>3, FateTags DEF CallFate, InFlight
    <3>. QED  BY <1>1, <1>4, <3>1, <3>4 DEF OneCallStep
  <2>. QED  BY <2>1, <2>2
<1>5. CASE Infer(r)
  <2>1. CASE PreprocessOnInfer
    <3>1. /\ caller' = [caller EXCEPT ![r] = "preprocessing"]
          /\ responder' = [responder EXCEPT ![r] = Open]
          /\ UNCHANGED <<commands, outcome, senders>>
          /\ HandleOf[r] \in senders
      BY <1>5, <2>1 DEF Infer
    <3>2. responder'[r] = Open /\ caller'[r] = "preprocessing"
      BY <1>1, <3>1
    <3>3. CallFate(r)'
      BY <1>2, <1>3, <2>1, <3>1, <3>2, FateTags DEF CallFate, InFlight
    <3>. QED  BY <1>1, <3>1, <3>3 DEF OneCallStep
  <2>2. CASE ~PreprocessOnInfer
    BY <1>4, <1>5, <2>2 DEF Infer
  <2>. QED  BY <2>1, <2>2
<1>6. ASSUME caller[r] = "preprocessing", UNCHANGED <<senders, commands>>,
             responder' = [responder EXCEPT ![r] = Dropped],
             NEW s \in {"returned", "gone"}, caller' = [caller EXCEPT ![r] = s],
             NEW o \in Reply \cup {outcome[r]},
             outcome' = [outcome EXCEPT ![r] = o]
      PROVE  OneCallStep(r)
  <2>1. responder'[r] = Dropped /\ caller'[r] \in {"returned", "gone"}
    BY <1>1, <1>6
  <2>2. outcome'[r] = ServerClosed => outcome[r] = ServerClosed
    BY <1>1, <1>6, FateTags DEF Content
  <2>3. CallFate(r)'
    BY <1>2, <1>3, <1>6, <2>1, <2>2, FateTags DEF CallFate, InFlight
  <2>. QED  BY <1>1, <1>6, <2>3 DEF OneCallStep
<1>7. CASE PreprocessInInfer(r)
  <2>1. /\ caller[r] = "preprocessing" /\ UNCHANGED senders
        /\ HandleOf[r] \in senders
    BY <1>3, <1>7 DEF PreprocessInInfer, CallFate, InFlight
  <2>2. CASE SendCommand(r)
    BY <1>4, <2>1, <2>2
  <2>3. CASE /\ caller' = [caller EXCEPT ![r] = "returned"]
             /\ outcome' = [outcome EXCEPT ![r] = Err("preprocess")]
             /\ responder' = [responder EXCEPT ![r] = Dropped]
             /\ UNCHANGED commands
    <3>1. Err("preprocess") \in Reply
      BY ReplyTypes DEF BatcherErrors
    <3>. QED  BY <1>6, <2>1, <2>3, <3>1
  <2>4. CASE /\ caller' = [caller EXCEPT ![r] = "gone"]
             /\ responder' = [responder EXCEPT ![r] = Dropped]
             /\ UNCHANGED <<commands, outcome>>
    <3>1. outcome' = [outcome EXCEPT ![r] = outcome[r]]
      BY <1>1, <2>4
    <3>. QED  BY <1>6, <2>1, <2>4, <3>1
  <2>. QED  BY <1>7, <2>2, <2>3, <2>4 DEF PreprocessInInfer
<1>8. CASE Respond(r)
  <2>1. /\ caller[r] = "waiting" /\ responder[r] # Open
        /\ caller' = [caller EXCEPT ![r] = "returned"]
        /\ outcome' = [outcome EXCEPT ![r] = IF responder[r] = Dropped
                                               THEN ResponseClosed
                                               ELSE responder[r]]
        /\ UNCHANGED <<responder, commands, senders>>
    BY <1>8 DEF Respond
  <2>2. caller'[r] = "returned" /\ outcome'[r] # ServerClosed
    BY <1>1, <2>1, FateTags
  <2>3. CallFate(r)'
    BY <1>2, <1>3, <2>1, <2>2 DEF CallFate, InFlight
  <2>. QED  BY <1>1, <2>1, <2>3 DEF OneCallStep
<1>9. CASE Cancel(r)
  <2>1. InFlight(r) /\ caller' = [caller EXCEPT ![r] = "gone"]
        /\ UNCHANGED <<outcome, commands, senders>>
    BY <1>9 DEF Cancel
  <2>2. CASE caller[r] = "preprocessing"
    <3>1. responder' = [responder EXCEPT ![r] = Dropped]
          /\ outcome' = [outcome EXCEPT ![r] = outcome[r]]
      BY <1>1, <1>9, <2>1, <2>2 DEF Cancel
    <3>. QED  BY <1>6, <2>1, <2>2, <3>1
  <2>3. CASE caller[r] # "preprocessing"
    <3>1. UNCHANGED responder
      BY <1>1, <1>9, <2>3 DEF Cancel
    <3>2. caller'[r] = "gone"
      BY <1>1, <2>1
    <3>3. CallFate(r)'
      BY <1>2, <1>3, <2>1, <2>3, <3>1, <3>2 DEF CallFate, InFlight
    <3>. QED  BY <1>1, <2>1, <3>1, <3>3 DEF OneCallStep
  <2>. QED  BY <2>2, <2>3
<1>. QED  BY <1>5, <1>7, <1>8, <1>9 DEF CallersStep

\* Callers, handles and clones preserve FateInv.
LEMMA CallerFates ==
  ASSUME IInv, FateInv, CallerAction
  PROVE  FateInv'
<1>1. UNCHANGED <<batcherVars, workerVars, workerChannels, result, command_rx>>
  BY CallerFrame
<1>2. CallFates /\ TaskFates
  BY FateParts
<1>3. ASSUME phase = "exited" => senders' = {} /\ commands' = << >>
      PROVE  TaskFates'
  BY <1>1, <1>2, <1>3
  DEF TaskFates, EndsTogether, ThreadEndsKnown, ResultCauses
<1>4. ASSUME NEW r \in Requests, Infer(r) \/ CallersStep(r) \/ Cancel(r)
      PROVE  FateInv'
  <2>1. OneCallStep(r)
    BY <1>4, CallerSteps
  <2>2. Range(commands) \subseteq Range(commands')
    BY <2>1, CommandsGrow DEF OneCallStep
  <2>3. ASSUME NEW q \in Requests \ {r}  PROVE CallFate(q)'
    <3>1. InFlight(q) => HandleOf[q] \in senders'
      BY <1>2, <2>1 DEF CallFates, CallFate, OneCallStep
    <3>. QED  BY <2>1, <2>2, <3>1, OthersKeepFate DEF OneCallStep
  <2>4. CallFates'
    BY <2>1, <2>3 DEF OneCallStep, CallFates
  <2>5. TaskFates'
    BY <1>2, <1>3, <2>1 DEF OneCallStep, TaskFates, EndsTogether
  <2>. QED  BY <2>4, <2>5, FatePartsPrimed
<1>5. ASSUME UNCHANGED <<commands, responder, callerVars>>,
             \A r \in Requests : InFlight(r) => HandleOf[r] \in senders',
             phase = "exited" => senders' = {}
      PROVE  FateInv'
  <2>1. CallFates'
    BY <1>5, OthersKeepFate DEF CallFates
  <2>2. TaskFates'
    BY <1>2, <1>3, <1>5 DEF TaskFates, EndsTogether
  <2>. QED  BY <2>1, <2>2, FatePartsPrimed
<1>6. ASSUME NEW h \in Handles, NEW g \in Handles, CloneServer(h, g)
      PROVE  FateInv'
  BY <1>2, <1>5, <1>6
  DEF CloneServer, CallFates, CallFate, TaskFates, EndsTogether
<1>7. ASSUME NEW h \in Handles, Shutdown(h)
      PROVE  FateInv'
  BY <1>2, <1>5, <1>7
  DEF Shutdown, Borrowed, CallFates, CallFate, TaskFates, EndsTogether
<1>. QED  BY <1>4, <1>6, <1>7 DEF CallerAction, CallersNext

-----------------------------------------------------------------------------
(* The session threads. *)

\* A thread that is lost stays lost, and nobody's call is touched.
LEMMA LostThreadsKeepFates ==
  ASSUME FateInv, WorkerAction,
         \A w \in Workers :
           /\ session[w] = "dead" => session'[w] = "dead"
           /\ session[w] = "unwinding" => session'[w] \in {"unwinding", "dead"}
  PROVE  CallFates'
<1>1. UNCHANGED <<batcherVars, callerVars, commandChannel, responder>>
  BY WorkerFrame
<1>2. CurrentBatch' = CurrentBatch
  BY <1>1 DEF CurrentBatch
<1>3. ASSUME NEW r \in Requests  PROVE CallFate(r)'
  <2>1. CallFate(r)
    BY FateParts DEF CallFates
  <2>. QED  BY <1>1, <1>2, <2>1 DEF CallFate, InFlight
<1>. QED  BY <1>3 DEF CallFates

\* Session threads preserve FateInv.
LEMMA ThreadFates ==
  ASSUME IInv, FateInv, WorkerAction
  PROVE  FateInv'
<1>1. UNCHANGED <<batcherVars, callerVars, commandChannel, responder, worker_txs>>
  <2>1. UNCHANGED worker_txs
    BY DEF WorkerAction, WorkerPoolNext, WorkerStep, Process, BuildSession,
           BuildFails, Retry, Receive, WorkerClosed, ProcessOk, ProcessOtherCount,
           ProcessErr, Finish, WorkerPanics, WorkerGone, OtherChannels
  <2>. QED  BY <2>1, WorkerFrame
<1>2. TaskFates
  BY FateParts
<1>3. EndsTogether'
  BY <1>1, <1>2 DEF TaskFates, EndsTogether
<1>4. PICK w \in Workers : WorkerStep(w)
  BY DEF WorkerAction, WorkerPoolNext
<1>5. /\ session \in [Workers -> SessionStates]
      /\ result.id \in Nat
  BY DEF IInv, TypeOK, ChannelsTypeOK, WorkerPoolTypeOK
<1>. DEFINE Lost(v) == session[v] \in {"unwinding", "dead"}
            Counted == phase = "await" /\ result.state = "ok" =>
                         Len(result.outputs) = Len(responders) \/ "count" \in Faults
<1>6. ASSUME NEW s \in SessionStates, session' = [session EXCEPT ![w] = s],
             session[w] = "dead" => s = "dead",
             session[w] = "unwinding" => s \in {"unwinding", "dead"},
             worker_rx' = worker_rx \/ (worker_rx' = worker_rx \ {w}
                                          /\ s \in {"exited", "dead"}),
             session[w] = "exited" => s = "exited",
             s = "exited" => ~worker_txs,
             result'.state = "closed" => result.state = "closed" \/ s \in {"unwinding", "dead"},
             Counted'
      PROVE  FateInv'
  <2>1. \A v \in Workers : /\ session[v] = "dead" => session'[v] = "dead"
                           /\ Lost(v) => Lost(v)'
    BY <1>5, <1>6
  <2>2. CallFates'
    BY <1>5, <1>6, LostThreadsKeepFates
  <2>3. ThreadEndsKnown'
    BY <1>1, <1>2, <1>5, <1>6 DEF TaskFates, ThreadEndsKnown
  <2>4. session'[w] = s
    BY <1>5, <1>6
  <2>5. ResultCauses'
    BY <1>2, <1>6, <2>1, <2>4 DEF TaskFates, ResultCauses
  <2>. QED  BY <1>3, <2>2, <2>3, <2>5, FatePartsPrimed DEF TaskFates
<1>7. UNCHANGED result => Counted'
  BY <1>1, <1>2 DEF TaskFates, ResultCauses
<1>. HIDE DEF Counted
<1>8. CASE BuildSession(w) \/ BuildFails(w) \/ Retry(w) \/ Receive(w)
             \/ WorkerClosed(w)
  <2>1. UNCHANGED result
    BY <1>8 DEF BuildSession, BuildFails, Retry, Receive, WorkerClosed
  <2>. QED  BY <1>6, <1>7, <1>8, <2>1
            DEF BuildSession, BuildFails, Retry, Receive, WorkerClosed,
                SessionStates
<1>9. ASSUME session[w] = "busy", NEW state, NEW outputs,
             Resolve(current[w][1].id, state, outputs)
      PROVE  result'.state = state /\ result'.outputs = outputs
  <2>1. current[w][1].id = result.id /\ result.state = "pending"
    BY <1>9, BusyWork
  <2>2. result' = [id |-> result.id, state |-> state, outputs |-> outputs]
    BY <1>9, <2>1 DEF Resolve
  <2>. QED  BY <2>2
<1>10. CASE ProcessOk(w)
  <2>1. /\ session[w] = "busy" /\ Finish(w, "ok", current[w][1].batched_tensor)
    BY <1>10 DEF ProcessOk
  <2>2. current[w][1].batched_tensor = responders
    BY <2>1, BusyWork
  <2>3. result'.state = "ok" /\ result'.outputs = responders
    BY <1>9, <2>1, <2>2 DEF Finish
  <2>4. Counted'
    BY <1>1, <2>3 DEF Counted
  <2>. QED  BY <1>6, <2>1, <2>3, <2>4 DEF Finish, SessionStates
<1>11. CASE ProcessOtherCount(w)
  <2>1. /\ session[w] = "busy" /\ "count" \in Faults
        /\ \E outputs : Finish(w, "ok", outputs)
    BY <1>11 DEF ProcessOtherCount
  <2>2. result'.state = "ok"
    BY <1>9, <2>1 DEF Finish
  <2>3. Counted'
    BY <2>1 DEF Counted
  <2>. QED  BY <1>6, <2>1, <2>2, <2>3 DEF Finish, SessionStates
<1>12. CASE ProcessErr(w)
  <2>1. session[w] = "busy" /\ Finish(w, "err", << >>)
    BY <1>12 DEF ProcessErr
  <2>2. result'.state = "err"
    BY <1>9, <2>1 DEF Finish
  <2>3. Counted'
    BY <2>2 DEF Counted
  <2>. QED  BY <1>6, <2>1, <2>2, <2>3 DEF Finish, SessionStates
<1>13. CASE WorkerPanics(w)
  <2>1. result'.state = "closed"
    BY <1>9, <1>13 DEF WorkerPanics
  <2>2. Counted'
    BY <2>1 DEF Counted
  <2>. QED  BY <1>6, <1>13, <2>1, <2>2 DEF WorkerPanics, SessionStates
<1>14. CASE WorkerGone(w)
  <2>1. UNCHANGED result \/ Resolve(result.id, "closed", << >>)
    BY <1>14 DEF WorkerGone
  <2>2. UNCHANGED result \/ result'.state = "closed"
    BY <2>1 DEF Resolve
  <2>3. Counted'
    BY <1>7, <2>2 DEF Counted
  <2>. QED  BY <1>6, <1>14, <2>2, <2>3 DEF WorkerGone, SessionStates
<1>. QED  BY <1>4, <1>8, <1>10, <1>11, <1>12, <1>13, <1>14
          DEF WorkerStep, Process

-----------------------------------------------------------------------------
(* The batcher: whoever it holds stays in its hands or is answered. *)

\* A list that is longer than the set it is from has a repetition.
LEMMA TooLong ==
  ASSUME NEW m \in Nat, NEW T, IsFiniteSet(T), Cardinality(T) < m,
         NEW f \in [1 .. m -> T]
  PROVE  \E i, j \in 1 .. m : i # j /\ f[i] = f[j]
<1>1. IsFiniteSet(1 .. m) /\ Cardinality(1 .. m) = m
  BY FS_Interval
<1>2. Cardinality(T) < Cardinality(1 .. m)
  BY <1>1
<1>. QED  BY ONLY <1>1, <1>2, IsFiniteSet(T), f \in [1 .. m -> T], FS_PigeonHole, Zenon

\* InOrder lists every index, and each of them once.
LEMMA InOrderOnto ==
  ASSUME NEW n \in Nat, NEW S \in SUBSET (1 .. n), NEW x \in S
  PROVE  \E k \in DOMAIN InOrder(S) : InOrder(S)[k] = x
<1>. DEFINE e == InOrder(S)
            m == Cardinality(S)
<1>1. m \in Nat /\ e \in [1 .. m -> S] /\ Increasing(e)
  BY InOrderLists
<1>2. SUFFICES ASSUME \A k \in 1 .. m : e[k] # x  PROVE FALSE
  BY <1>1
<1>3. IsFiniteSet(S)
  <2>1. IsFiniteSet(1 .. n)
    BY FS_Interval
  <2>. QED  BY <2>1, FS_Subset
<1>4. IsFiniteSet(S \ {x}) /\ Cardinality(S \ {x}) = m - 1
  BY <1>3, FS_RemoveElement
<1>. HIDE DEF e, m
<1>5. Cardinality(S \ {x}) < m
  BY <1>1, <1>4
<1>6. e \in [1 .. m -> S \ {x}]
  BY <1>1, <1>2
<1>8. \E i, j \in 1 .. m : i # j /\ e[i] = e[j]
  BY <1>1, <1>4, <1>5, <1>6, TooLong
<1>9. \A i, j \in 1 .. m : i < j => e[i] < e[j]
  BY <1>1 DEF Increasing
<1>10. \A i \in 1 .. m : e[i] \in 1 .. n
  BY <1>1
<1>11. \A i, j \in 1 .. m : i # j => i < j \/ j < i
  BY <1>1
<1>12. \A a, b \in 1 .. n : a < b => a # b
  OBVIOUS
<1>. QED  BY <1>8, <1>9, <1>10, <1>11, <1>12

\* Every responder of the batch is either kept or failed.
LEMMA KeptOrFailed ==
  ASSUME BatcherTypeOK
  PROVE  Range(responders) = Range(KeptResponders) \cup FailedResponders
<1>1. /\ responders \in Seq(Requests)
      /\ DOMAIN responders = 1 .. Len(responders)
      /\ Len(responders) \in Nat
      /\ DOMAIN results \in SUBSET (1 .. Len(responders))
  BY DEF BatcherTypeOK
<1>. DEFINE e == InOrder(DOMAIN results)
<1>2. \A i \in DOMAIN results : \E k \in DOMAIN e : e[k] = i
  BY <1>1, InOrderOnto
<1>3. \A k \in DOMAIN e : e[k] \in DOMAIN results
  BY <1>1, InOrderLists
<1>. HIDE DEF e
<1>4. KeptResponders = [k \in DOMAIN e |-> responders[e[k]]]
  BY DEF KeptResponders, e
<1>5. Range(KeptResponders) = {responders[i] : i \in DOMAIN results}
  BY <1>2, <1>3, <1>4 DEF Range
<1>6. DOMAIN results \subseteq DOMAIN responders
  BY DEF BatcherTypeOK
<1>. HIDE DEF BatcherTypeOK
<1>7. Range(responders) = {responders[i] : i \in DOMAIN results} \cup FailedResponders
  BY <1>6, Zenon DEF Range, FailedResponders
<1>. QED  BY <1>5, <1>7

\* ... and none is both, as no call is twice in a batch.
LEMMA KeptApartFromFailed ==
  ASSUME BatcherTypeOK, IsInjective(responders)
  PROVE  Range(KeptResponders) \cap FailedResponders = {}
<1>1. /\ responders \in Seq(Requests)
      /\ DOMAIN responders = 1 .. Len(responders)
      /\ Len(responders) \in Nat
      /\ DOMAIN results \in SUBSET (1 .. Len(responders))
  BY DEF BatcherTypeOK
<1>. DEFINE e == InOrder(DOMAIN results)
<1>2. \A k \in DOMAIN e : e[k] \in DOMAIN results
  BY <1>1, InOrderLists
<1>. HIDE DEF e
<1>3. KeptResponders = [k \in DOMAIN e |-> responders[e[k]]]
  BY DEF KeptResponders, e
<1>4. \A x \in Range(KeptResponders) : \E i \in DOMAIN results : x = responders[i]
  BY <1>2, <1>3 DEF Range
<1>5. \A x \in FailedResponders :
        \E j \in DOMAIN responders \ DOMAIN results : x = responders[j]
  BY DEF FailedResponders
<1>6. \A i \in DOMAIN results : i \in DOMAIN responders
  BY <1>1
<1>7. ASSUME NEW x \in Range(KeptResponders), x \in FailedResponders
      PROVE  FALSE
  <2>1. PICK i \in DOMAIN results : x = responders[i]
    BY <1>4
  <2>2. PICK j \in DOMAIN responders \ DOMAIN results : x = responders[j]
    BY <1>5, <1>7
  <2>. QED  BY <1>6, <2>1, <2>2 DEF IsInjective
<1>. QED  BY <1>7

\* The place of a call in the server.
Held(r) == r \in Range(commands) \cup CurrentBatch

\* The elements of a sequence are its head and those of its tail.
LEMMA RangeTail ==
  ASSUME NEW T, NEW s \in Seq(T), s # << >>
  PROVE  /\ Head(s) \in T
         /\ Range(s) = {Head(s)} \cup Range(Tail(s))
<1>1. /\ Len(s) \in Nat /\ Len(s) > 0 /\ DOMAIN s = 1 .. Len(s)
      /\ Head(s) = s[1] /\ 1 \in DOMAIN s
      /\ DOMAIN Tail(s) = 1 .. Len(s) - 1
      /\ \A i \in 1 .. Len(s) - 1 : Tail(s)[i] = s[i + 1]
  <2>1. Len(s) \in Nat /\ Len(s) > 0 /\ DOMAIN s = 1 .. Len(s)
    OBVIOUS
  <2>2. Tail(s) \in Seq(T) /\ Len(Tail(s)) = Len(s) - 1
    BY HeadTailProperties
  <2>3. \A i \in 1 .. Len(s) - 1 : Tail(s)[i] = s[i + 1]
    BY <2>1, HeadTailProperties
  <2>4. Head(s) = s[1]
    OBVIOUS
  <2>. QED  BY <2>1, <2>2, <2>3, <2>4
<1>. DEFINE t == Tail(s)
            h == Head(s)
<1>2. \A i \in DOMAIN s : i = 1 \/ (i - 1 \in DOMAIN Tail(s) /\ Tail(s)[i - 1] = s[i])
  BY <1>1
<1>3. \A i \in DOMAIN Tail(s) : i + 1 \in DOMAIN s /\ Tail(s)[i] = s[i + 1]
  BY <1>1
<1>4. Head(s) \in T
  BY <1>1
<1>5. /\ 1 \in DOMAIN s /\ s[1] = h
      /\ \A i \in DOMAIN s : s[i] = h \/ \E j \in DOMAIN t : t[j] = s[i]
      /\ \A j \in DOMAIN t : \E i \in DOMAIN s : s[i] = t[j]
  BY <1>1, <1>2, <1>3
<1>. HIDE DEF t, h
<1>6. Range(s) = {h} \cup Range(t)
  BY <1>5 DEF Range
<1>. QED  BY <1>4, <1>6 DEF t, h

\* Append adds an element.
LEMMA RangeAppend ==
  ASSUME NEW T, NEW s \in Seq(T), NEW x \in T
  PROVE  Range(Append(s, x)) = Range(s) \cup {x}
<1>1. /\ DOMAIN Append(s, x) = 1 .. Len(s) + 1 /\ DOMAIN s = 1 .. Len(s)
      /\ Len(s) \in Nat
      /\ Append(s, x)[Len(s) + 1] = x
      /\ \A i \in 1 .. Len(s) : Append(s, x)[i] = s[i]
  OBVIOUS
<1>2. \A i \in 1 .. Len(s) + 1 : i \in 1 .. Len(s) \/ i = Len(s) + 1
  BY <1>1
<1>3. Len(s) + 1 \in 1 .. Len(s) + 1 /\ \A i \in 1 .. Len(s) : i \in 1 .. Len(s) + 1
  BY <1>1
<1>. QED  BY <1>1, <1>2, <1>3 DEF Range

\* A sequence that is not empty has elements.
LEMMA RangeNonempty ==
  ASSUME NEW T, NEW s \in Seq(T), s # << >>
  PROVE  Range(s) # {}
<1>1. Range(s) = {Head(s)} \cup Range(Tail(s))
  BY RangeTail
<1>. QED  BY <1>1

\* The empty sequence has none.
LEMMA RangeEmpty == Range(<< >>) = {}
BY DEF Range

\* Where the batch is, from the phase.
LEMMA BatchByPhase ==
  ASSUME IInv
  PROVE  /\ phase \in {"recv", "unwinding", "dead", "exited"} => CurrentBatch = {}
         /\ phase = "collect" =>
              CurrentBatch = Range(batch_buffer) /\ batch_buffer # << >>
         /\ phase \in {"preprocess", "batch", "await"} =>
              CurrentBatch = Range(responders) /\ responders # << >>
         /\ phase = "post" =>
              CurrentBatch = {t.responder : t \in postprocess_tasks}
         /\ batch_buffer \in Seq(Requests) /\ responders \in Seq(Requests)
         /\ commands \in Seq(Requests)
         /\ phase \in Phases
<1>1. /\ batch_buffer \in Seq(Requests) /\ responders \in Seq(Requests)
      /\ commands \in Seq(Requests) /\ phase \in Phases
  BY DEF IInv, TypeOK, ChannelsTypeOK, BatcherTypeOK
<1>2. DataInPhase
  BY DEF IInv
<1>. QED  BY <1>1, <1>2, RangeEmpty DEF DataInPhase, CurrentBatch, Phases

\* After a step that ends in recv(), there is no batch.
LEMMA BatchByPhasePrimed ==
  ASSUME IInv'
  PROVE  /\ phase' = "recv" => CurrentBatch' = {}
<1>. QED  BY RangeEmpty DEF IInv, DataInPhase, CurrentBatch

\* The next two lemmas together say what each step of the batcher does to the
\* calls in its hands: which calls it takes, which it lets go, what it answers.
Gathers ==
  /\ phase \in {"recv", "collect"} /\ phase' = "collect"
  /\ Len(batch_buffer) < BatchLimit
  /\ commands # << >> /\ commands' = Tail(commands)
  /\ CurrentBatch' = CurrentBatch \cup {Head(commands)}
  /\ UNCHANGED responder

\* Taking a command from the channel gathers its call.
LEMMA TakeGathers ==
  ASSUME IInv, BatcherAction, FirstCommand \/ Collect
  PROVE  Gathers
<1>1. /\ phase \in {"recv", "collect"} /\ phase' = "collect"
      /\ commands # << >> /\ commands' = Tail(commands)
      /\ batch_buffer' = Append(batch_buffer, Head(commands))
      /\ UNCHANGED <<responder, responders, postprocess_tasks>>
  BY DEF FirstCommand, Collect, MayCollect, TakeCommand
<1>2. commands \in Seq(Requests) /\ batch_buffer \in Seq(Requests)
  BY BatchByPhase
<1>3. Head(commands) \in Requests
  BY <1>1, <1>2
<1>4. Range(batch_buffer') = Range(batch_buffer) \cup {Head(commands)}
  BY <1>1, <1>2, <1>3, RangeAppend
<1>5. CurrentBatch' = CurrentBatch \cup {Head(commands)}
  BY <1>1, <1>4 DEF CurrentBatch
<1>6. Len(batch_buffer) < BatchLimit
  <2>1. CASE FirstCommand
    <3>1. batch_buffer = << >>
      BY <2>1 DEF FirstCommand, IInv, DataInPhase
    <3>. QED  BY <3>1, BatcherAssumption DEF BatchLimit
  <2>2. CASE Collect
    <3>1. Len(batch_buffer) < MaxBatch /\ Len(batch_buffer) \in Nat
      BY <1>2, <2>2 DEF Collect, MayCollect
    <3>. QED  BY <3>1, BatcherAssumption DEF BatchLimit
  <2>. QED  BY <2>1, <2>2
<1>. QED  BY <1>1, <1>5, <1>6 DEF Gathers

\* The batch is only worked on.
Quiet ==
  /\ UNCHANGED <<commands, responder, CurrentBatch>>
  /\ phase' # "collect"

\* An answer with its reason, which is found in the server or in the input.
Given(r, reply) ==
  /\ reply \in FittingReplies(r) \cup {Dropped}
  /\ reply = Dropped => r \in PostPanic \/ phase' = "unwinding"
  /\ reply.tag = "unavailable" => \E w \in Workers : session[w] = "dead"
  /\ reply.tag = "worker_closed" =>
       \E w \in Workers : session[w] \in {"unwinding", "dead"}
  /\ reply.tag = "insufficient" => MinBatch > 1
  /\ reply.tag = "mismatch" => "count" \in Faults

\* The calls in S are answered, the others of the batch stay in it.
Settles(S) ==
  /\ S # {} /\ S \subseteq CurrentBatch
  /\ CurrentBatch' = CurrentBatch \ S
  /\ UNCHANGED commands
  /\ phase' # "collect"
  /\ \A r \in Requests : IF r \in S THEN Given(r, responder'[r])
                                    ELSE responder'[r] = responder[r]

\* An error about the server fits every input.
LEMMA ServerErrorsFit ==
  ASSUME NEW r, NEW e \in BatcherErrors \ {"preprocess", "postprocess"}
  PROVE  Err(e) \in FittingReplies(r)
BY DEF FittingReplies

\* The whole batch gets one answer.
LEMMA BatchSettled ==
  ASSUME IInv, phase \in {"batch", "await"}, NEW reply,
         \A r \in Requests : Given(r, reply),
         responder' = Send(Range(responders), reply),
         responders' = << >>, phase' # "collect",
         UNCHANGED <<commands, batch_buffer, postprocess_tasks>>
  PROVE  \E S : Settles(S)
<1>1. CurrentBatch = Range(responders) /\ responders # << >>
      /\ responders \in Seq(Requests)
  BY BatchByPhase
<1>2. CurrentBatch' = {}
  BY RangeEmpty DEF IInv, DataInPhase, CurrentBatch
<1>3. Range(responders) # {}
  BY <1>1, RangeNonempty
<1>4. Settles(Range(responders))
  BY <1>1, <1>2, <1>3 DEF Settles, Send
<1>. QED  BY <1>4

\* A refused batch is answered, any other becomes the batch in work.
LEMMA EndCollectionEffect ==
  ASSUME IInv, phase = "collect", EndCollection({}), UNCHANGED commands
  PROVE  Quiet \/ \E S : Settles(S)
<1>1. /\ CurrentBatch = Range(batch_buffer) /\ batch_buffer # << >>
      /\ batch_buffer \in Seq(Requests)
  BY BatchByPhase
<1>2. /\ responder \in [Requests -> Content]
      /\ responders = << >> /\ postprocess_tasks = {}
  BY DEF IInv, TypeOK, ChannelsTypeOK, DataInPhase, Content
<1>3. batch_buffer' = << >> /\ UNCHANGED postprocess_tasks
      /\ phase' # "collect"
  BY DEF EndCollection
<1>4. CASE Len(batch_buffer) < MinBatch
  <2>1. UNCHANGED responders
    BY <1>4 DEF EndCollection
  <2>2. CurrentBatch' = {}
    BY <1>2, <1>3, <2>1, RangeEmpty DEF CurrentBatch
  <2>3. \A r \in Requests : IF r \in Range(batch_buffer)
                              THEN responder'[r] = Err("insufficient")
                              ELSE responder'[r] = responder[r]
    BY <1>4 DEF EndCollection, Refusal
  <2>4. MinBatch > 1
    BY <1>1, <1>4, BatcherAssumption
  <2>5. \A r \in Requests : Given(r, Err("insufficient"))
    BY <2>4, ServerErrorsFit, FateTags DEF Given, BatcherErrors
  <2>6. Range(batch_buffer) # {}
    BY <1>1, RangeNonempty
  <2>7. Settles(Range(batch_buffer))
    BY <1>1, <1>3, <2>2, <2>3, <2>5, <2>6 DEF Settles
  <2>. QED  BY <2>7
<1>5. CASE ~(Len(batch_buffer) < MinBatch)
  <2>1. responders' = batch_buffer /\ UNCHANGED responder
    <3>1. responder' = [r \in Requests |-> responder[r]]
      BY <1>5 DEF EndCollection
    <3>. QED  BY <1>2, <1>5, <3>1 DEF EndCollection
  <2>2. CurrentBatch' = CurrentBatch
    BY <1>1, <1>2, <1>3, <2>1, RangeEmpty DEF CurrentBatch
  <2>. QED  BY <1>3, <2>1, <2>2 DEF Quiet
<1>. QED  BY <1>4, <1>5

\* After preprocessing, the failed calls are answered and the others are kept.
LEMMA FinishPreprocessEffect ==
  ASSUME IInv, OnceInv, FinishPreprocess
  PROVE  Quiet \/ \E S : Settles(S)
<1>1. /\ phase = "preprocess" /\ preprocess_tasks = {}
      /\ responder' = Send(FailedResponders, Err("preprocess"))
      /\ UNCHANGED <<commands, batch_buffer, postprocess_tasks>>
      /\ phase' # "collect"
  BY DEF FinishPreprocess, FailureReply, ForgetBatch
<1>2. /\ CurrentBatch = Range(responders) /\ responders \in Seq(Requests)
      /\ responder \in [Requests -> Content]
      /\ batch_buffer = << >> /\ postprocess_tasks = {}
  BY <1>1, BatchByPhase DEF IInv, TypeOK, ChannelsTypeOK, DataInPhase, Content
<1>3. Range(responders) = Range(KeptResponders) \cup FailedResponders
  BY KeptOrFailed DEF IInv, TypeOK
<1>4. Range(responders') = Range(responders) \ FailedResponders
  <2>1. CASE DOMAIN results = {}
    <3>1. responders' = << >>
      BY <2>1 DEF FinishPreprocess, ForgetBatch
    <3>2. FailedResponders = Range(responders)
      BY <2>1 DEF FailedResponders, Range
    <3>. QED  BY <3>1, <3>2, RangeEmpty
  <2>2. CASE DOMAIN results # {}
    <3>1. responders' = KeptResponders
      BY <2>2 DEF FinishPreprocess
    <3>2. Range(KeptResponders) \cap FailedResponders = {}
      BY KeptApartFromFailed DEF IInv, TypeOK, OnceInv, OncePlaced
    <3>. QED  BY <1>3, <3>1, <3>2
  <2>. QED  BY <2>1, <2>2
<1>5. CurrentBatch' = Range(responders')
  BY <1>1, <1>2, RangeEmpty DEF CurrentBatch
<1>6. CASE FailedResponders = {}
  <2>1. responder' = [r \in Requests |-> responder[r]]
    BY <1>1, <1>6 DEF Send
  <2>2. UNCHANGED responder
    BY <1>2, <2>1
  <2>3. CurrentBatch' = CurrentBatch
    BY <1>2, <1>4, <1>5, <1>6
  <2>. QED  BY <1>1, <2>2, <2>3 DEF Quiet
<1>7. CASE FailedResponders # {}
  <2>1. \A r \in FailedResponders : r \in PreErr \cup PrePanic
    BY <1>1 DEF IInv, FailuresFiltered, FailedResponders, PreFails
  <2>2. \A r \in FailedResponders : Given(r, Err("preprocess"))
    BY <2>1, FateTags DEF Given, FittingReplies, BatcherErrors
  <2>3. FailedResponders \subseteq Range(responders)
    BY <1>3
  <2>4. Settles(FailedResponders)
    BY <1>1, <1>2, <1>4, <1>5, <1>7, <2>2, <2>3 DEF Settles, Send
  <2>. QED  BY <2>4
<1>. QED  BY <1>6, <1>7

\* A postprocess task answers its own caller, whose row it has.
LEMMA PostprocessEffect ==
  ASSUME IInv, OnceInv, NEW t \in postprocess_tasks, Postprocess(t)
  PROVE  \E S : Settles(S)
<1>1. /\ phase = "post"
      /\ responder' = Send({t.responder}, PostprocessVerdict(t.raw_output))
      /\ postprocess_tasks' = postprocess_tasks \ {t}
      /\ UNCHANGED <<commands, batch_buffer, responders, phase>>
  BY DEF Postprocess
<1>2. /\ t.raw_output = t.responder /\ t.responder \notin PreFails
      /\ batch_buffer = << >> /\ responders = << >>
  BY <1>1 DEF IInv, RowsMatch, FailuresFiltered, DataInPhase
<1>. DEFINE r == t.responder
            reply == PostprocessVerdict(r)
<1>3. \/ r \in PostPanic /\ reply = Dropped
      \/ r \in PostErr \ PostPanic /\ reply = Err("postprocess")
      \/ r \notin PostErr \cup PostPanic /\ reply = Ok(r)
  BY DEF PostprocessVerdict
<1>4. r \in Requests
  BY DEF IInv, TypeOK, BatcherTypeOK, PostprocessTask
<1>5. Given(r, reply)
  <2>1. reply \in FittingReplies(r) \cup {Dropped}
    BY <1>2, <1>3 DEF FittingReplies, PreFails
  <2>2. reply.tag \in {"dropped", "postprocess", "ok"}
    BY <1>3, <1>4, FateTags DEF BatcherErrors
  <2>3. reply = Dropped => r \in PostPanic
    BY <1>3, <1>4, FateTags DEF BatcherErrors
  <2>. HIDE DEF r, reply
  <2>. QED  BY <2>1, <2>2, <2>3 DEF Given
<1>6. /\ CurrentBatch = {u.responder : u \in postprocess_tasks}
      /\ CurrentBatch' = {u.responder : u \in postprocess_tasks \ {t}}
  BY <1>1, <1>2, RangeEmpty DEF CurrentBatch
<1>7. \A q \in Requests : IF q \in {r} THEN responder'[q] = reply
                                       ELSE responder'[q] = responder[q]
  BY <1>1, <1>2 DEF Send
<1>8. Settles({r})
  <2>1. r \in CurrentBatch
    BY <1>6
  <2>2. CurrentBatch' = CurrentBatch \ {r}
    BY <1>6 DEF OnceInv, OncePlaced
  <2>. HIDE DEF r, reply
  <2>. QED  BY <1>1, <1>4, <1>5, <1>7, <2>1, <2>2 DEF Settles
<1>. QED  BY <1>8

\* Every step of the batcher does one of five things to the calls it holds.
LEMMA BatcherEffects ==
  ASSUME IInv, FateInv, OnceInv, BatcherAction
  PROVE  Gathers \/ Quiet \/ (\E S : Settles(S)) \/ BatcherGone \/ TimeoutLoses
<1>. DEFINE Goal == Gathers \/ Quiet \/ (\E S : Settles(S)) \/ BatcherGone
                      \/ TimeoutLoses
<1>0. SUFFICES Goal
  BY DEF Goal
<1>. HIDE DEF Goal
<1>1. DataInPhase /\ TaskFates
  BY FateParts DEF IInv
<1>2. CASE FirstCommand \/ Collect
  BY <1>2, TakeGathers DEF Goal
<1>3. CASE Full \/ Timeout \/ ClosedWhileCollecting
  BY <1>3, EndCollectionEffect
  DEF Full, Timeout, ClosedWhileCollecting, MayCollect, Goal
<1>4. ASSUME UNCHANGED <<commands, responder, batch_buffer, responders,
                         postprocess_tasks>>, phase' # "collect"
      PROVE  Goal
  BY <1>4 DEF Quiet, CurrentBatch, Goal
<1>5. CASE CommandsEnd \/ FinishPostprocess \/ Dispatch
             \/ \E t \in preprocess_tasks : JoinPreprocess(t)
  BY <1>4, <1>5 DEF CommandsEnd, FinishPostprocess, Dispatch, JoinPreprocess
<1>6. CASE FinishPreprocess
  BY <1>6, FinishPreprocessEffect DEF Goal
<1>7. ASSUME NEW e \in {"batching", "inference", "worker_closed", "mismatch",
                        "unavailable"},
             phase \in {"batch", "await"}, responders' = << >>,
             responder' = Send(Range(responders), Err(e)),
             UNCHANGED <<commands, batch_buffer, postprocess_tasks>>,
             phase' # "collect",
             e = "unavailable" => \E w \in Workers : session[w] = "dead",
             e = "worker_closed" =>
               \E w \in Workers : session[w] \in {"unwinding", "dead"},
             e = "mismatch" => "count" \in Faults
      PROVE  Goal
  <2>1. e \in BatcherErrors \ {"preprocess", "postprocess"} /\ e # "insufficient"
    BY <1>7 DEF BatcherErrors
  <2>2. \A r \in Requests : Given(r, Err(e))
    BY <1>7, <2>1, ServerErrorsFit, FateTags DEF Given
  <2>. QED  BY <1>7, <2>2, BatchSettled DEF Goal
<1>8. CASE BatchFails
  BY <1>7, <1>8 DEF BatchFails, FailBatch, ForgetBatch
<1>9. CASE BatchPanics
  <2>1. /\ phase = "batch" /\ phase' = "unwinding" /\ responders' = << >>
        /\ responder' = Send(Range(responders), Dropped)
        /\ UNCHANGED <<commands, batch_buffer, postprocess_tasks>>
    BY <1>9 DEF BatchPanics, ForgetBatch
  <2>2. \A r \in Requests : Given(r, Dropped)
    BY <2>1, FateTags DEF Given
  <2>. QED  BY <2>1, <2>2, BatchSettled DEF Goal
<1>10. CASE BatcherGone \/ TimeoutLoses
  BY <1>10 DEF Goal
<1>11. CASE WorkerUnavailable
  <2>1. /\ phase = "batch" /\ WorkerIdx \notin worker_rx /\ NumSessions > 0
        /\ responders' = << >>
        /\ responder' = Send(Range(responders), Err("unavailable"))
        /\ UNCHANGED <<commands, batch_buffer, postprocess_tasks>>
        /\ phase' # "collect"
    BY <1>11 DEF WorkerUnavailable
  <2>2. WorkerIdx \in Workers
    <3>1. dispatch_index \in Nat /\ NumSessions \in Nat \ {0}
      BY <2>1, BatcherAssumption, SessionsAssumption
      DEF IInv, TypeOK, BatcherTypeOK
    <3>2. \A d \in Nat, k \in Nat \ {0} : (d % k) + 1 \in 1 .. k
      OBVIOUS
    <3>. QED  BY <3>1, <3>2 DEF WorkerIdx, Workers
  <2>3. session[WorkerIdx] = "dead"
    BY <1>1, <2>1, <2>2 DEF TaskFates, ThreadEndsKnown, EndsTogether
  <2>. QED  BY <1>7, <2>1, <2>2, <2>3
<1>12. CASE ResultFails
  <2>1. /\ phase = "await" /\ responders' = << >>
        /\ UNCHANGED <<commands, batch_buffer, postprocess_tasks>>
        /\ phase' # "collect"
    BY <1>12 DEF ResultFails, Awaiting, FailBatch, ForgetBatch
  <2>2. CASE Awaiting("err") /\ FailBatch("inference")
    BY <1>7, <2>1, <2>2 DEF FailBatch
  <2>3. CASE Awaiting("closed") /\ FailBatch("worker_closed")
    BY <1>1, <1>7, <2>1, <2>3 DEF FailBatch, Awaiting, TaskFates, ResultCauses
  <2>4. CASE /\ Awaiting("ok") /\ Len(result.outputs) # Len(responders)
             /\ FailBatch("mismatch")
    BY <1>1, <1>7, <2>1, <2>4 DEF FailBatch, Awaiting, TaskFates, ResultCauses
  <2>. QED  BY <1>12, <2>2, <2>3, <2>4 DEF ResultFails
<1>13. CASE ResultOk
  <2>1. /\ phase = "await" /\ phase' = "post" /\ responders' = << >>
        /\ postprocess_tasks' =
             {[raw_output |-> result.outputs[i], responder |-> responders[i]] :
                i \in DOMAIN responders}
        /\ UNCHANGED <<commands, responder, batch_buffer>>
    BY <1>13 DEF ResultOk, Awaiting
  <2>2. batch_buffer = << >> /\ postprocess_tasks = {}
    BY <1>1, <2>1 DEF DataInPhase
  <2>3. {t.responder : t \in postprocess_tasks'} = Range(responders)
    <3>. DEFINE T == {[raw_output |-> result.outputs[i],
                       responder |-> responders[i]] : i \in DOMAIN responders}
    <3>1. \A t \in T : \E i \in DOMAIN responders : t.responder = responders[i]
      OBVIOUS
    <3>2. \A i \in DOMAIN responders : \E t \in T : t.responder = responders[i]
      <4>. SUFFICES ASSUME NEW i \in DOMAIN responders
                    PROVE  \E t \in T : t.responder = responders[i]
        OBVIOUS
      <4>. WITNESS [raw_output |-> result.outputs[i],
                    responder |-> responders[i]] \in T
      <4>. QED  OBVIOUS
    <3>3. postprocess_tasks' = T
      BY <2>1
    <3>. HIDE DEF T
    <3>4. {t.responder : t \in T} = Range(responders)
      BY <3>1, <3>2 DEF Range
    <3>. QED  BY <3>3, <3>4
  <2>4. CurrentBatch' = CurrentBatch
    BY <2>1, <2>2, <2>3, RangeEmpty DEF CurrentBatch
  <2>. QED  BY <2>1, <2>4 DEF Quiet, Goal
<1>14. CASE \E t \in postprocess_tasks : Postprocess(t)
  BY <1>14, PostprocessEffect DEF Goal
<1>. QED  BY <1>2, <1>3, <1>5, <1>6, <1>8, <1>9, <1>10, <1>11, <1>12, <1>13,
             <1>14
          DEF BatcherAction, BatcherNext, Collecting, Preprocessing,
              Dispatching, Answering, Goal

\* What the batcher leaves alone, and what it never takes back.
LEMMA BatcherFrame ==
  ASSUME BatcherAction
  PROVE  /\ UNCHANGED <<callerVars, workerVars, senders, worker_rx>>
         /\ phase # "dead"
         /\ phase = "unwinding" => phase' = "dead"
BY DEF BatcherAction, BatcherNext, Collecting, FirstCommand, CommandsEnd,
       Collect, MayCollect, TakeCommand, Full, Timeout, TimeoutLoses,
       ClosedWhileCollecting, EndCollection, Preprocessing, JoinPreprocess,
       FinishPreprocess, Dispatching, BatchFails, BatchPanics, BatcherGone,
       Dispatch, WorkerUnavailable, Answering, ResultFails, Awaiting, FailBatch,
       ResultOk, Postprocess, FinishPostprocess

\* A call's fate after a step of the batcher: it is where it was or is answered
\* for a reason.
LEMMA FateOfHeld ==
  ASSUME IInv, FateInv, BatcherAction, NEW r \in Requests,
         \/ responder'[r] = responder[r]
              /\ (Held(r) => Held(r)' \/ responder[r] # Open)
         \/ Given(r, responder'[r])
         \/ responder'[r] = Dropped /\ (CancelLoses \/ phase' = "dead")
  PROVE  CallFate(r)'
<1>1. /\ UNCHANGED <<callerVars, workerVars, senders>>
      /\ phase # "dead" /\ (phase = "unwinding" => phase' = "dead")
  BY BatcherFrame
<1>2. CallFate(r)
  BY FateParts DEF CallFates
<1>3. CASE responder'[r] = responder[r]
              /\ (Held(r) => Held(r)' \/ responder[r] # Open)
  BY <1>1, <1>2, <1>3 DEF CallFate, InFlight, Held
<1>4. CASE Given(r, responder'[r])
  <2>1. responder'[r] # Open
    <3>1. FittingReplies(r) \subseteq
            {Err(e) : e \in BatcherErrors} \cup {Ok(r), Dropped}
      BY DEF FittingReplies, BatcherErrors
    <3>. QED  BY <1>4, <3>1, FateTags DEF Given
  <2>. QED  BY <1>1, <1>2, <1>4, <2>1 DEF CallFate, InFlight, Given
<1>5. CASE responder'[r] = Dropped /\ (CancelLoses \/ phase' = "dead")
  BY <1>1, <1>2, <1>5, FateTags DEF CallFate, InFlight
<1>. QED  BY <1>3, <1>4, <1>5

\* A step of the batcher leaves every call a fate that has a reason.
LEMMA BatcherCallFates ==
  ASSUME IInv, FateInv, OnceInv, BatcherAction
  PROVE  CallFates'
<1>. SUFFICES ASSUME NEW r \in Requests  PROVE CallFate(r)'
  BY DEF CallFates
<1>1. commands \in Seq(Requests) /\ batch_buffer \in Seq(Requests)
  BY BatchByPhase
<1>2. CASE Gathers
  <2>1. commands # << >> /\ commands' = Tail(commands) /\ UNCHANGED responder
        /\ CurrentBatch' = CurrentBatch \cup {Head(commands)}
    BY <1>2 DEF Gathers
  <2>2. Range(commands) = {Head(commands)} \cup Range(commands')
    BY <1>1, <2>1, RangeTail
  <2>3. Held(r) => Held(r)'
    BY <2>1, <2>2 DEF Held
  <2>. QED  BY <2>1, <2>3, FateOfHeld
<1>3. CASE Quiet
  BY <1>3, FateOfHeld DEF Quiet, Held
<1>4. ASSUME NEW S, Settles(S)
      PROVE  CallFate(r)'
  <2>1. CASE r \in S
    BY <1>4, <2>1, FateOfHeld DEF Settles
  <2>2. CASE r \notin S
    <3>1. responder'[r] = responder[r] /\ (Held(r) => Held(r)')
      BY <1>4, <2>2 DEF Settles, Held
    <3>. QED  BY <3>1, FateOfHeld
  <2>. QED  BY <2>1, <2>2
<1>5. CASE BatcherGone
  <2>1. phase' = "dead" /\ UNCHANGED <<batch_buffer, responders, postprocess_tasks>>
    BY <1>5 DEF BatcherGone
  <2>2. CASE DiscardOnClose
    <3>1. responder' = Send(Range(commands), Dropped)
      BY <1>5, <2>2 DEF BatcherGone
    <3>2. CASE r \in Range(commands)
      BY <2>1, <3>1, <3>2, FateOfHeld DEF Send
    <3>3. CASE r \notin Range(commands)
      <4>1. responder'[r] = responder[r] /\ (Held(r) => Held(r)')
        BY <2>1, <3>1, <3>3 DEF Send, Held, CurrentBatch
      <4>. QED  BY <4>1, FateOfHeld
    <3>. QED  BY <3>2, <3>3
  <2>3. CASE ~DiscardOnClose
    <3>1. UNCHANGED <<commands, responder>>
      BY <1>5, <2>3 DEF BatcherGone
    <3>. QED  BY <2>1, <3>1, FateOfHeld DEF Held, CurrentBatch
  <2>. QED  BY <2>2, <2>3
<1>6. CASE TimeoutLoses
  <2>1. /\ CancelLoses /\ phase = "collect" /\ commands # << >>
        /\ EndCollection({Head(commands)}) /\ commands' = Tail(commands)
    BY <1>6 DEF TimeoutLoses, MayCollect
  <2>2. Range(commands) = {Head(commands)} \cup Range(commands')
    BY <1>1, <2>1, RangeTail
  <2>3. /\ CurrentBatch = Range(batch_buffer) /\ batch_buffer # << >>
        /\ responders = << >> /\ postprocess_tasks = {}
    BY <2>1, BatchByPhase DEF IInv, DataInPhase
  <2>4. CASE r = Head(commands)
    BY <2>1, <2>4, FateOfHeld DEF EndCollection
  <2>5. CASE r # Head(commands) /\ Len(batch_buffer) < MinBatch
                /\ r \in Range(batch_buffer)
    <3>1. responder'[r] = Err("insufficient")
      BY <2>1, <2>5 DEF EndCollection, Refusal
    <3>2. MinBatch > 1
      BY <1>1, <2>3, <2>5, BatcherAssumption
    <3>3. Given(r, Err("insufficient"))
      BY <3>2, ServerErrorsFit, FateTags DEF Given, BatcherErrors
    <3>. QED  BY <3>1, <3>3, FateOfHeld
  <2>6. CASE r # Head(commands) /\ Len(batch_buffer) < MinBatch
                /\ r \notin Range(batch_buffer)
    <3>1. responder'[r] = responder[r]
      BY <2>1, <2>6 DEF EndCollection
    <3>2. Held(r) => Held(r)'
      BY <2>2, <2>3, <2>6 DEF Held
    <3>. QED  BY <3>1, <3>2, FateOfHeld
  <2>7. CASE r # Head(commands) /\ ~(Len(batch_buffer) < MinBatch)
    <3>1. responder'[r] = responder[r] /\ responders' = batch_buffer
      BY <2>1, <2>7 DEF EndCollection
    <3>2. Held(r) => Held(r)'
      BY <2>2, <2>3, <2>7, <3>1 DEF Held, CurrentBatch
    <3>. QED  BY <3>1, <3>2, FateOfHeld
  <2>. QED  BY <2>4, <2>5, <2>6, <2>7
<1>. QED  BY <1>2, <1>3, <1>4, <1>5, <1>6, BatcherEffects

\* The ends of the channels, and the result the batcher waits for.
LEMMA BatcherTaskFates ==
  ASSUME IInv, FateInv, BatcherAction
  PROVE  TaskFates'
<1>. DEFINE Counted == phase = "await" /\ result.state = "ok" =>
                         Len(result.outputs) = Len(responders) \/ "count" \in Faults
<1>1. TaskFates
  BY FateParts
<1>2. UNCHANGED <<workerVars, senders, worker_rx>>
  BY BatcherFrame
<1>3. ASSUME UNCHANGED <<command_rx, worker_txs, result>>,
             phase' \notin {"await", "exited"},
             phase \notin {"exited", "dead"}
      PROVE  TaskFates'
  BY <1>1, <1>2, <1>3
  DEF TaskFates, EndsTogether, ThreadEndsKnown, ResultCauses
<1>4. CASE CommandsEnd
  BY <1>1, <1>2, <1>4
  DEF CommandsEnd, CommandsClosed, TaskFates, EndsTogether, ThreadEndsKnown,
      ResultCauses
<1>5. CASE BatcherGone
  BY <1>1, <1>2, <1>5
  DEF BatcherGone, TaskFates, EndsTogether, ThreadEndsKnown, ResultCauses
<1>6. CASE Dispatch
  <2>1. result'.state = "pending" /\ UNCHANGED <<command_rx, worker_txs>>
        /\ phase = "batch" /\ phase' = "await"
    BY <1>6 DEF Dispatch
  <2>. QED  BY <1>1, <1>2, <2>1
            DEF TaskFates, EndsTogether, ThreadEndsKnown, ResultCauses
<1>7. CASE FirstCommand \/ Collect \/ Full \/ Timeout \/ TimeoutLoses
             \/ ClosedWhileCollecting
  BY <1>3, <1>7
  DEF FirstCommand, Collect, TakeCommand, Full, Timeout, TimeoutLoses,
      ClosedWhileCollecting, MayCollect, EndCollection
<1>8. CASE Preprocessing
  BY <1>3, <1>8 DEF Preprocessing, JoinPreprocess, FinishPreprocess
<1>9. CASE BatchFails \/ BatchPanics \/ WorkerUnavailable
  BY <1>3, <1>9 DEF BatchFails, FailBatch, BatchPanics, WorkerUnavailable
<1>10. CASE Answering
  BY <1>3, <1>10
  DEF Answering, ResultFails, Awaiting, FailBatch, ResultOk, Postprocess,
      FinishPostprocess
<1>. QED  BY <1>4, <1>5, <1>6, <1>7, <1>8, <1>9, <1>10
          DEF BatcherAction, BatcherNext, Collecting, Dispatching

-----------------------------------------------------------------------------
(* A call is in one place at a time, and is unanswered while it is there. *)

\* OnceInv speaks of the callers, the commands and the batch only.
LEMMA SameOnce ==
  ASSUME OnceInv, UNCHANGED <<batcherVars, caller, commands, responder>>
  PROVE  OnceInv'
<1>1. OncePlaced'
  BY DEF OnceInv, OncePlaced, CurrentBatch
<1>2. HeldUnanswered'
  BY DEF OnceInv, HeldUnanswered, CurrentBatch
<1>3. CrashHasCause'
  BY DEF OnceInv, CrashHasCause
<1>. QED  BY <1>1, <1>2, <1>3 DEF OnceInv

\* The four things a step of a call may be.
NotYet(r) == caller[r] \in {"idle", "preprocessing"}

Accepted(r) ==
  /\ NotYet(r)
  /\ commands' = Append(commands, r)
  /\ responder' = [responder EXCEPT ![r] = Open]
  /\ caller' = [caller EXCEPT ![r] = "waiting"]

Refused(r) ==
  /\ NotYet(r)
  /\ UNCHANGED commands
  /\ responder' = [responder EXCEPT ![r] = Dropped]
  /\ \E s \in {"returned", "gone"} : caller' = [caller EXCEPT ![r] = s]

Started(r) ==
  /\ caller[r] = "idle"
  /\ UNCHANGED commands
  /\ responder' = [responder EXCEPT ![r] = Open]
  /\ caller' = [caller EXCEPT ![r] = "preprocessing"]

Ended(r) ==
  /\ caller[r] = "waiting"
  /\ UNCHANGED <<commands, responder>>
  /\ \E s \in {"returned", "gone"} : caller' = [caller EXCEPT ![r] = s]

\* Every step of a caller is one of the four, or leaves calls alone.
LEMMA CallerKinds ==
  ASSUME IInv, CallerAction
  PROVE  \/ UNCHANGED <<commands, responder, caller>>
         \/ \E r \in Requests : Accepted(r) \/ Refused(r) \/ Started(r) \/ Ended(r)
<1>0. responder \in [Requests -> Content]
  BY DEF IInv, TypeOK, ChannelsTypeOK, Content
<1>. DEFINE Kind(r) == Accepted(r) \/ Refused(r) \/ Started(r) \/ Ended(r)
<1>1. CASE \E h, g \in Handles : CloneServer(h, g)
  BY <1>1 DEF CloneServer
<1>2. CASE \E h \in Handles : Shutdown(h)
  BY <1>2 DEF Shutdown
<1>3. ASSUME NEW r \in Requests, SendCommand(r), NotYet(r)
      PROVE  Kind(r)
  BY <1>3 DEF SendCommand, Accepted, Refused
<1>4. ASSUME NEW r \in Requests, Infer(r)
      PROVE  Kind(r)
  <2>1. CASE PreprocessOnInfer
    BY <1>4, <2>1 DEF Infer, Started
  <2>2. CASE ~PreprocessOnInfer
    <3>1. SendCommand(r) /\ NotYet(r)
      BY <1>4, <2>2 DEF Infer, NotYet
    <3>. QED  BY <1>3, <3>1
  <2>. QED  BY <2>1, <2>2
<1>5. ASSUME NEW r \in Requests, PreprocessInInfer(r)
      PROVE  Kind(r)
  <2>1. NotYet(r)
    BY <1>5 DEF PreprocessInInfer, NotYet
  <2>2. CASE SendCommand(r)
    BY <1>3, <2>1, <2>2
  <2>3. CASE ~SendCommand(r)
    BY <1>5, <2>1, <2>3 DEF PreprocessInInfer, Refused
  <2>. QED  BY <2>2, <2>3
<1>6. ASSUME NEW r \in Requests, Respond(r)
      PROVE  Kind(r)
  BY <1>6 DEF Respond, Ended
<1>7. ASSUME NEW r \in Requests, Cancel(r)
      PROVE  Kind(r)
  <2>1. CASE caller[r] = "preprocessing"
    BY <1>7, <2>1 DEF Cancel, Refused, NotYet
  <2>2. CASE caller[r] # "preprocessing"
    <3>1. UNCHANGED responder
      BY <1>0, <1>7, <2>2 DEF Cancel
    <3>. QED  BY <1>7, <2>2, <3>1 DEF Cancel, InFlight, Ended
  <2>. QED  BY <2>1, <2>2
<1>. QED  BY <1>1, <1>2, <1>4, <1>5, <1>6, <1>7
          DEF CallerAction, CallersNext, CallersStep

\* A new element at the end is no repetition.
LEMMA AppendInjective1 ==
  ASSUME NEW T, NEW s \in Seq(T), NEW x \in T, IsInjective(s), x \notin Range(s)
  PROVE  IsInjective(Append(s, x))
<1>1. /\ DOMAIN Append(s, x) = 1 .. Len(s) + 1 /\ DOMAIN s = 1 .. Len(s)
      /\ Len(s) \in Nat
      /\ Append(s, x)[Len(s) + 1] = x
      /\ \A i \in 1 .. Len(s) : Append(s, x)[i] = s[i]
  OBVIOUS
<1>2. \A i \in 1 .. Len(s) + 1 : i \in 1 .. Len(s) \/ i = Len(s) + 1
  BY <1>1
<1>3. \A i \in 1 .. Len(s) : s[i] # x
  BY <1>1 DEF Range
<1>. QED  BY <1>1, <1>2, <1>3 DEF IsInjective

\* The rest of a list without repetition repeats nothing, nor its head.
LEMMA TailInjective ==
  ASSUME NEW T, NEW s \in Seq(T), s # << >>, IsInjective(s)
  PROVE  IsInjective(Tail(s)) /\ Head(s) \notin Range(Tail(s))
<1>1. Len(s) \in Nat /\ Len(s) > 0 /\ DOMAIN s = 1 .. Len(s) /\ Head(s) = s[1]
  OBVIOUS
<1>2. Tail(s) \in Seq(T) /\ Len(Tail(s)) = Len(s) - 1
  BY HeadTailProperties
<1>3. DOMAIN Tail(s) = 1 .. Len(s) - 1
  BY <1>2
<1>4. \A i \in 1 .. Len(s) - 1 : Tail(s)[i] = s[i + 1]
  BY <1>2, HeadTailProperties
<1>5. \A i \in 1 .. Len(s) - 1 : i + 1 \in DOMAIN s /\ i + 1 # 1 /\ 1 \in DOMAIN s
  BY <1>1
<1>6. \A i, j \in 1 .. Len(s) - 1 : i + 1 = j + 1 => i = j
  BY <1>1
<1>7. IsInjective(Tail(s))
  BY <1>3, <1>4, <1>5, <1>6 DEF IsInjective
<1>8. \A i \in 1 .. Len(s) - 1 : Tail(s)[i] # Head(s)
  BY <1>1, <1>4, <1>5 DEF IsInjective
<1>. QED  BY <1>3, <1>7, <1>8 DEF Range

\* Callers put a call into the channel once.
LEMMA CallerOnce ==
  ASSUME IInv, OnceInv, CallerAction
  PROVE  OnceInv'
<1>1. UNCHANGED batcherVars
  BY CallerFrame
<1>2. /\ OncePlaced /\ HeldUnanswered /\ commands \in Seq(Requests)
      /\ responder \in [Requests -> Content]
      /\ caller \in [Requests -> CallerStates]
  BY DEF OnceInv, IInv, TypeOK, ChannelsTypeOK, CallersTypeOK, Content
<1>3. CurrentBatch' = CurrentBatch /\ CrashHasCause'
  BY <1>1 DEF OnceInv, CrashHasCause, CurrentBatch
<1>4. ASSUME NEW r \in Requests, Accepted(r)
      PROVE  OnceInv'
  <2>1. r \notin Range(commands) \cup CurrentBatch
    BY <1>2, <1>4 DEF HeldUnanswered, Accepted, NotYet
  <2>2. Range(commands') = Range(commands) \cup {r} /\ IsInjective(commands')
    BY <1>2, <1>4, <2>1, RangeAppend, AppendInjective1 DEF Accepted, OncePlaced
  <2>3. OncePlaced'
    BY <1>1, <1>2, <1>3, <2>1, <2>2 DEF OncePlaced
  <2>4. /\ responder'[r] = Open /\ caller'[r] = "waiting"
        /\ \A q \in Requests \ {r} : responder'[q] = responder[q]
                                       /\ caller'[q] = caller[q]
    BY <1>2, <1>4 DEF Accepted
  <2>5. HeldUnanswered'
    BY <1>2, <1>3, <2>2, <2>4 DEF HeldUnanswered
  <2>. QED  BY <1>3, <2>3, <2>5 DEF OnceInv
<1>5. ASSUME NEW r \in Requests, Refused(r) \/ Started(r) \/ Ended(r)
      PROVE  OnceInv'
  <2>1. /\ UNCHANGED commands
        /\ r \in Range(commands) \cup CurrentBatch =>
             UNCHANGED responder /\ caller'[r] \in {"returned", "gone"}
        /\ caller'[r] # "idle"
        /\ \A q \in Requests \ {r} : responder'[q] = responder[q]
                                       /\ caller'[q] = caller[q]
    BY <1>2, <1>5 DEF Refused, Started, Ended, HeldUnanswered, NotYet
  <2>2. OncePlaced'
    BY <1>1, <1>2, <1>3, <2>1 DEF OncePlaced
  <2>3. HeldUnanswered'
    BY <1>2, <1>3, <2>1 DEF HeldUnanswered
  <2>. QED  BY <1>3, <2>2, <2>3 DEF OnceInv
<1>. QED  BY <1>1, <1>4, <1>5, SameOnce, CallerKinds

\* Letting calls go leaves the others in one place each.
LEMMA PlacedShrinks ==
  ASSUME OncePlaced,
         IsInjective(commands'), Range(commands') \subseteq Range(commands),
         batch_buffer' \in {batch_buffer, << >>}, IsInjective(responders'),
         postprocess_tasks' \subseteq postprocess_tasks,
         CurrentBatch' \subseteq CurrentBatch
  PROVE  OncePlaced'
<1>1. IsInjective(batch_buffer')
  BY DEF OncePlaced, IsInjective
<1>2. \A t, u \in postprocess_tasks' : t.responder = u.responder => t = u
  BY DEF OncePlaced
<1>3. Range(commands') \cap CurrentBatch' = {}
  BY DEF OncePlaced
<1>. QED  BY <1>1, <1>2, <1>3 DEF OncePlaced

\* The empty list repeats nothing.
LEMMA EmptyInjective == IsInjective(<< >>)
BY DEF IsInjective

\* The commands the batcher leaves in the channel.
LEMMA CommandsShrink ==
  ASSUME IInv, OncePlaced, commands' = commands \/ commands' = << >>
           \/ (commands # << >> /\ commands' = Tail(commands))
  PROVE  IsInjective(commands') /\ Range(commands') \subseteq Range(commands)
<1>1. commands \in Seq(Requests)
  BY BatchByPhase
<1>2. CASE commands # << >> /\ commands' = Tail(commands)
  BY <1>1, <1>2, TailInjective, RangeTail DEF OncePlaced
<1>. QED  BY <1>2, EmptyInjective, RangeEmpty DEF OncePlaced

\* Filtering the failed calls out leaves a list without repetition.
LEMMA KeptInjective ==
  ASSUME BatcherTypeOK, IsInjective(responders)
  PROVE  IsInjective(KeptResponders)
<1>1. DOMAIN results \in SUBSET (1 .. Len(responders)) /\ Len(responders) \in Nat
      /\ DOMAIN responders = 1 .. Len(responders)
  BY DEF BatcherTypeOK
<1>. DEFINE e == InOrder(DOMAIN results)
            m == Cardinality(DOMAIN results)
<1>2. m \in Nat /\ e \in [1 .. m -> DOMAIN results] /\ Increasing(e)
  BY <1>1, InOrderLists
<1>. HIDE DEF e, m
<1>3. KeptResponders = [k \in 1 .. m |-> responders[e[k]]]
  BY <1>2 DEF KeptResponders, e
<1>4. \A k \in 1 .. m : e[k] \in DOMAIN responders /\ e[k] \in Nat
  BY <1>1, <1>2
<1>5. ASSUME NEW j \in 1 .. m, NEW k \in 1 .. m, responders[e[j]] = responders[e[k]]
      PROVE  j = k
  <2>1. e[j] = e[k]
    BY <1>4, <1>5 DEF IsInjective
  <2>2. (j < k => e[j] < e[k]) /\ (k < j => e[k] < e[j])
    BY <1>2 DEF Increasing
  <2>. QED  BY <1>2, <1>4, <2>1, <2>2
<1>. QED  BY <1>3, <1>5 DEF IsInjective

\* A command that is taken moves from the channel to the buffer.
LEMMA TakePlaced ==
  ASSUME IInv, OncePlaced, BatcherAction, FirstCommand \/ Collect
  PROVE  OncePlaced'
<1>1. /\ commands # << >> /\ commands' = Tail(commands)
      /\ batch_buffer' = Append(batch_buffer, Head(commands))
      /\ UNCHANGED <<responders, postprocess_tasks>>
  BY DEF FirstCommand, Collect, TakeCommand
<1>2. commands \in Seq(Requests) /\ batch_buffer \in Seq(Requests)
  BY BatchByPhase
<1>3. /\ Head(commands) \in Requests
      /\ Range(commands) = {Head(commands)} \cup Range(commands')
      /\ IsInjective(commands') /\ Head(commands) \notin Range(commands')
  BY <1>1, <1>2, RangeTail, TailInjective DEF OncePlaced
<1>4. Range(batch_buffer) \subseteq CurrentBatch
  BY DEF CurrentBatch
<1>5. Head(commands) \notin Range(batch_buffer)
  BY <1>3, <1>4 DEF OncePlaced
<1>6. IsInjective(batch_buffer')
  BY <1>1, <1>2, <1>3, <1>5, AppendInjective1 DEF OncePlaced
<1>7. CurrentBatch' = CurrentBatch \cup {Head(commands)}
  BY TakeGathers DEF Gathers
<1>8. Range(commands') \cap CurrentBatch' = {}
  BY <1>3, <1>7 DEF OncePlaced
<1>. QED  BY <1>1, <1>3, <1>6, <1>8 DEF OncePlaced

\* The batcher keeps every call in one place.
LEMMA BatcherPlaced ==
  ASSUME IInv, FateInv, OnceInv, BatcherAction
  PROVE  OncePlaced'
<1>0. OncePlaced /\ BatcherTypeOK /\ DataInPhase
  BY DEF OnceInv, IInv, TypeOK
<1>1. CASE FirstCommand \/ Collect
  BY <1>0, <1>1, TakePlaced
<1>2. ASSUME ~Gathers, ~TimeoutLoses
      PROVE  CurrentBatch' \subseteq CurrentBatch
  <2>1. BatcherGone => CurrentBatch' = CurrentBatch
    BY DEF BatcherGone, CurrentBatch
  <2>. QED  BY <1>2, <2>1, BatcherEffects DEF Quiet, Settles
<1>3. Gathers => batch_buffer' # << >> /\ phase' = "collect"
  <2>1. ASSUME Gathers  PROVE FirstCommand \/ Collect
    BY <2>1
    DEF Gathers, BatcherAction, BatcherNext, Collecting, CommandsEnd, Full,
        Timeout, TimeoutLoses, ClosedWhileCollecting, EndCollection,
        Preprocessing, JoinPreprocess, FinishPreprocess, Dispatching, BatchFails,
        FailBatch, BatchPanics, BatcherGone, Dispatch, WorkerUnavailable,
        Answering, ResultFails, ResultOk, Postprocess, FinishPostprocess
  <2>2. batch_buffer \in Seq(Requests) /\ commands \in Seq(Requests)
    BY BatchByPhase
  <2>3. FirstCommand \/ Collect => batch_buffer' # << >>
    BY <2>2 DEF FirstCommand, Collect, TakeCommand
  <2>. QED  BY <2>1, <2>3 DEF Gathers
<1>4. ASSUME NEW lost, phase = "collect", EndCollection(lost),
             commands' = commands \/ (commands # << >> /\ commands' = Tail(commands))
      PROVE  OncePlaced'
  <2>1. /\ batch_buffer' = << >> /\ UNCHANGED postprocess_tasks
        /\ responders' \in {responders, batch_buffer}
    BY <1>4 DEF EndCollection
  <2>2. responders = << >>
    BY <1>0, <1>4 DEF DataInPhase
  <2>3. IsInjective(responders')
    BY <1>0, <2>1 DEF OncePlaced
  <2>4. CurrentBatch' \subseteq CurrentBatch
    BY <2>1, <2>2, RangeEmpty DEF CurrentBatch
  <2>. QED  BY <1>0, <1>4, <2>1, <2>3, <2>4, CommandsShrink, PlacedShrinks
<1>5. CASE Full \/ Timeout \/ TimeoutLoses \/ ClosedWhileCollecting
  BY <1>4, <1>5
  DEF Full, Timeout, TimeoutLoses, ClosedWhileCollecting, MayCollect
<1>6. ASSUME phase' # "collect", ~TimeoutLoses, UNCHANGED batch_buffer,
             commands' \in {commands, << >>},
             responders' \in {responders, << >>} \/ responders' = KeptResponders,
             postprocess_tasks' \subseteq postprocess_tasks
      PROVE  OncePlaced'
  <2>1. CurrentBatch' \subseteq CurrentBatch
    BY <1>2, <1>3, <1>6
  <2>2. IsInjective(responders')
    BY <1>0, <1>6, KeptInjective, EmptyInjective DEF OncePlaced
  <2>. QED  BY <1>0, <1>6, <2>1, <2>2, CommandsShrink, PlacedShrinks
<1>7. CASE CommandsEnd \/ FinishPostprocess \/ Dispatch \/ BatcherGone
             \/ (\E t \in preprocess_tasks : JoinPreprocess(t))
             \/ (\E t \in postprocess_tasks : Postprocess(t))
  BY <1>6, <1>7
  DEF CommandsEnd, FinishPostprocess, Dispatch, BatcherGone, JoinPreprocess,
      Postprocess, TimeoutLoses, MayCollect
<1>8. CASE FinishPreprocess
  BY <1>6, <1>8
  DEF FinishPreprocess, ForgetBatch, TimeoutLoses, MayCollect
<1>9. CASE BatchFails \/ BatchPanics \/ WorkerUnavailable \/ ResultFails
  BY <1>6, <1>9
  DEF BatchFails, BatchPanics, WorkerUnavailable, ResultFails, Awaiting,
      FailBatch, ForgetBatch, TimeoutLoses, MayCollect
<1>10. CASE ResultOk
  <2>. DEFINE T == {[raw_output |-> result.outputs[i],
                     responder |-> responders[i]] : i \in DOMAIN responders}
  <2>1. /\ postprocess_tasks' = T /\ responders' = << >>
        /\ phase = "await" /\ phase' = "post"
        /\ UNCHANGED <<commands, batch_buffer>>
    BY <1>10 DEF ResultOk, Awaiting
  <2>2. \A t, u \in T : t.responder = u.responder => t = u
    BY <1>0 DEF OncePlaced, IsInjective
  <2>3. CurrentBatch' \subseteq CurrentBatch
    BY <1>2, <1>3, <2>1 DEF TimeoutLoses, MayCollect
  <2>4. Range(commands') \cap CurrentBatch' = {}
    BY <1>0, <2>1, <2>3 DEF OncePlaced
  <2>. HIDE DEF T
  <2>. QED  BY <1>0, <2>1, <2>2, <2>4, EmptyInjective DEF OncePlaced
<1>. QED  BY <1>1, <1>5, <1>7, <1>8, <1>9, <1>10
          DEF BatcherAction, BatcherNext, Collecting, Preprocessing,
              Dispatching, Answering

\* The batcher answers no call that it goes on holding.
LEMMA BatcherOnce ==
  ASSUME IInv, FateInv, OnceInv, BatcherAction
  PROVE  OnceInv'
<1>0. /\ OncePlaced /\ HeldUnanswered /\ CrashHasCause
      /\ commands \in Seq(Requests)
      /\ UNCHANGED caller
  BY BatchByPhase, BatcherFrame DEF OnceInv
<1>1. OncePlaced'
  BY BatcherPlaced
<1>2. CrashHasCause'
  BY <1>0
  DEF CrashHasCause, BatcherAction, BatcherNext, Collecting, FirstCommand,
      CommandsEnd, Collect, Full, Timeout, TimeoutLoses, ClosedWhileCollecting,
      EndCollection, Preprocessing, JoinPreprocess, FinishPreprocess, Dispatching,
      BatchFails, FailBatch, BatchPanics, BatcherGone, Dispatch,
      WorkerUnavailable, Answering, ResultFails, ResultOk, Postprocess,
      FinishPostprocess
<1>. SUFFICES HeldUnanswered'
  BY <1>1, <1>2 DEF OnceInv
<1>3. ASSUME \A r \in Requests :
               /\ Held(r)' => Held(r) /\ responder'[r] = responder[r]
               /\ ~Held(r) => responder'[r] = responder[r]
      PROVE  HeldUnanswered'
  BY <1>0, <1>3 DEF HeldUnanswered, Held
<1>4. CASE Gathers
  <2>1. Range(commands) = {Head(commands)} \cup Range(commands')
    BY <1>0, <1>4, RangeTail DEF Gathers
  <2>. QED  BY <1>3, <1>4, <2>1 DEF Gathers, Held
<1>5. CASE Quiet
  BY <1>3, <1>5 DEF Quiet, Held
<1>6. ASSUME NEW S, Settles(S)
      PROVE  HeldUnanswered'
  <2>1. /\ S \subseteq CurrentBatch /\ CurrentBatch' = CurrentBatch \ S
        /\ UNCHANGED commands
        /\ \A r \in Requests \ S : responder'[r] = responder[r]
    BY <1>6 DEF Settles
  <2>2. \A r \in S : r \notin Range(commands)
    BY <1>0, <2>1 DEF OncePlaced
  <2>. QED  BY <1>3, <2>1, <2>2 DEF Held
<1>7. CASE BatcherGone
  <2>1. phase = "unwinding" /\ UNCHANGED <<batch_buffer, responders, postprocess_tasks>>
    BY <1>7 DEF BatcherGone
  <2>2. CurrentBatch' = {}
    BY <2>1, BatchByPhase DEF CurrentBatch
  <2>3. CASE DiscardOnClose
    <3>1. commands' = << >> /\ responder' = Send(Range(commands), Dropped)
      BY <1>7, <2>3 DEF BatcherGone
    <3>. QED  BY <1>3, <2>2, <3>1, RangeEmpty DEF Held, Send
  <2>4. CASE ~DiscardOnClose
    <3>1. UNCHANGED <<commands, responder>>
      BY <1>7, <2>4 DEF BatcherGone
    <3>. QED  BY <1>3, <2>2, <3>1 DEF Held
  <2>. QED  BY <2>3, <2>4
<1>8. CASE TimeoutLoses
  <2>1. /\ phase = "collect" /\ commands # << >>
        /\ EndCollection({Head(commands)}) /\ commands' = Tail(commands)
    BY <1>8 DEF TimeoutLoses, MayCollect
  <2>2. /\ Range(commands) = {Head(commands)} \cup Range(commands')
        /\ Head(commands) \notin Range(commands')
    BY <1>0, <2>1, RangeTail, TailInjective DEF OncePlaced
  <2>3. /\ CurrentBatch = Range(batch_buffer)
        /\ responders = << >> /\ postprocess_tasks = {}
    BY <2>1, BatchByPhase DEF IInv, DataInPhase
  <2>4. Head(commands) \notin Range(batch_buffer)
    BY <1>0, <2>2, <2>3 DEF OncePlaced
  <2>5. Range(batch_buffer) \cap Range(commands') = {}
    BY <1>0, <2>2, <2>3 DEF OncePlaced
  <2>6. batch_buffer' = << >> /\ UNCHANGED postprocess_tasks
    BY <2>1 DEF EndCollection
  <2>7. CASE Len(batch_buffer) < MinBatch
    <3>1. UNCHANGED responders
      BY <2>1, <2>7 DEF EndCollection
    <3>2. CurrentBatch' = {}
      BY <2>3, <2>6, <3>1, RangeEmpty DEF CurrentBatch
    <3>3. \A r \in Requests :
            r # Head(commands) /\ r \notin Range(batch_buffer) =>
              responder'[r] = responder[r]
      BY <2>1, <2>7 DEF EndCollection
    <3>. QED  BY <1>3, <2>2, <2>3, <2>5, <3>2, <3>3 DEF Held
  <2>8. CASE ~(Len(batch_buffer) < MinBatch)
    <3>1. responders' = batch_buffer
      BY <2>1, <2>8 DEF EndCollection
    <3>2. CurrentBatch' = CurrentBatch
      BY <2>3, <2>6, <3>1, RangeEmpty DEF CurrentBatch
    <3>3. \A r \in Requests : r # Head(commands) => responder'[r] = responder[r]
      BY <2>1, <2>8 DEF EndCollection
    <3>. QED  BY <1>3, <2>2, <2>3, <2>4, <3>2, <3>3 DEF Held
  <2>. QED  BY <2>7, <2>8
<1>. QED  BY <1>4, <1>5, <1>6, <1>7, <1>8, BatcherEffects

-----------------------------------------------------------------------------
(* The invariants, and the properties. *)

\* At the start no call has been made.
LEMMA InitFate == Init => FateInv
<1>. SUFFICES ASSUME Init  PROVE FateInv
  OBVIOUS
<1>. USE DEF Init, ChannelsInit, CallersInit, WorkerPoolInit, BatcherInit
<1>1. CallFates
  BY FateTags DEF CallFates, CallFate, InFlight
<1>2. TaskFates
  BY DEF TaskFates, EndsTogether, ThreadEndsKnown, ResultCauses
<1>. QED  BY <1>1, <1>2, FateParts

\* Every step preserves FateInv.
LEMMA NextFate == IInv /\ FateInv /\ OnceInv /\ [Next]_vars => FateInv'
<1>1. ASSUME IInv, FateInv, OnceInv, BatcherAction  PROVE FateInv'
  BY <1>1, BatcherCallFates, BatcherTaskFates, FatePartsPrimed
<1>2. ASSUME FateInv, UNCHANGED vars  PROVE FateInv'
  <2>1. CallFates /\ TaskFates
    BY <1>2, FateParts
  <2>2. CallFates'
    BY <1>2, <2>1 DEF CallFates, CallFate, InFlight, CurrentBatch
  <2>3. TaskFates'
    BY <1>2, <2>1 DEF TaskFates, EndsTogether, ThreadEndsKnown, ResultCauses
  <2>. QED  BY <2>2, <2>3, FatePartsPrimed
<1>. QED  BY <1>1, <1>2, CallerFates, ThreadFates DEF Next, Terminating

\* At the start no call is anywhere.
LEMMA InitOnce == Init => OnceInv
<1>. SUFFICES ASSUME Init  PROVE OnceInv
  OBVIOUS
<1>. USE DEF Init, ChannelsInit, CallersInit, WorkerPoolInit, BatcherInit
<1>1. CurrentBatch = {}
  BY RangeEmpty DEF CurrentBatch
<1>2. OncePlaced
  BY <1>1, RangeEmpty DEF OncePlaced, IsInjective
<1>3. HeldUnanswered
  BY <1>1, RangeEmpty DEF HeldUnanswered
<1>. QED  BY <1>2, <1>3 DEF OnceInv, CrashHasCause

\* Every step preserves OnceInv.
LEMMA NextOnce == IInv /\ FateInv /\ OnceInv /\ [Next]_vars => OnceInv'
<1>1. ASSUME OnceInv, WorkerAction  PROVE OnceInv'
  <2>1. UNCHANGED <<batcherVars, callerVars, commandChannel, responder>>
    BY <1>1, WorkerFrame
  <2>. QED  BY <1>1, <2>1, SameOnce
<1>2. ASSUME OnceInv, UNCHANGED vars  PROVE OnceInv'
  BY <1>2, SameOnce
<1>. QED  BY <1>1, <1>2, CallerOnce, BatcherOnce DEF Next, Terminating

\* FateInv and OnceInv always hold, whatever fails and whoever gives up.
THEOREM FateInvariance == Spec => [](FateInv /\ OnceInv)
BY Invariance, InitFate, NextFate, InitOnce, NextOnce, PTL DEF Spec

\* No error path of the batcher forgets a caller: a responder is dropped
\* unanswered only when the task that held it was lost.
THEOREM NoCallerForgottenHolds == Spec => []NoCallerForgotten
<1>1. FateInv => NoCallerForgotten
  BY DEF FateInv
<1>. QED  BY <1>1, FateInvariance, PTL

\* An error that speaks of the server has its cause in that part of it.
THEOREM ErrorsHaveCauseHolds == Spec => []ErrorsHaveCause
<1>1. FateInv => ErrorsHaveCause
  BY DEF FateInv
<1>. QED  BY <1>1, FateInvariance, PTL

\* When the batcher leaves its loop, every accepted call has been answered and
\* no session has work, for any number of handles, calls and sessions.
THEOREM GracefulExitHolds == Spec => []GracefulExit
<1>1. ASSUME IInv, FateInv
      PROVE  GracefulExit
  <2>. SUFFICES ASSUME phase = "exited"  PROVE GracefulExit
    BY DEF GracefulExit
  <2>1. senders = {} /\ commands = << >>
    BY <1>1 DEF FateInv, EndsTogether
  <2>2. CurrentBatch = {}
    BY <1>1, BatchByPhase
  <2>3. \A r \in Requests : ~InFlight(r)
    BY <1>1, <2>1 DEF FateInv, HandlesHeld
  <2>4. \A r \in Requests : responder[r] # Open
    BY <1>1, <2>1, <2>2, <2>3, RangeEmpty DEF FateInv, Placed, InFlight
  <2>5. \A w \in Workers : current[w] = << >> /\ worker_queue[w] = << >>
    BY <1>1 DEF IInv, OneFlight, Idle, HoldsAwaited
  <2>6. \A w \in Workers : Work(w) = << >>
    BY <2>5 DEF Work
  <2>. QED  BY <2>1, <2>4, <2>6 DEF GracefulExit
<1>. QED  BY <1>1, Invariance, FateInvariance, PTL

-----------------------------------------------------------------------------
(* An answer is final. *)

\* What a oneshot got stays in it, and what infer() returned stays returned.
AnswersKept ==
  \A r \in Requests :
    /\ responder[r] \notin {None, Open} => responder'[r] = responder[r]
    /\ outcome[r] # None => outcome'[r] = outcome[r]

\* A call that still preprocesses has its oneshot, and only one that has returned
\* has an outcome.
NotAnsweredYet ==
  \A r \in Requests :
    /\ caller[r] = "preprocessing" => responder[r] = Open
    /\ outcome[r] # None => caller[r] = "returned"

\* The batcher answers only the calls that are queued or in its batch, also when
\* it panics or loses a command.
LEMMA BatcherAnswersHeld ==
  ASSUME IInv, FateInv, OnceInv, BatcherAction,
         NEW r \in Requests, responder'[r] # responder[r]
  PROVE  r \in Range(commands) \cup CurrentBatch
<1>1. commands \in Seq(Requests)
  BY BatchByPhase
<1>2. CASE Gathers \/ Quiet
  BY <1>2 DEF Gathers, Quiet
<1>3. CASE \E S : Settles(S)
  BY <1>3 DEF Settles
<1>4. CASE BatcherGone
  BY <1>4 DEF BatcherGone, Send
<1>5. CASE TimeoutLoses
  <2>1. phase = "collect" /\ commands # << >> /\ EndCollection({Head(commands)})
    BY <1>5 DEF TimeoutLoses, MayCollect
  <2>2. r = Head(commands) \/ r \in Range(batch_buffer)
    BY <2>1 DEF EndCollection
  <2>3. Head(commands) \in Range(commands)
    BY <1>1, <2>1, RangeTail
  <2>. QED  BY <2>1, <2>2, <2>3, BatchByPhase
<1>. QED  BY <1>2, <1>3, <1>4, <1>5, BatcherEffects

\* A step of a call puts something into its own oneshot only before the call waits,
\* and returns only from a call that has not returned.
AnswersItself(r) ==
  /\ \A q \in Requests \ {r} :
       /\ caller'[q] = caller[q] /\ outcome'[q] = outcome[q]
       /\ responder'[q] = responder[q]
  /\ caller[r] # "returned"
  /\ responder'[r] = responder[r] \/ NotYet(r)
  /\ caller'[r] = "preprocessing" => responder'[r] = Open
  /\ outcome'[r] = outcome[r] \/ caller'[r] = "returned"

\* Each step of a call is such a step.
LEMMA CallAnswersItself ==
  ASSUME IInv, NEW r \in Requests, Infer(r) \/ CallersStep(r) \/ Cancel(r)
  PROVE  AnswersItself(r)
<1>1. /\ responder \in [Requests -> Content]
      /\ caller \in [Requests -> CallerStates]
      /\ DOMAIN outcome = Requests
  BY DEF IInv, TypeOK, ChannelsTypeOK, CallersTypeOK, Content
<1>2. ASSUME SendCommand(r), NotYet(r) PROVE AnswersItself(r)
  BY <1>1, <1>2 DEF SendCommand, NotYet, AnswersItself
<1>3. CASE Infer(r)
  <2>1. NotYet(r)
    BY <1>3 DEF Infer, NotYet
  <2>2. CASE SendCommand(r)
    BY <1>2, <2>1, <2>2
  <2>3. CASE ~SendCommand(r)
    BY <1>1, <1>3, <2>1, <2>3 DEF Infer, AnswersItself
  <2>. QED  BY <2>2, <2>3
<1>4. CASE PreprocessInInfer(r)
  <2>1. NotYet(r) /\ caller[r] = "preprocessing"
    BY <1>4 DEF PreprocessInInfer, NotYet
  <2>2. CASE SendCommand(r)
    BY <1>2, <2>1, <2>2
  <2>3. CASE ~SendCommand(r)
    BY <1>1, <1>4, <2>1, <2>3 DEF PreprocessInInfer, AnswersItself
  <2>. QED  BY <2>2, <2>3
<1>5. CASE Respond(r)
  BY <1>1, <1>5 DEF Respond, AnswersItself, channelVars
<1>6. CASE Cancel(r)
  BY <1>1, <1>6 DEF Cancel, InFlight, NotYet, AnswersItself
<1>. QED  BY <1>3, <1>4, <1>5, <1>6 DEF CallersStep

\* Any other step only answers calls that wait.
AnswersWaiting ==
  /\ caller' = caller /\ outcome' = outcome
  /\ \A r \in Requests :
       \/ responder'[r] = responder[r]
       \/ responder[r] = Open /\ caller[r] # "preprocessing"

\* No step answers a call twice.
LEMMA StepKeepsAnswers ==
  ASSUME IInv, FateInv, OnceInv, NotAnsweredYet, [Next]_vars
  PROVE  AnswersKept /\ NotAnsweredYet'
<1>1. AnswersWaiting => AnswersKept /\ NotAnsweredYet'
  BY DEF AnswersWaiting, AnswersKept, NotAnsweredYet
<1>2. CASE BatcherAction
  <2>1. UNCHANGED <<caller, outcome>>
    BY <1>2, BatcherFrame DEF callerVars
  <2>2. ASSUME NEW r \in Requests, responder'[r] # responder[r]
        PROVE  responder[r] = Open /\ caller[r] # "preprocessing"
    BY <1>2, <2>2, BatcherAnswersHeld DEF OnceInv, HeldUnanswered
  <2>. QED  BY <1>1, <2>1, <2>2 DEF AnswersWaiting
<1>3. ASSUME NEW r \in Requests, AnswersItself(r)
      PROVE  AnswersKept /\ NotAnsweredYet'
  <2>1. NotYet(r) => responder[r] \in {None, Open}
    BY DEF NotYet, NotAnsweredYet, OnceInv, HeldUnanswered
  <2>2. outcome[r] = None
    BY <1>3 DEF AnswersItself, NotAnsweredYet
  <2>3. AnswersKept
    BY <1>3, <2>1, <2>2 DEF AnswersItself, AnswersKept
  <2>4. NotAnsweredYet'
    BY <1>3, <2>2 DEF AnswersItself, NotAnsweredYet
  <2>. QED  BY <2>3, <2>4
<1>4. CASE CallerAction
  <2>1. CASE \E r \in Requests : Infer(r) \/ CallersStep(r) \/ Cancel(r)
    BY <1>3, <2>1, CallAnswersItself DEF IInv
  <2>2. CASE \/ \E h, g \in Handles : CloneServer(h, g)
             \/ \E h \in Handles : Shutdown(h)
    BY <1>1, <2>2 DEF CloneServer, Shutdown, callerVars, AnswersWaiting
  <2>. QED  BY <1>4, <2>1, <2>2 DEF CallerAction, CallersNext
<1>5. CASE WorkerAction
  BY <1>1, <1>5, WorkerFrame DEF callerVars, AnswersWaiting
<1>6. CASE UNCHANGED vars
  BY <1>1, <1>6 DEF vars, callerVars, channelVars, AnswersWaiting
<1>. QED  BY <1>2, <1>4, <1>5, <1>6 DEF Next, Terminating

\* A call is answered once: its oneshot never changes after it has got an answer
\* or was dropped, nor does what infer() returned, whatever fails, is lost or is
\* abandoned on either side.
THEOREM AnswersAreFinal == Spec => [][AnswersKept]_vars
<1>1. Init => NotAnsweredYet
  BY DEF Init, CallersInit, NotAnsweredYet
<1>. QED  BY <1>1, StepKeepsAnswers, Invariance, FateInvariance, PTL DEF Spec

-----------------------------------------------------------------------------
(***************************************************************************)
(* The server implements BatchService: every step is one of its steps, or  *)
(* leaves its queue, its batch, its seal and its answers as they are.      *)
(***************************************************************************)
Sealed == CurrentBatch # {} /\ phase \notin {"recv", "collect"}
Answer == [r \in Requests |->
             IF caller[r] = "preprocessing" THEN None ELSE responder[r]]
MayCrash == "batchPanic" \in Faults \/ NumSessions = 0
SameService == UNCHANGED <<commands, CurrentBatch, Sealed, Answer>>

\* What leaves the queue, the batch, the seal and the answers leaves the service.
LEMMA ServiceStutters ==
  SameService => UNCHANGED Service!serviceVars
BY DEF SameService, Sealed, Answer, Service!serviceVars

\* The server begins as the service does.
LEMMA ServiceInit == Init => Service!Init
<1>. SUFFICES ASSUME Init  PROVE Service!Init
  OBVIOUS
<1>1. CurrentBatch = {}
  BY RangeEmpty DEF Init, BatcherInit, CurrentBatch
<1>2. \A r \in Requests : (IF caller[r] = "preprocessing" THEN None
                                                         ELSE responder[r]) = None
  BY DEF Init, ChannelsInit, CallersInit
<1>. QED  BY <1>1, <1>2 DEF Init, ChannelsInit, Service!Init

\* A caller accepts, refuses, or does nothing that the service knows of.
LEMMA CallerRefines ==
  ASSUME IInv, OnceInv, CallerAction
  PROVE  Service!Next \/ SameService
<1>1. UNCHANGED <<CurrentBatch, Sealed>>
  BY CallerFrame DEF CurrentBatch, Sealed
<1>2. /\ responder \in [Requests -> Content]
      /\ caller \in [Requests -> CallerStates]
      /\ HeldUnanswered
  BY DEF OnceInv, IInv, TypeOK, ChannelsTypeOK, CallersTypeOK, Content
<1>3. ASSUME UNCHANGED <<commands, responder, caller>>
      PROVE  SameService
  BY <1>1, <1>3 DEF SameService, Answer
<1>4. ASSUME NEW r \in Requests, NotYet(r)
      PROVE  Answer[r] = None
  BY <1>2, <1>4 DEF NotYet, Answer, HeldUnanswered
<1>5. ASSUME NEW r \in Requests, Accepted(r)
      PROVE  Service!Accept(r)
  <2>1. Answer' = [Answer EXCEPT ![r] = Open] /\ commands' = Append(commands, r)
    BY <1>2, <1>5 DEF Accepted, Answer
  <2>. QED  BY <1>1, <1>4, <1>5, <2>1
            DEF Accepted, Service!Accept, Answer, Sealed
<1>6. ASSUME NEW r \in Requests, Refused(r)
      PROVE  Service!Refuse(r)
  <2>1. Answer' = [Answer EXCEPT ![r] = Dropped] /\ UNCHANGED commands
    BY <1>2, <1>6 DEF Refused, Answer
  <2>. QED  BY <1>1, <1>4, <1>6, <2>1
            DEF Refused, Service!Refuse, Answer, Sealed
<1>7. ASSUME NEW r \in Requests, Started(r) \/ Ended(r)
      PROVE  SameService
  <2>1. UNCHANGED commands
    BY <1>7 DEF Started, Ended
  <2>2. \A q \in Requests : Answer'[q] = Answer[q]
    BY <1>2, <1>7 DEF Started, Ended, Answer, HeldUnanswered
  <2>3. Answer' = Answer
    BY <2>2 DEF Answer
  <2>. QED  BY <1>1, <2>1, <2>3 DEF SameService
<1>. QED  BY <1>3, <1>5, <1>6, <1>7, CallerKinds DEF Service!Next

\* The batch is never larger than its list.
LEMMA RangeCardinality ==
  ASSUME NEW T, NEW s \in Seq(T)
  PROVE  Cardinality(Range(s)) <= Len(s)
<1>1. /\ Len(s) \in Nat /\ s \in [1 .. Len(s) -> Range(s)]
      /\ \A x \in Range(s) : \E i \in 1 .. Len(s) : s[i] = x
  BY DEF Range
<1>2. s \in Surjection(1 .. Len(s), Range(s))
  BY <1>1 DEF Surjection
<1>. QED  BY <1>1, <1>2, FS_SurjCardinalityBound DEF ExistsSurjection

\* The operators that BatchService extends are the server's own.
LEMMA ServiceOperators ==
  /\ \A S : Service!Cardinality(S) = Cardinality(S)
  /\ \A f : Service!Range(f) = Range(f)
BY DEF Service!Cardinality, Cardinality, Service!Range, Range

\* A command that is taken is gathered by the service, within its limit.
LEMMA GathersRefines ==
  ASSUME IInv, BatcherAction, Gathers
  PROVE  Service!Gather
<1>1. ~Sealed /\ ~Sealed' /\ UNCHANGED <<Answer, responder>>
  BY BatcherFrame DEF Gathers, Sealed, Answer
<1>2. Cardinality(CurrentBatch) <= Len(batch_buffer)
  <2>1. batch_buffer \in Seq(Requests)
    BY BatchByPhase
  <2>2. CASE phase = "recv"
    <3>1. Cardinality(CurrentBatch) = 0
      BY <2>2, BatchByPhase, FS_EmptySet
    <3>. QED  BY <2>1, <3>1
  <2>3. CASE phase = "collect"
    BY <2>1, <2>3, BatchByPhase, RangeCardinality
  <2>. QED  BY <2>2, <2>3 DEF Gathers
<1>3. /\ Len(batch_buffer) < BatchLimit /\ Len(batch_buffer) \in Nat
      /\ BatchLimit \in Nat
  BY BatchByPhase, BatcherAssumption DEF Gathers, BatchLimit
<1>4. Cardinality(CurrentBatch) \in Nat
  <2>1. IsFiniteSet(CurrentBatch)
    <3>1. CurrentBatch \subseteq Requests
      <4>1. Range(batch_buffer) \subseteq Requests
        BY BatchByPhase, RangeType
      <4>. QED  BY <4>1, BatchByPhase DEF Gathers
    <3>. QED  BY <3>1, RequestsAssumption, FS_Subset
  <2>. QED  BY <2>1, FS_CardinalityType
<1>5. Cardinality(CurrentBatch) < BatchLimit
  BY <1>2, <1>3, <1>4
<1>. QED  BY <1>1, <1>5, ServiceOperators
          DEF Gathers, Service!Gather, BatchLimit, Sealed, Answer

\* Work on the batch seals it, once, or does nothing that the service knows of.
LEMMA QuietRefines ==
  ASSUME IInv, IInv', BatcherAction, Quiet
  PROVE  Service!Seal \/ SameService
<1>1. UNCHANGED <<commands, responder, CurrentBatch, Answer, caller>>
  BY BatcherFrame DEF Quiet, Answer
<1>2. phase' \in {"recv", "collect"} => ~Sealed
  <2>1. phase' = "recv" => CurrentBatch' = {}
    BY BatchByPhasePrimed
  <2>. QED  BY <1>1, <2>1 DEF Quiet, Sealed
<1>3. CASE Sealed' = Sealed
  BY <1>1, <1>3 DEF SameService
<1>4. CASE Sealed' # Sealed
  <2>1. ~Sealed /\ Sealed'
    BY <1>1, <1>2, <1>4 DEF Sealed
  <2>2. CurrentBatch # {}
    BY <1>1, <2>1 DEF Sealed
  <2>. QED  BY <1>1, <2>1, <2>2 DEF Service!Seal, Sealed, Answer
<1>. QED  BY <1>3, <1>4

\* Every answer the batcher gives is one that the service may give.
LEMMA SettlesRefines ==
  ASSUME IInv, IInv', OnceInv, OnceInv', BatcherAction, NEW S, Settles(S)
  PROVE  Service!Settle
<1>1. /\ S \in (SUBSET CurrentBatch) \ {{}} /\ CurrentBatch' = CurrentBatch \ S
      /\ UNCHANGED <<commands, caller>>
  BY BatcherFrame DEF Settles
<1>2. Answer' \in [Requests -> Content]
  <2>1. responder' \in [Requests -> Content] /\ None \in Content
    BY ReplyTypes DEF IInv, TypeOK, ChannelsTypeOK, Content
  <2>. QED  BY <2>1 DEF Answer
<1>3. ASSUME NEW r \in Requests
      PROVE  IF r \in S THEN Answer'[r] \in FittingReplies(r)
                        ELSE Answer'[r] = Answer[r]
  <2>1. CASE r \in S
    <3>1. caller[r] # "preprocessing"
      BY <1>1, <2>1 DEF OnceInv, HeldUnanswered
    <3>2. Given(r, responder'[r]) /\ Answer'[r] = responder'[r]
      BY <1>1, <2>1, <3>1 DEF Settles, Answer
    <3>3. phase' = "unwinding" => MayCrash
      BY DEF OnceInv, CrashHasCause, MayCrash
    <3>4. responder'[r] \in FittingReplies(r)
      BY <3>2, <3>3 DEF Given, FittingReplies, MayCrash
    <3>. QED  BY <2>1, <3>2, <3>4
  <2>2. CASE r \notin S
    BY <1>1, <2>2 DEF Settles, Answer
  <2>. QED  BY <2>1, <2>2
<1>4. Sealed' = (CurrentBatch' # {})
  <2>1. phase' = "recv" => CurrentBatch' = {}
    BY BatchByPhasePrimed
  <2>. QED  BY <2>1 DEF Settles, Sealed
<1>. QED  BY <1>1, <1>2, <1>3, <1>4
          DEF Service!Settle, Sealed, Answer, Content

\* The commands left in the channel are those of callers who wait.
LEMMA GoneRefines ==
  ASSUME IInv, OnceInv, BatcherAction, BatcherGone
  PROVE  Service!Crash \/ SameService
<1>1. /\ phase = "unwinding" /\ phase' = "dead" /\ UNCHANGED caller
      /\ UNCHANGED <<batch_buffer, responders, postprocess_tasks>>
  BY BatcherFrame DEF BatcherGone
<1>2. CurrentBatch = {} /\ CurrentBatch' = {} /\ ~Sealed /\ ~Sealed'
  BY <1>1, BatchByPhase DEF CurrentBatch, Sealed
<1>3. CASE DiscardOnClose
  <2>1. commands' = << >> /\ responder' = Send(Range(commands), Dropped)
    BY <1>3 DEF BatcherGone
  <2>2. \A r \in Requests : r \in Range(commands) => caller[r] # "preprocessing"
    BY DEF OnceInv, HeldUnanswered
  <2>3. Answer' = [r \in Requests |->
                     IF r \in Range(commands) THEN Dropped ELSE Answer[r]]
    BY <1>1, <2>1, <2>2 DEF Answer, Send
  <2>4. MayCrash
    BY <1>1 DEF OnceInv, CrashHasCause, MayCrash
  <2>. QED  BY <1>2, <2>1, <2>3, <2>4, ServiceOperators
            DEF Service!Crash, Sealed, Answer, MayCrash
<1>4. CASE ~DiscardOnClose
  <2>1. UNCHANGED <<commands, responder>>
    BY <1>4 DEF BatcherGone
  <2>2. CurrentBatch' = CurrentBatch
    BY <1>2
  <2>3. Sealed' = Sealed
    BY <1>2, Zenon DEF Sealed
  <2>4. Answer' = Answer
    BY <1>1, <2>1 DEF Answer
  <2>. QED  BY <2>1, <2>2, <2>3, <2>4 DEF SameService
<1>. QED  BY <1>3, <1>4

\* If the channel loses no command that it has handed to an abandoned recv(),
\* the server is a batching queue: whatever fails, commands are gathered in
\* their order into one batch at a time, and every caller of a batch gets one
\* answer that fits its input before the next batch begins.
THEOREM ServerImplementsService ==
  ASSUME ~CancelLoses
  PROVE  Spec => ImplementsService
<1>1. ASSUME IInv, IInv', FateInv, OnceInv, OnceInv', [Next]_vars
      PROVE  Service!Next \/ SameService
  <2>1. CASE CallerAction
    BY <1>1, <2>1, CallerRefines
  <2>2. CASE BatcherAction
    <3>1. ~TimeoutLoses
      BY DEF TimeoutLoses
    <3>. QED  BY <1>1, <2>2, <3>1, BatcherEffects, GathersRefines, QuietRefines,
                 SettlesRefines, GoneRefines
              DEF Service!Next
  <2>3. CASE WorkerAction
    BY <2>3, WorkerFrame DEF SameService, CurrentBatch, Sealed, Answer
  <2>4. CASE UNCHANGED vars
    BY <2>4 DEF SameService, CurrentBatch, Sealed, Answer
  <2>. QED  BY <1>1, <2>1, <2>2, <2>3, <2>4 DEF Next, Terminating
<1>2. IInv /\ IInv' /\ FateInv /\ OnceInv /\ OnceInv' /\ [Next]_vars
        => [Service!Next]_(Service!serviceVars)
  BY <1>1, ServiceStutters
<1>. QED  BY <1>2, ServiceInit, Invariance, FateInvariance, PTL
          DEF Spec, ImplementsService, Service!Spec
=============================================================================
