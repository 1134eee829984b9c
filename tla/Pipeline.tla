------------------------------ MODULE Pipeline ------------------------------
(***************************************************************************)
(* The data of one batch, from the inputs of its callers to their answers: *)
(* preprocess() of the types in examples/, I::batch, the model, the slices *)
(* of process_message(), postprocess().  Superserve models the same path   *)
(* with rows that are only names; here the rows are tensors.               *)
(***************************************************************************)
EXTENDS AudioInput, PersonDetection, Indexes

CONSTANTS
  Batches,  \* the batches that may be formed, each with the model that is served
  Side,     \* target_height and target_width of image_processing.rs
  Scores,   \* what a classifier makes of each picture
  Scenes    \* what a detector makes of each picture

Inputs ==
  [type : {"array"}, data : Seq(Int)]
    \cup [type : {"audio"}, samples : Seq(Int), sample_rate : Nat, channels : Nat]
    \cup [type : {"image"}, shows : DOMAIN Scores]
    \cup [type : {"person"}, shows : DOMAIN Scenes, target : (Nat \ {0}) \X (Nat \ {0})]

Models ==
  [does : {"echo", "total", "scores", "scenes", "scalar", "halved", "transposed"},
   shape : Seq(Nat)]

\* A server has one type of inputs.  That of person_detection.rs is served with
\* a detector, whose rows are as long as their shape says.
Served(b) ==
  /\ b.inputs \in Seq(Inputs) /\ b.model \in Models
  /\ DOMAIN b.inputs \subseteq Tasks
  /\ \A i, j \in DOMAIN b.inputs : b.inputs[i].type = b.inputs[j].type
  /\ \A i \in DOMAIN b.inputs : b.inputs[i].type = "person" =>
       /\ b.model.does = "scenes"
       /\ \A p \in DOMAIN Scenes : Len(Scenes[p]) = Size(b.model.shape)

ASSUME PipelineAssumption ==
  /\ Side \in Nat \ {0}
  /\ \A p \in DOMAIN Scenes : Scenes[p] \in Seq(Int)
  /\ \A b \in Batches : Served(b)

VARIABLES
  input,   \* the inputs of the batch
  model,   \* the model
  stage,   \* where the batcher is
  item,    \* per index, the result of preprocess()
  batched, \* the indexes in the batch, in order, and their tensor
  slices,  \* the outputs that process_message() sent back
  answer   \* per index, what the caller gets

vars == <<input, model, stage, item, batched, slices, answer, detectionVars>>

Stages == {"preprocess", "run", "post"}
Tags == {"ok", "preprocess", "batching", "inference", "worker_closed",
         "mismatch", "postprocess", "dropped"}

Ok(value) == [tag |-> "ok", value |-> value]
Err(tag) == [tag |-> tag, value |-> << >>]

TypeOK ==
  /\ stage \in Stages
  /\ DOMAIN item \subseteq DOMAIN input
  /\ \A i \in DOMAIN item : IsTensor(item[i])
  /\ stage = "run" => IsTensor(batched.tensor)
  /\ \A i \in DOMAIN slices : IsTensor(slices[i])
  /\ DOMAIN answer \subseteq DOMAIN input
  /\ \A i \in DOMAIN answer : answer[i].tag \in Tags
  /\ \A t \in Tasks : detections[t] \subseteq DOMAIN boxes[t]

Init ==
  /\ \E b \in Batches : input = b.inputs /\ model = b.model
  /\ stage = "preprocess"
  /\ item = << >> /\ answer = << >> /\ slices = << >>
  /\ batched = [members |-> << >>, tensor |-> << >>]
  /\ NoDetections

-----------------------------------------------------------------------------
(* The types of the examples. *)

\* Every element of the array stands for what the picture shows.
Picture(shows, height, width) ==
  [shape |-> << 3, height, width >>, data |-> [k \in 1 .. 3 * height * width |-> shows]]

PreprocessFails(in) == in.type = "audio" /\ ResampleFails(in)

Preprocessed(in) ==
  CASE in.type = "array" -> [shape |-> << Len(in.data) >>, data |-> in.data]
    [] in.type = "audio" -> AudioTensor(in)
    [] in.type = "image" -> Picture(in.shows, Side, Side)
    [] in.type = "person" -> Picture(in.shows, in.target[2], in.target[1])

\* scores.push(slice[[0]]) for every slice along the first axis: the index has
\* one axis, and for a slice with another number of them, or an empty one, it
\* panics.  max_by() returns the last of the greatest, or nothing for no score.
Classification(raw) ==
  IF raw.shape = << >> THEN Err("dropped")
  ELSE IF raw.shape[1] = 0 THEN Ok(<< 0, 0 >>)
  ELSE IF Len(raw.shape) # 2 \/ raw.shape[2] = 0 THEN Err("dropped")
  ELSE LET score(i) == IndexAxis(raw, i).data[1]
           best == {i \in 1 .. raw.shape[1] : \A j \in 1 .. raw.shape[1] :
                      score(j) < score(i) \/ (score(j) = score(i) /\ j <= i)}
       IN  Ok(LET i == CHOOSE i \in best : TRUE IN << i - 1, score(i) >>)

\* What postprocess() makes of a raw output, but for the loop of nms().
Postprocessed(type, raw) ==
  CASE type \in {"array", "audio"} -> Ok(raw.data)
    [] type = "image" -> Classification(raw)
    [] type = "person" ->
         IF Len(raw.shape) < 2 THEN Err("dropped")
         ELSE IF ~IsDetectionOutput(raw) THEN Err("postprocess")
         ELSE Ok([i \in AnchorsOf(raw) |-> BoxAt(raw, i)])

-----------------------------------------------------------------------------
(* The model. *)

\* What a model computes from each row alone, as rows of the given shape.
RowWise(rows, shape) ==
  LET size == Size(shape)
  IN  [shape |-> << Len(rows) >> \o shape,
       data |-> [k \in 1 .. Len(rows) * size |->
                   rows[((k - 1) \div size) + 1][((k - 1) % size) + 1]]]

\* The first n rows of a tensor.
FirstRows(t, n) ==
  [shape |-> << n >> \o Tail(t.shape),
   data |-> SubSeq(t.data, 1, n * Size(Tail(t.shape)))]

Total(row) == << FoldFunction(+, 0, row.data) >>

\* Fields of a model: "does", what it computes, and the shape of a row of it.
Output(m, t) ==
  CASE m.does = "echo" -> t
    [] m.does = "total" ->
         RowWise([i \in DOMAIN Slices(t) |-> Total(Slices(t)[i])], m.shape)
    [] m.does = "scores" ->
         RowWise([i \in DOMAIN Slices(t) |-> Scores[Slices(t)[i].data[1]]], m.shape)
    [] m.does = "scenes" ->
         RowWise([i \in DOMAIN Slices(t) |-> Scenes[Slices(t)[i].data[1]]], m.shape)
    [] m.does = "scalar" -> [shape |-> << >>, data |-> << 0 >>]
    [] m.does = "halved" -> FirstRows(t, t.shape[1] \div 2)
    [] m.does = "transposed" ->
         [shape |-> << t.shape[2], t.shape[1] >>,
          data |-> [k \in DOMAIN t.data |->
            IndexAxis(t, ((k - 1) % t.shape[1]) + 1).data[((k - 1) \div t.shape[1]) + 1]]]

-----------------------------------------------------------------------------
(* The steps of the batch. *)

Answers(S, reply) ==
  [i \in DOMAIN answer \cup S |-> IF i \in S THEN reply ELSE answer[i]]

Preprocess(i) ==
  /\ stage = "preprocess"
  /\ i \in DOMAIN input \ (DOMAIN item \cup DOMAIN answer)
  /\ IF PreprocessFails(input[i])
       THEN answer' = Answers({i}, Err("preprocess")) /\ UNCHANGED item
       ELSE /\ item' = [j \in DOMAIN item \cup {i} |->
                          IF j = i THEN Preprocessed(input[i]) ELSE item[j]]
            /\ UNCHANGED answer
  /\ UNCHANGED <<input, model, stage, batched, slices, detectionVars>>

Members == InOrder(DOMAIN item)
Items == [k \in DOMAIN Members |-> item[Members[k]]]

Batch ==
  /\ stage = "preprocess"
  /\ DOMAIN item \cup DOMAIN answer = DOMAIN input
  /\ IF Stackable(Items)
       THEN /\ stage' = "run"
            /\ batched' = [members |-> Members, tensor |-> Stack(Items)]
            /\ UNCHANGED answer
       ELSE /\ stage' = "post"
            /\ answer' = Answers(DOMAIN item, Err("batching"))
            /\ UNCHANGED batched
  /\ UNCHANGED <<input, model, item, slices, detectionVars>>

\* Every caller of the batch gets the same error.
FailBatch(tag) == answer' = Answers(DOMAIN item, Err(tag)) /\ UNCHANGED slices

\* process_message(), and the comparison of the counts in the batcher.  The
\* runtime may fail for its own reasons; a scalar output has no shape[0].
ProcessMessage ==
  /\ stage = "run"
  /\ stage' = "post"
  /\ LET output == Output(model, batched.tensor) IN
       \/ FailBatch("inference")
       \/ output.shape = << >> /\ FailBatch("worker_closed")
       \/ /\ output.shape # << >>
          /\ IF Len(Slices(output)) = Len(batched.members)
               THEN slices' = Slices(output) /\ UNCHANGED answer
               ELSE FailBatch("mismatch")
  /\ UNCHANGED <<input, model, item, batched, detectionVars>>

Waits(k) ==
  /\ stage = "post" /\ k \in DOMAIN slices
  /\ batched.members[k] \notin DOMAIN answer

RawReply(k) == Postprocessed(input[batched.members[k]].type, slices[k])
Detects(k) ==
  /\ input[batched.members[k]].type = "person"
  /\ RawReply(k).tag = "ok" /\ RawReply(k).value # << >>

\* A postprocess() task that has no loop, or does not reach it.
Postprocess(k) ==
  /\ Waits(k) /\ ~Detects(k)
  /\ answer' = Answers({batched.members[k]}, RawReply(k))
  /\ UNCHANGED <<input, model, stage, item, batched, slices, detectionVars>>

Detect(k) ==
  /\ Waits(k) /\ Detects(k)
  /\ boxes[batched.members[k]] = << >>
  /\ Threshold(batched.members[k], RawReply(k).value)
  /\ UNCHANGED <<input, model, stage, item, batched, slices, answer>>

Suppress(k) ==
  /\ Waits(k)
  /\ KeepBest(batched.members[k])
  /\ UNCHANGED <<input, model, stage, item, batched, slices, answer>>

DetectionsDone(k) ==
  /\ Waits(k)
  /\ LET i == batched.members[k]
     IN  /\ boxes[i] # << >> /\ detections[i] = {}
         /\ answer' = Answers({i}, Ok([n \in DOMAIN kept[i] |-> boxes[i][kept[i][n]]]))
  /\ UNCHANGED <<input, model, stage, item, batched, slices, detectionVars>>

Done == DOMAIN answer = DOMAIN input /\ UNCHANGED vars

Next ==
  \/ \E i \in DOMAIN input : Preprocess(i)
  \/ Batch \/ ProcessMessage
  \/ \E k \in DOMAIN slices :
       Postprocess(k) \/ Detect(k) \/ Suppress(k) \/ DetectionsDone(k)
  \/ Done

Spec == Init /\ [][Next]_vars
-----------------------------------------------------------------------------
(* Properties. *)

\* The answer to an input that is served in a batch of its own.
Alone(m, in) ==
  IF PreprocessFails(in) THEN Err("preprocess")
  ELSE LET raw == IndexAxis(Output(m, Stack(<< Preprocessed(in) >>)), 1)
           reply == Postprocessed(in.type, raw)
       IN  IF in.type = "person" /\ reply.tag = "ok"
             THEN LET keep == BestFirst(reply.value)
                  IN  Ok([n \in DOMAIN keep |-> reply.value[keep[n]]])
             ELSE reply

BatchFirst == model.does \in {"echo", "total", "scores", "scenes"}

\* With a model that treats the first axis as the batch, a caller cannot tell
\* from the answer with whom its input was stacked: it is what the input gets
\* alone, unless the whole batch failed (batcher.rs, helpers.rs, process_message()).
BatchingIsTransparent ==
  BatchFirst => \A i \in DOMAIN answer :
    answer[i].tag \in {"batching", "inference"} \/ answer[i] = Alone(model, input[i])

ShapeAskedFor(in) ==
  CASE in.type = "array" -> Len(in.data)
    [] in.type = "person" -> in.target
    [] OTHER -> "fixed"

\* Whatever is recorded or pictured, the fixed sizes of the audio and image
\* examples fit together: a batch breaks only when its callers ask for
\* different shapes (normalize(), resize_exact(), batch_array()).
BatchBreaksByShapesOnly ==
  \A i \in DOMAIN answer : answer[i].tag = "batching" =>
    \E j, k \in DOMAIN item : ShapeAskedFor(input[j]) # ShapeAskedFor(input[k])

\* A recording that rises is resampled to one that rises, within its range and
\* without the silence that resample_linear() keeps for positions past the end.
ResamplingKeepsOrder ==
  \A i \in DOMAIN item : input[i].type = "audio" =>
    LET from == Mono(input[i])
        to == SubSeq(item[i].data, 1, Smaller(TargetLength, Len(Resampled(input[i]))))
    IN  /\ Rises(from) => Rises(to)
        /\ \A k \in DOMAIN to : \E m, n \in DOMAIN from : from[m] <= to[k] /\ to[k] <= from[n]
=============================================================================
