--------------------------- MODULE PipelineProofs ---------------------------
(***************************************************************************)
(* Proofs about the path of a batch, for any inputs, models, sizes of      *)
(* batches, rates and lengths that satisfy the assumptions of Pipeline.    *)
(***************************************************************************)
EXTENDS Pipeline, ExampleProofs

\* What has been preprocessed so far.
ItemsInv ==
  /\ stage \in Stages
  /\ \E b \in Batches : input = b.inputs /\ model = b.model
  /\ DOMAIN item \subseteq DOMAIN input /\ DOMAIN answer \subseteq DOMAIN input
  /\ \A i \in DOMAIN item : ~PreprocessFails(input[i]) /\ item[i] = Preprocessed(input[i])

\* What the session got is the stack of all items, and what is sliced is what
\* the model made of it.
SessionInv ==
  /\ stage = "run" \/ slices # << >> =>
       Stackable(Items) /\ batched = [members |-> Members, tensor |-> Stack(Items)]
  /\ slices # << >> =>
       /\ stage = "post"
       /\ Output(model, batched.tensor).shape # << >>
       /\ slices = Slices(Output(model, batched.tensor))
       /\ Len(slices) = Len(batched.members)

\* The boxes of a task are those of the slice of its caller.
LoopInv ==
  \A t \in Tasks : boxes[t] # << >> =>
    \E k \in DOMAIN slices : /\ batched.members[k] = t /\ Detects(k)
                             /\ boxes[t] = RawReply(k).value

AnswersInv ==
  /\ \A i \in DOMAIN answer : answer[i].tag \in Tags
  /\ BatchingIsTransparent
  /\ BatchBreaksByShapesOnly

PipelineInv == ItemsInv /\ SessionInv /\ LoopInv /\ AnswersInv /\ DetectionInv
-----------------------------------------------------------------------------
(* The types of the examples. *)

\* What the arrays hold: numbers, and the pictures that their pixels stand for.
Elements == Int \cup DOMAIN Scores \cup DOMAIN Scenes

\* An array of one axis, with as many elements as it says.
LEMMA VectorIsTensor ==
  ASSUME NEW t, NEW n \in Nat, t = [shape |-> << n >>, data |-> t.data],
         t.data \in Seq(Elements), Len(t.data) = n
  PROVE  t \in Tensor(Elements) /\ IsTensor(t) /\ t.shape # << >>
<1>1. t.shape = << n >> /\ << n >> \in Seq(Nat)
  OBVIOUS
<1>2. Size(<< n >>) = n
  BY SizeOfExamples
<1>3. IsTensor(t)
  BY <1>1, <1>2 DEF IsTensor
<1>4. t \in Tensor(Elements)
  BY <1>1 DEF Tensor
<1> QED
  BY <1>1, <1>3, <1>4

\* A picture has three colours of height by width pixels.
LEMMA PictureIsTensor ==
  ASSUME NEW shows \in Elements, NEW height \in Nat \ {0}, NEW width \in Nat \ {0},
         NEW t, t = Picture(shows, height, width)
  PROVE  /\ t \in Tensor(Elements) /\ IsTensor(t) /\ t.shape # << >>
         /\ t.shape = << 3, height, width >> /\ t.data[1] = shows
<1>1. PICK n : n = 3 * height * width
  OBVIOUS
<1>2. n \in Nat \ {0}
  BY <1>1, SMTT(30)
<1> DEFINE data == [k \in 1 .. n |-> shows]
<1>3. t = [shape |-> << 3, height, width >>, data |-> data]
  BY <1>1 DEF Picture
<1>4. data \in Seq(Elements) /\ Len(data) = n /\ data[1] = shows
  BY <1>2
<1>5. Size(<< 3, height, width >>) = n
  BY <1>1, SizeOfExamples
<1> HIDE DEF data
<1>6. t.shape = << 3, height, width >> /\ t.data = data
  BY <1>3
<1>7. << 3, height, width >> \in Seq(Nat) /\ << 3, height, width >> # << >>
  OBVIOUS
<1>8. t \in Tensor(Elements)
  BY <1>3, <1>4, <1>7 DEF Tensor
<1>9. IsTensor(t)
  BY <1>4, <1>5, <1>6 DEF IsTensor
<1> QED
  BY <1>4, <1>6, <1>7, <1>8, <1>9

\* preprocess() makes a tensor of every input, of a shape that depends only on
\* what its caller asked for.
LEMMA PreprocessedTypes ==
  ASSUME NEW in \in Inputs
  PROVE  /\ Preprocessed(in) \in Tensor(Elements)
         /\ IsTensor(Preprocessed(in))
         /\ Preprocessed(in).shape # << >>
         /\ in.type = "array" => Preprocessed(in).shape = << Len(in.data) >>
         /\ in.type = "audio" => Preprocessed(in).shape = << TargetLength >>
         /\ in.type = "image" => Preprocessed(in).shape = << 3, Side, Side >>
         /\ in.type = "person" =>
              /\ Preprocessed(in).shape = << 3, in.target[2], in.target[1] >>
              /\ in.shows \in DOMAIN Scenes /\ Preprocessed(in).data[1] = in.shows
<1>1. CASE in \in [type : {"array"}, data : Seq(Int)]
  <2>1. in.type = "array" /\ in.data \in Seq(Int)
    BY <1>1
  <2>2. PICK t : t = Preprocessed(in)
    OBVIOUS
  <2>3. PICK n \in Nat : n = Len(in.data)
    BY <2>1
  <2>4. t = [shape |-> << n >>, data |-> in.data]
    BY <2>1, <2>2, <2>3 DEF Preprocessed
  <2>5. t.data \in Seq(Elements) /\ Len(t.data) = n
    BY <2>1, <2>3, <2>4 DEF Elements
  <2>6. t \in Tensor(Elements) /\ IsTensor(t) /\ t.shape # << >> /\ t.shape = << n >>
    BY <2>4, <2>5, VectorIsTensor
  <2> QED
    BY <2>1, <2>2, <2>3, <2>6
<1>2. CASE in \in [type : {"audio"}, samples : Seq(Int), sample_rate : Nat, channels : Nat]
  <2>1. in.type = "audio" /\ in.samples \in Seq(Int) /\ in.sample_rate \in Nat
    BY <1>2
  <2>2. PICK t : t = Preprocessed(in)
    OBVIOUS
  <2>3. t = AudioTensor(in)
    BY <2>1, <2>2 DEF Preprocessed
  <2>4. /\ t.shape = << TargetLength >> /\ t.data \in Seq(Int)
        /\ Len(t.data) = TargetLength
    BY <2>1, <2>3, AudioTensorIsFixed
  <2>5. t = [shape |-> t.shape, data |-> t.data]
    BY <2>3 DEF AudioTensor
  <2>6. t.data \in Seq(Elements)
    BY <2>4 DEF Elements
  <2>7. t \in Tensor(Elements) /\ IsTensor(t) /\ t.shape # << >>
    BY <2>4, <2>5, <2>6, TargetAssumption, VectorIsTensor
  <2> QED
    BY <2>1, <2>2, <2>4, <2>7
<1>3. CASE in \in [type : {"image"}, shows : DOMAIN Scores]
  <2>1. in.type = "image" /\ in.shows \in Elements
    BY <1>3 DEF Elements
  <2>2. PICK t : t = Preprocessed(in)
    OBVIOUS
  <2>3. t = Picture(in.shows, Side, Side)
    BY <2>1, <2>2 DEF Preprocessed
  <2>4. Side \in Nat \ {0}
    BY PipelineAssumption
  <2>5. t \in Tensor(Elements) /\ IsTensor(t) /\ t.shape # << >> /\ t.shape = << 3, Side, Side >>
    BY <2>1, <2>3, <2>4, PictureIsTensor
  <2> QED
    BY <2>1, <2>2, <2>5
<1>4. CASE in \in [type : {"person"}, shows : DOMAIN Scenes, target : (Nat \ {0}) \X (Nat \ {0})]
  <2>1. /\ in.type = "person" /\ in.shows \in DOMAIN Scenes
        /\ in.target[1] \in Nat \ {0} /\ in.target[2] \in Nat \ {0}
    BY <1>4
  <2>2. PICK t : t = Preprocessed(in)
    OBVIOUS
  <2>3. t = Picture(in.shows, in.target[2], in.target[1])
    BY <2>1, <2>2 DEF Preprocessed
  <2>4. in.shows \in Elements
    BY <2>1 DEF Elements
  <2>5. /\ t \in Tensor(Elements) /\ IsTensor(t) /\ t.shape # << >>
        /\ t.shape = << 3, in.target[2], in.target[1] >> /\ t.data[1] = in.shows
    BY <2>1, <2>3, <2>4, PictureIsTensor
  <2> QED
    BY <2>1, <2>2, <2>5
<1> QED
  BY <1>1, <1>2, <1>3, <1>4, Zenon DEF Inputs

\* Two inputs of one type that ask for the same shape get the same shape.
LEMMA SameShape ==
  ASSUME NEW a \in Inputs, NEW b \in Inputs, a.type = b.type,
         ShapeAskedFor(a) = ShapeAskedFor(b)
  PROVE  Preprocessed(a).shape = Preprocessed(b).shape
<1>1. a.type \in {"array", "audio", "image", "person"}
  BY DEF Inputs
<1>2. CASE a.type = "array"
  <2>1. Len(a.data) = Len(b.data)
    BY <1>2 DEF ShapeAskedFor
  <2> QED
    BY <1>2, <2>1, PreprocessedTypes
<1>3. CASE a.type \in {"audio", "image"}
  BY <1>3, PreprocessedTypes
<1>4. CASE a.type = "person"
  <2>1. a.target = b.target
    BY <1>4 DEF ShapeAskedFor
  <2> QED
    BY <1>4, <2>1, PreprocessedTypes
<1> QED
  BY <1>1, <1>2, <1>3, <1>4

-----------------------------------------------------------------------------
(* The model. *)

\* A row of a model's output, cut to the size of its shape.
CutRow(row, shape) == [shape |-> shape, data |-> [k \in 1 .. Size(shape) |-> row[k]]]

\* process_message() cuts the rows of a model out again, whatever they are.
LEMMA SlicesOfRows ==
  ASSUME NEW n \in Nat, NEW rows, DOMAIN rows = 1 .. n, NEW shape \in Seq(Nat),
         NEW t, t = RowWise(rows, shape)
  PROVE  /\ t.shape \in Seq(Nat) /\ t.shape # << >>
         /\ Len(Slices(t)) = n /\ DOMAIN Slices(t) = 1 .. n
         /\ \A i \in 1 .. n : Slices(t)[i] = CutRow(rows[i], shape)
<1>1. PICK s \in Nat : s = Size(shape)
  BY SizeIsNat
<1>2. Len(rows) = n
  OBVIOUS
<1>3. /\ t.shape = << n >> \o shape
      /\ t.data = [k \in 1 .. n * s |-> rows[((k - 1) \div s) + 1][((k - 1) % s) + 1]]
  BY <1>1, <1>2 DEF RowWise
<1>4. t.shape \in Seq(Nat) /\ t.shape # << >> /\ t.shape[1] = n /\ Tail(t.shape) = shape
  BY <1>3
<1>5. ASSUME NEW i \in 1 .. n PROVE IndexAxis(t, i) = CutRow(rows[i], shape)
  <2>1. IndexAxis(t, i) = [shape |-> shape, data |-> [k \in 1 .. s |-> t.data[(i - 1) * s + k]]]
    BY <1>1, <1>4 DEF IndexAxis
  <2>2. ASSUME NEW k \in 1 .. s PROVE t.data[(i - 1) * s + k] = rows[i][k]
    <3>1. PICK place : place = (i - 1) * s + k
      OBVIOUS
    <3>2. /\ place \in 1 .. n * s
          /\ ((place - 1) \div s) + 1 = i /\ ((place - 1) % s) + 1 = k
      BY <3>1, PlaceInRows, SMTT(60)
    <3>3. t.data[place] = rows[((place - 1) \div s) + 1][((place - 1) % s) + 1]
      BY <1>3, <3>2
    <3> QED
      BY <3>1, <3>2, <3>3, Zenon
  <2>3. [k \in 1 .. s |-> t.data[(i - 1) * s + k]] = [k \in 1 .. s |-> rows[i][k]]
    BY <2>2
  <2> QED
    BY <1>1, <2>1, <2>3 DEF CutRow
<1> QED
  BY <1>4, <1>5, SlicesAreTensors

BatchFirstModels == {"echo", "total", "scores", "scenes"}

\* What such a model makes of one item.
RowOf(m, it) ==
  CASE m.does = "echo" -> it
    [] m.does = "total" -> CutRow(Total(it), m.shape)
    [] m.does = "scores" -> CutRow(Scores[it.data[1]], m.shape)
    [] m.does = "scenes" -> CutRow(Scenes[it.data[1]], m.shape)

ItemsFit(items) ==
  /\ items \in Seq(Tensor(Elements)) /\ Stackable(items)
  /\ \A i \in DOMAIN items : IsTensor(items[i])

\* A batch that can be stacked has a first item, which is a tensor.
LEMMA FirstItem ==
  ASSUME NEW items, ItemsFit(items)
  PROVE  1 \in DOMAIN items /\ items[1] \in Tensor(Elements) /\ items[1].shape \in Seq(Nat)
<1>1. items \in Seq(Tensor(Elements)) /\ items # << >>
  BY DEF ItemsFit, Stackable
<1>2. 1 \in DOMAIN items /\ items[1] \in Tensor(Elements)
  BY <1>1
<1> QED
  BY <1>2 DEF Tensor

\* A model that treats the first axis as the batch answers item for item, so
\* the counts agree and each slice is what the item alone gets.
THEOREM OutputByRows ==
  ASSUME NEW items, ItemsFit(items), NEW m \in Models, m.does \in BatchFirstModels,
         NEW out, out = Output(m, Stack(items))
  PROVE  /\ out.shape \in Seq(Nat) /\ out.shape # << >>
         /\ Len(Slices(out)) = Len(items) /\ DOMAIN Slices(out) = DOMAIN items
         /\ \A i \in DOMAIN items : Slices(out)[i] = RowOf(m, items[i])
<1>1. PICK t : t = Stack(items)
  OBVIOUS
<1>2. Slices(t) = items
  BY <1>1, SlicesOfStack DEF ItemsFit
<1>3. PICK n \in Nat : n = Len(items) /\ DOMAIN items = 1 .. n
  BY DEF ItemsFit
<1>4. m.shape \in Seq(Nat)
  BY DEF Models
<1>5. CASE m.does = "echo"
  <2>1. out = t
    BY <1>1, <1>5 DEF Output
  <2>2. items[1].shape \in Seq(Nat)
    BY FirstItem
  <2>3. t.shape \in Seq(Nat) /\ t.shape = << n >> \o items[1].shape
    BY <1>1, <1>3, StackIsTensor DEF ItemsFit
  <2>4. t.shape # << >>
    BY <2>2, <2>3
  <2>5. \A i \in DOMAIN items : RowOf(m, items[i]) = items[i]
    BY <1>5 DEF RowOf
  <2> QED
    BY <1>2, <2>1, <2>3, <2>4, <2>5
<1>6. ASSUME NEW rows, DOMAIN rows = 1 .. n, out = RowWise(rows, m.shape),
             \A i \in 1 .. n : CutRow(rows[i], m.shape) = RowOf(m, items[i])
      PROVE  /\ out.shape \in Seq(Nat) /\ out.shape # << >>
             /\ Len(Slices(out)) = Len(items) /\ DOMAIN Slices(out) = DOMAIN items
             /\ \A i \in DOMAIN items : Slices(out)[i] = RowOf(m, items[i])
  BY <1>3, <1>4, <1>6, SlicesOfRows
<1>7. CASE m.does = "total"
  <2> DEFINE rows == [i \in DOMAIN items |-> Total(items[i])]
  <2>1. out = RowWise(rows, m.shape)
    BY <1>1, <1>2, <1>7 DEF Output
  <2>2. \A i \in 1 .. n : CutRow(rows[i], m.shape) = RowOf(m, items[i])
    BY <1>3, <1>7 DEF RowOf
  <2>3. DOMAIN rows = 1 .. n
    BY <1>3
  <2> HIDE DEF rows
  <2> QED
    BY <1>6, <2>1, <2>2, <2>3
<1>8. CASE m.does = "scores"
  <2> DEFINE rows == [i \in DOMAIN items |-> Scores[items[i].data[1]]]
  <2>1. out = RowWise(rows, m.shape)
    BY <1>1, <1>2, <1>8 DEF Output
  <2>2. \A i \in 1 .. n : CutRow(rows[i], m.shape) = RowOf(m, items[i])
    BY <1>3, <1>8 DEF RowOf
  <2>3. DOMAIN rows = 1 .. n
    BY <1>3
  <2> HIDE DEF rows
  <2> QED
    BY <1>6, <2>1, <2>2, <2>3
<1>9. CASE m.does = "scenes"
  <2> DEFINE rows == [i \in DOMAIN items |-> Scenes[items[i].data[1]]]
  <2>1. out = RowWise(rows, m.shape)
    BY <1>1, <1>2, <1>9 DEF Output
  <2>2. \A i \in 1 .. n : CutRow(rows[i], m.shape) = RowOf(m, items[i])
    BY <1>3, <1>9 DEF RowOf
  <2>3. DOMAIN rows = 1 .. n
    BY <1>3
  <2> HIDE DEF rows
  <2> QED
    BY <1>6, <2>1, <2>2, <2>3
<1> QED
  BY <1>5, <1>7, <1>8, <1>9 DEF BatchFirstModels

\* What any model makes of a batch has a shape that process_message() can read.
LEMMA OutputShape ==
  ASSUME NEW items, ItemsFit(items), items[1].shape # << >>, NEW m \in Models
  PROVE  Output(m, Stack(items)).shape \in Seq(Nat)
<1>1. PICK t, out : t = Stack(items) /\ out = Output(m, t)
  OBVIOUS
<1>2. items \in Seq(Tensor(Elements))
  BY DEF ItemsFit
<1>3. items[1].shape \in Seq(Nat)
  BY FirstItem
<1>4. t.shape \in Seq(Nat) /\ t.shape = << Len(items) >> \o items[1].shape
  BY <1>1, StackIsTensor DEF ItemsFit
<1>5. Len(items) \in Nat
  BY <1>2
<1>6. t.shape # << >> /\ t.shape[1] \in Nat /\ t.shape[2] \in Nat /\ Tail(t.shape) \in Seq(Nat)
  BY <1>3, <1>4, <1>5
<1>7. CASE m.does \in BatchFirstModels
  BY <1>1, <1>7, OutputByRows
<1>8. CASE m.does = "scalar"
  <2>1. out.shape = << >>
    BY <1>1, <1>8 DEF Output
  <2> QED
    BY <1>1, <2>1
<1>9. CASE m.does = "halved"
  <2>1. out.shape = << t.shape[1] \div 2 >> \o Tail(t.shape)
    BY <1>1, <1>9 DEF Output, FirstRows
  <2>2. t.shape[1] \div 2 \in Nat
    BY <1>6
  <2> QED
    BY <1>1, <1>6, <2>1, <2>2
<1>10. CASE m.does = "transposed"
  <2>1. out.shape = << t.shape[2], t.shape[1] >>
    BY <1>1, <1>10 DEF Output
  <2> QED
    BY <1>1, <1>6, <2>1
<1> QED
  BY <1>7, <1>8, <1>9, <1>10 DEF BatchFirstModels, Models

-----------------------------------------------------------------------------
(* What the invariant says of the batch. *)

\* The inputs and the model of a batch that the server may get.
LEMMA InputTypes ==
  ASSUME ItemsInv
  PROVE  /\ input \in Seq(Inputs) /\ model \in Models /\ DOMAIN input \subseteq Tasks
         /\ \A i, j \in DOMAIN input : input[i].type = input[j].type
         /\ \A i \in DOMAIN input : input[i].type = "person" =>
              /\ model.does = "scenes"
              /\ \A p \in DOMAIN Scenes : Len(Scenes[p]) = Size(model.shape)
<1>1. PICK b \in Batches : input = b.inputs /\ model = b.model
  BY DEF ItemsInv
<1>2. Served(b)
  BY PipelineAssumption
<1> QED
  BY <1>1, <1>2 DEF Served

\* The items of the batch are the tensors of the inputs that did not fail, each
\* once and in the order of the callers.
LEMMA ItemsOfBatch ==
  ASSUME ItemsInv
  PROVE  /\ Items \in Seq(Tensor(Elements))
         /\ DOMAIN Members = DOMAIN Items /\ Len(Members) = Len(Items)
         /\ \A k \in DOMAIN Members :
              /\ Members[k] \in DOMAIN item /\ Members[k] \in DOMAIN input
              /\ Items[k] = Preprocessed(input[Members[k]])
              /\ IsTensor(Items[k]) /\ Items[k].shape # << >>
         /\ \A k, l \in DOMAIN Members : Members[k] = Members[l] => k = l
         /\ DOMAIN item # {} => Items # << >>
<1>1. input \in Seq(Inputs) /\ DOMAIN item \subseteq DOMAIN input
  BY InputTypes DEF ItemsInv
<1>2. PICK n \in Nat : DOMAIN input = 1 .. n
  BY <1>1
<1>3. PICK S, c, e : S = DOMAIN item /\ c = Cardinality(S) /\ e = InOrder(S)
  OBVIOUS
<1>4. S \in SUBSET (1 .. n)
  BY <1>1, <1>2, <1>3
<1>5. c \in Nat /\ e \in [1 .. c -> S] /\ Increasing(e) /\ (S # {} => c > 0)
  BY <1>3, <1>4, InOrderLists
<1>6. Members = e /\ DOMAIN e = 1 .. c
  BY <1>3, <1>5 DEF Members
<1>7. Items = [k \in 1 .. c |-> item[e[k]]]
  BY <1>6 DEF Items
<1>8. ASSUME NEW k \in 1 .. c
      PROVE  /\ e[k] \in DOMAIN item /\ e[k] \in DOMAIN input
             /\ item[e[k]] = Preprocessed(input[e[k]])
             /\ item[e[k]] \in Tensor(Elements)
             /\ IsTensor(item[e[k]]) /\ item[e[k]].shape # << >>
  <2>1. PICK i \in DOMAIN item : i = e[k]
    BY <1>3, <1>5
  <2>2. input[i] \in Inputs /\ item[i] = Preprocessed(input[i])
    BY <1>1, <2>1 DEF ItemsInv
  <2> QED
    BY <1>1, <2>1, <2>2, PreprocessedTypes
<1>9. Items \in Seq(Tensor(Elements)) /\ DOMAIN Items = 1 .. c
  BY <1>5, <1>7, <1>8
<1>10. Len(Members) = Len(Items)
  BY <1>5, <1>6, <1>9
<1>11. ASSUME NEW k \in 1 .. c, NEW l \in 1 .. c, e[k] = e[l] PROVE k = l
  <2>1. e[k] \in S
    BY <1>5
  <2>2. e[k] \in Int
    <3>1. \A x \in S : x \in 1 .. n
      BY <1>4
    <3>2. e[k] \in 1 .. n
      BY <2>1, <3>1, Zenon
    <3> QED
      BY <3>2
  <2>3. (k < l => e[k] < e[l]) /\ (l < k => e[l] < e[k])
    BY <1>5, <1>6 DEF Increasing
  <2>4. ~(k < l) /\ ~(l < k)
    BY <1>11, <2>2, <2>3
  <2> QED
    BY <2>4
<1>12. S # {} => Items # << >>
  BY <1>5, <1>9
<1>13. \A k \in 1 .. c : Items[k] = item[e[k]]
  BY <1>7
<1>14. DOMAIN Members = 1 .. c /\ Members = e
  BY <1>6
<1>15. \A k \in DOMAIN Members :
         /\ Members[k] \in DOMAIN item /\ Members[k] \in DOMAIN input
         /\ Items[k] = Preprocessed(input[Members[k]])
         /\ IsTensor(Items[k]) /\ Items[k].shape # << >>
  BY <1>8, <1>13, <1>14, Zenon
<1>16. \A k, l \in DOMAIN Members : Members[k] = Members[l] => k = l
  BY <1>11, <1>14, Zenon
<1> QED
  BY <1>3, <1>9, <1>10, <1>12, <1>14, <1>15, <1>16

\* Items that can be stacked are what the lemmas about models are about.
LEMMA ItemsAreFit ==
  ASSUME ItemsInv, Stackable(Items)
  PROVE  ItemsFit(Items) /\ Items[1].shape # << >>
<1>1. ItemsFit(Items)
  BY ItemsOfBatch DEF ItemsFit
<1>2. 1 \in DOMAIN Items
  BY <1>1, FirstItem
<1> QED
  BY <1>1, <1>2, ItemsOfBatch

\* What a caller gets who is alone in the batch is made of its own row.
LEMMA RowAlone ==
  ASSUME NEW in \in Inputs, NEW m \in Models, m.does \in BatchFirstModels
  PROVE  IndexAxis(Output(m, Stack(<< Preprocessed(in) >>)), 1) = RowOf(m, Preprocessed(in))
<1>1. PICK it, items, out :
        /\ it = Preprocessed(in) /\ items = << it >>
        /\ out = Output(m, Stack(items))
  OBVIOUS
<1>2. it \in Tensor(Elements) /\ IsTensor(it)
  BY <1>1, PreprocessedTypes
<1>3. ItemsFit(items) /\ 1 \in DOMAIN items /\ items[1] = it
  <2>1. items \in Seq(Tensor(Elements)) /\ DOMAIN items = {1} /\ items[1] = it /\ items # << >>
    BY <1>1, <1>2
  <2> QED
    BY <1>2, <2>1 DEF ItemsFit, Stackable
<1>4. /\ out.shape \in Seq(Nat) /\ out.shape # << >>
      /\ DOMAIN Slices(out) = DOMAIN items /\ Slices(out)[1] = RowOf(m, it)
  BY <1>1, <1>3, OutputByRows
<1>5. Slices(out)[1] = IndexAxis(out, 1)
  BY <1>3, <1>4, SlicesAreTensors
<1> QED
  BY <1>1, <1>4, <1>5

\* There are as many slices as members, and they are tensors.
LEMMA SlicesOfMembers ==
  ASSUME ItemsInv, SessionInv, NEW k \in DOMAIN slices
  PROVE  /\ k \in DOMAIN Members /\ batched.members = Members
         /\ Members[k] \in DOMAIN item /\ Members[k] \in DOMAIN input
         /\ IsTensor(slices[k])
<1>1. slices # << >>
  OBVIOUS
<1>2. PICK out : out = Output(model, batched.tensor)
  OBVIOUS
<1>3. /\ Stackable(Items) /\ batched.members = Members /\ batched.tensor = Stack(Items)
      /\ out.shape # << >> /\ slices = Slices(out) /\ Len(slices) = Len(batched.members)
  BY <1>1, <1>2 DEF SessionInv
<1>4. ItemsFit(Items) /\ Items[1].shape # << >>
  BY <1>3, ItemsAreFit
<1>5. out.shape \in Seq(Nat)
  BY <1>2, <1>3, <1>4, InputTypes, OutputShape
<1>6. DOMAIN slices = 1 .. Len(slices) /\ IsTensor(slices[k])
  BY <1>3, <1>5, SlicesAreTensors
<1>7. DOMAIN Members = 1 .. Len(Members)
  <2>1. DOMAIN Items = 1 .. Len(Items)
    BY <1>4 DEF ItemsFit
  <2> QED
    BY <2>1, ItemsOfBatch
<1>8. k \in DOMAIN Members
  BY <1>3, <1>6, <1>7
<1> QED
  BY <1>3, <1>6, <1>8, ItemsOfBatch

\* The slice of a caller is made of its own row, whoever else is in the batch.
LEMMA SliceOfCaller ==
  ASSUME ItemsInv, SessionInv, BatchFirst, NEW k \in DOMAIN slices
  PROVE  /\ slices[k] = RowOf(model, Preprocessed(input[Members[k]]))
         /\ slices[k] = IndexAxis(Output(model, Stack(<< Preprocessed(input[Members[k]]) >>)), 1)
<1>1. slices # << >>
  OBVIOUS
<1>2. /\ Stackable(Items) /\ batched.tensor = Stack(Items)
      /\ slices = Slices(Output(model, batched.tensor))
  BY <1>1 DEF SessionInv
<1>3. model \in Models /\ model.does \in BatchFirstModels
  BY InputTypes DEF BatchFirst, BatchFirstModels
<1>4. ItemsFit(Items)
  BY <1>2, ItemsAreFit
<1>5. DOMAIN slices = DOMAIN Items /\ slices[k] = RowOf(model, Items[k])
  BY <1>2, <1>3, <1>4, OutputByRows
<1>6. Items[k] = Preprocessed(input[Members[k]]) /\ Members[k] \in DOMAIN input
  BY <1>5, ItemsOfBatch
<1>7. input[Members[k]] \in Inputs
  BY <1>6, InputTypes
<1> QED
  BY <1>3, <1>5, <1>6, <1>7, RowAlone

\* So postprocess() of the slice leads to the answer that the caller gets alone.
LEMMA ReplyIsAlone ==
  ASSUME ItemsInv, SessionInv, BatchFirst, NEW k \in DOMAIN slices,
         NEW in, in = input[batched.members[k]],
         NEW reply, reply = RawReply(k), NEW keep, keep = BestFirst(reply.value)
  PROVE  Alone(model, in) =
           IF in.type = "person" /\ reply.tag = "ok"
             THEN Ok([n \in DOMAIN keep |-> reply.value[keep[n]]])
             ELSE reply
<1>1. batched.members = Members /\ Members[k] \in DOMAIN item
  BY SlicesOfMembers
<1>2. ~PreprocessFails(in)
  BY <1>1 DEF ItemsInv
<1>3. slices[k] = IndexAxis(Output(model, Stack(<< Preprocessed(in) >>)), 1)
  BY <1>1, SliceOfCaller
<1>4. reply = Postprocessed(in.type, slices[k])
  BY DEF RawReply
<1> QED
  BY <1>2, <1>3, <1>4 DEF Alone

\* Five numbers for every anchor make a box for every anchor.
LEMMA BoxesOfAnchors ==
  ASSUME NEW raw, NEW n \in Nat, n = raw.shape[2],
         \A j \in 1 .. 5 * n : raw.data[j] \in Int
  PROVE  [a \in AnchorsOf(raw) |-> BoxAt(raw, a)] \in Seq(Box)
<1>1. ASSUME NEW a \in 1 .. n PROVE BoxAt(raw, a) \in Box
  <2> DEFINE cell(c) == raw.data[c * n + a]
  <2>1. /\ 0 * n + a \in 1 .. 5 * n /\ 1 * n + a \in 1 .. 5 * n /\ 2 * n + a \in 1 .. 5 * n
        /\ 3 * n + a \in 1 .. 5 * n /\ 4 * n + a \in 1 .. 5 * n
    OBVIOUS
  <2>2. /\ cell(0) \in Int /\ cell(1) \in Int /\ cell(2) \in Int
        /\ cell(3) \in Int /\ cell(4) \in Int
    BY <2>1
  <2>3. BoxAt(raw, a) =
          [x1 |-> 2 * cell(0) - cell(2), y1 |-> 2 * cell(1) - cell(3),
           x2 |-> 2 * cell(0) + cell(2), y2 |-> 2 * cell(1) + cell(3),
           confidence |-> cell(4)]
    BY DEF BoxAt
  <2> HIDE DEF cell
  <2> QED
    BY <2>2, <2>3 DEF Box
<1> QED
  BY <1>1 DEF AnchorsOf

\* What nms() gets is a vector of boxes.
LEMMA DetectedBoxes ==
  ASSUME ItemsInv, SessionInv, NEW k \in DOMAIN slices, Detects(k)
  PROVE  RawReply(k).value \in Seq(Box) /\ BatchFirst
<1>1. PICK in, raw : in = input[batched.members[k]] /\ raw = slices[k]
  OBVIOUS
<1>2. batched.members = Members /\ Members[k] \in DOMAIN input
  BY SlicesOfMembers
<1>3. in.type = "person" /\ Postprocessed(in.type, raw).tag = "ok"
  BY <1>1 DEF Detects, RawReply
<1>4. /\ in \in Inputs /\ model \in Models /\ model.does = "scenes"
      /\ \A p \in DOMAIN Scenes : Len(Scenes[p]) = Size(model.shape)
  BY <1>1, <1>2, <1>3, InputTypes
<1>5. BatchFirst
  BY <1>4 DEF BatchFirst
<1>6. PICK it, p : it = Preprocessed(in) /\ p = it.data[1] /\ p \in DOMAIN Scenes
  BY <1>3, <1>4, PreprocessedTypes
<1>7. raw = CutRow(Scenes[p], model.shape)
  <2>1. raw = RowOf(model, it)
    BY <1>1, <1>2, <1>5, <1>6, SliceOfCaller
  <2> QED
    BY <1>4, <1>6, <2>1 DEF RowOf
<1>8. PICK row \in Seq(Int), shape \in Seq(Nat) : row = Scenes[p] /\ shape = model.shape
  BY <1>4, <1>6, PipelineAssumption DEF Models
<1>9. raw.shape = shape /\ raw.data = [j \in 1 .. Len(row) |-> row[j]]
  <2>1. Size(shape) = Len(row)
    BY <1>4, <1>6, <1>8
  <2>2. raw = CutRow(row, shape)
    BY <1>7, <1>8
  <2> QED
    BY <2>1, <2>2 DEF CutRow
<1>10. /\ Len(shape) >= 2 /\ Len(row) = 5 * raw.shape[2]
       /\ Postprocessed(in.type, raw).value = [a \in AnchorsOf(raw) |-> BoxAt(raw, a)]
  <2>1. /\ ~(Len(raw.shape) < 2) /\ IsDetectionOutput(raw)
        /\ Postprocessed(in.type, raw) = Ok([a \in AnchorsOf(raw) |-> BoxAt(raw, a)])
    BY <1>3 DEF Postprocessed, Err
  <2>2. Len(shape) >= 2
    BY <1>8, <1>9, <2>1
  <2>3. Len(row) = 5 * raw.shape[2]
    BY <1>4, <1>6, <1>8, <1>9, <2>1 DEF IsDetectionOutput
  <2> QED
    BY <2>1, <2>2, <2>3 DEF Ok
<1>11. PICK n \in Nat : n = raw.shape[2]
  BY <1>8, <1>9, <1>10
<1>12. \A j \in 1 .. 5 * n : raw.data[j] \in Int
  BY <1>8, <1>9, <1>10, <1>11
<1>13. [a \in AnchorsOf(raw) |-> BoxAt(raw, a)] \in Seq(Box)
  BY <1>11, <1>12, BoxesOfAnchors
<1> QED
  BY <1>1, <1>5, <1>10, <1>13 DEF RawReply

\* postprocess() answers, or fails, or panics.
LEMMA ReplyTags ==
  ASSUME ItemsInv, SessionInv, NEW k \in DOMAIN slices
  PROVE  /\ RawReply(k).tag \in {"ok", "postprocess", "dropped"}
         /\ batched.members[k] \in DOMAIN item /\ batched.members[k] \in DOMAIN input
<1>1. PICK in, raw : in = input[batched.members[k]] /\ raw = slices[k]
  OBVIOUS
<1>2. batched.members = Members /\ Members[k] \in DOMAIN input /\ Members[k] \in DOMAIN item
  BY SlicesOfMembers
<1>3. in.type \in {"array", "audio", "image", "person"}
  BY <1>1, <1>2, InputTypes DEF Inputs
<1>4. Postprocessed(in.type, raw).tag \in {"ok", "postprocess", "dropped"}
  <2>1. CASE in.type \in {"array", "audio"}
    BY <2>1 DEF Postprocessed, Ok
  <2>2. CASE in.type = "image"
    BY <2>2 DEF Postprocessed, Classification, Ok, Err
  <2>3. CASE in.type = "person"
    BY <2>3 DEF Postprocessed, Ok, Err
  <2> QED
    BY <1>3, <2>1, <2>2, <2>3
<1> QED
  BY <1>1, <1>2, <1>4 DEF RawReply

-----------------------------------------------------------------------------
(* Every step preserves the invariant. *)

\* A server begins with a batch and nothing else.
LEMMA PipelineInit == Init => PipelineInv
<1> SUFFICES ASSUME Init PROVE PipelineInv
  OBVIOUS
<1>1. ItemsInv
  BY DEF Init, ItemsInv, Stages
<1>2. SessionInv
  BY DEF Init, SessionInv
<1>3. LoopInv
  BY DEF Init, NoDetections, LoopInv
<1>4. AnswersInv
  BY DEF Init, AnswersInv, BatchingIsTransparent, BatchBreaksByShapesOnly
<1>5. DetectionInv
  BY NoneDetected DEF Init
<1> QED
  BY <1>1, <1>2, <1>3, <1>4, <1>5 DEF PipelineInv

\* What a step must show of a reply that it gives to the callers in S.
Replies(S, reply) ==
  /\ S \subseteq DOMAIN input /\ answer' = Answers(S, reply)
  /\ reply.tag \in Tags
  /\ BatchFirst => \/ reply.tag \in {"batching", "inference"}
                   \/ \A i \in S : reply = Alone(model, input[i])
  /\ reply.tag = "batching" =>
       \E j, k \in DOMAIN item : ShapeAskedFor(input[j]) # ShapeAskedFor(input[k])

\* A step that answers with such a reply, or not at all, keeps what is known of
\* the answers.
LEMMA AnswersPreserved ==
  ASSUME ItemsInv, AnswersInv, UNCHANGED <<input, model>>, DOMAIN item \subseteq DOMAIN item',
         answer' = answer \/ \E S, reply : Replies(S, reply)
  PROVE  AnswersInv' /\ DOMAIN answer' \subseteq DOMAIN input'
<1>1. DOMAIN answer \subseteq DOMAIN input
  BY DEF ItemsInv
<1>2. input' = input /\ model' = model /\ BatchFirst' = BatchFirst
  BY DEF BatchFirst
<1>3. CASE answer' = answer
  <2>1. (\A i \in DOMAIN answer : answer[i].tag \in Tags)'
    BY <1>3 DEF AnswersInv
  <2>2. BatchingIsTransparent'
    BY <1>2, <1>3 DEF AnswersInv, BatchingIsTransparent
  <2>3. BatchBreaksByShapesOnly'
    BY <1>2, <1>3 DEF AnswersInv, BatchBreaksByShapesOnly
  <2> QED
    BY <1>1, <1>2, <1>3, <2>1, <2>2, <2>3 DEF AnswersInv
<1>4. CASE answer' # answer
  <2>1. PICK S, reply : Replies(S, reply)
    BY <1>4
  <2>2. /\ DOMAIN answer' = DOMAIN answer \cup S
        /\ \A i \in S : answer'[i] = reply
        /\ \A i \in DOMAIN answer \ S : answer'[i] = answer[i]
    BY <2>1 DEF Replies, Answers
  <2>3. (\A i \in DOMAIN answer : answer[i].tag \in Tags)'
    BY <2>1, <2>2 DEF Replies, AnswersInv
  <2>4. BatchingIsTransparent'
    <3> SUFFICES ASSUME BatchFirst, NEW i \in DOMAIN answer'
                 PROVE  \/ answer'[i].tag \in {"batching", "inference"}
                        \/ answer'[i] = Alone(model, input[i])
      BY <1>2 DEF BatchingIsTransparent
    <3>1. CASE i \in S
      BY <2>1, <2>2, <3>1 DEF Replies
    <3>2. CASE i \in DOMAIN answer \ S
      BY <2>2, <3>2 DEF AnswersInv, BatchingIsTransparent
    <3> QED
      BY <2>2, <3>1, <3>2
  <2>5. BatchBreaksByShapesOnly'
    <3> SUFFICES ASSUME NEW i \in DOMAIN answer', answer'[i].tag = "batching"
                 PROVE  \E j, k \in DOMAIN item' : ShapeAskedFor(input[j]) # ShapeAskedFor(input[k])
      BY <1>2 DEF BatchBreaksByShapesOnly
    <3>1. CASE i \in S
      BY <2>1, <2>2, <3>1 DEF Replies
    <3>2. CASE i \in DOMAIN answer \ S
      BY <2>2, <3>2 DEF AnswersInv, BatchBreaksByShapesOnly
    <3> QED
      BY <2>2, <3>1, <3>2
  <2> QED
    BY <1>1, <1>2, <2>1, <2>2, <2>3, <2>4, <2>5 DEF AnswersInv, Replies
<1> QED
  BY <1>3, <1>4

\* Before there are slices there are no boxes.
LEMMA NoSlicesNoBoxes ==
  ASSUME LoopInv, slices = << >>, UNCHANGED boxes
  PROVE  LoopInv'
<1>1. \A t \in Tasks : boxes[t] = << >>
  BY DEF LoopInv
<1> QED
  BY <1>1 DEF LoopInv

\* The result of one preprocess() (batcher.rs, prepare_batch).
LEMMA PreprocessPreserves ==
  ASSUME PipelineInv, NEW i \in DOMAIN input, Preprocess(i)
  PROVE  PipelineInv'
<1>1. /\ stage = "preprocess" /\ stage' = stage
      /\ UNCHANGED <<input, model, batched, slices, detectionVars>>
      /\ i \notin DOMAIN item /\ i \notin DOMAIN answer
  BY DEF Preprocess
<1>2. ItemsInv /\ SessionInv /\ LoopInv /\ AnswersInv /\ DetectionInv
  BY DEF PipelineInv
<1>3. slices = << >>
  BY <1>1, <1>2 DEF SessionInv
<1>4. /\ DOMAIN item \subseteq DOMAIN item' /\ DOMAIN item' \subseteq DOMAIN input
      /\ \A j \in DOMAIN item' : ~PreprocessFails(input[j]) /\ item'[j] = Preprocessed(input[j])
      /\ answer' = answer \/ \E S, reply : Replies(S, reply)
  <2>1. CASE PreprocessFails(input[i])
    <3>1. answer' = Answers({i}, Err("preprocess")) /\ item' = item
      BY <2>1 DEF Preprocess
    <3>2. Alone(model, input[i]) = Err("preprocess")
      BY <2>1 DEF Alone
    <3>3. Replies({i}, Err("preprocess"))
      BY <3>1, <3>2 DEF Replies, Err, Tags
    <3> QED
      BY <1>2, <3>1, <3>3 DEF ItemsInv
  <2>2. CASE ~PreprocessFails(input[i])
    <3>1. /\ item' = [j \in DOMAIN item \cup {i} |->
                        IF j = i THEN Preprocessed(input[i]) ELSE item[j]]
          /\ answer' = answer
      BY <2>2 DEF Preprocess
    <3> QED
      BY <1>2, <2>2, <3>1 DEF ItemsInv
  <2> QED
    BY <2>1, <2>2
<1>5. AnswersInv' /\ DOMAIN answer' \subseteq DOMAIN input'
  BY <1>1, <1>2, <1>4, AnswersPreserved
<1>6. ItemsInv'
  BY <1>1, <1>2, <1>4, <1>5 DEF ItemsInv
<1>7. SessionInv'
  BY <1>1, <1>3 DEF SessionInv
<1>8. LoopInv'
  BY <1>1, <1>2, <1>3, NoSlicesNoBoxes DEF detectionVars
<1>9. DetectionInv'
  BY <1>1, <1>2, DetectionInvStep
<1> QED
  BY <1>5, <1>6, <1>7, <1>8, <1>9 DEF PipelineInv

\* The stack of all results, or the same error for all their callers.
LEMMA BatchPreserves ==
  ASSUME PipelineInv, Batch
  PROVE  PipelineInv'
<1>1. /\ stage = "preprocess" /\ stage' \in Stages
      /\ UNCHANGED <<input, model, item, slices, detectionVars>>
  BY DEF Batch, Stages
<1>2. ItemsInv /\ SessionInv /\ LoopInv /\ AnswersInv /\ DetectionInv
  BY DEF PipelineInv
<1>3. slices = << >>
  BY <1>1, <1>2 DEF SessionInv
<1>4. Items' = Items /\ Members' = Members
  BY <1>1 DEF Items, Members
<1>5. SessionInv' /\ (answer' = answer \/ \E S, reply : Replies(S, reply))
  <2>1. CASE Stackable(Items)
    <3>1. /\ stage' = "run" /\ answer' = answer
          /\ batched' = [members |-> Members, tensor |-> Stack(Items)]
      BY <2>1 DEF Batch
    <3>2. SessionInv'
      BY <1>1, <1>3, <1>4, <2>1, <3>1 DEF SessionInv
    <3> QED
      BY <3>1, <3>2
  <2>2. CASE ~Stackable(Items)
    <3>1. /\ stage' = "post" /\ answer' = Answers(DOMAIN item, Err("batching"))
          /\ batched' = batched
      BY <2>2 DEF Batch
    <3>2. SessionInv'
      BY <1>1, <1>3, <3>1 DEF SessionInv
    <3>3. CASE DOMAIN item = {}
      <4>1. answer' = [i \in DOMAIN answer |-> answer[i]]
        BY <3>1, <3>3 DEF Answers
      <4>2. Replies({}, Err("preprocess"))
        BY <3>1, <3>3, <4>1 DEF Replies, Answers, Err, Tags
      <4> QED
        BY <3>2, <4>2
    <3>4. CASE DOMAIN item # {}
      <4>1. Items # << >> /\ Items \in Seq(Tensor(Elements))
        BY <1>2, <3>4, ItemsOfBatch
      <4>2. PICK k \in DOMAIN Items : Items[k].shape # Items[1].shape
        BY <2>2, <4>1 DEF Stackable
      <4>3. PICK a, b : a = Members[1] /\ b = Members[k]
        OBVIOUS
      <4>4. /\ a \in DOMAIN item /\ b \in DOMAIN item
            /\ a \in DOMAIN input /\ b \in DOMAIN input
            /\ Items[1] = Preprocessed(input[a]) /\ Items[k] = Preprocessed(input[b])
        <5>1. 1 \in DOMAIN Items
          BY <4>1
        <5> QED
          BY <1>2, <4>3, <5>1, ItemsOfBatch
      <4>5. input[a] \in Inputs /\ input[b] \in Inputs /\ input[a].type = input[b].type
        BY <1>2, <4>4, InputTypes
      <4>6. ShapeAskedFor(input[a]) # ShapeAskedFor(input[b])
        BY <4>2, <4>4, <4>5, SameShape
      <4>7. Replies(DOMAIN item, Err("batching"))
        BY <1>2, <3>1, <4>4, <4>6 DEF Replies, Err, Tags, ItemsInv
      <4> QED
        BY <3>2, <4>7
    <3> QED
      BY <3>3, <3>4
  <2> QED
    BY <2>1, <2>2
<1>6. AnswersInv' /\ DOMAIN answer' \subseteq DOMAIN input'
  BY <1>1, <1>2, <1>5, AnswersPreserved
<1>7. ItemsInv'
  BY <1>1, <1>2, <1>6 DEF ItemsInv
<1>8. LoopInv'
  BY <1>1, <1>2, <1>3, NoSlicesNoBoxes DEF detectionVars
<1>9. DetectionInv'
  BY <1>1, <1>2, DetectionInvStep
<1> QED
  BY <1>5, <1>6, <1>7, <1>8, <1>9 DEF PipelineInv

\* What process_message() sends back, and what the batcher makes of it.
LEMMA ProcessMessagePreserves ==
  ASSUME PipelineInv, ProcessMessage
  PROVE  PipelineInv'
<1>1. /\ stage = "run" /\ stage' = "post"
      /\ UNCHANGED <<input, model, item, batched, detectionVars>>
  BY DEF ProcessMessage
<1>2. ItemsInv /\ SessionInv /\ LoopInv /\ AnswersInv /\ DetectionInv
  BY DEF PipelineInv
<1>3. /\ slices = << >> /\ Stackable(Items)
      /\ batched = [members |-> Members, tensor |-> Stack(Items)]
  BY <1>1, <1>2 DEF SessionInv
<1>4. Items' = Items /\ Members' = Members
  BY <1>1 DEF Items, Members
<1>5. PICK out : out = Output(model, batched.tensor)
  OBVIOUS
<1>6. BatchFirst => out.shape # << >> /\ Len(Slices(out)) = Len(batched.members)
  <2> SUFFICES ASSUME BatchFirst
               PROVE  out.shape # << >> /\ Len(Slices(out)) = Len(batched.members)
    OBVIOUS
  <2>1. ItemsFit(Items)
    BY <1>2, <1>3, ItemsAreFit
  <2>2. model \in Models /\ model.does \in BatchFirstModels
    BY <1>2, InputTypes DEF BatchFirst, BatchFirstModels
  <2>3. out = Output(model, Stack(Items))
    BY <1>3, <1>5
  <2>4. out.shape # << >> /\ Len(Slices(out)) = Len(Items)
    BY <2>1, <2>2, <2>3, OutputByRows
  <2>5. Len(Items) = Len(Members)
    BY <1>2, ItemsOfBatch
  <2> QED
    BY <1>3, <2>4, <2>5
<1>7. ASSUME NEW tag \in {"inference", "worker_closed", "mismatch"},
             tag = "inference" \/ ~BatchFirst, FailBatch(tag)
      PROVE  slices' = slices /\ Replies(DOMAIN item, Err(tag))
  BY <1>2, <1>7 DEF FailBatch, Replies, Err, Tags, ItemsInv
<1>8. \/ slices' = slices /\ \E S, reply : Replies(S, reply)
      \/ /\ out.shape # << >> /\ Len(Slices(out)) = Len(batched.members)
         /\ slices' = Slices(out) /\ answer' = answer
  <2>1. CASE FailBatch("inference")
    BY <1>7, <2>1
  <2>2. CASE out.shape = << >> /\ FailBatch("worker_closed")
    BY <1>6, <1>7, <2>2
  <2>3. CASE out.shape # << >> /\ Len(Slices(out)) # Len(batched.members) /\ FailBatch("mismatch")
    BY <1>6, <1>7, <2>3
  <2>4. CASE /\ out.shape # << >> /\ Len(Slices(out)) = Len(batched.members)
             /\ slices' = Slices(out) /\ answer' = answer
    BY <2>4
  <2> QED
    BY <1>5, <2>1, <2>2, <2>3, <2>4 DEF ProcessMessage
<1>9. AnswersInv' /\ DOMAIN answer' \subseteq DOMAIN input'
  BY <1>1, <1>2, <1>8, AnswersPreserved
<1>10. ItemsInv'
  BY <1>1, <1>2, <1>9 DEF ItemsInv, Stages
<1>11. SessionInv'
  <2>1. CASE slices' = << >>
    BY <1>1, <2>1 DEF SessionInv
  <2>2. CASE slices' # << >>
    <3>1. /\ out.shape # << >> /\ slices' = Slices(out)
          /\ Len(Slices(out)) = Len(batched.members)
      BY <1>3, <1>8, <2>2
    <3>2. Output(model, batched.tensor)' = out
      BY <1>1, <1>5
    <3> QED
      BY <1>1, <1>3, <1>4, <3>1, <3>2 DEF SessionInv
  <2> QED
    BY <2>1, <2>2
<1>12. LoopInv'
  BY <1>1, <1>2, <1>3, NoSlicesNoBoxes DEF detectionVars
<1>13. DetectionInv'
  BY <1>1, <1>2, DetectionInvStep
<1> QED
  BY <1>9, <1>10, <1>11, <1>12, <1>13 DEF PipelineInv

\* The steps after the slices have come leave the batch as it is.
LEMMA LaterPreserves ==
  ASSUME PipelineInv, UNCHANGED <<input, model, stage, item, batched, slices>>,
         answer' = answer \/ \E S, reply : Replies(S, reply)
  PROVE  ItemsInv' /\ SessionInv' /\ AnswersInv'
<1>1. ItemsInv /\ SessionInv /\ AnswersInv
  BY DEF PipelineInv
<1>2. AnswersInv' /\ DOMAIN answer' \subseteq DOMAIN input'
  BY <1>1, AnswersPreserved
<1>3. ItemsInv'
  BY <1>1, <1>2 DEF ItemsInv
<1>4. Items' = Items /\ Members' = Members
  BY DEF Items, Members
<1>5. Output(model, batched.tensor)' = Output(model, batched.tensor)
  OBVIOUS
<1>6. SessionInv'
  BY <1>1, <1>4, <1>5 DEF SessionInv
<1> QED
  BY <1>2, <1>3, <1>6

\* A step that leaves the boxes alone leaves them those of their slices.
LEMMA LoopUnchanged ==
  ASSUME LoopInv, UNCHANGED <<input, batched, slices, boxes>>
  PROVE  LoopInv'
  BY DEF LoopInv, Detects, RawReply

\* No candidate is left when there is no box (nms() of an empty vector).
LEMMA BestOfNone == BestFirst(<< >>) = << >>
<1>1. Candidates(<< >>) = {} /\ Cardinality({}) = 0
  BY FS_EmptySet DEF Candidates
<1>2. \A keep : keep \in SeqOf({}, 0) <=> keep = << >>
  <2>1. 0 .. 0 = {0} /\ 1 .. 0 = {}
    OBVIOUS
  <2>2. SeqOf({}, 0) = [1 .. 0 -> {}]
    BY <2>1 DEF SeqOf
  <2>3. << >> \in [1 .. 0 -> {}]
    BY <2>1
  <2>4. ASSUME NEW keep \in [1 .. 0 -> {}] PROVE keep = << >>
    <3>1. DOMAIN keep = 1 .. 0 /\ keep \in Seq({})
      OBVIOUS
    <3> QED
      BY <2>1, <3>1
  <2> QED
    BY <2>2, <2>3, <2>4
<1>3. IsBestFirst(<< >>, << >>)
  BY <1>1 DEF IsBestFirst
<1>4. BestFirst(<< >>) = CHOOSE keep \in SeqOf({}, 0) : IsBestFirst(<< >>, keep)
  BY <1>1 DEF BestFirst
<1> QED
  BY <1>2, <1>3, <1>4

\* A postprocess() that does not reach the loop of nms().
LEMMA PostprocessPreserves ==
  ASSUME PipelineInv, NEW k \in DOMAIN slices, Postprocess(k)
  PROVE  PipelineInv'
<1>1. /\ UNCHANGED <<input, model, stage, item, batched, slices, detectionVars>>
      /\ ~Detects(k) /\ answer' = Answers({batched.members[k]}, RawReply(k))
  BY DEF Postprocess
<1>2. ItemsInv /\ SessionInv /\ LoopInv /\ DetectionInv
  BY DEF PipelineInv
<1>3. PICK i, reply : i = batched.members[k] /\ reply = RawReply(k)
  OBVIOUS
<1>4. reply.tag \in {"ok", "postprocess", "dropped"} /\ i \in DOMAIN input
  BY <1>2, <1>3, ReplyTags
<1>5. BatchFirst => reply = Alone(model, input[i])
  <2> SUFFICES ASSUME BatchFirst PROVE reply = Alone(model, input[i])
    OBVIOUS
  <2>1. PICK keep : keep = BestFirst(reply.value)
    OBVIOUS
  <2>2. Alone(model, input[i]) =
          IF input[i].type = "person" /\ reply.tag = "ok"
            THEN Ok([n \in DOMAIN keep |-> reply.value[keep[n]]])
            ELSE reply
    BY <1>2, <1>3, <2>1, ReplyIsAlone
  <2>3. CASE input[i].type = "person" /\ reply.tag = "ok"
    <3>1. reply.value = << >>
      BY <1>1, <1>3, <2>3 DEF Detects
    <3>2. keep = << >>
      BY <2>1, <3>1, BestOfNone
    <3>3. Alone(model, input[i]) = Ok(<< >>)
      BY <2>2, <2>3, <3>2
    <3>4. reply = Ok(<< >>)
      <4>1. reply = Postprocessed("person", slices[k])
        BY <1>3, <2>3 DEF RawReply
      <4>2. reply = Ok(reply.value)
        BY <2>3, <4>1 DEF Postprocessed, Ok, Err
      <4> QED
        BY <3>1, <4>2
    <3> QED
      BY <3>3, <3>4
  <2>4. CASE ~(input[i].type = "person" /\ reply.tag = "ok")
    BY <2>2, <2>4
  <2> QED
    BY <2>3, <2>4
<1>6. Replies({i}, reply)
  BY <1>1, <1>3, <1>4, <1>5 DEF Replies, Tags
<1>7. ItemsInv' /\ SessionInv' /\ AnswersInv'
  BY <1>1, <1>6, LaterPreserves
<1>8. LoopInv'
  BY <1>1, <1>2, LoopUnchanged DEF detectionVars
<1>9. DetectionInv'
  BY <1>1, <1>2, DetectionInvStep
<1> QED
  BY <1>7, <1>8, <1>9 DEF PipelineInv

\* The detections of a caller enter the loop.
LEMMA DetectPreserves ==
  ASSUME PipelineInv, NEW k \in DOMAIN slices, Detect(k)
  PROVE  PipelineInv'
<1>1. PICK i, bs : i = batched.members[k] /\ bs = RawReply(k).value
  OBVIOUS
<1>2. /\ UNCHANGED <<input, model, stage, item, batched, slices, answer>>
      /\ Detects(k) /\ Threshold(i, bs)
  BY <1>1 DEF Detect
<1>3. ItemsInv /\ SessionInv /\ LoopInv /\ DetectionInv
  BY DEF PipelineInv
<1>4. i \in Tasks /\ bs \in Seq(Box)
  BY <1>1, <1>2, <1>3, ReplyTags, InputTypes, DetectedBoxes
<1>5. ItemsInv' /\ SessionInv' /\ AnswersInv'
  BY <1>2, LaterPreserves
<1>6. DetectionInv'
  BY <1>2, <1>3, <1>4, ThresholdPreserves
<1>7. LoopInv'
  <2>1. boxes \in [Tasks -> Seq(Box)] /\ boxes' = [boxes EXCEPT ![i] = bs]
    BY <1>2, <1>3 DEF Threshold, DetectionInv, DetectionTypes
  <2> SUFFICES ASSUME NEW t \in Tasks, boxes'[t] # << >>
               PROVE  \E l \in DOMAIN slices : /\ batched.members[l] = t /\ Detects(l)
                                               /\ boxes'[t] = RawReply(l).value
    BY <1>2 DEF LoopInv, Detects, RawReply
  <2>2. CASE t = i
    BY <1>1, <1>2, <2>1, <2>2
  <2>3. CASE t # i
    <3>1. boxes'[t] = boxes[t]
      BY <2>1, <2>3
    <3> QED
      BY <1>3, <3>1 DEF LoopInv
  <2> QED
    BY <2>2, <2>3
<1> QED
  BY <1>5, <1>6, <1>7 DEF PipelineInv

\* One turn of the loop.
LEMMA SuppressPreserves ==
  ASSUME PipelineInv, NEW k \in DOMAIN slices, Suppress(k)
  PROVE  PipelineInv'
<1>1. PICK i : i = batched.members[k]
  OBVIOUS
<1>2. /\ UNCHANGED <<input, model, stage, item, batched, slices, answer>>
      /\ KeepBest(i)
  BY <1>1 DEF Suppress
<1>3. ItemsInv /\ SessionInv /\ LoopInv /\ DetectionInv
  BY DEF PipelineInv
<1>4. i \in Tasks
  BY <1>1, <1>3, ReplyTags, InputTypes
<1>5. ItemsInv' /\ SessionInv' /\ AnswersInv'
  BY <1>2, LaterPreserves
<1>6. DetectionInv'
  BY <1>2, <1>3, <1>4, KeepBestPreserves
<1>7. LoopInv'
  BY <1>2, <1>3, LoopUnchanged DEF KeepBest
<1> QED
  BY <1>5, <1>6, <1>7 DEF PipelineInv

\* The loop has ended: what it kept is the answer that the caller gets alone.
LEMMA DetectionsDonePreserves ==
  ASSUME PipelineInv, NEW k \in DOMAIN slices, DetectionsDone(k)
  PROVE  PipelineInv'
<1>1. PICK i, reply : i = batched.members[k] /\ reply = Ok([n \in DOMAIN kept[i] |-> boxes[i][kept[i][n]]])
  OBVIOUS
<1>2. /\ UNCHANGED <<input, model, stage, item, batched, slices, detectionVars>>
      /\ boxes[i] # << >> /\ detections[i] = {} /\ answer' = Answers({i}, reply)
  BY <1>1 DEF DetectionsDone
<1>3. ItemsInv /\ SessionInv /\ LoopInv /\ DetectionInv
  BY DEF PipelineInv
<1>4. i \in Tasks /\ i \in DOMAIN input
  BY <1>1, <1>3, ReplyTags, InputTypes
<1>5. Detects(k) /\ boxes[i] = RawReply(k).value
  <2>1. PICK l \in DOMAIN slices : /\ batched.members[l] = i /\ Detects(l)
                                   /\ boxes[i] = RawReply(l).value
    BY <1>2, <1>3, <1>4 DEF LoopInv
  <2>2. /\ k \in DOMAIN Members /\ l \in DOMAIN Members /\ batched.members = Members
    BY <1>3, SlicesOfMembers
  <2>3. l = k
    BY <1>1, <1>3, <2>1, <2>2, ItemsOfBatch
  <2> QED
    BY <2>1, <2>3
<1>6. BatchFirst => reply = Alone(model, input[i])
  <2> SUFFICES ASSUME BatchFirst PROVE reply = Alone(model, input[i])
    OBVIOUS
  <2>1. PICK raw, keep : raw = RawReply(k) /\ keep = BestFirst(raw.value)
    OBVIOUS
  <2>2. keep = kept[i]
    BY <1>2, <1>3, <1>4, <1>5, <2>1, LoopFindsBestFirst
  <2>3. input[i].type = "person" /\ raw.tag = "ok"
    BY <1>1, <1>5, <2>1 DEF Detects
  <2>4. Alone(model, input[i]) = Ok([n \in DOMAIN keep |-> raw.value[keep[n]]])
    BY <1>1, <1>3, <2>1, <2>3, ReplyIsAlone
  <2> QED
    BY <1>1, <1>5, <2>1, <2>2, <2>4
<1>7. Replies({i}, reply)
  BY <1>1, <1>2, <1>4, <1>6 DEF Replies, Ok, Tags
<1>8. ItemsInv' /\ SessionInv' /\ AnswersInv'
  BY <1>2, <1>7, LaterPreserves
<1>9. LoopInv'
  BY <1>2, <1>3, LoopUnchanged DEF detectionVars
<1>10. DetectionInv'
  BY <1>2, <1>3, DetectionInvStep
<1> QED
  BY <1>8, <1>9, <1>10 DEF PipelineInv

\* Every step of the batch preserves the invariant.
LEMMA PipelineInvStep == PipelineInv /\ [Next]_vars => PipelineInv'
<1> SUFFICES ASSUME PipelineInv, [Next]_vars PROVE PipelineInv'
  OBVIOUS
<1>1. CASE UNCHANGED vars
  <2>1. /\ UNCHANGED <<input, model, stage, item, batched, slices>> /\ answer' = answer
        /\ UNCHANGED detectionVars
    BY <1>1 DEF vars
  <2>2. ItemsInv' /\ SessionInv' /\ AnswersInv'
    BY <2>1, LaterPreserves
  <2>3. LoopInv'
    BY <2>1, LoopUnchanged DEF PipelineInv, detectionVars
  <2>4. DetectionInv'
    BY <2>1, DetectionInvStep DEF PipelineInv
  <2> QED
    BY <2>2, <2>3, <2>4 DEF PipelineInv
<1>2. ASSUME NEW i \in DOMAIN input, Preprocess(i) PROVE PipelineInv'
  BY <1>2, PreprocessPreserves
<1>3. CASE Batch
  BY <1>3, BatchPreserves
<1>4. CASE ProcessMessage
  BY <1>4, ProcessMessagePreserves
<1>5. ASSUME NEW k \in DOMAIN slices,
             Postprocess(k) \/ Detect(k) \/ Suppress(k) \/ DetectionsDone(k)
      PROVE  PipelineInv'
  BY <1>5, PostprocessPreserves, DetectPreserves, SuppressPreserves, DetectionsDonePreserves
<1> QED
  BY <1>1, <1>2, <1>3, <1>4, <1>5 DEF Next, Done

\* The inductive invariant holds for every set of batches, every size of picture
\* and recording and any number of tasks.
THEOREM PipelineInvariance == Spec => []PipelineInv
  BY PipelineInit, PipelineInvStep, PTL DEF Spec

-----------------------------------------------------------------------------
(* The properties. *)

\* Every array on the way of a batch has as many elements as its shape says, so
\* batch_array(), the session and process_message() get what they expect.
THEOREM PipelineTypes == Spec => []TypeOK
<1>1. PipelineInv => TypeOK
  <2> SUFFICES ASSUME PipelineInv PROVE TypeOK
    OBVIOUS
  <2>1. ItemsInv /\ SessionInv /\ AnswersInv /\ DetectionInv
    BY DEF PipelineInv
  <2>2. \A i \in DOMAIN item : IsTensor(item[i])
    <3> TAKE i \in DOMAIN item
    <3>1. input[i] \in Inputs /\ item[i] = Preprocessed(input[i])
      BY <2>1, InputTypes DEF ItemsInv
    <3> QED
      BY <3>1, PreprocessedTypes
  <2>3. stage = "run" => IsTensor(batched.tensor)
    <3> SUFFICES ASSUME stage = "run" PROVE IsTensor(batched.tensor)
      OBVIOUS
    <3>1. batched.tensor = Stack(Items) /\ ItemsFit(Items)
      BY <2>1, ItemsAreFit DEF SessionInv
    <3>2. IsTensor(Stack(Items))
      BY <3>1, StackIsTensor DEF ItemsFit
    <3> QED
      BY <3>1, <3>2
  <2>4. \A k \in DOMAIN slices : IsTensor(slices[k])
    BY <2>1, SlicesOfMembers
  <2>5. \A t \in Tasks : detections[t] \subseteq DOMAIN boxes[t]
    BY <2>1 DEF DetectionInv, DetectionTypes, Candidates
  <2> QED
    BY <2>1, <2>2, <2>3, <2>4, <2>5 DEF TypeOK, ItemsInv, AnswersInv
<1> QED
  BY <1>1, PipelineInvariance, PTL

\* Whoever shares the batch, whichever order the tasks run in, and however many
\* boxes there are: a caller gets what it gets alone.
THEOREM BatchingIsTransparentHolds == Spec => []BatchingIsTransparent
<1>1. PipelineInv => BatchingIsTransparent
  BY DEF PipelineInv, AnswersInv
<1> QED
  BY <1>1, PipelineInvariance, PTL

\* Only callers who ask for different shapes can break a batch.
THEOREM BatchBreaksByShapesOnlyHolds == Spec => []BatchBreaksByShapesOnly
<1>1. PipelineInv => BatchBreaksByShapesOnly
  BY DEF PipelineInv, AnswersInv
<1> QED
  BY <1>1, PipelineInvariance, PTL

KeepsOrder(from, to) ==
  /\ Rises(from) => Rises(to)
  /\ \A k \in DOMAIN to : \E m, n \in DOMAIN from : from[m] <= to[k] /\ to[k] <= from[n]

\* For every recording, rate and target length the tensor that goes into a batch
\* stays within the recording and rises where the recording rises.
THEOREM ResamplingKeepsOrderHolds == Spec => []ResamplingKeepsOrder
<1>1. PipelineInv => ResamplingKeepsOrder
  <2> SUFFICES ASSUME PipelineInv, NEW i \in DOMAIN item, input[i].type = "audio"
               PROVE  KeepsOrder(Mono(input[i]),
                        SubSeq(item[i].data, 1, Smaller(TargetLength, Len(Resampled(input[i])))))
    BY DEF ResamplingKeepsOrder, KeepsOrder
  <2>1. PICK in, from, to :
          /\ in = input[i] /\ from = Mono(in)
          /\ to = SubSeq(item[i].data, 1, Smaller(TargetLength, Len(Resampled(in))))
    OBVIOUS
  <2>2. in \in Inputs /\ in.type = "audio" /\ item[i] = Preprocessed(in)
    BY <2>1, InputTypes DEF PipelineInv, ItemsInv
  <2>3. in.samples \in Seq(Int) /\ in.sample_rate \in Nat /\ item[i] = AudioTensor(in)
    BY <2>2 DEF Inputs, Preprocessed
  <2>4. PICK r \in Seq(Int) : r = Resampled(in)
    BY <2>3, ResampledKeepsOrder
  <2>5. /\ Rises(from) => Rises(r)
        /\ \A k \in DOMAIN r : \E m, n \in DOMAIN from : from[m] <= r[k] /\ r[k] <= from[n]
    BY <2>1, <2>3, <2>4, ResampledKeepsOrder
  <2>6. PICK d \in Seq(Int) : d = item[i].data
    BY <2>3, AudioTensorIsFixed
  <2>7. /\ Len(d) = TargetLength /\ TargetLength \in Nat
        /\ \A k \in 1 .. TargetLength : k <= Len(r) => d[k] = r[k]
    BY <2>3, <2>4, <2>6, AudioTensorIsFixed, TargetAssumption
  <2>8. PICK len \in Nat : len = Smaller(TargetLength, Len(r))
    BY <2>4, <2>7 DEF Smaller
  <2>9. len <= TargetLength /\ len <= Len(r)
    BY <2>4, <2>7, <2>8 DEF Smaller
  <2>10. to = SubSeq(d, 1, len)
    BY <2>1, <2>4, <2>6, <2>8
  <2>11. DOMAIN to = 1 .. len /\ \A k \in 1 .. len : k \in DOMAIN r /\ to[k] = r[k]
    <3>1. DOMAIN to = 1 .. len /\ \A k \in 1 .. len : to[k] = d[k]
      BY <2>7, <2>9, <2>10
    <3>2. \A k \in 1 .. len : k \in DOMAIN r /\ k \in 1 .. TargetLength /\ k <= Len(r)
      BY <2>4, <2>7, <2>9
    <3> QED
      BY <2>7, <3>1, <3>2
  <2>12. ASSUME Rises(from) PROVE Rises(to)
    <3>1. Rises(r)
      BY <2>5, <2>12
    <3>2. ASSUME NEW m \in 1 .. len, NEW n \in 1 .. len, m < n PROVE to[m] <= to[n]
      BY <2>11, <3>1, <3>2 DEF Rises
    <3> QED
      BY <2>11, <3>2 DEF Rises
  <2>13. KeepsOrder(from, to)
    BY <2>5, <2>11, <2>12 DEF KeepsOrder
  <2> QED
    BY <2>1, <2>13
<1> QED
  BY <1>1, PipelineInvariance, PTL

\* The loops of all the callers of a batch, with what else happens in it: no two
\* boxes that are kept overlap, what is lost is lost to a better box, and the
\* overlap that decides is that of the areas.
THEOREM DetectionsOfBatch ==
  Spec => []KeptApart /\ []LostToBetter /\ []OverlapIsOfAreas
<1>1. PipelineInv => KeptApart /\ LostToBetter /\ OverlapIsOfAreas
  BY AreasCompared DEF PipelineInv, DetectionInv
<1> QED
  BY <1>1, PipelineInvariance, PTL

\* The tasks of a batch do with their boxes what PersonDetection says, and nothing
\* else of the batch touches them (postprocess() has a vector of its own).
THEOREM PipelineImplementsDetection == Spec => DetectionSpec
<1>1. Init => NoDetections
  BY DEF Init
<1>2. PipelineInv /\ [Next]_vars => [DetectionNext]_detectionVars
  <2> SUFFICES ASSUME PipelineInv, [Next]_vars PROVE [DetectionNext]_detectionVars
    OBVIOUS
  <2>0. ItemsInv /\ SessionInv
    BY DEF PipelineInv
  <2>1. ASSUME NEW k \in DOMAIN slices PROVE batched.members[k] \in Tasks
    BY <2>0, ReplyTags, InputTypes
  <2>2. ASSUME NEW k \in DOMAIN slices, Detect(k) PROVE DetectionNext
    <3>1. Threshold(batched.members[k], RawReply(k).value) /\ RawReply(k).value \in Seq(Box)
      BY <2>0, <2>2, DetectedBoxes DEF Detect
    <3> QED
      BY <2>1, <3>1 DEF DetectionNext
  <2>3. ASSUME NEW k \in DOMAIN slices, Suppress(k) PROVE DetectionNext
    <3>1. KeepBest(batched.members[k])
      BY <2>3 DEF Suppress
    <3> QED
      BY <2>1, <3>1 DEF DetectionNext
  <2>4. CASE UNCHANGED detectionVars
    BY <2>4
  <2>5. ASSUME NEW i \in DOMAIN input, Preprocess(i) PROVE UNCHANGED detectionVars
    BY <2>5 DEF Preprocess
  <2>6. Batch \/ ProcessMessage => UNCHANGED detectionVars
    BY DEF Batch, ProcessMessage
  <2>7. ASSUME NEW k \in DOMAIN slices, Postprocess(k) \/ DetectionsDone(k)
        PROVE  UNCHANGED detectionVars
    BY <2>7 DEF Postprocess, DetectionsDone
  <2>8. Done \/ UNCHANGED vars => UNCHANGED detectionVars
    BY DEF Done, vars
  <2> QED
    BY <2>2, <2>3, <2>4, <2>5, <2>6, <2>7, <2>8 DEF Next
<1> QED
  BY <1>1, <1>2, PipelineInvariance, PTL DEF Spec, DetectionSpec
=============================================================================
