----------------------------- MODULE MCPipeline -----------------------------
(* Small inputs and models of Pipeline for TLC. *)
EXTENDS Pipeline

Array(data) == [type |-> "array", data |-> data]
Image(shows) == [type |-> "image", shows |-> shows]
Person(shows, target) == [type |-> "person", shows |-> shows, target |-> target]

Model(does, shape) == [does |-> does, shape |-> shape]
Echo == Model("echo", << >>)
SumUp == Model("total", << 1 >>)

InputsWith(inputs, models) == {[inputs |-> in, model |-> m] : in \in inputs, m \in models}
Pairs(S) == {<< a, b >> : a, b \in S}
Singles(S) == {<< a >> : a \in S}

Arrays == {Array(<< 1 >>), Array(<< 1, 2 >>), Array(<< 2, 1 >>)}
ArrayBatches ==
  InputsWith(Pairs(Arrays) \cup {<< a, b, Array(<< 3, 4 >>) >> : a, b \in Arrays},
         {Echo, SumUp, Model("scalar", << >>), Model("transposed", << >>)})
    \cup InputsWith({<< a, b, b >> : a, b \in Arrays \ {Array(<< 1 >>)}},
                {Model("halved", << >>)})

\* Rates below, at, just above and far above the target rate, and none at all.
Wav(samples, rate, channels, bits) ==
  FromWav([format |-> "int", bits |-> bits, samples |-> samples, rate |-> rate,
           channels |-> channels])
Signals == UNION {[1 .. n -> {-2, 0, 2}] : n \in 0 .. 4}
Recordings == {Wav(s, rate, channels, 16) :
                 s \in Signals, rate \in {0, 1, 2, 3, 5}, channels \in {1, 2}}
ShortRecordings == {a \in Recordings : Len(a.samples) \in {0, 2} /\ a.channels = 1}
AudioBatches ==
  InputsWith(Singles(Recordings \cup {Wav(<< -2, 2 >>, 2, 1, 32)})
           \cup {<< a, b >> : a \in ShortRecordings, b \in {Wav(<< 2, 0, -2, 2 >>, 3, 1, 16)}},
         {Echo})

\* Class scores as a row of numbers and as a column, and no scores at all.
Faces == {1, 2, 3}
MCScores == [p \in Faces |-> CASE p = 1 -> << 7, 3 >> [] p = 2 -> << 3, 7 >> [] p = 3 -> << 5, 5 >>]
ImageBatches ==
  InputsWith(Pairs({Image(p) : p \in Faces}), {Model("scores", shape) : shape \in {<< 2 >>, << 2, 1 >>, << 0, 1 >>, << 0 >>, << 2, 0 >>}})

\* Five kinds of anchors: a chain in which neighbours overlap and the ends do
\* not, one below the threshold, an empty one and one that is far away.
Anchors ==
  {<< 0, 0, 4, 1, 60 >>, << 1, 0, 4, 1, 90 >>, << 2, 0, 4, 1, 60 >>,
   << 1, 0, 4, 1, 49 >>, << 0, 0, 0, 1, 50 >>, << 9, 5, 4, 1, 50 >>}
Views == [1 .. 3 -> Anchors]
MCScenes == [v \in Views |->
  [k \in 1 .. 15 |-> v[((k - 1) % 3) + 1][((k - 1) \div 3) + 1]]]
Detector == Model("scenes", << 5, 3 >>)
SomeViews == {v \in Views : v[1][5] = 60 /\ v[2][1] = 1}
PersonBatches ==
  InputsWith(Singles({Person(v, << 1, 1 >>) : v \in Views}), {Detector})
    \cup InputsWith({<< Person(v, << 1, 2 >>), Person(w, t) >> :
                   v \in SomeViews, w \in SomeViews, t \in {<< 1, 2 >>, << 2, 1 >>}}, {Detector})
    \cup InputsWith(Singles({Person(v, << 1, 1 >>) : v \in SomeViews}),
                {Model("scenes", << 15 >>), Model("scenes", << 3, 5 >>)})

MCBatches == ArrayBatches \cup AudioBatches \cup ImageBatches \cup PersonBatches
=============================================================================
