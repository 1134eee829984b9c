--------------------------- MODULE PersonDetection --------------------------
(***************************************************************************)
(* postprocess() of examples/person_detection.rs: the anchors of the raw   *)
(* output that reach the confidence threshold become boxes, and those that *)
(* overlap a better one too much are suppressed, best box first.  Several  *)
(* of these tasks run at the same time on the blocking threads.            *)
(*                                                                         *)
(* The sorted vector of detections is the set of their anchors with the    *)
(* order Before.  Coordinates are in half pixels, confidences in percent.  *)
(***************************************************************************)
EXTENDS Tensors, FiniteSets, SequencesExt

CONSTANT Tasks  \* the postprocess() calls

VARIABLES
  boxes,       \* per task, the box of every anchor
  detections,  \* per task, the anchors that wait in the vector
  kept         \* per task, the anchors kept so far

detectionVars == <<boxes, detections, kept>>

Box == [x1 : Int, y1 : Int, x2 : Int, y2 : Int, confidence : Int]

\* into_shape_with_order((5, num_anchors)), where shape[1] must be there.
AnchorsOf(raw) == 1 .. raw.shape[2]
IsDetectionOutput(raw) == Size(raw.shape) = 5 * raw.shape[2]

BoxAt(raw, i) ==
  LET cell(c) == raw.data[c * raw.shape[2] + i]
  IN  [x1 |-> 2 * cell(0) - cell(2), y1 |-> 2 * cell(1) - cell(3),
       x2 |-> 2 * cell(0) + cell(2), y2 |-> 2 * cell(1) + cell(3),
       confidence |-> cell(4)]

Candidates(bs) == {i \in DOMAIN bs : bs[i].confidence >= 50}

Larger(a, b) == IF a >= b THEN a ELSE b
Smaller(a, b) == IF a <= b THEN a ELSE b
\* Slip: max(0.0) is forgotten.
ExtentSigned(low, high) == high - low

Extent(low, high) == Larger(high - low, 0)
Area(b) == Extent(b.x1, b.x2) * Extent(b.y1, b.y2)

\* compute_iou(a, b) > 0.45.  The 1e-6 only keeps the quotient of two empty
\* boxes from being 0 / 0.
Overlapping(a, b) ==
  LET inter == Extent(Larger(a.x1, b.x1), Smaller(a.x2, b.x2))
                 * Extent(Larger(a.y1, b.y1), Smaller(a.y2, b.y2))
  IN  20 * inter > 9 * (Area(a) + Area(b) - inter)

\* sort_by() is stable and puts the greatest confidence first.
Before(bs, i, j) ==
  \/ bs[i].confidence > bs[j].confidence
  \/ bs[i].confidence = bs[j].confidence /\ i < j

NoDetections ==
  /\ boxes = [t \in Tasks |-> << >>]
  /\ detections = [t \in Tasks |-> {}]
  /\ kept = [t \in Tasks |-> << >>]

Threshold(t, bs) ==
  /\ boxes' = [boxes EXCEPT ![t] = bs]
  /\ detections' = [detections EXCEPT ![t] = Candidates(bs)]
  /\ kept' = [kept EXCEPT ![t] = << >>]

\* Slip: the vector is not sorted.
IsFirstUnsorted(t, i) ==
  i \in detections[t] /\ \A j \in detections[t] \ {i} : i < j

IsFirst(t, i) ==
  i \in detections[t] /\ \A j \in detections[t] \ {i} : Before(boxes[t], i, j)

\* Slip: retain() is taken for the removal of what the closure says.
KeepBestRetaining(t) ==
  \E i \in detections[t] :
    /\ IsFirst(t, i)
    /\ kept' = [kept EXCEPT ![t] = Append(@, i)]
    /\ detections' = [detections EXCEPT ![t] =
         {j \in @ \ {i} : Overlapping(boxes[t][i], boxes[t][j])}]
    /\ UNCHANGED boxes

\* One turn of the loop in nms().
KeepBest(t) ==
  \E i \in detections[t] :
    /\ IsFirst(t, i)
    /\ kept' = [kept EXCEPT ![t] = Append(@, i)]
    /\ detections' = [detections EXCEPT ![t] =
         {j \in @ \ {i} : ~Overlapping(boxes[t][i], boxes[t][j])}]
    /\ UNCHANGED boxes

DetectionNext ==
  \E t \in Tasks : (\E bs \in Seq(Box) : Threshold(t, bs)) \/ KeepBest(t)

DetectionSpec == NoDetections /\ [][DetectionNext]_detectionVars
-----------------------------------------------------------------------------
\* No two boxes that are kept overlap too much, and they come best first: the
\* order of the answer, and the reason why retain() may forget a box for good.
KeptApart ==
  \A t \in Tasks : \A m, n \in DOMAIN kept[t] : m < n =>
    /\ Before(boxes[t], kept[t][m], kept[t][n])
    /\ ~Overlapping(boxes[t][kept[t][m]], boxes[t][kept[t][n]])

\* A candidate is lost only to a box that is kept, is at least as good and
\* overlaps it (sort_by, remove(0) and retain in nms()).
LostToBetter ==
  \A t \in Tasks : \A i \in Candidates(boxes[t]) :
    \/ i \in detections[t]
    \/ \E n \in DOMAIN kept[t] :
         \/ kept[t][n] = i
         \/ /\ Before(boxes[t], kept[t][n], i)
            /\ Overlapping(boxes[t][kept[t][n]], boxes[t][i])

\* keep lists, best first, exactly the candidates that no better one in keep
\* overlaps.
IsBestFirst(bs, keep) ==
  /\ \A m, n \in DOMAIN keep : m < n => Before(bs, keep[m], keep[n])
  /\ \A i \in Candidates(bs) :
       (\E n \in DOMAIN keep : keep[n] = i)
         <=> ~\E n \in DOMAIN keep : /\ Before(bs, keep[n], i)
                                    /\ Overlapping(bs[keep[n]], bs[i])

BestFirst(bs) ==
  CHOOSE keep \in SeqOf(Candidates(bs), Cardinality(Candidates(bs))) : IsBestFirst(bs, keep)

Cells(b) == (b.x1 .. b.x2 - 1) \X (b.y1 .. b.y2 - 1)

\* compute_iou() compares areas: those of the cells in both boxes and in any.
OverlapIsOfAreas ==
  \A t \in Tasks : \A i, j \in DOMAIN boxes[t] :
    LET a == Cells(boxes[t][i])
        b == Cells(boxes[t][j])
    IN  Overlapping(boxes[t][i], boxes[t][j])
          <=> 20 * Cardinality(a \cap b) > 9 * Cardinality(a \cup b)
=============================================================================
