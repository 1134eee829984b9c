------------------------------ MODULE Tensors -------------------------------
(***************************************************************************)
(* The tensors that go to and come from a session, as a shape and the      *)
(* elements in row-major order: helpers::batch_array puts the items of a   *)
(* batch under a new first axis, process_message cuts the first axis of    *)
(* the output up again (src/helpers.rs, src/actor/worker.rs).              *)
(***************************************************************************)
EXTENDS Integers, Sequences

Size(shape) ==
  LET size[n \in 0 .. Len(shape)] == IF n = 0 THEN 1 ELSE size[n - 1] * shape[n]
  IN  size[Len(shape)]

IsTensor(t) == Len(t.data) = Size(t.shape)

\* batch_array() fails for an empty list and for items of different shapes.
Stackable(items) ==
  /\ items # << >>
  /\ \A i \in DOMAIN items : items[i].shape = items[1].shape

\* Slip: the new axis is the last one instead of the first.
StackLast(items) ==
  LET n == Len(items)
  IN  [shape |-> << n >> \o items[1].shape,
       data |-> [k \in 1 .. n * Len(items[1].data) |->
                   items[((k - 1) % n) + 1].data[((k - 1) \div n) + 1]]]

Stack(items) ==
  LET size == Len(items[1].data)
  IN  [shape |-> << Len(items) >> \o items[1].shape,
       data |-> [k \in 1 .. Len(items) * size |->
                   items[((k - 1) \div size) + 1].data[((k - 1) % size) + 1]]]

\* index_axis(Axis(0), i - 1), copied into an array of the remaining axes.
IndexAxis(t, i) ==
  LET size == Size(Tail(t.shape))
  IN  [shape |-> Tail(t.shape),
       data |-> [k \in 1 .. size |-> t.data[(i - 1) * size + k]]]

Slices(t) == [i \in 1 .. t.shape[1] |-> IndexAxis(t, i)]
=============================================================================
