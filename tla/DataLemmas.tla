----------------------------- MODULE DataLemmas -----------------------------
(***************************************************************************)
(* The data that the batcher and the threads handle, of every size: sets   *)
(* of indexes that are listed in order, and tensors that are stacked and   *)
(* sliced by the index arithmetic of batch_array() and process_message().  *)
(***************************************************************************)
EXTENDS Indexes, Tensors, FiniteSetTheorems, WellFoundedInduction, TLAPS

\* Induction for a set, by a least number that is not in it.
LEMMA NatInSet ==
  ASSUME NEW T, 0 \in T, \A n \in Nat : n \in T => n + 1 \in T
  PROVE  Nat \subseteq T
<1> DEFINE U == Nat \ T
<1> SUFFICES ASSUME U # {} PROVE FALSE
  OBVIOUS
<1>1. PICK m \in U : \A y \in U : ~(<<y, m>> \in OpToRel(<, Nat))
  BY WFMin, NatLessThanWellFounded
<1>2. m - 1 \in Nat /\ <<m - 1, m>> \in OpToRel(<, Nat)
  BY <1>1 DEF OpToRel
<1>3. m - 1 \in T
  BY <1>1, <1>2
<1>4. (m - 1) + 1 \in T
  BY <1>2, <1>3
<1>5. m \in Nat /\ m \notin T
  BY <1>1, Zenon
<1>6. (m - 1) + 1 = m
  BY <1>5
<1> QED
  BY <1>4, <1>5, <1>6

-----------------------------------------------------------------------------
(* Indexes in order. *)

Increasing(e) == \A i, j \in DOMAIN e : i < j => e[i] < e[j]

\* Every set of indexes up to n has an increasing list.
Listable(n) ==
  \A S \in SUBSET (1 .. n) :
    /\ IsFiniteSet(S)
    /\ \E e \in [1 .. Cardinality(S) -> S] : Increasing(e)

\* The empty set has the empty list.
LEMMA ListableZero == Listable(0)
<1>1. SUBSET (1 .. 0) = {{}}
  OBVIOUS
<1>2. IsFiniteSet({}) /\ Cardinality({}) = 0
  BY FS_EmptySet
<1>3. [x \in 1 .. 0 |-> x] \in [1 .. 0 -> {}]
  OBVIOUS
<1>4. Increasing([x \in 1 .. 0 |-> x])
  BY DEF Increasing
<1>. QED  BY <1>1, <1>2, <1>3, <1>4 DEF Listable

\* The list of a set with a new greatest element is the old list with that
\* element at its end.
LEMMA ListableStep ==
  ASSUME NEW n \in Nat, Listable(n)
  PROVE  Listable(n + 1)
<1>. SUFFICES ASSUME NEW S \in SUBSET (1 .. n + 1)
              PROVE  /\ IsFiniteSet(S)
                     /\ \E e \in [1 .. Cardinality(S) -> S] : Increasing(e)
  BY DEF Listable
<1>. DEFINE R == S \ {n + 1}
<1>1. R \in SUBSET (1 .. n)
  OBVIOUS
<1>2. PICK f \in [1 .. Cardinality(R) -> R] : Increasing(f)
  BY <1>1 DEF Listable
<1>3. IsFiniteSet(R)
  BY <1>1 DEF Listable
<1>4. CASE n + 1 \notin S
  <2>1. R = S
    BY <1>4
  <2>. QED  BY <2>1, <1>2, <1>3
<1>5. CASE n + 1 \in S
  <2>. DEFINE c == Cardinality(R)
              e == [k \in 1 .. c + 1 |-> IF k = c + 1 THEN n + 1 ELSE f[k]]
  <2>1. c \in Nat
    BY <1>3, FS_CardinalityType
  <2>2. S = R \cup {n + 1} /\ n + 1 \notin R
    BY <1>5
  <2>3. IsFiniteSet(S) /\ Cardinality(S) = c + 1
    <3>. HIDE DEF R, c
    <3>1. /\ IsFiniteSet(R \cup {n + 1})
          /\ Cardinality(R \cup {n + 1}) = Cardinality(R) + 1
      BY <1>3, <2>2, FS_AddElement
    <3>. QED  BY <3>1, <2>2 DEF c
  <2>4. \A k \in 1 .. c : f[k] \in R
    BY <1>2
  <2>5. e \in [1 .. c + 1 -> S]
    <3>. HIDE DEF R, c
    <3>1. ASSUME NEW k \in 1 .. c + 1
          PROVE  (IF k = c + 1 THEN n + 1 ELSE f[k]) \in S
      BY <2>1, <2>2, <2>4
    <3>. QED  BY <3>1
  <2>6. ASSUME NEW i \in 1 .. c + 1, NEW j \in 1 .. c + 1, i < j
        PROVE  e[i] < e[j]
    <3>1. i \in 1 .. c /\ e[i] = f[i]
      BY <2>1, <2>6
    <3>2. f[i] \in 1 .. n
      BY <3>1, <2>4, <1>1
    <3>3. CASE j = c + 1
      <4>1. e[j] = n + 1
        BY <3>3
      <4>. QED  BY <3>1, <3>2, <4>1
    <3>4. CASE j # c + 1
      <4>1. j \in 1 .. c /\ e[j] = f[j]
        BY <3>4, <2>1
      <4>2. f[i] < f[j]
        BY <1>2, <2>6, <3>1, <4>1 DEF Increasing
      <4>. QED  BY <3>1, <4>1, <4>2
    <3>. QED  BY <3>3, <3>4
  <2>7. Increasing(e)
    BY <2>6 DEF Increasing
  <2>. QED  BY <2>3, <2>5, <2>7
<1>. QED  BY <1>4, <1>5

\* Every set of indexes has an increasing list.
LEMMA AllListable == \A n \in Nat : Listable(n)
<1>. DEFINE T == {n \in Nat : Listable(n)}
<1>1. 0 \in T
  BY ListableZero
<1>2. \A n \in Nat : n \in T => n + 1 \in T
  BY ListableStep
<1>. HIDE DEF T
<1>3. Nat \subseteq T
  BY <1>1, <1>2, NatInSet
<1>. QED  BY <1>3 DEF T

\* InOrder lists the elements of any set of indexes, in increasing order.
LEMMA InOrderLists ==
  ASSUME NEW n \in Nat, NEW S \in SUBSET (1 .. n)
  PROVE  /\ Cardinality(S) \in Nat
         /\ Cardinality(S) <= n
         /\ InOrder(S) \in [1 .. Cardinality(S) -> S]
         /\ Increasing(InOrder(S))
         /\ S # {} => Cardinality(S) > 0
<1>1. IsFiniteSet(S) /\ \E e \in [1 .. Cardinality(S) -> S] : Increasing(e)
  BY AllListable DEF Listable
<1>2. Cardinality(S) \in Nat /\ (Cardinality(S) = 0 <=> S = {})
  BY <1>1, FS_CardinalityType, FS_EmptySet
<1>3. Cardinality(S) <= n
  <2>1. IsFiniteSet(1 .. n) /\ Cardinality(1 .. n) = n
    BY FS_Interval
  <2>. QED  BY <2>1, FS_Subset
<1>4. InOrder(S) \in [1 .. Cardinality(S) -> S] /\ Increasing(InOrder(S))
  BY <1>1 DEF InOrder, Increasing
<1>5. S # {} => Cardinality(S) > 0
  <2>1. S # {} => Cardinality(S) # 0
    BY <1>2, Zenon
  <2>2. \A k \in Nat : k # 0 => k > 0
    OBVIOUS
  <2>. QED  BY <1>2, <2>1, <2>2, Zenon
<1>. QED  BY <1>2, <1>3, <1>4, <1>5

-----------------------------------------------------------------------------
(* Tensors. *)

\* Quotient and remainder undo the index arithmetic of a row-major array.
LEMMA Quotient ==
  ASSUME NEW s \in Nat \ {0}, NEW a \in Nat, NEW b \in 0 .. s - 1
  PROVE  (a * s + b) \div s = a /\ (a * s + b) % s = b
  BY SMTT(30)

\* \div rounds down.
LEMMA Floor ==
  ASSUME NEW s \in Nat \ {0}, NEW n \in Nat
  PROVE  /\ n \div s \in Nat
         /\ s * (n \div s) <= n
         /\ n < s * ((n \div s) + 1)
  BY SMTT(30)

\* A shape has a function that multiplies its axes up to the n-th one.
Products(shape, m) ==
  {f \in [0 .. m -> Nat] : f[0] = 1 /\ \A n \in 1 .. m : f[n] = f[n - 1] * shape[n]}

\* Every shape has such a function.
LEMMA ProductsExist ==
  ASSUME NEW shape \in Seq(Nat)
  PROVE  \E f : f \in Products(shape, Len(shape))
<1> DEFINE len == Len(shape)
           T == {m \in Nat : m <= len => \E f : f \in Products(shape, m)}
<1>1. 0 \in T
  <2>1. [n \in 0 .. 0 |-> 1] \in Products(shape, 0)
    BY DEF Products
  <2> QED
    BY <2>1
<1>2. ASSUME NEW m \in Nat, m \in T PROVE m + 1 \in T
  <2> SUFFICES ASSUME m + 1 <= len PROVE \E g : g \in Products(shape, m + 1)
    OBVIOUS
  <2>1. len \in Nat /\ m <= len /\ shape[m + 1] \in Nat
    OBVIOUS
  <2>2. PICK f : f \in Products(shape, m)
    BY <1>2, <2>1
  <2> DEFINE g == [n \in 0 .. m + 1 |-> IF n = m + 1 THEN f[m] * shape[m + 1] ELSE f[n]]
  <2>3. f[m] * shape[m + 1] \in Nat /\ \A n \in 0 .. m : f[n] \in Nat
    BY <2>1, <2>2, SMTT(30) DEF Products
  <2>4. g \in [0 .. m + 1 -> Nat] /\ g[0] = 1
    BY <2>2, <2>3 DEF Products
  <2>5. ASSUME NEW n \in 1 .. m + 1 PROVE g[n] = g[n - 1] * shape[n]
    <3>1. n - 1 \in 0 .. m /\ g[n - 1] = f[n - 1]
      OBVIOUS
    <3>2. CASE n = m + 1
      BY <3>1, <3>2
    <3>3. CASE n # m + 1
      BY <3>1, <3>3, <2>2 DEF Products
    <3> QED
      BY <3>2, <3>3
  <2> HIDE DEF g
  <2>6. g \in Products(shape, m + 1)
    BY <2>4, <2>5 DEF Products
  <2> QED
    BY <2>6
<1> HIDE DEF T
<1>3. Nat \subseteq T
  BY <1>1, <1>2, NatInSet
<1> QED
  BY <1>3 DEF T

\* There is one only: what a fold computes step by step is that function.
LEMMA ProductsUnique ==
  ASSUME NEW shape, NEW m \in Nat, NEW f \in Products(shape, m), NEW g,
         g = [n \in 0 .. m |-> IF n = 0 THEN 1 ELSE g[n - 1] * shape[n]]
  PROVE  g = f
<1> DEFINE T == {n \in Nat : n <= m => g[n] = f[n]}
<1>1. 0 \in T
  BY DEF Products
<1>2. ASSUME NEW n \in Nat, n \in T PROVE n + 1 \in T
  <2> SUFFICES ASSUME n + 1 <= m PROVE g[n + 1] = f[n + 1]
    OBVIOUS
  <2>1. g[n + 1] = g[n] * shape[n + 1]
    OBVIOUS
  <2>2. f[n + 1] = f[n] * shape[n + 1]
    BY DEF Products
  <2> QED
    BY <1>2, <2>1, <2>2
<1> HIDE DEF T
<1>3. Nat \subseteq T
  BY <1>1, <1>2, NatInSet
<1>4. ASSUME NEW n \in 0 .. m PROVE g[n] = f[n]
  <2>1. n \in Nat /\ n <= m
    OBVIOUS
  <2>2. n \in T
    BY <1>3, <2>1
  <2> QED
    BY <2>1, <2>2 DEF T
<1> QED
  BY <1>4 DEF Products

\* Size() is the product of the axes.
LEMMA SizeIsProduct ==
  ASSUME NEW shape \in Seq(Nat), NEW f \in Products(shape, Len(shape))
  PROVE  Size(shape) = f[Len(shape)]
<1> DEFINE Step(g) == [n \in 0 .. Len(shape) |-> IF n = 0 THEN 1 ELSE g[n - 1] * shape[n]]
<1>1. f = Step(f)
  BY DEF Products
<1>2. (CHOOSE g : g = Step(g)) = Step(CHOOSE g : g = Step(g))
  <2> HIDE DEF Step
  <2> QED
    BY <1>1
<1>3. (CHOOSE g : g = Step(g)) = f
  <2>1. Len(shape) \in Nat
    OBVIOUS
  <2>2. PICK h : h = (CHOOSE g : g = Step(g))
    OBVIOUS
  <2>3. h = [n \in 0 .. Len(shape) |-> IF n = 0 THEN 1 ELSE h[n - 1] * shape[n]]
    BY <1>2, <2>2
  <2>4. h = f
    BY <2>1, <2>3, ProductsUnique
  <2> QED
    BY <2>2, <2>4
<1> QED
  BY <1>3 DEF Size

\* A shape has some number of elements.
LEMMA SizeIsNat ==
  ASSUME NEW shape \in Seq(Nat)
  PROVE  Size(shape) \in Nat
<1>1. PICK f : f \in Products(shape, Len(shape))
  BY ProductsExist
<1>2. f[Len(shape)] \in Nat
  BY <1>1 DEF Products
<1> QED
  BY <1>1, <1>2, SizeIsProduct

\* A new first axis multiplies the size.
LEMMA SizeOfStack ==
  ASSUME NEW n \in Nat, NEW shape \in Seq(Nat)
  PROVE  Size(<< n >> \o shape) = n * Size(shape)
<1> DEFINE len == Len(shape)
           whole == << n >> \o shape
<1>1. /\ whole \in Seq(Nat) /\ len \in Nat /\ Len(whole) = len + 1 /\ whole[1] = n
      /\ \A k \in 1 .. len : whole[k + 1] = shape[k] /\ shape[k] \in Nat
  OBVIOUS
<1> HIDE DEF whole
<1>2. PICK f : f \in Products(shape, len)
  BY ProductsExist
<1>3. PICK g : g \in Products(whole, len + 1)
  BY <1>1, ProductsExist
<1> DEFINE T == {k \in Nat : k <= len => g[k + 1] = n * f[k]}
<1>4. 0 \in T
  <2>1. g[1] = g[0] * whole[1] /\ g[0] = 1 /\ f[0] = 1
    BY <1>1, <1>2, <1>3 DEF Products
  <2> QED
    BY <1>1, <2>1
<1>5. ASSUME NEW k \in Nat, k \in T PROVE k + 1 \in T
  <2> SUFFICES ASSUME k + 1 <= len PROVE g[k + 2] = n * f[k + 1]
    OBVIOUS
  <2>1. k + 1 \in 1 .. len /\ k + 2 \in 1 .. len + 1 /\ k \in 0 .. len
    BY <1>1
  <2>2. g[k + 2] = g[k + 1] * whole[k + 2]
    BY <2>1, <1>3 DEF Products
  <2>3. f[k + 1] = f[k] * shape[k + 1] /\ f[k] \in Nat
    <3>1. f[k + 1] = f[(k + 1) - 1] * shape[k + 1] /\ f \in [0 .. len -> Nat]
      BY <2>1, <1>2 DEF Products
    <3> HIDE DEF len
    <3> QED
      BY <2>1, <3>1
  <2>4. whole[k + 2] = shape[k + 1] /\ shape[k + 1] \in Nat
    BY <1>1, <2>1
  <2>5. g[k + 1] = n * f[k]
    BY <1>5, <2>1
  <2>6. (n * f[k]) * shape[k + 1] = n * (f[k] * shape[k + 1])
    BY <2>3, <2>4, SMTT(30)
  <2> QED
    BY <2>2, <2>3, <2>4, <2>5, <2>6, Zenon
<1> HIDE DEF T
<1>6. len \in T
  BY <1>1, <1>4, <1>5, NatInSet
<1>7. g[len + 1] = n * f[len]
  BY <1>1, <1>6 DEF T
<1>8. Size(shape) = f[len] /\ Size(whole) = g[len + 1]
  BY <1>1, <1>2, <1>3, SizeIsProduct
<1> QED
  BY <1>7, <1>8 DEF whole

\* The shapes of the examples have one axis or three.
LEMMA SizeOfExamples ==
  /\ \A a \in Nat : Size(<< a >>) = a
  /\ \A a, b, c \in Nat : Size(<< a, b, c >>) = a * b * c
<1>1. ASSUME NEW a \in Nat PROVE Size(<< a >>) = a
  <2> DEFINE f == [n \in 0 .. 1 |-> IF n = 0 THEN 1 ELSE a]
  <2>1. << a >> \in Seq(Nat) /\ Len(<< a >>) = 1 /\ f[1] = a
    OBVIOUS
  <2>2. f \in Products(<< a >>, 1)
    BY DEF Products
  <2> HIDE DEF f
  <2> QED
    BY <2>1, <2>2, SizeIsProduct
<1>2. ASSUME NEW a \in Nat, NEW b \in Nat, NEW c \in Nat
      PROVE  Size(<< a, b, c >>) = a * b * c
  <2> DEFINE f == [n \in 0 .. 3 |-> CASE n = 0 -> 1 [] n = 1 -> a [] n = 2 -> a * b
                                      [] n = 3 -> a * b * c]
  <2>1. a * b \in Nat /\ a * b * c \in Nat
    BY SMTT(30)
  <2>2. f[0] = 1 /\ f[1] = a /\ f[2] = a * b /\ f[3] = a * b * c
    OBVIOUS
  <2>3. f \in [0 .. 3 -> Nat]
    BY <2>1
  <2> HIDE DEF f
  <2>4. << a, b, c >> \in Seq(Nat) /\ Len(<< a, b, c >>) = 3
    OBVIOUS
  <2>5. ASSUME NEW n \in 1 .. 3 PROVE f[n] = f[n - 1] * << a, b, c >>[n]
    <3>1. CASE n = 1
      BY <3>1, <2>2
    <3>2. CASE n = 2
      BY <3>2, <2>2
    <3>3. CASE n = 3
      BY <3>3, <2>2
    <3> QED
      BY <3>1, <3>2, <3>3
  <2>6. f \in Products(<< a, b, c >>, 3)
    BY <2>2, <2>3, <2>5 DEF Products
  <2> QED
    BY <2>2, <2>4, <2>6, SizeIsProduct
<1> QED
  BY <1>1, <1>2

\* The place of element k of row i in the rows one after the other.
LEMMA PlaceInRows ==
  ASSUME NEW n \in Nat, NEW s \in Nat, NEW i \in 1 .. n, NEW k \in 1 .. s,
         NEW place, place = (i - 1) * s + k
  PROVE  /\ place \in 1 .. n * s
         /\ ((place - 1) \div s) + 1 = i
         /\ ((place - 1) % s) + 1 = k
<1>1. /\ s \in Nat \ {0} /\ i - 1 \in Nat /\ k - 1 \in 0 .. s - 1
      /\ (i - 1) * s \in Nat /\ place - 1 = (i - 1) * s + (k - 1)
  BY SMTT(30)
<1>2. (place - 1) \div s = i - 1 /\ (place - 1) % s = k - 1
  <2>1. ((i - 1) * s + (k - 1)) \div s = i - 1 /\ ((i - 1) * s + (k - 1)) % s = k - 1
    BY <1>1, Quotient, Zenon
  <2> QED
    BY <1>1, <2>1, Zenon
<1>3. place \in 1 .. n * s
  <2>1. i * s <= n * s /\ i * s = (i - 1) * s + s /\ n * s \in Nat
    BY SMTT(30)
  <2> QED
    BY <2>1, <1>1
<1> QED
  BY <1>2, <1>3

Tensor(E) == [shape : Seq(Nat), data : Seq(E)]

\* What process_message() cuts out of a tensor that batch_array() stacked, with
\* a model that returns its input, is item for item what was stacked.
THEOREM SlicesOfStack ==
  ASSUME NEW E, NEW items \in Seq(Tensor(E)), Stackable(items),
         \A i \in DOMAIN items : IsTensor(items[i])
  PROVE  Slices(Stack(items)) = items
<1> DEFINE n == Len(items)
           shape == items[1].shape
           s == Len(items[1].data)
           t == Stack(items)
<1>1. /\ n \in Nat \ {0} /\ DOMAIN items = 1 .. n /\ 1 \in 1 .. n
      /\ \A i \in 1 .. n : items[i] \in Tensor(E)
  BY DEF Stackable
<1>2. /\ shape \in Seq(Nat) /\ s \in Nat /\ Size(shape) = s
      /\ \A i \in 1 .. n : /\ items[i].shape = shape
                           /\ items[i].data \in Seq(E) /\ Len(items[i].data) = s
  <2>1. \A i \in 1 .. n : items[i].shape \in Seq(Nat) /\ items[i].data \in Seq(E)
    BY <1>1 DEF Tensor
  <2>2. \A i \in 1 .. n : items[i].shape = shape /\ Len(items[i].data) = Size(items[i].shape)
    BY <1>1 DEF Stackable, IsTensor
  <2> HIDE DEF n
  <2>3. Size(shape) = s
    BY <1>1, <2>2
  <2>4. s \in Nat /\ shape \in Seq(Nat)
    BY <1>1, <2>1
  <2> QED
    BY <2>1, <2>2, <2>3, <2>4
<1>3. /\ t.shape = << n >> \o shape
      /\ t.data = [k \in 1 .. n * s |-> items[((k - 1) \div s) + 1].data[((k - 1) % s) + 1]]
  BY DEF Stack
<1>4. t.shape[1] = n /\ Tail(t.shape) = shape
  <2> HIDE DEF t, n, shape
  <2> QED
    BY <1>1, <1>2, <1>3
<1>5. ASSUME NEW i \in 1 .. n PROVE IndexAxis(t, i) = items[i]
  <2>1. IndexAxis(t, i) = [shape |-> shape, data |-> [k \in 1 .. s |-> t.data[(i - 1) * s + k]]]
    <3> HIDE DEF t, n, shape, s
    <3> QED
      BY <1>2, <1>4 DEF IndexAxis
  <2>2. ASSUME NEW k \in 1 .. s PROVE t.data[(i - 1) * s + k] = items[i].data[k]
    <3>1. PICK place : place = (i - 1) * s + k
      OBVIOUS
    <3> HIDE DEF t, n, shape, s
    <3>2. n \in Nat /\ s \in Nat
      BY <1>1, <1>2
    <3>3. /\ place \in 1 .. n * s
          /\ ((place - 1) \div s) + 1 = i /\ ((place - 1) % s) + 1 = k
      BY <3>1, <3>2, PlaceInRows, SMTT(60)
    <3>4. t.data[place] = items[((place - 1) \div s) + 1].data[((place - 1) % s) + 1]
      BY <1>3, <3>3
    <3> QED
      BY <3>1, <3>3, <3>4, Zenon
  <2>3. [k \in 1 .. s |-> t.data[(i - 1) * s + k]] = items[i].data
    <3> HIDE DEF t, n, shape, s
    <3>1. items[i].data = [k \in 1 .. s |-> items[i].data[k]]
      BY <1>2
    <3> QED
      BY <2>2, <3>1
  <2>4. items[i] = [shape |-> items[i].shape, data |-> items[i].data]
    BY <1>1 DEF Tensor
  <2> HIDE DEF t, n, shape, s
  <2> QED
    BY <1>2, <2>1, <2>3, <2>4
<1>6. items = [i \in 1 .. n |-> items[i]]
  BY <1>1
<1> HIDE DEF t, n, shape, s
<1>7. Slices(t) = items
  BY <1>4, <1>5, <1>6 DEF Slices
<1> QED
  BY <1>7 DEF t

\* batch_array() makes a tensor, one axis longer than the items.
LEMMA StackIsTensor ==
  ASSUME NEW E, NEW items \in Seq(Tensor(E)), Stackable(items),
         \A i \in DOMAIN items : IsTensor(items[i])
  PROVE  /\ IsTensor(Stack(items))
         /\ Stack(items).shape = << Len(items) >> \o items[1].shape
         /\ Stack(items).shape \in Seq(Nat)
<1> DEFINE n == Len(items)
           shape == items[1].shape
           s == Len(items[1].data)
<1>1. n \in Nat \ {0} /\ items[1] \in Tensor(E) /\ 1 \in DOMAIN items
  BY DEF Stackable
<1>2. shape \in Seq(Nat) /\ s \in Nat
  BY <1>1 DEF Tensor
<1>3. s = Size(shape)
  BY <1>1 DEF IsTensor
<1>4. n * s \in Nat
  BY <1>1, <1>2, SMTT(30)
<1>5. Len(Stack(items).data) = n * s
  <2> DEFINE data == [k \in 1 .. n * s |-> items[((k - 1) \div s) + 1].data[((k - 1) % s) + 1]]
  <2>1. Stack(items).data = data
    BY DEF Stack
  <2>2. DOMAIN data = 1 .. n * s
    OBVIOUS
  <2> HIDE DEF data, n, s
  <2> QED
    BY <1>4, <2>1, <2>2
<1>6. Stack(items).shape = << n >> \o shape
  BY DEF Stack
<1> HIDE DEF n, shape, s
<1>7. Size(<< n >> \o shape) = n * s /\ << n >> \o shape \in Seq(Nat)
  BY <1>1, <1>2, <1>3, SizeOfStack
<1> QED
  BY <1>5, <1>6, <1>7 DEF IsTensor, n, shape

\* process_message() cuts tensors out of a tensor.
LEMMA SlicesAreTensors ==
  ASSUME NEW t, t.shape \in Seq(Nat), t.shape # << >>
  PROVE  /\ DOMAIN Slices(t) = 1 .. t.shape[1] /\ t.shape[1] \in Nat
         /\ Len(Slices(t)) = t.shape[1]
         /\ \A i \in DOMAIN Slices(t) : IsTensor(Slices(t)[i]) /\ Slices(t)[i] = IndexAxis(t, i)
<1>1. t.shape[1] \in Nat /\ Tail(t.shape) \in Seq(Nat)
  OBVIOUS
<1>2. Size(Tail(t.shape)) \in Nat
  BY <1>1, SizeIsNat
<1>3. ASSUME NEW i PROVE IsTensor(IndexAxis(t, i))
  <2> DEFINE size == Size(Tail(t.shape))
             data == [k \in 1 .. size |-> t.data[(i - 1) * size + k]]
  <2>1. IndexAxis(t, i).data = data /\ IndexAxis(t, i).shape = Tail(t.shape)
    BY DEF IndexAxis
  <2>2. DOMAIN data = 1 .. size
    OBVIOUS
  <2> HIDE DEF data
  <2>3. Len(data) = size
    BY <1>2, <2>2
  <2> QED
    BY <2>1, <2>3 DEF IsTensor
<1>4. DOMAIN Slices(t) = 1 .. t.shape[1]
  BY DEF Slices
<1>5. Len(Slices(t)) = t.shape[1]
  BY <1>1, <1>4
<1>6. ASSUME NEW i \in 1 .. t.shape[1] PROVE Slices(t)[i] = IndexAxis(t, i)
  BY DEF Slices
<1> QED
  BY <1>1, <1>3, <1>4, <1>5, <1>6
=============================================================================
