---------------------------- MODULE ExampleProofs ---------------------------
(***************************************************************************)
(* Proofs about the algorithms of the examples: resample_linear() of       *)
(* audio_processing.rs, and nms() and compute_iou() of                     *)
(* person_detection.rs, for recordings, rates and boxes of every size and  *)
(* any number of tasks at the same time.                                   *)
(***************************************************************************)
EXTENDS AudioInput, PersonDetection, DataLemmas

\* No output sample looks outside the recording: the subtraction of line 98 does
\* not underflow and the silence of line 104 is never reached.
THEOREM ResampleInBounds ==
  ASSUME NEW len \in Nat, NEW from \in Nat \ {0}, NEW i \in 0 .. OutputLen(len, from) - 1
  PROVE  LeftOf(i, from) \in 0 .. len - 1 /\ RightOf(i, from, len) \in 0 .. len - 1
<1> DEFINE out == (len * TargetRate) \div from
           left == (i * from) \div TargetRate
<1>1. TargetRate \in Nat \ {0} /\ len * TargetRate \in Nat /\ i \in Nat /\ i * from \in Nat
  BY TargetAssumption, SMTT(30) DEF OutputLen
<1>2. out \in Nat /\ from * out <= len * TargetRate /\ i + 1 <= out
  BY <1>1, Floor DEF OutputLen
<1>3. left \in Nat /\ TargetRate * left <= i * from
  BY <1>1, Floor
<1> HIDE DEF out, left
<1>4. i * from < len * TargetRate
  <2>1. (i + 1) * from <= from * out
    BY <1>1, <1>2, SMTT(30)
  <2>2. (i + 1) * from = i * from + from
    BY <1>1, SMTT(30)
  <2> QED
    BY <1>1, <1>2, <2>1, <2>2, SMTT(30)
<1>5. left < len
  <2> SUFFICES ASSUME len <= left PROVE FALSE
    BY <1>3
  <2>1. TargetRate * len <= TargetRate * left /\ TargetRate * len = len * TargetRate
    BY <1>1, <1>3, SMTT(30)
  <2> QED
    BY <1>1, <1>3, <1>4, <2>1, SMTT(30)
<1>6. LeftOf(i, from) = left
  BY DEF LeftOf, left
<1> QED
  BY <1>3, <1>5, <1>6 DEF RightOf

\* \div rounds down, also below zero.
LEMMA FloorOfInt ==
  ASSUME NEW s \in Nat \ {0}, NEW n \in Int
  PROVE  /\ n \div s \in Int
         /\ s * (n \div s) <= n
         /\ n < s * ((n \div s) + 1)
  BY SMTT(30)

\* What lies between two multiples of s is divided to between the factors.
LEMMA DivisionIsBetween ==
  ASSUME NEW s \in Nat \ {0}, NEW a \in Int, NEW b \in Int, NEW n \in Int
  PROVE  /\ n \div s \in Int
         /\ s * a <= n => a <= n \div s
         /\ n <= s * b => n \div s <= b
<1> DEFINE q == n \div s
<1>1. q \in Int /\ s * q <= n /\ n < s * (q + 1)
  BY FloorOfInt
<1> HIDE DEF q
<1>2. ASSUME s * a <= n PROVE a <= q
  <2> SUFFICES ASSUME q + 1 <= a PROVE FALSE
    BY <1>1
  <2>1. s * (q + 1) <= s * a
    BY <1>1, SMTT(30)
  <2> QED
    BY <1>1, <1>2, <2>1, SMTT(30)
<1>3. ASSUME n <= s * b PROVE q <= b
  <2> SUFFICES ASSUME b + 1 <= q PROVE FALSE
    BY <1>1
  <2>1. s * (b + 1) <= s * q /\ s * (b + 1) = s * b + s /\ s * b \in Int /\ s * q \in Int
    BY <1>1, SMTT(30)
  <2> QED
    BY <1>1, <1>3, <2>1
<1> QED
  BY <1>1, <1>2, <1>3 DEF q

\* \div keeps the order of what it divides.
LEMMA DivisionIsMonotone ==
  ASSUME NEW s \in Nat \ {0}, NEW m \in Int, NEW n \in Int, m <= n
  PROVE  m \div s <= n \div s
<1>1. m \div s \in Int /\ s * (m \div s) <= m
  BY FloorOfInt
<1>2. s * (m \div s) <= n
  BY <1>1, SMTT(30)
<1> QED
  BY <1>1, <1>2, DivisionIsBetween

\* The weighted mean of two samples, with the weight f of the right one.
Weighted(a, b, f) == a * (TargetRate - f) + b * f

\* It lies between the two, and moves to the right one as f grows.
LEMMA WeightedIsBetween ==
  ASSUME NEW a \in Int, NEW b \in Int, NEW f \in 0 .. TargetRate - 1
  PROVE  /\ Weighted(a, b, f) \in Int
         /\ Weighted(a, b, f) \div TargetRate \in Int
         /\ a <= b => a <= Weighted(a, b, f) \div TargetRate
         /\ a <= b => Weighted(a, b, f) \div TargetRate <= b
         /\ b <= a => b <= Weighted(a, b, f) \div TargetRate
         /\ b <= a => Weighted(a, b, f) \div TargetRate <= a
<1> DEFINE T == TargetRate
           w == Weighted(a, b, f)
<1>1. T \in Nat \ {0} /\ f \in Nat /\ T - f \in Nat /\ f \in Int /\ T \in Int
  BY TargetAssumption
<1> HIDE DEF T
<1>2. w = T * a + (b - a) * f /\ w = T * b + (a - b) * (T - f)
  BY <1>1, SMTT(30) DEF Weighted, T
<1>3. T * a \in Int /\ T * b \in Int /\ (b - a) * f \in Int /\ (a - b) * (T - f) \in Int
  BY <1>1, SMTT(30)
<1>4. /\ a <= b => (b - a) * f >= 0 /\ (a - b) * (T - f) <= 0
      /\ b <= a => (b - a) * f <= 0 /\ (a - b) * (T - f) >= 0
  BY <1>1, SMTT(30)
<1> HIDE DEF w
<1>5. w \in Int
  BY <1>2, <1>3
<1>6. /\ a <= b => T * a <= w /\ w <= T * b
      /\ b <= a => T * b <= w /\ w <= T * a
  BY <1>2, <1>3, <1>4
<1>7. /\ w \div T \in Int
      /\ T * a <= w => a <= w \div T
      /\ T * b <= w => b <= w \div T
      /\ w <= T * a => w \div T <= a
      /\ w <= T * b => w \div T <= b
  BY <1>1, <1>5, DivisionIsBetween
<1> QED
  BY <1>5, <1>6, <1>7 DEF w, T

\* The weighted mean of two samples moves to the greater one with its weight.
LEMMA WeightedRises ==
  ASSUME NEW a \in Int, NEW b \in Int, a <= b,
         NEW f \in 0 .. TargetRate - 1, NEW g \in 0 .. TargetRate - 1, f <= g
  PROVE  Weighted(a, b, f) \div TargetRate <= Weighted(a, b, g) \div TargetRate
<1>1. TargetRate \in Nat \ {0} /\ f \in Int /\ g \in Int
  BY TargetAssumption
<1>2. /\ Weighted(a, b, f) = TargetRate * a + (b - a) * f
      /\ Weighted(a, b, g) = TargetRate * a + (b - a) * g
  BY <1>1, SMTT(30) DEF Weighted
<1>3. (b - a) * f <= (b - a) * g
  BY <1>1, SMTT(30)
<1>4. Weighted(a, b, f) <= Weighted(a, b, g)
  BY <1>1, <1>2, <1>3, SMTT(30)
<1> QED
  BY <1>1, <1>4, WeightedIsBetween, DivisionIsMonotone

\* Sample k of resample_linear(), as a weighted mean of two samples that are there.
LEMMA ResampledSample ==
  ASSUME NEW s \in Seq(Int), NEW from \in Nat \ {0},
         NEW k \in 1 .. OutputLen(Len(s), from)
  PROVE  /\ LeftOf(k - 1, from) \in 0 .. Len(s) - 1
         /\ RightOf(k - 1, from, Len(s)) \in 0 .. Len(s) - 1
         /\ Frac(k - 1, from) \in 0 .. TargetRate - 1
         /\ (k - 1) * from = TargetRate * LeftOf(k - 1, from) + Frac(k - 1, from)
         /\ ResampleLinear(s, from)[k] =
              Weighted(s[LeftOf(k - 1, from) + 1], s[RightOf(k - 1, from, Len(s)) + 1],
                       Frac(k - 1, from)) \div TargetRate
<1> DEFINE out == OutputLen(Len(s), from)
           left == LeftOf(k - 1, from)
           right == RightOf(k - 1, from, Len(s))
           f == Frac(k - 1, from)
<1>1. TargetRate \in Nat \ {0} /\ Len(s) \in Nat
  BY TargetAssumption
<1>2. out \in Nat
  <2>1. Len(s) * TargetRate \in Nat
    BY <1>1, SMTT(30)
  <2> QED
    BY <2>1, Floor DEF OutputLen
<1>3. k - 1 \in 0 .. out - 1 /\ k - 1 \in Nat
  BY <1>2
<1>4. left \in 0 .. Len(s) - 1 /\ right \in 0 .. Len(s) - 1
  BY <1>1, <1>3, ResampleInBounds
<1>5. f \in 0 .. TargetRate - 1 /\ (k - 1) * from = TargetRate * left + f
  <2>1. PICK n : n = (k - 1) * from
    OBVIOUS
  <2>2. n \in Nat
    BY <1>3, <2>1, SMTT(30)
  <2>3. /\ (n % TargetRate) \in 0 .. TargetRate - 1
        /\ n = TargetRate * (n \div TargetRate) + (n % TargetRate)
    BY <1>1, <2>2, SMTT(30)
  <2> QED
    BY <2>1, <2>3 DEF Frac, LeftOf
<1>6. ResampleLinear(s, from)[k] = Weighted(s[left + 1], s[right + 1], f) \div TargetRate
  <2>1. from # 0 /\ left < Len(s)
    BY <1>4
  <2>2. ResampleLinear(s, from) =
          [j \in 1 .. out |->
             IF LeftOf(j - 1, from) < Len(s)
               THEN (s[LeftOf(j - 1, from) + 1] * (TargetRate - Frac(j - 1, from))
                     + s[RightOf(j - 1, from, Len(s)) + 1] * Frac(j - 1, from))
                    \div TargetRate
               ELSE 0]
    BY <2>1, Zenon DEF ResampleLinear
  <2> HIDE DEF out
  <2>3. k \in 1 .. out
    BY DEF out
  <2> QED
    BY <2>1, <2>2, <2>3, Zenon DEF Weighted
<1> QED
  BY <1>4, <1>5, <1>6

\* resample_linear() invents no sample outside the range of the recording, and
\* keeps the order of one that rises.
THEOREM ResampleWithin ==
  ASSUME NEW s \in Seq(Int), NEW from \in Nat \ {0},
         NEW k \in 1 .. OutputLen(Len(s), from)
  PROVE  /\ ResampleLinear(s, from)[k] \in Int
         /\ \E m, n \in DOMAIN s : /\ s[m] <= ResampleLinear(s, from)[k]
                                   /\ ResampleLinear(s, from)[k] <= s[n]
<1> DEFINE left == LeftOf(k - 1, from) + 1
           right == RightOf(k - 1, from, Len(s)) + 1
           f == Frac(k - 1, from)
<1>1. /\ left \in DOMAIN s /\ right \in DOMAIN s
      /\ f \in 0 .. TargetRate - 1
      /\ ResampleLinear(s, from)[k] = Weighted(s[left], s[right], f) \div TargetRate
  BY ResampledSample
<1> HIDE DEF left, right, f
<1>2. s[left] \in Int /\ s[right] \in Int
  BY <1>1
<1>3. PICK v : v = ResampleLinear(s, from)[k]
  OBVIOUS
<1>4. /\ v \in Int
      /\ s[left] <= s[right] => s[left] <= v /\ v <= s[right]
      /\ s[right] <= s[left] => s[right] <= v /\ v <= s[left]
  <2>1. v = Weighted(s[left], s[right], f) \div TargetRate
    BY <1>1, <1>3, Zenon
  <2>2. f \in 0 .. TargetRate - 1
    BY <1>1, Zenon
  <2> QED
    BY <1>2, <2>1, <2>2, WeightedIsBetween
<1>5. \E m, n \in DOMAIN s : s[m] <= v /\ v <= s[n]
  <2>1. s[left] <= s[right] \/ s[right] <= s[left]
    BY <1>2
  <2> QED
    BY <1>1, <1>4, <2>1, Zenon
<1> QED
  BY <1>3, <1>4, <1>5, Zenon

\* resample_linear() makes a recording that rises from one that rises, whether two
\* samples of it fall between the same neighbours or not.
THEOREM ResampleRises ==
  ASSUME NEW s \in Seq(Int), NEW from \in Nat \ {0},
         Rises(s),
         NEW i \in 1 .. OutputLen(Len(s), from), NEW j \in 1 .. OutputLen(Len(s), from), i < j
  PROVE  ResampleLinear(s, from)[i] <= ResampleLinear(s, from)[j]
<1> DEFINE len == Len(s)
           T == TargetRate
           li == LeftOf(i - 1, from)
           lj == LeftOf(j - 1, from)
           ri == RightOf(i - 1, from, len)
           rj == RightOf(j - 1, from, len)
           fi == Frac(i - 1, from)
           fj == Frac(j - 1, from)
           vi == Weighted(s[li + 1], s[ri + 1], fi) \div T
           vj == Weighted(s[lj + 1], s[rj + 1], fj) \div T
<1>1. /\ li \in 0 .. len - 1 /\ ri \in 0 .. len - 1 /\ fi \in 0 .. T - 1
      /\ (i - 1) * from = T * li + fi
      /\ ResampleLinear(s, from)[i] = vi
  BY ResampledSample
<1>2. /\ lj \in 0 .. len - 1 /\ rj \in 0 .. len - 1 /\ fj \in 0 .. T - 1
      /\ (j - 1) * from = T * lj + fj
      /\ ResampleLinear(s, from)[j] = vj
  BY ResampledSample
<1>3. /\ ri = IF li + 1 < len THEN li + 1 ELSE len - 1
      /\ rj = IF lj + 1 < len THEN lj + 1 ELSE len - 1
  BY DEF RightOf
<1>4. T \in Nat \ {0} /\ len \in Nat /\ i \in Nat /\ j \in Nat
  BY TargetAssumption
<1> HIDE DEF vi, vj
<1>5. T * li + fi <= T * lj + fj
  <2>1. (i - 1) * from <= (j - 1) * from
    BY <1>4, SMTT(30)
  <2> QED
    BY <1>1, <1>2, <2>1
<1>6. \A n \in 0 .. len - 1 : s[n + 1] \in Int
  OBVIOUS
<1>7. \A m, n \in 0 .. len - 1 : m <= n => s[m + 1] <= s[n + 1]
  <2> SUFFICES ASSUME NEW m \in 0 .. len - 1, NEW n \in 0 .. len - 1, m <= n
               PROVE  s[m + 1] <= s[n + 1]
    OBVIOUS
  <2>1. m + 1 \in DOMAIN s /\ n + 1 \in DOMAIN s
    OBVIOUS
  <2>2. CASE m = n
    BY <1>6, <2>2
  <2>3. CASE m < n
    BY <2>1, <2>3 DEF Rises
  <2> QED
    BY <2>2, <2>3
<1> HIDE DEF len, li, lj, ri, rj, fi, fj, T
<1>8. li <= lj
  <2>1. li \in Int /\ lj \in Int /\ fi \in 0 .. T - 1 /\ fj \in 0 .. T - 1
    BY <1>1, <1>2
  <2> SUFFICES ASSUME lj + 1 <= li PROVE FALSE
    BY <2>1
  <2>2. PICK a, b : a = T * li /\ b = T * lj
    OBVIOUS
  <2>3. a \in Int /\ b \in Int /\ b + T <= a
    <3>1. T * (lj + 1) <= T * li /\ T * (lj + 1) = T * lj + T
      BY <1>4, <2>1, SMTT(30)
    <3> QED
      BY <1>4, <2>1, <2>2, <3>1, SMTT(30)
  <2>4. a + fi <= b + fj
    BY <1>5, <2>2
  <2> QED
    BY <1>4, <2>1, <2>3, <2>4
<1>9. /\ s[li + 1] \in Int /\ s[ri + 1] \in Int /\ s[lj + 1] \in Int /\ s[rj + 1] \in Int
      /\ s[li + 1] <= s[ri + 1] /\ s[lj + 1] <= s[rj + 1]
  <2>1. /\ li \in 0 .. len - 1 /\ ri \in 0 .. len - 1 /\ lj \in 0 .. len - 1
        /\ rj \in 0 .. len - 1
    BY <1>1, <1>2
  <2>2. li <= ri /\ lj <= rj
    BY <1>3, <1>4, <2>1
  <2> QED
    BY <1>6, <1>7, <2>1, <2>2, Zenon
<1>10. /\ vi \in Int /\ s[li + 1] <= vi /\ vi <= s[ri + 1]
       /\ vj \in Int /\ s[lj + 1] <= vj /\ vj <= s[rj + 1]
  BY <1>1, <1>2, <1>9, WeightedIsBetween DEF T, vi, vj
<1>11. CASE li = lj
  <2>1. ri = rj
    BY <1>3, <1>11
  <2>2. fi <= fj
    <3>1. T * li = T * lj /\ T * li \in Int
      BY <1>1, <1>4, <1>11, SMTT(30)
    <3> QED
      BY <1>1, <1>2, <1>5, <3>1
  <2>3. vi <= vj
    BY <1>1, <1>2, <1>9, <1>11, <2>1, <2>2, WeightedRises DEF T, vi, vj
  <2> QED
    BY <1>1, <1>2, <2>3
<1>12. CASE li < lj
  <2>1. ri = li + 1 /\ ri <= lj
    BY <1>1, <1>2, <1>3, <1>4, <1>12
  <2>2. s[ri + 1] <= s[lj + 1]
    BY <1>1, <1>2, <1>7, <2>1
  <2>3. s[li + 1] \in Int /\ s[ri + 1] \in Int /\ s[lj + 1] \in Int
    BY <1>9
  <2>4. vi <= vj
    BY <1>10, <2>2, <2>3
  <2> QED
    BY <1>1, <1>2, <2>4
<1> QED
  BY <1>1, <1>2, <1>8, <1>11, <1>12

\* Mixing down gives samples again.
LEMMA MonoIsSeq ==
  ASSUME NEW audio, audio.samples \in Seq(Int)
  PROVE  Mono(audio) \in Seq(Int)
<1>1. PICK s \in Seq(Int) : s = audio.samples
  OBVIOUS
<1>2. PICK len \in Nat : len = Len(s) /\ \A i \in 1 .. len : s[i] \in Int
  OBVIOUS
<1>3. PICK n \in Nat : n = len \div 2 /\ 2 * n <= len
  OBVIOUS
<1> DEFINE mean == [i \in 1 .. n |-> (s[2 * i - 1] + s[2 * i]) \div 2]
<1>4. ASSUME NEW i \in 1 .. n PROVE (s[2 * i - 1] + s[2 * i]) \div 2 \in Int
  <2>1. 2 * i - 1 \in 1 .. len /\ 2 * i \in 1 .. len
    BY <1>3
  <2>2. s[2 * i - 1] \in Int /\ s[2 * i] \in Int
    BY <1>2, <2>1
  <2> QED
    BY <2>2
<1>5. mean \in Seq(Int)
  BY <1>4
<1>6. CASE audio.channels = 2
  BY <1>1, <1>2, <1>3, <1>5, <1>6 DEF Mono
<1>7. CASE audio.channels # 2
  BY <1>7 DEF Mono
<1> QED
  BY <1>6, <1>7

\* Resampling gives samples again, as many as the rates say, or none.
LEMMA ResampleLinearIsSeq ==
  ASSUME NEW s \in Seq(Int), NEW from \in Nat
  PROVE  /\ ResampleLinear(s, from) \in Seq(Int)
         /\ from # 0 => DOMAIN ResampleLinear(s, from) = 1 .. OutputLen(Len(s), from)
<1>1. CASE from = 0
  BY <1>1 DEF ResampleLinear
<1>2. CASE from # 0
  <2> DEFINE out == OutputLen(Len(s), from)
             r == ResampleLinear(s, from)
  <2>1. out \in Nat
    <3>1. Len(s) * TargetRate \in Nat
      BY TargetAssumption, SMTT(30)
    <3> QED
      BY <1>2, <3>1, Floor DEF OutputLen
  <2>2. r = [k \in 1 .. out |-> r[k]]
    BY <1>2, Zenon DEF ResampleLinear
  <2>3. ASSUME NEW k \in 1 .. out PROVE r[k] \in Int
    BY <1>2, ResampleWithin
  <2> HIDE DEF out, r
  <2>4. r \in Seq(Int) /\ DOMAIN r = 1 .. out
    BY <2>1, <2>2, <2>3
  <2> QED
    BY <2>4 DEF out, r
<1> QED
  BY <1>1, <1>2

\* What goes on to the fixed length is within the recording, and rises with it.
LEMMA ResampledKeepsOrder ==
  ASSUME NEW audio, audio.samples \in Seq(Int), audio.sample_rate \in Nat
  PROVE  /\ Resampled(audio) \in Seq(Int)
         /\ Rises(Mono(audio)) => Rises(Resampled(audio))
         /\ \A k \in DOMAIN Resampled(audio) : \E m, n \in DOMAIN Mono(audio) :
              /\ Mono(audio)[m] <= Resampled(audio)[k]
              /\ Resampled(audio)[k] <= Mono(audio)[n]
<1>1. PICK s, from, r : s = Mono(audio) /\ from = audio.sample_rate /\ r = Resampled(audio)
  OBVIOUS
<1>2. s \in Seq(Int) /\ from \in Nat
  BY <1>1, MonoIsSeq
<1>3. CASE from = TargetRate
  <2>1. r = s
    BY <1>1, <1>3 DEF Resampled
  <2>2. \A k \in DOMAIN s : s[k] <= s[k]
    BY <1>2
  <2> QED
    BY <1>1, <1>2, <2>1, <2>2
<1>4. CASE from # TargetRate
  <2>1. r = ResampleLinear(s, from)
    BY <1>1, <1>4 DEF Resampled
  <2>2. CASE from = 0
    <3>1. r = << >>
      BY <2>1, <2>2 DEF ResampleLinear
    <3> QED
      BY <1>1, <3>1 DEF Rises
  <2>3. CASE from # 0
    <3>1. from \in Nat \ {0} /\ r \in Seq(Int) /\ DOMAIN r = 1 .. OutputLen(Len(s), from)
      BY <1>2, <2>1, <2>3, ResampleLinearIsSeq
    <3>2. ASSUME Rises(s) PROVE Rises(r)
      <4> SUFFICES ASSUME NEW i \in DOMAIN r, NEW j \in DOMAIN r, i < j PROVE r[i] <= r[j]
        BY DEF Rises
      <4> QED
        BY <1>2, <2>1, <3>1, <3>2, ResampleRises
    <3>3. ASSUME NEW k \in DOMAIN r PROVE \E m, n \in DOMAIN s : s[m] <= r[k] /\ r[k] <= s[n]
      BY <1>2, <2>1, <3>1, ResampleWithin
    <3> QED
      BY <1>1, <3>1, <3>2, <3>3
  <2> QED
    BY <2>2, <2>3
<1> QED
  BY <1>3, <1>4

\* The input of the audio model has the length of the configuration, whatever
\* was recorded; it is what was resampled, as far as that goes.
LEMMA AudioTensorIsFixed ==
  ASSUME NEW audio, audio.samples \in Seq(Int), audio.sample_rate \in Nat
  PROVE  /\ AudioTensor(audio).shape = << TargetLength >>
         /\ AudioTensor(audio).data \in Seq(Int)
         /\ Len(AudioTensor(audio).data) = TargetLength
         /\ \A k \in 1 .. TargetLength : k <= Len(Resampled(audio)) =>
              AudioTensor(audio).data[k] = Resampled(audio)[k]
<1>1. PICK r : r = Resampled(audio)
  OBVIOUS
<1>2. r \in Seq(Int) /\ TargetLength \in Nat
  BY <1>1, ResampledKeepsOrder, TargetAssumption
<1> DEFINE d == [k \in 1 .. TargetLength |-> IF k <= Len(r) THEN r[k] ELSE 0]
<1>3. ASSUME NEW k \in 1 .. TargetLength PROVE d[k] \in Int
  BY <1>2
<1>4. d \in Seq(Int) /\ Len(d) = TargetLength
  BY <1>2, <1>3
<1>5. \A k \in 1 .. TargetLength : k <= Len(r) => d[k] = r[k]
  OBVIOUS
<1>6. Normalize(r) = d
  BY DEF Normalize
<1> HIDE DEF d
<1>7. AudioTensor(audio) = [shape |-> << Len(d) >>, data |-> d]
  BY <1>1, <1>6 DEF AudioTensor
<1> QED
  BY <1>1, <1>4, <1>5, <1>7

-----------------------------------------------------------------------------
(* Detections. *)

DetectionTypes ==
  /\ boxes \in [Tasks -> Seq(Box)]
  /\ detections \in [Tasks -> SUBSET Nat]
  /\ kept \in [Tasks -> Seq(Nat)]
  /\ \A t \in Tasks :
       /\ detections[t] \subseteq Candidates(boxes[t])
       /\ \A n \in DOMAIN kept[t] : kept[t][n] \in Candidates(boxes[t])

\* What still waits comes after all that is kept, and overlaps none of it.
RestIsWorse ==
  \A t \in Tasks : \A n \in DOMAIN kept[t] : \A j \in detections[t] :
    /\ Before(boxes[t], kept[t][n], j)
    /\ ~Overlapping(boxes[t][kept[t][n]], boxes[t][j])

DetectionInv == DetectionTypes /\ RestIsWorse /\ KeptApart /\ LostToBetter

\* The invariant holds before any task has begun (nms() has no state of its own).
LEMMA NoneDetected == NoDetections => DetectionInv
  BY DEF NoDetections, DetectionInv, DetectionTypes, RestIsWorse, KeptApart,
         LostToBetter, Candidates

\* A task begins with all its candidates and nothing kept (lines 86-110).
LEMMA ThresholdPreserves ==
  ASSUME DetectionInv, NEW t \in Tasks, NEW bs \in Seq(Box), Threshold(t, bs)
  PROVE  DetectionInv'
<1> USE DEF Threshold, DetectionInv
<1>1. /\ boxes'[t] = bs /\ detections'[t] = Candidates(bs) /\ kept'[t] = << >>
      /\ \A u \in Tasks \ {t} : /\ boxes'[u] = boxes[u] /\ kept'[u] = kept[u]
                                /\ detections'[u] = detections[u]
  BY DEF DetectionTypes
<1>2. Candidates(bs) \subseteq DOMAIN bs /\ DOMAIN bs \subseteq Nat
  BY DEF Candidates
<1>3. DetectionTypes'
  <2>1. boxes' \in [Tasks -> Seq(Box)] /\ kept' \in [Tasks -> Seq(Nat)]
    BY DEF DetectionTypes
  <2>2. detections' \in [Tasks -> SUBSET Nat]
    BY <1>2 DEF DetectionTypes
  <2>3. ASSUME NEW u \in Tasks
        PROVE  /\ detections'[u] \subseteq Candidates(boxes'[u])
               /\ \A n \in DOMAIN kept'[u] : kept'[u][n] \in Candidates(boxes'[u])
    BY <1>1 DEF DetectionTypes
  <2> QED
    BY <2>1, <2>2, <2>3 DEF DetectionTypes
<1>4. RestIsWorse'
  BY <1>1 DEF RestIsWorse
<1>5. KeptApart'
  BY <1>1 DEF KeptApart
<1>6. LostToBetter'
  <2> SUFFICES ASSUME NEW u \in Tasks, NEW i \in Candidates(boxes'[u])
               PROVE  \/ i \in detections'[u]
                      \/ \E n \in DOMAIN kept'[u] :
                           \/ kept'[u][n] = i
                           \/ /\ Before(boxes'[u], kept'[u][n], i)
                              /\ Overlapping(boxes'[u][kept'[u][n]], boxes'[u][i])
    BY DEF LostToBetter
  <2>1. CASE u = t
    BY <2>1, <1>1
  <2>2. CASE u # t
    BY <2>2, <1>1 DEF LostToBetter
  <2> QED
    BY <2>1, <2>2
<1> QED
  BY <1>3, <1>4, <1>5, <1>6

\* One turn of the loop keeps the first detection and drops what overlaps it
\* (lines 129-134).
LEMMA KeepBestPreserves ==
  ASSUME DetectionInv, NEW t \in Tasks, KeepBest(t)
  PROVE  DetectionInv'
<1> USE DEF DetectionInv
<1>1. PICK i \in detections[t] :
        /\ IsFirst(t, i)
        /\ kept' = [kept EXCEPT ![t] = Append(@, i)]
        /\ detections' = [detections EXCEPT ![t] =
             {j \in @ \ {i} : ~Overlapping(boxes[t][i], boxes[t][j])}]
        /\ boxes' = boxes
  BY DEF KeepBest
<1>2. /\ kept'[t] = Append(kept[t], i) /\ kept[t] \in Seq(Nat) /\ i \in Nat
      /\ detections'[t] = {j \in detections[t] \ {i} : ~Overlapping(boxes[t][i], boxes[t][j])}
      /\ \A u \in Tasks \ {t} : kept'[u] = kept[u] /\ detections'[u] = detections[u]
  BY <1>1 DEF DetectionTypes
<1>3. /\ DOMAIN kept'[t] = DOMAIN kept[t] \cup {Len(kept[t]) + 1}
      /\ kept'[t][Len(kept[t]) + 1] = i
      /\ \A n \in DOMAIN kept[t] : kept'[t][n] = kept[t][n] /\ n < Len(kept[t]) + 1
      /\ \A m, n \in DOMAIN kept'[t] : m < n => m \in DOMAIN kept[t]
  BY <1>2
<1>4. \A j \in detections[t] \ {i} : Before(boxes[t], i, j)
  BY <1>1 DEF IsFirst
<1>5. DetectionTypes'
  <2>1. boxes' \in [Tasks -> Seq(Box)]
    BY <1>1 DEF DetectionTypes
  <2>2. kept' \in [Tasks -> Seq(Nat)]
    BY <1>1, <1>2 DEF DetectionTypes
  <2>3. detections' \in [Tasks -> SUBSET Nat]
    BY <1>1 DEF DetectionTypes
  <2>4. ASSUME NEW u \in Tasks
        PROVE  /\ detections'[u] \subseteq Candidates(boxes'[u])
               /\ \A n \in DOMAIN kept'[u] : kept'[u][n] \in Candidates(boxes'[u])
    <3>1. boxes'[u] = boxes[u]
      BY <1>1
    <3>2. CASE u # t
      BY <1>2, <3>1, <3>2 DEF DetectionTypes
    <3>3. CASE u = t
      BY <1>2, <1>3, <3>1, <3>3 DEF DetectionTypes
    <3> QED
      BY <3>2, <3>3
  <2> QED
    BY <2>1, <2>2, <2>3, <2>4 DEF DetectionTypes
<1>6. RestIsWorse'
  <2> SUFFICES ASSUME NEW u \in Tasks, NEW n \in DOMAIN kept'[u], NEW j \in detections'[u]
               PROVE  /\ Before(boxes'[u], kept'[u][n], j)
                      /\ ~Overlapping(boxes'[u][kept'[u][n]], boxes'[u][j])
    BY DEF RestIsWorse
  <2>1. CASE u # t
    BY <2>1, <1>1, <1>2 DEF RestIsWorse
  <2>2. CASE u = t /\ n \in DOMAIN kept[t]
    BY <2>2, <1>1, <1>2, <1>3 DEF RestIsWorse
  <2>3. CASE u = t /\ n = Len(kept[t]) + 1
    BY <2>3, <1>1, <1>2, <1>3, <1>4
  <2> QED
    BY <2>1, <2>2, <2>3, <1>3
<1>7. KeptApart'
  <2> SUFFICES ASSUME NEW u \in Tasks, NEW m \in DOMAIN kept'[u], NEW n \in DOMAIN kept'[u],
                      m < n
               PROVE  /\ Before(boxes'[u], kept'[u][m], kept'[u][n])
                      /\ ~Overlapping(boxes'[u][kept'[u][m]], boxes'[u][kept'[u][n]])
    BY DEF KeptApart
  <2>1. CASE u # t
    BY <2>1, <1>1, <1>2 DEF KeptApart
  <2>2. CASE u = t /\ n \in DOMAIN kept[t]
    BY <2>2, <1>1, <1>3 DEF KeptApart
  <2>3. CASE u = t /\ n = Len(kept[t]) + 1
    BY <2>3, <1>1, <1>3 DEF RestIsWorse
  <2> QED
    BY <2>1, <2>2, <2>3, <1>3
<1>8. LostToBetter'
  <2> SUFFICES ASSUME NEW u \in Tasks, NEW k \in Candidates(boxes[u])
               PROVE  \/ k \in detections'[u]
                      \/ \E n \in DOMAIN kept'[u] :
                           \/ kept'[u][n] = k
                           \/ /\ Before(boxes[u], kept'[u][n], k)
                              /\ Overlapping(boxes[u][kept'[u][n]], boxes[u][k])
    BY <1>1 DEF LostToBetter
  <2>1. CASE u # t
    BY <2>1, <1>2 DEF LostToBetter
  <2>2. CASE u = t /\ k \in detections[t]
    BY <2>2, <1>2, <1>3, <1>4
  <2>3. CASE u = t /\ k \notin detections[t]
    <3>1. PICK n \in DOMAIN kept[t] :
            \/ kept[t][n] = k
            \/ /\ Before(boxes[t], kept[t][n], k)
               /\ Overlapping(boxes[t][kept[t][n]], boxes[t][k])
      BY <2>3 DEF LostToBetter
    <3>2. n \in DOMAIN kept'[t] /\ kept'[t][n] = kept[t][n]
      BY <1>3
    <3> QED
      BY <2>3, <3>1, <3>2
  <2> QED
    BY <2>1, <2>2, <2>3
<1> QED
  BY <1>5, <1>6, <1>7, <1>8

\* Every step of every task preserves the invariant.
LEMMA DetectionInvStep == DetectionInv /\ [DetectionNext]_detectionVars => DetectionInv'
<1> SUFFICES ASSUME DetectionInv, [DetectionNext]_detectionVars PROVE DetectionInv'
  OBVIOUS
<1>1. ASSUME NEW t \in Tasks, NEW bs \in Seq(Box), Threshold(t, bs) PROVE DetectionInv'
  BY <1>1, ThresholdPreserves
<1>2. ASSUME NEW t \in Tasks, KeepBest(t) PROVE DetectionInv'
  BY <1>2, KeepBestPreserves
<1>3. CASE UNCHANGED detectionVars
  BY <1>3 DEF detectionVars, DetectionInv, DetectionTypes, RestIsWorse, KeptApart,
              LostToBetter, Candidates
<1> QED
  BY <1>1, <1>2, <1>3 DEF DetectionNext

\* However the tasks of nms() interleave, what waits is worse than what is kept.
THEOREM DetectionInvariance == DetectionSpec => []DetectionInv
  BY NoneDetected, DetectionInvStep, PTL DEF DetectionSpec

\* The boxes of an answer are far enough apart and come best first.
THEOREM KeptApartHolds == DetectionSpec => []KeptApart
<1>1. DetectionInv => KeptApart
  BY DEF DetectionInv
<1> QED
  BY <1>1, DetectionInvariance, PTL

\* A detection is lost only to a better one that it overlaps and that is kept.
THEOREM LostToBetterHolds == DetectionSpec => []LostToBetter
<1>1. DetectionInv => LostToBetter
  BY DEF DetectionInv
<1> QED
  BY <1>1, DetectionInvariance, PTL

-----------------------------------------------------------------------------
(* The areas that compute_iou() compares. *)

\* An interval has as many cells as its extent.
LEMMA IntervalCells ==
  ASSUME NEW low \in Int, NEW high \in Int
  PROVE  /\ IsFiniteSet(low .. high - 1)
         /\ Cardinality(low .. high - 1) = Extent(low, high)
         /\ Extent(low, high) \in Nat
<1>1. high - 1 \in Int
  OBVIOUS
<1>2. /\ IsFiniteSet(low .. high - 1)
      /\ Cardinality(low .. high - 1) = IF low > high - 1 THEN 0 ELSE (high - 1) - low + 1
  BY <1>1, FS_Interval
<1>3. Extent(low, high) = IF low > high - 1 THEN 0 ELSE (high - 1) - low + 1
  BY DEF Extent, Larger
<1>4. Extent(low, high) \in Nat
  BY DEF Extent, Larger
<1> QED
  BY <1>2, <1>3, <1>4

\* A rectangle has as many cells as the product of its extents.
LEMMA RectangleCells ==
  ASSUME NEW x1 \in Int, NEW x2 \in Int, NEW y1 \in Int, NEW y2 \in Int,
         NEW cells, cells = (x1 .. x2 - 1) \X (y1 .. y2 - 1)
  PROVE  /\ IsFiniteSet(cells)
         /\ Cardinality(cells) = Extent(x1, x2) * Extent(y1, y2)
         /\ Extent(x1, x2) * Extent(y1, y2) \in Nat
<1>1. /\ IsFiniteSet(x1 .. x2 - 1) /\ IsFiniteSet(y1 .. y2 - 1)
      /\ Cardinality(x1 .. x2 - 1) = Extent(x1, x2) /\ Extent(x1, x2) \in Nat
      /\ Cardinality(y1 .. y2 - 1) = Extent(y1, y2) /\ Extent(y1, y2) \in Nat
  BY IntervalCells
<1>2. PICK S : S = x1 .. x2 - 1
  OBVIOUS
<1>3. PICK T : T = y1 .. y2 - 1
  OBVIOUS
<1>4. IsFiniteSet(S \X T) /\ Cardinality(S \X T) = Cardinality(S) * Cardinality(T)
  <2>1. IsFiniteSet(S) /\ IsFiniteSet(T)
    BY <1>1, <1>2, <1>3
  <2> QED
    BY <2>1, FS_Product
<1>5. Extent(x1, x2) * Extent(y1, y2) \in Nat
  BY <1>1, SMTT(30)
<1> QED
  BY <1>1, <1>2, <1>3, <1>4, <1>5, Zenon

\* The area of a box is the number of its cells.
LEMMA CellsOfBox ==
  ASSUME NEW b \in Box
  PROVE  IsFiniteSet(Cells(b)) /\ Cardinality(Cells(b)) = Area(b) /\ Area(b) \in Nat
<1>1. b.x1 \in Int /\ b.x2 \in Int /\ b.y1 \in Int /\ b.y2 \in Int
  BY DEF Box
<1>2. Cells(b) = (b.x1 .. b.x2 - 1) \X (b.y1 .. b.y2 - 1)
  BY DEF Cells
<1>3. Area(b) = Extent(b.x1, b.x2) * Extent(b.y1, b.y2)
  BY DEF Area
<1> QED
  BY <1>1, <1>2, <1>3, RectangleCells

\* The cells of two rectangles in common are those of the rectangle between the
\* larger of the lower and the smaller of the upper bounds.
LEMMA CommonCells ==
  ASSUME NEW a \in Box, NEW b \in Box
  PROVE  Cells(a) \cap Cells(b) =
           (Larger(a.x1, b.x1) .. Smaller(a.x2, b.x2) - 1)
             \X (Larger(a.y1, b.y1) .. Smaller(a.y2, b.y2) - 1)
<1>1. /\ a.x1 \in Int /\ a.x2 \in Int /\ a.y1 \in Int /\ a.y2 \in Int
      /\ b.x1 \in Int /\ b.x2 \in Int /\ b.y1 \in Int /\ b.y2 \in Int
  BY DEF Box
<1>2. ASSUME NEW p \in Int, NEW q \in Int, NEW r \in Int, NEW s \in Int
      PROVE  (p .. q - 1) \cap (r .. s - 1) = Larger(p, r) .. Smaller(q, s) - 1
  BY DEF Larger, Smaller
<1>3. \A A, B, C, D : (A \X B) \cap (C \X D) = (A \cap C) \X (B \cap D)
  OBVIOUS
<1>4. /\ (a.x1 .. a.x2 - 1) \cap (b.x1 .. b.x2 - 1)
            = Larger(a.x1, b.x1) .. Smaller(a.x2, b.x2) - 1
      /\ (a.y1 .. a.y2 - 1) \cap (b.y1 .. b.y2 - 1)
            = Larger(a.y1, b.y1) .. Smaller(a.y2, b.y2) - 1
  BY <1>1, <1>2
<1> QED
  BY <1>3, <1>4, Zenon DEF Cells

\* compute_iou() is right about any two boxes, the empty ones included.
LEMMA OverlapComparesAreas ==
  ASSUME NEW a \in Box, NEW b \in Box
  PROVE  Overlapping(a, b)
           <=> 20 * Cardinality(Cells(a) \cap Cells(b)) > 9 * Cardinality(Cells(a) \cup Cells(b))
<1> DEFINE inter == Extent(Larger(a.x1, b.x1), Smaller(a.x2, b.x2))
                      * Extent(Larger(a.y1, b.y1), Smaller(a.y2, b.y2))
<1>1. /\ a.x1 \in Int /\ a.x2 \in Int /\ a.y1 \in Int /\ a.y2 \in Int
      /\ b.x1 \in Int /\ b.x2 \in Int /\ b.y1 \in Int /\ b.y2 \in Int
  BY DEF Box
<1>2. /\ Larger(a.x1, b.x1) \in Int /\ Smaller(a.x2, b.x2) \in Int
      /\ Larger(a.y1, b.y1) \in Int /\ Smaller(a.y2, b.y2) \in Int
  BY <1>1 DEF Larger, Smaller
<1>3. Cardinality(Cells(a) \cap Cells(b)) = inter /\ inter \in Nat
  <2>1. PICK x1, x2, y1, y2 :
          /\ x1 = Larger(a.x1, b.x1) /\ x2 = Smaller(a.x2, b.x2)
          /\ y1 = Larger(a.y1, b.y1) /\ y2 = Smaller(a.y2, b.y2)
    OBVIOUS
  <2>2. x1 \in Int /\ x2 \in Int /\ y1 \in Int /\ y2 \in Int
    BY <1>2, <2>1
  <2>3. Cells(a) \cap Cells(b) = (x1 .. x2 - 1) \X (y1 .. y2 - 1)
    BY <2>1, CommonCells, Zenon
  <2>4. inter = Extent(x1, x2) * Extent(y1, y2)
    BY <2>1, Zenon
  <2>5. PICK cells : cells = Cells(a) \cap Cells(b)
    OBVIOUS
  <2>6. cells = (x1 .. x2 - 1) \X (y1 .. y2 - 1)
    BY <2>3, <2>5, Zenon
  <2>7. Cardinality(cells) = Extent(x1, x2) * Extent(y1, y2)
        /\ Extent(x1, x2) * Extent(y1, y2) \in Nat
    BY <2>2, <2>6, RectangleCells
  <2> QED
    BY <2>4, <2>5, <2>7, Zenon
<1>4. /\ IsFiniteSet(Cells(a)) /\ Cardinality(Cells(a)) = Area(a) /\ Area(a) \in Nat
      /\ IsFiniteSet(Cells(b)) /\ Cardinality(Cells(b)) = Area(b) /\ Area(b) \in Nat
  BY CellsOfBox
<1>5. Cardinality(Cells(a) \cup Cells(b)) =
        Cardinality(Cells(a)) + Cardinality(Cells(b)) - Cardinality(Cells(a) \cap Cells(b))
  BY <1>4, FS_Union
<1>6. Overlapping(a, b) <=> 20 * inter > 9 * (Area(a) + Area(b) - inter)
  BY DEF Overlapping
<1> HIDE DEF inter
<1> QED
  BY <1>3, <1>4, <1>5, <1>6

\* The invariant says enough of the boxes for compute_iou() to compare areas.
LEMMA AreasCompared == DetectionInv => OverlapIsOfAreas
<1> SUFFICES ASSUME DetectionInv, NEW t \in Tasks, NEW i \in DOMAIN boxes[t],
                    NEW j \in DOMAIN boxes[t]
             PROVE  Overlapping(boxes[t][i], boxes[t][j])
                      <=> 20 * Cardinality(Cells(boxes[t][i]) \cap Cells(boxes[t][j]))
                            > 9 * Cardinality(Cells(boxes[t][i]) \cup Cells(boxes[t][j]))
  BY DEF OverlapIsOfAreas
<1>1. boxes[t][i] \in Box /\ boxes[t][j] \in Box
  BY DEF DetectionInv, DetectionTypes
<1> QED
  BY <1>1, OverlapComparesAreas

\* Whatever the boxes of the tasks, compute_iou() compares areas.
THEOREM OverlapIsOfAreasHolds == DetectionSpec => []OverlapIsOfAreas
  BY AreasCompared, DetectionInvariance, PTL

-----------------------------------------------------------------------------
(* What nms() computes is determined by the boxes, however the tasks run. *)

\* sort_by() has a strict total order: the index decides between equals.
LEMMA BeforeIsStrictOrder ==
  ASSUME NEW bs \in Seq(Box), NEW i \in DOMAIN bs, NEW j \in DOMAIN bs
  PROVE  /\ ~(Before(bs, i, j) /\ Before(bs, j, i))
         /\ i # j => Before(bs, i, j) \/ Before(bs, j, i)
         /\ \A k \in DOMAIN bs : Before(bs, i, j) /\ Before(bs, j, k) => Before(bs, i, k)
<1>1. ASSUME NEW k \in DOMAIN bs PROVE bs[k].confidence \in Int /\ k \in Nat
  <2>1. bs[k] \in Box /\ k \in Nat
    OBVIOUS
  <2> QED
    BY <2>1 DEF Box
<1> QED
  BY <1>1 DEF Before

\* Among some boxes there is a best one.
LEMMA BestExists ==
  ASSUME NEW bs \in Seq(Box), NEW D \in SUBSET DOMAIN bs, D # {}
  PROVE  \E i \in D : \A j \in D \ {i} : Before(bs, i, j)
<1> DEFINE HasBest(S) == \E i \in S : \A j \in S \ {i} : Before(bs, i, j)
           T == {n \in Nat : \A S \in SUBSET DOMAIN bs :
                   S \subseteq 1 .. n /\ S # {} => HasBest(S)}
<1>1. 0 \in T
  OBVIOUS
<1>2. ASSUME NEW n \in Nat, n \in T PROVE n + 1 \in T
  <2> SUFFICES ASSUME NEW S \in SUBSET DOMAIN bs, S \subseteq 1 .. n + 1, S # {}
               PROVE  HasBest(S)
    OBVIOUS
  <2> DEFINE R == S \ {n + 1}
  <2>1. R \subseteq 1 .. n /\ R \in SUBSET DOMAIN bs
    OBVIOUS
  <2>2. CASE R = {}
    <3>1. S = {n + 1}
      BY <2>2
    <3> QED
      BY <3>1
  <2>3. CASE R # {} /\ n + 1 \notin S
    <3>1. R = S
      BY <2>3
    <3> QED
      BY <1>2, <2>1, <2>3, <3>1
  <2>4. CASE R # {} /\ n + 1 \in S
    <3>1. PICK i \in R : \A j \in R \ {i} : Before(bs, i, j)
      BY <1>2, <2>1, <2>4
    <3>2. i \in DOMAIN bs /\ n + 1 \in DOMAIN bs /\ i # n + 1 /\ i \in S
      BY <2>4
    <3>3. CASE Before(bs, i, n + 1)
      <4>1. \A j \in S \ {i} : Before(bs, i, j)
        BY <3>1, <3>3
      <4> QED
        BY <3>2, <4>1
    <3>4. CASE Before(bs, n + 1, i)
      <4>1. ASSUME NEW j \in S \ {n + 1} PROVE Before(bs, n + 1, j)
        <5>1. j \in R /\ j \in DOMAIN bs
          OBVIOUS
        <5>2. CASE j = i
          BY <3>4, <5>2
        <5>3. CASE j # i
          BY <3>1, <3>2, <3>4, <5>1, <5>3, BeforeIsStrictOrder
        <5> QED
          BY <5>2, <5>3
      <4> QED
        BY <2>4, <4>1
    <3> QED
      BY <3>2, <3>3, <3>4, BeforeIsStrictOrder
  <2> QED
    BY <2>2, <2>3, <2>4
<1> HIDE DEF T
<1>3. Nat \subseteq T
  BY <1>1, <1>2, NatInSet
<1>4. Len(bs) \in T /\ D \subseteq 1 .. Len(bs)
  BY <1>3
<1> QED
  BY <1>4 DEF T

InBestOrder(bs, s) == \A m, n \in DOMAIN s : m < n => Before(bs, s[m], s[n])
IsAmong(a, b) == \A m \in DOMAIN a : \E n \in DOMAIN b : b[n] = a[m]

\* Two lists of the same boxes that are best first begin alike.
LEMMA SortedAlike ==
  ASSUME NEW bs \in Seq(Box), NEW a \in Seq(DOMAIN bs), NEW b \in Seq(DOMAIN bs),
         InBestOrder(bs, a), InBestOrder(bs, b), IsAmong(a, b), IsAmong(b, a)
  PROVE  \A n \in DOMAIN a : n \in DOMAIN b /\ b[n] = a[n]
<1> DEFINE Alike(n) == n \in DOMAIN a => n \in DOMAIN b /\ b[n] = a[n]
           T == {n \in Nat : \A m \in 1 .. n : Alike(m)}
<1>0. /\ DOMAIN a = 1 .. Len(a) /\ DOMAIN b = 1 .. Len(b) /\ Len(a) \in Nat /\ Len(b) \in Nat
      /\ \A n \in DOMAIN a : a[n] \in DOMAIN bs
      /\ \A n \in DOMAIN b : b[n] \in DOMAIN bs
  OBVIOUS
<1>1. 0 \in T
  OBVIOUS
<1>2. ASSUME NEW n \in Nat, n \in T PROVE n + 1 \in T
  <2>0. \A m \in 1 .. n : m \in DOMAIN a => m \in DOMAIN b /\ b[m] = a[m]
    BY <1>2
  <2> HIDE DEF T
  <2>1. ASSUME n + 1 \in DOMAIN a PROVE n + 1 \in DOMAIN b /\ b[n + 1] = a[n + 1]
    <3>1. PICK p \in DOMAIN b : b[p] = a[n + 1]
      BY <2>1 DEF IsAmong
    <3>2. p > n
      <4> SUFFICES ASSUME p \in 1 .. n PROVE FALSE
        BY <1>0
      <4>0. p \in 1 .. Len(a) /\ p < n + 1
        <5>1. n + 1 \in 1 .. Len(a) /\ Len(a) \in Nat
          BY <1>0, <2>1, Zenon
        <5> QED
          BY <5>1
      <4>1. p \in DOMAIN a /\ p < n + 1 /\ b[p] = a[p]
        BY <1>0, <2>0, <4>0
      <4>2. Before(bs, a[p], a[n + 1]) /\ a[p] = a[n + 1]
        BY <2>1, <3>1, <4>1 DEF InBestOrder
      <4> QED
        BY <1>0, <2>1, <4>2, BeforeIsStrictOrder
    <3>3. n + 1 \in DOMAIN b
      BY <1>0, <3>2
    <3>4. CASE p = n + 1
      BY <3>1, <3>3, <3>4
    <3>5. CASE p # n + 1
      <4>1. Before(bs, b[n + 1], a[n + 1])
        <5>1. n + 1 < p
          BY <1>0, <3>2, <3>5
        <5>2. Before(bs, b[n + 1], b[p])
          BY <3>3, <5>1 DEF InBestOrder
        <5> QED
          BY <3>1, <5>2
      <4>2. PICK q \in DOMAIN a : a[q] = b[n + 1]
        BY <3>3 DEF IsAmong
      <4>3. q > n
        <5> SUFFICES ASSUME q \in 1 .. n PROVE FALSE
          BY <1>0
        <5>1. q \in DOMAIN b /\ q < n + 1 /\ b[q] = a[q]
          BY <1>0, <2>0
        <5>2. Before(bs, b[q], b[n + 1]) /\ b[q] = b[n + 1]
          BY <3>3, <4>2, <5>1 DEF InBestOrder
        <5> QED
          BY <1>0, <3>3, <5>2, BeforeIsStrictOrder
      <4>4. CASE q = n + 1
        BY <1>0, <2>1, <4>1, <4>2, <4>4, BeforeIsStrictOrder
      <4>5. CASE q # n + 1
        <5>1. Before(bs, a[n + 1], b[n + 1])
          <6>1. n + 1 < q
            <7>1. q \in 1 .. Len(a) /\ Len(a) \in Nat
              BY <1>0, Zenon
            <7> QED
              BY <4>3, <4>5, <7>1
          <6>2. Before(bs, a[n + 1], a[q])
            BY <2>1, <6>1 DEF InBestOrder
          <6> QED
            BY <4>2, <6>2
        <5> QED
          BY <1>0, <2>1, <3>3, <4>1, <5>1, BeforeIsStrictOrder
      <4> QED
        BY <4>4, <4>5
    <3> QED
      BY <3>4, <3>5
  <2>2. \A m \in 1 .. n + 1 : m \in 1 .. n \/ m = n + 1
    OBVIOUS
  <2> QED
    BY <2>0, <2>1, <2>2 DEF T
<1> HIDE DEF T
<1>3. Nat \subseteq T
  BY <1>1, <1>2, NatInSet
<1>4. ASSUME NEW n \in DOMAIN a PROVE Alike(n)
  <2>1. n \in T /\ n \in 1 .. n
    BY <1>3
  <2> QED
    BY <2>1 DEF T
<1> QED
  BY <1>4

\* At most one list is what IsBestFirst() says.
THEOREM BestFirstIsUnique ==
  ASSUME NEW bs \in Seq(Box),
         NEW a \in Seq(Candidates(bs)), IsBestFirst(bs, a),
         NEW b \in Seq(Candidates(bs)), IsBestFirst(bs, b)
  PROVE  a = b
<1> DEFINE A == {a[n] : n \in DOMAIN a}
           B == {b[n] : n \in DOMAIN b}
<1>1. /\ a \in Seq(DOMAIN bs) /\ b \in Seq(DOMAIN bs)
      /\ A \subseteq Candidates(bs) /\ B \subseteq Candidates(bs)
      /\ Candidates(bs) \subseteq DOMAIN bs
  BY DEF Candidates
<1>2. /\ \A i \in Candidates(bs) :
           i \in A <=> ~\E j \in A : Before(bs, j, i) /\ Overlapping(bs[j], bs[i])
      /\ \A i \in Candidates(bs) :
           i \in B <=> ~\E j \in B : Before(bs, j, i) /\ Overlapping(bs[j], bs[i])
  <2>1. /\ \A i : i \in A <=> \E n \in DOMAIN a : a[n] = i
        /\ \A i : i \in B <=> \E n \in DOMAIN b : b[n] = i
    OBVIOUS
  <2>2. /\ \A i : (\E j \in A : Before(bs, j, i) /\ Overlapping(bs[j], bs[i]))
                 <=> \E n \in DOMAIN a : Before(bs, a[n], i) /\ Overlapping(bs[a[n]], bs[i])
        /\ \A i : (\E j \in B : Before(bs, j, i) /\ Overlapping(bs[j], bs[i]))
                 <=> \E n \in DOMAIN b : Before(bs, b[n], i) /\ Overlapping(bs[b[n]], bs[i])
    OBVIOUS
  <2> HIDE DEF A, B
  <2> QED
    BY <2>1, <2>2, Zenon DEF IsBestFirst
<1> HIDE DEF A, B
<1>3. A = B
  <2> DEFINE D == (A \ B) \cup (B \ A)
  <2> SUFFICES ASSUME D # {} PROVE FALSE
    OBVIOUS
  <2>1. PICK i \in D : \A j \in D \ {i} : Before(bs, i, j)
    <3>1. D \in SUBSET DOMAIN bs
      BY <1>1
    <3> HIDE DEF D
    <3> QED
      BY <3>1, BestExists
  <2>2. ASSUME NEW j \in D, Before(bs, j, i) PROVE FALSE
    <3>1. i \in DOMAIN bs /\ j \in DOMAIN bs
      BY <1>1
    <3> QED
      BY <2>1, <2>2, <3>1, BeforeIsStrictOrder
  <2>3. CASE i \in A /\ i \notin B
    <3>1. PICK j \in B : Before(bs, j, i) /\ Overlapping(bs[j], bs[i])
      BY <1>1, <1>2, <2>3
    <3>2. j \notin A
      BY <1>1, <1>2, <2>3, <3>1
    <3> QED
      BY <2>2, <3>1, <3>2
  <2>4. CASE i \in B /\ i \notin A
    <3>1. PICK j \in A : Before(bs, j, i) /\ Overlapping(bs[j], bs[i])
      BY <1>1, <1>2, <2>4
    <3>2. j \notin B
      BY <1>1, <1>2, <2>4, <3>1
    <3> QED
      BY <2>2, <3>1, <3>2
  <2> QED
    BY <2>3, <2>4
<1>4. IsAmong(a, b) /\ IsAmong(b, a)
  BY <1>3 DEF A, B, IsAmong
<1>5. InBestOrder(bs, a) /\ InBestOrder(bs, b)
  BY DEF IsBestFirst, InBestOrder
<1>6. /\ \A n \in DOMAIN a : n \in DOMAIN b /\ b[n] = a[n]
      /\ \A n \in DOMAIN b : n \in DOMAIN a /\ a[n] = b[n]
  BY <1>1, <1>4, <1>5, SortedAlike
<1>7. DOMAIN a = DOMAIN b
  BY <1>6
<1> QED
  BY <1>6, <1>7

\* A sorted list repeats nothing, so it is no longer than the set it is from.
LEMMA SortedIsShort ==
  ASSUME NEW bs \in Seq(Box), NEW s \in Seq(Candidates(bs)), InBestOrder(bs, s)
  PROVE  s \in SeqOf(Candidates(bs), Cardinality(Candidates(bs)))
<1> DEFINE C == Candidates(bs)
<1>1. C \subseteq DOMAIN bs /\ C \subseteq 1 .. Len(bs) /\ Len(bs) \in Nat
  BY DEF Candidates
<1>2. IsFiniteSet(C) /\ Cardinality(C) \in Nat
  <2>1. IsFiniteSet(1 .. Len(bs))
    BY <1>1, FS_Interval
  <2>2. IsFiniteSet(C)
    BY <1>1, <2>1, FS_Subset
  <2> QED
    BY <2>2, FS_CardinalityType
<1> HIDE DEF C
<1>3. s \in [1 .. Len(s) -> C] /\ Len(s) \in Nat /\ DOMAIN s = 1 .. Len(s)
  BY DEF C
<1>4. IsInjective(s)
  <2> SUFFICES ASSUME NEW m \in 1 .. Len(s), NEW n \in 1 .. Len(s), s[m] = s[n], m # n
               PROVE  FALSE
    BY <1>3 DEF IsInjective
  <2>1. s[m] \in DOMAIN bs /\ s[n] \in DOMAIN bs
    BY <1>1, <1>3
  <2>2. ~Before(bs, s[m], s[n]) /\ ~Before(bs, s[n], s[m])
    BY <2>1, BeforeIsStrictOrder
  <2>3. m < n \/ n < m
    OBVIOUS
  <2> QED
    BY <1>3, <2>2, <2>3 DEF InBestOrder
<1>5. Len(s) <= Cardinality(C)
  <2>1. s \in Injection(1 .. Len(s), C)
    BY <1>3, <1>4 DEF Injection
  <2>2. Cardinality(1 .. Len(s)) <= Cardinality(C)
    BY <1>2, <2>1, FS_Injection
  <2>3. Cardinality(1 .. Len(s)) = Len(s)
    <3>1. PICK len \in Nat : len = Len(s)
      BY <1>3
    <3>2. Cardinality(1 .. len) = IF 1 > len THEN 0 ELSE len - 1 + 1
      BY FS_Interval
    <3>3. Cardinality(1 .. len) = len
      BY <3>2
    <3> QED
      BY <3>1, <3>3, Zenon
  <2> QED
    BY <2>2, <2>3
<1>6. Len(s) \in 0 .. Cardinality(C)
  BY <1>2, <1>3, <1>5
<1> QED
  BY <1>3, <1>6 DEF SeqOf, C

\* The loop of nms() ends with the list that IsBestFirst() describes, and with
\* no other, whatever the other tasks did in between.
THEOREM LoopFindsBestFirst ==
  ASSUME DetectionInv, NEW t \in Tasks, detections[t] = {}
  PROVE  BestFirst(boxes[t]) = kept[t]
<1>1. PICK bs, s : bs = boxes[t] /\ s = kept[t]
  OBVIOUS
<1>2. bs \in Seq(Box) /\ s \in Seq(Candidates(bs))
  <2>1. s \in Seq(Nat) /\ \A n \in DOMAIN s : s[n] \in Candidates(bs)
    BY <1>1 DEF DetectionInv, DetectionTypes
  <2>2. bs \in Seq(Box)
    BY <1>1 DEF DetectionInv, DetectionTypes
  <2> QED
    BY <2>1, <2>2
<1>3. /\ InBestOrder(bs, s)
      /\ \A m, n \in DOMAIN s : m < n => ~Overlapping(bs[s[m]], bs[s[n]])
  BY <1>1 DEF DetectionInv, KeptApart, InBestOrder
<1>4. \A i \in Candidates(bs) : \E n \in DOMAIN s :
        s[n] = i \/ (Before(bs, s[n], i) /\ Overlapping(bs[s[n]], bs[i]))
  BY <1>1 DEF DetectionInv, LostToBetter
<1>5. IsBestFirst(bs, s)
  <2>1. ASSUME NEW m \in DOMAIN s, NEW n \in DOMAIN s,
               Before(bs, s[n], s[m]), Overlapping(bs[s[n]], bs[s[m]])
        PROVE  FALSE
    <3>1. s[m] \in DOMAIN bs /\ s[n] \in DOMAIN bs
      BY <1>2 DEF Candidates
    <3>2. ~Before(bs, s[m], s[n]) /\ s[m] # s[n]
      BY <1>2, <2>1, <3>1, BeforeIsStrictOrder
    <3>3. m \in Nat /\ n \in Nat /\ m # n
      BY <1>2, <3>2
    <3>4. m < n \/ n < m
      BY <3>3
    <3> QED
      BY <1>3, <2>1, <3>2, <3>4 DEF InBestOrder
  <2>2. ASSUME NEW i \in Candidates(bs)
        PROVE  (\E n \in DOMAIN s : s[n] = i)
                 <=> ~\E n \in DOMAIN s : Before(bs, s[n], i) /\ Overlapping(bs[s[n]], bs[i])
    BY <1>4, <2>1, <2>2, Zenon
  <2> QED
    BY <1>3, <2>2 DEF IsBestFirst, InBestOrder
<1>6. s \in SeqOf(Candidates(bs), Cardinality(Candidates(bs)))
  BY <1>2, <1>3, SortedIsShort
<1>7. PICK keep : keep = BestFirst(bs)
  OBVIOUS
<1>8. /\ keep \in SeqOf(Candidates(bs), Cardinality(Candidates(bs)))
      /\ IsBestFirst(bs, keep)
  BY <1>5, <1>6, <1>7 DEF BestFirst
<1>9. keep \in Seq(Candidates(bs))
  <2>1. PICK m \in 0 .. Cardinality(Candidates(bs)) : keep \in [1 .. m -> Candidates(bs)]
    BY <1>8 DEF SeqOf
  <2>2. Cardinality(Candidates(bs)) \in Nat
    <3>1. IsFiniteSet(1 .. Len(bs)) /\ Candidates(bs) \subseteq 1 .. Len(bs)
      BY <1>2, FS_Interval DEF Candidates
    <3> QED
      BY <3>1, FS_Subset, FS_CardinalityType
  <2>3. m \in Nat
    BY <2>1, <2>2
  <2> QED
    BY <2>1, <2>3
<1>10. keep = s
  BY <1>2, <1>5, <1>8, <1>9, BestFirstIsUnique
<1> QED
  BY <1>1, <1>7, <1>10

\* The loop of nms() ends: while detections wait one of them is the first, and each
\* turn leaves fewer of them, whatever the boxes are.
THEOREM LoopShrinks ==
  ASSUME DetectionInv, NEW t \in Tasks
  PROVE  /\ IsFiniteSet(detections[t])
         /\ detections[t] # {} => \E i \in detections[t] : IsFirst(t, i)
         /\ KeepBest(t) => Cardinality(detections'[t]) < Cardinality(detections[t])
<1>1. PICK bs, waiting : bs = boxes[t] /\ waiting = detections[t]
  OBVIOUS
<1>2. bs \in Seq(Box) /\ waiting \subseteq DOMAIN bs
  BY <1>1 DEF DetectionInv, DetectionTypes, Candidates
<1>3. IsFiniteSet(waiting)
  <2>1. IsFiniteSet(1 .. Len(bs)) /\ waiting \subseteq 1 .. Len(bs)
    BY <1>2, FS_Interval
  <2> QED
    BY <2>1, FS_Subset
<1>4. waiting # {} => \E i \in waiting : \A j \in waiting \ {i} : Before(bs, i, j)
  BY <1>2, BestExists
<1>5. ASSUME KeepBest(t) PROVE Cardinality(detections'[t]) < Cardinality(waiting)
  <2>1. PICK i \in waiting :
          detections' = [detections EXCEPT ![t] =
            {j \in @ \ {i} : ~Overlapping(boxes[t][i], boxes[t][j])}]
    BY <1>1, <1>5 DEF KeepBest
  <2>2. detections'[t] \subseteq waiting \ {i}
    BY <1>1, <2>1 DEF DetectionInv, DetectionTypes
  <2>3. /\ IsFiniteSet(waiting \ {i}) /\ Cardinality(waiting \ {i}) = Cardinality(waiting) - 1
        /\ Cardinality(waiting) \in Nat
    BY <1>3, FS_RemoveElement, FS_CardinalityType
  <2>4. /\ Cardinality(detections'[t]) <= Cardinality(waiting \ {i})
        /\ Cardinality(detections'[t]) \in Nat
    BY <2>2, <2>3, FS_Subset, FS_CardinalityType
  <2> QED
    BY <2>3, <2>4
<1> QED
  BY <1>1, <1>3, <1>4, <1>5 DEF IsFirst
=============================================================================
