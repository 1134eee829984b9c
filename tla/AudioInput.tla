----------------------------- MODULE AudioInput -----------------------------
(***************************************************************************)
(* The input of examples/audio_processing.rs: a WAV file is scaled to full *)
(* scale 1, mixed down, resampled and brought to a fixed length.  Samples  *)
(* are integers in units of 1/Unit, so that the mean of two channels and   *)
(* the interpolation between two samples are exact.                        *)
(***************************************************************************)
EXTENDS Tensors

CONSTANTS
  TargetRate,   \* target_sample_rate
  TargetLength  \* target_length

ASSUME TargetAssumption == TargetRate \in Nat \ {0} /\ TargetLength \in Nat

Unit == 2 * TargetRate

\* 1 << (bits - 1) is an i32: with 32 bits it is the smallest one, and negative.
MaxValSign(wav) == IF wav.format = "int" /\ wav.bits = 32 THEN -1 ELSE 1

\* wav.samples are parts of the full scale.
FromWav(wav) ==
  [type |-> "audio",
   samples |-> [i \in DOMAIN wav.samples |-> MaxValSign(wav) * Unit * wav.samples[i]],
   sample_rate |-> wav.rate, channels |-> wav.channels]

\* chunks_exact(2) leaves out a last sample without a partner.
Mono(audio) ==
  IF audio.channels = 2
    THEN [i \in 1 .. Len(audio.samples) \div 2 |->
            (audio.samples[2 * i - 1] + audio.samples[2 * i]) \div 2]
    ELSE audio.samples

\* A rate of 0 asks for usize::MAX samples: the collect() panics, and
\* spawn_blocking turns the panic into an error.
ResampleFails(audio) == audio.sample_rate = 0 /\ Mono(audio) # << >>

OutputLen(len, from) == (len * TargetRate) \div from

\* The sample to the left of output sample i, counted from 0, as the one to the
\* right of it, and TargetRate times the distance to the left one.
LeftOf(i, from) == (i * from) \div TargetRate
RightOf(i, from, len) ==
  IF LeftOf(i, from) + 1 < len THEN LeftOf(i, from) + 1 ELSE len - 1

\* Slip: the weights of the two samples are swapped.
FracOfLeft(i, from) == TargetRate - ((i * from) % TargetRate)

Frac(i, from) == (i * from) % TargetRate

ResampleLinear(s, from) ==
  IF from = 0 THEN << >>
  ELSE [k \in 1 .. OutputLen(Len(s), from) |->
          IF LeftOf(k - 1, from) < Len(s)
            THEN (s[LeftOf(k - 1, from) + 1] * (TargetRate - Frac(k - 1, from))
                  + s[RightOf(k - 1, from, Len(s)) + 1] * Frac(k - 1, from))
                 \div TargetRate
            ELSE 0]

\* Slip: the samples are cut at the target length and never padded.
NormalizeCut(s) ==
  SubSeq(s, 1, IF Len(s) < TargetLength THEN Len(s) ELSE TargetLength)

Normalize(s) ==
  [k \in 1 .. TargetLength |-> IF k <= Len(s) THEN s[k] ELSE 0]

Resampled(audio) ==
  IF audio.sample_rate = TargetRate THEN Mono(audio)
                                    ELSE ResampleLinear(Mono(audio), audio.sample_rate)

\* Slip: what was resampled goes on as it is.
AudioTensorAsIs(audio) ==
  [shape |-> << TargetLength >>, data |-> Resampled(audio)]

AudioTensor(audio) ==
  LET normalized == Normalize(Resampled(audio))
  IN  [shape |-> << Len(normalized) >>, data |-> normalized]
-----------------------------------------------------------------------------
Rises(s) == \A m, n \in DOMAIN s : m < n => s[m] <= s[n]
=============================================================================
