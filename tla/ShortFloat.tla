------------------------------ MODULE ShortFloat ------------------------------
(***************************************************************************)
(* The 16-bit floats of onnxruntime_float16.h, Float16 and BFloat16: how a *)
(* tensor element is made from a float and read back.                      *)
(*                                                                         *)
(* Values of 16 bits and floats are their bits without the sign, which     *)
(* both conversions copy: below SIGN and below 2^31.                       *)
(***************************************************************************)
EXTENDS Integers

SIGN == 32768

\* kPositiveInfinityBits of the two formats.
HALF_INF == 31744
BRAIN_INF == 32640

\* A power of two as the exponent of a float, "e << 23".
Exponent(e) == e * 8388608

FLOAT_INF == Exponent(255)

\* What one step of a 16-bit value is worth in the bits of a float, for the
\* normal values of the first format and for all of the second; and half of
\* it less one, which the rounding adds ("0xfff", kRoundToNearest).
HALF_STEP == 8192
HALF_BIAS == 4095
BRAIN_STEP == 65536
BRAIN_BIAS == 32767

-----------------------------------------------------------------------------
(***************************************************************************)
(* Float16Impl.                                                            *)
(***************************************************************************)

\* What the processor's addition does with the bits that do not fit.
RoundHalfEven(n, d) ==
  LET q == n \div d
      r == n % d
  IN  IF 2 * r > d \/ (2 * r = d /\ (q % 2) = 1) THEN q + 1 ELSE q

\* "f.f += denorm_magic.f": the magic is 0.5, whose last bit weighs as much
\* as that of a 16-bit subnormal.  Below 2^-25 nothing is left.
Subnormal(f) ==
  LET e == f \div Exponent(1)
  IN  IF e < 102 THEN 0
      ELSE RoundHalfEven(Exponent(1) + (f % Exponent(1)), 2 ^ (126 - e))

\* A mutant: the second rounding bias is forgotten.
ToUint16ImplHalfUp(f) ==
  IF f >= Exponent(127 + 16) THEN IF f > FLOAT_INF THEN 32256 ELSE HALF_INF
  ELSE IF f < Exponent(113) THEN Subnormal(f)
  ELSE (f - Exponent(112) + HALF_BIAS + 1) \div HALF_STEP

ToUint16Impl(f) ==
  IF f >= Exponent(127 + 16) THEN IF f > FLOAT_INF THEN 32256 ELSE HALF_INF
  ELSE IF f < Exponent(113) THEN Subnormal(f)
  ELSE (f - Exponent(112) + HALF_BIAS + ((f \div HALF_STEP) % 2))
         \div HALF_STEP

\* A subnormal is renormalised: its first bit becomes the implicit one.
ToFloatImpl(v) ==
  IF v >= HALF_INF THEN v * HALF_STEP + Exponent(224)
  ELSE IF v >= 1024 THEN v * HALF_STEP + Exponent(112)
  ELSE IF v = 0 THEN 0
  ELSE LET p == CHOOSE p \in 0 .. 9 : v \in 2 ^ p .. 2 ^ (p + 1) - 1
       IN  Exponent(p + 103) + (v - 2 ^ p) * 2 ^ (23 - p)

-----------------------------------------------------------------------------
(***************************************************************************)
(* BFloat16Impl: the upper half of a float.                                *)
(***************************************************************************)
ToUint16ImplBrain(f) ==
  IF f > FLOAT_INF THEN 32705
  ELSE (f + ((f \div BRAIN_STEP) % 2) + BRAIN_BIAS) \div BRAIN_STEP

ToFloatImplBrain(v) ==
  IF v > BRAIN_INF THEN FLOAT_INF + Exponent(1) \div 2 ELSE v * BRAIN_STEP
=============================================================================
