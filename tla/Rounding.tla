------------------------------ MODULE Rounding ------------------------------
(***************************************************************************)
(* The coefficient arithmetic of reduce.go and rounding.go that fits in an *)
(* int32: reduce32, caddq, power2round, decompose, makeHint, useHint, and  *)
(* the norm test of one coefficient of Poly.ChkNorm.                       *)
(*                                                                         *)
(* The literals of the Go code are the constants of this module, so that   *)
(* one definition serves the real parameter sets (about which the theorems *)
(* of RingProofs speak) and the scaled ones TLC enumerates:                *)
(*                                                                         *)
(*            Q        RedUnit  TwoD  Gamma2  Buckets Masked DecMul DecDiv *)
(*  ML-DSA-44 8380417  2^23     2^13   95232  44      FALSE  11275  2^24   *)
(*  ML-DSA-65 8380417  2^23     2^13  261888  16      TRUE    1025  2^22   *)
(*  (ML-DSA-87 has the rounding parameters of ML-DSA-65; DecUnit is 2^7.)  *)
(*                                                                         *)
(* An arithmetic right shift of the code by n bits is \div 2^n, which      *)
(* rounds towards minus infinity in TLA+ as the shift does in Go.          *)
(***************************************************************************)
EXTENDS Integers

CONSTANTS
  Q,         \* the modulus
  RedUnit,   \* 1 << 23: the power of two reduce32 divides by
  TwoD,      \* 1 << D
  Gamma2,    \* mode.Gamma2()
  Buckets,   \* number of values of the high bits: 44 or 16
  Masked,    \* TRUE iff the code takes its gamma2 == (Q-1)/32 branches
  DecUnit,   \* 1 << 7: the first shift of decompose
  DecMul,    \* multiplier of decompose: 11275 or 1025
  DecDiv     \* its second shift: 1 << 24 or 1 << 22

ASSUME RoundingAssumption ==
  /\ Gamma2 \in Nat \ {0} /\ Buckets \in Nat \ {0, 1}
  /\ Q = 2 * Gamma2 * Buckets + 1
  /\ Masked \in BOOLEAN
  /\ RedUnit \in Nat /\ TwoD \in Nat /\ DecUnit \in Nat /\ DecDiv \in Nat
  /\ RedUnit > 1 /\ TwoD > 1 /\ DecUnit > 0 /\ DecDiv > 1
  /\ DecMul \in Nat

Standard == 0 .. Q - 1     \* the standard representatives

Abs(a) == IF a < 0 THEN -a ELSE a

-----------------------------------------------------------------------------
(* reduce.go.  Both are exact as long as the argument of reduce32 is at    *)
(* most 2^31 - 2^22 - 1: beyond that its first addition would wrap.        *)

reduce32(a) == a - ((a + RedUnit \div 2) \div RedUnit) * Q

caddq(a) == IF a < 0 THEN a + Q ELSE a

-----------------------------------------------------------------------------
(* rounding.go.  power2round and decompose return the pair <<a1, a0>>.     *)

power2round(a) ==
  LET a1 == (a + TwoD \div 2 - 1) \div TwoD
  IN  <<a1, a - a1 * TwoD>>

(* a divided by 2*Gamma2 and rounded, ties downwards, by two shifts and a  *)
(* multiplication: 0 .. Buckets.                                           *)
bucket(a) ==
  (((a + DecUnit - 1) \div DecUnit) * DecMul + DecDiv \div 2) \div DecDiv

(* Mutant: the fold subtracts Q-1, as if the wrap were of the bucket.      *)
decompose_FoldByOneLess(a) ==
  LET r  == bucket(a)
      a1 == IF Masked THEN r % Buckets
                      ELSE IF r > Buckets - 1 THEN 0 ELSE r
      a0 == a - a1 * 2 * Gamma2
  IN  <<a1, IF a0 > (Q - 1) \div 2 THEN a0 - (Q - 1) ELSE a0>>

(* The code folds bucket Buckets onto 0 and makes its low bits negative.   *)
decompose(a) ==
  LET r  == bucket(a)
      a1 == IF Masked THEN r % Buckets
                      ELSE IF r > Buckets - 1 THEN 0 ELSE r
      a0 == a - a1 * 2 * Gamma2
  IN  <<a1, IF a0 > (Q - 1) \div 2 THEN a0 - Q ELSE a0>>

(* Mutant: the tie gets a hint in bucket 0 too.                            *)
makeHint_EveryTie(a0, a1) == a0 > Gamma2 \/ a0 <= -Gamma2

makeHint(a0, a1) ==
  \/ a0 > Gamma2
  \/ a0 < -Gamma2
  \/ a0 = -Gamma2 /\ a1 # 0

(* Mutant: no wrap between the first and the last bucket.                  *)
useHint_NoWrap(a, hint) ==
  LET d == decompose(a)
  IN  IF ~hint THEN d[1] ELSE IF d[2] > 0 THEN d[1] + 1 ELSE d[1] - 1

useHint(a, hint) ==
  LET d == decompose(a)
  IN  CASE ~hint                        -> d[1]
        [] hint /\ Masked /\ d[2] > 0   -> (d[1] + 1) % Buckets
        [] hint /\ Masked /\ d[2] <= 0  -> (d[1] - 1) % Buckets
        [] hint /\ ~Masked /\ d[2] > 0  ->
             IF d[1] = Buckets - 1 THEN 0 ELSE d[1] + 1
        [] hint /\ ~Masked /\ d[2] <= 0 ->
             IF d[1] = 0 THEN Buckets - 1 ELSE d[1] - 1

-----------------------------------------------------------------------------
(* Poly.ChkNorm on one coefficient: TRUE means that the check fails.       *)

chkNorm(a, bound) == bound > (Q - 1) \div 8 \/ Abs(a) >= bound
=============================================================================
