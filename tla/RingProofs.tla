------------------------------ MODULE RingProofs ------------------------------
(***************************************************************************)
(* The arithmetic the scheme rests on, for every dimension, modulus and    *)
(* polynomial.  First what decompose returns, from the one fact that its   *)
(* shifts and multiplication divide exactly, and that fact for the         *)
(* parameter sets of params.go.  Then sums, negacyclic products and matrix *)
(* rows, congruence modulo Q, and the identity that makes the verifier     *)
(* recover what the signer hashed.  Last what the field encodings and the  *)
(* hint bytes of packing.go lose, which is nothing.  Induction over data   *)
(* is a least element of a set of naturals.                                *)
(***************************************************************************)
EXTENDS Ring, FiniteSetTheorems, WellFoundedInduction, TLAPS

(* bucket divides by 2*Gamma2 and rounds ties downwards, for every         *)
(* standard representative.                                                *)
BucketExact ==
  \A a \in Standard :
    /\ bucket(a) \in Int /\ 0 <= bucket(a) /\ bucket(a) <= Buckets
    /\ -Gamma2 < a - bucket(a) * (2 * Gamma2)
    /\ a - bucket(a) * (2 * Gamma2) <= Gamma2

(* The rounding parameters of params.go: MLDSA65 also has those of         *)
(* ML-DSA-87.                                                              *)
CommonParameters ==
  Q = 8380417 /\ RedUnit = 8388608 /\ TwoD = 8192 /\ DecUnit = 128

MLDSA44 ==
  /\ CommonParameters
  /\ Gamma2 = 95232 /\ Buckets = 44 /\ ~Masked
  /\ DecMul = 11275 /\ DecDiv = 16777216

MLDSA65 ==
  /\ CommonParameters
  /\ Gamma2 = 261888 /\ Buckets = 16 /\ Masked
  /\ DecMul = 1025 /\ DecDiv = 4194304

-----------------------------------------------------------------------------
(* Floor division by a positive literal, in the form linear arithmetic can *)
(* use.                                                                    *)
LEMMA FloorDivision ==
  ASSUME NEW x \in Int, NEW n \in Nat, n > 0
  PROVE  /\ x \div n \in Int
         /\ n * (x \div n) <= x
         /\ x < n * (x \div n) + n
  BY SMT

(* The standard representatives, as inequalities.                         *)
LEMMA StandardInterval == \A a \in Standard : a \in Int /\ 0 <= a /\ a < Q
<1>1. Q \in Int
  BY RoundingAssumption, SMT
<1> QED BY <1>1, SMT DEF Standard

(* The two divisions of bucket, as the inequalities that define them.      *)
LEMMA Bucket44 ==
  ASSUME NEW a \in Int, NEW b \in Int, NEW r \in Int,
         0 <= a, a < 8380417,
         128 * b <= a + 127, a < 128 * b + 1,
         16777216 * r <= b * 11275 + 8388608,
         b * 11275 < 16777216 * r + 8388608
  PROVE  r >= 0 /\ r <= 44 /\ a - r * 190464 > -95232 /\ a - r * 190464 <= 95232
<1>1. r >= 0
  BY SMT
<1>2. r <= 44
  BY SMT
<1>3. a - r * 190464 > -95232
  BY <1>1, <1>2, SMTT(60)
<1>4. a - r * 190464 <= 95232
  BY <1>1, <1>2, SMTT(60)
<1> QED BY <1>1, <1>2, <1>3, <1>4, SMT

(* The same for the 1025 and 1 << 22 of rounding.go:25.                    *)
LEMMA Bucket65 ==
  ASSUME NEW a \in Int, NEW b \in Int, NEW r \in Int,
         0 <= a, a < 8380417,
         128 * b <= a + 127, a < 128 * b + 1,
         4194304 * r <= b * 1025 + 2097152,
         b * 1025 < 4194304 * r + 2097152
  PROVE  r >= 0 /\ r <= 16 /\ a - r * 523776 > -261888 /\ a - r * 523776 <= 261888
<1>1. r >= 0
  BY SMT
<1>2. r <= 16
  BY SMT
<1>3. a - r * 523776 > -261888
  BY <1>1, <1>2, SMTT(60)
<1>4. a - r * 523776 <= 261888
  BY <1>1, <1>2, SMTT(60)
<1> QED BY <1>1, <1>2, <1>3, <1>4, SMT

(* The shifts and the multiplication of rounding.go:22-30 divide exactly   *)
(* and round ties downwards for ML-DSA-44, for each of the Q standard      *)
(* representatives ...                                                     *)
THEOREM BucketExact44 == MLDSA44 => BucketExact
<1> SUFFICES ASSUME MLDSA44, NEW a \in Standard
             PROVE  /\ bucket(a) \in Int /\ 0 <= bucket(a) /\ bucket(a) <= Buckets
                    /\ -Gamma2 < a - bucket(a) * (2 * Gamma2)
                    /\ a - bucket(a) * (2 * Gamma2) <= Gamma2
  BY SMT DEF BucketExact
<1>0. /\ Q = 8380417 /\ DecUnit = 128 /\ DecMul = 11275 /\ DecDiv = 16777216
      /\ Gamma2 = 95232 /\ Buckets = 44
  BY SMT DEF MLDSA44, CommonParameters
<1>1. a \in Int /\ 0 <= a /\ a < 8380417
  BY <1>0, StandardInterval, SMT
<1> DEFINE b == (a + 127) \div 128
           r == (b * 11275 + 8388608) \div 16777216
<1>2. b \in Int /\ 128 * b <= a + 127 /\ a < 128 * b + 1
  BY <1>1, SMT
<1> HIDE DEF b
<1>3. /\ r \in Int
      /\ 16777216 * r <= b * 11275 + 8388608
      /\ b * 11275 < 16777216 * r + 8388608
  BY <1>2, SMT
<1>4. bucket(a) = r
  BY <1>0, <1>1, SMT DEF bucket, b
<1> HIDE DEF r
<1>5. r >= 0 /\ r <= 44 /\ a - r * 190464 > -95232 /\ a - r * 190464 <= 95232
  BY <1>1, <1>2, <1>3, Bucket44, SMT
<1>6. bucket(a) \in Int /\ 0 <= bucket(a) /\ bucket(a) <= Buckets
  BY <1>0, <1>3, <1>4, <1>5, SMT
<1>7. 2 * Gamma2 = 190464
  BY <1>0, SMT
<1>8. a - bucket(a) * (2 * Gamma2) = a - r * 190464
  BY <1>4, <1>7, SMT
<1> QED BY <1>0, <1>5, <1>6, <1>8, SMT

(* ... and those of rounding.go:22-26 for ML-DSA-65 and ML-DSA-87.         *)
THEOREM BucketExact65 == MLDSA65 => BucketExact
<1> SUFFICES ASSUME MLDSA65, NEW a \in Standard
             PROVE  /\ bucket(a) \in Int /\ 0 <= bucket(a) /\ bucket(a) <= Buckets
                    /\ -Gamma2 < a - bucket(a) * (2 * Gamma2)
                    /\ a - bucket(a) * (2 * Gamma2) <= Gamma2
  BY SMT DEF BucketExact
<1>0. /\ Q = 8380417 /\ DecUnit = 128 /\ DecMul = 1025 /\ DecDiv = 4194304
      /\ Gamma2 = 261888 /\ Buckets = 16
  BY SMT DEF MLDSA65, CommonParameters
<1>1. a \in Int /\ 0 <= a /\ a < 8380417
  BY <1>0, StandardInterval, SMT
<1> DEFINE b == (a + 127) \div 128
           r == (b * 1025 + 2097152) \div 4194304
<1>2. b \in Int /\ 128 * b <= a + 127 /\ a < 128 * b + 1
  BY <1>1, SMT
<1> HIDE DEF b
<1>3. /\ r \in Int
      /\ 4194304 * r <= b * 1025 + 2097152
      /\ b * 1025 < 4194304 * r + 2097152
  BY <1>2, SMT
<1>4. bucket(a) = r
  BY <1>0, <1>1, SMT DEF bucket, b
<1> HIDE DEF r
<1>5. r >= 0 /\ r <= 16 /\ a - r * 523776 > -261888 /\ a - r * 523776 <= 261888
  BY <1>1, <1>2, <1>3, Bucket65, SMT
<1>6. bucket(a) \in Int /\ 0 <= bucket(a) /\ bucket(a) <= Buckets
  BY <1>0, <1>3, <1>4, <1>5, SMT
<1>7. 2 * Gamma2 = 523776
  BY <1>0, SMT
<1>8. a - bucket(a) * (2 * Gamma2) = a - r * 523776
  BY <1>4, <1>7, SMT
<1> QED BY <1>0, <1>5, <1>6, <1>8, SMT

-----------------------------------------------------------------------------
(* Facts of integer arithmetic that mention a product of two variables.    *)

LEMMA ProductMonotone ==
  ASSUME NEW p \in Int, NEW q \in Int, NEW g \in Int, g >= 0, p <= q
  PROVE  p * g \in Int /\ q * g \in Int /\ p * g <= q * g
<1>1. (q - p) * g >= 0
  BY SMT
<1>2. (q - p) * g = q * g - p * g
  BY SMT
<1> QED BY <1>1, <1>2, SMT

(* Two quotients whose remainders differ by less than the divisor.         *)
LEMMA QuotientUnique ==
  ASSUME NEW p \in Int, NEW q \in Int, NEW g \in Int, NEW e \in Int, NEW f \in Int,
         g > 0, p * g + e = q * g + f, e - f < g, f - e < g
  PROVE  p = q
<1>1. CASE p >= q + 1
  <2>1. (q + 1) * g <= p * g
    BY <1>1, ProductMonotone, SMT
  <2>2. (q + 1) * g = q * g + g
    BY SMT
  <2> QED BY <2>1, <2>2, SMT
<1>2. CASE q >= p + 1
  <2>1. (p + 1) * g <= q * g
    BY <1>2, ProductMonotone, SMT
  <2>2. (p + 1) * g = p * g + g
    BY SMT
  <2> QED BY <2>1, <2>2, SMT
<1> QED BY <1>1, <1>2, SMT

(* Quotient and remainder of a division by a positive n.                   *)
LEMMA Remainder ==
  ASSUME NEW x \in Int, NEW n \in Nat, n > 0
  PROVE  /\ x % n \in Int /\ 0 <= x % n /\ x % n < n
         /\ x \div n \in Int /\ x = n * (x \div n) + (x % n)
  BY SMT

(* One up or one down among the values of the high bits.                   *)
LEMMA Wrap ==
  ASSUME NEW x \in Int, 0 <= x, x < Buckets
  PROVE  /\ (x + 1) % Buckets = IF x = Buckets - 1 THEN 0 ELSE x + 1
         /\ (x - 1) % Buckets = IF x = 0 THEN Buckets - 1 ELSE x - 1
<1>0. Buckets \in Int /\ Buckets > 1 /\ Buckets \in Nat
  BY RoundingAssumption, SMT
<1>1. \A y \in Int : 0 <= y /\ y < Buckets => y % Buckets = y
  BY <1>0, SMT
<1>2. \A y \in Int : y = Buckets => y % Buckets = 0
  BY <1>0, SMT
<1>3. \A y \in Int : y = -1 => y % Buckets = Buckets - 1
  BY <1>0, SMT
<1> QED BY <1>0, <1>1, <1>2, <1>3, SMT

(* The shape RoundingAssumption gives Q.                                   *)
LEMMA Modulus ==
  /\ Gamma2 \in Int /\ Gamma2 >= 1 /\ Buckets \in Int /\ Buckets >= 2
  /\ Q \in Int /\ Q \in Nat
  /\ Buckets * (2 * Gamma2) = Q - 1
  /\ Gamma2 * Buckets \in Int /\ (Q - 1) \div 2 = Gamma2 * Buckets
  /\ Q = 2 * (Gamma2 * Buckets) + 1 /\ Gamma2 * Buckets >= 2 * Gamma2
<1>1. Gamma2 \in Int /\ Gamma2 >= 1 /\ Buckets \in Int /\ Buckets >= 2
  BY RoundingAssumption, SMT
<1>2. Gamma2 * Buckets \in Int /\ Gamma2 * Buckets >= 2 * Gamma2
  BY <1>1, SMT
<1>3. Q = 2 * (Gamma2 * Buckets) + 1
  BY <1>1, RoundingAssumption, SMT
<1> DEFINE P == Gamma2 * Buckets
<1>4. P \in Int /\ Q = 2 * P + 1 /\ P >= 2
  BY <1>1, <1>2, <1>3, SMT
<1>5. Buckets * (2 * Gamma2) = 2 * P
  BY <1>1, SMT
<1>6. (Q - 1) \div 2 = P
  <2> HIDE DEF P
  <2> QED BY <1>4, SMT
<1> QED BY <1>1, <1>2, <1>3, <1>4, <1>5, <1>6, SMT

-----------------------------------------------------------------------------
(* decompose(a) = <<p, e>> with a = p * 2*Gamma2 + e and e within Gamma2 of *)
(* zero; the top Gamma2 values below Q are the exception, whose high bits  *)
(* are 0 and whose low bits are negative (rounding.go:20-36).              *)
LEMMA DecomposeSpec ==
  ASSUME BucketExact, NEW a \in Standard
  PROVE  \E p, e \in Int :
           /\ decompose(a) = <<p, e>>
           /\ 0 <= p /\ p < Buckets
           /\ \/ a = p * (2 * Gamma2) + e /\ -Gamma2 < e /\ e <= Gamma2
              \/ p = 0 /\ a = Q + e /\ -Gamma2 <= e /\ e < 0
<1> DEFINE r == bucket(a)
<1>1. a \in Int /\ 0 <= a /\ a < Q
  BY StandardInterval
<1>2. /\ r \in Int /\ 0 <= r /\ r <= Buckets
      /\ -Gamma2 < a - r * (2 * Gamma2) /\ a - r * (2 * Gamma2) <= Gamma2
  BY DEF BucketExact
<1>3. /\ Gamma2 \in Int /\ Gamma2 >= 1 /\ Buckets \in Int /\ Buckets >= 2
      /\ Q \in Int /\ Buckets * (2 * Gamma2) = Q - 1
      /\ (Q - 1) \div 2 = Gamma2 * Buckets
      /\ Gamma2 * Buckets \in Int /\ Gamma2 * Buckets >= 2 * Gamma2
      /\ Q = 2 * (Gamma2 * Buckets) + 1
  BY Modulus
<1>4. r % Buckets = IF r = Buckets THEN 0 ELSE r
  <2> HIDE DEF r
  <2>1. Buckets \in Nat /\ Buckets > 0
    BY <1>3, SMT
  <2>2. CASE r = Buckets
    BY <2>1, <2>2, SMT
  <2>3. CASE r < Buckets
    BY <1>2, <2>1, <2>3, SMT
  <2> QED BY <1>2, <1>3, <2>2, <2>3, SMT
<1> DEFINE a1 == IF Masked THEN r % Buckets
                           ELSE IF r > Buckets - 1 THEN 0 ELSE r
           a0 == a - a1 * 2 * Gamma2
<1>5. a1 = IF r = Buckets THEN 0 ELSE r
  <2> HIDE DEF r
  <2> QED BY <1>2, <1>3, <1>4, SMT
<1>6. decompose(a) = <<a1, IF a0 > (Q - 1) \div 2 THEN a0 - Q ELSE a0>>
  BY DEF decompose
<1> HIDE DEF r, a1
<1>7. CASE r < Buckets
  <2>1. a1 = r
    BY <1>2, <1>3, <1>5, <1>7, SMT
  <2>2. a0 \in Int /\ a0 = a - r * (2 * Gamma2)
    BY <1>1, <1>2, <1>3, <2>1, SMT
  <2> HIDE DEF a0
  <2>3. ~(a0 > (Q - 1) \div 2)
    BY <1>2, <1>3, <2>2, SMT
  <2>4. decompose(a) = <<r, a0>>
    BY <1>6, <2>1, <2>3
  <2>5. a = r * (2 * Gamma2) + a0 /\ -Gamma2 < a0 /\ a0 <= Gamma2
    BY <1>1, <1>2, <1>3, <2>2, SMT
  <2> QED BY <1>2, <1>7, <2>2, <2>4, <2>5
<1>8. CASE r = Buckets
  <2>1. a1 = 0
    BY <1>5, <1>8
  <2>2. a0 = a
    BY <1>1, <1>3, <2>1, SMT
  <2> HIDE DEF a0
  <2>3. a - (Q - 1) > -Gamma2
    BY <1>2, <1>3, <1>8
  <2>4. a0 > (Q - 1) \div 2
    BY <1>1, <1>3, <2>2, <2>3, SMT
  <2>5. decompose(a) = <<0, a - Q>>
    BY <1>6, <2>1, <2>2, <2>4
  <2>6. a - Q \in Int /\ a = Q + (a - Q) /\ -Gamma2 <= a - Q /\ a - Q < 0
    BY <1>1, <1>3, <2>3, SMT
  <2> QED BY <1>3, <2>5, <2>6, SMT
<1> QED BY <1>2, <1>3, <1>7, <1>8, SMT

(* ... and that pair is the only one: what decompose answers for a value   *)
(* given by its parts.                                                     *)
LEMMA DecomposeUnique ==
  ASSUME BucketExact, NEW a \in Standard, NEW p \in Int, NEW e \in Int,
         0 <= p, p < Buckets,
         \/ a = p * (2 * Gamma2) + e /\ -Gamma2 < e /\ e <= Gamma2
         \/ p = 0 /\ a = Q + e /\ -Gamma2 <= e /\ e < 0
  PROVE  decompose(a) = <<p, e>>
<1>1. PICK q, f \in Int :
           /\ decompose(a) = <<q, f>>
           /\ 0 <= q /\ q < Buckets
           /\ \/ a = q * (2 * Gamma2) + f /\ -Gamma2 < f /\ f <= Gamma2
              \/ q = 0 /\ a = Q + f /\ -Gamma2 <= f /\ f < 0
  BY DecomposeSpec
<1> DEFINE g == 2 * Gamma2
<1>2. /\ Gamma2 \in Int /\ Gamma2 >= 1 /\ Buckets \in Int /\ Q \in Int
      /\ Buckets * g = Q - 1 /\ a \in Int
  BY Modulus, StandardInterval
<1>3. g \in Int /\ g > 0 /\ g = 2 * Gamma2
  BY <1>2, SMT
<1> HIDE DEF g
<1>4. (Buckets - 1) * g = Q - 1 - g
  BY <1>2, <1>3, SMT
<1>5. p * g \in Int /\ q * g \in Int /\ p * g <= Q - 1 - g /\ q * g <= Q - 1 - g
  <2>1. p <= Buckets - 1 /\ q <= Buckets - 1 /\ Buckets - 1 \in Int
    BY <1>1, <1>2, SMT
  <2> QED BY <1>3, <1>4, <2>1, ProductMonotone, SMT
<1>6. \/ a = p * g + e /\ -Gamma2 < e /\ e <= Gamma2
      \/ p = 0 /\ a = Q + e /\ -Gamma2 <= e /\ e < 0
  BY DEF g
<1>7. \/ a = q * g + f /\ -Gamma2 < f /\ f <= Gamma2
      \/ q = 0 /\ a = Q + f /\ -Gamma2 <= f /\ f < 0
  BY <1>1 DEF g
<1>8. p = q
  <2>1. CASE a = p * g + e /\ a = q * g + f /\ -Gamma2 < e /\ e <= Gamma2
                                           /\ -Gamma2 < f /\ f <= Gamma2
    <3>1. p * g + e = q * g + f /\ e - f < g /\ f - e < g
      BY <1>2, <1>3, <2>1, SMT
    <3> QED BY <1>3, <3>1, QuotientUnique
  <2> QED BY <1>2, <1>3, <1>5, <1>6, <1>7, <2>1, SMT
<1>9. e = f
  <2>1. p * g = q * g
    BY <1>8
  <2> QED BY <1>2, <1>3, <1>5, <1>6, <1>7, <1>8, <2>1, SMT
<1> QED BY <1>1, <1>8, <1>9

(* The pair of power2round is the same division by 1 << D, without the     *)
(* exception (rounding.go:8-12).                                           *)
LEMMA Power2RoundSpec ==
  ASSUME NEW a \in Int, NEW h \in Nat, h > 0, TwoD = 2 * h
  PROVE  \E p, e \in Int : /\ power2round(a) = <<p, e>>
                           /\ a = p * TwoD + e /\ -h < e /\ e <= h
<1> DEFINE x  == a + TwoD \div 2 - 1
           a1 == x \div TwoD
<1>1. TwoD \in Nat /\ TwoD > 0 /\ TwoD \div 2 = h
  BY SMT
<1>2. x \in Int /\ x = a + h - 1
  BY <1>1, SMT
<1>3. a1 \in Int /\ TwoD * a1 <= x /\ x < TwoD * a1 + TwoD
  <2> HIDE DEF x
  <2> QED BY <1>1, <1>2, FloorDivision
<1>4. power2round(a) = <<a1, a - a1 * TwoD>>
  BY DEF power2round
<1> HIDE DEF x, a1
<1>5. /\ a - a1 * TwoD \in Int /\ a = a1 * TwoD + (a - a1 * TwoD)
      /\ -h < a - a1 * TwoD /\ a - a1 * TwoD <= h
  <2>1. TwoD * a1 = a1 * TwoD /\ a1 * TwoD \in Int
    BY <1>1, <1>3, SMT
  <2> QED BY <1>1, <1>2, <1>3, <2>1, SMT
<1> QED BY <1>3, <1>4, <1>5

-----------------------------------------------------------------------------
(* makeHint and useHint undo each other: for a value v whose distance from *)
(* the bucket of high bits a1 is s, less than two buckets' half-widths,    *)
(* the hint of s and a1 says whether v fell out of the bucket, and useHint *)
(* puts it back (rounding.go:41-76).  The proof follows s: within the      *)
(* bucket, above it and below it, each with the wrap at Q.                 *)
LEMMA HintCorrect ==
  ASSUME BucketExact, NEW a1 \in Int, 0 <= a1, a1 < Buckets,
         NEW s \in Int, -(2 * Gamma2) < s - 1, s + 1 < 2 * Gamma2,
         NEW v \in Standard, NEW m \in Int, v = a1 * (2 * Gamma2) + s + m * Q
  PROVE  /\ useHint(v, makeHint(s, a1)) = a1
         /\ makeHint(s, a1) <=> decompose(v)[1] # a1
<1> DEFINE g == 2 * Gamma2
           V == a1 * g + s
<1>1. /\ Gamma2 \in Int /\ Gamma2 >= 1 /\ Buckets \in Int /\ Buckets >= 2
      /\ Q \in Int /\ Buckets * g = Q - 1
      /\ v \in Int /\ 0 <= v /\ v < Q
  BY Modulus, StandardInterval
<1>2. g \in Int /\ g = 2 * Gamma2
  BY <1>1, SMT
<1>3. a1 * g \in Int /\ (a1 + 1) * g = a1 * g + g /\ (a1 - 1) * g = a1 * g - g
      /\ (Buckets - 1) * g = Q - 1 - g
  <2> HIDE DEF g
  <2> QED BY <1>1, <1>2, SMT
<1>4. 0 <= a1 * g /\ a1 * g <= Q - 1 - g /\ (a1 >= 1 => a1 * g >= g)
      /\ (a1 < Buckets - 1 => a1 * g <= Q - 1 - g - g) /\ g <= Q - 1 - g
  <2> HIDE DEF g
  <2>1. 0 <= a1 * g
    BY <1>1, <1>2, ProductMonotone, SMT
  <2>2. a1 * g <= (Buckets - 1) * g
    BY <1>1, <1>2, ProductMonotone, SMT
  <2>3. a1 >= 1 => a1 * g >= 1 * g
    BY <1>1, <1>2, ProductMonotone, SMT
  <2>4. a1 < Buckets - 1 => (a1 + 1) * g <= (Buckets - 1) * g
    BY <1>1, <1>2, ProductMonotone, SMT
  <2>5. 1 * g <= (Buckets - 1) * g
    BY <1>1, <1>2, ProductMonotone, SMT
  <2>6. 1 * g = g /\ (Buckets - 1) * g \in Int /\ (a1 + 1) * g \in Int
    BY <1>1, <1>2, SMT
  <2> QED BY <1>1, <1>2, <1>3, <2>1, <2>2, <2>3, <2>4, <2>5, <2>6, SMT
<1>5. v = V + m * Q
  OBVIOUS
<1> HIDE DEF g
<1>6. V \in Int /\ V = a1 * g + s /\ V < Q /\ -Q < V
  BY <1>1, <1>2, <1>3, <1>4, SMT
<1> HIDE DEF V
<1>7. v = IF V >= 0 THEN V ELSE V + Q
  <2>1. m * Q \in Int
    BY <1>1, SMT
  <2>2. m >= 1 => m * Q >= 1 * Q
    BY <1>1, ProductMonotone, SMT
  <2>3. m >= 2 => m * Q >= 2 * Q
    BY <1>1, ProductMonotone, SMT
  <2>4. m <= -1 => m * Q <= (-1) * Q
    BY <1>1, ProductMonotone, SMT
  <2>5. m = 0 => m * Q = 0
    BY <1>1, SMT
  <2>6. m = 1 => m * Q = Q
    BY <1>1, SMT
  <2> QED BY <1>1, <1>5, <1>6, <2>1, <2>2, <2>3, <2>4, <2>5, <2>6, SMT
<1>8. \A p, e \in Int :
        /\ 0 <= p /\ p < Buckets
        /\ \/ v = p * g + e /\ -Gamma2 < e /\ e <= Gamma2
           \/ p = 0 /\ v = Q + e /\ -Gamma2 <= e /\ e < 0
        => decompose(v) = <<p, e>>
  BY DecomposeUnique DEF g
<1>9. /\ a1 + 1 \in Int /\ a1 - 1 \in Int /\ Buckets - 1 \in Int /\ 0 \in Int
      /\ s - g \in Int /\ s - g - 1 \in Int /\ s + g \in Int /\ s + g + 1 \in Int
      /\ 0 * g = 0
  BY <1>1, <1>2, SMT
<1>10. Masked \in BOOLEAN
  BY RoundingAssumption
<1>11. CASE ~makeHint(s, a1)
  <2>1. s <= Gamma2 /\ -Gamma2 <= s /\ (s = -Gamma2 => a1 = 0)
    BY <1>1, <1>11, SMT DEF makeHint
  <2>2. decompose(v) = <<a1, s>>
    <3>1. CASE V >= 0 /\ -Gamma2 < s
      BY <1>6, <1>7, <1>8, <2>1, <3>1
    <3>2. CASE V >= 0 /\ s = -Gamma2
      BY <1>1, <1>2, <1>6, <1>9, <2>1, <3>2, SMT
    <3>3. CASE V < 0
      <4>1. a1 = 0 /\ s < 0 /\ V = s
        BY <1>1, <1>2, <1>3, <1>4, <1>6, <1>9, <2>1, <3>3, SMT
      <4>2. v = Q + s
        BY <1>1, <1>6, <1>7, <3>3, <4>1, SMT
      <4> QED BY <1>8, <2>1, <4>1, <4>2
    <3> QED BY <1>1, <1>6, <2>1, <3>1, <3>2, <3>3, SMT
  <2>3. decompose(v)[1] = a1
    BY <2>2
  <2> QED BY <1>11, <2>3 DEF useHint
<1>12. CASE makeHint(s, a1) /\ s > Gamma2
  <2>1. \E e \in Int : e <= 0 /\
          decompose(v) = <<IF a1 = Buckets - 1 THEN 0 ELSE a1 + 1, e>>
    <3>1. v = V
      BY <1>1, <1>3, <1>4, <1>6, <1>7, <1>12, SMT
    <3>2. CASE a1 = Buckets - 1
      <4>1. v = Q + (s - g - 1) /\ -Gamma2 <= s - g - 1 /\ s - g - 1 < 0
        BY <1>1, <1>2, <1>3, <1>6, <1>12, <3>1, <3>2, SMT
      <4>2. decompose(v) = <<0, s - g - 1>>
        BY <1>1, <1>8, <1>9, <4>1, SMT
      <4>3. s - g - 1 <= 0
        BY <1>9, <4>1, SMT
      <4> QED BY <1>9, <3>2, <4>2, <4>3
    <3>3. CASE a1 # Buckets - 1
      <4>1. /\ v = (a1 + 1) * g + (s - g) /\ -Gamma2 < s - g /\ s - g <= Gamma2
            /\ 0 <= a1 + 1 /\ a1 + 1 < Buckets /\ s - g <= 0
        BY <1>1, <1>2, <1>3, <1>6, <1>12, <3>1, <3>3, SMT
      <4>2. decompose(v) = <<a1 + 1, s - g>>
        BY <1>8, <1>9, <4>1
      <4> QED BY <1>9, <3>3, <4>1, <4>2
    <3> QED BY <3>2, <3>3
  <2>2. PICK e \in Int : e <= 0 /\
          decompose(v) = <<IF a1 = Buckets - 1 THEN 0 ELSE a1 + 1, e>>
    BY <2>1
  <2> DEFINE d == IF a1 = Buckets - 1 THEN 0 ELSE a1 + 1
  <2>3. decompose(v)[1] = d /\ decompose(v)[2] <= 0 /\ ~(decompose(v)[2] > 0)
    BY <2>2, SMT
  <2>4. d \in Int /\ 0 <= d /\ d < Buckets /\ d # a1
    BY <1>1, SMT
  <2>5. (d - 1) % Buckets = a1 /\ (IF d = 0 THEN Buckets - 1 ELSE d - 1) = a1
    <3>1. (IF d = 0 THEN Buckets - 1 ELSE d - 1) = a1
      BY <1>1, SMT
    <3> HIDE DEF d
    <3> QED BY <2>4, <3>1, Wrap
  <2> HIDE DEF d
  <2> QED BY <1>10, <1>12, <2>3, <2>4, <2>5 DEF useHint
<1>13. CASE makeHint(s, a1) /\ ~(s > Gamma2)
  <2>0. s <= -Gamma2 /\ (s = -Gamma2 => a1 # 0)
    BY <1>1, <1>13, SMT DEF makeHint
  <2>1. \E e \in Int : e > 0 /\
          decompose(v) = <<IF a1 = 0 THEN Buckets - 1 ELSE a1 - 1, e>>
    <3>1. CASE a1 = 0
      <4>1. V = s
        BY <1>6, <1>9, <3>1, SMT
      <4>2. /\ v = (Buckets - 1) * g + (s + g + 1)
            /\ -Gamma2 < s + g + 1 /\ s + g + 1 <= Gamma2 /\ s + g + 1 > 0
        BY <1>1, <1>2, <1>3, <1>6, <1>7, <2>0, <3>1, <4>1, SMT
      <4>3. 0 <= Buckets - 1 /\ Buckets - 1 < Buckets
        BY <1>1, SMT
      <4>4. decompose(v) = <<Buckets - 1, s + g + 1>>
        BY <1>8, <1>9, <4>2, <4>3
      <4> QED BY <1>9, <3>1, <4>2, <4>4
    <3>2. CASE a1 # 0
      <4>1. /\ v = (a1 - 1) * g + (s + g) /\ -Gamma2 < s + g /\ s + g <= Gamma2
            /\ 0 <= a1 - 1 /\ a1 - 1 < Buckets /\ s + g > 0
        BY <1>1, <1>2, <1>3, <1>4, <1>6, <1>7, <2>0, <3>2, SMT
      <4>2. decompose(v) = <<a1 - 1, s + g>>
        BY <1>8, <1>9, <4>1
      <4> QED BY <1>9, <3>2, <4>1, <4>2
    <3> QED BY <3>1, <3>2
  <2>2. PICK e \in Int : e > 0 /\
          decompose(v) = <<IF a1 = 0 THEN Buckets - 1 ELSE a1 - 1, e>>
    BY <2>1
  <2> DEFINE d == IF a1 = 0 THEN Buckets - 1 ELSE a1 - 1
  <2>3. decompose(v)[1] = d /\ decompose(v)[2] > 0 /\ ~(decompose(v)[2] <= 0)
    BY <2>2, SMT
  <2>4. d \in Int /\ 0 <= d /\ d < Buckets /\ d # a1
    BY <1>1, SMT
  <2>5. (d + 1) % Buckets = a1 /\ (IF d = Buckets - 1 THEN 0 ELSE d + 1) = a1
    <3>1. (IF d = Buckets - 1 THEN 0 ELSE d + 1) = a1
      BY <1>1, SMT
    <3> HIDE DEF d
    <3> QED BY <2>4, <3>1, Wrap
  <2> HIDE DEF d
  <2> QED BY <1>10, <1>13, <2>3, <2>4, <2>5 DEF useHint
<1> QED BY <1>11, <1>12, <1>13

-----------------------------------------------------------------------------
(* Induction.                                                              *)

(* A nonempty set of naturals has a least element.                         *)
LEMMA Least ==
  ASSUME NEW S, S \subseteq Nat, S # {}
  PROVE  \E n \in S : \A m \in S : n <= m
<1>1. PICK n \in S : \A m \in S : ~(<<m, n>> \in OpToRel(<, Nat))
  BY WFMin, NatLessThanWellFounded
<1>2. \A m \in S : ~(m < n)
  BY <1>1 DEF OpToRel
<1> QED BY <1>2

(* Induction, over the set of the naturals that have the property.         *)
LEMMA SetInduction ==
  ASSUME NEW S, S \subseteq Nat, 0 \in S, \A n \in S : n + 1 \in S
  PROVE  S = Nat
<1>1. CASE Nat \ S # {}
  <2>1. PICK n \in Nat \ S : \A m \in Nat \ S : n <= m
    BY <1>1, Least
  <2>2. n # 0 /\ n - 1 \in Nat
    BY <2>1
  <2> QED BY <2>1, <2>2
<1> QED BY <1>1

-----------------------------------------------------------------------------
(* What the sum over a set is computed from: the sums over its subsets.    *)
Pick(s) == CHOOSE x \in s : TRUE

(* g sums f over every subset of S.                                        *)
IsSums(g, f, S) ==
  g = [s \in SUBSET S |-> IF s = {} THEN 0 ELSE f[Pick(s)] + g[s \ {Pick(s)}]]

(* SumFunctionOnSet is the recursive sum the folds choose.                 *)
LEMMA SumIsChosen ==
  ASSUME NEW f, NEW S
  PROVE  SumFunctionOnSet(f, S) = (CHOOSE g : IsSums(g, f, S))[S]
BY DEF SumFunctionOnSet, FoldFunctionOnSet, MapThenFoldSet, IsSums, Pick

(* The sums over the subsets are determined.                               *)
LEMMA SumsUnique ==
  ASSUME NEW f, NEW S, NEW T, IsFiniteSet(T), T \subseteq S,
         NEW g, IsSums(g, f, S), NEW h, IsSums(h, f, T)
  PROVE  \A s \in SUBSET T : g[s] = h[s]
<1> DEFINE Sizes == {n \in Nat : \A s \in SUBSET T : Cardinality(s) = n => g[s] = h[s]}
<1>1. \A s \in SUBSET T : IsFiniteSet(s) /\ Cardinality(s) \in Nat /\ s \in SUBSET S
  BY FS_Subset, FS_CardinalityType
<1>2. \A s \in SUBSET T :
        /\ g[s] = IF s = {} THEN 0 ELSE f[Pick(s)] + g[s \ {Pick(s)}]
        /\ h[s] = IF s = {} THEN 0 ELSE f[Pick(s)] + h[s \ {Pick(s)}]
  BY <1>1 DEF IsSums
<1>3. 0 \in Sizes
  <2> SUFFICES ASSUME NEW s \in SUBSET T, Cardinality(s) = 0 PROVE g[s] = h[s]
    OBVIOUS
  <2>1. s = {}
    BY <1>1, FS_EmptySet
  <2> QED BY <1>2, <2>1
<1>4. ASSUME NEW n \in Sizes PROVE n + 1 \in Sizes
  <2> SUFFICES ASSUME NEW s \in SUBSET T, Cardinality(s) = n + 1 PROVE g[s] = h[s]
    OBVIOUS
  <2>1. s # {}
    BY FS_EmptySet
  <2>2. Pick(s) \in s
    BY <2>1 DEF Pick
  <2>3. Cardinality(s \ {Pick(s)}) = n /\ s \ {Pick(s)} \in SUBSET T
    <3>1. Cardinality(s \ {Pick(s)}) = Cardinality(s) - 1
      BY <1>1, <2>2, FS_RemoveElement
    <3> QED BY <3>1
  <2>4. g[s \ {Pick(s)}] = h[s \ {Pick(s)}]
    BY <2>3
  <2> QED BY <1>2, <2>1, <2>4
<1>5. Sizes = Nat
  <2> HIDE DEF Sizes
  <2>1. Sizes \subseteq Nat
    BY DEF Sizes
  <2> QED BY <1>3, <1>4, <2>1, SetInduction
<1> QED BY <1>1, <1>5

(* There is such a function on the subsets of every finite set.            *)
LEMMA SumsExist ==
  ASSUME NEW f, NEW T, IsFiniteSet(T)
  PROVE  \E g : IsSums(g, f, T)
<1> DEFINE V(s)  == (CHOOSE g : IsSums(g, f, s))[s]
           Sizes == {n \in Nat : \A S \in SUBSET T :
                       Cardinality(S) <= n => \E g : IsSums(g, f, S)}
<1>1. \A s \in SUBSET T : IsFiniteSet(s) /\ Cardinality(s) \in Nat
  BY FS_Subset, FS_CardinalityType
<1>2. \A S \in SUBSET T : S = {} => \E g : IsSums(g, f, S)
  <2> SUFFICES \E g : IsSums(g, f, {})
    OBVIOUS
  <2>1. IsSums([s \in SUBSET {} |-> 0], f, {})
    BY DEF IsSums
  <2> QED BY <2>1
<1>3. 0 \in Sizes
  <2> SUFFICES ASSUME NEW S \in SUBSET T, Cardinality(S) <= 0 PROVE \E g : IsSums(g, f, S)
    OBVIOUS
  <2>1. S = {}
    BY <1>1, FS_EmptySet
  <2> QED BY <1>2, <2>1
<1>4. ASSUME NEW n \in Sizes PROVE n + 1 \in Sizes
  <2> SUFFICES ASSUME NEW S \in SUBSET T, Cardinality(S) <= n + 1 PROVE \E g : IsSums(g, f, S)
    OBVIOUS
  <2> DEFINE G == [s \in SUBSET S |-> IF s = {} THEN 0 ELSE f[Pick(s)] + V(s \ {Pick(s)})]
  <2>1. \A s \in SUBSET S : s # {} => /\ s \ {Pick(s)} \in SUBSET S
                                      /\ Cardinality(s \ {Pick(s)}) <= n
    <3> SUFFICES ASSUME NEW s \in SUBSET S, s # {}
                 PROVE  Cardinality(s \ {Pick(s)}) <= n
      OBVIOUS
    <3>1. Pick(s) \in s
      BY DEF Pick
    <3>2. Cardinality(s) <= Cardinality(S)
      BY <1>1, FS_Subset
    <3>3. Cardinality(s \ {Pick(s)}) = Cardinality(s) - 1
      BY <1>1, <3>1, FS_RemoveElement
    <3>4. Cardinality(s) \in Nat /\ Cardinality(S) \in Nat
      BY <1>1
    <3> QED BY <3>2, <3>3, <3>4
  <2>2. \A s \in SUBSET S : Cardinality(s) <= n => IsSums(CHOOSE g : IsSums(g, f, s), f, s)
    <3> SUFFICES ASSUME NEW s \in SUBSET S, Cardinality(s) <= n
                 PROVE  \E g : IsSums(g, f, s)
      OBVIOUS
    <3> QED OBVIOUS
  <2>3. ASSUME NEW t \in SUBSET S, Cardinality(t) <= n
        PROVE  V(t) = G[t]
    <3> DEFINE g == CHOOSE gg : IsSums(gg, f, t)
    <3>1. IsSums(g, f, t)
      BY <2>2, <2>3
    <3>2. V(t) = IF t = {} THEN 0 ELSE f[Pick(t)] + g[t \ {Pick(t)}]
      <4> HIDE DEF g
      <4>1. g[t] = IF t = {} THEN 0 ELSE f[Pick(t)] + g[t \ {Pick(t)}]
        BY <3>1 DEF IsSums
      <4> QED BY <4>1 DEF g
    <3>3. CASE t = {}
      BY <3>2, <3>3
    <3>4. CASE t # {}
      <4> DEFINE u == t \ {Pick(t)}
                 h == CHOOSE gg : IsSums(gg, f, u)
      <4>1. u \in SUBSET S /\ u \in SUBSET t /\ Cardinality(u) <= n
        BY <2>1, <3>4
      <4>2. IsSums(h, f, u)
        BY <2>2, <4>1
      <4>3. IsFiniteSet(u)
        BY <1>1, <4>1
      <4>4. g[u] = h[u]
        <5> HIDE DEF g, h, u
        <5> QED BY <3>1, <4>1, <4>2, <4>3, SumsUnique
      <4>5. V(u) = h[u]
        OBVIOUS
      <4> QED BY <3>2, <3>4, <4>4, <4>5
    <3> QED BY <3>3, <3>4
  <2>4. IsSums(G, f, S)
    <3> HIDE DEF V
    <3>1. \A s \in SUBSET S : s # {} => V(s \ {Pick(s)}) = G[s \ {Pick(s)}]
      BY <2>1, <2>3
    <3>2. G = [s \in SUBSET S |-> IF s = {} THEN 0 ELSE f[Pick(s)] + G[s \ {Pick(s)}]]
      <4> DEFINE H == G
      <4>1. \A s \in SUBSET S : H[s] = IF s = {} THEN 0 ELSE f[Pick(s)] + H[s \ {Pick(s)}]
        BY <3>1
      <4>2. H = [s \in SUBSET S |-> H[s]]
        OBVIOUS
      <4> HIDE DEF H
      <4>3. H = [s \in SUBSET S |-> IF s = {} THEN 0 ELSE f[Pick(s)] + H[s \ {Pick(s)}]]
        BY <4>1, <4>2
      <4> QED BY <4>3 DEF H
    <3> QED BY <3>2 DEF IsSums
  <2> QED BY <2>4
<1>5. Sizes = Nat
  <2> HIDE DEF Sizes
  <2>1. Sizes \subseteq Nat
    BY DEF Sizes
  <2> QED BY <1>3, <1>4, <2>1, SetInduction
<1>6. Cardinality(T) \in Sizes
  BY <1>1, <1>5
<1> QED BY <1>1, <1>6

(* A sum is any of its terms and the sum of the others.                    *)
LEMMA SumSplits ==
  ASSUME NEW f, NEW T, IsFiniteSet(T), \A y \in T : f[y] \in Int
  PROVE  /\ SumFunctionOnSet(f, {}) = 0
         /\ \A s \in SUBSET T :
              /\ SumFunctionOnSet(f, s) \in Int
              /\ \A x \in s : SumFunctionOnSet(f, s) = f[x] + SumFunctionOnSet(f, s \ {x})
<1> DEFINE V(s) == SumFunctionOnSet(f, s)
           Good(s) == V(s) \in Int /\ \A x \in s : V(s) = f[x] + V(s \ {x})
           Sizes == {n \in Nat : \A s \in SUBSET T : Cardinality(s) <= n => Good(s)}
<1>1. \A s \in SUBSET T : IsFiniteSet(s) /\ Cardinality(s) \in Nat
  BY FS_Subset, FS_CardinalityType
<1>2. PICK g : IsSums(g, f, T)
  BY SumsExist
<1>3. \A s \in SUBSET T : V(s) = g[s]
  <2> SUFFICES ASSUME NEW s \in SUBSET T PROVE V(s) = g[s]
    OBVIOUS
  <2> DEFINE h == CHOOSE gg : IsSums(gg, f, s)
  <2>1. IsSums(h, f, s)
    BY <1>1, SumsExist
  <2> HIDE DEF h
  <2>2. IsFiniteSet(s) /\ s \subseteq T /\ s \in SUBSET s
    BY <1>1
  <2>3. g[s] = h[s]
    BY <1>2, <2>1, <2>2, SumsUnique
  <2> QED BY <2>3, SumIsChosen DEF h
<1>4. \A s \in SUBSET T : V(s) = IF s = {} THEN 0 ELSE f[Pick(s)] + V(s \ {Pick(s)})
  <2> HIDE DEF V
  <2>1. \A s \in SUBSET T : g[s] = IF s = {} THEN 0 ELSE f[Pick(s)] + g[s \ {Pick(s)}]
    BY <1>2 DEF IsSums
  <2>2. \A s \in SUBSET T : s \ {Pick(s)} \in SUBSET T
    OBVIOUS
  <2> QED BY <1>3, <2>1, <2>2
<1> HIDE DEF V
<1>9. ASSUME NEW s \in SUBSET T, s = {} PROVE Good(s)
  <2>1. V(s) = 0
    BY <1>4, <1>9
  <2> QED BY <1>9, <2>1
<1>5. 0 \in Sizes
  <2> SUFFICES ASSUME NEW s \in SUBSET T, Cardinality(s) <= 0 PROVE Good(s)
    OBVIOUS
  <2>1. s = {}
    BY <1>1, FS_EmptySet
  <2> QED BY <1>9, <2>1
<1>6. ASSUME NEW n \in Sizes PROVE n + 1 \in Sizes
  <2> SUFFICES ASSUME NEW s \in SUBSET T, Cardinality(s) <= n + 1, s # {} PROVE Good(s)
    BY <1>9
  <2>1. \A x \in s : s \ {x} \in SUBSET T /\ Good(s \ {x})
    <3> SUFFICES ASSUME NEW x \in s PROVE Cardinality(s \ {x}) <= n
      OBVIOUS
    <3>1. Cardinality(s \ {x}) = Cardinality(s) - 1
      BY <1>1, FS_RemoveElement
    <3> QED BY <1>1, <3>1
  <2> DEFINE c == Pick(s)
  <2>2. c \in s /\ f[c] \in Int
    BY DEF Pick
  <2>3. V(s) = f[c] + V(s \ {c})
    BY <1>4
  <2> HIDE DEF c
  <2>4. V(s) \in Int
    BY <2>1, <2>2, <2>3
  <2>5. ASSUME NEW x \in s PROVE V(s) = f[x] + V(s \ {x})
    <3>1. CASE x = c
      BY <2>3, <3>1
    <3>2. CASE x # c
      <4>1. V(s \ {c}) = f[x] + V((s \ {c}) \ {x}) /\ V(s \ {x}) = f[c] + V((s \ {x}) \ {c})
        BY <2>1, <2>2, <3>2
      <4>2. (s \ {c}) \ {x} = (s \ {x}) \ {c}
        OBVIOUS
      <4>3. f[x] \in Int /\ V(s \ {c}) \in Int /\ V(s \ {x}) \in Int
        BY <2>1, <2>2
      <4> DEFINE r == V((s \ {c}) \ {x})
      <4>4. r \in Int
        <5>1. f[x] \in Int /\ Cardinality(s \ {c}) <= n /\ Cardinality((s \ {c}) \ {x}) <= n
          <6>1. Cardinality(s \ {c}) = Cardinality(s) - 1
            BY <1>1, <2>2, FS_RemoveElement
          <6>2. Cardinality((s \ {c}) \ {x}) = Cardinality(s \ {c}) - 1
            BY <1>1, <2>1, <2>2, <3>2, FS_RemoveElement
          <6> QED BY <1>1, <2>1, <2>2, <6>1, <6>2
        <5>2. (s \ {c}) \ {x} \in SUBSET T
          OBVIOUS
        <5> QED BY <5>1, <5>2
      <4>5. V(s \ {c}) = f[x] + r /\ V(s \ {x}) = f[c] + r
        BY <4>1, <4>2
      <4> HIDE DEF r
      <4> QED BY <2>2, <2>3, <4>3, <4>4, <4>5
    <3> QED BY <3>1, <3>2
  <2> QED BY <2>4, <2>5
<1>7. Sizes = Nat
  <2> HIDE DEF Sizes
  <2>1. Sizes \subseteq Nat
    BY DEF Sizes
  <2> QED BY <1>5, <1>6, <2>1, SetInduction
<1>8. \A s \in SUBSET T : Good(s)
  BY <1>1, <1>7
<1>10. V({}) = 0
  <2>1. {} \in SUBSET T
    OBVIOUS
  <2> QED BY <1>4, <2>1
<1> QED BY <1>8, <1>10 DEF V

-----------------------------------------------------------------------------
(* Sums over 0 .. n-1.                                                     *)
Total(f, n) == SumFunctionOnSet(f, 0 .. n - 1)

(* A sum over 0 .. n-1, one term at a time.                                *)
LEMMA TotalStep ==
  ASSUME NEW n \in Nat, NEW f, \A i \in 0 .. n - 1 : f[i] \in Int
  PROVE  /\ Total(f, 0) = 0
         /\ \A k \in 0 .. n : Total(f, k) \in Int
         /\ \A k \in 0 .. n - 1 : Total(f, k + 1) = Total(f, k) + f[k]
<1>1. IsFiniteSet(0 .. n - 1)
  BY FS_Interval
<1>2. /\ SumFunctionOnSet(f, {}) = 0
      /\ \A s \in SUBSET (0 .. n - 1) :
              /\ SumFunctionOnSet(f, s) \in Int
              /\ \A x \in s : SumFunctionOnSet(f, s) = f[x] + SumFunctionOnSet(f, s \ {x})
  BY <1>1, SumSplits
<1>3. 0 .. 0 - 1 = {}
  OBVIOUS
<1>4. ASSUME NEW k \in 0 .. n PROVE Total(f, k) \in Int
  <2>1. 0 .. k - 1 \in SUBSET (0 .. n - 1)
    OBVIOUS
  <2> QED BY <1>2, <2>1 DEF Total
<1>5. ASSUME NEW k \in 0 .. n - 1 PROVE Total(f, k + 1) = Total(f, k) + f[k]
  <2>1. /\ 0 .. (k + 1) - 1 \in SUBSET (0 .. n - 1) /\ k \in 0 .. (k + 1) - 1
        /\ (0 .. (k + 1) - 1) \ {k} = 0 .. k - 1
    OBVIOUS
  <2> DEFINE s == 0 .. (k + 1) - 1
  <2>2. Total(f, k + 1) = f[k] + Total(f, k)
    <3>1. Total(f, k + 1) = SumFunctionOnSet(f, s) /\ Total(f, k) = SumFunctionOnSet(f, s \ {k})
      BY <2>1 DEF Total
    <3>2. s \in SUBSET (0 .. n - 1) /\ k \in s
      BY <2>1
    <3> HIDE DEF s
    <3> QED BY <1>2, <3>1, <3>2
  <2>3. Total(f, k) \in Int /\ f[k] \in Int
    BY <1>4
  <2> QED BY <2>2, <2>3
<1> QED BY <1>2, <1>3, <1>4, <1>5 DEF Total

(* Termwise sums, multiples and congruences.                               *)
LEMMA TotalAdd ==
  ASSUME NEW n \in Nat, NEW f, NEW g, NEW h,
         \A i \in 0 .. n - 1 : f[i] \in Int /\ g[i] \in Int /\ h[i] = f[i] + g[i]
  PROVE  Total(h, n) = Total(f, n) + Total(g, n)
<1> DEFINE S == {k \in Nat : k <= n => Total(h, k) = Total(f, k) + Total(g, k)}
<1>0. \A i \in 0 .. n - 1 : h[i] \in Int
  OBVIOUS
<1>1. /\ Total(f, 0) = 0 /\ Total(g, 0) = 0 /\ Total(h, 0) = 0
      /\ \A k \in 0 .. n : Total(f, k) \in Int /\ Total(g, k) \in Int /\ Total(h, k) \in Int
      /\ \A k \in 0 .. n - 1 : /\ Total(f, k + 1) = Total(f, k) + f[k]
                               /\ Total(g, k + 1) = Total(g, k) + g[k]
                               /\ Total(h, k + 1) = Total(h, k) + h[k]
  BY <1>0, TotalStep
<1>2. 0 \in S
  BY <1>1
<1>3. \A k \in S : k + 1 \in S
  <2> SUFFICES ASSUME NEW k \in S, k + 1 <= n
               PROVE  Total(h, k + 1) = Total(f, k + 1) + Total(g, k + 1)
    OBVIOUS
  <2>1. k \in 0 .. n - 1 /\ k \in 0 .. n /\ Total(h, k) = Total(f, k) + Total(g, k)
    OBVIOUS
  <2>2. f[k] \in Int /\ g[k] \in Int /\ h[k] = f[k] + g[k]
    BY <2>1
  <2> QED BY <1>1, <2>1, <2>2
<1>4. S = Nat
  <2> HIDE DEF S
  <2>1. S \subseteq Nat
    BY DEF S
  <2> QED BY <1>2, <1>3, <2>1, SetInduction
<1> QED BY <1>4

(* The sum of the multiples is the multiple of the sum.                    *)
LEMMA TotalScale ==
  ASSUME NEW n \in Nat, NEW f, NEW h, NEW a \in Int,
         \A i \in 0 .. n - 1 : f[i] \in Int /\ h[i] = a * f[i]
  PROVE  Total(h, n) = a * Total(f, n)
<1> DEFINE S == {k \in Nat : k <= n => Total(h, k) = a * Total(f, k)}
<1>0. \A i \in 0 .. n - 1 : h[i] \in Int
  OBVIOUS
<1>1. /\ Total(f, 0) = 0 /\ Total(h, 0) = 0
      /\ \A k \in 0 .. n : Total(f, k) \in Int /\ Total(h, k) \in Int
      /\ \A k \in 0 .. n - 1 : /\ Total(f, k + 1) = Total(f, k) + f[k]
                               /\ Total(h, k + 1) = Total(h, k) + h[k]
  BY <1>0, TotalStep
<1>2. 0 \in S
  BY <1>1
<1>3. \A k \in S : k + 1 \in S
  <2> SUFFICES ASSUME NEW k \in S, k + 1 <= n
               PROVE  Total(h, k + 1) = a * Total(f, k + 1)
    OBVIOUS
  <2>1. k \in 0 .. n - 1 /\ k \in 0 .. n /\ Total(h, k) = a * Total(f, k)
    OBVIOUS
  <2>2. f[k] \in Int /\ h[k] = a * f[k]
    BY <2>1
  <2>3. \A x, y \in Int : a * (x + y) = a * x + a * y
    BY SMT
  <2> QED BY <1>1, <2>1, <2>2, <2>3
<1>4. S = Nat
  <2> HIDE DEF S
  <2>1. S \subseteq Nat
    BY DEF S
  <2> QED BY <1>2, <1>3, <2>1, SetInduction
<1> QED BY <1>4

(* Equal terms have equal sums.                                            *)
LEMMA TotalSame ==
  ASSUME NEW n \in Nat, NEW f, NEW h,
         \A i \in 0 .. n - 1 : f[i] \in Int /\ h[i] = f[i]
  PROVE  Total(h, n) = Total(f, n)
<1>1. \A i \in 0 .. n - 1 : f[i] \in Int /\ h[i] = 1 * f[i]
  OBVIOUS
<1>2. Total(h, n) = 1 * Total(f, n)
  BY <1>1, 1 \in Int, TotalScale
<1>3. Total(f, n) \in Int
  BY TotalStep
<1> QED BY <1>2, <1>3

(* x and y are the same residue modulo Q.                                  *)
Congruent(x, y) == \E k \in Int : x = y + k * Q

(* Sums and differences of congruent integers are congruent.               *)
LEMMA CongruentSum ==
  ASSUME NEW x1 \in Int, NEW x2 \in Int, NEW y1 \in Int, NEW y2 \in Int,
         Congruent(x1, y1), Congruent(x2, y2)
  PROVE  Congruent(x1 + x2, y1 + y2) /\ Congruent(x1 - x2, y1 - y2)
<1>1. Q \in Int
  BY Modulus
<1>2. PICK k1 \in Int : x1 = y1 + k1 * Q
  BY DEF Congruent
<1>3. PICK k2 \in Int : x2 = y2 + k2 * Q
  BY DEF Congruent
<1>4. (k1 + k2) * Q = k1 * Q + k2 * Q /\ (k1 - k2) * Q = k1 * Q - k2 * Q
      /\ k1 * Q \in Int /\ k2 * Q \in Int
  BY <1>1, SMT
<1>5. x1 + x2 = (y1 + y2) + (k1 + k2) * Q /\ x1 - x2 = (y1 - y2) + (k1 - k2) * Q
  BY <1>2, <1>3, <1>4
<1>6. k1 + k2 \in Int /\ k1 - k2 \in Int
  OBVIOUS
<1> QED BY <1>5, <1>6 DEF Congruent

(* So are their multiples.                                                 *)
LEMMA CongruentMultiple ==
  ASSUME NEW x \in Int, NEW y \in Int, NEW a \in Int, Congruent(x, y)
  PROVE  Congruent(a * x, a * y)
<1>1. Q \in Int
  BY Modulus
<1>2. PICK k \in Int : x = y + k * Q
  BY DEF Congruent
<1>3. a * (y + k * Q) = a * y + (a * k) * Q /\ a * k \in Int
  BY <1>1, SMT
<1> QED BY <1>2, <1>3 DEF Congruent

(* Congruence is an equivalence.                                           *)
LEMMA CongruentOrder ==
  ASSUME NEW x \in Int, NEW y \in Int
  PROVE  /\ Congruent(x, x)
         /\ Congruent(x, y) => Congruent(y, x)
         /\ \A z \in Int : Congruent(x, y) /\ Congruent(y, z) => Congruent(x, z)
<1>1. Q \in Int
  BY Modulus
<1>2. x = x + 0 * Q
  BY <1>1, SMT
<1>3. ASSUME Congruent(x, y) PROVE Congruent(y, x)
  <2>1. PICK k \in Int : x = y + k * Q
    BY <1>3 DEF Congruent
  <2>2. (-k) * Q = -(k * Q) /\ k * Q \in Int /\ -k \in Int
    BY <1>1, SMT
  <2>3. y = x + (-k) * Q
    BY <2>1, <2>2
  <2> QED BY <2>2, <2>3 DEF Congruent
<1>4. ASSUME NEW z \in Int, Congruent(x, y), Congruent(y, z) PROVE Congruent(x, z)
  <2>1. PICK k \in Int : x = y + k * Q
    BY <1>4 DEF Congruent
  <2>2. PICK l \in Int : y = z + l * Q
    BY <1>4 DEF Congruent
  <2>3. (k + l) * Q = k * Q + l * Q /\ k * Q \in Int /\ l * Q \in Int /\ k + l \in Int
    BY <1>1, SMT
  <2>4. x = z + (k + l) * Q
    BY <2>1, <2>2, <2>3
  <2> QED BY <2>3, <2>4 DEF Congruent
<1> QED BY <1>2, <1>3, <1>4 DEF Congruent

(* Congruent terms have congruent sums.                                    *)
LEMMA TotalCongruent ==
  ASSUME NEW n \in Nat, NEW f, NEW g,
         \A i \in 0 .. n - 1 : f[i] \in Int /\ g[i] \in Int /\ Congruent(f[i], g[i])
  PROVE  Congruent(Total(f, n), Total(g, n))
<1> DEFINE S == {k \in Nat : k <= n => Congruent(Total(f, k), Total(g, k))}
<1>1. /\ Total(f, 0) = 0 /\ Total(g, 0) = 0
      /\ \A k \in 0 .. n : Total(f, k) \in Int /\ Total(g, k) \in Int
      /\ \A k \in 0 .. n - 1 : /\ Total(f, k + 1) = Total(f, k) + f[k]
                               /\ Total(g, k + 1) = Total(g, k) + g[k]
  BY TotalStep
<1>2. 0 \in S
  <2>1. Congruent(0, 0)
    BY CongruentOrder
  <2> QED BY <1>1, <2>1
<1>3. \A k \in S : k + 1 \in S
  <2> SUFFICES ASSUME NEW k \in S, k + 1 <= n
               PROVE  Congruent(Total(f, k + 1), Total(g, k + 1))
    OBVIOUS
  <2>1. k \in 0 .. n - 1 /\ k \in 0 .. n /\ Congruent(Total(f, k), Total(g, k))
    OBVIOUS
  <2>2. f[k] \in Int /\ g[k] \in Int /\ Congruent(f[k], g[k])
    BY <2>1
  <2>3. Total(f, k) \in Int /\ Total(g, k) \in Int
    BY <1>1, <2>1
  <2>4. Congruent(Total(f, k) + f[k], Total(g, k) + g[k])
    BY <2>1, <2>2, <2>3, CongruentSum
  <2> QED BY <1>1, <2>1, <2>4
<1>4. S = Nat
  <2> HIDE DEF S
  <2>1. S \subseteq Nat
    BY DEF S
  <2> QED BY <1>2, <1>3, <2>1, SetInduction
<1> QED BY <1>4

(* A double sum can be taken by rows or by columns.                        *)
LEMMA TotalSwap ==
  ASSUME NEW n \in Nat, NEW m \in Nat, NEW F,
         \A i \in 0 .. n - 1, j \in 0 .. m - 1 : F[i][j] \in Int
  PROVE  Total([i \in 0 .. n - 1 |-> Total(F[i], m)], n)
           = Total([j \in 0 .. m - 1 |-> Total([i \in 0 .. n - 1 |-> F[i][j]], n)], m)
<1> DEFINE R    == [i \in 0 .. n - 1 |-> Total(F[i], m)]
           C(j) == [i \in 0 .. n - 1 |-> F[i][j]]
           B(k) == [j \in 0 .. m - 1 |-> Total(C(j), k)]
           S    == {k \in Nat : k <= n => Total(R, k) = Total(B(k), m)}
<1>1. /\ Total(R, 0) = 0
      /\ \A i \in 0 .. n - 1 : R[i] = Total(F[i], m) /\ R[i] \in Int
      /\ \A k \in 0 .. n - 1 : Total(R, k + 1) = Total(R, k) + R[k]
  <2>1. \A i \in 0 .. n - 1 : Total(F[i], m) \in Int
    BY m \in 0 .. m, TotalStep
  <2>2. \A i \in 0 .. n - 1 : R[i] = Total(F[i], m) /\ R[i] \in Int
    BY <2>1
  <2> HIDE DEF R
  <2> QED BY <2>2, TotalStep
<1>2. ASSUME NEW j \in 0 .. m - 1
      PROVE  /\ Total(C(j), 0) = 0
             /\ \A k \in 0 .. n : Total(C(j), k) \in Int
             /\ \A k \in 0 .. n - 1 : Total(C(j), k + 1) = Total(C(j), k) + F[k][j]
  <2> DEFINE c == C(j)
  <2>1. \A i \in 0 .. n - 1 : c[i] \in Int /\ c[i] = F[i][j]
    OBVIOUS
  <2> HIDE DEF c
  <2>2. /\ Total(c, 0) = 0
        /\ \A k \in 0 .. n : Total(c, k) \in Int
        /\ \A k \in 0 .. n - 1 : Total(c, k + 1) = Total(c, k) + c[k]
    BY <2>1, TotalStep
  <2>3. \A k \in 0 .. n - 1 : Total(c, k + 1) = Total(c, k) + F[k][j]
    BY <2>1, <2>2
  <2> QED BY <2>2, <2>3 DEF c
<1>3. \A k \in 0 .. n, j \in 0 .. m - 1 : B(k)[j] = Total(C(j), k) /\ B(k)[j] \in Int
  BY <1>2
<1> HIDE DEF R, C, B
<1>4. 0 \in S
  <2>1. \A j \in 0 .. m - 1 : B(0)[j] \in Int /\ B(0)[j] = 0 * B(0)[j]
    BY <1>2, <1>3
  <2>2. Total(B(0), m) = 0 * Total(B(0), m)
    BY <2>1, TotalScale, 0 \in Int
  <2>3. Total(B(0), m) \in Int
    BY <2>1, m \in 0 .. m, TotalStep
  <2> QED BY <1>1, <2>2, <2>3
<1>5. \A k \in S : k + 1 \in S
  <2> SUFFICES ASSUME NEW k \in S, k + 1 <= n
               PROVE  Total(R, k + 1) = Total(B(k + 1), m)
    OBVIOUS
  <2>1. k \in 0 .. n - 1 /\ k \in 0 .. n /\ k + 1 \in 0 .. n /\ Total(R, k) = Total(B(k), m)
    OBVIOUS
  <2>2. \A j \in 0 .. m - 1 : /\ B(k)[j] \in Int /\ F[k][j] \in Int
                              /\ B(k + 1)[j] = B(k)[j] + F[k][j]
    BY <1>2, <1>3, <2>1
  <2>3. Total(B(k + 1), m) = Total(B(k), m) + Total(F[k], m)
    BY <2>2, TotalAdd
  <2> QED BY <1>1, <2>1, <2>3
<1>6. S = Nat
  <2> HIDE DEF S
  <2>1. S \subseteq Nat
    BY DEF S
  <2> QED BY <1>4, <1>5, <2>1, SetInduction
<1>7. Total(R, n) = Total(B(n), m)
  BY <1>6
<1> QED BY <1>7 DEF R, B, C

-----------------------------------------------------------------------------
(* Negacyclic products.                                                    *)

(* The coefficients of x, continued below zero: X^N = -1.                  *)
Around(x, k) ==
  IF k >= 0 THEN x[k] ELSE IF k >= -N THEN -x[N + k] ELSE x[2 * N + k]

(* The dimensions.                                                         *)
LEMMA Sizes ==
  N \in Nat /\ N > 0 /\ K \in Nat /\ K > 0 /\ L \in Nat /\ L > 0 /\ Omega \in Nat /\ Omega < N
BY HintEncodingAssumption, RingAssumption

(* Around is defined far enough below zero for a product of products.      *)
LEMMA AroundType ==
  ASSUME NEW x \in Poly(Int), NEW k \in Int, -(2 * N) <= k, k < N
  PROVE  Around(x, k) \in Int
<1>1. \A i \in Degrees : x[i] \in Int
  BY DEF Poly
<1>2. CASE k >= 0
  <2>1. k \in Degrees
    BY <1>2, Sizes DEF Degrees
  <2> QED BY <1>1, <1>2, <2>1 DEF Around
<1>3. CASE k < 0 /\ k >= -N
  <2>1. N + k \in Degrees
    BY <1>3, Sizes DEF Degrees
  <2> QED BY <1>1, <1>3, <2>1 DEF Around
<1>4. CASE k < -N
  <2>1. 2 * N + k \in Degrees /\ ~(k >= 0) /\ ~(k >= -N)
    BY <1>4, Sizes DEF Degrees
  <2> QED BY <1>1, <1>4, <2>1 DEF Around
<1> QED BY <1>2, <1>3, <1>4, Sizes

(* A coefficient of a product.                                             *)
Terms(a, x, k) == [i \in Degrees |-> a[i] * Around(x, k - i)]

(* The terms of a coefficient are integers.                                *)
LEMMA TermsType ==
  ASSUME NEW a \in Poly(Int), NEW x \in Poly(Int), NEW k \in Int, -N <= k, k < N
  PROVE  \A i \in 0 .. N - 1 : /\ a[i] \in Int /\ Around(x, k - i) \in Int
                               /\ Terms(a, x, k)[i] = a[i] * Around(x, k - i)
                               /\ Terms(a, x, k)[i] \in Int
<1> SUFFICES ASSUME NEW i \in 0 .. N - 1
             PROVE  a[i] \in Int /\ Around(x, k - i) \in Int /\ a[i] * Around(x, k - i) \in Int
  BY DEF Terms, Degrees
<1>1. a[i] \in Int
  BY DEF Poly, Degrees
<1>2. k - i \in Int /\ -(2 * N) <= k - i /\ k - i < N
  BY Sizes
<1>3. Around(x, k - i) \in Int
  BY <1>2, AroundType
<1> QED BY <1>1, <1>3

(* Product sums these terms.                                               *)
LEMMA ProductTerms ==
  ASSUME NEW a \in Poly(Int), NEW x \in Poly(Int), NEW n \in Degrees
  PROVE  Product(a, x)[n] = Total(Terms(a, x, n), N)
<1> DEFINE f == [i \in Degrees |-> IF i <= n THEN a[i] * x[n - i] ELSE -(a[i] * x[N + n - i])]
<1>1. Product(a, x)[n] = SumFunctionOnSet(f, DOMAIN f)
  BY DEF Product, SumFunction
<1>2. ASSUME NEW i \in Degrees PROVE f[i] = Terms(a, x, n)[i]
  <2>1. i \in Int /\ n \in Int /\ 0 <= i /\ i < N /\ 0 <= n /\ n < N
    BY Sizes DEF Degrees
  <2>2. CASE i <= n
    <3>1. n - i >= 0
      BY <2>1, <2>2
    <3> QED BY <2>2, <3>1 DEF Terms, Around
  <2>3. CASE ~(i <= n)
    <3>1. ~(n - i >= 0) /\ n - i >= -N /\ N + (n - i) = N + n - i /\ N + n - i \in Degrees
      BY <2>1, <2>3, Sizes DEF Degrees
    <3>2. a[i] \in Int /\ x[N + n - i] \in Int
      BY <3>1 DEF Poly
    <3>3. Terms(a, x, n)[i] = a[i] * (-x[N + n - i])
      BY <3>1 DEF Terms, Around
    <3>4. \A u, v \in Int : u * (-v) = -(u * v)
      BY SMT
    <3> QED BY <2>3, <3>2, <3>3, <3>4
  <2> QED BY <2>2, <2>3
<1>3. f = Terms(a, x, n) /\ DOMAIN f = 0 .. N - 1
  BY <1>2 DEF Terms, Degrees
<1> HIDE DEF f
<1> QED BY <1>1, <1>3 DEF Total

(* A product of integer polynomials is one.                                *)
LEMMA ProductType ==
  ASSUME NEW a \in Poly(Int), NEW x \in Poly(Int)
  PROVE  Product(a, x) \in Poly(Int)
<1>1. Product(a, x) = [n \in Degrees |-> Product(a, x)[n]]
  BY DEF Product
<1>2. ASSUME NEW n \in Degrees PROVE Product(a, x)[n] \in Int
  <2>1. n \in Int /\ -N <= n /\ n < N
    BY Sizes DEF Degrees
  <2>2. \A i \in 0 .. N - 1 : Terms(a, x, n)[i] \in Int
    BY <2>1, TermsType
  <2>3. Total(Terms(a, x, n), N) \in Int
    BY <2>2, Sizes, N \in 0 .. N, TotalStep
  <2> QED BY <2>3, ProductTerms
<1> QED BY <1>1, <1>2 DEF Poly

(* The coefficients of a product, continued below zero, are sums of terms  *)
(* too: both signs wrap together.                                          *)
LEMMA AroundProduct ==
  ASSUME NEW b \in Poly(Int), NEW x \in Poly(Int), NEW m \in Int, -N <= m, m < N
  PROVE  Around(Product(b, x), m) = Total(Terms(b, x, m), N)
<1>1. CASE m >= 0
  <2>1. m \in Degrees
    BY <1>1, Sizes DEF Degrees
  <2> QED BY <1>1, <2>1, ProductTerms DEF Around
<1>2. CASE m < 0
  <2> DEFINE k == N + m
  <2>1. k \in Degrees /\ k \in Int /\ -N <= k /\ k < N
    BY <1>2, Sizes DEF Degrees
  <2>2. Around(Product(b, x), m) = -Product(b, x)[k]
    BY <1>2, Sizes DEF Around
  <2>3. ASSUME NEW j \in 0 .. N - 1
        PROVE  Terms(b, x, k)[j] \in Int /\ Terms(b, x, m)[j] = (-1) * Terms(b, x, k)[j]
    <3>1. /\ b[j] \in Int /\ Around(x, m - j) \in Int /\ Around(x, k - j) \in Int
          /\ Terms(b, x, m)[j] = b[j] * Around(x, m - j)
          /\ Terms(b, x, k)[j] = b[j] * Around(x, k - j) /\ Terms(b, x, k)[j] \in Int
      <4> HIDE DEF k
      <4> QED BY <2>1, TermsType
    <3>2. Around(x, m - j) = -Around(x, k - j)
      <4>1. j \in Int /\ 0 <= j /\ j < N /\ m - j < 0 /\ N + (m - j) = k - j
        BY <1>2, Sizes
      <4>2. CASE m - j >= -N
        <5>1. k - j >= 0 /\ ~(m - j >= 0)
          BY <4>1, <4>2, Sizes
        <5> QED BY <4>1, <4>2, <5>1 DEF Around
      <4>3. CASE ~(m - j >= -N)
        <5>1. ~(k - j >= 0) /\ k - j >= -N /\ ~(m - j >= 0) /\ N + (k - j) = 2 * N + (m - j)
              /\ N + (k - j) \in Degrees
          BY <4>1, <4>3, Sizes DEF Degrees
        <5>2. x[N + (k - j)] \in Int
          BY <5>1 DEF Poly
        <5> QED BY <4>1, <4>3, <5>1, <5>2 DEF Around
      <4> QED BY <4>2, <4>3
    <3>3. \A u, v \in Int : u * (-v) = (-1) * (u * v)
      BY SMT
    <3> QED BY <3>1, <3>2, <3>3
  <2>4. Total(Terms(b, x, m), N) = (-1) * Total(Terms(b, x, k), N)
    BY <2>3, Sizes, TotalScale, -1 \in Int
  <2>5. Total(Terms(b, x, k), N) \in Int
    BY <2>3, Sizes, N \in 0 .. N, TotalStep
  <2>6. Product(b, x)[k] = Total(Terms(b, x, k), N)
    BY <2>1, ProductTerms
  <2> QED BY <2>2, <2>4, <2>5, <2>6
<1> QED BY <1>1, <1>2

(* The order of two factors of a third does not matter: both sides are the *)
(* sum of a[i] * b[j] * x[n - i - j] over all i and j.                     *)
LEMMA DoubleTerms ==
  ASSUME NEW a \in Poly(Int), NEW b \in Poly(Int), NEW x \in Poly(Int), NEW n \in Degrees
  PROVE  Product(a, Product(b, x))[n]
           = Total([i \in 0 .. N - 1 |->
                      Total([j \in 0 .. N - 1 |-> a[i] * (b[j] * Around(x, (n - i) - j))], N)], N)
<1> DEFINE F(i) == [j \in 0 .. N - 1 |-> a[i] * (b[j] * Around(x, (n - i) - j))]
           G    == [i \in 0 .. N - 1 |-> Total(F(i), N)]
           bx   == Product(b, x)
<1>1. bx \in Poly(Int)
  BY ProductType
<1>2. n \in Int /\ -N <= n /\ n < N /\ 0 <= n
  BY Sizes DEF Degrees
<1>3. ASSUME NEW i \in 0 .. N - 1
      PROVE  Terms(a, bx, n)[i] = Total(F(i), N) /\ Terms(a, bx, n)[i] \in Int
  <2> DEFINE m == n - i
             f == F(i)
  <2>1. m \in Int /\ -N <= m /\ m < N
    BY <1>2, Sizes
  <2>2. a[i] \in Int /\ Terms(a, bx, n)[i] = a[i] * Around(bx, m) /\ Terms(a, bx, n)[i] \in Int
    <3> HIDE DEF bx
    <3> QED BY <1>1, <1>2, TermsType
  <2>3. Around(bx, m) = Total(Terms(b, x, m), N)
    <3> HIDE DEF m
    <3> QED BY <2>1, AroundProduct
  <2>4. \A j \in 0 .. N - 1 : Terms(b, x, m)[j] \in Int /\ f[j] = a[i] * Terms(b, x, m)[j]
    <3>1. \A j \in 0 .. N - 1 : Terms(b, x, m)[j] \in Int
                                /\ Terms(b, x, m)[j] = b[j] * Around(x, m - j)
      <4> HIDE DEF m
      <4> QED BY <2>1, TermsType
    <3> QED BY <3>1
  <2>5. Total(f, N) = a[i] * Total(Terms(b, x, m), N)
    <3> HIDE DEF f, m
    <3> QED BY <2>2, <2>4, Sizes, TotalScale
  <2> QED BY <2>2, <2>3, <2>5
<1>4. Total(G, N) = Total(Terms(a, bx, n), N)
  <2>1. \A i \in 0 .. N - 1 : Terms(a, bx, n)[i] \in Int /\ G[i] = Terms(a, bx, n)[i]
    BY <1>3
  <2> HIDE DEF G, bx
  <2> QED BY <2>1, Sizes, TotalSame
<1>5. Product(a, bx)[n] = Total(Terms(a, bx, n), N)
  <2> HIDE DEF bx
  <2> QED BY <1>1, ProductTerms
<1> QED BY <1>4, <1>5

(* a(bx) = b(ax).                                                          *)
LEMMA ProductExchange ==
  ASSUME NEW a \in Poly(Int), NEW b \in Poly(Int), NEW x \in Poly(Int)
  PROVE  Product(a, Product(b, x)) = Product(b, Product(a, x))
<1>1. ASSUME NEW n \in Degrees
      PROVE  Product(a, Product(b, x))[n] = Product(b, Product(a, x))[n]
  <2> DEFINE F  == [i \in 0 .. N - 1 |-> [j \in 0 .. N - 1 |->
                      a[i] * (b[j] * Around(x, (n - i) - j))]]
             LL == [i \in 0 .. N - 1 |->
                      Total([j \in 0 .. N - 1 |-> a[i] * (b[j] * Around(x, (n - i) - j))], N)]
             RR == [j \in 0 .. N - 1 |->
                      Total([i \in 0 .. N - 1 |-> b[j] * (a[i] * Around(x, (n - j) - i))], N)]
  <2>1. n \in Int /\ 0 <= n /\ n < N
    BY Sizes DEF Degrees
  <2>2. ASSUME NEW i \in 0 .. N - 1, NEW j \in 0 .. N - 1
        PROVE  /\ F[i][j] \in Int
               /\ F[i][j] = b[j] * (a[i] * Around(x, (n - j) - i))
    <3>1. a[i] \in Int /\ b[j] \in Int
      BY DEF Poly, Degrees
    <3>2. (n - i) - j \in Int /\ -(2 * N) <= (n - i) - j /\ (n - i) - j < N
          /\ (n - j) - i = (n - i) - j
      BY <2>1, Sizes
    <3>3. Around(x, (n - i) - j) \in Int
      BY <3>2, AroundType
    <3>4. \A u, v, w \in Int : u * (v * w) = v * (u * w) /\ u * (v * w) \in Int
      BY SMT
    <3>5. F[i][j] = a[i] * (b[j] * Around(x, (n - i) - j))
      OBVIOUS
    <3> QED BY <3>1, <3>2, <3>3, <3>4, <3>5
  <2>3. LL = [i \in 0 .. N - 1 |-> Total(F[i], N)]
    OBVIOUS
  <2>4. RR = [j \in 0 .. N - 1 |-> Total([i \in 0 .. N - 1 |-> F[i][j]], N)]
    <3>1. \A j \in 0 .. N - 1 : [i \in 0 .. N - 1 |-> b[j] * (a[i] * Around(x, (n - j) - i))]
                                = [i \in 0 .. N - 1 |-> F[i][j]]
      BY <2>2
    <3> QED BY <3>1
  <2>5. Total(LL, N) = Total(RR, N)
    <3>1. \A i \in 0 .. N - 1, j \in 0 .. N - 1 : F[i][j] \in Int
      BY <2>2
    <3> HIDE DEF F, LL, RR
    <3> QED BY <2>3, <2>4, <3>1, Sizes, TotalSwap
  <2>6. Product(a, Product(b, x))[n] = Total(LL, N)
    BY DoubleTerms
  <2>7. Product(b, Product(a, x))[n] = Total(RR, N)
    BY DoubleTerms
  <2> QED BY <2>5, <2>6, <2>7
<1>2. /\ Product(a, Product(b, x)) \in Poly(Int)
      /\ Product(b, Product(a, x)) \in Poly(Int)
  BY ProductType
<1> QED BY <1>1, <1>2 DEF Poly

(* Products distribute over sums and keep congruences.                     *)
LEMMA ProductAdd ==
  ASSUME NEW a \in Poly(Int), NEW x \in Poly(Int), NEW y \in Poly(Int), NEW z \in Poly(Int),
         \A i \in Degrees : z[i] = x[i] + y[i]
  PROVE  \A n \in Degrees : Product(a, z)[n] = Product(a, x)[n] + Product(a, y)[n]
<1> SUFFICES ASSUME NEW n \in Degrees
             PROVE  Product(a, z)[n] = Product(a, x)[n] + Product(a, y)[n]
  OBVIOUS
<1>1. n \in Int /\ -N <= n /\ n < N /\ 0 <= n
  BY Sizes DEF Degrees
<1>2. \A i \in 0 .. N - 1 : x[i] \in Int /\ y[i] \in Int /\ z[i] = x[i] + y[i]
  BY DEF Poly, Degrees
<1>3. ASSUME NEW i \in 0 .. N - 1
      PROVE  /\ Terms(a, x, n)[i] \in Int /\ Terms(a, y, n)[i] \in Int
             /\ Terms(a, z, n)[i] = Terms(a, x, n)[i] + Terms(a, y, n)[i]
  <2>1. /\ a[i] \in Int /\ Around(x, n - i) \in Int /\ Around(y, n - i) \in Int
        /\ Terms(a, x, n)[i] = a[i] * Around(x, n - i) /\ Terms(a, x, n)[i] \in Int
        /\ Terms(a, y, n)[i] = a[i] * Around(y, n - i) /\ Terms(a, y, n)[i] \in Int
        /\ Terms(a, z, n)[i] = a[i] * Around(z, n - i)
    BY <1>1, TermsType
  <2>2. Around(z, n - i) = Around(x, n - i) + Around(y, n - i)
    <3>1. CASE n - i >= 0
      <4>1. n - i \in 0 .. N - 1
        BY <1>1, <3>1, Sizes
      <4> QED BY <1>2, <3>1, <4>1 DEF Around
    <3>2. CASE ~(n - i >= 0)
      <4>1. n - i >= -N /\ N + (n - i) \in 0 .. N - 1
        BY <1>1, <3>2, Sizes
      <4> QED BY <1>2, <3>2, <4>1 DEF Around
    <3> QED BY <3>1, <3>2
  <2>3. \A u, v, w \in Int : u * (v + w) = u * v + u * w
    BY SMT
  <2> QED BY <2>1, <2>2, <2>3
<1>4. Total(Terms(a, z, n), N) = Total(Terms(a, x, n), N) + Total(Terms(a, y, n), N)
  BY <1>3, Sizes, TotalAdd
<1> QED BY <1>4, ProductTerms

(* Congruent factors have congruent products.                              *)
LEMMA ProductCongruent ==
  ASSUME NEW a \in Poly(Int), NEW x \in Poly(Int), NEW y \in Poly(Int),
         \A i \in Degrees : Congruent(x[i], y[i])
  PROVE  \A n \in Degrees : Congruent(Product(a, x)[n], Product(a, y)[n])
<1> SUFFICES ASSUME NEW n \in Degrees
             PROVE  Congruent(Product(a, x)[n], Product(a, y)[n])
  OBVIOUS
<1>1. n \in Int /\ -N <= n /\ n < N /\ 0 <= n
  BY Sizes DEF Degrees
<1>2. \A i \in 0 .. N - 1 : x[i] \in Int /\ y[i] \in Int /\ Congruent(x[i], y[i])
  BY DEF Poly, Degrees
<1>3. ASSUME NEW i \in 0 .. N - 1
      PROVE  /\ Terms(a, x, n)[i] \in Int /\ Terms(a, y, n)[i] \in Int
             /\ Congruent(Terms(a, x, n)[i], Terms(a, y, n)[i])
  <2>1. /\ a[i] \in Int /\ Around(x, n - i) \in Int /\ Around(y, n - i) \in Int
        /\ Terms(a, x, n)[i] = a[i] * Around(x, n - i) /\ Terms(a, x, n)[i] \in Int
        /\ Terms(a, y, n)[i] = a[i] * Around(y, n - i) /\ Terms(a, y, n)[i] \in Int
    BY <1>1, TermsType
  <2>2. Congruent(Around(x, n - i), Around(y, n - i))
    <3>1. CASE n - i >= 0
      <4>1. n - i \in 0 .. N - 1
        BY <1>1, <3>1, Sizes
      <4> QED BY <1>2, <3>1, <4>1 DEF Around
    <3>2. CASE ~(n - i >= 0)
      <4> DEFINE k == N + (n - i)
      <4>1. n - i >= -N /\ k \in 0 .. N - 1
        BY <1>1, <3>2, Sizes
      <4>2. Around(x, n - i) = -x[k] /\ Around(y, n - i) = -y[k]
        BY <3>2, <4>1 DEF Around
      <4>3. x[k] \in Int /\ y[k] \in Int /\ Congruent(x[k], y[k])
        BY <1>2, <4>1
      <4> HIDE DEF k
      <4>4. Congruent((-1) * x[k], (-1) * y[k])
        BY <4>3, -1 \in Int, CongruentMultiple
      <4>5. (-1) * x[k] = -x[k] /\ (-1) * y[k] = -y[k]
        BY <4>3
      <4> QED BY <4>2, <4>4, <4>5
    <3> QED BY <3>1, <3>2
  <2> QED BY <2>1, <2>2, CongruentMultiple
<1>4. Congruent(Total(Terms(a, x, n), N), Total(Terms(a, y, n), N))
  BY <1>3, Sizes, TotalCongruent
<1> QED BY <1>4, ProductTerms

(* Sums of the polynomials of a row.                                       *)
LEMMA SumTotal ==
  ASSUME NEW p \in PolyVecL(Int), NEW n \in Degrees
  PROVE  /\ Sum(p)[n] = Total([j \in RowsL |-> p[j][n]], L)
         /\ \A j \in 0 .. L - 1 : p[j][n] \in Int /\ [k \in RowsL |-> p[k][n]][j] = p[j][n]
<1>1. DOMAIN p = RowsL
  BY DEF PolyVecL
<1>2. Sum(p)[n] = SumFunction([j \in RowsL |-> p[j][n]])
  BY <1>1 DEF Sum
<1>3. SumFunction([j \in RowsL |-> p[j][n]]) = Total([j \in RowsL |-> p[j][n]], L)
  BY DEF SumFunction, Total, RowsL
<1> QED BY <1>2, <1>3 DEF PolyVecL, Poly, RowsL

(* The sum of integer polynomials is one.                                  *)
LEMMA SumType ==
  ASSUME NEW p \in PolyVecL(Int)
  PROVE  Sum(p) \in Poly(Int)
<1>1. ASSUME NEW n \in Degrees PROVE Sum(p)[n] \in Int
  <2> DEFINE f == [j \in RowsL |-> p[j][n]]
  <2>1. \A j \in 0 .. L - 1 : f[j] \in Int
    BY SumTotal DEF RowsL
  <2>2. Sum(p)[n] = Total(f, L)
    BY SumTotal
  <2> HIDE DEF f
  <2> QED BY <2>1, <2>2, Sizes, L \in 0 .. L, TotalStep
<1> QED BY <1>1 DEF Poly, Sum

(* A product distributes over the sum of a row.                            *)
LEMMA ProductSum ==
  ASSUME NEW c \in Poly(Int), NEW p \in PolyVecL(Int)
  PROVE  Product(c, Sum(p)) = Sum([j \in RowsL |-> Product(c, p[j])])
<1> DEFINE Part(l) == [n \in Degrees |-> Total([j \in RowsL |-> p[j][n]], l)]
           cp      == [j \in RowsL |-> Product(c, p[j])]
           Col(n)  == [j \in RowsL |-> cp[j][n]]
           S       == {l \in Nat : l <= L =>
                         \A n \in Degrees : Product(c, Part(l))[n] = Total(Col(n), l)}
<1>1. /\ \A l \in 0 .. L, n \in Degrees : Part(l)[n] \in Int
      /\ \A l \in 0 .. L - 1, n \in Degrees : Part(l + 1)[n] = Part(l)[n] + p[l][n]
      /\ \A n \in Degrees : Part(0)[n] = 0 /\ Part(L)[n] = Sum(p)[n]
  <2> SUFFICES ASSUME NEW n \in Degrees
               PROVE  /\ \A l \in 0 .. L : Part(l)[n] \in Int
                      /\ \A l \in 0 .. L - 1 : Part(l + 1)[n] = Part(l)[n] + p[l][n]
                      /\ Part(0)[n] = 0 /\ Part(L)[n] = Sum(p)[n]
    OBVIOUS
  <2> DEFINE f == [j \in RowsL |-> p[j][n]]
  <2>1. \A j \in 0 .. L - 1 : f[j] \in Int /\ f[j] = p[j][n]
    BY SumTotal
  <2>2. \A l \in Nat : Part(l)[n] = Total(f, l)
    OBVIOUS
  <2>3. Sum(p)[n] = Total(f, L)
    BY SumTotal
  <2> HIDE DEF f, Part
  <2>4. /\ Total(f, 0) = 0
        /\ \A l \in 0 .. L : Total(f, l) \in Int
        /\ \A l \in 0 .. L - 1 : Total(f, l + 1) = Total(f, l) + f[l]
    BY <2>1, Sizes, TotalStep
  <2>5. \A l \in 0 .. L : l \in Nat /\ l + 1 \in Nat
    OBVIOUS
  <2> QED BY <2>1, <2>2, <2>3, <2>4, <2>5, Sizes
<1>2. \A l \in 0 .. L : Part(l) \in Poly(Int)
  BY <1>1 DEF Poly
<1>3. Part(L) = Sum(p)
  BY <1>1 DEF Sum
<1>4. cp \in PolyVecL(Int) /\ \A j \in RowsL : p[j] \in Poly(Int)
  BY ProductType DEF PolyVecL
<1>5. ASSUME NEW n \in Degrees
      PROVE  /\ Total(Col(n), 0) = 0
             /\ \A l \in 0 .. L - 1 :
                  Total(Col(n), l + 1) = Total(Col(n), l) + Product(c, p[l])[n]
             /\ Sum(cp)[n] = Total(Col(n), L)
  <2> DEFINE f == Col(n)
  <2>1. (\A j \in 0 .. L - 1 : f[j] \in Int /\ f[j] = cp[j][n]) /\ Sum(cp)[n] = Total(f, L)
    <3> HIDE DEF cp
    <3> QED BY <1>4, SumTotal
  <2>2. \A j \in 0 .. L - 1 : f[j] \in Int /\ f[j] = Product(c, p[j])[n]
    BY <2>1 DEF RowsL
  <2> HIDE DEF f
  <2>3. /\ Total(f, 0) = 0
        /\ \A l \in 0 .. L - 1 : Total(f, l + 1) = Total(f, l) + f[l]
    BY <2>2, Sizes, TotalStep
  <2> QED BY <2>1, <2>2, <2>3 DEF f
<1> HIDE DEF Part, Col, cp
<1>6. 0 \in S
  <2> SUFFICES ASSUME NEW n \in Degrees PROVE Product(c, Part(0))[n] = 0
    BY <1>5
  <2>1. Part(0) \in Poly(Int) /\ \A i \in Degrees : Part(0)[i] = Part(0)[i] + Part(0)[i]
    BY <1>1, <1>2, Sizes
  <2>2. Product(c, Part(0))[n] = Product(c, Part(0))[n] + Product(c, Part(0))[n]
    BY <2>1, ProductAdd
  <2>3. Product(c, Part(0))[n] \in Int
    BY <2>1, ProductType DEF Poly
  <2> DEFINE r == Product(c, Part(0))[n]
  <2>4. r = r + r /\ r \in Int
    BY <2>2, <2>3
  <2> HIDE DEF r
  <2>5. r = 0
    BY <2>4
  <2> QED BY <2>5 DEF r
<1>7. \A l \in S : l + 1 \in S
  <2> SUFFICES ASSUME NEW l \in S, l + 1 <= L, NEW n \in Degrees
               PROVE  Product(c, Part(l + 1))[n] = Total(Col(n), l + 1)
    OBVIOUS
  <2>1. l \in 0 .. L - 1 /\ l \in 0 .. L /\ l + 1 \in 0 .. L /\ l \in RowsL
        /\ Product(c, Part(l))[n] = Total(Col(n), l)
    <3>1. l \in Nat /\ l <= L
      BY Sizes
    <3> QED BY <3>1, Sizes DEF RowsL
  <2>2. /\ Part(l) \in Poly(Int) /\ Part(l + 1) \in Poly(Int) /\ p[l] \in Poly(Int)
        /\ \A i \in Degrees : Part(l + 1)[i] = Part(l)[i] + p[l][i]
    BY <1>1, <1>2, <1>4, <2>1
  <2>3. Product(c, Part(l + 1))[n] = Product(c, Part(l))[n] + Product(c, p[l])[n]
    BY <2>2, ProductAdd
  <2> QED BY <1>5, <2>1, <2>3
<1>8. S = Nat
  <2> HIDE DEF S
  <2>1. S \subseteq Nat
    BY DEF S
  <2> QED BY <1>6, <1>7, <2>1, SetInduction
<1>9. \A n \in Degrees : Product(c, Sum(p))[n] = Sum(cp)[n]
  <2>1. L \in Nat /\ L <= L
    BY Sizes
  <2>2. \A n \in Degrees : Product(c, Part(L))[n] = Total(Col(n), L)
    BY <1>8, <2>1
  <2> QED BY <1>3, <1>5, <2>2
<1>10. Product(c, Sum(p)) \in Poly(Int) /\ Sum(cp) \in Poly(Int)
  BY <1>4, SumType, ProductType
<1>11. Product(c, Sum(p)) = Sum(cp)
  BY <1>9, <1>10 DEF Poly
<1> QED BY <1>11 DEF cp

(* A factor of every entry is a factor of the row's product.               *)
LEMMA RowExchange ==
  ASSUME NEW A \in PolyVecL(Int), NEW s \in PolyVecL(Int), NEW c \in Poly(Int)
  PROVE  Sum([j \in RowsL |-> Product(A[j], Product(c, s[j]))])
           = Product(c, Sum([j \in RowsL |-> Product(A[j], s[j])]))
<1>1. \A j \in RowsL : A[j] \in Poly(Int) /\ s[j] \in Poly(Int)
  BY DEF PolyVecL
<1> DEFINE p == [j \in RowsL |-> Product(A[j], s[j])]
<1>2. p \in PolyVecL(Int) /\ \A j \in RowsL : p[j] = Product(A[j], s[j])
  BY <1>1, ProductType DEF PolyVecL
<1> HIDE DEF p
<1>3. Product(c, Sum(p)) = Sum([j \in RowsL |-> Product(c, p[j])])
  BY <1>2, ProductSum
<1>4. [j \in RowsL |-> Product(c, p[j])] = [j \in RowsL |-> Product(A[j], Product(c, s[j]))]
  BY <1>1, <1>2, ProductExchange
<1> QED BY <1>3, <1>4 DEF p

(* One row of a matrix times a vector.                                     *)
RowProduct(A, v) == Sum([j \in RowsL |-> Product(A[j], v[j])])

(* A row times a vector is an integer polynomial.                          *)
LEMMA RowType ==
  ASSUME NEW A \in PolyVecL(Int), NEW v \in PolyVecL(Int)
  PROVE  /\ RowProduct(A, v) \in Poly(Int)
         /\ [j \in RowsL |-> Product(A[j], v[j])] \in PolyVecL(Int)
<1>1. [j \in RowsL |-> Product(A[j], v[j])] \in PolyVecL(Int)
  BY ProductType DEF PolyVecL
<1> QED BY <1>1, SumType DEF RowProduct

(* w is u + v.                                                             *)
IsSum(w, u, v) == \A j \in RowsL, n \in Degrees : w[j][n] = u[j][n] + v[j][n]

(* A row times a sum of vectors is the sum of the products.                *)
LEMMA RowAdd ==
  ASSUME NEW A \in PolyVecL(Int), NEW u \in PolyVecL(Int), NEW v \in PolyVecL(Int),
         NEW w \in PolyVecL(Int), IsSum(w, u, v)
  PROVE  \A n \in Degrees : RowProduct(A, w)[n] = RowProduct(A, u)[n] + RowProduct(A, v)[n]
<1> SUFFICES ASSUME NEW n \in Degrees
             PROVE  RowProduct(A, w)[n] = RowProduct(A, u)[n] + RowProduct(A, v)[n]
  OBVIOUS
<1> DEFINE R(x) == [j \in RowsL |-> Product(A[j], x[j])]
           C(x) == [j \in RowsL |-> R(x)[j][n]]
<1>1. \A x \in PolyVecL(Int) : /\ RowProduct(A, x)[n] = Total(C(x), L)
                               /\ \A j \in 0 .. L - 1 : C(x)[j] \in Int
  <2> SUFFICES ASSUME NEW x \in PolyVecL(Int)
               PROVE  /\ RowProduct(A, x)[n] = Total(C(x), L)
                      /\ \A j \in 0 .. L - 1 : C(x)[j] \in Int
    OBVIOUS
  <2>1. R(x) \in PolyVecL(Int) /\ RowProduct(A, x) = Sum(R(x))
    BY RowType DEF RowProduct
  <2> HIDE DEF R
  <2> QED BY <2>1, SumTotal
<1>2. \A j \in 0 .. L - 1 : C(w)[j] = C(u)[j] + C(v)[j]
  <2> SUFFICES ASSUME NEW j \in RowsL
               PROVE  Product(A[j], w[j])[n] = Product(A[j], u[j])[n] + Product(A[j], v[j])[n]
    BY DEF RowsL
  <2>1. A[j] \in Poly(Int) /\ u[j] \in Poly(Int) /\ v[j] \in Poly(Int) /\ w[j] \in Poly(Int)
    BY DEF PolyVecL
  <2>2. \A k \in Degrees : w[j][k] = u[j][k] + v[j][k]
    BY DEF IsSum
  <2> QED BY <2>1, <2>2, ProductAdd
<1> HIDE DEF C
<1>3. Total(C(w), L) = Total(C(u), L) + Total(C(v), L)
  BY <1>1, <1>2, Sizes, TotalAdd
<1> QED BY <1>1, <1>3

(* A row times congruent vectors gives congruent products.                 *)
LEMMA RowCongruent ==
  ASSUME NEW A \in PolyVecL(Int), NEW u \in PolyVecL(Int), NEW v \in PolyVecL(Int),
         \A j \in RowsL, n \in Degrees : Congruent(u[j][n], v[j][n])
  PROVE  \A n \in Degrees : Congruent(RowProduct(A, u)[n], RowProduct(A, v)[n])
<1> SUFFICES ASSUME NEW n \in Degrees
             PROVE  Congruent(RowProduct(A, u)[n], RowProduct(A, v)[n])
  OBVIOUS
<1> DEFINE R(x) == [j \in RowsL |-> Product(A[j], x[j])]
           C(x) == [j \in RowsL |-> R(x)[j][n]]
<1>1. \A x \in PolyVecL(Int) : /\ RowProduct(A, x)[n] = Total(C(x), L)
                               /\ \A j \in 0 .. L - 1 : C(x)[j] \in Int
  <2> SUFFICES ASSUME NEW x \in PolyVecL(Int)
               PROVE  /\ RowProduct(A, x)[n] = Total(C(x), L)
                      /\ \A j \in 0 .. L - 1 : C(x)[j] \in Int
    OBVIOUS
  <2>1. R(x) \in PolyVecL(Int) /\ RowProduct(A, x) = Sum(R(x))
    BY RowType DEF RowProduct
  <2> HIDE DEF R
  <2> QED BY <2>1, SumTotal
<1>2. \A j \in 0 .. L - 1 : Congruent(C(u)[j], C(v)[j])
  <2> SUFFICES ASSUME NEW j \in RowsL
               PROVE  Congruent(Product(A[j], u[j])[n], Product(A[j], v[j])[n])
    BY DEF RowsL
  <2>1. A[j] \in Poly(Int) /\ u[j] \in Poly(Int) /\ v[j] \in Poly(Int)
    BY DEF PolyVecL
  <2> QED BY <2>1, ProductCongruent
<1> HIDE DEF C
<1>3. Congruent(Total(C(u), L), Total(C(v), L))
  BY <1>1, <1>2, Sizes, TotalCongruent
<1> QED BY <1>1, <1>3

(* The identity of the scheme: what the verifier computes from z and t1 is *)
(* w - c*s2 + c*t0, coefficient by coefficient modulo Q, for every matrix, *)
(* challenge, mask and secrets (sign.go:270-289 against 144-195).          *)
THEOREM VerifierSum ==
  ASSUME NEW A \in PolyVecL(Int), NEW c \in Poly(Int),
         NEW y \in PolyVecL(Int), NEW z \in PolyVecL(Int), NEW s1 \in PolyVecL(Int),
         NEW s2 \in Poly(Int), NEW t0 \in Poly(Int), NEW t1 \in Poly(Int),
         \A j \in RowsL, n \in Degrees : Congruent(z[j][n], y[j][n] + Product(c, s1[j])[n]),
         \A n \in Degrees : Congruent(t1[n] + t0[n], RowProduct(A, s1)[n] + s2[n])
  PROVE  \A n \in Degrees :
           Congruent(RowProduct(A, z)[n] - Product(c, t1)[n],
                     RowProduct(A, y)[n] - Product(c, s2)[n] + Product(c, t0)[n])
<1> DEFINE cs == [j \in RowsL |-> Product(c, s1[j])]
           u  == [j \in RowsL |-> [n \in Degrees |-> y[j][n] + cs[j][n]]]
           e  == [n \in Degrees |-> RowProduct(A, s1)[n] + s2[n] - t0[n]]
           f  == [n \in Degrees |-> RowProduct(A, s1)[n] + s2[n]]
<1>1. cs \in PolyVecL(Int)
  BY ProductType DEF PolyVecL
<1>2. u \in PolyVecL(Int) /\ \A j \in RowsL, n \in Degrees :
                               u[j][n] = y[j][n] + cs[j][n] /\ Congruent(z[j][n], u[j][n])
  <2>1. \A j \in RowsL, n \in Degrees : y[j][n] \in Int /\ cs[j][n] \in Int
    <3> HIDE DEF cs
    <3> QED BY <1>1 DEF PolyVecL, Poly
  <2> QED BY <2>1 DEF PolyVecL, Poly
<1>3. RowProduct(A, cs) = Product(c, RowProduct(A, s1))
  <2>1. RowProduct(A, cs) = Sum([j \in RowsL |-> Product(A[j], Product(c, s1[j]))])
    BY DEF RowProduct
  <2> QED BY <2>1, RowExchange DEF RowProduct
<1>4. RowProduct(A, s1) \in Poly(Int) /\ RowProduct(A, y) \in Poly(Int)
      /\ RowProduct(A, z) \in Poly(Int) /\ RowProduct(A, u) \in Poly(Int)
  <2> HIDE DEF u
  <2> QED BY <1>2, RowType
<1>5. e \in Poly(Int) /\ f \in Poly(Int)
      /\ \A n \in Degrees : /\ f[n] = e[n] + t0[n]
                            /\ f[n] = RowProduct(A, s1)[n] + s2[n]
                            /\ Congruent(t1[n], e[n])
  <2>1. \A n \in Degrees : RowProduct(A, s1)[n] \in Int /\ s2[n] \in Int /\ t0[n] \in Int
                           /\ t1[n] \in Int
    BY <1>4 DEF Poly
  <2>2. e \in Poly(Int) /\ f \in Poly(Int)
    BY <2>1 DEF Poly
  <2>3. ASSUME NEW n \in Degrees
        PROVE  /\ f[n] = e[n] + t0[n] /\ f[n] = RowProduct(A, s1)[n] + s2[n]
               /\ Congruent(t1[n], e[n])
    <3> DEFINE r == RowProduct(A, s1)[n]
    <3>1. r \in Int /\ s2[n] \in Int /\ t0[n] \in Int /\ t1[n] \in Int
          /\ e[n] = r + s2[n] - t0[n] /\ f[n] = r + s2[n] /\ Congruent(t1[n] + t0[n], r + s2[n])
      BY <2>1
    <3> HIDE DEF r, e, f
    <3>2. Congruent(t0[n], t0[n])
      BY <3>1, CongruentOrder
    <3>3. r + s2[n] \in Int /\ t1[n] + t0[n] \in Int
      BY <3>1
    <3>4. Congruent((t1[n] + t0[n]) - t0[n], (r + s2[n]) - t0[n])
      BY <3>1, <3>2, <3>3, CongruentSum
    <3>5. (t1[n] + t0[n]) - t0[n] = t1[n] /\ (r + s2[n]) - t0[n] = e[n] /\ f[n] = e[n] + t0[n]
      BY <3>1
    <3> QED BY <3>1, <3>4, <3>5 DEF r
  <2> QED BY <2>2, <2>3
<1> HIDE DEF cs, u, e, f
<1>6. ASSUME NEW n \in Degrees
      PROVE  Congruent(RowProduct(A, z)[n] - Product(c, t1)[n],
                     RowProduct(A, y)[n] - Product(c, s2)[n] + Product(c, t0)[n])
  <2> DEFINE Az == RowProduct(A, z)[n]
             Au == RowProduct(A, u)[n]
             Ay == RowProduct(A, y)[n]
             X  == Product(c, RowProduct(A, s1))[n]
             T  == Product(c, t1)[n]
             E  == Product(c, e)[n]
             F  == Product(c, f)[n]
             D  == Product(c, s2)[n]
             H  == Product(c, t0)[n]
  <2>1. /\ Az \in Int /\ Au \in Int /\ Ay \in Int /\ X \in Int /\ T \in Int /\ E \in Int
        /\ F \in Int /\ D \in Int /\ H \in Int
    BY <1>4, <1>5, ProductType DEF Poly
  <2>2. Congruent(Az, Au)
    BY <1>2, RowCongruent
  <2>3. Au = Ay + X
    <3>1. IsSum(u, y, cs) /\ u \in PolyVecL(Int)
      BY <1>2 DEF IsSum
    <3>2. \A k \in Degrees : RowProduct(A, u)[k] = RowProduct(A, y)[k] + RowProduct(A, cs)[k]
      BY <1>1, <3>1, RowAdd
    <3> QED BY <1>3, <3>2
  <2>4. Congruent(T, E)
    BY <1>5, ProductCongruent
  <2>5. F = E + H
    BY <1>5, ProductAdd
  <2>6. F = X + D
    <3> DEFINE r == RowProduct(A, s1)
    <3>1. r \in Poly(Int) /\ \A k \in Degrees : f[k] = r[k] + s2[k]
      BY <1>4, <1>5
    <3> HIDE DEF r
    <3>2. \A k \in Degrees : Product(c, f)[k] = Product(c, r)[k] + Product(c, s2)[k]
      BY <1>5, <3>1, ProductAdd
    <3> QED BY <3>2 DEF r
  <2> HIDE DEF Az, Au, Ay, X, T, E, F, D, H
  <2>7. Congruent(Az - T, Au - E)
    BY <2>1, <2>2, <2>4, CongruentSum
  <2>8. Au - E = Ay - D + H
    BY <2>1, <2>3, <2>5, <2>6
  <2>9. Congruent(Az - T, Ay - D + H)
    BY <2>7, <2>8
  <2> QED BY <2>9 DEF Az, T, Ay, D, H
<1> QED BY <1>6

-----------------------------------------------------------------------------
(* Representatives of a residue.                                           *)

(* reduce32 changes a by a multiple of Q (reduce.go:14-17).                *)
LEMMA Reduce32Spec ==
  ASSUME NEW a \in Int
  PROVE  reduce32(a) \in Int /\ Congruent(reduce32(a), a)
<1> DEFINE k == (a + RedUnit \div 2) \div RedUnit
<1>1. Q \in Int /\ RedUnit \in Nat /\ RedUnit > 1
  BY Modulus, RoundingAssumption
<1>2. RedUnit \div 2 \in Int
  BY <1>1, SMT
<1>3. k \in Int
  <2>1. a + RedUnit \div 2 \in Int
    BY <1>2
  <2> QED BY <1>1, <2>1, FloorDivision
<1>4. reduce32(a) = a - k * Q
  BY DEF reduce32
<1> HIDE DEF k
<1>5. -k \in Int /\ k * Q \in Int /\ a - k * Q = a + (-k) * Q
  BY <1>1, <1>3, SMT
<1> QED BY <1>4, <1>5 DEF Congruent

(* The remainder is the standard representative.                           *)
LEMMA StandardSpec ==
  ASSUME NEW a \in Int
  PROVE  a % Q \in Standard /\ a % Q \in Int /\ Congruent(a % Q, a)
<1>1. Q \in Nat /\ Q > 0
  BY Modulus
<1>2. /\ a % Q \in Int /\ 0 <= a % Q /\ a % Q < Q
      /\ a \div Q \in Int /\ a = Q * (a \div Q) + (a % Q)
  BY <1>1, Remainder
<1> DEFINE k == a \div Q
           r == a % Q
<1> HIDE DEF k, r
<1>3. /\ r \in Int /\ 0 <= r /\ r < Q /\ k \in Int /\ a = Q * k + r
  BY <1>2 DEF k, r
<1>4. r \in Standard
  BY <1>1, <1>3 DEF Standard
<1>5. -k \in Int /\ r = a + (-k) * Q
  BY <1>1, <1>3, SMT
<1>6. Congruent(r, a)
  BY <1>5 DEF Congruent
<1> QED BY <1>3, <1>4, <1>6 DEF r

(* The representative of the inverse NTT.                                  *)
LEMMA CentredSpec ==
  ASSUME NEW a \in Int
  PROVE  /\ centred(a) \in Int /\ Congruent(centred(a), a)
         /\ -(Gamma2 * Buckets) <= centred(a) /\ centred(a) <= Gamma2 * Buckets
<1> DEFINE P == Gamma2 * Buckets
           r == (a + P) % Q
<1>1. P \in Int /\ (Q - 1) \div 2 = P /\ Q = 2 * P + 1 /\ Q \in Int
  BY Modulus
<1>2. centred(a) = r - P
  BY <1>1 DEF centred
<1> HIDE DEF P
<1>3. r \in Standard /\ r \in Int /\ Congruent(r, a + P)
  BY <1>1, StandardSpec
<1>4. 0 <= r /\ r < Q
  BY <1>3, StandardInterval
<1> HIDE DEF r
<1>5. Congruent(r - P, (a + P) - P)
  BY <1>1, <1>3, CongruentSum, CongruentOrder
<1>6. (a + P) - P = a
  BY <1>1
<1> QED BY <1>1, <1>2, <1>3, <1>4, <1>5, <1>6 DEF P

(* And its neighbour.                                                      *)
LEMMA NeighbourSpec ==
  ASSUME NEW a \in Int
  PROVE  neighbour(a) \in Int /\ Congruent(neighbour(a), a)
<1> DEFINE r == centred(a)
<1>1. r \in Int /\ Congruent(r, a) /\ Q \in Int
  BY CentredSpec, Modulus
<1>2. neighbour(a) = IF r > 0 THEN r - Q ELSE r + Q
  BY DEF neighbour
<1> HIDE DEF r
<1>3. r - Q = r + (-1) * Q /\ r + Q = r + 1 * Q
  BY <1>1
<1>4. Congruent(r - Q, r) /\ Congruent(r + Q, r)
  BY <1>1, <1>3 DEF Congruent
<1>5. neighbour(a) \in Int /\ Congruent(neighbour(a), r)
  BY <1>1, <1>2, <1>4
<1> QED BY <1>1, <1>5, CongruentOrder

(* caddq makes a standard representative of anything between -Q and Q.     *)
LEMMA CaddqSpec ==
  ASSUME NEW a \in Int
  PROVE  /\ caddq(a) \in Int /\ Congruent(caddq(a), a)
         /\ -Q <= a /\ a < Q => caddq(a) \in Standard
<1>1. Q \in Int /\ Q > 0
  BY Modulus
<1>2. CASE a < 0
  <2>1. caddq(a) = a + 1 * Q
    BY <1>1, <1>2, SMT DEF caddq
  <2>2. caddq(a) \in Int /\ (-Q <= a => 0 <= caddq(a) /\ caddq(a) <= Q - 1)
    BY <1>1, <1>2, <2>1, SMT
  <2> QED BY <1>1, <2>1, <2>2 DEF Congruent, Standard
<1>3. CASE ~(a < 0)
  <2>1. caddq(a) = a
    BY <1>3 DEF caddq
  <2> QED BY <1>1, <1>3, <2>1, CongruentOrder DEF Standard
<1> QED BY <1>2, <1>3

(* Two standard representatives of one residue are equal.                  *)
LEMMA StandardUnique ==
  ASSUME NEW x \in Standard, NEW y \in Standard, Congruent(x, y)
  PROVE  x = y
<1>1. Q \in Int /\ Q > 0
  BY Modulus
<1>2. /\ x \in Int /\ 0 <= x /\ x < Q
      /\ y \in Int /\ 0 <= y /\ y < Q
  BY StandardInterval
<1>3. PICK k \in Int : x = y + k * Q
  BY DEF Congruent
<1>4. 0 * Q + x = k * Q + y
  BY <1>1, <1>2, <1>3, SMT
<1>5. 0 = k
  BY <1>1, <1>2, <1>4, QuotientUnique
<1> QED BY <1>1, <1>2, <1>4, <1>5, SMT

-----------------------------------------------------------------------------
(* Packed fields.                                                          *)

(* A field that has room for every distance from the top keeps it exactly. *)
LEMMA FieldExact ==
  ASSUME NEW top \in Int, NEW width \in Nat, NEW x \in Int,
         0 <= top - x, top - x < width
  PROVE  /\ (top - x) % width = top - x
         /\ top - ((top - x) % width) = x
         /\ (top - x) % width \in 0 .. width - 1
<1> DEFINE d == top - x
<1>1. d \in Int /\ 0 <= d /\ d < width
  OBVIOUS
<1>2. d % width = d
  <2> HIDE DEF d
  <2> QED BY <1>1, SMT
<1>3. top - d = x
  OBVIOUS
<1> HIDE DEF d
<1>4. d \in 0 .. width - 1
  BY <1>1
<1> QED BY <1>2, <1>3, <1>4 DEF d

(* PolyEtaUnpack gives the secret vector that PolyEtaPack packed           *)
(* (poly.go:269-315), for the rows of either vector.                       *)
LEMMA EtaRoundTrip ==
  ASSUME NEW R, NEW v \in [R -> Poly(-Eta .. Eta)]
  PROVE  /\ PolyEtaPack(v) \in [R -> Poly(0 .. EtaWidth - 1)]
         /\ PolyEtaUnpack(PolyEtaPack(v)) = v
<1>1. Eta \in Int /\ EtaWidth \in Nat /\ 2 * Eta < EtaWidth
  BY RingAssumption
<1>2. ASSUME NEW i \in R, NEW n \in Degrees
      PROVE  /\ (Eta - v[i][n]) % EtaWidth \in 0 .. EtaWidth - 1
             /\ Eta - ((Eta - v[i][n]) % EtaWidth) = v[i][n]
  <2>1. v[i][n] \in -Eta .. Eta
    BY DEF Poly
  <2>2. v[i][n] \in Int /\ 0 <= Eta - v[i][n] /\ Eta - v[i][n] < EtaWidth
    BY <1>1, <2>1
  <2> QED BY <1>1, <2>2, FieldExact
<1>3. DOMAIN v = R /\ v = [i \in R |-> [n \in Degrees |-> v[i][n]]]
  BY DEF Poly
<1>4. PolyEtaPack(v) = [i \in R |-> [n \in Degrees |-> (Eta - v[i][n]) % EtaWidth]]
  BY <1>3 DEF PolyEtaPack, Map
<1>5. PolyEtaUnpack(PolyEtaPack(v))
        = [i \in R |-> [n \in Degrees |-> Eta - ((Eta - v[i][n]) % EtaWidth)]]
  BY <1>4 DEF PolyEtaUnpack, Map
<1>6. [i \in R |-> [n \in Degrees |-> Eta - ((Eta - v[i][n]) % EtaWidth)]]
        = [i \in R |-> [n \in Degrees |-> v[i][n]]]
  BY <1>2
<1>7. PolyEtaUnpack(PolyEtaPack(v)) = v
  BY <1>3, <1>5, <1>6
<1>8. PolyEtaPack(v) \in [R -> Poly(0 .. EtaWidth - 1)]
  <2>1. \A i \in R : [n \in Degrees |-> (Eta - v[i][n]) % EtaWidth] \in Poly(0 .. EtaWidth - 1)
    BY <1>2 DEF Poly
  <2> QED BY <1>4, <2>1
<1> QED BY <1>7, <1>8

(* The same of PolyZPack, for what passes the norm test (poly.go:415-490). *)
LEMMA ZRoundTrip ==
  ASSUME NEW R, NEW v \in [R -> Poly(Int)],
         \A i \in R, n \in Degrees : -Gamma1 < v[i][n] /\ v[i][n] <= Gamma1
  PROVE  /\ PolyZPack(v) \in [R -> Poly(0 .. 2 * Gamma1 - 1)]
         /\ PolyZUnpack(PolyZPack(v)) = v
<1>1. Gamma1 \in Int /\ 2 * Gamma1 \in Nat
  BY RingAssumption
<1>2. ASSUME NEW i \in R, NEW n \in Degrees
      PROVE  /\ (Gamma1 - v[i][n]) % (2 * Gamma1) \in 0 .. 2 * Gamma1 - 1
             /\ Gamma1 - ((Gamma1 - v[i][n]) % (2 * Gamma1)) = v[i][n]
  <2>1. v[i][n] \in Int
    BY DEF Poly
  <2>2. 0 <= Gamma1 - v[i][n] /\ Gamma1 - v[i][n] < 2 * Gamma1
    BY <1>1, <2>1
  <2> QED BY <1>1, <2>1, <2>2, FieldExact
<1>3. DOMAIN v = R /\ v = [i \in R |-> [n \in Degrees |-> v[i][n]]]
  BY DEF Poly
<1>4. PolyZPack(v) = [i \in R |-> [n \in Degrees |-> (Gamma1 - v[i][n]) % (2 * Gamma1)]]
  BY <1>3 DEF PolyZPack, Map
<1>5. PolyZUnpack(PolyZPack(v))
        = [i \in R |-> [n \in Degrees |-> Gamma1 - ((Gamma1 - v[i][n]) % (2 * Gamma1))]]
  BY <1>4 DEF PolyZUnpack, Map
<1>6. [i \in R |-> [n \in Degrees |-> Gamma1 - ((Gamma1 - v[i][n]) % (2 * Gamma1))]]
        = [i \in R |-> [n \in Degrees |-> v[i][n]]]
  BY <1>2
<1>7. PolyZUnpack(PolyZPack(v)) = v
  BY <1>3, <1>5, <1>6
<1>8. PolyZPack(v) \in [R -> Poly(0 .. 2 * Gamma1 - 1)]
  <2>1. \A i \in R : [n \in Degrees |-> (Gamma1 - v[i][n]) % (2 * Gamma1)] \in Poly(0 .. 2 * Gamma1 - 1)
    BY <1>2 DEF Poly
  <2> QED BY <1>4, <2>1
<1> QED BY <1>7, <1>8

(* Both halves of power2round of a standard representative fit the fields  *)
(* of the keys: PolyT1Pack drops no bit, and PolyT0Unpack restores t0      *)
(* (poly.go:319-412).                                                      *)
LEMMA HalvesExact ==
  ASSUME NEW a \in Standard
  PROVE  \E p, e \in Int :
           /\ power2round(a) = <<p, e>> /\ a = p * TwoD + e
           /\ p % T1Width = p /\ p \in 0 .. T1Width - 1
           /\ (TwoD \div 2 - e) % TwoD \in 0 .. TwoD - 1
           /\ TwoD \div 2 - ((TwoD \div 2 - e) % TwoD) = e
<1> DEFINE t == TwoD \div 2
<1>1. /\ TwoD \in Nat /\ TwoD > 1 /\ TwoD = 2 * t /\ t \in Nat /\ t > 0
      /\ T1Width \in Nat /\ Q \in Int /\ Q + t - 2 < T1Width * TwoD
  <2>1. TwoD \in Nat /\ TwoD > 1 /\ T1Width \in Nat /\ Q \in Int
    BY Modulus, RoundingAssumption, RingAssumption
  <2>2. TwoD = 2 * t /\ Q + t - 2 < T1Width * TwoD
    BY RingAssumption
  <2>3. t \in Int
    BY <2>1, FloorDivision
  <2> HIDE DEF t
  <2> QED BY <2>1, <2>2, <2>3
<1>2. a \in Int /\ 0 <= a /\ a < Q
  BY StandardInterval
<1> HIDE DEF t
<1>3. PICK p, e \in Int : /\ power2round(a) = <<p, e>>
                          /\ a = p * TwoD + e /\ -t < e /\ e <= t
  BY <1>1, <1>2, Power2RoundSpec
<1>4. p * TwoD = a - e /\ p * TwoD \in Int /\ p * TwoD < T1Width * TwoD /\ p * TwoD > -TwoD
  <2>1. p * TwoD \in Int /\ T1Width * TwoD \in Int
    BY <1>1, SMT
  <2> DEFINE pw == p * TwoD
             tw == T1Width * TwoD
  <2>2. pw \in Int /\ tw \in Int /\ a = pw + e /\ Q + t - 2 < tw
    BY <2>1, <1>1, <1>3
  <2> HIDE DEF pw, tw
  <2>3. pw = a - e /\ pw < tw /\ pw > -TwoD
    BY <1>1, <1>2, <1>3, <2>2, SMT
  <2> QED BY <2>2, <2>3 DEF pw, tw
<1>5. p < T1Width
  <2>1. CASE T1Width <= p
    <3>1. T1Width * TwoD <= p * TwoD
      BY <1>1, <2>1, ProductMonotone
    <3>2. T1Width * TwoD \in Int
      BY <1>1, SMT
    <3> QED BY <1>4, <3>1, <3>2
  <2> QED BY <1>1, <2>1
<1>6. 0 <= p
  <2>1. CASE p <= -1
    <3>1. p * TwoD <= (-1) * TwoD
      BY <1>1, <2>1, ProductMonotone
    <3>2. (-1) * TwoD = -TwoD
      BY <1>1, SMT
    <3> QED BY <1>1, <1>4, <3>1, <3>2
  <2> QED BY <2>1
<1>7. p % T1Width = p /\ p \in 0 .. T1Width - 1
  <2>1. p % T1Width = p
    BY <1>1, <1>5, <1>6, SMT
  <2> QED BY <1>1, <1>5, <1>6, <2>1
<1>8. /\ (t - e) % TwoD \in 0 .. TwoD - 1
      /\ t - ((t - e) % TwoD) = e
  <2>1. 0 <= t - e /\ t - e < TwoD /\ t \in Int /\ e \in Int /\ TwoD \in Nat
    BY <1>1, <1>3
  <2> QED BY <2>1, FieldExact
<1> QED BY <1>3, <1>7, <1>8 DEF t

-----------------------------------------------------------------------------
(* The vector operations, coefficient by coefficient, for vectors of       *)
(* either kind: R is RowsK or RowsL.                                       *)

(* Every coefficient of u is congruent to that of v.                       *)
SameResidues(R, u, v) == \A i \in R, n \in Degrees : Congruent(u[i][n], v[i][n])

(* Being congruent is transitive for vectors too.                          *)
LEMMA SameResiduesChain ==
  ASSUME NEW R, NEW u \in [R -> Poly(Int)], NEW v \in [R -> Poly(Int)],
         NEW x \in [R -> Poly(Int)], SameResidues(R, u, v), SameResidues(R, v, x)
  PROVE  SameResidues(R, u, x)
<1> SUFFICES ASSUME NEW i \in R, NEW n \in Degrees PROVE Congruent(u[i][n], x[i][n])
  BY DEF SameResidues
<1>1. u[i][n] \in Int /\ v[i][n] \in Int /\ x[i][n] \in Int
  BY DEF Poly
<1>2. Congruent(u[i][n], v[i][n]) /\ Congruent(v[i][n], x[i][n])
  BY DEF SameResidues
<1> QED BY <1>1, <1>2, CongruentOrder

(* PolyVec*Reduce keeps the residues (polyvec.go:59-65, 131-137).          *)
LEMMA ReduceVec ==
  ASSUME NEW R, NEW v \in [R -> Poly(Int)]
  PROVE  PolyVecReduce(v) \in [R -> Poly(Int)] /\ SameResidues(R, PolyVecReduce(v), v)
<1>1. \A i \in R, n \in Degrees : v[i][n] \in Int
  BY DEF Poly
<1>2. PolyVecReduce(v) = [i \in R |-> [n \in Degrees |-> reduce32(v[i][n])]]
  BY DEF PolyVecReduce, Map
<1>3. \A i \in R, n \in Degrees : reduce32(v[i][n]) \in Int /\ Congruent(reduce32(v[i][n]), v[i][n])
  BY <1>1, Reduce32Spec
<1> QED BY <1>2, <1>3 DEF SameResidues, Poly

(* So does the inverse NTT, which also bounds them (polyvec.go:83-89,      *)
(* 179-185).                                                               *)
LEMMA InvNTTVec ==
  ASSUME NEW R, NEW v \in [R -> Poly(Int)]
  PROVE  /\ PolyVecInvNTT(v) \in [R -> Poly(Int)] /\ SameResidues(R, PolyVecInvNTT(v), v)
         /\ \A i \in R, n \in Degrees : /\ -InvBound <= PolyVecInvNTT(v)[i][n]
                                        /\ PolyVecInvNTT(v)[i][n] <= InvBound
<1> DEFINE left(i, n) == IF Far(v[i], n) /\ neighbour(v[i][n]) \in -InvBound .. InvBound
                           THEN neighbour(v[i][n]) ELSE centred(v[i][n])
<1>1. \A i \in R, n \in Degrees : v[i][n] \in Int
  BY DEF Poly
<1>2. PolyVecInvNTT(v) = [i \in R |-> [n \in Degrees |-> left(i, n)]]
  BY DEF PolyVecInvNTT
<1>3. ASSUME NEW i \in R, NEW n \in Degrees
      PROVE  /\ left(i, n) \in Int /\ Congruent(left(i, n), v[i][n])
             /\ -InvBound <= left(i, n) /\ left(i, n) <= InvBound
  <2>1. /\ centred(v[i][n]) \in Int /\ Congruent(centred(v[i][n]), v[i][n])
        /\ neighbour(v[i][n]) \in Int /\ Congruent(neighbour(v[i][n]), v[i][n])
    BY <1>1, CentredSpec, NeighbourSpec
  <2>2. InvBound \in Int /\ -InvBound <= centred(v[i][n]) /\ centred(v[i][n]) <= InvBound
    <3> DEFINE g == Gamma2 * Buckets
    <3>1. -g <= centred(v[i][n]) /\ centred(v[i][n]) <= g
      BY <1>1, CentredSpec
    <3>2. g \in Int /\ g <= InvBound /\ InvBound \in Int
      BY Modulus, RingAssumption
    <3> HIDE DEF g
    <3> QED BY <2>1, <3>1, <3>2
  <2>3. CASE Far(v[i], n) /\ neighbour(v[i][n]) \in -InvBound .. InvBound
    <3>1. left(i, n) = neighbour(v[i][n])
      BY <2>3
    <3> HIDE DEF left
    <3>2. -InvBound <= neighbour(v[i][n]) /\ neighbour(v[i][n]) <= InvBound
      BY <2>1, <2>2, <2>3
    <3> QED BY <2>1, <3>1, <3>2
  <2>4. CASE ~(Far(v[i], n) /\ neighbour(v[i][n]) \in -InvBound .. InvBound)
    <3>1. left(i, n) = centred(v[i][n])
      BY <2>4
    <3> HIDE DEF left
    <3> QED BY <2>1, <2>2, <3>1
  <2> QED BY <2>3, <2>4
<1> HIDE DEF left
<1>4. \A i \in R, n \in Degrees : PolyVecInvNTT(v)[i][n] = left(i, n)
  BY <1>2
<1>5. PolyVecInvNTT(v) \in [R -> Poly(Int)]
  BY <1>2, <1>3 DEF Poly
<1> QED BY <1>3, <1>4, <1>5 DEF SameResidues

(* PolyVec*Caddq makes standard representatives of what lies within Q.     *)
LEMMA CaddqVec ==
  ASSUME NEW R, NEW v \in [R -> Poly(Int)],
         \A i \in R, n \in Degrees : -Q <= v[i][n] /\ v[i][n] < Q
  PROVE  /\ PolyVecCaddq(v) \in [R -> Poly(Standard)]
         /\ PolyVecCaddq(v) \in [R -> Poly(Int)]
         /\ SameResidues(R, PolyVecCaddq(v), v)
<1>1. \A i \in R, n \in Degrees : v[i][n] \in Int
  BY DEF Poly
<1>2. PolyVecCaddq(v) = [i \in R |-> [n \in Degrees |-> caddq(v[i][n])]]
  BY DEF PolyVecCaddq, Map
<1>3. \A i \in R, n \in Degrees :
        caddq(v[i][n]) \in Int /\ caddq(v[i][n]) \in Standard /\ Congruent(caddq(v[i][n]), v[i][n])
  BY <1>1, CaddqSpec
<1> QED BY <1>2, <1>3 DEF SameResidues, Poly

(* Sums and differences of vectors (polyvec.go:67-73, 147-161).            *)
LEMMA AddVec ==
  ASSUME NEW R, NEW u \in [R -> Poly(Int)], NEW v \in [R -> Poly(Int)]
  PROVE  /\ PolyVecAdd(u, v) \in [R -> Poly(Int)]
         /\ PolyVecSub(u, v) \in [R -> Poly(Int)]
         /\ \A i \in R, n \in Degrees : /\ u[i][n] \in Int /\ v[i][n] \in Int
                                        /\ PolyVecAdd(u, v)[i][n] = u[i][n] + v[i][n]
                                        /\ PolyVecSub(u, v)[i][n] = u[i][n] - v[i][n]
<1>1. \A i \in R, n \in Degrees : u[i][n] \in Int /\ v[i][n] \in Int
  BY DEF Poly
<1>2. PolyVecAdd(u, v) = [i \in R |-> [n \in Degrees |-> u[i][n] + v[i][n]]]
  BY DEF PolyVecAdd, Map2
<1>3. PolyVecSub(u, v) = [i \in R |-> [n \in Degrees |-> u[i][n] - v[i][n]]]
  BY DEF PolyVecSub, Map2
<1>4. PolyVecAdd(u, v) \in [R -> Poly(Int)]
  BY <1>1, <1>2 DEF Poly
<1>5. PolyVecSub(u, v) \in [R -> Poly(Int)]
  BY <1>1, <1>3 DEF Poly
<1> QED BY <1>1, <1>2, <1>3, <1>4, <1>5

(* A vector times a polynomial, row by row (polyvec.go:91-97, 187-193).    *)
LEMMA ScalarVec ==
  ASSUME NEW R, NEW v \in [R -> Poly(Int)], NEW x \in Poly(Int)
  PROVE  /\ ScalarProduct(x, v) \in [R -> Poly(Int)]
         /\ \A i \in R : ScalarProduct(x, v)[i] = Product(x, v[i])
<1>1. ScalarProduct(x, v) = [i \in R |-> Product(x, v[i])]
  BY DEF ScalarProduct
<1> QED BY <1>1, ProductType

(* A matrix times a vector, row by row (polyvec.go:35-41).                 *)
LEMMA MatrixVec ==
  ASSUME NEW A \in [RowsK -> PolyVecL(Int)], NEW v \in PolyVecL(Int)
  PROVE  /\ MatrixProduct(A, v) \in PolyVecK(Int)
         /\ \A i \in RowsK : MatrixProduct(A, v)[i] = RowProduct(A[i], v)
<1>1. MatrixProduct(A, v) = [i \in RowsK |-> RowProduct(A[i], v)]
  BY DEF MatrixProduct, RowProduct
<1> QED BY <1>1, RowType DEF PolyVecK

-----------------------------------------------------------------------------
(* The list of positions of a packed hint.                                 *)

(* How many ones come before p, and how many are in the rows up to i.      *)
Rank(h, p) == Cardinality(Before(h, p))
UpTo(h, i) == Cardinality({q \in Ones(h) : q[1] <= i})

(* The order of the two loops of PackSig.                                  *)
Precedes(q, p) == q[1] < p[1] \/ (q[1] = p[1] /\ q[2] < p[2])

(* The ones are finitely many.                                             *)
LEMMA OnesFinite ==
  ASSUME NEW h
  PROVE  /\ Ones(h) \subseteq RowsK \X Degrees
         /\ \A T \in SUBSET Ones(h) :
              IsFiniteSet(T) /\ Cardinality(T) \in Nat /\ Cardinality(T) <= Cardinality(Ones(h))
         /\ \A p \in Ones(h) : p[1] \in Int /\ 0 <= p[1] /\ p[1] < K
                               /\ p[2] \in Int /\ 0 <= p[2] /\ p[2] < N
<1>0. N \in Nat /\ K \in Nat
  BY HintEncodingAssumption
<1>1. IsFiniteSet(RowsK) /\ IsFiniteSet(Degrees)
  BY <1>0, FS_Interval DEF RowsK, Degrees
<1>2. IsFiniteSet(RowsK \X Degrees)
  BY <1>1, FS_Product
<1>3. Ones(h) \subseteq RowsK \X Degrees
  BY DEF Ones
<1>4. IsFiniteSet(Ones(h))
  BY <1>2, <1>3, FS_Subset
<1>5. \A T \in SUBSET Ones(h) :
        IsFiniteSet(T) /\ Cardinality(T) \in Nat /\ Cardinality(T) <= Cardinality(Ones(h))
  BY <1>4, FS_Subset, FS_CardinalityType
<1>6. \A p \in Ones(h) : p[1] \in RowsK /\ p[2] \in Degrees
  BY <1>3
<1>7. \A p \in Ones(h) : p[1] \in Int /\ 0 <= p[1] /\ p[1] < K
                               /\ p[2] \in Int /\ 0 <= p[2] /\ p[2] < N
  BY <1>0, <1>6 DEF RowsK, Degrees
<1> QED BY <1>3, <1>5, <1>7

(* A one and what comes before it are among what comes before a later one. *)
LEMMA RankOrder ==
  ASSUME NEW h, NEW p \in Ones(h), NEW S \in SUBSET Ones(h),
         Before(h, p) \subseteq S, p \in S
  PROVE  Rank(h, p) \in Nat /\ Cardinality(S) \in Nat /\ Rank(h, p) + 1 <= Cardinality(S)
<1>1. /\ IsFiniteSet(S) /\ Cardinality(S) \in Nat
  BY OnesFinite
<1>2. p \notin Before(h, p)
  BY OnesFinite DEF Before
<1>3. IsFiniteSet(S \ {p}) /\ Cardinality(S \ {p}) = Cardinality(S) - 1
  BY <1>1, FS_RemoveElement
<1>4. Before(h, p) \in SUBSET (S \ {p})
  BY <1>2
<1>5. Cardinality(Before(h, p)) <= Cardinality(S \ {p})
  BY <1>3, <1>4, FS_Subset
<1>6. Cardinality(Before(h, p)) \in Nat
  BY OnesFinite DEF Before
<1> QED BY <1>1, <1>3, <1>5, <1>6 DEF Rank

(* Ranks follow the order of the ones ...                                  *)
LEMMA RankIncreases ==
  ASSUME NEW h
  PROVE  /\ \A p \in Ones(h) : /\ Rank(h, p) \in Nat
                               /\ Rank(h, p) < Cardinality(Ones(h))
         /\ \A p, q \in Ones(h) : Precedes(p, q) => Rank(h, p) < Rank(h, q)
         /\ \A p, q \in Ones(h) : p # q => Precedes(p, q) \/ Precedes(q, p)
<1>1. ASSUME NEW p \in Ones(h)
      PROVE  Rank(h, p) \in Nat /\ Rank(h, p) < Cardinality(Ones(h))
  <2>1. Before(h, p) \subseteq Ones(h)
    BY DEF Before
  <2>2. Rank(h, p) \in Nat /\ Cardinality(Ones(h)) \in Nat
        /\ Rank(h, p) + 1 <= Cardinality(Ones(h))
    BY <2>1, RankOrder
  <2> QED BY <2>2
<1>2. ASSUME NEW p \in Ones(h), NEW q \in Ones(h), Precedes(p, q)
      PROVE  Rank(h, p) < Rank(h, q)
  <2>0. /\ p[1] \in Int /\ p[2] \in Int /\ q[1] \in Int /\ q[2] \in Int
    BY OnesFinite
  <2>1. p \in Before(h, q)
    BY <1>2 DEF Before, Precedes
  <2>2. ASSUME NEW r \in Before(h, p) PROVE r \in Before(h, q)
    <3>1. r \in Ones(h) /\ Precedes(r, p)
      BY DEF Before, Precedes
    <3>2. r[1] \in Int /\ r[2] \in Int
      BY <3>1, OnesFinite
    <3>3. Precedes(r, q)
      BY <1>2, <2>0, <3>1, <3>2 DEF Precedes
    <3> QED BY <3>1, <3>3 DEF Before, Precedes
  <2>3. Before(h, q) \in SUBSET Ones(h)
    BY DEF Before
  <2>4. Before(h, p) \subseteq Before(h, q)
    BY <2>2
  <2>5. Rank(h, p) \in Nat /\ Cardinality(Before(h, q)) \in Nat
        /\ Rank(h, p) + 1 <= Cardinality(Before(h, q))
    BY <2>1, <2>3, <2>4, RankOrder
  <2> QED BY <2>5 DEF Rank
<1>3. ASSUME NEW p \in Ones(h), NEW q \in Ones(h), p # q
      PROVE  Precedes(p, q) \/ Precedes(q, p)
  <2>1. /\ p[1] \in Int /\ p[2] \in Int /\ q[1] \in Int /\ q[2] \in Int
    BY OnesFinite
  <2>2. p = <<p[1], p[2]>> /\ q = <<q[1], q[2]>>
    BY OnesFinite
  <2>3. p[1] # q[1] \/ p[2] # q[2]
    BY <1>3, <2>2
  <2> QED BY <2>1, <2>3 DEF Precedes
<1> QED BY <1>1, <1>2, <1>3

(* ... differ, and leave no gap.                                           *)
LEMMA RankOnto ==
  ASSUME NEW h
  PROVE  /\ \A p, q \in Ones(h) : Rank(h, p) = Rank(h, q) => p = q
         /\ \A b \in Nat : b < Cardinality(Ones(h)) => \E p \in Ones(h) : Rank(h, p) = b
<1> DEFINE O == Ones(h)
           n == Cardinality(O)
           f == [p \in O |-> Rank(h, p)]
           T == 0 .. n - 1
<1>1. ASSUME NEW p \in O, NEW q \in O, Rank(h, p) = Rank(h, q) PROVE p = q
  <2>1. Rank(h, p) \in Nat /\ Rank(h, q) \in Nat
    BY RankIncreases
  <2>2. ~(Rank(h, p) < Rank(h, q)) /\ ~(Rank(h, q) < Rank(h, p))
    BY <1>1, <2>1
  <2> QED BY <2>2, RankIncreases
<1>2. IsFiniteSet(O) /\ n \in Nat
  BY OnesFinite
<1>3. IsFiniteSet(T) /\ Cardinality(T) = n
  <2> HIDE DEF n
  <2>1. IsFiniteSet(0 .. n - 1) /\ Cardinality(0 .. n - 1) = IF 0 > n - 1 THEN 0 ELSE (n - 1) - 0 + 1
    BY <1>2, FS_Interval
  <2> QED BY <1>2, <2>1
<1>4. \A p \in O : f[p] \in T
  <2>1. \A p \in O : f[p] = Rank(h, p) /\ Rank(h, p) \in Nat /\ Rank(h, p) < n
    BY RankIncreases
  <2> HIDE DEF f, n, O
  <2> QED BY <1>2, <2>1
<1>5. f \in Injection(O, T)
  <2>1. f \in [O -> T]
    BY <1>4
  <2>2. \A p, q \in O : f[p] = f[q] => p = q
    BY <1>1
  <2> HIDE DEF f, T, O
  <2> QED BY <2>1, <2>2 DEF Injection, IsInjective
<1>6. f \in Surjection(O, T)
  <2> HIDE DEF f, T, n
  <2> QED BY <1>2, <1>3, <1>5, FS_Injection DEF n
<1>7. ASSUME NEW b \in Nat, b < n PROVE \E p \in O : Rank(h, p) = b
  <2>1. b \in T
    BY <1>2, <1>7
  <2>2. \E p \in O : f[p] = b
    <3> HIDE DEF f, T, O
    <3> QED BY <1>6, <2>1 DEF Surjection
  <2> QED BY <2>2
<1> QED BY <1>1, <1>7

(* The ones of row i have the ranks from UpTo(h, i - 1) to UpTo(h, i) - 1. *)
LEMMA RankRow ==
  ASSUME NEW h
  PROVE  /\ \A i \in Int : UpTo(h, i) \in Nat /\ UpTo(h, i) <= Cardinality(Ones(h))
         /\ \A i, j \in Int : i <= j => UpTo(h, i) <= UpTo(h, j)
         /\ UpTo(h, -1) = 0 /\ UpTo(h, K - 1) = Cardinality(Ones(h))
         /\ \A p \in Ones(h), i \in Int :
              p[1] = i <=> UpTo(h, i - 1) <= Rank(h, p) /\ Rank(h, p) < UpTo(h, i)
<1> DEFINE R(i) == {q \in Ones(h) : q[1] <= i}
<1>1. \A i : R(i) \in SUBSET Ones(h)
  OBVIOUS
<1>2. \A i \in Int : UpTo(h, i) \in Nat /\ UpTo(h, i) <= Cardinality(Ones(h))
  BY <1>1, OnesFinite DEF UpTo
<1>3. ASSUME NEW i \in Int, NEW j \in Int, i <= j PROVE UpTo(h, i) <= UpTo(h, j)
  <2>1. \A q \in Ones(h) : q[1] \in Int
    BY OnesFinite
  <2>2. R(i) \in SUBSET R(j)
    BY <1>3, <2>1
  <2>3. IsFiniteSet(R(j))
    BY <1>1, OnesFinite
  <2> HIDE DEF R
  <2>4. Cardinality(R(i)) <= Cardinality(R(j))
    BY <2>2, <2>3, FS_Subset
  <2> QED BY <2>4 DEF UpTo, R
<1>4. UpTo(h, -1) = 0
  <2>1. R(-1) = {}
    BY OnesFinite
  <2> QED BY <2>1, FS_EmptySet DEF UpTo
<1>5. UpTo(h, K - 1) = Cardinality(Ones(h))
  <2>1. K \in Nat
    BY HintEncodingAssumption
  <2>2. \A q \in Ones(h) : q[1] <= K - 1
    BY <2>1, OnesFinite
  <2>3. R(K - 1) = Ones(h)
    BY <2>2
  <2> QED BY <2>3 DEF UpTo
<1>6. ASSUME NEW p \in Ones(h) PROVE UpTo(h, p[1] - 1) <= Rank(h, p) /\ Rank(h, p) < UpTo(h, p[1])
  <2>0. p[1] \in Int /\ p[2] \in Int /\ \A q \in Ones(h) : q[1] \in Int /\ q[2] \in Int
    BY OnesFinite
  <2>1. R(p[1] - 1) \in SUBSET Before(h, p)
    BY <2>0 DEF Before
  <2>2. Before(h, p) \in SUBSET R(p[1])
    BY <2>0 DEF Before
  <2>3. p \in R(p[1])
    BY <2>0
  <2>4. Before(h, p) \in SUBSET Ones(h)
    BY DEF Before
  <2>5. IsFiniteSet(Before(h, p))
    BY <2>4, OnesFinite
  <2> HIDE DEF R
  <2>6. Cardinality(R(p[1] - 1)) <= Rank(h, p)
    BY <2>1, <2>5, FS_Subset DEF Rank
  <2>7. Rank(h, p) \in Nat /\ Cardinality(R(p[1])) \in Nat /\ Rank(h, p) + 1 <= Cardinality(R(p[1]))
    BY <1>1, <2>2, <2>3, RankOrder
  <2> QED BY <2>6, <2>7 DEF UpTo, R
<1>7. ASSUME NEW p \in Ones(h), NEW i \in Int,
             UpTo(h, i - 1) <= Rank(h, p), Rank(h, p) < UpTo(h, i)
      PROVE  p[1] = i
  <2>1. p[1] \in Int /\ Rank(h, p) \in Nat
    BY OnesFinite, RankIncreases
  <2>2. /\ UpTo(h, p[1] - 1) \in Nat /\ UpTo(h, p[1]) \in Nat
        /\ UpTo(h, i - 1) \in Nat /\ UpTo(h, i) \in Nat
    BY <1>2, <2>1
  <2>3. ~(p[1] <= i - 1)
    <3> SUFFICES ASSUME p[1] <= i - 1 PROVE FALSE
      OBVIOUS
    <3>1. UpTo(h, p[1]) <= UpTo(h, i - 1)
      BY <1>3, <2>1
    <3> QED BY <1>6, <1>7, <2>1, <2>2, <3>1
  <2>4. ~(i <= p[1] - 1)
    <3> SUFFICES ASSUME i <= p[1] - 1 PROVE FALSE
      OBVIOUS
    <3>1. UpTo(h, i) <= UpTo(h, p[1] - 1)
      BY <1>3, <2>1
    <3> QED BY <1>6, <1>7, <2>1, <2>2, <3>1
  <2> QED BY <2>1, <2>3, <2>4
<1> QED BY <1>2, <1>3, <1>4, <1>5, <1>6, <1>7

(* What PackSig writes: at place b of the list the position of the one     *)
(* with b ones before it, zeros after the last, and behind the list the    *)
(* number of ones up to each row.                                          *)
LEMMA PackedBytes ==
  ASSUME NEW h, Cardinality(Ones(h)) <= Omega
  PROVE  /\ \A p \in Ones(h) : PackHint(h)[Rank(h, p)] = p[2]
         /\ \A b \in Nat : Cardinality(Ones(h)) <= b /\ b < Omega => PackHint(h)[b] = 0
         /\ \A i \in RowsK : /\ End(PackHint(h), i) = UpTo(h, i)
                             /\ First(PackHint(h), i) = UpTo(h, i - 1)
         /\ PackHint(h) \in HintBytes
<1> DEFINE n == Cardinality(Ones(h))
           B == PackHint(h)
<1>0. N \in Nat /\ N > 0 /\ K \in Nat /\ K > 0 /\ Omega \in Nat /\ Omega < N
  BY HintEncodingAssumption
<1>1. n \in Nat
  BY OnesFinite
<1>2. \A b \in 0 .. Omega + K - 1 :
        B[b] = IF b >= Omega
               THEN UpTo(h, b - Omega)
               ELSE IF \E p \in Ones(h) : Rank(h, p) = b
                    THEN (CHOOSE p \in Ones(h) : Rank(h, p) = b)[2]
                    ELSE 0
  BY DEF PackHint, UpTo, Rank
<1> HIDE DEF n
<1>3. ASSUME NEW p \in Ones(h) PROVE B[Rank(h, p)] = p[2]
  <2> DEFINE b == Rank(h, p)
  <2>1. b \in Nat /\ b < n
    BY RankIncreases DEF n
  <2>2. b \in 0 .. Omega + K - 1 /\ ~(b >= Omega)
    BY <1>0, <1>1, <2>1 DEF n
  <2>3. \A q \in Ones(h) : Rank(h, q) = b => q = p
    BY RankOnto
  <2>4. (CHOOSE q \in Ones(h) : Rank(h, q) = b) = p
    BY <2>3
  <2> HIDE DEF B
  <2> QED BY <1>2, <2>2, <2>4
<1>4. ASSUME NEW b \in Nat, n <= b, b < Omega PROVE B[b] = 0
  <2>1. b \in 0 .. Omega + K - 1 /\ ~(b >= Omega)
    BY <1>0, <1>4
  <2>2. \A p \in Ones(h) : Rank(h, p) \in Nat /\ Rank(h, p) < n
    BY RankIncreases DEF n
  <2>3. ~\E p \in Ones(h) : Rank(h, p) = b
    BY <1>1, <1>4, <2>2
  <2> HIDE DEF B
  <2> QED BY <1>2, <2>1, <2>3
<1>5. ASSUME NEW i \in RowsK PROVE End(B, i) = UpTo(h, i) /\ First(B, i) = UpTo(h, i - 1)
  <2>0. \A k \in RowsK : k \in Int /\ 0 <= k /\ k < K
    BY <1>0 DEF RowsK
  <2>1. ASSUME NEW k \in RowsK PROVE End(B, k) = UpTo(h, k)
    <3>1. k \in Int /\ 0 <= k /\ k < K
      BY <2>0
    <3>2. Omega + k \in 0 .. Omega + K - 1 /\ Omega + k >= Omega /\ (Omega + k) - Omega = k
      BY <1>0, <3>1
    <3> HIDE DEF B
    <3>3. B[Omega + k] = UpTo(h, (Omega + k) - Omega)
      BY <1>2, <3>2
    <3> QED BY <3>2, <3>3 DEF End
  <2>2. First(B, i) = UpTo(h, i - 1)
    <3>1. CASE i = 0
      <4>1. First(B, i) = 0 /\ i - 1 = -1
        BY <3>1 DEF First
      <4> QED BY <4>1, RankRow
    <3>2. CASE i # 0
      <4>1. i - 1 \in RowsK
        BY <1>0, <2>0, <3>2 DEF RowsK
      <4>2. First(B, i) = End(B, i - 1)
        BY <3>2 DEF First
      <4> QED BY <2>1, <4>1, <4>2
    <3> QED BY <3>1, <3>2
  <2> QED BY <2>1, <2>2
<1>6. B \in HintBytes
  <2>1. ASSUME NEW b \in 0 .. Omega + K - 1 PROVE B[b] \in Byte
    <3>0. b \in Int /\ 0 <= b
      BY <1>0
    <3>1. CASE b >= Omega
      <4>1. b - Omega \in Int
        BY <1>0, <3>0
      <4>2. UpTo(h, b - Omega) \in Nat /\ UpTo(h, b - Omega) <= n
        BY <4>1, RankRow DEF n
      <4>3. UpTo(h, b - Omega) \in Byte
        BY <1>0, <1>1, <4>2 DEF Byte, n
      <4> HIDE DEF B
      <4> QED BY <1>2, <3>1, <4>3
    <3>2. CASE ~(b >= Omega) /\ \E p \in Ones(h) : Rank(h, p) = b
      <4>1. PICK p \in Ones(h) : Rank(h, p) = b
        BY <3>2
      <4>2. B[b] = p[2]
        BY <1>3, <4>1
      <4>3. p[2] \in Int /\ 0 <= p[2] /\ p[2] < N
        BY OnesFinite
      <4> HIDE DEF B
      <4> QED BY <1>0, <4>2, <4>3 DEF Byte
    <3>3. CASE ~(b >= Omega) /\ ~\E p \in Ones(h) : Rank(h, p) = b
      <4> HIDE DEF B
      <4>1. B[b] = 0
        BY <1>2, <3>3
      <4> QED BY <1>0, <4>1 DEF Byte
    <3> QED BY <3>1, <3>2, <3>3
  <2>2. B = [b \in 0 .. Omega + K - 1 |-> B[b]]
    BY DEF PackHint
  <2> HIDE DEF B
  <2> QED BY <2>1, <2>2 DEF HintBytes
<1> QED BY <1>3, <1>4, <1>5, <1>6 DEF n

(* A list position of row i holds the position of a one of row i.          *)
LEMMA RowEntries ==
  ASSUME NEW h, Cardinality(Ones(h)) <= Omega, NEW i \in RowsK
  PROVE  /\ \A b \in Int : UpTo(h, i - 1) <= b /\ b < UpTo(h, i) =>
              \E p \in Ones(h) : p[1] = i /\ Rank(h, p) = b /\ PackHint(h)[b] = p[2]
         /\ \A p \in Ones(h) : p[1] = i =>
              /\ UpTo(h, i - 1) <= Rank(h, p) /\ Rank(h, p) < UpTo(h, i)
              /\ Rank(h, p) \in Nat /\ PackHint(h)[Rank(h, p)] = p[2]
<1>0. i \in Int /\ i - 1 \in Int
  BY HintEncodingAssumption DEF RowsK
<1>1. /\ UpTo(h, i - 1) \in Nat /\ UpTo(h, i) \in Nat
      /\ UpTo(h, i) <= Cardinality(Ones(h)) /\ Cardinality(Ones(h)) \in Nat
  BY <1>0, RankRow, OnesFinite
<1>2. ASSUME NEW b \in Int, UpTo(h, i - 1) <= b, b < UpTo(h, i)
      PROVE  \E p \in Ones(h) : p[1] = i /\ Rank(h, p) = b /\ PackHint(h)[b] = p[2]
  <2>1. b \in Nat /\ b < Cardinality(Ones(h))
    BY <1>1, <1>2
  <2>2. PICK p \in Ones(h) : Rank(h, p) = b
    BY <2>1, RankOnto
  <2>3. p[1] = i
    BY <1>0, <1>2, <2>2, RankRow
  <2>4. PackHint(h)[b] = p[2]
    BY <2>2, PackedBytes
  <2> QED BY <2>2, <2>3, <2>4
<1>3. ASSUME NEW p \in Ones(h), p[1] = i
      PROVE  /\ UpTo(h, i - 1) <= Rank(h, p) /\ Rank(h, p) < UpTo(h, i)
             /\ Rank(h, p) \in Nat /\ PackHint(h)[Rank(h, p)] = p[2]
  <2>1. UpTo(h, i - 1) <= Rank(h, p) /\ Rank(h, p) < UpTo(h, i)
    BY <1>0, <1>3, RankRow
  <2>2. Rank(h, p) \in Nat /\ PackHint(h)[Rank(h, p)] = p[2]
    BY RankIncreases, PackedBytes
  <2> QED BY <2>1, <2>2
<1> QED BY <1>2, <1>3

(* UnpackSig refuses no hint PackSig wrote: the ends of the rows ascend to *)
(* at most Omega, the positions of a row ascend strictly, and what the     *)
(* rows leave of the list is zero (packing.go:164-190).                    *)
LEMMA PackedWellFormed ==
  ASSUME NEW h, Cardinality(Ones(h)) <= Omega
  PROVE  ~Malformed(PackHint(h))
<1> DEFINE B == PackHint(h)
<1>0. /\ N \in Nat /\ K \in Nat /\ K > 0 /\ Omega \in Nat
      /\ \A i \in RowsK : i \in Int /\ i - 1 \in Int
  BY HintEncodingAssumption DEF RowsK
<1>1. \A i \in RowsK : End(B, i) = UpTo(h, i) /\ First(B, i) = UpTo(h, i - 1)
  BY PackedBytes
<1>2. \A i \in RowsK : /\ UpTo(h, i) \in Nat /\ UpTo(h, i) <= Cardinality(Ones(h))
                       /\ UpTo(h, i - 1) \in Nat /\ UpTo(h, i - 1) <= UpTo(h, i)
  <2> SUFFICES ASSUME NEW i \in RowsK
               PROVE  /\ UpTo(h, i) \in Nat /\ UpTo(h, i) <= Cardinality(Ones(h))
                      /\ UpTo(h, i - 1) \in Nat /\ UpTo(h, i - 1) <= UpTo(h, i)
    OBVIOUS
  <2>1. i \in Int /\ i - 1 \in Int /\ i - 1 <= i
    BY <1>0
  <2> QED BY <2>1, RankRow
<1>3. Cardinality(Ones(h)) \in Nat
  BY OnesFinite
<1>4. ~\E i \in RowsK : End(B, i) < First(B, i) \/ End(B, i) > Omega
  <2> SUFFICES ASSUME NEW i \in RowsK PROVE ~(End(B, i) < First(B, i)) /\ ~(End(B, i) > Omega)
    OBVIOUS
  <2> HIDE DEF B
  <2> QED BY <1>0, <1>1, <1>2, <1>3
<1>5. ASSUME NEW i \in RowsK, NEW j \in 1 .. Omega - 1,
             First(B, i) < j, j < End(B, i)
      PROVE  ~(B[j] <= B[j - 1])
  <2>1. j \in Int /\ j - 1 \in Int
    BY <1>0
  <2>2. /\ UpTo(h, i - 1) <= j - 1 /\ j - 1 < UpTo(h, i)
        /\ UpTo(h, i - 1) <= j /\ j < UpTo(h, i)
    <3> HIDE DEF B
    <3> QED BY <1>1, <1>2, <1>5, <2>1
  <2>3. PICK p \in Ones(h) : p[1] = i /\ Rank(h, p) = j /\ B[j] = p[2]
    BY <2>1, <2>2, RowEntries
  <2>4. PICK q \in Ones(h) : q[1] = i /\ Rank(h, q) = j - 1 /\ B[j - 1] = q[2]
    BY <2>1, <2>2, RowEntries
  <2>5. /\ p[1] \in Int /\ p[2] \in Int /\ q[1] \in Int /\ q[2] \in Int
    BY OnesFinite
  <2>6. p # q
    BY <2>1, <2>3, <2>4
  <2>7. ~Precedes(p, q)
    <3>1. ~(Rank(h, p) < Rank(h, q))
      BY <2>1, <2>3, <2>4
    <3> QED BY <3>1, RankIncreases
  <2>8. Precedes(q, p)
    BY <2>6, <2>7, RankIncreases
  <2>9. q[2] < p[2]
    BY <2>3, <2>4, <2>5, <2>8 DEF Precedes
  <2> HIDE DEF B
  <2> QED BY <2>3, <2>4, <2>5, <2>9
<1>6. ASSUME NEW j \in 0 .. Omega - 1, j >= End(B, K - 1) PROVE B[j] = 0
  <2>1. K - 1 \in RowsK /\ j \in Nat /\ j < Omega
    BY <1>0 DEF RowsK
  <2>2. End(B, K - 1) = Cardinality(Ones(h))
    BY <1>1, <2>1, RankRow
  <2>3. Cardinality(Ones(h)) <= j
    BY <1>3, <1>6, <2>1, <2>2
  <2> QED BY <2>1, <2>3, PackedBytes
<1> HIDE DEF B
<1>7. ~Malformed(B)
  BY <1>4, <1>5, <1>6 DEF Malformed
<1> QED BY <1>7 DEF B

(* What UnpackSig reads of PackSig's bytes is the hint that was packed,    *)
(* for every hint of at most Omega ones.                                   *)
THEOREM HintRoundTrip ==
  ASSUME NEW h \in Hints, Cardinality(Ones(h)) <= Omega
  PROVE  /\ PackHint(h) \in HintBytes
         /\ ~Malformed(PackHint(h))
         /\ UnpackHint(PackHint(h)) = h
<1> DEFINE B == PackHint(h)
<1>1. B \in HintBytes /\ ~Malformed(B)
  BY PackedBytes, PackedWellFormed
<1>2. ASSUME NEW i \in RowsK, NEW n \in Degrees
      PROVE  (\E j \in First(B, i) .. End(B, i) - 1 : B[j] = n) <=> h[i][n] # 0
  <2>0. i \in Int /\ i - 1 \in Int /\ n \in Int
    BY HintEncodingAssumption DEF RowsK, Degrees
  <2>1. /\ First(B, i) = UpTo(h, i - 1) /\ End(B, i) = UpTo(h, i)
        /\ UpTo(h, i - 1) \in Nat /\ UpTo(h, i) \in Nat
    BY <2>0, PackedBytes, RankRow
  <2>2. ASSUME NEW j \in First(B, i) .. End(B, i) - 1, B[j] = n PROVE h[i][n] # 0
    <3>1. j \in Int /\ UpTo(h, i - 1) <= j /\ j < UpTo(h, i)
      <4> HIDE DEF B
      <4> QED BY <2>1
    <3>2. PICK p \in Ones(h) : p[1] = i /\ B[j] = p[2]
      BY <3>1, RowEntries
    <3> HIDE DEF B
    <3>3. p[1] = i /\ p[2] = n
      BY <2>2, <3>2
    <3> QED BY <3>3 DEF Ones
  <2>3. ASSUME h[i][n] # 0 PROVE \E j \in First(B, i) .. End(B, i) - 1 : B[j] = n
    <3> DEFINE p == <<i, n>>
               j == Rank(h, p)
    <3>1. p \in Ones(h) /\ p[1] = i /\ p[2] = n
      BY <2>3 DEF Ones
    <3> HIDE DEF p
    <3>2. /\ UpTo(h, i - 1) <= j /\ j < UpTo(h, i) /\ j \in Nat /\ B[j] = n
      BY <3>1, RowEntries
    <3> HIDE DEF j, B
    <3>3. j \in First(B, i) .. End(B, i) - 1
      BY <2>1, <3>2
    <3> QED BY <3>2, <3>3
  <2> QED BY <2>2, <2>3
<1>3. \A i \in RowsK, n \in Degrees : h[i][n] \in {0, 1}
  BY DEF Hints
<1>4. UnpackHint(B) = [i \in RowsK |-> [n \in Degrees |->
                         IF \E j \in First(B, i) .. End(B, i) - 1 : B[j] = n THEN 1 ELSE 0]]
  BY DEF UnpackHint
<1> HIDE DEF B
<1>5. \A i \in RowsK, n \in Degrees :
        (IF \E j \in First(B, i) .. End(B, i) - 1 : B[j] = n THEN 1 ELSE 0) = h[i][n]
  BY <1>2, <1>3
<1>6. UnpackHint(B) = [i \in RowsK |-> [n \in Degrees |-> h[i][n]]]
  BY <1>4, <1>5
<1>7. h = [i \in RowsK |-> [n \in Degrees |-> h[i][n]]]
  BY DEF Hints
<1> QED BY <1>1, <1>6, <1>7 DEF B

-----------------------------------------------------------------------------
(* The other way round: bytes that UnpackSig accepts.                      *)

(* The ends of the rows ascend, and everything in them is in range.        *)
LEMMA EndsAscend ==
  ASSUME NEW B \in HintBytes, ~Malformed(B)
  PROVE  /\ \A i \in RowsK : /\ i \in Int /\ End(B, i) \in Nat /\ First(B, i) \in Nat
                             /\ First(B, i) <= End(B, i) /\ End(B, i) <= Omega
                             /\ i # 0 => i - 1 \in RowsK /\ First(B, i) = End(B, i - 1)
         /\ First(B, 0) = 0
         /\ \A i, j \in RowsK : i <= j => End(B, i) <= End(B, j)
<1>0. N \in Nat /\ K \in Nat /\ K > 0 /\ Omega \in Nat
  BY HintEncodingAssumption
<1>1. \A b \in 0 .. Omega + K - 1 : B[b] \in Nat /\ B[b] < N
  BY <1>0 DEF HintBytes, Byte
<1>2. ASSUME NEW i \in RowsK
      PROVE  /\ i \in Int /\ i \in Nat /\ End(B, i) \in Nat /\ End(B, i) <= Omega
             /\ First(B, i) <= End(B, i)
             /\ i # 0 => i - 1 \in RowsK /\ First(B, i) = End(B, i - 1)
  <2>1. i \in Int /\ 0 <= i /\ i < K /\ Omega + i \in 0 .. Omega + K - 1
    BY <1>0 DEF RowsK
  <2>2. End(B, i) \in Nat
    BY <1>1, <2>1 DEF End
  <2>3. ~(End(B, i) < First(B, i)) /\ ~(End(B, i) > Omega)
    BY DEF Malformed
  <2>4. i # 0 => i - 1 \in RowsK /\ First(B, i) = End(B, i - 1)
    BY <1>0, <2>1 DEF RowsK, First
  <2>5. i # 0 => End(B, i - 1) \in Nat
    <3>1. i # 0 => Omega + (i - 1) \in 0 .. Omega + K - 1
      BY <1>0, <2>1
    <3> QED BY <1>1, <3>1 DEF End
  <2>6. First(B, i) \in Nat
    BY <2>4, <2>5 DEF First
  <2> QED BY <1>0, <2>1, <2>2, <2>3, <2>4, <2>6
<1>3. First(B, 0) = 0
  BY DEF First
<1>4. \A i \in RowsK : First(B, i) \in Nat
  BY <1>2, <1>3
<1> DEFINE S == {d \in Nat : \A i \in RowsK : i + d \in RowsK => End(B, i) <= End(B, i + d)}
<1>5. 0 \in S
  <2>1. \A i \in RowsK : i + 0 = i /\ End(B, i) \in Nat
    BY <1>2
  <2> QED BY <2>1
<1>6. ASSUME NEW d \in S PROVE d + 1 \in S
  <2> SUFFICES ASSUME NEW i \in RowsK, i + (d + 1) \in RowsK
               PROVE  End(B, i) <= End(B, i + (d + 1))
    OBVIOUS
  <2>1. i \in Nat /\ d \in Nat
    BY <1>2
  <2>2. i + (d + 1) # 0 /\ (i + (d + 1)) - 1 = i + d
    BY <2>1
  <2>3. i + d \in RowsK /\ First(B, i + (d + 1)) = End(B, i + d)
    BY <1>2, <2>2
  <2>4. End(B, i) <= End(B, i + d)
    BY <2>3
  <2>5. End(B, i + d) <= End(B, i + (d + 1))
    BY <1>2, <2>3
  <2>6. End(B, i) \in Nat /\ End(B, i + d) \in Nat /\ End(B, i + (d + 1)) \in Nat
    BY <1>2, <2>3
  <2> QED BY <2>4, <2>5, <2>6
<1>7. S = Nat
  <2>1. S \subseteq Nat
    OBVIOUS
  <2> HIDE DEF S
  <2> QED BY <1>5, <1>6, <2>1, SetInduction
<1>8. ASSUME NEW i \in RowsK, NEW j \in RowsK, i <= j PROVE End(B, i) <= End(B, j)
  <2>1. i \in Nat /\ j \in Nat
    BY <1>2
  <2>2. j - i \in Nat /\ i + (j - i) = j
    BY <1>8, <2>1
  <2>3. j - i \in S
    BY <1>7, <2>2
  <2> QED BY <2>2, <2>3
<1> QED BY <1>2, <1>3, <1>4, <1>8

(* The row in which UnpackSig reads place b of the list.                   *)
RowAt(B, b) == CHOOSE i \in RowsK : First(B, i) <= b /\ b < End(B, i)

(* The one it finds there.                                                 *)
OneAt(B, b) == <<RowAt(B, b), B[b]>>

(* There is just one such row, and later places are in later rows.         *)
LEMMA RowOfPlace ==
  ASSUME NEW B \in HintBytes, ~Malformed(B)
  PROVE  /\ \A b \in Nat : b < End(B, K - 1) =>
              /\ RowAt(B, b) \in RowsK /\ RowAt(B, b) \in Int
              /\ First(B, RowAt(B, b)) <= b /\ b < End(B, RowAt(B, b))
         /\ \A b \in Nat, i \in RowsK : First(B, i) <= b /\ b < End(B, i) => RowAt(B, b) = i
         /\ \A b, d \in Nat : b < d /\ d < End(B, K - 1) => RowAt(B, b) <= RowAt(B, d)
         /\ \A b \in Nat, i \in RowsK : b < End(B, K - 1) =>
              (RowAt(B, b) <= i <=> b < End(B, i))
<1>0. K \in Nat /\ K > 0 /\ K - 1 \in RowsK
  BY HintEncodingAssumption DEF RowsK
<1>1. ASSUME NEW b \in Nat, b < End(B, K - 1)
      PROVE  \E i \in RowsK : First(B, i) <= b /\ b < End(B, i)
  <2> DEFINE T == {i \in RowsK : b < End(B, i)}
  <2>1. T \subseteq Nat /\ T # {}
    BY <1>0, <1>1 DEF RowsK
  <2>2. PICK i \in T : \A j \in T : i <= j
    <3> HIDE DEF T
    <3> QED BY <2>1, Least
  <2>3. CASE i = 0
    BY <2>3, EndsAscend
  <2>4. CASE i # 0
    <3>1. i - 1 \in RowsK /\ First(B, i) = End(B, i - 1) /\ i \in Int /\ End(B, i - 1) \in Nat
      BY <2>4, EndsAscend
    <3>2. i - 1 \notin T
      BY <2>2, <3>1
    <3>3. End(B, i - 1) <= b
      BY <3>1, <3>2
    <3> QED BY <3>1, <3>3
  <2> QED BY <2>3, <2>4
<1>2. ASSUME NEW b \in Nat, NEW d \in Nat, b <= d, NEW i \in RowsK, NEW j \in RowsK,
             First(B, i) <= b, b < End(B, i), First(B, j) <= d, d < End(B, j)
      PROVE  i <= j
  <2>1. i \in Int /\ j \in Int /\ First(B, i) \in Nat /\ End(B, i) \in Nat
        /\ First(B, j) \in Nat /\ End(B, j) \in Nat
    BY EndsAscend
  <2>2. SUFFICES ASSUME j < i PROVE FALSE
    BY <2>1
  <2>3. i # 0 /\ i - 1 \in RowsK /\ First(B, i) = End(B, i - 1) /\ j <= i - 1
    <3>1. j \in Nat /\ i \in Nat /\ i # 0
      BY <2>1, <2>2 DEF RowsK
    <3> QED BY <2>1, <2>2, <3>1, EndsAscend
  <2>4. End(B, j) <= End(B, i - 1) /\ End(B, i - 1) \in Nat
    BY <2>3, EndsAscend
  <2> QED BY <1>2, <2>1, <2>3, <2>4
<1>3. ASSUME NEW b \in Nat, b < End(B, K - 1)
      PROVE  /\ RowAt(B, b) \in RowsK /\ RowAt(B, b) \in Int
             /\ First(B, RowAt(B, b)) <= b /\ b < End(B, RowAt(B, b))
  <2>1. RowAt(B, b) \in RowsK /\ First(B, RowAt(B, b)) <= b /\ b < End(B, RowAt(B, b))
    BY <1>1, <1>3 DEF RowAt
  <2> QED BY <2>1, EndsAscend
<1>4. ASSUME NEW b \in Nat, NEW i \in RowsK, First(B, i) <= b, b < End(B, i)
      PROVE  RowAt(B, b) = i
  <2>1. RowAt(B, b) \in RowsK /\ First(B, RowAt(B, b)) <= b /\ b < End(B, RowAt(B, b))
    BY <1>4 DEF RowAt
  <2>2. i <= RowAt(B, b) /\ RowAt(B, b) <= i /\ i \in Int /\ RowAt(B, b) \in Int
    BY <1>2, <1>4, <2>1, EndsAscend
  <2> QED BY <2>2
<1>5. ASSUME NEW b \in Nat, NEW d \in Nat, b < d, d < End(B, K - 1)
      PROVE  RowAt(B, b) <= RowAt(B, d)
  <2>1. b < End(B, K - 1) /\ b <= d
    BY <1>0, <1>5, EndsAscend
  <2> QED BY <1>2, <1>3, <1>5, <2>1
<1>6. ASSUME NEW b \in Nat, NEW i \in RowsK, b < End(B, K - 1)
      PROVE  RowAt(B, b) <= i <=> b < End(B, i)
  <2> DEFINE r == RowAt(B, b)
  <2>1. r \in RowsK /\ r \in Int /\ First(B, r) <= b /\ b < End(B, r) /\ i \in Int
        /\ First(B, r) \in Nat /\ End(B, r) \in Nat /\ End(B, i) \in Nat
    BY <1>3, <1>6, EndsAscend
  <2> HIDE DEF r
  <2>2. ASSUME r <= i PROVE b < End(B, i)
    <3>1. End(B, r) <= End(B, i)
      BY <2>1, <2>2, EndsAscend
    <3> QED BY <2>1, <3>1
  <2>3. ASSUME i < r PROVE ~(b < End(B, i))
    <3>1. r # 0
      BY <2>1, <2>3 DEF RowsK
    <3>2. r - 1 \in RowsK /\ First(B, r) = End(B, r - 1) /\ i <= r - 1
      BY <2>1, <2>3, <3>1, EndsAscend
    <3>3. End(B, i) <= End(B, r - 1) /\ End(B, r - 1) \in Nat
      BY <3>2, EndsAscend
    <3> QED BY <2>1, <3>2, <3>3
  <2>4. r <= i <=> b < End(B, i)
    BY <2>1, <2>2, <2>3
  <2> QED BY <2>4 DEF r
<1> QED BY <1>3, <1>4, <1>5, <1>6

(* The positions of one row ascend strictly.                               *)
LEMMA PositionsAscend ==
  ASSUME NEW B \in HintBytes, ~Malformed(B), NEW i \in RowsK
  PROVE  \A b, d \in Nat : First(B, i) <= b /\ b < d /\ d < End(B, i) => B[b] < B[d]
<1>0. /\ N \in Nat /\ K \in Nat /\ Omega \in Nat
      /\ First(B, i) \in Nat /\ End(B, i) \in Nat /\ End(B, i) <= Omega
  BY HintEncodingAssumption, EndsAscend
<1>1. \A b \in Nat : b < End(B, i) => B[b] \in Nat
  <2>1. \A b \in 0 .. Omega + K - 1 : B[b] \in Nat
    BY <1>0 DEF HintBytes, Byte
  <2> QED BY <1>0, <2>1
<1>2. \A d \in Nat : First(B, i) < d /\ d < End(B, i) => B[d - 1] < B[d]
  <2> SUFFICES ASSUME NEW d \in Nat, First(B, i) < d, d < End(B, i) PROVE B[d - 1] < B[d]
    OBVIOUS
  <2>1. d \in 1 .. Omega - 1
    BY <1>0
  <2>2. ~(B[d] <= B[d - 1])
    BY <2>1 DEF Malformed
  <2>3. B[d] \in Nat /\ B[d - 1] \in Nat
    BY <1>0, <1>1
  <2> QED BY <2>2, <2>3
<1> DEFINE S == {d \in Nat : \A b \in Nat :
                   First(B, i) <= b /\ b < d /\ d < End(B, i) => B[b] < B[d]}
<1>3. 0 \in S
  OBVIOUS
<1>4. ASSUME NEW d \in S PROVE d + 1 \in S
  <2> SUFFICES ASSUME NEW b \in Nat, First(B, i) <= b, b < d + 1, d + 1 < End(B, i)
               PROVE  B[b] < B[d + 1]
    OBVIOUS
  <2>1. d \in Nat /\ d + 1 \in Nat /\ (d + 1) - 1 = d /\ d < End(B, i) /\ First(B, i) < d + 1
    BY <1>0
  <2>2. B[d] < B[d + 1]
    BY <1>2, <2>1
  <2>3. CASE b = d
    BY <2>2, <2>3
  <2>4. CASE b < d
    <3>1. B[b] < B[d]
      BY <2>1, <2>4
    <3>2. B[b] \in Nat /\ B[d] \in Nat /\ B[d + 1] \in Nat
      BY <1>0, <1>1, <2>1, <2>4
    <3> QED BY <2>2, <3>1, <3>2
  <2> QED BY <2>1, <2>3, <2>4
<1>5. S = Nat
  <2>1. S \subseteq Nat
    OBVIOUS
  <2> HIDE DEF S
  <2> QED BY <1>3, <1>4, <2>1, SetInduction
<1> QED BY <1>5

(* The list holds each one of the hint it stands for, in the order of the  *)
(* loops of PackSig, and nothing else.                                     *)
LEMMA ListedOnes ==
  ASSUME NEW B \in HintBytes, ~Malformed(B)
  PROVE  /\ \A b \in Nat : b < End(B, K - 1) => OneAt(B, b) \in Ones(UnpackHint(B))
         /\ \A p \in Ones(UnpackHint(B)) : \E b \in Nat : b < End(B, K - 1) /\ p = OneAt(B, b)
         /\ \A b, d \in Nat : b < d /\ d < End(B, K - 1) => Precedes(OneAt(B, b), OneAt(B, d))
<1> DEFINE h == UnpackHint(B)
<1>0. /\ N \in Nat /\ K \in Nat /\ Omega \in Nat /\ K - 1 \in RowsK /\ K - 1 \in Int
      /\ \A i \in RowsK : i \in Int /\ i <= K - 1
  BY HintEncodingAssumption DEF RowsK
<1>1. \A b \in Nat : b < End(B, K - 1) => B[b] \in Degrees /\ B[b] \in Int
  <2>1. \A b \in 0 .. Omega + K - 1 : B[b] \in Degrees
    BY DEF HintBytes, Byte, Degrees
  <2>2. End(B, K - 1) \in Nat /\ End(B, K - 1) <= Omega
    BY <1>0, EndsAscend
  <2>3. \A b \in Nat : b < End(B, K - 1) => b \in 0 .. Omega + K - 1
    BY <1>0, <2>2
  <2> QED BY <1>0, <2>1, <2>3 DEF Degrees
<1>2. \A i \in RowsK, n \in Degrees :
        h[i][n] # 0 <=> \E j \in First(B, i) .. End(B, i) - 1 : B[j] = n
  BY DEF UnpackHint
<1>3. \A p : p \in Ones(h) <=> p \in RowsK \X Degrees /\ h[p[1]][p[2]] # 0
  BY DEF Ones
<1> HIDE DEF h
<1>4. ASSUME NEW b \in Nat, b < End(B, K - 1) PROVE OneAt(B, b) \in Ones(h)
  <2> DEFINE i == RowAt(B, b)
  <2>1. i \in RowsK /\ First(B, i) <= b /\ b < End(B, i)
    BY <1>4, RowOfPlace
  <2> HIDE DEF i
  <2>2. First(B, i) \in Nat /\ End(B, i) \in Nat
    BY <2>1, EndsAscend
  <2>3. b \in First(B, i) .. End(B, i) - 1
    BY <2>1, <2>2
  <2>4. B[b] \in Degrees
    BY <1>1, <1>4
  <2>5. h[i][B[b]] # 0
    BY <1>2, <2>1, <2>3, <2>4
  <2>6. <<i, B[b]>> \in Ones(h)
    BY <1>3, <2>1, <2>4, <2>5
  <2> QED BY <2>6 DEF OneAt, i
<1>5. ASSUME NEW p \in Ones(h)
      PROVE  \E b \in Nat : b < End(B, K - 1) /\ p = OneAt(B, b)
  <2>1. p \in RowsK \X Degrees /\ h[p[1]][p[2]] # 0
    BY <1>3
  <2>2. p = <<p[1], p[2]>> /\ p[1] \in RowsK /\ p[2] \in Degrees
    BY <2>1
  <2> DEFINE i == p[1]
  <2>3. PICK j \in First(B, i) .. End(B, i) - 1 : B[j] = p[2]
    BY <1>2, <2>1, <2>2
  <2>4. First(B, i) \in Nat /\ End(B, i) \in Nat /\ End(B, i) <= End(B, K - 1)
    BY <1>0, <2>2, EndsAscend
  <2>5. End(B, K - 1) \in Nat
    BY <1>0, EndsAscend
  <2> HIDE DEF i
  <2>6. j \in Nat /\ First(B, i) <= j /\ j < End(B, i) /\ j < End(B, K - 1)
    BY <2>3, <2>4, <2>5
  <2>7. RowAt(B, j) = i
    BY <2>2, <2>6, RowOfPlace DEF i
  <2>8. p = OneAt(B, j)
    BY <2>2, <2>3, <2>7 DEF OneAt, i
  <2> QED BY <2>6, <2>8
<1>6. ASSUME NEW b \in Nat, NEW d \in Nat, b < d, d < End(B, K - 1)
      PROVE  Precedes(OneAt(B, b), OneAt(B, d))
  <2> DEFINE i == RowAt(B, b)
             j == RowAt(B, d)
  <2>1. End(B, K - 1) \in Nat /\ b < End(B, K - 1)
    BY <1>0, <1>6, EndsAscend
  <2>2. /\ i \in RowsK /\ i \in Int /\ First(B, i) <= b /\ b < End(B, i)
        /\ j \in RowsK /\ j \in Int /\ First(B, j) <= d /\ d < End(B, j) /\ i <= j
    BY <1>6, <2>1, RowOfPlace
  <2>3. OneAt(B, b) = <<i, B[b]>> /\ OneAt(B, d) = <<j, B[d]>>
    BY DEF OneAt
  <2> HIDE DEF i, j
  <2>4. CASE i = j
    <3>1. B[b] < B[d]
      BY <1>6, <2>2, <2>4, PositionsAscend
    <3> QED BY <2>3, <2>4, <3>1 DEF Precedes
  <2>5. CASE i < j
    BY <2>3, <2>5 DEF Precedes
  <2> QED BY <2>2, <2>4, <2>5
<1> QED BY <1>4, <1>5, <1>6 DEF h

(* Its first m places hold m ones.                                         *)
LEMMA PlacesCount ==
  ASSUME NEW B \in HintBytes, ~Malformed(B), NEW m \in Nat, m <= End(B, K - 1)
  PROVE  Cardinality({OneAt(B, b) : b \in 0 .. m - 1}) = m
<1> DEFINE D == 0 .. m - 1
           T == {OneAt(B, b) : b \in D}
           f == [b \in D |-> OneAt(B, b)]
<1>0. K - 1 \in RowsK /\ End(B, K - 1) \in Nat
  BY HintEncodingAssumption, EndsAscend DEF RowsK
<1>1. IsFiniteSet(D) /\ Cardinality(D) = m
  <2>1. IsFiniteSet(0 .. m - 1) /\ Cardinality(0 .. m - 1) = IF 0 > m - 1 THEN 0 ELSE (m - 1) - 0 + 1
    BY FS_Interval
  <2> QED BY <2>1
<1>2. ASSUME NEW b \in D, NEW d \in D, OneAt(B, b) = OneAt(B, d) PROVE b = d
  <2>1. b \in Nat /\ d \in Nat /\ b < End(B, K - 1) /\ d < End(B, K - 1)
    BY <1>0
  <2>2. OneAt(B, b) \in Ones(UnpackHint(B))
    BY <2>1, ListedOnes
  <2>3. ~Precedes(OneAt(B, b), OneAt(B, b))
    BY <2>2, OnesFinite DEF Precedes
  <2>4. ~(b < d) /\ ~(d < b)
    BY <1>2, <2>1, <2>3, ListedOnes
  <2> QED BY <2>1, <2>4
<1>3. f \in Bijection(D, T)
  <2>1. f \in [D -> T] /\ \A x \in T : \E b \in D : f[b] = x
    OBVIOUS
  <2>2. \A b, d \in D : f[b] = f[d] => b = d
    BY <1>2
  <2> HIDE DEF f, D, T
  <2> QED BY <2>1, <2>2 DEF Bijection, Injection, Surjection, IsInjective
<1>4. ExistsBijection(D, T)
  BY <1>3 DEF ExistsBijection
<1> HIDE DEF D, T
<1>5. Cardinality(T) = Cardinality(D)
  BY <1>1, <1>4, FS_Bijection
<1> QED BY <1>1, <1>5 DEF T, D

(* Packing what UnpackSig reads of bytes it accepts gives these bytes: no  *)
(* two byte strings stand for one hint (packing.go:174-190).               *)
THEOREM HintCanonical ==
  ASSUME NEW B \in HintBytes, ~Malformed(B)
  PROVE  /\ UnpackHint(B) \in Hints
         /\ Cardinality(Ones(UnpackHint(B))) <= Omega
         /\ PackHint(UnpackHint(B)) = B
<1> DEFINE h == UnpackHint(B)
           E == End(B, K - 1)
           G(m) == {OneAt(B, b) : b \in 0 .. m - 1}
<1>0. /\ N \in Nat /\ N > 1 /\ K \in Nat /\ K > 0 /\ Omega \in Nat /\ K - 1 \in RowsK
      /\ E \in Nat /\ E <= Omega
  BY HintEncodingAssumption, EndsAscend DEF RowsK
<1>1. h \in Hints
  BY DEF UnpackHint, Hints
<1>2. /\ \A b \in Nat : b < E => OneAt(B, b) \in Ones(h)
      /\ \A p \in Ones(h) : \E b \in Nat : b < E /\ p = OneAt(B, b)
      /\ \A b, d \in Nat : b < d /\ d < E => Precedes(OneAt(B, b), OneAt(B, d))
  BY ListedOnes
<1>3. \A m \in Nat : m <= E => Cardinality(G(m)) = m
  BY PlacesCount
<1> HIDE DEF h, E
<1>4. Ones(h) = G(E)
  <2>1. \A b \in Nat : b < E <=> b \in 0 .. E - 1
    BY <1>0
  <2>2. \A b \in 0 .. E - 1 : b \in Nat
    OBVIOUS
  <2> QED BY <1>2, <2>1, <2>2
<1>5. Cardinality(Ones(h)) = E
  BY <1>0, <1>3, <1>4
<1>6. ASSUME NEW b \in Nat, b < E PROVE Rank(h, OneAt(B, b)) = b
  <2>1. Before(h, OneAt(B, b)) = {q \in Ones(h) : Precedes(q, OneAt(B, b))}
    BY DEF Before, Precedes
  <2>2. ASSUME NEW d \in Nat, d < E PROVE Precedes(OneAt(B, d), OneAt(B, b)) <=> d < b
    <3>1. d < b => Precedes(OneAt(B, d), OneAt(B, b))
      BY <1>2, <1>6
    <3>2. OneAt(B, b) \in Ones(h) /\ OneAt(B, d) \in Ones(h)
      BY <1>2, <1>6, <2>2
    <3>3. \A p, q \in Ones(h) : ~(Precedes(p, q) /\ Precedes(q, p))
      BY OnesFinite DEF Precedes
    <3>4. b < d => ~Precedes(OneAt(B, d), OneAt(B, b))
      BY <1>2, <2>2, <3>2, <3>3
    <3>5. b = d => ~Precedes(OneAt(B, d), OneAt(B, b))
      BY <3>2, <3>3
    <3> QED BY <3>1, <3>4, <3>5
  <2>3. Before(h, OneAt(B, b)) = G(b)
    <3>1. \A d : d \in 0 .. b - 1 <=> d \in Nat /\ d < b
      BY <1>6
    <3>2. \A d \in Nat : d < b => d < E
      BY <1>0, <1>6
    <3> QED BY <1>2, <2>1, <2>2, <3>1, <3>2
  <2> QED BY <1>0, <1>3, <1>6, <2>3 DEF Rank
<1>7. ASSUME NEW i \in RowsK PROVE UpTo(h, i) = End(B, i)
  <2>1. i \in Int /\ End(B, i) \in Nat /\ End(B, i) <= E
    <3>1. i <= K - 1
      BY <1>0 DEF RowsK
    <3> QED BY <1>0, <3>1, EndsAscend DEF E
  <2>2. \A b \in Nat : b < E => (OneAt(B, b)[1] <= i <=> b < End(B, i))
    BY RowOfPlace DEF OneAt, E
  <2>3. {q \in Ones(h) : q[1] <= i} = G(End(B, i))
    <3>1. \A d : d \in 0 .. End(B, i) - 1 <=> d \in Nat /\ d < End(B, i)
      BY <2>1
    <3>2. \A d \in Nat : d < End(B, i) => d < E
      BY <1>0, <2>1
    <3> QED BY <1>2, <2>2, <3>1, <3>2
  <2> QED BY <1>3, <2>1, <2>3 DEF UpTo
<1>8. /\ \A p \in Ones(h) : PackHint(h)[Rank(h, p)] = p[2]
      /\ \A b \in Nat : E <= b /\ b < Omega => PackHint(h)[b] = 0
      /\ \A i \in RowsK : End(PackHint(h), i) = UpTo(h, i)
      /\ PackHint(h) \in HintBytes
  BY <1>0, <1>5, PackedBytes
<1>9. ASSUME NEW b \in 0 .. Omega + K - 1 PROVE PackHint(h)[b] = B[b]
  <2>1. CASE b < E
    <3>1. b \in Nat
      BY <1>0
    <3>2. PackHint(h)[b] = OneAt(B, b)[2]
      BY <1>2, <1>6, <1>8, <2>1, <3>1
    <3> QED BY <3>2 DEF OneAt
  <2>2. CASE E <= b /\ b < Omega
    <3>1. b \in Nat /\ b \in 0 .. Omega - 1 /\ b >= E
      BY <1>0, <2>2
    <3>2. B[b] = 0
      BY <3>1 DEF Malformed, E
    <3> QED BY <1>8, <2>2, <3>1, <3>2
  <2>3. CASE Omega <= b
    <3>1. b - Omega \in RowsK /\ Omega + (b - Omega) = b
      BY <1>0, <2>3 DEF RowsK
    <3>2. End(PackHint(h), b - Omega) = End(B, b - Omega)
      BY <1>7, <1>8, <3>1
    <3> QED BY <3>1, <3>2 DEF End
  <2> QED BY <1>0, <2>1, <2>2, <2>3
<1>10. PackHint(h) = B
  <2> DEFINE D == 0 .. Omega + K - 1
             P == PackHint(h)
  <2>1. P \in [D -> Byte] /\ B \in [D -> Byte] /\ \A b \in D : P[b] = B[b]
    BY <1>8, <1>9 DEF HintBytes
  <2> HIDE DEF D, P
  <2>2. P = B
    BY <2>1
  <2> QED BY <2>2 DEF P
<1> QED BY <1>0, <1>1, <1>5, <1>10 DEF h
===============================================================================
