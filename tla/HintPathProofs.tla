--------------------------- MODULE HintPathProofs ---------------------------
(***************************************************************************)
(* Proofs about HintPath.  Everything follows from one property of the     *)
(* literals, BucketExact, which RingProofs proves for the parameter sets   *)
(* of params.go; the rest of the argument is the same for every value of   *)
(* the constants.                                                          *)
(*                                                                         *)
(* The inductive invariant is the conjunction of what the norm tests leave *)
(* (HintWithinReach) and of the congruence that ties the signer's low bits *)
(* to the verifier's recomputation (LowBitsExact): neither is enough alone *)
(* to say what useHint will answer.                                        *)
(***************************************************************************)
EXTENDS HintPath, RingProofs

IInv ==
  /\ TypeOK
  /\ HintWithinReach
  /\ LowBitsExact
  /\ HintRecovers
  /\ pc \in {"decompose", "low"} => delta = 0

-----------------------------------------------------------------------------
(* reduce32 subtracts a multiple of Q.                                     *)
LEMMA Reduce32Congruent ==
  ASSUME NEW a \in Int
  PROVE  \E k \in Int : reduce32(a) = a + k * Q /\ reduce32(a) \in Int
<1> DEFINE t == (a + RedUnit \div 2) \div RedUnit
<1>1. RedUnit \in Nat /\ RedUnit > 0
  BY RoundingAssumption, SMT
<1>2. RedUnit \div 2 \in Int
  BY <1>1, SMT
<1>3. a + RedUnit \div 2 \in Int
  BY <1>2, SMT
<1>4. t \in Int
  BY <1>1, <1>3, FloorDivision
<1>5. reduce32(a) = a - t * Q
  BY DEF reduce32
<1> HIDE DEF t
<1>6. Q \in Int
  BY Modulus
<1>7. -t \in Int /\ a - t * Q = a + (-t) * Q /\ a - t * Q \in Int
  BY <1>4, <1>6, SMT
<1> QED BY <1>5, <1>7

(* Congruence modulo Q, and what the remainder operator makes of it.       *)
LEMMA ZeroModQ ==
  ASSUME NEW x \in Int
  PROVE  x % Q = 0 <=> \E m \in Int : x = m * Q
<1>1. Q \in Int /\ Q \in Nat /\ Q > 0
  BY Modulus, SMT
<1>2. /\ x % Q \in Int /\ 0 <= x % Q /\ x % Q < Q
      /\ x \div Q \in Int /\ x = Q * (x \div Q) + (x % Q)
  BY <1>1, Remainder
<1>3. ASSUME x % Q = 0
      PROVE  x = (x \div Q) * Q
  BY <1>1, <1>2, <1>3, SMT
<1>4. ASSUME NEW m \in Int, x = m * Q
      PROVE  x % Q = 0
  <2> DEFINE q == x \div Q
             f == x % Q
  <2>1. q \in Int /\ f \in Int /\ 0 <= f /\ f < Q /\ x = Q * q + f
    BY <1>2
  <2> HIDE DEF q, f
  <2>2. m * Q + 0 = q * Q + f /\ 0 - f < Q /\ f - 0 < Q
    BY <1>1, <1>4, <2>1, SMT
  <2>3. m = q
    BY <1>1, <2>1, <2>2, QuotientUnique, SMT
  <2>4. f = 0
    BY <1>1, <2>1, <2>2, <2>3, SMT
  <2> QED BY <2>4 DEF f
<1> QED BY <1>2, <1>3, <1>4

(* What a passed norm test says (poly.go:108-120).                         *)
LEMMA ChkNormPassed ==
  ASSUME NEW a \in Int, NEW bound \in Int, ~chkNorm(a, bound)
  PROVE  Abs(a) < bound /\ -bound < a /\ a < bound
  BY SMT DEF chkNorm, Abs

-----------------------------------------------------------------------------
(* The coefficient enters with nothing added to it yet.                    *)
LEMMA InitIInv == Init => IInv
<1> SUFFICES ASSUME Init PROVE IInv
  OBVIOUS
<1>1. w \in Standard
  BY HintPathAssumption DEF Init
<1>2. 0 \in 0 .. Buckets - 1 /\ 0 \in Int
  BY Modulus, SMT
<1> QED
  BY <1>1, <1>2 DEF Init, IInv, TypeOK, HintWithinReach, LowBitsExact, HintRecovers

(* PolyVecKDecompose ties w1 and w0 to w.                                  *)
LEMMA DecomposeStep ==
  ASSUME BucketExact, IInv, Decompose
  PROVE  IInv'
<1> USE DEF IInv
<1>0. w \in Standard /\ w \in Int /\ delta = 0 /\ pc = "decompose"
  BY StandardInterval DEF TypeOK, Decompose
<1>1. PICK p, e \in Int :
           /\ decompose(w) = <<p, e>>
           /\ 0 <= p /\ p < Buckets
           /\ \/ w = p * (2 * Gamma2) + e /\ -Gamma2 < e /\ e <= Gamma2
              \/ p = 0 /\ w = Q + e /\ -Gamma2 <= e /\ e < 0
  BY <1>0, DecomposeSpec
<1>2. w1' = p /\ w0' = e /\ pc' = "low" /\ UNCHANGED <<w, delta, hint, out>>
  BY <1>1 DEF Decompose
<1>3. /\ Gamma2 \in Int /\ Gamma2 >= 1 /\ Buckets \in Int /\ Q \in Int
      /\ 2 * Gamma2 \in Int
  BY Modulus, SMT
<1>4. TypeOK'
  <2>1. p \in 0 .. Buckets - 1
    BY <1>1, <1>3, SMT
  <2> QED BY <1>2, <2>1 DEF TypeOK
<1>5. HintWithinReach'
  <2>1. Abs(e) <= Gamma2
    BY <1>1, <1>3, SMT DEF Abs
  <2> QED BY <1>2, <2>1 DEF HintWithinReach
<1>6. LowBitsExact'
  <2> DEFINE x == p * (2 * Gamma2) + e - (w + delta)
  <2>1. x \in Int /\ \E m \in Int : x = m * Q
    <3>1. p * (2 * Gamma2) \in Int
      BY <1>3, SMT
    <3>2. x = 0 * Q \/ x = (-1) * Q
      BY <1>0, <1>1, <1>3, <3>1, SMT
    <3> QED BY <1>0, <3>1, <3>2, SMT
  <2>2. x % Q = 0
    <3> HIDE DEF x
    <3> QED BY <2>1, ZeroModQ
  <2> QED BY <1>2, <2>2 DEF LowBitsExact
<1> QED BY <1>0, <1>2, <1>4, <1>5, <1>6 DEF HintRecovers

(* Moving the low bits and the recomputation by congruent amounts keeps    *)
(* them tied.                                                              *)
LEMMA MoveBoth ==
  ASSUME NEW p \in Int, NEW e \in Int, NEW v \in Int, NEW e2 \in Int, NEW v2 \in Int,
         (p * (2 * Gamma2) + e - v) % Q = 0,
         NEW k \in Int, e2 - e = v2 - v + k * Q
  PROVE  (p * (2 * Gamma2) + e2 - v2) % Q = 0
<1> DEFINE g == p * (2 * Gamma2)
<1>1. Gamma2 \in Int /\ Q \in Int /\ g \in Int
  BY Modulus, SMT
<1> HIDE DEF g
<1>2. g + e - v \in Int /\ g + e2 - v2 \in Int
  BY <1>1, SMT
<1>3. PICK m \in Int : g + e - v = m * Q
  BY <1>2, ZeroModQ DEF g
<1>4. m + k \in Int /\ g + e2 - v2 = (m + k) * Q
  BY <1>1, <1>3, SMT
<1>5. (g + e2 - v2) % Q = 0
  BY <1>2, <1>4, ZeroModQ
<1> QED BY <1>5 DEF g

(* Subtracting c*s2 moves the low bits and the recomputation together,     *)
(* and the norm test bounds what is left (sign.go:178-188).                *)
LEMMA SubtractCs2Step ==
  ASSUME IInv, NEW x \in Cs2, SubtractCs2(x)
  PROVE  IInv'
<1> USE DEF IInv
<1>0. /\ pc = "low" /\ x \in Int /\ w1 \in 0 .. Buckets - 1 /\ w1 \in Int
      /\ w0 \in Int /\ delta \in Int /\ w \in Int /\ w \in Standard
      /\ Q \in Int /\ Beta \in Int /\ Gamma2 \in Int /\ Gamma2 - Beta \in Int
  <2>1. Q \in Int /\ Gamma2 \in Int /\ Buckets \in Int
    BY Modulus
  <2>2. x \in Int
    BY <2>1, HintPathAssumption, SMT
  <2>3. w1 \in Int
    BY <2>1, SMT DEF TypeOK
  <2>4. Beta \in Int /\ Gamma2 - Beta \in Int
    BY <2>1, HintPathAssumption, SMT
  <2> QED BY <2>1, <2>2, <2>3, <2>4, StandardInterval DEF TypeOK, SubtractCs2
<1>1. PICK k \in Int : /\ reduce32(w0 - x) = w0 - x + k * Q
                       /\ reduce32(w0 - x) \in Int
  <2>1. w0 - x \in Int
    BY <1>0, SMT
  <2> QED BY <2>1, Reduce32Congruent
<1>2. /\ w0' = reduce32(w0 - x) /\ w0' \in Int
      /\ delta' = -x /\ delta' \in Int
      /\ pc' \in {"rejected", "hint"}
      /\ pc' = "hint" => ~chkNorm(w0', Gamma2 - Beta)
      /\ UNCHANGED <<w, w1, hint, out>>
  BY <1>0, <1>1, SMT DEF SubtractCs2
<1>3. TypeOK'
  BY <1>2 DEF TypeOK
<1>4. HintWithinReach'
  BY <1>0, <1>2, ChkNormPassed DEF HintWithinReach
<1>5. LowBitsExact'
  <2>0. (w1 * (2 * Gamma2) + w0 - (w + delta)) % Q = 0
    BY <1>0 DEF LowBitsExact
  <2>1. w1' = w1 /\ w' = w
    BY <1>2
  <2>2. delta = 0 /\ w + delta \in Int /\ w + delta' \in Int
        /\ w0' - w0 = (w + delta') - (w + delta) + k * Q
    BY <1>0, <1>1, <1>2, SMT
  <2>3. w1 \in Int /\ w0 \in Int /\ w0' \in Int /\ k \in Int
    BY <1>0, <1>2
  <2>4. (w1 * (2 * Gamma2) + w0' - (w + delta')) % Q = 0
    BY <2>0, <2>2, <2>3, MoveBoth
  <2> QED BY <2>1, <2>4 DEF LowBitsExact
<1> QED BY <1>2, <1>3, <1>4, <1>5 DEF HintRecovers

(* Adding c*t0 does too, and leaves the low bits within reach of one hint  *)
(* (sign.go:190-198).                                                      *)
LEMMA AddCt0Step ==
  ASSUME IInv, NEW x \in Ct0, AddCt0(x)
  PROVE  IInv'
<1> USE DEF IInv
<1> DEFINE h == reduce32(x)
<1>0. /\ pc = "hint" /\ x \in Int /\ w1 \in 0 .. Buckets - 1 /\ w1 \in Int
      /\ w0 \in Int /\ delta \in Int /\ w \in Int /\ w \in Standard
      /\ Q \in Int /\ Beta \in Int /\ Beta >= 0 /\ Gamma2 \in Int
  <2>1. Q \in Int /\ Gamma2 \in Int /\ Buckets \in Int
    BY Modulus
  <2>2. x \in Int
    BY <2>1, HintPathAssumption, SMT
  <2>3. w1 \in Int
    BY <2>1, SMT DEF TypeOK
  <2>4. Beta \in Int /\ Beta >= 0
    BY HintPathAssumption, SMT
  <2> QED BY <2>1, <2>2, <2>3, <2>4, StandardInterval DEF TypeOK, AddCt0
<1>1. PICK k \in Int : h = x + k * Q /\ h \in Int
  BY <1>0, Reduce32Congruent
<1>2. CASE chkNorm(h, Gamma2)
  <2>1. pc' = "rejected" /\ UNCHANGED <<w, w1, w0, delta, hint, out>>
    BY <1>2 DEF AddCt0
  <2> QED
    BY <2>1 DEF TypeOK, HintWithinReach, LowBitsExact, HintRecovers
<1>3. CASE ~chkNorm(h, Gamma2)
  <2>1. /\ pc' = "verify" /\ w0' = w0 + h /\ delta' = delta + x
        /\ hint' = makeHint(w0 + h, w1)
        /\ UNCHANGED <<w, w1, out>>
    BY <1>3 DEF AddCt0
  <2> HIDE DEF h
  <2>2. w0' \in Int /\ delta' \in Int
    BY <1>0, <1>1, <2>1, SMT
  <2>3. TypeOK'
    <3>1. hint' \in BOOLEAN
      BY <2>1, Zenon DEF makeHint
    <3> QED BY <2>1, <2>2, <3>1 DEF TypeOK
  <2>4. HintWithinReach'
    <3>1. Abs(w0) < Gamma2 - Beta
      BY <1>0 DEF HintWithinReach
    <3>2. -Gamma2 < h /\ h < Gamma2
      BY <1>0, <1>1, <1>3, ChkNormPassed
    <3>3. Abs(w0') + 1 < 2 * Gamma2
      BY <1>0, <1>1, <2>1, <3>1, <3>2, SMT DEF Abs
    <3> QED BY <2>1, <3>3 DEF HintWithinReach
  <2>5. LowBitsExact'
    <3>0. (w1 * (2 * Gamma2) + w0 - (w + delta)) % Q = 0
      BY <1>0 DEF LowBitsExact
    <3>1. w + delta \in Int /\ w + delta' \in Int
          /\ w0' - w0 = (w + delta') - (w + delta) + k * Q
      BY <1>0, <1>1, <2>1, <2>2, SMT
    <3>2. w1 \in Int /\ w0 \in Int /\ w0' \in Int /\ k \in Int
      BY <1>0, <2>2
    <3>3. (w1 * (2 * Gamma2) + w0' - (w + delta')) % Q = 0
      BY <3>0, <3>1, <3>2, MoveBoth
    <3> QED BY <2>1, <3>3 DEF LowBitsExact
  <2> QED BY <2>1, <2>3, <2>4, <2>5 DEF HintRecovers
<1> QED BY <1>2, <1>3

(* What the verifier recovers from the hint of a state that has one.       *)
LEMMA RecoverValue ==
  ASSUME BucketExact, IInv, pc = "verify"
  PROVE  /\ useHint((w + delta) % Q, hint) = w1
         /\ hint <=> decompose((w + delta) % Q)[1] # w1
<1> DEFINE v == (w + delta) % Q
           k == (w + delta) \div Q
<1>1. /\ Gamma2 \in Int /\ Q \in Int /\ Q \in Nat /\ Buckets \in Int /\ Q > 0
      /\ w1 * (2 * Gamma2) \in Int
      /\ w1 \in Int /\ 0 <= w1 /\ w1 < Buckets
      /\ w0 \in Int /\ delta \in Int /\ w \in Int
  <2>1. /\ Gamma2 \in Int /\ Q \in Int /\ Q \in Nat /\ Buckets \in Int /\ Q > 0
    BY Modulus, SMT
  <2>2. w1 \in Int /\ 0 <= w1 /\ w1 < Buckets
    BY <2>1, SMT DEF IInv, TypeOK
  <2>3. w1 * (2 * Gamma2) \in Int
    BY <2>1, <2>2, SMT
  <2> QED BY <2>1, <2>2, <2>3, StandardInterval DEF IInv, TypeOK
<1>2. w + delta \in Int /\ v \in Int /\ 0 <= v /\ v < Q
      /\ k \in Int /\ w + delta = Q * k + v
  BY <1>1, Remainder, SMT
<1>3. v \in Standard
  BY <1>1, <1>2, SMT DEF Standard
<1>4. Abs(w0) + 1 < 2 * Gamma2 /\ hint = makeHint(w0, w1)
  BY DEF IInv, HintWithinReach
<1>5. -(2 * Gamma2) < w0 - 1 /\ w0 + 1 < 2 * Gamma2
  BY <1>1, <1>4, SMT DEF Abs
<1>6. PICK j \in Int : w1 * (2 * Gamma2) + w0 - (w + delta) = j * Q
  <2>1. (w1 * (2 * Gamma2) + w0 - (w + delta)) % Q = 0
    BY DEF IInv, LowBitsExact
  <2>2. w1 * (2 * Gamma2) + w0 - (w + delta) \in Int
    BY <1>1, SMT
  <2> QED BY <2>1, <2>2, ZeroModQ
<1> HIDE DEF v, k
<1>7. -(j + k) \in Int /\ v = w1 * (2 * Gamma2) + w0 + (-(j + k)) * Q
  BY <1>1, <1>2, <1>6, SMT
<1>8. useHint(v, makeHint(w0, w1)) = w1 /\ (makeHint(w0, w1) <=> decompose(v)[1] # w1)
  <2> DEFINE m == -(j + k)
  <2>1. m \in Int /\ v = w1 * (2 * Gamma2) + w0 + m * Q
    BY <1>7
  <2>2. w1 \in Int /\ 0 <= w1 /\ w1 < Buckets /\ w0 \in Int
    BY <1>1
  <2> HIDE DEF m
  <2> QED BY <1>3, <1>5, <2>1, <2>2, HintCorrect
<1> QED BY <1>4, <1>8 DEF v

(* Hence the step of the verifier establishes HintRecovers.                *)
LEMMA RecoverStep ==
  ASSUME BucketExact, IInv, Recover
  PROVE  IInv'
<1>1. pc = "verify"
  BY DEF Recover
<1>2. pc' = "verified" /\ out' = w1 /\ UNCHANGED <<w, w1, w0, delta, hint>>
  BY <1>1, RecoverValue DEF Recover
<1> QED
  BY <1>2 DEF IInv, TypeOK, HintWithinReach, LowBitsExact, HintRecovers

(* The invariant is inductive, one lemma per action.                       *)
LEMMA NextIInv == BucketExact /\ IInv /\ [Next]_vars => IInv'
<1> SUFFICES ASSUME BucketExact, IInv, [Next]_vars PROVE IInv'
  OBVIOUS
<1>1. CASE Decompose
  BY <1>1, DecomposeStep
<1>2. ASSUME NEW x \in Cs2, SubtractCs2(x) PROVE IInv'
  BY <1>2, SubtractCs2Step
<1>3. ASSUME NEW x \in Ct0, AddCt0(x) PROVE IInv'
  BY <1>3, AddCt0Step
<1>4. CASE Recover
  BY <1>4, RecoverStep
<1>5. CASE UNCHANGED vars
  BY <1>5 DEF vars, IInv, TypeOK, HintWithinReach, LowBitsExact, HintRecovers
<1> QED BY <1>1, <1>2, <1>3, <1>4, <1>5 DEF Next

(* Every reachable state satisfies it, if bucket divides exactly.          *)
LEMMA IInvHolds == ASSUME BucketExact PROVE Spec => []IInv
<1>1. Init => IInv
  BY InitIInv
<1>2. IInv /\ [Next]_vars => IInv'
  BY NextIInv
<1> QED BY <1>1, <1>2, PTL DEF Spec

(* bucket does, with the parameters of params.go.                          *)
LEMMA RealParameters == MLDSA44 \/ MLDSA65 => BucketExact
  BY BucketExact44, BucketExact65

-----------------------------------------------------------------------------
(* With the parameters of params.go every reachable value has its type: in *)
(* particular the recovered high bits fit the 4 or 6 bits PolyW1Pack has.  *)
THEOREM TypeCorrect == ASSUME MLDSA44 \/ MLDSA65 PROVE Spec => []TypeOK
<1>1. Spec => []IInv
  BY RealParameters, IInvHolds
<1>2. IInv => TypeOK
  BY DEF IInv
<1> QED BY <1>1, <1>2, PTL

(* The verifier recovers the signer's high bits, for every w, every c*s2   *)
(* and every c*t0 (sign.go:183-199 and 290-294).                           *)
THEOREM VerifierRecovers ==
  ASSUME MLDSA44 \/ MLDSA65 PROVE Spec => []HintRecovers
<1>1. Spec => []IInv
  BY RealParameters, IInvHolds
<1>2. IInv => HintRecovers
  BY DEF IInv
<1> QED BY <1>1, <1>2, PTL

(* No hint bit is wasted: it is set only where the high bits differ        *)
(* (rounding.go:41-44).                                                    *)
THEOREM HintsAreExact == ASSUME MLDSA44 \/ MLDSA65 PROVE Spec => []HintExact
<1>1. Spec => []IInv
  BY RealParameters, IInvHolds
<1>2. IInv => HintExact
  BY RealParameters, RecoverValue DEF HintExact
<1> QED BY <1>1, <1>2, PTL

(* The low bits keep their meaning modulo Q through both additions         *)
(* (sign.go:178-198).                                                      *)
THEOREM LowBitsInvariant == ASSUME MLDSA44 \/ MLDSA65 PROVE Spec => []LowBitsExact
<1>1. Spec => []IInv
  BY RealParameters, IInvHolds
<1>2. IInv => LowBitsExact
  BY DEF IInv
<1> QED BY <1>1, <1>2, PTL

(* The two norm tests keep them within the reach of one hint bit           *)
(* (sign.go:186, 193).                                                     *)
THEOREM HintsReach == ASSUME MLDSA44 \/ MLDSA65 PROVE Spec => []HintWithinReach
<1>1. Spec => []IInv
  BY RealParameters, IInvHolds
<1>2. IInv => HintWithinReach
  BY DEF IInv
<1> QED BY <1>1, <1>2, PTL
=============================================================================
