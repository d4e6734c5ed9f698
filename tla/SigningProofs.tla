---------------------------- MODULE SigningProofs ----------------------------
(***************************************************************************)
(* Signing in full: the types, the two halves of the key, the high bits    *)
(* that hide s2, and that the verifier accepts what the signer returns,    *)
(* all from the inductive invariant IInv; and that a signature depends on  *)
(* nothing but the key, the message and rnd, from the inductive invariant  *)
(* DInv.                                                                   *)
(***************************************************************************)
EXTENDS Signing, RingProofs

-----------------------------------------------------------------------------
(* What each operation of the signer establishes, as relations between the *)
(* vectors it reads and writes.                                            *)

(* ww is A times v.                                                        *)
Commits(A, v, ww) ==
  \A i \in RowsK, n \in Degrees : Congruent(ww[i][n], RowProduct(A[i], v)[n])

(* zz is v + x*s.                                                          *)
Responds(x, s, v, zz) ==
  \A j \in RowsL, n \in Degrees : Congruent(zz[j][n], v[j][n] + Product(x, s[j])[n])

(* The halves of t are those of A*s + e.                                   *)
Halves(A, s, e, high, low) ==
  \A i \in RowsK, n \in Degrees :
    Congruent(high[i][n] * TwoD + low[i][n], RowProduct(A[i], s)[n] + e[i][n])

(* r is what x*e leaves of the low bits of ww.                             *)
Leaves(x, e, ww, r) ==
  \A i \in RowsK, n \in Degrees :
    Congruent(r[i][n], decompose(ww[i][n])[2] - Product(x, e[i])[n])

(* r is that plus x*low.                                                   *)
Carries(x, e, low, ww, r) ==
  \A i \in RowsK, n \in Degrees :
    Congruent(r[i][n], decompose(ww[i][n])[2] - Product(x, e[i])[n] + Product(x, low[i])[n])

(* The high bits of ww - x*e are high, and its low bits within Gamma2 by   *)
(* Beta.                                                                   *)
Conceals(x, e, ww, high) ==
  LET v == Map(LAMBDA a : a % Q, PolyVecSub(ww, ScalarProduct(x, e)))
  IN  PolyVecKHigh(v) = high /\ ~PolyVecChkNorm(PolyVecKLow(v), Gamma2 - Beta)

(* Every coefficient is less than bound away from zero.                    *)
Within(R, v, bound) ==
  \A i \in R, n \in Degrees : -bound < v[i][n] /\ v[i][n] < bound

-----------------------------------------------------------------------------
(* What passes the norm test is within the bound (poly.go:108-122).        *)
LEMMA NormTest ==
  ASSUME NEW R, NEW v \in [R -> Poly(Int)], NEW bound \in Int, ~PolyVecChkNorm(v, bound)
  PROVE  Within(R, v, bound)
<1> SUFFICES ASSUME NEW i \in R, NEW n \in Degrees
             PROVE  -bound < v[i][n] /\ v[i][n] < bound
  BY DEF Within
<1>1. v[i][n] \in Int
  BY DEF Poly
<1>2. ~chkNorm(v[i][n], bound)
  BY DEF PolyVecChkNorm
<1>3. ~(Abs(v[i][n]) >= bound)
  BY <1>2 DEF chkNorm
<1> QED BY <1>1, <1>3 DEF Abs

(* A challenge polynomial has integer coefficients.                        *)
LEMMA ChallengeType ==
  ASSUME NEW d \in Ctildes
  PROVE  Ball[d] \in Poly(Int)
<1>1. Ball[d] \in Poly({-1, 0, 1})
  BY SigningAssumption
<1> QED BY <1>1 DEF Poly

(* What InvNTT leaves is in reach of caddq, with s2 added or without.      *)
LEMMA InverseInReach ==
  InvBound \in Int /\ Q \in Int /\ InvBound + Eta < Q /\ InvBound < Q
<1>1. Q \in Int
  BY Modulus
<1>2. InvBound \in Nat /\ Eta \in Nat /\ InvBound + Eta < Q
  BY RingAssumption
<1> QED BY <1>1, <1>2

(* w is A*y, in standard representatives (sign.go:152-160).                *)
LEMMA CommitmentIs ==
  ASSUME NEW A \in [RowsK -> PolyVecL(Int)], NEW v \in PolyVecL(Int), NEW ww,
         ww = PolyVecCaddq(PolyVecInvNTT(PolyVecReduce(MatrixProduct(A, v))))
  PROVE  ww \in PolyVecK(Standard) /\ Commits(A, v, ww)
<1> DEFINE m == MatrixProduct(A, v)
           r == PolyVecReduce(m)
           t == PolyVecInvNTT(r)
<1>1. m \in [RowsK -> Poly(Int)] /\ \A i \in RowsK : m[i] = RowProduct(A[i], v)
  BY MatrixVec DEF PolyVecK
<1> HIDE DEF m
<1>2. r \in [RowsK -> Poly(Int)] /\ SameResidues(RowsK, r, m)
  BY <1>1, ReduceVec
<1> HIDE DEF r
<1>3. /\ t \in [RowsK -> Poly(Int)] /\ SameResidues(RowsK, t, r)
      /\ \A i \in RowsK, n \in Degrees : -InvBound <= t[i][n] /\ t[i][n] <= InvBound
  BY <1>2, InvNTTVec
<1> HIDE DEF t
<1>4. \A i \in RowsK, n \in Degrees : -Q <= t[i][n] /\ t[i][n] < Q
  <2>1. \A i \in RowsK, n \in Degrees : t[i][n] \in Int
    BY <1>3 DEF Poly
  <2>2. InvBound \in Int /\ Q \in Int /\ InvBound < Q
    BY InverseInReach
  <2> QED BY <1>3, <2>1, <2>2
<1>5. /\ PolyVecCaddq(t) \in [RowsK -> Poly(Standard)]
      /\ PolyVecCaddq(t) \in [RowsK -> Poly(Int)]
      /\ SameResidues(RowsK, PolyVecCaddq(t), t)
  BY <1>3, <1>4, CaddqVec
<1>6. ww = PolyVecCaddq(t)
  BY DEF t, r, m
<1>7. SameResidues(RowsK, ww, r)
  BY <1>2, <1>3, <1>5, <1>6, SameResiduesChain
<1>8. SameResidues(RowsK, ww, m)
  BY <1>1, <1>2, <1>5, <1>6, <1>7, SameResiduesChain
<1> QED BY <1>1, <1>5, <1>6, <1>8 DEF Commits, SameResidues, PolyVecK

(* z is y + c*s1 (sign.go:169-175).                                        *)
LEMMA ResponseIs ==
  ASSUME NEW x \in Poly(Int), NEW s \in PolyVecL(Int), NEW v \in PolyVecL(Int), NEW zz,
         zz = PolyVecReduce(PolyVecAdd(PolyVecInvNTT(ScalarProduct(x, s)), v))
  PROVE  zz \in PolyVecL(Int) /\ Responds(x, s, v, zz)
<1> DEFINE p == ScalarProduct(x, s)
           t == PolyVecInvNTT(p)
           a == PolyVecAdd(t, v)
<1>0. s \in [RowsL -> Poly(Int)] /\ v \in [RowsL -> Poly(Int)]
  BY DEF PolyVecL
<1>1. p \in [RowsL -> Poly(Int)] /\ \A j \in RowsL : p[j] = Product(x, s[j])
  BY <1>0, ScalarVec
<1> HIDE DEF p
<1>2. t \in [RowsL -> Poly(Int)] /\ SameResidues(RowsL, t, p)
  BY <1>1, InvNTTVec
<1> HIDE DEF t
<1>3. /\ a \in [RowsL -> Poly(Int)]
      /\ \A j \in RowsL, n \in Degrees : t[j][n] \in Int /\ v[j][n] \in Int /\ a[j][n] = t[j][n] + v[j][n]
  BY <1>0, <1>2, AddVec
<1> HIDE DEF a
<1>4. zz = PolyVecReduce(a)
  BY DEF a, t, p
<1>5. zz \in [RowsL -> Poly(Int)] /\ SameResidues(RowsL, zz, a)
  BY <1>3, <1>4, ReduceVec
<1>6. ASSUME NEW j \in RowsL, NEW n \in Degrees
      PROVE  Congruent(zz[j][n], v[j][n] + Product(x, s[j])[n])
  <2>1. /\ zz[j][n] \in Int /\ p[j][n] \in Int /\ t[j][n] \in Int /\ v[j][n] \in Int
    BY <1>1, <1>3, <1>5 DEF Poly
  <2>2. Congruent(zz[j][n], t[j][n] + v[j][n])
    BY <1>3, <1>5 DEF SameResidues
  <2>3. Congruent(t[j][n], p[j][n])
    BY <1>2 DEF SameResidues
  <2>4. Congruent(v[j][n], v[j][n])
    BY <2>1, CongruentOrder
  <2>5. Congruent(t[j][n] + v[j][n], p[j][n] + v[j][n])
    BY <2>1, <2>3, <2>4, CongruentSum
  <2>6. t[j][n] + v[j][n] \in Int /\ p[j][n] + v[j][n] \in Int
        /\ p[j][n] + v[j][n] = v[j][n] + p[j][n]
    BY <2>1
  <2>7. Congruent(zz[j][n], p[j][n] + v[j][n])
    BY <2>1, <2>2, <2>5, <2>6, CongruentOrder
  <2> QED BY <1>1, <2>6, <2>7
<1> QED BY <1>5, <1>6 DEF Responds, PolyVecL

(* The products the signer subtracts and adds (sign.go:180-183, 192-195).  *)
LEMMA RoundProduct ==
  ASSUME NEW x \in Poly(Int), NEW s \in PolyVecK(Int)
  PROVE  LET t == PolyVecInvNTT(ScalarProduct(x, s))
             r == PolyVecReduce(t)
         IN  /\ t \in PolyVecK(Int) /\ r \in PolyVecK(Int)
             /\ \A i \in RowsK, n \in Degrees :
                  /\ Product(x, s[i])[n] \in Int
                  /\ Congruent(t[i][n], Product(x, s[i])[n])
                  /\ Congruent(r[i][n], Product(x, s[i])[n])
<1> DEFINE p == ScalarProduct(x, s)
           t == PolyVecInvNTT(p)
           r == PolyVecReduce(t)
<1>0. s \in [RowsK -> Poly(Int)]
  BY DEF PolyVecK
<1>1. p \in [RowsK -> Poly(Int)] /\ \A i \in RowsK : p[i] = Product(x, s[i])
  BY <1>0, ScalarVec
<1> HIDE DEF p
<1>2. t \in [RowsK -> Poly(Int)] /\ SameResidues(RowsK, t, p)
  BY <1>1, InvNTTVec
<1> HIDE DEF t
<1>3. r \in [RowsK -> Poly(Int)] /\ SameResidues(RowsK, r, t)
  BY <1>2, ReduceVec
<1> HIDE DEF r
<1>4. SameResidues(RowsK, r, p)
  BY <1>1, <1>2, <1>3, SameResiduesChain
<1>5. \A i \in RowsK, n \in Degrees : p[i][n] \in Int
  BY <1>1 DEF Poly
<1>6. /\ t \in PolyVecK(Int) /\ r \in PolyVecK(Int)
      /\ \A i \in RowsK, n \in Degrees :
           /\ Product(x, s[i])[n] \in Int
           /\ Congruent(t[i][n], Product(x, s[i])[n])
           /\ Congruent(r[i][n], Product(x, s[i])[n])
  BY <1>1, <1>2, <1>3, <1>4, <1>5 DEF SameResidues, PolyVecK
<1> QED BY <1>6 DEF r, t, p

(* The low bits less c*s2, and those plus c*t0 (sign.go:179-198).          *)
LEMMA SubtractionIs ==
  ASSUME NEW x \in Poly(Int), NEW e \in PolyVecK(Int), NEW ww, NEW low \in PolyVecK(Int), NEW r,
         low = PolyVecKLow(ww), ww \in PolyVecK(Standard),
         r = PolyVecReduce(PolyVecSub(low, PolyVecInvNTT(ScalarProduct(x, e))))
  PROVE  r \in PolyVecK(Int) /\ Leaves(x, e, ww, r)
<1> DEFINE t == PolyVecInvNTT(ScalarProduct(x, e))
           d == PolyVecSub(low, t)
<1>1. /\ t \in [RowsK -> Poly(Int)]
      /\ \A i \in RowsK, n \in Degrees :
           Product(x, e[i])[n] \in Int /\ Congruent(t[i][n], Product(x, e[i])[n])
  BY RoundProduct DEF PolyVecK
<1> HIDE DEF t
<1>0. low \in [RowsK -> Poly(Int)]
  BY DEF PolyVecK
<1>2. /\ d \in [RowsK -> Poly(Int)]
      /\ \A i \in RowsK, n \in Degrees : /\ low[i][n] \in Int /\ t[i][n] \in Int
                                         /\ d[i][n] = low[i][n] - t[i][n]
  BY <1>0, <1>1, AddVec
<1> HIDE DEF d
<1>3. r = PolyVecReduce(d)
  BY DEF d, t
<1>4. r \in [RowsK -> Poly(Int)] /\ SameResidues(RowsK, r, d)
  BY <1>2, <1>3, ReduceVec
<1>5. \A i \in RowsK, n \in Degrees : low[i][n] = decompose(ww[i][n])[2]
  BY DEF PolyVecKLow, Map, PolyVecK
<1>6. ASSUME NEW i \in RowsK, NEW n \in Degrees
      PROVE  Congruent(r[i][n], low[i][n] - Product(x, e[i])[n])
  <2>1. /\ r[i][n] \in Int /\ low[i][n] \in Int /\ t[i][n] \in Int /\ Product(x, e[i])[n] \in Int
    BY <1>1, <1>2, <1>4 DEF Poly
  <2>2. Congruent(low[i][n], low[i][n])
    BY <2>1, CongruentOrder
  <2>3. Congruent(low[i][n] - t[i][n], low[i][n] - Product(x, e[i])[n])
    BY <1>1, <2>1, <2>2, CongruentSum
  <2>4. Congruent(r[i][n], low[i][n] - t[i][n])
    BY <1>2, <1>4 DEF SameResidues
  <2>5. low[i][n] - t[i][n] \in Int /\ low[i][n] - Product(x, e[i])[n] \in Int
    BY <2>1
  <2> QED BY <2>1, <2>3, <2>4, <2>5, CongruentOrder
<1> QED BY <1>4, <1>5, <1>6 DEF Leaves, PolyVecK

(* The sum from which the hints are made (sign.go:189-199).                *)
LEMMA CarryIs ==
  ASSUME NEW x \in Poly(Int), NEW e \in PolyVecK(Int), NEW low \in PolyVecK(Int), NEW ww,
         NEW r \in PolyVecK(Int), NEW bound \in Int, NEW ct0, NEW s,
         \A i \in RowsK, n \in Degrees : decompose(ww[i][n])[2] \in Int,
         Leaves(x, e, ww, r), Within(RowsK, r, bound),
         ct0 = PolyVecReduce(PolyVecInvNTT(ScalarProduct(x, low))),
         ~PolyVecChkNorm(ct0, Gamma2), s = PolyVecAdd(r, ct0)
  PROVE  s \in PolyVecK(Int) /\ Carries(x, e, low, ww, s) /\ Within(RowsK, s, bound + Gamma2 - 1)
<1>1. /\ ct0 \in [RowsK -> Poly(Int)]
      /\ \A i \in RowsK, n \in Degrees :
           Product(x, low[i])[n] \in Int /\ Congruent(ct0[i][n], Product(x, low[i])[n])
  BY RoundProduct DEF PolyVecK
<1>2. \A i \in RowsK, n \in Degrees : Product(x, e[i])[n] \in Int
  BY RoundProduct
<1>3. Within(RowsK, ct0, Gamma2)
  BY <1>1, Modulus, NormTest
<1>4. /\ s \in [RowsK -> Poly(Int)]
      /\ \A i \in RowsK, n \in Degrees : /\ r[i][n] \in Int /\ ct0[i][n] \in Int
                                         /\ s[i][n] = r[i][n] + ct0[i][n]
  BY <1>1, AddVec DEF PolyVecK
<1>5. Within(RowsK, s, bound + Gamma2 - 1)
  <2> SUFFICES ASSUME NEW i \in RowsK, NEW n \in Degrees
               PROVE  -(bound + Gamma2 - 1) < s[i][n] /\ s[i][n] < bound + Gamma2 - 1
    BY DEF Within
  <2>1. /\ -bound < r[i][n] /\ r[i][n] < bound /\ -Gamma2 < ct0[i][n] /\ ct0[i][n] < Gamma2
    BY <1>3 DEF Within
  <2>2. r[i][n] \in Int /\ ct0[i][n] \in Int /\ s[i][n] = r[i][n] + ct0[i][n] /\ Gamma2 \in Int
    BY <1>4, Modulus
  <2> QED BY <2>1, <2>2
<1>6. ASSUME NEW i \in RowsK, NEW n \in Degrees
      PROVE  Congruent(s[i][n], decompose(ww[i][n])[2] - Product(x, e[i])[n] + Product(x, low[i])[n])
  <2> DEFINE d == decompose(ww[i][n])[2] - Product(x, e[i])[n]
  <2>1. d \in Int
    BY <1>2
  <2>2. Congruent(r[i][n], d)
    BY DEF Leaves
  <2> HIDE DEF d
  <2>3. Congruent(r[i][n] + ct0[i][n], d + Product(x, low[i])[n])
    BY <1>1, <1>4, <2>1, <2>2, CongruentSum
  <2> QED BY <1>4, <2>3 DEF d
<1> QED BY <1>4, <1>5, <1>6 DEF Carries, PolyVecK

(* What decompose makes of w, as a congruence: the exception of the last   *)
(* bucket disappears modulo Q.                                             *)
LEMMA DecomposeCongruent ==
  ASSUME BucketExact, NEW a \in Standard
  PROVE  \E p, e \in Int :
           /\ decompose(a) = <<p, e>> /\ 0 <= p /\ p < Buckets
           /\ -Gamma2 <= e /\ e <= Gamma2
           /\ p * (2 * Gamma2) \in Int /\ Congruent(a, p * (2 * Gamma2) + e)
<1>1. PICK p, e \in Int :
        /\ decompose(a) = <<p, e>> /\ 0 <= p /\ p < Buckets
        /\ \/ a = p * (2 * Gamma2) + e /\ -Gamma2 < e /\ e <= Gamma2
           \/ p = 0 /\ a = Q + e /\ -Gamma2 <= e /\ e < 0
  BY DecomposeSpec
<1>2. Gamma2 \in Int /\ Gamma2 >= 1 /\ Q \in Int /\ a \in Int
  BY Modulus, StandardInterval
<1>3. p * (2 * Gamma2) \in Int /\ (p = 0 => p * (2 * Gamma2) = 0)
  BY <1>2, SMT
<1>4. -Gamma2 <= e /\ e <= Gamma2
  BY <1>1, <1>2
<1>5. Congruent(a, p * (2 * Gamma2) + e)
  <2>1. CASE a = p * (2 * Gamma2) + e
    BY <1>2, <2>1, CongruentOrder
  <2>2. CASE p = 0 /\ a = Q + e
    <3>1. a = (p * (2 * Gamma2) + e) + 1 * Q
      BY <1>2, <1>3, <2>2
    <3> QED BY <3>1 DEF Congruent
  <2> QED BY <1>1, <2>1, <2>2
<1> QED BY <1>1, <1>3, <1>4, <1>5

(* High and low bits of a vector of standard representatives.              *)
LEMMA DecomposeVec ==
  ASSUME BucketExact, NEW ww \in PolyVecK(Standard)
  PROVE  /\ PolyVecKHigh(ww) \in PolyVecK(0 .. Buckets - 1)
         /\ PolyVecKLow(ww) \in PolyVecK(Int)
         /\ \A i \in RowsK, n \in Degrees :
              /\ ww[i][n] \in Standard
              /\ PolyVecKHigh(ww)[i][n] = decompose(ww[i][n])[1]
              /\ decompose(ww[i][n])[1] \in Int /\ 0 <= decompose(ww[i][n])[1]
              /\ decompose(ww[i][n])[1] < Buckets
              /\ decompose(ww[i][n])[2] \in Int
<1>1. \A i \in RowsK, n \in Degrees : ww[i][n] \in Standard
  BY DEF PolyVecK, Poly
<1>2. ASSUME NEW i \in RowsK, NEW n \in Degrees
      PROVE  /\ decompose(ww[i][n])[1] \in Int /\ 0 <= decompose(ww[i][n])[1]
             /\ decompose(ww[i][n])[1] < Buckets
             /\ decompose(ww[i][n])[2] \in Int
  <2>1. PICK p, e \in Int :
           /\ decompose(ww[i][n]) = <<p, e>> /\ 0 <= p /\ p < Buckets
    BY <1>1, DecomposeSpec
  <2> QED BY <2>1
<1>3. PolyVecKHigh(ww) = [i \in RowsK |-> [n \in Degrees |-> decompose(ww[i][n])[1]]]
  BY DEF PolyVecKHigh, Map, PolyVecK
<1>4. PolyVecKLow(ww) = [i \in RowsK |-> [n \in Degrees |-> decompose(ww[i][n])[2]]]
  BY DEF PolyVecKLow, Map, PolyVecK
<1>5. Buckets \in Int
  BY Modulus
<1>6. \A i \in RowsK, n \in Degrees : decompose(ww[i][n])[1] \in 0 .. Buckets - 1
  BY <1>2, <1>5
<1>7. PolyVecKHigh(ww) \in PolyVecK(0 .. Buckets - 1)
  BY <1>3, <1>6 DEF PolyVecK, Poly
<1>8. PolyVecKLow(ww) \in PolyVecK(Int)
  BY <1>2, <1>4 DEF PolyVecK, Poly
<1> QED BY <1>1, <1>2, <1>3, <1>7, <1>8

(* With c*s2 subtracted the high bits of w are what they were, and the low *)
(* bits stay clear of the edge of the bucket by Beta (sign.go:179-186).    *)
LEMMA HighBitsKept ==
  ASSUME BucketExact, NEW x \in Poly(Int), NEW e \in PolyVecK(Int),
         NEW ww \in PolyVecK(Standard), NEW r \in PolyVecK(Int), Leaves(x, e, ww, r),
         ~PolyVecChkNorm(r, Gamma2 - Beta)
  PROVE  Conceals(x, e, ww, PolyVecKHigh(ww))
<1> DEFINE bound == Gamma2 - Beta
           p == ScalarProduct(x, e)
           d == PolyVecSub(ww, p)
           v == Map(LAMBDA a : a % Q, d)
<1>a. bound \in Int /\ bound <= Gamma2 /\ ~PolyVecChkNorm(r, bound)
  BY SigningAssumption, Modulus
<1> HIDE DEF bound
<1>0. ww \in [RowsK -> Poly(Int)] /\ e \in [RowsK -> Poly(Int)] /\ r \in [RowsK -> Poly(Int)]
  BY StandardInterval DEF PolyVecK, Poly
<1>1. p \in [RowsK -> Poly(Int)] /\ \A i \in RowsK : p[i] = Product(x, e[i])
  BY <1>0, ScalarVec
<1> HIDE DEF p
<1>2. /\ d \in [RowsK -> Poly(Int)]
      /\ \A i \in RowsK, n \in Degrees : /\ ww[i][n] \in Int /\ p[i][n] \in Int
                                         /\ d[i][n] = ww[i][n] - p[i][n]
  BY <1>0, <1>1, AddVec
<1> HIDE DEF d
<1>3. DOMAIN d = RowsK /\ v = [i \in RowsK |-> [n \in Degrees |-> d[i][n] % Q]]
  BY <1>2 DEF Map
<1> HIDE DEF v
<1>4. ASSUME NEW i \in RowsK, NEW n \in Degrees
      PROVE  decompose(v[i][n]) = <<decompose(ww[i][n])[1], r[i][n]>>
  <2>1. PICK q, f \in Int :
           /\ decompose(ww[i][n]) = <<q, f>> /\ 0 <= q /\ q < Buckets
           /\ q * (2 * Gamma2) \in Int /\ Congruent(ww[i][n], q * (2 * Gamma2) + f)
    <3>1. ww[i][n] \in Standard
      BY DEF PolyVecK, Poly
    <3> QED BY <3>1, DecomposeCongruent
  <2> DEFINE G == q * (2 * Gamma2)
             cs == Product(x, e[i])[n]
             rr == r[i][n]
             s  == G + rr
             vv == v[i][n]
  <2>2. /\ G \in Int /\ cs \in Int /\ rr \in Int /\ ww[i][n] \in Int
        /\ d[i][n] \in Int /\ d[i][n] = ww[i][n] - cs
    BY <1>0, <1>1, <1>2, <2>1 DEF Poly
  <2>3. Congruent(rr, f - cs)
    BY <2>1 DEF Leaves
  <2>4. vv = d[i][n] % Q
    BY <1>3
  <2>5. vv \in Standard /\ vv \in Int /\ Congruent(vv, d[i][n])
    BY <2>2, <2>4, StandardSpec
  <2>6. Congruent(ww[i][n], G + f)
    BY <2>1
  <2>7. -bound < rr /\ rr < bound
    BY <1>0, <1>a, NormTest DEF Within
  <2>a. /\ Gamma2 \in Int /\ Gamma2 >= 1 /\ Q \in Int /\ Buckets \in Int
        /\ Buckets * (2 * Gamma2) = Q - 1
    BY Modulus
  <2> HIDE DEF G, cs, rr, vv
  <2>8. Congruent(vv, s)
    <3>1. Congruent(cs, cs) /\ Congruent(f - cs, rr)
      BY <2>1, <2>2, <2>3, CongruentOrder
    <3>2. Congruent(ww[i][n] - cs, (G + f) - cs)
      <4>1. G + f \in Int /\ ww[i][n] \in Int /\ cs \in Int /\ Congruent(cs, cs)
        BY <2>1, <2>2, <3>1
      <4> QED BY <2>6, <4>1, CongruentSum
    <3>3. Congruent(G, G)
      BY <2>2, CongruentOrder
    <3>4. Congruent(G + (f - cs), G + rr)
      BY <2>1, <2>2, <3>1, <3>3, CongruentSum
    <3>5. (G + f) - cs = G + (f - cs) /\ G + (f - cs) \in Int /\ G + rr \in Int /\ ww[i][n] - cs \in Int
      BY <2>1, <2>2
    <3>6. Congruent(vv, G + (f - cs))
      BY <2>2, <2>5, <3>2, <3>5, CongruentOrder
    <3> QED BY <2>5, <3>4, <3>5, <3>6, CongruentOrder
  <2>9. s < Q /\ (q >= 1 => s >= 0)
    <3>1. q * (2 * Gamma2) <= (Buckets - 1) * (2 * Gamma2)
      BY <2>1, <2>a, ProductMonotone
    <3>2. (Buckets - 1) * (2 * Gamma2) = Buckets * (2 * Gamma2) - 2 * Gamma2
      BY <2>a, SMT
    <3>3. G <= Q - 1 - 2 * Gamma2
      BY <2>a, <3>1, <3>2 DEF G
    <3>4. q >= 1 => 1 * (2 * Gamma2) <= q * (2 * Gamma2)
      BY <2>1, <2>a, ProductMonotone
    <3>5. q >= 1 => 2 * Gamma2 <= G
      BY <2>a, <3>4 DEF G
    <3> QED BY <2>2, <1>a, <2>7, <2>a, <3>3, <3>5
  <2>10. q = 0 => G = 0
    BY <2>a, SMT DEF G
  <2>11. CASE s >= 0
    <3>1. s \in Standard
      BY <2>2, <2>9, <2>11, <2>a DEF Standard
    <3>2. vv = s
      BY <2>5, <2>8, <3>1, StandardUnique
    <3>3. vv = q * (2 * Gamma2) + rr /\ -Gamma2 < rr /\ rr <= Gamma2
      BY <1>a, <2>2, <2>7, <2>a, <3>2 DEF G
    <3>4. decompose(vv) = <<q, rr>>
      BY <2>1, <2>2, <2>5, <3>3, DecomposeUnique
    <3> QED BY <2>1, <3>4 DEF vv, rr
  <2>12. CASE ~(s >= 0)
    <3>1. q = 0
      BY <2>1, <2>9, <2>12
    <3>2. s = rr /\ rr < 0 /\ -Gamma2 <= rr
      BY <1>a, <2>2, <2>7, <2>10, <2>12, <2>a, <3>1
    <3>3. Q + rr \in Standard
      <4>1. Gamma2 * Buckets \in Int /\ Q = 2 * (Gamma2 * Buckets) + 1 /\ Gamma2 * Buckets >= 2 * Gamma2
        BY Modulus
      <4>2. Q >= Gamma2
        BY <2>a, <4>1
      <4> QED BY <2>2, <2>a, <3>2, <4>2 DEF Standard
    <3>4. Congruent(s, Q + rr)
      <4>1. s = (Q + rr) + (-1) * Q
        BY <2>2, <2>a, <3>2
      <4> QED BY <4>1 DEF Congruent
    <3>5. Congruent(vv, Q + rr)
      <4>1. s \in Int /\ Q + rr \in Int
        BY <2>2, <2>a
      <4> HIDE DEF s
      <4> QED BY <2>5, <2>8, <3>4, <4>1, CongruentOrder
    <3>6. vv = Q + rr
      BY <2>5, <3>3, <3>5, StandardUnique
    <3>7. decompose(vv) = <<q, rr>>
      BY <2>1, <2>2, <2>5, <3>1, <3>2, <3>6, DecomposeUnique
    <3> QED BY <2>1, <3>7 DEF vv, rr
  <2> QED BY <2>11, <2>12
<1>5. PolyVecKHigh(v) = [i \in RowsK |-> [n \in Degrees |-> decompose(v[i][n])[1]]]
  BY <1>3 DEF PolyVecKHigh, Map
<1>6. PolyVecKLow(v) = [i \in RowsK |-> [n \in Degrees |-> decompose(v[i][n])[2]]]
  BY <1>3 DEF PolyVecKLow, Map
<1>7. PolyVecKHigh(ww) = [i \in RowsK |-> [n \in Degrees |-> decompose(ww[i][n])[1]]]
  BY DEF PolyVecKHigh, Map, PolyVecK
<1>8. r = [i \in RowsK |-> [n \in Degrees |-> r[i][n]]]
  BY DEF PolyVecK, Poly
<1>9. PolyVecKHigh(v) = PolyVecKHigh(ww)
  BY <1>4, <1>5, <1>7
<1>10. PolyVecKLow(v) = r
  <2>1. \A i \in RowsK, n \in Degrees : decompose(v[i][n])[2] = r[i][n]
    BY <1>4
  <2> QED BY <1>6, <1>8, <2>1
<1> QED BY <1>9, <1>10, <1>a DEF v, d, p, bound, Conceals

(* The verifier's A*z - c*t1*2^D and the hints give back the high bits the *)
(* signer hashed (sign.go:264-298 against 142-199).                        *)
LEMMA HighBitsRecovered ==
  ASSUME BucketExact, NEW A \in [RowsK -> PolyVecL(Int)], NEW x \in Poly(Int),
         NEW v \in PolyVecL(Int), NEW zz \in PolyVecL(Int), NEW s \in PolyVecL(Int),
         NEW e \in PolyVecK(Int), NEW high \in PolyVecK(Int), NEW low \in PolyVecK(Int),
         NEW ww \in PolyVecK(Standard), NEW sum \in PolyVecK(Int),
         Commits(A, v, ww), Responds(x, s, v, zz), Halves(A, s, e, high, low),
         Carries(x, e, low, ww, sum), Within(RowsK, sum, 2 * Gamma2 - 1)
  PROVE  LET Az  == MatrixProduct(A, zz)
             ct1 == ScalarProduct(x, PolyVecShiftl(high))
             u   == PolyVecCaddq(PolyVecInvNTT(PolyVecReduce(PolyVecSub(Az, ct1))))
             hh  == PolyVecKMakeHint(sum, PolyVecKHigh(ww))
         IN  PolyVecKUseHint(u, hh) = PolyVecKHigh(ww)
<1> DEFINE Az  == MatrixProduct(A, zz)
           t1  == PolyVecShiftl(high)
           ct1 == ScalarProduct(x, t1)
           d   == PolyVecSub(Az, ct1)
           r   == PolyVecReduce(d)
           m   == PolyVecInvNTT(r)
           u   == PolyVecCaddq(m)
           hh  == PolyVecKMakeHint(sum, PolyVecKHigh(ww))
<1>1. Az \in [RowsK -> Poly(Int)] /\ \A i \in RowsK : Az[i] = RowProduct(A[i], zz)
  BY MatrixVec DEF PolyVecK
<1> HIDE DEF Az
<1>2. t1 \in [RowsK -> Poly(Int)] /\ \A i \in RowsK, n \in Degrees : t1[i][n] = high[i][n] * TwoD
  <2>1. TwoD \in Int
    BY RoundingAssumption
  <2>2. \A i \in RowsK, n \in Degrees : high[i][n] \in Int
    BY DEF PolyVecK, Poly
  <2>3. \A a \in Int : a * TwoD \in Int
    BY <2>1, SMT
  <2>4. t1 = [i \in RowsK |-> [n \in Degrees |-> high[i][n] * TwoD]]
    BY DEF PolyVecShiftl, Map, PolyVecK
  <2> HIDE DEF t1
  <2> QED BY <2>2, <2>3, <2>4 DEF Poly
<1> HIDE DEF t1
<1>3. ct1 \in [RowsK -> Poly(Int)] /\ \A i \in RowsK : ct1[i] = Product(x, t1[i])
  BY <1>2, ScalarVec
<1> HIDE DEF ct1
<1>4. /\ d \in [RowsK -> Poly(Int)]
      /\ \A i \in RowsK, n \in Degrees : /\ Az[i][n] \in Int /\ ct1[i][n] \in Int
                                         /\ d[i][n] = Az[i][n] - ct1[i][n]
  BY <1>1, <1>3, AddVec
<1> HIDE DEF d
<1>5. r \in [RowsK -> Poly(Int)] /\ SameResidues(RowsK, r, d)
  BY <1>4, ReduceVec
<1> HIDE DEF r
<1>6. /\ m \in [RowsK -> Poly(Int)] /\ SameResidues(RowsK, m, r)
      /\ \A i \in RowsK, n \in Degrees : -InvBound <= m[i][n] /\ m[i][n] <= InvBound
  BY <1>5, InvNTTVec
<1> HIDE DEF m
<1>7. \A i \in RowsK, n \in Degrees : -Q <= m[i][n] /\ m[i][n] < Q
  <2>1. \A i \in RowsK, n \in Degrees : m[i][n] \in Int
    BY <1>6 DEF Poly
  <2>2. InvBound \in Int /\ Q \in Int /\ InvBound < Q
    BY InverseInReach
  <2> QED BY <1>6, <2>1, <2>2
<1>8. /\ u \in [RowsK -> Poly(Standard)] /\ u \in [RowsK -> Poly(Int)] /\ SameResidues(RowsK, u, m)
  BY <1>6, <1>7, CaddqVec
<1> HIDE DEF u
<1>9. SameResidues(RowsK, u, d)
  <2>1. SameResidues(RowsK, u, r)
    BY <1>5, <1>6, <1>8, SameResiduesChain
  <2> QED BY <1>4, <1>5, <1>8, <2>1, SameResiduesChain
<1>10. ASSUME NEW i \in RowsK
       PROVE  \A n \in Degrees :
                Congruent(RowProduct(A[i], zz)[n] - Product(x, t1[i])[n],
                          RowProduct(A[i], v)[n] - Product(x, e[i])[n] + Product(x, low[i])[n])
  <2>1. /\ A[i] \in PolyVecL(Int) /\ e[i] \in Poly(Int) /\ low[i] \in Poly(Int) /\ t1[i] \in Poly(Int)
    BY <1>2 DEF PolyVecK
  <2>2. \A j \in RowsL, n \in Degrees : Congruent(zz[j][n], v[j][n] + Product(x, s[j])[n])
    BY DEF Responds
  <2>3. \A n \in Degrees : Congruent(t1[i][n] + low[i][n], RowProduct(A[i], s)[n] + e[i][n])
    BY <1>2 DEF Halves
  <2> QED BY <2>1, <2>2, <2>3, VerifierSum
<1>11. ASSUME NEW i \in RowsK, NEW n \in Degrees
       PROVE  useHint(u[i][n], makeHint(sum[i][n], decompose(ww[i][n])[1])) = decompose(ww[i][n])[1]
  <2>0. ww[i][n] \in Standard /\ ww[i][n] \in Int /\ sum[i][n] \in Int
    BY StandardInterval DEF PolyVecK, Poly
  <2>1. PICK p, f \in Int :
           /\ decompose(ww[i][n]) = <<p, f>> /\ 0 <= p /\ p < Buckets
           /\ p * (2 * Gamma2) \in Int /\ Congruent(ww[i][n], p * (2 * Gamma2) + f)
    BY <2>0, DecomposeCongruent
  <2> DEFINE G  == p * (2 * Gamma2)
             Ay == RowProduct(A[i], v)[n]
             ce == Product(x, e[i])[n]
             cl == Product(x, low[i])[n]
             uu == u[i][n]
             ss == sum[i][n]
  <2>2. /\ G \in Int /\ Ay \in Int /\ ce \in Int /\ cl \in Int /\ ss \in Int
        /\ d[i][n] \in Int /\ uu \in Int /\ uu \in Standard
    <3>1. A[i] \in PolyVecL(Int) /\ e[i] \in Poly(Int) /\ low[i] \in Poly(Int)
      BY DEF PolyVecK
    <3>2. RowProduct(A[i], v) \in Poly(Int) /\ Product(x, e[i]) \in Poly(Int)
          /\ Product(x, low[i]) \in Poly(Int)
      BY <3>1, RowType, ProductType
    <3> QED BY <1>4, <1>8, <2>0, <2>1, <3>2 DEF Poly
  <2>3. Congruent(d[i][n], Ay - ce + cl)
    <3>1. d[i][n] = RowProduct(A[i], zz)[n] - Product(x, t1[i])[n]
      BY <1>1, <1>3, <1>4
    <3> QED BY <1>10, <3>1
  <2>4. Congruent(uu, d[i][n])
    BY <1>9 DEF SameResidues
  <2>5. Congruent(ww[i][n], Ay)
    BY DEF Commits
  <2>6. Congruent(ww[i][n], G + f)
    BY <2>1
  <2>7. Congruent(ss, f - ce + cl)
    BY <2>1 DEF Carries
  <2>8. -(2 * Gamma2 - 1) < ss /\ ss < 2 * Gamma2 - 1 /\ Gamma2 \in Int /\ Q \in Int
    BY Modulus DEF Within
  <2> HIDE DEF G, Ay, ce, cl, uu, ss
  <2>9. Congruent(uu, G + ss)
    <3>1. Congruent(Ay, G + f)
      <4>1. Congruent(Ay, ww[i][n]) /\ G + f \in Int
        BY <2>0, <2>1, <2>2, <2>5, CongruentOrder
      <4> QED BY <2>0, <2>2, <2>6, <4>1, CongruentOrder
    <3>2. Congruent(cl - ce, cl - ce) /\ cl - ce \in Int /\ G + f \in Int
      <4>1. cl - ce \in Int /\ G + f \in Int
        BY <2>1, <2>2
      <4> QED BY <4>1, CongruentOrder
    <3>3. Congruent(Ay + (cl - ce), (G + f) + (cl - ce))
      BY <2>2, <3>1, <3>2, CongruentSum
    <3>4. Congruent(f - ce + cl, ss) /\ f - ce + cl \in Int
      <4>1. f - ce + cl \in Int
        BY <2>1, <2>2
      <4> QED BY <2>2, <2>7, <4>1, CongruentOrder
    <3>5. Congruent(G, G)
      BY <2>2, CongruentOrder
    <3>6. Congruent(G + (f - ce + cl), G + ss)
      BY <2>2, <3>4, <3>5, CongruentSum
    <3>7. /\ Ay + (cl - ce) = Ay - ce + cl /\ (G + f) + (cl - ce) = G + (f - ce + cl)
          /\ Ay - ce + cl \in Int /\ G + (f - ce + cl) \in Int /\ G + ss \in Int
      BY <2>1, <2>2
    <3>8. Congruent(Ay - ce + cl, G + (f - ce + cl))
      BY <3>3, <3>7
    <3>9. Congruent(uu, Ay - ce + cl)
      BY <2>2, <2>3, <2>4, <3>7, CongruentOrder
    <3>10. Congruent(uu, G + (f - ce + cl))
      BY <2>2, <3>7, <3>8, <3>9, CongruentOrder
    <3> QED BY <2>2, <3>6, <3>7, <3>10, CongruentOrder
  <2>10. PICK k \in Int : uu = (G + ss) + k * Q
    BY <2>9 DEF Congruent
  <2>11. uu = p * (2 * Gamma2) + ss + k * Q
    BY <2>10 DEF G
  <2>12. -(2 * Gamma2) < ss - 1 /\ ss + 1 < 2 * Gamma2
    BY <2>2, <2>8
  <2>13. useHint(uu, makeHint(ss, p)) = p
    BY <2>1, <2>2, <2>11, <2>12, HintCorrect
  <2> QED BY <2>1, <2>13 DEF uu, ss
<1>12. \A i \in RowsK, n \in Degrees :
         hh[i][n] = IF makeHint(sum[i][n], decompose(ww[i][n])[1]) THEN 1 ELSE 0
  BY DEF PolyVecKMakeHint, PolyVecKHigh, Map, Map2, PolyVecK
<1> HIDE DEF hh
<1>13. \A i \in RowsK, n \in Degrees :
         (hh[i][n] # 0) <=> makeHint(sum[i][n], decompose(ww[i][n])[1])
  BY <1>12
<1>14. PolyVecKUseHint(u, hh) = [i \in RowsK |-> [n \in Degrees |-> useHint(u[i][n], hh[i][n] # 0)]]
  BY <1>8 DEF PolyVecKUseHint, Map2
<1>15. ASSUME NEW i \in RowsK, NEW n \in Degrees
       PROVE  useHint(u[i][n], hh[i][n] # 0) = decompose(ww[i][n])[1]
  <2>1. (hh[i][n] # 0) = makeHint(sum[i][n], decompose(ww[i][n])[1])
    BY <1>13 DEF makeHint
  <2> QED BY <1>11, <2>1
<1>16. PolyVecKHigh(ww) = [i \in RowsK |-> [n \in Degrees |-> decompose(ww[i][n])[1]]]
  BY DEF PolyVecKHigh, Map, PolyVecK
<1>17. PolyVecKUseHint(u, hh) = PolyVecKHigh(ww)
  BY <1>14, <1>15, <1>16
<1> QED BY <1>17 DEF u, m, r, d, ct1, t1, Az, hh

(* What key generation draws, as vectors of integers.                      *)
LEMMA DrawnTypes ==
  /\ \A A \in Matrices : A \in [RowsK -> PolyVecL(Int)]
  /\ \A s \in Secrets1 : s \in [RowsL -> Poly(-Eta .. Eta)] /\ s \in PolyVecL(Int)
  /\ \A s \in Secrets2 : s \in [RowsK -> Poly(-Eta .. Eta)] /\ s \in PolyVecK(Int)
  /\ \A p \in MaskPolys : p \in Poly(Int)
<1>1. \A a \in Standard : a \in Int
  BY StandardInterval
<1>2. Eta \in Int /\ Gamma1 \in Int
  BY RingAssumption
<1>3. /\ \A a \in -Eta .. Eta : a \in Int
      /\ \A a \in -Gamma1 + 1 .. Gamma1 : a \in Int
  BY <1>2
<1>4. /\ \A p : p \in Poly(Standard) => p \in Poly(Int)
      /\ \A p : p \in Poly(-Eta .. Eta) => p \in Poly(Int)
      /\ \A p : p \in Poly(-Gamma1 + 1 .. Gamma1) => p \in Poly(Int)
  BY <1>1, <1>3 DEF Poly
<1>5. \A A \in Matrices : A \in [RowsK -> PolyVecL(Int)]
  <2>1. \A A \in Matrices : A \in [RowsK -> [RowsL -> Poly(Standard)]]
    BY SigningAssumption
  <2> QED BY <1>4, <2>1 DEF PolyVecL
<1>6. \A s \in Secrets1 : s \in [RowsL -> Poly(-Eta .. Eta)] /\ s \in PolyVecL(Int)
  <2>1. \A s \in Secrets1 : s \in [RowsL -> Poly(-Eta .. Eta)]
    BY SigningAssumption DEF PolyVecL
  <2> QED BY <1>4, <2>1 DEF PolyVecL
<1>7. \A s \in Secrets2 : s \in [RowsK -> Poly(-Eta .. Eta)] /\ s \in PolyVecK(Int)
  <2>1. \A s \in Secrets2 : s \in [RowsK -> Poly(-Eta .. Eta)]
    BY SigningAssumption DEF PolyVecK
  <2> QED BY <1>4, <2>1 DEF PolyVecK
<1>8. \A p \in MaskPolys : p \in Poly(Int)
  BY <1>4, SigningAssumption
<1> QED BY <1>5, <1>6, <1>7, <1>8

(* t is A*s1 + s2 in standard representatives, and the fields of the two   *)
(* keys hold all of it (sign.go:55-83).                                    *)
LEMMA KeyIs ==
  ASSUME NEW A \in Matrices, NEW s \in Secrets1, NEW e \in Secrets2, NEW t, NEW p1, NEW p0,
         t = PolyVecCaddq(PublicT(A, s, e)),
         p1 = PolyT1Pack(PolyVecKT1(t)), p0 = PolyT0Pack(PolyVecKT0(t))
  PROVE  /\ p1 \in PolyVecK(0 .. T1Width - 1) /\ p0 \in PolyVecK(0 .. TwoD - 1)
         /\ PolyT0Unpack(p0) \in PolyVecK(Int)
         /\ Halves(A, s, e, p1, PolyT0Unpack(p0))
<1> DEFINE m == MatrixProduct(A, s)
           q == PolyVecReduce(m)
           r == PolyVecInvNTT(q)
           u == PolyVecAdd(r, e)
           T == PolyT0Unpack(p0)
<1>0. /\ A \in [RowsK -> PolyVecL(Int)] /\ s \in PolyVecL(Int)
      /\ e \in [RowsK -> Poly(-Eta .. Eta)] /\ e \in [RowsK -> Poly(Int)]
  BY DrawnTypes DEF PolyVecK
<1>1. m \in [RowsK -> Poly(Int)] /\ \A i \in RowsK : m[i] = RowProduct(A[i], s)
  BY <1>0, MatrixVec DEF PolyVecK
<1> HIDE DEF m
<1>14. q \in [RowsK -> Poly(Int)] /\ SameResidues(RowsK, q, m)
  BY <1>1, ReduceVec
<1> HIDE DEF q
<1>2. /\ r \in [RowsK -> Poly(Int)] /\ SameResidues(RowsK, r, q)
      /\ \A i \in RowsK, n \in Degrees : -InvBound <= r[i][n] /\ r[i][n] <= InvBound
  BY <1>14, InvNTTVec
<1> HIDE DEF r
<1>15. SameResidues(RowsK, r, m)
  BY <1>1, <1>2, <1>14, SameResiduesChain
<1>3. /\ u \in [RowsK -> Poly(Int)]
      /\ \A i \in RowsK, n \in Degrees : r[i][n] \in Int /\ e[i][n] \in Int /\ u[i][n] = r[i][n] + e[i][n]
  BY <1>0, <1>2, AddVec
<1> HIDE DEF u
<1>4. \A i \in RowsK, n \in Degrees : -Q <= u[i][n] /\ u[i][n] < Q
  <2> SUFFICES ASSUME NEW i \in RowsK, NEW n \in Degrees PROVE -Q <= u[i][n] /\ u[i][n] < Q
    OBVIOUS
  <2>1. e[i][n] \in -Eta .. Eta
    BY <1>0 DEF Poly
  <2>2. Eta \in Nat
    BY RingAssumption
  <2>3. InvBound \in Int /\ Q \in Int /\ InvBound + Eta < Q
    BY InverseInReach
  <2>4. -InvBound <= r[i][n] /\ r[i][n] <= InvBound
    BY <1>2
  <2>5. -Eta <= e[i][n] /\ e[i][n] <= Eta
    BY <2>1, <2>2
  <2> QED BY <1>3, <2>2, <2>3, <2>4, <2>5
<1>5. t = PolyVecCaddq(u)
  BY DEF PublicT, u, r, q, m
<1>6. t \in [RowsK -> Poly(Standard)] /\ t \in [RowsK -> Poly(Int)] /\ SameResidues(RowsK, t, u)
  BY <1>3, <1>4, <1>5, CaddqVec
<1>7. /\ p1 = [i \in RowsK |-> [n \in Degrees |-> power2round(t[i][n])[1] % T1Width]]
      /\ p0 = [i \in RowsK |-> [n \in Degrees |-> (TwoD \div 2 - power2round(t[i][n])[2]) % TwoD]]
  BY <1>6 DEF PolyT1Pack, PolyVecKT1, PolyT0Pack, PolyVecKT0, Map
<1>8. T = [i \in RowsK |-> [n \in Degrees |->
             TwoD \div 2 - ((TwoD \div 2 - power2round(t[i][n])[2]) % TwoD)]]
  BY <1>7 DEF PolyT0Unpack, Map
<1> HIDE DEF T
<1>9. ASSUME NEW i \in RowsK, NEW n \in Degrees
      PROVE  /\ p1[i][n] \in 0 .. T1Width - 1 /\ p0[i][n] \in 0 .. TwoD - 1
             /\ T[i][n] \in Int /\ t[i][n] = p1[i][n] * TwoD + T[i][n]
  <2>1. t[i][n] \in Standard
    BY <1>6 DEF Poly
  <2>2. PICK p, f \in Int :
           /\ power2round(t[i][n]) = <<p, f>> /\ t[i][n] = p * TwoD + f
           /\ p % T1Width = p /\ p \in 0 .. T1Width - 1
           /\ (TwoD \div 2 - f) % TwoD \in 0 .. TwoD - 1
           /\ TwoD \div 2 - ((TwoD \div 2 - f) % TwoD) = f
    BY <2>1, HalvesExact
  <2>3. power2round(t[i][n])[1] = p /\ power2round(t[i][n])[2] = f
    BY <2>2
  <2>4. p1[i][n] = p /\ p0[i][n] = (TwoD \div 2 - f) % TwoD
    BY <1>7, <2>2, <2>3
  <2>5. T[i][n] = f
    BY <1>8, <2>2, <2>3
  <2> QED BY <2>2, <2>4, <2>5
<1>10. p1 \in PolyVecK(0 .. T1Width - 1)
  BY <1>7, <1>9 DEF PolyVecK, Poly
<1>11. p0 \in PolyVecK(0 .. TwoD - 1)
  BY <1>7, <1>9 DEF PolyVecK, Poly
<1>12. T \in PolyVecK(Int)
  BY <1>8, <1>9 DEF PolyVecK, Poly
<1>13. Halves(A, s, e, p1, T)
  <2> SUFFICES ASSUME NEW i \in RowsK, NEW n \in Degrees
               PROVE  Congruent(p1[i][n] * TwoD + T[i][n], RowProduct(A[i], s)[n] + e[i][n])
    BY DEF Halves
  <2>1. Congruent(t[i][n], u[i][n]) /\ Congruent(r[i][n], m[i][n])
    BY <1>15, <1>6 DEF SameResidues
  <2>2. t[i][n] \in Int /\ u[i][n] \in Int /\ r[i][n] \in Int /\ m[i][n] \in Int /\ e[i][n] \in Int
    BY <1>1, <1>3, <1>6 DEF Poly
  <2>3. Congruent(e[i][n], e[i][n])
    BY <2>2, CongruentOrder
  <2>4. Congruent(r[i][n] + e[i][n], m[i][n] + e[i][n])
    BY <2>1, <2>2, <2>3, CongruentSum
  <2>5. u[i][n] = r[i][n] + e[i][n] /\ m[i][n] + e[i][n] \in Int
    BY <1>3, <2>2
  <2>6. Congruent(t[i][n], m[i][n] + e[i][n])
    BY <2>1, <2>2, <2>4, <2>5, CongruentOrder
  <2> QED BY <1>1, <1>9, <2>6
<1> QED BY <1>10, <1>11, <1>12, <1>13 DEF T

-----------------------------------------------------------------------------
(* The inductive invariant: at every step of a call, how what the signer   *)
(* holds hangs together.                                                   *)

(* The keys are those of one key generation, packed without loss.          *)
KeysMatch ==
  pc # "nokey" =>
    /\ sk.rho = pk.rho /\ sk.tr = pk
    /\ pk.rho \in [RowsK -> PolyVecL(Int)]
    /\ pk.t1 \in PolyVecK(0 .. T1Width - 1)
    /\ sk.s1 \in PolyVecL(0 .. EtaWidth - 1)
    /\ sk.s2 \in PolyVecK(0 .. EtaWidth - 1)
    /\ sk.t0 \in PolyVecK(0 .. TwoD - 1)
    /\ S1 \in PolyVecL(Int) /\ S2 \in PolyVecK(Int) /\ T0 \in PolyVecK(Int)
    /\ Halves(pk.rho, S1, S2, pk.t1, T0)

(* From the top of a round on: w commits to y, and c is the answer of the  *)
(* challenge oracle to the high bits of w.                                 *)
Committed ==
  pc \in {"response", "lowbits", "hint", "signed"} =>
    /\ y \in PolyVecL(Int)
    /\ Commits(sk.rho, y, w)
    /\ w1 = PolyVecKHigh(w)
    /\ sig.ctilde = c
    /\ <<mu, PolyW1Pack(w1)>> \in DOMAIN chal
    /\ chal[<<mu, PolyW1Pack(w1)>>] = c

(* Past its norm test z is y + c*s1.                                       *)
Answered ==
  pc \in {"lowbits", "hint", "signed"} =>
    /\ z \in PolyVecL(Int)
    /\ ~PolyVecChkNorm(z, Gamma1 - Beta)
    /\ Responds(cp, S1, y, z)

(* What w0 holds: the low bits of w, from SubtractCs2 on without c*s2, and *)
(* in the end with c*t0 and small enough for a hint.                       *)
LowBits ==
  /\ pc \in {"response", "lowbits"} => w0 = PolyVecKLow(w)
  /\ pc = "hint" =>
       /\ w0 \in PolyVecK(Int)
       /\ ~PolyVecChkNorm(w0, Gamma2 - Beta)
       /\ Leaves(cp, S2, w, w0)
  /\ pc = "signed" =>
       /\ w0 \in PolyVecK(Int)
       /\ Within(RowsK, w0, 2 * Gamma2 - 1)
       /\ Carries(cp, S2, T0, w, w0)

(* HighBitsHideS2 holds as soon as the norm test of w0 is passed.          *)
Hidden ==
  pc \in {"hint", "signed"} => Conceals(cp, S2, w, w1)

(* The buffer holds z and the hints of w0, which fit.                      *)
Packed ==
  pc = "signed" =>
    /\ sig.z = PolyZPack(z)
    /\ h = PolyVecKMakeHint(w0, w1)
    /\ HintCount(h) <= Omega
    /\ sig.h = PackHint(h)

IInv ==
  /\ TypeOK /\ KeysMatch /\ Committed /\ Answered /\ LowBits /\ Hidden /\ Packed
  /\ GenuineVerifies

-----------------------------------------------------------------------------
(* Before there is a key nothing is claimed but the types.                 *)
LEMMA InitIInv == Init => IInv
<1> SUFFICES ASSUME Init PROVE IInv
  OBVIOUS
<1>1. pc = "nokey"
  BY DEF Init
<1>2. KeysMatch /\ Committed /\ Answered /\ LowBits /\ Hidden /\ Packed /\ GenuineVerifies
  BY <1>1 DEF KeysMatch, Committed, Answered, LowBits, Hidden, Packed, GenuineVerifies
<1>3. 0 \in Standard /\ 0 \in 0 .. Buckets - 1
  BY Modulus DEF Standard
<1>4. w \in PolyVecK(Standard) /\ w1 \in PolyVecK(0 .. Buckets - 1)
  BY <1>3 DEF Init, NoVecK, PolyVecK, Poly
<1>5. c \in Ctildes
  BY SigningAssumption DEF Init
<1>6. sig \in SignatureBuffers
  BY SigningAssumption DEF Init
<1>7. nonce \in 0 .. NonceMod - 1 /\ attempts \in 0 .. MaxAttempts /\ calls \in 0 .. MaxCalls
  BY SigningAssumption DEF Init
<1>8. ret \in {-1, 0, SignatureBytes} /\ verdict \in BOOLEAN
  BY DEF Init
<1>9. TypeOK
  BY <1>1, <1>4, <1>5, <1>6, <1>7, <1>8 DEF TypeOK
<1> QED BY <1>2, <1>9 DEF IInv

(* Key generation packs A, s1, s2 and both halves of t.                    *)
LEMMA KeypairIInv ==
  ASSUME IInv, NEW A \in Matrices, NEW s \in Secrets1, NEW e \in Secrets2, Keypair(A, s, e)
  PROVE  IInv'
<1> DEFINE t == PolyVecCaddq(PublicT(A, s, e))
           p1 == PolyT1Pack(PolyVecKT1(t))
           p0 == PolyT0Pack(PolyVecKT0(t))
<1>0. /\ pc' = "idle"
      /\ pk' = [rho |-> A, t1 |-> p1]
      /\ sk' = [rho |-> A, key |-> "key", tr |-> pk',
                s1 |-> PolyEtaPack(s), s2 |-> PolyEtaPack(e), t0 |-> p0]
      /\ UNCHANGED <<msg, rnd, nonce, attempts, locals, sig, ret, verdict,
                     mask, chal, issued, calls>>
  BY DEF Keypair, StoreKeys, tr
<1>1. /\ p1 \in PolyVecK(0 .. T1Width - 1) /\ p0 \in PolyVecK(0 .. TwoD - 1)
      /\ PolyT0Unpack(p0) \in PolyVecK(Int)
      /\ Halves(A, s, e, p1, PolyT0Unpack(p0))
  BY KeyIs
<1> HIDE DEF p1, p0
<1>2. /\ A \in [RowsK -> PolyVecL(Int)]
      /\ s \in [RowsL -> Poly(-Eta .. Eta)] /\ s \in PolyVecL(Int)
      /\ e \in [RowsK -> Poly(-Eta .. Eta)] /\ e \in PolyVecK(Int)
  BY DrawnTypes
<1>3. PolyEtaPack(s) \in PolyVecL(0 .. EtaWidth - 1) /\ PolyEtaUnpack(PolyEtaPack(s)) = s
  BY <1>2, EtaRoundTrip DEF PolyVecL
<1>4. PolyEtaPack(e) \in PolyVecK(0 .. EtaWidth - 1) /\ PolyEtaUnpack(PolyEtaPack(e)) = e
  BY <1>2, EtaRoundTrip DEF PolyVecK
<1>5. /\ pk'.rho = A /\ pk'.t1 = p1 /\ sk'.rho = A /\ sk'.tr = pk'
      /\ sk'.s1 = PolyEtaPack(s) /\ sk'.s2 = PolyEtaPack(e) /\ sk'.t0 = p0
  BY <1>0
<1>6. S1' = s /\ S2' = e /\ T0' = PolyT0Unpack(p0)
  BY <1>3, <1>4, <1>5 DEF S1, S2, T0
<1>7. KeysMatch'
  BY <1>1, <1>2, <1>3, <1>4, <1>5, <1>6 DEF KeysMatch
<1>8. /\ Committed' /\ Answered' /\ LowBits' /\ Hidden' /\ Packed' /\ GenuineVerifies'
  BY <1>0 DEF Committed, Answered, LowBits, Hidden, Packed, GenuineVerifies
<1>9. TypeOK'
  <2>1. TypeOK
    BY DEF IInv
  <2>2. pk'.t1 \in PolyVecK(0 .. T1Width - 1) /\ sk'.s1 \in PolyVecL(0 .. EtaWidth - 1)
        /\ sk'.s2 \in PolyVecK(0 .. EtaWidth - 1) /\ sk'.t0 \in PolyVecK(0 .. TwoD - 1)
    BY <1>1, <1>3, <1>4, <1>5
  <2> QED BY <1>0, <2>1, <2>2 DEF TypeOK, locals
<1> QED BY <1>7, <1>8, <1>9 DEF IInv

(* The keys are written once.                                              *)
LEMMA KeysStay ==
  ASSUME KeysMatch, pc # "nokey", UNCHANGED <<pk, sk>>
  PROVE  KeysMatch' /\ S1' = S1 /\ S2' = S2 /\ T0' = T0
<1>1. S1' = S1 /\ S2' = S2 /\ T0' = T0
  BY DEF S1, S2, T0
<1> QED BY <1>1 DEF KeysMatch

(* A call begins with the caller's buffer, or fails.                       *)
LEMMA CallIInv ==
  ASSUME IInv, NEW m \in Messages, NEW r \in Rnds, NEW b \in Buffers, NEW whole \in BOOLEAN,
         Call(m, r, b, whole)
  PROVE  IInv'
<1>0. /\ pc = "idle" /\ pc' \in {"idle", "sample"} /\ calls < MaxCalls /\ calls' = calls + 1
      /\ sig' = b /\ (nonce' = 0 \/ nonce' = nonce) /\ (attempts' = 0 \/ attempts' = attempts)
      /\ ret' \in {ret, -1}
      /\ UNCHANGED <<pk, sk, y, z, w, w1, w0, c, verdict, mask, chal, issued>>
  BY DEF Call, CallFrom
<1>1. TypeOK
  BY DEF IInv
<1>2. KeysMatch'
  BY <1>0, KeysStay DEF IInv
<1>3. /\ Committed' /\ Answered' /\ LowBits' /\ Hidden' /\ Packed' /\ GenuineVerifies'
  BY <1>0 DEF Committed, Answered, LowBits, Hidden, Packed, GenuineVerifies
<1>4. /\ pk.t1 \in PolyVecK(0 .. T1Width - 1) /\ sk.s1 \in PolyVecL(0 .. EtaWidth - 1)
      /\ sk.s2 \in PolyVecK(0 .. EtaWidth - 1) /\ sk.t0 \in PolyVecK(0 .. TwoD - 1)
  BY <1>0, <1>1 DEF TypeOK
<1>5. sig' \in SignatureBuffers
  BY <1>0, SigningAssumption
<1>6. nonce' \in 0 .. NonceMod - 1 /\ attempts' \in 0 .. MaxAttempts /\ calls' \in 0 .. MaxCalls
  <2>1. NonceMod \in Nat \ {0} /\ MaxAttempts \in Nat /\ MaxCalls \in Nat
    BY SigningAssumption
  <2>2. nonce \in 0 .. NonceMod - 1 /\ attempts \in 0 .. MaxAttempts /\ calls \in 0 .. MaxCalls
    BY <1>1 DEF TypeOK
  <2> QED BY <1>0, <2>1, <2>2
<1>7. ret' \in {-1, 0, SignatureBytes}
  BY <1>0, <1>1 DEF TypeOK
<1>8. TypeOK'
  BY <1>0, <1>1, <1>4, <1>5, <1>6, <1>7 DEF TypeOK
<1> QED BY <1>2, <1>3, <1>8 DEF IInv

(* The types that a step inside a call does not touch.                     *)
LEMMA KeyTypes ==
  ASSUME TypeOK, pc # "nokey", UNCHANGED <<pk, sk>>
  PROVE  /\ pk'.t1 \in PolyVecK(0 .. T1Width - 1) /\ sk'.s1 \in PolyVecL(0 .. EtaWidth - 1)
         /\ sk'.s2 \in PolyVecK(0 .. EtaWidth - 1) /\ sk'.t0 \in PolyVecK(0 .. TwoD - 1)
BY DEF TypeOK

(* A round draws y, commits to it and asks for its challenge.              *)
LEMMA SampleIInv ==
  ASSUME BucketExact, IInv, Sample PROVE IInv'
<1> DEFINE q == <<mu, PolyW1Pack(w1')>>
<1>0. /\ pc = "sample" /\ pc' = "response" /\ attempts < MaxAttempts
      /\ nonce' = (nonce + L) % NonceMod /\ attempts' = attempts + 1
      /\ w' = PolyVecCaddq(PolyVecInvNTT(PolyVecReduce(MatrixProduct(sk.rho, y'))))
      /\ w1' = PolyVecKHigh(w') /\ w0' = PolyVecKLow(w')
      /\ sig' = [sig EXCEPT !.ctilde = c']
      /\ UNCHANGED <<pk, sk, msg, rnd, z, h, ret, verdict, issued, calls>>
  BY DEF Sample, SampleRound
<1>1. y' \in PolyVecL(Int)
  <2>1. PICK f \in [{<<rhoprime, MaskNonce(i)>> : i \in RowsL} -> MaskPolys] :
          y' = [i \in RowsL |-> f[<<rhoprime, MaskNonce(i)>>]]
    BY DEF Sample, SampleRound
  <2>2. \A i \in RowsL : f[<<rhoprime, MaskNonce(i)>>] \in MaskPolys
    OBVIOUS
  <2> QED BY <2>1, <2>2, DrawnTypes DEF PolyVecL
<1>2. c' \in Ctildes /\ q \in DOMAIN chal' /\ chal'[q] = c'
  <2>1. PICK d \in Ctildes : chal' = Remember(chal, [x \in {q} |-> d]) /\ c' = d
    BY DEF Sample, SampleRound
  <2> HIDE DEF q
  <2>2. /\ q \in DOMAIN Remember(chal, [x \in {q} |-> d])
        /\ Remember(chal, [x \in {q} |-> d])[q] = d
    BY DEF Remember
  <2> QED BY <2>1, <2>2
<1>3. TypeOK /\ KeysMatch
  BY DEF IInv
<1>4. KeysMatch' /\ sk.rho \in [RowsK -> PolyVecL(Int)]
  BY <1>0, <1>3, KeysStay DEF KeysMatch
<1>5. w' \in PolyVecK(Standard) /\ Commits(sk.rho, y', w')
  BY <1>0, <1>1, <1>4, CommitmentIs
<1>6. w1' \in PolyVecK(0 .. Buckets - 1)
  BY <1>0, <1>5, DecomposeVec
<1>7. sig \in SignatureBuffers /\ sig' \in SignatureBuffers /\ sig'.ctilde = c'
  <2>1. sig \in SignatureBuffers
    BY <1>3 DEF TypeOK
  <2> QED BY <1>0, <1>2, <2>1 DEF SignatureBuffers
<1>8. mu' = mu
  BY <1>0 DEF mu
<1>9. Committed'
  <2>1. <<mu, PolyW1Pack(w1)>>' = q
    BY <1>8
  <2> HIDE DEF q
  <2> QED BY <1>0, <1>1, <1>2, <1>5, <1>7, <2>1 DEF Committed
<1>10. Answered' /\ LowBits' /\ Hidden' /\ Packed' /\ GenuineVerifies'
  BY <1>0 DEF Answered, LowBits, Hidden, Packed, GenuineVerifies
<1>11. nonce' \in 0 .. NonceMod - 1 /\ attempts' \in 0 .. MaxAttempts
  <2>1. NonceMod \in Nat /\ NonceMod > 0 /\ MaxAttempts \in Nat /\ L \in Nat
    BY SigningAssumption, RingAssumption
  <2>2. nonce \in 0 .. NonceMod - 1 /\ attempts \in 0 .. MaxAttempts
    BY <1>3 DEF TypeOK
  <2>3. nonce + L \in Int
    BY <2>1, <2>2
  <2>4. (nonce + L) % NonceMod \in Int /\ 0 <= (nonce + L) % NonceMod /\ (nonce + L) % NonceMod < NonceMod
    BY <2>1, <2>3, Remainder
  <2>5. attempts' \in 0 .. MaxAttempts
    BY <1>0, <2>1, <2>2
  <2>6. nonce' \in Int /\ 0 <= nonce' /\ nonce' < NonceMod
    BY <1>0, <2>4
  <2> QED BY <2>1, <2>5, <2>6
<1>12. TypeOK'
  <2>1. /\ pk'.t1 \in PolyVecK(0 .. T1Width - 1) /\ sk'.s1 \in PolyVecL(0 .. EtaWidth - 1)
        /\ sk'.s2 \in PolyVecK(0 .. EtaWidth - 1) /\ sk'.t0 \in PolyVecK(0 .. TwoD - 1)
    BY <1>0, <1>3, KeyTypes
  <2>2. calls' \in 0 .. MaxCalls /\ ret' \in {-1, 0, SignatureBytes} /\ verdict' \in BOOLEAN
    BY <1>0, <1>3 DEF TypeOK
  <2>3. pc' = "response"
    BY <1>0
  <2> QED BY <1>2, <1>5, <1>6, <1>7, <1>11, <2>1, <2>2, <2>3 DEF TypeOK
<1> QED BY <1>4, <1>9, <1>10, <1>12 DEF IInv

(* The response, and its norm test.                                        *)
LEMMA RespondIInv ==
  ASSUME IInv, Respond PROVE IInv'
<1>0. /\ pc = "response" /\ pc' \in {"sample", "lowbits"}
      /\ z' = PolyVecReduce(PolyVecAdd(PolyVecInvNTT(ScalarProduct(cp, S1)), y))
      /\ pc' = "lowbits" => ~PolyVecChkNorm(z', Gamma1 - Beta)
      /\ UNCHANGED <<pk, sk, msg, rnd, nonce, attempts, y, w, w1, w0, c, h, sig,
                     ret, verdict, mask, chal, issued, calls>>
  BY DEF Respond
<1>1. TypeOK /\ KeysMatch /\ Committed /\ LowBits
  BY DEF IInv
<1>2. KeysMatch' /\ S1' = S1 /\ S1 \in PolyVecL(Int)
  BY <1>0, <1>1, KeysStay DEF KeysMatch
<1>3. y \in PolyVecL(Int)
  BY <1>0, <1>1 DEF Committed
<1>4. cp \in Poly(Int) /\ cp' = cp
  BY <1>0, <1>1, ChallengeType DEF cp, TypeOK
<1>5. z' \in PolyVecL(Int) /\ Responds(cp, S1, y, z')
  BY <1>0, <1>2, <1>3, <1>4, ResponseIs
<1>6. mu' = mu
  BY <1>0 DEF mu
<1>7. Committed'
  BY <1>0, <1>1, <1>6 DEF Committed
<1>8. Answered'
  BY <1>0, <1>2, <1>4, <1>5 DEF Answered
<1>9. LowBits'
  BY <1>0, <1>1 DEF LowBits
<1>10. Hidden' /\ Packed' /\ GenuineVerifies'
  BY <1>0 DEF Hidden, Packed, GenuineVerifies
<1>11. TypeOK'
  <2>1. /\ pk'.t1 \in PolyVecK(0 .. T1Width - 1) /\ sk'.s1 \in PolyVecL(0 .. EtaWidth - 1)
        /\ sk'.s2 \in PolyVecK(0 .. EtaWidth - 1) /\ sk'.t0 \in PolyVecK(0 .. TwoD - 1)
    BY <1>0, <1>1, KeyTypes
  <2> QED BY <1>0, <1>1, <2>1 DEF TypeOK
<1> QED BY <1>2, <1>7, <1>8, <1>9, <1>10, <1>11 DEF IInv

(* c*s2 leaves the low bits, and the norm test keeps the high ones.        *)
LEMMA SubtractIInv ==
  ASSUME BucketExact, IInv, SubtractCs2 PROVE IInv'
<1>0. /\ pc = "lowbits" /\ pc' \in {"sample", "hint"}
      /\ w0' = PolyVecReduce(PolyVecSub(w0, PolyVecInvNTT(ScalarProduct(cp, S2))))
      /\ pc' = "hint" => ~PolyVecChkNorm(w0', Gamma2 - Beta)
      /\ UNCHANGED <<pk, sk, msg, rnd, nonce, attempts, y, z, w, w1, c, sig,
                     ret, verdict, mask, chal, issued, calls>>
  BY DEF SubtractCs2, TestLowBits
<1>1. TypeOK /\ KeysMatch /\ Committed /\ Answered /\ LowBits
  BY DEF IInv
<1>2. KeysMatch' /\ S1' = S1 /\ S2' = S2 /\ S2 \in PolyVecK(Int)
  BY <1>0, <1>1, KeysStay DEF KeysMatch
<1>3. cp \in Poly(Int) /\ cp' = cp
  BY <1>0, <1>1, ChallengeType DEF cp, TypeOK
<1>4. w \in PolyVecK(Standard) /\ w0 = PolyVecKLow(w) /\ w1 = PolyVecKHigh(w)
  BY <1>0, <1>1 DEF TypeOK, LowBits, Committed
<1>5. w0 \in PolyVecK(Int)
  BY <1>4, DecomposeVec
<1>6. w0' \in PolyVecK(Int) /\ Leaves(cp, S2, w, w0')
  BY <1>0, <1>2, <1>3, <1>4, <1>5, SubtractionIs
<1>7. mu' = mu
  BY <1>0 DEF mu
<1>8. Committed'
  BY <1>0, <1>1, <1>7 DEF Committed
<1>9. Answered'
  BY <1>0, <1>1, <1>2, <1>3 DEF Answered
<1>10. LowBits'
  BY <1>0, <1>2, <1>3, <1>6 DEF LowBits
<1>11. Hidden'
  <2> SUFFICES ASSUME pc' = "hint" PROVE Hidden'
    BY <1>0 DEF Hidden
  <2>1. Conceals(cp, S2, w, PolyVecKHigh(w))
    BY <1>0, <1>2, <1>3, <1>4, <1>6, HighBitsKept
  <2> QED BY <1>0, <1>2, <1>3, <1>4, <2>1 DEF Hidden
<1>12. Packed' /\ GenuineVerifies'
  BY <1>0 DEF Packed, GenuineVerifies
<1>13. TypeOK'
  <2>1. /\ pk'.t1 \in PolyVecK(0 .. T1Width - 1) /\ sk'.s1 \in PolyVecL(0 .. EtaWidth - 1)
        /\ sk'.s2 \in PolyVecK(0 .. EtaWidth - 1) /\ sk'.t0 \in PolyVecK(0 .. TwoD - 1)
    BY <1>0, <1>1, KeyTypes
  <2> QED BY <1>0, <1>1, <2>1 DEF TypeOK
<1> QED BY <1>2, <1>8, <1>9, <1>10, <1>11, <1>12, <1>13 DEF IInv

(* The signature is complete, or the round is thrown away.                 *)
LEMMA FinishIInv ==
  ASSUME BucketExact, IInv, Finish PROVE IInv'
<1> DEFINE ct0 == PolyVecReduce(PolyVecInvNTT(ScalarProduct(cp, T0)))
           sum == PolyVecAdd(w0, ct0)
           hh  == PolyVecKMakeHint(sum, w1)
<1>0. /\ pc = "hint" /\ pc' \in {"sample", "signed"}
      /\ pc' = "sample" => UNCHANGED <<sig, ret>>
      /\ pc' = "signed" => /\ ~PolyVecChkNorm(ct0, Gamma2)
                           /\ w0' = sum /\ h' = hh /\ ~(HintCount(hh) > Omega)
                           /\ sig' = PackSig(sig, c, z, hh) /\ ret' = SignatureBytes
      /\ UNCHANGED <<pk, sk, msg, rnd, nonce, attempts, y, z, w, w1, c,
                     verdict, mask, chal, issued, calls>>
  BY DEF Finish, FinishWith
<1>1. TypeOK /\ KeysMatch /\ Committed /\ Answered /\ LowBits /\ Hidden
  BY DEF IInv
<1>2. KeysMatch' /\ S1' = S1 /\ S2' = S2 /\ T0' = T0 /\ S2 \in PolyVecK(Int) /\ T0 \in PolyVecK(Int)
  BY <1>0, <1>1, KeysStay DEF KeysMatch
<1>3. cp \in Poly(Int) /\ cp' = cp /\ mu' = mu
  BY <1>0, <1>1, ChallengeType DEF cp, mu, TypeOK
<1>4. TypeOK' /\ Packed' /\ (pc' = "signed" => sig'.ctilde = c)
  <2>1. /\ pk'.t1 \in PolyVecK(0 .. T1Width - 1) /\ sk'.s1 \in PolyVecL(0 .. EtaWidth - 1)
        /\ sk'.s2 \in PolyVecK(0 .. EtaWidth - 1) /\ sk'.t0 \in PolyVecK(0 .. TwoD - 1)
    BY <1>0, <1>1, KeyTypes
  <2>2. /\ nonce' \in 0 .. NonceMod - 1 /\ attempts' \in 0 .. MaxAttempts
        /\ calls' \in 0 .. MaxCalls
        /\ w' \in PolyVecK(Standard) /\ w1' \in PolyVecK(0 .. Buckets - 1)
        /\ c' \in Ctildes /\ verdict' \in BOOLEAN /\ sig \in SignatureBuffers
        /\ ret \in {-1, 0, SignatureBytes}
    BY <1>0, <1>1 DEF TypeOK
  <2>3. CASE pc' = "sample"
    <3>1. sig' \in SignatureBuffers /\ ret' \in {-1, 0, SignatureBytes}
      BY <1>0, <2>2, <2>3
    <3>2. TypeOK'
      BY <2>1, <2>2, <2>3, <3>1 DEF TypeOK
    <3> QED BY <2>3, <3>2 DEF Packed
  <2>4. CASE pc' = "signed"
    <3>1. z \in PolyVecL(Int) /\ ~PolyVecChkNorm(z, Gamma1 - Beta)
      BY <1>0, <1>1 DEF Answered
    <3>2. PolyZPack(z) \in PolyVecL(0 .. 2 * Gamma1 - 1)
      <4>1. Gamma1 \in Int /\ Beta \in Nat /\ Gamma1 - Beta \in Int
        BY RingAssumption, SigningAssumption
      <4>2. z \in [RowsL -> Poly(Int)]
        BY <3>1 DEF PolyVecL
      <4>3. Within(RowsL, z, Gamma1 - Beta)
        BY <3>1, <4>1, <4>2, NormTest
      <4>4. \A j \in RowsL, n \in Degrees : z[j][n] \in Int
        BY <4>2 DEF Poly
      <4>5. \A j \in RowsL, n \in Degrees : -Gamma1 < z[j][n] /\ z[j][n] <= Gamma1
        BY <4>1, <4>3, <4>4 DEF Within
      <4> QED BY <4>2, <4>5, ZRoundTrip DEF PolyVecL
    <3>3. Cardinality(Ones(hh)) \in Nat /\ Omega \in Nat /\ HintCount(hh) = Cardinality(Ones(hh))
      <4> HIDE DEF hh
      <4> QED BY OnesFinite, HintEncodingAssumption DEF HintCount
    <3> HIDE DEF hh
    <3>4. Cardinality(Ones(hh)) <= Omega
      BY <1>0, <2>4, <3>3
    <3>5. PackHint(hh) \in HintBytes
      BY <3>4, PackedBytes
    <3>6. /\ sig' = [sig EXCEPT !.ctilde = c, !.z = PolyZPack(z), !.h = PackHint(hh)]
      BY <1>0, <2>4 DEF PackSig
    <3>7. c \in Ctildes
      BY <1>1 DEF TypeOK
    <3>8. /\ sig' \in SignatureBuffers /\ sig'.ctilde = c
          /\ sig'.z = PolyZPack(z) /\ sig'.h = PackHint(hh)
      BY <2>2, <3>2, <3>5, <3>6, <3>7 DEF SignatureBuffers
    <3>9. ret' \in {-1, 0, SignatureBytes}
      BY <1>0, <2>4
    <3>10. TypeOK'
      BY <2>1, <2>2, <2>4, <3>8, <3>9 DEF TypeOK
    <3>11. h' = hh /\ HintCount(hh) <= Omega /\ hh = PolyVecKMakeHint(w0', w1') /\ z' = z
      BY <1>0, <2>4, <3>3, <3>4 DEF hh
    <3>12. Packed'
      BY <3>8, <3>11 DEF Packed
    <3> QED BY <3>8, <3>10, <3>12
  <2> QED BY <1>0, <2>3, <2>4
<1>5. Committed'
  BY <1>0, <1>1, <1>3, <1>4 DEF Committed
<1>6. Answered'
  BY <1>0, <1>1, <1>2, <1>3 DEF Answered
<1>7. LowBits'
  <2> SUFFICES ASSUME pc' = "signed" PROVE LowBits'
    BY <1>0 DEF LowBits
  <2>1. w0 \in PolyVecK(Int) /\ ~PolyVecChkNorm(w0, Gamma2 - Beta) /\ Leaves(cp, S2, w, w0)
    BY <1>0, <1>1 DEF LowBits
  <2>2. Gamma2 \in Int /\ Beta \in Nat /\ Gamma2 - Beta \in Int
    BY SigningAssumption, Modulus
  <2>3. Within(RowsK, w0, Gamma2 - Beta)
    <3>1. w0 \in [RowsK -> Poly(Int)]
      BY <2>1 DEF PolyVecK
    <3> QED BY <2>1, <2>2, <3>1, NormTest
  <2>4. \A i \in RowsK, n \in Degrees : decompose(w[i][n])[2] \in Int
    <3>1. w \in PolyVecK(Standard)
      BY <1>1 DEF TypeOK
    <3> QED BY <3>1, DecomposeVec
  <2>5. ~PolyVecChkNorm(ct0, Gamma2) /\ w0' = PolyVecAdd(w0, ct0)
    BY <1>0
  <2>6. w0' \in PolyVecK(Int) /\ Carries(cp, S2, T0, w, w0')
        /\ Within(RowsK, w0', (Gamma2 - Beta) + Gamma2 - 1)
    BY <1>2, <1>3, <2>1, <2>2, <2>3, <2>4, <2>5, CarryIs
  <2>7. Within(RowsK, w0', 2 * Gamma2 - 1)
    <3>1. \A i \in RowsK, n \in Degrees : w0'[i][n] \in Int
      BY <2>6 DEF PolyVecK, Poly
    <3> QED BY <2>2, <2>6, <3>1 DEF Within
  <2> QED BY <1>0, <1>2, <1>3, <2>6, <2>7 DEF LowBits
<1>8. Hidden'
  BY <1>0, <1>1, <1>2, <1>3 DEF Hidden
<1>9. GenuineVerifies'
  BY <1>0 DEF GenuineVerifies
<1> QED BY <1>2, <1>4, <1>5, <1>6, <1>7, <1>8, <1>9 DEF IInv

(* The hints of two vectors of integers.                                   *)
LEMMA HintType ==
  ASSUME NEW u \in PolyVecK(Int), NEW v
  PROVE  PolyVecKMakeHint(u, v) \in Hints
<1>1. DOMAIN u = RowsK
  BY DEF PolyVecK
<1>2. PolyVecKMakeHint(u, v)
        = [i \in RowsK |-> [n \in Degrees |-> IF makeHint(u[i][n], v[i][n]) THEN 1 ELSE 0]]
  BY <1>1 DEF PolyVecKMakeHint, Map2
<1>3. \A i \in RowsK, n \in Degrees : (IF makeHint(u[i][n], v[i][n]) THEN 1 ELSE 0) \in {0, 1}
  OBVIOUS
<1> QED BY <1>2, <1>3 DEF Hints

(* The verifier reads from the buffer what the signer held, recovers the   *)
(* high bits of w and asks the oracle what the signer asked it.            *)
LEMMA VerifyIInv ==
  ASSUME BucketExact, IInv, Verify PROVE IInv'
<1>1. TypeOK /\ KeysMatch /\ Committed /\ Answered /\ LowBits /\ Packed
  BY DEF IInv
<1>2. pc = "signed" /\ pc' = "verified"
      /\ UNCHANGED <<pk, sk, msg, rnd, nonce, attempts, locals, sig, ret, mask, issued, calls>>
  BY DEF Verify
<1> DEFINE zz  == PolyZUnpack(sig.z)
           hh  == UnpackHint(sig.h)
           Az  == MatrixProduct(pk.rho, zz)
           ct1 == ScalarProduct(Ball[sig.ctilde], PolyVecShiftl(pk.t1))
           v   == PolyVecCaddq(PolyVecInvNTT(PolyVecReduce(PolyVecSub(Az, ct1))))
           q   == <<<<tr(pk), msg>>, PolyW1Pack(PolyVecKUseHint(v, hh))>>
<1>3. IF Malformed(sig.h) \/ PolyVecChkNorm(zz, Gamma1 - Beta)
      THEN verdict' = FALSE /\ UNCHANGED chal
      ELSE \E c2 \in Ctildes :
             /\ q \in DOMAIN chal => c2 = chal[q]
             /\ chal' = Remember(chal, [x \in {q} |-> c2])
             /\ verdict' = (c2 = sig.ctilde)
  BY DEF Verify
<1>4. /\ z \in PolyVecL(Int) /\ ~PolyVecChkNorm(z, Gamma1 - Beta) /\ Responds(cp, S1, y, z)
      /\ y \in PolyVecL(Int) /\ Commits(sk.rho, y, w)
      /\ w1 = PolyVecKHigh(w) /\ sig.ctilde = c
      /\ <<mu, PolyW1Pack(w1)>> \in DOMAIN chal /\ chal[<<mu, PolyW1Pack(w1)>>] = c
  BY <1>1, <1>2 DEF Answered, Committed
<1>5. /\ w0 \in PolyVecK(Int) /\ Within(RowsK, w0, 2 * Gamma2 - 1) /\ Carries(cp, S2, T0, w, w0)
      /\ w \in PolyVecK(Standard) /\ c \in Ctildes
  BY <1>1, <1>2 DEF LowBits, TypeOK
<1>6. /\ sk.rho = pk.rho /\ sk.tr = pk /\ pk.rho \in [RowsK -> PolyVecL(Int)]
      /\ pk.t1 \in PolyVecK(0 .. T1Width - 1)
      /\ S1 \in PolyVecL(Int) /\ S2 \in PolyVecK(Int) /\ T0 \in PolyVecK(Int)
      /\ Halves(pk.rho, S1, S2, pk.t1, T0)
  BY <1>1, <1>2 DEF KeysMatch
<1>7. /\ sig.z = PolyZPack(z) /\ sig.h = PackHint(h)
      /\ h = PolyVecKMakeHint(w0, w1) /\ Cardinality(Ones(h)) <= Omega
  BY <1>1, <1>2 DEF Packed, HintCount
<1>8. zz = z
  <2>1. Gamma1 \in Int /\ Beta \in Nat /\ Gamma1 - Beta \in Int
    BY RingAssumption, SigningAssumption
  <2>2. z \in [RowsL -> Poly(Int)]
    BY <1>4 DEF PolyVecL
  <2>3. Within(RowsL, z, Gamma1 - Beta)
    BY <1>4, <2>1, <2>2, NormTest
  <2>4. \A j \in RowsL, n \in Degrees : z[j][n] \in Int
    BY <2>2 DEF Poly
  <2>5. \A j \in RowsL, n \in Degrees : -Gamma1 < z[j][n] /\ z[j][n] <= Gamma1
    BY <2>1, <2>3, <2>4 DEF Within
  <2>6. PolyZUnpack(PolyZPack(z)) = z
    BY <2>2, <2>5, ZRoundTrip
  <2> QED BY <1>7, <2>6
<1>9. hh = h /\ ~Malformed(sig.h)
  <2>1. h \in Hints
    BY <1>5, <1>7, HintType
  <2>2. ~Malformed(PackHint(h)) /\ UnpackHint(PackHint(h)) = h
    BY <1>7, <2>1, HintRoundTrip
  <2> QED BY <1>7, <2>2
<1>10. PolyVecKUseHint(v, hh) = w1
  <2>1. Ball[sig.ctilde] = cp /\ cp \in Poly(Int)
    BY <1>4, <1>5, ChallengeType DEF cp
  <2>2. pk.t1 \in PolyVecK(Int)
    <3>1. T1Width \in Nat
      BY RingAssumption
    <3>2. \A a \in 0 .. T1Width - 1 : a \in Int
      BY <3>1
    <3>3. \A i \in RowsK, n \in Degrees : pk.t1[i][n] \in 0 .. T1Width - 1
      BY <1>6 DEF PolyVecK, Poly
    <3>4. pk.t1 = [i \in RowsK |-> [n \in Degrees |-> pk.t1[i][n]]]
      BY <1>6 DEF PolyVecK, Poly
    <3>5. \A i \in RowsK, n \in Degrees : pk.t1[i][n] \in Int
      BY <3>2, <3>3
    <3> QED BY <3>4, <3>5 DEF PolyVecK, Poly
  <2>3. Commits(pk.rho, y, w)
    BY <1>4, <1>6
  <2> DEFINE Az2  == MatrixProduct(pk.rho, z)
             ct2 == ScalarProduct(cp, PolyVecShiftl(pk.t1))
             u   == PolyVecCaddq(PolyVecInvNTT(PolyVecReduce(PolyVecSub(Az2, ct2))))
  <2>4. PolyVecKUseHint(u, PolyVecKMakeHint(w0, PolyVecKHigh(w))) = PolyVecKHigh(w)
    BY <1>4, <1>5, <1>6, <2>1, <2>2, <2>3, HighBitsRecovered
  <2>5. v = u
    BY <1>8, <2>1
  <2> HIDE DEF v, u, hh
  <2> QED BY <1>4, <1>7, <1>9, <2>4, <2>5
<1>11. q = <<mu, PolyW1Pack(w1)>>
  <2>1. <<tr(pk), msg>> = mu
    BY <1>6 DEF mu, tr
  <2> HIDE DEF v, hh
  <2> QED BY <1>10, <2>1
<1>12. verdict' = TRUE
  <2>1. ~(Malformed(sig.h) \/ PolyVecChkNorm(zz, Gamma1 - Beta))
    BY <1>4, <1>8, <1>9
  <2> HIDE DEF q, zz
  <2>2. PICK c2 \in Ctildes : (q \in DOMAIN chal => c2 = chal[q]) /\ verdict' = (c2 = sig.ctilde)
    BY <1>3, <2>1
  <2>3. c2 = c
    BY <1>4, <1>11, <2>2
  <2> QED BY <1>4, <2>2, <2>3
<1>13. KeysMatch'
  BY <1>1, <1>2, KeysStay
<1>14. Committed' /\ Answered' /\ LowBits' /\ Hidden' /\ Packed'
  BY <1>2 DEF Committed, Answered, LowBits, Hidden, Packed
<1>15. TypeOK'
  <2>1. /\ pk'.t1 \in PolyVecK(0 .. T1Width - 1) /\ sk'.s1 \in PolyVecL(0 .. EtaWidth - 1)
        /\ sk'.s2 \in PolyVecK(0 .. EtaWidth - 1) /\ sk'.t0 \in PolyVecK(0 .. TwoD - 1)
    BY <1>1, <1>2, KeyTypes
  <2>2. verdict' \in BOOLEAN
    BY <1>12
  <2> QED BY <1>1, <1>2, <2>1, <2>2 DEF TypeOK, locals
<1> QED BY <1>12, <1>13, <1>14, <1>15 DEF IInv, GenuineVerifies

(* Between two calls the invariant says little more than the types.        *)
LEMMA ReturnIInv ==
  ASSUME IInv, Return PROVE IInv'
<1>0. /\ pc = "verified" /\ pc' = "idle"
      /\ UNCHANGED <<pk, sk, msg, rnd, nonce, attempts, locals, sig, ret, verdict,
                     mask, chal, calls>>
  BY DEF Return
<1>1. TypeOK /\ KeysMatch
  BY DEF IInv
<1>2. KeysMatch'
  BY <1>0, <1>1, KeysStay
<1>3. Committed' /\ Answered' /\ LowBits' /\ Hidden' /\ Packed' /\ GenuineVerifies'
  BY <1>0 DEF Committed, Answered, LowBits, Hidden, Packed, GenuineVerifies
<1>4. TypeOK'
  <2>1. /\ pk'.t1 \in PolyVecK(0 .. T1Width - 1) /\ sk'.s1 \in PolyVecL(0 .. EtaWidth - 1)
        /\ sk'.s2 \in PolyVecK(0 .. EtaWidth - 1) /\ sk'.t0 \in PolyVecK(0 .. TwoD - 1)
    BY <1>0, <1>1, KeyTypes
  <2> QED BY <1>0, <1>1, <2>1 DEF TypeOK, locals
<1> QED BY <1>2, <1>3, <1>4 DEF IInv

(* A step that changes nothing.                                            *)
LEMMA StutterIInv ==
  ASSUME IInv, UNCHANGED vars PROVE IInv'
<1>0. UNCHANGED <<pc, pk, sk, msg, rnd, nonce, attempts, y, z, w, w1, w0, c, h, sig, ret,
                  verdict, mask, chal, issued, calls>>
  BY DEF vars, locals
<1>1. /\ TypeOK /\ KeysMatch /\ Committed /\ Answered /\ LowBits /\ Hidden /\ Packed
      /\ GenuineVerifies
  BY DEF IInv
<1>2. S1' = S1 /\ S2' = S2 /\ T0' = T0 /\ cp' = cp /\ mu' = mu
  BY <1>0 DEF S1, S2, T0, cp, mu
<1>3. TypeOK'
  BY <1>0, <1>1 DEF TypeOK
<1>4. KeysMatch'
  BY <1>0, <1>1, <1>2 DEF KeysMatch
<1>5. Committed' /\ Answered'
  BY <1>0, <1>1, <1>2 DEF Committed, Answered
<1>6. LowBits' /\ Hidden' /\ Packed' /\ GenuineVerifies'
  BY <1>0, <1>1, <1>2 DEF LowBits, Hidden, Packed, GenuineVerifies
<1> QED BY <1>3, <1>4, <1>5, <1>6 DEF IInv

-----------------------------------------------------------------------------
(* The invariant holds in every reachable state, for every ring, key, mask *)
(* and challenge the assumptions admit, when decompose divides exactly.    *)
LEMMA IInvHolds == ASSUME BucketExact PROVE Spec => []IInv
<1>1. Init => IInv
  BY InitIInv
<1>2. IInv /\ [Next]_vars => IInv'
  <2> SUFFICES ASSUME IInv, [Next]_vars PROVE IInv'
    OBVIOUS
  <2>1. CASE \E A \in Matrices, s \in Secrets1, e \in Secrets2 : Keypair(A, s, e)
    BY <2>1, KeypairIInv
  <2>2. CASE \E m \in Messages, r \in Rnds, b \in Buffers, whole \in BOOLEAN :
               Call(m, r, b, whole)
    BY <2>2, CallIInv
  <2>3. CASE Sample
    BY <2>3, SampleIInv
  <2>4. CASE Respond
    BY <2>4, RespondIInv
  <2>5. CASE SubtractCs2
    BY <2>5, SubtractIInv
  <2>6. CASE Finish
    BY <2>6, FinishIInv
  <2>7. CASE Verify
    BY <2>7, VerifyIInv
  <2>8. CASE Return
    BY <2>8, ReturnIInv
  <2>9. CASE UNCHANGED vars
    BY <2>9, StutterIInv
  <2> QED BY <2>1, <2>2, <2>3, <2>4, <2>5, <2>6, <2>7, <2>8, <2>9 DEF Next
<1> QED BY <1>1, <1>2, PTL DEF Spec

(* The rounding of every parameter set of params.go divides exactly.       *)
LEMMA RealParameters == ASSUME MLDSA44 \/ MLDSA65 PROVE BucketExact
BY BucketExact44, BucketExact65

(* Congruent integers have a difference that Q divides.                    *)
LEMMA NoRemainder ==
  ASSUME NEW a \in Int, NEW b \in Int, Congruent(a, b)
  PROVE  (a - b) % Q = 0
<1>1. a - b \in Int /\ Congruent(b, b)
  BY CongruentOrder
<1>2. Congruent(a - b, b - b) /\ b - b = 0
  BY <1>1, CongruentSum
<1>3. (a - b) % Q \in Standard /\ (a - b) % Q \in Int /\ Congruent((a - b) % Q, a - b)
  BY <1>1, StandardSpec
<1>4. 0 \in Standard
  BY Modulus DEF Standard
<1> DEFINE d == a - b
           r == d % Q
<1>5. d \in Int /\ Congruent(d, 0) /\ r \in Standard /\ r \in Int /\ Congruent(r, d)
  BY <1>1, <1>2, <1>3
<1> HIDE DEF d, r
<1>6. Congruent(r, 0)
  BY <1>5, CongruentOrder
<1>7. r = 0
  BY <1>4, <1>5, <1>6, StandardUnique
<1> QED BY <1>7 DEF r, d

(* Every variable keeps its type: no field, hint byte or coefficient       *)
(* leaves its range, whatever is drawn and however many rounds are thrown  *)
(* away (sign.go:118-206).                                                 *)
THEOREM RangesKept == ASSUME MLDSA44 \/ MLDSA65 PROVE Spec => []TypeOK
<1>1. Spec => []IInv
  BY RealParameters, IInvHolds
<1>2. IInv => TypeOK
  BY DEF IInv
<1> QED BY <1>1, <1>2, PTL

(* The two keys always hold the two halves of one A*s1 + s2 (sign.go:42-   *)
(* 96), modulo Q and coefficient by coefficient.                           *)
THEOREM HalvesOfOneKey == ASSUME MLDSA44 \/ MLDSA65 PROVE Spec => []KeyHalvesAgree
<1>1. Spec => []IInv
  BY RealParameters, IInvHolds
<1>2. ASSUME IInv PROVE KeyHalvesAgree
  <2> DEFINE sh == PolyVecShiftl(pk.t1)
             t  == PolyVecAdd(sh, T0)
             m  == MatrixProduct(pk.rho, S1)
             As == PolyVecAdd(m, S2)
  <2> SUFFICES ASSUME pc # "nokey", NEW i \in RowsK, NEW n \in Degrees
               PROVE  (t[i][n] - As[i][n]) % Q = 0
    BY DEF KeyHalvesAgree
  <2>1. /\ pk.rho \in [RowsK -> PolyVecL(Int)] /\ pk.t1 \in PolyVecK(0 .. T1Width - 1)
        /\ S1 \in PolyVecL(Int) /\ S2 \in [RowsK -> Poly(Int)] /\ T0 \in [RowsK -> Poly(Int)]
        /\ Halves(pk.rho, S1, S2, pk.t1, T0)
    BY <1>2 DEF IInv, KeysMatch, PolyVecK
  <2>2. sh \in [RowsK -> Poly(Int)] /\ sh[i][n] = pk.t1[i][n] * TwoD
    <3>1. sh = [k \in RowsK |-> [l \in Degrees |-> pk.t1[k][l] * TwoD]]
      BY <2>1 DEF PolyVecShiftl, Map, PolyVecK
    <3>2. T1Width \in Nat /\ TwoD \in Nat
      BY RingAssumption, RoundingAssumption
    <3>3. \A a \in 0 .. T1Width - 1 : a \in Int
      BY <3>2
    <3>4. \A a \in Int : a * TwoD \in Int
      BY <3>2, SMT
    <3>5. \A k \in RowsK, l \in Degrees : pk.t1[k][l] \in 0 .. T1Width - 1
      BY <2>1 DEF PolyVecK, Poly
    <3>6. \A k \in RowsK, l \in Degrees : pk.t1[k][l] * TwoD \in Int
      BY <3>3, <3>4, <3>5
    <3> HIDE DEF sh
    <3>7. sh \in [RowsK -> Poly(Int)]
      BY <3>1, <3>6 DEF Poly
    <3> QED BY <3>1, <3>7
  <2> HIDE DEF sh
  <2>3. m \in [RowsK -> Poly(Int)] /\ m[i] = RowProduct(pk.rho[i], S1)
    BY <2>1, MatrixVec DEF PolyVecK
  <2> HIDE DEF m
  <2>4. /\ t \in [RowsK -> Poly(Int)] /\ t[i][n] = sh[i][n] + T0[i][n]
    BY <2>1, <2>2, AddVec
  <2>5. /\ As \in [RowsK -> Poly(Int)] /\ As[i][n] = m[i][n] + S2[i][n]
    BY <2>1, <2>3, AddVec
  <2> HIDE DEF t, As
  <2>6. t[i][n] \in Int /\ As[i][n] \in Int
    BY <2>4, <2>5 DEF Poly
  <2>7. Congruent(t[i][n], As[i][n])
    BY <2>1, <2>2, <2>3, <2>4, <2>5 DEF Halves
  <2> QED BY <2>6, <2>7, NoRemainder
<1> QED BY <1>1, <1>2, PTL

(* A signature that leaves the signer has the high bits of w - c*s2, with  *)
(* room to spare for any other value of c*s2: they are no trace of the     *)
(* secret (sign.go:179-186).                                               *)
THEOREM HighBitsHidden == ASSUME MLDSA44 \/ MLDSA65 PROVE Spec => []HighBitsHideS2
<1>1. Spec => []IInv
  BY RealParameters, IInvHolds
<1>2. IInv => HighBitsHideS2
  BY DEF IInv, Hidden, Conceals, HighBitsHideS2
<1> QED BY <1>1, <1>2, PTL

(* The verifier accepts every signature the signer returns, for every ring *)
(* dimension, key, message, mask and challenge: no rounding, no packed     *)
(* field, no hint byte and no representative stands between A*z - c*t1*2^D *)
(* and the w the signer hashed (sign.go:98-206 against 222-303).           *)
THEOREM SignedVerifies == ASSUME MLDSA44 \/ MLDSA65 PROVE Spec => []GenuineVerifies
<1>1. Spec => []IInv
  BY RealParameters, IInvHolds
<1>2. IInv => GenuineVerifies
  BY DEF IInv
<1> QED BY <1>1, <1>2, PTL

-----------------------------------------------------------------------------
(* Why signing is deterministic: what a round does is determined by the    *)
(* key and what the two oracles have answered.  key, masks and answers     *)
(* stand for sk, mask and chal; k counts the rounds of a call from 0.      *)

NonceOf(k, i) == (((k * L) % NonceMod) + i) % NonceMod

(* What round k asks the mask oracle, and the y it gets.                   *)
MaskName(key, m, r, k, i) == <<<<key.key, r, <<key.tr, m>>>>, NonceOf(k, i)>>
Drawn(key, masks, m, r, k) == [i \in RowsL |-> masks[MaskName(key, m, r, k, i)]]

(* The w of y, and what the challenge oracle is asked.                     *)
WOf(key, yy)      == PolyVecCaddq(PolyVecInvNTT(PolyVecReduce(MatrixProduct(key.rho, yy))))
Query(key, m, yy) == <<<<key.tr, m>>, PolyW1Pack(PolyVecKHigh(WOf(key, yy)))>>

(* The round's later vectors, as functions of y and the challenge.         *)
ZOf(key, yy, d) ==
  PolyVecReduce(PolyVecAdd(PolyVecInvNTT(ScalarProduct(Ball[d], PolyEtaUnpack(key.s1))), yy))
W0Of(key, yy, d) ==
  PolyVecReduce(PolyVecSub(PolyVecKLow(WOf(key, yy)),
                           PolyVecInvNTT(ScalarProduct(Ball[d], PolyEtaUnpack(key.s2)))))
Ct0Of(key, d) ==
  PolyVecReduce(PolyVecInvNTT(ScalarProduct(Ball[d], PolyT0Unpack(key.t0))))
HintOf(key, yy, d) ==
  PolyVecKMakeHint(PolyVecAdd(W0Of(key, yy, d), Ct0Of(key, d)), PolyVecKHigh(WOf(key, yy)))

(* The four tests of a round, and the signature of one that passes them.   *)
Passes(key, yy, d) ==
  /\ ~PolyVecChkNorm(ZOf(key, yy, d), Gamma1 - Beta)
  /\ ~PolyVecChkNorm(W0Of(key, yy, d), Gamma2 - Beta)
  /\ ~PolyVecChkNorm(Ct0Of(key, d), Gamma2)
  /\ ~(HintCount(HintOf(key, yy, d)) > Omega)
SignatureOf(key, yy, d) ==
  [ctilde |-> d, z |-> PolyZPack(ZOf(key, yy, d)), h |-> PackHint(HintOf(key, yy, d))]

(* The oracles have answered what round k asks, and with what outcome.     *)
Known(key, masks, answers, m, r, k) ==
  /\ \A i \in RowsL : MaskName(key, m, r, k, i) \in DOMAIN masks
  /\ Query(key, m, Drawn(key, masks, m, r, k)) \in DOMAIN answers
Challenge(key, masks, answers, m, r, k) ==
  answers[Query(key, m, Drawn(key, masks, m, r, k))]
PassesAt(key, masks, answers, m, r, k) ==
  Passes(key, Drawn(key, masks, m, r, k), Challenge(key, masks, answers, m, r, k))
SignatureAt(key, masks, answers, m, r, k) ==
  SignatureOf(key, Drawn(key, masks, m, r, k), Challenge(key, masks, answers, m, r, k))

(* The rounds before k were thrown away.                                   *)
RejectedUpTo(key, masks, answers, m, r, k) ==
  \A j \in Nat : j < k => /\ Known(key, masks, answers, m, r, j)
                          /\ ~PassesAt(key, masks, answers, m, r, j)

(* Round k is the one that is returned.                                    *)
Returned(key, masks, answers, m, r, k) ==
  /\ RejectedUpTo(key, masks, answers, m, r, k)
  /\ Known(key, masks, answers, m, r, k)
  /\ PassesAt(key, masks, answers, m, r, k)

(* The running call follows the rounds.                                    *)
InCall  == {"sample", "response", "lowbits", "hint", "signed", "verified"}
InRound == InCall \ {"sample"}

(* The buffer has the three parts of a signature.                          *)
Shaped == sig = [ctilde |-> sig.ctilde, z |-> sig.z, h |-> sig.h]

(* How far the loop is, and what the rounds before came to.                *)
Counted ==
  /\ attempts \in Nat
  /\ pc \in InCall => nonce = (attempts * L) % NonceMod
  /\ pc = "sample" => RejectedUpTo(sk, mask, chal, msg, rnd, attempts)
  /\ pc \in InRound =>
       /\ attempts >= 1
       /\ RejectedUpTo(sk, mask, chal, msg, rnd, attempts - 1)
       /\ Known(sk, mask, chal, msg, rnd, attempts - 1)

(* What the locals hold is what the round determines.                      *)
Followed ==
  /\ pc \in {"response", "lowbits", "hint"} =>
       /\ y = Drawn(sk, mask, msg, rnd, attempts - 1)
       /\ c = Challenge(sk, mask, chal, msg, rnd, attempts - 1)
       /\ w = WOf(sk, y) /\ w1 = PolyVecKHigh(w)
  /\ pc \in {"response", "lowbits"} => w0 = PolyVecKLow(w)
  /\ pc \in {"lowbits", "hint"} =>
       z = ZOf(sk, y, c) /\ ~PolyVecChkNorm(z, Gamma1 - Beta)
  /\ pc = "hint" => w0 = W0Of(sk, y, c) /\ ~PolyVecChkNorm(w0, Gamma2 - Beta)
  /\ pc \in {"signed", "verified"} =>
       /\ PassesAt(sk, mask, chal, msg, rnd, attempts - 1)
       /\ sig = SignatureAt(sk, mask, chal, msg, rnd, attempts - 1)

(* So did every earlier call that returned a signature.                    *)
Archived ==
  /\ pc = "nokey" => DOMAIN issued = {}
  /\ \A p \in DOMAIN issued : \E k \in Nat :
       /\ Returned(sk, mask, chal, p[1], p[2], k)
       /\ issued[p] = SignatureAt(sk, mask, chal, p[1], p[2], k)

(* The second inductive invariant.                                         *)
DInv == Shaped /\ Counted /\ Followed /\ Archived

-----------------------------------------------------------------------------
(* What the oracles have answered stays answered.                          *)
Grows(old, new) ==
  DOMAIN old \subseteq DOMAIN new /\ \A q \in DOMAIN old : new[q] = old[q]

(* A memory that remembers consistent answers grows, and has them.         *)
LEMMA RememberGrows ==
  ASSUME NEW memory, NEW answers,
         \A q \in DOMAIN answers \cap DOMAIN memory : answers[q] = memory[q]
  PROVE  /\ Grows(memory, Remember(memory, answers))
         /\ \A q \in DOMAIN answers : /\ q \in DOMAIN Remember(memory, answers)
                                      /\ Remember(memory, answers)[q] = answers[q]
BY DEF Grows, Remember

(* A round that was answered is not changed by further answers.            *)
LEMMA RoundStays ==
  ASSUME NEW key, NEW masks, NEW answers, NEW masks2, NEW answers2, NEW m, NEW r, NEW k,
         Grows(masks, masks2), Grows(answers, answers2),
         Known(key, masks, answers, m, r, k)
  PROVE  /\ Drawn(key, masks2, m, r, k) = Drawn(key, masks, m, r, k)
         /\ Known(key, masks2, answers2, m, r, k)
         /\ Challenge(key, masks2, answers2, m, r, k) = Challenge(key, masks, answers, m, r, k)
         /\ PassesAt(key, masks2, answers2, m, r, k) <=> PassesAt(key, masks, answers, m, r, k)
         /\ SignatureAt(key, masks2, answers2, m, r, k) = SignatureAt(key, masks, answers, m, r, k)
<1>1. Drawn(key, masks2, m, r, k) = Drawn(key, masks, m, r, k)
  BY DEF Drawn, Known, Grows
<1>2. Known(key, masks2, answers2, m, r, k)
  BY <1>1 DEF Known, Grows
<1>3. Challenge(key, masks2, answers2, m, r, k) = Challenge(key, masks, answers, m, r, k)
  BY <1>1 DEF Known, Grows, Challenge
<1>4. PassesAt(key, masks2, answers2, m, r, k) <=> PassesAt(key, masks, answers, m, r, k)
  BY <1>1, <1>3 DEF PassesAt
<1>5. SignatureAt(key, masks2, answers2, m, r, k) = SignatureAt(key, masks, answers, m, r, k)
  BY <1>1, <1>3 DEF SignatureAt
<1> QED BY <1>1, <1>2, <1>3, <1>4, <1>5

(* Nor are rounds that were thrown away, or the one that was returned.     *)
LEMMA RejectedStays ==
  ASSUME NEW key, NEW masks, NEW answers, NEW masks2, NEW answers2, NEW m, NEW r, NEW k,
         Grows(masks, masks2), Grows(answers, answers2)
  PROVE  /\ RejectedUpTo(key, masks, answers, m, r, k)
              => RejectedUpTo(key, masks2, answers2, m, r, k)
         /\ Returned(key, masks, answers, m, r, k)
              => Returned(key, masks2, answers2, m, r, k)
<1>1. RejectedUpTo(key, masks, answers, m, r, k) => RejectedUpTo(key, masks2, answers2, m, r, k)
  BY RoundStays DEF RejectedUpTo
<1>2. Returned(key, masks, answers, m, r, k) => Returned(key, masks2, answers2, m, r, k)
  BY <1>1, RoundStays DEF Returned
<1> QED BY <1>1, <1>2

(* One more round is thrown away.                                          *)
LEMMA RejectOne ==
  ASSUME NEW key, NEW masks, NEW answers, NEW m, NEW r, NEW k \in Nat, k >= 1,
         RejectedUpTo(key, masks, answers, m, r, k - 1),
         Known(key, masks, answers, m, r, k - 1),
         ~PassesAt(key, masks, answers, m, r, k - 1)
  PROVE  RejectedUpTo(key, masks, answers, m, r, k)
<1> SUFFICES ASSUME NEW j \in Nat, j < k
             PROVE  /\ Known(key, masks, answers, m, r, j)
                    /\ ~PassesAt(key, masks, answers, m, r, j)
  BY DEF RejectedUpTo
<1>1. CASE j = k - 1
  BY <1>1
<1>2. CASE j < k - 1
  BY <1>2 DEF RejectedUpTo
<1> QED BY <1>1, <1>2

(* At most one round is returned.                                          *)
LEMMA ReturnedOnce ==
  ASSUME NEW key, NEW masks, NEW answers, NEW m, NEW r, NEW j \in Nat, NEW k \in Nat,
         Returned(key, masks, answers, m, r, j), Returned(key, masks, answers, m, r, k)
  PROVE  j = k
<1>1. ~(j < k)
  BY DEF Returned, RejectedUpTo
<1>2. ~(k < j)
  BY DEF Returned, RejectedUpTo
<1> QED BY <1>1, <1>2

(* The loop's counter wraps as it would have from the number of rounds.    *)
LEMMA NonceStep ==
  ASSUME NEW k \in Nat
  PROVE  (((k * L) % NonceMod) + L) % NonceMod = ((k + 1) * L) % NonceMod
<1>1. L \in Nat /\ NonceMod \in Nat \ {0}
  BY RingAssumption, SigningAssumption
<1> DEFINE a == k * L
           q == a \div NonceMod
           r == a % NonceMod
           s == (r + L) \div NonceMod
           t == (r + L) % NonceMod
<1>2. a \in Nat /\ (k + 1) * L = a + L
  BY <1>1, SMT
<1> HIDE DEF a
<1>3. q \in Int /\ r \in Int /\ 0 <= r /\ a = NonceMod * q + r
  BY <1>1, <1>2, SMT
<1> HIDE DEF q, r
<1>4. s \in Int /\ t \in 0 .. NonceMod - 1 /\ r + L = NonceMod * s + t
  BY <1>1, <1>3, SMT
<1> HIDE DEF s, t
<1>5. a + L = NonceMod * (q + s) + t
  BY <1>1, <1>2, <1>3, <1>4, SMT
<1> DEFINE u == (a + L) \div NonceMod
           v == (a + L) % NonceMod
<1>6. a + L \in Int /\ NonceMod \in Nat /\ NonceMod \in Int /\ NonceMod > 0
  BY <1>1, <1>2, SMT
<1>7. u \in Int /\ v \in Int /\ 0 <= v /\ v < NonceMod /\ a + L = NonceMod * u + v
  BY <1>6, Remainder
<1> HIDE DEF u, v
<1>8. q + s \in Int /\ t \in Int /\ t - v < NonceMod /\ v - t < NonceMod
  BY <1>3, <1>4, <1>6, <1>7, SMT
<1>9. u * NonceMod + v = (q + s) * NonceMod + t
  BY <1>5, <1>6, <1>7, <1>8, SMT
<1>10. u = q + s
  BY <1>6, <1>7, <1>8, <1>9, QuotientUnique
<1>11. v = t
  BY <1>6, <1>7, <1>8, <1>9, <1>10, SMT
<1> QED BY <1>2, <1>11 DEF a, r, t, v

-----------------------------------------------------------------------------
(* DInv is an invariant.                                                   *)

(* Before there is a key nothing was issued.                               *)
LEMMA InitDInv == Init => DInv
<1> SUFFICES ASSUME Init PROVE DInv
  OBVIOUS
<1>1. pc = "nokey" /\ attempts = 0 /\ issued = Nothing /\ sig \in SignatureBuffers
  BY SigningAssumption DEF Init
<1>2. Shaped
  BY <1>1 DEF Shaped, SignatureBuffers
<1>3. Counted /\ Followed
  BY <1>1 DEF Counted, Followed, InCall, InRound
<1>4. Archived
  BY <1>1 DEF Archived, Nothing
<1> QED BY <1>2, <1>3, <1>4 DEF DInv

(* Key generation issues nothing.                                          *)
LEMMA KeypairDInv ==
  ASSUME DInv, NEW A \in Matrices, NEW s1 \in Secrets1, NEW s2 \in Secrets2, Keypair(A, s1, s2)
  PROVE  DInv'
<1>1. /\ pc = "nokey" /\ pc' = "idle"
      /\ attempts' = attempts /\ issued' = issued /\ sig' = sig
  BY DEF Keypair, StoreKeys
<1>2. Shaped' /\ Counted' /\ Followed'
  BY <1>1 DEF DInv, Shaped, Counted, Followed, InCall, InRound
<1>3. Archived'
  BY <1>1 DEF DInv, Archived
<1> QED BY <1>2, <1>3 DEF DInv

(* A call begins at round 0 with nonce 0, or changes nothing.              *)
LEMMA CallDInv ==
  ASSUME DInv, NEW m \in Messages, NEW r \in Rnds, NEW b \in Buffers, NEW whole \in BOOLEAN,
         Call(m, r, b, whole)
  PROVE  DInv'
<1>1. /\ pc = "idle" /\ sig' = b /\ b \in SignatureBuffers
      /\ sk' = sk /\ mask' = mask /\ chal' = chal /\ issued' = issued
      /\ \/ pc' = "sample" /\ nonce' = 0 /\ attempts' = 0
         \/ pc' = "idle" /\ attempts' = attempts
  BY SigningAssumption DEF Call, CallFrom
<1>2. Shaped'
  BY <1>1 DEF Shaped, SignatureBuffers
<1>3. Followed'
  BY <1>1 DEF Followed
<1>4. Archived'
  BY <1>1 DEF DInv, Archived
<1>5. Counted'
  <2>1. 0 = (0 * L) % NonceMod
    <3>1. L \in Nat /\ NonceMod \in Nat /\ NonceMod > 0
      BY RingAssumption, SigningAssumption
    <3>2. 0 * L = 0
      BY <3>1
    <3> QED BY <3>1, <3>2, SMT
  <2>2. RejectedUpTo(sk, mask, chal, msg', rnd', 0)
    BY DEF RejectedUpTo
  <2>3. attempts' \in Nat
    BY <1>1 DEF DInv, Counted
  <2> QED BY <1>1, <2>1, <2>2, <2>3 DEF Counted, InCall, InRound
<1> QED BY <1>2, <1>3, <1>4, <1>5 DEF DInv

(* Further answers leave the archive as it is.                             *)
LEMMA ArchiveStays ==
  ASSUME Archived, Grows(mask, mask'), Grows(chal, chal'), pc # "nokey", pc' # "nokey",
         UNCHANGED <<sk, issued>>
  PROVE  Archived'
<1> SUFFICES ASSUME NEW p \in DOMAIN issued
             PROVE  \E j \in Nat :
                      /\ Returned(sk, mask', chal', p[1], p[2], j)
                      /\ issued[p] = SignatureAt(sk, mask', chal', p[1], p[2], j)
  BY DEF Archived
<1>1. PICK j \in Nat : /\ Returned(sk, mask, chal, p[1], p[2], j)
                       /\ issued[p] = SignatureAt(sk, mask, chal, p[1], p[2], j)
  BY DEF Archived
<1>2. Returned(sk, mask', chal', p[1], p[2], j)
  BY <1>1, RejectedStays
<1>3. Known(sk, mask, chal, p[1], p[2], j)
  BY <1>1 DEF Returned
<1>4. issued[p] = SignatureAt(sk, mask', chal', p[1], p[2], j)
  BY <1>1, <1>3, RoundStays
<1> QED BY <1>2, <1>4

(* A round asks the mask oracle for its names alone and the challenge      *)
(* oracle for its query, and both remember what they said before.          *)
LEMMA SampleDInv == ASSUME DInv, Sample PROVE DInv'
<1> DEFINE k == attempts
<1>1. /\ pc = "sample" /\ pc' = "response" /\ attempts' = k + 1
      /\ sk' = sk /\ msg' = msg /\ rnd' = rnd /\ issued' = issued
      /\ nonce' = (nonce + L) % NonceMod /\ sig' = [sig EXCEPT !.ctilde = c']
      /\ w' = PolyVecCaddq(PolyVecInvNTT(PolyVecReduce(MatrixProduct(sk.rho, y'))))
      /\ w1' = PolyVecKHigh(w') /\ w0' = PolyVecKLow(w')
  BY DEF Sample, SampleRound
<1>2. /\ k \in Nat /\ nonce = (k * L) % NonceMod
      /\ RejectedUpTo(sk, mask, chal, msg, rnd, k)
  BY <1>1 DEF DInv, Counted, InCall
<1>3. PICK f \in [{<<rhoprime, MaskNonce(i)>> : i \in RowsL} -> MaskPolys] :
        /\ \A q \in DOMAIN f \cap DOMAIN mask : f[q] = mask[q]
        /\ mask' = Remember(mask, f)
        /\ y' = [i \in RowsL |-> f[<<rhoprime, MaskNonce(i)>>]]
  BY DEF Sample, SampleRound
<1>4. \A i \in RowsL : <<rhoprime, MaskNonce(i)>> = MaskName(sk, msg, rnd, k, i)
  BY <1>2 DEF MaskName, NonceOf, MaskNonce, rhoprime, mu
<1>5. \A i \in RowsL : MaskName(sk, msg, rnd, k, i) \in DOMAIN f
  BY <1>3, <1>4
<1>6. /\ Grows(mask, mask')
      /\ \A q \in DOMAIN f : q \in DOMAIN mask' /\ mask'[q] = f[q]
  BY <1>3, RememberGrows
<1>7. \A i \in RowsL : MaskName(sk, msg, rnd, k, i) \in DOMAIN mask'
  BY <1>5, <1>6
<1>8. y' = Drawn(sk, mask', msg, rnd, k)
  BY <1>3, <1>4, <1>5, <1>6 DEF Drawn
<1>9. w' = WOf(sk, y')
  BY <1>1 DEF WOf
<1> DEFINE q == <<mu, PolyW1Pack(w1')>>
<1>10. q = Query(sk, msg, y')
  BY <1>1, <1>9 DEF Query, mu
<1>11. /\ q \in DOMAIN chal => c' = chal[q]
       /\ chal' = Remember(chal, [x \in {q} |-> c'])
  BY DEF Sample, SampleRound
<1> HIDE DEF q
<1>12. Grows(chal, chal') /\ q \in DOMAIN chal' /\ chal'[q] = c'
  <2> DEFINE g == [x \in {q} |-> c']
  <2>1. DOMAIN g = {q} /\ g[q] = c'
    OBVIOUS
  <2> HIDE DEF g
  <2>2. \A x \in DOMAIN g \cap DOMAIN chal : g[x] = chal[x]
    BY <1>11, <2>1
  <2>3. chal' = Remember(chal, g)
    BY <1>11 DEF g
  <2> QED BY <2>1, <2>2, <2>3, RememberGrows
<1>13. Known(sk, mask', chal', msg, rnd, k)
  BY <1>7, <1>8, <1>10, <1>12 DEF Known
<1>14. c' = Challenge(sk, mask', chal', msg, rnd, k)
  BY <1>8, <1>10, <1>12 DEF Challenge
<1>15. RejectedUpTo(sk, mask', chal', msg, rnd, k)
  BY <1>2, <1>6, <1>12, RejectedStays
<1>16. attempts' - 1 = k /\ attempts' \in Nat /\ attempts' >= 1
  BY <1>1, <1>2
<1>17. nonce' = (attempts' * L) % NonceMod
  BY <1>1, <1>2, NonceStep
<1>18. Shaped'
  BY <1>1 DEF DInv, Shaped
<1>19. Counted'
  BY <1>1, <1>13, <1>15, <1>16, <1>17 DEF Counted, InCall, InRound
<1>20. Followed'
  BY <1>1, <1>8, <1>9, <1>14, <1>16 DEF Followed
<1>21. Archived'
  BY <1>1, <1>6, <1>12, ArchiveStays DEF DInv
<1> QED BY <1>18, <1>19, <1>20, <1>21 DEF DInv

(* A test that fails throws the round away.                                *)
LEMMA ThrownAway ==
  ASSUME DInv, pc \in InRound, pc' = "sample",
         ~PassesAt(sk, mask, chal, msg, rnd, attempts - 1),
         UNCHANGED <<sk, msg, rnd, nonce, attempts, sig, mask, chal, issued>>
  PROVE  DInv'
<1>1. RejectedUpTo(sk, mask, chal, msg, rnd, attempts)
  BY RejectOne DEF DInv, Counted
<1>2. Shaped' /\ Archived'
  BY DEF DInv, Shaped, Archived, InRound, InCall
<1>3. Counted'
  BY <1>1 DEF DInv, Counted, InRound, InCall
<1>4. Followed'
  BY DEF Followed
<1> QED BY <1>2, <1>3, <1>4 DEF DInv

(* A step within a round keeps what does not mention pc's next value.      *)
LEMMA WithinRound ==
  ASSUME DInv, pc \in InRound, pc' \in InRound,
         UNCHANGED <<sk, msg, rnd, nonce, attempts, mask, chal, issued>>
  PROVE  Counted' /\ Archived'
<1>1. Archived'
  BY DEF DInv, Archived, InRound, InCall
<1>2. Counted'
  BY DEF DInv, Counted, InRound, InCall
<1> QED BY <1>1, <1>2

(* z is the one the round's y and challenge determine.                     *)
LEMMA RespondDInv == ASSUME DInv, Respond PROVE DInv'
<1>1. /\ pc = "response" /\ pc \in InRound
      /\ z' = PolyVecReduce(PolyVecAdd(PolyVecInvNTT(ScalarProduct(cp, S1)), y))
      /\ pc' = IF PolyVecChkNorm(z', Gamma1 - Beta) THEN "sample" ELSE "lowbits"
      /\ UNCHANGED <<sk, msg, rnd, nonce, attempts, y, w, w1, w0, c, sig, mask, chal, issued>>
  BY DEF Respond, InRound, InCall
<1>2. z' = ZOf(sk, y, c)
  BY <1>1 DEF ZOf, cp, S1
<1>3. /\ y = Drawn(sk, mask, msg, rnd, attempts - 1)
      /\ c = Challenge(sk, mask, chal, msg, rnd, attempts - 1)
  BY <1>1 DEF DInv, Followed
<1>4. CASE PolyVecChkNorm(z', Gamma1 - Beta)
  <2>1. ~PassesAt(sk, mask, chal, msg, rnd, attempts - 1)
    BY <1>2, <1>3, <1>4 DEF PassesAt, Passes
  <2> QED BY <1>1, <1>4, <2>1, ThrownAway
<1>5. CASE ~PolyVecChkNorm(z', Gamma1 - Beta)
  <2>1. pc' = "lowbits" /\ pc' \in InRound
    BY <1>1, <1>5 DEF InRound, InCall
  <2>2. Counted' /\ Archived'
    BY <1>1, <2>1, WithinRound
  <2>3. Shaped'
    BY <1>1 DEF DInv, Shaped
  <2>4. Followed'
    BY <1>1, <1>2, <1>5, <2>1 DEF DInv, Followed
  <2> QED BY <2>2, <2>3, <2>4 DEF DInv
<1> QED BY <1>4, <1>5

(* So is w0, without c*s2.                                                 *)
LEMMA SubtractDInv == ASSUME DInv, SubtractCs2 PROVE DInv'
<1>1. /\ pc = "lowbits" /\ pc \in InRound
      /\ w0' = PolyVecReduce(PolyVecSub(w0, PolyVecInvNTT(ScalarProduct(cp, S2))))
      /\ pc' = IF PolyVecChkNorm(w0', Gamma2 - Beta) THEN "sample" ELSE "hint"
      /\ UNCHANGED <<sk, msg, rnd, nonce, attempts, y, z, w, w1, c, sig, mask, chal, issued>>
  BY DEF SubtractCs2, TestLowBits, InRound, InCall
<1>2. /\ y = Drawn(sk, mask, msg, rnd, attempts - 1)
      /\ c = Challenge(sk, mask, chal, msg, rnd, attempts - 1)
      /\ w = WOf(sk, y) /\ w0 = PolyVecKLow(w)
  BY <1>1 DEF DInv, Followed
<1>3. w0' = W0Of(sk, y, c)
  BY <1>1, <1>2 DEF W0Of, cp, S2
<1>4. CASE PolyVecChkNorm(w0', Gamma2 - Beta)
  <2>1. ~PassesAt(sk, mask, chal, msg, rnd, attempts - 1)
    BY <1>2, <1>3, <1>4 DEF PassesAt, Passes
  <2> QED BY <1>1, <1>4, <2>1, ThrownAway
<1>5. CASE ~PolyVecChkNorm(w0', Gamma2 - Beta)
  <2>1. pc' = "hint" /\ pc' \in InRound
    BY <1>1, <1>5 DEF InRound, InCall
  <2>2. Counted' /\ Archived'
    BY <1>1, <2>1, WithinRound
  <2>3. Shaped'
    BY <1>1 DEF DInv, Shaped
  <2>4. Followed'
    BY <1>1, <1>3, <1>5, <2>1 DEF DInv, Followed
  <2> QED BY <2>2, <2>3, <2>4 DEF DInv
<1> QED BY <1>4, <1>5

(* So are the hints, and with them every byte of the signature.            *)
LEMMA FinishDInv == ASSUME DInv, Finish PROVE DInv'
<1> DEFINE ct0 == PolyVecReduce(PolyVecInvNTT(ScalarProduct(cp, T0)))
           sum == PolyVecAdd(w0, ct0)
           hh  == PolyVecKMakeHint(sum, w1)
<1>1. /\ pc = "hint" /\ pc \in InRound
      /\ UNCHANGED <<sk, msg, rnd, nonce, attempts, y, z, w, w1, c, mask, chal, issued>>
  BY DEF Finish, FinishWith, InRound, InCall
<1>2. IF PolyVecChkNorm(ct0, Gamma2)
      THEN pc' = "sample" /\ sig' = sig
      ELSE IF HintCount(hh) > Omega
           THEN pc' = "sample" /\ sig' = sig
           ELSE pc' = "signed" /\ sig' = PackSig(sig, c, z, hh)
  BY DEF Finish, FinishWith
<1>3. /\ y = Drawn(sk, mask, msg, rnd, attempts - 1)
      /\ c = Challenge(sk, mask, chal, msg, rnd, attempts - 1)
      /\ w = WOf(sk, y) /\ w1 = PolyVecKHigh(w)
      /\ z = ZOf(sk, y, c) /\ ~PolyVecChkNorm(z, Gamma1 - Beta)
      /\ w0 = W0Of(sk, y, c) /\ ~PolyVecChkNorm(w0, Gamma2 - Beta)
  BY <1>1 DEF DInv, Followed
<1>4. ct0 = Ct0Of(sk, c)
  BY DEF Ct0Of, cp, T0
<1> HIDE DEF ct0
<1>5. hh = HintOf(sk, y, c)
  BY <1>3, <1>4 DEF HintOf
<1> HIDE DEF hh
<1>6. PassesAt(sk, mask, chal, msg, rnd, attempts - 1)
        <=> ~PolyVecChkNorm(ct0, Gamma2) /\ ~(HintCount(hh) > Omega)
  <2>1. Passes(sk, y, c) <=> ~PolyVecChkNorm(ct0, Gamma2) /\ ~(HintCount(hh) > Omega)
    BY <1>3, <1>4, <1>5 DEF Passes
  <2> QED BY <1>3, <2>1 DEF PassesAt
<1>7. CASE PolyVecChkNorm(ct0, Gamma2) \/ HintCount(hh) > Omega
  <2>1. pc' = "sample" /\ sig' = sig
    BY <1>2, <1>7
  <2> QED BY <1>1, <1>6, <1>7, <2>1, ThrownAway
<1>8. CASE ~PolyVecChkNorm(ct0, Gamma2) /\ ~(HintCount(hh) > Omega)
  <2>1. pc' = "signed" /\ sig' = PackSig(sig, c, z, hh)
    BY <1>2, <1>8
  <2>2. Counted' /\ Archived'
    BY <1>1, <2>1, WithinRound DEF InRound, InCall
  <2>3. sig' = [ctilde |-> c, z |-> PolyZPack(z), h |-> PackHint(hh)]
    BY <2>1 DEF DInv, Shaped, PackSig
  <2>4. sig' = SignatureOf(sk, y, c)
    BY <1>3, <1>5, <2>3 DEF SignatureOf
  <2>5. sig' = SignatureAt(sk, mask, chal, msg, rnd, attempts - 1)
    BY <1>3, <2>4 DEF SignatureAt
  <2>6. Shaped'
    BY <2>3 DEF Shaped
  <2>7. Followed'
    BY <1>1, <1>6, <1>8, <2>1, <2>5 DEF Followed
  <2> QED BY <2>2, <2>6, <2>7 DEF DInv
<1> QED BY <1>7, <1>8

(* The verifier asks the challenge oracle but changes no answer.           *)
LEMMA VerifyDInv == ASSUME DInv, Verify PROVE DInv'
<1>1. /\ pc = "signed" /\ pc' = "verified" /\ pc \in InRound /\ pc' \in InRound
      /\ UNCHANGED <<sk, msg, rnd, nonce, attempts, sig, mask, issued>>
  BY DEF Verify, InRound, InCall
<1>2. Grows(mask, mask')
  BY <1>1 DEF Grows
<1>3. Grows(chal, chal')
  <2> DEFINE zz  == PolyZUnpack(sig.z)
             hh  == UnpackHint(sig.h)
             Az  == MatrixProduct(pk.rho, zz)
             ct1 == ScalarProduct(Ball[sig.ctilde], PolyVecShiftl(pk.t1))
             v   == PolyVecCaddq(PolyVecInvNTT(PolyVecReduce(PolyVecSub(Az, ct1))))
             q   == <<<<tr(pk), msg>>, PolyW1Pack(PolyVecKUseHint(v, hh))>>
  <2>1. \/ chal' = chal
        \/ \E c2 \in Ctildes : /\ q \in DOMAIN chal => c2 = chal[q]
                               /\ chal' = Remember(chal, [x \in {q} |-> c2])
    BY DEF Verify
  <2> HIDE DEF q
  <2>2. ASSUME NEW c2, q \in DOMAIN chal => c2 = chal[q],
               chal' = Remember(chal, [x \in {q} |-> c2])
        PROVE  Grows(chal, chal')
    <3> DEFINE g == [x \in {q} |-> c2]
    <3>1. DOMAIN g = {q} /\ g[q] = c2
      OBVIOUS
    <3> HIDE DEF g
    <3>2. \A x \in DOMAIN g \cap DOMAIN chal : g[x] = chal[x]
      BY <2>2, <3>1
    <3>3. chal' = Remember(chal, g)
      BY <2>2 DEF g
    <3> QED BY <3>1, <3>2, <3>3, RememberGrows
  <2>3. CASE chal' = chal
    BY <2>3 DEF Grows
  <2> QED BY <2>1, <2>2, <2>3
<1> DEFINE k == attempts - 1
<1>4. /\ attempts \in Nat /\ attempts >= 1 /\ nonce = (attempts * L) % NonceMod
      /\ RejectedUpTo(sk, mask, chal, msg, rnd, k)
      /\ Known(sk, mask, chal, msg, rnd, k)
      /\ PassesAt(sk, mask, chal, msg, rnd, k)
      /\ sig = SignatureAt(sk, mask, chal, msg, rnd, k)
  BY <1>1 DEF DInv, Counted, Followed, InRound, InCall
<1> HIDE DEF k
<1>5. /\ RejectedUpTo(sk, mask', chal', msg, rnd, k)
      /\ Known(sk, mask', chal', msg, rnd, k)
      /\ PassesAt(sk, mask', chal', msg, rnd, k)
      /\ sig = SignatureAt(sk, mask', chal', msg, rnd, k)
  <2>1. RejectedUpTo(sk, mask', chal', msg, rnd, k)
    BY <1>2, <1>3, <1>4, RejectedStays
  <2>2. /\ Known(sk, mask', chal', msg, rnd, k)
        /\ PassesAt(sk, mask', chal', msg, rnd, k)
        /\ SignatureAt(sk, mask', chal', msg, rnd, k) = SignatureAt(sk, mask, chal, msg, rnd, k)
    BY <1>2, <1>3, <1>4, RoundStays
  <2> QED BY <1>4, <2>1, <2>2
<1>6. Shaped'
  BY <1>1 DEF DInv, Shaped
<1>7. Counted'
  BY <1>1, <1>4, <1>5 DEF Counted, k, InRound, InCall
<1>8. Followed'
  BY <1>1, <1>5 DEF Followed, k
<1>9. Archived'
  BY <1>1, <1>2, <1>3, ArchiveStays DEF DInv
<1> QED BY <1>6, <1>7, <1>8, <1>9 DEF DInv

(* The signature enters the archive under the round it was returned by.    *)
LEMMA ReturnDInv == ASSUME DInv, Return PROVE DInv'
<1>1. /\ pc = "verified" /\ pc' = "idle"
      /\ issued' = Remember(issued, [x \in {<<msg, rnd>>} |-> sig])
      /\ UNCHANGED <<sk, msg, rnd, nonce, attempts, sig, mask, chal>>
  BY DEF Return
<1> DEFINE k == attempts - 1
<1>2. /\ k \in Nat
      /\ RejectedUpTo(sk, mask, chal, msg, rnd, k)
      /\ Known(sk, mask, chal, msg, rnd, k)
      /\ PassesAt(sk, mask, chal, msg, rnd, k)
      /\ sig = SignatureAt(sk, mask, chal, msg, rnd, k)
  BY <1>1 DEF DInv, Counted, Followed, InRound, InCall
<1> HIDE DEF k
<1>3. Shaped'
  BY <1>1 DEF DInv, Shaped
<1>4. Counted' /\ Followed'
  BY <1>1 DEF DInv, Counted, Followed, InRound, InCall
<1>5. Archived'
  <2> SUFFICES ASSUME NEW p \in DOMAIN issued'
               PROVE  \E j \in Nat :
                        /\ Returned(sk, mask, chal, p[1], p[2], j)
                        /\ issued'[p] = SignatureAt(sk, mask, chal, p[1], p[2], j)
    BY <1>1 DEF Archived
  <2>1. CASE p = <<msg, rnd>>
    <3>1. issued'[p] = sig /\ p[1] = msg /\ p[2] = rnd
      BY <1>1, <2>1 DEF Remember
    <3>2. Returned(sk, mask, chal, msg, rnd, k)
      BY <1>2 DEF Returned
    <3> QED BY <1>2, <3>1, <3>2
  <2>2. CASE p # <<msg, rnd>>
    <3>1. p \in DOMAIN issued /\ issued'[p] = issued[p]
      BY <1>1, <2>2 DEF Remember
    <3> QED BY <3>1 DEF DInv, Archived
  <2> QED BY <2>1, <2>2
<1> QED BY <1>3, <1>4, <1>5 DEF DInv

(* DInv holds in every state, whatever the parameters.                     *)
LEMMA DInvHolds == Spec => []DInv
<1>1. Init => DInv
  BY InitDInv
<1>2. DInv /\ [Next]_vars => DInv'
  <2> SUFFICES ASSUME DInv, [Next]_vars PROVE DInv'
    OBVIOUS
  <2>1. ASSUME NEW A \in Matrices, NEW s1 \in Secrets1, NEW s2 \in Secrets2, Keypair(A, s1, s2)
        PROVE  DInv'
    BY <2>1, KeypairDInv
  <2>2. ASSUME NEW m \in Messages, NEW r \in Rnds, NEW b \in Buffers, NEW whole \in BOOLEAN,
               Call(m, r, b, whole)
        PROVE  DInv'
    BY <2>2, CallDInv
  <2>3. CASE Sample
    BY <2>3, SampleDInv
  <2>4. CASE Respond
    BY <2>4, RespondDInv
  <2>5. CASE SubtractCs2
    BY <2>5, SubtractDInv
  <2>6. CASE Finish
    BY <2>6, FinishDInv
  <2>7. CASE Verify
    BY <2>7, VerifyDInv
  <2>8. CASE Return
    BY <2>8, ReturnDInv
  <2>9. CASE UNCHANGED vars
    BY <2>9 DEF vars, locals, DInv, Shaped, Counted, Followed, Archived
  <2> QED BY <2>1, <2>2, <2>3, <2>4, <2>5, <2>6, <2>7, <2>8, <2>9 DEF Next
<1> QED BY <1>1, <1>2, PTL DEF Spec

(* The same message and rnd give the same signature, whatever the caller's *)
(* buffer held and whatever was signed or refused in between: the masks    *)
(* and challenges of a call depend on nothing but sk, pre, m and rnd, the  *)
(* counter of nonces included (sign.go:118-206, dilithium.go:119).         *)
THEOREM SigningDeterministic == Spec => []Deterministic
<1>1. DInv => Deterministic
  <2> SUFFICES ASSUME DInv, pc = "signed", <<msg, rnd>> \in DOMAIN issued
               PROVE  sig = issued[<<msg, rnd>>]
    BY DEF Deterministic
  <2> DEFINE k == attempts - 1
             p == <<msg, rnd>>
  <2>1. k \in Nat /\ Returned(sk, mask, chal, msg, rnd, k)
        /\ sig = SignatureAt(sk, mask, chal, msg, rnd, k)
    BY DEF DInv, Counted, Followed, Returned, InRound, InCall
  <2>2. p[1] = msg /\ p[2] = rnd
    OBVIOUS
  <2>3. PICK j \in Nat : /\ Returned(sk, mask, chal, p[1], p[2], j)
                         /\ issued[p] = SignatureAt(sk, mask, chal, p[1], p[2], j)
    BY DEF DInv, Archived
  <2> HIDE DEF k, p
  <2>4. j = k
    BY <2>1, <2>2, <2>3, ReturnedOnce
  <2> QED BY <2>1, <2>2, <2>3, <2>4 DEF p
<1> QED BY <1>1, DInvHolds, PTL
=============================================================================
