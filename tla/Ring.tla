-------------------------------- MODULE Ring --------------------------------
(***************************************************************************)
(* The polynomial and vector operations of poly.go and polyvec.go, and the *)
(* field encodings of the keys and signatures.                             *)
(*                                                                         *)
(* A polynomial is a function from 0 .. N-1 to its int32 coefficients, a   *)
(* PolyVecL or PolyVecK a function from its indices to polynomials.  The   *)
(* code multiplies in the NTT domain; here a polynomial stays in its       *)
(* normal domain and the pair pointwise product - inverse NTT is the       *)
(* negacyclic product, in one of the representatives InvNTT may leave.     *)
(* Ntt shows how far from zero that one can be (Settled): 0.503 * Q, so that*)
(* most residues have one such representative and a few have two.          *)
(***************************************************************************)
EXTENDS Rounding, HintEncoding, Functions

CONSTANTS
  L,           \* mode.L(); N, K and Omega are those of HintEncoding
  Eta,         \* mode.Eta()
  Gamma1,      \* mode.Gamma1()
  EtaWidth,    \* values of a packed field of PolyEtaPack: 8 or 16
  T1Width,     \* values of a packed field of PolyT1Pack: 1 << 10
  W1Width,     \* values of a packed field of PolyW1Pack: 64 or 16
  InvBound,    \* how far from zero InvNTT may leave a coefficient
  Far(_, _)    \* where it leaves the farther of two such representatives

ASSUME RingAssumption ==
  /\ L \in Nat \ {0} /\ Eta \in Nat \ {0} /\ Gamma1 \in Nat \ {0}
  /\ EtaWidth \in Nat /\ T1Width \in Nat /\ W1Width \in Nat
  /\ 2 * Eta < EtaWidth /\ Buckets <= W1Width /\ 2 * Eta < Q
  /\ InvBound \in Nat /\ (Q - 1) \div 2 <= InvBound /\ InvBound + Eta < Q
  /\ TwoD = 2 * (TwoD \div 2) /\ Q + TwoD \div 2 - 2 < T1Width * TwoD

RowsL == 0 .. L - 1     \* Degrees and RowsK are those of HintEncoding

Poly(S)     == [Degrees -> S]
PolyVecL(S) == [RowsL -> Poly(S)]
PolyVecK(S) == [RowsK -> Poly(S)]

-----------------------------------------------------------------------------
(* One operation on every coefficient of a vector, or of two of them.      *)

Map(Op(_), v) ==
  [i \in DOMAIN v |-> [n \in Degrees |-> Op(v[i][n])]]

Map2(Op(_, _), u, v) ==
  [i \in DOMAIN u |-> [n \in Degrees |-> Op(u[i][n], v[i][n])]]

PolyVecReduce(v)  == Map(reduce32, v)
PolyVecCaddq(v)   == Map(caddq, v)
PolyVecAdd(u, v)  == Map2(+, u, v)
PolyVecSub(u, v)  == Map2(LAMBDA a, b : a - b, u, v)
PolyVecShiftl(v)  == Map(LAMBDA a : a * TwoD, v)

PolyVecChkNorm(v, bound) ==
  \E i \in DOMAIN v, n \in Degrees : chkNorm(v[i][n], bound)

PolyVecKHigh(v)  == Map(LAMBDA a : decompose(a)[1], v)
PolyVecKLow(v)   == Map(LAMBDA a : decompose(a)[2], v)
PolyVecKT1(v)    == Map(LAMBDA a : power2round(a)[1], v)
PolyVecKT0(v)    == Map(LAMBDA a : power2round(a)[2], v)

(* The hint polynomials, 1 where makeHint says so, and how many ones.      *)
PolyVecKMakeHint(v0, v1) ==
  Map2(LAMBDA a0, a1 : IF makeHint(a0, a1) THEN 1 ELSE 0, v0, v1)

HintCount(h) == Cardinality(Ones(h))

PolyVecKUseHint(v, h) == Map2(LAMBDA a, b : useHint(a, b # 0), v, h)

-----------------------------------------------------------------------------
(* Products.                                                               *)

Product(a, b) ==
  [n \in Degrees |->
     SumFunction([i \in Degrees |-> IF i <= n THEN a[i] * b[n - i]
                                              ELSE -(a[i] * b[N + n - i])])]

Sum(v) == [n \in Degrees |-> SumFunction([j \in DOMAIN v |-> v[j][n]])]

(* MatrixPointwiseMontgomery: row by row, A times v.                       *)
MatrixProduct(A, v) ==
  [i \in RowsK |-> Sum([j \in RowsL |-> Product(A[i][j], v[j])])]

(* PolyVec*PointwisePolyMontgomery: every row of v times c.                *)
ScalarProduct(c, v) == [i \in DOMAIN v |-> Product(c, v[i])]

(* The representatives of a within InvBound: the centred one and, when it  *)
(* is no farther than that, its neighbour on the other side of zero.       *)
centred(a)   == ((a + (Q - 1) \div 2) % Q) - (Q - 1) \div 2
neighbour(a) == IF centred(a) > 0 THEN centred(a) - Q ELSE centred(a) + Q

(* PolyVec*InvNTTToMont: which of them is left depends on the array in the *)
(* NTT domain, and Far may say anything of it.                             *)
PolyVecInvNTT(v) ==
  [i \in DOMAIN v |-> [n \in Degrees |->
     IF Far(v[i], n) /\ neighbour(v[i][n]) \in -InvBound .. InvBound
       THEN neighbour(v[i][n]) ELSE centred(v[i][n])]]

-----------------------------------------------------------------------------
(* The fields of a packed polynomial: what Pack stores of a coefficient    *)
(* and Unpack makes of the field.  The code keeps as many bits as the      *)
(* field has.                                                              *)

PolyEtaPack(v)   == Map(LAMBDA a : (Eta - a) % EtaWidth, v)
PolyEtaUnpack(v) == Map(LAMBDA b : Eta - b, v)

PolyT1Pack(v)    == Map(LAMBDA a : a % T1Width, v)

PolyT0Pack(v)    == Map(LAMBDA a : (TwoD \div 2 - a) % TwoD, v)
PolyT0Unpack(v)  == Map(LAMBDA b : TwoD \div 2 - b, v)

PolyZPack(v)     == Map(LAMBDA a : (Gamma1 - a) % (2 * Gamma1), v)
PolyZUnpack(v)   == Map(LAMBDA b : Gamma1 - b, v)

PolyW1Pack(v)    == Map(LAMBDA a : a % W1Width, v)
=============================================================================
