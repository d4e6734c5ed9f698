--------------------------------- MODULE Ntt ---------------------------------
(***************************************************************************)
(* A product in the NTT domain as sign.go makes it: the forward transform  *)
(* of each column (ntt.go, ntt_dispatch.go, and the vector code that       *)
(* gen/ntt_avx2.go emits), the Montgomery products with a row, their sum,  *)
(* Reduce, and the inverse transform; one butterfly, or one vector of      *)
(* butterflies, a step.  All arithmetic has the width of an int32.         *)
(*                                                                         *)
(* Lengths are the powers of two below N; Depth[l] says how many layers    *)
(* the forward transform does before the one of length l.                  *)
(***************************************************************************)
EXTENDS Reduction, Sequences

CONSTANTS
  N,           \* coefficients of a polynomial
  Lengths,     \* {1, 2, 4, .., N/2}
  Depth,       \* Depth[l], also for l = 0: the number of layers
  zetas,       \* the table of ntt.go
  F,           \* 41978: R^2/N mod Q
  Lanes,       \* 8: coefficients of a vector register
  LenResume,   \* 4: length of the first layer after the vector code
  KResume,     \* 31: zetas used by the vector code
  Inputs       \* the products to make, see Init

Index == 0 .. N - 1
Grown(d) == (d + 1) * Q     \* a bound on what d layers leave

ASSUME NttAssumption ==
  /\ N \in Nat \ {0, 1} /\ N % 2 = 0
  /\ Lengths \subseteq 1 .. N \div 2 /\ 1 \in Lengths /\ N \div 2 \in Lengths
  /\ \A l \in Lengths :
       /\ N = (N \div (2 * l)) * (2 * l)
       /\ (l > 1) => (l \div 2 \in Lengths /\ l = 2 * (l \div 2))
       /\ (2 * l < N) => 2 * l \in Lengths
       /\ Depth[l] \in Nat /\ Depth[l] < Depth[0]
       /\ Depth[l \div 2] = Depth[l] + 1
  /\ Depth[N \div 2] = 0 /\ Depth[0] \in Nat
  /\ zetas \in [0 .. N - 1 -> -(Q \div 2) .. Q \div 2]
  /\ F \in 0 .. Q

ASSUME VectorAssumption ==
  /\ Lanes \in Nat \ {0} /\ Lanes % 2 = 0
  /\ Lanes \in Lengths /\ LenResume = Lanes \div 2
  /\ \A l \in Lengths : (l >= Lanes) => (l % Lanes = 0)
  /\ KResume \in Nat /\ (KResume + 1) * (2 * LenResume) = N

(* What keeps the arithmetic in range.                                     *)
ASSUME WidthAssumption ==
  /\ N * Q < Half /\ Grown(Depth[0]) < Half
  /\ Grown(Depth[0]) * Grown(Depth[0]) <= Half * Q
  /\ \A e \in {Q - RedUnit, RedUnit - Q} :
       RedUnit \div 2 + (Half \div RedUnit + 1) * e <= Q

VARIABLES
  job,       \* the product: [rows, cols, reduce]
  hasAVX2,   \* what ntt_dispatch.go found at start-up
  pc,        \* where the code is
  col,       \* the column at work
  a,         \* the array being transformed
  w,         \* the sum of products
  len, start, j, k      \* the counters of the loops

vars == <<job, hasAVX2, pc, col, a, w, len, start, j, k>>
loop == <<len, start, j, k>>

add(x, y) == int32(x + y)
sub(x, y) == int32(x - y)

-----------------------------------------------------------------------------
(* A job has the columns to transform, the rows to multiply them with,     *)
(* already in the NTT domain, and whether Reduce follows: it does after    *)
(* MatrixPointwiseMontgomery, and not after a product with the challenge.  *)
JobOK(jb) ==
  /\ Len(jb.cols) \in Nat \ {0} /\ Len(jb.rows) = Len(jb.cols)
  /\ \A c \in 1 .. Len(jb.cols) :
       /\ jb.cols[c] \in [Index -> -Q .. Q]
       /\ jb.rows[c] \in [Index -> -Grown(Depth[0]) .. Grown(Depth[0])]
  /\ (~jb.reduce) => (Len(jb.cols) = 1)
  /\ Len(jb.cols) * Q < Half - RedUnit

Init ==
  /\ job \in Inputs /\ JobOK(job)
  /\ hasAVX2 \in BOOLEAN
  /\ pc = "load" /\ col = 1
  /\ a = [i \in Index |-> 0] /\ w = [i \in Index |-> 0]
  /\ len = 0 /\ start = 0 /\ j = 0 /\ k = 0

(* NTT, on a copy of the column: the dispatch.                             *)
NTT ==
  /\ pc = "load"
  /\ a' = job.cols[col]
  /\ pc' = IF hasAVX2 THEN "vector" ELSE "scalar"
  /\ len' = N \div 2 /\ start' = 0 /\ j' = 0 /\ k' = 1
  /\ UNCHANGED <<job, hasAVX2, col, w>>

(* The three nested loops of the transforms, after `width` butterflies:    *)
(* the next ones of the block, the first ones of the next block, or the    *)
(* first ones of the next layer.                                           *)
LayerDone(width) == j + width >= start + len /\ start + 2 * len >= N

Advance(width, step) ==
  /\ IF j + width < start + len
     THEN j' = j + width /\ UNCHANGED <<start, k>>
     ELSE /\ start' = start + 2 * len /\ j' = start + 2 * len
          /\ k' = k + step
  /\ UNCHANGED len

Layer(length, first) == len' = length /\ start' = 0 /\ j' = 0 /\ k' = first

(* nttScalar, and the scalar rest of the hybrid transform.                 *)
Butterfly ==
  /\ pc = "scalar"
  /\ LET t == montgomeryReduce(zetas[k] * a[j + len])
     IN  a' = [a EXCEPT ![j + len] = sub(a[j], t), ![j] = add(a[j], t)]
  /\ \/ ~LayerDone(1) /\ Advance(1, 1) /\ pc' = pc
     \/ LayerDone(1) /\ len > 1 /\ Layer(len \div 2, k + 1) /\ pc' = pc
     \/ LayerDone(1) /\ len <= 1 /\ Layer(0, k) /\ pc' = "pointwise"
  /\ UNCHANGED <<job, hasAVX2, col, w>>

-----------------------------------------------------------------------------
(* The vector code.  A register of Lanes int32 is also one of Lanes/2      *)
(* int64, and VPMULDQ multiplies the low halves of those.  No sum or       *)
(* product here leaves an int64, so none is cut to that width.             *)
Qwords == 0 .. (Lanes \div 2) - 1

Register(x) == [m \in Qwords |-> x[2 * m + 1] * R + (x[2 * m] % R)]
Lane(u, i)  == IF i % 2 = 0 THEN int32(u[i \div 2])
                            ELSE int32(u[i \div 2] \div R)

Broadcast(x)  == [m \in Qwords |-> x * R + (x % R)]
VPMULDQ(u, v) == [m \in Qwords |-> int32(u[m]) * int32(v[m])]
VPSUBQ(v, u)  == [m \in Qwords |-> u[m] - v[m]]
VPSRLQ(u)     == [m \in Qwords |-> (u[m] % (R * R)) \div R]
HighHalf(u)   == [m \in Qwords |-> u[m] - (u[m] % R)]
VPOR(u, v)    == [m \in Qwords |-> u[m] + v[m]]   \* of disjoint halves

(* aEven - tqEven of the code, for the low halves of zeta and y.           *)
Unreduced(zeta, y) ==
  LET x == VPMULDQ(zeta, y)
  IN  VPSUBQ(VPMULDQ(VPMULDQ(x, Broadcast(QInv)), Broadcast(Q)), x)

(* Mutant: the odd coefficients of y are not moved to the low halves.      *)
montgomeryMulAVX2_EvenOnly(zeta, y) ==
  VPOR(HighHalf(Unreduced(VPSRLQ(zeta), y)), VPSRLQ(Unreduced(zeta, y)))

montgomeryMulAVX2(zeta, y) ==
  VPOR(HighHalf(Unreduced(VPSRLQ(zeta), VPSRLQ(y))), VPSRLQ(Unreduced(zeta, y)))

(* butterflyAVX2, and the loops around it down to length Lanes; then the   *)
(* dispatch starts the scalar loops at length LenResume with zeta `first`. *)
VectorThenScalar(first) ==
  /\ pc = "vector"
  /\ LET y == [m \in 0 .. Lanes - 1 |-> a[j + len + m]]
         t == montgomeryMulAVX2(Broadcast(zetas[k]), Register(y))
     IN  a' = [i \in Index |->
                 IF i \in j .. j + Lanes - 1
                 THEN add(a[i], Lane(t, i - j))
                 ELSE IF i \in j + len .. j + len + Lanes - 1
                 THEN sub(a[i - len], Lane(t, i - len - j))
                 ELSE a[i]]
  /\ \/ ~LayerDone(Lanes) /\ Advance(Lanes, 1) /\ pc' = pc
     \/ /\ LayerDone(Lanes) /\ len \div 2 >= Lanes
        /\ Layer(len \div 2, k + 1) /\ pc' = pc
     \/ /\ LayerDone(Lanes) /\ len \div 2 < Lanes
        /\ Layer(LenResume, first) /\ pc' = "scalar"
  /\ UNCHANGED <<job, hasAVX2, col, w>>

(* Mutant: the dispatch forgets that k is incremented before it is used.   *)
VectorButterfly_NextK == VectorThenScalar(KResume + 2)

VectorButterfly == VectorThenScalar(KResume + 1)

-----------------------------------------------------------------------------
(* PolyPointwiseMontgomery with the row, the sum of                        *)
(* PolyVecLPointwiseAccMontgomery, and the next column.                    *)
PointwiseInto(Sum(_, _)) ==
  /\ pc = "pointwise"
  /\ LET p == [i \in Index |-> montgomeryReduce(job.rows[col][i] * a[i])]
     IN  w' = IF col = 1 THEN p ELSE [i \in Index |-> Sum(w[i], p[i])]
  /\ IF col < Len(job.cols) THEN col' = col + 1 /\ pc' = "load"
                            ELSE pc' = "reduce" /\ UNCHANGED col
  /\ UNCHANGED <<job, hasAVX2, a, loop>>

(* Mutant: the sum is overwritten by the last product.                     *)
Pointwise_Overwrites == PointwiseInto(LAMBDA x, y : y)

Pointwise == PointwiseInto(add)

(* Reduce where the caller calls it; invNTTScalar begins.                  *)
InvNTTAfter(reduce) ==
  /\ pc = "reduce"
  /\ a' = IF reduce THEN [i \in Index |-> reduce32(w[i])] ELSE w
  /\ pc' = "inverse"
  /\ len' = 1 /\ start' = 0 /\ j' = 0 /\ k' = N - 1
  /\ UNCHANGED <<job, hasAVX2, col, w>>

(* Mutant: the caller of MatrixPointwiseMontgomery does not call Reduce.   *)
InvNTT_NoReduce == InvNTTAfter(FALSE)

InvNTT == InvNTTAfter(job.reduce)

InverseBelow(limit) ==
  /\ pc = "inverse"
  /\ LET d == sub(a[j], a[j + len])
     IN  a' = [a EXCEPT ![j] = add(a[j], a[j + len]),
                        ![j + len] = montgomeryReduce(-zetas[k] * d)]
  /\ \/ ~LayerDone(1) /\ Advance(1, -1) /\ pc' = pc
     \/ LayerDone(1) /\ 2 * len < limit /\ Layer(2 * len, k - 1) /\ pc' = pc
     \/ LayerDone(1) /\ 2 * len >= limit /\ Layer(2 * len, k) /\ pc' = "scale"
  /\ UNCHANGED <<job, hasAVX2, col, w>>

(* Mutant: the loop runs while len <= N.                                   *)
InverseButterfly_OneLayerMore == InverseBelow(N + 1)

InverseButterfly == InverseBelow(N)

(* The last loop: the factor f on every coefficient.                       *)
Scale ==
  /\ pc = "scale"
  /\ a' = [a EXCEPT ![j] = montgomeryReduce(F * a[j])]
  /\ j' = j + 1
  /\ pc' = IF j + 1 < N THEN "scale" ELSE "done"
  /\ UNCHANGED <<job, hasAVX2, col, w, len, start, k>>

Next ==
  \/ NTT \/ Butterfly \/ VectorButterfly \/ Pointwise
  \/ InvNTT \/ InverseButterfly \/ Scale

Spec == Init /\ [][Next]_vars

-----------------------------------------------------------------------------
(* Loop counters stay where the table and the array have entries, and the  *)
(* array stays an int32 array (ntt.go:37-83, ntt_avx2.go:120-134).         *)
Looping == pc \in {"vector", "scalar", "inverse"}

TypeOK ==
  /\ hasAVX2 \in BOOLEAN
  /\ pc \in {"load", "vector", "scalar", "pointwise", "reduce", "inverse",
            "scale", "done"}
  /\ col \in 1 .. Len(job.cols)
  /\ a \in [Index -> Int32] /\ w \in [Index -> Int32]
  /\ Looping => /\ len \in Lengths
                /\ start \in Index /\ j \in start .. start + len - 1
                /\ j + len \in Index /\ k \in 1 .. N - 1
  /\ (pc = "scale") => j \in Index

(* Every block gets its own zeta: block b of a layer of B blocks the entry *)
(* B + b going forward, the entry 2B - 1 - b going back, also across the   *)
(* change from the vector loops to the scalar ones (ntt_dispatch.go:14).   *)
ZetaOfBlock ==
  /\ pc \in {"vector", "scalar"} => k * (2 * len) = N + start
  /\ (pc = "inverse") => (k + 1) * (2 * len) + start = 2 * N

Done(i) == i < j \/ (start + len <= i /\ i < j + len)

Within(x, bound) == -bound <= x /\ x <= bound

(* The last loop leaves little more than half of Q: Keypair adds s2 before *)
(* caddq makes t a standard representative (ntt.go:79-83, sign.go:64-72).  *)
Settled ==
  \A i \in Index :
    pc = "done" \/ (pc = "scale" /\ i < j) => Within(R * a[i], (Half + N * F) * Q)

(* Nothing is reduced after an addition (ntt.go:36, 59), yet no sum leaves *)
(* an int32: d layers of the forward transform grow the array to at most   *)
(* (d + 1) * Q, and the inverse one doubles the bound Q at each layer and  *)
(* never passes N * Q.  The butterflies of the layer already done are the  *)
(* indices below j and their partners.                                     *)
Growth ==
  /\ pc \in {"vector", "scalar"} =>
       \A i \in Index :
         Within(a[i], IF Done(i) THEN Grown(Depth[len] + 1) ELSE Grown(Depth[len]))
  /\ (pc = "pointwise") => \A i \in Index : Within(a[i], Grown(Depth[0]))
  /\ (pc = "inverse") =>
       \A i \in Index : Within(a[i], IF Done(i) THEN 2 * len * Q ELSE len * Q)
  /\ (pc = "scale") =>
       \A i \in Index : Within(a[i], IF i < j THEN Q ELSE N * Q)
  /\ (pc = "done") => \A i \in Index : Within(a[i], Q)
  /\ Settled
=============================================================================
