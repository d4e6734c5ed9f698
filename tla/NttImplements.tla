--------------------------- MODULE NttImplements ---------------------------
(***************************************************************************)
(* Modulo Q, the transforms of module Ntt are those of module NttField,    *)
(* and the product of a job is the product in Z_Q[X]/(X^N + 1).            *)
(***************************************************************************)
EXTENDS Ntt

CONSTANTS
  Powers,    \* powers of the root of unity
  NInv       \* the inverse of N modulo Q

ASSUME FieldAssumption ==
  /\ NInv \in Nat /\ (N * NInv) % Q = 1
  /\ Powers \in [0 .. 2 * N - 1 -> 0 .. Q - 1]
  /\ Powers[0] = 1 /\ Powers[N] = Q - 1
  /\ \A e \in 0 .. 2 * N - 2 : Powers[e + 1] = (Powers[e] * Powers[1]) % Q

(* An abstract forward transform starts when the code dispatches one, an   *)
(* inverse one when invNTTScalar starts; the butterflies of a layer still  *)
(* to do are those from index j on.                                        *)
Transforming == pc \in {"vector", "scalar", "inverse", "scale"}

StillToDo(l, p) == {x \in Index : x % (2 * l) < l /\ x >= p}

fieldVec  == [i \in Index |-> a[i] % Q]
fieldDir  == IF pc \in {"inverse", "scale", "done"} THEN "inverse" ELSE "forward"
fieldLen  == IF pc = "done" THEN 2 * N ELSE len
fieldTodo == IF Transforming THEN StillToDo(len, j) ELSE {}

NttField == INSTANCE NttField WITH
  Factor <- R % Q, vec <- fieldVec, dir <- fieldDir, len <- fieldLen,
  todo <- fieldTodo

(* The table of ntt.go: entry k is R times the power at node k of the tree *)
(* of factors; its negative, which the inverse uses, is R times the        *)
(* inverse of the power at the node mirrored in its layer; and f is R^2/N. *)
ASSUME TableAssumption ==
  /\ (F * N) % Q = ((R % Q) * (R % Q)) % Q
  /\ \A n \in 1 .. N - 1 :
       /\ NttField!Exponent[n] \in 1 .. N - 1
       /\ zetas[n] % Q = ((R % Q) * Powers[NttField!Exponent[n]]) % Q
  /\ \A l \in Lengths : \A b \in 0 .. (N \div (2 * l)) - 1 :
       LET blocks == N \div (2 * l)
       IN  (-zetas[2 * blocks - 1 - b]) % Q
             = ((R % Q) * Powers[2 * N - NttField!Exponent[blocks + b]]) % Q

(* The scalar and the hybrid transform, and the inverse one, on int32 with *)
(* Montgomery factors, implement the transforms over the field: every step *)
(* is a step there or changes nothing there (ntt.go, ntt_dispatch.go).     *)
ImplementsField == NttField!Spec

-----------------------------------------------------------------------------
(* f[0] + .. + f[n - 1].                                                   *)
SumTo(f, n) ==
  LET sum[m \in 0 .. n] == IF m = 0 THEN 0 ELSE sum[m - 1] + f[m - 1]
  IN  sum[n]

(* Powers of the root at leaf i, and the value of a polynomial there.      *)
LeafExponent(i) ==
  NttField!Exponent[N \div 2 + i \div 2] + (IF i % 2 = 0 THEN 0 ELSE N)

Root(i, t) == Powers[(LeafExponent(i) * t) % (2 * N)]

EvaluateAt(p, i) == SumTo([t \in Index |-> p[t] * Root(i, t)], N) % Q

(* The product of the first n columns with their rows, at leaf i.          *)
RowSum(n, i) ==
  SumTo([c \in 0 .. Len(job.cols) - 1 |->
           job.rows[c + 1][i] * EvaluateAt(job.cols[c + 1], i)], n)

(* What the caller gets has, at every root, the value the product of the   *)
(* columns with the rows has: the factors R of pointwise product and       *)
(* inverse transform cancel, whatever representatives came in              *)
(* (sign.go:62-66, 168-173).                                               *)
RowProduct ==
  (pc = "done") =>
    \A i \in Index : EvaluateAt(a, i) = RowSum(Len(job.cols), i) % Q
=============================================================================
