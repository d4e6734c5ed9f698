----------------------------- MODULE MCSigning -----------------------------
(***************************************************************************)
(* Signing for TLC: polynomials of two coefficients, challenges with both  *)
(* coefficients nonzero (mode.Tau() = 2), secrets in -1 .. 1 and a mask    *)
(* range of -7 .. 8, with the scaled rounding literals of MCHintPath.      *)
(***************************************************************************)
EXTENDS Signing, TLC

CONSTANTS
  Seeds,       \* one matrix per element
  MaskEdge     \* masks have coefficients -MaskEdge, 0 or MaskEdge + 1

Pair(a, b) == (0 :> a) @@ (1 :> b)

(* A few matrices without structure.                                       *)
MCMatrices ==
  {[i \in RowsK |-> [j \in RowsL |-> [n \in Degrees |->
      (s * (7 * i + 13 * j + 5 * n + 3) + 11 * (i + 2) * (j + n + 1)) % Q]]]
   : s \in Seeds}

SecretPolys == {Pair(1, -1), Pair(-1, 0), Pair(1, 1)}
MCSecrets1  == [RowsL -> SecretPolys]
MCSecrets2  == [RowsK -> SecretPolys]

(* One key, for long sequences of calls.                                   *)
OneSecret1  == {[j \in RowsL |-> Pair(1, -1)]}
OneSecret2  == {[i \in RowsK |-> Pair(-1, 0)]}

MCMaskPolys == Poly({-MaskEdge, 0, MaskEdge + 1})
MCFewMasks  == {Pair(MaskEdge, -2), Pair(-1, MaskEdge), Pair(0, 3)}

MCTwoMasks  == {Pair(MaskEdge, -2), Pair(0, 3)}

MCCtildes == {"c1", "c2", "c3"}
MCBall == [d \in MCCtildes |-> CASE d = "c1" -> Pair(1, 1)
                                 [] d = "c2" -> Pair(-1, 1)
                                 [] d = "c3" -> Pair(-1, -1)]

Buffer(x, b) ==
  [ctilde |-> "c1", z |-> [i \in RowsL |-> [n \in Degrees |-> x]],
   h |-> [i \in 0 .. Omega + K - 1 |-> b]]
ZeroBuffer   == {Buffer(0, 0)}
DirtyBuffers == {Buffer(0, 0), Buffer(5, 1)}

(* InvNTT leaves the farther representative of one coefficient in two.     *)
MCFar(p, n) == (p[n] + n) % 2 = 1

OneMessage  == {"m1"}
TwoMessages == {"m1", "m2"}
OneRnd      == {"r1"}
=============================================================================
