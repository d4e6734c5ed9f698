------------------------------ MODULE HintPath ------------------------------
(***************************************************************************)
(* One coefficient of w = A*y on its way through SignSignatureInternal and *)
(* then through VerifyInternal.                                            *)
(*                                                                         *)
(* The signer splits w into high and low bits, subtracts the coefficient   *)
(* of c*s2 from the low bits, adds the one of c*t0 and publishes one hint  *)
(* bit.  The verifier sees neither w nor c*s2 nor c*t0: it recomputes      *)
(*          A*z - c*t1*2^D  =  w - c*s2 + c*t0   (mod Q)                   *)
(* and must recover the high bits of w from it with the hint alone.  That  *)
(* identity of the ring is what module Signing computes in full; here c*s2 *)
(* and c*t0 are any values of the sets Cs2 and Ct0, in any representative  *)
(* InvNTT may leave, so that the rounding code can be checked, and proved, *)
(* with the real parameters.                                               *)
(***************************************************************************)
EXTENDS Rounding

CONSTANTS
  Beta,    \* mode.Beta()
  Ws,      \* the coefficients of w explored, standard representatives
  Cs2,     \* the coefficients of c*s2 explored
  Ct0      \* the coefficients of c*t0 explored

ASSUME HintPathAssumption ==
  /\ Beta \in Nat /\ Beta < Gamma2
  /\ Ws \subseteq Standard
  /\ Cs2 \subseteq -(Q - 1) .. Q - 1
  /\ Ct0 \subseteq -(Q - 1) .. Q - 1

VARIABLES
  pc,      \* where the coefficient is
  w,       \* the coefficient of w after PolyVecKCaddq
  w1, w0,  \* w1High and w0
  delta,   \* what the verifier's recomputation adds to w: -c*s2 + c*t0
  hint,    \* the published hint bit
  out      \* the high bits the verifier recovers

vars == <<pc, w, w1, w0, delta, hint, out>>

TypeOK ==
  /\ pc \in {"decompose", "low", "hint", "verify", "verified", "rejected"}
  /\ w \in Standard
  /\ w1 \in 0 .. Buckets - 1 /\ out \in 0 .. Buckets - 1
  /\ w0 \in Int /\ delta \in Int
  /\ hint \in BOOLEAN

Init ==
  /\ pc = "decompose"
  /\ w \in Ws
  /\ w1 = 0 /\ w0 = 0 /\ delta = 0 /\ hint = FALSE /\ out = 0

(* PolyVecKDecompose.                                                      *)
Decompose ==
  /\ pc = "decompose"
  /\ pc' = "low"
  /\ w1' = decompose(w)[1]
  /\ w0' = decompose(w)[2]
  /\ UNCHANGED <<w, delta, hint, out>>

(* w0 = w0 - c*s2, reduced, and its norm test.                             *)
SubtractCs2(x) ==
  /\ pc = "low"
  /\ w0' = reduce32(w0 - x)
  /\ pc' = IF chkNorm(w0', Gamma2 - Beta) THEN "rejected" ELSE "hint"
  /\ delta' = -x
  /\ UNCHANGED <<w, w1, hint, out>>

(* Mutant: the norm test of c*t0 is missing.                               *)
AddCt0_NoTest(x) ==
  /\ pc = "hint"
  /\ pc' = "verify"
  /\ w0' = w0 + reduce32(x)
  /\ delta' = delta + x
  /\ hint' = makeHint(w0', w1)
  /\ UNCHANGED <<w, w1, out>>

(* h = c*t0, reduced, and its norm test; then w0 = w0 + h and the hint.    *)
AddCt0(x) ==
  /\ pc = "hint"
  /\ LET h == reduce32(x)
     IN  IF chkNorm(h, Gamma2)
         THEN /\ pc' = "rejected"
              /\ UNCHANGED <<w0, delta, hint>>
         ELSE /\ pc' = "verify"
              /\ w0' = w0 + h
              /\ delta' = delta + x
              /\ hint' = makeHint(w0 + h, w1)
  /\ UNCHANGED <<w, w1, out>>

(* The verifier: the standard representative of its recomputation, and     *)
(* PolyVecKUseHint.                                                        *)
Recover ==
  /\ pc = "verify"
  /\ pc' = "verified"
  /\ out' = useHint((w + delta) % Q, hint)
  /\ UNCHANGED <<w, w1, w0, delta, hint>>

Next ==
  \/ Decompose
  \/ \E x \in Cs2 : SubtractCs2(x)
  \/ \E x \in Ct0 : AddCt0(x)
  \/ Recover

Spec == Init /\ [][Next]_vars

-----------------------------------------------------------------------------
(* The verifier recovers exactly the high bits the signer committed to:    *)
(* otherwise its challenge differs and a genuine signature is refused      *)
(* (sign.go:290-301 against sign.go:152-159).                              *)
HintRecovers == pc = "verified" => out = w1

(* A hint is published exactly where the high bits of the recomputed value *)
(* differ from those of w, the tie -Gamma2 included (rounding.go:43): a    *)
(* needless one counts against omega (sign.go:199).                        *)
HintExact ==
  pc = "verify" => (hint <=> decompose((w + delta) % Q)[1] # w1)

(* The low bits are those of w - c*s2 + c*t0 itself, whatever              *)
(* representatives InvNTT and the reductions left (sign.go:157, 183-197).  *)
LowBitsExact ==
  pc \in {"low", "hint", "verify"} =>
    (w1 * (2 * Gamma2) + w0 - (w + delta)) % Q = 0

(* The low bits a hint is computed from are less than two half buckets     *)
(* away from their bucket, which is as far as one hint bit can reach: what *)
(* the two norm tests together are for (sign.go:186, 193).                 *)
HintWithinReach ==
  /\ pc = "low" => Abs(w0) <= Gamma2
  /\ pc = "hint" => Abs(w0) < Gamma2 - Beta
  /\ pc = "verify" => Abs(w0) + 1 < 2 * Gamma2 /\ hint = makeHint(w0, w1)
=============================================================================
