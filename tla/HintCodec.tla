------------------------------ MODULE HintCodec ------------------------------
(***************************************************************************)
(* The hint part of PackSig and UnpackSig, run loop by loop.  The signer   *)
(* packs one hint coefficient after the other, with a position idx in the  *)
(* list of ones that all of them share; the verifier walks the list row by *)
(* row and returns at the first malformed byte.                            *)
(*                                                                         *)
(* A behaviour starts from a hint vector the signer accepted (at most      *)
(* Omega ones, sign.go:199) or from any bytes a signature may hold, and    *)
(* packs what it unpacked once more: two byte strings that decode to one   *)
(* hint would be two signatures of one message.                            *)
(***************************************************************************)
EXTENDS HintEncoding

VARIABLES
  pc,      \* "pack", "unpack", "repack", "done" or "malformed"
  h,       \* the hint polynomials
  sig,     \* the Omega + K bytes
  row,     \* i of the outer loop
  col,     \* j of PackSig's inner loop
  idx,     \* ones packed or unpacked so far
  origin   \* what the behaviour started from

vars == <<pc, h, sig, row, col, idx, origin>>

Zeros    == [b \in 0 .. Omega + K - 1 |-> 0]
NoHints  == [i \in RowsK |-> [n \in Degrees |-> 0]]

TypeOK ==
  /\ pc \in {"pack", "unpack", "repack", "done", "malformed"}
  /\ h \in Hints /\ sig \in HintBytes
  /\ row \in 0 .. K /\ col \in 0 .. N /\ idx \in 0 .. Omega
  /\ origin \in Hints \cup HintBytes

Init ==
  /\ row = 0 /\ col = 0 /\ idx = 0
  /\ \/ /\ pc = "pack"
        /\ origin \in {g \in Hints : Cardinality(Ones(g)) <= Omega}
        /\ h = origin /\ sig = Zeros
     \/ /\ pc = "unpack"
        /\ origin \in HintBytes
        /\ h = NoHints /\ sig = origin

(* One round of PackSig's j loop.                                          *)
PackCoefficient ==
  /\ pc \in {"pack", "repack"} /\ row < K /\ col < N
  /\ IF h[row][col] # 0
     THEN sig' = [sig EXCEPT ![idx] = col] /\ idx' = idx + 1
     ELSE UNCHANGED <<sig, idx>>
  /\ col' = col + 1
  /\ UNCHANGED <<pc, h, row, origin>>

(* The end of a round of its i loop.                                       *)
PackPoly ==
  /\ pc \in {"pack", "repack"} /\ row < K /\ col = N
  /\ sig' = [sig EXCEPT ![Omega + row] = idx]
  /\ row' = row + 1 /\ col' = 0
  /\ UNCHANGED <<pc, h, idx, origin>>

(* PackSig returns; a fresh UnpackSig begins, or the check is over.        *)
PackDone ==
  /\ pc \in {"pack", "repack"} /\ row = K
  /\ pc' = IF pc = "pack" THEN "unpack" ELSE "done"
  /\ row' = 0 /\ idx' = 0
  /\ UNCHANGED <<h, sig, col, origin>>

(* One round of the i loop of UnpackSig: bad is what its two early returns *)
(* test, set the positions it writes; what it has written to h when it     *)
(* returns early nobody reads.                                             *)
UnpackRound(bad, set) ==
  /\ pc = "unpack" /\ row < K
  /\ IF bad
     THEN pc' = "malformed" /\ UNCHANGED <<h, row, idx>>
     ELSE /\ h' = [h EXCEPT ![row] = [n \in Degrees |-> IF n \in set THEN 1 ELSE 0]]
          /\ idx' = sig[Omega + row]
          /\ row' = row + 1
          /\ UNCHANGED pc
  /\ UNCHANGED <<sig, col, origin>>

EndOutside == sig[Omega + row] < idx \/ sig[Omega + row] > Omega

Unordered ==
  \E j \in idx + 1 .. sig[Omega + row] - 1 : sig[j] <= sig[j - 1]

Listed == {sig[j] : j \in idx .. sig[Omega + row] - 1}

(* Mutants: no test of end against Omega; a repeated position let through; *)
(* the list read from its start again; the order tested across two rows.   *)
UnpackPoly_NoEndTest == UnpackRound(sig[Omega + row] < idx \/ Unordered, Listed)
UnpackPoly_Repeats ==
  UnpackRound(EndOutside \/ \E j \in idx + 1 .. sig[Omega + row] - 1 :
                               sig[j] < sig[j - 1], Listed)
UnpackPoly_FromStart ==
  UnpackRound(EndOutside \/ Unordered, {sig[j] : j \in 0 .. sig[Omega + row] - 1})
UnpackPoly_AcrossRows ==
  UnpackRound(EndOutside \/ \E j \in idx .. sig[Omega + row] - 1 :
                               j > 0 /\ sig[j] <= sig[j - 1], Listed)

UnpackPoly == UnpackRound(EndOutside \/ Unordered, Listed)

(* Mutant: the padding is not looked at.                                   *)
UnpackDone_NoPadding ==
  /\ pc = "unpack" /\ row = K
  /\ pc' = "repack" /\ sig' = Zeros
  /\ row' = 0 /\ idx' = 0
  /\ UNCHANGED <<h, col, origin>>

(* The padding loop of UnpackSig, and its return; then PackSig again, on a *)
(* buffer it clears first.                                                 *)
UnpackDone ==
  /\ pc = "unpack" /\ row = K
  /\ IF \E j \in idx .. Omega - 1 : sig[j] # 0
     THEN pc' = "malformed" /\ UNCHANGED <<sig, row, idx>>
     ELSE /\ pc' = "repack"
          /\ sig' = Zeros
          /\ row' = 0 /\ idx' = 0
  /\ UNCHANGED <<h, col, origin>>

Next == PackCoefficient \/ PackPoly \/ PackDone \/ UnpackPoly \/ UnpackDone

Spec == Init /\ [][Next]_vars

-----------------------------------------------------------------------------
(* A hint the signer accepted survives the bytes (packing.go:122-136       *)
(* against 164-190).                                                       *)
RoundTrip == pc = "repack" /\ row = 0 /\ origin \in Hints => h = origin

(* Bytes that decode have only this decoding: packing the result gives the *)
(* very same bytes (packing.go:176-188, "for strong unforgeability").      *)
Canonical == pc = "done" /\ origin \in HintBytes => sig = origin

(* The two loops compute what module HintEncoding says of whole vectors,   *)
(* early returns included; module Signing relies on it.                    *)
Definitional ==
  /\ pc = "unpack" /\ row = 0 /\ origin \in Hints => sig = PackHint(origin)
  /\ pc = "malformed" /\ origin \in HintBytes => Malformed(origin)
  /\ pc = "repack" /\ row = 0 /\ origin \in HintBytes =>
       ~Malformed(origin) /\ h = UnpackHint(origin)

(* What the signer packed is never refused (packing.go:142-193).           *)
NeverRefused == [][(origin \in Hints) => pc' # "malformed"]_vars
=============================================================================
