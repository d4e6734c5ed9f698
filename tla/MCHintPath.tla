----------------------------- MODULE MCHintPath -----------------------------
(***************************************************************************)
(* HintPath for TLC.  The scaled parameter sets are explored in full; with *)
(* the real ones, w runs over the neighbourhood of every bucket boundary   *)
(* and of every bucket centre, c*s2 and c*t0 over the edges of their       *)
(* ranges.                                                                 *)
(***************************************************************************)
EXTENDS HintPath

CONSTANTS Radius   \* how far from a boundary w is explored

(* Every representative in -(Q-1) .. Q-1 of the elements of S.             *)
Representatives(S) == {x + j * Q : x \in S, j \in -1 .. 1} \cap -(Q - 1) .. Q - 1

AllWs  == Standard
AllCs2 == Representatives(-Beta .. Beta)
AllCt0 == -(Q - 1) .. Q - 1

EdgeWs  == {j * Gamma2 + d : j \in 0 .. 2 * Buckets, d \in -Radius .. Radius}
             \cap Standard
EdgeCs2 == Representatives({-Beta, 0, Beta})
EdgeCt0 == Representatives({s * b : s \in {-1, 1}, b \in {0, Gamma2 - 1, Gamma2}})
=============================================================================
