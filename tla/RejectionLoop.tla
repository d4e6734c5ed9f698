---------------------------- MODULE RejectionLoop ----------------------------
(***************************************************************************)
(* The schedule of the rejection loop of SignSignatureInternal             *)
(* (sign.go:131-206): which nonces its masks are expanded with, and when   *)
(* it stops.  Module Signing computes what happens inside a round; here a  *)
(* round is accepted or not according to the nonce it starts from, which   *)
(* is all that differs between two rounds of one call: everything else is  *)
(* a function of the key, the message and rnd.                             *)
(*                                                                         *)
(* nonce is a uint16, L of them are used up by a round, and the loop has   *)
(* no bound of its own: after NonceMod \div L rounds the masks come again, *)
(* shifted unless L divides NonceMod (it does for ML-DSA-44 only).         *)
(***************************************************************************)
EXTENDS Integers, FiniteSets

CONSTANTS
  NonceMod,    \* 1 << 16
  L            \* mode.L()

ASSUME RejectionLoopAssumption ==
  /\ NonceMod \in Nat /\ L \in Nat \ {0}
  /\ L <= NonceMod

Nonces == 0 .. NonceMod - 1

VARIABLES
  pc,       \* "idle", "loop" or "returned"
  nonce,    \* the loop's counter
  accept,   \* the nonces from which a round of this call is accepted
  used,     \* the nonces masks of this call were expanded with
  from      \* the nonce of the accepted round

vars == <<pc, nonce, accept, used, from>>

TypeOK ==
  /\ pc \in {"idle", "loop", "returned"}
  /\ nonce \in Nonces /\ from \in Nonces
  /\ accept \subseteq Nonces /\ used \subseteq Nonces

Init ==
  /\ pc = "idle"
  /\ nonce = 0 /\ from = 0
  /\ accept = {} /\ used = {}

(* SignSignatureInternal is called; A is what its arguments amount to.     *)
Call(A) ==
  /\ pc # "loop"
  /\ pc' = "loop"
  /\ nonce' = 0 /\ used' = {} /\ accept' = A
  /\ UNCHANGED from

(* The nonces of PolyVecLUniformGamma1: uint16 additions.                  *)
RoundNonces == {(nonce + i) % NonceMod : i \in 0 .. L - 1}

(* One round: the masks, the increment to next, and the tests of the round *)
(* that began at n; stop says whether the loop ends.                       *)
RoundWith(next, n, stop) ==
  /\ pc = "loop"
  /\ used' = used \cup RoundNonces
  /\ nonce' = next
  /\ IF stop
     THEN pc' = "returned" /\ from' = n
     ELSE UNCHANGED <<pc, from>>
  /\ UNCHANGED accept

(* Mutants: no wrap; one nonce used up per round; the increment comes      *)
(* before the tests; the loop gives up when the counter wraps.             *)
Round_NoWrap == RoundWith(nonce + L, nonce, nonce \in accept)
Round_OneNonce == RoundWith((nonce + 1) % NonceMod, nonce, nonce \in accept)
Round_NextTested ==
  LET next == (nonce + L) % NonceMod IN RoundWith(next, next, next \in accept)
Round_GivesUp ==
  RoundWith((nonce + L) % NonceMod, nonce,
            nonce \in accept \/ nonce + L >= NonceMod)

Round == RoundWith((nonce + L) % NonceMod, nonce, nonce \in accept)

Next == (\E A \in SUBSET Nonces : Call(A)) \/ Round

(* A call that was made runs: no caller can suspend the loop.              *)
Spec == Init /\ [][Next]_vars /\ WF_vars(Round)

-----------------------------------------------------------------------------
(* No mask is drawn twice in a call as long as L fresh nonces are left:    *)
(* two rounds with a mask in common would give two responses y + c*s1 with *)
(* one y (sign.go:135-137).                                                *)
FreshMasks ==
  [][Round => \/ used \cap RoundNonces = {}
              \/ Cardinality(used) + L > NonceMod]_vars

(* The nonces at which rounds begin, in order.                             *)
Start(j)  == (j * L) % NonceMod
Reachable == {Start(j) : j \in 0 .. NonceMod - 1}

(* The signature returned is that of the first round that passes: this is  *)
(* what makes signing a function of its inputs (dilithium.go:119).         *)
FirstAccepted ==
  pc = "returned" =>
    \E j \in 0 .. NonceMod - 1 :
      /\ from = Start(j) /\ from \in accept
      /\ \A i \in 0 .. j - 1 : Start(i) \notin accept

(* The loop stops exactly if one of the rounds it can reach is accepted;   *)
(* nothing else ends it (sign.go:134, "for {").                            *)
Stops ==
  /\ (pc = "loop" /\ accept \cap Reachable # {}) ~> pc = "returned"
  /\ [][pc = "loop" /\ accept \cap Reachable = {} => pc' = "loop"]_vars
=============================================================================
