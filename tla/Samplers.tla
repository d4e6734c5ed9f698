------------------------------ MODULE Samplers ------------------------------
(***************************************************************************)
(* The samplers together: the expansion of a key (module Sampling), or a   *)
(* call of PolyChallenge (module Challenge).  Each reads streams of its    *)
(* own, so they share nothing and need not be interleaved.                 *)
(***************************************************************************)
EXTENDS Sampling, Challenge

VARIABLE call      \* "Keypair" or "PolyChallenge"

all == <<vars, ball, call>>

SamplersInit ==
  /\ call \in {"Keypair", "PolyChallenge"}
  /\ Init /\ ChallengeInit
  /\ (call = "PolyChallenge") =>
       <<eta, tapes>> = CHOOSE any \in Etas \X Tapes : TRUE   \* not read

SamplersNext ==
  \/ call = "Keypair" /\ Next /\ UNCHANGED <<call, ball>>
  \/ call = "PolyChallenge" /\ ChallengeNext /\ UNCHANGED <<vars, call>>

(* One goroutine, which does not stop by itself.                           *)
SamplersSpec == SamplersInit /\ [][SamplersNext]_all /\ WF_all(SamplersNext)

-----------------------------------------------------------------------------
(* Block by block, with buffers of different sizes and coefficients that   *)
(* come two at a time, every polynomial of a key is the first N acceptable *)
(* candidates of its stream, and it is finished unless there are none      *)
(* (poly.go:147-220).                                                      *)
Promise == INSTANCE Expansion
             WITH streams <- [n \in 1 .. (IF call = "Keypair" THEN Len(Work) ELSE 0)
                                |-> CandidatesOf(Work[n])]

ImplementsExpansion == Promise!Spec
=============================================================================
