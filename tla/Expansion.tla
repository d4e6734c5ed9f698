------------------------------ MODULE Expansion ------------------------------
(***************************************************************************)
(* What expanding a key promises: the polynomials come in order, and each  *)
(* one is the first N acceptable candidates of a stream of its own, with   *)
(* none left out and none used twice.  A stream that never has an          *)
(* acceptable candidate ends the expansion; any other is not waited for    *)
(* for ever.                                                               *)
(***************************************************************************)
EXTENDS Integers, Sequences, SequencesExt

CONSTANT N

VARIABLES
  streams,   \* one per polynomial: a cycle of candidates that repeats;
             \* <<v>> is a candidate with the value v, <<>> one to reject
  polys      \* the polynomials made so far

Useful(s) == \E c \in DOMAIN s : s[c] # <<>>

(* A cycle with an acceptable candidate has N of them in N rounds.         *)
FirstAccepted(s) ==
  LET candidates == [c \in 1 .. N * Len(s) |-> s[((c - 1) % Len(s)) + 1]]
  IN  SubSeq(FlattenSeq(candidates), 1, N)

Init == polys = <<>>

Sample ==
  LET p == Len(polys) + 1
  IN  /\ p \in DOMAIN streams /\ Useful(streams[p])
      /\ polys' = Append(polys, FirstAccepted(streams[p]))
      /\ UNCHANGED streams

(* What is made, apart from whether it is.                                 *)
Safe == Init /\ [][Sample]_<<streams, polys>>

Spec == Safe /\ WF_<<streams, polys>>(Sample)
=============================================================================
