------------------------------ MODULE NttField ------------------------------
(***************************************************************************)
(* What the transforms of ntt.go promise, without integers of any width,   *)
(* Montgomery factors, counters or an order of work: X^N + 1 is split over *)
(* Z_Q along the powers of a 2N-th root of unity, layer by layer, and in a *)
(* layer the butterflies may be done in any order, any number at a time.   *)
(*                                                                         *)
(* A butterfly of a layer of length l is named by its lower index x; it    *)
(* works on x and x + l.  The inverse runs through the layers backwards    *)
(* and ends with a factor on every index (the layer of length N).          *)
(***************************************************************************)
EXTENDS Integers

CONSTANTS
  N,        \* coefficients of a polynomial
  Q,        \* the modulus
  Factor,   \* R mod Q, the factor InvNTTToMont leaves in its result
  NInv,     \* the inverse of N modulo Q
  Powers    \* Powers[e] is the e-th power of the root of unity

VARIABLES
  vec,      \* the array, as elements of the field
  dir,      \* "forward" or "inverse"
  len,      \* length of the current layer
  todo      \* butterflies of the layer that are still to be done

vars == <<vec, dir, len, todo>>

Index == 0 .. N - 1
Field == 0 .. Q - 1

(* The butterflies of a layer; all indices if l = N.                       *)
Pairs(l) == {x \in Index : x % (2 * l) < l}

(* Node k of the tree of factors stands for X^2l - w^2e with e =           *)
(* Exponent[k], and has the children X^l - w^e and X^l + w^e.              *)
Exponent[k \in 1 .. N - 1] ==
  IF k = 1 THEN N \div 2
  ELSE IF k % 2 = 0 THEN Exponent[k \div 2] \div 2
  ELSE (Exponent[k \div 2] + N) \div 2

NodeOf(l, x) == N \div (2 * l) + x \div (2 * l)

Forward(v, l, S) ==
  [i \in Index |->
     IF i \in S
     THEN (v[i] + Powers[Exponent[NodeOf(l, i)]] * v[i + l]) % Q
     ELSE IF i >= l /\ i - l \in S
     THEN (v[i - l] - Powers[Exponent[NodeOf(l, i - l)]] * v[i]) % Q
     ELSE v[i]]

Inverse(v, l, S) ==
  [i \in Index |->
     IF l = N THEN IF i \in S THEN (v[i] * ((Factor * NInv) % Q)) % Q
                              ELSE v[i]
     ELSE IF i \in S THEN (v[i] + v[i + l]) % Q
     ELSE IF i >= l /\ i - l \in S
     THEN (Powers[2 * N - Exponent[NodeOf(l, i - l)]] * (v[i - l] - v[i])) % Q
     ELSE v[i]]

Work(v, S) == IF dir = "forward" THEN Forward(v, len, S) ELSE Inverse(v, len, S)

-----------------------------------------------------------------------------
Init ==
  /\ vec \in [Index -> Field]
  /\ dir = "forward" /\ len = 0 /\ todo = {}

(* Another array is put in: todo is empty, no transform is under way.      *)
Load ==
  /\ todo = {}
  /\ vec' \in [Index -> Field]
  /\ \/ dir' = "forward" /\ len' = N \div 2
     \/ dir' = "inverse" /\ len' = 1
  /\ todo' = Pairs(len')

(* Some butterflies of the layer.                                          *)
Within ==
  /\ todo' \subseteq todo /\ todo' # {} /\ todo' # todo
  /\ vec' = Work(vec, todo \ todo')
  /\ UNCHANGED <<dir, len>>

(* The last butterflies of a layer; the transform ends after length 1, the *)
(* inverse after length N.                                                 *)
Complete ==
  /\ todo # {}
  /\ vec' = Work(vec, todo)
  /\ dir' = dir
  /\ len' = IF dir = "forward" THEN len \div 2 ELSE 2 * len
  /\ todo' = IF len' \in 1 .. N THEN Pairs(len') ELSE {}

Next == Load \/ Within \/ Complete

Spec == Init /\ [][Next]_vars
=============================================================================
