------------------------------- MODULE MCNtt -------------------------------
(***************************************************************************)
(* A small transform with the proportions of the real one: N = 64 and      *)
(* Q = 257, so that N * Q is just below half the values of an "int32" of   *)
(* R = 32898 values, as 256 * 8380417 is just below 2^31; reduce32 divides *)
(* by 256 where the code divides by 2^23; three layers of vector code with *)
(* eight lanes, then three scalar ones, k resuming at 64/8.                *)
(***************************************************************************)
EXTENDS NttImplements, ZetaTable

MCLengths == {1, 2, 4, 8, 16, 32}
MCDepth   == [l \in MCLengths \union {0} |->
                CASE l = 32 -> 0 [] l = 16 -> 1 [] l = 8 -> 2 [] l = 4 -> 3
                  [] l = 2 -> 4 [] l = 1 -> 5 [] l = 0 -> 6]

(* 9 is a 128th root of unity modulo 257.                                  *)
MCPowers[e \in 0 .. 2 * N - 1] ==
  IF e = 0 THEN 1
  ELSE LET h == MCPowers[e \div 2]
       IN  (((h * h) % Q) * (IF e % 2 = 0 THEN 1 ELSE 9)) % Q

(* R * 9^brv(k) mod 257, centred, as the table of ntt.go is made.          *)
Table == <<
    0, -32, 128, 8, -16, -1, 4, -64, 15, 17, -68, 60, -120, 121, 30, 34,
    -95, -22, 88, -123, -11, -81, 67, -44, -70, 92, -111, -23, 46, 35,
    117, -73, 18, -31, 124, 72, 113, -9, 36, -62, -122, -104, -98, 26,
    -52, 61, 13, 49, -84, 59, 21, -79, -99, 42, 89, 118, -116, 57, 29,
    50, -100, 58, 25, 114>>

MCzetas == [i \in 0 .. N - 1 |-> Table[i + 1]]

(* Columns: the ends of the ranges of the vectors the code transforms, and *)
(* shapes that make all sums of the inverse grow at one index.             *)
Constant(c)    == [n \in Index |-> IF n = 0 THEN c ELSE 0]
Flat(c)        == [n \in Index |-> c]
Alternating(c) == [n \in Index |-> IF n % 2 = 0 THEN c ELSE -c]
Ramp(c)        == [n \in Index |-> ((n * n + c * n) % Q) - Q \div 2]

(* Rows that are transforms of polynomials, in three representatives: as   *)
(* the matrix is sampled, centred, and as far out as a transform gets.     *)
Hat(p)     == [i \in Index |-> EvaluateAt(p, i)]
Centred(h) == [i \in Index |-> IF h[i] > Q \div 2 THEN h[i] - Q ELSE h[i]]
Far(h)     == [i \in Index |-> IF i % 2 = 0 THEN h[i] + 6 * Q ELSE h[i] - 7 * Q]

Matrix(s, rows) == [cols |-> s, rows |-> rows, reduce |-> TRUE]
Scalar(s, row)  == [cols |-> <<s>>, rows |-> <<row>>, reduce |-> FALSE]

MCInputs ==
  { Matrix(<<Constant(256), Constant(256), Constant(256)>>,
           <<Flat(256), Flat(256), Flat(256)>>),
    Matrix(<<Constant(-256), Constant(-256), Constant(-256)>>,
           <<Flat(256), Flat(256), Flat(256)>>),
    Matrix(<<Flat(256), Ramp(3)>>, <<Hat(Ramp(5)), Hat(Alternating(100))>>),
    Scalar(Ramp(1), Far(Hat(Flat(1)))),
    Scalar(Alternating(-256), Centred(Hat(Ramp(2)))),
    Scalar(Constant(255), Flat(6 * Q + 255)) }
=============================================================================
