# A verification development for dilithium-go

TLA+ modules, TLC runs and TLAPS proofs about the ML-DSA / Dilithium signature
library in `src/` (package `dilithium`). Line references are to its files.

## 1. The system

The library is a set of pure functions over byte slices and polynomials. It
has no goroutine, no lock, no file and no network: its state is the key pair
object, the buffers the caller hands in, and the locals of a call. What makes
it hard is arithmetic that must agree on two sides which never meet (signer and
verifier), an unbounded rejection loop with a 16-bit counter, decoders that
must accept one byte string per value, and the errors in between.

| component | state | operations | hard behaviour |
|---|---|---|---|
| rounding and reduction (`rounding.go`, `reduce.go`) | none | `reduce32`, `caddq`, `montgomeryReduce`, `power2round`, `decompose`, `makeHint`, `useHint` | ties, the fold of the last bucket onto the first, divisions made of shifts, int32 ranges |
| signing core (`sign.go`) | locals of a call, the caller's buffer | `Keypair`, `SignSignatureInternal`, `VerifyInternal` | rejection, reuse of `h` and `w0`, early write of c~, congruence of two different sums |
| rejection loop (`sign.go:131-206`, `polyvec.go:50-56`) | `nonce` (uint16) | a round | wrap-around, mask reuse, termination |
| hint encoding (`packing.go:122-136,161-192`) | `idx` | pack, unpack | canonicity, limits, early returns |
| key and signature packing (`packing.go`, `poly.go:268-511`) | none | `Pack*`, `Unpack*`, `Poly*Pack` | signed values in unsigned fields, fields across bytes |
| polynomials and vectors (`poly.go`, `polyvec.go`) | none | add, sub, product, norm | representatives of InvNTT |
| NTT (`ntt*.go`) | the array, in place | `NTT`, `InvNTT` | growth without reduction, scalar and AVX2 schedules |
| samplers (`poly.go:122-266`) | stream position, `ctr` | `RejUniform`, `RejEta`, `PolyUniform*`, `PolyChallenge` | block boundaries, the in-place shuffle |
| SHAKE (`symmetric.go`) | sponge | absorb, squeeze | external library |
| entry points (`sign.go:209-372`, `dilithium.go:63-150`) | none | `Sign*`, `Verify*` | framing of context and message, error values |
| key pair and signature objects (`dilithium.go`) | `privkey`, `pubkey`, `mode`, `data` | `Generate*`, `FromKeys`, `To/FromBytes`, `FromPublicKey`, getters | aliasing, what is validated |
| parameters (`params.go`) | none | tables, mode tags | an unlisted mode has all sizes 0 |

They interact by calls only: an entry point frames the message and calls the
signing core; the core expands its inputs with the samplers, multiplies in the
NTT domain, splits with the rounding functions and writes with the packers; the
verifier reads with the unpackers and repeats the arithmetic from other inputs.

What makes each correct: a signature the signer returns is accepted, for the
framed message it was made for and no other; one byte string per hint; the
signer's output is a function of its inputs; no mask is used twice in a call;
the loop stops if it can; high bits do not depend on s2; an error is reported
as an error. `PROJECT.json` lists the hazards at their lines.

## 2. The modules

* **`Rounding`** - the coefficient functions of `reduce.go` and `rounding.go`,
  with the literals of the code as constants, so that the same definitions
  serve the real parameters and scaled ones.
* **`HintPath`** (extends `Rounding`) - one coefficient through
  `SignSignatureInternal` and `VerifyInternal`. `pc` is the place in the code;
  `Decompose`, `SubtractCs2`, `AddCt0` and `Recover` are sign.go:151-154,
  178-187, 189-198 and 289-291. `delta` is what the verifier's
  recomputation adds to w; c*s2 and c*t0 come from sets, in any representative.
* **`Ring`** (extends `Rounding`, `HintEncoding`) - polynomials, vectors,
  products, and the packed fields. Products are negacyclic products in the normal domain;
  `PolyVecInvNTT` leaves any representative within `InvBound`, as
  `InvNTTToMont` does: `Far` says where it is not the centred one.
* **`HintEncoding`** - the hint bytes on whole vectors; **`HintCodec`** - the
  loops of `PackSig` and `UnpackSig`, one action per round of an inner and of an
  outer loop, shown to compute the definitions of `HintEncoding`.
* **`Signing`** (extends `Ring`) - `Keypair`, the
  rounds of the rejection loop (`Sample`, `Respond`, `SubtractCs2`, `Finish`),
  `Verify`. SHAKE is a memory of random choices: `mask` under
  <<rhoprime, nonce>>, `chal` under <<mu, packed w1>>; names are the tuples of
  what was hashed. Actions that have a mutant take the varying part as a
  parameter (`SampleRound`, `TestLowBits`, `FinishWith`).
* **`RejectionLoop`** - the schedule of the loop alone, for any acceptance
  pattern of the nonces.
* **`Api`** - the entry points, over the internals taken as `Signing` shows
  them to be. Its definitions carry the module's name (`ApiSpec`, `ApiTypeOK`),
  so that the proofs about it share a module with those about `KeyPair`.
* **`Reduction`** - `montgomeryReduce` and `reduce32` again, with every
  intermediate brought back to the width of its integer.
* **`Ntt`** (extends `Reduction`) - a product in the NTT domain as `sign.go`
  makes it: the forward transform of each column, scalar or hybrid, the
  Montgomery products with a row and their sum, `Reduce` where the caller calls
  it, the inverse transform. A step is one butterfly, or one vector of them;
  `len`, `start`, `j`, `k` are the loop counters, `pc` the function at work.
  `VectorButterfly` is what `gen/ntt_avx2.go` emits, instruction by instruction
  on registers of 64-bit lanes.
* **`NttField`** - the transform without widths, Montgomery factors or an order
  of work: the splitting of X^N + 1 along the powers of a root of unity.
  **`NttImplements`** maps `Ntt` onto it (`fieldVec` the array modulo Q,
  `fieldTodo` the butterflies of the layer still to do) and states what the
  product of a row is. Its `TableAssumption` says which powers table and scale
  factor are; **`ZetaTable`** has the real table and factor of `ntt.go` and
  checks the same of them.
* **`Sampling`** - `Keypair`'s expansion of its seeds: the streams in order, and
  one round of a rejection loop, or one more block, a step. **`Challenge`** -
  `PolyChallenge`, one accepted byte a step. **`Samplers`** puts the two
  together. **`Expansion`** is what the expansion promises: polynomials in
  order, each the first N acceptable candidates of its own stream, and
  finished unless there are none; `Sampling` is checked to implement it.
* **`Params`** - the tables of `params.go` and what other code needs of them.
  **`Packing`** (extends it) - every shift of the packers in `poly.go`, a byte or
  field being the set of its bits, and the layouts of `packing.go`.
* **`KeyPair`** (extends `Packing`) - the objects of `dilithium.go` on a heap of
  byte arrays. `held` are the arrays the caller can write to, `shared` the
  slices handed over by design; a byte string is a record of its fields, each
  with the generation it stems from. `Verdicts` says what the verifier may
  answer of a pair's own signatures: `TRUE` if the halves and the secrets belong
  together, from `Signing`'s `GenuineVerifies`; both answers if s1, s2 or t0
  was damaged. `FromKeys` cannot see that, and most signatures of such a pair
  verify after a small change, as a rounding boundary is rarely crossed; how
  many is a matter of values, which this module does not have. The caller
  damages by accident and does not compute a fitting tr.
* **`RingProofs`**, **`HintPathProofs`**, **`RejectionLoopProofs`**,
  **`NttProofs`**, **`SamplersProofs`**, **`KeyPairProofs`**, **`SigningProofs`**,
  **`HintCodecProofs`** - the theorems (section 4).
* **`MCHintPath`**, **`MCSigning`**, **`MCApi`**, **`MCNtt`**, **`MCSamplers`**,
  **`MCKeyPair`** - constants for TLC.

Definitions marked "Mutant" are deliberately wrong variants of a definition,
used to see that a property notices; no specification uses them.

## 3. The runs

| run | question | states |
|---|---|---|
| `HintPath_scaled44` | does the verifier recover the high bits, with exactly the needed hints, for every coefficient of a scaled set | 5 596 |
| `HintPath_mldsa65` | the same with the real literals, at every bucket edge | 6 068 |
| `HintCodec` | are the hint codecs inverse, canonical, and what `Signing` assumes | 16 088 |
| `Signing_scaled44` | does all of it together produce signatures that verify, agreeing key halves, high bits free of s2 | 102 000 |
| `Signing_twice` | is signing a function of its inputs over several calls | 134 000 |
| `RejectionLoop` | fresh masks, first accepted round, termination, over every acceptance pattern | 4 400 |
| `Api` | are verdicts exact and answers consistent | 39 000 |
| `Ntt` | do both transforms stay in range, use the right zetas, implement the transform over the field, and does the product come out | 6 440 |
| `Sampling` | are polynomials what their streams say, finished if possible, streams distinct, and challenges well-formed and equally likely | 22 800 |
| `KeyPair` | what constructors copy and accept, whatever the caller writes, mixes or relabels | 264 000 |
| `Api_errors` | **violated**: `SignDeterministic` returns a zeroed signature without an error | |
| `Api_length` | **violated**: `SignSignature` returns 0, not the length | |

Bounds, and why they are enough:

* *Scaled rounding.* Q = 61 with 5 buckets of 12 (44-like, compare and fold) and
  Q = 49 with 4 buckets (65-like, mask), `DecMul`/`DecDiv` chosen so that
  the shifts divide as exactly as the real ones do. Every value, tie and fold
  occurs. The run with the real literals and the theorems close the gap to the
  real size.
* *Signing.* N = 2, one or two rows and columns, two coefficients +-1 in
  a challenge, secrets in -1..1. In `Signing_scaled44` all four rejections
  occur, acceptance with and without hints, and acceptance after a rejection.
  `MaxAttempts` = 2 bounds the rounds of one call; a third
  adds no new kind of predecessor state. `MaxCalls` bounds the calls (3 is
  sign, something else or a refusal, sign again). When a bound is reached a
  behaviour ends, hence `CHECK_DEADLOCK FALSE`. `NonceMod` = 8 leaves room for
  the nonces of these rounds; the wrap is the subject of `RejectionLoop`.
* *HintCodec.* N = 5, K = 2, Omega = 3: empty rows, full list, ties within and
  across rows, every byte string.
* *RejectionLoop.* 8 nonces, L = 3, every subset accepted; the wrap occurs and,
  as for L = 5 and 7 in 2^16, the second pass meets other triples.
* *Api.* Contexts up to one byte over a limit of 2, where the length byte
  becomes 0; messages that are the tail of a context, an over-long context, or
  an OID with a digest. One signature and one verification per behaviour.
* *Ntt.* N = 64 and Q = 257 in an "int32" of 32 898 values: N*Q lies just below
  half of them, as 256 * 8380417 lies just below 2^31, so that an addition too
  many overflows here as it would there. Three layers of vector code and three
  scalar ones, eight lanes, `k` resuming as in the code. The inputs are six
  products: constants and ramps at the ends of the ranges, three columns that
  line up in one sum, rows in three representatives. Every input of every size
  is the subject of the proofs.
* *Sampling.* N = 3, K = L = 2, buffers of 12 and 6 bytes (128) and of 2 (256),
  first 4 when eta is 4; a stream repeats after four bytes, drawn from
  {0, 1, 224, 255} in all ways, so candidates cross the ends of a cycle and
  streams exist that are never accepted. 0, 224, 255 and 1, 224, 255 are Q - 1
  and Q. Both etas. The challenge: five coefficients, three signs, every byte
  and sign.
* *KeyPair.* Six calls and writes and six arrays: a pair, two slices exposed,
  one damaged, a reload or a `FromKeys`, and a signature. Four generations: two
  of one mode, one of another, one of a mode that is not listed. The tables,
  patterns and layouts are those of the code.

Fairness: `RejectionLoop` assumes weak fairness of a round, since a call is a
synchronous function and nothing can suspend it; `Sampling`, `Samplers` and
`Expansion` assume it of their steps for the same reason, and the refinement
carries it over: a polynomial whose stream goes on being acceptable is
finished. No other module assumes any, and none assumes fairness of a caller.

`Stops` says the loop ends *exactly* if one of the rounds it can reach is
accepted: the code has no other exit (sign.go:134). That such a round exists is
a matter of probability, outside the model. So is the number of bytes
`PolyChallenge` throws away: an action is one accepted byte.

Refinements: `Ntt` implements `NttField` (property `ImplementsField`), where a
vector step is several butterflies at once, and `Samplers` implements
`Expansion` with its liveness (`ImplementsExpansion`).

## 4. The proofs

Eight modules, checked by TLAPS; every theorem holds for all values of the
constants that meet the named assumptions.

**`RingProofs`** - facts about the definitions, without a state.
* `BucketExact44` and `BucketExact65` prove from the literals of `params.go`
  that `bucket`, two shifts and a multiplication, divides by 2*gamma2 rounding
  ties down (`BucketExact`). From that alone follow `DecomposeSpec`,
  `DecomposeUnique` and `HintCorrect`.
* `VerifierSum`: A*z - c*t1*2^d = w - c*s2 + c*t0 modulo Q, coefficient by
  coefficient, from the bilinearity and associativity of the negacyclic
  product. Sums over N are recursive functions, and the induction over them is
  a least counterexample.
* `HintRoundTrip`, `HintCanonical`: the hint bytes as a whole, for every N, K
  and Omega >= 1.

**`HintPathProofs`** - `TypeCorrect`, `VerifierRecovers`, `HintsAreExact`,
`LowBitsInvariant`, `HintsReach`, from `MLDSA44 \/ MLDSA65` (the literals; 87
shares the rounding of 65). HintRecovers is not inductive: nothing in it says
what the hint was computed from. `IInv` adds the congruence
w1*2*gamma2 + w0 = w + delta (`LowBitsExact`), which ties the signer's sum to
the verifier's, and the bounds the two norm tests leave (`HintWithinReach`).

**`RejectionLoopProofs`** - for every L and every width of the counter.
* `TypeCorrect` and `MasksAreFresh`. The strengthening is `Segment`: the used
  nonces are those below the counter, or fewer than L are left - the property
  is claimed up to the wrap only.
* `FirstIsReturned`, with `HInv`: while the loop runs the counter is where some
  number of rounds leads that were all refused (`History`). Past a wrap rounds
  repeat, so an accepted one is among the first. `NothingElseStops` is the
  safety half of `Stops`.

**`HintCodecProofs`** - `LoopsInBounds`, `HintSurvives`, `BytesAreCanonical`,
`LoopsMeetDefinition`, `PackedIsAccepted`, for every N, K and Omega >= 1 and
all bytes. `CInv` adds that what the loops have written and read so far is so
much of `PackHint` and `UnpackHint` (`PackedSoFar`, `ReadSoFar`), and what hint
and bytes have to do with those the behaviour started from (`FromOrigin`).

**`SigningProofs`** - `RangesKept`, `HalvesOfOneKey`, `HighBitsHidden`,
`SignedVerifies` for the real literals, every N, K, L and every matrix, secret,
mask and challenge with norms as `SigningAssumption` has them.
* `IInv` has one part per thing the verifier relies on: `KeysMatch` (the packed
  halves are A*s1 + s2), `Committed` (w is A*y), `Answered` (z is y + c*s1),
  `LowBits` (w0 is what w - c*s2, later w - c*s2 + c*t0, leaves), `Hidden` (the
  high bits have room for any s2 once the norm test is passed) and `Packed`
  (the buffer holds these values, packed). `VerifierSum` and `HintCorrect` close
  the gap from there to the hash.
* `SigningDeterministic` has an invariant of its own, `DInv`: all rounds before
  the one at work were rejected by what is in memory (`Counted`), the locals
  and the buffer are what the round determines (`Followed`), and so were those
  of every earlier call (`Archived`); memories only grow. It needs no rounding
  and hence no literals.

**`NttProofs`** - for every size N, word size and modulus.
* `MontgomeryCorrect`, `ReduceCorrect`: the result is congruent to what it
  should be and in its range. The wraparounds of `int32` are part of the
  definitions; the proofs show which never happen and that the others (the
  product with QINV) are harmless. `ReduceLiterals` puts the literals in.
* `VectorIsScalar`: a lane of the vector product is the scalar one; the borrow
  of a 64-bit subtraction from its low half is why the high half is right.
* `Typed`, `ZetasMatch`, `NoOverflow`. `IInv` adds that `start` is a multiple of
  2*`len` and `j` one of the vector width, that lengths are those of the loops,
  and a bound on the running sum of products; without the first the zeta of a
  block is not determined, without the last `Reduce` may overflow.
  `MontgomerySettles` gives what the last loop leaves.
* `TransformsImplementField`: the refinement `ImplementsField`, in full. R is a
  unit modulo Q, so the R of a zeta cancels against the division by R of
  `montgomeryReduce`; a step does the butterflies `j .. j + Width - 1`, which is
  what `StillToDo` loses; the inverse reads the table backwards, where
  `TableAssumption` says the inverse powers stand. The strengthening on top of
  `IInv` is `LastLayer`: scaling starts when the last layer is done.
* `ProductsOfRows`: `RowProduct`, that the caller gets the product in
  Z_Q[X]/(X^N + 1). A block of length l of the array stands for a polynomial
  modulo X^l - r, r the power at its node of the tree of factors, and a leaf is
  a root of every block above it (`LeavesBelow`: the exponents halve). A
  forward butterfly, done in any order, keeps the value at each leaf
  (`ForwardKept`), an inverse one doubles it (`InverseKept`), so that the layers
  make N of it, which the last loop turns into R. The strengthening `Carried`
  has a part per stage: what is left of the transform of a column has its
  values (`Transformed`), the accumulator has the products of the columns so
  far divided by R (`Multiplied`, `Summed`), the inverse transform that sum times
  the power of two it has reached (`Returned`). `FieldWork` gives the steps:
  they are those of `TransformsImplementField`.

**`SamplersProofs`**
* `TauSigns`, for every N and tau. `CInv` adds a bound on the sign bits; the
  step needs that a byte up to i can be i itself, where the moved value is the
  zero at i.
* `ChallengesEquallyLikely`: `EquallyLikely`, for every N and tau. By induction
  on the rounds, a polynomial with n signs comes from n! choices
  (`WaysCounted`): any of its signs can be the last place drawn, place and
  polynomial determine sign bit and polynomial before (`RoundUndone`), and each
  such step back is possible (`RoundRedone`).
* `LoopsInBounds`, `OneStreamEach`, for every K, L < 256 and every stream.
  `SInv` says that the streams opened are the first of the list of work, one for
  each finished polynomial and the one at work (`InOrder`), that positions are
  inside the buffer (`Buffered`), and that the first `ctr` coefficients are
  written, each in its range (`Written`).
* `FirstAcceptableOnes`: `Samplers` implements the safety half of `Expansion`
  (`Promise!Safe`). The strengthening is `Reading`: some P candidates of the
  stream have been looked at, the reading position is that of candidate P + 1
  (three bytes, or half a byte, each; across blocks since 3 divides a block of
  SHAKE128), and what is written is what they give, cut off where the
  polynomial is full. `FirstOnes` says that then it does not matter how far
  one looked.

**`KeyPairProofs`**
* `PackLittleEndian` and `UnpackLittleEndian`: a packer whose shifts are aligned
  puts every bit at its position of the group, for every width. `RoundTrip`,
  `Canonical` and `PackInjective` follow for the packers of the code; that
  their shifts are aligned is the assumption `Patterns`, which TLC evaluates in
  run `KeyPair`.
* `LengthsAlwaysFit`, `CopiesIsolate`, `OnlyGenuinePublicKeys`,
  `IntactSecretsSuffice`, `SavedPairsReload`, for any number of calls, objects
  and generations. `KInv` adds which byte strings can be in an array at all
  (`Shapes`), that no two objects share an array the caller does not hold
  (`Apart`), and for each pair and signature what it was made of, that the
  caller holds its array only by way of an accessor, and that it is unchanged
  before that (`PairOK`, `SigOK`).
* `AnswersTyped`, `VerdictsAreExact`, `HedgedAnswersVerify`, for every set of
  messages, contexts, keys and digests of one length. The point is
  `FrameInjective`: variant, context and message can be read back from the
  framed string, since the length byte of a context within the limit is its
  length.

The assumptions are the named `ASSUME`s of the modules, each evaluated by TLC
in a run, and the parameter literals. They hold for the code. For
`WidthAssumption`: 256*Q = 2145386752 < 2^31, 9*Q < 2^31,
(9*Q)^2 <= 2^31*Q as 81*Q < 2^31, 2^22 + 257*8191 = 6299391 <= Q, and
7*Q < 2^31 - 2^23 for the longest row. For `RingAssumption`: `InvBound` =
4211177 is at least (Q - 1)/2 and 4211177 + 4 < Q, 2*eta < 8 or 16,
at most 16 or 44 buckets in 4 or 6 bits, and t1 below 2^10. For
`TableAssumption`: `ZetaTable`. `TapesAssumption` and `ApiAssumption` say what
streams, messages and digests are: functions to bytes, sequences, digests of
one length.

`Signing` computes with integers where the code has int32; `Reduction` and
`Ntt` have the width of an int32. The two meet at `InvBound`: `NoOverflow`
(through `Settled`) shows that the inverse transform leaves at most
(2^31 + 256*f)*Q / 2^32 < 0.503*Q, and the theorems on `Signing` hold whichever
representative within `InvBound` is left, as long as s2 can be added to it
before `caddq`. In the runs the bound is a little wider in proportion (34 of 61,
28 of 49), so that both choices occur often.

Only model-checked: liveness, that is `Stops` and the fairness of
`ImplementsExpansion`; their safety halves are `NothingElseStops` and
`FirstAcceptableOnes`. Every invariant of a passing run is proved.

## 5. Disagreements found

* `SignDeterministic` drops the result of `SignSignature` (dilithium.go:126):
  a key of the wrong length gives a zeroed signature and a nil error, where
  README.md:13 says "safe error propagation" and `Sign` returns an error.
* `SignSignature` returns 0 on success (sign.go:226); its comment says the
  signature length (sign.go:210).

Smaller ones, without a run of their own:

* `reduce32` returns -6283009 for a = -2143289344, one below the bound its
  comment (reduce.go:13) and that of `Reduce` (poly.go:19) state; see
  `ReduceLiterals`. No caller is hurt: the next sum has room.
* A mode that is not listed makes key pairs without polynomials and empty
  signatures; they verify, as there is nothing to compare, and cannot be
  reloaded (`Reloads`).
* The "bad len" case of `dilithium_test.go:195` begins with byte(Dilithium2),
  which is 0 and no tag, so it tests the refusal of the tag.

## 6. Not modelled, and what is left

Not modelled: SHAKE itself and SHA-512 (external; oracle or injection), entropy
quality, timing, memory hygiene, register allocation and the assembler behind
the generated code (the output is not in the repository), `FipsName`, tests and
benchmarks.

Left, in this order:

1. An abstract `SignatureScheme` (keys, signed strings, verdicts), which
   `Signing` and `Api` implement by refinement.
2. The int32 ranges of the sums `sign.go` makes outside the transforms.
