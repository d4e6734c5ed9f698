------------------------------- MODULE KeyPair -------------------------------
(***************************************************************************)
(* The objects of dilithium.go, DilithiumKeyPair and DilithiumSignature,   *)
(* and the byte slices they share with their caller or copy from it.       *)
(*                                                                         *)
(* The heap is a sequence of byte arrays, an address an index in it.  The  *)
(* caller can write to the arrays it holds: those returned to it, and the  *)
(* signatures behind a SignatureFromBytes.  A field of a key is the birth  *)
(* of the key pair it belongs to, the mode and seed given to Keypair, or   *)
(* Damaged once the caller wrote into it; tr is the public key it was      *)
(* hashed from.  Keypair and Shake256 are taken as injective.              *)
(***************************************************************************)
EXTENDS Packing

CONSTANTS
  Births,       \* the pairs <<mode, seed>> given to GenerateDeterministic
  Steps,        \* bound on the calls and writes of the caller
  MaxArrays     \* bound on the heap

ASSUME KeyPairAssumption ==
  /\ Births \subseteq Mode \X Nat
  /\ Steps \in Nat /\ MaxArrays \in Nat

VARIABLES
  heap,     \* the byte arrays
  held,     \* addresses of those the caller holds
  shared,   \* the slices of objects that are shared with the caller by
            \* design: <<"priv", h>>, <<"pub", h>> and <<"data", s>>
  pairs,    \* the key pairs: addresses of the keys, mode, first contents
  sigs,     \* the signatures: address of the data, first content
  calls     \* calls and writes made

vars == <<heap, held, shared, pairs, sigs, calls>>

Damaged == <<-1, 0>>
NoHash  == <<-2, 0>>

-----------------------------------------------------------------------------
(* The byte strings.                                                       *)
PublicOf(b) ==
  [form |-> "pk", rho |-> b, t1 |-> b, len |-> PublicKeyBytes(b[1])]

SecretOf(b) ==
  [form |-> "sk", rho |-> b, key |-> b, tr |-> PublicOf(b), s |-> b,
   len |-> SecretKeyBytes(b[1])]

Tagged(m, pk)   == [form |-> "pub", tag |-> ModeTag[m], pk |-> pk, len |-> 1 + pk.len]
Whole(m, pk, sk) ==
  [form |-> "pair", tag |-> ModeTag[m], pk |-> pk, sk |-> sk,
   len |-> 1 + pk.len + sk.len]

SignatureOf(m, sk) == [form |-> "sig", by |-> sk, len |-> SignatureBytes(m)]

(* What the caller may do to an array: overwrite one field of it, or all   *)
(* of a signature.  A byte string of a mode that is not listed has no      *)
(* bytes but the `fixed` ones.                                             *)
Written(x, fixed) == IF x.len > fixed THEN {Damaged} ELSE {}

DamagesPk(x) ==
  {[x EXCEPT !.rho = Damaged]}
    \union {[x EXCEPT !.t1 = d] : d \in Written(x, SEEDBYTES)}

DamagesSk(x) ==
  {[x EXCEPT !.rho = Damaged], [x EXCEPT !.key = Damaged],
   [x EXCEPT !.tr = [@ EXCEPT !.rho = NoHash, !.t1 = NoHash]]}
    \union {[x EXCEPT !.s = d] : d \in Written(x, 2 * SEEDBYTES + TRBYTES)}

Tags == {ModeTag[m] : m \in Mode}

Damages(x) ==
  CASE x.form = "pk"   -> DamagesPk(x)
    [] x.form = "sk"   -> DamagesSk(x)
    [] x.form = "sig"  -> {[x EXCEPT !.by.s = d] : d \in Written(x, 0)}
    [] x.form = "pub"  -> {[x EXCEPT !.tag = t] : t \in Tags}
                            \union {[x EXCEPT !.pk = p] : p \in DamagesPk(x.pk)}
    [] x.form = "pair" -> {[x EXCEPT !.tag = t] : t \in Tags}
                            \union {[x EXCEPT !.pk = p] : p \in DamagesPk(x.pk)}
                            \union {[x EXCEPT !.sk = s] : s \in DamagesSk(x.sk)}

(* What VerifySignature may say of a signature just made by sk, under pk:  *)
(* TRUE if the halves belong together and the secrets to them, as module   *)
(* Signing shows for any mask (GenuineVerifies), and so for any `key`;     *)
(* FALSE if sk hashes another public key into mu.  Otherwise it depends on *)
(* values this module does not have.  A key with a low bit of t0 or s2     *)
(* flipped moves c*t0 or c*s2 by one: most of its signatures still verify, *)
(* and those whose high bits cross a boundary of rounding do not.  A       *)
(* signature of a mode that is not listed is empty, and so are the         *)
(* challenges compared.                                                    *)
Verdicts(m, pk, sk) ==
  CASE m \notin Listed -> {TRUE}
    [] m \in Listed /\ sk.tr # pk -> {FALSE}
    [] m \in Listed /\ sk.tr = pk ->
         IF {pk.t1, sk.rho, sk.s} = {pk.rho} THEN {TRUE} ELSE BOOLEAN

-----------------------------------------------------------------------------
Count(n) == calls < Steps /\ calls' = calls + 1 /\ Len(heap) + n <= MaxArrays

(* A new pair in two new arrays, from Keypair or FromKeys.                 *)
NewPair(m, sk, pk) ==
  /\ heap' = heap \o <<sk, pk>>
  /\ pairs' = Append(pairs, [priv |-> Len(heap) + 1, pub |-> Len(heap) + 2,
                             mode |-> m, sk0 |-> sk, pk0 |-> pk])

(* A new array for the caller.                                             *)
Return(x) == heap' = Append(heap, x) /\ held' = held \union {Len(heap) + 1}

(* Generate and GenerateDeterministic.                                     *)
Generate ==
  /\ Count(2)
  /\ \E b \in Births : NewPair(b[1], SecretOf(b), PublicOf(b))
  /\ UNCHANGED <<held, shared, sigs>>

(* PublicKey, PrivateKey and AsBytes return the slice itself.              *)
Expose(slice, address) ==
  /\ Count(0)
  /\ held' = held \union {address} /\ shared' = shared \union {slice}
  /\ UNCHANGED <<heap, pairs, sigs>>

PublicKey  == \E h \in DOMAIN pairs : Expose(<<"pub", h>>, pairs[h].pub)
PrivateKey == \E h \in DOMAIN pairs : Expose(<<"priv", h>>, pairs[h].priv)
AsBytes    == \E s \in DOMAIN sigs : Expose(<<"data", s>>, sigs[s].data)

(* The tests of FromKeys.                                                  *)
LengthsFit(sk, pk, m) == sk.len = SecretKeyBytes(m) /\ pk.len = PublicKeyBytes(m)

(* Mutants: tr is not compared; rho is not compared.                       *)
KeysMatch_RhoOnly(sk, pk) == sk.rho = pk.rho
KeysMatch_TrOnly(sk, pk)  == sk.tr = pk
KeysMatch(sk, pk) == sk.rho = pk.rho /\ sk.tr = pk

(* Mutant: FromKeys takes the mode on trust.                               *)
Accepted_NoLength(sk, pk, m) == KeysMatch(sk, pk)
Accepted(sk, pk, m) == LengthsFit(sk, pk, m) /\ KeysMatch(sk, pk)

(* Mutant: FromKeys keeps the caller's slices.                             *)
KeepKeys_NoCopy(priv, pub, m) ==
  /\ pairs' = Append(pairs, [priv |-> priv, pub |-> pub, mode |-> m,
                             sk0 |-> heap[priv], pk0 |-> heap[pub]])
  /\ UNCHANGED heap

KeepKeys(priv, pub, m) == NewPair(m, heap[priv], heap[pub])

(* FromKeys on slices the caller holds; one that fails changes nothing.    *)
FromKeys ==
  /\ Count(2)
  /\ \E priv, pub \in held, m \in Mode :
       /\ heap[priv].form = "sk" /\ heap[pub].form = "pk"   \* FormatsDistinct
       /\ Accepted(heap[priv], heap[pub], m)
       /\ KeepKeys(priv, pub, m)
  /\ UNCHANGED <<held, shared, sigs>>

ToBytesOf(h) == Whole(h.mode, heap[h.pub], heap[h.priv])

ToBytes ==
  /\ Count(1)
  /\ \E h \in DOMAIN pairs : Return(ToBytesOf(pairs[h]))
  /\ UNCHANGED <<shared, pairs, sigs>>

(* The modes FromBytes takes a byte string for: one or none.               *)
Loads(x) ==
  {m \in ModeFromTag(x.tag) :
     /\ x.len = 1 + PublicKeyBytes(m) + SecretKeyBytes(m)
     /\ Accepted(x.sk, x.pk, m)}

FromBytes ==
  /\ Count(2)
  /\ \E data \in held :
       /\ heap[data].form = "pair"                          \* FormatsDistinct
       /\ \E m \in Loads(heap[data]) : NewPair(m, heap[data].sk, heap[data].pk)
  /\ UNCHANGED <<held, shared, sigs>>

ExportPublic ==      \* the method PublicKeyBytes
  /\ Count(1)
  /\ \E h \in DOMAIN pairs : Return(Tagged(pairs[h].mode, heap[pairs[h].pub]))
  /\ UNCHANGED <<shared, pairs, sigs>>

(* FromPublicKey tests tag and length, and returns a copy without the tag. *)
FromPublicKey ==
  /\ Count(1)
  /\ \E data \in held :
       /\ heap[data].form = "pub"                           \* FormatsDistinct
       /\ \E m \in ModeFromTag(heap[data].tag) :
            heap[data].len = 1 + PublicKeyBytes(m)
       /\ Return(heap[data].pk)
  /\ UNCHANGED <<shared, pairs, sigs>>

-----------------------------------------------------------------------------
NewSignature(address, x) == sigs' = Append(sigs, [data |-> address, data0 |-> x])

(* Sign and its variants, with the private key as it is now.               *)
Sign ==
  /\ Count(1)
  /\ \E h \in DOMAIN pairs :
       LET x == SignatureOf(pairs[h].mode, heap[pairs[h].priv])
       IN  heap' = Append(heap, x) /\ NewSignature(Len(heap) + 1, x)
  /\ UNCHANGED <<held, shared, pairs>>

SignatureFromBytes ==
  /\ Count(0)
  /\ \E data \in held :
       /\ heap[data].form = "sig"
       /\ NewSignature(data, heap[data])
       /\ shared' = shared \union {<<"data", Len(sigs) + 1>>}
  /\ UNCHANGED <<heap, held, pairs>>

SignatureFromSlice ==
  /\ Count(1)
  /\ \E data \in held :
       /\ heap[data].form = "sig"
       /\ heap' = Append(heap, heap[data])
       /\ NewSignature(Len(heap) + 1, heap[data])
  /\ UNCHANGED <<held, shared, pairs>>

(* The caller writes into an array it holds.                               *)
Write ==
  /\ Count(0)
  /\ \E x \in held : \E d \in Damages(heap[x]) : heap' = [heap EXCEPT ![x] = d]
  /\ UNCHANGED <<held, shared, pairs, sigs>>

Init ==
  /\ heap = <<>> /\ held = {} /\ shared = {}
  /\ pairs = <<>> /\ sigs = <<>> /\ calls = 0

Next ==
  \/ Generate \/ PublicKey \/ PrivateKey \/ AsBytes \/ FromKeys \/ ToBytes
  \/ FromBytes \/ ExportPublic \/ FromPublicKey \/ Sign
  \/ SignatureFromBytes \/ SignatureFromSlice \/ Write

Spec == Init /\ [][Next]_vars

-----------------------------------------------------------------------------
(* An object always has keys of the lengths of its mode, so that the       *)
(* methods can slice them (dilithium.go:168-175, packing.go:26, 77).       *)
TypeOK ==
  /\ held \subseteq DOMAIN heap
  /\ \A h \in DOMAIN pairs :
       /\ LengthsFit(heap[pairs[h].priv], heap[pairs[h].pub], pairs[h].mode)
       /\ heap[pairs[h].priv].form = "sk" /\ heap[pairs[h].pub].form = "pk"

(* Only what an accessor or SignatureFromBytes shares can change: an       *)
(* object built by FromKeys, FromBytes or SignatureFromSlice does not      *)
(* follow later writes to the slices it was built from, nor does a pair    *)
(* follow writes to what ToBytes and PublicKeyBytes returned ("Copy to     *)
(* prevent mutation issues", dilithium.go:196).                            *)
Isolation ==
  /\ \A h \in DOMAIN pairs :
       /\ (<<"priv", h>> \notin shared) => (heap[pairs[h].priv] = pairs[h].sk0)
       /\ (<<"pub", h>> \notin shared) => (heap[pairs[h].pub] = pairs[h].pk0)
  /\ \A s \in DOMAIN sigs :
       (<<"data", s>> \notin shared) => (heap[sigs[s].data] = sigs[s].data0)

(* However keys were damaged, mixed or mislabelled on the way, a pair that *)
(* an object was made of has the undamaged public key of one generation, of*)
(* the object's mode (dilithium.go:177-194, 224-237).  The caller damages  *)
(* by accident: it does not compute the tr of a public key it changed,     *)
(* which FromKeys would accept.                                            *)
PublicHalfGenuine ==
  \A h \in DOMAIN pairs :
    \E b \in Births : b[1] = pairs[h].mode /\ pairs[h].pk0 = PublicOf(b)

(* FromKeys compares rho and tr and none of s1, s2, t0 and key: that is    *)
(* enough for a pair to verify what it signs if s1, s2 and t0 are still    *)
(* those of its public key.  With damaged ones it is let through, and its  *)
(* signatures may verify or not (dilithium.go:168-207).  The pair still has*)
(* these keys after any writes of the caller, if no accessor shared them.  *)
IntactSecretsVerify ==
  \A h \in DOMAIN pairs :
    ({<<"priv", h>>, <<"pub", h>>} \intersect shared = {}) =>
      LET sk == heap[pairs[h].priv]
          pk == heap[pairs[h].pub]
          V  == Verdicts(pairs[h].mode, pk, sk)
      IN  TRUE \in V /\ ((sk.s = pk.rho) => V = {TRUE})

(* A pair of a listed mode that was not written into can be saved and      *)
(* loaded again, as the same pair; one of another mode cannot              *)
(* (dilithium.go:210-238, params.go:71-95).                                *)
Reloads ==
  \A h \in DOMAIN pairs :
    ({<<"priv", h>>, <<"pub", h>>} \intersect shared = {}) =>
      Loads(ToBytesOf(pairs[h])) = {pairs[h].mode} \intersect Listed
=============================================================================
