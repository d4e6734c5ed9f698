-------------------------------- MODULE MCApi --------------------------------
(***************************************************************************)
(* Api for TLC: contexts of at most two bytes, so that a context of three  *)
(* is too long and its length byte would be 0.  The strings are chosen so  *)
(* that they collide wherever a framing could: a context moves its tail    *)
(* into the message, a context that is too long is the head of a message,  *)
(* and the last message is the object identifier followed by a digest.     *)
(***************************************************************************)
EXTENDS Api

Strings == << <<>>, <<1>>, <<0, 1>>, <<1, 1>>, <<0, 1, 1>>, <<1, 0, 0, 0>> >>

MCMessages == {Strings[i] : i \in 1 .. Len(Strings)}
MCContexts == {<<>>, <<0>>, <<0, 1>>, <<0, 1, 1>>}
MCOID      == <<1>>

(* Three-byte digests, all different.                                      *)
Digests   == << <<0, 0, 0>>, <<0, 0, 1>>, <<0, 1, 0>>, <<0, 1, 1>>, <<1, 0, 0>>, <<1, 0, 1>> >>
MCSHA512  == [m \in MCMessages |->
                Digests[CHOOSE i \in 1 .. Len(Strings) : Strings[i] = m]]
MCKeys    == {"good", "other"}
=============================================================================
