----------------------------- MODULE MCSamplers -----------------------------
EXTENDS Samplers

(* 255 is two nibbles to reject, and as third byte the highest candidates; *)
(* with 224 below it Q - 1 after a first byte 0, and Q after a 1.          *)
Alphabet == {0, 1, 224, 255}

(* One word, read from another place by each nonce.                        *)
MCTapes == { [s \in Streams |->
                [p \in 0 .. Period - 1 |-> word[(p + s.nonce) % Period]]] :
             word \in [0 .. Period - 1 -> Alphabet] }
=============================================================================
