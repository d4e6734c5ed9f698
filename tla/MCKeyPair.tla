------------------------------ MODULE MCKeyPair ------------------------------
EXTENDS KeyPair
(* Two key pairs of a mode, one of another, one of a mode not listed.      *)
MCBirths == {<<0, 1>>, <<0, 2>>, <<1, 1>>, <<3, 1>>}
=============================================================================
