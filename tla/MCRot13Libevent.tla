-------------------------- MODULE MCRot13Libevent --------------------------
(***************************************************************************)
(* Instances of Rot13Libevent for TLC.                                     *)
(***************************************************************************)
EXTENDS Rot13Libevent, TLC

NewlineOnly == {NL}

LetterSet == {97, NL}                     \* 'a' and '\n'

TwoEach == [c \in Clients |-> 2]

ClientSymmetry == Permutations(Clients)
=============================================================================
