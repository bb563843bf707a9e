--------------------------- MODULE MCRot13Select ---------------------------
(***************************************************************************)
(* Instances of Rot13Select for TLC.                                       *)
(***************************************************************************)
EXTENDS Rot13Select, TLC

NewlineOnly == {NL}

LetterSet == {97, NL}                     \* 'a' and '\n'

OneEach == [c \in Clients |-> 1]
TwoEach == [c \in Clients |-> 2]
FiveEach == [c \in Clients |-> 5]

ClientSymmetry == Permutations(Clients)
=============================================================================
