--------------------------- MODULE MCBufferevents ---------------------------
(***************************************************************************)
(* Instances of Bufferevents for TLC.                                      *)
(***************************************************************************)
EXTENDS Bufferevents

LetterSet == {97, NL, NUL}                \* 'a', '\n' and '\0'

(* One client sends; the others come, stay and leave.                      *)
Sender == CHOOSE c \in Clients : TRUE
OneSends == [c \in Clients |-> IF c = Sender THEN 3 ELSE 0]
=============================================================================
