---------------------------- MODULE MCRot13Fork ----------------------------
(***************************************************************************)
(* Instances of Rot13Fork for TLC.                                         *)
(***************************************************************************)
EXTENDS Rot13Fork, TLC

CONSTANTS reader, silent

LetterSet == {97, NL}                     \* 'a' and '\n'

(* The silent client keeps its child for ever.                             *)
SentBy == reader :> 3 @@ silent :> 1
=============================================================================
