------------------------------- MODULE MCCJson -------------------------------
EXTENDS CJsonText, TLC

\* Whole, truncated, malformed and followed by something else.
SomeDocuments ==
    { <<"[", Value, ",", Value, "]">>,
      <<"{", "k", ":", Value, "}", "]">>,
      <<"[", "{", "}", Value>>,
      <<"{", "k", Value>> }

\* Which of the free places malloc takes makes no difference.
PlaceSymmetry == Permutations(Items \ Spare) \cup Permutations(Texts \ Spare)
=============================================================================
