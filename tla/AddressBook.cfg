\* Writers one after the other and at once, and a reader among them.
CONSTANTS
    Writers = {w1, w2, w3}
    Readers = {r}
    Missing = Missing
SYMMETRY WriterSymmetry
SPECIFICATION Spec
INVARIANTS
    SavedInOrder
    NeverMangled
PROPERTIES
    HeldBeforeTruncated
\* The programs end.
CHECK_DEADLOCK FALSE
