\* The table of line buffers is shorter than the descriptors allowed.
CONSTANTS
    Clients = {c1, c2, c3}
    Letters <- LetterSet
    MaxLine = 2
    MaxSent <- OneEach
    FdSetSize = 2
    NoFile = 4
    RecvMax = 1
    SendCap = 1
    NULL = NULL
SYMMETRY ClientSymmetry
SPECIFICATION Spec
INVARIANTS
    TypeOK
    DescriptorsAccounted
\* Clients are finite in number and in what they send, then select blocks.
CHECK_DEADLOCK FALSE
