\* One connection whose bytes overflow the line buffer.
CONSTANTS
    Clients = {c1}
    Letters <- LetterSet
    MaxLine = 3
    MaxSent <- FiveEach
    FdSetSize = 4
    NoFile = 4
    RecvMax = 3
    SendCap = 2
    NULL = NULL
SPECIFICATION FairSpec
INVARIANTS
    CursorOrder
    WritingIffPending
    EchoFaithful
    NothingLostBelowMaxLine
PROPERTIES
    ImplementsLineEcho
    EchoesCommitted
\* Clients are finite in number and in what they send, then select blocks.
CHECK_DEADLOCK FALSE
