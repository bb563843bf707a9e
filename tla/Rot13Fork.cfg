\* A client that reads and one that need not; two bytes are the longest line.
CONSTANTS
    reader = reader
    silent = silent
    Clients = {reader, silent}
    Readers = {reader}
    Letters <- LetterSet
    MaxLine = 1
    MaxProc = 2
    MaxSent <- SentBy
    NoFile = 3
    RecvMax = 1
    SendCap = 1
    NULL = NULL
SPECIFICATION FairSpec
INVARIANTS
    NothingLostIfLinesFit
PROPERTIES
    ImplementsLineEcho
    LineEchoed
    ChildEnds
\* Clients are finite in number and in what they send, then all processes wait.
CHECK_DEADLOCK FALSE
