\* Both servers, every cut of a stream with NUL bytes in it; lines as long as the
\* watermark, and a descriptor too large.
CONSTANTS
    Clients = {c1, c2}
    Letters <- LetterSet
    MaxLine = 2
    MaxSent <- OneSends
    FdSetSize = 1
    NoFile = 3
    RecvMax = 2
    SendCap = 1
    NULL = NULL
SPECIFICATION FairSpec
INVARIANTS
    AnswersByteByByte
    EchoesEveryLine
PROPERTIES
    LineAnswered
    DescriptorReleased
\* Clients are finite in number and in what they send, then poll blocks.
CHECK_DEADLOCK FALSE
