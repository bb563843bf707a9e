\* Two connections that send lines and come and go at any time.
CONSTANTS
    Clients = {c1, c2}
    Letters <- NewlineOnly
    MaxLine = 2
    MaxSent <- TwoEach
    FdSetSize = 3
    NoFile = 3
    RecvMax = 2
    SendCap = 1
    NULL = NULL
SPECIFICATION FairSpec
INVARIANTS
    WriteEventIffPending
    ActiveEventsValid
PROPERTIES
    LineEchoed
    BufferFreed
\* Clients are finite in number and in what they send, then poll blocks.
CHECK_DEADLOCK FALSE
