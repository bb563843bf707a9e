\* Descriptors run out, and FD_SETSIZE is below
\* some of them.
CONSTANTS
    Clients = {c1, c2, c3}
    Letters <- NewlineOnly
    MaxLine = 2
    MaxSent <- TwoEach
    FdSetSize = 1
    NoFile = 3
    RecvMax = 2
    SendCap = 1
    NULL = NULL
SYMMETRY ClientSymmetry
SPECIFICATION Spec
INVARIANTS
    OnlyLeaversLeak
    EchoFaithful
\* Clients are finite in number and in what they send, then poll blocks.
CHECK_DEADLOCK FALSE
