CONSTANTS
    T <- Bytes
    MaxSize = 5
SPECIFICATION QueueSpec
INVARIANTS
    Base64RoundTrip
PROPERTIES
    ImplementsFifoQueue
