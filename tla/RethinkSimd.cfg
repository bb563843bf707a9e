\* Output larger than the scans' buffer, and every mix of partitions in a
\* vector; the tables are whole vectors or not.
CONSTANTS
    W256 = 2
    W512 = 4
    BufSize = 8
    OutSize = 24
    Bounds = {0, 1, 3, 6, 10, 15}
    Uninit = Uninit
    W = 4
    Radix = 4
    Cycles = {1, 2, 3, 4, 5, 7, 9}
    PartitionNums = {2, 4, 5}
    FirstOffsets = {0, 1, 50}
    TableSizes = {0, 4, 6, 8, 12, 16}
SPECIFICATION Spec
INVARIANTS
    VectorSelects
    OutputComplete
    CountsAgree
    SerializedInOrder
    StableFromZero
\* The program ends.
CHECK_DEADLOCK FALSE
