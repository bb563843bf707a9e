\* Every mix of partitions in vectors of four; the first offset is what it was.
CONSTANTS
    W = 4
    Radix = 4
    TableSizes = {0, 4, 6, 8, 12}
    Cycles = {1, 2, 3, 4, 5, 6, 7, 9}
    PartitionNums = {2, 4, 5}
    FirstOffsets = {0, 1, 50}
SPECIFICATION Spec
INVARIANTS
    ShuffleStable
\* The program ends.
CHECK_DEADLOCK FALSE
