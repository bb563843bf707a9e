---------------------------- MODULE Partitioning ----------------------------
(***************************************************************************)
(* Partitioning.cpp: the rows of a table are moved to their partition, the *)
(* low bits of their key, a vector of rows at a time: count the rows of    *)
(* every partition, turn the counts into offsets, then scatter every       *)
(* vector to the offsets of its partitions. Lanes of one partition are     *)
(* told apart by writing their numbers over the offsets they share and     *)
(* reading back who won. initTableInCycle makes the key of row r be        *)
(* r % cycle.                                                              *)
(*                                                                         *)
(* partitionBaseOffs[0] is never assigned. As in SelectionScan, loads past *)
(* the table and stores past the output are undefined: the process goes on *)
(* or, phase "undefined", anything.                                        *)
(***************************************************************************)
EXTENDS Integers, Sequences, FiniteSets, FiniteSetsExt

CONSTANTS
    W,                \* lanes of a vector: 16
    Radix,            \* partitions that two bits of a key tell apart: 4
    TableSizes, Cycles, PartitionNums,     \* the inputs
    FirstOffsets      \* what malloc may leave in partitionBaseOffs[0]

Lanes == 0 .. W - 1

VARIABLES
    tableSize, cycle, partitionNum,
    phase,
    i,                    \* the first row of the vector
    histPartial,          \* rows counted, by partition and lane
    partitionBaseOffs,    \* where the next row of a partition goes
    partIdx, initOff,     \* of the vector: partitions and their offsets
    m, res,               \* lanes in conflict; conflicts lost by a lane
    output                \* the rows in outputKeyBuffer, by position

inputs == <<tableSize, cycle, partitionNum>>
vector == <<partIdx, initOff, m, res>>
vars == <<tableSize, cycle, partitionNum, phase, i, histPartial,
          partitionBaseOffs, partIdx, initOff, m, res, output>>

Partitions == 0 .. partitionNum - 1

Part(r) == (r % cycle) % Radix

(* The partitions of the vector loaded at i. Past the end of the table     *)
(* there may be any key.                                                   *)
Loaded ==
    {p \in [Lanes -> 0 .. Radix - 1] :
        \A l \in Lanes : i + l < tableSize => p[l] = Part(i + l)}

Init ==
    /\ tableSize \in TableSizes
    /\ cycle \in Cycles
    /\ partitionNum \in PartitionNums
    /\ phase = "histogram"
    /\ i = 0
    /\ histPartial = [p \in Partitions |-> [l \in Lanes |-> 0]]
    /\ partitionBaseOffs = [p \in Partitions |-> 0]
    /\ partIdx = [l \in Lanes |-> 0] /\ initOff = [l \in Lanes |-> 0]
    /\ m = {} /\ res = [l \in Lanes |-> 0]
    /\ output = <<>>

-----------------------------------------------------------------------------
(* _mm512_radixHistogram. A lane of its own for every lane of the vector,  *)
(* so that no two of them count in the same place.                         *)
Counted_SharedLane(p) ==                                      \* mutation
    [q \in Partitions |-> [l \in Lanes |->
        histPartial[q][l] +
            (IF l = 0 /\ \E n \in Lanes : p[n] = q THEN 1 ELSE 0)]]
Counted(p) ==
    [q \in Partitions |-> [l \in Lanes |->
        histPartial[q][l] + (IF p[l] = q THEN 1 ELSE 0)]]

Histogram ==
    /\ phase = "histogram" /\ i < tableSize
    /\ \E p \in Loaded :
         /\ \A l \in Lanes : p[l] \in Partitions
         /\ histPartial' = Counted(p)
    /\ i' = i + W
    /\ UNCHANGED <<inputs, phase, partitionBaseOffs, vector, output>>

hist(p) == MapThenSumSet(LAMBDA l : histPartial[p][l], Lanes)

(* _mm512_shufflingByRadixPartitioning: the offsets.                       *)
Offsets ==
    /\ phase = "histogram" /\ i >= tableSize
    /\ \E first \in FirstOffsets :
         partitionBaseOffs' = [p \in Partitions |->
             IF p = 0 THEN first
             ELSE MapThenSumSet(hist, 0 .. p - 1)]
    /\ phase' = "load"
    /\ i' = 0
    /\ UNCHANGED <<inputs, histPartial, vector, output>>

-----------------------------------------------------------------------------
(* The shuffling, vector by vector.                                        *)
Load ==
    /\ phase = "load" /\ i < tableSize
    /\ partIdx' \in Loaded
    /\ \A l \in Lanes : partIdx'[l] \in Partitions
    /\ initOff' = [l \in Lanes |-> partitionBaseOffs[partIdx'[l]]]
    /\ m' = Lanes
    /\ res' = [l \in Lanes |-> 0]
    /\ phase' = "serialize"
    /\ UNCHANGED <<inputs, i, histPartial, partitionBaseOffs, output>>

Contenders(p) == {l \in m : partIdx[l] = p}

(* Of the lanes that scatter to one place the last one wins. The vector is *)
(* reversed before: that is the first one of the table's order.            *)
Winner_NotReversed(p) == Max(Contenders(p))                   \* mutation
Winner(p) == Min(Contenders(p))

Lost(l, remaining) == IF l \in remaining THEN res[l] + 1 ELSE res[l]

(* _mm512_serialize_conflicts, one turn of its loop: the lanes write their *)
(* numbers over the offsets, and those that read back another one go on.   *)
SerializeConflicts ==
    /\ phase = "serialize"
    /\ partitionBaseOffs' = [p \in Partitions |->
           IF Contenders(p) = {} THEN partitionBaseOffs[p] ELSE Winner(p)]
    /\ m' = {l \in m : partitionBaseOffs'[partIdx[l]] # l}
    /\ res' = [l \in Lanes |-> Lost(l, m')]
    /\ phase' = IF m' = {} THEN "scatter" ELSE "serialize"
    /\ UNCHANGED <<inputs, i, histPartial, partIdx, initOff, output>>

off_out(l) == initOff[l] + res[l]

(* The lane that is the last to scatter to a place wins, here too.         *)
LastLane(p) == Max({l \in Lanes : partIdx[l] = p})

Advanced(p) == off_out(LastLane(p)) + 1

Scatter ==
    /\ phase = "scatter"
    /\ partitionBaseOffs' = [p \in Partitions |->
           IF \E l \in Lanes : partIdx[l] = p THEN Advanced(p)
                                             ELSE partitionBaseOffs[p]]
    /\ LET places == {off_out(l) : l \in Lanes} IN
         output' = [q \in DOMAIN output \cup places |->
             IF q \in places THEN i + Max({l \in Lanes : off_out(l) = q})
                             ELSE output[q]]
    /\ i' = i + W
    /\ phase' = "load"
    /\ UNCHANGED <<inputs, histPartial, vector>>

Done ==
    /\ phase = "load" /\ i >= tableSize
    /\ phase' = "done"
    /\ UNCHANGED <<inputs, i, histPartial, partitionBaseOffs, vector, output>>

(* A vector that is not aligned, a partition that has no count, a row past *)
(* the output, whose size takes a count past the end of the histogram.     *)
VectorUndefined ==
    /\ phase \in {"histogram", "load", "scatter"}
    /\ i < tableSize
    /\ phase' = "undefined"
    /\ UNCHANGED <<inputs, i, histPartial, partitionBaseOffs, vector, output>>

Next ==
    \/ Histogram \/ Offsets
    \/ Load \/ SerializeConflicts \/ Scatter \/ Done
    \/ VectorUndefined

Spec == Init /\ [][Next]_vars

-----------------------------------------------------------------------------
(* Properties.                                                             *)

WholeVectors == tableSize % W = 0

(* The rows of partition p among the first n.                              *)
RowsOf(p, n) == {r \in 0 .. n - 1 : Part(r) = p}

(* A lane has lost as many conflicts as there are lanes of its partition   *)
(* before it that are out of the loop, and those all go before it does.    *)
SerializedInOrder ==
    phase \in {"serialize", "scatter"} =>
        \A l \in Lanes :
            LET before == {n \in 0 .. l - 1 : partIdx[n] = partIdx[l]} IN
            /\ res[l] = Cardinality(before \ m)
            /\ l \notin m => before \cap m = {}

(* The rows of partition 0 in the order of the table, then those of        *)
(* partition 1, and so on: where row r belongs, and that all of them are   *)
(* there and nothing else is.                                              *)
Place(r) ==
    Cardinality({s \in 0 .. tableSize - 1 :
                    Part(s) < Part(r) \/ (Part(s) = Part(r) /\ s < r)})

Shuffled ==
    /\ DOMAIN output = 0 .. tableSize - 1
    /\ \A r \in 0 .. tableSize - 1 : output[Place(r)] = r

(* When the offset of partition 0 began at 0, which shows in where it      *)
(* ends, the output is the table, shuffled.                                *)
StableFromZero ==
    phase = "done" /\ WholeVectors
        /\ partitionBaseOffs[0] = Cardinality(RowsOf(0, tableSize)) => Shuffled

(* "the result of the shuffling is stable, the order of the input is kept" *)
(* (the comment in _mm512_serialize_conflicts), whatever it began at.      *)
ShuffleStable == phase = "done" /\ WholeVectors => Shuffled
=============================================================================
