---------------------------- MODULE RethinkSimd ----------------------------
(***************************************************************************)
(* main.cpp of rethink_simd: the selection scans run to their end and      *)
(* return, then the partitioning runs, on a table of the same size. What   *)
(* the scans kept is gone when they return.                                *)
(***************************************************************************)
EXTENDS Integers, Sequences

CONSTANTS
    W256, W512, BufSize, OutSize, Bounds, Uninit,      \* of the scans
    W, Radix, Cycles, PartitionNums, FirstOffsets,     \* of the partitioning
    TableSizes

(* The buffer holds two vectors, the output whole ones: the loops fill and  *)
(* flush them a vector at a time.                                           *)
ASSUME ScanAssumption ==
    /\ W256 \in Nat \ {0} /\ W512 \in Nat \ {0}
    /\ BufSize \in Nat /\ OutSize \in Nat
    /\ BufSize >= 2 * W512 /\ BufSize >= 2 * W256
    /\ OutSize % W256 = 0 /\ OutSize % W512 = 0
    /\ TableSizes \subseteq Nat /\ Bounds \subseteq Int
    /\ Uninit \notin Nat

ASSUME PartitioningAssumption ==
    /\ W \in Nat \ {0} /\ Radix \in Nat \ {0}
    /\ Cycles \subseteq Nat \ {0}
    /\ PartitionNums \subseteq Nat \ {0}
    /\ FirstOffsets \subseteq Int

VARIABLES
    tableSize,
    phase, min, max, i, j, k, rids_buf, out, resultRows,
    stage, cycle, partitionNum, row, histPartial, partitionBaseOffs,
    partIdx, initOff, m, res, output

scan == <<phase, min, max, i, j, k, rids_buf, out, resultRows>>
shuffle == <<stage, cycle, partitionNum, row, histPartial, partitionBaseOffs,
             partIdx, initOff, m, res, output>>
vars == <<tableSize, scan, shuffle>>

Scan == INSTANCE SelectionScan
Shuffle == INSTANCE Partitioning WITH phase <- stage, i <- row

Init == Scan!Init /\ Shuffle!Init

runSelectionScan ==
    /\ Scan!Next
    /\ UNCHANGED shuffle

runSelectionScan_Returns ==
    /\ phase = "done"
    /\ phase' = "returned"
    /\ min' = 0 /\ max' = 0
    /\ rids_buf' = <<>> /\ out' = <<>> /\ resultRows' = <<>>
    /\ UNCHANGED <<tableSize, i, j, k, shuffle>>

runPartitioning ==
    /\ phase = "returned"
    /\ Shuffle!Next
    /\ UNCHANGED scan

Next == runSelectionScan \/ runSelectionScan_Returns \/ runPartitioning

Spec == Init /\ [][Next]_vars

-----------------------------------------------------------------------------
(* Properties.                                                             *)

(* The 512-bit loop keeps the rows that match, in order, across flushes.   *)
VectorSelects == Scan!VectorSelects

(* And ends with all of them in the output.                                *)
OutputComplete == Scan!OutputComplete

(* A loop returns how many rows match, where it is meant to.               *)
CountsAgree == Scan!CountsAgree

(* Lanes of one partition leave the conflict loop in the order of the rows. *)
SerializedInOrder == Shuffle!SerializedInOrder

(* From a first offset of 0, the output is the table sorted by partition,  *)
(* the rows of a partition in the order they had.                          *)
StableFromZero == Shuffle!StableFromZero
=============================================================================
