--------------------------- MODULE SelectionScan ---------------------------
(***************************************************************************)
(* SelectionScan.cpp: four ways to select the rows of a table whose key is *)
(* in [min, max], run one after the other: two scalar loops, and two that  *)
(* take a vector of rows at a time, put the ids of the rows that match in  *)
(* a buffer and fetch the columns of those later. initTableInSequence      *)
(* makes the key of row r be r, so that a row stands for its columns.      *)
(*                                                                         *)
(* The vector loops rely on what nothing checks. Their loads and stores    *)
(* want aligned arrays; a load past the end of the table finds keys that   *)
(* may match or not; to fetch columns by a row id that was never stored,   *)
(* or to store past the end of the output, is undefined. The process goes  *)
(* on, or (phase "undefined") anything.                                    *)
(***************************************************************************)
EXTENDS Integers, Sequences, FiniteSets

CONSTANTS
    W256, W512,      \* lanes of the vectors: 8 and 16
    BufSize,         \* buf_size: row ids in the buffer
    OutSize,         \* rows that outKey and outPayload have room for
    TableSizes,      \* the inputs: sizes of the table
    Bounds,          \*   and values of min and max
    Uninit           \* a row id that was never stored

VARIABLES
    tableSize, min, max,
    phase,           \* the loop that runs
    i, j, k,         \* its variables
    rids_buf,        \* row ids, by position
    out,             \* the rows in outKey and outPayload, by position
    resultRows       \* what the loops that ended returned

inputs == <<tableSize, min, max>>
vars == <<tableSize, min, max, phase, i, j, k, rids_buf, out, resultRows>>

Match(r) == min <= r /\ r <= max

(* What is to be selected of the first n rows, and how many that are: a    *)
(* row r that matches belongs at position Rank(r).                         *)
Matching(n) == {r \in 0 .. n - 1 : Match(r)}
Rank(n) == Cardinality(Matching(n))

Fresh == [b \in 0 .. BufSize - 1 |-> Uninit]
Blank == [b \in 0 .. OutSize - 1 |-> Uninit]

Init ==
    /\ tableSize \in TableSizes
    /\ min \in Bounds /\ max \in Bounds
    /\ phase = "branch"
    /\ i = 0 /\ j = 0 /\ k = 0
    /\ rids_buf = Fresh
    /\ out = <<>>
    /\ resultRows = <<>>

(* A loop ended: its count is returned and the next one begins.            *)
EndLoop(count, next, buffer) ==
    /\ resultRows' = Append(resultRows, count)
    /\ phase' = next
    /\ i' = 0 /\ j' = 0 /\ k' = 0
    /\ rids_buf' = Fresh
    /\ out' = buffer
    /\ UNCHANGED inputs

-----------------------------------------------------------------------------
(* scalarBranch.                                                           *)
Branch ==
    /\ phase = "branch" /\ i < tableSize
    /\ out' = IF Match(i) THEN Append(out, i) ELSE out
    /\ i' = i + 1
    /\ UNCHANGED <<inputs, phase, j, k, rids_buf, resultRows>>

BranchEnd ==
    /\ phase = "branch" /\ i >= tableSize
    /\ EndLoop(Len(out), "branchless", <<>>)

(* scalarBranchLess: every row is written, and overwritten by the next if  *)
(* it does not match.                                                      *)
WriteAt(r) == out' = Append(SubSeq(out, 1, j), r)

BranchLess ==
    /\ phase = "branchless" /\ i < tableSize
    /\ WriteAt(i)
    /\ j' = j + (IF Match(i) THEN 1 ELSE 0)
    /\ i' = i + 1
    /\ UNCHANGED <<inputs, phase, k, rids_buf, resultRows>>

BranchLessEnd ==
    /\ phase = "branchless" /\ i >= tableSize
    /\ EndLoop(j, "avx256", Blank)

-----------------------------------------------------------------------------
(* The lanes of the vector loaded at i that match: those past the end of   *)
(* the table may or may not.                                               *)
MatchingLanes_LastDropped(w) ==                               \* mutation
    {{l \in 0 .. w - 2 : i + l < tableSize /\ Match(i + l)}}

MatchingLanes(w) ==
    LET inTable == {l \in 0 .. w - 1 : i + l < tableSize}
    IN  {{l \in inTable : Match(i + l)} \cup past :
            past \in SUBSET ((0 .. w - 1) \ inTable)}

RoundedDown(count, w) == (count \div w) * w                   \* mutation
RoundedUp(count, w) == ((count + w - 1) \div w) * w

(* _mm256_vectorSelectiveStoreInDirect. The comparison is shifted right by *)
(* 31 before it masks the store, and a store is masked by sign bits: no    *)
(* lane of rids_buf is ever stored, but k counts the rows that match. What *)
(* the flushes fetch is therefore unknown: nothing of it enters "out".     *)
Avx256 ==
    /\ phase = "avx256" /\ i < tableSize
    /\ \E lanes \in MatchingLanes(W256) :
         LET hits == k + Cardinality(lanes)
             flush == BufSize - W256
         IN  IF hits <= flush
             THEN k' = hits /\ UNCHANGED j
             ELSE /\ j + flush <= OutSize
                  /\ j' = j + flush
                  /\ k' = hits - flush
    /\ i' = i + W256
    /\ UNCHANGED <<inputs, phase, rids_buf, out, resultRows>>

(* The rest is written from the start of the output, and k is returned.    *)
Avx256End ==
    /\ phase = "avx256" /\ i >= tableSize
    /\ RoundedUp(k, W256) <= OutSize
    /\ EndLoop(k, "avx512", Blank)

-----------------------------------------------------------------------------
(* _mm512_vectorSelectiveStoreInDirect. The ids of the rows that match are *)
(* compressed to the front of a vector of zeros, and all of it is stored.  *)
Compressed(lanes) ==
    LET place(l) == Cardinality({n \in lanes : n < l})
    IN  [p \in 0 .. W512 - 1 |->
            IF p < Cardinality(lanes)
            THEN i + (CHOOSE l \in lanes : place(l) = p) ELSE 0]

Stored(buffer, p, vector) ==
    [b \in DOMAIN buffer |->
        IF b \in p .. p + W512 - 1 THEN vector[b - p] ELSE buffer[b]]

(* The last vector of the buffer, moved to its start.                      *)
Moved_Nothing(buffer) == buffer                               \* mutation
Moved(buffer) == Stored(buffer, 0, [l \in 0 .. W512 - 1 |-> buffer[BufSize - W512 + l]])

(* The rows at the first "count" positions of the buffer go to the output, *)
(* from position j on.                                                     *)
Fetched(buffer, count) ==
    [q \in DOMAIN out |-> IF q \in j .. j + count - 1 THEN buffer[q - j] ELSE out[q]]

Flush512 == BufSize - W512

Avx512 ==
    /\ phase = "avx512" /\ i < tableSize
    /\ \E lanes \in MatchingLanes(W512) :
         LET buffer == IF lanes = {} THEN rids_buf
                       ELSE Stored(rids_buf, k, Compressed(lanes))
             hits == k + Cardinality(lanes)
         IN  IF hits <= Flush512
             THEN k' = hits /\ rids_buf' = buffer /\ UNCHANGED <<j, out>>
             ELSE /\ j + Flush512 <= OutSize
                  /\ out' = Fetched(buffer, Flush512)
                  /\ rids_buf' = Moved(buffer)
                  /\ j' = j + Flush512
                  /\ k' = hits - Flush512
    /\ i' = i + W512
    /\ UNCHANGED <<inputs, phase, resultRows>>

(* What is left, whole vectors of it. resultRows is j + k.                 *)
Avx512End ==
    /\ phase = "avx512" /\ i >= tableSize
    /\ j + RoundedUp(k, W512) <= OutSize
    /\ EndLoop(j + k, "done", Fetched(rids_buf, RoundedUp(k, W512)))

(* A vector that is loaded, stored or fetched where it should not be.      *)
VectorUndefined ==
    /\ phase \in {"avx256", "avx512"}
    /\ i < tableSize \/ k > 0
    /\ phase' = "undefined"
    /\ UNCHANGED <<inputs, i, j, k, rids_buf, out, resultRows>>

-----------------------------------------------------------------------------
Next ==
    \/ Branch \/ BranchEnd
    \/ BranchLess \/ BranchLessEnd
    \/ Avx256 \/ Avx256End
    \/ Avx512 \/ Avx512End
    \/ VectorUndefined

Spec == Init /\ [][Next]_vars

-----------------------------------------------------------------------------
(* Properties.                                                             *)

WholeVectors == tableSize % W256 = 0 /\ tableSize % W512 = 0

(* Every loop that ends returns how many rows match, when the table is     *)
(* made of whole vectors; the one with 256 bits as long as its buffer was  *)
(* not flushed: it returns what is left in it.                             *)
CountsAgree ==
    \A n \in 1 .. Len(resultRows) :
        \/ resultRows[n] = Rank(tableSize)
        \/ n >= 3 /\ ~ WholeVectors
        \/ n = 3 /\ Rank(tableSize) > BufSize - W256

(* The 512-bit loop leaves the rows that match, in order, across its       *)
(* flushes: those so far are in the output and then in the buffer.         *)
VectorSelects ==
    phase = "avx512" /\ WholeVectors =>
        /\ j + k = Rank(i)
        /\ \A r \in Matching(i) :
             IF Rank(r) < j THEN out[Rank(r)] = r ELSE rids_buf[Rank(r) - j] = r

(* And its output holds every row that matches.                            *)
OutputComplete ==
    phase = "done" /\ WholeVectors =>
        \A r \in Matching(tableSize) : out[Rank(r)] = r
=============================================================================
