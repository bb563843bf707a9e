------------------------- MODULE RethinkSimdProofs -------------------------
(***************************************************************************)
(* What RethinkSimd promises, proved for all widths of the vectors, sizes  *)
(* of the buffers and of the table, bounds, cycles and numbers of          *)
(* partitions that its assumptions admit.                                  *)
(***************************************************************************)
EXTENDS RethinkSimd, FiniteSetTheorems, SequenceTheorems, TLAPS

-----------------------------------------------------------------------------
(* Numbers and sets.                                                       *)
LEMMA SameCardinality ==
    /\ \A S : Scan!Cardinality(S) = Cardinality(S)
    /\ \A S : Shuffle!Cardinality(S) = Cardinality(S)
BY DEF Scan!Cardinality, Shuffle!Cardinality, Cardinality,
       Scan!IsFiniteSet, Shuffle!IsFiniteSet, IsFiniteSet

LEMMA Remainders ==
    ASSUME NEW w \in Nat \ {0}, NEW a \in Nat, NEW b \in 0 .. (w - 1)
    PROVE  (w * a + b) % w = b
OBVIOUS

LEMMA Multiple ==
    ASSUME NEW w \in Nat \ {0}, NEW a \in Nat, a % w = 0
    PROVE  \E p \in Nat : a = w * p
<1>1. a = w * (a \div w) + (a % w) /\ a \div w \in Nat OBVIOUS
<1> QED BY <1>1

(* A vector that begins within whole vectors ends within them.             *)
LEMMA NextVector ==
    ASSUME NEW w \in Nat \ {0}, NEW n \in Nat, NEW a \in Nat,
           n % w = 0, a % w = 0, a < n
    PROVE  a + w <= n /\ (a + w) % w = 0
<1>1. PICK p \in Nat : a = w * p
  BY Multiple
<1>2. PICK q \in Nat : n = w * q
  BY Multiple
<1>3. p + 1 <= q
  <2>1. SUFFICES ASSUME q <= p PROVE FALSE BY <1>1, <1>2
  <2>2. w * q <= w * p BY <2>1
  <2> QED BY <1>1, <1>2, <2>2
<1>4. w * (p + 1) <= w * q
  <2> DEFINE u == p + 1
  <2>1. u \in Nat /\ u <= q BY <1>3
  <2> HIDE DEF u
  <2>2. w * u <= w * q BY <2>1
  <2> QED BY <2>2 DEF u
<1>5. w * (p + 1) = a + w BY <1>1
<1>6. (w * (p + 1) + 0) % w = 0
  <2> DEFINE u == p + 1
  <2>1. u \in Nat /\ 0 \in 0 .. (w - 1) OBVIOUS
  <2> HIDE DEF u
  <2>2. (w * u + 0) % w = 0 BY <2>1, Remainders
  <2> QED BY <2>2 DEF u
<1> QED BY <1>2, <1>4, <1>5, <1>6

LEMMA Size ==
    ASSUME NEW a \in Int, NEW b \in Int, NEW S \in SUBSET (a .. b)
    PROVE  IsFiniteSet(S) /\ Cardinality(S) \in Nat
           /\ Cardinality(S) <= Cardinality(a .. b)
BY FS_Interval, FS_Subset, FS_CardinalityType

LEMMA SizeOfDisjoint ==
    ASSUME NEW S, NEW T, IsFiniteSet(S), IsFiniteSet(T), S \cap T = {}
    PROVE  IsFiniteSet(S \cup T)
           /\ Cardinality(S \cup T) = Cardinality(S) + Cardinality(T)
<1>1. Cardinality({}) = 0 BY FS_EmptySet
<1>2. Cardinality(S) \in Nat /\ Cardinality(T) \in Nat BY FS_CardinalityType
<1>3. Cardinality(S \cap T) = 0 BY <1>1
<1>4. IsFiniteSet(S \cup T)
      /\ Cardinality(S \cup T) = Cardinality(S) + Cardinality(T) - Cardinality(S \cap T)
  BY FS_Union
<1> QED BY <1>2, <1>3, <1>4

(* Numbers moved by n.                                                     *)
MovedBy(n, S) == {n + x : x \in S}

LEMMA SizeOfMoved ==
    ASSUME NEW n \in Int, NEW S \in SUBSET Int, IsFiniteSet(S)
    PROVE  IsFiniteSet(MovedBy(n, S))
           /\ Cardinality(MovedBy(n, S)) = Cardinality(S)
<1> DEFINE T == {n + x : x \in S}
           f == [x \in S |-> n + x]
<1>1. f \in Bijection(S, T)
  <2>1. f \in [S -> T] OBVIOUS
  <2>2. \A x, y \in S : f[x] = f[y] => x = y OBVIOUS
  <2>3. \A t \in T : \E x \in S : f[x] = t OBVIOUS
  <2> HIDE DEF f, T
  <2> QED BY <2>1, <2>2, <2>3 DEF Bijection, Injection, IsInjective, Surjection
<1>2. ExistsBijection(S, T) BY <1>1 DEF ExistsBijection
<1> HIDE DEF f
<1> QED BY <1>2, FS_Bijection DEF MovedBy

-----------------------------------------------------------------------------
(* Ranks: how many rows before a row are to be selected.                   *)
Hits(n, w) == {x \in 0 .. w - 1 : Scan!Match(n + x)}

LEMMA RankType ==
    ASSUME NEW n \in Nat
    PROVE  /\ Scan!Rank(n) \in Nat
           /\ Scan!Rank(n) = Cardinality(Scan!Matching(n))
           /\ IsFiniteSet(Scan!Matching(n))
<1>1. Scan!Matching(n) \in SUBSET (0 .. n - 1) BY DEF Scan!Matching
<1>2. 0 \in Int /\ n - 1 \in Int OBVIOUS
<1>3. IsFiniteSet(Scan!Matching(n)) /\ Cardinality(Scan!Matching(n)) \in Nat
  BY <1>1, <1>2, Size
<1> QED BY <1>3, SameCardinality DEF Scan!Rank

LEMMA HitsType ==
    ASSUME NEW n \in Nat, NEW w \in Nat
    PROVE  IsFiniteSet(Hits(n, w)) /\ Cardinality(Hits(n, w)) \in 0 .. w
<1>1. Hits(n, w) \in SUBSET (0 .. w - 1) BY DEF Hits
<1>2. 0 \in Int /\ w - 1 \in Int /\ Cardinality(0 .. w - 1) = w
  <2>1. 0 \in Int /\ w - 1 \in Int /\ (0 > w - 1 => w = 0) /\ w - 1 - 0 + 1 = w OBVIOUS
  <2> QED BY <2>1, FS_Interval
<1>3. IsFiniteSet(Hits(n, w)) /\ Cardinality(Hits(n, w)) \in Nat
      /\ Cardinality(Hits(n, w)) <= w
  BY <1>1, <1>2, Size
<1> QED BY <1>3

LEMMA RankSplits ==
    ASSUME NEW n \in Nat, NEW w \in Nat
    PROVE  Scan!Rank(n + w) = Scan!Rank(n) + Cardinality(Hits(n, w))
<1> DEFINE S == Scan!Matching(n)
           H == Hits(n, w)
           T == MovedBy(n, H)
<1>1. Scan!Matching(n + w) = S \cup T
  <2>1. \A r \in 0 .. n + w - 1 : r \in 0 .. n - 1 \/ (r - n \in 0 .. w - 1 /\ n + (r - n) = r)
    OBVIOUS
  <2>2. \A r \in Scan!Matching(n + w) : r \in S \/ r \in T
    BY <2>1 DEF Scan!Matching, Hits, MovedBy
  <2>3. \A r \in S : r \in Scan!Matching(n + w)
    BY DEF Scan!Matching
  <2>4. \A x \in 0 .. w - 1 : n + x \in 0 .. n + w - 1
    OBVIOUS
  <2>5. \A r \in T : r \in Scan!Matching(n + w)
    BY <2>4 DEF Scan!Matching, Hits, MovedBy
  <2> HIDE DEF T, S
  <2> QED BY <2>2, <2>3, <2>5
<1>2. S \cap T = {}
  BY DEF Scan!Matching, Hits, MovedBy
<1>3. IsFiniteSet(S) /\ Scan!Rank(n) = Cardinality(S)
  BY RankType
<1>7. IsFiniteSet(H) BY HitsType
<1>8. H \in SUBSET Int BY DEF Hits
<1>4. n + w \in Nat OBVIOUS
<1>5. Scan!Rank(n + w) = Cardinality(S \cup T) BY <1>1, <1>4, RankType
<1>6. IsFiniteSet(T) /\ Cardinality(T) = Cardinality(H)
  <2> HIDE DEF H
  <2> QED BY <1>7, <1>8, SizeOfMoved
<1> HIDE DEF S, T
<1> QED BY <1>2, <1>3, <1>5, <1>6, SizeOfDisjoint

LEMMA RankSteps ==
    ASSUME NEW n \in Nat
    PROVE  /\ Scan!Rank(0) = 0
           /\ Scan!Rank(n + 1) = Scan!Rank(n) + (IF Scan!Match(n) THEN 1 ELSE 0)
<1>1. Scan!Rank(0) = 0
  <2>1. Scan!Matching(0) = {} BY DEF Scan!Matching
  <2> QED BY <2>1, FS_EmptySet, RankType
<1>2. Scan!Rank(n + 1) = Scan!Rank(n) + Cardinality(Hits(n, 1))
  BY RankSplits
<1>3. Hits(n, 1) = IF Scan!Match(n) THEN {0} ELSE {}
  <2>1. 0 .. 1 - 1 = {0} /\ n + 0 = n OBVIOUS
  <2> QED BY <2>1 DEF Hits
<1>4. Cardinality({0}) = 1 /\ Cardinality({}) = 0
  BY FS_Singleton, FS_EmptySet
<1> QED BY <1>1, <1>2, <1>3, <1>4

LEMMA RankGrows ==
    ASSUME NEW n \in Nat, NEW r \in Scan!Matching(n)
    PROVE  r \in Nat /\ r < n /\ Scan!Rank(r) \in Nat /\ Scan!Rank(r) < Scan!Rank(n)
<1>1. r \in Nat /\ r < n /\ Scan!Match(r) BY DEF Scan!Matching
<1> DEFINE w == n - (r + 1)
<1>2. r + 1 \in Nat /\ w \in Nat /\ (r + 1) + w = n BY <1>1
<1>3. Scan!Rank(r + 1) = Scan!Rank(r) + 1 BY <1>1, RankSteps
<1> HIDE DEF w
<1>4. Scan!Rank(n) = Scan!Rank(r + 1) + Cardinality(Hits(r + 1, w))
  BY <1>2, RankSplits
<1>5. Cardinality(Hits(r + 1, w)) \in Nat
  <2>1. Cardinality(Hits(r + 1, w)) \in 0 .. w BY <1>2, HitsType
  <2> QED BY <1>2, <2>1
<1>6. Scan!Rank(r) \in Nat BY <1>1, RankType
<1> QED BY <1>1, <1>3, <1>4, <1>5, <1>6

(* What a row of a vector adds, and where the row is in it.                *)
LEMMA MatchingInVector ==
    ASSUME NEW n \in Nat, NEW w \in Nat, NEW r \in Scan!Matching(n + w)
    PROVE  \/ r \in Scan!Matching(n)
           \/ \E l \in Hits(n, w) :
                /\ r = n + l /\ l \in 0 .. w - 1
                /\ Scan!Rank(r) = Scan!Rank(n) + Cardinality(Hits(n, l))
<1>1. CASE r < n
  BY <1>1 DEF Scan!Matching
<1>2. CASE ~ (r < n)
  <2> DEFINE l == r - n
  <2>1. l \in 0 .. w - 1 /\ l \in Nat /\ n + l = r /\ Scan!Match(r)
    BY <1>2 DEF Scan!Matching
  <2> HIDE DEF l
  <2>2. l \in Hits(n, w) BY <2>1 DEF Hits
  <2>3. Scan!Rank(r) = Scan!Rank(n) + Cardinality(Hits(n, l))
    BY <2>1, RankSplits
  <2> QED BY <2>1, <2>2, <2>3
<1> QED BY <1>1, <1>2

LEMMA HitsGrow ==
    ASSUME NEW n \in Nat, NEW w \in Nat, NEW l \in Hits(n, w)
    PROVE  /\ l \in Nat /\ l < w
           /\ Cardinality(Hits(n, l)) \in Nat
           /\ Cardinality(Hits(n, l)) < Cardinality(Hits(n, w))
<1>1. l \in Nat /\ l < w /\ Scan!Match(n + l) BY DEF Hits
<1>2. n + l \in Nat /\ n + w \in Nat /\ n + l \in 0 .. n + w - 1 BY <1>1
<1>3. n + l \in Scan!Matching(n + w) BY <1>1, <1>2 DEF Scan!Matching
<1>4. Scan!Rank(n + l) < Scan!Rank(n + w)
  <2> DEFINE a == n + l
             b == n + w
  <2>1. a \in Scan!Matching(b) /\ b \in Nat BY <1>2, <1>3
  <2> HIDE DEF a, b
  <2>2. Scan!Rank(a) < Scan!Rank(b) BY <2>1, RankGrows
  <2> QED BY <2>2 DEF a, b
<1>5. /\ Scan!Rank(n + l) = Scan!Rank(n) + Cardinality(Hits(n, l))
      /\ Scan!Rank(n + w) = Scan!Rank(n) + Cardinality(Hits(n, w))
  BY <1>1, RankSplits
<1>6. Scan!Rank(n) \in Nat /\ Cardinality(Hits(n, l)) \in Nat /\ Cardinality(Hits(n, w)) \in Nat
  <2>1. Cardinality(Hits(n, l)) \in 0 .. l BY <1>1, HitsType
  <2>2. Cardinality(Hits(n, w)) \in 0 .. w BY HitsType
  <2> QED BY <1>1, <2>1, <2>2, RankType
<1> QED BY <1>1, <1>4, <1>5, <1>6

LEMMA LanesType ==
    ASSUME NEW w \in Nat, NEW lanes \in Scan!MatchingLanes(w)
    PROVE  /\ lanes \in SUBSET (0 .. w - 1)
           /\ Cardinality(lanes) \in Nat
           /\ Scan!Cardinality(lanes) = Cardinality(lanes)
<1>1. lanes \in SUBSET (0 .. w - 1)
  BY DEF Scan!MatchingLanes
<1>2. Cardinality(lanes) \in Nat
  <2>1. 0 \in Int /\ w - 1 \in Int OBVIOUS
  <2> QED BY <1>1, <2>1, Size
<1> QED BY <1>1, <1>2, SameCardinality

LEMMA LanesOfWholeVector ==
    ASSUME NEW w \in Nat, i \in Nat, tableSize \in Nat, i + w <= tableSize,
           NEW lanes \in Scan!MatchingLanes(w)
    PROVE  lanes = Hits(i, w)
<1>1. \A l \in 0 .. w - 1 : i + l < tableSize OBVIOUS
<1>2. {l \in 0 .. w - 1 : i + l < tableSize} = 0 .. w - 1 BY <1>1
<1>3. PICK past \in SUBSET {} : lanes = {l \in 0 .. w - 1 : Scan!Match(i + l)} \cup past
  BY <1>2 DEF Scan!MatchingLanes
<1> QED BY <1>3 DEF Hits

LEMMA CompressedPlaces ==
    ASSUME i \in Nat, W512 \in Nat, NEW l \in Hits(i, W512)
    PROVE  Scan!Compressed(Hits(i, W512))[Cardinality(Hits(i, l))] = i + l
<1> DEFINE lanes == Hits(i, W512)
           p == Cardinality(Hits(i, l))
<1>1. \A x \in lanes : /\ x \in Nat /\ x < W512
                       /\ Cardinality(Hits(i, x)) \in Nat
                       /\ Cardinality(Hits(i, x)) < Cardinality(lanes)
  BY HitsGrow
<1>2. \A x \in lanes : {n \in lanes : n < x} = Hits(i, x)
  <2> TAKE x \in lanes
  <2>1. x \in Nat /\ x < W512 BY <1>1
  <2> QED BY <2>1 DEF Hits
<1>3. Cardinality(lanes) \in 0 .. W512 BY HitsType
<1>4. p \in 0 .. W512 - 1 /\ p < Cardinality(lanes) BY <1>1, <1>3
<1>5. \A x, y \in lanes : x < y => Cardinality(Hits(i, x)) < Cardinality(Hits(i, y))
  <2> TAKE x, y \in lanes
  <2> HAVE x < y
  <2>1. x \in Hits(i, y) /\ y \in Nat BY <1>1 DEF Hits
  <2> QED BY <2>1, HitsGrow
<1>6. \A x \in lanes : Cardinality(Hits(i, x)) = p => x = l
  <2> TAKE x \in lanes
  <2>1. x \in Nat /\ l \in Nat /\ p \in Nat BY <1>1
  <2>2. x < l => Cardinality(Hits(i, x)) < p BY <1>5
  <2>3. l < x => p < Cardinality(Hits(i, x)) BY <1>5
  <2> QED BY <1>1, <2>1, <2>2, <2>3
<1> DEFINE place(x) == Scan!Cardinality({n \in lanes : n < x})
<1>7. \A x \in lanes : place(x) = Cardinality(Hits(i, x))
  BY <1>2, SameCardinality
<1>8. (CHOOSE x \in lanes : place(x) = p) = l
  <2>1. \A x \in lanes : place(x) = p <=> x = l BY <1>6, <1>7
  <2> HIDE DEF place, lanes, p
  <2> QED BY <2>1 DEF lanes
<1>9. Scan!Cardinality(lanes) = Cardinality(lanes) BY SameCardinality
<1>10. Scan!Compressed(lanes)[p] = i + (CHOOSE x \in lanes : place(x) = p)
  <2> HIDE DEF lanes, p
  <2> QED BY <1>4, <1>9 DEF Scan!Compressed
<1> QED BY <1>8, <1>10

-----------------------------------------------------------------------------
(* The scans. Types first.                                                 *)
ScanTypes ==
    /\ tableSize \in Nat /\ min \in Int /\ max \in Int
    /\ i \in Nat /\ j \in Int /\ k \in Int
    /\ resultRows \in Seq(Int)

(* The rows that match so far are in what there is, by rank: in "out"      *)
(* below position j, and in the buffer from there.                         *)
Holding(n, done, buffer) ==
    \A r \in Scan!Matching(n) :
        IF Scan!Rank(r) < j THEN done[Scan!Rank(r)] = r
        ELSE buffer[Scan!Rank(r) - j] = r

(* The loops so far returned what they should, and what the loop that runs *)
(* has so far will be.                                                     *)
Branching ==
    phase = "branch" =>
        /\ i <= tableSize /\ out \in Seq(Nat) /\ Len(out) = Scan!Rank(i)
        /\ Len(resultRows) = 0

Branchlessly ==
    phase = "branchless" =>
        /\ i <= tableSize /\ j = Scan!Rank(i)
        /\ Len(resultRows) = 1

(* Nothing was flushed, or more than a flush matches.                      *)
By256 ==
    phase = "avx256" =>
        /\ Len(resultRows) = 2
        /\ Scan!WholeVectors =>
             /\ i <= tableSize /\ i % W256 = 0
             /\ j >= 0 /\ j + k = Scan!Rank(i)
             /\ j > 0 => Scan!Rank(i) > BufSize - W256

(* The buffer has room for one more vector, the output for whole ones.     *)
By512 ==
    phase = "avx512" =>
        /\ Len(resultRows) = 3
        /\ Scan!WholeVectors =>
             /\ i <= tableSize /\ i % W512 = 0
             /\ j >= 0 /\ j <= OutSize /\ j + k = Scan!Rank(i)
             /\ k >= 0 /\ k <= Scan!Flush512
             /\ DOMAIN rids_buf = 0 .. BufSize - 1
             /\ DOMAIN out = 0 .. OutSize - 1
             /\ Holding(i, out, rids_buf)

ScanInv ==
    /\ ScanTypes
    /\ Scan!CountsAgree
    /\ Branching /\ Branchlessly
    /\ By256 /\ By512
    /\ Scan!OutputComplete

(* One more vector in the buffer.                                          *)
LEMMA BufferFilled ==
    ASSUME ScanInv, phase = "avx512", Scan!WholeVectors, i < tableSize
    PROVE  LET lanes == Hits(i, W512)
               buffer == IF lanes = {} THEN rids_buf
                         ELSE Scan!Stored(rids_buf, k, Scan!Compressed(lanes))
           IN  /\ i + W512 <= tableSize /\ (i + W512) % W512 = 0
               /\ Cardinality(lanes) \in 0 .. W512
               /\ j + k + Cardinality(lanes) = Scan!Rank(i + W512)
               /\ DOMAIN buffer = 0 .. BufSize - 1
               /\ Holding(i + W512, out, buffer)
<1> DEFINE lanes == Hits(i, W512)
           new == Scan!Stored(rids_buf, k, Scan!Compressed(lanes))
           buffer == IF lanes = {} THEN rids_buf ELSE new
<1>1. /\ i \in Nat /\ j \in Nat /\ k \in Nat /\ tableSize \in Nat
      /\ j <= OutSize /\ j + k = Scan!Rank(i) /\ k <= BufSize - W512
      /\ DOMAIN rids_buf = 0 .. BufSize - 1
      /\ Holding(i, out, rids_buf)
  BY DEF ScanInv, ScanTypes, By512, Scan!Flush512
<1>2. W512 \in Nat \ {0} /\ BufSize \in Nat /\ BufSize >= 2 * W512
  BY ScanAssumption
<1>3. i + W512 <= tableSize /\ (i + W512) % W512 = 0
  BY <1>1, <1>2, NextVector DEF ScanInv, By512, Scan!WholeVectors
<1>4. Cardinality(lanes) \in 0 .. W512 BY <1>1, <1>2, HitsType
<1>5. Scan!Rank(i + W512) = Scan!Rank(i) + Cardinality(lanes)
  BY <1>1, <1>2, RankSplits
<1>6. \A b \in 0 .. BufSize - 1 :
        new[b] = IF b \in k .. k + W512 - 1 THEN Scan!Compressed(lanes)[b - k]
                 ELSE rids_buf[b]
  <2> HIDE DEF lanes
  <2> QED BY <1>1 DEF Scan!Stored
<1>7. DOMAIN new = 0 .. BufSize - 1 /\ DOMAIN buffer = 0 .. BufSize - 1
  BY <1>1 DEF Scan!Stored
<1>8. ASSUME NEW r \in Scan!Matching(i + W512)
      PROVE  IF Scan!Rank(r) < j THEN out[Scan!Rank(r)] = r
             ELSE buffer[Scan!Rank(r) - j] = r
  <2>1. CASE r \in Scan!Matching(i)
    <3>1. Scan!Rank(r) \in Nat /\ Scan!Rank(r) < j + k
      BY <1>1, <2>1, RankGrows
    <3>2. IF Scan!Rank(r) < j THEN out[Scan!Rank(r)] = r
          ELSE rids_buf[Scan!Rank(r) - j] = r
      BY <1>1, <2>1 DEF Holding
    <3>3. CASE Scan!Rank(r) < j BY <3>2, <3>3
    <3>4. CASE ~ (Scan!Rank(r) < j)
      <4> DEFINE b == Scan!Rank(r) - j
      <4>1. b \in 0 .. k - 1 /\ b \in 0 .. BufSize - 1 /\ b \notin k .. k + W512 - 1
        BY <1>1, <1>2, <3>1, <3>4
      <4>2. rids_buf[b] = r BY <3>2, <3>4
      <4> HIDE DEF b, new
      <4>3. buffer[b] = r BY <1>6, <4>1, <4>2
      <4> QED BY <3>4, <4>3 DEF b
    <3> QED BY <3>3, <3>4
  <2>2. CASE r \notin Scan!Matching(i)
    <3>1. PICK l \in lanes : /\ r = i + l /\ l \in 0 .. W512 - 1
                             /\ Scan!Rank(r) = Scan!Rank(i) + Cardinality(Hits(i, l))
      BY <1>1, <1>2, <2>2, MatchingInVector
    <3> DEFINE c == Cardinality(Hits(i, l))
    <3>2. c \in Nat /\ c < W512
      <4>1. c \in Nat /\ c < Cardinality(lanes) BY <1>1, <1>2, HitsGrow
      <4> QED BY <1>2, <1>4, <4>1
    <3>3. Scan!Compressed(lanes)[c] = r
      BY <1>1, <1>2, <3>1, CompressedPlaces
    <3>4. Scan!Rank(r) = j + k + c BY <1>1, <3>1
    <3> HIDE DEF c
    <3>5. ~ (Scan!Rank(r) < j) /\ Scan!Rank(r) - j = k + c
      BY <1>1, <3>2, <3>4
    <3>6. k + c \in 0 .. BufSize - 1 /\ k + c \in k .. k + W512 - 1 /\ (k + c) - k = c
      BY <1>1, <1>2, <3>2
    <3> HIDE DEF new
    <3>7. new[k + c] = r BY <1>6, <3>3, <3>6
    <3>8. buffer = new BY <3>1
    <3> QED BY <3>5, <3>7, <3>8
  <2> QED BY <2>1, <2>2
<1>9. Holding(i + W512, out, buffer)
  <2> HIDE DEF buffer
  <2> QED BY <1>8 DEF Holding
<1>10. j + k + Cardinality(lanes) = Scan!Rank(i + W512) BY <1>1, <1>5
<1> QED BY <1>3, <1>4, <1>7, <1>9, <1>10

LEMMA ScanInit == Init => ScanInv
<1> SUFFICES ASSUME Init PROVE ScanInv
  OBVIOUS
<1>1. /\ tableSize \in Nat /\ min \in Int /\ max \in Int /\ phase = "branch"
      /\ i = 0 /\ j = 0 /\ k = 0 /\ out = <<>> /\ resultRows = <<>>
  BY ScanAssumption DEF Init, Scan!Init
<1>2. <<>> \in Seq(Int) /\ <<>> \in Seq(Nat) /\ Len(<<>>) = 0 /\ Scan!Rank(0) = 0
  BY EmptySeq, RankSteps
<1>3. Scan!CountsAgree
  BY <1>1, <1>2 DEF Scan!CountsAgree
<1> QED BY <1>1, <1>2, <1>3 DEF ScanInv, ScanTypes, Branching, Branchlessly, By256, By512,
                                Scan!OutputComplete

(* Nothing that is to be selected changes while the scans run.             *)
LEMMA SameRanks ==
    ASSUME UNCHANGED Scan!inputs
    PROVE  /\ \A n : Scan!Rank(n)' = Scan!Rank(n)
           /\ \A n : Scan!Matching(n)' = Scan!Matching(n)
           /\ Scan!Rank(tableSize)' = Scan!Rank(tableSize)
           /\ Scan!WholeVectors' <=> Scan!WholeVectors
           /\ UNCHANGED <<tableSize, min, max>>
<1>1. UNCHANGED <<tableSize, min, max>> BY DEF Scan!inputs
<1>2. \A n : Scan!Matching(n)' = Scan!Matching(n)
  BY <1>1 DEF Scan!Matching, Scan!Match
<1>3. \A n : Scan!Rank(n)' = Scan!Rank(n)
  BY <1>2 DEF Scan!Rank
<1>4. Scan!Rank(tableSize)' = Scan!Rank(tableSize)
  BY <1>1 DEF Scan!Rank, Scan!Matching, Scan!Match
<1> QED BY <1>1, <1>2, <1>3, <1>4 DEF Scan!WholeVectors

(* A loop that does not end leaves the results alone.                      *)
LEMMA CountsKept ==
    ASSUME Scan!CountsAgree, UNCHANGED Scan!inputs, resultRows' = resultRows
    PROVE  Scan!CountsAgree'
<1>1. /\ Scan!Rank(tableSize)' = Scan!Rank(tableSize)
      /\ Scan!WholeVectors' <=> Scan!WholeVectors
  BY SameRanks
<1> QED BY <1>1 DEF Scan!CountsAgree

LEMMA CountAdded ==
    ASSUME ScanInv, NEW count \in Int, NEW next, NEW buffer,
           Scan!EndLoop(count, next, buffer),
           LET n == Len(resultRows) + 1 IN
             \/ count = Scan!Rank(tableSize)
             \/ n >= 3 /\ ~ Scan!WholeVectors
             \/ n = 3 /\ Scan!Rank(tableSize) > BufSize - W256
    PROVE  /\ ScanTypes' /\ Scan!CountsAgree'
           /\ Len(resultRows') = Len(resultRows) + 1
           /\ phase' = next /\ i' = 0 /\ j' = 0 /\ k' = 0
           /\ rids_buf' = Scan!Fresh /\ out' = buffer
           /\ UNCHANGED Scan!inputs
<1>1. /\ resultRows' = Append(resultRows, count)
      /\ phase' = next /\ i' = 0 /\ j' = 0 /\ k' = 0
      /\ rids_buf' = Scan!Fresh /\ out' = buffer
      /\ UNCHANGED Scan!inputs
  BY DEF Scan!EndLoop
<1> DEFINE len == Len(resultRows)
<1>2. /\ resultRows \in Seq(Int) /\ len \in Nat
      /\ resultRows' \in Seq(Int) /\ Len(resultRows') = len + 1
      /\ resultRows'[len + 1] = count
      /\ \A n \in 1 .. len : resultRows'[n] = resultRows[n]
  BY <1>1, LenProperties, AppendProperties DEF ScanInv, ScanTypes
<1>3. /\ Scan!Rank(tableSize)' = Scan!Rank(tableSize)
      /\ Scan!WholeVectors' <=> Scan!WholeVectors
      /\ UNCHANGED <<tableSize, min, max>>
  BY <1>1, SameRanks
<1>4. ScanTypes'
  BY <1>1, <1>2, <1>3 DEF ScanInv, ScanTypes
<1> HIDE DEF len
<1>5. \A n \in 1 .. len + 1 : n \in 1 .. len \/ n = len + 1 BY <1>2
<1>6. Scan!CountsAgree'
  <2> SUFFICES ASSUME NEW n \in 1 .. Len(resultRows')
               PROVE  \/ resultRows'[n] = Scan!Rank(tableSize)
                      \/ n >= 3 /\ ~ Scan!WholeVectors
                      \/ n = 3 /\ Scan!Rank(tableSize) > BufSize - W256
    BY <1>3 DEF Scan!CountsAgree
  <2>1. CASE n \in 1 .. len
    BY <1>2, <2>1 DEF ScanInv, Scan!CountsAgree, len
  <2>2. CASE n = len + 1
    BY <1>2, <2>2 DEF len
  <2> QED BY <1>2, <1>5, <2>1, <2>2
<1> QED BY <1>1, <1>2, <1>4, <1>6 DEF len

LEMMA BranchStep ==
    ASSUME ScanInv, Scan!Branch \/ Scan!BranchEnd
    PROVE  ScanInv'
<1>1. i \in Nat /\ tableSize \in Nat /\ phase = "branch" /\ i <= tableSize
      /\ out \in Seq(Nat) /\ Len(out) = Scan!Rank(i) /\ Len(resultRows) = 0
  BY DEF ScanInv, ScanTypes, Branching, Scan!Branch, Scan!BranchEnd
<1>2. CASE Scan!Branch
  <2>1. /\ i < tableSize /\ i' = i + 1 /\ phase' = "branch"
        /\ out' = IF Scan!Match(i) THEN Append(out, i) ELSE out
        /\ UNCHANGED Scan!inputs /\ UNCHANGED <<j, k, rids_buf, resultRows>>
    BY <1>1, <1>2 DEF Scan!Branch
  <2>2. UNCHANGED <<tableSize, min, max>> /\ \A n : Scan!Rank(n)' = Scan!Rank(n)
    BY <2>1, SameRanks
  <2>3. out' \in Seq(Nat) /\ Len(out') = Scan!Rank(i + 1)
    <3>1. Append(out, i) \in Seq(Nat) /\ Len(Append(out, i)) = Len(out) + 1
      BY <1>1, AppendProperties
    <3>2. Scan!Rank(i + 1) = Scan!Rank(i) + (IF Scan!Match(i) THEN 1 ELSE 0)
          /\ Scan!Rank(i) \in Nat
      BY <1>1, RankSteps, RankType
    <3> QED BY <1>1, <2>1, <3>1, <3>2
  <2>4. Len(out') = Scan!Rank(i)'
    <3>1. PICK n : n = i + 1 OBVIOUS
    <3>2. Scan!Rank(n)' = Scan!Rank(n) /\ i' = n BY <2>1, <2>2, <3>1
    <3> QED BY <2>3, <3>1, <3>2 DEF Scan!Rank, Scan!Matching, Scan!Match
  <2>5. Scan!CountsAgree' BY <2>1, CountsKept DEF ScanInv
  <2>6. ScanTypes' BY <1>1, <2>1, <2>2 DEF ScanInv, ScanTypes
  <2> QED BY <1>1, <2>1, <2>2, <2>3, <2>4, <2>5, <2>6
       DEF ScanInv, Branching, Branchlessly, By256, By512, Scan!OutputComplete
<1>3. CASE Scan!BranchEnd
  <2>1. i >= tableSize /\ Scan!EndLoop(Len(out), "branchless", <<>>)
    BY <1>3 DEF Scan!BranchEnd
  <2>2. i = tableSize BY <1>1, <2>1
  <2>3. Len(out) = Scan!Rank(tableSize) /\ Len(out) \in Int
    BY <1>1, <2>2, LenProperties
  <2>4. /\ ScanTypes' /\ Scan!CountsAgree'
        /\ Len(resultRows') = Len(resultRows) + 1
        /\ phase' = "branchless" /\ i' = 0 /\ j' = 0
        /\ UNCHANGED Scan!inputs
    BY <2>1, <2>3, CountAdded
  <2>5. UNCHANGED tableSize /\ Scan!Rank(0)' = 0
    BY <2>4, SameRanks, RankSteps
  <2>6. j' = Scan!Rank(i)'
    BY <2>4, <2>5 DEF Scan!Rank, Scan!Matching, Scan!Match
  <2> QED BY <1>1, <2>4, <2>5, <2>6
       DEF ScanInv, Branching, Branchlessly, By256, By512, Scan!OutputComplete
<1> QED BY <1>2, <1>3

LEMMA BranchLessStep ==
    ASSUME ScanInv, Scan!BranchLess \/ Scan!BranchLessEnd
    PROVE  ScanInv'
<1>1. i \in Nat /\ tableSize \in Nat /\ phase = "branchless" /\ i <= tableSize
      /\ j = Scan!Rank(i) /\ Len(resultRows) = 1
  BY DEF ScanInv, ScanTypes, Branchlessly, Scan!BranchLess, Scan!BranchLessEnd
<1>2. CASE Scan!BranchLess
  <2>1. /\ i < tableSize /\ i' = i + 1 /\ phase' = "branchless"
        /\ j' = j + (IF Scan!Match(i) THEN 1 ELSE 0)
        /\ UNCHANGED Scan!inputs /\ UNCHANGED <<k, rids_buf, resultRows>>
    BY <1>1, <1>2 DEF Scan!BranchLess
  <2>2. UNCHANGED <<tableSize, min, max>> /\ \A n : Scan!Rank(n)' = Scan!Rank(n)
    BY <2>1, SameRanks
  <2>3. j' = Scan!Rank(i + 1) /\ j' \in Nat
    BY <1>1, <2>1, RankSteps, RankType
  <2>4. j' = Scan!Rank(i)'
    <3>1. PICK n : n = i + 1 OBVIOUS
    <3>2. Scan!Rank(n)' = Scan!Rank(n) /\ i' = n BY <2>1, <2>2, <3>1
    <3> QED BY <2>3, <3>1, <3>2 DEF Scan!Rank, Scan!Matching, Scan!Match
  <2>5. Scan!CountsAgree' BY <2>1, CountsKept DEF ScanInv
  <2>6. ScanTypes' BY <1>1, <2>1, <2>2, <2>3 DEF ScanInv, ScanTypes
  <2> QED BY <1>1, <2>1, <2>2, <2>4, <2>5, <2>6
       DEF ScanInv, Branching, Branchlessly, By256, By512, Scan!OutputComplete
<1>3. CASE Scan!BranchLessEnd
  <2>1. i >= tableSize /\ Scan!EndLoop(j, "avx256", Scan!Blank)
    BY <1>3 DEF Scan!BranchLessEnd
  <2>2. i = tableSize BY <1>1, <2>1
  <2>3. j = Scan!Rank(tableSize) /\ j \in Int
    BY <1>1, <2>2 DEF ScanInv, ScanTypes
  <2>4. /\ ScanTypes' /\ Scan!CountsAgree'
        /\ Len(resultRows') = Len(resultRows) + 1
        /\ phase' = "avx256" /\ i' = 0 /\ j' = 0 /\ k' = 0
        /\ UNCHANGED Scan!inputs
    BY <2>1, <2>3, CountAdded
  <2>5. UNCHANGED tableSize /\ Scan!Rank(0)' = 0
    BY <2>4, SameRanks, RankSteps
  <2>6. Scan!Rank(i)' = 0
    BY <2>4, <2>5 DEF Scan!Rank, Scan!Matching, Scan!Match
  <2>7. 0 % W256 = 0 BY ScanAssumption
  <2> QED BY <1>1, <2>4, <2>5, <2>6, <2>7
       DEF ScanInv, Branching, Branchlessly, By256, By512, Scan!OutputComplete
<1> QED BY <1>2, <1>3

LEMMA Avx256Step ==
    ASSUME ScanInv, Scan!Avx256
    PROVE  ScanInv'
<1>1. PICK lanes \in Scan!MatchingLanes(W256) :
        LET hits == k + Scan!Cardinality(lanes)
            flush == BufSize - W256
        IN  \/ hits <= flush /\ k' = hits /\ j' = j
            \/ /\ ~ (hits <= flush) /\ j' = j + flush /\ k' = hits - flush
  BY DEF Scan!Avx256
<1>2. /\ phase = "avx256" /\ phase' = "avx256" /\ i < tableSize /\ i' = i + W256
      /\ UNCHANGED Scan!inputs /\ resultRows' = resultRows
  BY DEF Scan!Avx256
<1>3. /\ i \in Nat /\ tableSize \in Nat /\ j \in Int /\ k \in Int
      /\ Len(resultRows) = 2
      /\ Scan!WholeVectors =>
           /\ i % W256 = 0 /\ tableSize % W256 = 0
           /\ j >= 0 /\ j + k = Scan!Rank(i)
           /\ j > 0 => Scan!Rank(i) > BufSize - W256
  BY <1>2 DEF ScanInv, ScanTypes, By256, Scan!WholeVectors
<1>4. W256 \in Nat \ {0} /\ BufSize \in Nat /\ BufSize >= 2 * W256
  BY ScanAssumption
<1> DEFINE c == Cardinality(lanes)
           hits == k + c
           flush == BufSize - W256
<1>5. c \in Nat /\ Scan!Cardinality(lanes) = c
  BY <1>4, LanesType
<1>6. \/ hits <= flush /\ k' = hits /\ j' = j
      \/ ~ (hits <= flush) /\ j' = j + flush /\ k' = hits - flush
  BY <1>1, <1>5
<1> HIDE DEF c
<1>7. j' \in Int /\ k' \in Int /\ j' + k' = j + hits
  BY <1>3, <1>4, <1>5, <1>6
<1>8. /\ UNCHANGED <<tableSize, min, max>> /\ \A n : Scan!Rank(n)' = Scan!Rank(n)
      /\ Scan!WholeVectors' <=> Scan!WholeVectors
  BY <1>2, SameRanks
<1>9. ScanTypes'
  BY <1>2, <1>3, <1>4, <1>7, <1>8 DEF ScanInv, ScanTypes
<1>10. Scan!CountsAgree' BY <1>2, CountsKept DEF ScanInv
<1>11. ASSUME Scan!WholeVectors
       PROVE  /\ i' <= tableSize /\ i' % W256 = 0
              /\ j' >= 0 /\ j' + k' = Scan!Rank(i)'
              /\ j' > 0 => Scan!Rank(i)' > BufSize - W256
  <2>1. i + W256 <= tableSize /\ (i + W256) % W256 = 0
    BY <1>2, <1>3, <1>4, <1>11, NextVector
  <2>2. lanes = Hits(i, W256)
    BY <1>3, <1>4, <2>1, LanesOfWholeVector
  <2>3. Scan!Rank(i + W256) = Scan!Rank(i) + c
    BY <1>3, <1>4, <2>2, RankSplits DEF c
  <2>4. Scan!Rank(i)' = Scan!Rank(i + W256)
    <3>1. PICK n : n = i + W256 OBVIOUS
    <3>2. Scan!Rank(n)' = Scan!Rank(n) /\ i' = n BY <1>2, <1>8, <3>1
    <3> QED BY <3>1, <3>2 DEF Scan!Rank, Scan!Matching, Scan!Match
  <2>5. j >= 0 /\ j + k = Scan!Rank(i) /\ (j > 0 => Scan!Rank(i) > flush)
    BY <1>3, <1>11
  <2> QED BY <1>2, <1>3, <1>4, <1>5, <1>6, <1>7, <2>1, <2>3, <2>4, <2>5
<1>12. By256'
  BY <1>2, <1>3, <1>8, <1>11 DEF By256
<1> QED BY <1>2, <1>9, <1>10, <1>12
     DEF ScanInv, Branching, Branchlessly, By512, Scan!OutputComplete

LEMMA Avx256EndStep ==
    ASSUME ScanInv, Scan!Avx256End
    PROVE  ScanInv'
<1>1. phase = "avx256" /\ i >= tableSize /\ Scan!EndLoop(k, "avx512", Scan!Blank)
  BY DEF Scan!Avx256End
<1>2. /\ i \in Nat /\ tableSize \in Nat /\ j \in Int /\ k \in Int
      /\ Len(resultRows) = 2
      /\ Scan!WholeVectors =>
           /\ i = tableSize
           /\ j >= 0 /\ j + k = Scan!Rank(i)
           /\ j > 0 => Scan!Rank(i) > BufSize - W256
  BY <1>1 DEF ScanInv, ScanTypes, By256
<1>3. /\ ScanTypes' /\ Scan!CountsAgree'
      /\ Len(resultRows') = 3
      /\ phase' = "avx512" /\ i' = 0 /\ j' = 0 /\ k' = 0
      /\ rids_buf' = Scan!Fresh /\ out' = Scan!Blank
      /\ UNCHANGED Scan!inputs
  <2>1. \/ k = Scan!Rank(tableSize)
        \/ ~ Scan!WholeVectors
        \/ Scan!Rank(tableSize) > BufSize - W256
    BY <1>2
  <2> QED BY <1>1, <1>2, <2>1, CountAdded
<1>4. UNCHANGED tableSize /\ Scan!Rank(0)' = 0 /\ Scan!Matching(0)' = {}
  <2>1. Scan!Matching(0)' = {} BY DEF Scan!Matching
  <2> QED BY <1>3, <2>1, SameRanks, RankSteps
<1>5. Scan!Rank(i)' = 0 /\ Scan!Matching(i)' = {}
  BY <1>3, <1>4 DEF Scan!Rank, Scan!Matching, Scan!Match
<1>6. /\ W512 \in Nat \ {0} /\ 0 % W512 = 0 /\ OutSize \in Nat
      /\ BufSize \in Nat /\ BufSize >= 2 * W512
  BY ScanAssumption
<1>7. /\ DOMAIN rids_buf' = 0 .. BufSize - 1
      /\ DOMAIN out' = 0 .. OutSize - 1
  BY <1>3 DEF Scan!Fresh, Scan!Blank
<1>8. Holding(i, out, rids_buf)'
  BY <1>5 DEF Holding
<1>9. By512'
  BY <1>2, <1>3, <1>4, <1>5, <1>6, <1>7, <1>8 DEF By512, Scan!Flush512
<1> QED BY <1>3, <1>9 DEF ScanInv, Branching, Branchlessly, By256, Scan!OutputComplete

(* A flush takes what it counts from the buffer to the output, and the     *)
(* rest to the start of the buffer.                                        *)
LEMMA Flushed ==
    ASSUME NEW n \in Nat, NEW buffer, NEW hits \in Int,
           W512 \in Nat \ {0}, BufSize \in Nat, BufSize >= 2 * W512, OutSize \in Nat,
           j \in Nat, j + (BufSize - W512) <= OutSize,
           hits <= BufSize, j + hits = Scan!Rank(n),
           DOMAIN buffer = 0 .. BufSize - 1, DOMAIN out = 0 .. OutSize - 1,
           Holding(n, out, buffer), NEW r \in Scan!Matching(n)
    PROVE  LET flush == Scan!Flush512
               done == Scan!Fetched(buffer, flush)
               rest == Scan!Moved(buffer)
           IN  IF Scan!Rank(r) < j + flush THEN done[Scan!Rank(r)] = r
               ELSE rest[Scan!Rank(r) - (j + flush)] = r
<1> DEFINE flush == BufSize - W512
           done == Scan!Fetched(buffer, flush)
           rest == Scan!Moved(buffer)
           q == Scan!Rank(r)
<1>1. q \in Nat /\ q < j + hits BY RankGrows
<1>2. IF q < j THEN out[q] = r ELSE buffer[q - j] = r
  BY DEF Holding
<1> HIDE DEF q
<1>3. \A p \in 0 .. OutSize - 1 :
        done[p] = IF p \in j .. j + flush - 1 THEN buffer[p - j] ELSE out[p]
  BY DEF Scan!Fetched
<1>4. \A b \in 0 .. W512 - 1 : rest[b] = buffer[flush + b]
  <2>1. \A b \in 0 .. W512 - 1 : /\ b \in 0 .. BufSize - 1
                                 /\ b \in 0 .. 0 + W512 - 1 /\ b - 0 = b
    OBVIOUS
  <2> QED BY <2>1 DEF Scan!Moved, Scan!Stored
<1> HIDE DEF done, rest
<1>5. CASE q < j + flush
  <2>1. q \in 0 .. OutSize - 1 /\ (q \in j .. j + flush - 1 <=> ~ (q < j))
    BY <1>1, <1>5
  <2>2. done[q] = r BY <1>2, <1>3, <2>1
  <2> QED BY <1>5, <2>2 DEF Scan!Flush512, done, q
<1>6. CASE ~ (q < j + flush)
  <2> DEFINE b == q - (j + flush)
  <2>1. b \in 0 .. W512 - 1 /\ flush + b = q - j /\ ~ (q < j)
    BY <1>1, <1>6
  <2> HIDE DEF b
  <2>2. rest[b] = r BY <1>2, <1>4, <2>1
  <2> QED BY <1>6, <2>2 DEF Scan!Flush512, rest, q, b
<1> QED BY <1>5, <1>6

LEMMA Avx512Step ==
    ASSUME ScanInv, Scan!Avx512
    PROVE  ScanInv'
<1> DEFINE buffer(lanes) == IF lanes = {} THEN rids_buf
                            ELSE Scan!Stored(rids_buf, k, Scan!Compressed(lanes))
           flush == Scan!Flush512
<1>1. PICK lanes \in Scan!MatchingLanes(W512) :
        LET hits == k + Scan!Cardinality(lanes)
        IN  \/ /\ hits <= flush /\ k' = hits /\ rids_buf' = buffer(lanes)
               /\ j' = j /\ out' = out
            \/ /\ ~ (hits <= flush) /\ j + flush <= OutSize
               /\ out' = Scan!Fetched(buffer(lanes), flush)
               /\ rids_buf' = Scan!Moved(buffer(lanes))
               /\ j' = j + flush /\ k' = hits - flush
  BY DEF Scan!Avx512
<1>2. /\ phase = "avx512" /\ phase' = "avx512" /\ i < tableSize /\ i' = i + W512
      /\ UNCHANGED Scan!inputs /\ resultRows' = resultRows
  BY DEF Scan!Avx512
<1>3. /\ i \in Nat /\ tableSize \in Nat /\ j \in Int /\ k \in Int
      /\ Len(resultRows) = 3
  BY <1>2 DEF ScanInv, ScanTypes, By512
<1>4. /\ W512 \in Nat \ {0} /\ BufSize \in Nat /\ BufSize >= 2 * W512 /\ OutSize \in Nat
      /\ flush = BufSize - W512 /\ flush \in Int
  BY ScanAssumption DEF Scan!Flush512
<1> DEFINE c == Cardinality(lanes)
           hits == k + c
           new == buffer(lanes)
<1>5. c \in Nat /\ Scan!Cardinality(lanes) = c
  BY <1>4, LanesType
<1>6. \/ hits <= flush /\ k' = hits /\ rids_buf' = new /\ j' = j /\ out' = out
      \/ /\ ~ (hits <= flush) /\ j + flush <= OutSize
         /\ out' = Scan!Fetched(new, flush)
         /\ rids_buf' = Scan!Moved(new)
         /\ j' = j + flush /\ k' = hits - flush
  BY <1>1, <1>5
<1> HIDE DEF c, new, flush
<1>7. j' \in Int /\ k' \in Int
  BY <1>3, <1>4, <1>5, <1>6
<1>8. /\ UNCHANGED <<tableSize, min, max>> /\ \A n : Scan!Rank(n)' = Scan!Rank(n)
      /\ \A n : Scan!Matching(n)' = Scan!Matching(n)
      /\ Scan!WholeVectors' <=> Scan!WholeVectors
  BY <1>2, SameRanks
<1>9. ScanTypes'
  BY <1>2, <1>3, <1>4, <1>7, <1>8 DEF ScanInv, ScanTypes
<1>10. Scan!CountsAgree' BY <1>2, CountsKept DEF ScanInv
<1>11. ASSUME Scan!WholeVectors
       PROVE  /\ i' <= tableSize /\ i' % W512 = 0
              /\ j' >= 0 /\ j' <= OutSize /\ j' + k' = Scan!Rank(i)'
              /\ k' >= 0 /\ k' <= flush
              /\ DOMAIN rids_buf' = 0 .. BufSize - 1
              /\ DOMAIN out' = 0 .. OutSize - 1
              /\ Holding(i, out, rids_buf)'
  <2>1. PICK n \in Nat : n = i + W512
    BY <1>3, <1>4
  <2>2. /\ j >= 0 /\ j <= OutSize /\ k >= 0 /\ k <= flush
        /\ DOMAIN out = 0 .. OutSize - 1
        /\ tableSize % W512 = 0 /\ i % W512 = 0
    BY <1>2, <1>11 DEF ScanInv, By512, Scan!WholeVectors, flush
  <2>3. i + W512 <= tableSize
    BY <1>2, <1>3, <1>4, <2>2, NextVector
  <2>4. lanes = Hits(i, W512)
    BY <1>3, <1>4, <2>3, LanesOfWholeVector
  <2>5. /\ n <= tableSize /\ n % W512 = 0
        /\ c \in 0 .. W512
        /\ j + hits = Scan!Rank(n)
        /\ DOMAIN new = 0 .. BufSize - 1
        /\ Holding(n, out, new)
    <3>1. /\ n <= tableSize /\ n % W512 = 0
          /\ c \in 0 .. W512
          /\ j + k + c = Scan!Rank(n)
          /\ DOMAIN new = 0 .. BufSize - 1
          /\ Holding(n, out, new)
      BY <1>2, <1>11, <2>1, <2>4, BufferFilled DEF c, new
    <3> QED BY <1>3, <1>5, <3>1
  <2>6. Scan!Rank(n)' = Scan!Rank(n) /\ Scan!Matching(n)' = Scan!Matching(n) /\ i' = n
        /\ \A r : Scan!Rank(r)' = Scan!Rank(r)
    BY <1>2, <1>8, <2>1
  <2>7. Scan!Rank(i)' = Scan!Rank(n) /\ Scan!Matching(i)' = Scan!Matching(n)
    <3>1. Scan!Rank(i)' = Scan!Rank(n)' /\ Scan!Matching(i)' = Scan!Matching(n)'
      BY <2>6 DEF Scan!Rank, Scan!Matching, Scan!Match
    <3> QED BY <2>6, <3>1
  <2>8. \A r \in Scan!Matching(n) :
          IF Scan!Rank(r) < j' THEN out'[Scan!Rank(r)] = r
          ELSE rids_buf'[Scan!Rank(r) - j'] = r
    <3>1. CASE hits <= flush
      BY <1>6, <2>5, <3>1 DEF Holding
    <3>2. CASE ~ (hits <= flush)
      <4>1. TAKE r \in Scan!Matching(n)
      <4>2. /\ j + (BufSize - W512) <= OutSize /\ j \in Nat
            /\ hits \in Int /\ hits <= BufSize
        BY <1>3, <1>4, <1>5, <1>6, <2>2, <2>5, <3>2
      <4>3. IF Scan!Rank(r) < j + Scan!Flush512
            THEN Scan!Fetched(new, Scan!Flush512)[Scan!Rank(r)] = r
            ELSE Scan!Moved(new)[Scan!Rank(r) - (j + Scan!Flush512)] = r
        BY <1>4, <2>2, <2>5, <4>2, Flushed
      <4> QED BY <1>6, <3>2, <4>3 DEF flush
    <3> QED BY <3>1, <3>2
  <2>9. Holding(i, out, rids_buf)'
    <3> SUFFICES ASSUME NEW r \in Scan!Matching(n)
                 PROVE  IF Scan!Rank(r)' < j' THEN out'[Scan!Rank(r)'] = r
                        ELSE rids_buf'[Scan!Rank(r)' - j'] = r
      BY <2>7 DEF Holding
    <3>1. Scan!Rank(r)' = Scan!Rank(r) BY <2>6
    <3> QED BY <2>8, <3>1
  <2>10. /\ j' >= 0 /\ j' <= OutSize /\ j' + k' = Scan!Rank(n)
         /\ k' >= 0 /\ k' <= flush
    BY <1>3, <1>4, <1>5, <1>6, <2>2, <2>5
  <2>11. DOMAIN rids_buf' = 0 .. BufSize - 1 /\ DOMAIN out' = 0 .. OutSize - 1
    BY <1>6, <2>2, <2>5 DEF Scan!Fetched, Scan!Moved, Scan!Stored
  <2> QED BY <1>8, <2>5, <2>6, <2>7, <2>9, <2>10, <2>11
<1>12. By512'
  BY <1>2, <1>3, <1>8, <1>11 DEF By512, flush, Scan!Flush512
<1> QED BY <1>2, <1>9, <1>10, <1>12
     DEF ScanInv, Branching, Branchlessly, By256, Scan!OutputComplete

LEMMA Avx512EndStep ==
    ASSUME ScanInv, Scan!Avx512End
    PROVE  ScanInv'
<1> DEFINE rest == Scan!RoundedUp(k, W512)
           done == Scan!Fetched(rids_buf, rest)
<1>1. /\ phase = "avx512" /\ i >= tableSize /\ j + rest <= OutSize
      /\ Scan!EndLoop(j + k, "done", done)
  BY DEF Scan!Avx512End
<1>2. /\ i \in Nat /\ tableSize \in Nat /\ j \in Int /\ k \in Int
      /\ Len(resultRows) = 3
  BY <1>1 DEF ScanInv, ScanTypes, By512
<1>3. Scan!WholeVectors =>
        /\ i = tableSize /\ j >= 0 /\ k >= 0 /\ j + k = Scan!Rank(i)
        /\ DOMAIN out = 0 .. OutSize - 1
        /\ Holding(i, out, rids_buf)
  BY <1>1, <1>2 DEF ScanInv, By512
<1>4. /\ ScanTypes' /\ Scan!CountsAgree' /\ Len(resultRows') = 4
      /\ phase' = "done" /\ out' = done /\ UNCHANGED Scan!inputs
  <2>1. j + k = Scan!Rank(tableSize) \/ ~ Scan!WholeVectors
    BY <1>2, <1>3
  <2> HIDE DEF done
  <2> QED BY <1>1, <1>2, <2>1, CountAdded
<1>5. /\ tableSize' = tableSize /\ \A n : Scan!Rank(n)' = Scan!Rank(n)
      /\ Scan!WholeVectors' <=> Scan!WholeVectors
      /\ Scan!Matching(tableSize)' = Scan!Matching(tableSize)
  <2>1. UNCHANGED <<tableSize, min, max>> BY <1>4, SameRanks
  <2> QED BY <1>4, <2>1, SameRanks DEF Scan!Matching, Scan!Match
<1>6. ASSUME Scan!WholeVectors, NEW r \in Scan!Matching(tableSize)
      PROVE  done[Scan!Rank(r)] = r
  <2> DEFINE q == Scan!Rank(r)
  <2>1. q \in Nat /\ q < j + k BY <1>2, <1>3, <1>6, RankGrows
  <2>2. IF q < j THEN out[q] = r ELSE rids_buf[q - j] = r
    BY <1>3, <1>6 DEF Holding
  <2>3. rest \in Int /\ rest >= k
    <3> DEFINE u == k + W512 - 1
    <3>1. u \in Nat /\ W512 \in Nat \ {0} /\ k \in Nat
      BY <1>2, <1>3, <1>6, ScanAssumption
    <3>2. rest = (u \div W512) * W512 BY DEF Scan!RoundedUp
    <3>3. u = k + W512 - 1 OBVIOUS
    <3> HIDE DEF u
    <3>4. u = W512 * (u \div W512) + (u % W512) /\ (u % W512) \in 0 .. (W512 - 1)
          /\ u \div W512 \in Nat
      BY <3>1
    <3> DEFINE d == u \div W512
    <3>5. (u \div W512) * W512 = W512 * (u \div W512)
      <4>1. d \in Nat BY <3>4
      <4> HIDE DEF d
      <4>2. d * W512 = W512 * d BY <3>1, <4>1
      <4> QED BY <4>2 DEF d
    <3> DEFINE e == W512 * (u \div W512)
    <3>6. e \in Nat
      <4>1. d \in Nat BY <3>4
      <4> HIDE DEF d
      <4>2. W512 * d \in Nat BY <3>1, <4>1
      <4> QED BY <4>2 DEF d
    <3>7. rest = e /\ u = e + (u % W512) BY <3>2, <3>4, <3>5
    <3> HIDE DEF e, rest
    <3> QED BY <3>1, <3>3, <3>4, <3>6, <3>7
  <2>4. j \in Nat /\ OutSize \in Nat /\ j + rest <= OutSize
    BY <1>1, <1>2, <1>3, <1>6, ScanAssumption
  <2> HIDE DEF q, rest
  <2>5. /\ q \in 0 .. OutSize - 1
        /\ q \in j .. j + rest - 1 <=> ~ (q < j)
    BY <1>2, <2>1, <2>3, <2>4
  <2>6. done[q] = IF q \in j .. j + rest - 1 THEN rids_buf[q - j] ELSE out[q]
    BY <1>3, <1>6, <2>5 DEF Scan!Fetched
  <2> HIDE DEF done
  <2> QED BY <2>2, <2>5, <2>6 DEF q
<1> HIDE DEF done
<1>7. Scan!OutputComplete'
  <2> SUFFICES ASSUME Scan!WholeVectors, NEW r \in Scan!Matching(tableSize)
               PROVE  out'[Scan!Rank(r)'] = r
    BY <1>5 DEF Scan!OutputComplete
  <2> QED BY <1>4, <1>5, <1>6
<1> QED BY <1>4, <1>7 DEF ScanInv, Branching, Branchlessly, By256, By512

LEMMA ScanStep ==
    ASSUME ScanInv, [Next]_vars
    PROVE  ScanInv'
<1>1. CASE UNCHANGED <<tableSize, scan>>
  <2>1. /\ UNCHANGED <<tableSize, min, max>>
        /\ UNCHANGED <<phase, i, j, k, rids_buf, out, resultRows>>
    BY <1>1 DEF scan
  <2>2. UNCHANGED Scan!inputs BY <2>1 DEF Scan!inputs
  <2>3. Scan!CountsAgree' BY <2>1, <2>2, CountsKept DEF ScanInv
  <2>4. /\ \A n : Scan!Rank(n)' = Scan!Rank(n)
        /\ Scan!WholeVectors' <=> Scan!WholeVectors
    BY <2>2, SameRanks
  <2>5. ScanTypes' BY <2>1 DEF ScanInv, ScanTypes
  <2>6. /\ Scan!Rank(i)' = Scan!Rank(i) /\ Scan!Matching(i)' = Scan!Matching(i)
        /\ Scan!Matching(tableSize)' = Scan!Matching(tableSize)
    BY <2>1 DEF Scan!Rank, Scan!Matching, Scan!Match
  <2>7. Branching' BY <2>1, <2>6 DEF ScanInv, Branching
  <2>8. Branchlessly' BY <2>1, <2>6 DEF ScanInv, Branchlessly
  <2>9. By256' BY <2>1, <2>4, <2>6 DEF ScanInv, By256
  <2>10. By512'
    <3>1. Holding(i, out, rids_buf)' <=> Holding(i, out, rids_buf)
      BY <2>1, <2>4, <2>6 DEF Holding
    <3> QED BY <2>1, <2>4, <2>6, <3>1 DEF ScanInv, By512, Scan!Flush512
  <2>11. Scan!OutputComplete'
    BY <2>1, <2>4, <2>6 DEF ScanInv, Scan!OutputComplete
  <2> QED BY <2>3, <2>5, <2>7, <2>8, <2>9, <2>10, <2>11 DEF ScanInv
<1>2. CASE Scan!VectorUndefined
  <2>1. /\ phase' = "undefined" /\ UNCHANGED Scan!inputs
        /\ UNCHANGED <<i, j, k, rids_buf, out, resultRows>>
    BY <1>2 DEF Scan!VectorUndefined
  <2>2. Scan!CountsAgree' BY <2>1, CountsKept DEF ScanInv
  <2>3. UNCHANGED <<tableSize, min, max>> BY <2>1, SameRanks
  <2>4. ScanTypes' BY <2>1, <2>3 DEF ScanInv, ScanTypes
  <2> QED BY <2>1, <2>2, <2>4
       DEF ScanInv, Branching, Branchlessly, By256, By512, Scan!OutputComplete
<1>3. CASE runSelectionScan_Returns
  <2>1. /\ phase' = "returned" /\ min' = 0 /\ max' = 0 /\ resultRows' = <<>>
        /\ UNCHANGED <<tableSize, i, j, k>>
    BY <1>3 DEF runSelectionScan_Returns
  <2>2. <<>> \in Seq(Int) /\ Len(<<>>) = 0 BY EmptySeq
  <2>3. Scan!CountsAgree' BY <2>1, <2>2 DEF Scan!CountsAgree
  <2>4. ScanTypes' BY <2>1, <2>2 DEF ScanInv, ScanTypes
  <2> QED BY <2>1, <2>3, <2>4
       DEF ScanInv, Branching, Branchlessly, By256, By512, Scan!OutputComplete
<1>4. CASE runPartitioning
  <2>1. UNCHANGED scan BY <1>4 DEF runPartitioning
  <2>2. UNCHANGED tableSize
    BY <1>4 DEF runPartitioning, Shuffle!Next, Shuffle!Histogram, Shuffle!Offsets, Shuffle!Load,
                Shuffle!SerializeConflicts, Shuffle!Scatter, Shuffle!Done,
                Shuffle!VectorUndefined, Shuffle!inputs
  <2> QED BY <1>1, <2>1, <2>2
<1>5. CASE runSelectionScan
  <2>1. CASE Scan!Branch \/ Scan!BranchEnd BY <2>1, BranchStep
  <2>2. CASE Scan!BranchLess \/ Scan!BranchLessEnd BY <2>2, BranchLessStep
  <2>3. CASE Scan!Avx256 BY <2>3, Avx256Step
  <2>4. CASE Scan!Avx256End BY <2>4, Avx256EndStep
  <2>5. CASE Scan!Avx512 BY <2>5, Avx512Step
  <2>6. CASE Scan!Avx512End BY <2>6, Avx512EndStep
  <2> QED BY <1>2, <1>5, <2>1, <2>2, <2>3, <2>4, <2>5, <2>6
       DEF runSelectionScan, Scan!Next
<1>6. CASE UNCHANGED vars
  BY <1>1, <1>6 DEF vars
<1> QED BY <1>3, <1>4, <1>5, <1>6 DEF Next

LEMMA ScanInvariant == Spec => []ScanInv
<1> QED BY ScanInit, ScanStep, PTL DEF Spec

(* Across its flushes, the 512-bit loop has every row that matches so far  *)
(* where its rank says, and as many as j and k count: for vectors, buffers *)
(* and tables of any size.                                                 *)
THEOREM VectorLoopSelects == Spec => []VectorSelects
<1>1. ScanInv => VectorSelects
  BY DEF ScanInv, By512, Holding, VectorSelects, Scan!VectorSelects
<1> QED BY <1>1, ScanInvariant, PTL

(* Its output is complete when it returns.                                 *)
THEOREM OutputIsComplete == Spec => []OutputComplete
<1>1. ScanInv => OutputComplete
  BY DEF ScanInv, OutputComplete
<1> QED BY <1>1, ScanInvariant, PTL

(* The four loops return how many rows match, but for a table that is not  *)
(* of whole vectors and for the 256-bit one after a flush.                 *)
THEOREM LoopsAgree == Spec => []CountsAgree
<1>1. ScanInv => CountsAgree
  BY DEF ScanInv, CountsAgree
<1> QED BY <1>1, ScanInvariant, PTL

-----------------------------------------------------------------------------
(* Partitioning: the lanes of a vector that are of one partition leave the *)
(* conflict loop one by one, the first of them first.                      *)
LEMMA LeastNatural ==
    ASSUME NEW T \in SUBSET Nat, T # {}
    PROVE  \E n \in T : \A q \in T : n <= q
<1> DEFINE R == OpToRel(<, Nat)
<1>1. PICK n \in T : \A q \in T : ~ (<<q, n>> \in R)
  <2>1. IsWellFoundedOn(R, Nat) BY NatLessThanWellFounded
  <2> HIDE DEF R
  <2> QED BY <2>1, WFMin
<1>2. \A q \in T : ~ (q < n)
  BY <1>1 DEF OpToRel
<1> QED BY <1>2

LEMMA FirstContender ==
    ASSUME NEW T \in SUBSET Nat, T # {}
    PROVE  Shuffle!Min(T) \in T /\ \A q \in T : Shuffle!Min(T) <= q
BY LeastNatural DEF Shuffle!Min

Before(l) == {n \in 0 .. l - 1 : partIdx[n] = partIdx[l]}

Behind(l) ==
    /\ res[l] = Cardinality(Before(l) \ m)
    /\ l \notin m => Before(l) \cap m = {}

Serializing ==
    stage \in {"serialize", "scatter"} =>
        /\ partIdx \in [Shuffle!Lanes -> Shuffle!Partitions]
        /\ m \in SUBSET Shuffle!Lanes
        /\ stage = "scatter" => m = {}
        /\ \A l \in Shuffle!Lanes : Behind(l)

LEMMA BeforeInLanes ==
    ASSUME NEW l \in Shuffle!Lanes
    PROVE  /\ Before(l) \in SUBSET Shuffle!Lanes
           /\ \A S : IsFiniteSet(Before(l) \ S)
                     /\ Cardinality(Before(l) \ S) \in Nat
<1>1. W \in Nat BY PartitioningAssumption
<1>2. Before(l) \in SUBSET (0 .. l - 1) BY DEF Before
<1>3. \A S : IsFiniteSet(Before(l) \ S) /\ Cardinality(Before(l) \ S) \in Nat
  <2>1. SUFFICES ASSUME NEW S
                 PROVE  IsFiniteSet(Before(l) \ S) /\ Cardinality(Before(l) \ S) \in Nat
    OBVIOUS
  <2>2. Before(l) \ S \in SUBSET (0 .. l - 1) BY <1>2
  <2>3. l - 1 \in Int BY <1>1 DEF Shuffle!Lanes
  <2> DEFINE T == Before(l) \ S
             b == l - 1
  <2>4. T \in SUBSET (0 .. b) /\ b \in Int BY <2>2, <2>3
  <2> HIDE DEF T, b
  <2>5. IsFiniteSet(T) /\ Cardinality(T) \in Nat BY <2>4, Size
  <2> QED BY <2>5 DEF T
<1>4. 0 .. l - 1 \subseteq Shuffle!Lanes BY <1>1 DEF Shuffle!Lanes
<1>5. Before(l) \in SUBSET Shuffle!Lanes BY <1>2, <1>4
<1> QED BY <1>3, <1>5

LEMMA LoadSerializes ==
    ASSUME runPartitioning, Shuffle!Load
    PROVE  Serializing'
<1>1. /\ partIdx' \in [Shuffle!Lanes -> 0 .. Radix - 1]
      /\ \A l \in Shuffle!Lanes : partIdx'[l] \in Shuffle!Partitions
      /\ m' = Shuffle!Lanes
      /\ res' = [l \in Shuffle!Lanes |-> 0]
      /\ stage' = "serialize"
      /\ Shuffle!Partitions' = Shuffle!Partitions
  BY DEF Shuffle!Load, Shuffle!Loaded, Shuffle!inputs, Shuffle!Partitions
<1>2. partIdx' \in [Shuffle!Lanes -> Shuffle!Partitions] BY <1>1
<1>3. \A l \in Shuffle!Lanes : Behind(l)'
  <2>1. SUFFICES ASSUME NEW l \in Shuffle!Lanes PROVE Behind(l)' OBVIOUS
  <2>2. \A n \in 0 .. l - 1 : n \in Shuffle!Lanes
    BY PartitioningAssumption DEF Shuffle!Lanes
  <2>3. Before(l)' \ m' = {} BY <1>1, <2>2 DEF Before
  <2>4. res'[l] = 0 BY <1>1
  <2> QED BY <1>1, <2>3, <2>4, FS_EmptySet DEF Behind
<1> QED BY <1>1, <1>2, <1>3 DEF Serializing

(* One turn of the loop: the first of the lanes of a partition that remain *)
(* leaves it, and goes before every other one.                             *)
LEMMA TurnSerializes ==
    ASSUME runPartitioning, Shuffle!SerializeConflicts, Serializing
    PROVE  Serializing'
<1> DEFINE Winner(p) == Shuffle!Winner(p)
           Contenders(p) == Shuffle!Contenders(p)
<1>1. /\ stage = "serialize"
      /\ m' = {l \in m : partitionBaseOffs'[partIdx[l]] # l}
      /\ res' = [l \in Shuffle!Lanes |-> Shuffle!Lost(l, m')]
      /\ stage' = IF m' = {} THEN "scatter" ELSE "serialize"
      /\ partIdx' = partIdx
      /\ Shuffle!Partitions' = Shuffle!Partitions
      /\ partitionBaseOffs' = [p \in Shuffle!Partitions |->
           IF Contenders(p) = {} THEN partitionBaseOffs[p] ELSE Winner(p)]
  BY DEF Shuffle!SerializeConflicts, Shuffle!inputs, Shuffle!Partitions
<1>2. /\ partIdx \in [Shuffle!Lanes -> Shuffle!Partitions]
      /\ m \in SUBSET Shuffle!Lanes
      /\ \A l \in Shuffle!Lanes : Behind(l)
  BY <1>1 DEF Serializing
<1>3. \A l \in m : /\ l \in Contenders(partIdx[l])
                   /\ Contenders(partIdx[l]) \in SUBSET Nat
  <2>1. Shuffle!Lanes \subseteq Nat BY PartitioningAssumption DEF Shuffle!Lanes
  <2>2. \A p : Contenders(p) \subseteq m /\ \A l \in m : l \in Contenders(partIdx[l])
    BY DEF Shuffle!Contenders
  <2> HIDE DEF Contenders
  <2> QED BY <1>2, <2>1, <2>2
<1>4. \A l \in m : /\ Winner(partIdx[l]) \in Contenders(partIdx[l])
                   /\ \A n \in Contenders(partIdx[l]) : Winner(partIdx[l]) <= n
  BY <1>3, FirstContender DEF Shuffle!Winner
<1>5. m' = {l \in m : Winner(partIdx[l]) # l}
  BY <1>1, <1>2, <1>3
<1>6. \A l \in Shuffle!Lanes : Before(l)' = Before(l)
  BY <1>1 DEF Before
<1>7. \A l \in Shuffle!Lanes : Behind(l)'
  <2>1. SUFFICES ASSUME NEW l \in Shuffle!Lanes PROVE Behind(l)' OBVIOUS
  <2>2. Behind(l) BY <1>2
  <2>3. res'[l] = IF l \in m' THEN res[l] + 1 ELSE res[l]
    BY <1>1 DEF Shuffle!Lost
  <2>4. Before(l) \in SUBSET Shuffle!Lanes BY BeforeInLanes
  <2>5. CASE l \notin m
    <3>1. l \notin m' /\ Before(l) \cap m' = {} /\ Before(l) \ m' = Before(l) \ m
      BY <1>5, <2>2, <2>5 DEF Behind
    <3> QED BY <1>6, <2>2, <2>3, <3>1 DEF Behind
  <2>6. CASE l \in m /\ Winner(partIdx[l]) = l
    <3>1. l \notin m' BY <1>5, <2>6
    <3>2. \A n \in Before(l) : n \notin m
      <4>1. SUFFICES ASSUME NEW n \in Before(l), n \in m PROVE FALSE OBVIOUS
      <4>2. n < l /\ partIdx[n] = partIdx[l] /\ n \in Nat
        BY PartitioningAssumption DEF Before, Shuffle!Lanes
      <4>3. n \in Contenders(partIdx[l])
        BY <4>1, <4>2 DEF Shuffle!Contenders
      <4>4. l <= n BY <1>4, <2>6, <4>3
      <4> QED BY <4>2, <4>4, PartitioningAssumption DEF Shuffle!Lanes
    <3>3. Before(l) \cap m' = {} /\ Before(l) \ m' = Before(l) \ m
      BY <1>5, <3>2
    <3> QED BY <1>6, <2>2, <2>3, <3>1, <3>3 DEF Behind
  <2>7. CASE l \in m /\ Winner(partIdx[l]) # l
    <3>1. l \in m' BY <1>5, <2>7
    <3>2. PICK w \in Contenders(partIdx[l]) : w = Winner(partIdx[l])
      BY <1>4, <2>7
    <3>3. w \in m /\ partIdx[w] = partIdx[l]
      BY <3>2 DEF Shuffle!Contenders
    <3>4. w \in Before(l)
      <4>1. w <= l BY <1>3, <1>4, <2>7, <3>2
      <4>2. w # l BY <2>7, <3>2
      <4> QED BY <1>2, <3>3, <4>1, <4>2, PartitioningAssumption
           DEF Before, Shuffle!Lanes
    <3>5. \A n \in Before(l) : Winner(partIdx[n]) = w
      BY <3>2 DEF Before
    <3>6. Before(l) \ m' = (Before(l) \ m) \cup {w}
      BY <1>5, <3>3, <3>4, <3>5
    <3>7. w \notin Before(l) \ m BY <3>3
    <3>8. Cardinality(Before(l) \ m') = Cardinality(Before(l) \ m) + 1
      BY <3>6, <3>7, BeforeInLanes, FS_AddElement
    <3> QED BY <1>6, <2>2, <2>3, <3>1, <3>8 DEF Behind
  <2> QED BY <2>5, <2>6, <2>7
<1>8. m' \in SUBSET Shuffle!Lanes BY <1>1, <1>2
<1> QED BY <1>1, <1>2, <1>7, <1>8 DEF Serializing

LEMMA ScansKeepTables ==
    ASSUME runSelectionScan
    PROVE  UNCHANGED shuffle /\ UNCHANGED tableSize
<1>1. Scan!Next => UNCHANGED tableSize
  BY DEF Scan!Next, Scan!Branch, Scan!BranchEnd, Scan!BranchLess, Scan!BranchLessEnd,
         Scan!Avx256, Scan!Avx256End, Scan!Avx512, Scan!Avx512End, Scan!EndLoop,
         Scan!VectorUndefined, Scan!inputs
<1> QED BY <1>1 DEF runSelectionScan

LEMMA SerializingStep ==
    ASSUME Serializing, runPartitioning
    PROVE  Serializing'
<1>1. CASE Shuffle!Load BY <1>1, LoadSerializes
<1>2. CASE Shuffle!SerializeConflicts BY <1>2, TurnSerializes
<1>3. CASE \/ Shuffle!Histogram \/ Shuffle!Offsets \/ Shuffle!Scatter
           \/ Shuffle!Done \/ Shuffle!VectorUndefined
  <2>1. stage' \notin {"serialize", "scatter"}
    BY <1>3 DEF Shuffle!Histogram, Shuffle!Offsets, Shuffle!Scatter, Shuffle!Done,
         Shuffle!VectorUndefined
  <2> QED BY <2>1 DEF Serializing
<1> QED BY <1>1, <1>2, <1>3 DEF runPartitioning, Shuffle!Next

-----------------------------------------------------------------------------
(* Partitioning: the sums of the histogram. A sum of the numbers of what   *)
(* has one key is the number of what has any of them.                      *)
Keyed(A, key, s) == {a \in A : key[a] \in s}

Numbers(A, key, g, D) == \A x \in D : g[x] = Cardinality(Keyed(A, key, {x}))

Adds(sum, g, D) ==
    sum = [s \in SUBSET D |->
              IF s = {} THEN 0
              ELSE g[CHOOSE x \in s : TRUE] + sum[s \ {CHOOSE x \in s : TRUE}]]

LEMMA KeyedSplits ==
    ASSUME NEW A, NEW key, NEW s, NEW x \in s, IsFiniteSet(A)
    PROVE  /\ Cardinality(Keyed(A, key, s)) \in Nat
           /\ Cardinality(Keyed(A, key, s))
                = Cardinality(Keyed(A, key, {x})) + Cardinality(Keyed(A, key, s \ {x}))
<1>1. \A t : IsFiniteSet(Keyed(A, key, t))
  <2>1. \A t : Keyed(A, key, t) \in SUBSET A BY DEF Keyed
  <2> HIDE DEF Keyed
  <2> QED BY <2>1, FS_Subset
<1>2. /\ Keyed(A, key, s) = Keyed(A, key, {x}) \cup Keyed(A, key, s \ {x})
      /\ Keyed(A, key, {x}) \cap Keyed(A, key, s \ {x}) = {}
  BY DEF Keyed
<1>3. \A t : Cardinality(Keyed(A, key, t)) \in Nat BY <1>1, FS_CardinalityType
<1> HIDE DEF Keyed
<1> QED BY <1>1, <1>2, <1>3, SizeOfDisjoint

LEMMA SumsExist ==
    ASSUME NEW A, NEW key, NEW g, NEW D, IsFiniteSet(A), Numbers(A, key, g, D)
    PROVE  \E sum : Adds(sum, g, D)
<1> DEFINE sum == [s \in SUBSET D |-> Cardinality(Keyed(A, key, s))]
           next(s) == IF s = {} THEN 0
                      ELSE g[CHOOSE x \in s : TRUE] + sum[s \ {CHOOSE x \in s : TRUE}]
<1>1. ASSUME NEW s \in SUBSET D PROVE sum[s] = next(s)
  <2>1. CASE s = {}
    <3>1. Keyed(A, key, s) = {} BY <2>1 DEF Keyed
    <3> QED BY <2>1, <3>1, FS_EmptySet
  <2>2. CASE s # {}
    <3>1. PICK x \in s : x = CHOOSE y \in s : TRUE BY <2>2
    <3>2. sum[s] = Cardinality(Keyed(A, key, {x})) + Cardinality(Keyed(A, key, s \ {x}))
      BY KeyedSplits
    <3>3. sum[s \ {x}] = Cardinality(Keyed(A, key, s \ {x})) OBVIOUS
    <3>4. g[x] = Cardinality(Keyed(A, key, {x})) BY DEF Numbers
    <3> HIDE DEF sum
    <3> QED BY <2>2, <3>1, <3>2, <3>3, <3>4
  <2> QED BY <2>1, <2>2
<1>2. sum = [s \in SUBSET D |-> next(s)]
  <2>1. sum = [s \in SUBSET D |-> sum[s]] OBVIOUS
  <2> HIDE DEF sum, next
  <2> QED BY <1>1, <2>1
<1>3. Adds(sum, g, D) BY <1>2 DEF Adds
<1> QED BY <1>3

LEMMA SumsCount ==
    ASSUME NEW A, NEW key, NEW g, NEW D, IsFiniteSet(A), IsFiniteSet(D),
           Numbers(A, key, g, D), NEW sum, Adds(sum, g, D)
    PROVE  sum[D] = Cardinality(Keyed(A, key, D))
<1> DEFINE Wrong(s) == sum[s] # Cardinality(Keyed(A, key, s))
           T == {n \in Nat : \E s \in SUBSET D : Wrong(s) /\ n = Cardinality(s)}
<1>1. SUFFICES ASSUME T # {} PROVE FALSE
  <2>1. Cardinality(D) \in Nat BY FS_CardinalityType
  <2> QED BY <2>1
<1>2. PICK n \in T : \A q \in T : n <= q
  <2>1. T \in SUBSET Nat OBVIOUS
  <2> HIDE DEF T
  <2> QED BY <1>1, <2>1, LeastNatural
<1>3. PICK s \in SUBSET D : Wrong(s) /\ n = Cardinality(s) BY <1>2
<1>4. IsFiniteSet(s) BY FS_Subset
<1>5. CASE s = {}
  <2>1. Keyed(A, key, s) = {} BY <1>5 DEF Keyed
  <2>2. sum[s] = 0 BY <1>5 DEF Adds
  <2> QED BY <1>3, <2>1, <2>2, FS_EmptySet
<1>6. CASE s # {}
  <2>1. PICK x \in s : x = CHOOSE y \in s : TRUE BY <1>6
  <2>2. sum[s] = g[x] + sum[s \ {x}] BY <1>6, <2>1 DEF Adds
  <2>3. /\ Cardinality(s \ {x}) = n - 1
        /\ Cardinality(s \ {x}) \in Nat
    BY <1>3, <1>4, FS_RemoveElement, FS_CardinalityType, FS_Subset
  <2>4. ~ Wrong(s \ {x})
    <3>1. SUFFICES ASSUME Wrong(s \ {x}) PROVE FALSE OBVIOUS
    <3>2. s \ {x} \in SUBSET D OBVIOUS
    <3>3. Cardinality(s \ {x}) \in T BY <2>3, <3>1, <3>2
    <3>4. n <= Cardinality(s \ {x}) BY <1>2, <3>3
    <3>5. n \in Nat BY <1>2
    <3> HIDE DEF T, Wrong
    <3> QED BY <2>3, <3>4, <3>5
  <2>5. g[x] = Cardinality(Keyed(A, key, {x})) BY DEF Numbers
  <2> QED BY <1>3, <2>2, <2>4, <2>5, KeyedSplits
<1> QED BY <1>5, <1>6

-----------------------------------------------------------------------------
(* Partitioning: where the rows belong, c being the cycle of the keys and  *)
(* t the size of the table.                                                *)
PartOf(c, r) == (r % c) % Radix

Rows(c, p, n) == {r \in 0 .. n - 1 : PartOf(c, r) = p}
Count(c, p, n) == Cardinality(Rows(c, p, n))

(* The first place of a partition.                                         *)
Start(c, p, t) == Cardinality({r \in 0 .. t - 1 : PartOf(c, r) < p})

Preceding(c, t, r) ==
    {s \in 0 .. t - 1 :
        PartOf(c, s) < PartOf(c, r) \/ (PartOf(c, s) = PartOf(c, r) /\ s < r)}
PlaceOf(c, t, r) == Cardinality(Preceding(c, t, r))

LEMMA PartType ==
    ASSUME NEW c \in Nat \ {0}, NEW r \in Nat
    PROVE  PartOf(c, r) \in 0 .. Radix - 1
<1>1. r % c \in Nat OBVIOUS
<1>2. Radix \in Nat \ {0} BY PartitioningAssumption
<1> DEFINE x == r % c
<1> HIDE DEF x
<1>3. x \in Nat BY <1>1 DEF x
<1>4. x % Radix \in 0 .. Radix - 1 BY <1>2, <1>3
<1> QED BY <1>4 DEF PartOf, x

LEMMA CountType ==
    ASSUME NEW c, NEW p, NEW n \in Nat
    PROVE  IsFiniteSet(Rows(c, p, n)) /\ Count(c, p, n) \in Nat
<1> DEFINE b == n - 1
           S == Rows(c, p, n)
<1>1. S \in SUBSET (0 .. b) /\ b \in Int BY DEF Rows
<1> HIDE DEF b, S
<1>2. IsFiniteSet(S) /\ Cardinality(S) \in Nat BY <1>1, Size
<1> QED BY <1>2 DEF Count, S

(* Which of the l rows from row n on are of partition p.                   *)
Among(c, p, n, l) == {x \in 0 .. l - 1 : PartOf(c, n + x) = p}

LEMMA CountAdds ==
    ASSUME NEW c, NEW p, NEW n \in Nat, NEW l \in Nat
    PROVE  Count(c, p, n + l)
             = Count(c, p, n) + Cardinality(Among(c, p, n, l))
<1> DEFINE L == {x \in 0 .. l - 1 : PartOf(c, n + x) = p}
<1>1. IsFiniteSet(L) /\ L \in SUBSET Int
  <2>1. PICK b \in Int : b = l - 1 OBVIOUS
  <2>2. L \in SUBSET (0 .. b) BY <2>1
  <2> HIDE DEF L
  <2>3. IsFiniteSet(0 .. b) BY <2>1, FS_Interval
  <2>4. IsFiniteSet(L) BY <2>2, <2>3, FS_Subset
  <2> QED BY <2>2, <2>4
<1>2. Rows(c, p, n + l) = Rows(c, p, n) \cup MovedBy(n, L)
  <2>1. ASSUME NEW r \in Rows(c, p, n + l) PROVE r \in Rows(c, p, n) \cup MovedBy(n, L)
    <3>1. r \in 0 .. n + l - 1 /\ PartOf(c, r) = p BY DEF Rows
    <3>2. CASE r < n BY <3>1, <3>2 DEF Rows
    <3>3. CASE r >= n
      <4>1. r - n \in 0 .. l - 1 /\ n + (r - n) = r BY <3>1, <3>3
      <4>2. r - n \in L BY <3>1, <4>1
      <4> QED BY <4>1, <4>2 DEF MovedBy
    <3> QED BY <3>1, <3>2, <3>3
  <2>2. ASSUME NEW r \in Rows(c, p, n) PROVE r \in Rows(c, p, n + l)
    BY <2>2 DEF Rows
  <2>3. ASSUME NEW r \in MovedBy(n, L) PROVE r \in Rows(c, p, n + l)
    <3>1. PICK x \in L : r = n + x BY DEF MovedBy
    <3> QED BY <3>1 DEF Rows
  <2> QED BY <2>1, <2>2, <2>3
<1>3. Rows(c, p, n) \cap MovedBy(n, L) = {}
  <2>1. \A r \in Rows(c, p, n) : r < n BY DEF Rows
  <2>2. \A r \in MovedBy(n, L) : r >= n BY DEF MovedBy
  <2> QED BY <1>1, <2>1, <2>2 DEF Rows
<1>4. IsFiniteSet(MovedBy(n, L)) /\ Cardinality(MovedBy(n, L)) = Cardinality(L)
  <2> HIDE DEF L
  <2> QED BY <1>1, SizeOfMoved
<1> HIDE DEF L
<1>5. Count(c, p, n + l) = Count(c, p, n) + Cardinality(L)
  BY <1>2, <1>3, <1>4, CountType, SizeOfDisjoint DEF Count
<1> QED BY <1>5 DEF L, Among

LEMMA PrecedingType ==
    ASSUME NEW c, NEW t \in Nat, NEW r
    PROVE  IsFiniteSet(Preceding(c, t, r)) /\ PlaceOf(c, t, r) \in Nat
<1> DEFINE b == t - 1
           S == Preceding(c, t, r)
<1>1. S \in SUBSET (0 .. b) /\ b \in Int BY DEF Preceding
<1> HIDE DEF b, S
<1>2. IsFiniteSet(S) /\ Cardinality(S) \in Nat BY <1>1, Size
<1> QED BY <1>2 DEF PlaceOf, S

LEMMA StartType ==
    ASSUME NEW c, NEW p, NEW t \in Nat
    PROVE  IsFiniteSet({r \in 0 .. t - 1 : PartOf(c, r) < p}) /\ Start(c, p, t) \in Nat
<1> DEFINE b == t - 1
           S == {r \in 0 .. t - 1 : PartOf(c, r) < p}
<1>1. S \in SUBSET (0 .. b) /\ b \in Int OBVIOUS
<1> HIDE DEF b, S
<1>2. IsFiniteSet(S) /\ Cardinality(S) \in Nat BY <1>1, Size
<1> QED BY <1>2 DEF Start, S

(* A row comes after the partitions before its own, and after the rows of  *)
(* its own that were before it.                                            *)
LEMMA PlaceSplits ==
    ASSUME NEW c \in Nat \ {0}, NEW t \in Nat, NEW r \in 0 .. t - 1
    PROVE  PlaceOf(c, t, r) = Start(c, PartOf(c, r), t) + Count(c, PartOf(c, r), r)
<1> DEFINE p == PartOf(c, r)
           S == {s \in 0 .. t - 1 : PartOf(c, s) < p}
<1>1. Preceding(c, t, r) = S \cup Rows(c, p, r)
  BY DEF Preceding, Rows
<1>2. S \cap Rows(c, p, r) = {}
  <2>1. p \in Int BY PartType
  <2> HIDE DEF p
  <2> QED BY <2>1 DEF Rows
<1>3. IsFiniteSet(S) BY StartType
<1>4. IsFiniteSet(Rows(c, p, r)) /\ r \in Nat BY CountType
<1>5. Cardinality(S \cup Rows(c, p, r)) = Cardinality(S) + Cardinality(Rows(c, p, r))
  <2> HIDE DEF S, p
  <2> QED BY <1>2, <1>3, <1>4, SizeOfDisjoint
<1> QED BY <1>1, <1>5 DEF PlaceOf, Start, Count

(* No two rows belong in one place, and there are as many places as rows.  *)
LEMMA PlacesRise ==
    ASSUME NEW c \in Nat \ {0}, NEW t \in Nat, NEW r \in 0 .. t - 1, NEW s \in Preceding(c, t, r)
    PROVE  PlaceOf(c, t, s) < PlaceOf(c, t, r)
<1>1. s \in 0 .. t - 1 BY DEF Preceding
<1>2. \A x \in 0 .. t - 1 : PartOf(c, x) \in Int BY PartType
<1>3. s \notin Preceding(c, t, s) BY <1>1, <1>2 DEF Preceding
<1>4. Preceding(c, t, s) \cup {s} \subseteq Preceding(c, t, r)
  <2>1. ASSUME NEW x \in Preceding(c, t, s) PROVE x \in Preceding(c, t, r)
    <3>1. x \in 0 .. t - 1 BY DEF Preceding
    <3> QED BY <1>1, <1>2, <3>1 DEF Preceding
  <2> QED BY <2>1
<1>5. Cardinality(Preceding(c, t, s) \cup {s}) = PlaceOf(c, t, s) + 1
  BY <1>3, PrecedingType, FS_AddElement DEF PlaceOf
<1>6. Cardinality(Preceding(c, t, s) \cup {s}) <= PlaceOf(c, t, r)
  BY <1>4, PrecedingType, FS_Subset DEF PlaceOf
<1> QED BY <1>5, <1>6, PrecedingType

LEMMA PlacesDiffer ==
    ASSUME NEW c \in Nat \ {0}, NEW t \in Nat, NEW r \in 0 .. t - 1, NEW s \in 0 .. t - 1, r # s
    PROVE  PlaceOf(c, t, s) # PlaceOf(c, t, r)
<1>1. PartOf(c, r) \in Int /\ PartOf(c, s) \in Int BY PartType
<1>2. r \in Preceding(c, t, s) \/ s \in Preceding(c, t, r)
  BY <1>1 DEF Preceding
<1> QED BY <1>2, PlacesRise, PrecedingType

LEMMA PlaceType ==
    ASSUME NEW c \in Nat \ {0}, NEW t \in Nat, NEW r \in 0 .. t - 1
    PROVE  PlaceOf(c, t, r) \in 0 .. t - 1
<1>1. PartOf(c, r) \in Int BY PartType
<1>2. r \notin Preceding(c, t, r) BY <1>1 DEF Preceding
<1>3. Preceding(c, t, r) \cup {r} \subseteq 0 .. t - 1 BY DEF Preceding
<1>4. Cardinality(Preceding(c, t, r) \cup {r}) = PlaceOf(c, t, r) + 1
  BY <1>2, PrecedingType, FS_AddElement DEF PlaceOf
<1> DEFINE b == t - 1
<1>5. b \in Int /\ ~ (0 > b) /\ b - 0 + 1 = t OBVIOUS
<1>6. IsFiniteSet(0 .. b) /\ Cardinality(0 .. b) = t
  <2> HIDE DEF b
  <2>1. /\ IsFiniteSet(0 .. b)
        /\ Cardinality(0 .. b) = IF 0 > b THEN 0 ELSE b - 0 + 1
    BY <1>5, FS_Interval
  <2> QED BY <1>5, <2>1
<1>7. Cardinality(Preceding(c, t, r) \cup {r}) <= t
  BY <1>3, <1>6, FS_Subset
<1> QED BY <1>4, <1>7, PrecedingType

LEMMA PlacesFill ==
    ASSUME NEW c \in Nat \ {0}, NEW t \in Nat
    PROVE  {PlaceOf(c, t, r) : r \in 0 .. t - 1} = 0 .. t - 1
<1> DEFINE D == 0 .. t - 1
           f == [r \in D |-> PlaceOf(c, t, r)]
<1>1. f \in [D -> D] BY PlaceType
<1>2. \A r, s \in D : f[r] = f[s] => r = s BY PlacesDiffer
<1>3. IsFiniteSet(D)
  <2> DEFINE b == t - 1
  <2>1. b \in Int OBVIOUS
  <2> HIDE DEF b
  <2>2. IsFiniteSet(0 .. b) BY <2>1, FS_Interval
  <2> QED BY <2>2 DEF b
<1>4. f \in Injection(D, D)
  <2> HIDE DEF f, D
  <2> QED BY <1>1, <1>2 DEF Injection, IsInjective
<1>5. f \in Surjection(D, D)
  <2> HIDE DEF f, D
  <2> QED BY <1>3, <1>4, FS_Injection
<1>6. \A q \in D : \E r \in D : f[r] = q
  <2> HIDE DEF f, D
  <2> QED BY <1>5 DEF Surjection
<1>7. \A q \in D : \E r \in D : PlaceOf(c, t, r) = q BY <1>6
<1>8. \A r \in D : PlaceOf(c, t, r) \in D BY PlaceType
<1> QED BY <1>7, <1>8

-----------------------------------------------------------------------------
(* Partitioning: what the histogram holds, and its sums.                   *)
Cell(c, p, l, n) == {r \in Rows(c, p, n) : r % W = l}

LEMMA SameParts ==
    /\ \A r : Shuffle!Part(r) = PartOf(cycle, r)
    /\ \A p, n : Shuffle!RowsOf(p, n) = Rows(cycle, p, n)
    /\ \A r : Shuffle!Place(r) = PlaceOf(cycle, tableSize, r)
BY SameCardinality
DEF Shuffle!Part, PartOf, Shuffle!RowsOf, Rows, Shuffle!Place, PlaceOf, Preceding

LEMMA CellType ==
    ASSUME NEW c, NEW p, NEW l, NEW n \in Nat
    PROVE  IsFiniteSet(Cell(c, p, l, n)) /\ Cardinality(Cell(c, p, l, n)) \in Nat
<1>1. Cell(c, p, l, n) \in SUBSET Rows(c, p, n) BY DEF Cell
<1> QED BY <1>1, CountType, FS_Subset, FS_CardinalityType

(* One row of every vector is of a lane.                                   *)
LEMMA LaneOfRow ==
    ASSUME NEW n \in Nat, n % W = 0, NEW r \in n .. n + W - 1
    PROVE  r - n \in Shuffle!Lanes /\ r % W = r - n
<1>1. W \in Nat \ {0} BY PartitioningAssumption
<1>2. PICK q \in Nat : n = W * q BY <1>1, Multiple
<1>3. PICK x \in 0 .. W - 1 : x = r - n
  <2>1. r - n \in 0 .. W - 1 BY <1>1
  <2> QED BY <2>1
<1>4. r = W * q + x BY <1>2, <1>3
<1>5. (W * q + x) % W = x BY <1>1, <1>3, Remainders
<1> QED BY <1>3, <1>4, <1>5 DEF Shuffle!Lanes

LEMMA CellAdds ==
    ASSUME NEW c, NEW p, NEW l \in Shuffle!Lanes, NEW n \in Nat, n % W = 0
    PROVE  Cardinality(Cell(c, p, l, n + W))
             = Cardinality(Cell(c, p, l, n)) + (IF PartOf(c, n + l) = p THEN 1 ELSE 0)
<1>1. W \in Nat \ {0} /\ l \in 0 .. W - 1 BY PartitioningAssumption DEF Shuffle!Lanes
<1>2. n + l \in n .. n + W - 1 BY <1>1
<1>3. (n + l) % W = l
  <2>1. (n + l) % W = (n + l) - n BY <1>2, LaneOfRow
  <2> QED BY <1>1, <2>1
<1>4. Cell(c, p, l, n + W)
        = Cell(c, p, l, n) \cup (IF PartOf(c, n + l) = p THEN {n + l} ELSE {})
  <2>1. ASSUME NEW r \in Cell(c, p, l, n + W), r \notin Cell(c, p, l, n)
        PROVE  r = n + l /\ PartOf(c, n + l) = p
    <3>1. r \in 0 .. n + W - 1 /\ PartOf(c, r) = p /\ r % W = l
      <4>1. r \in Rows(c, p, n + W) /\ r % W = l BY DEF Cell
      <4>2. r \in 0 .. n + W - 1 /\ PartOf(c, r) = p BY <1>1, <4>1 DEF Rows
      <4> QED BY <4>1, <4>2
    <3>2. ~ (r < n) BY <2>1, <3>1 DEF Cell, Rows
    <3>3. r \in n .. n + W - 1 BY <1>1, <3>1, <3>2
    <3>4. r % W = r - n BY <3>3, LaneOfRow
    <3>5. r = n + l BY <1>1, <3>1, <3>4
    <3> QED BY <3>1, <3>5
  <2>2. ASSUME NEW r \in Cell(c, p, l, n) PROVE r \in Cell(c, p, l, n + W)
    BY <1>1 DEF Cell, Rows
  <2>3. PartOf(c, n + l) = p => n + l \in Cell(c, p, l, n + W)
    BY <1>1, <1>2, <1>3 DEF Cell, Rows
  <2> HIDE DEF Cell
  <2> QED BY <2>1, <2>2, <2>3
<1>5. n + l \notin Cell(c, p, l, n) BY <1>1 DEF Cell, Rows
<1>6. CASE PartOf(c, n + l) = p
  BY <1>4, <1>5, <1>6, CellType, FS_AddElement
<1>7. CASE PartOf(c, n + l) # p
  <2>1. Cell(c, p, l, n + W) = Cell(c, p, l, n) BY <1>4, <1>7
  <2> QED BY <1>7, <2>1, CellType
<1> QED BY <1>6, <1>7

LEMMA ChosenSum ==
    ASSUME NEW A, NEW key, NEW g, NEW D, IsFiniteSet(A), IsFiniteSet(D),
           Numbers(A, key, g, D)
    PROVE  /\ Adds(CHOOSE sum : Adds(sum, g, D), g, D)
           /\ (CHOOSE sum : Adds(sum, g, D))[D] = Cardinality(Keyed(A, key, D))
<1> DEFINE chosen == CHOOSE sum : Adds(sum, g, D)
<1>1. \E sum : Adds(sum, g, D) BY SumsExist
<1>2. Adds(chosen, g, D) BY <1>1
<1>3. ASSUME NEW sum, Adds(sum, g, D) PROVE sum[D] = Cardinality(Keyed(A, key, D))
  BY <1>3, SumsCount
<1> HIDE DEF chosen
<1>4. chosen[D] = Cardinality(Keyed(A, key, D)) BY <1>2, <1>3
<1> QED BY <1>2, <1>4 DEF chosen

LEMMA HistogramCounts ==
    ASSUME NEW p, tableSize \in Nat,
           \A l \in Shuffle!Lanes :
               histPartial[p][l] = Cardinality(Cell(cycle, p, l, tableSize))
    PROVE  Shuffle!hist(p) = Count(cycle, p, tableSize)
<1> DEFINE D == Shuffle!Lanes
           A == Rows(cycle, p, tableSize)
           key == [r \in A |-> r % W]
           g == histPartial[p]
<1>1. IsFiniteSet(A) BY CountType
<1>2. IsFiniteSet(D)
  <2>1. PICK b \in Int : b = W - 1 BY PartitioningAssumption
  <2>2. IsFiniteSet(0 .. b) BY FS_Interval
  <2> QED BY <2>1, <2>2 DEF Shuffle!Lanes
<1>3. \A l \in D : Keyed(A, key, {l}) = Cell(cycle, p, l, tableSize)
  BY DEF Keyed, Cell
<1>4. Keyed(A, key, D) = A
  <2>1. \A r \in A : r % W \in D
    BY PartitioningAssumption DEF Rows, Shuffle!Lanes
  <2> HIDE DEF D
  <2> QED BY <2>1 DEF Keyed
<1>5. Shuffle!hist(p) = (CHOOSE sum : Adds(sum, g, D))[D]
  BY DEF Shuffle!hist, Shuffle!MapThenSumSet, Shuffle!MapThenFoldSet, Adds
<1>6. Numbers(A, key, g, D) BY <1>3 DEF Numbers
<1> HIDE DEF D, A, g, key
<1>7. (CHOOSE sum : Adds(sum, g, D))[D] = Cardinality(Keyed(A, key, D))
  BY <1>1, <1>2, <1>6, ChosenSum
<1> QED BY <1>4, <1>5, <1>7 DEF Count, A

LEMMA OffsetsCount ==
    ASSUME NEW p \in Nat, tableSize \in Nat, cycle \in Nat \ {0},
           \A q \in 0 .. p - 1 : Shuffle!hist(q) = Count(cycle, q, tableSize)
    PROVE  Shuffle!MapThenSumSet(Shuffle!hist, 0 .. p - 1) = Start(cycle, p, tableSize)
<1> DEFINE D == 0 .. p - 1
           A == 0 .. tableSize - 1
           key == [r \in A |-> PartOf(cycle, r)]
           g == [q \in D |-> Shuffle!hist(q)]
           Sums(sum) == sum = [s \in SUBSET D |->
                                  IF s = {} THEN 0
                                  ELSE Shuffle!hist(CHOOSE x \in s : TRUE)
                                         + sum[s \ {CHOOSE x \in s : TRUE}]]
           chosen == CHOOSE sum : Sums(sum)
<1>1. IsFiniteSet(A) /\ IsFiniteSet(D)
  <2>1. PICK b \in Int : b = tableSize - 1 OBVIOUS
  <2>2. PICK d \in Int : d = p - 1 OBVIOUS
  <2>3. IsFiniteSet(0 .. b) /\ IsFiniteSet(0 .. d) BY FS_Interval
  <2> QED BY <2>1, <2>2, <2>3
<1>2. \A q \in D : Keyed(A, key, {q}) = Rows(cycle, q, tableSize)
  BY DEF Keyed, Rows
<1>3. Numbers(A, key, g, D) BY <1>2 DEF Numbers, Count
<1>4. Keyed(A, key, D) = {r \in 0 .. tableSize - 1 : PartOf(cycle, r) < p}
  <2>1. \A r \in A : PartOf(cycle, r) \in Nat
    <3>1. \A r \in A : r \in Nat BY SMT
    <3>2. \A r \in A : PartOf(cycle, r) \in 0 .. Radix - 1
      <4> HIDE DEF A
      <4> QED BY <3>1, PartType
    <3> HIDE DEF A
    <3> QED BY <3>2, PartitioningAssumption
  <2>2. \A r \in A : PartOf(cycle, r) \in D <=> PartOf(cycle, r) < p
    BY <2>1
  <2> HIDE DEF D
  <2> QED BY <2>2 DEF Keyed
<1>5. \A sum : Sums(sum) <=> Adds(sum, g, D)
  <2>1. \A s \in SUBSET D : s # {} =>
            Shuffle!hist(CHOOSE x \in s : TRUE) = g[CHOOSE x \in s : TRUE]
    <3>1. SUFFICES ASSUME NEW s \in SUBSET D, s # {}
                   PROVE  Shuffle!hist(CHOOSE x \in s : TRUE) = g[CHOOSE x \in s : TRUE]
      OBVIOUS
    <3>2. PICK x \in D : x = CHOOSE y \in s : TRUE BY <3>1
    <3>3. g[x] = Shuffle!hist(x) OBVIOUS
    <3> QED BY <3>2, <3>3
  <2> DEFINE one(s, sum) == IF s = {} THEN 0
                            ELSE Shuffle!hist(CHOOSE x \in s : TRUE)
                                   + sum[s \ {CHOOSE x \in s : TRUE}]
             other(s, sum) == IF s = {} THEN 0
                              ELSE g[CHOOSE x \in s : TRUE]
                                     + sum[s \ {CHOOSE x \in s : TRUE}]
  <2>2. \A sum : \A s \in SUBSET D : one(s, sum) = other(s, sum)
    <3> HIDE DEF D, g
    <3> QED BY <2>1
  <2>3. \A sum : [s \in SUBSET D |-> one(s, sum)] = [s \in SUBSET D |-> other(s, sum)]
    <3> HIDE DEF one, other, D
    <3> QED BY <2>2
  <2>4. \A sum : Sums(sum) <=> sum = [s \in SUBSET D |-> one(s, sum)] OBVIOUS
  <2>5. \A sum : Adds(sum, g, D) <=> sum = [s \in SUBSET D |-> other(s, sum)] BY DEF Adds
  <2> HIDE DEF one, other, D, g, Sums
  <2> QED BY <2>3, <2>4, <2>5
<1>6. Shuffle!MapThenSumSet(Shuffle!hist, 0 .. p - 1) = chosen[D]
  BY DEF Shuffle!MapThenSumSet, Shuffle!MapThenFoldSet
<1>7. Adds(chosen, g, D)
  <2>1. \E sum : Adds(sum, g, D)
    <3> HIDE DEF A, D, g, key
    <3> QED BY <1>1, <1>3, SumsExist
  <2>2. \E sum : Sums(sum)
    <3> HIDE DEF Sums, D, g
    <3> QED BY <1>5, <2>1
  <2>3. Sums(chosen)
    <3> HIDE DEF Sums
    <3> QED BY <2>2
  <2> HIDE DEF Sums, D, g, chosen
  <2> QED BY <1>5, <2>3
<1> HIDE DEF chosen
<1>8. chosen[D] = Cardinality(Keyed(A, key, D))
  <2> HIDE DEF A, D, g, key
  <2> QED BY <1>1, <1>3, <1>7, SumsCount
<1> QED BY <1>4, <1>6, <1>8 DEF Start

-----------------------------------------------------------------------------
(* Partitioning: the invariant. Nothing is said of a table that is not of  *)
(* whole vectors, whose last vector holds keys of no row. f is what the    *)
(* first offset happened to be.                                            *)
ShuffleStages == {"load", "serialize", "scatter", "done"}

ShuffleTypes ==
    /\ tableSize \in Nat
    /\ cycle \in Nat \ {0} /\ partitionNum \in Nat \ {0}
    /\ row \in Nat

AtVector == row % W = 0 /\ row <= tableSize

Counting ==
    stage = "histogram" =>
        /\ AtVector
        /\ output = <<>>
        /\ \A p \in Shuffle!Partitions : \A l \in Shuffle!Lanes :
              histPartial[p][l] = Cardinality(Cell(cycle, p, l, row))

NextPlace(f, c, t, p, n) == (IF p = 0 THEN f ELSE Start(c, p, t)) + Count(c, p, n)

Placed(c, t, n, out0) ==
    /\ DOMAIN out0 = {PlaceOf(c, t, r) : r \in 0 .. n - 1}
    /\ \A r \in 0 .. n - 1 : out0[PlaceOf(c, t, r)] = r

BetweenVectors(f) ==
    stage \in {"load", "done"} =>
        /\ \A p \in Shuffle!Partitions :
              partitionBaseOffs[p] = NextPlace(f, cycle, tableSize, p, row)
        /\ stage = "done" => row = tableSize

InVector(f) ==
    stage \in {"serialize", "scatter"} =>
        /\ row < tableSize
        /\ \A l \in Shuffle!Lanes :
              /\ partIdx[l] = PartOf(cycle, row + l)
              /\ initOff[l] = NextPlace(f, cycle, tableSize, partIdx[l], row)
        /\ \A p \in Shuffle!Partitions :
              (\A l \in Shuffle!Lanes : partIdx[l] # p) =>
                  partitionBaseOffs[p] = NextPlace(f, cycle, tableSize, p, row)

Shuffling(f) ==
    stage \in ShuffleStages =>
        /\ AtVector
        /\ f = 0 => Placed(cycle, tableSize, row, output)
        /\ BetweenVectors(f)
        /\ InVector(f)

ShuffleInv ==
    /\ ShuffleTypes
    /\ Serializing
    /\ Shuffle!WholeVectors => Counting /\ \E f \in Int : Shuffling(f)

LEMMA ShuffleInit == Init => ShuffleInv
<1> SUFFICES ASSUME Init PROVE ShuffleInv
  OBVIOUS
<1>1. /\ tableSize \in Nat /\ cycle \in Nat \ {0} /\ partitionNum \in Nat \ {0}
      /\ row = 0 /\ stage = "histogram" /\ output = <<>>
      /\ histPartial = [p \in Shuffle!Partitions |-> [l \in Shuffle!Lanes |-> 0]]
  BY ScanAssumption, PartitioningAssumption DEF Init, Scan!Init, Shuffle!Init
<1>2. 0 % W = 0 BY PartitioningAssumption
<1>3. \A p, l : Cell(cycle, p, l, 0) = {} BY DEF Cell, Rows
<1>4. \A p, l : Cardinality(Cell(cycle, p, l, 0)) = 0 BY <1>3, FS_EmptySet
<1>5. Counting BY <1>1, <1>2, <1>4 DEF Counting, AtVector
<1>6. Shuffling(0) BY <1>1 DEF Shuffling, ShuffleStages
<1>7. Serializing BY <1>1 DEF Serializing
<1> QED BY <1>1, <1>5, <1>6, <1>7 DEF ShuffleInv, ShuffleTypes

(* A vector of a table of whole vectors is of rows of the table.           *)
LEMMA VectorOfRows ==
    ASSUME ShuffleTypes, AtVector, Shuffle!WholeVectors, row < tableSize
    PROVE  /\ row + W \in Nat /\ row + W <= tableSize /\ (row + W) % W = 0
           /\ \A key \in Shuffle!Loaded :
                 \A l \in Shuffle!Lanes : key[l] = PartOf(cycle, row + l)
<1>1. W \in Nat \ {0} BY PartitioningAssumption
<1>2. row + W <= tableSize /\ (row + W) % W = 0
  BY <1>1, NextVector DEF ShuffleTypes, AtVector, Shuffle!WholeVectors
<1>3. \A l \in Shuffle!Lanes : row + l < tableSize
  BY <1>1, <1>2 DEF ShuffleTypes, Shuffle!Lanes
<1> QED BY <1>1, <1>2, <1>3, SameParts DEF ShuffleTypes, Shuffle!Loaded

LEMMA HistogramStep ==
    ASSUME ShuffleInv, Shuffle!WholeVectors, Shuffle!Histogram
    PROVE  Counting'
<1>1. /\ ShuffleTypes /\ Counting /\ stage = "histogram" /\ row < tableSize /\ AtVector
      /\ output = <<>>
  BY DEF Shuffle!Histogram, ShuffleInv, Counting
<1>2. PICK key \in Shuffle!Loaded : histPartial' = Shuffle!Counted(key)
  BY DEF Shuffle!Histogram
<1>3. /\ row' = row + W /\ stage' = stage /\ output' = output
      /\ cycle' = cycle /\ tableSize' = tableSize /\ partitionNum' = partitionNum
  BY DEF Shuffle!Histogram, Shuffle!inputs
<1>4. PICK n \in Nat : n = row /\ n % W = 0 BY <1>1 DEF ShuffleTypes, AtVector
<1>5. AtVector' BY <1>1, <1>3, VectorOfRows DEF AtVector
<1>6. \A p \in Shuffle!Partitions : \A l \in Shuffle!Lanes :
          histPartial'[p][l] = Cardinality(Cell(cycle, p, l, n + W))
  <2>1. SUFFICES ASSUME NEW p \in Shuffle!Partitions, NEW l \in Shuffle!Lanes
                 PROVE  histPartial'[p][l] = Cardinality(Cell(cycle, p, l, n + W))
    OBVIOUS
  <2>2. histPartial'[p][l] = histPartial[p][l] + (IF key[l] = p THEN 1 ELSE 0)
    BY <1>2 DEF Shuffle!Counted
  <2>3. histPartial[p][l] = Cardinality(Cell(cycle, p, l, n)) BY <1>1, <1>4 DEF Counting
  <2>4. key[l] = PartOf(cycle, n + l) BY <1>1, <1>4, VectorOfRows DEF ShuffleInv
  <2> QED BY <1>4, <2>2, <2>3, <2>4, CellAdds
<1>7. Shuffle!Partitions' = Shuffle!Partitions BY <1>3 DEF Shuffle!Partitions
<1> QED BY <1>1, <1>3, <1>4, <1>5, <1>6, <1>7 DEF Counting

LEMMA OffsetsStep ==
    ASSUME ShuffleInv, Shuffle!WholeVectors, Shuffle!Offsets
    PROVE  \E f \in Int : Shuffling(f)'
<1>1. /\ ShuffleTypes /\ Counting /\ stage = "histogram" /\ row = tableSize /\ AtVector
      /\ output = <<>>
  BY DEF Shuffle!Offsets, ShuffleInv, Counting, ShuffleTypes, AtVector
<1>2. PICK f \in FirstOffsets :
          partitionBaseOffs' = [p \in Shuffle!Partitions |->
              IF p = 0 THEN f
              ELSE Shuffle!MapThenSumSet(Shuffle!hist, 0 .. p - 1)]
  BY DEF Shuffle!Offsets
<1>3. /\ row' = 0 /\ stage' = "load" /\ output' = output
      /\ cycle' = cycle /\ tableSize' = tableSize /\ partitionNum' = partitionNum
  BY DEF Shuffle!Offsets, Shuffle!inputs
<1>4. \A p \in Shuffle!Partitions : Shuffle!hist(p) = Count(cycle, p, tableSize)
  BY <1>1, HistogramCounts DEF Counting, ShuffleTypes
<1>5. \A p : Count(cycle, p, 0) = 0
  <2>1. \A p : Rows(cycle, p, 0) = {} BY DEF Rows
  <2> QED BY <2>1, FS_EmptySet DEF Count
<1>6. ASSUME NEW p \in Shuffle!Partitions
      PROVE  partitionBaseOffs'[p] = NextPlace(f, cycle, tableSize, p, 0)
  <2>1. p \in Nat /\ \A q \in 0 .. p - 1 : q \in Shuffle!Partitions
    BY <1>1 DEF Shuffle!Partitions, ShuffleTypes
  <2>2. Shuffle!MapThenSumSet(Shuffle!hist, 0 .. p - 1) = Start(cycle, p, tableSize)
    BY <1>1, <1>4, <2>1, OffsetsCount DEF ShuffleTypes
  <2>3. Start(cycle, p, tableSize) \in Nat /\ f \in Int
    BY <1>1, StartType, PartitioningAssumption DEF ShuffleTypes
  <2> QED BY <1>2, <1>5, <2>2, <2>3 DEF NextPlace
<1>7. Placed(cycle, tableSize, 0, output)
  <2>1. DOMAIN output = {} BY <1>1
  <2>2. 0 .. 0 - 1 = {} OBVIOUS
  <2> QED BY <2>1, <2>2 DEF Placed
<1>8. AtVector' BY <1>1, <1>3, PartitioningAssumption DEF AtVector, ShuffleTypes
<1>9. Shuffle!Partitions' = Shuffle!Partitions BY <1>3 DEF Shuffle!Partitions
<1>10. BetweenVectors(f)' BY <1>3, <1>6, <1>9 DEF BetweenVectors
<1>11. InVector(f)' BY <1>3 DEF InVector
<1>12. Placed(cycle, tableSize, row, output)' BY <1>3, <1>7
<1>13. Shuffling(f)' BY <1>8, <1>10, <1>11, <1>12 DEF Shuffling
<1> QED BY <1>13, PartitioningAssumption

LEMMA LoadStep ==
    ASSUME ShuffleInv, Shuffle!WholeVectors, Shuffle!Load, NEW f \in Int, Shuffling(f)
    PROVE  Shuffling(f)'
<1>1. /\ stage = "load" /\ row < tableSize
      /\ partIdx' \in Shuffle!Loaded
      /\ \A l \in Shuffle!Lanes : partIdx'[l] \in Shuffle!Partitions
      /\ initOff' = [l \in Shuffle!Lanes |-> partitionBaseOffs[partIdx'[l]]]
      /\ stage' = "serialize" /\ row' = row /\ output' = output
      /\ partitionBaseOffs' = partitionBaseOffs
      /\ cycle' = cycle /\ tableSize' = tableSize /\ partitionNum' = partitionNum
  BY DEF Shuffle!Load, Shuffle!inputs
<1>2. /\ ShuffleTypes /\ AtVector
      /\ f = 0 => Placed(cycle, tableSize, row, output)
      /\ \A p \in Shuffle!Partitions :
            partitionBaseOffs[p] = NextPlace(f, cycle, tableSize, p, row)
  BY <1>1 DEF ShuffleInv, Shuffling, ShuffleStages, BetweenVectors
<1>3. \A l \in Shuffle!Lanes : partIdx'[l] = PartOf(cycle, row + l)
  BY <1>1, <1>2, VectorOfRows
<1>4. \A l \in Shuffle!Lanes :
          initOff'[l] = NextPlace(f, cycle, tableSize, partIdx'[l], row)
  BY <1>1, <1>2
<1>5. Shuffle!Partitions' = Shuffle!Partitions BY <1>1 DEF Shuffle!Partitions
<1>6. InVector(f)' BY <1>1, <1>2, <1>3, <1>4, <1>5 DEF InVector
<1>7. BetweenVectors(f)' BY <1>1 DEF BetweenVectors
<1>8. AtVector' BY <1>1, <1>2 DEF AtVector
<1>9. f = 0 => Placed(cycle, tableSize, row, output)' BY <1>1, <1>2
<1> QED BY <1>6, <1>7, <1>8, <1>9 DEF Shuffling

LEMMA ConflictStep ==
    ASSUME ShuffleInv, Shuffle!WholeVectors, Shuffle!SerializeConflicts,
           NEW f \in Int, Shuffling(f)
    PROVE  Shuffling(f)'
<1>1. /\ stage = "serialize" /\ stage' \in {"serialize", "scatter"}
      /\ partitionBaseOffs' = [p \in Shuffle!Partitions |->
             IF Shuffle!Contenders(p) = {} THEN partitionBaseOffs[p] ELSE Shuffle!Winner(p)]
      /\ partIdx' = partIdx /\ initOff' = initOff /\ row' = row /\ output' = output
      /\ cycle' = cycle /\ tableSize' = tableSize /\ partitionNum' = partitionNum
  BY DEF Shuffle!SerializeConflicts, Shuffle!inputs
<1>2. /\ AtVector /\ InVector(f)
      /\ f = 0 => Placed(cycle, tableSize, row, output)
  BY <1>1 DEF Shuffling, ShuffleStages
<1>3. m \in SUBSET Shuffle!Lanes BY <1>1 DEF ShuffleInv, Serializing
<1>4. Shuffle!Partitions' = Shuffle!Partitions BY <1>1 DEF Shuffle!Partitions
<1>5. \A p \in Shuffle!Partitions : (\A l \in Shuffle!Lanes : partIdx[l] # p) =>
          partitionBaseOffs'[p] = partitionBaseOffs[p]
  <2>1. SUFFICES ASSUME NEW p \in Shuffle!Partitions, \A l \in Shuffle!Lanes : partIdx[l] # p
                 PROVE  partitionBaseOffs'[p] = partitionBaseOffs[p]
    OBVIOUS
  <2>2. Shuffle!Contenders(p) = {} BY <1>3, <2>1 DEF Shuffle!Contenders
  <2> QED BY <1>1, <2>2
<1>6. InVector(f)' BY <1>1, <1>2, <1>4, <1>5 DEF InVector
<1>7. BetweenVectors(f)' BY <1>1 DEF BetweenVectors
<1>8. AtVector' BY <1>1, <1>2 DEF AtVector
<1>9. f = 0 => Placed(cycle, tableSize, row, output)' BY <1>1, <1>2
<1> QED BY <1>6, <1>7, <1>8, <1>9 DEF Shuffling

(* The conflicts a lane lost are the rows of its partition before it in    *)
(* the vector: it goes where its row belongs.                              *)
LEMMA OffsetOfLane ==
    ASSUME ShuffleInv, Shuffle!WholeVectors, stage = "scatter", NEW f \in Int, Shuffling(f),
           NEW l \in Shuffle!Lanes
    PROVE  /\ row + l \in 0 .. tableSize - 1
           /\ partIdx[l] = PartOf(cycle, row + l)
           /\ Shuffle!off_out(l) = NextPlace(f, cycle, tableSize, partIdx[l], row + l)
           /\ f = 0 => Shuffle!off_out(l) = PlaceOf(cycle, tableSize, row + l)
<1>1. /\ ShuffleTypes /\ AtVector /\ row < tableSize
      /\ \A n \in Shuffle!Lanes : partIdx[n] = PartOf(cycle, row + n)
      /\ initOff[l] = NextPlace(f, cycle, tableSize, partIdx[l], row)
  BY DEF ShuffleInv, Shuffling, ShuffleStages, InVector
<1>2. m = {} /\ res[l] = Cardinality(Before(l) \ m)
  BY DEF ShuffleInv, Serializing, Behind
<1>3. W \in Nat \ {0} /\ l \in 0 .. W - 1 BY PartitioningAssumption DEF Shuffle!Lanes
<1>4. PICK r \in 0 .. tableSize - 1 : r = row + l
  <2>1. row + W <= tableSize BY <1>1, VectorOfRows
  <2>2. row + l \in 0 .. tableSize - 1 BY <1>1, <1>3, <2>1 DEF ShuffleTypes
  <2> QED BY <2>2
<1>5. PICK p : p = partIdx[l] OBVIOUS
<1>6. p = PartOf(cycle, r) /\ p \in 0 .. Radix - 1
  BY <1>1, <1>4, <1>5, PartType DEF ShuffleTypes
<1>7. Before(l) = {x \in 0 .. l - 1 : PartOf(cycle, row + x) = p}
  <2>1. \A x \in 0 .. l - 1 : x \in Shuffle!Lanes BY <1>3 DEF Shuffle!Lanes
  <2> QED BY <1>1, <1>5, <2>1 DEF Before
<1>8. res[l] = Cardinality({x \in 0 .. l - 1 : PartOf(cycle, row + x) = p})
  <2>1. Before(l) \ m = Before(l) BY <1>2
  <2> QED BY <1>2, <1>7, <2>1
<1>9. Count(cycle, p, r) = Count(cycle, p, row) + res[l]
  <2>1. row \in Nat /\ l \in Nat BY <1>1, <1>3 DEF ShuffleTypes
  <2>2. Count(cycle, p, row + l)
          = Count(cycle, p, row) + Cardinality(Among(cycle, p, row, l))
    BY <2>1, CountAdds
  <2> QED BY <1>4, <1>8, <2>2 DEF Among
<1>10. Count(cycle, p, row) \in Nat /\ Count(cycle, p, r) \in Nat
  BY <1>1, CountType DEF ShuffleTypes
<1>11. Start(cycle, p, tableSize) \in Nat BY <1>1, StartType DEF ShuffleTypes
<1>12. res[l] \in Nat
  <2>1. Cardinality(Before(l) \ m) \in Nat BY BeforeInLanes
  <2> QED BY <1>2, <2>1
<1>13. Shuffle!off_out(l) = NextPlace(f, cycle, tableSize, p, r)
  BY <1>1, <1>5, <1>9, <1>10, <1>11, <1>12 DEF Shuffle!off_out, NextPlace
<1>14. ASSUME f = 0 PROVE Shuffle!off_out(l) = PlaceOf(cycle, tableSize, r)
  <2>1. PlaceOf(cycle, tableSize, r) = Start(cycle, p, tableSize) + Count(cycle, p, r)
    BY <1>1, <1>6, PlaceSplits DEF ShuffleTypes
  <2>2. p = 0 => Start(cycle, p, tableSize) = 0
    <3>1. \A s \in 0 .. tableSize - 1 : PartOf(cycle, s) \in 0 .. Radix - 1
      BY <1>1, PartType DEF ShuffleTypes
    <3>2. {s \in 0 .. tableSize - 1 : PartOf(cycle, s) < 0} = {} BY <3>1
    <3> QED BY <3>2, FS_EmptySet DEF Start
  <2> QED BY <1>13, <1>14, <2>1, <2>2 DEF NextPlace
<1> QED BY <1>1, <1>4, <1>5, <1>13, <1>14

LEMMA LastOf ==
    ASSUME NEW n \in Nat, NEW T \in SUBSET (0 .. n), T # {}
    PROVE  Shuffle!Max(T) \in T /\ \A q \in T : Shuffle!Max(T) >= q
<1> DEFINE U == {n - q : q \in T}
<1>1. U \in SUBSET Nat
  <2>1. \A q \in T : n - q \in Nat OBVIOUS
  <2> QED BY <2>1
<1>2. PICK u \in U : \A q \in U : u <= q
  <2>1. U # {} OBVIOUS
  <2> HIDE DEF U
  <2> QED BY <1>1, <2>1, LeastNatural
<1>3. PICK t \in T : u = n - t BY <1>2
<1>4. \A q \in T : t >= q
  <2>1. \A q \in T : n - q \in U OBVIOUS
  <2>2. \A q \in T : u <= n - q
    <3> HIDE DEF U
    <3> QED BY <1>2, <2>1
  <2>3. t \in 0 .. n /\ \A q \in T : q \in 0 .. n OBVIOUS
  <2> HIDE DEF U
  <2> QED BY <1>3, <2>2, <2>3
<1> QED BY <1>3, <1>4 DEF Shuffle!Max

LEMMA ScatterAdvances ==
    ASSUME ShuffleInv, Shuffle!WholeVectors, Shuffle!Scatter, NEW f \in Int, Shuffling(f),
           NEW p \in Shuffle!Partitions
    PROVE  partitionBaseOffs'[p] = NextPlace(f, cycle, tableSize, p, row + W)
<1>1. /\ stage = "scatter"
      /\ partitionBaseOffs' = [q \in Shuffle!Partitions |->
           IF \E l \in Shuffle!Lanes : partIdx[l] = q THEN Shuffle!Advanced(q)
                                                     ELSE partitionBaseOffs[q]]
  BY DEF Shuffle!Scatter
<1>2. /\ ShuffleTypes /\ row \in Nat
      /\ \A l \in Shuffle!Lanes : partIdx[l] = PartOf(cycle, row + l)
      /\ (\A l \in Shuffle!Lanes : partIdx[l] # p) =>
             partitionBaseOffs[p] = NextPlace(f, cycle, tableSize, p, row)
  BY <1>1 DEF ShuffleInv, ShuffleTypes, Shuffling, ShuffleStages, InVector
<1>3. W \in Nat \ {0} /\ Shuffle!Lanes = 0 .. W - 1
  BY PartitioningAssumption DEF Shuffle!Lanes
<1>4. /\ Start(cycle, p, tableSize) \in Nat /\ Count(cycle, p, row) \in Nat
  BY <1>2, StartType, CountType DEF ShuffleTypes
<1>5. CASE \A l \in Shuffle!Lanes : partIdx[l] # p
  <2>1. Count(cycle, p, row + W)
          = Count(cycle, p, row) + Cardinality(Among(cycle, p, row, W))
    <3>1. row \in Nat /\ W \in Nat BY <1>2, <1>3
    <3> QED BY <3>1, CountAdds
  <2>2. Among(cycle, p, row, W) = {} BY <1>2, <1>3, <1>5 DEF Among
  <2>3. Count(cycle, p, row + W) = Count(cycle, p, row)
    BY <1>4, <2>1, <2>2, FS_EmptySet
  <2> QED BY <1>1, <1>2, <1>5, <2>3 DEF NextPlace
<1>6. CASE \E l \in Shuffle!Lanes : partIdx[l] = p
  <2> DEFINE T == {l \in Shuffle!Lanes : partIdx[l] = p}
  <2>1. PICK n \in Nat : n = W - 1 BY <1>3
  <2>2. T \in SUBSET (0 .. n) /\ T # {} BY <1>3, <1>6, <2>1
  <2>3. PICK last \in T : last = Shuffle!Max(T) /\ \A q \in T : last >= q
    <3> HIDE DEF T
    <3> QED BY <2>2, LastOf
  <2>4. /\ last \in Shuffle!Lanes /\ partIdx[last] = p
        /\ last = Shuffle!LastLane(p)
    BY <2>3 DEF Shuffle!LastLane
  <2>5. partitionBaseOffs'[p] = Shuffle!off_out(last) + 1
    BY <1>1, <1>6, <2>4 DEF Shuffle!Advanced
  <2>6. Shuffle!off_out(last) = NextPlace(f, cycle, tableSize, p, row + last)
    BY <1>1, <2>4, OffsetOfLane
  <2>7. PICK a \in Nat : a = row + last BY <1>2, <1>3, <2>4
  <2>8. PICK d \in Nat : d = W - last /\ d > 0 /\ a + d = row + W
    <3>1. last \in 0 .. W - 1 BY <1>3, <2>4
    <3>2. row \in Nat /\ W \in Nat BY <1>2, <1>3
    <3>3. W - last \in Nat /\ W - last > 0 /\ (row + last) + (W - last) = row + W
      BY <3>1, <3>2
    <3> QED BY <2>7, <3>3
  <2>9. Count(cycle, p, a + d)
          = Count(cycle, p, a) + Cardinality(Among(cycle, p, a, d))
    BY CountAdds
  <2>10. Among(cycle, p, a, d) = {0}
    <3>1. PartOf(cycle, a + 0) = p BY <1>2, <2>4, <2>7
    <3>2. ASSUME NEW x \in 0 .. d - 1, PartOf(cycle, a + x) = p PROVE x = 0
      <4>1. PICK l \in Shuffle!Lanes : l = last + x /\ a + x = row + l
        <5>1. last \in 0 .. W - 1 /\ row \in Nat /\ W \in Nat BY <1>2, <1>3, <2>4
        <5>2. x \in 0 .. d - 1 /\ d = W - last BY <2>8
        <5>3. last + x \in 0 .. W - 1 /\ a + x = row + (last + x)
          BY <2>7, <5>1, <5>2
        <5>4. last + x \in Shuffle!Lanes /\ a + x = row + (last + x)
          BY <1>3, <5>3
        <5> QED BY <5>4
      <4>2. l \in T BY <1>2, <3>2, <4>1
      <4> HIDE DEF T
      <4>3. last >= l BY <2>3, <4>2
      <4> QED BY <1>3, <2>4, <4>1, <4>3
    <3> QED BY <2>8, <3>1, <3>2 DEF Among
  <2>11. Count(cycle, p, row + W) = Count(cycle, p, a) + 1
    BY <2>8, <2>9, <2>10, FS_Singleton
  <2>12. Count(cycle, p, a) \in Nat BY CountType
  <2> QED BY <1>4, <2>5, <2>6, <2>7, <2>11, <2>12 DEF NextPlace
<1> QED BY <1>5, <1>6

LEMMA ScatterPlaces ==
    ASSUME ShuffleInv, Shuffle!WholeVectors, Shuffle!Scatter, Shuffling(0)
    PROVE  Placed(cycle, tableSize, row + W, output')
<1> DEFINE Lanes == Shuffle!Lanes
           places == {Shuffle!off_out(l) : l \in Lanes}
           P(r) == PlaceOf(cycle, tableSize, r)
<1>1. /\ stage = "scatter"
      /\ output' = [q \in DOMAIN output \cup places |->
             IF q \in places THEN row + Shuffle!Max({l \in Lanes : Shuffle!off_out(l) = q})
                             ELSE output[q]]
  BY DEF Shuffle!Scatter
<1>2. ShuffleTypes /\ AtVector /\ row < tableSize /\ Placed(cycle, tableSize, row, output)
  BY <1>1 DEF ShuffleInv, Shuffling, ShuffleStages, InVector
<1>3. W \in Nat \ {0} /\ Lanes = 0 .. W - 1 /\ row \in Nat /\ tableSize \in Nat
      /\ cycle \in Nat \ {0} /\ row + W <= tableSize
  BY <1>2, VectorOfRows, PartitioningAssumption DEF Shuffle!Lanes, ShuffleTypes
<1>4. \A l \in Lanes : Shuffle!off_out(l) = P(row + l)
  BY <1>1, OffsetOfLane
<1>5. \A r, s \in 0 .. tableSize - 1 : r # s => P(r) # P(s)
  BY <1>3, PlacesDiffer
<1>6. \A r \in 0 .. (row + W) - 1 :
          r \in 0 .. tableSize - 1 /\ (r < row \/ \E l \in Lanes : r = row + l)
  <2>1. SUFFICES ASSUME NEW r \in 0 .. (row + W) - 1
                 PROVE  r \in 0 .. tableSize - 1 /\ (r < row \/ \E l \in Lanes : r = row + l)
    OBVIOUS
  <2>2. r \in 0 .. tableSize - 1 BY <1>3
  <2>3. ASSUME ~ (r < row) PROVE r - row \in Lanes /\ r = row + (r - row)
    BY <1>3, <2>3
  <2> QED BY <2>2, <2>3
<1>7. \A l \in Lanes : row + l \in 0 .. (row + W) - 1
  BY <1>3
<1>8. DOMAIN output' = {P(r) : r \in 0 .. (row + W) - 1}
  <2>1. DOMAIN output' = {P(r) : r \in 0 .. row - 1} \cup places
    BY <1>1, <1>2 DEF Placed
  <2>2. \A r \in 0 .. row - 1 : r \in 0 .. (row + W) - 1 BY <1>3
  <2>3. \A r \in 0 .. (row + W) - 1 : r < row => r \in 0 .. row - 1 BY <1>3
  <2> HIDE DEF P
  <2>4. ASSUME NEW q \in DOMAIN output' PROVE q \in {P(r) : r \in 0 .. (row + W) - 1}
    BY <1>4, <1>7, <2>1, <2>2, <2>4
  <2>5. ASSUME NEW r \in 0 .. (row + W) - 1 PROVE P(r) \in DOMAIN output'
    BY <1>4, <1>6, <2>1, <2>3
  <2> QED BY <2>4, <2>5
<1>9. ASSUME NEW r \in 0 .. (row + W) - 1 PROVE output'[P(r)] = r
  <2>1. P(r) \in DOMAIN output \cup places BY <1>1, <1>8
  <2>2. CASE r < row
    <3>1. P(r) \notin places
      <4>1. SUFFICES ASSUME NEW l \in Lanes, P(r) = Shuffle!off_out(l) PROVE FALSE
        OBVIOUS
      <4>2. P(r) = P(row + l) BY <1>4, <4>1
      <4>3. row + l \in 0 .. tableSize - 1 /\ r \in 0 .. tableSize - 1 /\ r # row + l
        BY <1>3, <1>6, <1>7, <2>2
      <4> HIDE DEF P
      <4> QED BY <1>5, <4>2, <4>3
    <3>2. r \in 0 .. row - 1 BY <1>3, <2>2
    <3>3. output[P(r)] = r BY <1>2, <3>2 DEF Placed
    <3> HIDE DEF P, places
    <3> QED BY <1>1, <2>1, <3>1, <3>3
  <2>3. CASE \E l \in Lanes : r = row + l
    <3>1. PICK l \in Lanes : r = row + l BY <2>3
    <3>2. P(r) = Shuffle!off_out(l) BY <1>4, <3>1
    <3>3. P(r) \in places BY <3>2
    <3>4. {x \in Lanes : Shuffle!off_out(x) = P(r)} = {l}
      <4>1. ASSUME NEW x \in Lanes, Shuffle!off_out(x) = P(r) PROVE x = l
        <5>1. P(row + x) = P(row + l) BY <1>4, <3>1, <4>1
        <5>2. row + x \in 0 .. tableSize - 1 /\ row + l \in 0 .. tableSize - 1
          BY <1>6, <1>7
        <5>3. row + x = row + l
          <6> HIDE DEF P
          <6> QED BY <1>5, <5>1, <5>2
        <5> QED BY <1>3, <5>3
      <4> HIDE DEF P
      <4> QED BY <3>2, <4>1
    <3>5. Shuffle!Max({l}) = l
      <4>1. {l} \in SUBSET (0 .. l) /\ {l} # {} /\ l \in Nat BY <1>3
      <4>2. Shuffle!Max({l}) \in {l} BY <4>1, LastOf
      <4> QED BY <4>2
    <3> HIDE DEF P, places
    <3> QED BY <1>1, <2>1, <3>1, <3>3, <3>4, <3>5
  <2> QED BY <1>6, <2>2, <2>3
<1>10. \A r \in 0 .. (row + W) - 1 : output'[P(r)] = r BY <1>9
<1> QED BY <1>8, <1>10 DEF Placed

LEMMA ScatterStep ==
    ASSUME ShuffleInv, Shuffle!WholeVectors, Shuffle!Scatter, NEW f \in Int, Shuffling(f)
    PROVE  Shuffling(f)'
<1>1. /\ stage = "scatter" /\ stage' = "load" /\ row' = row + W
      /\ cycle' = cycle /\ tableSize' = tableSize /\ partitionNum' = partitionNum
  BY DEF Shuffle!Scatter, Shuffle!inputs
<1>2. ShuffleTypes /\ AtVector /\ row < tableSize
  BY <1>1 DEF ShuffleInv, Shuffling, ShuffleStages, InVector
<1>3. AtVector' BY <1>1, <1>2, VectorOfRows DEF AtVector
<1>4. Shuffle!Partitions' = Shuffle!Partitions BY <1>1 DEF Shuffle!Partitions
<1>5. PICK n : n = row + W OBVIOUS
<1>6. \A p \in Shuffle!Partitions :
          partitionBaseOffs'[p] = NextPlace(f, cycle, tableSize, p, n)
  BY <1>5, ScatterAdvances
<1>7. BetweenVectors(f)' BY <1>1, <1>4, <1>5, <1>6 DEF BetweenVectors
<1>8. InVector(f)' BY <1>1 DEF InVector
<1>9. f = 0 => Placed(cycle, tableSize, n, output') BY <1>5, ScatterPlaces
<1>10. (f = 0 => Placed(cycle, tableSize, row, output))' BY <1>1, <1>5, <1>9
<1> QED BY <1>3, <1>7, <1>8, <1>10 DEF Shuffling

LEMMA DoneStep ==
    ASSUME ShuffleInv, Shuffle!WholeVectors, Shuffle!Done, NEW f \in Int, Shuffling(f)
    PROVE  Shuffling(f)'
<1>1. /\ stage = "load" /\ row >= tableSize /\ stage' = "done" /\ row' = row
      /\ cycle' = cycle /\ tableSize' = tableSize /\ partitionNum' = partitionNum
      /\ output' = output /\ partitionBaseOffs' = partitionBaseOffs
  BY DEF Shuffle!Done, Shuffle!inputs
<1>2. /\ AtVector /\ BetweenVectors(f)
      /\ f = 0 => Placed(cycle, tableSize, row, output)
  BY <1>1 DEF Shuffling, ShuffleStages
<1>3. row = tableSize BY <1>1, <1>2 DEF ShuffleInv, ShuffleTypes, AtVector
<1>4. Shuffle!Partitions' = Shuffle!Partitions BY <1>1 DEF Shuffle!Partitions
<1>5. BetweenVectors(f)' BY <1>1, <1>2, <1>3, <1>4 DEF BetweenVectors
<1>6. InVector(f)' BY <1>1 DEF InVector
<1>7. AtVector' BY <1>1, <1>2 DEF AtVector
<1>8. (f = 0 => Placed(cycle, tableSize, row, output))' BY <1>1, <1>2
<1> QED BY <1>5, <1>6, <1>7, <1>8 DEF Shuffling

LEMMA ShuffleTypesStep ==
    ASSUME ShuffleInv, runPartitioning
    PROVE  ShuffleTypes' /\ (Shuffle!WholeVectors' <=> Shuffle!WholeVectors)
<1>1. /\ UNCHANGED <<tableSize, cycle, partitionNum>>
      /\ row' \in {row, row + W, 0}
  BY DEF runPartitioning, Shuffle!Next, Shuffle!Histogram, Shuffle!Offsets, Shuffle!Load,
         Shuffle!SerializeConflicts, Shuffle!Scatter, Shuffle!Done,
         Shuffle!VectorUndefined, Shuffle!inputs
<1> QED BY <1>1, PartitioningAssumption DEF ShuffleInv, ShuffleTypes, Shuffle!WholeVectors

LEMMA PartitioningStep ==
    ASSUME ShuffleInv, Shuffle!WholeVectors, runPartitioning
    PROVE  Counting' /\ \E f \in Int : Shuffling(f)'
<1>1. Shuffle!Next BY DEF runPartitioning
<1>2. PICK f \in Int : Shuffling(f) BY DEF ShuffleInv
<1>3. CASE Shuffle!Histogram
  <2>1. Counting' BY <1>3, HistogramStep
  <2>2. stage' = "histogram" BY <1>3 DEF Shuffle!Histogram
  <2>3. Shuffling(f)' BY <2>2 DEF Shuffling, ShuffleStages
  <2> QED BY <2>1, <2>3
<1>4. CASE Shuffle!Offsets
  <2>1. stage' # "histogram" BY <1>4 DEF Shuffle!Offsets
  <2>2. \E g \in Int : Shuffling(g)' BY <1>4, OffsetsStep
  <2> QED BY <2>1, <2>2 DEF Counting
<1>5. CASE Shuffle!Load
  <2>1. stage' # "histogram" BY <1>5 DEF Shuffle!Load
  <2>2. Shuffling(f)' BY <1>2, <1>5, LoadStep
  <2> QED BY <2>1, <2>2 DEF Counting
<1>6. CASE Shuffle!SerializeConflicts
  <2>1. stage' # "histogram" BY <1>6 DEF Shuffle!SerializeConflicts
  <2>2. Shuffling(f)' BY <1>2, <1>6, ConflictStep
  <2> QED BY <2>1, <2>2 DEF Counting
<1>7. CASE Shuffle!Scatter
  <2>1. stage' # "histogram" BY <1>7 DEF Shuffle!Scatter
  <2>2. Shuffling(f)' BY <1>2, <1>7, ScatterStep
  <2> QED BY <2>1, <2>2 DEF Counting
<1>8. CASE Shuffle!Done
  <2>1. stage' # "histogram" BY <1>8 DEF Shuffle!Done
  <2>2. Shuffling(f)' BY <1>2, <1>8, DoneStep
  <2> QED BY <2>1, <2>2 DEF Counting
<1>9. CASE Shuffle!VectorUndefined
  <2>1. stage' = "undefined" BY <1>9 DEF Shuffle!VectorUndefined
  <2>2. Shuffling(f)' BY <2>1 DEF Shuffling, ShuffleStages
  <2> QED BY <2>1, <2>2 DEF Counting
<1> QED BY <1>1, <1>3, <1>4, <1>5, <1>6, <1>7, <1>8, <1>9 DEF Shuffle!Next

LEMMA ShuffleKept ==
    ASSUME ShuffleInv, UNCHANGED shuffle, UNCHANGED tableSize
    PROVE  ShuffleInv'
<1>1. UNCHANGED <<tableSize, stage, cycle, partitionNum, row, histPartial,
                  partitionBaseOffs, partIdx, initOff, m, res, output>>
  BY DEF shuffle
<1>2. ShuffleTypes' BY <1>1 DEF ShuffleInv, ShuffleTypes
<1>3. Serializing'
  BY <1>1 DEF ShuffleInv, Serializing, Behind, Before, Shuffle!Partitions
<1>4. Shuffle!WholeVectors' <=> Shuffle!WholeVectors BY <1>1 DEF Shuffle!WholeVectors
<1>5. Counting => Counting' BY <1>1 DEF Counting, AtVector, Shuffle!Partitions
<1>6. ASSUME NEW f \in Int, Shuffling(f) PROVE Shuffling(f)'
  BY <1>1, <1>6 DEF Shuffling, AtVector, BetweenVectors, InVector, Shuffle!Partitions
<1> QED BY <1>2, <1>3, <1>4, <1>5, <1>6 DEF ShuffleInv

LEMMA ShuffleInvariant == Spec => []ShuffleInv
<1>1. ASSUME ShuffleInv, [Next]_vars PROVE ShuffleInv'
  <2>1. CASE runSelectionScan BY <1>1, <2>1, ScansKeepTables, ShuffleKept
  <2>2. CASE runSelectionScan_Returns
    BY <1>1, <2>2, ShuffleKept DEF runSelectionScan_Returns
  <2>3. CASE UNCHANGED vars BY <1>1, <2>3, ShuffleKept DEF vars
  <2>4. CASE runPartitioning
    <3>1. ShuffleTypes' /\ (Shuffle!WholeVectors' <=> Shuffle!WholeVectors)
      BY <1>1, <2>4, ShuffleTypesStep
    <3>2. Serializing'
      BY <1>1, <2>4, SerializingStep DEF ShuffleInv
    <3>3. Shuffle!WholeVectors => Counting' /\ \E f \in Int : Shuffling(f)'
      BY <1>1, <2>4, PartitioningStep
    <3> QED BY <3>1, <3>2, <3>3 DEF ShuffleInv
  <2> QED BY <1>1, <2>1, <2>2, <2>3, <2>4 DEF Next
<1> QED BY <1>1, ShuffleInit, PTL DEF Spec

(* A lane has lost as many conflicts as lanes of its partition went before *)
(* it, and those come before it in the vector.                             *)
THEOREM ConflictsAreSerialized == Spec => []SerializedInOrder
<1>1. ShuffleInv => SerializedInOrder
  BY SameCardinality
  DEF ShuffleInv, Serializing, Behind, Before, SerializedInOrder, Shuffle!SerializedInOrder
<1> QED BY <1>1, ShuffleInvariant, PTL

(* Partitions in order, and in each the rows in the order of the table:    *)
(* when the first offset was 0, for tables of whole vectors of any size    *)
(* and for keys of any cycle.                                              *)
THEOREM ShufflesStably == Spec => []StableFromZero
<1>1. ASSUME ShuffleInv PROVE StableFromZero
  <2>1. SUFFICES ASSUME stage = "done", Shuffle!WholeVectors,
                        partitionBaseOffs[0] = Shuffle!Cardinality(Shuffle!RowsOf(0, tableSize))
                 PROVE  Shuffle!Shuffled
    BY DEF StableFromZero, Shuffle!StableFromZero
  <2>2. ShuffleTypes BY <1>1 DEF ShuffleInv
  <2>3. PICK f \in Int : Shuffling(f) BY <1>1, <2>1 DEF ShuffleInv
  <2>4. /\ row = tableSize
        /\ f = 0 => Placed(cycle, tableSize, tableSize, output)
        /\ \A p \in Shuffle!Partitions :
              partitionBaseOffs[p] = NextPlace(f, cycle, tableSize, p, tableSize)
    BY <2>1, <2>3 DEF Shuffling, ShuffleStages, BetweenVectors
  <2>5. partitionBaseOffs[0] = f + Count(cycle, 0, tableSize)
    <3>1. 0 \in Shuffle!Partitions BY <2>2 DEF Shuffle!Partitions, ShuffleTypes
    <3> QED BY <2>4, <3>1 DEF NextPlace
  <2>6. partitionBaseOffs[0] = Count(cycle, 0, tableSize)
    BY <2>1, SameCardinality, SameParts DEF Count
  <2>7. f = 0
    <3>1. Count(cycle, 0, tableSize) \in Nat BY <2>2, CountType DEF ShuffleTypes
    <3> QED BY <2>5, <2>6, <3>1
  <2>8. Placed(cycle, tableSize, tableSize, output) BY <2>4, <2>7
  <2>9. DOMAIN output = 0 .. tableSize - 1
    BY <2>2, <2>8, PlacesFill DEF Placed, ShuffleTypes
  <2> QED BY <2>8, <2>9, SameParts DEF Shuffle!Shuffled, Placed
<1> QED BY <1>1, ShuffleInvariant, PTL
=============================================================================
