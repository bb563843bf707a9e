-------------------------- MODULE LineServerProofs --------------------------
(***************************************************************************)
(* What the proofs about the servers that keep a struct fd_state share:    *)
(* what the operations of a line buffer preserve, for every MAX_LINE and   *)
(* every chunk; then facts about the clients, about who waits in the       *)
(* backlog and who is served, and about the streams that run through the   *)
(* line buffers. They say what becomes of each of these under the kinds of *)
(* steps that both servers take.                                           *)
(***************************************************************************)
EXTENDS LineServer, TLAPS, SequenceTheorems, WellFoundedInduction

(* Every set of natural numbers that is not empty has a least element.     *)
LEMMA LeastNatural ==
    ASSUME NEW T \in SUBSET Nat, T # {}
    PROVE  \E m \in T : \A k \in T : m <= k
<1> DEFINE R == OpToRel(<, Nat)
<1>1. IsWellFoundedOn(R, Nat)
  BY NatLessThanWellFounded
<1>2. PICK m \in T : \A y \in T : ~ (<<y, m>> \in R)
  <2> HIDE DEF R
  <2> QED BY <1>1, WFMin
<1>3. \A y \in T : ~ (y < m)
  BY <1>2 DEF OpToRel
<1> QED BY <1>3

(* Every set of positions that is not empty has a last one, so that Max is *)
(* what its name says.                                                     *)
LEMMA MaxPosition ==
    ASSUME NEW n \in Nat, NEW T \in SUBSET (1 .. n), T # {}
    PROVE  Max(T) \in T /\ \A k \in T : Max(T) >= k
<1> DEFINE U == {n - k : k \in T}
<1>1. U \in SUBSET Nat
  <2>1. \A k \in T : n - k \in Nat OBVIOUS
  <2> QED BY <2>1
<1>2. U # {} OBVIOUS
<1>3. PICK u \in U : \A k \in U : u <= k
  <2> HIDE DEF U
  <2> QED BY <1>1, <1>2, LeastNatural
<1>4. PICK m \in T : u = n - m BY <1>3
<1>5. \A k \in T : m >= k
  <2>1. \A k \in T : n - m <= n - k BY <1>3, <1>4
  <2> QED BY <2>1
<1> QED BY <1>4, <1>5 DEF Max

(* rot13_char maps characters to characters.                               *)
LEMMA Rot13CharType == \A c \in Char : rot13_char(c) \in Char
BY DEF rot13_char, Char, FirstHalf, SecondHalf

(* It is its own inverse, and it neither makes nor hides a newline: a line *)
(* is a line before and after.                                             *)
THEOREM Rot13Involution ==
    \A c \in Char : /\ rot13_char(rot13_char(c)) = c
                    /\ rot13_char(c) = NL <=> c = NL
BY DEF rot13_char, Char, FirstHalf, SecondHalf, NL

LEMMA Rot13Sequence ==
    ASSUME NEW s \in Seq(Char)
    PROVE  /\ Rot13(s) \in Seq(Char)
           /\ Len(Rot13(s)) = Len(s)
           /\ \A k \in 1 .. Len(s) : Rot13(s)[k] = rot13_char(s[k])
<1>1. \A k \in 1 .. Len(s) : rot13_char(s[k]) \in Char
  BY Rot13CharType, ElementOfSeq
<1>2. Len(s) \in Nat
  BY LenProperties
<1> DEFINE e(k) == rot13_char(s[k])
<1>3. [k \in 1 .. Len(s) |-> e(k)] \in Seq(Char)
  <2>1. \A k \in 1 .. Len(s) : e(k) \in Char BY <1>1
  <2> HIDE DEF e
  <2> QED BY <1>2, <2>1, IsASeq
<1>4. Rot13(s) \in Seq(Char)
  BY <1>3 DEF Rot13
<1>5. DOMAIN Rot13(s) = 1 .. Len(s)
  BY DEF Rot13
<1>6. Len(Rot13(s)) = Len(s)
  BY <1>2, <1>4, <1>5, LenProperties
<1> QED BY <1>4, <1>6 DEF Rot13

-----------------------------------------------------------------------------
(* A new line buffer is empty.                                             *)
LEMMA AllocProperties ==
    /\ alloc_fd_state \in FdState
    /\ CursorsInOrder(alloc_fd_state)
    /\ Unsent(alloc_fd_state) = 0
BY MaxLineAssumption DEF alloc_fd_state, FdState, CursorsInOrder, Unsent

LEMMA TakenBounds ==
    ASSUME NEW st \in FdState, CursorsInOrder(st), NEW n \in Nat
    PROVE  /\ Taken(st, n) \in 0 .. n
           /\ Len(st.buffer) + Taken(st, n) <= MaxLine
           /\ Taken(st, n) < n => Len(st.buffer) + Taken(st, n) = MaxLine
           /\ \A m \in 0 .. n : Taken(st, m) <= Taken(st, n)
<1>1. Len(st.buffer) \in Nat /\ MaxLine \in Nat /\ Len(st.buffer) <= MaxLine
  BY MaxLineAssumption, LenProperties DEF FdState, CursorsInOrder
<1> DEFINE r == MaxLine - Len(st.buffer)
<1>2. r \in Nat
  BY <1>1
<1>3. \A m \in Nat : Taken(st, m) = IF m <= r THEN m ELSE r
  BY DEF Taken, Least, buffer_used
<1>4. Len(st.buffer) + r = MaxLine
  BY <1>1
<1> HIDE DEF r
<1>5. Taken(st, n) \in 0 .. n /\ Taken(st, n) <= r /\ (Taken(st, n) < n => Taken(st, n) = r)
  BY <1>2, <1>3
<1>6. \A m \in 0 .. n : Taken(st, m) <= Taken(st, n)
  BY <1>2, <1>3
<1> QED BY <1>1, <1>2, <1>4, <1>5, <1>6

(* The bytes that a chunk adds to a line buffer.                           *)
Added(st, s) == SubSeq(s, 1, Taken(st, Len(s)))

LEMMA AddedProperties ==
    ASSUME NEW st \in FdState, CursorsInOrder(st), NEW S \in SUBSET Char, NEW s \in Seq(S)
    PROVE  /\ Added(st, s) \in Seq(S)
           /\ Added(st, s) \in Seq(Char)
           /\ Len(Added(st, s)) = Taken(st, Len(s))
           /\ \A k \in 1 .. Taken(st, Len(s)) : Added(st, s)[k] = s[k]
<1>1. Len(s) \in Nat
  BY LenProperties
<1>2. Taken(st, Len(s)) \in 0 .. Len(s)
  BY <1>1, TakenBounds
<1>3. \A k \in 1 .. Taken(st, Len(s)) : s[k] \in S
  BY <1>1, <1>2, ElementOfSeq
<1> QED BY <1>1, <1>2, <1>3, SubSeqProperties, SeqMonotonic DEF Added

(* do_read: the cursors stay in order, nothing stored moves, nothing sent  *)
(* is forgotten, and a chunk is either stored whole or fills the buffer.   *)
LEMMA StoreChunkProperties ==
    ASSUME NEW st \in FdState, CursorsInOrder(st), NEW s \in Seq(Char)
    PROVE  LET new == StoreChunk(st, s) IN
           /\ new \in FdState
           /\ CursorsInOrder(new)
           /\ new.n_written = st.n_written
           /\ new.write_upto >= st.write_upto
           /\ new.buffer = st.buffer \o Rot13(Added(st, s))
           /\ \/ new.write_upto = st.write_upto /\ new.writing = st.writing
              \/ /\ new.writing = TRUE
                 /\ new.write_upto >= Len(st.buffer)
                 /\ new.write_upto > Len(st.buffer) \/ new.write_upto = MaxLine
<1> DEFINE a == Added(st, s)
           b == st.buffer \o Rot13(a)
           t == Taken(st, Len(s))
           new == StoreChunk(st, s)
<1>1. Len(s) \in Nat /\ Len(st.buffer) \in Nat /\ MaxLine \in Nat \ {0}
      /\ st.n_written \in Nat /\ st.write_upto \in Nat /\ st.buffer \in Seq(Char)
  BY MaxLineAssumption, LenProperties DEF FdState
<1>2. /\ t \in 0 .. Len(s)
      /\ Len(st.buffer) + t <= MaxLine
      /\ \A m \in 0 .. Len(s) : Taken(st, m) <= t
  BY <1>1, TakenBounds
<1>3. a \in Seq(Char) /\ Len(a) = t
  BY AddedProperties
<1>4. Rot13(a) \in Seq(Char) /\ Len(Rot13(a)) = t
  BY <1>3, Rot13Sequence
<1>5. b \in Seq(Char) /\ Len(b) = Len(st.buffer) + t
  BY <1>1, <1>4, ConcatProperties
<1>6. CASE Newlines(s) = {}
  <2>1. new = [st EXCEPT !.buffer = b]
    BY <1>6 DEF StoreChunk, Added
  <2> HIDE DEF b
  <2>2. new \in FdState
    BY <2>1, <1>1, <1>5 DEF FdState
  <2>3. /\ new.buffer = b /\ new.writing = st.writing
        /\ new.write_upto = st.write_upto /\ new.n_written = st.n_written
    BY <2>1 DEF FdState
  <2>4. CursorsInOrder(new)
    BY <2>3, <1>1, <1>2, <1>5 DEF CursorsInOrder
  <2> QED BY <2>2, <2>3, <2>4, <1>1 DEF b
<1>7. CASE Newlines(s) # {}
  <2> DEFINE m == Max(Newlines(s))
             v == Taken(st, m)
             w == Len(st.buffer) + v
  <2>1. m \in 1 .. Len(s)
    <3>1. Newlines(s) \in SUBSET (1 .. Len(s)) BY DEF Newlines
    <3> QED BY <3>1, <1>1, <1>7, MaxPosition
  <2>2. v \in 0 .. t /\ (v = 0 => Len(st.buffer) = MaxLine)
    <3>1. Taken(st, m) \in 0 .. m /\ (Taken(st, m) < m => Len(st.buffer) + Taken(st, m) = MaxLine)
      BY <2>1, <1>1, TakenBounds
    <3>2. Taken(st, m) <= t
      BY <2>1, <1>1, <1>2
    <3> QED BY <2>1, <3>1, <3>2, <1>1, <1>2
  <2>3. new = [st EXCEPT !.buffer = b, !.writing = TRUE, !.write_upto = w]
    BY <1>7 DEF StoreChunk, Added, buffer_used
  <2>4. w \in Nat /\ w >= Len(st.buffer) /\ w <= Len(b)
        /\ (w > Len(st.buffer) \/ w = MaxLine)
    <3> HIDE DEF b, m, t, v
    <3>1. t \in Nat /\ Len(st.buffer) + t <= MaxLine /\ Len(b) = Len(st.buffer) + t
      BY <1>1, <1>2, <1>5
    <3>2. v \in Nat /\ v <= t /\ (v = 0 => Len(st.buffer) = MaxLine)
      BY <2>2, <3>1
    <3> HIDE DEF w
    <3>3. w = Len(st.buffer) + v
      BY DEF w
    <3>4. v = 0 \/ v > 0
      BY <3>2
    <3> QED BY <3>1, <3>2, <3>3, <3>4, <1>1
  <2> HIDE DEF w, b
  <2>5. new \in FdState
    BY <2>3, <2>4, <1>1, <1>5 DEF FdState
  <2>6. /\ new.buffer = b /\ new.writing = TRUE /\ new.write_upto = w
        /\ new.n_written = st.n_written
    BY <2>3 DEF FdState
  <2>7. Len(b) <= MaxLine
    BY <1>2, <1>5
  <2>8. st.n_written <= st.write_upto /\ st.write_upto <= Len(st.buffer)
    BY DEF CursorsInOrder
  <2>9. CursorsInOrder(new)
    BY <2>6, <2>4, <2>7, <2>8, <1>1 DEF CursorsInOrder
  <2> QED BY <2>4, <2>5, <2>6, <2>8, <2>9, <1>1 DEF b
<1> QED BY <1>6, <1>7

(* The buffer after a chunk that grows by one byte: the byte is appended,  *)
(* or there is no room and it is dropped.                                  *)
LEMMA AddedByByte ==
    ASSUME NEW st \in FdState, CursorsInOrder(st), NEW s \in Seq(Char), NEW b \in Char
    PROVE  LET old == st.buffer \o Rot13(Added(st, s))
               new == st.buffer \o Rot13(Added(st, Append(s, b))) IN
           /\ old \in Seq(Char) /\ new \in Seq(Char)
           /\ Len(old) = Len(st.buffer) + Taken(st, Len(s))
           /\ Len(new) = Len(st.buffer) + Taken(st, Len(s) + 1)
           /\ new = IF Len(old) < MaxLine THEN Append(old, rot13_char(b)) ELSE old
<1> DEFINE r == Append(s, b)
           n == Len(s)
           t == Taken(st, n)
           u == Taken(st, n + 1)
           L == Len(st.buffer)
           old == st.buffer \o Rot13(Added(st, s))
           new == st.buffer \o Rot13(Added(st, r))
<1>1. n \in Nat /\ L \in Nat /\ MaxLine \in Nat /\ st.buffer \in Seq(Char)
      /\ L <= MaxLine /\ rot13_char(b) \in Char
  BY MaxLineAssumption, LenProperties, Rot13CharType DEF FdState, CursorsInOrder
<1>2. /\ r \in Seq(Char) /\ Len(r) = n + 1 /\ r[n + 1] = b
      /\ \A k \in 1 .. n : r[k] = s[k]
  BY <1>1, AppendProperties
<1>3. /\ Added(st, s) \in Seq(Char) /\ Len(Added(st, s)) = t
      /\ \A k \in 1 .. t : Added(st, s)[k] = s[k]
  BY AddedProperties
<1>4. /\ Added(st, r) \in Seq(Char) /\ Len(Added(st, r)) = u
      /\ \A k \in 1 .. u : Added(st, r)[k] = r[k]
  <2> HIDE DEF r
  <2> QED BY <1>2, AddedProperties
<1>5. /\ t = IF L + n < MaxLine THEN n ELSE MaxLine - L
      /\ u = IF L + n < MaxLine THEN n + 1 ELSE MaxLine - L
  <2>1. /\ t = IF n <= MaxLine - L THEN n ELSE MaxLine - L
        /\ u = IF n + 1 <= MaxLine - L THEN n + 1 ELSE MaxLine - L
    BY DEF Taken, Least, buffer_used
  <2> HIDE DEF t, u, L, n
  <2> QED BY <1>1, <2>1
<1> HIDE DEF r, t, u
<1>6. /\ Rot13(Added(st, s)) \in Seq(Char) /\ Len(Rot13(Added(st, s))) = t
      /\ \A k \in 1 .. t : Rot13(Added(st, s))[k] = rot13_char(s[k])
  BY <1>3, Rot13Sequence
<1>7. /\ Rot13(Added(st, r)) \in Seq(Char) /\ Len(Rot13(Added(st, r))) = u
      /\ \A k \in 1 .. u : Rot13(Added(st, r))[k] = rot13_char(r[k])
  BY <1>4, Rot13Sequence
<1>8. /\ old \in Seq(Char) /\ Len(old) = L + t
      /\ \A k \in 1 .. L : old[k] = st.buffer[k]
      /\ \A k \in L + 1 .. L + t : old[k] = rot13_char(s[k - L])
  <2>1. /\ old \in Seq(Char) /\ Len(old) = L + t
        /\ \A k \in 1 .. L + t : old[k] = IF k <= L THEN st.buffer[k]
                                          ELSE Rot13(Added(st, s))[k - L]
    BY <1>1, <1>6, ConcatProperties
  <2>2. t \in Nat BY <1>1, <1>5
  <2> HIDE DEF old, L
  <2>3. ASSUME NEW k \in L + 1 .. L + t PROVE old[k] = rot13_char(s[k - L])
    <3>1. k - L \in 1 .. t /\ k \in 1 .. L + t /\ ~ (k <= L) BY <2>2, <1>1
    <3> QED BY <3>1, <2>1, <1>6
  <2> QED BY <2>1, <2>2, <2>3, <1>1
<1>9. /\ new \in Seq(Char) /\ Len(new) = L + u
      /\ \A k \in 1 .. L : new[k] = st.buffer[k]
      /\ \A k \in L + 1 .. L + u : new[k] = rot13_char(r[k - L])
  <2>1. /\ new \in Seq(Char) /\ Len(new) = L + u
        /\ \A k \in 1 .. L + u : new[k] = IF k <= L THEN st.buffer[k]
                                          ELSE Rot13(Added(st, r))[k - L]
    BY <1>1, <1>7, ConcatProperties
  <2>2. u \in Nat BY <1>1, <1>5
  <2> HIDE DEF new, L
  <2>3. ASSUME NEW k \in L + 1 .. L + u PROVE new[k] = rot13_char(r[k - L])
    <3>1. k - L \in 1 .. u /\ k \in 1 .. L + u /\ ~ (k <= L) BY <2>2, <1>1
    <3> QED BY <3>1, <2>1, <1>7
  <2> QED BY <2>1, <2>2, <2>3, <1>1
<1> HIDE DEF old, new, L, n
<1>10. CASE L + n < MaxLine
  <2> DEFINE app == Append(old, rot13_char(b))
  <2>1. t = n /\ u = n + 1 BY <1>5, <1>10
  <2>2. /\ app \in Seq(Char) /\ Len(app) = L + u
        /\ app[L + u] = rot13_char(b)
        /\ \A k \in 1 .. L + t : app[k] = old[k]
    BY <1>1, <1>8, <2>1, AppendProperties
  <2> HIDE DEF app
  <2>3. ASSUME NEW k \in 1 .. L + u PROVE new[k] = app[k]
    <3>1. CASE k <= L
      <4>1. k \in 1 .. L /\ k \in 1 .. L + t BY <3>1, <2>1, <1>1
      <4> QED BY <4>1, <2>2, <1>8, <1>9
    <3>2. CASE k > L /\ k <= L + n
      <4>1. k \in L + 1 .. L + t /\ k \in L + 1 .. L + u /\ k \in 1 .. L + t
            /\ k - L \in 1 .. n
        BY <3>2, <2>1, <1>1
      <4> QED BY <4>1, <2>2, <1>2, <1>8, <1>9
    <3>3. CASE k = L + u
      <4>1. k \in L + 1 .. L + u /\ k - L = n + 1 BY <3>3, <2>1, <1>1
      <4> QED BY <4>1, <3>3, <2>2, <1>2, <1>9
    <3> QED BY <3>1, <3>2, <3>3, <2>1, <1>1
  <2>4. new = app BY <1>9, <2>2, <2>3, SeqEqual
  <2>5. Len(old) < MaxLine BY <1>8, <1>10, <2>1
  <2> QED BY <2>4, <2>5, <1>8, <1>9 DEF app, old, new, L, t, u, n, r
<1>11. CASE ~ (L + n < MaxLine)
  <2>1. t = u /\ L + t = MaxLine /\ t \in 0 .. n BY <1>1, <1>5, <1>11
  <2>2. ASSUME NEW k \in 1 .. L + u PROVE new[k] = old[k]
    <3>1. CASE k <= L
      <4>1. k \in 1 .. L BY <3>1
      <4> QED BY <4>1, <1>8, <1>9
    <3>2. CASE k > L
      <4>1. k \in L + 1 .. L + t /\ k \in L + 1 .. L + u /\ k - L \in 1 .. n
        BY <3>2, <2>1, <1>1
      <4> QED BY <4>1, <1>2, <1>8, <1>9
    <3> QED BY <3>1, <3>2, <1>1
  <2>3. new = old BY <1>8, <1>9, <2>1, <2>2, SeqEqual
  <2>4. ~ (Len(old) < MaxLine) BY <1>1, <1>8, <2>1
  <2> QED BY <2>3, <2>4, <1>8, <1>9 DEF old, new, L, t, u, n, r
<1> QED BY <1>10, <1>11

(* StoreChunk is the loop of do_read: a chunk stores what its bytes store, *)
(* one after the other, a newline that is dropped included.                *)
THEOREM StoreChunkByByte ==
    ASSUME NEW st \in FdState, CursorsInOrder(st), NEW s \in Seq(Char), NEW b \in Char
    PROVE  /\ StoreChunk(st, <<>>) = st
           /\ StoreChunk(st, Append(s, b)) = StoreByte(StoreChunk(st, s), b)
<1> DEFINE r == Append(s, b)
           n == Len(s)
           old == st.buffer \o Rot13(Added(st, s))
           new == st.buffer \o Rot13(Added(st, r))
<1>1. n \in Nat /\ st.buffer \in Seq(Char) /\ Len(st.buffer) \in Nat
  BY LenProperties DEF FdState
<1>2. /\ r \in Seq(Char) /\ Len(r) = n + 1 /\ r[n + 1] = b
      /\ \A k \in 1 .. n : r[k] = s[k]
  BY <1>1, AppendProperties
<1>3. /\ Len(old) = Len(st.buffer) + Taken(st, n)
      /\ Len(new) = Len(st.buffer) + Taken(st, n + 1)
      /\ new = IF Len(old) < MaxLine THEN Append(old, rot13_char(b)) ELSE old
  BY AddedByByte
<1>4. /\ Newlines(s) \in SUBSET (1 .. n)
      /\ Newlines(r) = Newlines(s) \cup (IF b = NL THEN {n + 1} ELSE {})
  BY <1>1, <1>2 DEF Newlines
<1>5. StoreChunk(st, <<>>) = st
  <2>1. Len(<<>>) = 0 /\ <<>> \in Seq(Char) BY EmptySeq
  <2>2. Newlines(<<>>) = {} BY <2>1 DEF Newlines
  <2>3. Taken(st, 0) = 0 BY TakenBounds
  <2>4. Added(st, <<>>) = <<>>
    BY <2>1, <2>3, SubSeqEmpty DEF Added
  <2>5. Rot13(<<>>) = <<>>
    <3>1. Rot13(<<>>) \in Seq(Char) /\ Len(Rot13(<<>>)) = 0 BY <2>1, Rot13Sequence
    <3> QED BY <3>1, EmptySeq
  <2>6. st.buffer \o <<>> = st.buffer BY <1>1, ConcatEmptySeq
  <2>7. StoreChunk(st, <<>>) = [st EXCEPT !.buffer = st.buffer \o Rot13(Added(st, <<>>))]
    BY <2>2 DEF StoreChunk, Added
  <2>8. [st EXCEPT !.buffer = st.buffer] = st BY DEF FdState
  <2> QED BY <2>4, <2>5, <2>6, <2>7, <2>8
<1> DEFINE mid == StoreChunk(st, s)
<1>6. mid = IF Newlines(s) = {} THEN [st EXCEPT !.buffer = old]
            ELSE [st EXCEPT !.buffer = old, !.writing = TRUE,
                            !.write_upto = Len(st.buffer) + Taken(st, Max(Newlines(s)))]
  BY DEF StoreChunk, Added, buffer_used
<1>7. StoreChunk(st, r) =
          IF Newlines(r) = {} THEN [st EXCEPT !.buffer = new]
          ELSE [st EXCEPT !.buffer = new, !.writing = TRUE,
                          !.write_upto = Len(st.buffer) + Taken(st, Max(Newlines(r)))]
  BY DEF StoreChunk, Added, buffer_used
<1> HIDE DEF mid, r, old, new, n
<1>8. mid.buffer = old /\ [mid EXCEPT !.buffer = new] =
          IF Newlines(s) = {} THEN [st EXCEPT !.buffer = new]
          ELSE [st EXCEPT !.buffer = new, !.writing = TRUE,
                          !.write_upto = Len(st.buffer) + Taken(st, Max(Newlines(s)))]
  BY <1>6 DEF FdState
<1> DEFINE grown == IF buffer_used(mid) < MaxLine
                    THEN [mid EXCEPT !.buffer = Append(@, rot13_char(b))] ELSE mid
<1>9. grown = [mid EXCEPT !.buffer = new]
  <2>1. [mid EXCEPT !.buffer = old] = mid
    BY <1>6 DEF FdState
  <2> QED BY <1>3, <1>8, <2>1 DEF buffer_used
<1>10. CASE b # NL
  <2>1. Newlines(r) = Newlines(s) BY <1>4, <1>10
  <2>2. StoreByte(mid, b) = grown BY <1>10 DEF StoreByte
  <2> QED BY <1>5, <1>7, <1>8, <1>9, <2>1, <2>2 DEF mid, r
<1>11. CASE b = NL
  <2>1. Newlines(r) = Newlines(s) \cup {n + 1} BY <1>4, <1>11
  <2>2. Newlines(r) \in SUBSET (1 .. n + 1) /\ Newlines(r) # {}
    BY <2>1, <1>1, <1>4
  <2> DEFINE T == Newlines(r)
             M == Max(T)
  <2>3. M \in T /\ \A k \in T : M >= k
    <3>1. n + 1 \in Nat BY <1>1
    <3> HIDE DEF T
    <3> QED BY <2>2, <3>1, MaxPosition DEF T
  <2>4. M = n + 1
    <3>1. n + 1 \in T BY <2>1
    <3>2. M \in 1 .. n + 1 BY <2>2, <2>3
    <3>3. M >= n + 1 BY <2>3, <3>1
    <3> HIDE DEF M
    <3> QED BY <3>2, <3>3, <1>1
  <2>5. StoreByte(mid, b) = [grown EXCEPT !.writing = TRUE, !.write_upto = buffer_used(grown)]
    BY <1>11 DEF StoreByte
  <2>6. grown.buffer = new
    BY <1>6, <1>9 DEF FdState
  <2>7. buffer_used(grown) = Len(st.buffer) + Taken(st, n + 1)
    BY <2>6, <1>3 DEF buffer_used
  <2> DEFINE w == Len(st.buffer) + Taken(st, n + 1)
  <2>8. StoreChunk(st, r) = [st EXCEPT !.buffer = new, !.writing = TRUE, !.write_upto = w]
    BY <1>7, <2>2, <2>4
  <2>9. [grown EXCEPT !.writing = TRUE, !.write_upto = w] =
            [st EXCEPT !.buffer = new, !.writing = TRUE, !.write_upto = w]
    <3> HIDE DEF w, grown
    <3> QED BY <1>8, <1>9 DEF FdState
  <2> QED BY <1>5, <2>5, <2>7, <2>8, <2>9 DEF mid, r
<1> QED BY <1>10, <1>11

(* do_write: a send moves n_written within what is committed.              *)
LEMMA AdvanceProperties ==
    ASSUME NEW st \in FdState, CursorsInOrder(st), NEW n \in 1 .. Unsent(st)
    PROVE  /\ Advance(st, n) \in FdState
           /\ CursorsInOrder(Advance(st, n))
           /\ Advance(st, n).buffer = st.buffer
           /\ Advance(st, n).n_written = st.n_written + n
           /\ Advance(st, n).write_upto = st.write_upto
BY DEF Advance, FdState, CursorsInOrder, Unsent

LEMMA OutgoingProperties ==
    ASSUME NEW st \in FdState, CursorsInOrder(st), NEW n \in 1 .. Unsent(st)
    PROVE  /\ Outgoing(st, n) \in Seq(Char)
           /\ Len(Outgoing(st, n)) = n
           /\ \A k \in 1 .. n : Outgoing(st, n)[k] = st.buffer[st.n_written + k]
<1>1. st.n_written \in Nat /\ st.write_upto \in Nat /\ st.buffer \in Seq(Char)
      /\ Len(st.buffer) \in Nat
  BY LenProperties DEF FdState
<1>2. st.n_written + n <= Len(st.buffer)
  BY <1>1 DEF Unsent, CursorsInOrder
<1>3. \A k \in st.n_written + 1 .. st.n_written + n : st.buffer[k] \in Char
  BY <1>1, <1>2, ElementOfSeq
<1> DEFINE lo == st.n_written + 1
           hi == st.n_written + n
<1>4. Outgoing(st, n) = SubSeq(st.buffer, lo, hi)
  BY DEF Outgoing
<1>5. lo \in Int /\ hi \in Int /\ hi - lo + 1 = n /\ lo <= hi
      /\ \A k \in 1 .. n : lo + k - 1 = st.n_written + k
  BY <1>1
<1>6. \A k \in lo .. hi : st.buffer[k] \in Char
  BY <1>3
<1> HIDE DEF lo, hi
<1>7. /\ SubSeq(st.buffer, lo, hi) \in Seq(Char)
      /\ Len(SubSeq(st.buffer, lo, hi)) = n
      /\ \A k \in 1 .. n : SubSeq(st.buffer, lo, hi)[k] = st.buffer[lo + k - 1]
  BY <1>5, <1>6, SubSeqProperties
<1> QED BY <1>4, <1>5, <1>7

(* The end of do_write: an emptied buffer is rewound to its first "base"   *)
(* bytes, and otherwise nothing but the flag changes.                      *)
LEMMA FinishWriteProperties ==
    ASSUME NEW st \in FdState, CursorsInOrder(st), Unsent(st) <= 0, NEW base \in Nat,
           st.n_written = Len(st.buffer) => base <= Len(st.buffer)
    PROVE  LET new == FinishWrite(st, base) IN
           /\ new \in FdState
           /\ CursorsInOrder(new)
           /\ new.writing = FALSE
           /\ Unsent(new) = 0
           /\ IF st.n_written = Len(st.buffer)
              THEN new.n_written = base /\ Len(new.buffer) = base
              ELSE /\ new.n_written = st.n_written
                   /\ new.buffer = st.buffer
<1>1. /\ st.n_written \in Nat /\ st.write_upto \in Nat /\ MaxLine \in Nat
      /\ st.buffer \in Seq(Char) /\ Len(st.buffer) \in Nat
  BY MaxLineAssumption, LenProperties DEF FdState
<1>3. CASE st.n_written = Len(st.buffer)
  <2> DEFINE e == SubSeq(st.buffer, 1, base)
  <2>1. FinishWrite(st, base) = [buffer |-> e, writing |-> FALSE,
                                 n_written |-> base, write_upto |-> base]
    BY <1>3 DEF FinishWrite, buffer_used
  <2>2. Len(e) = base /\ e \in Seq(Char)
    <3>1. \A k \in 1 .. base : st.buffer[k] \in Char
      BY <1>1, <1>3, ElementOfSeq
    <3>2. /\ e \in Seq(Char)
          /\ Len(e) = IF 1 <= base THEN base - 1 + 1 ELSE 0
      BY <3>1, SubSeqProperties
    <3> QED BY <3>2
  <2> HIDE DEF e
  <2> DEFINE new == FinishWrite(st, base)
  <2>3. new.buffer = e /\ new.writing = FALSE /\ new.n_written = base
        /\ new.write_upto = base
    BY <2>1
  <2>4. new \in FdState
    BY <2>1, <2>2 DEF FdState
  <2> HIDE DEF new
  <2>5. CursorsInOrder(new)
    BY <2>2, <2>3, <1>1, <1>3 DEF CursorsInOrder
  <2>6. Unsent(new) = 0
    BY <2>3 DEF Unsent
  <2> QED BY <2>2, <2>3, <2>4, <2>5, <2>6, <1>3 DEF new
<1>4. CASE st.n_written # Len(st.buffer)
  <2>1. FinishWrite(st, base) = [st EXCEPT !.writing = FALSE]
    BY <1>4 DEF FinishWrite, buffer_used
  <2>2. st.n_written = st.write_upto
    BY <1>1 DEF CursorsInOrder, Unsent
  <2> DEFINE new == FinishWrite(st, base)
  <2>3. new.buffer = st.buffer /\ new.writing = FALSE
        /\ new.n_written = st.n_written /\ new.write_upto = st.write_upto
    BY <2>1 DEF FdState
  <2>4. new \in FdState
    BY <2>1 DEF FdState
  <2> HIDE DEF new
  <2>5. CursorsInOrder(new)
    BY <2>3 DEF CursorsInOrder
  <2>6. Unsent(new) = 0
    BY <2>2, <2>3, <1>1 DEF Unsent
  <2> QED BY <2>3, <2>4, <2>5, <2>6, <1>4 DEF new
<1> QED BY <1>3, <1>4

-----------------------------------------------------------------------------
(* A line buffer outside of do_write: the flag says whether something is   *)
(* unsent, and a buffer that is sent whole is a rewound one.               *)
Settled(st, base) ==
    /\ st.writing <=> Unsent(st) > 0
    /\ st.n_written = Len(st.buffer) => Len(st.buffer) <= base

LEMMA SettledStore ==
    ASSUME NEW st \in FdState, CursorsInOrder(st), NEW base \in Nat, base < MaxLine,
           Settled(st, base), NEW s \in Seq(Char)
    PROVE  Settled(StoreChunk(st, s), base)
<1> DEFINE new == StoreChunk(st, s)
           a == Added(st, s)
<1>1. /\ new \in FdState
      /\ CursorsInOrder(new)
      /\ new.n_written = st.n_written
      /\ new.write_upto >= st.write_upto
      /\ new.buffer = st.buffer \o Rot13(a)
      /\ \/ new.write_upto = st.write_upto /\ new.writing = st.writing
         \/ /\ new.writing = TRUE
            /\ new.write_upto >= Len(st.buffer)
            /\ new.write_upto > Len(st.buffer) \/ new.write_upto = MaxLine
  BY StoreChunkProperties
<1>2. /\ Rot13(a) \in Seq(Char) /\ Len(Rot13(a)) \in Nat
      /\ st.buffer \in Seq(Char) /\ Len(st.buffer) \in Nat
      /\ Len(new.buffer) = Len(st.buffer) + Len(Rot13(a))
  <2>1. a \in Seq(Char)
    BY AddedProperties
  <2>2. Rot13(a) \in Seq(Char)
    BY <2>1, Rot13Sequence
  <2>3. st.buffer \in Seq(Char)
    BY DEF FdState
  <2> QED BY <1>1, <2>2, <2>3, ConcatProperties, LenProperties
<1>3. /\ st.n_written \in Nat /\ st.write_upto \in Nat /\ new.write_upto \in Nat
      /\ new.n_written \in Nat /\ MaxLine \in Nat \ {0}
      /\ st.writing \in BOOLEAN
  BY <1>1, MaxLineAssumption DEF FdState
<1>4. st.n_written <= st.write_upto /\ st.write_upto <= Len(st.buffer)
  BY DEF CursorsInOrder
<1>5. st.writing <=> st.write_upto > st.n_written
  BY <1>3 DEF Settled, Unsent
<1>6. st.n_written = Len(st.buffer) => Len(st.buffer) <= base
  BY DEF Settled
<1> HIDE DEF new, a
<1>7. new.writing <=> new.write_upto > new.n_written
  <2>1. CASE new.write_upto = st.write_upto /\ new.writing = st.writing
    BY <2>1, <1>1, <1>5
  <2>2. CASE /\ new.writing = TRUE
             /\ new.write_upto >= Len(st.buffer)
             /\ new.write_upto > Len(st.buffer) \/ new.write_upto = MaxLine
    <3>1. new.write_upto > new.n_written
      BY <2>2, <1>1, <1>2, <1>3, <1>4, <1>6
    <3> QED BY <2>2, <3>1
  <2> QED BY <1>1, <2>1, <2>2
<1>8. new.writing <=> Unsent(new) > 0
  BY <1>3, <1>7 DEF Unsent
<1>9. ASSUME new.n_written = Len(new.buffer)
      PROVE  Len(new.buffer) <= base
  <2>1. st.n_written = Len(st.buffer) + Len(Rot13(a))
    BY <1>1, <1>2, <1>9
  <2>2. st.n_written = Len(st.buffer) /\ Len(Rot13(a)) = 0
    BY <2>1, <1>2, <1>3, <1>4
  <2>3. Len(new.buffer) = Len(st.buffer)
    BY <2>2, <1>2
  <2> QED BY <2>2, <2>3, <1>6
<1> QED BY <1>8, <1>9 DEF Settled, new

LEMMA SettledFinish ==
    ASSUME NEW st \in FdState, CursorsInOrder(st), Unsent(st) <= 0, NEW base \in Nat,
           st.n_written = Len(st.buffer) => base <= Len(st.buffer)
    PROVE  Settled(FinishWrite(st, base), base)
<1>1. /\ FinishWrite(st, base).writing = FALSE
      /\ Unsent(FinishWrite(st, base)) = 0
      /\ IF st.n_written = Len(st.buffer)
         THEN Len(FinishWrite(st, base).buffer) = base
         ELSE /\ FinishWrite(st, base).n_written = st.n_written
              /\ FinishWrite(st, base).buffer = st.buffer
  BY FinishWriteProperties
<1> QED BY <1>1 DEF Settled

(* A buffer is rewound to its beginning whatever it holds.                 *)
LEMMA RewindsToZero ==
    ASSUME NEW st \in FdState
    PROVE  0 \in Nat /\ 0 < MaxLine /\ 0 <= Len(st.buffer)
<1>1. st.buffer \in Seq(Char)
  BY DEF FdState
<1> QED BY <1>1, LenProperties, MaxLineAssumption

LEMMA SettledAlloc == \A base \in Nat : Settled(alloc_fd_state, base)
BY AllocProperties, EmptySeq DEF Settled, alloc_fd_state

-----------------------------------------------------------------------------
(* A line buffer in a stream: what was echoed is the beginning of what was *)
(* stored, and the rest of the buffer is the rest of it.                   *)
Begins(ech, sto) ==
    /\ Len(ech) <= Len(sto)
    /\ \A k \in 1 .. Len(ech) : ech[k] = rot13_char(sto[k])

Remains(st) == Len(st.buffer) - st.n_written

Carries(st, ech, sto) ==
    /\ Len(sto) = Len(ech) + Remains(st)
    /\ \A k \in 1 .. Remains(st) :
          st.buffer[st.n_written + k] = rot13_char(sto[Len(ech) + k])

LEMMA CarriesAlloc ==
    ASSUME NEW ech, NEW sto, Len(ech) = 0, Len(sto) = 0
    PROVE  Carries(alloc_fd_state, ech, sto)
<1>1. Remains(alloc_fd_state) = 0
  BY EmptySeq DEF Remains, alloc_fd_state
<1> QED BY <1>1 DEF Carries

LEMMA CarriesStore ==
    ASSUME NEW st \in FdState, CursorsInOrder(st),
           NEW S \in SUBSET Char,
           NEW ech \in Seq(Char), NEW sto \in Seq(S), NEW s \in Seq(S),
           Begins(ech, sto), Carries(st, ech, sto)
    PROVE  /\ Begins(ech, sto \o Added(st, s))
           /\ Carries(StoreChunk(st, s), ech, sto \o Added(st, s))
<1> DEFINE a == Added(st, s)
           new == StoreChunk(st, s)
           r == Rot13(a)
<1>1. s \in Seq(Char)
  BY SeqMonotonic
<1>2. a \in Seq(S) /\ a \in Seq(Char)
  BY <1>1, AddedProperties
<1>3. r \in Seq(Char) /\ Len(r) = Len(a) /\ \A k \in 1 .. Len(a) : r[k] = rot13_char(a[k])
  BY <1>2, Rot13Sequence
<1>4. new.n_written = st.n_written /\ new.buffer = st.buffer \o r
  BY <1>1, StoreChunkProperties
<1>5. /\ st.buffer \in Seq(Char) /\ Len(st.buffer) \in Nat /\ st.n_written \in Nat
      /\ Len(sto) \in Nat /\ Len(ech) \in Nat /\ Len(a) \in Nat
      /\ st.n_written <= Len(st.buffer)
  <2>1. st.n_written \in Nat /\ st.write_upto \in Nat /\ st.buffer \in Seq(Char)
    BY DEF FdState
  <2>2. Len(st.buffer) \in Nat
    BY <2>1, LenProperties
  <2>3. st.n_written <= Len(st.buffer)
    BY <2>1, <2>2 DEF CursorsInOrder
  <2> QED BY <2>1, <2>2, <2>3, <1>2, LenProperties
<1> HIDE DEF a, new, r
<1>6. /\ Len(sto \o a) = Len(sto) + Len(a)
      /\ \A k \in 1 .. Len(sto) + Len(a) :
            (sto \o a)[k] = IF k <= Len(sto) THEN sto[k] ELSE a[k - Len(sto)]
  BY <1>2, ConcatProperties
<1>7. /\ Len(st.buffer \o r) = Len(st.buffer) + Len(a)
      /\ \A k \in 1 .. Len(st.buffer) + Len(a) :
            (st.buffer \o r)[k] = IF k <= Len(st.buffer) THEN st.buffer[k]
                                  ELSE r[k - Len(st.buffer)]
  <2>1. \A x, y \in Seq(Char) :
          /\ Len(x \o y) = Len(x) + Len(y)
          /\ \A k \in 1 .. Len(x) + Len(y) :
                (x \o y)[k] = IF k <= Len(x) THEN x[k] ELSE y[k - Len(x)]
    BY ConcatProperties
  <2>2. r \in Seq(Char) /\ st.buffer \in Seq(Char) /\ Len(r) = Len(a)
    BY <1>3, <1>5
  <2> QED BY <2>1, <2>2, Zenon
<1>8. Begins(ech, sto \o a)
  <2>1. Len(ech) <= Len(sto) /\ \A k \in 1 .. Len(ech) : ech[k] = rot13_char(sto[k])
    BY DEF Begins
  <2>2. \A k \in 1 .. Len(ech) : k \in 1 .. Len(sto) + Len(a) /\ k <= Len(sto)
    BY <1>5, <2>1
  <2>3. \A k \in 1 .. Len(ech) : (sto \o a)[k] = sto[k]
    BY <1>6, <2>2
  <2>4. Len(ech) <= Len(sto \o a)
    BY <1>5, <1>6, <2>1
  <2> QED BY <2>1, <2>3, <2>4 DEF Begins
<1>9. Remains(new) = Remains(st) + Len(a) /\ Remains(st) \in Nat
  BY <1>4, <1>5, <1>7 DEF Remains
<1>10. Len(sto) = Len(ech) + Remains(st)
  BY DEF Carries
<1>11. st.n_written + Remains(st) = Len(st.buffer)
  BY <1>5 DEF Remains
<1>12. ASSUME NEW k \in 1 .. Remains(new)
       PROVE  new.buffer[new.n_written + k] = rot13_char((sto \o a)[Len(ech) + k])
  <2>1. CASE k <= Remains(st)
    <3>0. /\ k \in Nat /\ k >= 1 /\ Len(a) \in Nat
          /\ st.n_written + Remains(st) = Len(st.buffer)
          /\ st.n_written \in Nat /\ Len(st.buffer) \in Nat /\ Remains(st) \in Nat
      BY <1>5, <1>9, <1>11
    <3>1. (sto \o a)[Len(ech) + k] = sto[Len(ech) + k]
      BY <2>1, <1>5, <1>6, <1>9, <1>10
    <3>2. new.buffer[new.n_written + k] = st.buffer[st.n_written + k]
      <4>1. st.n_written + k \in 1 .. Len(st.buffer) + Len(a) /\ st.n_written + k <= Len(st.buffer)
        BY <2>1, <3>0
      <4> QED BY <4>1, <1>4, <1>7
    <3>3. k \in 1 .. Remains(st)
      BY <2>1, <1>9
    <3> QED BY <3>1, <3>2, <3>3 DEF Carries
  <2>2. CASE k > Remains(st)
    <3>0. /\ k \in Nat /\ k >= 1 /\ k <= Remains(st) + Len(a) /\ Len(a) \in Nat
          /\ st.n_written + Remains(st) = Len(st.buffer)
          /\ st.n_written \in Nat /\ Len(st.buffer) \in Nat /\ Remains(st) \in Nat
      BY <1>5, <1>9, <1>11
    <3>1. k - Remains(st) \in 1 .. Len(a)
      BY <2>2, <1>9, <1>5
    <3>2. (sto \o a)[Len(ech) + k] = a[k - Remains(st)]
      <4>1. Len(ech) + k \in 1 .. Len(sto) + Len(a) /\ ~ (Len(ech) + k <= Len(sto))
        BY <2>2, <1>5, <1>9, <1>10
      <4>2. (Len(ech) + k) - Len(sto) = k - Remains(st)
        BY <1>5, <1>9, <1>10
      <4> QED BY <4>1, <4>2, <1>6
    <3>3. new.buffer[new.n_written + k] = r[k - Remains(st)]
      <4>1. /\ st.n_written + k \in 1 .. Len(st.buffer) + Len(a)
            /\ ~ (st.n_written + k <= Len(st.buffer))
        BY <2>2, <3>0
      <4>2. (st.n_written + k) - Len(st.buffer) = k - Remains(st)
        BY <3>0
      <4> QED BY <4>1, <4>2, <1>4, <1>7
    <3>4. r[k - Remains(st)] = rot13_char(a[k - Remains(st)])
      BY <3>1, <1>3
    <3>5. rot13_char((sto \o a)[Len(ech) + k]) = rot13_char(a[k - Remains(st)])
      BY <3>2
    <3> QED BY <3>3, <3>4, <3>5
  <2>3. k <= Remains(st) \/ k > Remains(st)
    BY <1>5, <1>9
  <2> QED BY <2>1, <2>2, <2>3
<1>13. Carries(new, ech, sto \o a)
  BY <1>5, <1>6, <1>9, <1>10, <1>12 DEF Carries
<1> QED BY <1>8, <1>13 DEF a, new

LEMMA CarriesSend ==
    ASSUME NEW st \in FdState, CursorsInOrder(st),
           NEW S, NEW ech \in Seq(Char), NEW sto \in Seq(S), NEW n \in 1 .. Unsent(st),
           Begins(ech, sto), Carries(st, ech, sto)
    PROVE  /\ Begins(ech \o Outgoing(st, n), sto)
           /\ Carries(Advance(st, n), ech \o Outgoing(st, n), sto)
<1> DEFINE o == Outgoing(st, n)
           new == Advance(st, n)
<1>1. o \in Seq(Char) /\ Len(o) = n /\ \A k \in 1 .. n : o[k] = st.buffer[st.n_written + k]
  BY OutgoingProperties
<1>2. new.buffer = st.buffer /\ new.n_written = st.n_written + n
  BY AdvanceProperties
<1>3. /\ st.n_written \in Nat /\ st.write_upto \in Nat /\ Len(st.buffer) \in Nat
      /\ Len(ech) \in Nat /\ Len(sto) \in Nat
      /\ n \in Nat /\ n >= 1 /\ st.n_written + n <= Len(st.buffer)
  <2>1. st.n_written \in Nat /\ st.write_upto \in Nat /\ st.buffer \in Seq(Char)
    BY DEF FdState
  <2>2. Len(st.buffer) \in Nat
    BY <2>1, LenProperties
  <2> QED BY <2>1, <2>2, LenProperties DEF CursorsInOrder, Unsent
<1> HIDE DEF o, new
<1>4. /\ Len(ech \o o) = Len(ech) + n
      /\ \A k \in 1 .. Len(ech) + n :
            (ech \o o)[k] = IF k <= Len(ech) THEN ech[k] ELSE o[k - Len(ech)]
  BY <1>1, ConcatProperties
<1>5. Remains(new) = Remains(st) - n /\ Remains(st) \in Nat /\ n <= Remains(st)
  BY <1>2, <1>3 DEF Remains
<1>6. Len(sto) = Len(ech) + Remains(st)
  BY DEF Carries
<1>7. ASSUME NEW k \in 1 .. Len(ech \o o)
      PROVE  (ech \o o)[k] = rot13_char(sto[k])
  <2>1. CASE k <= Len(ech)
    BY <2>1, <1>3, <1>4 DEF Begins
  <2>2. CASE k > Len(ech)
    <3>1. k - Len(ech) \in 1 .. n /\ ~ (k <= Len(ech)) /\ k \in 1 .. Len(ech) + n
      BY <2>2, <1>3, <1>4
    <3>2. (ech \o o)[k] = st.buffer[st.n_written + (k - Len(ech))]
      BY <3>1, <1>1, <1>4
    <3>3. k - Len(ech) \in 1 .. Remains(st) /\ Len(ech) + (k - Len(ech)) = k
      BY <3>1, <1>3, <1>5
    <3> QED BY <3>2, <3>3 DEF Carries
  <2> QED BY <2>1, <2>2, <1>3, <1>4
<1>8. Begins(ech \o o, sto)
  BY <1>3, <1>4, <1>5, <1>6, <1>7 DEF Begins
<1>9. ASSUME NEW k \in 1 .. Remains(new)
      PROVE  new.buffer[new.n_written + k] = rot13_char(sto[Len(ech \o o) + k])
  <2>1. /\ n + k \in 1 .. Remains(st)
        /\ new.n_written + k = st.n_written + (n + k)
        /\ Len(ech \o o) + k = Len(ech) + (n + k)
    BY <1>2, <1>3, <1>4, <1>5
  <2> QED BY <2>1, <1>2 DEF Carries
<1>10. Carries(new, ech \o o, sto)
  BY <1>3, <1>4, <1>5, <1>6, <1>9 DEF Carries
<1> QED BY <1>8, <1>10 DEF o, new

LEMMA CarriesFinish ==
    ASSUME NEW st \in FdState, CursorsInOrder(st), Unsent(st) <= 0, NEW base \in Nat,
           st.n_written = Len(st.buffer) => base <= Len(st.buffer),
           NEW ech, NEW sto, Carries(st, ech, sto)
    PROVE  Carries(FinishWrite(st, base), ech, sto)
<1> DEFINE new == FinishWrite(st, base)
<1>1. IF st.n_written = Len(st.buffer)
      THEN new.n_written = base /\ Len(new.buffer) = base
      ELSE new.n_written = st.n_written /\ new.buffer = st.buffer
  BY FinishWriteProperties
<1>2. st.n_written \in Nat
  BY DEF FdState
<1> HIDE DEF new
<1>3. Remains(new) = Remains(st)
  BY <1>1, <1>2 DEF Remains
<1>4. CASE st.n_written = Len(st.buffer)
  <2>1. Remains(new) = 0
    BY <1>1, <1>4 DEF Remains
  <2> QED BY <1>3, <2>1 DEF Carries, new
<1>5. CASE st.n_written # Len(st.buffer)
  BY <1>1, <1>3, <1>5 DEF Carries, new
<1> QED BY <1>4, <1>5

LEMMA EchoPrefix ==
    ASSUME NEW S \in SUBSET Char, NEW ech \in Seq(Char), NEW sto \in Seq(S),
           Begins(ech, sto)
    PROVE  /\ Len(ech) <= Len(sto)
           /\ ech = Rot13(SubSeq(sto, 1, Len(ech)))
<1> DEFINE pre == SubSeq(sto, 1, Len(ech))
<1>1. Len(ech) \in Nat /\ Len(sto) \in Nat
  BY LenProperties
<1>2. Len(ech) <= Len(sto) /\ \A k \in 1 .. Len(ech) : ech[k] = rot13_char(sto[k])
  BY DEF Begins
<1>3. \A k \in 1 .. Len(ech) : sto[k] \in Char
  <2>1. \A k \in 1 .. Len(ech) : k \in 1 .. Len(sto) BY <1>1, <1>2
  <2> QED BY <2>1, ElementOfSeq
<1>4. /\ pre \in Seq(Char) /\ Len(pre) = Len(ech)
      /\ \A k \in 1 .. Len(ech) : pre[k] = sto[k]
  BY <1>1, <1>3, SubSeqProperties
<1> HIDE DEF pre
<1>5. /\ Rot13(pre) \in Seq(Char) /\ Len(Rot13(pre)) = Len(ech)
      /\ \A k \in 1 .. Len(ech) : Rot13(pre)[k] = rot13_char(sto[k])
  BY <1>4, Rot13Sequence
<1>6. ech = Rot13(pre)
  BY <1>2, <1>5, SeqEqual
<1> QED BY <1>2, <1>6 DEF pre

-----------------------------------------------------------------------------
(* The clients and the kernel.                                             *)

ConnectionsTypeOK ==
    /\ conn \in [Fds -> Clients \cup {NULL}]
    /\ backlog \in Seq(Clients)
    /\ peer \in [Clients -> PeerStates]
    /\ sent \in [Clients -> Seq(Letters)]
    /\ rpos \in [Clients -> Nat]
    /\ echoed \in [Clients -> Seq(Char)]
    /\ drained \in [Clients -> Nat]

ClientMoves(c) ==
    Connect(c) \/ ClientSend(c) \/ ClientShutdown(c) \/ ClientReset(c) \/ ClientRead(c)

LEMMA ChunkFacts ==
    ASSUME ConnectionsTypeOK, NEW c \in Clients, Inbound(c) > 0
    PROVE  /\ Chunk(c) \in Seq(Letters)
           /\ Chunk(c) \in Seq(Char)
           /\ Len(Chunk(c)) \in Nat /\ Len(Chunk(c)) <= RecvMax
<1> DEFINE lo == rpos[c] + 1
           hi == rpos[c] + Least(RecvMax, Inbound(c))
<1>1. rpos[c] \in Nat /\ sent[c] \in Seq(Letters) /\ Len(sent[c]) \in Nat
  BY LenProperties DEF ConnectionsTypeOK
<1>2. lo \in Int /\ hi \in Int /\ hi <= Len(sent[c]) /\ lo >= 1
  BY <1>1, ConnectionsAssumption DEF Least, Inbound
<1>3. \A k \in lo .. hi : sent[c][k] \in Letters
  BY <1>1, <1>2, ElementOfSeq
<1>4. Chunk(c) = SubSeq(sent[c], lo, hi)
  BY DEF Chunk
<1> HIDE DEF lo, hi
<1>5. /\ SubSeq(sent[c], lo, hi) \in Seq(Letters)
      /\ Len(SubSeq(sent[c], lo, hi)) <= RecvMax
  <2>1. /\ SubSeq(sent[c], lo, hi) \in Seq(Letters)
        /\ Len(SubSeq(sent[c], lo, hi)) = IF lo <= hi THEN hi - lo + 1 ELSE 0
    BY <1>2, <1>3, SubSeqProperties
  <2>2. (IF lo <= hi THEN hi - lo + 1 ELSE 0) <= RecvMax
    BY <1>1, ConnectionsAssumption DEF lo, hi, Least, Inbound
  <2> QED BY <2>1, <2>2
<1> QED BY <1>4, <1>5, SeqMonotonic, LenProperties, ConnectionsAssumption

-----------------------------------------------------------------------------
(* The clients.                                                            *)

LEMMA ClientsType ==
    ASSUME ConnectionsTypeOK, NEW c \in Clients, ClientMoves(c)
    PROVE  ConnectionsTypeOK' /\ conn' = conn
<1> USE DEF ConnectionsTypeOK
<1>1. CASE Connect(c)
  <2>1. Append(backlog, c) \in Seq(Clients)
    BY AppendProperties
  <2> QED BY <2>1, <1>1 DEF Connect, PeerStates
<1>2. CASE ClientSend(c)
  <2>1. PICK b \in Letters : sent' = [sent EXCEPT ![c] = Append(@, b)]
    BY <1>2 DEF ClientSend
  <2>2. Append(sent[c], b) \in Seq(Letters)
    BY AppendProperties
  <2> QED BY <2>1, <2>2, <1>2 DEF ClientSend
<1>3. CASE ClientShutdown(c)
  BY <1>3 DEF ClientShutdown, PeerStates
<1>4. CASE ClientReset(c)
  BY <1>4 DEF ClientReset, PeerStates
<1>5. CASE ClientRead(c)
  BY <1>5 DEF ClientRead
<1> QED BY <1>1, <1>2, <1>3, <1>4, <1>5 DEF ClientMoves

(* A client makes its end of the connection more ready, never less, and    *)
(* one that left stays away.                                               *)
LEMMA ClientsMonotone ==
    ASSUME ConnectionsTypeOK, NEW c \in Clients, ClientMoves(c),
           NEW d \in Clients, peer[d] # "idle"
    PROVE  /\ Readable(d) => Readable(d)'
           /\ Writable(d) => Writable(d)'
           /\ peer'[d] # "idle"
           /\ peer[d] # "open" => peer'[d] # "open"
<1> USE DEF Readable, Writable, Gone, Inbound, SendRoom, ConnectionsTypeOK
<1>1. /\ sent[d] \in Seq(Letters) /\ Len(sent[d]) \in Nat
      /\ Len(echoed[d]) \in Nat /\ rpos[d] \in Nat /\ drained[d] \in Nat
      /\ SendCap \in Nat
  BY LenProperties, ConnectionsAssumption
<1>2. CASE Connect(c)
  BY <1>2 DEF Connect
<1>3. CASE ClientSend(c)
  <2>1. PICK b \in Letters : sent' = [sent EXCEPT ![c] = Append(@, b)]
    BY <1>3 DEF ClientSend
  <2>2. Len(sent'[d]) \in Nat /\ Len(sent'[d]) >= Len(sent[d])
    BY <2>1, <1>1, AppendProperties
  <2> QED BY <1>1, <1>3, <2>2 DEF ClientSend
<1>4. CASE ClientShutdown(c)
  BY <1>4 DEF ClientShutdown
<1>5. CASE ClientReset(c)
  BY <1>5 DEF ClientReset
<1>6. CASE ClientRead(c)
  <2>1. drained'[d] \in Nat /\ drained'[d] >= drained[d]
    BY <1>1, <1>6 DEF ClientRead
  <2> QED BY <1>1, <1>6, <2>1 DEF ClientRead
<1> QED BY <1>2, <1>3, <1>4, <1>5, <1>6 DEF ClientMoves

(* A handler touches the streams of its own client only.                   *)
LEMMA OthersKept ==
    ASSUME ConnectionsTypeOK, NEW c, NEW d \in Clients, d # c,
           \/ /\ UNCHANGED <<peer, sent, echoed, drained>>
              /\ \E n : rpos' = [rpos EXCEPT ![c] = n]
           \/ /\ UNCHANGED <<peer, sent, rpos, drained>>
              /\ \E s : echoed' = [echoed EXCEPT ![c] = s]
    PROVE  /\ Readable(d)' = Readable(d)
           /\ Writable(d)' = Writable(d)
BY DEF ConnectionsTypeOK, Readable, Writable, Gone, Inbound, SendRoom

-----------------------------------------------------------------------------
(* Who waits and who is served: no client does both, or either twice, and  *)
(* each of them has connected.                                             *)
Waiting ==
    /\ \A k \in 1 .. Len(backlog), f \in Fds : backlog[k] # conn[f]
    /\ \A k, l \in 1 .. Len(backlog) : backlog[k] = backlog[l] => k = l
    /\ \A k \in 1 .. Len(backlog) : peer[backlog[k]] # "idle"
    /\ \A f \in Fds : conn[f] # NULL => peer[conn[f]] # "idle"

LEMMA WaitingKept ==
    ASSUME ConnectionsTypeOK, Waiting, backlog' = backlog,
           \A f \in Fds : conn'[f] = conn[f] \/ conn'[f] = NULL,
           \A c \in Clients : peer[c] # "idle" => peer'[c] # "idle"
    PROVE  Waiting'
<1>1. \A k \in 1 .. Len(backlog) : backlog[k] \in Clients /\ backlog[k] # NULL
  BY ElementOfSeq, ConnectionsAssumption DEF ConnectionsTypeOK
<1>2. \A f \in Fds : conn[f] # NULL => conn[f] \in Clients
  BY DEF ConnectionsTypeOK
<1> QED BY <1>1, <1>2 DEF Waiting

LEMMA WaitingStop ==
    ASSUME backlog' = <<>>, conn' = [f \in Fds |-> NULL]
    PROVE  Waiting'
<1>1. Len(backlog') = 0
  BY EmptySeq
<1> QED BY <1>1 DEF Waiting

LEMMA WaitingConnect ==
    ASSUME ConnectionsTypeOK, Waiting, NEW c \in Clients, Connect(c)
    PROVE  Waiting'
<1>1. /\ peer[c] = "idle" /\ peer' = [peer EXCEPT ![c] = "open"]
      /\ conn' = conn
      /\ backlog' = Append(backlog, c)
  BY DEF Connect
<1>2. /\ backlog \in Seq(Clients) /\ Len(backlog) \in Nat
      /\ Len(backlog') = Len(backlog) + 1
      /\ \A k \in 1 .. Len(backlog) : backlog'[k] = backlog[k]
      /\ backlog'[Len(backlog) + 1] = c
  BY <1>1, AppendProperties, LenProperties DEF ConnectionsTypeOK
<1>3. \A k \in 1 .. Len(backlog) : backlog[k] \in Clients /\ backlog[k] # c
  BY <1>1, <1>2, ElementOfSeq DEF Waiting
<1>4. \A f \in Fds : conn[f] # c
  BY <1>1, ConnectionsAssumption DEF Waiting
<1>5. \A k \in 1 .. Len(backlog') : k \in 1 .. Len(backlog) \/ k = Len(backlog) + 1
  BY <1>2
<1>6. peer'[c] = "open" /\ \A d \in Clients : d # c => peer'[d] = peer[d]
  BY <1>1 DEF ConnectionsTypeOK
<1>7. \A k \in 1 .. Len(backlog'), f \in Fds : backlog'[k] # conn'[f]
  BY <1>1, <1>2, <1>4, <1>5 DEF Waiting
<1>8. \A k, l \in 1 .. Len(backlog') : backlog'[k] = backlog'[l] => k = l
  BY <1>2, <1>3, <1>5 DEF Waiting
<1>9. \A k \in 1 .. Len(backlog') : peer'[backlog'[k]] # "idle"
  BY <1>2, <1>3, <1>5, <1>6 DEF Waiting
<1>10. \A f \in Fds : conn'[f] # NULL => peer'[conn'[f]] # "idle"
  BY <1>1, <1>4, <1>6 DEF Waiting, ConnectionsTypeOK
<1> QED BY <1>7, <1>8, <1>9, <1>10 DEF Waiting

(* accept takes the first client of the backlog, to serve or to refuse it. *)
LEMMA FirstWaiting ==
    ASSUME ConnectionsTypeOK, Waiting, backlog # <<>>
    PROVE  /\ Head(backlog) \in Clients /\ Head(backlog) # NULL
           /\ Tail(backlog) \in Seq(Clients)
           /\ \A g \in Fds : Head(backlog) # conn[g]
           /\ Len(backlog) \in Nat /\ Len(backlog) >= 1
           /\ Head(backlog) = backlog[1]
           /\ Len(Tail(backlog)) = Len(backlog) - 1
           /\ \A k \in 1 .. Len(Tail(backlog)) : /\ k + 1 \in 2 .. Len(backlog)
                                                 /\ Tail(backlog)[k] = backlog[k + 1]
<1>1. backlog \in Seq(Clients) /\ Len(backlog) \in Nat
  BY LenProperties DEF ConnectionsTypeOK
<1>2. /\ Len(Tail(backlog)) = Len(backlog) - 1
      /\ \A k \in 1 .. Len(Tail(backlog)) : Tail(backlog)[k] = backlog[k + 1]
      /\ Head(backlog) = backlog[1] /\ Head(backlog) \in Clients
      /\ Tail(backlog) \in Seq(Clients)
      /\ Len(backlog) >= 1
  BY <1>1, HeadTailProperties, EmptySeq
<1>3. 1 \in 1 .. Len(backlog)
  BY <1>1, <1>2
<1> QED BY <1>1, <1>2, <1>3, ConnectionsAssumption DEF Waiting

LEMMA WaitingAccept ==
    ASSUME ConnectionsTypeOK, Waiting, backlog # <<>>,
           backlog' = Tail(backlog), peer' = peer,
           \/ conn' = conn
           \/ \E f \in Fds : conn' = [conn EXCEPT ![f] = Head(backlog)]
    PROVE  Waiting'
<1>1. /\ Len(backlog) \in Nat /\ Len(backlog) >= 1
      /\ Head(backlog) = backlog[1]
      /\ Len(backlog') = Len(backlog) - 1
      /\ \A k \in 1 .. Len(backlog') : /\ k + 1 \in 1 .. Len(backlog) /\ k + 1 # 1
                                       /\ backlog'[k] = backlog[k + 1]
  BY FirstWaiting
<1>2. 1 \in 1 .. Len(backlog)
  BY <1>1
<1>3. \A k \in 1 .. Len(backlog') : backlog'[k] # Head(backlog)
  BY <1>1, <1>2 DEF Waiting
<1>4. \A f \in Fds : conn'[f] = conn[f] \/ conn'[f] = Head(backlog)
  BY DEF ConnectionsTypeOK
<1>5. \A k \in 1 .. Len(backlog'), f \in Fds : backlog'[k] # conn'[f]
  BY <1>1, <1>3, <1>4 DEF Waiting
<1>6. \A k, l \in 1 .. Len(backlog') : backlog'[k] = backlog'[l] => k = l
  <2>1. \A k, l \in 1 .. Len(backlog') : backlog[k + 1] = backlog[l + 1] => k + 1 = l + 1
    BY <1>1 DEF Waiting
  <2> QED BY <1>1, <2>1
<1>7. \A k \in 1 .. Len(backlog') : peer'[backlog'[k]] # "idle"
  BY <1>1 DEF Waiting
<1>8. \A f \in Fds : conn'[f] # NULL => peer'[conn'[f]] # "idle"
  BY <1>1, <1>2, <1>4 DEF Waiting
<1> QED BY <1>5, <1>6, <1>7, <1>8 DEF Waiting

-----------------------------------------------------------------------------
(* The streams: what was echoed to a client is the beginning of what was   *)
(* stored for it, and while it is served the rest of its line buffer is    *)
(* the rest of it. Nothing is stored for a client before it is served.     *)
Streams ==
    /\ \A c \in Clients : Begins(echoed[c], stored[c])
    /\ \A f \in Live : Carries(state[f], echoed[conn[f]], stored[conn[f]])
    /\ \A k \in 1 .. Len(backlog) : Len(stored[backlog[k]]) = 0
    /\ \A c \in Clients : peer[c] = "idle" => Len(stored[c]) = 0

LEMMA StreamsKept ==
    ASSUME Streams, UNCHANGED <<stored, echoed>>,
           \A f \in Live' : f \in Live /\ conn'[f] = conn[f] /\ state'[f] = state[f],
           backlog' = backlog \/ backlog' = <<>>,
           \A c \in Clients : peer'[c] = "idle" => peer[c] = "idle"
    PROVE  Streams'
<1>1. \A k \in 1 .. Len(backlog') : k \in 1 .. Len(backlog) /\ backlog'[k] = backlog[k]
  BY EmptySeq
<1> QED BY <1>1 DEF Streams

LEMMA StreamsClient ==
    ASSUME ConnectionsTypeOK, Streams, NEW c \in Clients, ClientMoves(c),
           UNCHANGED <<state, stored>>
    PROVE  Streams'
<1>0. Live' = Live
  BY DEF Live
<1>1. CASE Connect(c)
  <2>1. /\ peer[c] = "idle" /\ peer' = [peer EXCEPT ![c] = "open"]
        /\ backlog' = Append(backlog, c)
        /\ UNCHANGED <<conn, echoed>>
    BY <1>1 DEF Connect
  <2>2. /\ backlog \in Seq(Clients) /\ Len(backlog) \in Nat
        /\ Len(backlog') = Len(backlog) + 1
        /\ \A k \in 1 .. Len(backlog) : backlog'[k] = backlog[k]
        /\ backlog'[Len(backlog) + 1] = c
    BY <2>1, AppendProperties, LenProperties DEF ConnectionsTypeOK
  <2>3. \A k \in 1 .. Len(backlog') : k \in 1 .. Len(backlog) \/ k = Len(backlog) + 1
    BY <2>2
  <2>4. \A k \in 1 .. Len(backlog') : Len(stored'[backlog'[k]]) = 0
    BY <2>1, <2>2, <2>3 DEF Streams
  <2>5. \A d \in Clients : peer'[d] = "idle" => peer[d] = "idle"
    BY <2>1 DEF ConnectionsTypeOK
  <2> QED BY <1>0, <2>1, <2>4, <2>5 DEF Streams
<1>2. CASE ~ Connect(c)
  <2>1. /\ UNCHANGED <<conn, backlog, echoed>>
        /\ \A d \in Clients : peer'[d] = "idle" => peer[d] = "idle"
    BY <1>2 DEF ClientMoves, ClientSend, ClientShutdown, ClientReset, ClientRead,
                ConnectionsTypeOK
  <2> QED BY <1>0, <2>1, StreamsKept
<1> QED BY <1>1, <1>2

LEMMA StreamsAccept ==
    ASSUME ConnectionsTypeOK, stored \in [Clients -> Seq(Letters)], Waiting, Streams,
           backlog # <<>>, backlog' = Tail(backlog), UNCHANGED <<peer, stored, echoed>>,
           \A f \in Live' :
              \/ f \in Live /\ conn'[f] = conn[f] /\ state'[f] = state[f]
              \/ conn'[f] = Head(backlog) /\ state'[f] = alloc_fd_state
    PROVE  Streams'
<1> DEFINE h == Head(backlog)
<1>1. /\ Len(backlog) \in Nat /\ Len(backlog) >= 1
      /\ h = backlog[1] /\ h \in Clients
      /\ Len(backlog') = Len(backlog) - 1
      /\ \A k \in 1 .. Len(backlog') : /\ k + 1 \in 1 .. Len(backlog)
                                       /\ backlog'[k] = backlog[k + 1]
  BY FirstWaiting
<1>2. 1 \in 1 .. Len(backlog)
  BY <1>1
<1>3. Len(stored[h]) = 0
  BY <1>1, <1>2 DEF Streams
<1>4. Len(echoed[h]) = 0
  <2>1. Len(echoed[h]) \in Nat /\ Len(echoed[h]) <= 0
    BY <1>1, <1>3, LenProperties DEF Streams, Begins, ConnectionsTypeOK
  <2> QED BY <2>1
<1>5. Carries(alloc_fd_state, echoed[h], stored[h])
  <2>1. Remains(alloc_fd_state) = 0
    BY EmptySeq DEF Remains, alloc_fd_state
  <2> QED BY <1>3, <1>4, <2>1 DEF Carries
<1>6. \A k \in 1 .. Len(backlog') : Len(stored'[backlog'[k]]) = 0
  BY <1>1 DEF Streams
<1>7. \A f \in Live' : Carries(state'[f], echoed'[conn'[f]], stored'[conn'[f]])
  BY <1>5 DEF Streams
<1> QED BY <1>6, <1>7 DEF Streams

(* A handler at work on the line buffer of descriptor f.                   *)
LEMMA StreamsHandler ==
    ASSUME ConnectionsTypeOK, stored \in [Clients -> Seq(Letters)], Waiting, Streams,
           \A g \in Live : g \in Fds /\ conn[g] \in Clients,
           \A g, h \in Live : conn[g] = conn[h] => g = h,
           NEW f \in Live, NEW st,
           Live' = Live, state'[f] = st, \A g \in Live : g # f => state'[g] = state[g],
           NEW ech, echoed' = [echoed EXCEPT ![conn[f]] = ech],
           NEW sto, stored' = [stored EXCEPT ![conn[f]] = sto],
           Begins(ech, sto), Carries(st, ech, sto),
           UNCHANGED <<conn, backlog, peer>>
    PROVE  Streams'
<1> DEFINE c == conn[f]
<1>1. c \in Clients /\ f \in Fds /\ c # NULL
  BY ConnectionsAssumption
<1>2. /\ echoed'[c] = ech /\ stored'[c] = sto
      /\ \A d \in Clients : d # c => echoed'[d] = echoed[d] /\ stored'[d] = stored[d]
  BY <1>1 DEF ConnectionsTypeOK
<1>3. \A d \in Clients : Begins(echoed'[d], stored'[d])
  BY <1>2 DEF Streams
<1>4. \A g \in Live : g # f => conn[g] # c /\ conn[g] \in Clients
  OBVIOUS
<1>5. \A g \in Live' : Carries(state'[g], echoed'[conn'[g]], stored'[conn'[g]])
  BY <1>2, <1>4 DEF Streams
<1>6. \A k \in 1 .. Len(backlog) : backlog[k] # c /\ backlog[k] \in Clients
  BY <1>1, ElementOfSeq DEF Waiting, ConnectionsTypeOK
<1>7. peer[c] # "idle"
  BY <1>1 DEF Waiting
<1> QED BY <1>2, <1>3, <1>5, <1>6, <1>7 DEF Streams

(* What the streams come to for the clients.                               *)
LEMMA StreamsFaithful ==
    ASSUME ConnectionsTypeOK, stored \in [Clients -> Seq(Letters)], Streams
    PROVE  EchoFaithful
<1> SUFFICES ASSUME NEW c \in Clients
             PROVE  /\ Len(echoed[c]) <= Len(stored[c])
                    /\ echoed[c] = Rot13(SubSeq(stored[c], 1, Len(echoed[c])))
  BY DEF EchoFaithful
<1>1. echoed[c] \in Seq(Char) /\ stored[c] \in Seq(Letters)
  BY DEF ConnectionsTypeOK
<1>2. Begins(echoed[c], stored[c])
  BY DEF Streams
<1> QED BY <1>1, <1>2, EchoPrefix, ConnectionsAssumption

-----------------------------------------------------------------------------
(* What enters a line buffer. A buffer holds no more bytes than came from  *)
(* its client, so that it has room for all of the first MAX_LINE of them,  *)
(* however they were cut into chunks and whatever was sent and rewound     *)
(* between two of them.                                                    *)
Intact ==
    /\ \A c \in Clients : rpos[c] <= Len(sent[c])
    /\ \A f \in Live : Len(state[f].buffer) <= rpos[conn[f]]
    /\ NothingLostBelowMaxLine

LEMMA ClientsSend ==
    ASSUME ConnectionsTypeOK, NEW c \in Clients, ClientMoves(c), NEW d \in Clients
    PROVE  /\ rpos' = rpos
           /\ Len(sent'[d]) >= Len(sent[d])
           /\ \A n \in 0 .. Len(sent[d]) : SubSeq(sent'[d], 1, n) = SubSeq(sent[d], 1, n)
<1>0. sent[d] \in Seq(Letters) /\ Len(sent[d]) \in Nat
  BY LenProperties DEF ConnectionsTypeOK
<1>1. CASE ClientSend(c)
  <2>1. PICK b \in Letters : sent' = [sent EXCEPT ![c] = Append(sent[c], b)]
    BY <1>1 DEF ClientSend
  <2>2. CASE d = c
    <3>1. sent'[d] = Append(sent[d], b)
      BY <2>1, <2>2 DEF ConnectionsTypeOK
    <3>2. /\ Append(sent[d], b) \in Seq(Letters)
          /\ Len(Append(sent[d], b)) = Len(sent[d]) + 1
          /\ \A k \in 1 .. Len(sent[d]) : Append(sent[d], b)[k] = sent[d][k]
      BY <1>0, AppendProperties
    <3>3. ASSUME NEW n \in 0 .. Len(sent[d])
          PROVE  SubSeq(Append(sent[d], b), 1, n) = SubSeq(sent[d], 1, n)
      <4>1. \A k \in 1 .. n : /\ sent[d][k] \in Letters
                              /\ Append(sent[d], b)[k] = sent[d][k]
        BY <1>0, <3>2, ElementOfSeq
      <4>2. /\ SubSeq(sent[d], 1, n) \in Seq(Letters) /\ Len(SubSeq(sent[d], 1, n)) = n
            /\ \A k \in 1 .. n : SubSeq(sent[d], 1, n)[k] = sent[d][k]
        BY <1>0, <4>1, SubSeqProperties
      <4>3. /\ SubSeq(Append(sent[d], b), 1, n) \in Seq(Letters)
            /\ Len(SubSeq(Append(sent[d], b), 1, n)) = n
            /\ \A k \in 1 .. n : SubSeq(Append(sent[d], b), 1, n)[k] = Append(sent[d], b)[k]
        BY <1>0, <4>1, SubSeqProperties
      <4> QED BY <4>1, <4>2, <4>3, SeqEqual
    <3> QED BY <1>0, <1>1, <3>1, <3>2, <3>3 DEF ClientSend
  <2>3. CASE d # c
    BY <1>0, <1>1, <2>1, <2>3 DEF ClientSend, ConnectionsTypeOK
  <2> QED BY <2>2, <2>3
<1>2. CASE ~ ClientSend(c)
  BY <1>0, <1>2 DEF ClientMoves, Connect, ClientShutdown, ClientReset, ClientRead
<1> QED BY <1>1, <1>2

LEMMA IntactClient ==
    ASSUME ConnectionsTypeOK, stored \in [Clients -> Seq(Letters)], Intact,
           NEW c \in Clients, ClientMoves(c), UNCHANGED <<state, stored>>
    PROVE  Intact'
<1>1. Live' = Live /\ conn' = conn
  BY ClientsType DEF Live
<1>2. \A d \in Clients : Len(sent[d]) \in Nat /\ rpos[d] \in Nat
  BY LenProperties DEF ConnectionsTypeOK
<1>3. rpos' = rpos
  BY ClientsSend
<1>4. ASSUME NEW d \in Clients
      PROVE  /\ rpos'[d] <= Len(sent'[d])
             /\ rpos'[d] <= MaxLine => stored'[d] = SubSeq(sent'[d], 1, rpos'[d])
  <2>1. /\ Len(sent'[d]) >= Len(sent[d])
        /\ \A n \in 0 .. Len(sent[d]) : SubSeq(sent'[d], 1, n) = SubSeq(sent[d], 1, n)
    BY ClientsSend
  <2>2. Len(sent'[d]) \in Nat
    BY ClientsType, LenProperties DEF ConnectionsTypeOK
  <2>3. rpos[d] \in 0 .. Len(sent[d])
    BY <1>2 DEF Intact
  <2>4. SubSeq(sent'[d], 1, rpos[d]) = SubSeq(sent[d], 1, rpos[d])
    BY <2>1, <2>3
  <2> QED BY <1>2, <1>3, <2>1, <2>2, <2>3, <2>4 DEF Intact, NothingLostBelowMaxLine
<1> QED BY <1>1, <1>3, <1>4 DEF Intact, NothingLostBelowMaxLine

(* The steps that receive nothing: buffers shrink, go, or come empty.      *)
LEMMA IntactKept ==
    ASSUME ConnectionsTypeOK, Intact, UNCHANGED <<sent, rpos, stored>>,
           \A f \in Live' :
              \/ /\ f \in Live /\ conn'[f] = conn[f]
                 /\ Len(state'[f].buffer) <= Len(state[f].buffer)
                 /\ conn[f] \in Clients
                 /\ state[f] \in FdState /\ state'[f] \in FdState
              \/ conn'[f] \in Clients /\ state'[f] = alloc_fd_state
    PROVE  Intact'
<1>1. ASSUME NEW f \in Live' PROVE Len(state'[f].buffer) <= rpos[conn'[f]]
  <2>1. CASE conn'[f] \in Clients /\ state'[f] = alloc_fd_state
    <3>1. Len(alloc_fd_state.buffer) = 0
      BY EmptySeq DEF alloc_fd_state
    <3> QED BY <2>1, <3>1 DEF ConnectionsTypeOK
  <2>2. CASE /\ f \in Live /\ conn'[f] = conn[f]
             /\ Len(state'[f].buffer) <= Len(state[f].buffer)
             /\ conn[f] \in Clients
             /\ state[f] \in FdState /\ state'[f] \in FdState
    <3>1. /\ Len(state'[f].buffer) \in Nat /\ Len(state[f].buffer) \in Nat
          /\ rpos[conn[f]] \in Nat
      BY <2>2, LenProperties DEF FdState, ConnectionsTypeOK
    <3>2. Len(state[f].buffer) <= rpos[conn[f]]
      BY <2>2 DEF Intact
    <3> QED BY <2>2, <3>1, <3>2
  <2> QED BY <2>1, <2>2
<1>2. \A c \in Clients : rpos'[c] <= Len(sent'[c])
  BY DEF Intact
<1>3. NothingLostBelowMaxLine'
  BY DEF Intact, NothingLostBelowMaxLine
<1> QED BY <1>1, <1>2, <1>3 DEF Intact

(* do_read: a chunk that stays within the first MAX_LINE bytes fits.       *)
LEMMA IntactStore ==
    ASSUME ConnectionsTypeOK, stored \in [Clients -> Seq(Letters)], Intact,
           \A g \in Live : conn[g] \in Clients,
           NEW f \in Live, state[f] \in FdState, CursorsInOrder(state[f]),
           Inbound(conn[f]) > 0,
           Live' = Live, state'[f] = StoreChunk(state[f], Chunk(conn[f])),
           \A g \in Live : g # f => state'[g] = state[g] /\ state[g] \in FdState,
           rpos' = [rpos EXCEPT ![conn[f]] = @ + Len(Chunk(conn[f]))],
           stored' = [stored EXCEPT ![conn[f]] = @ \o Added(state[f], Chunk(conn[f]))],
           UNCHANGED <<sent, conn>>
    PROVE  Intact'
<1> DEFINE c == conn[f]
           s == Chunk(c)
           st == state[f]
           r == rpos[c]
           n == Len(s)
           t == Taken(st, n)
<1>1. /\ c \in Clients /\ r \in Nat /\ sent[c] \in Seq(Letters) /\ Len(sent[c]) \in Nat
      /\ MaxLine \in Nat
  BY LenProperties, MaxLineAssumption DEF ConnectionsTypeOK
<1>2. /\ s \in Seq(Letters) /\ s \in Seq(Char) /\ n \in Nat
      /\ s = SubSeq(sent[c], r + 1, r + n) /\ r + n <= Len(sent[c])
  <2>1. s \in Seq(Letters) /\ s \in Seq(Char) /\ n \in Nat
    BY <1>1, ChunkFacts
  <2> DEFINE m == Least(RecvMax, Inbound(c))
  <2>2. m \in Nat /\ r + m <= Len(sent[c])
    BY <1>1, ConnectionsAssumption DEF Least, Inbound
  <2>3. s = SubSeq(sent[c], r + 1, r + m)
    BY DEF Chunk
  <2> HIDE DEF m, c, r
  <2>4. \A k \in r + 1 .. r + m : sent[c][k] \in Letters
    BY <1>1, <2>2, ElementOfSeq
  <2>5. Len(SubSeq(sent[c], r + 1, r + m)) = m
    BY <1>1, <2>2, <2>4, SubSeqProperties
  <2> QED BY <2>1, <2>2, <2>3, <2>5
<1>3. /\ rpos'[c] = r + n /\ stored'[c] = stored[c] \o Added(st, s)
      /\ \A d \in Clients : d # c => rpos'[d] = rpos[d] /\ stored'[d] = stored[d]
  BY <1>1 DEF ConnectionsTypeOK
<1>4. /\ Added(st, s) \in Seq(Letters) /\ Len(Added(st, s)) = t
      /\ t \in 0 .. n /\ (t < n => Len(st.buffer) + t = MaxLine)
  BY <1>2, TakenBounds, AddedProperties, ConnectionsAssumption
<1>5. /\ Len(StoreChunk(st, s).buffer) = Len(st.buffer) + t
      /\ Len(st.buffer) \in Nat /\ Len(st.buffer) <= r
  <2>1. Added(st, s) \in Seq(Char) /\ st.buffer \in Seq(Char)
    BY <1>2, AddedProperties DEF FdState
  <2>2. Rot13(Added(st, s)) \in Seq(Char) /\ Len(Rot13(Added(st, s))) = t
    BY <1>4, <2>1, Rot13Sequence
  <2>3. StoreChunk(st, s).buffer = st.buffer \o Rot13(Added(st, s))
    BY <1>2, StoreChunkProperties
  <2>4. Len(st.buffer) <= r
    BY DEF Intact
  <2> HIDE DEF st, s, t, r
  <2> QED BY <2>1, <2>2, <2>3, <2>4, ConcatProperties, LenProperties
<1>6. /\ state'[f] = StoreChunk(st, s) /\ c = conn[f]
      /\ Added(st, s) = SubSeq(s, 1, t) /\ Len(s) = n
      /\ r = rpos[c] /\ (r <= MaxLine => stored[c] = SubSeq(sent[c], 1, r))
  BY <1>1 DEF Added, Intact, NothingLostBelowMaxLine
<1> HIDE DEF c, s, st, r, n, t
<1>7. r + n <= MaxLine => stored'[c] = SubSeq(sent[c], 1, r + n)
  <2> SUFFICES ASSUME r + n <= MaxLine PROVE stored'[c] = SubSeq(sent[c], 1, r + n)
    OBVIOUS
  <2>1. t = n /\ r <= MaxLine
    BY <1>1, <1>2, <1>4, <1>5
  <2>2. Added(st, s) = s
    BY <1>2, <1>6, <2>1, SubSeqFull
  <2>3. SubSeq(sent[c], 1, r) \o SubSeq(sent[c], r + 1, r + n) = SubSeq(sent[c], 1, r + n)
    <3>1. 1 \in 1 .. Len(sent[c]) + 1 /\ r \in 1 - 1 .. Len(sent[c]) /\ r + n \in r .. Len(sent[c])
      BY <1>1, <1>2
    <3> QED BY <1>1, <3>1, ConcatAdjacentSubSeq
  <2> QED BY <1>2, <1>3, <1>6, <2>1, <2>2, <2>3
<1>8. \A d \in Clients : rpos[d] \in Nat /\ rpos'[d] \in Nat /\ rpos'[d] >= rpos[d]
  <2>1. \A d \in Clients : rpos[d] \in Nat
    BY DEF ConnectionsTypeOK
  <2>2. r \in Nat /\ n \in Nat /\ rpos[c] = r /\ rpos'[c] = r + n
    BY <1>1, <1>2, <1>3, <1>6
  <2>3. \A d \in Clients : d # c => rpos'[d] = rpos[d]
    BY <1>3
  <2> QED BY <2>1, <2>2, <2>3
<1>9. ASSUME NEW g \in Live PROVE Len(state'[g].buffer) <= rpos'[conn[g]]
  <2>1. CASE g = f
    <3>1. /\ Len(state'[g].buffer) = Len(st.buffer) + t /\ rpos'[conn[g]] = r + n
          /\ Len(st.buffer) \in Nat /\ Len(st.buffer) <= r /\ t \in 0 .. n /\ n \in Nat
          /\ r \in Nat
      BY <1>1, <1>2, <1>3, <1>4, <1>5, <1>6, <2>1
    <3> QED BY <3>1
  <2>2. CASE g # f
    <3>1. Len(state[g].buffer) \in Nat /\ state'[g] = state[g]
      BY <2>2, LenProperties DEF FdState
    <3>2. Len(state[g].buffer) <= rpos[conn[g]]
      BY DEF Intact
    <3> QED BY <1>8, <3>1, <3>2
  <2> QED BY <2>1, <2>2
<1>10. \A d \in Clients : rpos'[d] <= Len(sent[d])
  BY <1>2, <1>3 DEF Intact
<1>11. ASSUME NEW d \in Clients, rpos'[d] <= MaxLine
       PROVE  stored'[d] = SubSeq(sent[d], 1, rpos'[d])
  <2>1. CASE d = c
    BY <1>3, <1>7, <1>11, <2>1
  <2>2. CASE d # c
    BY <1>3, <1>11, <2>2 DEF Intact, NothingLostBelowMaxLine
  <2> QED BY <2>1, <2>2
<1> QED BY <1>9, <1>10, <1>11 DEF Intact, NothingLostBelowMaxLine

LEMMA FinishShrinks ==
    ASSUME NEW st \in FdState, NEW base \in Nat,
           st.n_written = Len(st.buffer) => base <= Len(st.buffer)
    PROVE  Len(FinishWrite(st, base).buffer) <= Len(st.buffer)
<1>1. st.buffer \in Seq(Char) /\ Len(st.buffer) \in Nat
  BY LenProperties DEF FdState
<1>2. CASE st.n_written = Len(st.buffer)
  <2>1. \A k \in 1 .. base : st.buffer[k] \in Char
    BY <1>1, <1>2, ElementOfSeq
  <2>2. Len(SubSeq(st.buffer, 1, base)) = base
    BY <2>1, SubSeqProperties
  <2> QED BY <1>1, <1>2, <2>2 DEF FinishWrite, buffer_used
<1>3. CASE st.n_written # Len(st.buffer)
  BY <1>1, <1>3 DEF FinishWrite, buffer_used, FdState
<1> QED BY <1>2, <1>3

-----------------------------------------------------------------------------
(* The refinement of LineEcho. What remains of a stream after the bytes    *)
(* that are committed holds no newline.                                    *)
NoneLeft(st, ech, sto) ==
    \A m \in Len(ech) + Unsent(st) + 1 .. Len(sto) : sto[m] # NL

LEMMA CommitStore ==
    ASSUME NEW st \in FdState, CursorsInOrder(st), NEW S \in SUBSET Char,
           NEW ech \in Seq(Char), NEW sto \in Seq(S), NEW s \in Seq(S),
           Carries(st, ech, sto), NoneLeft(st, ech, sto)
    PROVE  LET new == StoreChunk(st, s)
               acc == sto \o Added(st, s)
               k   == Len(ech) + Unsent(new)
           IN  /\ NoneLeft(new, ech, acc)
               /\ k >= Len(ech) + Unsent(st)
               /\ \/ k = Len(ech) + Unsent(st)
                  \/ k = Len(acc)
                  \/ k \in 1 .. Len(acc) /\ acc[k] = NL
<1> DEFINE new == StoreChunk(st, s)
           a   == Added(st, s)
           acc == sto \o a
           t   == Taken(st, Len(s))
           u   == Len(st.buffer)
           k   == Len(ech) + Unsent(new)
<1>1. /\ s \in Seq(Char) /\ Len(s) \in Nat /\ Len(sto) \in Nat /\ Len(ech) \in Nat
      /\ st.n_written \in Nat /\ st.write_upto \in Nat /\ st.buffer \in Seq(Char)
      /\ u \in Nat
      /\ st.n_written <= st.write_upto /\ st.write_upto <= u
  BY SeqMonotonic, LenProperties DEF FdState, CursorsInOrder
<1>2. /\ t \in 0 .. Len(s)
      /\ a \in Seq(S) /\ Len(a) = t /\ \A j \in 1 .. t : a[j] = s[j]
  BY <1>1, TakenBounds, AddedProperties
<1>3. /\ Len(acc) = Len(sto) + t
      /\ \A j \in 1 .. Len(sto) : acc[j] = sto[j]
      /\ \A j \in 1 .. t : acc[Len(sto) + j] = s[j]
  <2>1. sto \in Seq(S) /\ a \in Seq(S)
    BY <1>2
  <2> HIDE DEF a
  <2>2. /\ Len(sto \o a) = Len(sto) + Len(a)
        /\ \A j \in 1 .. Len(sto) : (sto \o a)[j] = sto[j]
        /\ \A j \in 1 .. Len(a) : (sto \o a)[Len(sto) + j] = a[j]
    BY <2>1, ConcatProperties
  <2> QED BY <1>2, <2>2
<1>4. Len(sto) = Len(ech) + u - st.n_written
  BY <1>1 DEF Carries, Remains
<1>5. new.n_written = st.n_written
  BY <1>1, StoreChunkProperties
<1>6. CASE Newlines(s) = {}
  <2>1. new.write_upto = st.write_upto
    BY <1>6 DEF StoreChunk, FdState
  <2>2. Unsent(new) = Unsent(st)
    BY <1>5, <2>1 DEF Unsent
  <2>3. \A j \in 1 .. Len(s) : s[j] # NL
    BY <1>6 DEF Newlines
  <2>4. ASSUME NEW m \in Len(ech) + Unsent(new) + 1 .. Len(acc) PROVE acc[m] # NL
    <3>1. Unsent(st) \in Nat
      BY <1>1 DEF Unsent
    <3>2. CASE m <= Len(sto)
      <4>1. m \in Len(ech) + Unsent(st) + 1 .. Len(sto) /\ m \in 1 .. Len(sto)
        BY <1>1, <2>2, <2>4, <3>1, <3>2
      <4> QED BY <1>3, <4>1 DEF NoneLeft
    <3>3. CASE m > Len(sto)
      <4>1. m - Len(sto) \in 1 .. t /\ m = Len(sto) + (m - Len(sto))
        BY <1>1, <1>2, <1>3, <2>2, <2>4, <3>1, <3>3
      <4> QED BY <1>2, <1>3, <2>3, <4>1
    <3> QED BY <1>1, <2>2, <2>4, <3>1, <3>2, <3>3
  <2>5. NoneLeft(new, ech, acc)
    BY <2>4 DEF NoneLeft
  <2>6. k = Len(ech) + Unsent(st) /\ k >= Len(ech) + Unsent(st)
    BY <1>1, <2>2 DEF Unsent
  <2> QED BY <2>5, <2>6
<1>7. CASE Newlines(s) # {}
  <2> DEFINE m == Max(Newlines(s))
  <2>1. /\ m \in 1 .. Len(s) /\ s[m] = NL
        /\ \A j \in 1 .. Len(s) : s[j] = NL => j <= m
    <3>1. Newlines(s) \in SUBSET (1 .. Len(s))
      BY DEF Newlines
    <3>2. m \in Newlines(s) /\ \A j \in Newlines(s) : m >= j
      BY <1>1, <1>7, <3>1, MaxPosition
    <3> QED BY <1>1, <3>2 DEF Newlines
  <2>2. new.write_upto = u + Taken(st, m)
    BY <1>7 DEF StoreChunk, FdState, buffer_used
  <2>3. /\ Taken(st, m) \in 0 .. m /\ Taken(st, m) <= t
        /\ Taken(st, m) < m => Taken(st, m) = t
    <3>1. m \in 0 .. Len(s) /\ m \in Nat
      BY <1>1, <2>1
    <3>2. /\ Taken(st, m) \in 0 .. m /\ Taken(st, m) <= t
          /\ Taken(st, m) < m => u + Taken(st, m) = MaxLine
          /\ u + t <= MaxLine
      BY <1>1, <3>1, TakenBounds
    <3> QED BY <1>1, <1>2, <3>1, <3>2, MaxLineAssumption
  <2>4. k = Len(sto) + Taken(st, m) /\ Taken(st, m) \in Nat /\ m \in Nat
    <3>1. m \in Nat /\ Taken(st, m) \in Nat
      BY <1>1, <2>1, <2>3
    <3>2. Unsent(new) = u + Taken(st, m) - st.n_written
      BY <1>1, <1>5, <2>2, <3>1 DEF Unsent
    <3>3. k = Len(ech) + (u + Taken(st, m) - st.n_written)
      BY <3>2
    <3> QED BY <1>1, <1>4, <3>1, <3>3
  <2> HIDE DEF m, t, new, acc, a
  <2>5. CASE Taken(st, m) = m
    <3>1. k = Len(sto) + m /\ m \in 1 .. t
      BY <1>1, <1>2, <2>1, <2>3, <2>4, <2>5
    <3>2. k \in 1 .. Len(acc) /\ acc[k] = NL
      BY <1>1, <1>2, <1>3, <2>1, <3>1
    <3>3. ASSUME NEW j \in k + 1 .. Len(acc) PROVE acc[j] # NL
      <4>1. j - Len(sto) \in 1 .. t /\ j = Len(sto) + (j - Len(sto)) /\ j - Len(sto) > m
        BY <1>1, <1>2, <1>3, <2>1, <3>1, <3>3
      <4>2. s[j - Len(sto)] # NL
        BY <1>1, <1>2, <2>1, <4>1
      <4> QED BY <1>3, <4>1, <4>2
    <3>4. k >= Len(ech) + Unsent(st)
      BY <1>1, <1>2, <1>4, <2>1, <2>4, <3>1 DEF Unsent
    <3> QED BY <3>2, <3>3, <3>4 DEF NoneLeft, new, acc, a
  <2>6. CASE Taken(st, m) # m
    <3>1. Taken(st, m) = t /\ k = Len(acc)
      BY <1>1, <1>2, <1>3, <2>1, <2>3, <2>4, <2>6
    <3>2. NoneLeft(new, ech, acc)
      BY <1>1, <1>2, <1>3, <3>1 DEF NoneLeft
    <3>3. k >= Len(ech) + Unsent(st)
      BY <1>1, <1>2, <1>4, <2>4, <3>1 DEF Unsent
    <3> QED BY <3>1, <3>2, <3>3 DEF new, acc, a
  <2> QED BY <2>5, <2>6
<1> QED BY <1>6, <1>7

(* No client is behind two line buffers: the one that BufferOf chooses is  *)
(* the only one there is.                                                  *)
Apart ==
    /\ \A f \in Live : f \in Fds /\ conn[f] \in Clients
    /\ \A f, g \in Live : conn[f] = conn[g] => f = g

LEMMA ChosenBuffer ==
    ASSUME NEW L, NEW cn, NEW f \in L, \A g \in L : cn[g] = cn[f] => g = f
    PROVE  (CHOOSE g \in L : cn[g] = cn[f]) = f
<1>1. \E g \in L : cn[g] = cn[f]
  OBVIOUS
<1> QED BY <1>1

LEMMA CommittedServed ==
    ASSUME Apart, NEW c, NEW f \in Live, conn[f] = c
    PROVE  Served(c) /\ Committed(c) = Len(echoed[c]) + Unsent(state[f])
<1>1. (CHOOSE g \in Live : conn[g] = conn[f]) = f
  BY ChosenBuffer DEF Apart
<1> QED BY <1>1 DEF Served, Committed, BufferOf

LEMMA CommittedServedAfter ==
    ASSUME Apart', NEW c, NEW f \in Live', conn'[f] = c
    PROVE  Served(c)' /\ Committed(c)' = Len(echoed'[c]) + Unsent(state'[f])
<1>1. (CHOOSE g \in Live' : conn'[g] = conn'[f]) = f
  BY ChosenBuffer DEF Apart
<1> QED BY <1>1 DEF Served, Committed, BufferOf, Unsent

LEMMA CommittedUnserved ==
    ASSUME NEW c, Len(echoed[c]) \in Nat
    PROVE  ~ Served(c) => Committed(c) = Len(echoed[c])
BY DEF Committed

LEMMA CommittedUnservedAfter ==
    ASSUME NEW c, Len(echoed'[c]) \in Nat
    PROVE  ~ Served(c)' => Committed(c)' = Len(echoed'[c])
BY DEF Committed

(* A client that the server has not come to yet.                           *)
NotYet(c) == peer[c] = "idle" \/ \E k \in 1 .. Len(backlog) : backlog[k] = c

LEMMA HungUpMeans ==
    /\ \A c : c \in HungUp <=> c \in Clients /\ ~ NotYet(c) /\ ~ Served(c)
    /\ \A c : c \in HungUp' <=> c \in Clients /\ ~ NotYet(c)' /\ ~ Served(c)'
BY DEF HungUp, NotYet, Served

LEMMA ServedNotWaiting ==
    ASSUME ConnectionsTypeOK, Waiting, Apart, NEW c \in Clients, Served(c)
    PROVE  ~ NotYet(c)
BY ConnectionsAssumption DEF Served, Apart, Waiting, NotYet

LEMMA NotYetClient ==
    ASSUME ConnectionsTypeOK, NEW c \in Clients, ClientMoves(c),
           NEW d \in Clients, NotYet(d)'
    PROVE  NotYet(d)
<1>1. CASE Connect(c)
  <2>1. /\ peer[c] = "idle" /\ peer' = [peer EXCEPT ![c] = "open"]
        /\ backlog' = Append(backlog, c) /\ backlog \in Seq(Clients)
    BY <1>1 DEF Connect, ConnectionsTypeOK
  <2>2. \A k \in 1 .. Len(backlog') :
           (k \in 1 .. Len(backlog) /\ backlog'[k] = backlog[k]) \/ backlog'[k] = c
    BY <2>1, AppendProperties, LenProperties
  <2> QED BY <2>1, <2>2 DEF NotYet, ConnectionsTypeOK
<1>2. CASE ~ Connect(c)
  BY <1>2 DEF ClientMoves, ClientSend, ClientShutdown, ClientReset, ClientRead,
              NotYet, ConnectionsTypeOK
<1> QED BY <1>1, <1>2

LEMMA NotYetAccept ==
    ASSUME ConnectionsTypeOK, Waiting, backlog # <<>>, backlog' = Tail(backlog),
           peer' = peer, NEW d \in Clients, NotYet(d)'
    PROVE  NotYet(d)
<1>1. \A k \in 1 .. Len(backlog') : /\ k + 1 \in 1 .. Len(backlog)
                                    /\ backlog'[k] = backlog[k + 1]
  BY FirstWaiting
<1> QED BY <1>1 DEF NotYet

(* What is left of a stream after the committed bytes holds no newline.    *)
Uncommitted == \A f \in Live : NoneLeft(state[f], echoed[conn[f]], stored[conn[f]])

(* A step of a client, of a callback that frees a line buffer, of a loop   *)
(* that ends: the server hangs up on those that it will serve no more, on  *)
(* none of them in most of these steps.                                    *)
LEMMA RefineHangUp ==
    ASSUME ConnectionsTypeOK, Waiting, Apart, Uncommitted,
           UNCHANGED <<stored, echoed>>,
           \A f \in Live' : f \in Live /\ conn'[f] = conn[f] /\ state'[f] = state[f],
           \A c \in Clients : NotYet(c)' => NotYet(c)
    PROVE  LE!HangUp /\ Apart' /\ Uncommitted'
<1>1. Apart' /\ Uncommitted'
  BY DEF Apart, Uncommitted, NoneLeft, Unsent
<1>2. \A c : Served(c)' => Served(c)
  BY DEF Served
<1> DEFINE C == HungUp' \ HungUp
<1>3. C \in SUBSET (Clients \ HungUp) /\ HungUp' = HungUp \cup C
  <2>1. \A c \in HungUp : c \in HungUp'
    BY <1>2, HungUpMeans
  <2> QED BY <2>1, HungUpMeans
<1>4. \A c \in Clients : Len(echoed[c]) \in Nat /\ echoed'[c] = echoed[c]
  BY LenProperties DEF ConnectionsTypeOK
<1>5. ASSUME NEW c \in C PROVE Committed(c)' = Len(echoed[c])
  BY <1>4, HungUpMeans, CommittedUnservedAfter
<1>6. ASSUME NEW c \in Clients, c \notin C PROVE Committed(c)' = Committed(c)
  <2>1. CASE Served(c)'
    <3>1. PICK f \in Live' : conn'[f] = c
      BY <2>1 DEF Served
    <3>2. f \in Live /\ conn[f] = c /\ state'[f] = state[f]
      BY <3>1
    <3> QED BY <1>1, <1>4, <3>1, <3>2, CommittedServed, CommittedServedAfter
  <2>2. CASE ~ Served(c)'
    <3>1. ~ Served(c)
      BY <1>6, <2>2, HungUpMeans, ServedNotWaiting
    <3> QED BY <1>4, <2>2, <3>1, CommittedUnserved, CommittedUnservedAfter
  <2> QED BY <2>1, <2>2
<1>7. [c \in Clients |-> Committed(c)']
         = [c \in Clients |-> IF c \in C THEN Len(echoed[c])
                              ELSE [d \in Clients |-> Committed(d)][c]]
  BY <1>5, <1>6
<1> HIDE DEF C
<1> QED BY <1>1, <1>3, <1>7 DEF LE!HangUp

(* A client of the backlog gets an empty line buffer: nothing was accepted *)
(* from it, committed or echoed to it yet.                                 *)
LEMMA RefineAccept ==
    ASSUME ConnectionsTypeOK, stored \in [Clients -> Seq(Letters)], Waiting, Apart,
           Streams, Uncommitted, backlog # <<>>, backlog' = Tail(backlog),
           UNCHANGED <<peer, stored, echoed>>,
           NEW f \in Fds, f \notin Live, Live' = Live \cup {f},
           conn'[f] = Head(backlog), state'[f] = alloc_fd_state,
           \A g \in Live : conn'[g] = conn[g] /\ state'[g] = state[g]
    PROVE  UNCHANGED LE!evars /\ Apart' /\ Uncommitted'
<1> DEFINE h == Head(backlog)
<1>1. /\ h \in Clients /\ h # NULL /\ h = backlog[1] /\ 1 \in 1 .. Len(backlog)
      /\ \A g \in Fds : h # conn[g]
      /\ \A k \in 1 .. Len(backlog') : /\ k + 1 \in 2 .. Len(backlog)
                                       /\ backlog'[k] = backlog[k + 1]
      /\ Len(backlog) \in Nat
      /\ Len(backlog') = Len(backlog) - 1
  BY FirstWaiting
<1>2. Apart'
  BY <1>1 DEF Apart
<1>3. Len(stored[h]) = 0 /\ Len(echoed[h]) = 0
  <2>1. Len(stored[h]) = 0 /\ Len(echoed[h]) \in Nat /\ Len(echoed[h]) <= Len(stored[h])
    BY <1>1, LenProperties DEF Streams, Begins, ConnectionsTypeOK
  <2> QED BY <2>1
<1>4. Unsent(alloc_fd_state) = 0
  BY AllocProperties
<1>5. Uncommitted'
  <2>1. NoneLeft(alloc_fd_state, echoed[h], stored[h])
    BY <1>3, <1>4 DEF NoneLeft
  <2> QED BY <2>1 DEF Uncommitted, NoneLeft, Unsent
<1>6. ASSUME NEW c \in Clients
      PROVE  /\ Committed(c)' = Committed(c)
             /\ c \in HungUp' <=> c \in HungUp
  <2>1. Len(echoed[c]) \in Nat /\ echoed'[c] = echoed[c]
    BY LenProperties DEF ConnectionsTypeOK
  <2>2. CASE c = h
    <3>1. ~ Served(c)
      BY <1>1, <2>2 DEF Served, Apart
    <3>2. Served(c)' /\ Committed(c)' = Len(echoed[c]) + 0
      BY <1>2, <1>4, <2>1, <2>2, CommittedServedAfter
    <3>3. NotYet(c)
      BY <1>1, <2>2 DEF NotYet
    <3> QED BY <2>1, <3>1, <3>2, <3>3, HungUpMeans, CommittedUnserved
  <2>3. CASE c # h
    <3>1. NotYet(c)' <=> NotYet(c)
      <4>1. ASSUME NEW k \in 1 .. Len(backlog), backlog[k] = c
            PROVE  \E l \in 1 .. Len(backlog') : backlog'[l] = c
        <5>1. k # 1
          BY <1>1, <2>3, <4>1
        <5>2. k - 1 \in 1 .. Len(backlog') /\ (k - 1) + 1 = k
          BY <1>1, <5>1
        <5> QED BY <1>1, <4>1, <5>2
      <4>2. ASSUME NEW k \in 1 .. Len(backlog'), backlog'[k] = c
            PROVE  \E l \in 1 .. Len(backlog) : backlog[l] = c
        <5>1. k + 1 \in 1 .. Len(backlog)
          BY <1>1
        <5> QED BY <1>1, <4>2, <5>1
      <4> QED BY <4>1, <4>2 DEF NotYet
    <3>2. CASE Served(c)
      <4>1. PICK g \in Live : conn[g] = c
        BY <3>2 DEF Served
      <4>2. g \in Live' /\ conn'[g] = c /\ state'[g] = state[g]
        BY <4>1
      <4> QED BY <1>2, <2>1, <3>1, <4>1, <4>2, HungUpMeans, CommittedServed,
                 CommittedServedAfter
    <3>3. CASE ~ Served(c)
      <4>1. ~ Served(c)'
        BY <2>3, <3>3 DEF Served
      <4> QED BY <2>1, <3>1, <3>3, <4>1, HungUpMeans, CommittedUnserved,
                 CommittedUnservedAfter
    <3> QED BY <3>2, <3>3
  <2> QED BY <2>2, <2>3
<1>7. HungUp' = HungUp
  BY <1>6, HungUpMeans
<1>8. [c \in Clients |-> Committed(c)'] = [c \in Clients |-> Committed(c)]
  BY <1>6
<1> QED BY <1>2, <1>5, <1>7, <1>8 DEF LE!evars

(* A handler commits for its own client only, and hangs up on none.        *)
LEMMA RefineHandler ==
    ASSUME ConnectionsTypeOK, stored \in [Clients -> Seq(Letters)], Waiting, Apart,
           Uncommitted,
           NEW f \in Live, NEW st,
           Live' = Live, state'[f] = st, \A g \in Live : g # f => state'[g] = state[g],
           NEW ech, echoed' = [echoed EXCEPT ![conn[f]] = ech],
           NEW sto, stored' = [stored EXCEPT ![conn[f]] = sto],
           NoneLeft(st, ech, sto), Len(ech) \in Nat,
           UNCHANGED <<conn, backlog, peer>>
    PROVE  /\ Apart' /\ Uncommitted'
           /\ HungUp' = HungUp /\ conn[f] \notin HungUp
           /\ Committed(conn[f]) = Len(echoed[conn[f]]) + Unsent(state[f])
           /\ [c \in Clients |-> Committed(c)']
                 = [[c \in Clients |-> Committed(c)] EXCEPT
                      ![conn[f]] = Len(ech) + Unsent(st)]
<1> DEFINE c == conn[f]
<1>1. c \in Clients /\ f \in Fds
  BY DEF Apart
<1>2. /\ echoed'[c] = ech /\ stored'[c] = sto
      /\ \A d \in Clients : d # c => echoed'[d] = echoed[d] /\ stored'[d] = stored[d]
  BY <1>1 DEF ConnectionsTypeOK
<1>3. Apart'
  BY DEF Apart
<1>4. \A g \in Live : g # f => conn[g] # c /\ conn[g] \in Clients
  BY DEF Apart
<1>5. Uncommitted'
  <2> SUFFICES ASSUME NEW g \in Live
               PROVE  NoneLeft(state'[g], echoed'[conn[g]], stored'[conn[g]])
    BY DEF Uncommitted, NoneLeft, Unsent
  <2>1. CASE g = f
    BY <1>2, <2>1
  <2>2. CASE g # f
    BY <1>2, <1>4, <2>2 DEF Uncommitted
  <2> QED BY <2>1, <2>2
<1>6. \A d : Served(d)' <=> Served(d)
  BY DEF Served
<1>7. \A d : NotYet(d)' <=> NotYet(d)
  BY DEF NotYet
<1>8. HungUp' = HungUp /\ c \notin HungUp
  <2>1. Served(c)
    BY DEF Served
  <2> QED BY <1>6, <1>7, <2>1, HungUpMeans
<1>9. Committed(c)' = Len(ech) + Unsent(st)
  BY <1>2, <1>3, CommittedServedAfter
<1>10. ASSUME NEW d \in Clients, d # c PROVE Committed(d)' = Committed(d)
  <2>1. Len(echoed[d]) \in Nat /\ echoed'[d] = echoed[d]
    BY <1>2, <1>10, LenProperties DEF ConnectionsTypeOK
  <2>2. CASE Served(d)
    <3>1. PICK g \in Live : conn[g] = d
      BY <2>2 DEF Served
    <3>2. g \in Live' /\ conn'[g] = d /\ state'[g] = state[g]
      BY <1>10, <3>1
    <3> QED BY <1>3, <2>1, <3>1, <3>2, CommittedServed, CommittedServedAfter
  <2>3. CASE ~ Served(d)
    BY <1>6, <2>1, <2>3, CommittedUnserved, CommittedUnservedAfter
  <2> QED BY <2>2, <2>3
<1>11. Committed(c) = Len(echoed[c]) + Unsent(state[f])
  BY CommittedServed
<1>12. [d \in Clients |-> Committed(d)']
         = [[d \in Clients |-> Committed(d)] EXCEPT ![c] = Len(ech) + Unsent(st)]
  BY <1>1, <1>9, <1>10
<1> QED BY <1>3, <1>5, <1>8, <1>11, <1>12

LEMMA SameTransformation ==
    LE!NL = NL /\ \A s : LE!Rot13(s) = Rot13(s)
BY DEF LE!NL, NL, LE!Rot13, Rot13, LE!rot13_char, rot13_char,
       LE!FirstHalf, FirstHalf, LE!SecondHalf, SecondHalf

(* do_read: bytes are accepted, and committed by the newlines among them.  *)
LEMMA RefineStore ==
    ASSUME ConnectionsTypeOK, stored \in [Clients -> Seq(Letters)], Waiting, Apart,
           Streams, Uncommitted,
           NEW f \in Live, state[f] \in FdState, CursorsInOrder(state[f]),
           NEW s \in Seq(Letters), Len(s) <= RecvMax,
           Live' = Live, state'[f] = StoreChunk(state[f], s),
           \A g \in Live : g # f => state'[g] = state[g],
           stored' = [stored EXCEPT ![conn[f]] = @ \o Added(state[f], s)],
           UNCHANGED <<echoed, conn, backlog, peer>>
    PROVE  LE!Receive(conn[f]) /\ Apart' /\ Uncommitted'
<1> DEFINE c == conn[f]
           st == state[f]
           new == StoreChunk(st, s)
           a == Added(st, s)
           ech == echoed[c]
           sto == stored[c]
           acc == sto \o a
           k == Len(ech) + Unsent(new)
<1>1. /\ c \in Clients /\ ech \in Seq(Char) /\ sto \in Seq(Letters)
      /\ Letters \in SUBSET Char /\ Len(ech) \in Nat
      /\ Carries(st, ech, sto) /\ NoneLeft(st, ech, sto)
  BY LenProperties, ConnectionsAssumption
  DEF ConnectionsTypeOK, Apart, Streams, Uncommitted
<1>2. /\ NoneLeft(new, ech, acc)
      /\ k >= Len(ech) + Unsent(st)
      /\ \/ k = Len(ech) + Unsent(st)
         \/ k = Len(acc)
         \/ k \in 1 .. Len(acc) /\ acc[k] = NL
  BY <1>1, CommitStore
<1>3. a \in UNION {[1 .. n -> Letters] : n \in 0 .. RecvMax}
  <2>1. /\ a \in Seq(Letters) /\ Len(a) = Taken(st, Len(s))
        /\ Taken(st, Len(s)) \in 0 .. Len(s)
        /\ Len(s) \in Nat
    BY <1>1, AddedProperties, TakenBounds, SeqMonotonic, LenProperties
  <2>2. Len(a) \in 0 .. RecvMax /\ a \in [1 .. Len(a) -> Letters]
    BY <2>1, LenProperties, ConnectionsAssumption
  <2> QED BY <2>2
<1>4. /\ stored' = [stored EXCEPT ![c] = acc] /\ stored'[c] = acc
      /\ echoed' = [echoed EXCEPT ![c] = ech]
  BY <1>1 DEF ConnectionsTypeOK
<1>5. /\ Apart' /\ Uncommitted'
      /\ HungUp' = HungUp /\ c \notin HungUp
      /\ Committed(c) = Len(ech) + Unsent(st)
      /\ [d \in Clients |-> Committed(d)']
            = [[d \in Clients |-> Committed(d)] EXCEPT ![c] = k]
  <2> HIDE DEF acc, new, ech
  <2>1. /\ state'[f] = new /\ echoed' = [echoed EXCEPT ![conn[f]] = ech]
        /\ stored' = [stored EXCEPT ![conn[f]] = acc]
        /\ NoneLeft(new, ech, acc) /\ Len(ech) \in Nat
    BY <1>1, <1>2, <1>4 DEF new
  <2>2. Committed(c) = Len(ech) + Unsent(st)
    BY CommittedServed DEF ech
  <2> QED BY <2>1, <2>2, RefineHandler
<1>6. LE!NoNewlineAfter(acc, k)
  BY <1>2, SameTransformation DEF NoneLeft, LE!NoNewlineAfter
<1>7. k \in LE!CommitPoints(acc) \cup {Committed(c)} /\ k >= Committed(c)
  BY <1>2, <1>5, SameTransformation DEF LE!CommitPoints
<1>8. stored' = [stored EXCEPT ![c] = @ \o a]
  OBVIOUS
<1> HIDE DEF c, acc, k, a
<1> QED BY <1>1, <1>3, <1>4, <1>5, <1>6, <1>7, <1>8 DEF LE!Receive, c

(* do_write: a send echoes committed bytes, and the end of the call none.  *)
LEMMA RefineSend ==
    ASSUME ConnectionsTypeOK, stored \in [Clients -> Seq(Letters)], Waiting, Apart,
           Streams, Uncommitted,
           NEW f \in Live, state[f] \in FdState, CursorsInOrder(state[f]),
           NEW n \in 1 .. Unsent(state[f]),
           Live' = Live, state'[f] = Advance(state[f], n),
           \A g \in Live : g # f => state'[g] = state[g],
           echoed' = [echoed EXCEPT ![conn[f]] = @ \o Outgoing(state[f], n)],
           UNCHANGED <<stored, conn, backlog, peer>>
    PROVE  LE!Echo(conn[f]) /\ Apart' /\ Uncommitted'
<1> DEFINE c == conn[f]
           st == state[f]
           new == Advance(st, n)
           ech == echoed[c]
           out == ech \o Outgoing(st, n)
           sto == stored[c]
<1>1. /\ c \in Clients /\ ech \in Seq(Char) /\ sto \in Seq(Letters)
      /\ Letters \in SUBSET Char /\ Len(ech) \in Nat /\ Len(sto) \in Nat
      /\ Begins(ech, sto) /\ Carries(st, ech, sto) /\ NoneLeft(st, ech, sto)
  BY LenProperties, ConnectionsAssumption
  DEF ConnectionsTypeOK, Apart, Streams, Uncommitted
<1>2. /\ st.n_written \in Nat /\ st.write_upto \in Nat /\ n \in Nat /\ n >= 1
      /\ n <= Unsent(st)
  BY DEF FdState, Unsent
<1>3. /\ Outgoing(st, n) \in Seq(Char) /\ Len(Outgoing(st, n)) = n
      /\ out \in Seq(Char)
      /\ Len(out) = Len(ech) + n
  <2>1. Outgoing(st, n) \in Seq(Char) /\ Len(Outgoing(st, n)) = n
    BY OutgoingProperties
  <2> DEFINE o == Outgoing(st, n)
  <2> HIDE DEF o, ech
  <2>2. ech \in Seq(Char) /\ o \in Seq(Char)
    BY <1>1, <2>1 DEF o
  <2>3. ech \o o \in Seq(Char) /\ Len(ech \o o) = Len(ech) + Len(o)
    BY <2>2, ConcatProperties
  <2> QED BY <2>1, <2>3 DEF o
<1>4. Len(out) + Unsent(new) = Len(ech) + Unsent(st)
  <2>1. new.n_written = st.n_written + n /\ new.write_upto = st.write_upto
    BY AdvanceProperties
  <2>2. Unsent(new) = st.write_upto - (st.n_written + n)
    BY <2>1 DEF Unsent
  <2>3. Unsent(st) = st.write_upto - st.n_written
    BY DEF Unsent
  <2> HIDE DEF out, new, st, ech
  <2> QED BY <1>1, <1>2, <1>3, <2>2, <2>3
<1>5. NoneLeft(new, out, sto)
  BY <1>1, <1>4 DEF NoneLeft
<1>6. stored' = [stored EXCEPT ![c] = sto] /\ echoed' = [echoed EXCEPT ![c] = out]
  BY <1>1
<1>7. Len(out) \in Nat
  BY <1>1, <1>2, <1>3
<1>8. /\ Apart' /\ Uncommitted'
      /\ HungUp' = HungUp /\ c \notin HungUp
      /\ Committed(c) = Len(ech) + Unsent(st)
      /\ [d \in Clients |-> Committed(d)']
            = [[d \in Clients |-> Committed(d)] EXCEPT ![c] = Len(out) + Unsent(new)]
  <2> HIDE DEF out, new, sto
  <2>1. /\ state'[f] = new /\ echoed' = [echoed EXCEPT ![conn[f]] = out]
        /\ stored' = [stored EXCEPT ![conn[f]] = sto]
    BY <1>6 DEF new
  <2> QED BY <1>5, <1>7, <2>1, RefineHandler
<1>9. [d \in Clients |-> Committed(d)'] = [d \in Clients |-> Committed(d)]
  BY <1>1, <1>4, <1>8
<1>10. Begins(out, sto)
  BY <1>1, CarriesSend
<1>11. out = Rot13(SubSeq(sto, 1, Len(out)))
  BY <1>1, <1>3, <1>10, EchoPrefix
<1>12. Len(out) \in Len(ech) + 1 .. Committed(c)
  BY <1>1, <1>2, <1>3, <1>8 DEF Unsent
<1> HIDE DEF c, out
<1> QED BY <1>1, <1>6, <1>8, <1>9, <1>11, <1>12, SameTransformation DEF LE!Echo, c

LEMMA RefineFinish ==
    ASSUME ConnectionsTypeOK, stored \in [Clients -> Seq(Letters)], Waiting, Apart,
           Uncommitted,
           NEW f \in Live, state[f] \in FdState, CursorsInOrder(state[f]),
           Unsent(state[f]) <= 0,
           NEW base \in Nat,
           state[f].n_written = Len(state[f].buffer) => base <= Len(state[f].buffer),
           Live' = Live, state'[f] = FinishWrite(state[f], base),
           \A g \in Live : g # f => state'[g] = state[g],
           UNCHANGED <<stored, echoed, conn, backlog, peer>>
    PROVE  UNCHANGED LE!evars /\ Apart' /\ Uncommitted'
<1> DEFINE c == conn[f]
           st == state[f]
           new == FinishWrite(st, base)
<1>1. /\ c \in Clients /\ Len(echoed[c]) \in Nat /\ NoneLeft(st, echoed[c], stored[c])
  BY LenProperties DEF ConnectionsTypeOK, Apart, Uncommitted
<1>2. Unsent(new) = Unsent(st)
  <2>1. Unsent(new) = 0
    BY FinishWriteProperties
  <2>2. Unsent(st) \in Int /\ Unsent(st) >= 0
    BY DEF FdState, CursorsInOrder, Unsent
  <2> QED BY <2>1, <2>2
<1>3. NoneLeft(new, echoed[c], stored[c])
  BY <1>1, <1>2 DEF NoneLeft
<1>4. /\ stored' = [stored EXCEPT ![c] = stored[c]]
      /\ echoed' = [echoed EXCEPT ![c] = echoed[c]]
  BY <1>1 DEF ConnectionsTypeOK
<1>5. /\ Apart' /\ Uncommitted'
      /\ HungUp' = HungUp
      /\ Committed(c) = Len(echoed[c]) + Unsent(st)
      /\ [d \in Clients |-> Committed(d)']
            = [[d \in Clients |-> Committed(d)] EXCEPT ![c] = Len(echoed[c]) + Unsent(new)]
  <2> DEFINE ech == echoed[c]
             sto == stored[c]
  <2>1. /\ state'[f] = new /\ echoed' = [echoed EXCEPT ![conn[f]] = ech]
        /\ stored' = [stored EXCEPT ![conn[f]] = sto]
        /\ NoneLeft(new, ech, sto) /\ Len(ech) \in Nat
    BY <1>1, <1>3, <1>4
  <2> HIDE DEF new, sto, ech
  <2>2. /\ Apart' /\ Uncommitted'
        /\ HungUp' = HungUp
        /\ Committed(c) = Len(echoed[c]) + Unsent(st)
        /\ [d \in Clients |-> Committed(d)']
              = [[d \in Clients |-> Committed(d)] EXCEPT ![c] = Len(ech) + Unsent(new)]
    BY <2>1, RefineHandler
  <2> QED BY <2>2 DEF ech
<1>6. [d \in Clients |-> Committed(d)'] = [d \in Clients |-> Committed(d)]
  BY <1>1, <1>2, <1>5
<1> HIDE DEF c
<1> QED BY <1>5, <1>6 DEF LE!evars

LEMMA RefineInit ==
    ASSUME Live = {}, stored = [c \in Clients |-> <<>>], InitConnections
    PROVE  LE!Init /\ Apart /\ Uncommitted
<1>1. HungUp = {}
  BY DEF HungUp, InitConnections
<1>2. \A c \in Clients : Committed(c) = 0
  BY EmptySeq DEF Committed, Served, InitConnections
<1> QED BY <1>1, <1>2 DEF LE!Init, Apart, Uncommitted, InitConnections

(* What becomes of LineEcho's variables in a step of either server.        *)
RefinesStep ==
    \/ LE!HangUp
    \/ \E c \in Clients : LE!Receive(c) \/ LE!Echo(c)
    \/ UNCHANGED LE!evars
=============================================================================
