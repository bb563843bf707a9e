------------------------- MODULE BuffereventsProofs -------------------------
(***************************************************************************)
(* Proofs about the servers on bufferevents: whatever the cuts between the *)
(* callbacks, the rot13 server answers the bytes of a client as if they    *)
(* came one by one, and the echo server answers every line. For any number *)
(* of clients, any of their bytes and any MAX_LINE.                        *)
(***************************************************************************)
EXTENDS Bufferevents, TLAPS, SequenceTheorems, WellFoundedInduction

(* Every set of natural numbers that is not empty has a least element.     *)
LEMMA LeastNatural ==
    ASSUME NEW T \in SUBSET Nat, T # {}
    PROVE  \E n \in T : \A k \in T : n <= k
<1> DEFINE R == OpToRel(<, Nat)
<1>1. PICK n \in T : \A k \in T : ~ (<<k, n>> \in R)
  <2>1. IsWellFoundedOn(R, Nat) BY NatLessThanWellFounded
  <2> HIDE DEF R
  <2> QED BY <2>1, WFMin
<1>2. \A k \in T : ~ (k < n)
  BY <1>1 DEF OpToRel
<1> QED BY <1>2

LEMMA MinNatural ==
    ASSUME NEW T \in SUBSET Nat, T # {}
    PROVE  Min(T) \in T /\ \A k \in T : Min(T) <= k
BY LeastNatural DEF Min

LEMMA MaxNatural ==
    ASSUME NEW n \in Nat, NEW T \in SUBSET (0 .. n), T # {}
    PROVE  Max(T) \in T /\ \A k \in T : Max(T) >= k
<1> DEFINE U == {n - k : k \in T}
<1>1. U \in SUBSET Nat
  <2>1. \A k \in T : n - k \in Nat OBVIOUS
  <2> QED BY <2>1
<1>2. PICK u \in U : \A k \in U : u <= k
  <2>1. U # {} OBVIOUS
  <2> HIDE DEF U
  <2> QED BY <1>1, <2>1, LeastNatural
<1>3. PICK t \in T : u = n - t BY <1>2
<1>4. \A k \in T : t >= k
  <2>1. \A k \in T : n - k \in U OBVIOUS
  <2>2. \A k \in T : u <= n - k
    <3> HIDE DEF U
    <3> QED BY <1>2, <2>1
  <2>3. t \in 0 .. n /\ \A k \in T : k \in 0 .. n OBVIOUS
  <2> HIDE DEF U
  <2> QED BY <1>3, <2>2, <2>3
<1> QED BY <1>3, <1>4 DEF Max

LEMMA MaxInterval ==
    ASSUME NEW n \in Nat, n > 0
    PROVE  Max(1 .. n) = n
<1>1. Max(1 .. n) \in 1 .. n /\ \A k \in 1 .. n : Max(1 .. n) >= k
  <2>1. 1 .. n \in SUBSET (0 .. n) /\ 1 .. n # {} OBVIOUS
  <2> QED BY <2>1, MaxNatural
<1>2. n \in 1 .. n OBVIOUS
<1> QED BY <1>1, <1>2

-----------------------------------------------------------------------------
(* The folds of the properties: over what the rot13 server owes, over the  *)
(* lines that were received, and over those that were answered. The        *)
(* function that a fold goes by exists, and what it says of a prefix does  *)
(* not depend on what follows: a fold takes one byte after the other.      *)
Kinds == {"owed", "received", "answered"}

First(kind) ==
    CASE kind = "owed" -> [input |-> <<>>, output |-> <<>>]
      [] kind = "received" -> [lines |-> <<>>, line |-> <<>>]
      [] kind = "answered" -> [lines |-> <<>>, line |-> <<>>]

Turn(kind, r, b) ==
    CASE kind = "owed" -> Owed(r, b)
      [] kind = "received" -> Due(r, b)
      [] kind = "answered" -> Given(r, b)

Folded(kind, s) ==
    CASE kind = "owed" -> FoldLeft(Owed, [input |-> <<>>, output |-> <<>>], s)
      [] kind = "received" -> LinesDue(s)
      [] kind = "answered" -> LinesGiven(s)

Folds(kind, it, D, s) ==
    it = [S \in SUBSET D |->
             IF S = {} THEN First(kind)
             ELSE Turn(kind, it[S \ {Max(S)}], s[Max(S)])]

LEMMA FoldsExtend ==
    ASSUME NEW n \in Nat, NEW s, NEW kind, NEW it, Folds(kind, it, 1 .. n, s)
    PROVE  \E new : Folds(kind, new, 1 .. n + 1, s)
<1> DEFINE new == [S \in SUBSET (1 .. n + 1) |->
                      IF n + 1 \in S THEN Turn(kind, it[S \ {n + 1}], s[n + 1]) ELSE it[S]]
           next(S) == IF S = {} THEN First(kind) ELSE Turn(kind, new[S \ {Max(S)}], s[Max(S)])
<1>1. ASSUME NEW S \in SUBSET (1 .. n + 1)
      PROVE  new[S] = next(S)
  <2>1. CASE n + 1 \in S
    <3>1. Max(S) = n + 1
      <4>1. S \in SUBSET (0 .. n + 1) /\ S # {} /\ n + 1 \in Nat BY <2>1
      <4>2. Max(S) \in S /\ \A k \in S : Max(S) >= k
        BY <4>1, MaxNatural
      <4>3. Max(S) \in 1 .. n + 1 /\ Max(S) >= n + 1 BY <4>2, <2>1
      <4> QED BY <4>3
    <3>2. new[S \ {n + 1}] = it[S \ {n + 1}]
      OBVIOUS
    <3> QED BY <2>1, <3>1, <3>2
  <2>2. CASE n + 1 \notin S
    <3>1. S \in SUBSET (1 .. n)
      <4>1. \A k \in S : k \in 1 .. n BY <2>2
      <4> QED BY <4>1
    <3>2. CASE S = {}
      BY <2>2, <3>1, <3>2 DEF Folds
    <3>3. CASE S # {}
      <4>1. Max(S) \in S
        <5>1. S \in SUBSET (0 .. n) BY <3>1
        <5> QED BY <5>1, <3>3, MaxNatural
      <4>2. new[S \ {Max(S)}] = it[S \ {Max(S)}]
        BY <2>2, <3>1
      <4> QED BY <2>2, <3>1, <3>3, <4>1, <4>2 DEF Folds
    <3> QED BY <3>2, <3>3
  <2> QED BY <2>1, <2>2
<1>2. new = [S \in SUBSET (1 .. n + 1) |-> next(S)]
  <2>1. new = [S \in SUBSET (1 .. n + 1) |-> new[S]] OBVIOUS
  <2> HIDE DEF new, next
  <2> QED BY <1>1, <2>1
<1>3. Folds(kind, new, 1 .. n + 1, s)
  BY <1>2 DEF Folds
<1> QED BY <1>3

LEMMA FoldsExist ==
    ASSUME NEW n \in Nat, NEW s, NEW kind
    PROVE  \E it : Folds(kind, it, 1 .. n, s)
<1> DEFINE T == {k \in Nat : ~ \E it : Folds(kind, it, 1 .. k, s)}
<1>1. SUFFICES ASSUME T # {} PROVE FALSE
  OBVIOUS
<1>2. PICK k \in T : \A l \in T : k <= l
  <2>1. T \in SUBSET Nat OBVIOUS
  <2> HIDE DEF T
  <2> QED BY <1>1, <2>1, LeastNatural
<1>3. k # 0
  <2>1. Folds(kind, [S \in SUBSET (1 .. 0) |-> First(kind)], 1 .. 0, s)
    BY DEF Folds
  <2> QED BY <2>1, <1>2
<1>4. k - 1 \in Nat /\ k - 1 \notin T /\ k - 1 + 1 = k
  BY <1>2, <1>3
<1>5. PICK it : Folds(kind, it, 1 .. k - 1, s)
  BY <1>4
<1> QED BY <1>2, <1>4, <1>5, FoldsExtend

LEMMA FoldsInterval ==
    ASSUME NEW n \in Nat, NEW s, NEW kind, NEW it, Folds(kind, it, 1 .. n, s), NEW k \in 1 .. n
    PROVE  it[1 .. k] = Turn(kind, it[1 .. k - 1], s[k])
<1>1. Max(1 .. k) = k
  <2>1. k \in Nat /\ k > 0 OBVIOUS
  <2> QED BY <2>1, MaxInterval
<1>2. (1 .. k) \ {k} = 1 .. k - 1 OBVIOUS
<1>3. 1 .. k \in SUBSET (1 .. n) /\ k \in 1 .. k OBVIOUS
<1> QED BY <1>1, <1>2, <1>3 DEF Folds

LEMMA FoldsNothing ==
    ASSUME NEW D, NEW s, NEW kind, NEW it, Folds(kind, it, D, s)
    PROVE  it[{}] = First(kind)
BY DEF Folds

LEMMA FoldedFolds ==
    ASSUME NEW kind \in Kinds, NEW s \in Seq(Char)
    PROVE  \E it : Folds(kind, it, 1 .. Len(s), s) /\ Folded(kind, s) = it[1 .. Len(s)]
<1>1. DOMAIN s = 1 .. Len(s) /\ Len(s) \in Nat
  BY LenProperties
<1>2. \A k : \E it : Folds(k, it, DOMAIN s, s)
  BY <1>1, FoldsExist
<1> DEFINE owed(it) == it = [S \in SUBSET DOMAIN s |->
               IF S = {} THEN [input |-> <<>>, output |-> <<>>]
               ELSE Owed(it[S \ {Max(S)}], s[Max(S)])]
           due(it) == it = [S \in SUBSET DOMAIN s |->
               IF S = {} THEN [lines |-> <<>>, line |-> <<>>]
               ELSE Due(it[S \ {Max(S)}], s[Max(S)])]
           given(it) == it = [S \in SUBSET DOMAIN s |->
               IF S = {} THEN [lines |-> <<>>, line |-> <<>>]
               ELSE Given(it[S \ {Max(S)}], s[Max(S)])]
<1>3. CASE kind = "owed"
  <2>1. \A it : owed(it) <=> Folds(kind, it, DOMAIN s, s)
    BY <1>3 DEF Folds, First, Turn
  <2>2. Folded(kind, s) = (CHOOSE it : owed(it))[DOMAIN s]
    BY <1>3 DEF Folded, FoldLeft, MapThenFoldSet
  <2> HIDE DEF owed
  <2> QED BY <1>1, <1>2, <2>1, <2>2
<1>4. CASE kind = "received"
  <2>1. \A it : due(it) <=> Folds(kind, it, DOMAIN s, s)
    BY <1>4 DEF Folds, First, Turn
  <2>2. Folded(kind, s) = (CHOOSE it : due(it))[DOMAIN s]
    BY <1>4 DEF Folded, LinesDue, FoldLeft, MapThenFoldSet
  <2> HIDE DEF due
  <2> QED BY <1>1, <1>2, <2>1, <2>2
<1>5. CASE kind = "answered"
  <2>1. \A it : given(it) <=> Folds(kind, it, DOMAIN s, s)
    BY <1>5 DEF Folds, First, Turn
  <2>2. Folded(kind, s) = (CHOOSE it : given(it))[DOMAIN s]
    BY <1>5 DEF Folded, LinesGiven, FoldLeft, MapThenFoldSet
  <2> HIDE DEF given
  <2> QED BY <1>1, <1>2, <2>1, <2>2
<1> QED BY <1>3, <1>4, <1>5 DEF Kinds

LEMMA FoldedByByte ==
    ASSUME NEW kind \in Kinds
    PROVE  /\ Folded(kind, <<>>) = First(kind)
           /\ \A s \in Seq(Char), b \in Char : Folded(kind, Append(s, b)) = Turn(kind, Folded(kind, s), b)
<1>1. Folded(kind, <<>>) = First(kind)
  <2>1. <<>> \in Seq(Char) /\ 1 .. Len(<<>>) = {}
    OBVIOUS
  <2>2. PICK it : Folds(kind, it, 1 .. Len(<<>>), <<>>)
                  /\ Folded(kind, <<>>) = it[1 .. Len(<<>>)]
    BY <2>1, FoldedFolds
  <2> QED BY <2>1, <2>2, FoldsNothing
<1>2. ASSUME NEW s \in Seq(Char), NEW b \in Char
      PROVE  Folded(kind, Append(s, b)) = Turn(kind, Folded(kind, s), b)
  <2> DEFINE n == Len(s)
             t == Append(s, b)
  <2>1. n \in Nat /\ t \in Seq(Char) /\ Len(t) = n + 1 /\ t[n + 1] = b
        /\ \A k \in 1 .. n : t[k] = s[k]
    BY LenProperties, AppendProperties
  <2> HIDE DEF n, t
  <2>2. PICK it : Folds(kind, it, 1 .. n, s) /\ Folded(kind, s) = it[1 .. n]
    BY FoldedFolds DEF n
  <2>3. PICK new : Folds(kind, new, 1 .. n + 1, t) /\ Folded(kind, t) = new[1 .. n + 1]
    BY <2>1, FoldedFolds
  <2> DEFINE T == {k \in 0 .. n : it[1 .. k] # new[1 .. k]}
  <2>4. T = {}
    <3>1. SUFFICES ASSUME T # {} PROVE FALSE
      OBVIOUS
    <3>2. PICK k \in T : \A l \in T : k <= l
      <4>1. T \in SUBSET Nat BY <2>1
      <4> HIDE DEF T
      <4> QED BY <3>1, <4>1, LeastNatural
    <3>3. k # 0
      <4>1. 1 .. 0 = {} OBVIOUS
      <4> QED BY <4>1, <3>2, <2>2, <2>3, FoldsNothing
    <3>4. k \in 1 .. n /\ k \in 1 .. n + 1 /\ k - 1 \in 0 .. n /\ k - 1 \notin T
      BY <3>2, <3>3, <2>1
    <3>5. it[1 .. k] = Turn(kind, it[1 .. k - 1], s[k])
      BY <3>4, <2>1, <2>2, FoldsInterval
    <3>6. new[1 .. k] = Turn(kind, new[1 .. k - 1], t[k])
      <4>1. n + 1 \in Nat BY <2>1
      <4> QED BY <3>4, <4>1, <2>3, FoldsInterval
    <3> QED BY <2>1, <3>2, <3>4, <3>5, <3>6
  <2>5. it[1 .. n] = new[1 .. n]
    BY <2>1, <2>4
  <2>6. new[1 .. n + 1] = Turn(kind, new[1 .. n + 1 - 1], t[n + 1])
    <3> DEFINE u == n + 1
    <3>1. u \in Nat /\ u \in 1 .. u BY <2>1
    <3>2. Folds(kind, new, 1 .. u, t) BY <2>3
    <3> HIDE DEF u
    <3>3. new[1 .. u] = Turn(kind, new[1 .. u - 1], t[u]) BY <3>1, <3>2, FoldsInterval
    <3>4. u = n + 1 BY DEF u
    <3> QED BY <2>1, <3>1, <3>3, <3>4
  <2>7. n + 1 - 1 = n BY <2>1
  <2> QED BY <2>1, <2>2, <2>3, <2>5, <2>6, <2>7 DEF t
<1> QED BY <1>1, <1>2

-----------------------------------------------------------------------------
LEMMA Associates ==
    \A s, t, u \in Seq(Char) : (s \o t) \o u = s \o (t \o u)
BY ConcatAssociative

(* The same for an instance that is named: the prover need not look for it. *)
Assoc(s, t, u) == (s \o t) \o u = s \o (t \o u)

LEMMA AssocHolds == \A s, t, u \in Seq(Char) : Assoc(s, t, u)
BY Associates DEF Assoc

LEMMA CancelsLeft ==
    \A s, t, u \in Seq(Char) : s \o t = s \o u => t = u
BY ConcatSimplifications

(* rot13_char and newlines.                                                *)
LEMMA Rot13Sequence ==
    ASSUME NEW s \in Seq(Char)
    PROVE  /\ Rot13(s) \in Seq(Char)
           /\ Len(Rot13(s)) = Len(s)
           /\ \A k \in 1 .. Len(s) : Rot13(s)[k] = rot13_char(s[k])
<1>1. \A k \in 1 .. Len(s) : rot13_char(s[k]) \in Char
  <2>1. \A c \in Char : rot13_char(c) \in Char
    BY DEF rot13_char, Char, FirstHalf, SecondHalf
  <2> QED BY <2>1, ElementOfSeq
<1>2. Len(s) \in Nat
  BY LenProperties
<1> DEFINE e(k) == rot13_char(s[k])
<1>3. [k \in 1 .. Len(s) |-> e(k)] \in Seq(Char)
  <2> HIDE DEF e
  <2>1. \A k \in 1 .. Len(s) : e(k) \in Char BY <1>1 DEF e
  <2> QED BY <1>2, <2>1, IsASeq
<1>4. Rot13(s) \in Seq(Char) /\ DOMAIN Rot13(s) = 1 .. Len(s)
  BY <1>3 DEF Rot13
<1>5. Len(Rot13(s)) = Len(s)
  BY <1>2, <1>4, LenProperties
<1> QED BY <1>4, <1>5 DEF Rot13

LEMMA Rot13Concat ==
    ASSUME NEW s \in Seq(Char), NEW t \in Seq(Char)
    PROVE  Rot13(s \o t) = Rot13(s) \o Rot13(t)
<1> DEFINE left == Rot13(s \o t)
           right == Rot13(s) \o Rot13(t)
<1>1. Len(s) \in Nat /\ Len(t) \in Nat
  BY LenProperties
<1>2. /\ s \o t \in Seq(Char)
      /\ Len(s \o t) = Len(s) + Len(t)
      /\ \A k \in 1 .. Len(s) + Len(t) :
           (s \o t)[k] = IF k <= Len(s) THEN s[k] ELSE t[k - Len(s)]
  BY ConcatProperties
<1>3. /\ left \in Seq(Char) /\ Len(left) = Len(s) + Len(t)
      /\ \A k \in 1 .. Len(s) + Len(t) : left[k] = rot13_char((s \o t)[k])
  BY <1>2, Rot13Sequence
<1>4. /\ right \in Seq(Char) /\ Len(right) = Len(s) + Len(t)
      /\ \A k \in 1 .. Len(s) + Len(t) :
           right[k] = IF k <= Len(s) THEN Rot13(s)[k] ELSE Rot13(t)[k - Len(s)]
  <2>1. /\ Rot13(s) \in Seq(Char) /\ Rot13(t) \in Seq(Char)
        /\ Len(Rot13(s)) = Len(s) /\ Len(Rot13(t)) = Len(t)
    BY Rot13Sequence
  <2> DEFINE u == Rot13(s)
             v == Rot13(t)
  <2>2. /\ u \o v \in Seq(Char) /\ Len(u \o v) = Len(u) + Len(v)
        /\ \A k \in 1 .. Len(u) + Len(v) :
             (u \o v)[k] = IF k <= Len(u) THEN u[k] ELSE v[k - Len(u)]
    <3> HIDE DEF u, v
    <3>1. u \in Seq(Char) /\ v \in Seq(Char) BY <2>1 DEF u, v
    <3> QED BY <3>1, ConcatProperties
  <2> QED BY <2>1, <2>2
<1>5. \A k \in 1 .. Len(s) + Len(t) : left[k] = right[k]
  <2> TAKE k \in 1 .. Len(s) + Len(t)
  <2>1. CASE k <= Len(s)
    <3>1. k \in 1 .. Len(s) BY <1>1, <2>1
    <3>2. Rot13(s)[k] = rot13_char(s[k]) BY <3>1, Rot13Sequence
    <3> HIDE DEF left, right
    <3> QED BY <1>2, <1>3, <1>4, <2>1, <3>2
  <2>2. CASE ~ (k <= Len(s))
    <3>1. k - Len(s) \in 1 .. Len(t) BY <1>1, <2>2
    <3>2. Rot13(t)[k - Len(s)] = rot13_char(t[k - Len(s)]) BY <3>1, Rot13Sequence
    <3> HIDE DEF left, right
    <3> QED BY <1>2, <1>3, <1>4, <2>2, <3>2
  <2> QED BY <2>1, <2>2
<1> HIDE DEF left, right
<1>6. left = right
  BY <1>3, <1>4, <1>5, SeqEqual
<1> QED BY <1>6 DEF left, right

LEMMA LastNewlineProperties ==
    ASSUME NEW s \in Seq(Char)
    PROVE  /\ LastNewline(s) \in 0 .. Len(s)
           /\ LastNewline(s) > 0 => s[LastNewline(s)] = NL
           /\ \A k \in LastNewline(s) + 1 .. Len(s) : s[k] # NL
           /\ \A n \in 0 .. Len(s) :
                (n > 0 => s[n] = NL) /\ (\A k \in n + 1 .. Len(s) : s[k] # NL)
                    => n = LastNewline(s)
<1> DEFINE T == {0} \cup {k \in 1 .. Len(s) : s[k] = NL}
           m == LastNewline(s)
<1>1. Len(s) \in Nat
  BY LenProperties
<1>2. m \in T /\ \A k \in T : m >= k
  <2>1. T \in SUBSET (0 .. Len(s)) /\ T # {} BY <1>1
  <2>2. m = Max(T) BY DEF LastNewline
  <2> HIDE DEF T, m
  <2> QED BY <1>1, <2>1, <2>2, MaxNatural
<1> HIDE DEF m
<1>3. m \in 0 .. Len(s) /\ (m > 0 => s[m] = NL)
  BY <1>1, <1>2
<1>4. \A k \in m + 1 .. Len(s) : s[k] # NL
  <2>1. ASSUME NEW k \in m + 1 .. Len(s), s[k] = NL PROVE FALSE
    <3>1. k \in 1 .. Len(s) /\ ~ (m >= k) BY <1>1, <1>3
    <3>2. k \in T BY <2>1, <3>1
    <3> QED BY <1>2, <3>1, <3>2
  <2> QED BY <2>1
<1>5. ASSUME NEW n \in 0 .. Len(s), n > 0 => s[n] = NL,
             \A k \in n + 1 .. Len(s) : s[k] # NL
      PROVE  n = m
  <2>1. n \in T BY <1>1, <1>5
  <2>2. m >= n BY <1>2, <2>1
  <2>3. ~ (m > n)
    <3> SUFFICES ASSUME m > n PROVE FALSE OBVIOUS
    <3>1. m \in n + 1 .. Len(s) /\ m > 0 BY <1>1, <1>3
    <3> QED BY <1>3, <1>5, <3>1
  <2> QED BY <1>1, <1>3, <2>2, <2>3
<1> QED BY <1>3, <1>4, <1>5 DEF m

-----------------------------------------------------------------------------
(* What readcb does to a bufferevent.                                      *)
Bevs == [input : Seq(Char), output : Seq(Char)]

Lead(b) == SubSeq(b.input, 1, LastNewline(b.input))
Rest(b) == SubSeq(b.input, LastNewline(b.input) + 1, Len(b.input))

LEMMA Parts ==
    ASSUME NEW b \in Bevs
    PROVE  /\ b.input \in Seq(Char) /\ b.output \in Seq(Char)
           /\ Lead(b) \in Seq(Char) /\ Rest(b) \in Seq(Char)
           /\ Lead(b) \o Rest(b) = b.input
           /\ Len(b.input) \in Nat
           /\ Len(Lead(b)) = LastNewline(b.input)
           /\ Len(Rest(b)) = Len(b.input) - LastNewline(b.input)
           /\ \A k \in 1 .. Len(Rest(b)) : Rest(b)[k] # NL
<1> DEFINE s == b.input
           n == LastNewline(s)
<1>1. s \in Seq(Char) /\ b.output \in Seq(Char) /\ Len(s) \in Nat
  BY LenProperties DEF Bevs
<1>2. /\ n \in 0 .. Len(s)
      /\ \A k \in n + 1 .. Len(s) : s[k] # NL
  BY <1>1, LastNewlineProperties
<1> HIDE DEF n
<1>3. \A k \in 1 .. Len(s) : s[k] \in Char
  BY <1>1, ElementOfSeq
<1>4. SubSeq(s, 1, n) \in Seq(Char) /\ Len(SubSeq(s, 1, n)) = n
  <2>1. \A k \in 1 .. n : s[k] \in Char BY <1>1, <1>2, <1>3
  <2> QED BY <1>1, <1>2, <2>1, SubSeqProperties
<1>5. /\ SubSeq(s, n + 1, Len(s)) \in Seq(Char)
      /\ Len(SubSeq(s, n + 1, Len(s))) = Len(s) - n
      /\ \A k \in 1 .. Len(s) - n : SubSeq(s, n + 1, Len(s))[k] = s[n + k]
  <2>1. \A k \in n + 1 .. Len(s) : s[k] \in Char BY <1>1, <1>2, <1>3
  <2>2. n + 1 \in Int /\ Len(s) \in Int BY <1>1, <1>2
  <2>3. /\ SubSeq(s, n + 1, Len(s)) \in Seq(Char)
        /\ Len(SubSeq(s, n + 1, Len(s))) = IF n + 1 <= Len(s) THEN Len(s) - (n + 1) + 1 ELSE 0
        /\ \A k \in 1 .. Len(s) - (n + 1) + 1 :
             SubSeq(s, n + 1, Len(s))[k] = s[n + 1 + k - 1]
    BY <2>1, <2>2, SubSeqProperties
  <2> QED BY <1>1, <1>2, <2>3
<1>6. SubSeq(s, 1, n) \o SubSeq(s, n + 1, Len(s)) = s
  <2>1. SubSeq(s, 1, n) \o SubSeq(s, n + 1, Len(s)) = SubSeq(s, 1, Len(s))
    <3>1. 1 \in 1 .. Len(s) + 1 /\ n \in 1 - 1 .. Len(s) /\ Len(s) \in n .. Len(s)
      BY <1>1, <1>2
    <3> QED BY <1>1, <3>1, ConcatAdjacentSubSeq
  <2> QED BY <1>1, <2>1, SubSeqFull
<1>7. \A k \in 1 .. Len(s) - n : n + k \in n + 1 .. Len(s)
  BY <1>1, <1>2
<1> QED BY <1>1, <1>2, <1>4, <1>5, <1>6, <1>7 DEF n, Lead, Rest

LEMMA ReadcbCases ==
    ASSUME NEW b \in Bevs
    PROVE  /\ TooLong(Rest(b)) =>
                readcb(b) = [input |-> <<>>,
                             output |-> Append((b.output \o Rot13(Lead(b)))
                                                  \o Rot13(Rest(b)), NL)]
           /\ ~ TooLong(Rest(b)) =>
                readcb(b) = [input |-> Rest(b),
                             output |-> b.output \o Rot13(Lead(b))]
BY DEF readcb, Lead, Rest

(* It leaves less than a line, in order.                                   *)
Settled(b) == Len(b.input) < MaxLine /\ \A k \in 1 .. Len(b.input) : b.input[k] # NL

LEMMA ReadcbSettles ==
    ASSUME NEW b \in Bevs
    PROVE  readcb(b) \in Bevs /\ Settled(readcb(b))
<1>1. /\ Rest(b) \in Seq(Char) /\ Lead(b) \in Seq(Char) /\ b.output \in Seq(Char)
      /\ \A k \in 1 .. Len(Rest(b)) : Rest(b)[k] # NL
  BY Parts
<1>2. Rot13(Lead(b)) \in Seq(Char) /\ Rot13(Rest(b)) \in Seq(Char)
  BY <1>1, Rot13Sequence
<1>3. b.output \o Rot13(Lead(b)) \in Seq(Char)
  BY <1>1, <1>2, ConcatProperties
<1>4. Append((b.output \o Rot13(Lead(b))) \o Rot13(Rest(b)), NL) \in Seq(Char)
  <2>1. (b.output \o Rot13(Lead(b))) \o Rot13(Rest(b)) \in Seq(Char)
    BY <1>2, <1>3, ConcatProperties
  <2>2. NL \in Char BY DEF NL, Char
  <2> QED BY <2>1, <2>2, AppendProperties
<1>5. <<>> \in Seq(Char) /\ Len(<<>>) = 0
  BY EmptySeq
<1>6. Len(Rest(b)) \in Nat /\ MaxLine \in Nat /\ MaxLine > 0
  BY <1>1, LenProperties, BuffereventsAssumption
<1>7. CASE TooLong(Rest(b))
  <2> DEFINE all == Append((b.output \o Rot13(Lead(b))) \o Rot13(Rest(b)), NL)
  <2>1. readcb(b) = [input |-> <<>>, output |-> all]
    BY <1>7, ReadcbCases
  <2> HIDE DEF all
  <2>2. all \in Seq(Char) BY <1>4 DEF all
  <2> QED BY <1>5, <1>6, <2>1, <2>2 DEF Bevs, Settled
<1>8. CASE ~ TooLong(Rest(b))
  <2> DEFINE rest == Rest(b)
             lines == b.output \o Rot13(Lead(b))
  <2>1. readcb(b) = [input |-> rest, output |-> lines]
    BY <1>8, ReadcbCases
  <2>2. rest \in Seq(Char) /\ lines \in Seq(Char) /\ Len(rest) < MaxLine
        /\ \A k \in 1 .. Len(rest) : rest[k] # NL
    BY <1>1, <1>3, <1>6, <1>8 DEF TooLong
  <2> HIDE DEF rest, lines
  <2> QED BY <2>1, <2>2 DEF Bevs, Settled
<1> QED BY <1>7, <1>8

LEMMA ReadcbOfSettled ==
    ASSUME NEW b \in Bevs, Settled(b)
    PROVE  readcb(b) = b
<1> DEFINE s == b.input
<1>1. s \in Seq(Char) /\ b.output \in Seq(Char) /\ Len(s) \in Nat
  BY LenProperties DEF Bevs
<1>2. LastNewline(s) = 0
  <2>1. \A k \in 0 + 1 .. Len(s) : s[k] # NL BY DEF Settled
  <2>2. 0 \in 0 .. Len(s) BY <1>1
  <2> QED BY <1>1, <2>1, <2>2, LastNewlineProperties
<1>3. Lead(b) = <<>>
  BY <1>2, SubSeqEmpty DEF Lead
<1>4. Rest(b) = s
  <2>1. Rest(b) = SubSeq(s, 1, Len(s)) BY <1>2 DEF Rest
  <2> QED BY <1>1, <2>1, SubSeqFull
<1>5. Rot13(<<>>) = <<>>
  BY EmptySeq, Rot13Sequence
<1>6. b.output \o <<>> = b.output
  BY <1>1, ConcatEmptySeq
<1>7. ~ TooLong(Rest(b))
  BY <1>1, <1>4, BuffereventsAssumption DEF Settled, TooLong
<1>8. b = [input |-> s, output |-> b.output]
  BY DEF Bevs
<1> QED BY <1>3, <1>4, <1>5, <1>6, <1>7, <1>8, ReadcbCases

(* One more byte, as long as there is room for it.                         *)
LEMMA ReadcbByByte ==
    ASSUME NEW b \in Bevs, Len(b.input) < MaxLine, NEW x \in Char
    PROVE  readcb([input |-> Append(b.input, x), output |-> b.output])
               = Owed(readcb(b), x)
<1> DEFINE s == b.input
           t == Append(s, x)
           new == [input |-> t, output |-> b.output]
           lines == b.output \o Rot13(Lead(b))
           line == Append(Rest(b), x)
<1>1. /\ s \in Seq(Char) /\ b.output \in Seq(Char) /\ Len(s) \in Nat
      /\ Lead(b) \in Seq(Char) /\ Rest(b) \in Seq(Char) /\ Lead(b) \o Rest(b) = s
      /\ Len(Lead(b)) = LastNewline(s) /\ Len(Rest(b)) = Len(s) - LastNewline(s)
  BY Parts
<1>2. /\ t \in Seq(Char) /\ Len(t) = Len(s) + 1 /\ t[Len(s) + 1] = x
      /\ \A k \in 1 .. Len(s) : t[k] = s[k]
  BY <1>1, AppendProperties
<1>3. new \in Bevs /\ new.input = t /\ new.output = b.output
  BY <1>1, <1>2 DEF Bevs
<1>4. /\ LastNewline(s) \in 0 .. Len(s)
      /\ LastNewline(s) > 0 => s[LastNewline(s)] = NL
      /\ \A k \in LastNewline(s) + 1 .. Len(s) : s[k] # NL
  BY <1>1, LastNewlineProperties
<1>5. /\ line \in Seq(Char)
      /\ Len(line) = Len(Rest(b)) + 1
  BY <1>1, AppendProperties
<1>6. MaxLine \in Nat /\ MaxLine > 0 /\ Len(s) < MaxLine
  BY BuffereventsAssumption
<1>7. readcb(b) = [input |-> Rest(b), output |-> lines]
  <2>1. ~ TooLong(Rest(b)) BY <1>1, <1>4, <1>6 DEF TooLong
  <2> QED BY <2>1, ReadcbCases
<1>8. t = Lead(b) \o line
  <2>1. <<x>> \in Seq(Char) OBVIOUS
  <2>2. t = (Lead(b) \o Rest(b)) \o <<x>>
    BY <1>1, AppendIsConcat
  <2>3. line = Rest(b) \o <<x>>
    BY <1>1, AppendIsConcat
  <2>4. (Lead(b) \o Rest(b)) \o <<x>> = Lead(b) \o (Rest(b) \o <<x>>)
    BY <1>1, <2>1, Associates
  <2> QED BY <2>2, <2>3, <2>4
<1>9. (b.output \o Rot13(Lead(b))) \o Rot13(line) = b.output \o Rot13(t)
  <2>1. Rot13(t) = Rot13(Lead(b)) \o Rot13(line)
    BY <1>1, <1>5, <1>8, Rot13Concat
  <2>2. Rot13(Lead(b)) \in Seq(Char) /\ Rot13(line) \in Seq(Char)
    BY <1>1, <1>5, Rot13Sequence
  <2>3. (b.output \o Rot13(Lead(b))) \o Rot13(line)
            = b.output \o (Rot13(Lead(b)) \o Rot13(line))
    BY <1>1, <2>2, Associates
  <2> QED BY <2>1, <2>3
<1> HIDE DEF new
<1>10. CASE x = NL
  <2>1. LastNewline(t) = Len(t)
    <3>1. Len(t) \in 0 .. Len(t) /\ t[Len(t)] = NL BY <1>1, <1>2, <1>10
    <3>2. \A k \in Len(t) + 1 .. Len(t) : t[k] # NL BY <1>1, <1>2
    <3> QED BY <1>2, <3>1, <3>2, LastNewlineProperties
  <2>2. Lead(new) = t /\ Rest(new) = <<>>
    <3>1. Lead(new) = SubSeq(t, 1, Len(t)) BY <1>3, <2>1 DEF Lead
    <3>2. Rest(new) = SubSeq(t, Len(t) + 1, Len(t)) BY <1>3, <2>1 DEF Rest
    <3>3. SubSeq(t, Len(t) + 1, Len(t)) = <<>>
      <4>1. Len(t) \in Int /\ Len(t) + 1 \in Int /\ Len(t) < Len(t) + 1 BY <1>1, <1>2
      <4> QED BY <4>1, SubSeqEmpty
    <3> QED BY <1>2, <3>1, <3>2, <3>3, SubSeqFull
  <2>3. ~ TooLong(Rest(new))
    BY <1>6, <2>2, EmptySeq DEF TooLong
  <2>4. readcb(new) = [input |-> <<>>, output |-> b.output \o Rot13(t)]
    BY <1>3, <2>2, <2>3, ReadcbCases
  <2>5. Owed(readcb(b), x) = [input |-> <<>>, output |-> lines \o Rot13(line)]
    BY <1>7, <1>10 DEF Owed
  <2> QED BY <1>9, <2>4, <2>5 DEF new
<1>11. CASE x # NL
  <2>1. LastNewline(t) = LastNewline(s)
    <3> DEFINE n == LastNewline(s)
    <3>1. n \in 0 .. Len(t) /\ (n > 0 => t[n] = NL)
      BY <1>1, <1>2, <1>4
    <3>2. \A k \in n + 1 .. Len(t) : t[k] # NL
      <4> TAKE k \in n + 1 .. Len(t)
      <4>0. n \in Nat /\ n <= Len(s) /\ k >= n + 1 /\ k <= Len(s) + 1 /\ k \in Int
        BY <1>1, <1>2, <1>4
      <4> HIDE DEF n
      <4>a. Len(s) \in Nat BY <1>1
      <4>1. k = Len(s) + 1 \/ (k \in n + 1 .. Len(s) /\ k \in 1 .. Len(s))
        BY <4>0, <4>a
      <4> USE DEF n
      <4> QED BY <1>2, <1>4, <1>11, <4>1
    <3> HIDE DEF n
    <3>3. n = LastNewline(t) BY <1>2, <3>1, <3>2, LastNewlineProperties
    <3> QED BY <3>3 DEF n
  <2>2. Lead(new) = Lead(b)
    <3>1. /\ Lead(new) \in Seq(Char) /\ Len(Lead(new)) = Len(Lead(b))
      BY <1>1, <1>3, <2>1, Parts
    <3>2. ASSUME NEW k \in 1 .. Len(Lead(b)) PROVE Lead(new)[k] = Lead(b)[k]
      <4>1. k \in 1 .. Len(s) /\ k \in 1 .. LastNewline(s) BY <1>1, <1>4
      <4>2. Lead(new)[k] = t[k]
        BY <1>1, <1>2, <1>3, <1>4, <2>1, <4>1 DEF Lead
      <4>3. Lead(b)[k] = s[k]
        BY <1>1, <1>4, <4>1 DEF Lead
      <4> QED BY <1>2, <4>1, <4>2, <4>3
    <3> QED BY <1>1, <3>1, <3>2, SeqEqual
  <2>3. Rest(new) = line
    <3>1. Lead(new) \o Rest(new) = t /\ Rest(new) \in Seq(Char)
      BY <1>3, Parts
    <3>2. Lead(b) \o Rest(new) = Lead(b) \o line
      BY <1>8, <2>2, <3>1
    <3> QED BY <1>1, <1>5, <3>1, <3>2, CancelsLeft
  <2>4. CASE Len(line) = MaxLine
    <3>1. TooLong(Rest(new)) BY <1>6, <2>3, <2>4 DEF TooLong
    <3>2. readcb(new) = [input |-> <<>>,
                         output |-> Append((b.output \o Rot13(Lead(b))) \o Rot13(line), NL)]
      BY <1>3, <2>2, <2>3, <3>1, ReadcbCases
    <3>3. Owed(readcb(b), x) = [input |-> <<>>,
                                output |-> (lines \o Rot13(line)) \o <<NL>>]
      BY <1>7, <1>11, <2>4 DEF Owed
    <3>4. Append(lines \o Rot13(line), NL) = (lines \o Rot13(line)) \o <<NL>>
      <4>1. Rot13(Lead(b)) \in Seq(Char) /\ Rot13(line) \in Seq(Char)
        BY <1>1, <1>5, Rot13Sequence
      <4>2. lines \in Seq(Char) BY <1>1, <4>1, ConcatProperties
      <4>3. lines \o Rot13(line) \in Seq(Char) BY <4>1, <4>2, ConcatProperties
      <4>4. NL \in Char BY DEF NL, Char
      <4> HIDE DEF lines, line
      <4> QED BY <4>3, <4>4, AppendIsConcat
    <3> QED BY <3>2, <3>3, <3>4 DEF new
  <2>5. CASE Len(line) # MaxLine
    <3>1. ~ TooLong(Rest(new))
      BY <1>1, <1>4, <1>5, <1>6, <2>3, <2>5 DEF TooLong
    <3>2. readcb(new) = [input |-> line, output |-> lines]
      BY <1>3, <2>2, <2>3, <3>1, ReadcbCases
    <3>3. Owed(readcb(b), x) = [input |-> line, output |-> lines]
      <4> HIDE DEF lines
      <4>1. readcb(b).input = Rest(b) /\ readcb(b).output = lines BY <1>7
      <4> QED BY <1>7, <1>11, <2>5, <4>1 DEF Owed
    <3> QED BY <3>2, <3>3 DEF new
  <2> QED BY <2>4, <2>5
<1> QED BY <1>10, <1>11

(* What was in the output before is in front of it after.                  *)
LEMMA ReadcbShift ==
    ASSUME NEW b \in Bevs, NEW e \in Seq(Char)
    PROVE  readcb([input |-> b.input, output |-> e \o b.output])
               = [input |-> readcb(b).input, output |-> e \o readcb(b).output]
<1> DEFINE new == [input |-> b.input, output |-> e \o b.output]
           l == Rot13(Lead(b))
           r == Rot13(Rest(b))
           o == b.output
<1>1. /\ b.input \in Seq(Char) /\ o \in Seq(Char) /\ l \in Seq(Char) /\ r \in Seq(Char)
      /\ <<NL>> \in Seq(Char) /\ NL \in Char
  BY Parts, Rot13Sequence DEF NL, Char
<1>2. new \in Bevs /\ Lead(new) = Lead(b) /\ Rest(new) = Rest(b) /\ new.output = e \o o
  BY <1>1, ConcatProperties DEF Bevs, Lead, Rest
<1>3. (e \o o) \o l = e \o (o \o l) /\ o \o l \in Seq(Char)
  BY <1>1, Associates, ConcatProperties
<1>4. (e \o (o \o l)) \o r = e \o ((o \o l) \o r) /\ (o \o l) \o r \in Seq(Char)
  BY <1>1, <1>3, Associates, ConcatProperties
<1> DEFINE a == (o \o l) \o r
<1>5. Append(e \o a, NL) = e \o Append(a, NL)
  <2>1. e \o a \in Seq(Char) BY <1>4, ConcatProperties
  <2>2. a \in Seq(Char) BY <1>4
  <2> HIDE DEF a
  <2>3. Append(e \o a, NL) = (e \o a) \o <<NL>> /\ Append(a, NL) = a \o <<NL>>
    BY <1>1, <2>1, <2>2, AppendIsConcat
  <2>4. e \in Seq(Char) /\ <<NL>> \in Seq(Char) BY <1>1
  <2>5. (e \o a) \o <<NL>> = e \o (a \o <<NL>>) BY <2>2, <2>4, Associates
  <2> QED BY <2>3, <2>5
<1>6. CASE TooLong(Rest(b))
  <2>1. readcb(new) = [input |-> <<>>, output |-> Append(((e \o o) \o l) \o r, NL)]
    BY <1>2, <1>6, ReadcbCases
  <2>2. readcb(b) = [input |-> <<>>, output |-> Append((o \o l) \o r, NL)]
    BY <1>6, ReadcbCases
  <2> QED BY <1>3, <1>4, <1>5, <2>1, <2>2
<1>7. CASE ~ TooLong(Rest(b))
  <2>1. readcb(new) = [input |-> Rest(b), output |-> (e \o o) \o l]
    BY <1>2, <1>7, ReadcbCases
  <2>2. readcb(b) = [input |-> Rest(b), output |-> o \o l]
    BY <1>7, ReadcbCases
  <2> QED BY <1>3, <2>1, <2>2
<1> QED BY <1>6, <1>7

LEMMA ConcatAppend ==
    ASSUME NEW s \in Seq(Char), NEW t \in Seq(Char), NEW x \in Char
    PROVE  s \o Append(t, x) = Append(s \o t, x)
<1>1. <<x>> \in Seq(Char) /\ s \o t \in Seq(Char)
  BY ConcatProperties
<1>2. Append(t, x) = t \o <<x>> /\ Append(s \o t, x) = (s \o t) \o <<x>>
  BY <1>1, AppendIsConcat
<1> QED BY <1>1, <1>2, Associates

(* A chunk, for which there is room, is answered byte by byte.             *)
LEMMA ReadcbOfBytes ==
    ASSUME NEW b \in Bevs, Settled(b), NEW got \in Seq(Char), Folded("owed", got) = b
    PROVE  \A s \in Seq(Char) :
             Len(b.input) + Len(s) <= MaxLine =>
                Folded("owed", got \o s)
                    = readcb([input |-> b.input \o s, output |-> b.output])
<1> DEFINE P(s) == Len(b.input) + Len(s) <= MaxLine =>
                Folded("owed", got \o s)
                    = readcb([input |-> b.input \o s, output |-> b.output])
           T == {n \in Nat : \E s \in Seq(Char) : Len(s) = n /\ ~ P(s)}
<1>0. b.input \in Seq(Char) /\ b.output \in Seq(Char) /\ Len(b.input) \in Nat
      /\ MaxLine \in Nat
  BY LenProperties, BuffereventsAssumption DEF Bevs
<1>1. SUFFICES ASSUME T # {} PROVE FALSE
  <2>1. \A s \in Seq(Char) : Len(s) \in Nat BY LenProperties
  <2> QED BY <2>1
<1>2. PICK n \in T : \A k \in T : n <= k
  <2>1. T \in SUBSET Nat OBVIOUS
  <2> HIDE DEF T
  <2> QED BY <1>1, <2>1, LeastNatural
<1>3. PICK s \in Seq(Char) : Len(s) = n /\ ~ P(s)
  BY <1>2
<1>4. s # <<>>
  <2> SUFFICES ASSUME s = <<>> PROVE P(s)
    BY <1>3
  <2>1. got \o s = got /\ b.input \o s = b.input
    BY <1>0, ConcatEmptySeq
  <2>2. readcb(b) = b /\ b = [input |-> b.input, output |-> b.output]
    BY ReadcbOfSettled DEF Bevs
  <2> QED BY <2>1, <2>2
<1>5. PICK t \in Seq(Char), x \in Char : s = Append(t, x)
  BY <1>4, SequenceEmptyOrAppend
<1>6. Len(t) \in Nat /\ n = Len(t) + 1
  BY <1>3, <1>5, AppendProperties, LenProperties
<1>7. P(t)
  <2>1. ~ (n <= Len(t)) BY <1>6
  <2>2. Len(t) \notin T
    <3> HIDE DEF T
    <3> QED BY <1>2, <2>1
  <2> QED BY <1>6, <2>2
<1>8. Len(b.input) + Len(t) < MaxLine
  <2>1. Len(b.input) + Len(s) <= MaxLine /\ Len(s) = Len(t) + 1 BY <1>3, <1>6
  <2>2. \A a, l, m \in Nat : a + (l + 1) <= m => a + l < m OBVIOUS
  <2>3. Len(b.input) + (Len(t) + 1) <= MaxLine BY <2>1
  <2> HIDE DEF P
  <2> QED BY <1>0, <1>6, <2>2, <2>3
<1>9. got \o s = Append(got \o t, x) /\ b.input \o s = Append(b.input \o t, x)
      /\ got \o t \in Seq(Char) /\ b.input \o t \in Seq(Char)
      /\ Len(b.input \o t) = Len(b.input) + Len(t)
  <2>1. got \o t \in Seq(Char) /\ b.input \o t \in Seq(Char)
        /\ Len(b.input \o t) = Len(b.input) + Len(t)
    BY <1>0, ConcatProperties
  <2>2. got \o s = Append(got \o t, x) /\ b.input \o s = Append(b.input \o t, x)
    BY <1>0, <1>5, ConcatAppend
  <2> QED BY <2>1, <2>2
<1> DEFINE c == [input |-> b.input \o t, output |-> b.output]
<1>10. c \in Bevs /\ c.input = b.input \o t /\ c.output = b.output
  BY <1>0, <1>9 DEF Bevs
<1>11. Folded("owed", got \o t) = readcb(c)
  BY <1>0, <1>6, <1>7, <1>8
<1>12. Folded("owed", got \o s) = Owed(readcb(c), x)
  <2>1. Folded("owed", got \o s) = Turn("owed", Folded("owed", got \o t), x)
    BY <1>9, FoldedByByte DEF Kinds
  <2> HIDE DEF c
  <2> QED BY <1>11, <2>1 DEF Turn
<1>13. Len(c.input) < MaxLine
  BY <1>8, <1>9, <1>10
<1>14. readcb([input |-> Append(c.input, x), output |-> c.output]) = Owed(readcb(c), x)
  <2> HIDE DEF c
  <2> QED BY <1>10, <1>13, ReadcbByByte
<1>15. P(s)
  BY <1>9, <1>10, <1>12, <1>14
<1> QED BY <1>3, <1>15

LEMMA ReadcbOfChunk ==
    ASSUME NEW b \in Bevs, Settled(b), NEW got \in Seq(Char), NEW e \in Seq(Char),
           Folded("owed", got) = [input |-> b.input, output |-> e \o b.output],
           NEW s \in Seq(Char), Len(b.input) + Len(s) <= MaxLine
    PROVE  LET new == readcb([input |-> b.input \o s, output |-> b.output]) IN
           Folded("owed", got \o s) = [input |-> new.input, output |-> e \o new.output]
<1> DEFINE sum == [input |-> b.input, output |-> e \o b.output]
           old == [input |-> b.input \o s, output |-> b.output]
<1>1. b.input \in Seq(Char) /\ b.output \in Seq(Char)
  BY DEF Bevs
<1>2. e \o b.output \in Seq(Char) /\ b.input \o s \in Seq(Char)
  BY <1>1, ConcatProperties
<1>3. /\ sum \in Bevs /\ sum.input = b.input /\ sum.output = e \o b.output
      /\ old \in Bevs /\ old.input = b.input \o s /\ old.output = b.output
  BY <1>1, <1>2 DEF Bevs
<1>4. Settled(sum)
  BY <1>3 DEF Settled
<1>5. Folded("owed", got \o s) = readcb([input |-> sum.input \o s, output |-> sum.output])
  <2>1. Folded("owed", got) = sum OBVIOUS
  <2>2. Len(sum.input) + Len(s) <= MaxLine BY <1>3
  <2> HIDE DEF sum
  <2> QED BY <1>3, <1>4, <2>1, <2>2, ReadcbOfBytes
<1>6. readcb([input |-> old.input, output |-> e \o old.output])
        = [input |-> readcb(old).input, output |-> e \o readcb(old).output]
  <2> HIDE DEF old
  <2> QED BY <1>3, ReadcbShift
<1> QED BY <1>3, <1>5, <1>6

-----------------------------------------------------------------------------
(* What buf_read_callback does to a bufferevent, as lines. The bytes of a  *)
(* line add up, its end makes it a line, and more ends change nothing.     *)
LineKinds == {"received", "answered"}
LineAs(kind, w) == IF kind = "received" THEN <<Said>> \o Printed(w) ELSE w

HasLines(kind, s, L, w) == Folded(kind, s) = [lines |-> L, line |-> w]

LEMMA CutConcat ==
    ASSUME NEW s \in Seq(Char), NEW t \in Seq(Char)
    PROVE  /\ Len(s) \in Nat /\ s \o t \in Seq(Char)
           /\ Len(s \o t) = Len(s) + Len(t)
           /\ SubSeq(s \o t, 1, Len(s)) = s
           /\ SubSeq(s \o t, Len(s) + 1, Len(s) + Len(t)) = t
<1> DEFINE u == s \o t
           m == Len(s)
           n == Len(t)
<1>1. m \in Nat /\ n \in Nat /\ u \in Seq(Char) /\ Len(u) = m + n
      /\ \A k \in 1 .. m + n : u[k] = IF k <= m THEN s[k] ELSE t[k - m]
  BY LenProperties, ConcatProperties
<1>2. \A k \in 1 .. m + n : u[k] \in Char
  BY <1>1, ElementOfSeq
<1> HIDE DEF u, m, n
<1>3. SubSeq(u, 1, m) = s
  <2>1. \A k \in 1 .. m : u[k] \in Char /\ u[k] = s[k]
    BY <1>1, <1>2
  <2>2. /\ SubSeq(u, 1, m) \in Seq(Char)
        /\ Len(SubSeq(u, 1, m)) = IF 1 <= m THEN m - 1 + 1 ELSE 0
        /\ \A k \in 1 .. m - 1 + 1 : SubSeq(u, 1, m)[k] = u[1 + k - 1]
    BY <1>1, <2>1, SubSeqProperties
  <2>3. Len(SubSeq(u, 1, m)) = m /\ \A k \in 1 .. m : SubSeq(u, 1, m)[k] = s[k]
    BY <1>1, <2>1, <2>2
  <2> QED BY <2>2, <2>3, SeqEqual DEF m
<1>4. SubSeq(u, m + 1, m + n) = t
  <2> DEFINE a == m + 1
             b == m + n
  <2>1. a \in Int /\ b \in Int /\ b - a + 1 = n /\ (~ (a <= b) => n = 0)
        /\ \A k \in 1 .. n : a + k - 1 = m + k
    BY <1>1
  <2>2. \A k \in a .. b : u[k] \in Char
    BY <1>1, <1>2
  <2> HIDE DEF a, b
  <2>3. /\ SubSeq(u, a, b) \in Seq(Char) /\ Len(SubSeq(u, a, b)) = n
        /\ \A k \in 1 .. n : SubSeq(u, a, b)[k] = u[m + k]
    BY <2>1, <2>2, SubSeqProperties
  <2>4. \A k \in 1 .. n : u[m + k] = t[k]
    <3>1. \A k \in 1 .. n : m + k \in 1 .. m + n /\ ~ (m + k <= m) /\ m + k - m = k
      BY <1>1
    <3> QED BY <1>1, <3>1
  <2>5. SubSeq(u, a, b) = t
    BY <2>3, <2>4, SeqEqual DEF n
  <2> QED BY <2>5 DEF a, b
<1> QED BY <1>1, <1>3, <1>4 DEF u, m, n

LEMMA SaidSequence == <<Said>> \in Seq(Char) /\ Said \in Char /\ Said \notin Eol
BY DEF Said, Char, Eol

LEMMA PrintedSequence ==
    ASSUME NEW s \in Seq(Char)
    PROVE  /\ Printed(s) \in Seq(Char)
           /\ \A k \in 1 .. Len(Printed(s)) : \E l \in 1 .. Len(s) : Printed(s)[k] = s[l]
<1> DEFINE T == {Len(s) + 1} \cup {k \in 1 .. Len(s) : s[k] = NUL}
           n == Min(T) - 1
<1>1. Len(s) \in Nat /\ \A k \in 1 .. Len(s) : s[k] \in Char
  BY LenProperties, ElementOfSeq
<1>2. n \in 0 .. Len(s)
  <2>1. T \in SUBSET Nat /\ T # {} /\ T \subseteq 1 .. Len(s) + 1 BY <1>1
  <2> HIDE DEF T
  <2>2. Min(T) \in T BY <2>1, MinNatural
  <2>3. Min(T) \in 1 .. Len(s) + 1 BY <2>1, <2>2
  <2>4. n = Min(T) - 1 OBVIOUS
  <2> QED BY <1>1, <2>3, <2>4
<1>3. Printed(s) = SubSeq(s, 1, n) BY DEF Printed
<1> HIDE DEF n
<1>4. /\ SubSeq(s, 1, n) \in Seq(Char) /\ Len(SubSeq(s, 1, n)) = n
      /\ \A k \in 1 .. n : SubSeq(s, 1, n)[k] = s[k]
  <2>1. 1 \in Int /\ n \in Int /\ n - 1 + 1 = n /\ (~ (1 <= n) => n = 0)
        /\ \A k \in 1 .. n : 1 + k - 1 = k
    BY <1>2
  <2>2. \A k \in 1 .. n : s[k] \in Char BY <1>1, <1>2
  <2> QED BY <2>1, <2>2, SubSeqProperties
<1>5. \A k \in 1 .. n : k \in 1 .. Len(s) BY <1>1, <1>2
<1> QED BY <1>3, <1>4, <1>5

LEMMA PrintedNothing == Printed(<<>>) = <<>>
<1>1. \A k \in 1 .. Len(Printed(<<>>)) : \E l \in 1 .. Len(<<>>) : Printed(<<>>)[k] = <<>>[l]
  <2>1. <<>> \in Seq(Char) BY EmptySeq
  <2> QED BY <2>1, PrintedSequence
<1>2. Printed(<<>>) \in Seq(Char)
  <2>1. <<>> \in Seq(Char) BY EmptySeq
  <2> QED BY <2>1, PrintedSequence
<1> DEFINE t == Printed(<<>>)
<1>3. t \in Seq(Char) /\ Len(t) \in Nat BY <1>2, LenProperties
<1>4. Len(<<>>) = 0 BY EmptySeq
<1>5. \A k \in 1 .. Len(t) : FALSE BY <1>1, <1>4
<1> HIDE DEF t
<1>6. Len(t) = 0 BY <1>3, <1>5
<1>7. t = <<>> BY <1>3, <1>6, EmptySeq
<1> QED BY <1>7 DEF t

LEMMA LineStep ==
    ASSUME NEW kind \in LineKinds, NEW s \in Seq(Char), NEW x \in Char,
           NEW L, NEW w, HasLines(kind, s, L, w)
    PROVE  /\ x \notin Eol =>
                HasLines(kind, Append(s, x), L, Append(w, x))
           /\ x \in Eol =>
                HasLines(kind, Append(s, x), Say(L, LineAs(kind, w)), <<>>)
<1>1. kind \in Kinds BY DEF Kinds, LineKinds
<1> DEFINE r == [lines |-> L, line |-> w]
<1>2. Folded(kind, Append(s, x)) = Turn(kind, r, x)
  BY <1>1, FoldedByByte DEF HasLines
<1>3. /\ r.lines = L /\ r.line = w
      /\ \A v : [r EXCEPT !.line = v] = [lines |-> L, line |-> v]
  OBVIOUS
<1> HIDE DEF r
<1>4. CASE kind = "received"
  <2>1. Folded(kind, Append(s, x)) = Due(r, x) BY <1>2, <1>4 DEF Turn
  <2>2. CASE x \notin Eol BY <1>3, <2>1, <2>2 DEF Due, HasLines
  <2>3. CASE x \in Eol BY <1>3, <1>4, <2>1, <2>3 DEF Due, HasLines, LineAs
  <2> QED BY <2>2, <2>3
<1>5. CASE kind = "answered"
  <2>1. Folded(kind, Append(s, x)) = Given(r, x) BY <1>2, <1>5 DEF Turn
  <2>2. CASE x \notin Eol BY <1>3, <2>1, <2>2 DEF Given, HasLines
  <2>3. CASE x \in Eol BY <1>3, <1>5, <2>1, <2>3 DEF Given, HasLines, LineAs
  <2> QED BY <2>2, <2>3
<1> QED BY <1>4, <1>5 DEF LineKinds

LEMMA LineGrows ==
    ASSUME NEW kind \in LineKinds, NEW s \in Seq(Char), NEW L, NEW w \in Seq(Char),
           HasLines(kind, s, L, w)
    PROVE  \A t \in Seq(Char) :
             (\A k \in 1 .. Len(t) : t[k] \notin Eol) =>
                HasLines(kind, s \o t, L, w \o t)
<1> DEFINE P(t) == (\A k \in 1 .. Len(t) : t[k] \notin Eol) =>
                HasLines(kind, s \o t, L, w \o t)
           T == {n \in Nat : \E t \in Seq(Char) : Len(t) = n /\ ~ P(t)}
<1>1. SUFFICES ASSUME T # {} PROVE FALSE
  <2>1. \A t \in Seq(Char) : Len(t) \in Nat BY LenProperties
  <2> QED BY <2>1
<1>2. PICK n \in T : \A k \in T : n <= k
  <2>1. T \in SUBSET Nat OBVIOUS
  <2> HIDE DEF T
  <2> QED BY <1>1, <2>1, LeastNatural
<1>3. PICK t \in Seq(Char) : Len(t) = n /\ ~ P(t)
  BY <1>2
<1>4. t # <<>>
  <2> SUFFICES ASSUME t = <<>> PROVE P(t)
    BY <1>3
  <2>1. s \o t = s /\ w \o t = w
    BY ConcatEmptySeq
  <2> QED BY <2>1
<1>5. PICK u \in Seq(Char), x \in Char : t = Append(u, x)
  BY <1>4, SequenceEmptyOrAppend
<1>6. /\ Len(u) \in Nat /\ n = Len(u) + 1 /\ t[Len(u) + 1] = x
      /\ \A k \in 1 .. Len(u) : t[k] = u[k]
  BY <1>3, <1>5, AppendProperties, LenProperties
<1>7. P(u)
  <2>1. ~ (n <= Len(u)) BY <1>6
  <2>2. Len(u) \notin T
    <3> HIDE DEF T
    <3> QED BY <1>2, <2>1
  <2> QED BY <1>6, <2>2
<1>8. ASSUME \A k \in 1 .. Len(t) : t[k] \notin Eol
      PROVE  HasLines(kind, s \o t, L, w \o t)
  <2>1. x \notin Eol /\ \A k \in 1 .. Len(u) : u[k] \notin Eol
    <3>1. Len(u) + 1 \in 1 .. Len(t) /\ \A k \in 1 .. Len(u) : k \in 1 .. Len(t)
      BY <1>3, <1>6
    <3> QED BY <1>6, <1>8, <3>1
  <2>2. HasLines(kind, s \o u, L, w \o u)
    BY <1>7, <2>1
  <2>3. s \o t = Append(s \o u, x) /\ w \o t = Append(w \o u, x)
    BY <1>5, ConcatAppend
  <2>4. s \o u \in Seq(Char) BY ConcatProperties
  <2>5. HasLines(kind, Append(s \o u, x), L, Append(w \o u, x))
    <3> DEFINE y == s \o u
               z == w \o u
    <3>1. y \in Seq(Char) /\ HasLines(kind, y, L, z) BY <2>2, <2>4
    <3> HIDE DEF y, z
    <3>2. HasLines(kind, Append(y, x), L, Append(z, x))
      BY <2>1, <3>1, LineStep
    <3> QED BY <3>2 DEF y, z
  <2> QED BY <2>3, <2>5
<1>9. P(t)
  BY <1>8
<1> QED BY <1>3, <1>9

LEMMA EndsAreSkipped ==
    ASSUME NEW s \in Seq(Char), NEW L,
           HasLines("received", s, L, <<>>)
    PROVE  \A t \in Seq(Char) :
             (\A k \in 1 .. Len(t) : t[k] \in Eol) =>
                HasLines("received", s \o t, L, <<>>)
<1> DEFINE P(t) == (\A k \in 1 .. Len(t) : t[k] \in Eol) =>
                HasLines("received", s \o t, L, <<>>)
           T == {n \in Nat : \E t \in Seq(Char) : Len(t) = n /\ ~ P(t)}
<1>1. SUFFICES ASSUME T # {} PROVE FALSE
  <2>1. \A t \in Seq(Char) : Len(t) \in Nat BY LenProperties
  <2> QED BY <2>1
<1>2. PICK n \in T : \A k \in T : n <= k
  <2>1. T \in SUBSET Nat OBVIOUS
  <2> HIDE DEF T
  <2> QED BY <1>1, <2>1, LeastNatural
<1>3. PICK t \in Seq(Char) : Len(t) = n /\ ~ P(t)
  BY <1>2
<1>4. t # <<>>
  <2> SUFFICES ASSUME t = <<>> PROVE P(t)
    BY <1>3
  <2>1. s \o t = s
    BY ConcatEmptySeq
  <2> QED BY <2>1
<1>5. PICK u \in Seq(Char), x \in Char : t = Append(u, x)
  BY <1>4, SequenceEmptyOrAppend
<1>6. /\ Len(u) \in Nat /\ n = Len(u) + 1 /\ t[Len(u) + 1] = x
      /\ \A k \in 1 .. Len(u) : t[k] = u[k]
  BY <1>3, <1>5, AppendProperties, LenProperties
<1>7. P(u)
  <2>1. ~ (n <= Len(u)) BY <1>6
  <2>2. Len(u) \notin T
    <3> HIDE DEF T
    <3> QED BY <1>2, <2>1
  <2> QED BY <1>6, <2>2
<1>8. ASSUME \A k \in 1 .. Len(t) : t[k] \in Eol
      PROVE  HasLines("received", s \o t, L, <<>>)
  <2>1. x \in Eol /\ \A k \in 1 .. Len(u) : u[k] \in Eol
    <3>1. Len(u) + 1 \in 1 .. Len(t) /\ \A k \in 1 .. Len(u) : k \in 1 .. Len(t)
      BY <1>3, <1>6
    <3> QED BY <1>6, <1>8, <3>1
  <2>2. HasLines("received", s \o u, L, <<>>)
    BY <1>7, <2>1
  <2>3. s \o t = Append(s \o u, x) /\ s \o u \in Seq(Char)
    BY <1>5, ConcatAppend, ConcatProperties
  <2>4. Say(L, LineAs("received", <<>>)) = L
    <3>1. <<Said>> \o <<>> = <<Said>> BY SaidSequence, ConcatEmptySeq
    <3> QED BY <3>1, PrintedNothing DEF LineAs, Say
  <2>5. HasLines("received", Append(s \o u, x), L, <<>>)
    <3> DEFINE y == s \o u
               z == <<>>
    <3>1. y \in Seq(Char) /\ HasLines("received", y, L, z) /\ "received" \in LineKinds
      BY <2>2, <2>3 DEF LineKinds
    <3>2. Say(L, LineAs("received", z)) = L /\ z = <<>> BY <2>4
    <3> HIDE DEF y, z
    <3>3. HasLines("received", Append(y, x), L, z)
      BY <2>1, <3>1, <3>2, LineStep
    <3> QED BY <3>3 DEF y, z
  <2> QED BY <2>3, <2>5
<1>9. P(t)
  BY <1>8
<1> QED BY <1>3, <1>9

(* A text up to its first line end, that and the ends that follow, and the *)
(* rest of it.                                                             *)
LEMMA CutAtEnds ==
    ASSUME NEW t \in Seq(Char), \E k \in 1 .. Len(t) : t[k] \in Eol
    PROVE  LET ends == {k \in 1 .. Len(t) : t[k] \in Eol}
               m    == Min(ends)
               next == Min({k \in m .. Len(t) + 1 : k \notin ends})
               q    == SubSeq(t, 1, m - 1)
               r    == SubSeq(t, m + 1, next - 1)
               rest == SubSeq(t, next, Len(t))
           IN  /\ q \in Seq(Char) /\ r \in Seq(Char) /\ rest \in Seq(Char)
               /\ t[m] \in Eol /\ t[m] \in Char
               /\ t = (Append(q, t[m]) \o r) \o rest
               /\ \A k \in 1 .. Len(q) : q[k] \notin Eol
               /\ \A k \in 1 .. Len(r) : r[k] \in Eol
<1> DEFINE ends == {k \in 1 .. Len(t) : t[k] \in Eol}
           m    == Min(ends)
           K    == {k \in m .. Len(t) + 1 : k \notin ends}
           next == Min(K)
           q    == SubSeq(t, 1, m - 1)
           r    == SubSeq(t, m + 1, next - 1)
           rest == SubSeq(t, next, Len(t))
<1>1. Len(t) \in Nat /\ \A k \in 1 .. Len(t) : t[k] \in Char
  BY LenProperties, ElementOfSeq
<1>2. m \in 1 .. Len(t) /\ t[m] \in Eol /\ \A k \in 1 .. Len(t) : t[k] \in Eol => m <= k
  <2>1. ends \in SUBSET Nat /\ ends # {} BY <1>1
  <2>2. m \in ends /\ \A k \in ends : m <= k
    <3> HIDE DEF ends
    <3> QED BY <2>1, MinNatural
  <2> QED BY <2>2
<1> HIDE DEF m
<1>3. next \in m + 1 .. Len(t) + 1 /\ \A k \in m .. next - 1 : k \in ends
  <2>1. K \in SUBSET Nat /\ Len(t) + 1 \in K BY <1>1, <1>2
  <2>2. next \in K /\ \A k \in K : next <= k
    <3> HIDE DEF K
    <3> QED BY <2>1, MinNatural
  <2>3. m \in ends BY <1>2
  <2>4. next \in m .. Len(t) + 1 /\ next # m BY <2>2, <2>3
  <2>5. \A k \in m .. next - 1 : k \in ends
    <3> TAKE k \in m .. next - 1
    <3>1. k \in m .. Len(t) + 1 /\ ~ (next <= k) BY <1>1, <1>2, <2>4
    <3> QED BY <2>2, <3>1
  <2> QED BY <1>1, <1>2, <2>4, <2>5
<1> HIDE DEF next
<1>4. /\ q \in Seq(Char) /\ Len(q) = m - 1
      /\ \A k \in 1 .. m - 1 : q[k] = t[k]
  <2>1. 1 \in Int /\ m - 1 \in Int /\ \A k \in 1 .. m - 1 : t[k] \in Char
    BY <1>1, <1>2
  <2>2. /\ q \in Seq(Char)
        /\ Len(q) = IF 1 <= m - 1 THEN m - 1 - 1 + 1 ELSE 0
        /\ \A k \in 1 .. m - 1 - 1 + 1 : q[k] = t[1 + k - 1]
    BY <2>1, SubSeqProperties
  <2> QED BY <1>1, <1>2, <2>2
<1>5. /\ r \in Seq(Char) /\ Len(r) = next - 1 - m
      /\ \A k \in 1 .. next - 1 - m : r[k] = t[m + k]
  <2>1. m + 1 \in Int /\ next - 1 \in Int /\ \A k \in m + 1 .. next - 1 : t[k] \in Char
    BY <1>1, <1>2, <1>3
  <2>2. /\ r \in Seq(Char)
        /\ Len(r) = IF m + 1 <= next - 1 THEN next - 1 - (m + 1) + 1 ELSE 0
        /\ \A k \in 1 .. next - 1 - (m + 1) + 1 : r[k] = t[m + 1 + k - 1]
    BY <2>1, SubSeqProperties
  <2> QED BY <1>1, <1>2, <1>3, <2>2
<1>6. rest \in Seq(Char)
  <2>1. next \in Int /\ Len(t) \in Int /\ \A k \in next .. Len(t) : t[k] \in Char
    BY <1>1, <1>2, <1>3
  <2> QED BY <2>1, SubSeqProperties
<1>7. t = (Append(q, t[m]) \o r) \o rest
  <2>1. SubSeq(t, 1, m) = Append(q, t[m])
    <3>1. 1 \in 1 .. Len(t) /\ m \in 1 .. Len(t) BY <1>1, <1>2
    <3>2. SubSeq(t, 1, m) = q \o <<t[m]>> BY <3>1, SubSeqRecursiveSecond
    <3>3. t[m] \in Char BY <1>1, <1>2
    <3> QED BY <1>4, <3>2, <3>3, AppendIsConcat
  <2>2. SubSeq(t, 1, m) \o r = SubSeq(t, 1, next - 1)
    <3>1. 1 \in 1 .. Len(t) + 1 /\ m \in 1 - 1 .. Len(t) /\ next - 1 \in m .. Len(t)
      BY <1>1, <1>2, <1>3
    <3> QED BY <3>1, ConcatAdjacentSubSeq
  <2>3. SubSeq(t, 1, next - 1) \o rest = SubSeq(t, 1, Len(t))
    <3> DEFINE j == next - 1
    <3>1. /\ 1 \in 1 .. Len(t) + 1 /\ j \in 1 - 1 .. Len(t)
          /\ Len(t) \in j .. Len(t) /\ j + 1 = next
      BY <1>1, <1>2, <1>3
    <3> HIDE DEF j
    <3>2. SubSeq(t, 1, j) \o SubSeq(t, j + 1, Len(t)) = SubSeq(t, 1, Len(t))
      BY <3>1, ConcatAdjacentSubSeq
    <3> QED BY <3>1, <3>2 DEF j
  <2>4. SubSeq(t, 1, Len(t)) = t
    BY SubSeqFull
  <2> QED BY <2>1, <2>2, <2>3, <2>4
<1>8. \A k \in 1 .. Len(q) : q[k] \notin Eol
  <2> TAKE k \in 1 .. Len(q)
  <2>1. k \in 1 .. m - 1 /\ k \in 1 .. Len(t) /\ ~ (m <= k) BY <1>1, <1>2, <1>4
  <2> QED BY <1>2, <1>4, <2>1
<1>9. \A k \in 1 .. Len(r) : r[k] \in Eol
  <2> TAKE k \in 1 .. Len(r)
  <2>1. k \in 1 .. next - 1 - m /\ m + k \in m .. next - 1 BY <1>1, <1>2, <1>3, <1>5
  <2> QED BY <1>3, <1>5, <2>1
<1> QED BY <1>1, <1>2, <1>4, <1>5, <1>6, <1>7, <1>8, <1>9 DEF m, next

(* A line with its ends, as it is received and as it is answered.          *)
LEMMA LineReceived ==
    ASSUME NEW p \in Seq(Char), NEW L,
           HasLines("received", p, L, <<>>),
           NEW q \in Seq(Char), \A k \in 1 .. Len(q) : q[k] \notin Eol,
           NEW x \in Char, x \in Eol,
           NEW r \in Seq(Char), \A k \in 1 .. Len(r) : r[k] \in Eol
    PROVE  HasLines("received", Append(p \o q, x) \o r, Say(L, <<Said>> \o Printed(q)), <<>>)
<1> DEFINE w == <<>>
           y == p \o q
           z == Append(y, x)
           M == Say(L, LineAs("received", q))
<1>1. "received" \in LineKinds BY DEF LineKinds
<1>2. w \in Seq(Char) /\ HasLines("received", p, L, w) /\ w \o q = q
  BY EmptySeq, ConcatEmptySeq
<1>3. w = <<>> OBVIOUS
<1> HIDE DEF w
<1>4. HasLines("received", y, L, q)
  <2>1. \A t \in Seq(Char) :
          (\A k \in 1 .. Len(t) : t[k] \notin Eol) =>
             HasLines("received", p \o t, L, w \o t)
    BY <1>1, <1>2, LineGrows
  <2> QED BY <1>2, <2>1
<1>5. y \in Seq(Char) /\ z \in Seq(Char)
  BY ConcatProperties, AppendProperties
<1> HIDE DEF y
<1>6. HasLines("received", z, M, w)
  BY <1>1, <1>3, <1>4, <1>5, LineStep
<1> HIDE DEF z, M
<1>7. HasLines("received", z \o r, M, w)
  BY <1>3, <1>5, <1>6, EndsAreSkipped
<1>8. M = Say(L, <<Said>> \o Printed(q)) BY DEF M, LineAs
<1> QED BY <1>3, <1>7, <1>8 DEF z, y

LEMMA LineReplied ==
    ASSUME NEW y \in Seq(Char), NEW L,
           HasLines("answered", y, L, <<>>),
           NEW q \in Seq(Char), \A k \in 1 .. Len(q) : q[k] \notin Eol
    PROVE  HasLines("answered", Append(y \o (<<Said>> \o q), NL), Say(L, <<Said>> \o q), <<>>)
<1> DEFINE w == <<>>
           W == <<Said>> \o q
           u == y \o W
           M == Say(L, LineAs("answered", W))
<1>1. "answered" \in LineKinds BY DEF LineKinds
<1>2. w \in Seq(Char) /\ HasLines("answered", y, L, w)
  OBVIOUS
<1>3. W \in Seq(Char) /\ w \o W = W /\ \A k \in 1 .. Len(W) : W[k] \notin Eol
  <2>1. Len(<<Said>>) = 1 /\ <<Said>>[1] = Said /\ Len(q) \in Nat
    BY LenProperties
  <2>2. W \in Seq(Char) /\ Len(W) = 1 + Len(q)
        /\ \A k \in 1 .. 1 + Len(q) : W[k] = IF k <= 1 THEN <<Said>>[k] ELSE q[k - 1]
    BY <2>1, SaidSequence, ConcatProperties
  <2>3. \A k \in 1 .. 1 + Len(q) : k = 1 \/ (~ (k <= 1) /\ k - 1 \in 1 .. Len(q))
    BY <2>1
  <2>4. \A k \in 1 .. 1 + Len(q) : W[k] \notin Eol
    BY <2>1, <2>2, <2>3, SaidSequence
  <2>5. w \o W = W
    BY <2>2, ConcatEmptySeq
  <2> HIDE DEF W
  <2> QED BY <2>2, <2>4, <2>5
<1>4. M = Say(L, W) BY DEF LineAs
<1>w. w = <<>> OBVIOUS
<1> HIDE DEF w, W
<1>5. HasLines("answered", u, L, W)
  <2>1. HasLines("answered", u, L, w \o W)
    BY <1>1, <1>2, <1>3, LineGrows
  <2> QED BY <1>3, <2>1
<1>6. u \in Seq(Char)
  BY <1>3, ConcatProperties
<1>7. NL \in Char /\ NL \in Eol
  BY DEF NL, Char, Eol
<1> HIDE DEF u, M
<1>8. HasLines("answered", Append(u, NL), M, w)
  <2>1. HasLines("answered", Append(u, NL), Say(L, LineAs("answered", W)), <<>>)
    BY <1>1, <1>5, <1>6, <1>7, LineStep
  <2> QED BY <1>w, <2>1 DEF M
<1> QED BY <1>4, <1>8, <1>w DEF u, W

(* What was received is lines that are answered, and what is held.         *)
LinesAgree(got, b, e) ==
    \E p \in Seq(Char) : \E L :
        /\ got = p \o b.input
        /\ HasLines("received", p, L, <<>>)
        /\ HasLines("answered", e \o b.output, L, <<>>)

LEMMA CallbackKeepsLines ==
    ASSUME NEW b \in Bevs, NEW got \in Seq(Char), NEW e \in Seq(Char), NEW s \in Seq(Char),
           LinesAgree(got, b, e)
    PROVE  LET new == buf_read_callback([input |-> b.input \o s, output |-> b.output])
           IN  new \in Bevs /\ LinesAgree(got \o s, new, e)
<1> DEFINE t == b.input \o s
           old == [input |-> t, output |-> b.output]
           ends == {k \in 1 .. Len(t) : t[k] \in Eol}
<1>1. b.input \in Seq(Char) /\ b.output \in Seq(Char) /\ t \in Seq(Char)
  BY ConcatProperties DEF Bevs
<1>2. old \in Bevs /\ old.input = t /\ old.output = b.output
  BY <1>1 DEF Bevs
<1>a. PICK p \in Seq(Char) : \E L :
        /\ got = p \o b.input
        /\ HasLines("received", p, L, <<>>)
        /\ HasLines("answered", e \o b.output, L, <<>>)
  BY DEF LinesAgree
<1>b. PICK L :
        /\ got = p \o b.input
        /\ HasLines("received", p, L, <<>>)
        /\ HasLines("answered", e \o b.output, L, <<>>)
  BY <1>a
<1>3. /\ p \in Seq(Char) /\ got = p \o b.input
      /\ HasLines("received", p, L, <<>>)
      /\ HasLines("answered", e \o b.output, L, <<>>)
  BY <1>a, <1>b
<1>4. got \o s = p \o t
  BY <1>1, <1>3, Associates
<1> HIDE DEF t, old
<1>5. CASE ends = {}
  <2>1. buf_read_callback(old) = old
    BY <1>2, <1>5 DEF buf_read_callback
  <2> QED BY <1>2, <1>3, <1>4, <2>1 DEF LinesAgree, old, t
<1>6. CASE ends # {}
  <2> DEFINE m    == Min(ends)
             next == Min({k \in m .. Len(t) + 1 : k \notin ends})
             q    == SubSeq(t, 1, m - 1)
             r    == SubSeq(t, m + 1, next - 1)
             rest == SubSeq(t, next, Len(t))
             x    == t[m]
             v    == Printed(q)
             w    == <<Said>>
             W    == w \o v
             o    == b.output
             z    == Append(q, x)
             out  == o \o w \o v \o <<NL>>
             new  == [input |-> rest, output |-> out]
             front == Append(p \o q, x) \o r
  <2>1. /\ q \in Seq(Char) /\ r \in Seq(Char) /\ rest \in Seq(Char)
        /\ x \in Eol /\ x \in Char
        /\ t = (Append(q, x) \o r) \o rest
        /\ \A k \in 1 .. Len(q) : q[k] \notin Eol
        /\ \A k \in 1 .. Len(r) : r[k] \in Eol
    <3>1. t \in Seq(Char) /\ \E k \in 1 .. Len(t) : t[k] \in Eol
      BY <1>1, <1>6
    <3> QED BY <3>1, CutAtEnds, ZenonT(60)
  <2>2. buf_read_callback(old) = new
    BY <1>2, <1>6 DEF buf_read_callback
  <2> HIDE DEF q, r, rest, x, m, next
  <2>3. /\ q \in Seq(Char) /\ r \in Seq(Char) /\ rest \in Seq(Char) /\ x \in Char
        /\ p \in Seq(Char) /\ b.input \in Seq(Char) /\ o \in Seq(Char)
        /\ w \in Seq(Char) /\ NL \in Char /\ <<NL>> \in Seq(Char)
    BY <1>1, <1>3, <2>1, SaidSequence DEF NL, Char
  <2>v. v \in Seq(Char) /\ \A k \in 1 .. Len(v) : v[k] \notin Eol
    <3>1. \A k \in 1 .. Len(Printed(q)) : \E l \in 1 .. Len(q) : Printed(q)[k] = q[l]
      BY <2>3, PrintedSequence
    <3>2. Printed(q) \in Seq(Char) BY <2>3, PrintedSequence
    <3> QED BY <2>1, <3>1, <3>2
  <2>s. Say(L, W) = Say(L, <<Said>> \o Printed(q)) OBVIOUS
  <2> HIDE DEF w, o, v
  <2>4. W \in Seq(Char) /\ o \o W \in Seq(Char) /\ e \o o \in Seq(Char)
    <3>1. W \in Seq(Char) BY <2>3, <2>v, ConcatProperties
    <3> HIDE DEF W
    <3> QED BY <2>3, <3>1, ConcatProperties
  <2>5. out = Append(o \o W, NL)
    <3>1. Assoc(o, w, v) BY <2>3, <2>v, AssocHolds
    <3>2. (o \o w) \o v = o \o W BY <3>1 DEF Assoc
    <3> HIDE DEF W
    <3> QED BY <2>3, <2>4, <3>2, AppendIsConcat
  <2>6. new \in Bevs
    <3>1. out \in Seq(Char) BY <2>3, <2>4, <2>5, AppendProperties
    <3> HIDE DEF out
    <3> QED BY <2>3, <3>1 DEF Bevs
  <2>7. HasLines("received", front, Say(L, W), <<>>)
    <3>1. HasLines("received", p, L, <<>>) BY <1>3
    <3>2. x \in Eol /\ (\A k \in 1 .. Len(q) : q[k] \notin Eol)
          /\ (\A k \in 1 .. Len(r) : r[k] \in Eol)
      BY <2>1
    <3>3. HasLines("received", front, Say(L, <<Said>> \o Printed(q)), <<>>)
      BY <2>3, <3>1, <3>2, LineReceived
    <3> QED BY <2>s, <3>3
  <2>8. front \in Seq(Char)
    <3>1. p \o q \in Seq(Char) BY <2>3, ConcatProperties
    <3>2. Append(p \o q, x) \in Seq(Char) BY <2>3, <3>1, AppendProperties
    <3> QED BY <2>3, <3>2, ConcatProperties
  <2>9. got \o s = front \o rest
    <3>1. Append(p \o q, x) = p \o z BY <2>3, ConcatAppend
    <3>2. z \in Seq(Char) BY <2>3, AppendProperties
    <3>3. t = (z \o r) \o rest BY <2>1
    <3> HIDE DEF z
    <3>4. z \o r \in Seq(Char) BY <2>3, <3>2, ConcatProperties
    <3>5. Assoc(p, z, r) /\ Assoc(p, z \o r, rest) BY <2>3, <3>2, <3>4, AssocHolds
    <3>6. p \o t = ((p \o z) \o r) \o rest BY <3>3, <3>5 DEF Assoc
    <3> QED BY <1>4, <3>1, <3>6
  <2>10. HasLines("answered", e \o out, Say(L, W), <<>>)
    <3>1. e \o Append(o \o W, NL) = Append(e \o (o \o W), NL)
      <4> DEFINE a == o \o W
      <4>1. a \in Seq(Char) BY <2>4
      <4> HIDE DEF a
      <4>2. e \o Append(a, NL) = Append(e \o a, NL) BY <2>3, <4>1, ConcatAppend
      <4> QED BY <4>2 DEF a
    <3>2. Assoc(e, o, W) BY <2>3, <2>4, AssocHolds
    <3>3. e \o out = Append((e \o o) \o W, NL) BY <2>5, <3>1, <3>2 DEF Assoc
    <3> DEFINE y == e \o o
    <3>4. y \in Seq(Char) /\ HasLines("answered", y, L, <<>>)
      BY <1>3, <2>4 DEF o
    <3> HIDE DEF y
    <3>5. HasLines("answered", Append(y \o (<<Said>> \o v), NL), Say(L, <<Said>> \o v), <<>>)
      BY <2>v, <3>4, LineReplied
    <3> QED BY <3>3, <3>5 DEF y, w
  <2>11. LinesAgree(got \o s, new, e)
    <3>1. new.input = rest /\ new.output = out OBVIOUS
    <3> HIDE DEF new, out, front
    <3> QED BY <2>7, <2>8, <2>9, <2>10, <3>1 DEF LinesAgree
  <2> QED BY <2>2, <2>6, <2>11 DEF old, t
<1> QED BY <1>5, <1>6

-----------------------------------------------------------------------------
(* The inductive invariant. Types first; nothing is received that was not  *)
(* sent.                                                                   *)
TypeInv ==
    /\ server \in {"rot13", "echo"}
    /\ conn \in [Fds -> Clients \cup {NULL}]
    /\ bev \in [Fds -> Bevs \cup {NULL}]
    /\ backlog \in Seq(Clients)
    /\ peer \in [Clients -> PeerStates]
    /\ sent \in [Clients -> Seq(Char)]
    /\ rpos \in [Clients -> Nat]
    /\ echoed \in [Clients -> Seq(Char)]
    /\ drained \in [Clients -> Nat]
    /\ \A c \in Clients : rpos[c] <= Len(sent[c])

(* A client connects once, waits in the backlog, and is then behind one    *)
(* descriptor at most. Until it is accepted nothing was received from it   *)
(* or sent to it.                                                          *)
Waits(c) == \E k \in 1 .. Len(backlog) : backlog[k] = c
Fresh(c) == rpos[c] = 0 /\ echoed[c] = <<>> /\ \A f \in Fds : conn[f] # c

Waiting ==
    /\ \A c \in Clients : peer[c] = "idle" => Fresh(c) /\ ~ Waits(c)
    /\ \A c \in Clients : Waits(c) => Fresh(c)
    /\ \A k, l \in 1 .. Len(backlog) : backlog[k] = backlog[l] => k = l
    /\ \A f, g \in Fds : conn[f] = conn[g] /\ conn[f] # NULL => f = g
    /\ ReadEvent(Listener) \in active => backlog # <<>>

(* What has an event or a bufferevent has a client and a bufferevent, and  *)
(* what was answered and what is held account for what was received.       *)
Attended(f) == bev[f] # NULL \/ ReadEvent(f) \in active \/ WriteEvent(f) \in active

Accounts(b, got, e) ==
    /\ server = "rot13" =>
         /\ Settled(b)
         /\ Folded("owed", got) = [input |-> b.input, output |-> e \o b.output]
    /\ server = "echo" => LinesAgree(got, b, e)

Holds(f) ==
    /\ conn[f] \in Clients
    /\ bev[f] \in Bevs
    /\ Accounts(bev[f], Received(conn[f]), echoed[conn[f]])

Attending == \A f \in Fds : Attended(f) => Holds(f)

Inv == TypeInv /\ Waiting /\ Attending

-----------------------------------------------------------------------------
LEMMA EventFacts ==
    /\ \A f, g : ReadEvent(f) # WriteEvent(g)
    /\ \A f, g : ReadEvent(f) = ReadEvent(g) => f = g
    /\ \A f, g : WriteEvent(f) = WriteEvent(g) => f = g
    /\ Listener \notin Fds
<1>1. \A f, g : ReadEvent(f) # WriteEvent(g)
  <2> TAKE f, g
  <2>1. ReadEvent(f).what = "read" /\ WriteEvent(g).what = "write"
    BY DEF ReadEvent, WriteEvent
  <2> QED BY <2>1
<1>2. \A f, g : ReadEvent(f) = ReadEvent(g) => f = g
  <2> TAKE f, g
  <2>1. ReadEvent(f).fd = f /\ ReadEvent(g).fd = g
    BY DEF ReadEvent
  <2> QED BY <2>1
<1>3. \A f, g : WriteEvent(f) = WriteEvent(g) => f = g
  <2> TAKE f, g
  <2>1. WriteEvent(f).fd = f /\ WriteEvent(g).fd = g
    BY DEF WriteEvent
  <2> QED BY <2>1
<1>4. Listener \notin Fds
  BY ConnectionsAssumption DEF Listener, Fds
<1> QED BY <1>1, <1>2, <1>3, <1>4

LEMMA ReceivedProperties ==
    ASSUME TypeInv, NEW c \in Clients
    PROVE  /\ sent[c] \in Seq(Char) /\ Len(sent[c]) \in Nat
           /\ rpos[c] \in Nat /\ rpos[c] <= Len(sent[c])
           /\ echoed[c] \in Seq(Char)
           /\ Received(c) \in Seq(Char) /\ Len(Received(c)) = rpos[c]
<1>1. /\ sent[c] \in Seq(Char) /\ Len(sent[c]) \in Nat
      /\ rpos[c] \in Nat /\ rpos[c] <= Len(sent[c]) /\ echoed[c] \in Seq(Char)
  BY LenProperties DEF TypeInv
<1>2. \A k \in 1 .. rpos[c] : sent[c][k] \in Char
  BY <1>1, ElementOfSeq
<1>3. Received(c) \in Seq(Char) /\ Len(Received(c)) = rpos[c]
  BY <1>1, <1>2, SubSeqProperties DEF Received
<1> QED BY <1>1, <1>3

(* The first client in the backlog is new, and no other one waits for it.  *)
LEMMA FirstWaiting ==
    ASSUME TypeInv, Waiting, ReadEvent(Listener) \in active
    PROVE  LET c == Head(backlog) IN
           /\ c \in Clients /\ c # NULL
           /\ Fresh(c) /\ peer[c] # "idle"
           /\ Tail(backlog) \in Seq(Clients)
           /\ \A k \in 1 .. Len(Tail(backlog)) :
                /\ k + 1 \in 1 .. Len(backlog)
                /\ Tail(backlog)[k] = backlog[k + 1]
                /\ Tail(backlog)[k] # c
<1>1. backlog \in Seq(Clients) /\ backlog # <<>>
  BY DEF TypeInv, Waiting
<1>2. Len(backlog) \in Nat /\ Len(backlog) > 0
  BY <1>1, EmptySeq
<1>3. /\ Head(backlog) \in Clients /\ Tail(backlog) \in Seq(Clients)
      /\ Len(Tail(backlog)) = Len(backlog) - 1
      /\ \A k \in 1 .. Len(Tail(backlog)) : Tail(backlog)[k] = backlog[k + 1]
  BY <1>1, HeadTailProperties
<1>4. Head(backlog) = backlog[1] /\ 1 \in 1 .. Len(backlog)
  BY <1>1, <1>2
<1>5. Waits(Head(backlog))
  BY <1>4 DEF Waits
<1>6. Fresh(Head(backlog)) /\ peer[Head(backlog)] # "idle"
  BY <1>3, <1>5 DEF Waiting
<1>7. ASSUME NEW k \in 1 .. Len(Tail(backlog))
      PROVE  /\ k + 1 \in 1 .. Len(backlog)
             /\ Tail(backlog)[k] # Head(backlog)
  <2>1. k + 1 \in 1 .. Len(backlog) /\ k + 1 # 1
    BY <1>2, <1>3
  <2>2. backlog[k + 1] # backlog[1]
    BY <1>4, <2>1 DEF Waiting
  <2> QED BY <1>3, <1>4, <2>1, <2>2
<1>8. Head(backlog) # NULL
  BY <1>3, ConnectionsAssumption
<1> QED BY <1>3, <1>6, <1>7, <1>8

-----------------------------------------------------------------------------
(* What a step does, for those that change a connection.                   *)
LEMMA ReceiveFacts ==
    ASSUME Inv, NEW f \in Fds, Receive(f)
    PROVE  LET c == conn[f]
               b == bev[f] IN
           /\ Holds(f)
           /\ \E s \in Seq(Char) :
                /\ Received(c)' = Received(c) \o s
                /\ rpos' = [rpos EXCEPT ![c] = rpos[c] + Len(s)]
                /\ rpos[c] + Len(s) <= Len(sent[c])
                /\ server = "rot13" => Len(b.input) + Len(s) <= MaxLine
                /\ bev' = [bev EXCEPT ![f] =
                     IF server = "rot13"
                     THEN readcb([input |-> b.input \o s, output |-> b.output])
                     ELSE buf_read_callback([input |-> b.input \o s, output |-> b.output])]
           /\ active' = active \ {ReadEvent(f)}
           /\ UNCHANGED <<server, conn, backlog, peer, sent, echoed, drained>>
<1> DEFINE c == conn[f]
           b == bev[f]
           i == Inbound(c)
           l == Least(RecvMax, i)
           chunk == Chunk(c)
           n == Least(Room(f), Len(chunk))
           s == SubSeq(chunk, 1, n)
<1>1. Holds(f) /\ c \in Clients /\ b \in Bevs
  BY DEF Inv, Attending, Attended, Receive, Calls, Holds
<1>2. b = [input |-> b.input, output |-> b.output] /\ b.input \in Seq(Char)
      /\ Len(b.input) \in Nat
  BY <1>1, LenProperties DEF Bevs
<1>3. /\ sent[c] \in Seq(Char) /\ Len(sent[c]) \in Nat /\ rpos[c] \in Nat
      /\ rpos[c] <= Len(sent[c])
  BY <1>1, ReceivedProperties DEF Inv
<1>4. i \in Nat /\ i > 0 /\ rpos[c] + i = Len(sent[c])
  BY <1>3 DEF Receive, Client, Inbound
<1>5. l \in Nat /\ l <= i
  BY <1>4, ConnectionsAssumption DEF Least
<1> HIDE DEF i, l
<1>6. \A k \in 1 .. Len(sent[c]) : sent[c][k] \in Char
  BY <1>3, ElementOfSeq
<1>7. /\ chunk \in Seq(Char) /\ Len(chunk) = l
      /\ \A k \in 1 .. l : chunk[k] = sent[c][rpos[c] + k]
  <2>1. chunk = SubSeq(sent[c], rpos[c] + 1, rpos[c] + l)
    BY DEF Chunk, l, i
  <2> DEFINE m == rpos[c] + 1
             u == rpos[c] + l
  <2>2. m \in Int /\ u \in Int /\ \A k \in m .. u : sent[c][k] \in Char
    BY <1>3, <1>4, <1>5, <1>6
  <2>3. u - m + 1 = l /\ (m <= u <=> l > 0) /\ \A k \in 1 .. l : m + k - 1 = rpos[c] + k
    BY <1>3, <1>5
  <2> HIDE DEF m, u
  <2>4. /\ SubSeq(sent[c], m, u) \in Seq(Char)
        /\ Len(SubSeq(sent[c], m, u)) = IF m <= u THEN u - m + 1 ELSE 0
        /\ \A k \in 1 .. u - m + 1 : SubSeq(sent[c], m, u)[k] = sent[c][m + k - 1]
    BY <2>2, SubSeqProperties
  <2>5. u - m + 1 = l /\ 1 .. u - m + 1 = 1 .. l BY <2>3
  <2>6. /\ chunk \in Seq(Char)
        /\ \A k \in 1 .. l : chunk[k] = SubSeq(sent[c], m, u)[k]
    BY <2>1, <2>4 DEF m, u
  <2>7. Len(chunk) = IF m <= u THEN u - m + 1 ELSE 0 BY <2>1, <2>4 DEF m, u
  <2> HIDE DEF chunk
  <2>8. Len(chunk) = l BY <1>5, <2>3, <2>7
  <2>9. \A k \in 1 .. l : chunk[k] = sent[c][rpos[c] + k]
    BY <2>3, <2>4, <2>5, <2>6
  <2> QED BY <2>6, <2>8, <2>9
<1> HIDE DEF chunk
<1>8. /\ n \in Nat /\ n <= l
      /\ server = "rot13" => Len(b.input) + n <= MaxLine
  <2>1. CASE server = "rot13"
    <3>1. Len(b.input) < MaxLine
      BY <1>1, <2>1 DEF Holds, Accounts, Settled
    <3>2. Room(f) = MaxLine - Len(b.input) BY <2>1 DEF Room
    <3>3. MaxLine \in Nat BY BuffereventsAssumption
    <3> DEFINE a == Len(b.input)
    <3>4. n = IF MaxLine - a <= l THEN MaxLine - a ELSE l
      BY <1>7, <3>2 DEF Least
    <3>5. a \in Nat /\ a < MaxLine BY <1>2, <3>1
    <3> HIDE DEF a, n
    <3>6. n \in Nat /\ n <= l /\ a + n <= MaxLine
      BY <1>5, <3>3, <3>4, <3>5
    <3> QED BY <3>6 DEF a
  <2>2. CASE server # "rot13"
    <3>1. Room(f) = RecvMax BY <2>2 DEF Room
    <3>2. RecvMax \in Nat BY ConnectionsAssumption
    <3>3. n = IF RecvMax <= l THEN RecvMax ELSE l BY <1>7, <3>1 DEF Least
    <3> HIDE DEF n
    <3>4. n \in Nat /\ n <= l BY <1>5, <3>2, <3>3
    <3> QED BY <2>2, <3>4
  <2> QED BY <2>1, <2>2
<1> HIDE DEF n
<1>9. /\ s \in Seq(Char) /\ Len(s) = n
      /\ \A k \in 1 .. n : s[k] = sent[c][rpos[c] + k]
  <2>1. 1 \in Int /\ n \in Int /\ \A k \in 1 .. n : chunk[k] \in Char
    BY <1>5, <1>7, <1>8, ElementOfSeq
  <2>2. /\ s \in Seq(Char) /\ Len(s) = IF 1 <= n THEN n - 1 + 1 ELSE 0
        /\ \A k \in 1 .. n - 1 + 1 : s[k] = chunk[1 + k - 1]
    BY <2>1, SubSeqProperties
  <2> QED BY <1>5, <1>7, <1>8, <2>2
<1>10. rpos' = [rpos EXCEPT ![c] = rpos[c] + Len(s)]
  <2>1. s = SubSeq(Chunk(Client(f)), 1, Least(Room(f), Len(Chunk(Client(f)))))
    BY DEF chunk, n, Client
  <2> HIDE DEF s
  <2> QED BY <2>1 DEF Receive, Client
<1>11. bev' = [bev EXCEPT ![f] =
                 IF server = "rot13"
                 THEN readcb([input |-> b.input \o s, output |-> b.output])
                 ELSE buf_read_callback([input |-> b.input \o s, output |-> b.output])]
  <2>1. s = SubSeq(Chunk(Client(f)), 1, Least(Room(f), Len(Chunk(Client(f)))))
    BY DEF chunk, n, Client
  <2>2. [bev[f] EXCEPT !.input = @ \o s] = [input |-> b.input \o s, output |-> b.output]
    <3> DEFINE a == b.input
               o == b.output
    <3>1. b = [input |-> a, output |-> o] BY <1>2
    <3> HIDE DEF a, o, s
    <3>2. [[input |-> a, output |-> o] EXCEPT !.input = @ \o s]
            = [input |-> a \o s, output |-> o]
      BY SMTT(20)
    <3> QED BY <3>1, <3>2 DEF a, o
  <2> HIDE DEF s
  <2> QED BY <2>1, <2>2 DEF Receive
<1>12. /\ active' = active \ {ReadEvent(f)}
       /\ UNCHANGED <<server, conn, backlog, peer, sent, echoed, drained>>
  BY DEF Receive, Called
<1>13. Received(c)' = Received(c) \o s
  <2>1. rpos'[c] = rpos[c] + n /\ sent' = sent
    BY <1>1, <1>9, <1>10, <1>12 DEF Inv, TypeInv
  <2> DEFINE new == SubSeq(sent[c], 1, rpos[c] + n)
  <2>2. Received(c)' = new
    BY <1>12, <2>1 DEF Received
  <2>3. new \in Seq(Char) /\ Len(new) = rpos[c] + n
        /\ \A k \in 1 .. rpos[c] + n : new[k] = sent[c][k]
    <3> DEFINE u == rpos[c] + n
    <3>1. u \in Nat /\ \A k \in 1 .. u : sent[c][k] \in Char
      BY <1>3, <1>4, <1>5, <1>6, <1>8
    <3> HIDE DEF u
    <3>2. /\ SubSeq(sent[c], 1, u) \in Seq(Char)
          /\ Len(SubSeq(sent[c], 1, u)) = IF 1 <= u THEN u - 1 + 1 ELSE 0
          /\ \A k \in 1 .. u - 1 + 1 : SubSeq(sent[c], 1, u)[k] = sent[c][1 + k - 1]
      BY <3>1, SubSeqProperties
    <3>3. /\ SubSeq(sent[c], 1, u) \in Seq(Char)
          /\ Len(SubSeq(sent[c], 1, u)) = u
          /\ \A k \in 1 .. u : SubSeq(sent[c], 1, u)[k] = sent[c][k]
      BY <3>1, <3>2
    <3> QED BY <3>3 DEF u
  <2>4. /\ Received(c) \in Seq(Char) /\ Len(Received(c)) = rpos[c]
        /\ \A k \in 1 .. rpos[c] : Received(c)[k] = sent[c][k]
    <3>1. \A k \in 1 .. rpos[c] : k \in Int /\ 1 + k - 1 = k BY <1>3
    <3>2. \A k \in 1 .. rpos[c] : sent[c][k] \in Char BY <1>3, <1>6
    <3> QED BY <1>1, <1>3, <3>1, <3>2, ReceivedProperties, SubSeqProperties DEF Inv, Received
  <2> DEFINE old == Received(c)
  <2>5. /\ old \o s \in Seq(Char) /\ Len(old \o s) = rpos[c] + n
        /\ \A k \in 1 .. rpos[c] + n :
             (old \o s)[k] = IF k <= rpos[c] THEN old[k] ELSE s[k - rpos[c]]
    <3>1. old \in Seq(Char) /\ Len(old) = rpos[c] BY <2>4
    <3> HIDE DEF old, s
    <3>2. /\ old \o s \in Seq(Char) /\ Len(old \o s) = Len(old) + Len(s)
          /\ \A k \in 1 .. Len(old) + Len(s) :
               (old \o s)[k] = IF k <= Len(old) THEN old[k] ELSE s[k - Len(old)]
      BY <1>9, <3>1, ConcatProperties
    <3> QED BY <1>9, <3>1, <3>2
  <2>6. \A k \in 1 .. rpos[c] + n : new[k] = (old \o s)[k]
    <3> TAKE k \in 1 .. rpos[c] + n
    <3>1. CASE k <= rpos[c]
      <4>1. k \in 1 .. rpos[c] BY <1>3, <3>1
      <4> HIDE DEF new, old, s
      <4> QED BY <2>3, <2>4, <2>5, <3>1, <4>1 DEF old
    <3>2. CASE ~ (k <= rpos[c])
      <4>1. k - rpos[c] \in 1 .. n /\ rpos[c] + (k - rpos[c]) = k
        BY <1>3, <1>8, <3>2
      <4> HIDE DEF new, old, s
      <4> QED BY <1>9, <2>3, <2>5, <3>2, <4>1
    <3> QED BY <3>1, <3>2
  <2> HIDE DEF new, old
  <2>7. new = old \o s
    <3> HIDE DEF s
    <3> QED BY <2>3, <2>5, <2>6, SeqEqual
  <2> QED BY <2>2, <2>7 DEF old
<1>14. rpos[c] + Len(s) <= Len(sent[c])
  <2> HIDE DEF s
  <2> QED BY <1>3, <1>4, <1>5, <1>8, <1>9
<1>15. server = "rot13" => Len(b.input) + Len(s) <= MaxLine
  BY <1>8, <1>9
<1> HIDE DEF s
<1> QED BY <1>1, <1>9, <1>10, <1>11, <1>12, <1>13, <1>14, <1>15

LEMMA SendFacts ==
    ASSUME Inv, NEW f \in Fds, Send(f)
    PROVE  LET c == conn[f]
               b == bev[f] IN
           /\ Holds(f)
           /\ \E new \in Bevs, e \in Seq(Char) :
                /\ bev' = [bev EXCEPT ![f] = new]
                /\ echoed' = [echoed EXCEPT ![c] = e]
                /\ new.input = b.input
                /\ e \o new.output = echoed[c] \o b.output
           /\ active' = active \ {WriteEvent(f)}
           /\ UNCHANGED <<server, conn, backlog, peer, sent, rpos, drained>>
<1> DEFINE c == conn[f]
           b == bev[f]
           o == b.output
           i == b.input
           old == echoed[c]
<1>1. Holds(f) /\ c \in Clients /\ b \in Bevs
  BY DEF Inv, Attending, Attended, Send, Calls, Holds
<1>2. i \in Seq(Char) /\ o \in Seq(Char) /\ Len(o) \in Nat /\ b = [input |-> i, output |-> o]
  BY <1>1, LenProperties DEF Bevs
<1>3. old \in Seq(Char)
  BY <1>1, ReceivedProperties DEF Inv
<1>4. PICK n \in 1 .. Least(SendRoom(c), Len(o)) :
         /\ echoed' = [echoed EXCEPT ![c] = @ \o SubSeq(o, 1, n)]
         /\ bev' = [bev EXCEPT ![f].output = SubSeq(@, n + 1, Len(@))]
  BY DEF Send, Client
<1>5. n \in 1 .. Len(o)
  <2> DEFINE m == Least(SendRoom(c), Len(o))
  <2>1. n \in 1 .. m OBVIOUS
  <2>0. SendRoom(c) \in Int
    <3>1. Len(echoed[c]) \in Nat BY <1>3, LenProperties
    <3>2. SendCap \in Nat /\ drained[c] \in Nat
      BY <1>1, ConnectionsAssumption DEF Inv, TypeInv
    <3> QED BY <3>1, <3>2 DEF SendRoom
  <2>2. CASE SendRoom(c) <= Len(o)
    BY <1>2, <2>0, <2>1, <2>2 DEF Least
  <2>3. CASE ~ (SendRoom(c) <= Len(o))
    BY <1>2, <2>0, <2>1, <2>3 DEF Least
  <2> QED BY <2>2, <2>3
<1> DEFINE p == SubSeq(o, 1, n)
           q == SubSeq(o, n + 1, Len(o))
           new == [input |-> i, output |-> q]
<1>6. p \in Seq(Char) /\ q \in Seq(Char)
  <2>1. \A k \in 1 .. Len(o) : o[k] \in Char BY <1>2, ElementOfSeq
  <2>2. 1 \in Int /\ n \in Int /\ n + 1 \in Int /\ Len(o) \in Int
        /\ (\A k \in 1 .. n : o[k] \in Char) /\ (\A k \in n + 1 .. Len(o) : o[k] \in Char)
    BY <1>2, <1>5, <2>1
  <2> HIDE DEF o
  <2> QED BY <2>2, SubSeqProperties
<1>7. p \o q = o
  <2>1. 1 \in 1 .. Len(o) + 1 /\ n \in 1 - 1 .. Len(o) /\ Len(o) \in n .. Len(o)
    BY <1>2, <1>5
  <2>2. p \o q = SubSeq(o, 1, Len(o)) BY <1>2, <2>1, ConcatAdjacentSubSeq
  <2> QED BY <1>2, <2>2, SubSeqFull
<1>8. (old \o p) \o q = old \o o /\ old \o p \in Seq(Char)
  <2>1. Assoc(old, p, q) BY <1>3, <1>6, AssocHolds
  <2>2. old \o p \in Seq(Char) BY <1>3, <1>6, ConcatProperties
  <2> HIDE DEF p, q, o
  <2> QED BY <1>7, <2>1, <2>2 DEF Assoc
<1>9. bev' = [bev EXCEPT ![f] = new]
  <2>1. [b EXCEPT !.output = q] = new
    <3> HIDE DEF i, o, q, b
    <3> QED BY <1>2
  <2>2. bev' = [bev EXCEPT ![f] = [b EXCEPT !.output = q]]
    BY <1>4
  <2> HIDE DEF new, q
  <2> QED BY <2>1, <2>2
<1>10. echoed' = [echoed EXCEPT ![c] = old \o p]
  BY <1>4
<1>11. new \in Bevs /\ new.input = i /\ new.output = q
  <2> HIDE DEF i, q
  <2> QED BY <1>2, <1>6 DEF Bevs
<1>12. /\ active' = active \ {WriteEvent(f)}
       /\ UNCHANGED <<server, conn, backlog, peer, sent, rpos, drained>>
  BY DEF Send, Called
<1> HIDE DEF new, q, p
<1> QED BY <1>1, <1>8, <1>9, <1>10, <1>11, <1>12

LEMMA FreeFacts ==
    ASSUME NEW f \in Fds, ReceiveEnd(f) \/ SendError(f)
    PROVE  /\ active' = active \ {ReadEvent(f), WriteEvent(f)}
           /\ bev' = [bev EXCEPT ![f] = NULL]
           /\ conn' = [conn EXCEPT ![f] = NULL]
           /\ UNCHANGED <<server, backlog, peer, sent, rpos, echoed, drained>>
BY DEF ReceiveEnd, SendError, Free, streams

LEMMA StopFacts ==
    ASSUME NEW f, PollFails \/ AcceptStops(f) \/ SendSignal(f)
    PROVE  /\ active' = {}
           /\ bev' = [g \in Fds |-> NULL]
           /\ conn' = [g \in Fds |-> NULL]
           /\ backlog' = <<>>
           /\ UNCHANGED <<server, peer, sent, rpos, echoed, drained>>
BY DEF PollFails, AcceptStops, SendSignal, Stop, streams

LEMMA AcceptFacts ==
    ASSUME NEW f \in Fds, AcceptInto(f) \/ AcceptRefused(f) \/ AcceptUnattended(f)
    PROVE  /\ ReadEvent(Listener) \in active
           /\ active' = active \ {ReadEvent(Listener)}
           /\ conn[f] = NULL
           /\ backlog' = Tail(backlog)
           /\ \/ conn' = conn /\ bev' = bev
              \/ /\ conn' = [conn EXCEPT ![f] = Head(backlog)]
                 /\ bev' = bev
              \/ /\ conn' = [conn EXCEPT ![f] = Head(backlog)]
                 /\ bev' = [bev EXCEPT ![f] = [input |-> <<>>, output |-> <<>>]]
           /\ UNCHANGED <<server, peer, sent, rpos, echoed, drained>>
BY DEF AcceptInto, AcceptRefused, AcceptUnattended, Accept, Calls, Called, LowestFree,
       FreeFds, streams

LEMMA ClientFacts ==
    ASSUME NEW c \in Clients, ClientStep(c)
    PROVE  /\ UNCHANGED <<server, active, bev, conn, rpos, echoed>>
           /\ drained' = drained \/ drained' = [drained EXCEPT ![c] = @ + 1]
           /\ \/ /\ peer[c] = "idle"
                 /\ peer' = [peer EXCEPT ![c] = "open"]
                 /\ backlog' = Append(backlog, c)
                 /\ sent' = sent
              \/ /\ backlog' = backlog /\ sent' = sent
                 /\ peer[c] # "idle"
                 /\ \E p \in PeerStates \ {"idle"} : peer' = [peer EXCEPT ![c] = p]
              \/ /\ UNCHANGED <<backlog, peer>>
                 /\ \E b \in Char : sent' = [sent EXCEPT ![c] = Append(sent[c], b)]
              \/ UNCHANGED <<backlog, peer, sent>>
<1>0. UNCHANGED <<server, active, bev>>
  BY DEF ClientStep
<1>1. CASE Connect(c)
  BY <1>0, <1>1 DEF Connect
<1>2. CASE ClientSend(c)
  <2>1. \E b \in Letters : sent' = [sent EXCEPT ![c] = Append(sent[c], b)]
    BY <1>2 DEF ClientSend
  <2>2. Letters \subseteq Char BY ConnectionsAssumption
  <2> QED BY <1>0, <1>2, <2>1, <2>2 DEF ClientSend
<1>3. CASE ClientShutdown(c)
  BY <1>0, <1>3 DEF ClientShutdown, PeerStates
<1>4. CASE ClientReset(c)
  BY <1>0, <1>4 DEF ClientReset, PeerStates
<1>5. CASE ClientRead(c)
  BY <1>0, <1>5 DEF ClientRead
<1> QED BY <1>1, <1>2, <1>3, <1>4, <1>5 DEF ClientStep

(* What Poll makes active has a bufferevent, or is the listener.           *)
LEMMA PollFacts ==
    ASSUME Poll
    PROVE  /\ \A f \in Fds : ReadEvent(f) \in active' \/ WriteEvent(f) \in active'
                                => bev[f] # NULL
           /\ ReadEvent(Listener) \in active' => backlog # <<>>
           /\ UNCHANGED <<server, bev, conn, backlog, peer, sent, rpos, echoed, drained>>
<1>1. active' = Ready /\ UNCHANGED <<server, bev, conn, backlog, peer, sent, rpos, echoed, drained>>
  BY DEF Poll, streams
<1>2. ASSUME NEW f \in Fds, ReadEvent(f) \in Ready \/ WriteEvent(f) \in Ready
      PROVE  bev[f] # NULL
  BY <1>2, EventFacts DEF Ready, ToWrite, Live
<1>3. ReadEvent(Listener) \in Ready => backlog # <<>>
  BY EventFacts DEF Ready, ToWrite, Live
<1> QED BY <1>1, <1>2, <1>3

(* The kinds of steps.                                                     *)
LEMMA StepCases ==
    ASSUME [Next]_vars
    PROVE  \/ UNCHANGED vars
           \/ \E c \in Clients : ClientStep(c)
           \/ Poll \/ EndDispatch \/ AcceptFails
           \/ \E f \in Fds : AcceptInto(f) \/ AcceptRefused(f) \/ AcceptUnattended(f)
           \/ \E f \in Fds : Receive(f)
           \/ \E f \in Fds : Send(f)
           \/ \E f \in Fds : ReceiveEnd(f) \/ SendError(f)
           \/ \E f : PollFails \/ AcceptStops(f) \/ SendSignal(f)
BY DEF Next, ServerStep, AcceptStep, ConnectionStep

-----------------------------------------------------------------------------
(* The types.                                                              *)
LEMMA EmptyBev == [input |-> <<>>, output |-> <<>>] \in Bevs
BY DEF Bevs

LEMMA TypeInit == Init => TypeInv
<1> SUFFICES ASSUME Init PROVE TypeInv
  OBVIOUS
<1>1. <<>> \in Seq(Char) /\ Len(<<>>) = 0 /\ <<>> \in Seq(Clients)
  BY EmptySeq
<1> QED BY <1>1 DEF Init, InitConnections, TypeInv, PeerStates

LEMMA TypeStep ==
    ASSUME Inv, [Next]_vars
    PROVE  TypeInv'
<1>0. TypeInv BY DEF Inv
<1>1. CASE UNCHANGED vars
  BY <1>0, <1>1 DEF vars, streams, TypeInv
<1>2. ASSUME NEW c \in Clients, ClientStep(c) PROVE TypeInv'
  <2>1. Append(backlog, c) \in Seq(Clients)
    BY <1>0, AppendProperties DEF TypeInv
  <2>2. sent[c] \in Seq(Char) /\ Len(sent[c]) \in Nat /\ rpos[c] \in Nat
    BY <1>0, LenProperties DEF TypeInv
  <2>3. \A b \in Char : Append(sent[c], b) \in Seq(Char)
                        /\ Len(Append(sent[c], b)) = Len(sent[c]) + 1
    BY <2>2, AppendProperties
  <2>4. drained' \in [Clients -> Nat]
    <3>1. drained \in [Clients -> Nat] /\ drained[c] + 1 \in Nat BY <1>0 DEF TypeInv
    <3>2. drained' = drained \/ drained' = [drained EXCEPT ![c] = drained[c] + 1]
      BY <1>2, ClientFacts
    <3> QED BY <3>1, <3>2
  <2>5. peer' \in [Clients -> PeerStates]
    BY <1>0, <1>2, ClientFacts DEF TypeInv, PeerStates
  <2>6. backlog' \in Seq(Clients)
    BY <1>0, <1>2, <2>1, ClientFacts DEF TypeInv
  <2>7. sent' \in [Clients -> Seq(Char)] /\ \A d \in Clients : rpos'[d] <= Len(sent'[d])
    <3>1. rpos' = rpos BY <1>2, ClientFacts
    <3>2. CASE sent' = sent
      BY <1>0, <3>1, <3>2 DEF TypeInv
    <3>3. CASE \E b \in Char : sent' = [sent EXCEPT ![c] = Append(sent[c], b)]
      <4>1. PICK b \in Char : sent' = [sent EXCEPT ![c] = Append(sent[c], b)] BY <3>3
      <4>2. rpos[c] <= Len(Append(sent[c], b)) BY <1>0, <2>2, <2>3, <4>1 DEF TypeInv
      <4> DEFINE s == Append(sent[c], b)
      <4>3. s \in Seq(Char) /\ rpos[c] <= Len(s) /\ sent' = [sent EXCEPT ![c] = s]
        BY <2>3, <4>1, <4>2
      <4> HIDE DEF s
      <4> QED BY <1>0, <3>1, <4>3 DEF TypeInv
    <3> QED BY <1>2, <3>2, <3>3, ClientFacts
  <2>8. UNCHANGED <<server, bev, conn, rpos, echoed>>
    BY <1>2, ClientFacts
  <2> QED BY <1>0, <2>4, <2>5, <2>6, <2>7, <2>8 DEF TypeInv
<1>3. CASE Poll
  BY <1>0, <1>3, PollFacts DEF TypeInv
<1>4. CASE EndDispatch
  BY <1>0, <1>4 DEF EndDispatch, streams, TypeInv
<1>5. CASE AcceptFails
  BY <1>0, <1>5 DEF AcceptFails, Called, streams, TypeInv
<1>6. ASSUME NEW f \in Fds, AcceptInto(f) \/ AcceptRefused(f) \/ AcceptUnattended(f)
      PROVE  TypeInv'
  <2>1. ReadEvent(Listener) \in active /\ backlog' = Tail(backlog)
        /\ UNCHANGED <<server, peer, sent, rpos, echoed, drained>>
    BY <1>6, AcceptFacts
  <2>2. Head(backlog) \in Clients /\ Tail(backlog) \in Seq(Clients)
    BY <2>1, FirstWaiting DEF Inv
  <2>3. conn' \in [Fds -> Clients \cup {NULL}] /\ bev' \in [Fds -> Bevs \cup {NULL}]
    BY <1>0, <1>6, <2>2, AcceptFacts, EmptyBev DEF TypeInv
  <2> QED BY <1>0, <2>1, <2>2, <2>3 DEF TypeInv
<1>7. ASSUME NEW f \in Fds, Receive(f) PROVE TypeInv'
  <2> DEFINE c == conn[f]
             b == bev[f]
  <2>1. Holds(f) /\ UNCHANGED <<server, conn, backlog, peer, sent, echoed, drained>>
    BY <1>7, ReceiveFacts
  <2>2. PICK s \in Seq(Char) :
          /\ rpos' = [rpos EXCEPT ![c] = rpos[c] + Len(s)]
          /\ rpos[c] + Len(s) <= Len(sent[c])
          /\ bev' = [bev EXCEPT ![f] =
               IF server = "rot13"
               THEN readcb([input |-> b.input \o s, output |-> b.output])
               ELSE buf_read_callback([input |-> b.input \o s, output |-> b.output])]
    BY <1>7, ReceiveFacts
  <2>3. c \in Clients /\ b \in Bevs /\ Accounts(b, Received(c), echoed[c])
    BY <2>1 DEF Holds
  <2>4. rpos' \in [Clients -> Nat] /\ \A d \in Clients : rpos'[d] <= Len(sent[d])
    <3>1. Len(s) \in Nat /\ rpos[c] \in Nat BY <1>0, <2>3, LenProperties DEF TypeInv
    <3> DEFINE n == rpos[c] + Len(s)
    <3>2. n \in Nat /\ n <= Len(sent[c]) /\ rpos' = [rpos EXCEPT ![c] = n] BY <2>2, <3>1
    <3> HIDE DEF n, c
    <3> QED BY <1>0, <3>2 DEF TypeInv
  <2>5. bev' \in [Fds -> Bevs \cup {NULL}]
    <3> DEFINE old == [input |-> b.input \o s, output |-> b.output]
               new == IF server = "rot13" THEN readcb(old) ELSE buf_read_callback(old)
    <3>1. old \in Bevs
      BY <2>3, ConcatProperties DEF Bevs
    <3>2. new \in Bevs
      <4>1. CASE server = "rot13"
        <5> HIDE DEF old
        <5> QED BY <3>1, <4>1, ReadcbSettles
      <4>2. CASE server # "rot13"
        <5>1. LinesAgree(Received(c), b, echoed[c])
          BY <1>0, <2>3, <4>2 DEF Accounts, TypeInv
        <5>2. Received(c) \in Seq(Char) /\ echoed[c] \in Seq(Char)
          BY <1>0, <2>3, ReceivedProperties
        <5> QED BY <2>3, <4>2, <5>1, <5>2, CallbackKeepsLines
      <4> QED BY <4>1, <4>2
    <3>3. bev' = [bev EXCEPT ![f] = new] BY <2>2
    <3> HIDE DEF new
    <3> QED BY <1>0, <3>2, <3>3 DEF TypeInv
  <2> QED BY <1>0, <2>1, <2>4, <2>5 DEF TypeInv
<1>8. ASSUME NEW f \in Fds, Send(f) PROVE TypeInv'
  <2>1. Holds(f) /\ UNCHANGED <<server, conn, backlog, peer, sent, rpos, drained>>
    BY <1>8, SendFacts
  <2>2. PICK new \in Bevs, e \in Seq(Char) :
          /\ bev' = [bev EXCEPT ![f] = new]
          /\ echoed' = [echoed EXCEPT ![conn[f]] = e]
    BY <1>8, SendFacts
  <2> QED BY <1>0, <2>1, <2>2 DEF TypeInv
<1>9. ASSUME NEW f \in Fds, ReceiveEnd(f) \/ SendError(f) PROVE TypeInv'
  BY <1>0, <1>9, FreeFacts DEF TypeInv
<1>10. ASSUME NEW f, PollFails \/ AcceptStops(f) \/ SendSignal(f) PROVE TypeInv'
  <2>1. <<>> \in Seq(Clients) BY EmptySeq
  <2> QED BY <1>0, <1>10, <2>1, StopFacts DEF TypeInv
<1> QED BY <1>1, <1>2, <1>3, <1>4, <1>5, <1>6, <1>7, <1>8, <1>9, <1>10, StepCases

-----------------------------------------------------------------------------
(* Who waits, and who is served.                                           *)
LEMMA WaitingInit == Init => Waiting
<1> SUFFICES ASSUME Init PROVE Waiting
  OBVIOUS
<1>1. Len(backlog) = 0 /\ \A k \in 1 .. Len(backlog) : FALSE
  BY EmptySeq DEF Init, InitConnections
<1>2. \A f \in Fds : conn[f] = NULL
  BY DEF Init, InitConnections
<1>3. \A c \in Clients : Fresh(c) /\ ~ Waits(c)
  BY <1>1, <1>2, ConnectionsAssumption DEF Init, InitConnections, Fresh, Waits
<1> QED BY <1>1, <1>2, <1>3 DEF Waiting, Init

(* It stays so when no client connects, and none is accepted.              *)
LEMMA WaitingKept ==
    ASSUME Waiting, backlog' = backlog,
           \A c \in Clients : (peer'[c] = "idle" => peer[c] = "idle")
                              /\ (Fresh(c) => Fresh(c)'),
           conn' = conn \/ \E f \in Fds : conn' = [conn EXCEPT ![f] = NULL],
           TypeInv,
           ReadEvent(Listener) \in active' => backlog # <<>>
    PROVE  Waiting'
<1>1. \A c : Waits(c)' <=> Waits(c)
  BY DEF Waits
<1>2. \A f, g \in Fds : conn'[f] = conn'[g] /\ conn'[f] # NULL => f = g
  BY DEF Waiting, TypeInv
<1>3. \A k, l \in 1 .. Len(backlog') : backlog'[k] = backlog'[l] => k = l
  BY DEF Waiting
<1>4. \A c \in Clients : (peer'[c] = "idle" => Fresh(c)' /\ ~ Waits(c)')
                         /\ (Waits(c)' => Fresh(c)')
  BY <1>1 DEF Waiting
<1> QED BY <1>2, <1>3, <1>4 DEF Waiting

LEMMA WaitingStep ==
    ASSUME Inv, [Next]_vars
    PROVE  Waiting'
<1>0. TypeInv /\ Waiting /\ Attending BY DEF Inv
<1>1. CASE UNCHANGED vars
  BY <1>0, <1>1 DEF vars, streams, Waiting, Fresh, Waits
<1>2. ASSUME NEW c \in Clients, ClientStep(c) PROVE Waiting'
  <2>1. UNCHANGED <<server, active, bev, conn, rpos, echoed>>
    BY <1>2, ClientFacts
  <2>2. \A d \in Clients : Fresh(d)' <=> Fresh(d)
    BY <2>1 DEF Fresh
  <2>3. CASE /\ peer[c] = "idle"
             /\ peer' = [peer EXCEPT ![c] = "open"]
             /\ backlog' = Append(backlog, c)
    <3>1. backlog \in Seq(Clients) /\ Len(backlog) \in Nat
      BY <1>0, LenProperties DEF TypeInv
    <3>2. /\ Len(backlog') = Len(backlog) + 1 /\ backlog'[Len(backlog) + 1] = c
          /\ backlog' # <<>>
          /\ \A k \in 1 .. Len(backlog) : backlog'[k] = backlog[k]
      BY <2>3, <3>1, AppendProperties
    <3>3. \A k \in 1 .. Len(backlog') : k \in 1 .. Len(backlog) \/ k = Len(backlog) + 1
      BY <3>1, <3>2
    <3>4. Fresh(c) /\ ~ Waits(c)
      BY <1>0, <2>3 DEF Waiting
    <3>5. \A k \in 1 .. Len(backlog) : backlog[k] # c
      BY <3>4 DEF Waits
    <3>6. \A d : Waits(d)' => d = c \/ Waits(d)
      BY <3>2, <3>3 DEF Waits
    <3>7. \A k, l \in 1 .. Len(backlog') : backlog'[k] = backlog'[l] => k = l
      BY <1>0, <3>2, <3>3, <3>5 DEF Waiting
    <3>8. \A d \in Clients : peer'[d] = "idle" => d # c /\ peer[d] = "idle"
      BY <1>0, <2>3 DEF TypeInv
    <3>9. \A d \in Clients : peer'[d] = "idle" => Fresh(d)' /\ ~ Waits(d)'
      BY <1>0, <2>2, <3>6, <3>8 DEF Waiting
    <3>10. \A d \in Clients : Waits(d)' => Fresh(d)'
      BY <1>0, <2>2, <3>4, <3>6 DEF Waiting
    <3> QED BY <1>0, <2>1, <3>2, <3>7, <3>9, <3>10 DEF Waiting
  <2>4. CASE backlog' = backlog
    <3>1. \A d \in Clients : peer'[d] = "idle" => peer[d] = "idle"
      <4>1. CASE peer' = peer BY <4>1
      <4>2. CASE \E p \in PeerStates \ {"idle"} : peer' = [peer EXCEPT ![c] = p]
        BY <1>0, <4>2 DEF TypeInv
      <4>3. CASE backlog' = Append(backlog, c)
        <5>1. Len(Append(backlog, c)) = Len(backlog) + 1 /\ Len(backlog) \in Nat
          BY <1>0, AppendProperties, LenProperties DEF TypeInv
        <5> QED BY <2>4, <4>3, <5>1
      <4> QED BY <1>2, <4>1, <4>2, <4>3, ClientFacts
    <3> QED BY <1>0, <2>1, <2>2, <2>4, <3>1, WaitingKept DEF Waiting
  <2> QED BY <1>2, <2>3, <2>4, ClientFacts
<1>3. ASSUME UNCHANGED <<conn, backlog, peer, rpos, echoed>>,
             ReadEvent(Listener) \in active' => backlog # <<>>
      PROVE  Waiting'
  <2>1. \A c \in Clients : Fresh(c) => Fresh(c)' BY <1>3 DEF Fresh
  <2> QED BY <1>0, <1>3, <2>1, WaitingKept
<1>4. CASE Poll
  BY <1>3, <1>4, PollFacts
<1>5. CASE EndDispatch
  BY <1>0, <1>3, <1>5 DEF EndDispatch, streams, Waiting
<1>6. CASE AcceptFails
  BY <1>0, <1>3, <1>6 DEF AcceptFails, Called, streams, Waiting
<1>7. ASSUME NEW f \in Fds, AcceptInto(f) \/ AcceptRefused(f) \/ AcceptUnattended(f)
      PROVE  Waiting'
  <2> DEFINE h == Head(backlog)
  <2>1. /\ ReadEvent(Listener) \in active /\ backlog' = Tail(backlog)
        /\ active' = active \ {ReadEvent(Listener)} /\ conn[f] = NULL
        /\ UNCHANGED <<server, peer, sent, rpos, echoed, drained>>
        /\ conn' = conn \/ conn' = [conn EXCEPT ![f] = h]
    BY <1>7, AcceptFacts
  <2>2. /\ h \in Clients /\ h # NULL /\ Fresh(h) /\ peer[h] # "idle"
        /\ \A k \in 1 .. Len(backlog') : /\ k + 1 \in 1 .. Len(backlog)
                                         /\ backlog'[k] = backlog[k + 1]
                                         /\ backlog'[k] # h
    BY <1>0, <2>1, FirstWaiting
  <2> HIDE DEF h
  <2>3. \A c : Waits(c)' => Waits(c) /\ c # h
    BY <2>2 DEF Waits
  <2>4. \A c \in Clients : c # h /\ Fresh(c) => Fresh(c)'
    BY <1>0, <2>1 DEF Fresh, TypeInv
  <2>5. \A k, l \in 1 .. Len(backlog') : backlog'[k] = backlog'[l] => k = l
    <3> TAKE k, l \in 1 .. Len(backlog')
    <3> HAVE backlog'[k] = backlog'[l]
    <3>1. k + 1 = l + 1 BY <1>0, <2>2 DEF Waiting
    <3>2. k \in Int /\ l \in Int OBVIOUS
    <3> QED BY <3>1, <3>2
  <2>6. \A g, i \in Fds : conn'[g] = conn'[i] /\ conn'[g] # NULL => g = i
    <3>1. \A g \in Fds : conn[g] # h BY <2>2 DEF Fresh
    <3>2. \A g, i \in Fds : conn[g] = conn[i] /\ conn[g] # NULL => g = i
      BY <1>0 DEF Waiting
    <3>3. CASE conn' = conn
      BY <3>2, <3>3
    <3>4. CASE conn' = [conn EXCEPT ![f] = h]
      <4>1. conn \in [Fds -> Clients \cup {NULL}] BY <1>0 DEF TypeInv
      <4> QED BY <3>1, <3>2, <3>4, <4>1
    <3> QED BY <2>1, <3>3, <3>4
  <2>7. \A c \in Clients : (peer'[c] = "idle" => Fresh(c)' /\ ~ Waits(c)')
                           /\ (Waits(c)' => Fresh(c)')
    BY <1>0, <2>1, <2>2, <2>3, <2>4 DEF Waiting
  <2> QED BY <2>1, <2>5, <2>6, <2>7 DEF Waiting
<1>8. ASSUME NEW f \in Fds, Holds(f),
             \A c \in Clients : c # conn[f] => rpos'[c] = rpos[c] /\ echoed'[c] = echoed[c],
             UNCHANGED <<conn, backlog, peer>>, active' \subseteq active
      PROVE  Waiting'
  <2>1. \A c \in Clients : Fresh(c) => Fresh(c)'
    BY <1>8 DEF Fresh
  <2> QED BY <1>0, <1>8, <2>1, WaitingKept DEF Waiting
<1>9. ASSUME NEW f \in Fds, Receive(f) PROVE Waiting'
  <2>1. \E r : rpos' = [rpos EXCEPT ![conn[f]] = r]
    BY <1>9, ReceiveFacts
  <2>2. /\ Holds(f) /\ active' = active \ {ReadEvent(f)}
        /\ UNCHANGED <<server, conn, backlog, peer, sent, echoed, drained>>
    BY <1>9, ReceiveFacts
  <2>3. \A c \in Clients : c # conn[f] => rpos'[c] = rpos[c] /\ echoed'[c] = echoed[c]
    BY <1>0, <2>1, <2>2 DEF TypeInv
  <2> QED BY <1>8, <2>2, <2>3
<1>10. ASSUME NEW f \in Fds, Send(f) PROVE Waiting'
  <2>1. \E e : echoed' = [echoed EXCEPT ![conn[f]] = e]
    BY <1>10, SendFacts
  <2>2. /\ Holds(f) /\ active' = active \ {WriteEvent(f)}
        /\ UNCHANGED <<server, conn, backlog, peer, sent, rpos, drained>>
    BY <1>10, SendFacts
  <2>3. \A c \in Clients : c # conn[f] => rpos'[c] = rpos[c] /\ echoed'[c] = echoed[c]
    BY <1>0, <2>1, <2>2 DEF TypeInv
  <2> QED BY <1>8, <2>2, <2>3
<1>11. ASSUME NEW f \in Fds, ReceiveEnd(f) \/ SendError(f) PROVE Waiting'
  <2>1. /\ active' = active \ {ReadEvent(f), WriteEvent(f)}
        /\ conn' = [conn EXCEPT ![f] = NULL]
        /\ UNCHANGED <<server, backlog, peer, sent, rpos, echoed, drained>>
    BY <1>11, FreeFacts
  <2>2. \A c \in Clients : Fresh(c) => Fresh(c)'
    BY <1>0, <2>1, ConnectionsAssumption DEF Fresh, TypeInv
  <2>3. ReadEvent(Listener) \in active' => backlog # <<>>
    BY <1>0, <2>1 DEF Waiting
  <2> QED BY <1>0, <2>1, <2>2, <2>3, WaitingKept
<1>12. ASSUME NEW f, PollFails \/ AcceptStops(f) \/ SendSignal(f) PROVE Waiting'
  <2>1. /\ active' = {} /\ conn' = [g \in Fds |-> NULL] /\ backlog' = <<>>
        /\ UNCHANGED <<server, peer, sent, rpos, echoed, drained>>
    BY <1>12, StopFacts
  <2>2. Len(backlog') = 0 /\ \A k \in 1 .. Len(backlog') : FALSE
    BY <2>1, EmptySeq
  <2>3. \A c \in Clients : ~ Waits(c)' /\ (Fresh(c) => Fresh(c)')
    BY <2>1, <2>2, ConnectionsAssumption DEF Waits, Fresh
  <2> QED BY <1>0, <2>1, <2>2, <2>3 DEF Waiting
<1> QED BY <1>1, <1>2, <1>4, <1>5, <1>6, <1>7, <1>9, <1>10, <1>11, <1>12, StepCases

-----------------------------------------------------------------------------
(* What is held and what was answered accounts for what was received.      *)
LEMMA ReceivedKept ==
    ASSUME TypeInv, NEW c \in Clients, rpos'[c] = rpos[c],
           sent'[c] = sent[c] \/ \E b \in Char : sent'[c] = Append(sent[c], b)
    PROVE  Received(c)' = Received(c)
<1>1. /\ sent[c] \in Seq(Char) /\ Len(sent[c]) \in Nat
      /\ rpos[c] \in Nat /\ rpos[c] <= Len(sent[c])
  BY ReceivedProperties
<1>2. Received(c)' = SubSeq(sent'[c], 1, rpos[c])
  BY DEF Received
<1>3. CASE sent'[c] = sent[c]
  BY <1>2, <1>3 DEF Received
<1>4. CASE \E b \in Char : sent'[c] = Append(sent[c], b)
  <2>1. PICK b \in Char : sent'[c] = Append(sent[c], b) BY <1>4
  <2> DEFINE s == sent[c]
             t == Append(s, b)
             n == rpos[c]
  <2>2. /\ t \in Seq(Char) /\ Len(t) = Len(s) + 1
        /\ \A k \in 1 .. Len(s) : t[k] = s[k]
    BY <1>1, AppendProperties
  <2>3. s \in Seq(Char) /\ Len(s) \in Nat /\ n \in Nat /\ n <= Len(s) BY <1>1
  <2> HIDE DEF s, t, n
  <2>4. \A k \in 1 .. n : s[k] \in Char /\ t[k] = s[k]
    <3>1. \A k \in 1 .. Len(s) : s[k] \in Char BY <2>3, ElementOfSeq
    <3> QED BY <2>2, <2>3, <3>1
  <2>5. 1 \in Int /\ n \in Int /\ n - 1 + 1 = n /\ (~ (1 <= n) => n = 0)
        /\ \A k \in 1 .. n : 1 + k - 1 = k
    BY <2>3
  <2>6. /\ SubSeq(s, 1, n) \in Seq(Char) /\ Len(SubSeq(s, 1, n)) = n
        /\ \A k \in 1 .. n : SubSeq(s, 1, n)[k] = s[k]
    BY <2>4, <2>5, SubSeqProperties
  <2>7. /\ SubSeq(t, 1, n) \in Seq(Char) /\ Len(SubSeq(t, 1, n)) = n
        /\ \A k \in 1 .. n : SubSeq(t, 1, n)[k] = t[k]
    BY <2>4, <2>5, SubSeqProperties
  <2>8. SubSeq(t, 1, n) = SubSeq(s, 1, n)
    BY <2>4, <2>6, <2>7, SeqEqual
  <2> QED BY <1>2, <2>1, <2>8 DEF Received, s, t, n
<1> QED BY <1>3, <1>4

(* What it takes to hold after a step.                                     *)
LEMMA HoldsNext ==
    ASSUME NEW f \in Fds, NEW c \in Clients, NEW b \in Bevs, NEW got, NEW e,
           server' = server, conn'[f] = c, bev'[f] = b,
           Received(c)' = got, echoed'[c] = e, Accounts(b, got, e)
    PROVE  Holds(f)'
<1>1. SubSeq(sent'[c], 1, rpos'[c]) = got
  BY DEF Received
<1> QED BY <1>1 DEF Holds, Accounts, Settled, LinesAgree, Received

LEMMA HoldsKept ==
    ASSUME TypeInv, NEW f \in Fds, Holds(f),
           server' = server, conn'[f] = conn[f], bev'[f] = bev[f],
           LET c == conn[f] IN
             /\ rpos'[c] = rpos[c] /\ echoed'[c] = echoed[c]
             /\ sent'[c] = sent[c] \/ \E b \in Char : sent'[c] = Append(sent[c], b)
    PROVE  Holds(f)'
<1>1. PICK c \in Clients : c = conn[f]
  BY DEF Holds
<1>2. Received(c)' = Received(c)
  BY <1>1, ReceivedKept
<1>3. PICK b \in Bevs : b = bev[f]
  BY DEF Holds
<1>4. PICK got : got = Received(c)
  OBVIOUS
<1>5. PICK e : e = echoed[c]
  OBVIOUS
<1>6. Accounts(b, got, e)
  BY <1>1, <1>3, <1>4, <1>5 DEF Holds
<1> QED BY <1>1, <1>2, <1>3, <1>4, <1>5, <1>6, HoldsNext

LEMMA NothingAccountedFor ==
    Accounts([input |-> <<>>, output |-> <<>>], <<>>, <<>>)
<1> DEFINE b == [input |-> <<>>, output |-> <<>>]
<1>1. b.input = <<>> /\ b.output = <<>> /\ <<>> \in Seq(Char) /\ Len(<<>>) = 0
      /\ <<>> \o <<>> = <<>>
  BY EmptySeq, ConcatEmptySeq
<1>2. Settled(b)
  <2>1. 0 < MaxLine BY BuffereventsAssumption
  <2> QED BY <1>1, <2>1 DEF Settled
<1>3. Folded("owed", <<>>) = b
  BY FoldedByByte DEF Kinds, First
<1>4. HasLines("received", <<>>, <<>>, <<>>) /\ HasLines("answered", <<>>, <<>>, <<>>)
  BY FoldedByByte DEF Kinds, First, HasLines
<1>5. LinesAgree(<<>>, b, <<>>)
  <2> HIDE DEF b
  <2> QED BY <1>1, <1>4 DEF LinesAgree
<1> QED BY <1>1, <1>2, <1>3, <1>5 DEF Accounts

LEMMA AttendingInit == Init => Attending
BY DEF Init, Attending, Attended

LEMMA AttendingStep ==
    ASSUME Inv, [Next]_vars
    PROVE  Attending'
<1>0. TypeInv /\ Waiting /\ Attending BY DEF Inv
<1>1. ASSUME UNCHANGED <<server, conn, bev, rpos, echoed>>,
             \A c \in Clients : sent'[c] = sent[c]
                                \/ \E b \in Char : sent'[c] = Append(sent[c], b),
             \A f \in Fds : ReadEvent(f) \in active' \/ WriteEvent(f) \in active' => Attended(f)
      PROVE  Attending'
  <2> SUFFICES ASSUME NEW f \in Fds, Attended(f)' PROVE Holds(f)'
    BY DEF Attending
  <2>1. Attended(f) BY <1>1 DEF Attended
  <2>2. Holds(f) BY <1>0, <2>1 DEF Attending
  <2> QED BY <1>0, <1>1, <2>2, HoldsKept DEF Holds
<1>2. CASE UNCHANGED vars
  BY <1>1, <1>2 DEF vars, streams, Attended
<1>3. ASSUME NEW c \in Clients, ClientStep(c) PROVE Attending'
  <2>1. UNCHANGED <<server, active, bev, conn, rpos, echoed>>
    BY <1>3, ClientFacts
  <2>2. \A d \in Clients : sent'[d] = sent[d]
                           \/ \E b \in Char : sent'[d] = Append(sent[d], b)
    <3>1. sent' = sent \/ \E b \in Char : sent' = [sent EXCEPT ![c] = Append(sent[c], b)]
      BY <1>3, ClientFacts
    <3> QED BY <1>0, <3>1 DEF TypeInv
  <2> QED BY <1>1, <2>1, <2>2 DEF Attended
<1>4. CASE Poll
  BY <1>1, <1>4, PollFacts DEF Attended
<1>5. CASE EndDispatch
  BY <1>1, <1>5 DEF EndDispatch, streams, Attended
<1>6. CASE AcceptFails
  BY <1>1, <1>6 DEF AcceptFails, Called, streams, Attended
<1>7. ASSUME NEW f \in Fds, AcceptInto(f) \/ AcceptRefused(f) \/ AcceptUnattended(f)
      PROVE  Attending'
  <2> DEFINE h == Head(backlog)
             empty == [input |-> <<>>, output |-> <<>>]
  <2>1. /\ ReadEvent(Listener) \in active
        /\ active' = active \ {ReadEvent(Listener)} /\ conn[f] = NULL
        /\ UNCHANGED <<server, peer, sent, rpos, echoed, drained>>
        /\ \/ conn' = conn /\ bev' = bev
           \/ conn' = [conn EXCEPT ![f] = h] /\ bev' = bev
           \/ conn' = [conn EXCEPT ![f] = h] /\ bev' = [bev EXCEPT ![f] = empty]
    BY <1>7, AcceptFacts
  <2>2. h \in Clients /\ Fresh(h)
    BY <1>0, <2>1, FirstWaiting
  <2> HIDE DEF h
  <2>4. ~ Attended(f)
    BY <1>0, <2>1, ConnectionsAssumption DEF Attending, Holds
  <2> SUFFICES ASSUME NEW g \in Fds, Attended(g)' PROVE Holds(g)'
    BY DEF Attending
  <2>5. CASE g # f
    <3>1. Attended(g) /\ conn'[g] = conn[g] /\ bev'[g] = bev[g]
      BY <1>0, <2>1, <2>5 DEF Attended, TypeInv
    <3>2. Holds(g) BY <1>0, <3>1 DEF Attending
    <3> QED BY <1>0, <2>1, <3>1, <3>2, HoldsKept
  <2>6. CASE g = f
    <3>1. conn' = [conn EXCEPT ![f] = h] /\ bev' = [bev EXCEPT ![f] = empty]
      BY <2>1, <2>4, <2>6 DEF Attended
    <3>2. conn'[f] = h /\ bev'[f] = empty
      BY <1>0, <3>1 DEF TypeInv
    <3>3. rpos'[h] = 0 /\ echoed'[h] = <<>>
      BY <2>1, <2>2 DEF Fresh
    <3>4. PICK c \in Clients : c = h
      BY <2>2
    <3>5. Received(c)' = <<>>
      <4>1. SubSeq(sent'[c], 1, rpos'[c]) = <<>>
        <5>1. rpos'[c] = 0 BY <3>3, <3>4
        <5> QED BY <5>1, SubSeqEmpty
      <4> QED BY <4>1 DEF Received
    <3> QED BY <2>1, <2>6, <3>2, <3>3, <3>4, <3>5, EmptyBev, NothingAccountedFor, HoldsNext
  <2> QED BY <2>5, <2>6
<1>8. ASSUME NEW f \in Fds, Holds(f), Holds(f)',
             UNCHANGED <<server, conn, sent>>, active' \subseteq active,
             \A g \in Fds : g # f => bev'[g] = bev[g],
             \A c \in Clients : c # conn[f] => rpos'[c] = rpos[c] /\ echoed'[c] = echoed[c]
      PROVE  Attending'
  <2> SUFFICES ASSUME NEW g \in Fds, Attended(g)', g # f PROVE Holds(g)'
    BY <1>8 DEF Attending
  <2>1. Attended(g) BY <1>8 DEF Attended
  <2>2. Holds(g) BY <1>0, <2>1 DEF Attending
  <2>3. conn[g] # conn[f]
    BY <1>0, <1>8, <2>2, ConnectionsAssumption DEF Waiting, Holds
  <2> QED BY <1>0, <1>8, <2>2, <2>3, HoldsKept DEF Holds
<1>9. ASSUME NEW f \in Fds, Receive(f) PROVE Attending'
  <2>1. /\ Holds(f) /\ active' = active \ {ReadEvent(f)}
        /\ UNCHANGED <<server, conn, backlog, peer, sent, echoed, drained>>
    BY <1>9, ReceiveFacts
  <2>2. PICK c \in Clients, b \in Bevs : c = conn[f] /\ b = bev[f]
    BY <2>1 DEF Holds
  <2>3. PICK got \in Seq(Char), e \in Seq(Char) : got = Received(c) /\ e = echoed[c]
    BY <1>0, ReceivedProperties
  <2>4. PICK s \in Seq(Char) :
          /\ Received(c)' = got \o s
          /\ rpos' = [rpos EXCEPT ![c] = rpos[c] + Len(s)]
          /\ server = "rot13" => Len(b.input) + Len(s) <= MaxLine
          /\ bev' = [bev EXCEPT ![f] =
               IF server = "rot13"
               THEN readcb([input |-> b.input \o s, output |-> b.output])
               ELSE buf_read_callback([input |-> b.input \o s, output |-> b.output])]
    <3>1. conn'[f] = c BY <2>1, <2>2
    <3>2. \A t : Received(conn[f])' = t => Received(c)' = t BY <3>1 DEF Received
    <3> QED BY <1>9, <2>2, <2>3, <3>2, ReceiveFacts
  <2>5. Accounts(b, got, e)
    BY <2>1, <2>2, <2>3 DEF Holds
  <2> DEFINE old == [input |-> b.input \o s, output |-> b.output]
             new == IF server = "rot13" THEN readcb(old) ELSE buf_read_callback(old)
  <2>6. old \in Bevs
    BY ConcatProperties DEF Bevs
  <2>7. new \in Bevs /\ Accounts(new, got \o s, e)
    <3>1. CASE server = "rot13"
      <4>1. Settled(b) /\ Folded("owed", got) = [input |-> b.input, output |-> e \o b.output]
        BY <2>5, <3>1 DEF Accounts
      <4>2. Len(b.input) + Len(s) <= MaxLine BY <2>4, <3>1
      <4>3. Folded("owed", got \o s)
               = [input |-> readcb(old).input, output |-> e \o readcb(old).output]
        BY <4>1, <4>2, ReadcbOfChunk
      <4> HIDE DEF old
      <4>4. readcb(old) \in Bevs /\ Settled(readcb(old))
        BY <2>6, ReadcbSettles
      <4> QED BY <3>1, <4>3, <4>4 DEF Accounts
    <3>2. CASE server = "echo"
      <4>1. LinesAgree(got, b, e) BY <2>5, <3>2 DEF Accounts
      <4>2. buf_read_callback(old) \in Bevs /\ LinesAgree(got \o s, buf_read_callback(old), e)
        BY <4>1, CallbackKeepsLines
      <4> HIDE DEF old
      <4> QED BY <3>2, <4>2 DEF Accounts
    <3> QED BY <1>0, <3>1, <3>2 DEF TypeInv
  <2>8. bev' = [bev EXCEPT ![f] = new]
    BY <2>4
  <2> HIDE DEF new
  <2>9. bev'[f] = new /\ \A g \in Fds : g # f => bev'[g] = bev[g]
    BY <1>0, <2>8 DEF TypeInv
  <2>10. PICK n \in Bevs : n = new
    BY <2>7
  <2>11. Holds(f)'
    <3>1. conn'[f] = c /\ echoed'[c] = e /\ server' = server /\ bev'[f] = n
          /\ Accounts(n, got \o s, e)
      BY <2>1, <2>2, <2>3, <2>7, <2>9, <2>10
    <3> QED BY <2>4, <3>1, HoldsNext
  <2>12. \A d \in Clients : d # c => rpos'[d] = rpos[d] /\ echoed'[d] = echoed[d]
    BY <1>0, <2>1, <2>4 DEF TypeInv
  <2> QED BY <1>8, <2>1, <2>2, <2>9, <2>11, <2>12
<1>10. ASSUME NEW f \in Fds, Send(f) PROVE Attending'
  <2>1. /\ Holds(f) /\ active' = active \ {WriteEvent(f)}
        /\ UNCHANGED <<server, conn, backlog, peer, sent, rpos, drained>>
    BY <1>10, SendFacts
  <2>2. PICK c \in Clients, b \in Bevs : c = conn[f] /\ b = bev[f]
    BY <2>1 DEF Holds
  <2>3. PICK new \in Bevs, e \in Seq(Char) :
          /\ bev' = [bev EXCEPT ![f] = new]
          /\ echoed' = [echoed EXCEPT ![c] = e]
          /\ new.input = b.input
          /\ e \o new.output = echoed[c] \o b.output
    BY <1>10, <2>2, SendFacts
  <2>4. PICK got : got = Received(c)
    OBVIOUS
  <2>5. Accounts(b, got, echoed[c])
    BY <2>1, <2>2, <2>4 DEF Holds
  <2>6. Accounts(new, got, e)
    BY <2>3, <2>5 DEF Accounts, Settled, LinesAgree
  <2>7. Received(c)' = got
    BY <2>1, <2>4 DEF Received
  <2>8. /\ bev'[f] = new /\ \A g \in Fds : g # f => bev'[g] = bev[g]
        /\ echoed'[c] = e
        /\ \A d \in Clients : d # c => rpos'[d] = rpos[d] /\ echoed'[d] = echoed[d]
    BY <1>0, <2>1, <2>3 DEF TypeInv
  <2>9. Holds(f)'
    BY <2>1, <2>2, <2>6, <2>7, <2>8, HoldsNext
  <2> QED BY <1>8, <2>1, <2>2, <2>8, <2>9
<1>11. ASSUME NEW f \in Fds, ReceiveEnd(f) \/ SendError(f) PROVE Attending'
  <2>1. /\ active' = active \ {ReadEvent(f), WriteEvent(f)}
        /\ bev' = [bev EXCEPT ![f] = NULL]
        /\ conn' = [conn EXCEPT ![f] = NULL]
        /\ UNCHANGED <<server, backlog, peer, sent, rpos, echoed, drained>>
    BY <1>11, FreeFacts
  <2> SUFFICES ASSUME NEW g \in Fds, Attended(g)' PROVE Holds(g)'
    BY DEF Attending
  <2>2. g # f
    BY <1>0, <2>1 DEF Attended, TypeInv
  <2>3. Attended(g) /\ conn'[g] = conn[g] /\ bev'[g] = bev[g]
    BY <1>0, <2>1, <2>2 DEF Attended, TypeInv
  <2>4. Holds(g) BY <1>0, <2>3 DEF Attending
  <2> QED BY <1>0, <2>1, <2>3, <2>4, HoldsKept
<1>12. ASSUME NEW f, PollFails \/ AcceptStops(f) \/ SendSignal(f) PROVE Attending'
  <2>1. active' = {} /\ bev' = [g \in Fds |-> NULL]
    BY <1>12, StopFacts
  <2> QED BY <2>1 DEF Attending, Attended
<1> QED BY <1>2, <1>3, <1>4, <1>5, <1>6, <1>7, <1>9, <1>10, <1>11, <1>12, StepCases

-----------------------------------------------------------------------------
(* The bufferevents and the connections agree in every state that is       *)
(* reached.                                                                *)
LEMMA Invariant == Spec => []Inv
<1>1. Init => Inv
  BY TypeInit, WaitingInit, AttendingInit DEF Inv
<1>2. Inv /\ [Next]_vars => Inv'
  BY TypeStep, WaitingStep, AttendingStep DEF Inv
<1> QED BY <1>1, <1>2, PTL DEF Spec

(* The rot13 server answers a stream as it would answer it byte by byte,   *)
(* however many clients, lines and bytes there are and however recv and    *)
(* send cut them.                                                          *)
THEOREM AnswersAreByteByByte == Spec => []AnswersByteByByte
<1>1. ASSUME Inv, server = "rot13", NEW f \in Live
      PROVE  [input |-> bev[f].input, output |-> Answer(f)]
                 = FoldLeft(Owed, [input |-> <<>>, output |-> <<>>], Received(Client(f)))
  <2>1. f \in Fds /\ Holds(f)
    BY <1>1 DEF Live, Inv, Attending, Attended
  <2> DEFINE got == Received(conn[f])
  <2>2. Folded("owed", got) = [input |-> bev[f].input, output |-> echoed[conn[f]] \o bev[f].output]
    BY <1>1, <2>1 DEF Holds, Accounts
  <2> HIDE DEF got
  <2>3. Folded("owed", got) = FoldLeft(Owed, [input |-> <<>>, output |-> <<>>], got)
    BY DEF Folded
  <2> QED BY <2>2, <2>3 DEF got, Answer, Client
<1>2. Inv => AnswersByteByByte
  BY <1>1 DEF AnswersByteByByte
<1> QED BY <1>2, Invariant, PTL

(* The echo server answers every line that it received and does not hold   *)
(* back, once, in order, with "You said " before what it has up to a NUL;  *)
(* lines that have nothing there are not counted.                          *)
THEOREM EveryLineIsEchoed == Spec => []EchoesEveryLine
<1>1. ASSUME Inv, server = "echo", NEW f \in Live
      PROVE  LET got  == Received(Client(f))
                 used == Len(got) - Len(bev[f].input)
                 due  == LinesDue(SubSeq(got, 1, used))
             IN  /\ bev[f].input = SubSeq(got, used + 1, Len(got))
                 /\ due.line = <<>>
                 /\ LinesGiven(Answer(f)) = due
  <2>1. f \in Fds /\ Holds(f)
    BY <1>1 DEF Live, Inv, Attending, Attended
  <2>2. bev[f] \in Bevs /\ LinesAgree(Received(conn[f]), bev[f], echoed[conn[f]])
    BY <1>1, <2>1 DEF Holds, Accounts
  <2> DEFINE got == Received(Client(f))
             i == bev[f].input
             used == Len(got) - Len(i)
             answer == Answer(f)
  <2>3. i \in Seq(Char) /\ Len(i) \in Nat
    BY <2>2, LenProperties DEF Bevs
  <2>4. PICK p \in Seq(Char) : \E L :
          /\ got = p \o i
          /\ HasLines("received", p, L, <<>>)
          /\ HasLines("answered", answer, L, <<>>)
    BY <2>2 DEF LinesAgree, Client, Answer
  <2> HIDE DEF got, i, answer
  <2>5. PICK L :
          /\ got = p \o i
          /\ HasLines("received", p, L, <<>>)
          /\ HasLines("answered", answer, L, <<>>)
    BY <2>4
  <2>6. Len(p) \in Nat /\ p \o i \in Seq(Char) /\ Len(p \o i) = Len(p) + Len(i)
        /\ SubSeq(p \o i, 1, Len(p)) = p
        /\ SubSeq(p \o i, Len(p) + 1, Len(p) + Len(i)) = i
    BY <2>3, CutConcat
  <2>7. used = Len(p) /\ SubSeq(got, 1, used) = p /\ SubSeq(got, used + 1, Len(got)) = i
    <3>1. used = Len(p) BY <2>3, <2>5, <2>6
    <3> HIDE DEF used
    <3> QED BY <2>5, <2>6, <3>1
  <2> HIDE DEF used
  <2>8. LinesDue(p) = [lines |-> L, line |-> <<>>]
        /\ LinesGiven(answer) = [lines |-> L, line |-> <<>>]
    BY <2>5 DEF HasLines, Folded
  <2>9. LinesDue(SubSeq(got, 1, used)) = [lines |-> L, line |-> <<>>]
    BY <2>7, <2>8
  <2>10. /\ i = SubSeq(got, used + 1, Len(got))
         /\ LinesDue(SubSeq(got, 1, used)).line = <<>>
         /\ LinesGiven(answer) = LinesDue(SubSeq(got, 1, used))
    BY <2>7, <2>8, <2>9
  <2> QED BY <2>10 DEF got, i, used, answer
<1>2. Inv => EchoesEveryLine
  BY <1>1 DEF EchoesEveryLine
<1> QED BY <1>2, Invariant, PTL

=============================================================================
