---------------------------- MODULE ContainerProofs ----------------------------
(***************************************************************************)
(* The containers: the trees of cJSON, whose lists are linked both ways,   *)
(* are well-formed after every call, implement sequences of children and   *)
(* are copied to equal ones; MyQueue is a first-in first-out queue, and    *)
(* what it holds survives Base64.                                          *)
(***************************************************************************)
EXTENDS CJson, MCMyQueue, TLAPS, SequenceTheorems, FiniteSetTheorems, WellFoundedInduction

(* Every set of natural numbers that is not empty has a least element.     *)
LEMMA LeastNatural ==
    ASSUME NEW S \in SUBSET Nat, S # {}
    PROVE  \E n \in S : \A k \in S : n <= k
<1> DEFINE R == OpToRel(<, Nat)
<1>1. PICK n \in S : \A k \in S : ~ (<<k, n>> \in R)
  <2>1. IsWellFoundedOn(R, Nat) BY NatLessThanWellFounded
  <2> HIDE DEF R
  <2> QED BY <2>1, WFMin
<1>2. \A k \in S : ~ (k < n)
  BY <1>1 DEF OpToRel
<1> QED BY <1>2

LEMMA MinNatural ==
    ASSUME NEW S \in SUBSET Nat, S # {}
    PROVE  Min(S) \in S /\ \A k \in S : Min(S) <= k
BY LeastNatural DEF Min

-----------------------------------------------------------------------------
(* The recursive functions of the module exist: the one that walks a list, *)
(* the one that goes down a tree, the one that copies children and the one *)
(* that parses members.                                                    *)
Recursions == {"from", "tree", "copies", "members"}

Turn(kind, h, n, before) ==
    CASE kind = "from" ->
           [a \in Pointers |-> IF n = 0 \/ a = NULL THEN << >>
                               ELSE <<a>> \o before[h.items[a].next]]
      [] kind = "tree" ->
           [a \in Items |-> IF n = 0 THEN << >> ELSE Node(h, a, before)]
      [] kind = "copies" ->
           [a \in [h : Heaps, newitem : Items, nptr : Pointers, cptr : Pointers] |->
              IF n = 0 THEN [h |-> cJSON_Delete(a.h, a.newitem), p |-> NULL]
              ELSE DuplicateChain(before, a.h, a.newitem, a.nptr, a.cptr)]
      [] kind = "members" ->
           [a \in [h : Heaps, item : Items, child : Pointers, v : Seq(Tokens), close : {"]", "}"}] |->
              IF n = 0 THEN NoMemory(a.h, a.v)
              ELSE parse_members(before, a.h, a.item, a.child, a.v, a.close)]

Recurs(kind, h, f) == f = [n \in Nat |-> Turn(kind, h, n, f[n - 1])]

LEMMA FirstTurn ==
    ASSUME NEW kind \in Recursions, NEW h, NEW x, NEW y
    PROVE  Turn(kind, h, 0, x) = Turn(kind, h, 0, y)
BY Zenon DEF Turn, Recursions

LEMMA RecursionExists ==
    ASSUME NEW kind \in Recursions, NEW h
    PROVE  \E f : Recurs(kind, h, f)
<1> DEFINE Upto(n, g) == g = [k \in 0 .. n |-> Turn(kind, h, k, g[k - 1])]
<1>1. \A n \in Nat : \E g : Upto(n, g)
  <2> DEFINE S == {n \in Nat : ~ \E g : Upto(n, g)}
  <2>1. SUFFICES ASSUME S # {} PROVE FALSE
    OBVIOUS
  <2>2. PICK n \in S : \A k \in S : n <= k
    <3>1. S \in SUBSET Nat OBVIOUS
    <3> HIDE DEF S
    <3> QED BY <2>1, <3>1, LeastNatural
  <2>3. CASE n = 0
    <3> DEFINE g == [k \in 0 .. 0 |-> Turn(kind, h, 0, <<>>)]
    <3>1. \A k \in 0 .. 0 : g[k] = Turn(kind, h, k, g[k - 1])
      <4>1. \A k \in 0 .. 0 : k = 0 OBVIOUS
      <4>2. g[0] = Turn(kind, h, 0, <<>>) OBVIOUS
      <4> HIDE DEF g
      <4> QED BY <4>1, <4>2, FirstTurn
    <3>2. Upto(0, g)
      <4>1. g = [k \in 0 .. 0 |-> g[k]] OBVIOUS
      <4> HIDE DEF g
      <4> QED BY <3>1, <4>1
    <3> HIDE DEF Upto
    <3> QED BY <2>2, <2>3, <3>2
  <2>4. CASE n # 0
    <3>1. n - 1 \in Nat /\ n - 1 \notin S BY <2>2, <2>4
    <3>2. PICK g : Upto(n - 1, g) BY <3>1
    <3> DEFINE new == [k \in 0 .. n |-> IF k = n THEN Turn(kind, h, n, g[n - 1]) ELSE g[k]]
    <3>3. \A k \in 0 .. n : new[k] = Turn(kind, h, k, new[k - 1])
      <4> TAKE k \in 0 .. n
      <4>1. CASE k = n
        <5>1. new[n - 1] = g[n - 1] BY <3>1
        <5> HIDE DEF Upto
        <5> QED BY <4>1, <5>1
      <4>2. CASE k # n /\ k # 0
        <5>1. k \in 0 .. n - 1 /\ k - 1 \in 0 .. n - 1 BY <3>1, <4>2
        <5>2. g[k] = Turn(kind, h, k, g[k - 1]) BY <3>2, <5>1
        <5>3. new[k] = g[k] /\ new[k - 1] = g[k - 1] BY <4>2, <5>1
        <5> QED BY <5>2, <5>3
      <4>3. CASE k # n /\ k = 0
        <5>1. 0 \in 0 .. n - 1 BY <3>1
        <5>2. g[0] = Turn(kind, h, 0, g[0 - 1]) BY <3>2, <5>1
        <5>3. new[0] = g[0] BY <4>3, <5>1
        <5> HIDE DEF new
        <5> QED BY <4>3, <5>2, <5>3, FirstTurn
      <4> QED BY <4>1, <4>2, <4>3
    <3>4. Upto(n, new)
      <4>1. new = [k \in 0 .. n |-> new[k]] OBVIOUS
      <4> HIDE DEF new
      <4> QED BY <3>3, <4>1
    <3> HIDE DEF Upto
    <3> QED BY <2>2, <3>4
  <2> QED BY <2>3, <2>4
<1>2. ASSUME NEW n \in Nat, NEW m \in Nat, NEW g, NEW f, Upto(n, g), Upto(m, f),
             NEW k \in 0 .. n, k <= m
      PROVE  g[k] = f[k]
  <2> DEFINE S == {i \in 0 .. k : g[i] # f[i]}
  <2>1. SUFFICES ASSUME S # {} PROVE FALSE
    OBVIOUS
  <2>2. PICK i \in S : \A j \in S : i <= j
    <3>1. S \in SUBSET Nat OBVIOUS
    <3> HIDE DEF S
    <3> QED BY <2>1, <3>1, LeastNatural
  <2>3. i \in 0 .. n /\ i \in 0 .. m BY <1>2, <2>2
  <2>4. g[i] = Turn(kind, h, i, g[i - 1]) /\ f[i] = Turn(kind, h, i, f[i - 1])
    BY <1>2, <2>3
  <2>5. i # 0
    BY <2>2, <2>4, FirstTurn
  <2>6. i - 1 \in 0 .. k /\ i - 1 \notin S
    BY <2>2, <2>5
  <2> QED BY <2>2, <2>4, <2>6
<1> DEFINE f == [n \in Nat |-> (CHOOSE g : Upto(n, g))[n]]
<1>3. \A n \in Nat : f[n] = Turn(kind, h, n, f[n - 1])
  <2> TAKE n \in Nat
  <2>1. PICK g : g = (CHOOSE i : Upto(n, i)) /\ Upto(n, g)
    <3> HIDE DEF Upto
    <3> QED BY <1>1
  <2>2. f[n] = g[n]
    <3> HIDE DEF Upto
    <3> QED BY <2>1
  <2>3. g[n] = Turn(kind, h, n, g[n - 1])
    <3>1. n \in 0 .. n OBVIOUS
    <3> QED BY <2>1, <3>1
  <2>4. CASE n = 0
    <3> HIDE DEF f
    <3> QED BY <2>2, <2>3, <2>4, FirstTurn
  <2>5. CASE n # 0
    <3>1. n - 1 \in Nat BY <2>5
    <3>2. PICK e : e = (CHOOSE i : Upto(n - 1, i)) /\ Upto(n - 1, e)
      <4> HIDE DEF Upto
      <4> QED BY <1>1, <3>1
    <3>3. f[n - 1] = e[n - 1]
      <4> HIDE DEF Upto
      <4> QED BY <3>1, <3>2
    <3>4. e[n - 1] = g[n - 1]
      <4>1. n - 1 \in 0 .. n - 1 /\ n - 1 <= n BY <3>1
      <4> HIDE DEF Upto
      <4> QED BY <1>2, <2>1, <3>1, <3>2, <4>1
    <3> HIDE DEF f
    <3> QED BY <2>2, <2>3, <3>3, <3>4
  <2> QED BY <2>4, <2>5
<1>4. Recurs(kind, h, f)
  <2>1. f = [n \in Nat |-> f[n]] OBVIOUS
  <2> HIDE DEF f
  <2> QED BY <1>3, <2>1 DEF Recurs
<1> QED BY <1>4

-----------------------------------------------------------------------------
(* Lists. s is the list that starts at c, linked both ways.                *)
ListIs(h, c, s) ==
    /\ s \in Seq(Used(h.items))
    /\ c = IF s = <<>> THEN NULL ELSE s[1]
    /\ \A i, j \in 1 .. Len(s) : s[i] = s[j] => i = j
    /\ \A j \in 1 .. Len(s) :
         /\ h.items[s[j]].next = IF j = Len(s) THEN NULL ELSE s[j + 1]
         /\ h.items[s[j]].prev = IF j = 1 THEN NULL ELSE s[j - 1]

(* What is in use.                                                         *)
LEMMA UsedFacts ==
    ASSUME NEW h \in Heaps
    PROVE  /\ Used(h.items) = {a \in Items : h.items[a] # NULL}
           /\ Used(h.texts) = {t \in Texts : h.texts[t] # NULL}
           /\ \A a \in Used(h.items) : h.items[a] \in Item
           /\ \A t \in Used(h.texts) : h.texts[t] \in Names
           /\ NULL \notin Used(h.items) /\ NULL \notin Used(h.texts)
BY CJsonAssumption DEF Used, Heaps

(* A list holds no more items than there are.                              *)
LEMMA ListFits ==
    ASSUME NEW h \in Heaps, NEW c, NEW s, ListIs(h, c, s)
    PROVE  Cardinality(Items) \in Nat /\ Len(s) \in Nat /\ Len(s) <= Cardinality(Items)
<1>1. Len(s) \in Nat /\ IsFiniteSet(1 .. Len(s)) /\ Cardinality(1 .. Len(s)) = Len(s)
  <2>1. Len(s) \in Nat BY DEF ListIs
  <2>2. IsFiniteSet(1 .. Len(s)) /\ Cardinality(1 .. Len(s)) = IF 1 > Len(s) THEN 0 ELSE Len(s) - 1 + 1
    BY <2>1, FS_Interval
  <2> QED BY <2>1, <2>2
<1>2. IsFiniteSet(Items) /\ Cardinality(Items) \in Nat
  BY CJsonAssumption, FS_CardinalityType
<1>3. SUFFICES ASSUME Len(s) > Cardinality(Items) PROVE FALSE
  BY <1>1, <1>2
<1>4. s \in [1 .. Len(s) -> Items]
  <2>1. s \in [1 .. Len(s) -> Used(h.items)] BY DEF ListIs
  <2> QED BY <2>1, UsedFacts
<1>5. \E i, j \in 1 .. Len(s) : i # j /\ s[i] = s[j]
  BY <1>1, <1>2, <1>3, <1>4, FS_PigeonHole
<1> QED BY <1>5 DEF ListIs

(* What starts at c is the list s.                                         *)
LEMMA ChainIs ==
    ASSUME NEW h \in Heaps, NEW c, NEW s, ListIs(h, c, s)
    PROVE  Chain(h, c) = s
<1> DEFINE Walks(f) == f = [n \in Nat |->
               [a \in Pointers |-> IF n = 0 \/ a = NULL THEN << >>
                                   ELSE <<a>> \o f[n - 1][h.items[a].next]]]
           from == CHOOSE f : Walks(f)
           place(k) == IF k = Len(s) + 1 THEN NULL ELSE s[k]
           rest(k) == [i \in 1 .. Len(s) - k + 1 |-> s[k + i - 1]]
<1>1. Chain(h, c) = from[Cardinality(Items)][c]
  BY DEF Chain
<1>2. Walks(from)
  <2>1. PICK f : Recurs("from", h, f)
    BY RecursionExists DEF Recursions
  <2>2. Walks(f)
    BY <2>1 DEF Recurs, Turn
  <2> HIDE DEF Walks
  <2> QED BY <2>2
<1> HIDE DEF from
<1>3. Len(s) \in Nat /\ s \in [1 .. Len(s) -> Used(h.items)] /\ Used(h.items) \subseteq Items
  BY UsedFacts DEF ListIs
<1>4. \A k \in 1 .. Len(s) + 1 : place(k) \in Pointers
  BY <1>3 DEF Pointers
<1> DEFINE S == {n \in Nat : \E k \in 1 .. Len(s) + 1 :
                   Len(s) - k + 1 <= n /\ from[n][place(k)] # rest(k)}
<1>5. S = {}
  <2>1. SUFFICES ASSUME S # {} PROVE FALSE
    OBVIOUS
  <2>2. PICK n \in S : \A m \in S : n <= m
    <3>1. S \in SUBSET Nat OBVIOUS
    <3> HIDE DEF S
    <3> QED BY <2>1, <3>1, LeastNatural
  <2>3. PICK k \in 1 .. Len(s) + 1 : Len(s) - k + 1 <= n /\ from[n][place(k)] # rest(k)
    BY <2>2
  <2>4. n \in Nat BY <2>2
  <2>5. CASE k = Len(s) + 1
    <3>1. from[n][NULL] = << >>
      <4>1. NULL \in Pointers BY DEF Pointers
      <4> QED BY <1>2, <2>4, <4>1
    <3>2. rest(k) = << >> BY <1>3, <2>5
    <3> QED BY <2>3, <2>5, <3>1, <3>2
  <2>6. CASE k # Len(s) + 1
    <3>1. k \in 1 .. Len(s) /\ n # 0 /\ n - 1 \in Nat /\ Len(s) - (k + 1) + 1 <= n - 1
      BY <1>3, <2>3, <2>4, <2>6
    <3>2. s[k] \in Items /\ s[k] # NULL /\ h.items[s[k]].next = place(k + 1)
      <4>1. h.items[s[k]].next = IF k = Len(s) THEN NULL ELSE s[k + 1]
        BY <3>1 DEF ListIs
      <4>2. s[k] \in Used(h.items) BY <1>3, <3>1
      <4>3. place(k + 1) = IF k = Len(s) THEN NULL ELSE s[k + 1]
        <5>1. k \in Nat /\ Len(s) \in Nat BY <1>3, <3>1
        <5>2. k + 1 = Len(s) + 1 <=> k = Len(s) BY <5>1
        <5> QED BY <5>2
      <4>4. s[k] \in Items /\ s[k] # NULL BY <4>2, UsedFacts
      <4> HIDE DEF place
      <4> QED BY <4>1, <4>3, <4>4
    <3>3. from[n][s[k]] = <<s[k]>> \o from[n - 1][place(k + 1)]
      <4>1. from[n] = [a \in Pointers |-> IF n = 0 \/ a = NULL THEN << >>
                                          ELSE <<a>> \o from[n - 1][h.items[a].next]]
        BY <1>2, <2>4
      <4>2. s[k] \in Pointers BY <3>2 DEF Pointers
      <4> HIDE DEF place
      <4> QED BY <3>1, <3>2, <4>1, <4>2, Zenon
    <3>4. from[n - 1][place(k + 1)] = rest(k + 1)
      <4>1. n - 1 \notin S
        <5> HIDE DEF S
        <5> QED BY <2>2, <2>4, <3>1
      <4>2. k + 1 \in 1 .. Len(s) + 1 BY <3>1, <1>3
      <4>3. \A j \in 1 .. Len(s) + 1 : Len(s) - j + 1 <= n - 1 => from[n - 1][place(j)] = rest(j)
        <5> HIDE DEF place, rest
        <5> QED BY <3>1, <4>1
      <4> HIDE DEF place, rest
      <4> QED BY <3>1, <4>2, <4>3
    <3>5. <<s[k]>> \o rest(k + 1) = rest(k)
      BY <1>3, <3>1
    <3> QED BY <2>3, <2>6, <3>3, <3>4, <3>5
  <2> QED BY <2>5, <2>6
<1>6. from[Cardinality(Items)][place(1)] = rest(1)
  <2>1. Cardinality(Items) \in Nat /\ Len(s) - 1 + 1 <= Cardinality(Items) /\ 1 \in 1 .. Len(s) + 1
    BY <1>3, ListFits
  <2>2. Cardinality(Items) \notin S BY <1>5
  <2> QED BY <2>1, <2>2
<1>7. c = place(1)
  <2>1. s = <<>> <=> Len(s) = 0
    <3>1. s \in Seq(Used(h.items)) BY DEF ListIs
    <3> QED BY <3>1
  <2>2. c = IF s = <<>> THEN NULL ELSE s[1] BY DEF ListIs
  <2> QED BY <1>3, <2>1, <2>2
<1>8. rest(1) = s
  BY <1>3
<1> QED BY <1>1, <1>6, <1>7, <1>8

-----------------------------------------------------------------------------
(* Trees. Those of the items that own their children, and the children.    *)
Owners(h) == {p \in Used(h.items) : ~h.items[p].ref}
Kids(h) == [p \in Used(h.items) |-> ChildrenOf(h, p)]
Children(K, p) == {K[p][j] : j \in 1 .. Len(K[p])}

(* The set S has the children of all that own theirs in it.                *)
Closed(h, K, S) == \A p \in S \cap Owners(h) : Children(K, p) \subseteq S

(* The items are trees with the roots R, and K has the children of each.   *)
LinkedAs(h, R, K) ==
    /\ K = [p \in Used(h.items) |-> K[p]]
    /\ \A p \in Used(h.items) : ListIs(h, h.items[p].child, K[p])
    /\ R \subseteq Used(h.items)
    /\ \A r \in R : h.items[r].next = NULL /\ h.items[r].prev = NULL
    /\ \A p, q \in Owners(h) : p # q => Children(K, p) \cap Children(K, q) = {}
    /\ \A p \in Owners(h) : Children(K, p) \cap R = {}
    /\ \A r \in Used(h.items) \ Owners(h) : K[r] = <<>> \/ \E q \in Owners(h) : K[q] = K[r]
    /\ \A S \in SUBSET Used(h.items) : R \subseteq S /\ Closed(h, K, S) => S = Used(h.items)

Linked(h, R) == LinkedAs(h, R, Kids(h))

(* No reference shares the children that p has.                            *)
Unshared(h, p) ==
    /\ p \in Owners(h)
    /\ \A r \in Used(h.items) \ Owners(h) :
         h.items[p].child # NULL => h.items[r].child # h.items[p].child

(* There is one way to see the children.                                   *)
LEMMA KidsAre ==
    ASSUME NEW h \in Heaps, NEW R, NEW K, LinkedAs(h, R, K)
    PROVE  K = Kids(h) /\ Linked(h, R)
<1>1. \A p \in Used(h.items) : ChildrenOf(h, p) = K[p]
  <2> TAKE p \in Used(h.items)
  <2>1. ListIs(h, h.items[p].child, K[p]) BY DEF LinkedAs
  <2> QED BY <2>1, ChainIs DEF ChildrenOf
<1>2. K = [p \in Used(h.items) |-> K[p]] BY DEF LinkedAs
<1>3. K = Kids(h) BY <1>1, <1>2 DEF Kids
<1> QED BY <1>3 DEF Linked

(* The list of the children of p.                                          *)
LEMMA KidsList ==
    ASSUME NEW h \in Heaps, NEW R, Linked(h, R), NEW p \in Used(h.items)
    PROVE  /\ ListIs(h, h.items[p].child, Kids(h)[p])
           /\ Kids(h)[p] = ChildrenOf(h, p)
           /\ Kids(h)[p] \in Seq(Used(h.items)) /\ Len(Kids(h)[p]) \in Nat
           /\ Children(Kids(h), p) \subseteq Used(h.items)
           /\ Kids(h)[p] = <<>> <=> h.items[p].child = NULL
           /\ Kids(h)[p] = <<>> <=> Len(Kids(h)[p]) = 0
           /\ Kids(h)[p] # <<>> => h.items[p].child = Kids(h)[p][1]
<1>1. ListIs(h, h.items[p].child, Kids(h)[p]) BY DEF Linked, LinkedAs
<1>2. Kids(h)[p] \in Seq(Used(h.items)) BY <1>1 DEF ListIs
<1>3. h.items[p].child = IF Kids(h)[p] = <<>> THEN NULL ELSE Kids(h)[p][1]
  BY <1>1 DEF ListIs
<1>4. Kids(h)[p] = ChildrenOf(h, p) BY DEF Kids
<1> HIDE DEF Kids
<1>5. Kids(h)[p] = <<>> <=> Len(Kids(h)[p]) = 0
  BY <1>2
<1>6. \A j \in 1 .. Len(Kids(h)[p]) : Kids(h)[p][j] \in Used(h.items)
  BY <1>2
<1>7. Kids(h)[p] # <<>> => Kids(h)[p][1] \in Used(h.items)
  BY <1>2
<1> QED BY <1>1, <1>2, <1>3, <1>4, <1>5, <1>6, <1>7, UsedFacts DEF Children

(* The children of an owner that shares them with no reference are in no   *)
(* other list.                                                             *)
LEMMA OtherLists ==
    ASSUME NEW h \in Heaps, NEW R, Linked(h, R), NEW p, Unshared(h, p),
           NEW q \in Used(h.items), q # p
    PROVE  Children(Kids(h), q) \cap (Children(Kids(h), p) \cup R) = {}
<1>1. p \in Owners(h) /\ p \in Used(h.items) BY DEF Unshared, Owners
<1>2. ASSUME NEW o \in Owners(h), o # p
      PROVE  Children(Kids(h), o) \cap (Children(Kids(h), p) \cup R) = {}
  BY <1>1, <1>2 DEF Linked, LinkedAs
<1>3. CASE q \in Owners(h)
  BY <1>2, <1>3
<1>4. CASE q \notin Owners(h)
  <2>1. CASE Kids(h)[q] = <<>>
    BY <2>1 DEF Children
  <2>2. CASE Kids(h)[q] # <<>>
    <3>1. PICK o \in Owners(h) : Kids(h)[o] = Kids(h)[q]
      BY <1>4, <2>2 DEF Linked, LinkedAs
    <3>2. o # p
      <4>1. h.items[q].child # h.items[p].child \/ h.items[p].child = NULL
        BY <1>4 DEF Unshared
      <4>2. o \in Used(h.items) BY DEF Owners
      <4> QED BY <1>1, <2>2, <3>1, <4>1, <4>2, KidsList
    <3> QED BY <1>2, <3>1, <3>2 DEF Children
  <2> QED BY <2>1, <2>2
<1> QED BY <1>3, <1>4

(* A list stays one as long as its items and their links stay.             *)
LEMMA ListStays ==
    ASSUME NEW h, NEW g, NEW c, NEW s, ListIs(h, c, s),
           \A j \in 1 .. Len(s) : /\ s[j] \in Used(g.items)
                                  /\ g.items[s[j]].next = h.items[s[j]].next
                                  /\ g.items[s[j]].prev = h.items[s[j]].prev
    PROVE  ListIs(g, c, s)
<1>1. s \in Seq(Used(g.items))
  <2>1. s \in Seq(Used(h.items)) BY DEF ListIs
  <2>2. Len(s) \in Nat /\ s = [j \in 1 .. Len(s) |-> s[j]] BY <2>1
  <2> QED BY <2>2
<1> QED BY <1>1 DEF ListIs

(* What the list operations leave alone, they leave linked.                *)
LEMMA SameLinks ==
    ASSUME NEW h \in Heaps, NEW g \in Heaps, NEW R, Linked(h, R), Used(g.items) = Used(h.items),
           \A p \in Used(h.items) : /\ g.items[p].next = h.items[p].next
                                    /\ g.items[p].prev = h.items[p].prev
                                    /\ g.items[p].child = h.items[p].child
                                    /\ g.items[p].ref = h.items[p].ref
    PROVE  Linked(g, R) /\ Kids(g) = Kids(h) /\ Owners(g) = Owners(h)
<1> DEFINE K == Kids(h)
<1>1. Owners(g) = Owners(h) BY DEF Owners
<1>2. \A p \in Used(g.items) : ListIs(g, g.items[p].child, K[p])
  <2> TAKE p \in Used(g.items)
  <2>1. ListIs(h, h.items[p].child, K[p]) /\ K[p] \in Seq(Used(h.items)) BY KidsList
  <2> HIDE DEF K
  <2>2. \A j \in 1 .. Len(K[p]) : K[p][j] \in Used(h.items) BY <2>1
  <2> QED BY <2>1, <2>2, ListStays
<1>3. K = [p \in Used(g.items) |-> K[p]] BY DEF Kids
<1>4. \A S : Closed(g, K, S) <=> Closed(h, K, S) BY <1>1 DEF Closed
<1>5. LinkedAs(h, R, K) BY DEF Linked
<1> HIDE DEF K
<1>6. LinkedAs(g, R, K)
  BY <1>1, <1>2, <1>3, <1>4, <1>5 DEF LinkedAs
<1> QED BY <1>1, <1>6, KidsAre DEF K

(* A new item is a root; if it is a reference, it may share a list.        *)
Brings(g, h, a, s) ==
    \/ s = <<>> /\ g.items[a].child = NULL
    \/ /\ g.items[a].ref
       /\ \E q \in Used(h.items) : g.items[a].child = h.items[q].child /\ s = Kids(h)[q]

LEMMA AddedLinks ==
    ASSUME NEW h \in Heaps, NEW g \in Heaps, NEW R, Linked(h, R),
           NEW a \in Items \ Used(h.items), NEW s,
           Used(g.items) = Used(h.items) \cup {a},
           \A p \in Used(h.items) : g.items[p] = h.items[p],
           g.items[a].next = NULL, g.items[a].prev = NULL,
           Brings(g, h, a, s)
    PROVE  /\ Linked(g, R \cup {a})
           /\ Kids(g) = [p \in Used(g.items) |-> IF p = a THEN s ELSE Kids(h)[p]]
<1>a. \/ s = <<>> /\ g.items[a].child = NULL
      \/ /\ g.items[a].ref
         /\ \E q \in Used(h.items) : g.items[a].child = h.items[q].child /\ s = Kids(h)[q]
  BY DEF Brings
<1> DEFINE K == Kids(h)
           L == [p \in Used(g.items) |-> IF p = a THEN s ELSE K[p]]
<1>1. \A p \in Used(h.items) : /\ p # a /\ L[p] = K[p]
                               /\ ListIs(h, h.items[p].child, K[p])
                               /\ Children(K, p) \subseteq Used(h.items)
                               /\ Children(L, p) = Children(K, p)
  BY KidsList DEF Children
<1>2. ListIs(g, g.items[a].child, s)
  <2>1. CASE s = <<>> /\ g.items[a].child = NULL
    BY <2>1 DEF ListIs
  <2>2. ASSUME NEW q \in Used(h.items), g.items[a].child = h.items[q].child, s = K[q]
        PROVE  ListIs(g, g.items[a].child, s)
    <3>1. \A j \in 1 .. Len(s) : s[j] \in Used(h.items)
      BY <1>1, <2>2 DEF Children
    <3>2. ListIs(h, h.items[q].child, s) BY <1>1, <2>2
    <3> HIDE DEF L, K
    <3>3. ListIs(g, h.items[q].child, s) BY <3>1, <3>2, ListStays
    <3> QED BY <2>2, <3>3
  <2> QED BY <1>a, <2>1, <2>2
<1>3. \A p \in Used(h.items) : ListIs(g, g.items[p].child, L[p])
  <2> TAKE p \in Used(h.items)
  <2>1. \A j \in 1 .. Len(K[p]) : K[p][j] \in Used(h.items)
    BY <1>1 DEF Children
  <2>2. ListIs(h, h.items[p].child, K[p]) /\ L[p] = K[p] BY <1>1
  <2> HIDE DEF L, K
  <2>3. ListIs(g, h.items[p].child, K[p]) BY <2>1, <2>2, ListStays
  <2> QED BY <2>2, <2>3
<1>4. /\ Owners(h) \subseteq Owners(g) /\ Owners(g) \subseteq Owners(h) \cup {a}
      /\ (a \in Owners(g) => s = <<>>)
      /\ Owners(h) \subseteq Used(h.items)
  BY <1>a DEF Owners
<1>5. L[a] = s /\ (s = <<>> => Children(L, a) = {})
  BY DEF Children
<1>6. LinkedAs(h, R, K) BY DEF Linked
<1>7. \A p \in Owners(g) : Children(L, p) \subseteq Used(h.items) /\ Children(L, p) \cap (R \cup {a}) = {}
  <2> TAKE p \in Owners(g)
  <2>1. CASE p = a BY <2>1, <1>4, <1>5
  <2>2. CASE p # a
    <3>1. p \in Owners(h) BY <1>4, <2>2
    <3>2. Children(K, p) \cap R = {} BY <3>1, <1>6 DEF LinkedAs
    <3> HIDE DEF L, K
    <3> QED BY <1>1, <1>4, <3>1, <3>2
  <2> QED BY <2>1, <2>2
<1>8. \A p, q \in Owners(g) : p # q => Children(L, p) \cap Children(L, q) = {}
  <2> TAKE p, q \in Owners(g)
  <2>1. CASE p = a \/ q = a BY <2>1, <1>4, <1>5
  <2>2. CASE p # a /\ q # a
    <3>1. p \in Owners(h) /\ q \in Owners(h) BY <1>4, <2>2
    <3>2. p # q => Children(K, p) \cap Children(K, q) = {} BY <3>1, <1>6 DEF LinkedAs
    <3> HIDE DEF L, K
    <3> QED BY <1>1, <1>4, <3>1, <3>2
  <2> QED BY <2>1, <2>2
<1>9. \A r \in Used(g.items) \ Owners(g) : L[r] = <<>> \/ \E q \in Owners(g) : L[q] = L[r]
  <2>1. \A r \in Used(h.items) : K[r] = <<>> \/ \E q \in Owners(h) : K[q] = K[r]
    BY <1>6 DEF LinkedAs, Owners
  <2>2. L[a] = <<>> \/ \E q \in Used(h.items) : L[a] = K[q]
    BY <1>a, <1>5
  <2> HIDE DEF L, K
  <2> QED BY <1>1, <1>4, <2>1, <2>2
<1>10. ASSUME NEW S \in SUBSET Used(g.items), R \cup {a} \subseteq S, Closed(g, L, S)
       PROVE  S = Used(g.items)
  <2> DEFINE V == S \cap Used(h.items)
  <2>1. R \subseteq V BY <1>6, <1>10 DEF LinkedAs
  <2>2. Closed(h, K, V)
    <3>1. \A p \in V \cap Owners(h) : Children(K, p) \subseteq V
      <4> TAKE p \in V \cap Owners(h)
      <4>1. Children(L, p) \subseteq S BY <1>4, <1>10 DEF Closed
      <4> HIDE DEF L, K
      <4> QED BY <1>1, <4>1
    <3> HIDE DEF L, K, V
    <3> QED BY <3>1 DEF Closed
  <2>3. V = Used(h.items)
    <3> HIDE DEF L, K
    <3> QED BY <1>6, <2>1, <2>2 DEF LinkedAs
  <2> QED BY <1>10, <2>3
<1>11. LinkedAs(g, R \cup {a}, L)
  <2>1. L = [p \in Used(g.items) |-> L[p]] OBVIOUS
  <2>2. R \subseteq Used(h.items) /\ \A r \in R : h.items[r].next = NULL /\ h.items[r].prev = NULL
    BY <1>6 DEF LinkedAs
  <2> HIDE DEF L, K
  <2>3. \A p \in Used(g.items) : ListIs(g, g.items[p].child, L[p])
    BY <1>2, <1>3, <1>5
  <2>4. \A r \in R \cup {a} : g.items[r].next = NULL /\ g.items[r].prev = NULL
    BY <2>2
  <2>5. \A p \in Owners(g) : Children(L, p) \cap (R \cup {a}) = {}
    BY <1>7
  <2> QED BY <1>8, <1>9, <1>10, <2>1, <2>2, <2>3, <2>4, <2>5 DEF LinkedAs
<1> HIDE DEF L
<1>12. L = Kids(g) /\ Linked(g, R \cup {a})
  BY <1>11, KidsAre
<1> QED BY <1>12 DEF L

(* The children of p change: s are the new ones, Q the new roots.          *)
Relinks(g, h, R, p, s, Q) ==
    LET E == {s[j] : j \in 1 .. Len(s)}
        C == Children(Kids(h), p)
    IN /\ g \in Heaps /\ Used(g.items) = Used(h.items)
       /\ \A q \in Used(h.items) : /\ g.items[q].ref = h.items[q].ref
                                   /\ q # p => g.items[q].child = h.items[q].child
       /\ ListIs(g, g.items[p].child, s)
       /\ \A x \in Used(h.items) \ (C \cup R) :
            g.items[x].next = h.items[x].next /\ g.items[x].prev = h.items[x].prev
       /\ E \subseteq R \cup C
       /\ Q \subseteq (R \cup C) \ E
       /\ \A r \in Q : g.items[r].next = NULL /\ g.items[r].prev = NULL
       /\ \A S \in SUBSET Used(h.items) :
            Q \subseteq S /\ Closed(g, [Kids(h) EXCEPT ![p] = s], S) => S = Used(h.items)

LEMMA Relinked ==
    ASSUME NEW h \in Heaps, NEW R, Linked(h, R), NEW p, Unshared(h, p),
           NEW g, NEW s, NEW Q, Relinks(g, h, R, p, s, Q)
    PROVE  /\ Linked(g, Q)
           /\ Kids(g) = [Kids(h) EXCEPT ![p] = s]
           /\ Owners(g) = Owners(h)
<1> DEFINE K == Kids(h)
           L == [Kids(h) EXCEPT ![p] = s]
           E == {s[j] : j \in 1 .. Len(s)}
<1>a. /\ g \in Heaps /\ Used(g.items) = Used(h.items)
      /\ \A q \in Used(h.items) : /\ g.items[q].ref = h.items[q].ref
                                  /\ q # p => g.items[q].child = h.items[q].child
      /\ ListIs(g, g.items[p].child, s)
      /\ \A x \in Used(h.items) \ (Children(K, p) \cup R) :
           g.items[x].next = h.items[x].next /\ g.items[x].prev = h.items[x].prev
      /\ E \subseteq R \cup Children(K, p)
      /\ Q \subseteq (R \cup Children(K, p)) \ E
      /\ \A r \in Q : g.items[r].next = NULL /\ g.items[r].prev = NULL
      /\ \A S \in SUBSET Used(h.items) :
           Q \subseteq S /\ Closed(g, L, S) => S = Used(h.items)
  BY DEF Relinks
<1> HIDE DEF E
<1>1. /\ p \in Owners(h) /\ p \in Used(h.items) /\ Used(g.items) = Used(h.items)
      /\ Owners(g) = Owners(h) /\ Owners(h) \subseteq Used(h.items)
  BY <1>a DEF Unshared, Owners
<1>2. L = [q \in Used(g.items) |-> L[q]] /\ L[p] = s /\ \A q \in Used(h.items) \ {p} : L[q] = K[q]
  BY <1>a, <1>1 DEF Kids
<1>3. Children(L, p) = E /\ \A q \in Used(h.items) \ {p} : Children(L, q) = Children(K, q)
  <2> HIDE DEF K, L
  <2> QED BY <1>2 DEF Children, E
<1>4. \A q \in Used(h.items) : /\ ListIs(h, h.items[q].child, K[q])
                               /\ Children(K, q) \subseteq Used(h.items)
  BY KidsList
<1>5. \A q \in Used(h.items) \ {p} : Children(K, q) \cap (Children(K, p) \cup R) = {}
  BY OtherLists
<1>6. LinkedAs(h, R, K) BY DEF Linked
<1> HIDE DEF K, L
<1>7. \A q \in Used(g.items) : ListIs(g, g.items[q].child, L[q])
  <2> TAKE q \in Used(g.items)
  <2>1. CASE q = p BY <1>a, <1>2, <2>1
  <2>2. CASE q # p
    <3>1. \A j \in 1 .. Len(K[q]) : /\ K[q][j] \in Used(h.items)
                                    /\ K[q][j] \notin Children(K, p) \cup R
      <4>1. \A j \in 1 .. Len(K[q]) : K[q][j] \in Children(K, q) BY DEF Children
      <4> QED BY <1>a, <1>4, <1>5, <2>2, <4>1
    <3>2. \A j \in 1 .. Len(K[q]) : /\ g.items[K[q][j]].next = h.items[K[q][j]].next
                                    /\ g.items[K[q][j]].prev = h.items[K[q][j]].prev
      BY <1>a, <3>1
    <3>3. ListIs(g, h.items[q].child, K[q])
      BY <1>a, <1>4, <3>1, <3>2, ListStays
    <3> QED BY <1>a, <1>2, <2>2, <3>3
  <2> QED BY <2>1, <2>2
<1>8. Q \subseteq Used(g.items)
  BY <1>a, <1>1, <1>4, <1>6 DEF LinkedAs
<1>9. \A o, q \in Owners(g) : o # q => Children(L, o) \cap Children(L, q) = {}
  <2> TAKE o, q \in Owners(g)
  <2>1. CASE o # p /\ q # p
    BY <1>a, <1>1, <1>3, <1>6, <2>1 DEF LinkedAs
  <2>2. CASE o = p \/ q = p
    BY <1>a, <1>1, <1>3, <1>5, <2>2
  <2> QED BY <2>1, <2>2
<1>10. \A q \in Owners(g) : Children(L, q) \cap Q = {}
  <2> TAKE q \in Owners(g)
  <2>1. CASE q = p BY <1>a, <1>3, <2>1
  <2>2. CASE q # p BY <1>a, <1>1, <1>3, <1>5, <2>2
  <2> QED BY <2>1, <2>2
<1>11. \A r \in Used(g.items) \ Owners(g) : L[r] = <<>> \/ \E q \in Owners(g) : L[q] = L[r]
  <2> TAKE r \in Used(g.items) \ Owners(g)
  <2>1. r # p /\ L[r] = K[r] BY <1>a, <1>1, <1>2
  <2>2. CASE K[r] = <<>> BY <2>1, <2>2
  <2>3. CASE K[r] # <<>>
    <3>1. PICK o \in Owners(h) : K[o] = K[r]
      BY <1>1, <1>6, <2>3 DEF LinkedAs
    <3>2. o # p
      <4>1. r \in Used(h.items) /\ K[r] \in Seq(Used(h.items)) BY <1>1, <1>4 DEF ListIs
      <4>2. K[r][1] \in Children(K, r) /\ (o = p => K[r][1] \in Children(K, p))
        BY <2>3, <3>1, <4>1 DEF Children
      <4> QED BY <1>5, <2>1, <4>1, <4>2
    <3> QED BY <1>1, <1>2, <2>1, <3>1, <3>2
  <2> QED BY <2>2, <2>3
<1>12. LinkedAs(g, Q, L)
  BY <1>a, <1>2, <1>7, <1>8, <1>9, <1>10, <1>11 DEF LinkedAs
<1>13. L = Kids(g) /\ Linked(g, Q) BY <1>a, <1>12, KidsAre
<1> QED BY <1>1, <1>13 DEF L

(* One field of an item.                                                   *)
LEMMA PutFacts ==
    ASSUME NEW h \in Heaps, NEW p \in Used(h.items), NEW f, NEW x,
           \/ f \in {"next", "prev", "child"} /\ x \in Pointers
           \/ f \in {"string", "valuestring"} /\ x \in Texts \cup {NULL}
           \/ f = "type" /\ x \in ItemTypes
    PROVE  /\ Put(h, p, f, x) \in Heaps
           /\ Used(Put(h, p, f, x).items) = Used(h.items)
           /\ Put(h, p, f, x).items[p] = [h.items[p] EXCEPT ![f] = x]
           /\ \A q \in Used(h.items) \ {p} : Put(h, p, f, x).items[q] = h.items[q]
           /\ Put(h, p, f, x).texts = h.texts
<1>1. p \in Items /\ h.items[p] \in Item /\ p # NULL /\ Used(h.items) \subseteq Items
  BY UsedFacts
<1>2. [h.items[p] EXCEPT ![f] = x] \in Item
  BY <1>1 DEF Item
<1>3. Put(h, p, f, x) = [h EXCEPT !.items = [h.items EXCEPT ![p] = [h.items[p] EXCEPT ![f] = x]]]
  BY <1>1 DEF Put, Heaps
<1>4. [h.items EXCEPT ![p] = [h.items[p] EXCEPT ![f] = x]] \in [Items -> Item \cup {NULL}]
  BY <1>1, <1>2 DEF Heaps
<1>5. Put(h, p, f, x) \in Heaps
  BY <1>3, <1>4 DEF Heaps
<1>6. Put(h, p, f, x).items = [h.items EXCEPT ![p] = [h.items[p] EXCEPT ![f] = x]]
  BY <1>3 DEF Heaps
<1>7. Put(h, p, f, x).texts = h.texts
  BY <1>3 DEF Heaps
<1>8. h.items = [a \in Items |-> h.items[a]] BY DEF Heaps
<1>9. [h.items[p] EXCEPT ![f] = x] # NULL
  BY <1>2, CJsonAssumption
<1>10. Used(Put(h, p, f, x).items) = Used(h.items)
  <2> DEFINE g == Put(h, p, f, x)
  <2>1. \A a \in Items : g.items[a] = IF a = p THEN [h.items[p] EXCEPT ![f] = x] ELSE h.items[a]
    BY <1>6, <1>8
  <2> HIDE DEF g
  <2>2. \A a \in Items : g.items[a] # NULL <=> h.items[a] # NULL
    BY <1>1, <1>9, <2>1, UsedFacts
  <2>3. g \in Heaps BY <1>5 DEF g
  <2>4. Used(g.items) = {a \in Items : g.items[a] # NULL}
    BY <2>3, UsedFacts
  <2>5. Used(h.items) = {a \in Items : h.items[a] # NULL}
    BY UsedFacts
  <2>6. Used(g.items) = Used(h.items) BY <2>2, <2>4, <2>5
  <2> QED BY <2>6 DEF g
<1> QED BY <1>1, <1>5, <1>6, <1>7, <1>8, <1>10

LEMMA PutLink ==
    ASSUME NEW h \in Heaps, NEW p \in Used(h.items), NEW f \in {"next", "prev", "child"},
           NEW x \in Pointers, NEW g, g = Put(h, p, f, x)
    PROVE  /\ g \in Heaps /\ Used(g.items) = Used(h.items) /\ g.texts = h.texts
           /\ g.items[p] = [h.items[p] EXCEPT ![f] = x]
           /\ \A q \in Used(h.items) \ {p} : g.items[q] = h.items[q]
BY PutFacts

(* An item put behind the others.                                          *)
Behind(h, p, item) ==
    IF h.items[p].child = NULL THEN Put(h, p, "child", item)
    ELSE suffix_object(h, Last(Kids(h)[p]), item)

(* What stays of an item whose links change.                               *)
SameButLinks(g, h) ==
    /\ Used(g.items) = Used(h.items) /\ g.texts = h.texts
    /\ \A q \in Used(h.items) : /\ g.items[q].ref = h.items[q].ref
                                /\ g.items[q].string = h.items[q].string
                                /\ g.items[q].valuestring = h.items[q].valuestring

PutBehind(g, h, R, p, item) ==
    /\ g \in Heaps
    /\ h.items[p].child = NULL =>
         /\ g.items[p] = [h.items[p] EXCEPT !.child = item]
         /\ \A q \in Used(h.items) \ {p} : g.items[q] = h.items[q]
    /\ h.items[p].child # NULL => \E l \in Children(Kids(h), p) :
         /\ l = Last(Kids(h)[p]) /\ l # item
         /\ g.items[l] = [h.items[l] EXCEPT !.next = item]
         /\ g.items[item] = [h.items[item] EXCEPT !.prev = l]
         /\ \A q \in Used(h.items) \ {l, item} : g.items[q] = h.items[q]
    /\ SameButLinks(g, h)
    /\ \A q \in Used(h.items) \ {p} : g.items[q].child = h.items[q].child
    /\ \A q \in Used(h.items) \ (Children(Kids(h), p) \cup {p, item}) :
         g.items[q] = h.items[q]
    /\ \A q \in Used(h.items) \ (Children(Kids(h), p) \cup {item}) :
         /\ g.items[q].next = h.items[q].next
         /\ g.items[q].prev = h.items[q].prev

LEMMA BehindFacts ==
    ASSUME NEW h \in Heaps, NEW R, Linked(h, R), NEW p \in Owners(h), NEW item \in R
    PROVE  PutBehind(Behind(h, p, item), h, R, p, item)
<1> DEFINE g == Behind(h, p, item)
           K == Kids(h)
<1>1. item \in Used(h.items) /\ R \subseteq Used(h.items) /\ Used(h.items) \subseteq Pointers
  BY UsedFacts DEF Linked, LinkedAs, Pointers
<1>0. p \in Used(h.items) BY DEF Owners
<1>4. Children(K, p) \cap R = {}
  BY DEF Linked, LinkedAs
<1>2. CASE h.items[p].child = NULL
  <2>1. g = Put(h, p, "child", item) BY <1>2 DEF Behind
  <2>2. /\ g \in Heaps /\ Used(g.items) = Used(h.items) /\ g.texts = h.texts
        /\ g.items[p] = [h.items[p] EXCEPT !.child = item]
        /\ \A q \in Used(h.items) \ {p} : g.items[q] = h.items[q]
    <3> HIDE DEF g
    <3> QED BY <1>0, <1>1, <2>1, PutLink
  <2>3. h.items[p] \in Item BY <1>0, UsedFacts
  <2> HIDE DEF g
  <2>4. SameButLinks(g, h) BY <1>0, <2>2, <2>3 DEF SameButLinks, Item
  <2>5. /\ \A q \in Used(h.items) \ (Children(K, p) \cup {item}) :
             g.items[q].next = h.items[q].next /\ g.items[q].prev = h.items[q].prev
    BY <1>0, <2>2, <2>3 DEF Item
  <2>6. PutBehind(g, h, R, p, item) BY <1>2, <2>2, <2>4, <2>5 DEF PutBehind
  <2> QED BY <2>6 DEF g
<1>3. CASE h.items[p].child # NULL
  <2> DEFINE l == Last(K[p])
             h1 == Put(h, l, "next", item)
  <2>1. K[p] \in Seq(Used(h.items)) /\ K[p] # <<>> BY <1>0, <1>3, KidsList
  <2>2. l \in Used(h.items) /\ l \in Children(K, p)
    <3> HIDE DEF K
    <3> QED BY <2>1 DEF Last, Children
  <2> HIDE DEF K, l
  <2>3. /\ h1 \in Heaps /\ Used(h1.items) = Used(h.items) /\ h1.texts = h.texts
        /\ h1.items[l] = [h.items[l] EXCEPT !.next = item]
        /\ \A q \in Used(h.items) \ {l} : h1.items[q] = h.items[q]
    <3> HIDE DEF h1
    <3>1. l \in Used(h.items) /\ item \in Pointers BY <1>1, <2>2
    <3>2. h1 = Put(h, l, "next", item) BY DEF h1
    <3> QED BY <3>1, <3>2, PutLink
  <2>4. g = Put(h1, item, "prev", l) BY <1>3 DEF Behind, suffix_object, l, K
  <2> HIDE DEF h1, g
  <2>5. /\ g \in Heaps /\ Used(g.items) = Used(h1.items) /\ g.texts = h1.texts
        /\ g.items[item] = [h1.items[item] EXCEPT !.prev = l]
        /\ \A q \in Used(h1.items) \ {item} : g.items[q] = h1.items[q]
    <3>1. l \in Pointers /\ item \in Used(h1.items) /\ h1 \in Heaps BY <1>1, <2>2, <2>3
    <3> QED BY <2>4, <3>1, PutLink
  <2>6. \A q \in Used(h.items) : h.items[q] \in Item /\ h1.items[q] \in Item BY <2>3, UsedFacts
  <2>7. SameButLinks(g, h) /\ \A q \in Used(h.items) : g.items[q].child = h.items[q].child
    BY <2>3, <2>5, <2>6 DEF SameButLinks, Item
  <2>8. \A q \in Used(h.items) \ {l, item} : g.items[q] = h.items[q]
    BY <2>3, <2>5
  <2>9. l # item BY <1>4, <2>2
  <2>10. g.items[l] = [h.items[l] EXCEPT !.next = item] /\ g.items[item] = [h.items[item] EXCEPT !.prev = l]
    BY <1>1, <2>2, <2>3, <2>5, <2>9
  <2>11. \A q \in Used(h.items) \ (Children(K, p) \cup {item}) : g.items[q] = h.items[q]
    BY <2>2, <2>8
  <2>12. \E k \in Children(K, p) :
           /\ k = Last(K[p]) /\ k # item
           /\ g.items[k] = [h.items[k] EXCEPT !.next = item]
           /\ g.items[item] = [h.items[item] EXCEPT !.prev = k]
           /\ \A q \in Used(h.items) \ {k, item} : g.items[q] = h.items[q]
    BY <2>2, <2>8, <2>9, <2>10 DEF l
  <2>13. PutBehind(g, h, R, p, item)
    BY <1>3, <2>5, <2>7, <2>11, <2>12 DEF K, PutBehind
  <2> QED BY <2>13 DEF g
<1> QED BY <1>2, <1>3

LEMMA BehindList ==
    ASSUME NEW h \in Heaps, NEW R, Linked(h, R), NEW p \in Owners(h), NEW item \in R,
           NEW g, g = Behind(h, p, item), NEW s, s = Kids(h)[p]
    PROVE  ListIs(g, g.items[p].child, Append(s, item))
<1>1. /\ p \in Used(h.items) /\ Children(Kids(h), p) \cap R = {} /\ R \subseteq Used(h.items)
      /\ h.items[item].next = NULL /\ h.items[item].prev = NULL
  BY DEF Linked, LinkedAs, Owners
<1>2. /\ ListIs(h, h.items[p].child, s) /\ s \in Seq(Used(h.items)) /\ Len(s) \in Nat
      /\ s = <<>> <=> h.items[p].child = NULL
      /\ s = <<>> <=> Len(s) = 0
      /\ s # <<>> => h.items[p].child = s[1]
  <2> DEFINE K == Kids(h)
  <2>1. /\ ListIs(h, h.items[p].child, K[p]) /\ K[p] \in Seq(Used(h.items)) /\ Len(K[p]) \in Nat
        /\ K[p] = <<>> <=> h.items[p].child = NULL
        /\ K[p] = <<>> <=> Len(K[p]) = 0
        /\ K[p] # <<>> => h.items[p].child = K[p][1]
    BY <1>1, KidsList
  <2> HIDE DEF K
  <2>2. s = K[p] BY DEF K
  <2> QED BY <2>1, <2>2
<1>10. PutBehind(g, h, R, p, item) BY BehindFacts
<1>3. Used(g.items) = Used(h.items) BY <1>10 DEF PutBehind, SameButLinks
<1>4. \A j \in 1 .. Len(s) : s[j] \in Used(h.items) /\ s[j] # item
  <2>1. \A j \in 1 .. Len(s) : s[j] \in Children(Kids(h), p) BY DEF Children
  <2> QED BY <1>1, <1>2, <2>1
<1>5. /\ Append(s, item) \in Seq(Used(g.items)) /\ Append(s, item) # <<>>
      /\ Len(Append(s, item)) = Len(s) + 1
      /\ Append(s, item)[Len(s) + 1] = item
      /\ \A j \in 1 .. Len(s) : Append(s, item)[j] = s[j]
  <2>1. item \in Used(h.items) /\ s \in Seq(Used(h.items)) BY <1>1, <1>2
  <2>2. /\ Append(s, item) \in Seq(Used(h.items)) /\ Append(s, item) # <<>>
        /\ Len(Append(s, item)) = Len(s) + 1
        /\ Append(s, item)[Len(s) + 1] = item
        /\ \A j \in 1 .. Len(s) : Append(s, item)[j] = s[j]
    BY <2>1
  <2> QED BY <1>3, <2>2
<1>6. \A i, j \in 1 .. Len(s) + 1 : Append(s, item)[i] = Append(s, item)[j] => i = j
  <2>1. \A i, j \in 1 .. Len(s) : s[i] = s[j] => i = j BY <1>2 DEF ListIs
  <2> QED BY <1>2, <1>4, <1>5, <2>1
<1>7. \A q \in Used(h.items) : h.items[q] \in Item BY UsedFacts
<1>8. CASE h.items[p].child = NULL
  <2>1. s = <<>> /\ Len(s) = 0 BY <1>2, <1>8
  <2>2. /\ g.items[p] = [h.items[p] EXCEPT !.child = item]
        /\ \A q \in Used(h.items) \ {p} : g.items[q] = h.items[q]
    BY <1>8, <1>10 DEF PutBehind
  <2>3. g.items[p].child = item /\ g.items[item].next = NULL /\ g.items[item].prev = NULL
    BY <1>1, <1>7, <2>2 DEF Item
  <2> QED BY <1>5, <1>6, <2>1, <2>3 DEF ListIs
<1>9. CASE h.items[p].child # NULL
  <2>1. PICK l \in Children(Kids(h), p) :
                /\ l = Last(s) /\ l # item
                /\ g.items[l] = [h.items[l] EXCEPT !.next = item]
                /\ g.items[item] = [h.items[item] EXCEPT !.prev = l]
                /\ \A q \in Used(h.items) \ {l, item} : g.items[q] = h.items[q]
    BY <1>9, <1>10 DEF PutBehind
  <2>2. Len(s) \in 1 .. Len(s) /\ l = s[Len(s)] BY <1>2, <1>9, <2>1 DEF Last
  <2>3. g.items[item].next = NULL /\ g.items[item].prev = l /\ g.items[l].next = item
        /\ g.items[l].prev = h.items[l].prev /\ g.items[p].child = h.items[p].child
    <3>1. l \in Used(h.items) BY <1>4, <2>2
    <3> QED BY <1>1, <1>7, <2>1, <3>1 DEF Item
  <2>4. \A j \in 1 .. Len(s) : /\ h.items[s[j]].next = IF j = Len(s) THEN NULL ELSE s[j + 1]
                               /\ h.items[s[j]].prev = IF j = 1 THEN NULL ELSE s[j - 1]
                               /\ s[j] = l => j = Len(s)
    BY <1>2, <2>2 DEF ListIs
  <2>5. ASSUME NEW j \in 1 .. Len(s)
        PROVE  /\ g.items[s[j]].next = IF j = Len(s) THEN item ELSE s[j + 1]
               /\ g.items[s[j]].prev = IF j = 1 THEN NULL ELSE s[j - 1]
    <3>1. CASE j = Len(s) BY <2>2, <2>3, <2>4, <3>1
    <3>2. CASE j # Len(s)
      <4>1. g.items[s[j]] = h.items[s[j]] BY <1>4, <2>1, <2>4, <3>2
      <4> QED BY <2>4, <3>2, <4>1
    <3> QED BY <3>1, <3>2
  <2>6. ASSUME NEW j \in 1 .. Len(s) + 1
        PROVE  /\ g.items[Append(s, item)[j]].next = IF j = Len(s) + 1 THEN NULL ELSE Append(s, item)[j + 1]
               /\ g.items[Append(s, item)[j]].prev = IF j = 1 THEN NULL ELSE Append(s, item)[j - 1]
    <3>1. CASE j = Len(s) + 1
      <4>1. Append(s, item)[j] = item /\ j # 1 /\ Append(s, item)[j - 1] = l
        BY <1>2, <1>5, <2>2, <3>1
      <4> QED BY <2>3, <3>1, <4>1
    <3>2. CASE j # Len(s) + 1
      <4>1. j \in 1 .. Len(s) BY <1>2, <3>2
      <4>2. Append(s, item)[j] = s[j] BY <1>5, <4>1
      <4>3. Append(s, item)[j + 1] = IF j = Len(s) THEN item ELSE s[j + 1]
        BY <1>2, <1>5, <4>1
      <4>4. j # 1 => Append(s, item)[j - 1] = s[j - 1]
        BY <1>2, <1>5, <4>1
      <4> QED BY <2>5, <3>2, <4>1, <4>2, <4>3, <4>4
    <3> QED BY <3>1, <3>2
  <2>7. g.items[p].child = Append(s, item)[1]
    <3>1. s # <<>> /\ 1 \in 1 .. Len(s) BY <1>2, <1>9
    <3>2. Append(s, item)[1] = s[1] BY <1>5, <3>1
    <3> QED BY <1>2, <2>3, <3>1, <3>2
  <2>8. /\ Append(s, item) \in Seq(Used(g.items)) /\ Append(s, item) # <<>>
        /\ Len(Append(s, item)) = Len(s) + 1
    BY <1>5
  <2> DEFINE t == Append(s, item)
  <2>9. /\ \A j \in 1 .. Len(t) : /\ g.items[t[j]].next = IF j = Len(t) THEN NULL ELSE t[j + 1]
                                  /\ g.items[t[j]].prev = IF j = 1 THEN NULL ELSE t[j - 1]
    BY <2>6, <2>8
  <2>10. \A i, j \in 1 .. Len(t) : t[i] = t[j] => i = j BY <1>6, <2>8
  <2>11. t \in Seq(Used(g.items)) /\ t # <<>> /\ g.items[p].child = t[1] BY <2>7, <2>8
  <2> HIDE DEF t
  <2>12. ListIs(g, g.items[p].child, t) BY <2>9, <2>10, <2>11 DEF ListIs
  <2> QED BY <2>12 DEF t
<1> QED BY <1>8, <1>9

Appends(g, h, Q, p, item) ==
    /\ g \in Heaps /\ Linked(g, Q) /\ SameButLinks(g, h)
    /\ Kids(g) = [Kids(h) EXCEPT ![p] = Append(Kids(h)[p], item)]
    /\ Owners(g) = Owners(h)

(* The item becomes the last child of p. D shows that p is not below it.   *)
LEMMA Appended ==
    ASSUME NEW h \in Heaps, NEW R, Linked(h, R), NEW p, Unshared(h, p), NEW item \in R,
           NEW D, Closed(h, Kids(h), D), item \in D, p \notin D,
           NEW g, g = Behind(h, p, item)
    PROVE  Appends(g, h, R \ {item}, p, item)
<1> DEFINE K == Kids(h)
           s == Kids(h)[p]
           t == Append(s, item)
           E == {t[j] : j \in 1 .. Len(t)}
           L == [Kids(h) EXCEPT ![p] = t]
<1>1. /\ p \in Owners(h) /\ p \in Used(h.items)
      /\ Children(K, p) \cap R = {} /\ R \subseteq Used(h.items)
      /\ \A r \in R : h.items[r].next = NULL /\ h.items[r].prev = NULL
  BY DEF Linked, LinkedAs, Unshared, Owners
<1>2. /\ g \in Heaps /\ SameButLinks(g, h)
      /\ \A q \in Used(h.items) \ {p} : g.items[q].child = h.items[q].child
      /\ \A q \in Used(h.items) \ (Children(K, p) \cup {item}) :
           g.items[q].next = h.items[q].next /\ g.items[q].prev = h.items[q].prev
  <2>1. PutBehind(g, h, R, p, item) BY <1>1, BehindFacts
  <2> QED BY <2>1 DEF PutBehind
<1>3. ListIs(g, g.items[p].child, t)
  BY <1>1, BehindList
<1>4. E = Children(K, p) \cup {item}
  <2>1. s \in Seq(Used(h.items)) /\ Len(s) \in Nat BY <1>1, KidsList
  <2>2. item \in Used(h.items) BY <1>1
  <2>3. /\ Len(t) = Len(s) + 1 /\ t[Len(s) + 1] = item
        /\ \A j \in 1 .. Len(s) : t[j] = s[j]
    BY <2>1, <2>2
  <2>4. Children(K, p) = {s[j] : j \in 1 .. Len(s)} BY DEF Children
  <2> HIDE DEF s, t, K
  <2> QED BY <2>1, <2>3, <2>4
<1>5. Owners(g) = Owners(h) /\ Owners(h) \subseteq Used(h.items) BY <1>2 DEF SameButLinks, Owners
<1>6. L[p] = t /\ \A q \in Used(h.items) \ {p} : L[q] = K[q]
  BY <1>1 DEF Kids
<1>7. Children(L, p) = E /\ \A q \in Used(h.items) \ {p} : Children(L, q) = Children(K, q)
  <2> HIDE DEF K, L, t
  <2> QED BY <1>6 DEF Children
<1>8. \A q \in Used(h.items) : Children(K, q) \subseteq Used(h.items) BY KidsList
<1>9. LinkedAs(h, R, K) BY DEF Linked
<1> HIDE DEF K, L, E, t, s
<1>10. ASSUME NEW S \in SUBSET Used(h.items), R \ {item} \subseteq S, Closed(g, L, S)
       PROVE  S = Used(h.items)
  <2>1. \A q \in S \cap Owners(h) : Children(K, q) \subseteq S /\ (q = p => item \in S)
    BY <1>1, <1>4, <1>5, <1>7, <1>10 DEF Closed
  <2> DEFINE V == S \cup (D \cap Used(h.items))
  <2>2. Closed(h, K, V)
    <3>1. \A q \in D \cap Owners(h) : Children(K, q) \subseteq D BY DEF Closed, K
    <3> QED BY <1>5, <1>8, <2>1, <3>1 DEF Closed
  <2>3. R \subseteq V BY <1>1, <1>10
  <2>4. V \in SUBSET Used(h.items) OBVIOUS
  <2>5. V = Used(h.items)
    <3> HIDE DEF V
    <3> QED BY <1>9, <2>2, <2>3, <2>4 DEF LinkedAs
  <2>6. p \in S BY <1>1, <2>5
  <2>7. R \subseteq S BY <1>1, <1>10, <2>1, <2>6
  <2>8. Closed(h, K, S) BY <2>1 DEF Closed
  <2> QED BY <1>9, <2>7, <2>8 DEF LinkedAs
<1>11. Linked(g, R \ {item}) /\ Kids(g) = L
  <2>1. E = {t[j] : j \in 1 .. Len(t)} BY DEF E
  <2>2. Used(g.items) = Used(h.items) /\ \A q \in Used(h.items) : g.items[q].ref = h.items[q].ref
    BY <1>2 DEF SameButLinks
  <2>3. \A x \in Used(h.items) \ (Children(K, p) \cup R) :
           g.items[x].next = h.items[x].next /\ g.items[x].prev = h.items[x].prev
    BY <1>2
  <2>4. E \subseteq R \cup Children(K, p) /\ R \ {item} \subseteq (R \cup Children(K, p)) \ E
    BY <1>1, <1>4
  <2>5. \A r \in R \ {item} : g.items[r].next = NULL /\ g.items[r].prev = NULL
    BY <1>1, <1>2
  <2>6. L = [K EXCEPT ![p] = t] BY DEF L, K
  <2>7. \A q \in Used(h.items) : /\ g.items[q].ref = h.items[q].ref
                                 /\ q # p => g.items[q].child = h.items[q].child
    BY <1>2, <2>2
  <2>8. \A S \in SUBSET Used(h.items) :
           R \ {item} \subseteq S /\ Closed(g, [K EXCEPT ![p] = t], S) => S = Used(h.items)
    BY <1>10, <2>6
  <2>9. g \in Heaps BY <1>2
  <2>10. Relinks(g, h, R, p, t, R \ {item})
    BY <1>3, <2>1, <2>2, <2>3, <2>4, <2>5, <2>7, <2>8, <2>9 DEF Relinks, K
  <2> QED BY <2>6, <2>10, Relinked DEF K
<1> QED BY <1>2, <1>5, <1>11 DEF L, t, s, Appends

-----------------------------------------------------------------------------
(* What cJSON_Delete frees. G is what c owns: the least set that has c and *)
(* is closed.                                                              *)
Owns(h, c, G) ==
    /\ G \subseteq Used(h.items) /\ c \in G /\ Closed(h, Kids(h), G)
    /\ \A S : c \in S /\ Closed(h, Kids(h), S) => G \subseteq S

LEMMA ReachableFacts ==
    ASSUME NEW edges, \A x \in DOMAIN edges : edges[x] \subseteq DOMAIN edges,
           NEW a \in DOMAIN edges, NEW G, G = Reachable(edges, a)
    PROVE  /\ G \subseteq DOMAIN edges /\ a \in G
           /\ \A x \in G : edges[x] \subseteq G
           /\ \A S \in SUBSET DOMAIN edges :
                a \in S /\ (\A x \in S : edges[x] \subseteq S) => G \subseteq S
BY DEF Reachable

LEMMA OwnedFacts ==
    ASSUME NEW h \in Heaps, NEW R, Linked(h, R), NEW c, NEW G, Owns(h, c, G)
    PROVE  \A x \in G : x = c \/ \E q \in G \cap Owners(h) : x \in Children(Kids(h), q)
<1> DEFINE S == {x \in G : x = c \/ \E q \in G \cap Owners(h) : x \in Children(Kids(h), q)}
<1>1. c \in S BY DEF Owns
<1>2. Closed(h, Kids(h), S)
  BY DEF Owns, Closed
<1>3. G \subseteq S
  BY <1>1, <1>2 DEF Owns
<1> QED BY <1>3

LEMMA NextInList ==
    ASSUME NEW h \in Heaps, NEW R, Linked(h, R), NEW p \in Used(h.items),
           NEW x \in Children(Kids(h), p)
    PROVE  h.items[x].next = NULL \/ h.items[x].next \in Children(Kids(h), p)
<1>1. ListIs(h, h.items[p].child, Kids(h)[p]) /\ Len(Kids(h)[p]) \in Nat BY KidsList
<1>2. PICK j \in 1 .. Len(Kids(h)[p]) : x = Kids(h)[p][j] BY DEF Children
<1>3. h.items[x].next = IF j = Len(Kids(h)[p]) THEN NULL ELSE Kids(h)[p][j + 1]
  BY <1>1, <1>2 DEF ListIs
<1>4. CASE j = Len(Kids(h)[p]) BY <1>3, <1>4
<1>5. CASE j # Len(Kids(h)[p])
  <2>1. j + 1 \in 1 .. Len(Kids(h)[p]) BY <1>1, <1>5
  <2> QED BY <1>3, <1>5, <2>1 DEF Children
<1> QED BY <1>4, <1>5

Deletes(g, h, G) ==
    /\ g \in Heaps /\ Used(g.items) = Used(h.items) \ G
    /\ \A a \in Used(h.items) \ G : g.items[a] = h.items[a]
    /\ g.texts = Drop(h.texts, {h.items[a].string : a \in G}
                               \cup {h.items[a].valuestring : a \in G \cap Owners(h)})

LEMMA DeleteFacts ==
    ASSUME NEW h \in Heaps, NEW R, Linked(h, R), NEW c \in R
    PROVE  \E G : Owns(h, c, G) /\ Deletes(cJSON_Delete(h, c), h, G)
<1> DEFINE K == Kids(h)
           U == Used(h.items)
           below(n) == {n.next} \cup IF n.ref THEN {} ELSE {n.child}
           edges == [a \in U |-> below(h.items[a]) \ {NULL}]
           G == Reachable(edges, c)
           g == cJSON_Delete(h, c)
<1>1. /\ c \in U /\ R \subseteq U /\ c # NULL
      /\ \A r \in R : h.items[r].next = NULL
      /\ \A p \in Owners(h) : Children(K, p) \cap R = {}
      /\ \A p \in U : h.items[p] \in Item
  BY UsedFacts DEF Linked, LinkedAs
<1>2. \A p \in U : /\ Children(K, p) \subseteq U
                   /\ h.items[p].child # NULL => h.items[p].child \in Children(K, p)
                   /\ Len(K[p]) \in Nat
  <2> TAKE p \in U
  <2>1. /\ Children(K, p) \subseteq U /\ Len(K[p]) \in Nat
        /\ K[p] = <<>> <=> h.items[p].child = NULL
        /\ K[p] = <<>> <=> Len(K[p]) = 0
        /\ K[p] # <<>> => h.items[p].child = K[p][1]
    BY KidsList
  <2> HIDE DEF K
  <2> QED BY <2>1 DEF Children
<1>3. \A x \in U : x \in R \/ \E q \in Owners(h) : x \in Children(K, q)
  <2> DEFINE S == {x \in U : x \in R \/ \E q \in Owners(h) : x \in Children(K, q)}
  <2>1. Owners(h) \subseteq U BY DEF Owners
  <2>2. Closed(h, K, S) BY <1>2, <2>1 DEF Closed
  <2>3. R \subseteq S /\ S \in SUBSET U BY <1>1
  <2>4. S = U
    <3> HIDE DEF S, K
    <3> QED BY <2>2, <2>3 DEF Linked, LinkedAs, K
  <2> QED BY <2>4
<1>4. \A q \in Owners(h) : \A x \in Children(K, q) : h.items[x].next = NULL \/ h.items[x].next \in Children(K, q)
  BY NextInList DEF Owners
<1>5. DOMAIN edges = U /\ \A x \in U : edges[x] = below(h.items[x]) \ {NULL}
  OBVIOUS
<1>6. \A x \in U : edges[x] \subseteq U
  <2> TAKE x \in U
  <2>1. h.items[x].next = NULL \/ h.items[x].next \in U
    BY <1>1, <1>2, <1>3, <1>4 DEF Owners
  <2>2. h.items[x].child = NULL \/ h.items[x].child \in U
    BY <1>2
  <2> QED BY <1>5, <2>1, <2>2
<1> HIDE DEF K
<1>7. /\ G \subseteq U /\ c \in G
      /\ \A x \in G : edges[x] \subseteq G
      /\ \A S \in SUBSET U : c \in S /\ (\A x \in S : edges[x] \subseteq S) => G \subseteq S
  <2> HIDE DEF edges
  <2> QED BY <1>1, <1>5, <1>6, ReachableFacts
<1>8. \A x \in G : /\ h.items[x].next # NULL => h.items[x].next \in G
                   /\ ~h.items[x].ref /\ h.items[x].child # NULL => h.items[x].child \in G
  BY <1>5, <1>7
<1>9. ASSUME NEW S, c \in S, Closed(h, K, S)
      PROVE  G \subseteq S
  <2> DEFINE V == {x \in G \cap S : x = c \/ \E q \in G \cap S \cap Owners(h) : x \in Children(K, q)}
  <2>1. ASSUME NEW x \in V, h.items[x].next # NULL
        PROVE  h.items[x].next \in V
    <3>1. x # c BY <1>1, <2>1
    <3>2. PICK q \in G \cap S \cap Owners(h) : x \in Children(K, q) BY <2>1, <3>1
    <3>3. h.items[x].next \in Children(K, q) BY <1>4, <2>1, <3>2
    <3>4. h.items[x].next \in S BY <1>9, <3>2, <3>3 DEF Closed
    <3>5. h.items[x].next \in G BY <1>8, <2>1
    <3> QED BY <3>2, <3>3, <3>4, <3>5
  <2>2. ASSUME NEW x \in V, ~h.items[x].ref, h.items[x].child # NULL
        PROVE  h.items[x].child \in V
    <3>1. x \in G \cap S \cap Owners(h) BY <1>7, <2>2 DEF Owners
    <3>2. h.items[x].child \in Children(K, x) BY <1>2, <1>7, <2>2, <3>1
    <3>3. h.items[x].child \in S BY <1>9, <3>1, <3>2 DEF Closed
    <3>4. h.items[x].child \in G BY <1>8, <2>2
    <3> QED BY <3>1, <3>2, <3>3, <3>4
  <2>3. V \in SUBSET U /\ c \in V BY <1>7, <1>9
  <2>4. \A x \in V : edges[x] \subseteq V
    <3> HIDE DEF V
    <3> QED BY <1>5, <2>1, <2>2, <2>3
  <2>5. G \subseteq V
    <3> HIDE DEF V, G, edges
    <3> QED BY <1>7, <2>3, <2>4
  <2> QED BY <2>5
<1>10. Closed(h, K, G)
  <2> SUFFICES ASSUME NEW p \in G \cap Owners(h), \E j \in 1 .. Len(K[p]) : K[p][j] \notin G
               PROVE  FALSE
    <3> HIDE DEF G
    <3> QED BY DEF Closed, Children
  <2> DEFINE J == {j \in 1 .. Len(K[p]) : K[p][j] \notin G}
  <2>1. PICK j \in J : \A i \in J : j <= i
    <3>1. J \in SUBSET Nat /\ J # {}
      <4> HIDE DEF G
      <4> QED OBVIOUS
    <3> HIDE DEF J
    <3> QED BY <3>1, LeastNatural
  <2>2. p \in U /\ Len(K[p]) \in Nat /\ ListIs(h, h.items[p].child, K[p]) /\ ~h.items[p].ref
    BY <1>2, KidsList DEF Owners, K
  <2>3. CASE j = 1
    <3>1. h.items[p].child = K[p][1] /\ K[p][1] \in U
      <4>1. K[p] # <<>> /\ K[p] \in Seq(U) BY <2>1, <2>2, <2>3 DEF ListIs
      <4> QED BY <2>1, <2>2, <2>3, <4>1 DEF ListIs
    <3>2. h.items[p].child # NULL BY <3>1, UsedFacts
    <3> HIDE DEF G
    <3> QED BY <1>8, <2>1, <2>2, <2>3, <3>1, <3>2
  <2>4. CASE j # 1
    <3>1. j - 1 \in 1 .. Len(K[p]) /\ j - 1 \notin J
      <4>1. j \in 1 .. Len(K[p]) BY <2>1
      <4>2. j - 1 \in 1 .. Len(K[p]) BY <2>2, <2>4, <4>1
      <4>3. j - 1 \notin J
        <5> HIDE DEF J
        <5> QED BY <2>1, <4>1
      <4> QED BY <4>2, <4>3
    <3>2. K[p][j - 1] \in G BY <3>1
    <3>3. h.items[K[p][j - 1]].next = K[p][j] /\ K[p][j] \in U
      <4>1. h.items[K[p][j - 1]].next = IF j - 1 = Len(K[p]) THEN NULL ELSE K[p][j - 1 + 1]
        BY <2>2, <3>1 DEF ListIs
      <4>2. K[p] \in Seq(U) /\ j \in 1 .. Len(K[p]) BY <2>1, <2>2 DEF ListIs
      <4> QED BY <2>2, <4>1, <4>2
    <3>4. K[p][j] \in G
      <4> HIDE DEF G, J
      <4> QED BY <1>8, <3>2, <3>3, UsedFacts
    <3> QED BY <2>1, <3>4
  <2> QED BY <2>3, <2>4
<1>11. Owns(h, c, G)
  <2> HIDE DEF G
  <2> QED BY <1>7, <1>9, <1>10 DEF Owns, K
<1>12. Deletes(g, h, G)
  <2> DEFINE strings == {h.items[a].string : a \in G}
                        \cup {h.items[a].valuestring : a \in {b \in G : ~ h.items[b].ref}}
  <2>1. g = [h EXCEPT !.items = Drop(h.items, G), !.texts = Drop(h.texts, strings)]
    BY <1>1 DEF cJSON_Delete
  <2> HIDE DEF G, g
  <2>2. G \cap Owners(h) = {b \in G : ~ h.items[b].ref} BY <1>7 DEF Owners
  <2>3. g.texts = Drop(h.texts, strings) /\ g.items = Drop(h.items, G) BY <2>1 DEF Heaps
  <2> HIDE DEF strings
  <2>4. g \in Heaps
    <3>1. Drop(h.items, G) \in [Items -> Item \cup {NULL}] BY DEF Heaps, Drop
    <3>2. Drop(h.texts, strings) \in [Texts -> Names \cup {NULL}] BY DEF Heaps, Drop
    <3> QED BY <2>1, <3>1, <3>2 DEF Heaps
  <2>5. \A a \in Items : g.items[a] = IF a \in G THEN NULL ELSE h.items[a]
    BY <2>3 DEF Drop, Heaps
  <2>6. Used(g.items) = Used(h.items) \ G /\ \A a \in Used(h.items) \ G : g.items[a] = h.items[a]
    BY <2>4, <2>5, UsedFacts
  <2> QED BY <2>2, <2>3, <2>4, <2>6 DEF Deletes, strings
<1> QED BY <1>11, <1>12

Leaves(g, h, Q, G) ==
    /\ Linked(g, Q)
    /\ Kids(g) = [p \in Used(g.items) |-> Kids(h)[p]]
    /\ Owners(g) = Owners(h) \ G

(* What stays after a tree is deleted, if no reference shares a part of it. *)
LEMMA DeletedLinks ==
    ASSUME NEW h \in Heaps, NEW R, Linked(h, R), NEW c \in R, NEW G, Owns(h, c, G),
           \A r \in Used(h.items) \ (Owners(h) \cup G) : h.items[r].child \notin G,
           NEW g, Deletes(g, h, G)
    PROVE  Leaves(g, h, R \ {c}, G)
<1> DEFINE K == Kids(h)
           U == Used(h.items)
           L == [p \in Used(g.items) |-> K[p]]
<1>1. /\ R \subseteq U /\ G \subseteq U /\ c \in G /\ Closed(h, K, G)
      /\ \A r \in R : h.items[r].next = NULL /\ h.items[r].prev = NULL
      /\ \A p \in Owners(h) : Children(K, p) \cap R = {}
      /\ \A p, q \in Owners(h) : p # q => Children(K, p) \cap Children(K, q) = {}
      /\ \A r \in U \ Owners(h) : K[r] = <<>> \/ \E q \in Owners(h) : K[q] = K[r]
  BY DEF Linked, LinkedAs, Owns
<1>2. /\ g \in Heaps /\ Used(g.items) = U \ G
      /\ \A a \in U \ G : g.items[a] = h.items[a]
  BY DEF Deletes
<1>3. Owners(g) = Owners(h) \ G /\ Owners(h) \subseteq U
  BY <1>2 DEF Owners
<1>4. \A x \in G : x = c \/ \E q \in G \cap Owners(h) : x \in Children(K, q)
  BY OwnedFacts
<1>5. \A p \in U : /\ Children(K, p) \subseteq U
                   /\ ListIs(h, h.items[p].child, K[p])
                   /\ K[p] # <<>> => h.items[p].child = K[p][1] /\ K[p][1] \in Children(K, p)
  <2> TAKE p \in U
  <2>1. /\ Children(K, p) \subseteq U /\ ListIs(h, h.items[p].child, K[p]) /\ Len(K[p]) \in Nat
        /\ K[p] = <<>> <=> Len(K[p]) = 0
        /\ K[p] # <<>> => h.items[p].child = K[p][1]
    BY KidsList
  <2> HIDE DEF K
  <2> QED BY <2>1 DEF Children
<1>6. /\ \A p \in U \ G : L[p] = K[p]
      /\ L = [p \in Used(g.items) |-> L[p]]
  BY <1>2
<1>7. \A p \in U \ G : Children(L, p) = Children(K, p)
  <2> HIDE DEF K, L
  <2> QED BY <1>6 DEF Children
<1> HIDE DEF K, L
<1>8. \A p \in Owners(h) \ G : Children(K, p) \cap G = {}
  <2> SUFFICES ASSUME NEW p \in Owners(h) \ G, NEW x \in Children(K, p) \cap G PROVE FALSE
    OBVIOUS
  <2>1. x # c BY <1>1
  <2>2. PICK q \in G \cap Owners(h) : x \in Children(K, q) BY <1>4, <2>1
  <2> QED BY <1>1, <2>2
<1>9. \A r \in U \ (Owners(h) \cup G) : K[r] = <<>> \/ \E q \in Owners(h) \ G : K[q] = K[r]
  <2> SUFFICES ASSUME NEW r \in U \ (Owners(h) \cup G), K[r] # <<>>,
                      NEW q \in Owners(h), K[q] = K[r], q \in G
               PROVE  FALSE
    BY <1>1
  <2>1. h.items[r].child = K[r][1] /\ K[r][1] \in Children(K, q)
    BY <1>3, <1>5
  <2>2. Children(K, q) \subseteq G BY <1>1 DEF Closed
  <2> QED BY <2>1, <2>2
<1>10. \A p \in U \ G : Children(K, p) \subseteq U \ G
  <2> TAKE p \in U \ G
  <2>1. CASE p \in Owners(h) BY <1>5, <1>8, <2>1
  <2>2. CASE p \notin Owners(h)
    <3>1. CASE K[p] = <<>> BY <3>1 DEF Children
    <3>2. ASSUME NEW q \in Owners(h) \ G, K[q] = K[p]
          PROVE  Children(K, p) \subseteq U \ G
      BY <1>3, <1>5, <1>8, <3>2 DEF Children
    <3> QED BY <1>9, <2>2, <3>1, <3>2
  <2> QED BY <2>1, <2>2
<1>11. \A p \in Used(g.items) : ListIs(g, g.items[p].child, L[p])
  <2> TAKE p \in Used(g.items)
  <2>1. p \in U \ G BY <1>2
  <2>2. \A j \in 1 .. Len(K[p]) : K[p][j] \in U \ G
    BY <1>10, <2>1 DEF Children
  <2>3. \A j \in 1 .. Len(K[p]) : K[p][j] \in Used(g.items) /\ g.items[K[p][j]] = h.items[K[p][j]]
    BY <1>2, <2>2
  <2>4. ListIs(h, h.items[p].child, K[p]) BY <1>5, <2>1
  <2>5. ListIs(g, h.items[p].child, K[p]) BY <2>3, <2>4, ListStays
  <2> QED BY <1>2, <1>6, <2>1, <2>5
<1>12. R \ {c} \subseteq U \ G
  <2> SUFFICES ASSUME NEW r \in R \ {c}, r \in G PROVE FALSE
    BY <1>1
  <2>1. PICK q \in G \cap Owners(h) : r \in Children(K, q) BY <1>4
  <2> QED BY <1>1, <2>1
<1>13. ASSUME NEW S \in SUBSET Used(g.items), R \ {c} \subseteq S, Closed(g, L, S)
       PROVE  S = Used(g.items)
  <2>1. Closed(h, K, S \cup G)
    <3>1. \A p \in S \cap Owners(g) : Children(L, p) \subseteq S BY <1>13 DEF Closed
    <3>2. \A p \in (S \cap Owners(h)) \ G : Children(K, p) \subseteq S
      BY <1>2, <1>3, <1>7, <3>1
    <3>3. \A p \in G \cap Owners(h) : Children(K, p) \subseteq G BY <1>1 DEF Closed
    <3> QED BY <3>2, <3>3 DEF Closed
  <2>2. R \subseteq S \cup G /\ S \cup G \in SUBSET U BY <1>1, <1>2, <1>13
  <2>3. S \cup G = U BY <2>1, <2>2 DEF Linked, LinkedAs, K
  <2> QED BY <1>2, <2>3
<1>14. LinkedAs(g, R \ {c}, L)
  <2>1. \A r \in R \ {c} : g.items[r].next = NULL /\ g.items[r].prev = NULL
    BY <1>1, <1>2, <1>12
  <2>2. \A p \in Owners(g) : Children(L, p) \cap (R \ {c}) = {}
    BY <1>1, <1>3, <1>7
  <2>3. \A p, q \in Owners(g) : p # q => Children(L, p) \cap Children(L, q) = {}
    BY <1>1, <1>3, <1>7
  <2>4. \A r \in Used(g.items) \ Owners(g) : L[r] = <<>> \/ \E q \in Owners(g) : L[q] = L[r]
    BY <1>2, <1>3, <1>6, <1>9
  <2> QED BY <1>2, <1>6, <1>11, <1>12, <1>13, <2>1, <2>2, <2>3, <2>4 DEF LinkedAs
<1>15. L = Kids(g) /\ Linked(g, R \ {c}) BY <1>2, <1>14, KidsAre
<1> QED BY <1>3, <1>15 DEF L, K, Leaves

-----------------------------------------------------------------------------
(* Taking an item out of a list, and putting another in its place. A link  *)
(* is changed at p, which may be the null pointer: then none is.           *)
Links(g, h, p, f, x) ==
    /\ g \in Heaps /\ SameButLinks(g, h)
    /\ \A q \in Used(h.items) :
         /\ g.items[q].next = IF f = "next" /\ q = p THEN x ELSE h.items[q].next
         /\ g.items[q].prev = IF f = "prev" /\ q = p THEN x ELSE h.items[q].prev
         /\ g.items[q].child = IF f = "child" /\ q = p THEN x ELSE h.items[q].child

LEMMA PutLinks ==
    ASSUME NEW h \in Heaps, NEW p \in Used(h.items) \cup {NULL}, NEW f \in {"next", "prev", "child"},
           NEW x \in Pointers
    PROVE  Links(Put(h, p, f, x), h, p, f, x)
<1> DEFINE g == Put(h, p, f, x)
<1>1. CASE p = NULL
  <2>1. g = h BY <1>1 DEF Put
  <2>2. NULL \notin Used(h.items) BY UsedFacts
  <2> HIDE DEF g
  <2>3. Links(g, h, p, f, x) BY <1>1, <2>1, <2>2 DEF Links, SameButLinks
  <2> QED BY <2>3 DEF g
<1>2. CASE p # NULL
  <2>1. p \in Used(h.items) BY <1>2
  <2>2. /\ g \in Heaps /\ Used(g.items) = Used(h.items) /\ g.texts = h.texts
        /\ g.items[p] = [h.items[p] EXCEPT ![f] = x]
        /\ \A q \in Used(h.items) \ {p} : g.items[q] = h.items[q]
    BY <2>1, PutLink
  <2>3. h.items[p] \in Item BY <2>1, UsedFacts
  <2> HIDE DEF g
  <2>4. \A q \in Used(h.items) : /\ g.items[q].ref = h.items[q].ref
                                 /\ g.items[q].string = h.items[q].string
                                 /\ g.items[q].valuestring = h.items[q].valuestring
    BY <2>1, <2>2, <2>3 DEF Item
  <2>5. \A q \in Used(h.items) :
         /\ g.items[q].next = IF f = "next" /\ q = p THEN x ELSE h.items[q].next
         /\ g.items[q].prev = IF f = "prev" /\ q = p THEN x ELSE h.items[q].prev
         /\ g.items[q].child = IF f = "child" /\ q = p THEN x ELSE h.items[q].child
    BY <2>1, <2>2, <2>3 DEF Item
  <2>6. Links(g, h, p, f, x) BY <2>2, <2>4, <2>5 DEF Links, SameButLinks
  <2> QED BY <2>6 DEF g
<1> QED BY <1>1, <1>2

(* The j-th child of p, and its neighbours.                                *)
Place(h, p, j, c, before, after) ==
    LET s == Kids(h)[p] IN
    /\ j \in 1 .. Len(s) /\ c = s[j]
    /\ before = IF j = 1 THEN NULL ELSE s[j - 1]
    /\ after = IF j = Len(s) THEN NULL ELSE s[j + 1]

LEMMA PlaceFacts ==
    ASSUME NEW h \in Heaps, NEW R, Linked(h, R), NEW p \in Used(h.items),
           NEW j \in 1 .. Len(Kids(h)[p]), NEW c, c = Kids(h)[p][j]
    PROVE  /\ Place(h, p, j, c, h.items[c].prev, h.items[c].next)
           /\ c \in Used(h.items) /\ c \in Children(Kids(h), p)
           /\ h.items[c].prev \in Used(h.items) \cup {NULL}
           /\ h.items[c].next \in Used(h.items) \cup {NULL}
           /\ h.items[p].child = c <=> j = 1
<1> DEFINE s == Kids(h)[p]
<1>1. ListIs(h, h.items[p].child, s) /\ s \in Seq(Used(h.items)) /\ Len(s) \in Nat
  BY KidsList
<1>2. s # <<>> /\ h.items[p].child = s[1] /\ 1 \in 1 .. Len(s)
  <2> HIDE DEF s
  <2>1. j \in 1 .. Len(s) BY DEF s
  <2>2. s # <<>> BY <1>1, <2>1
  <2>3. h.items[p].child = IF s = <<>> THEN NULL ELSE s[1] BY <1>1 DEF ListIs
  <2> QED BY <1>1, <2>1, <2>2, <2>3
<1>3. /\ h.items[c].next = IF j = Len(s) THEN NULL ELSE s[j + 1]
      /\ h.items[c].prev = IF j = 1 THEN NULL ELSE s[j - 1]
      /\ \A i, k \in 1 .. Len(s) : s[i] = s[k] => i = k
  BY <1>1 DEF ListIs
<1>4. c \in Children(Kids(h), p) BY DEF Children
<1> HIDE DEF s
<1>5. j \in 1 .. Len(s) /\ c = s[j] BY DEF s
<1>6. /\ c \in Used(h.items)
      /\ j # 1 => s[j - 1] \in Used(h.items)
      /\ j # Len(s) => s[j + 1] \in Used(h.items)
  BY <1>1, <1>5
<1>7. h.items[p].child = c <=> j = 1
  BY <1>2, <1>3, <1>5
<1>8. Place(h, p, j, c, h.items[c].prev, h.items[c].next)
  BY <1>3, <1>5 DEF Place, s
<1> QED BY <1>3, <1>4, <1>6, <1>7, <1>8

(* The links after an item is taken out.                                   *)
Detached(g, h, p, j, c, before, after) ==
    /\ g \in Heaps /\ SameButLinks(g, h)
    /\ \A q \in Used(h.items) :
         /\ g.items[q].next = IF q = c THEN NULL ELSE IF q = before THEN after ELSE h.items[q].next
         /\ g.items[q].prev = IF q = c THEN NULL ELSE IF q = after THEN before ELSE h.items[q].prev
         /\ g.items[q].child = IF q = p /\ j = 1 THEN after ELSE h.items[q].child

LEMMA DetachFacts ==
    ASSUME NEW h \in Heaps, NEW R, Linked(h, R), NEW p \in Used(h.items),
           NEW j \in 1 .. Len(Kids(h)[p]), NEW c, c = Kids(h)[p][j]
    PROVE  Detached(cJSON_DetachItemFromArray(h, p, c), h, p, j, c, h.items[c].prev, h.items[c].next)
<1> DEFINE before == h.items[c].prev
           after == h.items[c].next
           h1 == Put(h, before, "next", after)
           h2 == Put(h1, after, "prev", before)
           h3 == IF h.items[p].child = c THEN Put(h2, p, "child", after) ELSE h2
           h4 == Put(h3, c, "prev", NULL)
           g == Put(h4, c, "next", NULL)
<1>1. g = cJSON_DetachItemFromArray(h, p, c) BY DEF cJSON_DetachItemFromArray
<1>2. /\ c \in Used(h.items) /\ before \in Used(h.items) \cup {NULL}
      /\ after \in Used(h.items) \cup {NULL} /\ (h.items[p].child = c <=> j = 1)
  BY PlaceFacts
<1>3. Used(h.items) \cup {NULL} \subseteq Pointers /\ NULL \in Pointers
  BY UsedFacts DEF Pointers
<1> HIDE DEF before, after
<1>4. Links(h1, h, before, "next", after) /\ Used(h1.items) = Used(h.items)
  <2>1. Links(h1, h, before, "next", after) BY <1>2, <1>3, PutLinks
  <2> QED BY <2>1 DEF Links, SameButLinks
<1> HIDE DEF h1
<1>5. Links(h2, h1, after, "prev", before) /\ Used(h2.items) = Used(h.items)
  <2>1. h1 \in Heaps BY <1>4 DEF Links
  <2>2. Links(h2, h1, after, "prev", before) BY <1>2, <1>3, <1>4, <2>1, PutLinks
  <2> QED BY <1>4, <2>2 DEF Links, SameButLinks
<1> HIDE DEF h2
<1>6. Links(h3, h2, IF j = 1 THEN p ELSE NULL, "child", after) /\ Used(h3.items) = Used(h.items)
  <2>1. h2 \in Heaps BY <1>5 DEF Links
  <2>2. (IF j = 1 THEN p ELSE NULL) \in Used(h2.items) \cup {NULL} BY <1>5
  <2>3. h3 = Put(h2, IF j = 1 THEN p ELSE NULL, "child", after)
    BY <1>2, UsedFacts DEF Put
  <2>4. Links(Put(h2, IF j = 1 THEN p ELSE NULL, "child", after), h2,
              IF j = 1 THEN p ELSE NULL, "child", after)
    BY <1>2, <1>3, <1>5, <2>1, <2>2, PutLinks
  <2> HIDE DEF h3
  <2>5. Links(h3, h2, IF j = 1 THEN p ELSE NULL, "child", after)
    BY <2>3, <2>4
  <2> QED BY <1>5, <2>5 DEF Links, SameButLinks
<1> HIDE DEF h3
<1>7. Links(h4, h3, c, "prev", NULL) /\ Used(h4.items) = Used(h.items)
  <2>1. h3 \in Heaps BY <1>6 DEF Links
  <2>2. Links(h4, h3, c, "prev", NULL) BY <1>2, <1>3, <1>6, <2>1, PutLinks
  <2> QED BY <1>6, <2>2 DEF Links, SameButLinks
<1> HIDE DEF h4
<1>8. Links(g, h4, c, "next", NULL)
  <2>1. h4 \in Heaps BY <1>7 DEF Links
  <2> QED BY <1>2, <1>3, <1>7, <2>1, PutLinks
<1> HIDE DEF g
<1>9. NULL \notin Used(h.items) BY UsedFacts
<1>10. SameButLinks(g, h) /\ g \in Heaps
  BY <1>4, <1>5, <1>6, <1>7, <1>8 DEF Links, SameButLinks
<1>11. ASSUME NEW q \in Used(h.items)
       PROVE
         /\ g.items[q].next = IF q = c THEN NULL ELSE IF q = before THEN after ELSE h.items[q].next
         /\ g.items[q].prev = IF q = c THEN NULL ELSE IF q = after THEN before ELSE h.items[q].prev
         /\ g.items[q].child = IF q = p /\ j = 1 THEN after ELSE h.items[q].child
  BY <1>4, <1>5, <1>6, <1>7, <1>8, <1>9 DEF Links
<1>12. Detached(g, h, p, j, c, before, after)
  BY <1>10, <1>11 DEF Detached
<1> QED BY <1>1, <1>12 DEF before, after

LEMMA RemoveAtFacts ==
    ASSUME NEW S, NEW s \in Seq(S), NEW j \in 1 .. Len(s)
    PROVE  /\ RemoveAt(s, j) \in Seq(S)
           /\ Len(RemoveAt(s, j)) = Len(s) - 1
           /\ \A i \in 1 .. Len(s) - 1 : RemoveAt(s, j)[i] = IF i < j THEN s[i] ELSE s[i + 1]
<1>1. Len(s) \in Nat /\ j - 1 \in 0 .. Len(s) /\ j + 1 \in 1 .. Len(s) + 1
  OBVIOUS
<1> DEFINE a == SubSeq(s, 1, j - 1)
           b == SubSeq(s, j + 1, Len(s))
<1>2. a \in Seq(S) /\ Len(a) = j - 1 /\ \A i \in 1 .. j - 1 : a[i] = s[i]
  BY <1>1
<1>3. b \in Seq(S) /\ Len(b) = Len(s) - j /\ \A i \in 1 .. Len(s) - j : b[i] = s[j + i]
  BY <1>1
<1>4. RemoveAt(s, j) = a \o b BY DEF RemoveAt
<1> HIDE DEF a, b
<1>5. /\ a \o b \in Seq(S) /\ Len(a \o b) = Len(s) - 1
      /\ \A i \in 1 .. Len(s) - 1 : (a \o b)[i] = IF i <= j - 1 THEN a[i] ELSE b[i - (j - 1)]
  <2>1. /\ a \o b \in Seq(S) /\ Len(a \o b) = Len(a) + Len(b)
        /\ \A i \in 1 .. Len(a) + Len(b) : (a \o b)[i] = IF i <= Len(a) THEN a[i] ELSE b[i - Len(a)]
    BY <1>2, <1>3, ConcatProperties
  <2>2. Len(a) + Len(b) = Len(s) - 1 BY <1>1, <1>2, <1>3
  <2> QED BY <1>2, <2>1, <2>2
<1>6. \A i \in 1 .. Len(s) - 1 : (a \o b)[i] = IF i < j THEN s[i] ELSE s[i + 1]
  <2> TAKE i \in 1 .. Len(s) - 1
  <2>1. CASE i < j BY <1>1, <1>2, <1>5, <2>1
  <2>2. CASE ~(i < j)
    <3>1. i - (j - 1) \in 1 .. Len(s) - j /\ j + (i - (j - 1)) = i + 1 /\ ~(i <= j - 1)
      BY <1>1, <2>2
    <3>2. b[i - (j - 1)] = s[i + 1] BY <1>3, <3>1
    <3> QED BY <1>5, <2>2, <3>1, <3>2
  <2> QED BY <2>1, <2>2
<1> QED BY <1>4, <1>5, <1>6

LEMMA DetachedList ==
    ASSUME NEW h \in Heaps, NEW R, Linked(h, R), NEW p \in Used(h.items),
           NEW s, s = Kids(h)[p], NEW j \in 1 .. Len(s), NEW c, NEW before, NEW after,
           Place(h, p, j, c, before, after), NEW g, Detached(g, h, p, j, c, before, after)
    PROVE  ListIs(g, g.items[p].child, RemoveAt(s, j))
<1> DEFINE t == RemoveAt(s, j)
<1>1. /\ c = s[j]
      /\ before = IF j = 1 THEN NULL ELSE s[j - 1]
      /\ after = IF j = Len(s) THEN NULL ELSE s[j + 1]
  BY DEF Place
<1>2. /\ ListIs(h, h.items[p].child, s) /\ s \in Seq(Used(h.items)) /\ Len(s) \in Nat
      /\ s # <<>>
  BY KidsList
<1>3. /\ h.items[p].child = s[1]
      /\ \A i, k \in 1 .. Len(s) : s[i] = s[k] => i = k
      /\ \A i \in 1 .. Len(s) :
           /\ h.items[s[i]].next = IF i = Len(s) THEN NULL ELSE s[i + 1]
           /\ h.items[s[i]].prev = IF i = 1 THEN NULL ELSE s[i - 1]
      /\ \A i \in 1 .. Len(s) : s[i] \in Used(h.items) /\ s[i] # NULL
  BY <1>2, UsedFacts DEF ListIs
<1>4. /\ Used(g.items) = Used(h.items)
      /\ \A q \in Used(h.items) :
         /\ g.items[q].next = IF q = c THEN NULL ELSE IF q = before THEN after ELSE h.items[q].next
         /\ g.items[q].prev = IF q = c THEN NULL ELSE IF q = after THEN before ELSE h.items[q].prev
         /\ g.items[q].child = IF q = p /\ j = 1 THEN after ELSE h.items[q].child
  BY DEF Detached, SameButLinks
<1>5. /\ t \in Seq(Used(h.items)) /\ Len(t) = Len(s) - 1
      /\ \A i \in 1 .. Len(s) - 1 : t[i] = IF i < j THEN s[i] ELSE s[i + 1]
  BY <1>2, RemoveAtFacts
<1>6. ASSUME NEW i \in 1 .. Len(s), i # j
      PROVE  /\ g.items[s[i]].next = IF i = j - 1 THEN after ELSE IF i = Len(s) THEN NULL ELSE s[i + 1]
             /\ g.items[s[i]].prev = IF i = j + 1 THEN before ELSE IF i = 1 THEN NULL ELSE s[i - 1]
  <2>1. s[i] # c /\ s[i] \in Used(h.items) BY <1>1, <1>3, <1>6
  <2>2. s[i] = before <=> i = j - 1
    <3>1. CASE j = 1 BY <1>1, <1>3, <3>1
    <3>2. CASE j # 1
      <4>1. j - 1 \in 1 .. Len(s) BY <1>2, <3>2
      <4> QED BY <1>1, <1>3, <3>2, <4>1
    <3> QED BY <3>1, <3>2
  <2>3. s[i] = after <=> i = j + 1
    <3>1. CASE j = Len(s) BY <1>1, <1>2, <1>3, <3>1
    <3>2. CASE j # Len(s)
      <4>1. j + 1 \in 1 .. Len(s) BY <1>2, <3>2
      <4> QED BY <1>1, <1>3, <3>2, <4>1
    <3> QED BY <3>1, <3>2
  <2> QED BY <1>3, <1>4, <2>1, <2>2, <2>3
<1> HIDE DEF t
<1>7. \A i, k \in 1 .. Len(t) : t[i] = t[k] => i = k
  <2> TAKE i, k \in 1 .. Len(t)
  <2>1. t[i] = s[IF i < j THEN i ELSE i + 1] /\ t[k] = s[IF k < j THEN k ELSE k + 1]
    BY <1>5
  <2>2. (IF i < j THEN i ELSE i + 1) \in 1 .. Len(s) /\ (IF k < j THEN k ELSE k + 1) \in 1 .. Len(s)
    BY <1>2, <1>5
  <2> QED BY <1>2, <1>3, <1>5, <2>1, <2>2
<1>8. ASSUME NEW i \in 1 .. Len(t)
      PROVE  /\ g.items[t[i]].next = IF i = Len(t) THEN NULL ELSE t[i + 1]
             /\ g.items[t[i]].prev = IF i = 1 THEN NULL ELSE t[i - 1]
  <2>1. CASE i < j
    <3>1. i \in 1 .. Len(s) /\ i # j /\ i # j + 1 /\ t[i] = s[i]
      <4>1. i \in 1 .. Len(s) - 1 BY <1>5
      <4>2. t[i] = s[i] BY <1>5, <2>1, <4>1
      <4>3. i \in 1 .. Len(s) BY <1>2, <4>1
      <4> QED BY <2>1, <4>2, <4>3
    <3>2. g.items[t[i]].next = IF i = j - 1 THEN after ELSE s[i + 1]
      BY <1>2, <1>6, <2>1, <3>1
    <3>3. CASE i = j - 1
      <4>1. i = Len(t) <=> j = Len(s) BY <1>5, <3>3
      <4>2. i # Len(t) => t[i + 1] = s[j + 1]
        <5>1. i # Len(t) => i + 1 \in 1 .. Len(s) - 1 /\ ~(i + 1 < j) /\ i + 1 + 1 = j + 1
          BY <1>2, <1>5, <3>3
        <5> QED BY <1>5, <5>1
      <4> QED BY <1>1, <1>2, <1>5, <1>6, <3>1, <3>2, <3>3, <4>1, <4>2
    <3>4. CASE i # j - 1
      <4>1. i # Len(t) /\ t[i + 1] = s[i + 1] BY <1>2, <1>5, <2>1, <3>4
      <4>2. i # 1 => t[i - 1] = s[i - 1] BY <1>2, <1>5, <2>1
      <4> QED BY <1>6, <3>1, <3>2, <3>4, <4>1, <4>2
    <3>5. i # 1 => t[i - 1] = s[i - 1] BY <1>2, <1>5, <2>1
    <3>6. g.items[t[i]].prev = IF i = 1 THEN NULL ELSE s[i - 1] BY <1>6, <3>1
    <3> QED BY <3>3, <3>4, <3>5, <3>6
  <2>2. CASE ~(i < j)
    <3>1. i + 1 \in 1 .. Len(s) /\ i + 1 # j /\ i + 1 # j - 1 /\ t[i] = s[i + 1] BY <1>2, <1>5, <2>2
    <3>2. /\ g.items[t[i]].next = IF i + 1 = Len(s) THEN NULL ELSE s[i + 1 + 1]
          /\ g.items[t[i]].prev = IF i = j THEN before ELSE s[i]
      BY <1>6, <3>1
    <3>3. (i + 1 = Len(s) <=> i = Len(t)) /\ (i # Len(t) => t[i + 1] = s[i + 1 + 1])
      BY <1>2, <1>5, <2>2
    <3>4. CASE i = j
      <4>1. i # 1 => t[i - 1] = s[i - 1] BY <1>2, <1>5, <3>4
      <4> QED BY <1>1, <3>2, <3>3, <3>4, <4>1
    <3>5. CASE i # j
      <4>1. i # 1 /\ t[i - 1] = s[i]
        <5>1. i - 1 \in 1 .. Len(s) - 1 /\ ~(i - 1 < j) /\ (i - 1) + 1 = i /\ i # 1
          BY <1>2, <1>5, <2>2, <3>5
        <5>2. t[i - 1] = s[(i - 1) + 1] BY <1>5, <5>1
        <5> QED BY <5>1, <5>2
      <4> QED BY <3>2, <3>3, <3>5, <4>1
    <3> QED BY <3>4, <3>5
  <2> QED BY <2>1, <2>2
<1>9. g.items[p].child = IF t = <<>> THEN NULL ELSE t[1]
  <2>1. t = <<>> <=> Len(s) = 1
    <3>1. t \in Seq(Used(h.items)) /\ Len(t) = Len(s) - 1 BY <1>5
    <3>2. t = <<>> <=> Len(t) = 0 BY <3>1, EmptySeq
    <3>3. Len(s) \in Nat BY <1>2
    <3> QED BY <3>1, <3>2, <3>3
  <2>2. g.items[p].child = IF j = 1 THEN after ELSE s[1] BY <1>3, <1>4
  <2>3. CASE Len(s) = 1
    <3>1. j = 1 BY <2>3
    <3> QED BY <1>1, <2>1, <2>2, <2>3, <3>1
  <2>4. CASE Len(s) # 1
    <3>1. 1 \in 1 .. Len(s) - 1
      <4>1. Len(s) \in Nat BY <1>2
      <4>2. Len(s) >= 1 BY <4>1
      <4>3. \A n \in Nat : n >= 1 /\ n # 1 => 1 \in 1 .. n - 1 OBVIOUS
      <4> QED BY <2>4, <4>1, <4>2, <4>3, Zenon
    <3>2. t[1] = IF 1 < j THEN s[1] ELSE s[2] BY <1>5, <3>1
    <3>3. 1 < j <=> j # 1 BY <1>2
    <3>4. j = 1 => after = s[2] BY <1>1, <2>4
    <3> QED BY <2>1, <2>2, <2>4, <3>2, <3>3, <3>4
  <2> QED BY <2>3, <2>4
<1>10. t \in Seq(Used(g.items)) BY <1>4, <1>5
<1>11. ListIs(g, g.items[p].child, t) BY <1>7, <1>8, <1>9, <1>10 DEF ListIs
<1> QED BY <1>11 DEF t

LEMMA DetachedChildren ==
    ASSUME NEW S, NEW s \in Seq(S), \A i, k \in 1 .. Len(s) : s[i] = s[k] => i = k,
           NEW j \in 1 .. Len(s)
    PROVE  {RemoveAt(s, j)[i] : i \in 1 .. Len(RemoveAt(s, j))} = {s[i] : i \in 1 .. Len(s)} \ {s[j]}
<1> DEFINE t == RemoveAt(s, j)
<1>1. /\ Len(t) = Len(s) - 1 /\ Len(s) \in Nat
      /\ \A i \in 1 .. Len(s) - 1 : t[i] = IF i < j THEN s[i] ELSE s[i + 1]
  BY RemoveAtFacts
<1>2. ASSUME NEW i \in 1 .. Len(t)
      PROVE  t[i] \in {s[k] : k \in 1 .. Len(s)} \ {s[j]}
  <2>1. i \in 1 .. Len(s) /\ i + 1 \in 1 .. Len(s) BY <1>1
  <2>2. CASE i < j BY <1>1, <2>1, <2>2
  <2>3. CASE ~(i < j) BY <1>1, <2>1, <2>3
  <2> QED BY <2>2, <2>3
<1>3. ASSUME NEW i \in 1 .. Len(s), i # j
      PROVE  s[i] \in {t[k] : k \in 1 .. Len(t)}
  <2>1. CASE i < j
    <3>1. i \in 1 .. Len(s) - 1 BY <1>1, <2>1
    <3> QED BY <1>1, <2>1, <3>1
  <2>2. CASE ~(i < j)
    <3>1. i - 1 \in 1 .. Len(s) - 1 /\ ~(i - 1 < j) /\ i - 1 + 1 = i BY <1>1, <1>3, <2>2
    <3>2. t[i - 1] = s[i] BY <1>1, <3>1
    <3>3. i - 1 \in 1 .. Len(t) BY <1>1, <3>1
    <3> QED BY <3>2, <3>3
  <2> QED BY <2>1, <2>2
<1> QED BY <1>2, <1>3

Detaches(g, h, R, p, j, c) ==
    /\ g \in Heaps /\ Linked(g, R \cup {c}) /\ SameButLinks(g, h)
    /\ Kids(g) = [Kids(h) EXCEPT ![p] = RemoveAt(Kids(h)[p], j)]
    /\ Owners(g) = Owners(h) /\ c \in Used(h.items) /\ c \notin R

LEMMA DetachedLinks ==
    ASSUME NEW h \in Heaps, NEW R, Linked(h, R), NEW p, Unshared(h, p),
           NEW j \in 1 .. Len(Kids(h)[p]), NEW c, c = Kids(h)[p][j],
           NEW g, g = cJSON_DetachItemFromArray(h, p, c)
    PROVE  Detaches(g, h, R, p, j, c)
<1> DEFINE K == Kids(h)
           before == h.items[c].prev
           after == h.items[c].next
           s == K[p]
           t == RemoveAt(s, j)
           E == {t[i] : i \in 1 .. Len(t)}
           L == [Kids(h) EXCEPT ![p] = t]
<1>1. /\ p \in Owners(h) /\ p \in Used(h.items)
      /\ Children(K, p) \cap R = {} /\ R \subseteq Used(h.items)
      /\ \A r \in R : h.items[r].next = NULL /\ h.items[r].prev = NULL
  BY DEF Linked, LinkedAs, Unshared, Owners
<1>2. /\ Place(h, p, j, c, before, after)
      /\ c \in Used(h.items) /\ c \in Children(K, p)
  BY <1>1, PlaceFacts
<1>3. Detached(g, h, p, j, c, before, after)
  BY <1>1, DetachFacts
<1>4. ListIs(g, g.items[p].child, t)
  BY <1>1, <1>2, <1>3, DetachedList
<1>5. /\ g \in Heaps /\ SameButLinks(g, h) /\ Used(g.items) = Used(h.items)
      /\ \A q \in Used(h.items) :
         /\ g.items[q].ref = h.items[q].ref
         /\ g.items[q].next = IF q = c THEN NULL ELSE IF q = before THEN after ELSE h.items[q].next
         /\ g.items[q].prev = IF q = c THEN NULL ELSE IF q = after THEN before ELSE h.items[q].prev
         /\ g.items[q].child = IF q = p /\ j = 1 THEN after ELSE h.items[q].child
  BY <1>3 DEF Detached, SameButLinks
<1>6. (before \in Children(K, p) \cup {NULL}) /\ (after \in Children(K, p) \cup {NULL})
  <2>1. Len(s) \in Nat BY <1>1, KidsList
  <2>2. /\ before = IF j = 1 THEN NULL ELSE s[j - 1]
        /\ after = IF j = Len(s) THEN NULL ELSE s[j + 1]
    BY <1>2 DEF Place
  <2>3. (j # 1 => j - 1 \in 1 .. Len(s)) /\ (j # Len(s) => j + 1 \in 1 .. Len(s))
    BY <2>1
  <2>4. Children(K, p) = {s[i] : i \in 1 .. Len(s)} BY DEF Children
  <2> HIDE DEF s, before, after
  <2> QED BY <2>2, <2>3, <2>4
<1>7. E = Children(K, p) \ {c}
  <2>1. ListIs(h, h.items[p].child, s) BY <1>1, KidsList
  <2>2. s \in Seq(Used(h.items)) /\ \A i, k \in 1 .. Len(s) : s[i] = s[k] => i = k
    BY <2>1 DEF ListIs
  <2>3. c = s[j] /\ j \in 1 .. Len(s) /\ Children(K, p) = {s[i] : i \in 1 .. Len(s)} BY DEF Children
  <2> HIDE DEF s
  <2>4. {t[i] : i \in 1 .. Len(t)} = {s[i] : i \in 1 .. Len(s)} \ {s[j]}
    <3> DEFINE N == Used(h.items)
    <3>1. s \in Seq(N) BY <2>2
    <3>2. j \in 1 .. Len(s) BY <2>3
    <3>3. \A i, k \in 1 .. Len(s) : s[i] = s[k] => i = k BY <2>2
    <3> HIDE DEF N
    <3> QED BY <3>1, <3>2, <3>3, DetachedChildren
  <2> QED BY <2>3, <2>4
<1>8. Owners(g) = Owners(h) /\ Owners(h) \subseteq Used(h.items) BY <1>5 DEF Owners
<1>9. L[p] = t /\ \A q \in Used(h.items) \ {p} : L[q] = K[q]
  BY <1>1 DEF Kids
<1>10. Children(L, p) = E /\ \A q \in Used(h.items) \ {p} : Children(L, q) = Children(K, q)
  <2> HIDE DEF K, L, t
  <2> QED BY <1>9 DEF Children
<1> HIDE DEF K, L, E, t, s, before, after
<1>11. ASSUME NEW S \in SUBSET Used(h.items), R \cup {c} \subseteq S, Closed(g, L, S)
       PROVE  S = Used(h.items)
  <2>1. \A q \in S \cap Owners(h) : Children(L, q) \subseteq S BY <1>8, <1>11 DEF Closed
  <2>2. Closed(h, K, S)
    BY <1>1, <1>7, <1>8, <1>10, <1>11, <2>1 DEF Closed
  <2> QED BY <1>11, <2>2 DEF Linked, LinkedAs, K
<1>12. Relinks(g, h, R, p, t, R \cup {c})
  <2>1. L = [K EXCEPT ![p] = t] BY DEF L, K
  <2>2. \A S \in SUBSET Used(h.items) :
           R \cup {c} \subseteq S /\ Closed(g, [K EXCEPT ![p] = t], S) => S = Used(h.items)
    BY <1>11, <2>1
  <2>3. \A q \in Used(h.items) : /\ g.items[q].ref = h.items[q].ref
                                 /\ q # p => g.items[q].child = h.items[q].child
    BY <1>5
  <2>4. \A x \in Used(h.items) \ (Children(K, p) \cup R) :
           g.items[x].next = h.items[x].next /\ g.items[x].prev = h.items[x].prev
    BY <1>2, <1>5, <1>6, UsedFacts
  <2>5. \A r \in R \cup {c} : g.items[r].next = NULL /\ g.items[r].prev = NULL
    BY <1>1, <1>2, <1>5, <1>6, UsedFacts
  <2>6. {t[i] : i \in 1 .. Len(t)} \subseteq R \cup Children(K, p)
        /\ R \cup {c} \subseteq (R \cup Children(K, p)) \ {t[i] : i \in 1 .. Len(t)}
    BY <1>1, <1>2, <1>7 DEF E
  <2> QED BY <1>4, <1>5, <2>2, <2>3, <2>4, <2>5, <2>6 DEF Relinks, K
<1>13. Linked(g, R \cup {c}) /\ Kids(g) = [K EXCEPT ![p] = t]
  BY <1>12, Relinked DEF K
<1> QED BY <1>1, <1>2, <1>5, <1>8, <1>13 DEF K, t, s, Detaches

(* cJSON_ReplaceItemInArray before it deletes the item it took out.        *)
Exchange(h, array, c, new) ==
    LET n == h.items[c]
        h1 == Put(Put(h, new, "next", n.next), new, "prev", n.prev)
        h2 == Put(h1, n.next, "prev", new)
        h3 == IF h.items[array].child = c THEN Put(h2, array, "child", new)
                                          ELSE Put(h2, n.prev, "next", new)
    IN Put(Put(h3, c, "next", NULL), c, "prev", NULL)

LEMMA ReplaceIs ==
    ASSUME NEW h, NEW p, NEW c, NEW new
    PROVE  cJSON_ReplaceItemInArray(h, p, c, new) = cJSON_Delete(Exchange(h, p, c, new), c)
BY DEF cJSON_ReplaceItemInArray, Exchange

Exchanged(g, h, p, j, c, new, before, after) ==
    /\ g \in Heaps /\ SameButLinks(g, h)
    /\ \A q \in Used(h.items) :
         /\ g.items[q].next = IF q = c THEN NULL ELSE IF q = new THEN after
                              ELSE IF q = before THEN new ELSE h.items[q].next
         /\ g.items[q].prev = IF q = c THEN NULL ELSE IF q = new THEN before
                              ELSE IF q = after THEN new ELSE h.items[q].prev
         /\ g.items[q].child = IF q = p /\ j = 1 THEN new ELSE h.items[q].child

LEMMA ExchangeFacts ==
    ASSUME NEW h \in Heaps, NEW R, Linked(h, R), NEW p \in Owners(h),
           NEW j \in 1 .. Len(Kids(h)[p]), NEW c, c = Kids(h)[p][j], NEW new \in R
    PROVE  Exchanged(Exchange(h, p, c, new), h, p, j, c, new, h.items[c].prev, h.items[c].next)
<1> DEFINE before == h.items[c].prev
           after == h.items[c].next
           h0 == Put(h, new, "next", after)
           h1 == Put(h0, new, "prev", before)
           h2 == Put(h1, after, "prev", new)
           h3 == IF h.items[p].child = c THEN Put(h2, p, "child", new) ELSE Put(h2, before, "next", new)
           h4 == Put(h3, c, "next", NULL)
           g == Put(h4, c, "prev", NULL)
<1>1. g = Exchange(h, p, c, new) BY DEF Exchange
<1>2. /\ c \in Used(h.items) /\ before \in Used(h.items) \cup {NULL}
      /\ after \in Used(h.items) \cup {NULL} /\ (h.items[p].child = c <=> j = 1)
      /\ p \in Used(h.items)
      /\ Place(h, p, j, c, before, after)
  <2>1. p \in Used(h.items) BY DEF Owners
  <2> QED BY <2>1, PlaceFacts
<1>3. /\ Used(h.items) \cup {NULL} \subseteq Pointers /\ NULL \in Pointers
      /\ NULL \notin Used(h.items) /\ new \in Used(h.items)
  BY UsedFacts DEF Pointers, Linked, LinkedAs
<1>4. new # c /\ new # before /\ new # after /\ (j = 1 => before = NULL)
  <2> DEFINE s == Kids(h)[p]
  <2>1. Children(Kids(h), p) \cap R = {} BY DEF Linked, LinkedAs
  <2>2. Len(s) \in Nat BY <1>2, KidsList
  <2>3. /\ c = s[j] /\ j \in 1 .. Len(s)
        /\ before = IF j = 1 THEN NULL ELSE s[j - 1]
        /\ after = IF j = Len(s) THEN NULL ELSE s[j + 1]
    BY <1>2 DEF Place
  <2>4. (j # 1 => j - 1 \in 1 .. Len(s)) /\ (j # Len(s) => j + 1 \in 1 .. Len(s))
    BY <2>2
  <2>5. Children(Kids(h), p) = {s[i] : i \in 1 .. Len(s)} BY DEF Children
  <2> HIDE DEF s, before, after
  <2>6. c \in Children(Kids(h), p) /\ (j # 1 => before \in Children(Kids(h), p))
        /\ (j # Len(s) => after \in Children(Kids(h), p))
    BY <2>3, <2>4, <2>5
  <2> QED BY <1>3, <2>1, <2>3, <2>6
<1> HIDE DEF before, after
<1>5. Links(h0, h, new, "next", after) /\ Used(h0.items) = Used(h.items)
  <2>1. Links(h0, h, new, "next", after) BY <1>2, <1>3, PutLinks
  <2> QED BY <2>1 DEF Links, SameButLinks
<1> HIDE DEF h0
<1>6. Links(h1, h0, new, "prev", before) /\ Used(h1.items) = Used(h.items)
  <2>1. h0 \in Heaps BY <1>5 DEF Links
  <2>2. Links(h1, h0, new, "prev", before) BY <1>2, <1>3, <1>5, <2>1, PutLinks
  <2> QED BY <1>5, <2>2 DEF Links, SameButLinks
<1> HIDE DEF h1
<1>7. Links(h2, h1, after, "prev", new) /\ Used(h2.items) = Used(h.items)
  <2>1. h1 \in Heaps BY <1>6 DEF Links
  <2>2. Links(h2, h1, after, "prev", new) BY <1>2, <1>3, <1>6, <2>1, PutLinks
  <2> QED BY <1>6, <2>2 DEF Links, SameButLinks
<1> HIDE DEF h2
<1>8. /\ IF j = 1 THEN Links(h3, h2, p, "child", new) ELSE Links(h3, h2, before, "next", new)
      /\ Used(h3.items) = Used(h.items)
  <2>1. h2 \in Heaps BY <1>7 DEF Links
  <2>2. CASE j = 1
    <3>1. h3 = Put(h2, p, "child", new) BY <1>2, <2>2
    <3>2. Links(h3, h2, p, "child", new) BY <1>2, <1>3, <1>7, <2>1, <3>1, PutLinks
    <3> QED BY <1>7, <2>2, <3>2 DEF Links, SameButLinks
  <2>3. CASE j # 1
    <3>1. h3 = Put(h2, before, "next", new) BY <1>2, <2>3
    <3>2. Links(h3, h2, before, "next", new) BY <1>2, <1>3, <1>7, <2>1, <3>1, PutLinks
    <3> QED BY <1>7, <2>3, <3>2 DEF Links, SameButLinks
  <2> QED BY <2>2, <2>3
<1> HIDE DEF h3
<1>9. h3 \in Heaps BY <1>8 DEF Links
<1>10. Links(h4, h3, c, "next", NULL) /\ Used(h4.items) = Used(h.items)
  <2>2. Links(h4, h3, c, "next", NULL) BY <1>2, <1>3, <1>8, <1>9, PutLinks
  <2> QED BY <1>8, <2>2 DEF Links, SameButLinks
<1> HIDE DEF h4
<1>11. Links(g, h4, c, "prev", NULL)
  <2>1. h4 \in Heaps BY <1>10 DEF Links
  <2> QED BY <1>2, <1>3, <1>10, <2>1, PutLinks
<1> HIDE DEF g
<1>12. SameButLinks(g, h) /\ g \in Heaps
  <2>1. SameButLinks(h2, h) BY <1>5, <1>6, <1>7 DEF Links, SameButLinks
  <2>2. SameButLinks(h3, h2) BY <1>8 DEF Links
  <2>3. SameButLinks(g, h3) /\ g \in Heaps BY <1>10, <1>11 DEF Links, SameButLinks
  <2> QED BY <2>1, <2>2, <2>3 DEF SameButLinks
<1>13. ASSUME NEW q \in Used(h.items)
       PROVE  /\ h2.items[q].next = IF q = new THEN after ELSE h.items[q].next
              /\ h2.items[q].prev = IF q = after THEN new ELSE IF q = new THEN before ELSE h.items[q].prev
              /\ h2.items[q].child = h.items[q].child
  BY <1>5, <1>6, <1>7 DEF Links
<1>14. ASSUME NEW q \in Used(h.items)
       PROVE  /\ h3.items[q].next = IF j # 1 /\ q = before THEN new ELSE h2.items[q].next
              /\ h3.items[q].prev = h2.items[q].prev
              /\ h3.items[q].child = IF q = p /\ j = 1 THEN new ELSE h2.items[q].child
  <2>1. q \in Used(h2.items) BY <1>7
  <2> QED BY <1>8, <2>1 DEF Links
<1>15. ASSUME NEW q \in Used(h.items)
       PROVE  /\ g.items[q].next = IF q = c THEN NULL ELSE h3.items[q].next
              /\ g.items[q].prev = IF q = c THEN NULL ELSE h3.items[q].prev
              /\ g.items[q].child = h3.items[q].child
  BY <1>8, <1>10, <1>11 DEF Links
<1>16. \A q \in Used(h.items) :
         /\ g.items[q].next = IF q = c THEN NULL ELSE IF q = new THEN after
                              ELSE IF q = before THEN new ELSE h.items[q].next
         /\ g.items[q].prev = IF q = c THEN NULL ELSE IF q = new THEN before
                              ELSE IF q = after THEN new ELSE h.items[q].prev
         /\ g.items[q].child = IF q = p /\ j = 1 THEN new ELSE h.items[q].child
  BY <1>3, <1>4, <1>13, <1>14, <1>15
<1>17. Exchanged(g, h, p, j, c, new, before, after)
  BY <1>12, <1>16 DEF Exchanged
<1> QED BY <1>1, <1>17 DEF before, after

LEMMA ExchangedList ==
    ASSUME NEW h \in Heaps, NEW R, Linked(h, R), NEW p \in Used(h.items),
           NEW s, s = Kids(h)[p], NEW j \in 1 .. Len(s), NEW c, NEW before, NEW after,
           NEW new \in Used(h.items), \A i \in 1 .. Len(s) : s[i] # new,
           Place(h, p, j, c, before, after), NEW g, Exchanged(g, h, p, j, c, new, before, after)
    PROVE  ListIs(g, g.items[p].child, [s EXCEPT ![j] = new])
<1> DEFINE t == [s EXCEPT ![j] = new]
<1>1. /\ c = s[j]
      /\ before = IF j = 1 THEN NULL ELSE s[j - 1]
      /\ after = IF j = Len(s) THEN NULL ELSE s[j + 1]
  BY DEF Place
<1>2. /\ ListIs(h, h.items[p].child, s) /\ s \in Seq(Used(h.items)) /\ Len(s) \in Nat
      /\ s # <<>>
  BY KidsList
<1>3. /\ h.items[p].child = s[1]
      /\ \A i, k \in 1 .. Len(s) : s[i] = s[k] => i = k
      /\ \A i \in 1 .. Len(s) :
           /\ h.items[s[i]].next = IF i = Len(s) THEN NULL ELSE s[i + 1]
           /\ h.items[s[i]].prev = IF i = 1 THEN NULL ELSE s[i - 1]
      /\ \A i \in 1 .. Len(s) : s[i] \in Used(h.items) /\ s[i] # NULL
  BY <1>2, UsedFacts DEF ListIs
<1>4. /\ Used(g.items) = Used(h.items)
      /\ \A q \in Used(h.items) :
         /\ g.items[q].next = IF q = c THEN NULL ELSE IF q = new THEN after
                              ELSE IF q = before THEN new ELSE h.items[q].next
         /\ g.items[q].prev = IF q = c THEN NULL ELSE IF q = new THEN before
                              ELSE IF q = after THEN new ELSE h.items[q].prev
         /\ g.items[q].child = IF q = p /\ j = 1 THEN new ELSE h.items[q].child
  BY DEF Exchanged, SameButLinks
<1>5. /\ t \in Seq(Used(h.items)) /\ Len(t) = Len(s)
      /\ \A i \in 1 .. Len(s) : t[i] = IF i = j THEN new ELSE s[i]
  BY <1>2
<1> HIDE DEF t
<1>6. ASSUME NEW i \in 1 .. Len(s), i # j
      PROVE  /\ g.items[s[i]].next = IF i = j - 1 THEN new ELSE IF i = Len(s) THEN NULL ELSE s[i + 1]
             /\ g.items[s[i]].prev = IF i = j + 1 THEN new ELSE IF i = 1 THEN NULL ELSE s[i - 1]
  <2>1. s[i] # c /\ s[i] \in Used(h.items) /\ s[i] # new BY <1>1, <1>3, <1>6
  <2>2. s[i] = before <=> i = j - 1
    <3>1. CASE j = 1 BY <1>1, <1>3, <3>1
    <3>2. CASE j # 1
      <4>1. j - 1 \in 1 .. Len(s) BY <1>2, <3>2
      <4> QED BY <1>1, <1>3, <3>2, <4>1
    <3> QED BY <3>1, <3>2
  <2>3. s[i] = after <=> i = j + 1
    <3>1. CASE j = Len(s) BY <1>1, <1>2, <1>3, <3>1
    <3>2. CASE j # Len(s)
      <4>1. j + 1 \in 1 .. Len(s) BY <1>2, <3>2
      <4> QED BY <1>1, <1>3, <3>2, <4>1
    <3> QED BY <3>1, <3>2
  <2>4. /\ g.items[s[i]].next = IF s[i] = before THEN new ELSE h.items[s[i]].next
        /\ g.items[s[i]].prev = IF s[i] = after THEN new ELSE h.items[s[i]].prev
    BY <1>4, <2>1
  <2> QED BY <1>3, <2>2, <2>3, <2>4
<1>7. /\ g.items[new].next = IF j = Len(s) THEN NULL ELSE s[j + 1]
      /\ g.items[new].prev = IF j = 1 THEN NULL ELSE s[j - 1]
  BY <1>1, <1>4
<1>8. \A i, k \in 1 .. Len(t) : t[i] = t[k] => i = k
  BY <1>3, <1>5
<1>9. ASSUME NEW i \in 1 .. Len(t)
      PROVE  /\ g.items[t[i]].next = IF i = Len(t) THEN NULL ELSE t[i + 1]
             /\ g.items[t[i]].prev = IF i = 1 THEN NULL ELSE t[i - 1]
  <2>1. /\ i # Len(s) => i + 1 \in 1 .. Len(s)
        /\ i # 1 => i - 1 \in 1 .. Len(s)
        /\ i \in 1 .. Len(s)
    BY <1>2, <1>5
  <2>2. /\ i # Len(s) => t[i + 1] = IF i + 1 = j THEN new ELSE s[i + 1]
        /\ i # 1 => t[i - 1] = IF i - 1 = j THEN new ELSE s[i - 1]
    BY <1>5, <2>1
  <2>3. CASE i = j BY <1>2, <1>5, <1>7, <2>1, <2>2, <2>3
  <2>4. CASE i # j
    <3>1. t[i] = s[i] BY <1>5, <2>1, <2>4
    <3>2. (i = j - 1 <=> i + 1 = j) /\ (i = j + 1 <=> i - 1 = j) BY <1>2, <2>1
    <3>3. i = j - 1 => i # Len(s) BY <1>2
    <3>4. i = j + 1 => i # 1 BY <1>2
    <3> QED BY <1>5, <1>6, <2>1, <2>2, <2>4, <3>1, <3>2, <3>3, <3>4
  <2> QED BY <2>3, <2>4
<1>10. g.items[p].child = IF t = <<>> THEN NULL ELSE t[1]
  <2>1. 1 \in 1 .. Len(s) /\ t # <<>> BY <1>2, <1>5
  <2>2. t[1] = IF 1 = j THEN new ELSE s[1] BY <1>5, <2>1
  <2> QED BY <1>3, <1>4, <2>1, <2>2
<1>11. t \in Seq(Used(g.items)) BY <1>4, <1>5
<1>12. ListIs(g, g.items[p].child, t) BY <1>8, <1>9, <1>10, <1>11 DEF ListIs
<1> QED BY <1>12 DEF t

Exchanges(g, h, R, p, j, c, new) ==
    /\ g \in Heaps /\ Linked(g, (R \ {new}) \cup {c}) /\ SameButLinks(g, h)
    /\ Kids(g) = [Kids(h) EXCEPT ![p] = [@ EXCEPT ![j] = new]]
    /\ Owners(g) = Owners(h) /\ c \in Used(h.items) /\ c \notin R

(* The item new takes the place of c. D shows that p is not below new.     *)
LEMMA ExchangedLinks ==
    ASSUME NEW h \in Heaps, NEW R, Linked(h, R), NEW p, Unshared(h, p),
           NEW j \in 1 .. Len(Kids(h)[p]), NEW c, c = Kids(h)[p][j], NEW new \in R,
           NEW D, Closed(h, Kids(h), D), new \in D, p \notin D,
           NEW g, g = Exchange(h, p, c, new)
    PROVE  Exchanges(g, h, R, p, j, c, new)
<1> DEFINE K == Kids(h)
           before == h.items[c].prev
           after == h.items[c].next
           s == K[p]
           t == [s EXCEPT ![j] = new]
           E == {t[i] : i \in 1 .. Len(t)}
           L == [Kids(h) EXCEPT ![p] = t]
           Q == (R \ {new}) \cup {c}
<1>1. /\ p \in Owners(h) /\ p \in Used(h.items)
      /\ Children(K, p) \cap R = {} /\ R \subseteq Used(h.items)
      /\ \A r \in R : h.items[r].next = NULL /\ h.items[r].prev = NULL
  BY DEF Linked, LinkedAs, Unshared, Owners
<1>2. /\ Place(h, p, j, c, before, after)
      /\ c \in Used(h.items) /\ c \in Children(K, p)
  BY <1>1, PlaceFacts
<1>3. Exchanged(g, h, p, j, c, new, before, after)
  BY <1>1, ExchangeFacts
<1>14. \A i \in 1 .. Len(s) : s[i] # new
  BY <1>1 DEF Children
<1>4. ListIs(g, g.items[p].child, t)
  BY <1>1, <1>2, <1>3, <1>14, ExchangedList
<1>5. /\ g \in Heaps /\ SameButLinks(g, h) /\ Used(g.items) = Used(h.items)
      /\ \A q \in Used(h.items) :
         /\ g.items[q].ref = h.items[q].ref
         /\ g.items[q].next = IF q = c THEN NULL ELSE IF q = new THEN after
                              ELSE IF q = before THEN new ELSE h.items[q].next
         /\ g.items[q].prev = IF q = c THEN NULL ELSE IF q = new THEN before
                              ELSE IF q = after THEN new ELSE h.items[q].prev
         /\ g.items[q].child = IF q = p /\ j = 1 THEN new ELSE h.items[q].child
  BY <1>3 DEF Exchanged, SameButLinks
<1>15. Children(K, p) = {s[i] : i \in 1 .. Len(s)} BY DEF Children
<1>6. (before \in Children(K, p) \cup {NULL}) /\ (after \in Children(K, p) \cup {NULL})
  <2>1. Len(s) \in Nat BY <1>1, KidsList
  <2>2. /\ before = IF j = 1 THEN NULL ELSE s[j - 1]
        /\ after = IF j = Len(s) THEN NULL ELSE s[j + 1]
    BY <1>2 DEF Place
  <2>3. (j # 1 => j - 1 \in 1 .. Len(s)) /\ (j # Len(s) => j + 1 \in 1 .. Len(s))
    BY <2>1
  <2> HIDE DEF s, before, after
  <2> QED BY <1>15, <2>2, <2>3
<1>7. E = (Children(K, p) \ {c}) \cup {new}
  <2>1. ListIs(h, h.items[p].child, s) BY <1>1, KidsList
  <2>2. s \in Seq(Used(h.items)) /\ \A i, k \in 1 .. Len(s) : s[i] = s[k] => i = k
    BY <2>1 DEF ListIs
  <2>3. c = s[j] /\ j \in 1 .. Len(s) OBVIOUS
  <2> HIDE DEF s
  <2>4. Len(t) = Len(s) /\ \A i \in 1 .. Len(s) : t[i] = IF i = j THEN new ELSE s[i]
    BY <2>2
  <2> HIDE DEF t
  <2> QED BY <1>15, <2>2, <2>3, <2>4
<1>8. Owners(g) = Owners(h) /\ Owners(h) \subseteq Used(h.items) BY <1>5 DEF Owners
<1>9. L[p] = t /\ \A q \in Used(h.items) \ {p} : L[q] = K[q]
  BY <1>1 DEF Kids
<1>10. Children(L, p) = E /\ \A q \in Used(h.items) \ {p} : Children(L, q) = Children(K, q)
  <2> HIDE DEF K, L, t
  <2> QED BY <1>9 DEF Children
<1>16. \A q \in Used(h.items) : Children(K, q) \subseteq Used(h.items) BY KidsList
<1>17. LinkedAs(h, R, K) BY DEF Linked
<1> HIDE DEF K, L, E, t, s, before, after
<1>11. ASSUME NEW S \in SUBSET Used(h.items), Q \subseteq S, Closed(g, L, S)
       PROVE  S = Used(h.items)
  <2>1. \A q \in S \cap Owners(h) : Children(K, q) \subseteq S /\ (q = p => new \in S)
    BY <1>1, <1>7, <1>8, <1>10, <1>11 DEF Closed
  <2> DEFINE V == S \cup (D \cap Used(h.items))
  <2>2. Closed(h, K, V)
    <3>1. \A q \in D \cap Owners(h) : Children(K, q) \subseteq D BY DEF Closed, K
    <3> QED BY <1>8, <1>16, <2>1, <3>1 DEF Closed
  <2>3. R \subseteq V BY <1>1, <1>11
  <2>4. V \in SUBSET Used(h.items) OBVIOUS
  <2>5. V = Used(h.items)
    <3> HIDE DEF V
    <3> QED BY <1>17, <2>2, <2>3, <2>4 DEF LinkedAs
  <2>6. p \in S BY <1>1, <2>5
  <2>7. R \subseteq S BY <1>1, <1>11, <2>1, <2>6
  <2>8. Closed(h, K, S) BY <2>1 DEF Closed
  <2> QED BY <1>17, <2>7, <2>8 DEF LinkedAs
<1>12. Relinks(g, h, R, p, t, Q)
  <2>1. L = [K EXCEPT ![p] = t] BY DEF L, K
  <2>2. \A S \in SUBSET Used(h.items) :
           Q \subseteq S /\ Closed(g, [K EXCEPT ![p] = t], S) => S = Used(h.items)
    BY <1>11, <2>1
  <2>3. \A q \in Used(h.items) : /\ g.items[q].ref = h.items[q].ref
                                 /\ q # p => g.items[q].child = h.items[q].child
    BY <1>5
  <2>4. \A x \in Used(h.items) \ (Children(K, p) \cup R) :
           g.items[x].next = h.items[x].next /\ g.items[x].prev = h.items[x].prev
    BY <1>2, <1>5, <1>6, UsedFacts
  <2>5. \A r \in Q : g.items[r].next = NULL /\ g.items[r].prev = NULL
    BY <1>1, <1>2, <1>5, <1>6, UsedFacts
  <2>6. {t[i] : i \in 1 .. Len(t)} \subseteq R \cup Children(K, p)
        /\ Q \subseteq (R \cup Children(K, p)) \ {t[i] : i \in 1 .. Len(t)}
    BY <1>1, <1>2, <1>7 DEF E
  <2> HIDE DEF Q
  <2> QED BY <1>4, <1>5, <2>2, <2>3, <2>4, <2>5, <2>6 DEF Relinks, K
<1>13. Linked(g, Q) /\ Kids(g) = [K EXCEPT ![p] = t]
  BY <1>12, Relinked DEF K
<1>18. c \notin R BY <1>1, <1>2
<1>19. [K EXCEPT ![p] = t] = [K EXCEPT ![p] = [@ EXCEPT ![j] = new]]
  BY <1>1 DEF K, t, s, Kids
<1> QED BY <1>2, <1>5, <1>8, <1>13, <1>18, <1>19 DEF K, Exchanges

-----------------------------------------------------------------------------
(* Strings. The places that may point at a string of their own; those of a *)
(* reference point at the value of an item that is none.                   *)
Slots(h) == (Used(h.items) \X {"string"}) \cup (Owners(h) \X {"valuestring"})
At(h, s) == h.items[s[1]][s[2]]
Values(h, S) == {h.items[q].valuestring : q \in S}
Borrowers(h) == Used(h.items) \ Owners(h)

(* Every string but those in X is in one slot.                             *)
Held(h, X) ==
    /\ X \subseteq Used(h.texts)
    /\ \A s, t \in Slots(h) : At(h, s) = At(h, t) /\ At(h, s) # NULL => s = t
    /\ Used(h.texts) \ X = {At(h, s) : s \in Slots(h)} \ {NULL}
    /\ Values(h, Borrowers(h)) \subseteq Values(h, Owners(h)) \cup {NULL}

LEMMA SlotFacts ==
    ASSUME NEW h
    PROVE  /\ \A q \in Used(h.items) : <<q, "string">> \in Slots(h) /\ At(h, <<q, "string">>) = h.items[q].string
           /\ \A q \in Owners(h) : /\ <<q, "valuestring">> \in Slots(h)
                                   /\ At(h, <<q, "valuestring">>) = h.items[q].valuestring
           /\ \A s \in Slots(h) : \/ \E q \in Used(h.items) : s = <<q, "string">>
                                  \/ \E q \in Owners(h) : s = <<q, "valuestring">>
BY DEF Slots, At

(* What leaves the strings alone.                                          *)
LEMMA SameHeld ==
    ASSUME NEW h \in Heaps, NEW g \in Heaps, NEW X, Held(h, X),
           Used(g.items) = Used(h.items), Used(g.texts) = Used(h.texts),
           \A q \in Used(h.items) : /\ g.items[q].ref = h.items[q].ref
                                    /\ g.items[q].string = h.items[q].string
                                    /\ g.items[q].valuestring = h.items[q].valuestring
    PROVE  Held(g, X)
<1>1. Owners(g) = Owners(h) /\ Owners(h) \subseteq Used(h.items) /\ Borrowers(g) = Borrowers(h)
  BY DEF Owners, Borrowers
<1>2. Slots(g) = Slots(h) BY <1>1 DEF Slots
<1>3. \A s \in Slots(h) : At(g, s) = At(h, s)
  <2>1. ASSUME NEW q \in Used(h.items) PROVE At(g, <<q, "string">>) = At(h, <<q, "string">>)
    BY DEF At
  <2>2. ASSUME NEW q \in Owners(h) PROVE At(g, <<q, "valuestring">>) = At(h, <<q, "valuestring">>)
    BY <1>1 DEF At
  <2> QED BY <2>1, <2>2, SlotFacts
<1>4. {At(g, s) : s \in Slots(g)} = {At(h, s) : s \in Slots(h)} BY <1>2, <1>3
<1>5. Values(g, Owners(g)) = Values(h, Owners(h)) /\ Values(g, Borrowers(g)) = Values(h, Borrowers(h))
  <2>1. \A q \in Owners(h) \cup Borrowers(h) : g.items[q].valuestring = h.items[q].valuestring
    BY <1>1 DEF Borrowers
  <2> QED BY <1>1, <2>1 DEF Values
<1>6. \A s, t \in Slots(g) : At(g, s) = At(g, t) /\ At(g, s) # NULL => s = t
  BY <1>2, <1>3 DEF Held
<1> QED BY <1>4, <1>5, <1>6 DEF Held

(* The item p changes but for its links: its field f is now t.             *)
Points(g, h, p, f, t) ==
    /\ g \in Heaps /\ Used(g.items) = Used(h.items)
    /\ \A q \in Used(h.items) :
         /\ g.items[q].next = h.items[q].next
         /\ g.items[q].prev = h.items[q].prev
         /\ g.items[q].child = h.items[q].child
         /\ g.items[q].ref = h.items[q].ref
         /\ g.items[q].string = IF q = p /\ f = "string" THEN t ELSE h.items[q].string
         /\ g.items[q].valuestring = IF q = p /\ f = "valuestring" THEN t ELSE h.items[q].valuestring
         /\ q # p => g.items[q] = h.items[q]

LEMMA PutPoints ==
    ASSUME NEW h \in Heaps, NEW p \in Used(h.items), NEW f, NEW t,
           \/ f \in {"string", "valuestring"} /\ t \in Texts \cup {NULL}
           \/ f = "type" /\ t \in ItemTypes
    PROVE  Points(Put(h, p, f, t), h, p, f, t) /\ Put(h, p, f, t).texts = h.texts
<1> DEFINE g == Put(h, p, f, t)
<1>1. /\ g \in Heaps /\ Used(g.items) = Used(h.items) /\ g.texts = h.texts
      /\ g.items[p] = [h.items[p] EXCEPT ![f] = t]
      /\ \A q \in Used(h.items) \ {p} : g.items[q] = h.items[q]
  BY PutFacts
<1>2. h.items[p] \in Item BY UsedFacts
<1> HIDE DEF g
<1>3. /\ g.items[p].next = h.items[p].next
      /\ g.items[p].prev = h.items[p].prev
      /\ g.items[p].child = h.items[p].child
      /\ g.items[p].ref = h.items[p].ref
      /\ g.items[p].string = IF f = "string" THEN t ELSE h.items[p].string
      /\ g.items[p].valuestring = IF f = "valuestring" THEN t ELSE h.items[p].valuestring
  BY <1>1, <1>2 DEF Item
<1>4. Points(g, h, p, f, t) BY <1>1, <1>3 DEF Points
<1> QED BY <1>1, <1>4 DEF g

LEMMA PointedLinks ==
    ASSUME NEW h \in Heaps, NEW R, Linked(h, R), NEW g, NEW p, NEW f, NEW t, Points(g, h, p, f, t)
    PROVE  g \in Heaps /\ Linked(g, R) /\ Kids(g) = Kids(h) /\ Owners(g) = Owners(h)
<1>1. /\ g \in Heaps /\ Used(g.items) = Used(h.items)
      /\ \A q \in Used(h.items) : /\ g.items[q].next = h.items[q].next
                                  /\ g.items[q].prev = h.items[q].prev
                                  /\ g.items[q].child = h.items[q].child
                                  /\ g.items[q].ref = h.items[q].ref
  BY DEF Points
<1> QED BY <1>1, SameLinks

(* A string changes hands: Y are those that are in no slot now.            *)
LEMMA PointedHeld ==
    ASSUME NEW h \in Heaps, NEW X, Held(h, X), NEW g, NEW p \in Used(h.items),
           NEW f \in {"string", "valuestring"}, NEW t, NEW old, Points(g, h, p, f, t), NEW Y,
           old = h.items[p][f],
           f = "valuestring" => p \in Owners(h) /\ old = NULL,
           t \notin (Used(h.texts) \ X) \ {old},
           Y \subseteq Used(g.texts),
           Used(g.texts) \ Y = ((Used(h.texts) \ X) \ {old}) \cup ({t} \ {NULL})
    PROVE  Held(g, Y)
<1> DEFINE z == <<p, f>>
           U == Used(h.items)
           M == Used(h.texts) \ X
<1>0. /\ Used(g.items) = U
      /\ \A q \in U : /\ g.items[q].ref = h.items[q].ref
                      /\ g.items[q].string = IF q = p /\ f = "string" THEN t ELSE h.items[q].string
                      /\ g.items[q].valuestring = IF q = p /\ f = "valuestring" THEN t ELSE h.items[q].valuestring
  BY DEF Points
<1>1. Owners(g) = Owners(h) /\ Owners(h) \subseteq U /\ Borrowers(g) = Borrowers(h)
  BY <1>0 DEF Owners, Borrowers
<1>2. Slots(g) = Slots(h) BY <1>0, <1>1 DEF Slots
<1>3. z \in Slots(h) /\ At(h, z) = old
  BY SlotFacts DEF At, Slots
<1>4. \A s \in Slots(h) : At(g, s) = IF s = z THEN t ELSE At(h, s)
  <2>1. ASSUME NEW q \in U
        PROVE  At(g, <<q, "string">>) = IF <<q, "string">> = z THEN t ELSE At(h, <<q, "string">>)
    BY <1>0, SlotFacts
  <2>2. ASSUME NEW q \in Owners(h)
        PROVE  At(g, <<q, "valuestring">>) = IF <<q, "valuestring">> = z THEN t ELSE At(h, <<q, "valuestring">>)
    BY <1>0, <1>1, SlotFacts
  <2> QED BY <2>1, <2>2, SlotFacts
<1> HIDE DEF z
<1>5. /\ \A s, u \in Slots(h) : At(h, s) = At(h, u) /\ At(h, s) # NULL => s = u
      /\ M = {At(h, s) : s \in Slots(h)} \ {NULL}
  BY DEF Held
<1>6. \A s, u \in Slots(g) : At(g, s) = At(g, u) /\ At(g, s) # NULL => s = u
  <2> SUFFICES ASSUME NEW s \in Slots(h), NEW u \in Slots(h), At(g, s) = At(g, u), At(g, s) # NULL, s # u
               PROVE  FALSE
    BY <1>2
  <2>1. CASE s # z /\ u # z BY <1>4, <1>5, <2>1
  <2>2. \A x \in Slots(h) \ {z} : At(h, x) # NULL => At(h, x) \in M \ {old}
    BY <1>3, <1>5
  <2> HIDE DEF M
  <2>3. t \notin M \ {old} BY DEF M
  <2>4. CASE s = z
    <3>1. u \in Slots(h) \ {z} /\ At(h, u) = t /\ t # NULL BY <1>4, <2>4
    <3> QED BY <2>2, <2>3, <3>1
  <2>5. CASE u = z
    <3>1. s \in Slots(h) \ {z} /\ At(h, s) = t /\ t # NULL BY <1>4, <2>5
    <3> QED BY <2>2, <2>3, <3>1
  <2> QED BY <2>1, <2>4, <2>5
<1>7. (M \ {old}) \cup ({t} \ {NULL}) = {At(g, s) : s \in Slots(g)} \ {NULL}
  <2>1. ASSUME NEW x \in M \ {old} PROVE x \in {At(g, s) : s \in Slots(g)} \ {NULL}
    <3>1. PICK s \in Slots(h) : At(h, s) = x /\ x # NULL BY <1>5
    <3>2. s # z BY <1>3, <3>1
    <3> QED BY <1>2, <1>4, <3>1, <3>2
  <2>2. t # NULL => t \in {At(g, s) : s \in Slots(g)} \ {NULL}
    BY <1>2, <1>3, <1>4
  <2>3. ASSUME NEW s \in Slots(h), At(g, s) # NULL, At(g, s) # t
        PROVE  At(g, s) \in M \ {old}
    <3>1. s # z /\ At(g, s) = At(h, s) BY <1>4, <2>3
    <3>2. At(h, s) \in M BY <1>5, <2>3, <3>1
    <3>3. At(h, s) # old BY <1>3, <1>5, <2>3, <3>1
    <3> QED BY <3>1, <3>2, <3>3
  <2> HIDE DEF M
  <2> QED BY <1>2, <2>1, <2>2, <2>3
<1>8. Values(g, Borrowers(g)) \subseteq Values(g, Owners(g)) \cup {NULL}
  <2> SUFFICES ASSUME NEW r \in Borrowers(h), g.items[r].valuestring # NULL
               PROVE  \E q \in Owners(h) : g.items[q].valuestring = g.items[r].valuestring
    BY <1>1 DEF Values
  <2>1. r \in U /\ r \notin Owners(h) BY DEF Borrowers
  <2>2. g.items[r].valuestring = h.items[r].valuestring BY <1>0, <2>1
  <2>3. h.items[r].valuestring \in Values(h, Owners(h))
    <3>1. h.items[r].valuestring \in Values(h, Borrowers(h)) BY DEF Values
    <3>2. h.items[r].valuestring # NULL BY <2>2
    <3> QED BY <3>1, <3>2 DEF Held
  <2>4. PICK q \in Owners(h) : h.items[q].valuestring = h.items[r].valuestring BY <2>3 DEF Values
  <2>5. g.items[q].valuestring = h.items[q].valuestring
    <3>1. CASE q = p /\ f = "valuestring"
      <4>1. h.items[q].valuestring = NULL BY <3>1
      <4> QED BY <2>2, <2>4, <4>1
    <3>2. CASE ~(q = p /\ f = "valuestring") BY <1>0, <1>1, <3>2
    <3> QED BY <3>1, <3>2
  <2> QED BY <2>2, <2>4, <2>5
<1> QED BY <1>6, <1>7, <1>8 DEF Held

(* A new item has no string of its own; a reference may have another's.    *)
LEMMA AddedHeld ==
    ASSUME NEW h \in Heaps, NEW g \in Heaps, NEW X, Held(h, X),
           NEW a \in Items \ Used(h.items), Used(g.items) = Used(h.items) \cup {a},
           \A q \in Used(h.items) : g.items[q] = h.items[q],
           Used(g.texts) = Used(h.texts), g.items[a].string = NULL,
           \/ g.items[a].valuestring = NULL
           \/ g.items[a].ref /\ g.items[a].valuestring \in Values(h, Used(h.items))
    PROVE  Held(g, X)
<1> DEFINE U == Used(h.items)
<1>1. /\ Owners(h) \subseteq Owners(g) /\ Owners(g) \subseteq Owners(h) \cup {a}
      /\ Owners(h) \subseteq U /\ Borrowers(g) \subseteq Borrowers(h) \cup {a}
      /\ (a \in Owners(g) => ~ g.items[a].ref)
  BY DEF Owners, Borrowers
<1>2. \A s \in Slots(h) : s \in Slots(g) /\ At(g, s) = At(h, s)
  <2>1. ASSUME NEW q \in U PROVE <<q, "string">> \in Slots(g) /\ At(g, <<q, "string">>) = At(h, <<q, "string">>)
    BY DEF At, Slots
  <2>2. ASSUME NEW q \in Owners(h)
        PROVE  <<q, "valuestring">> \in Slots(g) /\ At(g, <<q, "valuestring">>) = At(h, <<q, "valuestring">>)
    BY <1>1 DEF At, Slots
  <2> QED BY <2>1, <2>2, SlotFacts
<1>3. \A s \in Slots(g) : s \in Slots(h) \/ At(g, s) = NULL
  <2>1. ASSUME NEW q \in U \cup {a} PROVE <<q, "string">> \in Slots(h) \/ At(g, <<q, "string">>) = NULL
    BY DEF At, Slots
  <2>2. ASSUME NEW q \in Owners(g)
        PROVE  <<q, "valuestring">> \in Slots(h) \/ At(g, <<q, "valuestring">>) = NULL
    BY <1>1 DEF At, Slots
  <2> QED BY <2>1, <2>2, SlotFacts
<1>4. \A s, t \in Slots(g) : At(g, s) = At(g, t) /\ At(g, s) # NULL => s = t
  BY <1>2, <1>3 DEF Held
<1>5. {At(g, s) : s \in Slots(g)} \ {NULL} = {At(h, s) : s \in Slots(h)} \ {NULL}
  BY <1>2, <1>3
<1>6. Values(g, Borrowers(g)) \subseteq Values(g, Owners(g)) \cup {NULL}
  <2>1. Values(h, Owners(h)) \subseteq Values(g, Owners(g))
    BY <1>1 DEF Values
  <2>2. Values(h, U) \subseteq Values(h, Owners(h)) \cup {NULL}
    BY DEF Held, Values, Borrowers
  <2> SUFFICES ASSUME NEW r \in Borrowers(g) PROVE g.items[r].valuestring \in Values(g, Owners(g)) \cup {NULL}
    BY DEF Values
  <2>3. CASE r = a BY <2>1, <2>2, <2>3
  <2>4. CASE r # a
    <3>1. g.items[r].valuestring \in Values(h, U) BY <1>1, <2>4 DEF Values, Borrowers
    <3> QED BY <2>1, <2>2, <3>1
  <2> QED BY <2>3, <2>4
<1> QED BY <1>4, <1>5, <1>6 DEF Held

(* What stays of the strings after a tree is deleted, if no reference      *)
(* borrows a value that is freed.                                          *)
LEMMA DeletedHeld ==
    ASSUME NEW h \in Heaps, NEW X, Held(h, X), NEW G \in SUBSET Used(h.items),
           Values(h, Borrowers(h) \ G) \cap Values(h, Owners(h) \cap G) \subseteq {NULL},
           NEW g, Deletes(g, h, G)
    PROVE  Held(g, X)
<1> DEFINE U == Used(h.items)
           freed == {h.items[a].string : a \in G} \cup {h.items[a].valuestring : a \in G \cap Owners(h)}
<1>1. /\ g \in Heaps /\ Used(g.items) = U \ G
      /\ \A a \in U \ G : g.items[a] = h.items[a]
      /\ g.texts = Drop(h.texts, freed)
  BY DEF Deletes
<1>2. Owners(g) = Owners(h) \ G /\ Owners(h) \subseteq U /\ Borrowers(g) = Borrowers(h) \ G
  BY <1>1 DEF Owners, Borrowers
<1>3. \A s \in Slots(g) : s \in Slots(h) /\ At(g, s) = At(h, s) /\ s[1] \notin G
  <2>1. ASSUME NEW q \in U \ G
        PROVE  /\ <<q, "string">> \in Slots(h) /\ At(g, <<q, "string">>) = At(h, <<q, "string">>)
               /\ <<q, "string">>[1] \notin G
    BY <1>1 DEF At, Slots
  <2>2. ASSUME NEW q \in Owners(h) \ G
        PROVE  /\ <<q, "valuestring">> \in Slots(h) /\ At(g, <<q, "valuestring">>) = At(h, <<q, "valuestring">>)
               /\ <<q, "valuestring">>[1] \notin G
    BY <1>1, <1>2 DEF At, Slots
  <2> QED BY <1>1, <1>2, <2>1, <2>2, SlotFacts
<1>4. \A s \in Slots(h) : IF s[1] \in G THEN At(h, s) \in freed ELSE s \in Slots(g)
  <2>1. ASSUME NEW q \in U
        PROVE  IF <<q, "string">>[1] \in G THEN At(h, <<q, "string">>) \in freed ELSE <<q, "string">> \in Slots(g)
    BY <1>1, <1>2 DEF At, Slots
  <2>2. ASSUME NEW q \in Owners(h)
        PROVE  IF <<q, "valuestring">>[1] \in G THEN At(h, <<q, "valuestring">>) \in freed
               ELSE <<q, "valuestring">> \in Slots(g)
    BY <1>1, <1>2 DEF At, Slots
  <2> QED BY <2>1, <2>2, SlotFacts
<1>5. \A x \in freed : \E s \in Slots(h) : s[1] \in G /\ At(h, s) = x
  <2>1. ASSUME NEW a \in G PROVE \E s \in Slots(h) : s[1] \in G /\ At(h, s) = h.items[a].string
    <3>1. <<a, "string">> \in Slots(h) /\ At(h, <<a, "string">>) = h.items[a].string BY SlotFacts
    <3>2. <<a, "string">>[1] \in G OBVIOUS
    <3> QED BY <3>1, <3>2
  <2>2. ASSUME NEW a \in G \cap Owners(h)
        PROVE \E s \in Slots(h) : s[1] \in G /\ At(h, s) = h.items[a].valuestring
    <3>1. <<a, "valuestring">> \in Slots(h) /\ At(h, <<a, "valuestring">>) = h.items[a].valuestring BY SlotFacts
    <3>2. <<a, "valuestring">>[1] \in G OBVIOUS
    <3> QED BY <3>1, <3>2
  <2> QED BY <2>1, <2>2
<1> HIDE DEF freed
<1>6. Used(g.texts) = Used(h.texts) \ freed
  BY <1>1, CJsonAssumption DEF Used, Drop, Heaps
<1>7. /\ X \subseteq Used(h.texts)
      /\ \A s, t \in Slots(h) : At(h, s) = At(h, t) /\ At(h, s) # NULL => s = t
      /\ Used(h.texts) \ X = {At(h, s) : s \in Slots(h)} \ {NULL}
  BY DEF Held
<1>8. X \cap freed = {} /\ X \subseteq Used(g.texts)
  <2>1. NULL \notin Used(h.texts) BY UsedFacts
  <2> QED BY <1>5, <1>6, <1>7, <2>1
<1>9. Used(g.texts) \ X = {At(g, s) : s \in Slots(g)} \ {NULL}
  <2>1. ASSUME NEW x \in Used(g.texts) \ X PROVE x \in {At(g, s) : s \in Slots(g)} \ {NULL}
    <3>1. x \in Used(h.texts) \ X /\ x \notin freed BY <1>6
    <3>2. PICK s \in Slots(h) : At(h, s) = x /\ x # NULL BY <1>7, <3>1
    <3> QED BY <1>3, <1>4, <3>1, <3>2
  <2>2. ASSUME NEW s \in Slots(g), At(g, s) # NULL PROVE At(g, s) \in Used(g.texts) \ X
    <3>1. s \in Slots(h) /\ At(g, s) = At(h, s) /\ s[1] \notin G BY <1>3
    <3>2. At(h, s) \in Used(h.texts) \ X BY <1>7, <2>2, <3>1
    <3>3. At(h, s) \notin freed BY <1>5, <1>7, <2>2, <3>1
    <3> QED BY <1>6, <3>1, <3>2, <3>3
  <2> QED BY <2>1, <2>2
<1>10. \A s, t \in Slots(g) : At(g, s) = At(g, t) /\ At(g, s) # NULL => s = t
  BY <1>3, <1>7
<1>11. Values(g, Borrowers(g)) \subseteq Values(g, Owners(g)) \cup {NULL}
  <2> SUFFICES ASSUME NEW r \in Borrowers(h) \ G, h.items[r].valuestring # NULL
               PROVE  h.items[r].valuestring \in Values(g, Owners(g))
    BY <1>1, <1>2 DEF Values, Borrowers
  <2>1. h.items[r].valuestring \in Values(h, Borrowers(h) \ G) BY DEF Values
  <2>2. h.items[r].valuestring \in Values(h, Owners(h)) BY DEF Held, Values
  <2>3. PICK q \in Owners(h) : h.items[q].valuestring = h.items[r].valuestring BY <2>2 DEF Values
  <2>4. q \notin G
    <3> SUFFICES ASSUME q \in G PROVE FALSE OBVIOUS
    <3>1. h.items[r].valuestring \in Values(h, Owners(h) \cap G) BY <2>3 DEF Values
    <3> QED BY <2>1, <3>1
  <2> QED BY <1>1, <1>2, <2>3, <2>4 DEF Values
<1> QED BY <1>8, <1>9, <1>10, <1>11 DEF Held

-----------------------------------------------------------------------------
(* What malloc gives.                                                      *)
LEMMA UnusedFacts ==
    ASSUME NEW h, NEW f
    PROVE  Unused(h, f) = NULL \/ Unused(h, f) \in DOMAIN f \ Used(f)
<1> DEFINE free == {a \in DOMAIN f \ Used(f) : h.room > 0 \/ a \notin Spare}
<1>1. CASE free = {} \/ Full(h)
  <2>1. Unused(h, f) = NULL BY <1>1 DEF Unused
  <2> QED BY <2>1
<1>2. CASE ~(free = {} \/ Full(h))
  <2>1. Unused(h, f) = CHOOSE a \in free : TRUE BY <1>2 DEF Unused
  <2>2. Unused(h, f) \in free BY <1>2, <2>1
  <2> QED BY <2>2
<1> QED BY <1>1, <1>2

LEMMA NewItemFacts ==
    ASSUME NEW h \in Heaps, NEW n, n = cJSON_New_Item(h)
    PROVE  \/ n.p = NULL /\ n.h = h
           \/ /\ n.p \in Items \ Used(h.items) /\ n.p # NULL
              /\ n.h \in Heaps /\ n.h.texts = h.texts
              /\ Used(n.h.items) = Used(h.items) \cup {n.p}
              /\ n.h.items[n.p] = Blank
              /\ \A q \in Used(h.items) : n.h.items[q] = h.items[q]
<1> DEFINE a == Unused(h, h.items)
<1>1. n.p = a /\ n.h = IF a = NULL THEN h ELSE [h EXCEPT !.items[a] = Blank]
  BY DEF cJSON_New_Item
<1>2. DOMAIN h.items = Items /\ Blank \in Item
  BY DEF Heaps, Item, Blank, Pointers, ItemTypes
<1>3. a = NULL \/ a \in Items \ Used(h.items)
  BY <1>2, UnusedFacts
<1> HIDE DEF a
<1>4. CASE a = NULL BY <1>1, <1>4
<1>5. CASE a # NULL
  <2> DEFINE g == n.h
  <2>1. g = [h EXCEPT !.items = [h.items EXCEPT ![a] = Blank]] BY <1>1, <1>5 DEF Heaps
  <2>2. g.items = [h.items EXCEPT ![a] = Blank] /\ g.texts = h.texts BY <2>1 DEF Heaps
  <2>3. [h.items EXCEPT ![a] = Blank] \in [Items -> Item \cup {NULL}] BY <1>2 DEF Heaps
  <2>4. g \in Heaps BY <2>1, <2>3 DEF Heaps
  <2>5. \A q \in Items : g.items[q] = IF q = a THEN Blank ELSE h.items[q]
    BY <1>2, <2>2
  <2>6. Blank # NULL BY <1>2, CJsonAssumption
  <2> HIDE DEF g
  <2>7. Used(g.items) = Used(h.items) \cup {a} /\ \A q \in Used(h.items) : g.items[q] = h.items[q]
    BY <1>3, <1>5, <2>4, <2>5, <2>6, UsedFacts
  <2> QED BY <1>1, <1>3, <1>5, <2>2, <2>4, <2>5, <2>7 DEF g
<1> QED BY <1>4, <1>5

LEMMA StrdupFacts ==
    ASSUME NEW h \in Heaps, NEW t \in Names, NEW s, s = cJSON_strdup(h, t)
    PROVE  /\ s.h \in Heaps /\ s.h.items = h.items
           /\ s.p \notin Used(h.texts) /\ s.p \in Texts \cup {NULL}
           /\ Used(s.h.texts) = Used(h.texts) \cup ({s.p} \ {NULL})
<1> DEFINE a == Unused(h, h.texts)
<1>1. s.p = a /\ s.h = IF a = NULL THEN h ELSE [h EXCEPT !.texts[a] = t]
  BY DEF cJSON_strdup
<1>2. DOMAIN h.texts = Texts BY DEF Heaps
<1>3. a = NULL \/ a \in Texts \ Used(h.texts)
  BY <1>2, UnusedFacts
<1> HIDE DEF a
<1>4. CASE a = NULL BY <1>1, <1>4, UsedFacts
<1>5. CASE a # NULL
  <2> DEFINE g == s.h
  <2>1. g = [h EXCEPT !.texts = [h.texts EXCEPT ![a] = t]] BY <1>1, <1>5 DEF Heaps
  <2>2. g.texts = [h.texts EXCEPT ![a] = t] /\ g.items = h.items BY <2>1 DEF Heaps
  <2>3. [h.texts EXCEPT ![a] = t] \in [Texts -> Names \cup {NULL}] BY DEF Heaps
  <2>4. g \in Heaps BY <2>1, <2>3 DEF Heaps
  <2>5. \A q \in Texts : g.texts[q] = IF q = a THEN t ELSE h.texts[q]
    BY <1>2, <2>2
  <2>6. t # NULL BY CJsonAssumption
  <2> HIDE DEF g
  <2>7. Used(g.texts) = Used(h.texts) \cup {a}
    BY <1>3, <1>5, <2>4, <2>5, <2>6, UsedFacts
  <2> QED BY <1>1, <1>3, <1>5, <2>2, <2>4, <2>7 DEF g
<1> QED BY <1>4, <1>5

-----------------------------------------------------------------------------
(* A heap whose trees have the roots R and whose strings are in one slot   *)
(* each, but for those in X.                                               *)
Shape(h, R, X) == h \in Heaps /\ Linked(h, R) /\ Held(h, X)

(* Nothing outside B is a reference or leads into B, and nothing in B leads *)
(* out of it: what a call makes is outside what was there before.          *)
Apart(h, B) ==
    /\ B \subseteq Used(h.items)
    /\ \A a \in Used(h.items) \ B : ~h.items[a].ref /\ Children(Kids(h), a) \cap B = {}
    /\ \A b \in B : Children(Kids(h), b) \subseteq B
    /\ Values(h, Borrowers(h)) \subseteq Values(h, Owners(h) \cap B) \cup {NULL}

Building(h, R, X, B) == Shape(h, R, X) /\ Apart(h, B)
Keeps(g, h, B) == \A b \in B : g.items[b] = h.items[b]

LEMMA ApartFacts ==
    ASSUME NEW h, NEW B, Apart(h, B)
    PROVE  Borrowers(h) \subseteq B /\ Used(h.items) \ B \subseteq Owners(h)
BY DEF Apart, Borrowers, Owners

LEMMA WholeApart ==
    ASSUME NEW h, NEW R, NEW X, Shape(h, R, X)
    PROVE  Building(h, R, X, Used(h.items))
<1>1. h \in Heaps /\ Linked(h, R) /\ Held(h, X) BY DEF Shape
<1>2. \A b \in Used(h.items) : Children(Kids(h), b) \subseteq Used(h.items) BY <1>1, KidsList
<1>3. Owners(h) \cap Used(h.items) = Owners(h) BY DEF Owners
<1>4. Values(h, Borrowers(h)) \subseteq Values(h, Owners(h)) \cup {NULL} BY <1>1 DEF Held
<1> QED BY <1>2, <1>3, <1>4 DEF Building, Apart

(* A call that changes no item.                                            *)
LEMMA SameShape ==
    ASSUME NEW h, NEW R, NEW X, Shape(h, R, X), NEW g \in Heaps, g.items = h.items,
           Used(g.texts) = Used(h.texts)
    PROVE  Shape(g, R, X) /\ Kids(g) = Kids(h) /\ Owners(g) = Owners(h)
<1>1. h \in Heaps /\ Linked(h, R) /\ Held(h, X) BY DEF Shape
<1>2. Linked(g, R) /\ Kids(g) = Kids(h) /\ Owners(g) = Owners(h)
  BY <1>1, SameLinks
<1>3. Held(g, X) BY <1>1, SameHeld
<1> QED BY <1>2, <1>3 DEF Shape

LEMMA SameBuilding ==
    ASSUME NEW h, NEW R, NEW X, NEW B, Building(h, R, X, B), NEW g \in Heaps, g.items = h.items,
           Used(g.texts) = Used(h.texts)
    PROVE  /\ Building(g, R, X, B) /\ Kids(g) = Kids(h) /\ Owners(g) = Owners(h)
           /\ Keeps(g, h, B)
<1>1. Shape(g, R, X) /\ Kids(g) = Kids(h) /\ Owners(g) = Owners(h)
  BY SameShape DEF Building
<1>2. Borrowers(g) = Borrowers(h) /\ \A S : Values(g, S) = Values(h, S)
  BY <1>1 DEF Borrowers, Values
<1>3. Apart(g, B) BY <1>1, <1>2 DEF Building, Apart
<1> QED BY <1>1, <1>3 DEF Building, Keeps

(* The heap g is h with the new item a, which has no children.             *)
Extends(g, h, R, X, B, a) ==
    /\ B \subseteq Used(h.items) /\ a \in Items /\ a \notin Used(h.items)
    /\ Used(g.items) = Used(h.items) \cup {a}
    /\ Building(g, R \cup {a}, X, B) /\ Keeps(g, h, Used(h.items))
    /\ Kids(g) = [p \in Used(g.items) |-> IF p = a THEN <<>> ELSE Kids(h)[p]]
    /\ ~g.items[a].ref

(* A new item that is no reference.                                        *)
LEMMA NewExtends ==
    ASSUME NEW h, NEW R, NEW X, NEW B, Building(h, R, X, B),
           NEW n, n = cJSON_New_Item(h), n.p # NULL
    PROVE  Extends(n.h, h, R, X, B, n.p) /\ n.h.items[n.p] = Blank
<1>0. h \in Heaps /\ Linked(h, R) /\ Held(h, X) /\ Apart(h, B) BY DEF Building, Shape
<1>1. /\ n.p \in Items \ Used(h.items)
      /\ n.h \in Heaps /\ n.h.texts = h.texts
      /\ Used(n.h.items) = Used(h.items) \cup {n.p}
      /\ n.h.items[n.p] = Blank
      /\ \A q \in Used(h.items) : n.h.items[q] = h.items[q]
  BY <1>0, NewItemFacts
<1> DEFINE a == n.p
           g == n.h
<1> HIDE DEF a, g
<1>2. /\ a \in Items \ Used(h.items) /\ g \in Heaps /\ g.texts = h.texts
      /\ Used(g.items) = Used(h.items) \cup {a}
      /\ \A q \in Used(h.items) : g.items[q] = h.items[q]
      /\ g.items[a].next = NULL /\ g.items[a].prev = NULL /\ g.items[a].child = NULL
      /\ g.items[a].string = NULL /\ g.items[a].valuestring = NULL /\ ~g.items[a].ref
  BY <1>1 DEF a, g, Blank
<1>3. Linked(g, R \cup {a}) /\ Kids(g) = [p \in Used(g.items) |-> IF p = a THEN <<>> ELSE Kids(h)[p]]
  <2> DEFINE s == <<>>
  <2>1. s = <<>> /\ g.items[a].child = NULL BY <1>2
  <2> HIDE DEF s
  <2>2. Linked(g, R \cup {a}) /\ Kids(g) = [p \in Used(g.items) |-> IF p = a THEN s ELSE Kids(h)[p]]
    <3>1. Brings(g, h, a, s) BY <2>1 DEF Brings
    <3> QED BY <1>0, <1>2, <3>1, AddedLinks
  <2> QED BY <2>1, <2>2
<1>4. Held(g, X) BY <1>0, <1>2, AddedHeld
<1>5. /\ Children(Kids(g), a) = {}
      /\ \A p \in Used(h.items) : Children(Kids(g), p) = Children(Kids(h), p)
  <2> DEFINE K == Kids(h)
             L == Kids(g)
  <2>1. L[a] = <<>> /\ \A p \in Used(h.items) : L[p] = K[p] BY <1>2, <1>3
  <2> HIDE DEF K, L
  <2>2. /\ Children(L, a) = {}
        /\ \A p \in Used(h.items) : Children(L, p) = Children(K, p)
    BY <2>1 DEF Children
  <2> QED BY <2>2 DEF K, L
<1>6. Borrowers(g) = Borrowers(h) /\ Borrowers(h) \subseteq Used(h.items) /\ Owners(h) \subseteq Owners(g)
      /\ Owners(h) \subseteq Used(h.items)
  BY <1>2 DEF Borrowers, Owners
<1>7. Values(g, Borrowers(g)) \subseteq Values(g, Owners(g) \cap B) \cup {NULL}
  <2>1. Values(g, Borrowers(g)) = Values(h, Borrowers(h)) BY <1>2, <1>6 DEF Values
  <2>2. Values(h, Owners(h) \cap B) \subseteq Values(g, Owners(g) \cap B) BY <1>2, <1>6 DEF Values
  <2> QED BY <1>0, <2>1, <2>2 DEF Apart
<1>8. Apart(g, B)
  BY <1>0, <1>2, <1>5, <1>7 DEF Apart
<1>9. Building(g, R \cup {a}, X, B) BY <1>2, <1>3, <1>4, <1>8 DEF Building, Shape
<1> QED BY <1>0, <1>1, <1>2, <1>3, <1>9 DEF a, g, Keeps, Extends, Apart

(* A field of an item outside B.                                           *)
LEMMA PointedApart ==
    ASSUME NEW h, NEW R, NEW X, NEW B, Building(h, R, X, B), NEW p \in Used(h.items) \ B,
           NEW g, NEW f, NEW t, Points(g, h, p, f, t)
    PROVE  /\ g \in Heaps /\ Linked(g, R) /\ Apart(g, B) /\ Keeps(g, h, B)
           /\ Kids(g) = Kids(h) /\ Owners(g) = Owners(h)
<1>0. h \in Heaps /\ Linked(h, R) /\ Apart(h, B) BY DEF Building, Shape
<1>1. g \in Heaps /\ Linked(g, R) /\ Kids(g) = Kids(h) /\ Owners(g) = Owners(h)
  BY <1>0, PointedLinks
<1>2. /\ Used(g.items) = Used(h.items)
      /\ \A q \in Used(h.items) : q # p => g.items[q] = h.items[q]
      /\ \A q \in Used(h.items) : g.items[q].ref = h.items[q].ref
  BY DEF Points
<1>3. Keeps(g, h, B) BY <1>0, <1>2 DEF Keeps, Apart
<1>4. Borrowers(g) = Borrowers(h) /\ Borrowers(h) \subseteq B BY <1>0, <1>1, <1>2, ApartFacts DEF Borrowers
<1>5. Values(g, Borrowers(g)) = Values(h, Borrowers(h)) /\ Values(g, Owners(g) \cap B) = Values(h, Owners(h) \cap B)
  BY <1>1, <1>3, <1>4 DEF Values, Keeps
<1>6. Apart(g, B) BY <1>0, <1>1, <1>2, <1>5 DEF Apart
<1> QED BY <1>1, <1>3, <1>6

LEMMA TypedBuilding ==
    ASSUME NEW h, NEW R, NEW X, NEW B, Building(h, R, X, B), NEW p \in Used(h.items) \ B,
           NEW t \in ItemTypes, NEW g, g = Put(h, p, "type", t)
    PROVE  /\ Building(g, R, X, B) /\ Points(g, h, p, "type", t) /\ Keeps(g, h, B)
           /\ Kids(g) = Kids(h) /\ Owners(g) = Owners(h) /\ g.texts = h.texts
<1>0. h \in Heaps /\ Held(h, X) BY DEF Building, Shape
<1>1. Points(g, h, p, "type", t) /\ g.texts = h.texts BY <1>0, PutPoints
<1>2. /\ g \in Heaps /\ Linked(g, R) /\ Apart(g, B) /\ Keeps(g, h, B)
      /\ Kids(g) = Kids(h) /\ Owners(g) = Owners(h)
  BY <1>1, PointedApart
<1>3. /\ Used(g.items) = Used(h.items) /\ Used(g.texts) = Used(h.texts)
      /\ \A q \in Used(h.items) : /\ g.items[q].ref = h.items[q].ref
                                  /\ g.items[q].string = h.items[q].string
                                  /\ g.items[q].valuestring = h.items[q].valuestring
  BY <1>1 DEF Points
<1>4. Held(g, X) BY <1>0, <1>2, <1>3, SameHeld
<1> QED BY <1>1, <1>2, <1>4 DEF Building, Shape

(* A string that was copied, or the null pointer if it was not.            *)
Copied(s, h) ==
    /\ s.h \in Heaps /\ s.h.items = h.items
    /\ s.p \notin Used(h.texts) /\ s.p \in Texts \cup {NULL}
    /\ Used(s.h.texts) = Used(h.texts) \cup ({s.p} \ {NULL})

(* It becomes the name or the value of an item that had none.              *)
LEMMA GivenString ==
    ASSUME NEW h, NEW R, NEW X, NEW B, Building(h, R, X, B), NEW p \in Used(h.items) \ B,
           NEW s, Copied(s, h), NEW f \in {"string", "valuestring"}, h.items[p][f] = NULL,
           NEW g, Points(g, h, p, f, s.p), Used(g.texts) = Used(s.h.texts)
    PROVE  /\ Building(g, R, X, B) /\ Keeps(g, h, B)
           /\ Kids(g) = Kids(h) /\ Owners(g) = Owners(h)
<1>0. h \in Heaps /\ Held(h, X) /\ p \in Owners(h) BY ApartFacts DEF Building, Shape
<1>1. /\ g \in Heaps /\ Linked(g, R) /\ Apart(g, B) /\ Keeps(g, h, B)
      /\ Kids(g) = Kids(h) /\ Owners(g) = Owners(h)
  BY PointedApart
<1> DEFINE t == s.p
<1>2. t \notin Used(h.texts) /\ Used(g.texts) = Used(h.texts) \cup ({t} \ {NULL}) BY DEF Copied
<1>3. X \subseteq Used(h.texts) /\ NULL \notin Used(h.texts) BY <1>0, UsedFacts DEF Held
<1>4. Points(g, h, p, f, t) OBVIOUS
<1> HIDE DEF t
<1>5. /\ X \subseteq Used(g.texts) /\ t \notin (Used(h.texts) \ X) \ {NULL}
      /\ Used(g.texts) \ X = ((Used(h.texts) \ X) \ {NULL}) \cup ({t} \ {NULL})
  BY <1>2, <1>3
<1>6. Held(g, X)
  BY <1>0, <1>4, <1>5, PointedHeld
<1> QED BY <1>1, <1>6 DEF Building, Shape

(* What is deleted is outside B.                                           *)
LEMMA DeletedBuilding ==
    ASSUME NEW h, NEW R, NEW X, NEW B, Building(h, R, X, B), NEW c \in R \ B,
           NEW g, g = cJSON_Delete(h, c)
    PROVE  Building(g, R \ {c}, X, B) /\ Keeps(g, h, B)
<1>0. h \in Heaps /\ Linked(h, R) /\ Held(h, X) /\ Apart(h, B) BY DEF Building, Shape
<1>1. PICK G : Owns(h, c, G) /\ Deletes(g, h, G) BY <1>0, DeleteFacts
<1>2. /\ B \subseteq Used(h.items)
      /\ \A a \in Used(h.items) \ B : ~h.items[a].ref /\ Children(Kids(h), a) \cap B = {}
      /\ \A b \in B : Children(Kids(h), b) \subseteq B
      /\ Values(h, Borrowers(h)) \subseteq Values(h, Owners(h) \cap B) \cup {NULL}
      /\ Borrowers(h) \subseteq B
  BY <1>0, ApartFacts DEF Apart
<1>3. G \subseteq Used(h.items) \ B
  <2> DEFINE S == Used(h.items) \ B
  <2>1. \A a \in S : Children(Kids(h), a) \subseteq Used(h.items) BY <1>0, KidsList
  <2>2. Closed(h, Kids(h), S) BY <1>2, <2>1 DEF Closed
  <2>3. c \in S BY <1>0 DEF Linked, LinkedAs
  <2> QED BY <1>1, <2>2, <2>3 DEF Owns
<1>4. \A r \in Used(h.items) \ (Owners(h) \cup G) : h.items[r].child \notin G
  <2> TAKE r \in Used(h.items) \ (Owners(h) \cup G)
  <2>1. r \in B BY <1>2 DEF Borrowers
  <2>2. h.items[r].child = NULL \/ h.items[r].child \in Children(Kids(h), r)
    <3> DEFINE s == Kids(h)[r]
    <3>1. /\ s = <<>> <=> h.items[r].child = NULL
          /\ s = <<>> <=> Len(s) = 0
          /\ s # <<>> => h.items[r].child = s[1]
          /\ Len(s) \in Nat
      BY <1>0, KidsList
    <3>2. Children(Kids(h), r) = {s[j] : j \in 1 .. Len(s)} BY DEF Children
    <3> HIDE DEF s
    <3> QED BY <3>1, <3>2
  <2> QED BY <1>0, <1>2, <1>3, <2>1, <2>2, UsedFacts
<1>5. /\ Linked(g, R \ {c})
      /\ Kids(g) = [p \in Used(g.items) |-> Kids(h)[p]]
      /\ Owners(g) = Owners(h) \ G
  <2>1. c \in R OBVIOUS
  <2>2. Leaves(g, h, R \ {c}, G) BY <1>0, <1>1, <1>4, <2>1, DeletedLinks
  <2> QED BY <2>2 DEF Leaves
<1>6. Values(h, Borrowers(h) \ G) \cap Values(h, Owners(h) \cap G) \subseteq {NULL}
  <2> SUFFICES ASSUME NEW r \in Borrowers(h), NEW a \in Owners(h) \cap G,
                      h.items[r].valuestring = h.items[a].valuestring, h.items[r].valuestring # NULL
               PROVE  FALSE
    BY DEF Values
  <2>1. PICK q \in Owners(h) \cap B : h.items[q].valuestring = h.items[r].valuestring
    BY <1>2 DEF Values
  <2>2. <<q, "valuestring">> = <<a, "valuestring">>
    <3>1. /\ <<q, "valuestring">> \in Slots(h) /\ At(h, <<q, "valuestring">>) = h.items[q].valuestring
          /\ <<a, "valuestring">> \in Slots(h) /\ At(h, <<a, "valuestring">>) = h.items[a].valuestring
      BY SlotFacts
    <3>2. \A s, t \in Slots(h) : At(h, s) = At(h, t) /\ At(h, s) # NULL => s = t
      BY <1>0 DEF Held
    <3> QED BY <2>1, <3>1, <3>2
  <2>3. q = a BY <2>2
  <2> QED BY <1>3, <2>3
<1>7. Held(g, X)
  <2>1. G \in SUBSET Used(h.items) BY <1>3
  <2> QED BY <1>0, <1>1, <1>6, <2>1, DeletedHeld
<1>8. /\ g \in Heaps /\ Used(g.items) = Used(h.items) \ G
      /\ \A a \in Used(h.items) \ G : g.items[a] = h.items[a]
  BY <1>1 DEF Deletes
<1>9. Keeps(g, h, B) BY <1>2, <1>3, <1>8 DEF Keeps
<1>10. \A p \in Used(g.items) : Children(Kids(g), p) = Children(Kids(h), p)
  <2> DEFINE K == Kids(h)
             L == Kids(g)
  <2>1. \A p \in Used(g.items) : L[p] = K[p] BY <1>5
  <2> HIDE DEF K, L
  <2>2. \A p \in Used(g.items) : Children(L, p) = Children(K, p) BY <2>1 DEF Children
  <2> QED BY <2>2 DEF K, L
<1>11. Values(g, Borrowers(g)) \subseteq Values(g, Owners(g) \cap B) \cup {NULL}
  <2>1. Borrowers(g) = Borrowers(h) /\ Owners(g) \cap B = Owners(h) \cap B
    BY <1>2, <1>3, <1>5, <1>8 DEF Borrowers
  <2>2. \A b \in B : g.items[b] = h.items[b] BY <1>9 DEF Keeps
  <2>3. Values(g, Borrowers(g)) = Values(h, Borrowers(h))
        /\ Values(g, Owners(g) \cap B) = Values(h, Owners(h) \cap B)
    BY <1>2, <2>1, <2>2 DEF Values
  <2> QED BY <1>2, <2>3
<1>12. Apart(g, B) BY <1>2, <1>3, <1>8, <1>10, <1>11 DEF Apart
<1> QED BY <1>5, <1>7, <1>8, <1>9, <1>12 DEF Building, Shape

(* If every root is in B, so is everything.                                *)
LEMMA NothingLeft ==
    ASSUME NEW h, NEW R, NEW X, NEW B, Building(h, R, X, B), R \subseteq B
    PROVE  Used(h.items) = B
<1>1. Linked(h, R) /\ Apart(h, B) BY DEF Building, Shape
<1>2. B \in SUBSET Used(h.items) /\ Closed(h, Kids(h), B) BY <1>1 DEF Apart, Closed
<1> QED BY <1>1, <1>2 DEF Linked, LinkedAs

(* What B keeps, it keeps with its children.                               *)
LEMMA KeepsKids ==
    ASSUME NEW h, NEW R, NEW X, NEW B, Building(h, R, X, B),
           NEW g \in Heaps, B \subseteq Used(g.items), Keeps(g, h, B)
    PROVE  \A b \in B : Kids(g)[b] = Kids(h)[b] /\ Children(Kids(g), b) = Children(Kids(h), b)
<1>0. h \in Heaps /\ Linked(h, R) /\ Apart(h, B) BY DEF Building, Shape
<1> SUFFICES ASSUME NEW b \in B PROVE Kids(g)[b] = Kids(h)[b]
  BY DEF Children
<1> DEFINE s == Kids(h)[b]
<1>1. b \in Used(h.items) /\ Children(Kids(h), b) \subseteq B BY <1>0 DEF Apart
<1>2. ListIs(h, h.items[b].child, s) BY <1>0, <1>1, KidsList
<1>3. \A j \in 1 .. Len(s) : s[j] \in B BY <1>1 DEF Children
<1> HIDE DEF s
<1>4. ListIs(g, h.items[b].child, s)
  <2>1. \A j \in 1 .. Len(s) : /\ s[j] \in Used(g.items)
                               /\ g.items[s[j]].next = h.items[s[j]].next
                               /\ g.items[s[j]].prev = h.items[s[j]].prev
    BY <1>3 DEF Keeps
  <2> QED BY <1>0, <1>2, <2>1, ListStays
<1>5. Chain(g, g.items[b].child) = s
  <2>1. g.items[b] = h.items[b] BY DEF Keeps
  <2> QED BY <1>4, <2>1, ChainIs
<1> QED BY <1>5 DEF Kids, ChildrenOf, s

(* The children of what is outside B are shared with no reference.         *)
LEMMA ApartUnshared ==
    ASSUME NEW h, NEW R, NEW X, NEW B, Building(h, R, X, B), NEW p \in Used(h.items) \ B
    PROVE  Unshared(h, p) /\ h.items[p].child \notin B
<1>0. h \in Heaps /\ Linked(h, R) /\ Apart(h, B) BY DEF Building, Shape
<1>1. \A q \in Used(h.items) : h.items[q].child = NULL \/ h.items[q].child \in Children(Kids(h), q)
  <2> TAKE q \in Used(h.items)
  <2> DEFINE s == Kids(h)[q]
  <2>1. /\ s = <<>> <=> h.items[q].child = NULL
        /\ s = <<>> <=> Len(s) = 0
        /\ s # <<>> => h.items[q].child = s[1]
        /\ Len(s) \in Nat
    BY <1>0, KidsList
  <2>2. Children(Kids(h), q) = {s[j] : j \in 1 .. Len(s)} BY DEF Children
  <2> HIDE DEF s
  <2> QED BY <2>1, <2>2
<1>2. h.items[p].child = NULL \/ h.items[p].child \notin B BY <1>0, <1>1 DEF Apart
<1>3. \A r \in Used(h.items) \ Owners(h) : h.items[r].child = NULL \/ h.items[r].child \in B
  BY <1>0, <1>1 DEF Apart, Owners
<1>4. NULL \notin B BY <1>0, UsedFacts DEF Apart
<1> QED BY <1>0, <1>2, <1>3, <1>4, ApartFacts DEF Unshared

(* An item outside B becomes the last child of another.                    *)
AppendsApart(g, h, Q, X, B, p, item) ==
    /\ Building(g, Q, X, B) /\ Keeps(g, h, B) /\ SameButLinks(g, h)
    /\ Kids(g) = [Kids(h) EXCEPT ![p] = Append(Kids(h)[p], item)]
    /\ Owners(g) = Owners(h)

LEMMA AppendedBuilding ==
    ASSUME NEW h, NEW R, NEW X, NEW B, Building(h, R, X, B), NEW p \in Used(h.items) \ B,
           NEW item \in R \ B, NEW D, Closed(h, Kids(h), D), item \in D, p \notin D,
           NEW g, g = Behind(h, p, item)
    PROVE  AppendsApart(g, h, R \ {item}, X, B, p, item)
<1>0. h \in Heaps /\ Linked(h, R) /\ Held(h, X) /\ Apart(h, B) BY DEF Building, Shape
<1>1. Unshared(h, p) /\ p \in Owners(h) /\ item \in Used(h.items)
  BY <1>0, ApartUnshared, ApartFacts DEF Linked, LinkedAs
<1>2. /\ g \in Heaps /\ Linked(g, R \ {item}) /\ SameButLinks(g, h)
      /\ Kids(g) = [Kids(h) EXCEPT ![p] = Append(Kids(h)[p], item)]
      /\ Owners(g) = Owners(h)
  <2>1. item \in R OBVIOUS
  <2>2. Appends(g, h, R \ {item}, p, item) BY <1>0, <1>1, <2>1, Appended
  <2> QED BY <2>2 DEF Appends
<1>3. Held(g, X) BY <1>0, <1>2, SameHeld DEF SameButLinks
<1>4. PutBehind(g, h, R, p, item) BY <1>0, <1>1, BehindFacts
<1>5. /\ B \subseteq Used(h.items)
      /\ \A a \in Used(h.items) \ B : ~h.items[a].ref /\ Children(Kids(h), a) \cap B = {}
      /\ \A b \in B : Children(Kids(h), b) \subseteq B
      /\ Values(h, Borrowers(h)) \subseteq Values(h, Owners(h) \cap B) \cup {NULL}
  BY <1>0 DEF Apart
<1>6. Keeps(g, h, B) BY <1>4, <1>5 DEF Keeps, PutBehind
<1>7. /\ \A q \in Used(h.items) \ {p} : Children(Kids(g), q) = Children(Kids(h), q)
      /\ Children(Kids(g), p) = Children(Kids(h), p) \cup {item}
  <2> DEFINE K == Kids(h)
             L == Kids(g)
             s == K[p]
  <2>1. L[p] = Append(s, item) /\ \A q \in Used(h.items) \ {p} : L[q] = K[q]
    BY <1>2 DEF Kids
  <2>2. s \in Seq(Used(h.items)) BY <1>0, KidsList
  <2>3. Children(K, p) = {s[j] : j \in 1 .. Len(s)} BY DEF Children
  <2>4. Children(L, p) = {L[p][j] : j \in 1 .. Len(L[p])} BY DEF Children
  <2> HIDE DEF K, L, s
  <2>5. \A q \in Used(h.items) \ {p} : Children(L, q) = Children(K, q) BY <2>1 DEF Children
  <2>6. Children(L, p) = Children(K, p) \cup {item}
    <3>1. /\ Len(Append(s, item)) = Len(s) + 1 /\ Len(s) \in Nat
          /\ Append(s, item)[Len(s) + 1] = item
          /\ \A j \in 1 .. Len(s) : Append(s, item)[j] = s[j]
      BY <1>1, <2>2
    <3>2. Children(L, p) = {Append(s, item)[j] : j \in 1 .. Len(s) + 1} BY <2>1, <2>4, <3>1
    <3> QED BY <2>3, <3>1, <3>2
  <2> QED BY <2>5, <2>6 DEF K, L
<1>8. Values(g, Borrowers(g)) \subseteq Values(g, Owners(g) \cap B) \cup {NULL}
  <2>1. Used(g.items) = Used(h.items) /\ \A q \in Used(h.items) : g.items[q].valuestring = h.items[q].valuestring
    BY <1>2 DEF SameButLinks
  <2>2. Borrowers(g) = Borrowers(h) /\ Borrowers(h) \subseteq Used(h.items) BY <1>2, <2>1 DEF Borrowers
  <2>3. Values(g, Borrowers(g)) = Values(h, Borrowers(h))
        /\ Values(g, Owners(g) \cap B) = Values(h, Owners(h) \cap B)
    BY <1>2, <1>5, <2>1, <2>2 DEF Values
  <2> QED BY <1>5, <2>3
<1>9. Apart(g, B)
  <2>1. Used(g.items) = Used(h.items) /\ \A q \in Used(h.items) : g.items[q].ref = h.items[q].ref
    BY <1>2 DEF SameButLinks
  <2>2. \A a \in Used(h.items) \ B : Children(Kids(g), a) \cap B = {}
    BY <1>5, <1>7
  <2>3. \A b \in B : Children(Kids(g), b) \subseteq B
    BY <1>5, <1>7
  <2> QED BY <1>5, <1>8, <2>1, <2>2, <2>3 DEF Apart
<1> QED BY <1>2, <1>3, <1>6, <1>9 DEF Building, Shape, AppendsApart

-----------------------------------------------------------------------------
LEMMA ExtendsTyped ==
    ASSUME NEW g, NEW h, NEW R, NEW X, NEW B, NEW a, Extends(g, h, R, X, B, a),
           NEW t \in ItemTypes, NEW k, k = Put(g, a, "type", t)
    PROVE  /\ Extends(k, h, R, X, B, a)
           /\ k.items[a].string = g.items[a].string
           /\ k.items[a].valuestring = g.items[a].valuestring
<1>1. a \in Used(g.items) \ B /\ Building(g, R \cup {a}, X, B) BY DEF Extends
<1>2. /\ Building(k, R \cup {a}, X, B) /\ Points(k, g, a, "type", t)
      /\ Kids(k) = Kids(g)
  BY <1>1, TypedBuilding
<1>3. /\ Used(k.items) = Used(g.items)
      /\ k.items[a].string = g.items[a].string
      /\ k.items[a].valuestring = g.items[a].valuestring
      /\ k.items[a].ref = g.items[a].ref
      /\ \A q \in Used(g.items) : q # a => k.items[q] = g.items[q]
  BY <1>1, <1>2 DEF Points
<1>4. Keeps(k, h, Used(h.items)) BY <1>3 DEF Extends, Keeps
<1> QED BY <1>2, <1>3, <1>4 DEF Extends

LEMMA ExtendsGiven ==
    ASSUME NEW g, NEW h, NEW R, NEW X, NEW B, NEW a, Extends(g, h, R, X, B, a),
           NEW s, Copied(s, g), NEW f \in {"string", "valuestring"}, g.items[a][f] = NULL,
           NEW k, k = Put(s.h, a, f, s.p)
    PROVE  /\ Extends(k, h, R, X, B, a)
           /\ k.items[a].string = IF f = "string" THEN s.p ELSE g.items[a].string
           /\ k.items[a].valuestring = IF f = "valuestring" THEN s.p ELSE g.items[a].valuestring
<1>1. a \in Used(g.items) \ B /\ Building(g, R \cup {a}, X, B) /\ a \in Used(g.items) BY DEF Extends
<1>2. s.h \in Heaps /\ s.h.items = g.items /\ s.p \in Texts \cup {NULL}
  BY DEF Copied
<1>3. Points(k, s.h, a, f, s.p) /\ k.texts = s.h.texts
  <2>1. a \in Used(s.h.items) BY <1>1, <1>2
  <2> QED BY <1>2, <2>1, PutPoints
<1>4. Points(k, g, a, f, s.p) BY <1>2, <1>3 DEF Points
<1>5. Building(k, R \cup {a}, X, B) /\ Kids(k) = Kids(g)
  <2>1. Used(k.texts) = Used(s.h.texts) BY <1>3
  <2> QED BY <1>1, <1>4, <2>1, GivenString
<1>6. /\ Used(k.items) = Used(g.items)
      /\ k.items[a].string = IF f = "string" THEN s.p ELSE g.items[a].string
      /\ k.items[a].valuestring = IF f = "valuestring" THEN s.p ELSE g.items[a].valuestring
      /\ k.items[a].ref = g.items[a].ref
      /\ \A q \in Used(g.items) : q # a => k.items[q] = g.items[q]
  BY <1>1, <1>4 DEF Points
<1>7. Keeps(k, h, Used(h.items)) BY <1>6 DEF Extends, Keeps
<1> QED BY <1>5, <1>6, <1>7 DEF Extends

LEMMA StrdupCopied ==
    ASSUME NEW h \in Heaps, NEW t \in Names
    PROVE  Copied(cJSON_strdup(h, t), h)
BY StrdupFacts DEF Copied

LEMMA CreateFacts ==
    ASSUME NEW h, NEW R, NEW X, NEW B, Building(h, R, X, B), NEW type \in ItemTypes,
           NEW r, r = CreateItem(h, type)
    PROVE  (r.p = NULL /\ r.h = h) \/ (r.p # NULL /\ Extends(r.h, h, R, X, B, r.p))
<1> DEFINE n == cJSON_New_Item(h)
           s == cJSON_strdup(n.h, Value)
<1>0. h \in Heaps BY DEF Building, Shape
<1>1. CASE n.p = NULL
  <2>1. r = n BY <1>1 DEF CreateItem
  <2>2. n.h = h
    <3> DEFINE m == n
    <3> HIDE DEF m
    <3>1. m = cJSON_New_Item(h) /\ m.p = NULL BY <1>1 DEF m
    <3>2. NULL \notin Items BY CJsonAssumption
    <3>3. m.h = h BY <1>0, <3>1, <3>2, NewItemFacts
    <3> QED BY <3>3 DEF m
  <2> QED BY <1>1, <2>1, <2>2
<1>2. CASE n.p # NULL
  <2>1. Extends(n.h, h, R, X, B, n.p) /\ n.h.items[n.p] = Blank BY <1>2, NewExtends
  <2>2. n = [h |-> n.h, p |-> n.p] BY DEF cJSON_New_Item
  <2>3. n.h \in Heaps /\ n.p \in Items /\ n.p \in Used(n.h.items)
    BY <2>1 DEF Extends, Building, Shape
  <2> HIDE DEF n
  <2> DEFINE k == Put(n.h, n.p, "type", type)
  <2>4. /\ Extends(k, h, R, X, B, n.p)
        /\ k.items[n.p].valuestring = NULL
    <3>1. Extends(k, h, R, X, B, n.p) /\ k.items[n.p].valuestring = n.h.items[n.p].valuestring
      BY <2>1, ExtendsTyped
    <3> HIDE DEF k
    <3> QED BY <2>1, <3>1 DEF Blank
  <2>5. CASE type # "cJSON_String"
    <3>1. r = [n EXCEPT !.h.items[n.p].type = type] BY <1>2, <2>5 DEF CreateItem, n
    <3>2. r.h = k /\ r.p = n.p BY <1>2, <2>2, <3>1 DEF Put
    <3> QED BY <1>2, <2>4, <3>2
  <2>6. CASE type = "cJSON_String"
    <3>1. r.h = [s.h EXCEPT !.items[n.p].type = type, !.items[n.p].valuestring = s.p] /\ r.p = n.p
      BY <1>2, <2>6 DEF CreateItem, n
    <3>2. Copied(s, n.h)
      <4>1. Value \in Names BY DEF Names
      <4> QED BY <2>3, <4>1, StrdupCopied
    <3> DEFINE z == [h |-> Put(s.h, n.p, "type", type), p |-> s.p]
    <3>3. /\ z.h = Put(s.h, n.p, "type", type) /\ z.p = s.p OBVIOUS
    <3> HIDE DEF s, z
    <3>4. /\ s.h \in Heaps /\ s.h.items = n.h.items /\ s.p \in Texts \cup {NULL}
          /\ Used(s.h.texts) = Used(n.h.texts) \cup ({s.p} \ {NULL})
          /\ s.p \notin Used(n.h.texts)
      BY <3>2 DEF Copied
    <3>5. r.h = Put(z.h, n.p, "valuestring", z.p)
      BY <1>2, <2>3, <3>1, <3>3, <3>4 DEF Put, Heaps
    <3>6. z.h \in Heaps /\ z.h.texts = s.h.texts
      <4>1. n.p \in Used(s.h.items) /\ s.h \in Heaps BY <2>3, <3>4
      <4>2. Points(z.h, s.h, n.p, "type", type) /\ z.h.texts = s.h.texts BY <3>3, <4>1, PutPoints
      <4> QED BY <4>2 DEF Points
    <3>7. k.texts = n.h.texts BY <2>3, PutPoints
    <3>8. z.h.items = k.items BY <1>2, <2>3, <3>3, <3>4 DEF Put, Heaps
    <3> HIDE DEF k
    <3>9. Copied(z, k) BY <3>3, <3>4, <3>6, <3>7, <3>8 DEF Copied
    <3>10. k.items[n.p]["valuestring"] = NULL BY <2>4
    <3>11. Extends(r.h, h, R, X, B, n.p) BY <2>4, <3>5, <3>9, <3>10, ExtendsGiven
    <3> QED BY <1>2, <3>1, <3>11
  <2> QED BY <2>5, <2>6
<1> QED BY <1>1, <1>2

-----------------------------------------------------------------------------
(* Copies.                                                                 *)
LEMMA TextsThere ==
    ASSUME NEW h \in Heaps, NEW X, Held(h, X), NEW q \in Used(h.items)
    PROVE  /\ h.items[q].string # NULL => h.texts[h.items[q].string] \in Names
           /\ h.items[q].valuestring # NULL => h.texts[h.items[q].valuestring] \in Names
<1>1. \A s \in Slots(h) : At(h, s) # NULL => At(h, s) \in Used(h.texts)
  BY DEF Held
<1>2. h.items[q].string # NULL => h.items[q].string \in Used(h.texts)
  BY <1>1, SlotFacts
<1>3. h.items[q].valuestring # NULL => h.items[q].valuestring \in Used(h.texts)
  <2>1. ASSUME h.items[q].valuestring # NULL
        PROVE  \E o \in Owners(h) : h.items[o].valuestring = h.items[q].valuestring
    <3>1. CASE q \in Owners(h) BY <3>1
    <3>2. CASE q \notin Owners(h)
      <4>1. h.items[q].valuestring \in Values(h, Borrowers(h)) BY <3>2 DEF Values, Borrowers
      <4>2. h.items[q].valuestring \in Values(h, Owners(h)) BY <2>1, <4>1 DEF Held
      <4> QED BY <4>2 DEF Values
    <3> QED BY <3>1, <3>2
  <2> QED BY <1>1, <2>1, SlotFacts
<1> QED BY <1>2, <1>3, UsedFacts

LEMMA ChildThere ==
    ASSUME NEW h \in Heaps, NEW R, Linked(h, R), NEW q \in Used(h.items)
    PROVE  h.items[q].child = NULL \/ h.items[q].child \in Children(Kids(h), q)
<1> DEFINE s == Kids(h)[q]
<1>1. /\ s = <<>> <=> h.items[q].child = NULL
      /\ s = <<>> <=> Len(s) = 0
      /\ s # <<>> => h.items[q].child = s[1]
      /\ Len(s) \in Nat
  BY KidsList
<1>2. Children(Kids(h), q) = {s[j] : j \in 1 .. Len(s)} BY DEF Children
<1> HIDE DEF s
<1> QED BY <1>1, <1>2

(* An item is a root or one of the children of an owner.                   *)
LEMMA EveryOwner ==
    ASSUME NEW h \in Heaps, NEW R, Linked(h, R), NEW x \in Used(h.items)
    PROVE  x \in R \/ \E q \in Owners(h) : x \in Children(Kids(h), q)
<1> DEFINE S == {y \in Used(h.items) : y \in R \/ \E q \in Owners(h) : y \in Children(Kids(h), q)}
<1>1. \A q \in Owners(h) : Children(Kids(h), q) \subseteq Used(h.items)
  BY KidsList DEF Owners
<1>2. Closed(h, Kids(h), S) BY <1>1 DEF Closed
<1>3. R \subseteq S /\ S \in SUBSET Used(h.items) BY DEF Linked, LinkedAs
<1>4. S = Used(h.items)
  <2> HIDE DEF S
  <2> QED BY <1>2, <1>3 DEF Linked, LinkedAs
<1> QED BY <1>4

(* What comes behind an item of B is in B.                                 *)
LEMMA NextApart ==
    ASSUME NEW h, NEW R, NEW X, NEW B, Building(h, R, X, B), NEW c \in B
    PROVE  h.items[c].next = NULL \/ h.items[c].next \in B
<1>0. h \in Heaps /\ Linked(h, R) /\ Apart(h, B) BY DEF Building, Shape
<1>1. c \in Used(h.items) BY <1>0 DEF Apart
<1>2. CASE c \in R BY <1>0, <1>2 DEF Linked, LinkedAs
<1>3. ASSUME NEW q \in Owners(h), c \in Children(Kids(h), q)
      PROVE  h.items[c].next = NULL \/ h.items[c].next \in B
  <2>1. q \in Used(h.items) BY DEF Owners
  <2>2. h.items[c].next = NULL \/ h.items[c].next \in Children(Kids(h), q)
    BY <1>0, <1>3, <2>1, NextInList
  <2>3. q \in B BY <1>0, <1>3, <2>1 DEF Apart
  <2> QED BY <1>0, <2>2, <2>3 DEF Apart
<1> QED BY <1>0, <1>1, <1>2, <1>3, EveryOwner

(* What was made after h is apart from what was apart in h.                *)
LEMMA ApartBefore ==
    ASSUME NEW h, NEW R, NEW X, NEW B, Building(h, R, X, B),
           NEW g, NEW Q, NEW Y, Building(g, Q, Y, Used(h.items)), Keeps(g, h, Used(h.items))
    PROVE  Building(g, Q, Y, B) /\ Keeps(g, h, B)
<1> DEFINE U == Used(h.items)
<1>0. h \in Heaps /\ Linked(h, R) /\ Held(h, X) /\ g \in Heaps /\ Linked(g, Q) BY DEF Building, Shape
<1>1. /\ B \subseteq U
      /\ \A a \in U \ B : ~h.items[a].ref /\ Children(Kids(h), a) \cap B = {}
      /\ \A b \in B : Children(Kids(h), b) \subseteq B
      /\ Values(h, Borrowers(h)) \subseteq Values(h, Owners(h) \cap B) \cup {NULL}
      /\ Borrowers(h) \subseteq B
  BY ApartFacts DEF Building, Apart
<1>2. /\ U \subseteq Used(g.items)
      /\ \A a \in Used(g.items) \ U : ~g.items[a].ref /\ Children(Kids(g), a) \cap U = {}
      /\ Borrowers(g) \subseteq U
  BY ApartFacts DEF Building, Apart
<1>3. \A q \in U : g.items[q] = h.items[q] BY DEF Keeps
<1>4. \A q \in U : Children(Kids(g), q) = Children(Kids(h), q)
  <2>1. Building(h, R, X, U) BY WholeApart DEF Building
  <2> QED BY <1>0, <1>2, <2>1, KeepsKids
<1>5. Borrowers(g) = Borrowers(h) /\ Owners(g) \cap B = Owners(h) \cap B
  BY <1>1, <1>2, <1>3 DEF Borrowers, Owners
<1>6. Values(g, Borrowers(g)) = Values(h, Borrowers(h))
      /\ Values(g, Owners(g) \cap B) = Values(h, Owners(h) \cap B)
  BY <1>1, <1>3, <1>5 DEF Values
<1>7. \A a \in Used(g.items) \ B : ~g.items[a].ref /\ Children(Kids(g), a) \cap B = {}
  <2> TAKE a \in Used(g.items) \ B
  <2>1. CASE a \in U BY <1>1, <1>3, <1>4, <2>1
  <2>2. CASE a \notin U BY <1>1, <1>2, <2>2
  <2> QED BY <2>1, <2>2
<1>8. Apart(g, B)
  <2>1. B \subseteq Used(g.items) BY <1>1, <1>2
  <2>2. \A b \in B : Children(Kids(g), b) \subseteq B BY <1>1, <1>4
  <2>3. Values(g, Borrowers(g)) \subseteq Values(g, Owners(g) \cap B) \cup {NULL} BY <1>1, <1>6
  <2> QED BY <1>7, <2>1, <2>2, <2>3 DEF Apart
<1> QED BY <1>1, <1>3, <1>8 DEF Building, Keeps

(* The loop of cJSON_Duplicate: newitem is a root outside B, nptr the last *)
(* of its children, and what is copied is in B. Either newitem has the     *)
(* copies too, or nothing is left of it.                                   *)
CopyStarts(h, R, X, B, newitem, nptr, cptr) ==
    /\ Building(h, R, X, B) /\ newitem \in R \ B /\ cptr \in B \cup {NULL}
    /\ nptr = IF Kids(h)[newitem] = <<>> THEN NULL ELSE Last(Kids(h)[newitem])

CopyEnds(r, h, R, X, B, newitem) ==
    /\ Keeps(r.h, h, B)
    /\ \/ r.p = NULL /\ Building(r.h, R \ {newitem}, X, B)
       \/ r.p = newitem /\ Building(r.h, R, X, B)

CopiesRight(f) ==
    \A h, R, X, B, newitem, nptr, cptr :
        CopyStarts(h, R, X, B, newitem, nptr, cptr)
        => CopyEnds(f[[h |-> h, newitem |-> newitem, nptr |-> nptr, cptr |-> cptr]], h, R, X, B, newitem)

(* What a copy comes to, whether or not memory was left for it.            *)
ItemCopied(r, h, R, X) ==
    /\ Keeps(r.h, h, Used(h.items))
    /\ \/ r.p = NULL /\ Building(r.h, R, X, Used(h.items))
       \/ r.p \in Items \ Used(h.items) /\ Building(r.h, R \cup {r.p}, X, Used(h.items))

LEMMA CopyItemRight ==
    ASSUME NEW h, NEW R, NEW X, Shape(h, R, X), NEW item \in Used(h.items),
           NEW recurse, NEW copies, CopiesRight(copies),
           NEW r, r = CopyItem(copies, h, item, recurse)
    PROVE  ItemCopied(r, h, R, X)
<1> DEFINE U == Used(h.items)
           old == h.items[item]
           n == cJSON_New_Item(h)
           h0 == Put(n.h, n.p, "type", old.type)
           v == IF old.valuestring = NULL THEN [h |-> h0, p |-> NULL]
                ELSE cJSON_strdup(h0, h.texts[old.valuestring])
           h1 == Put(v.h, n.p, "valuestring", v.p)
           k == IF old.string = NULL THEN [h |-> h1, p |-> NULL]
                ELSE cJSON_strdup(h1, h.texts[old.string])
           h2 == Put(k.h, n.p, "string", k.p)
<1>0. h \in Heaps /\ Linked(h, R) /\ Held(h, X) /\ Building(h, R, X, U) BY WholeApart DEF Shape
<1>1. \/ n.p = NULL /\ r = n
      \/ n.p # NULL /\ r = [h |-> cJSON_Delete(h1, n.p), p |-> NULL]
      \/ n.p # NULL /\ r = [h |-> cJSON_Delete(h2, n.p), p |-> NULL]
      \/ n.p # NULL /\ r = [h |-> h2, p |-> n.p]
      \/ n.p # NULL /\ r = copies[[h |-> h2, newitem |-> n.p, nptr |-> NULL, cptr |-> old.child]]
  BY DEF CopyItem, CopyString, Store
<1>2. CASE n.p = NULL
  <2> DEFINE m == n
  <2>1. m = cJSON_New_Item(h) /\ m.p = NULL /\ r = m BY <1>1, <1>2
  <2> HIDE DEF m
  <2>2. NULL \notin Items BY CJsonAssumption
  <2>3. r.h = h /\ r.p = NULL BY <1>0, <2>1, <2>2, NewItemFacts
  <2> QED BY <1>0, <2>3 DEF ItemCopied, Keeps
<1>3. CASE n.p # NULL
  <2>1. Extends(n.h, h, R, X, U, n.p) /\ n.h.items[n.p] = Blank BY <1>0, <1>3, NewExtends
  <2>2. old \in Item /\ old.type \in ItemTypes BY <1>0, UsedFacts DEF Item
  <2>3. /\ old.string # NULL => h.texts[old.string] \in Names
        /\ old.valuestring # NULL => h.texts[old.valuestring] \in Names
    BY <1>0, TextsThere
  <2>4. old.child \in U \cup {NULL}
    <3>1. Children(Kids(h), item) \subseteq U BY <1>0, KidsList
    <3> QED BY <1>0, <3>1, ChildThere
  <2> DEFINE a == n.p
  <2> HIDE DEF n, old, U, a
  <2>5. /\ Extends(h0, h, R, X, U, a)
        /\ h0.items[a].valuestring = NULL /\ h0.items[a].string = NULL
    <3>1. n.h.items[a].valuestring = NULL /\ n.h.items[a].string = NULL
      BY <2>1 DEF Blank, a
    <3>2. /\ Extends(h0, h, R, X, U, a)
          /\ h0.items[a].string = n.h.items[a].string
          /\ h0.items[a].valuestring = n.h.items[a].valuestring
      BY <2>1, <2>2, ExtendsTyped DEF a
    <3> QED BY <3>1, <3>2
  <2>6. Copied(v, h0)
    <3>1. h0 \in Heaps BY <2>5 DEF Extends, Building, Shape
    <3> HIDE DEF h0
    <3>2. CASE old.valuestring = NULL
      <4>1. v = [h |-> h0, p |-> NULL] BY <3>2
      <4> HIDE DEF v
      <4> QED BY <3>1, <4>1, UsedFacts DEF Copied
    <3>3. CASE old.valuestring # NULL
      <4>1. v = cJSON_strdup(h0, h.texts[old.valuestring]) BY <3>3
      <4> HIDE DEF v
      <4> QED BY <2>3, <3>1, <3>3, <4>1, StrdupCopied
    <3> QED BY <3>2, <3>3
  <2>7. Extends(h1, h, R, X, U, a) /\ h1.items[a].string = NULL
    <3> HIDE DEF v, h0
    <3>1. h0.items[a]["valuestring"] = NULL BY <2>5
    <3>2. h1 = Put(v.h, a, "valuestring", v.p) BY DEF a
    <3> HIDE DEF h1
    <3>3. /\ Extends(h1, h, R, X, U, a)
          /\ h1.items[a].string = IF "valuestring" = "string" THEN v.p ELSE h0.items[a].string
      BY <2>5, <2>6, <3>1, <3>2, ExtendsGiven
    <3> QED BY <2>5, <3>3
  <2>8. Copied(k, h1)
    <3>1. h1 \in Heaps BY <2>7 DEF Extends, Building, Shape
    <3> HIDE DEF h1
    <3>2. CASE old.string = NULL
      <4>1. k = [h |-> h1, p |-> NULL] BY <3>2
      <4> HIDE DEF k
      <4> QED BY <3>1, <4>1, UsedFacts DEF Copied
    <3>3. CASE old.string # NULL
      <4>1. k = cJSON_strdup(h1, h.texts[old.string]) BY <3>3
      <4> HIDE DEF k
      <4> QED BY <2>3, <3>1, <3>3, <4>1, StrdupCopied
    <3> QED BY <3>2, <3>3
  <2>9. Extends(h2, h, R, X, U, a)
    <3> HIDE DEF k, h1
    <3>1. h1.items[a]["string"] = NULL BY <2>7
    <3>2. h2 = Put(k.h, a, "string", k.p) BY DEF a
    <3> HIDE DEF h2
    <3> QED BY <2>7, <2>8, <3>1, <3>2, ExtendsGiven
  <2> HIDE DEF h0, h1, h2, v, k
  <2>10. R \subseteq U /\ a \in Items \ U /\ a \notin R
    BY <1>0, <2>9 DEF Extends, Linked, LinkedAs, U
  <2>11. ASSUME NEW g, Extends(g, h, R, X, U, a), r = [h |-> cJSON_Delete(g, a), p |-> NULL]
         PROVE  ItemCopied(r, h, R, X)
    <3>1. Building(g, R \cup {a}, X, U) /\ Keeps(g, h, U) BY <2>11 DEF Extends, U
    <3>2. a \in (R \cup {a}) \ U BY <2>10
    <3>3. Building(r.h, (R \cup {a}) \ {a}, X, U) /\ Keeps(r.h, g, U)
      <4>1. r.h = cJSON_Delete(g, a) BY <2>11
      <4> QED BY <3>1, <3>2, <4>1, DeletedBuilding
    <3>4. (R \cup {a}) \ {a} = R BY <2>10
    <3>5. Keeps(r.h, h, U) BY <3>1, <3>3 DEF Keeps
    <3>6. r.p = NULL BY <2>11
    <3> QED BY <3>3, <3>4, <3>5, <3>6 DEF ItemCopied, U
  <2>12. CASE r = [h |-> h2, p |-> n.p]
    <3>1. r.h = h2 /\ r.p = a BY <2>12 DEF a
    <3>2. Building(h2, R \cup {a}, X, U) /\ Keeps(h2, h, U) BY <2>9 DEF Extends, U
    <3> QED BY <2>10, <3>1, <3>2 DEF ItemCopied, U
  <2>13. CASE r = copies[[h |-> h2, newitem |-> n.p, nptr |-> NULL, cptr |-> old.child]]
    <3>1. Building(h2, R \cup {a}, X, U) /\ Keeps(h2, h, U) /\ Kids(h2)[a] = <<>>
      BY <2>9 DEF Extends, U
    <3>2. CopyStarts(h2, R \cup {a}, X, U, a, NULL, old.child)
      BY <2>4, <2>10, <3>1 DEF CopyStarts, U
    <3>3. CopyEnds(r, h2, R \cup {a}, X, U, a)
      BY <2>13, <3>2 DEF CopiesRight, a
    <3>4. (R \cup {a}) \ {a} = R BY <2>10
    <3>5. Keeps(r.h, h, U) BY <3>1, <3>3 DEF CopyEnds, Keeps
    <3> QED BY <2>10, <3>3, <3>4, <3>5 DEF ItemCopied, CopyEnds, U
  <2> QED BY <1>1, <1>3, <2>7, <2>9, <2>11, <2>12, <2>13 DEF a
<1> QED BY <1>2, <1>3

(* A copy that was made becomes the last child of newitem.                 *)
CopyLinked(h1, d, h, R, X, B, newitem, cptr) ==
    /\ d.p \in Items \ Used(h.items)
    /\ Building(d.h, R \cup {d.p}, X, Used(h.items)) /\ Keeps(d.h, h, Used(h.items))
    /\ h1 = Behind(d.h, newitem, d.p) /\ AppendsApart(h1, d.h, R, X, B, newitem, d.p)
    /\ Keeps(h1, h, B) /\ CopyStarts(h1, R, X, B, newitem, d.p, h.items[cptr].next)

LEMMA CopyIsLinked ==
    ASSUME NEW h, NEW R, NEW X, NEW B, NEW newitem, NEW nptr, NEW cptr,
           CopyStarts(h, R, X, B, newitem, nptr, cptr), cptr # NULL,
           NEW d, ItemCopied(d, h, R, X), d.p # NULL, NEW h1,
           h1 = IF nptr = NULL THEN Put(d.h, newitem, "child", d.p) ELSE suffix_object(d.h, nptr, d.p)
    PROVE  CopyLinked(h1, d, h, R, X, B, newitem, cptr)
<1> DEFINE U == Used(h.items)
           g == d.h
           c == d.p
           Q == R \cup {c}
           D == Used(g.items) \ U
<1>0. /\ Building(h, R, X, B) /\ Shape(h, R, X) /\ newitem \in R \ B /\ cptr \in B
      /\ nptr = IF Kids(h)[newitem] = <<>> THEN NULL ELSE Last(Kids(h)[newitem])
      /\ Apart(h, B) /\ B \subseteq U /\ R \subseteq U /\ h \in Heaps
  BY DEF CopyStarts, Building, Shape, Linked, LinkedAs, Apart
<1>1. Building(g, Q, X, U) /\ Keeps(g, h, U) /\ c \in Items \ U BY DEF ItemCopied
<1>2. Building(g, Q, X, B) /\ Keeps(g, h, B) BY <1>0, <1>1, ApartBefore
<1>3. /\ g \in Heaps /\ Linked(g, Q) /\ Q \subseteq Used(g.items) /\ U \subseteq Used(g.items)
      /\ Apart(g, U)
  BY <1>1 DEF Building, Shape, Linked, LinkedAs, Apart
<1>4. Kids(g)[newitem] = Kids(h)[newitem]
  <2>1. Building(h, R, X, U) BY <1>0, WholeApart
  <2>2. newitem \in U BY <1>0
  <2> QED BY <1>1, <1>3, <2>1, <2>2, KeepsKids
<1>5. h1 = Behind(g, newitem, c)
  <2>1. newitem \in Used(g.items) BY <1>0, <1>3
  <2>2. Kids(g)[newitem] = <<>> <=> g.items[newitem].child = NULL BY <1>3, <2>1, KidsList
  <2>3. nptr = NULL <=> Kids(h)[newitem] = <<>>
    <3> DEFINE s == Kids(h)[newitem]
    <3>1. s \in Seq(U) /\ NULL \notin U BY <1>0, KidsList, UsedFacts DEF Building, Shape
    <3>2. nptr = IF s = <<>> THEN NULL ELSE Last(s) BY <1>0
    <3> HIDE DEF s, U
    <3>3. s # <<>> => Last(s) \in U BY <3>1 DEF Last
    <3>4. nptr = NULL <=> s = <<>> BY <3>1, <3>2, <3>3
    <3> QED BY <3>4 DEF s
  <2> QED BY <1>0, <1>4, <2>2, <2>3 DEF Behind
<1> HIDE DEF g, c
<1>6. Closed(g, Kids(g), D)
  <2>1. \A a \in D : Children(Kids(g), a) \subseteq Used(g.items) BY <1>3, KidsList
  <2>2. \A a \in D : Children(Kids(g), a) \cap U = {} BY <1>3 DEF Apart
  <2> QED BY <2>1, <2>2 DEF Closed
<1>7. newitem \in Used(g.items) \ B /\ c \in Q \ B /\ c \in D /\ newitem \notin D
  BY <1>0, <1>1, <1>3
<1>8. AppendsApart(h1, g, R, X, B, newitem, c)
  <2>1. Q \ {c} = R BY <1>0, <1>1
  <2> HIDE DEF D, Q
  <2>2. AppendsApart(h1, g, Q \ {c}, X, B, newitem, c)
    BY <1>2, <1>5, <1>6, <1>7, AppendedBuilding
  <2> QED BY <2>1, <2>2
<1>9. /\ Building(h1, R, X, B) /\ Keeps(h1, g, B)
      /\ Kids(h1) = [Kids(g) EXCEPT ![newitem] = Append(Kids(g)[newitem], c)]
  BY <1>8 DEF AppendsApart
<1>10. Kids(h1)[newitem] = Append(Kids(g)[newitem], c)
  BY <1>7, <1>9 DEF Kids
<1>11. Kids(h1)[newitem] # <<>> /\ Last(Kids(h1)[newitem]) = c
  <2> DEFINE s == Kids(g)[newitem]
  <2>1. s \in Seq(Used(g.items)) BY <1>3, <1>7, KidsList
  <2>2. c \in Used(g.items) BY <1>3
  <2> HIDE DEF s
  <2>3. Append(s, c) # <<>> /\ Len(Append(s, c)) = Len(s) + 1 /\ Append(s, c)[Len(s) + 1] = c
    BY <2>1, <2>2
  <2>4. Last(Append(s, c)) = c BY <2>3 DEF Last
  <2> QED BY <1>10, <2>3, <2>4 DEF s
<1>12. h.items[cptr].next \in B \cup {NULL} BY <1>0, NextApart
<1>13. CopyStarts(h1, R, X, B, newitem, c, h.items[cptr].next)
  BY <1>0, <1>9, <1>11, <1>12 DEF CopyStarts
<1>14. Keeps(h1, h, B) BY <1>2, <1>9 DEF Keeps
<1> QED BY <1>1, <1>5, <1>8, <1>13, <1>14 DEF CopyLinked, g, c

LEMMA ChainRight ==
    ASSUME NEW h, NEW R, NEW X, NEW B, NEW newitem, NEW nptr, NEW cptr,
           CopyStarts(h, R, X, B, newitem, nptr, cptr), NEW copies, CopiesRight(copies),
           NEW r, r = DuplicateChain(copies, h, newitem, nptr, cptr)
    PROVE  CopyEnds(r, h, R, X, B, newitem)
<1> DEFINE U == Used(h.items)
<1>0. /\ Building(h, R, X, B) /\ Shape(h, R, X) /\ newitem \in R \ B /\ cptr \in B \cup {NULL}
      /\ B \subseteq U
  BY DEF CopyStarts, Building, Apart
<1>1. CASE cptr = NULL
  <2>1. r.h = h /\ r.p = newitem BY <1>1 DEF DuplicateChain
  <2> QED BY <1>0, <2>1 DEF CopyEnds, Keeps
<1>2. CASE cptr # NULL
  <2> DEFINE d == CopyItem(copies, h, cptr, TRUE)
             h1 == IF nptr = NULL THEN Put(d.h, newitem, "child", d.p)
                                  ELSE suffix_object(d.h, nptr, d.p)
  <2>1. cptr \in B /\ cptr \in U BY <1>0, <1>2
  <2>2. ItemCopied(d, h, R, X) BY <1>0, <2>1, CopyItemRight
  <2>3. r = IF d.p = NULL THEN [h |-> cJSON_Delete(d.h, newitem), p |-> NULL]
            ELSE copies[[h |-> h1, newitem |-> newitem, nptr |-> d.p, cptr |-> h.items[cptr].next]]
    BY <1>2 DEF DuplicateChain
  <2> HIDE DEF d
  <2>4. CASE d.p = NULL
    <3>1. Building(d.h, R, X, U) /\ Keeps(d.h, h, U)
      <4>1. d.p \notin Items BY <2>4, CJsonAssumption
      <4> QED BY <2>2, <4>1 DEF ItemCopied
    <3>2. Building(d.h, R, X, B) /\ Keeps(d.h, h, B) BY <1>0, <3>1, ApartBefore
    <3>3. r.h = cJSON_Delete(d.h, newitem) /\ r.p = NULL BY <2>3, <2>4
    <3>4. Building(r.h, R \ {newitem}, X, B) /\ Keeps(r.h, d.h, B)
      BY <1>0, <3>2, <3>3, DeletedBuilding
    <3>5. Keeps(r.h, h, B) BY <3>2, <3>4 DEF Keeps
    <3> QED BY <3>3, <3>4, <3>5 DEF CopyEnds
  <2>5. CASE d.p # NULL
    <3>1. CopyLinked(h1, d, h, R, X, B, newitem, cptr) BY <1>2, <2>2, <2>5, CopyIsLinked
    <3> HIDE DEF h1
    <3>2. Keeps(h1, h, B) /\ CopyStarts(h1, R, X, B, newitem, d.p, h.items[cptr].next)
      BY <3>1 DEF CopyLinked
    <3>3. r = copies[[h |-> h1, newitem |-> newitem, nptr |-> d.p, cptr |-> h.items[cptr].next]]
      BY <2>3, <2>5
    <3>4. CopyEnds(r, h1, R, X, B, newitem) BY <3>2, <3>3 DEF CopiesRight
    <3>5. Keeps(r.h, h, B) BY <3>2, <3>4 DEF CopyEnds, Keeps
    <3> QED BY <3>4, <3>5 DEF CopyEnds
  <2> QED BY <2>4, <2>5
<1> QED BY <1>1, <1>2

LEMMA CopiesRecur ==
    \A n \in Nat : Copies[n] =
        [a \in [h : Heaps, newitem : Items, nptr : Pointers, cptr : Pointers] |->
           IF n = 0 THEN [h |-> cJSON_Delete(a.h, a.newitem), p |-> NULL]
           ELSE DuplicateChain(Copies[n - 1], a.h, a.newitem, a.nptr, a.cptr)]
<1> DEFINE Recur(f) == f = [n \in Nat |->
        [a \in [h : Heaps, newitem : Items, nptr : Pointers, cptr : Pointers] |->
           IF n = 0 THEN [h |-> cJSON_Delete(a.h, a.newitem), p |-> NULL]
           ELSE DuplicateChain(f[n - 1], a.h, a.newitem, a.nptr, a.cptr)]]
<1>1. Copies = CHOOSE f : Recur(f) BY DEF Copies
<1>2. PICK f : Recurs("copies", 0, f) BY RecursionExists DEF Recursions
<1>3. Recur(f) BY <1>2 DEF Recurs, Turn
<1>4. Recur(Copies)
  <2> HIDE DEF Recur
  <2> QED BY <1>1, <1>3
<1> QED BY <1>4

LEMMA CopiesTurn ==
    ASSUME NEW n \in Nat, NEW h, NEW R, NEW X, NEW B, NEW newitem, NEW nptr, NEW cptr,
           CopyStarts(h, R, X, B, newitem, nptr, cptr),
           NEW r, r = Copies[n][[h |-> h, newitem |-> newitem, nptr |-> nptr, cptr |-> cptr]]
    PROVE  r = IF n = 0 THEN [h |-> cJSON_Delete(h, newitem), p |-> NULL]
               ELSE DuplicateChain(Copies[n - 1], h, newitem, nptr, cptr)
<1> DEFINE a == [h |-> h, newitem |-> newitem, nptr |-> nptr, cptr |-> cptr]
           s == Kids(h)[newitem]
<1>1. /\ h \in Heaps /\ Linked(h, R) /\ R \subseteq Used(h.items) /\ B \subseteq Used(h.items)
      /\ newitem \in R /\ cptr \in B \cup {NULL} /\ nptr = IF s = <<>> THEN NULL ELSE Last(s)
  BY DEF CopyStarts, Building, Shape, Linked, LinkedAs, Apart
<1>2. s \in Seq(Used(h.items)) /\ Used(h.items) \subseteq Items BY <1>1, KidsList, UsedFacts
<1>3. nptr \in Pointers
  <2>1. nptr = IF s = <<>> THEN NULL ELSE Last(s) BY <1>1
  <2> HIDE DEF s
  <2>2. s # <<>> => Last(s) \in Used(h.items) BY <1>2 DEF Last
  <2> QED BY <1>2, <2>1, <2>2 DEF Pointers
<1>4. a \in [h : Heaps, newitem : Items, nptr : Pointers, cptr : Pointers]
  BY <1>1, <1>2, <1>3 DEF Pointers
<1>5. a.h = h /\ a.newitem = newitem /\ a.nptr = nptr /\ a.cptr = cptr OBVIOUS
<1>6. r = Copies[n][a] OBVIOUS
<1> HIDE DEF a
<1>7. Copies[n][a] = IF n = 0 THEN [h |-> cJSON_Delete(a.h, a.newitem), p |-> NULL]
                     ELSE DuplicateChain(Copies[n - 1], a.h, a.newitem, a.nptr, a.cptr)
  BY <1>4, CopiesRecur
<1> QED BY <1>5, <1>6, <1>7

LEMMA CopiesAreRight ==
    \A n \in Nat : CopiesRight(Copies[n])
<1> DEFINE S == {n \in Nat : ~CopiesRight(Copies[n])}
<1>1. SUFFICES ASSUME S # {} PROVE FALSE
  OBVIOUS
<1>2. PICK n \in S : \A m \in S : n <= m
  <2>1. S \in SUBSET Nat OBVIOUS
  <2> HIDE DEF S
  <2> QED BY <1>1, <2>1, LeastNatural
<1>3. n \in Nat /\ ~CopiesRight(Copies[n]) BY <1>2
<1>4. n # 0 => CopiesRight(Copies[n - 1])
  <2>1. n # 0 => n - 1 \in Nat /\ ~(n <= n - 1) BY <1>3
  <2>2. n # 0 => n - 1 \notin S
    <3> HIDE DEF S
    <3> QED BY <1>2, <2>1
  <2> QED BY <2>1, <2>2
<1> HIDE DEF S
<1>5. ASSUME NEW h, NEW R, NEW X, NEW B, NEW newitem, NEW nptr, NEW cptr,
             CopyStarts(h, R, X, B, newitem, nptr, cptr),
             NEW r, r = Copies[n][[h |-> h, newitem |-> newitem, nptr |-> nptr, cptr |-> cptr]]
      PROVE  CopyEnds(r, h, R, X, B, newitem)
  <2>1. r = IF n = 0 THEN [h |-> cJSON_Delete(h, newitem), p |-> NULL]
            ELSE DuplicateChain(Copies[n - 1], h, newitem, nptr, cptr)
    BY <1>3, <1>5, CopiesTurn
  <2>2. CASE n = 0
    <3>1. r.h = cJSON_Delete(h, newitem) /\ r.p = NULL BY <2>1, <2>2
    <3>2. Building(h, R, X, B) /\ newitem \in R \ B BY <1>5 DEF CopyStarts
    <3>3. Building(r.h, R \ {newitem}, X, B) /\ Keeps(r.h, h, B) BY <3>1, <3>2, DeletedBuilding
    <3> QED BY <3>1, <3>3 DEF CopyEnds
  <2>3. CASE n # 0
    <3>1. r = DuplicateChain(Copies[n - 1], h, newitem, nptr, cptr) BY <2>1, <2>3
    <3> QED BY <1>4, <1>5, <2>3, <3>1, ChainRight
  <2> QED BY <2>2, <2>3
<1>6. CopiesRight(Copies[n]) BY <1>5 DEF CopiesRight
<1> QED BY <1>3, <1>6

(* cJSON_Duplicate, whichever of its mallocs fails and whatever references *)
(* it copies: the items that were there are as they were, and the copy is  *)
(* a tree of its own, which neither leads into them nor borrows from them, *)
(* or it is null and all that was made for it was freed.                   *)
THEOREM DuplicateRight ==
    ASSUME NEW h, NEW R, NEW X, Shape(h, R, X), NEW item \in Used(h.items), NEW recurse
    PROVE  ItemCopied(cJSON_Duplicate(h, item, recurse), h, R, X)
<1>1. 2 * Cardinality(Items) \in Nat BY CJsonAssumption, FS_CardinalityType
<1> DEFINE f == Copies[2 * Cardinality(Items)]
<1>2. CopiesRight(f) BY <1>1, CopiesAreRight
<1>3. cJSON_Duplicate(h, item, recurse) = CopyItem(f, h, item, recurse) BY DEF cJSON_Duplicate
<1> HIDE DEF f
<1> QED BY <1>2, <1>3, CopyItemRight

-----------------------------------------------------------------------------
(* What copies are. What an item stands for down to every depth.           *)
Down(h) == CHOOSE f : Recurs("tree", h, f)

LEMMA DownIs ==
    ASSUME NEW h
    PROVE  /\ \A n \in Nat, a \in Items :
                Down(h)[n][a] = IF n = 0 THEN << >> ELSE Node(h, a, Down(h)[n - 1])
           /\ \A a : Tree(h, a) = Down(h)[Cardinality(Items)][a]
<1> DEFINE Goes(f) == f = [n \in Nat |-> [a \in Items |-> IF n = 0 THEN << >> ELSE Node(h, a, f[n - 1])]]
<1>1. \A f : Recurs("tree", h, f) <=> Goes(f) BY DEF Recurs, Turn
<1>2. Down(h) = CHOOSE f : Goes(f) BY <1>1 DEF Down
<1>3. Goes(Down(h))
  <2>1. PICK f : Recurs("tree", h, f) BY RecursionExists DEF Recursions
  <2>2. Goes(f) BY <1>1, <2>1
  <2> HIDE DEF Goes
  <2> QED BY <1>2, <2>2
<1>4. \A a : Tree(h, a) = Down(h)[Cardinality(Items)][a]
  <2> TAKE a
  <2>1. Tree(h, a) = (CHOOSE f : Goes(f))[Cardinality(Items)][a] BY DEF Tree
  <2> HIDE DEF Goes
  <2> QED BY <1>2, <2>1
<1> DEFINE D == Down(h)
<1>5. Goes(D) BY <1>3
<1> HIDE DEF D
<1>6. \A n \in Nat, a \in Items : D[n][a] = IF n = 0 THEN << >> ELSE Node(h, a, D[n - 1])
  BY <1>5
<1> QED BY <1>4, <1>6 DEF D

Alike(h, a, b) == \A n \in Nat : Down(h)[n][a] = Down(h)[n][b]

(* b is a with its name.                                                   *)
Twins(h, a, b) ==
    Alike(h, a, b) /\ Text(h, h.items[a].string) = Text(h, h.items[b].string)

(* Items are alike if they hold the same and their children are twins.     *)
LEMMA AlikeIf ==
    ASSUME NEW h, NEW a \in Items, NEW b \in Items,
           h.items[a].type = h.items[b].type,
           Text(h, h.items[a].valuestring) = Text(h, h.items[b].valuestring),
           NEW s, s = ChildrenOf(h, a), NEW t, t = ChildrenOf(h, b), NEW S, s \in Seq(S), t \in Seq(S),
           Len(s) = Len(t), \A j \in 1 .. Len(s) : Twins(h, s[j], t[j])
    PROVE  Alike(h, a, b)
<1> SUFFICES ASSUME NEW n \in Nat PROVE Down(h)[n][a] = Down(h)[n][b]
  BY DEF Alike
<1>1. CASE n = 0 BY <1>1, DownIs
<1>2. CASE n # 0
  <2> DEFINE f == Down(h)[n - 1]
             i == h.items[a].type
             name(c) == IF i = "cJSON_Object" THEN Text(h, h.items[c].string) ELSE << >>
  <2>1. n - 1 \in Nat BY <1>2
  <2>2. Down(h)[n][a] = Node(h, a, f) /\ Down(h)[n][b] = Node(h, b, f) BY <1>2, DownIs
  <2>3. DOMAIN s = DOMAIN t /\ DOMAIN s = 1 .. Len(s) OBVIOUS
  <2>4. \A j \in 1 .. Len(s) : f[s[j]] = f[t[j]] /\ name(s[j]) = name(t[j])
    BY <2>1 DEF Twins, Alike
  <2> DEFINE x == [j \in DOMAIN s |-> <<name(s[j]), f[s[j]]>>]
             y == [j \in DOMAIN t |-> <<name(t[j]), f[t[j]]>>]
  <2>5. Node(h, a, f) = [type |-> i, value |-> Text(h, h.items[a].valuestring), children |-> x]
    BY DEF Node
  <2>6. Node(h, b, f) = [type |-> i, value |-> Text(h, h.items[b].valuestring), children |-> y]
    BY DEF Node
  <2> HIDE DEF f, name
  <2>7. x = y BY <2>3, <2>4
  <2> HIDE DEF x, y, i
  <2> QED BY <2>2, <2>5, <2>6, <2>7
<1> QED BY <1>1, <1>2

(* g is h with more in it: no item of h but those in N has other children, *)
(* and none has another type, name or value.                               *)
Grows(g, h, N) ==
    /\ Used(h.items) \subseteq Used(g.items)
    /\ \A a \in Used(h.items) : /\ g.items[a].type = h.items[a].type
                                /\ g.items[a].valuestring = h.items[a].valuestring
                                /\ g.items[a].string = h.items[a].string
    /\ \A a \in Used(h.items) \ N : Kids(g)[a] = Kids(h)[a]
    /\ \A t \in Used(h.texts) : g.texts[t] = h.texts[t] /\ t \in Used(g.texts)

LEMMA GrowsOn ==
    ASSUME NEW h, NEW g, NEW k, NEW N, Grows(g, h, N), Grows(k, g, N)
    PROVE  Grows(k, h, N)
BY DEF Grows

(* Names and values stay what they are.                                    *)
LEMMA TextsStay ==
    ASSUME NEW h \in Heaps, NEW X, Held(h, X), NEW g, NEW N, Grows(g, h, N), NEW a \in Used(h.items)
    PROVE  /\ Text(g, g.items[a].string) = Text(h, h.items[a].string)
           /\ Text(g, g.items[a].valuestring) = Text(h, h.items[a].valuestring)
<1>1. /\ h.items[a].string # NULL => h.items[a].string \in Used(h.texts)
      /\ h.items[a].valuestring # NULL => h.items[a].valuestring \in Used(h.texts)
  <2>1. /\ h.items[a].string # NULL => h.texts[h.items[a].string] \in Names
        /\ h.items[a].valuestring # NULL => h.texts[h.items[a].valuestring] \in Names
    BY TextsThere
  <2>2. /\ h.items[a].string \in Texts \cup {NULL}
        /\ h.items[a].valuestring \in Texts \cup {NULL}
    <3>1. h.items[a] \in Item BY UsedFacts
    <3> QED BY <3>1 DEF Item
  <2> QED BY <2>1, <2>2, UsedFacts, CJsonAssumption
<1> QED BY <1>1 DEF Grows, Text

(* What is in a closed set and keeps its children stands for the same.     *)
LEMMA AlikeStay ==
    ASSUME NEW h \in Heaps, NEW R, NEW X, Linked(h, R), Held(h, X), NEW g, NEW N, Grows(g, h, N),
           NEW C \in SUBSET Used(h.items), C \cap N = {},
           \A c \in C : Children(Kids(h), c) \subseteq C
    PROVE  \A n \in Nat, a \in C : Down(g)[n][a] = Down(h)[n][a]
<1> DEFINE S == {n \in Nat : ~ \A a \in C : Down(g)[n][a] = Down(h)[n][a]}
<1>1. SUFFICES ASSUME S # {} PROVE FALSE
  OBVIOUS
<1>2. PICK n \in S : \A m \in S : n <= m
  <2>1. S \in SUBSET Nat OBVIOUS
  <2> HIDE DEF S
  <2> QED BY <1>1, <2>1, LeastNatural
<1>3. PICK a \in C : Down(g)[n][a] # Down(h)[n][a] BY <1>2
<1>4. n \in Nat BY <1>2
<1>5. a \in Items /\ a \in Used(h.items) BY UsedFacts
<1>6. n # 0 BY <1>3, <1>5, DownIs
<1>7. \A c \in C : Down(g)[n - 1][c] = Down(h)[n - 1][c]
  <2>1. n - 1 \in Nat /\ ~(n <= n - 1) BY <1>4, <1>6
  <2>2. n - 1 \notin S
    <3> HIDE DEF S
    <3> QED BY <1>2, <2>1
  <2> QED BY <2>1, <2>2
<1> HIDE DEF S
<1> DEFINE s == Kids(h)[a]
           e == Down(g)[n - 1]
           f == Down(h)[n - 1]
<1>8. Down(g)[n][a] = Node(g, a, e) /\ Down(h)[n][a] = Node(h, a, f)
  BY <1>4, <1>5, <1>6, DownIs
<1>9. /\ s \in Seq(Used(h.items)) /\ ChildrenOf(h, a) = s
      /\ \A j \in 1 .. Len(s) : s[j] \in C
  BY <1>5, KidsList DEF Children
<1>10. ChildrenOf(g, a) = s
  <2>1. Kids(g)[a] = s /\ a \in Used(g.items) BY <1>5 DEF Grows
  <2> QED BY <2>1 DEF Kids
<1>11. /\ Text(g, g.items[a].valuestring) = Text(h, h.items[a].valuestring)
       /\ g.items[a].type = h.items[a].type
  BY <1>5, TextsStay DEF Grows
<1>12. \A j \in 1 .. Len(s) : /\ e[s[j]] = f[s[j]]
                              /\ Text(g, g.items[s[j]].string) = Text(h, h.items[s[j]].string)
  BY <1>7, <1>9, TextsStay
<1> DEFINE i == h.items[a].type
           x == [j \in DOMAIN s |-> <<IF i = "cJSON_Object" THEN Text(g, g.items[s[j]].string) ELSE << >>, e[s[j]]>>]
           y == [j \in DOMAIN s |-> <<IF i = "cJSON_Object" THEN Text(h, h.items[s[j]].string) ELSE << >>, f[s[j]]>>]
<1>13. Node(g, a, e) = [type |-> i, value |-> Text(g, g.items[a].valuestring), children |-> x]
  BY <1>10, <1>11 DEF Node
<1>14. Node(h, a, f) = [type |-> i, value |-> Text(h, h.items[a].valuestring), children |-> y]
  BY <1>9 DEF Node
<1>15. x = y
  <2>1. DOMAIN s = 1 .. Len(s) BY <1>9
  <2> HIDE DEF e, f, s
  <2> QED BY <1>12, <2>1
<1> HIDE DEF x, y, i, e, f, s
<1> QED BY <1>3, <1>8, <1>11, <1>13, <1>14, <1>15

LEMMA TwinsStay ==
    ASSUME NEW h \in Heaps, NEW R, NEW X, Linked(h, R), Held(h, X), NEW g, NEW N, Grows(g, h, N),
           NEW C \in SUBSET Used(h.items), C \cap N = {},
           \A c \in C : Children(Kids(h), c) \subseteq C,
           NEW a \in C, NEW b \in C, Twins(h, a, b)
    PROVE  Twins(g, a, b)
<1>1. \A n \in Nat : Down(g)[n][a] = Down(h)[n][a] /\ Down(g)[n][b] = Down(h)[n][b]
  BY AlikeStay
<1>2. Alike(g, a, b) BY <1>1 DEF Twins, Alike
<1> QED BY <1>2, TextsStay DEF Twins

LEMMA StrdupText ==
    ASSUME NEW h \in Heaps, NEW t \in Names, NEW s, s = cJSON_strdup(h, t)
    PROVE  /\ \A u \in Used(h.texts) : s.h.texts[u] = h.texts[u]
           /\ s.p # NULL => s.h.texts[s.p] = t
<1> DEFINE a == Unused(h, h.texts)
<1>1. s.p = a /\ s.h = IF a = NULL THEN h ELSE [h EXCEPT !.texts[a] = t]
  BY DEF cJSON_strdup
<1>2. DOMAIN h.texts = Texts /\ h.texts = [u \in Texts |-> h.texts[u]] BY DEF Heaps
<1>3. a = NULL \/ a \in Texts \ Used(h.texts)
  BY <1>2, UnusedFacts
<1> HIDE DEF a
<1>4. CASE a = NULL BY <1>1, <1>4
<1>5. CASE a # NULL
  <2>1. s.h.texts = [h.texts EXCEPT ![a] = t] BY <1>1, <1>5 DEF Heaps
  <2>2. Used(h.texts) \subseteq Texts BY <1>2 DEF Used
  <2> QED BY <1>1, <1>2, <1>3, <1>5, <2>1, <2>2
<1> QED BY <1>4, <1>5

(* The new item of a copy, before its children are copied.                 *)
Begun(g, h, R, X, item, a) ==
    /\ Extends(g, h, R, X, Used(h.items), a)
    /\ g.items[a].type = h.items[item].type
    /\ Text(g, g.items[a].valuestring) = Text(h, h.items[item].valuestring)
    /\ Text(g, g.items[a].string) = Text(h, h.items[item].string)
    /\ \A t \in Used(h.texts) : g.texts[t] = h.texts[t] /\ t \in Used(g.texts)

(* A string of h that was copied to g, if there was one.                   *)
TextCopied(s, g, h, old) ==
    /\ Copied(s, g)
    /\ \A t \in Used(g.texts) : s.h.texts[t] = g.texts[t] /\ t \in Used(s.h.texts)
    /\ ~NotCopied(old, s.p) => Text(s.h, s.p) = Text(h, old)

LEMMA StringCopied ==
    ASSUME NEW h, NEW g \in Heaps, NEW old, old # NULL => h.texts[old] \in Names, NEW s,
           s = IF old = NULL THEN [h |-> g, p |-> NULL] ELSE cJSON_strdup(g, h.texts[old])
    PROVE  TextCopied(s, g, h, old)
<1>1. CASE old = NULL
  <2>1. s = [h |-> g, p |-> NULL] BY <1>1
  <2> QED BY <1>1, <2>1, UsedFacts DEF Copied, TextCopied, Text
<1>2. CASE old # NULL
  <2>1. s = cJSON_strdup(g, h.texts[old]) BY <1>2
  <2>2. Copied(s, g) BY <1>2, <2>1, StrdupCopied
  <2>3. /\ \A u \in Used(g.texts) : s.h.texts[u] = g.texts[u]
        /\ s.p # NULL => s.h.texts[s.p] = h.texts[old]
    BY <1>2, <2>1, StrdupText
  <2> QED BY <1>2, <2>2, <2>3 DEF TextCopied, Copied, NotCopied, Text
<1> QED BY <1>1, <1>2

(* What was put in a field.                                                *)
Holds(g, h, p, f, x) ==
    /\ g.texts = h.texts
    /\ g.items[p].type = IF f = "type" THEN x ELSE h.items[p].type
    /\ g.items[p].string = IF f = "string" THEN x ELSE h.items[p].string
    /\ g.items[p].valuestring = IF f = "valuestring" THEN x ELSE h.items[p].valuestring

LEMMA PutHolds ==
    ASSUME NEW h \in Heaps, NEW p \in Used(h.items), NEW f, NEW x,
           \/ f \in {"string", "valuestring"} /\ x \in Texts \cup {NULL}
           \/ f = "type" /\ x \in ItemTypes
    PROVE  Holds(Put(h, p, f, x), h, p, f, x)
<1> DEFINE g == Put(h, p, f, x)
<1>1. /\ g \in Heaps /\ Used(g.items) = Used(h.items) /\ g.texts = h.texts
      /\ g.items[p] = [h.items[p] EXCEPT ![f] = x]
      /\ \A q \in Used(h.items) \ {p} : g.items[q] = h.items[q]
  BY PutFacts
<1>2. h.items[p] \in Item BY UsedFacts
<1> HIDE DEF g
<1>3. Holds(g, h, p, f, x) BY <1>1, <1>2 DEF Item, Holds
<1> QED BY <1>3 DEF g

CopyGoesOn(r, copies, h, R, X, item) ==
    \E g, a : /\ Begun(g, h, R, X, item, a)
              /\ r = copies[[h |-> g, newitem |-> a, nptr |-> NULL, cptr |-> h.items[item].child]]

LEMMA CopyBegun ==
    ASSUME NEW h, NEW R, NEW X, Shape(h, R, X), NEW item \in Used(h.items), NEW copies,
           NEW r, r = CopyItem(copies, h, item, TRUE), r.p # NULL
    PROVE  CopyGoesOn(r, copies, h, R, X, item)
<1> DEFINE U == Used(h.items)
           old == h.items[item]
           n == cJSON_New_Item(h)
           h0 == Put(n.h, n.p, "type", old.type)
           v == IF old.valuestring = NULL THEN [h |-> h0, p |-> NULL]
                ELSE cJSON_strdup(h0, h.texts[old.valuestring])
           h1 == Put(v.h, n.p, "valuestring", v.p)
           k == IF old.string = NULL THEN [h |-> h1, p |-> NULL]
                ELSE cJSON_strdup(h1, h.texts[old.string])
           h2 == Put(k.h, n.p, "string", k.p)
<1>0. h \in Heaps /\ Linked(h, R) /\ Held(h, X) /\ Building(h, R, X, U) BY WholeApart DEF Shape
<1>1. /\ n.p # NULL /\ ~NotCopied(old.valuestring, v.p) /\ ~NotCopied(old.string, k.p)
      /\ r = copies[[h |-> h2, newitem |-> n.p, nptr |-> NULL, cptr |-> old.child]]
  BY DEF CopyItem, CopyString, Store
<1>2. Extends(n.h, h, R, X, U, n.p) /\ n.h.items[n.p] = Blank BY <1>0, <1>1, NewExtends
<1>3. old \in Item /\ old.type \in ItemTypes BY <1>0, UsedFacts DEF Item
<1>4. /\ old.string # NULL => h.texts[old.string] \in Names
      /\ old.valuestring # NULL => h.texts[old.valuestring] \in Names
  BY <1>0, TextsThere
<1>5. n.h.texts = h.texts
  <2> DEFINE m == n
  <2>1. m = cJSON_New_Item(h) /\ m.p # NULL BY <1>1
  <2> HIDE DEF m
  <2>2. m.h.texts = h.texts BY <1>0, <2>1, NewItemFacts
  <2> QED BY <2>2 DEF m
<1> DEFINE a == n.p
<1> HIDE DEF n, old, U, a
<1>6. /\ Extends(h0, h, R, X, U, a)
      /\ h0.items[a].valuestring = NULL /\ h0.items[a].string = NULL
      /\ h0.items[a].type = old.type /\ h0.texts = h.texts
  <2>1. n.h.items[a].valuestring = NULL /\ n.h.items[a].string = NULL /\ a \in Used(n.h.items)
        /\ n.h \in Heaps /\ n.h.items[a] \in Item
    BY <1>2, UsedFacts DEF Blank, a, Extends, Building, Shape
  <2>2. /\ Extends(h0, h, R, X, U, a)
        /\ h0.items[a].string = n.h.items[a].string
        /\ h0.items[a].valuestring = n.h.items[a].valuestring
    BY <1>2, <1>3, ExtendsTyped DEF a
  <2>3. h0.items[a].type = old.type /\ h0.texts = n.h.texts
    <3> DEFINE m == n.h
    <3>1. h0 = Put(m, a, "type", old.type) BY DEF a
    <3>2. m \in Heaps /\ a \in Used(m.items) BY <2>1
    <3> HIDE DEF h0, m
    <3>3. Holds(h0, m, a, "type", old.type) BY <1>3, <3>1, <3>2, PutHolds
    <3> QED BY <3>3 DEF m, Holds
  <2> QED BY <1>5, <2>1, <2>2, <2>3
<1>7. TextCopied(v, h0, h, old.valuestring)
  <2>1. h0 \in Heaps BY <1>6 DEF Extends, Building, Shape
  <2> HIDE DEF h0
  <2> QED BY <1>4, <2>1, StringCopied
<1> HIDE DEF h0, v
<1>8. /\ Extends(h1, h, R, X, U, a) /\ h1.items[a].string = NULL
      /\ h1.items[a].valuestring = v.p /\ h1.texts = v.h.texts
      /\ h1.items[a].type = old.type
  <2>1. h0.items[a]["valuestring"] = NULL BY <1>6
  <2>2. h1 = Put(v.h, a, "valuestring", v.p) BY DEF a
  <2> HIDE DEF h1
  <2>3. /\ v.h \in Heaps /\ a \in Used(v.h.items) /\ v.p \in Texts \cup {NULL} /\ v.h.items[a] \in Item
        /\ v.h.items = h0.items
    BY <1>6, <1>7, UsedFacts DEF TextCopied, Copied, Extends
  <2>4. /\ Extends(h1, h, R, X, U, a)
        /\ h1.items[a].string = IF "valuestring" = "string" THEN v.p ELSE h0.items[a].string
    BY <1>6, <1>7, <2>1, <2>2, ExtendsGiven DEF TextCopied
  <2>5. Holds(h1, v.h, a, "valuestring", v.p) BY <2>2, <2>3, PutHolds
  <2> QED BY <1>6, <2>3, <2>4, <2>5 DEF Holds
<1>9. TextCopied(k, h1, h, old.string)
  <2>1. h1 \in Heaps BY <1>8 DEF Extends, Building, Shape
  <2> HIDE DEF h1
  <2> QED BY <1>4, <2>1, StringCopied
<1> HIDE DEF h1, k
<1>10. /\ Extends(h2, h, R, X, U, a) /\ h2.items[a].string = k.p
       /\ h2.items[a].valuestring = v.p /\ h2.texts = k.h.texts
       /\ h2.items[a].type = old.type
  <2>1. h1.items[a]["string"] = NULL BY <1>8
  <2>2. h2 = Put(k.h, a, "string", k.p) BY DEF a
  <2> HIDE DEF h2
  <2>3. /\ k.h \in Heaps /\ a \in Used(k.h.items) /\ k.p \in Texts \cup {NULL} /\ k.h.items[a] \in Item
        /\ k.h.items = h1.items
    BY <1>8, <1>9, UsedFacts DEF TextCopied, Copied, Extends
  <2>4. Extends(h2, h, R, X, U, a)
    BY <1>8, <1>9, <2>1, <2>2, ExtendsGiven DEF TextCopied
  <2>5. Holds(h2, k.h, a, "string", k.p) BY <2>2, <2>3, PutHolds
  <2> QED BY <1>8, <2>3, <2>4, <2>5 DEF Holds
<1> HIDE DEF h2
<1>11. \A t \in Used(h.texts) : h2.texts[t] = h.texts[t] /\ t \in Used(h2.texts)
  BY <1>6, <1>7, <1>8, <1>9, <1>10 DEF TextCopied
<1>12. Text(h2, k.p) = Text(h, old.string) BY <1>1, <1>9, <1>10 DEF TextCopied, Text
<1>13. Text(h2, v.p) = Text(h, old.valuestring)
  <2>1. Text(v.h, v.p) = Text(h, old.valuestring) BY <1>1, <1>7 DEF TextCopied
  <2>2. v.p # NULL => v.p \in Used(v.h.texts) BY <1>7 DEF TextCopied, Copied
  <2>3. v.p # NULL => h2.texts[v.p] = v.h.texts[v.p] BY <1>8, <1>9, <1>10, <2>2 DEF TextCopied
  <2> QED BY <2>1, <2>3 DEF Text
<1>14. Begun(h2, h, R, X, item, a)
  BY <1>10, <1>11, <1>12, <1>13 DEF Begun, old, U
<1>15. r = copies[[h |-> h2, newitem |-> a, nptr |-> NULL, cptr |-> h.items[item].child]]
  BY <1>1 DEF a, old
<1> QED BY <1>14, <1>15 DEF CopyGoesOn

(* An item that is put behind the others keeps what it stands for.         *)
LEMMA BehindTypes ==
    ASSUME NEW h \in Heaps, NEW R, Linked(h, R), NEW p \in Owners(h), NEW item \in R,
           NEW g, g = Behind(h, p, item)
    PROVE  \A q \in Used(h.items) : g.items[q].type = h.items[q].type
<1>1. PutBehind(g, h, R, p, item) BY BehindFacts
<1>2. p \in Used(h.items) /\ item \in Used(h.items) BY DEF Owners, Linked, LinkedAs
<1>3. h.items[p] \in Item /\ h.items[item] \in Item /\ Children(Kids(h), p) \subseteq Used(h.items)
  BY <1>2, UsedFacts, KidsList
<1>4. CASE h.items[p].child = NULL
  <2>1. /\ g.items[p] = [h.items[p] EXCEPT !.child = item]
        /\ \A q \in Used(h.items) \ {p} : g.items[q] = h.items[q]
    BY <1>1, <1>4 DEF PutBehind
  <2> QED BY <1>3, <2>1 DEF Item
<1>5. CASE h.items[p].child # NULL
  <2>1. PICK l \in Children(Kids(h), p) :
          /\ g.items[l] = [h.items[l] EXCEPT !.next = item]
          /\ g.items[item] = [h.items[item] EXCEPT !.prev = l]
          /\ \A q \in Used(h.items) \ {l, item} : g.items[q] = h.items[q]
    BY <1>1, <1>5 DEF PutBehind
  <2>2. h.items[l] \in Item BY <1>3, UsedFacts
  <2> QED BY <1>3, <2>1, <2>2 DEF Item
<1> QED BY <1>4, <1>5

(* A root is no child.                                                     *)
LEMMA NoChild ==
    ASSUME NEW h \in Heaps, NEW R, Linked(h, R), NEW r \in R, NEW a \in Used(h.items)
    PROVE  r \notin Children(Kids(h), a)
<1>1. \A p \in Owners(h) : r \notin Children(Kids(h), p) BY DEF Linked, LinkedAs
<1>2. ASSUME a \notin Owners(h) PROVE r \notin Children(Kids(h), a)
  <2>1. Kids(h)[a] = <<>> \/ \E q \in Owners(h) : Kids(h)[q] = Kids(h)[a]
    BY <1>2 DEF Linked, LinkedAs
  <2> QED BY <1>1, <2>1 DEF Children
<1> QED BY <1>1, <1>2

(* The children of newitem are copies of the first of q's; cptr is the next. *)
CopiedTo(h, newitem, q, cptr) ==
    LET s == Kids(h)[newitem]
        t == Kids(h)[q]
    IN /\ Len(s) <= Len(t)
       /\ cptr = IF Len(s) = Len(t) THEN NULL ELSE t[Len(s) + 1]
       /\ \A i \in 1 .. Len(s) : Twins(h, s[i], t[i])

CopiedAll(r, h, newitem, q) ==
    r.p # NULL => Grows(r.h, h, {newitem}) /\ CopiedTo(r.h, newitem, q, NULL)

CopiesAlike(f) ==
    \A h, R, X, B, newitem, nptr, cptr, q :
        CopyStarts(h, R, X, B, newitem, nptr, cptr) /\ q \in B /\ CopiedTo(h, newitem, q, cptr)
        => CopiedAll(f[[h |-> h, newitem |-> newitem, nptr |-> nptr, cptr |-> cptr]], h, newitem, q)

LEMMA CopyItemAlike ==
    ASSUME NEW h, NEW R, NEW X, Shape(h, R, X), NEW item \in Used(h.items), NEW copies,
           CopiesRight(copies), CopiesAlike(copies),
           NEW r, r = CopyItem(copies, h, item, TRUE), r.p # NULL
    PROVE  Grows(r.h, h, {}) /\ Twins(r.h, r.p, item)
<1> DEFINE U == Used(h.items)
<1>1. PICK g, a :
        /\ Begun(g, h, R, X, item, a)
        /\ r = copies[[h |-> g, newitem |-> a, nptr |-> NULL, cptr |-> h.items[item].child]]
  <2>1. CopyGoesOn(r, copies, h, R, X, item) BY CopyBegun
  <2> QED BY <2>1 DEF CopyGoesOn
<1>2. /\ a \in Items \ U /\ Used(g.items) = U \cup {a}
      /\ Building(g, R \cup {a}, X, U) /\ Keeps(g, h, U)
      /\ Kids(g)[a] = <<>> /\ \A p \in U : Kids(g)[p] = Kids(h)[p]
  BY <1>1 DEF Begun, Extends
<1>3. h \in Heaps /\ Linked(h, R) /\ Held(h, X) /\ R \subseteq U
  BY DEF Shape, Linked, LinkedAs
<1>4. g \in Heaps /\ Linked(g, R \cup {a}) /\ Held(g, X) BY <1>2 DEF Building, Shape
<1>5. /\ h.items[item].child = IF Kids(h)[item] = <<>> THEN NULL ELSE Kids(h)[item][1]
      /\ h.items[item].child \in U \cup {NULL}
      /\ Kids(h)[item] = <<>> <=> Len(Kids(h)[item]) = 0
      /\ Len(Kids(h)[item]) \in Nat
  <2>1. Children(Kids(h), item) \subseteq U BY <1>3, KidsList
  <2> QED BY <1>3, <2>1, KidsList, ChildThere
<1>6. CopyStarts(g, R \cup {a}, X, U, a, NULL, h.items[item].child)
  BY <1>2, <1>5 DEF CopyStarts
<1>7. CopiedTo(g, a, item, h.items[item].child)
  <2>1. Kids(g)[item] = Kids(h)[item] /\ Len(<<>>) = 0 BY <1>2
  <2> QED BY <1>2, <1>5, <2>1 DEF CopiedTo
<1>8. Grows(r.h, g, {a}) /\ CopiedTo(r.h, a, item, NULL)
  <2> DEFINE Q == R \cup {a}
             c == h.items[item].child
             b == [h |-> g, newitem |-> a, nptr |-> NULL, cptr |-> c]
  <2>1. item \in U /\ CopyStarts(g, Q, X, U, a, NULL, c) /\ CopiedTo(g, a, item, c) /\ r = copies[b]
    BY <1>1, <1>6, <1>7
  <2> HIDE DEF U, Q, c
  <2>2. CopiedAll(copies[b], g, a, item) BY <2>1 DEF CopiesAlike
  <2>3. CopiedAll(r, g, a, item) BY <2>1, <2>2
  <2> QED BY <2>3 DEF CopiedAll
<1>9. r.p = a /\ Building(r.h, R \cup {a}, X, U)
  <2>1. CopyEnds(r, g, R \cup {a}, X, U, a) BY <1>1, <1>6 DEF CopiesRight
  <2> QED BY <2>1 DEF CopyEnds
<1>10. Grows(g, h, {})
  <2>1. \A b \in U : g.items[b] = h.items[b] BY <1>2 DEF Keeps
  <2>2. \A t \in Used(h.texts) : g.texts[t] = h.texts[t] /\ t \in Used(g.texts)
    BY <1>1 DEF Begun
  <2>3. U \subseteq Used(g.items) /\ \A b \in U : Kids(g)[b] = Kids(h)[b] BY <1>2
  <2> QED BY <2>1, <2>2, <2>3 DEF Grows
<1>11. Grows(r.h, h, {}) BY <1>2, <1>8, <1>10 DEF Grows
<1> DEFINE k == r.h
           s == Kids(k)[a]
           t == Kids(k)[item]
<1>12. a \in Used(k.items) /\ item \in Used(k.items) /\ a \in Used(g.items)
  BY <1>2, <1>8, <1>11 DEF Grows
<1>13. /\ k.items[a].type = k.items[item].type
       /\ Text(k, k.items[a].valuestring) = Text(k, k.items[item].valuestring)
       /\ Text(k, k.items[a].string) = Text(k, k.items[item].string)
  <2>1. /\ Text(k, k.items[a].string) = Text(g, g.items[a].string)
        /\ Text(k, k.items[a].valuestring) = Text(g, g.items[a].valuestring)
    BY <1>4, <1>8, <1>12, TextsStay
  <2>2. /\ Text(k, k.items[item].string) = Text(h, h.items[item].string)
        /\ Text(k, k.items[item].valuestring) = Text(h, h.items[item].valuestring)
    BY <1>3, <1>11, TextsStay
  <2>3. k.items[a].type = g.items[a].type /\ k.items[item].type = h.items[item].type
    BY <1>8, <1>11, <1>12 DEF Grows
  <2> QED BY <1>1, <2>1, <2>2, <2>3 DEF Begun
<1>14. /\ k \in Heaps /\ Linked(k, R \cup {a}) BY <1>9 DEF Building, Shape
<1>15. /\ s = ChildrenOf(k, a) /\ t = ChildrenOf(k, item)
       /\ s \in Seq(Used(k.items)) /\ t \in Seq(Used(k.items))
  BY <1>12, <1>14, KidsList
<1>16. Len(s) <= Len(t) /\ NULL = IF Len(s) = Len(t) THEN NULL ELSE t[Len(s) + 1]
  BY <1>8 DEF CopiedTo
<1>20. \A i \in 1 .. Len(s) : Twins(k, s[i], t[i]) BY <1>8 DEF CopiedTo
<1>17. a \in Items /\ item \in Items /\ NULL \notin Used(k.items)
  BY <1>12, <1>14, UsedFacts
<1> HIDE DEF s, t, k
<1>18. Len(s) = Len(t)
  <2>1. Len(s) \in Nat /\ Len(t) \in Nat /\ \A i \in 1 .. Len(t) : t[i] \in Used(k.items)
    BY <1>15
  <2>2. ASSUME Len(s) # Len(t) PROVE FALSE
    <3>1. Len(s) + 1 \in 1 .. Len(t) BY <1>16, <2>1, <2>2
    <3> QED BY <1>16, <1>17, <2>1, <2>2, <3>1
  <2> QED BY <2>2
<1>19. Alike(k, a, item) BY <1>13, <1>15, <1>17, <1>18, <1>20, AlikeIf
<1> QED BY <1>9, <1>11, <1>13, <1>19 DEF k, Twins

(* Linking the copy of the next child, and what was copied before stays.   *)
LEMMA LinkedGrows ==
    ASSUME NEW h, NEW R, NEW X, NEW B, NEW newitem, NEW nptr, NEW cptr, NEW q \in B,
           CopyStarts(h, R, X, B, newitem, nptr, cptr), CopiedTo(h, newitem, q, cptr), cptr # NULL,
           NEW d, Grows(d.h, h, {}), Twins(d.h, d.p, cptr),
           NEW h1, CopyLinked(h1, d, h, R, X, B, newitem, cptr)
    PROVE  Grows(h1, h, {newitem}) /\ CopiedTo(h1, newitem, q, h.items[cptr].next)
<1> DEFINE U == Used(h.items)
           g == d.h
           c == d.p
           s == Kids(h)[newitem]
           t == Kids(h)[q]
           C == Used(g.items) \ {newitem}
<1>0. /\ Building(h, R, X, B) /\ h \in Heaps /\ Linked(h, R) /\ Held(h, X) /\ newitem \in R \ B
      /\ B \subseteq U /\ R \subseteq U /\ cptr \in B
  BY DEF CopyStarts, Building, Shape, Linked, LinkedAs, Apart
<1>1. /\ c \in Items \ U /\ Building(g, R \cup {c}, X, U) /\ Building(h1, R, X, B)
      /\ h1 = Behind(g, newitem, c) /\ SameButLinks(h1, g)
      /\ Kids(h1) = [Kids(g) EXCEPT ![newitem] = Append(Kids(g)[newitem], c)]
  BY DEF CopyLinked, AppendsApart
<1>2. /\ g \in Heaps /\ Linked(g, R \cup {c}) /\ Held(g, X) /\ c \in Used(g.items)
      /\ U \subseteq Used(g.items) /\ Used(g.items) \ U \subseteq Owners(g)
  BY <1>1, ApartFacts DEF Building, Shape, Linked, LinkedAs, Apart
<1>3. /\ s \in Seq(U) /\ Len(s) \in Nat /\ t \in Seq(U) /\ Len(t) \in Nat
      /\ ListIs(h, h.items[q].child, t) /\ NULL \notin U
  BY <1>0, KidsList, UsedFacts
<1>4. \A a \in U : Kids(g)[a] = Kids(h)[a] BY DEF Grows
<1>5. newitem \in Owners(g)
  <2>1. newitem \in Owners(h) BY <1>0, ApartFacts DEF Building
  <2>2. g.items[newitem] = h.items[newitem] BY <1>0 DEF CopyLinked, Keeps
  <2> QED BY <1>0, <1>2, <2>1, <2>2 DEF Owners
<1> HIDE DEF g, c
<1>6. \A a \in Used(g.items) : h1.items[a].type = g.items[a].type
  BY <1>1, <1>2, <1>5, BehindTypes
<1>7. Grows(h1, g, {newitem})
  <2>1. \A a \in Used(g.items) \ {newitem} : Kids(h1)[a] = Kids(g)[a]
    BY <1>1 DEF Kids
  <2> QED BY <1>1, <1>6, <2>1 DEF Grows, SameButLinks
<1>8. Grows(g, h, {}) /\ Twins(g, c, cptr) BY DEF g, c
<1>9. Grows(h1, h, {newitem}) BY <1>7, <1>8 DEF Grows
<1>10. /\ Kids(h1)[newitem] = Append(s, c) /\ Kids(h1)[q] = t
  <2>1. newitem \in U /\ q \in U /\ q # newitem BY <1>0
  <2> QED BY <1>1, <1>2, <1>4, <2>1 DEF Kids
<1>11. /\ Len(s) <= Len(t) /\ cptr = IF Len(s) = Len(t) THEN NULL ELSE t[Len(s) + 1]
  BY DEF CopiedTo
<1>12. \A i \in 1 .. Len(s) : Twins(h, s[i], t[i]) BY DEF CopiedTo
<1>13. /\ C \in SUBSET Used(g.items) /\ C \cap {newitem} = {}
       /\ \A a \in C : Children(Kids(g), a) \subseteq C
  <2>1. \A a \in Used(g.items) : newitem \notin Children(Kids(g), a) BY <1>0, <1>2, NoChild
  <2>2. \A a \in Used(g.items) : Children(Kids(g), a) \subseteq Used(g.items) BY <1>2, KidsList
  <2> QED BY <2>1, <2>2
<1>14. \A i \in 1 .. Len(s) : Twins(g, s[i], t[i]) /\ s[i] \in C /\ t[i] \in C
  <2> TAKE i \in 1 .. Len(s)
  <2>1. s[i] \in U /\ t[i] \in U
    <3>1. i \in 1 .. Len(t) BY <1>3, <1>11
    <3> QED BY <1>3, <3>1
  <2>2. s[i] # newitem /\ t[i] # newitem
    <3>1. s[i] \in Children(Kids(h), newitem) /\ t[i] \in Children(Kids(h), q)
      <4>1. i \in 1 .. Len(t) BY <1>3, <1>11
      <4> QED BY <4>1 DEF Children
    <3>2. newitem \notin Children(Kids(h), newitem) /\ newitem \notin Children(Kids(h), q)
      BY <1>0, NoChild
    <3> QED BY <3>1, <3>2
  <2>3. Twins(g, s[i], t[i])
    <3>1. \A a \in U : Children(Kids(h), a) \subseteq U BY <1>0, KidsList
    <3>2. U \in SUBSET U /\ U \cap {} = {} OBVIOUS
    <3>3. Twins(h, s[i], t[i]) BY <1>12
    <3> QED BY <1>0, <1>8, <2>1, <3>1, <3>2, <3>3, TwinsStay
  <2> QED BY <1>2, <2>1, <2>2, <2>3
<1>15. c \in C /\ cptr \in C BY <1>0, <1>1, <1>2
<1> HIDE DEF s, t, C, U
<1>16. \A a, b \in C : Twins(g, a, b) => Twins(h1, a, b)
  BY <1>2, <1>7, <1>13, TwinsStay
<1>17. /\ Len(s) # Len(t) /\ cptr = t[Len(s) + 1] /\ Len(s) + 1 \in 1 .. Len(t)
  BY <1>3, <1>11
<1>18. h.items[cptr].next = IF Len(s) + 1 = Len(t) THEN NULL ELSE t[Len(s) + 2]
  <2>1. h.items[t[Len(s) + 1]].next = IF Len(s) + 1 = Len(t) THEN NULL ELSE t[(Len(s) + 1) + 1]
    BY <1>3, <1>17 DEF ListIs
  <2>2. (Len(s) + 1) + 1 = Len(s) + 2 BY <1>3
  <2> QED BY <1>17, <2>1, <2>2
<1>19. /\ Len(Append(s, c)) = Len(s) + 1
       /\ \A i \in 1 .. Len(s) : Append(s, c)[i] = s[i]
       /\ Append(s, c)[Len(s) + 1] = c
  <2>1. s \in Seq(Used(g.items)) BY <1>2, <1>3 DEF U
  <2> QED BY <1>2, <2>1
<1>20. ASSUME NEW i \in 1 .. Len(s) + 1 PROVE Twins(h1, Append(s, c)[i], t[i])
  <2>1. CASE i = Len(s) + 1 BY <1>8, <1>15, <1>16, <1>17, <1>19, <2>1
  <2>2. CASE i # Len(s) + 1
    <3>1. i \in 1 .. Len(s) BY <1>3, <2>2
    <3> QED BY <1>14, <1>16, <1>19, <3>1
  <2> QED BY <2>1, <2>2
<1>21. Len(s) + 1 <= Len(t) /\ (Len(s) + 1) + 1 = Len(s) + 2 BY <1>3, <1>17
<1>22. CopiedTo(h1, newitem, q, h.items[cptr].next)
  BY <1>10, <1>18, <1>19, <1>20, <1>21 DEF CopiedTo
<1> QED BY <1>9, <1>22

LEMMA ChainAlike ==
    ASSUME NEW h, NEW R, NEW X, NEW B, NEW newitem, NEW nptr, NEW cptr, NEW q \in B,
           CopyStarts(h, R, X, B, newitem, nptr, cptr), CopiedTo(h, newitem, q, cptr),
           NEW copies, CopiesRight(copies), CopiesAlike(copies),
           NEW r, r = DuplicateChain(copies, h, newitem, nptr, cptr)
    PROVE  CopiedAll(r, h, newitem, q)
<1>0. /\ Shape(h, R, X) /\ cptr \in B \cup {NULL} /\ B \subseteq Used(h.items)
  BY DEF CopyStarts, Building, Apart
<1>1. CASE cptr = NULL
  <2>1. r.h = h BY <1>1 DEF DuplicateChain
  <2> QED BY <1>1, <2>1 DEF CopiedAll, Grows
<1>2. CASE cptr # NULL
  <2> DEFINE d == CopyItem(copies, h, cptr, TRUE)
             h1 == IF nptr = NULL THEN Put(d.h, newitem, "child", d.p)
                                  ELSE suffix_object(d.h, nptr, d.p)
  <2>1. cptr \in B /\ cptr \in Used(h.items) BY <1>0, <1>2
  <2>2. ItemCopied(d, h, R, X) BY <1>0, <2>1, CopyItemRight
  <2>3. d.p # NULL => Grows(d.h, h, {}) /\ Twins(d.h, d.p, cptr) BY <1>0, <2>1, CopyItemAlike
  <2>4. r = IF d.p = NULL THEN [h |-> cJSON_Delete(d.h, newitem), p |-> NULL]
            ELSE copies[[h |-> h1, newitem |-> newitem, nptr |-> d.p, cptr |-> h.items[cptr].next]]
    BY <1>2 DEF DuplicateChain
  <2> HIDE DEF d
  <2>5. CASE d.p = NULL
    <3>1. r.p = NULL BY <2>4, <2>5
    <3> QED BY <3>1 DEF CopiedAll
  <2>6. CASE d.p # NULL
    <3>1. CopyLinked(h1, d, h, R, X, B, newitem, cptr) BY <1>2, <2>2, <2>6, CopyIsLinked
    <3> HIDE DEF h1
    <3>2. Grows(h1, h, {newitem}) /\ CopiedTo(h1, newitem, q, h.items[cptr].next)
      BY <1>2, <2>3, <2>6, <3>1, LinkedGrows
    <3>3. CopyStarts(h1, R, X, B, newitem, d.p, h.items[cptr].next) BY <3>1 DEF CopyLinked
    <3>4. r = copies[[h |-> h1, newitem |-> newitem, nptr |-> d.p, cptr |-> h.items[cptr].next]]
      BY <2>4, <2>6
    <3>5. CopiedAll(r, h1, newitem, q) BY <3>2, <3>3, <3>4 DEF CopiesAlike
    <3> QED BY <3>2, <3>5, GrowsOn DEF CopiedAll
  <2> QED BY <2>5, <2>6
<1> QED BY <1>1, <1>2

LEMMA CopiesAreAlike ==
    \A n \in Nat : CopiesAlike(Copies[n])
<1> DEFINE S == {n \in Nat : ~CopiesAlike(Copies[n])}
<1>1. SUFFICES ASSUME S # {} PROVE FALSE
  OBVIOUS
<1>2. PICK n \in S : \A m \in S : n <= m
  <2>1. S \in SUBSET Nat OBVIOUS
  <2> HIDE DEF S
  <2> QED BY <1>1, <2>1, LeastNatural
<1>3. n \in Nat /\ ~CopiesAlike(Copies[n]) BY <1>2
<1>4. n # 0 => CopiesAlike(Copies[n - 1]) /\ CopiesRight(Copies[n - 1])
  <2>1. n # 0 => n - 1 \in Nat /\ ~(n <= n - 1) BY <1>3
  <2>2. n # 0 => n - 1 \notin S
    <3> HIDE DEF S
    <3> QED BY <1>2, <2>1
  <2> QED BY <2>1, <2>2, CopiesAreRight
<1> HIDE DEF S
<1>5. ASSUME NEW h, NEW R, NEW X, NEW B, NEW newitem, NEW nptr, NEW cptr, NEW q,
             CopyStarts(h, R, X, B, newitem, nptr, cptr), q \in B, CopiedTo(h, newitem, q, cptr),
             NEW r, r = Copies[n][[h |-> h, newitem |-> newitem, nptr |-> nptr, cptr |-> cptr]]
      PROVE  CopiedAll(r, h, newitem, q)
  <2>1. r = IF n = 0 THEN [h |-> cJSON_Delete(h, newitem), p |-> NULL]
            ELSE DuplicateChain(Copies[n - 1], h, newitem, nptr, cptr)
    BY <1>3, <1>5, CopiesTurn
  <2>2. CASE n = 0
    <3>1. r.p = NULL BY <2>1, <2>2
    <3> QED BY <3>1 DEF CopiedAll
  <2>3. CASE n # 0
    <3>1. r = DuplicateChain(Copies[n - 1], h, newitem, nptr, cptr) BY <2>1, <2>3
    <3> QED BY <1>4, <1>5, <2>3, <3>1, ChainAlike
  <2> QED BY <2>2, <2>3
<1>6. CopiesAlike(Copies[n]) BY <1>5 DEF CopiesAlike
<1> QED BY <1>3, <1>6

(* A copy, if memory was left for it, stands for what it was made from.    *)
LEMMA DuplicateAlike ==
    ASSUME NEW h, NEW R, NEW X, Shape(h, R, X), NEW item \in Used(h.items),
           NEW d, d = cJSON_Duplicate(h, item, TRUE), d.p # NULL
    PROVE  Grows(d.h, h, {}) /\ Twins(d.h, d.p, item)
<1>1. 2 * Cardinality(Items) \in Nat BY CJsonAssumption, FS_CardinalityType
<1> DEFINE f == Copies[2 * Cardinality(Items)]
<1>2. CopiesRight(f) /\ CopiesAlike(f) BY <1>1, CopiesAreRight, CopiesAreAlike
<1>3. d = CopyItem(f, h, item, TRUE) BY DEF cJSON_Duplicate
<1> HIDE DEF f
<1> QED BY <1>2, <1>3, CopyItemAlike

-----------------------------------------------------------------------------
(* Parsing. The heap g is h and what was parsed, which changed the children *)
(* of no item of h but those in N.                                         *)
Stays(g, h, R, X, B, N) ==
    /\ Building(g, R, X, B) /\ Keeps(g, h, B)
    /\ Used(h.items) \subseteq Used(g.items)
    /\ \A q \in Used(h.items) \ N : Kids(g)[q] = Kids(h)[q]

ParseStays(r, h, R, X, B, N) == Stays(r.h, h, R, X, B, N) /\ r.rest \in Seq(Tokens)

LEMMA StaysStays ==
    ASSUME NEW h, NEW g, NEW k, NEW R, NEW X, NEW B, NEW N, NEW M,
           Stays(g, h, R, X, B, N), Stays(k, g, R, X, B, M)
    PROVE  Stays(k, h, R, X, B, N \cup M)
BY DEF Stays, Keeps

LEMMA StaysSame ==
    ASSUME NEW h, NEW R, NEW X, NEW B, NEW N, Building(h, R, X, B), NEW g,
           Building(g, R, X, B), Keeps(g, h, B), Kids(g) = Kids(h), Used(g.items) = Used(h.items)
    PROVE  Stays(g, h, R, X, B, N)
BY DEF Stays

LEMMA MalformedStays ==
    ASSUME NEW h, NEW R, NEW X, NEW B, NEW N, Building(h, R, X, B), NEW v \in Seq(Tokens)
    PROVE  ParseStays(Malformed(h, v), h, R, X, B, N) /\ ParseStays(NoMemory(h, v), h, R, X, B, N)
<1>0. h \in Heaps BY DEF Building, Shape
<1> DEFINE g == [h EXCEPT !.ep = TRUE]
<1>1. g \in Heaps /\ g.items = h.items /\ g.texts = h.texts BY <1>0 DEF Heaps
<1> HIDE DEF g
<1>2. Building(g, R, X, B) /\ Kids(g) = Kids(h) /\ Keeps(g, h, B) BY <1>1, SameBuilding
<1>3. Stays(g, h, R, X, B, N) BY <1>1, <1>2, StaysSame
<1>4. Stays(h, h, R, X, B, N) BY DEF Stays, Keeps
<1>5. Malformed(h, v).h = g /\ Malformed(h, v).rest = v BY DEF Malformed, g
<1>6. NoMemory(h, v).h = h /\ NoMemory(h, v).rest = v BY DEF NoMemory
<1> QED BY <1>3, <1>4, <1>5, <1>6 DEF ParseStays

LEMMA TailTokens ==
    ASSUME NEW v \in Seq(Tokens), NEW S, Starts(v, S)
    PROVE  Tail(v) \in Seq(Tokens) /\ Head(v) \in S /\ v # <<>>
BY DEF Starts

LEMMA TypedStays ==
    ASSUME NEW h, NEW R, NEW X, NEW B, NEW N, Building(h, R, X, B), NEW p \in Used(h.items) \ B,
           NEW t \in ItemTypes
    PROVE  Stays(Put(h, p, "type", t), h, R, X, B, N) /\ Kids(Put(h, p, "type", t)) = Kids(h)
<1> DEFINE g == Put(h, p, "type", t)
<1>1. /\ Building(g, R, X, B) /\ Points(g, h, p, "type", t) /\ Keeps(g, h, B)
      /\ Kids(g) = Kids(h)
  BY TypedBuilding
<1>2. Used(g.items) = Used(h.items) BY <1>1 DEF Points
<1> HIDE DEF g
<1>3. Stays(g, h, R, X, B, N) BY <1>1, <1>2, StaysSame
<1> QED BY <1>1, <1>3 DEF g

(* A string becomes the value of an item that had none, or, moved from     *)
(* there, its name.                                                        *)
IsString(k, s, p) == k = [s.h EXCEPT !.items[p].valuestring = s.p, !.items[p].type = "cJSON_String"]

LEMMA StringStays ==
    ASSUME NEW h, NEW R, NEW X, NEW B, NEW N, Building(h, R, X, B), NEW p \in Used(h.items) \ B,
           NEW s, Copied(s, h), h.items[p].valuestring = NULL,
           NEW k, IsString(k, s, p)
    PROVE  /\ Stays(k, h, R, X, B, N) /\ Kids(k) = Kids(h)
           /\ h.items[p].string = NULL =>
                LET m == Put(Put(k, p, "string", k.items[p].valuestring), p, "valuestring", NULL)
                IN Stays(m, h, R, X, B, N) /\ m.items[p].valuestring = NULL /\ Kids(m) = Kids(h)
<1> DEFINE t == "cJSON_String"
           g == Put(h, p, "type", t)
           y == Put(s.h, p, "valuestring", s.p)
           m == Put(Put(k, p, "string", k.items[p].valuestring), p, "valuestring", NULL)
<1>0. h \in Heaps /\ p \in Used(h.items) /\ p \in Items /\ p # NULL /\ t \in ItemTypes
  BY UsedFacts DEF Building, Shape, ItemTypes
<1>1. /\ s.h \in Heaps /\ s.h.items = h.items /\ s.p \in Texts \cup {NULL}
      /\ Used(s.h.texts) = Used(h.texts) \cup ({s.p} \ {NULL})
      /\ s.p \notin Used(h.texts)
  BY DEF Copied
<1>2. /\ Points(y, s.h, p, "valuestring", s.p) /\ y.texts = s.h.texts
  <2>1. p \in Used(s.h.items) BY <1>0, <1>1
  <2> QED BY <1>1, <2>1, PutPoints
<1>3. Points(y, h, p, "valuestring", s.p) BY <1>1, <1>2 DEF Points
<1>4. k = Put(y, p, "type", t) BY <1>0 DEF IsString, Put
<1> HIDE DEF t, y
<1>5. Building(y, R, X, B) /\ Keeps(y, h, B) /\ Kids(y) = Kids(h)
  <2>1. h.items[p]["valuestring"] = NULL OBVIOUS
  <2>2. Used(y.texts) = Used(s.h.texts) BY <1>2
  <2>3. "valuestring" \in {"string", "valuestring"} OBVIOUS
  <2> QED BY <1>3, <2>1, <2>2, <2>3, GivenString
<1>6. y \in Heaps /\ Used(y.items) = Used(h.items) /\ p \in Used(y.items) \ B
  BY <1>0, <1>3 DEF Points
<1>7. Building(k, R, X, B) /\ Points(k, y, p, "type", t) /\ Keeps(k, y, B) /\ Kids(k) = Kids(y) /\ k.texts = y.texts
  <2> DEFINE x == Put(y, p, "type", t)
  <2>1. /\ Building(x, R, X, B) /\ Points(x, y, p, "type", t) /\ Keeps(x, y, B)
        /\ Kids(x) = Kids(y) /\ x.texts = y.texts
    BY <1>0, <1>5, <1>6, TypedBuilding
  <2> QED BY <1>4, <2>1
<1>8. Used(k.items) = Used(h.items) /\ k \in Heaps /\ p \in Used(k.items) BY <1>6, <1>7 DEF Points
<1>9. Stays(k, h, R, X, B, N) /\ Kids(k) = Kids(h)
  <2>1. Keeps(k, h, B) BY <1>5, <1>7 DEF Keeps
  <2> QED BY <1>5, <1>7, <1>8, <2>1, StaysSame
<1>10. ASSUME h.items[p].string = NULL
       PROVE  Stays(m, h, R, X, B, N) /\ m.items[p].valuestring = NULL /\ Kids(m) = Kids(h)
  <2>1. k.items[p].valuestring = s.p
    <3>1. y.items[p].valuestring = s.p BY <1>0, <1>3 DEF Points
    <3> QED BY <1>6, <1>7, <3>1 DEF Points
  <2> DEFINE l == Put(k, p, "string", s.p)
  <2>2. Points(l, k, p, "string", s.p) /\ l.texts = k.texts
    <3>1. "string" \in {"string", "valuestring"} /\ s.p \in Texts \cup {NULL} BY <1>1
    <3> QED BY <1>8, <3>1, PutPoints
  <2>3. m = Put(l, p, "valuestring", NULL) BY <2>1
  <2> HIDE DEF l, m
  <2>4. l \in Heaps /\ Used(l.items) = Used(h.items) /\ p \in Used(l.items) BY <1>8, <2>2 DEF Points
  <2>5. Points(m, l, p, "valuestring", NULL) /\ m.texts = l.texts
    BY <2>3, <2>4, PutPoints
  <2>6. /\ Building(g, R, X, B) /\ Points(g, h, p, "type", t) /\ Keeps(g, h, B)
        /\ Kids(g) = Kids(h) /\ g.texts = h.texts
    BY <1>0, TypedBuilding
  <2> HIDE DEF g
  <2>7. Used(g.items) = Used(h.items) /\ g.items[p].string = NULL /\ p \in Used(g.items) \ B
    BY <1>0, <1>10, <2>6 DEF Points
  <2>8. Points(m, g, p, "string", s.p)
    <3>1. m \in Heaps /\ Used(m.items) = Used(g.items) BY <2>4, <2>5, <2>7 DEF Points
    <3>2. ASSUME NEW q \in Used(g.items), q # p PROVE m.items[q] = g.items[q]
      <4>1. q \in Used(h.items) BY <2>7
      <4>2. m.items[q] = l.items[q] BY <2>4, <2>5, <3>2, <4>1 DEF Points
      <4>3. l.items[q] = k.items[q] BY <1>8, <2>2, <3>2, <4>1 DEF Points
      <4>4. k.items[q] = y.items[q] BY <1>6, <1>7, <3>2, <4>1 DEF Points
      <4>5. y.items[q] = h.items[q] BY <1>3, <3>2, <4>1 DEF Points
      <4>6. g.items[q] = h.items[q] BY <2>6, <3>2, <4>1 DEF Points
      <4> QED BY <4>2, <4>3, <4>4, <4>5, <4>6
    <3>3. /\ m.items[p].next = g.items[p].next
          /\ m.items[p].prev = g.items[p].prev
          /\ m.items[p].child = g.items[p].child
          /\ m.items[p].ref = g.items[p].ref
      <4>1. /\ g.items[p].next = h.items[p].next /\ g.items[p].prev = h.items[p].prev
            /\ g.items[p].child = h.items[p].child /\ g.items[p].ref = h.items[p].ref
        BY <1>0, <2>6 DEF Points
      <4>2. /\ y.items[p].next = h.items[p].next /\ y.items[p].prev = h.items[p].prev
            /\ y.items[p].child = h.items[p].child /\ y.items[p].ref = h.items[p].ref
        BY <1>0, <1>3 DEF Points
      <4>3. /\ k.items[p].next = y.items[p].next /\ k.items[p].prev = y.items[p].prev
            /\ k.items[p].child = y.items[p].child /\ k.items[p].ref = y.items[p].ref
        BY <1>6, <1>7 DEF Points
      <4>4. /\ l.items[p].next = k.items[p].next /\ l.items[p].prev = k.items[p].prev
            /\ l.items[p].child = k.items[p].child /\ l.items[p].ref = k.items[p].ref
        BY <1>8, <2>2 DEF Points
      <4>5. /\ m.items[p].next = l.items[p].next /\ m.items[p].prev = l.items[p].prev
            /\ m.items[p].child = l.items[p].child /\ m.items[p].ref = l.items[p].ref
        BY <2>4, <2>5 DEF Points
      <4> QED BY <4>1, <4>2, <4>3, <4>4, <4>5
    <3>4. m.items[p].string = s.p /\ m.items[p].valuestring = NULL /\ g.items[p].valuestring = NULL
      <4>1. g.items[p].valuestring = NULL BY <1>0, <2>6 DEF Points
      <4>2. l.items[p].string = s.p BY <1>8, <2>2 DEF Points
      <4>3. m.items[p].string = s.p /\ m.items[p].valuestring = NULL BY <2>4, <2>5, <4>2 DEF Points
      <4> QED BY <4>1, <4>3
    <3> QED BY <3>1, <3>2, <3>3, <3>4 DEF Points
  <2>9. /\ Building(m, R, X, B) /\ Keeps(m, g, B) /\ Kids(m) = Kids(g)
    <3>1. g.items[p]["string"] = NULL BY <2>7
    <3>2. Used(m.texts) = Used(s.h.texts) BY <1>2, <1>7, <2>2, <2>5
    <3> DEFINE z == [h |-> Put(s.h, p, "type", t), p |-> s.p]
    <3>3. z.h = Put(s.h, p, "type", t) /\ z.p = s.p OBVIOUS
    <3> HIDE DEF z
    <3>4. z.h \in Heaps /\ z.h.texts = s.h.texts
      <4>1. p \in Used(s.h.items) BY <1>0, <1>1
      <4>2. Points(Put(s.h, p, "type", t), s.h, p, "type", t) /\ Put(s.h, p, "type", t).texts = s.h.texts
        BY <1>0, <1>1, <4>1, PutPoints
      <4> QED BY <3>3, <4>2 DEF Points
    <3>5. z.h.items = g.items BY <1>0, <1>1, <3>3 DEF g, Put, Heaps
    <3>6. Copied(z, g) BY <1>1, <2>6, <3>3, <3>4, <3>5 DEF Copied
    <3>7. Points(m, g, p, "string", z.p) /\ Used(m.texts) = Used(z.h.texts) BY <2>8, <3>2, <3>3, <3>4
    <3>8. "string" \in {"string", "valuestring"} OBVIOUS
    <3> QED BY <2>6, <2>7, <3>1, <3>6, <3>7, <3>8, GivenString
  <2>10. Used(m.items) = Used(h.items) /\ m.items[p].valuestring = NULL
    BY <1>0, <2>4, <2>5 DEF Points
  <2>11. Keeps(m, h, B) BY <2>6, <2>9 DEF Keeps
  <2>12. Stays(m, h, R, X, B, N) BY <2>6, <2>9, <2>10, <2>11, StaysSame
  <2> QED BY <2>6, <2>9, <2>10, <2>12
<1> QED BY <1>9, <1>10

(* The loop of parse_array and parse_object: child is the last of the      *)
(* children of the item, which is outside B.                               *)
Closing == {"]", "}"}

MembersStart(h, R, X, B, item, child) ==
    /\ Building(h, R, X, B) /\ item \in Used(h.items) \ B
    /\ child = IF Kids(h)[item] = <<>> THEN NULL ELSE Last(Kids(h)[item])

MembersRight(f) ==
    \A h, R, X, B, item, child, v, close :
        MembersStart(h, R, X, B, item, child) /\ v \in Seq(Tokens) /\ close \in Closing
        => ParseStays(f[[h |-> h, item |-> item, child |-> child, v |-> v, close |-> close]],
                      h, R, X, B, {item})

(* An item whose value is still to be parsed.                              *)
ValueStart(h, R, X, B, item) ==
    /\ Building(h, R, X, B) /\ item \in Used(h.items) \ B
    /\ Kids(h)[item] = <<>> /\ h.items[item].valuestring = NULL

LEMMA TextRight ==
    ASSUME NEW h, NEW R, NEW X, NEW B, NEW N, NEW p, ValueStart(h, R, X, B, p),
           NEW v \in Seq(Tokens), NEW r, r = parse_string(h, p, v)
    PROVE  /\ ParseStays(r, h, R, X, B, N)
           /\ h.items[p].string = NULL /\ r.ok =>
                LET m == Put(Put(r.h, p, "string", r.h.items[p].valuestring), p, "valuestring", NULL)
                IN Stays(m, h, R, X, B, N) /\ m.items[p].valuestring = NULL /\ Kids(m) = Kids(h)
<1> DEFINE s == cJSON_strdup(h, Head(v))
           m == Put(Put(r.h, p, "string", r.h.items[p].valuestring), p, "valuestring", NULL)
<1>0. h \in Heaps /\ Building(h, R, X, B) /\ p \in Used(h.items) \ B /\ h.items[p].valuestring = NULL
  BY DEF ValueStart, Building, Shape
<1>1. CASE ~Starts(v, Names)
  <2>1. r = Malformed(h, v) BY <1>1 DEF parse_string
  <2>2. ~r.ok BY <2>1 DEF Malformed
  <2> QED BY <1>0, <2>1, <2>2, MalformedStays
<1>2. CASE Starts(v, Names)
  <2>1. Tail(v) \in Seq(Tokens) /\ Head(v) \in Names BY <1>2, TailTokens
  <2>2. Copied(s, h) BY <1>0, <2>1, StrdupCopied
  <2>3. CASE s.p = NULL
    <3>1. r = NoMemory(s.h, v) BY <1>2, <2>3 DEF parse_string
    <3>2. s.h \in Heaps /\ s.h.items = h.items /\ Used(s.h.texts) = Used(h.texts)
      BY <2>2, <2>3 DEF Copied
    <3>3. r.h = s.h /\ r.rest = v /\ ~r.ok BY <3>1 DEF NoMemory
    <3> HIDE DEF s
    <3>4. Building(s.h, R, X, B) /\ Kids(s.h) = Kids(h) /\ Keeps(s.h, h, B)
      BY <1>0, <3>2, SameBuilding
    <3>5. Stays(s.h, h, R, X, B, N) BY <1>0, <3>2, <3>4, StaysSame
    <3> QED BY <3>3, <3>5 DEF ParseStays
  <2>4. CASE s.p # NULL
    <3> DEFINE k == [s.h EXCEPT !.items[p].valuestring = s.p, !.items[p].type = "cJSON_String"]
    <3>1. r = Parsed(k, Tail(v)) BY <1>2, <2>4 DEF parse_string
    <3>2. IsString(k, s, p) BY DEF IsString
    <3> HIDE DEF s, k
    <3>3. r.h = k /\ r.rest = Tail(v) BY <3>1 DEF Parsed
    <3>4. /\ Stays(k, h, R, X, B, N)
          /\ h.items[p].string = NULL =>
               LET l == Put(Put(k, p, "string", k.items[p].valuestring), p, "valuestring", NULL)
               IN Stays(l, h, R, X, B, N) /\ l.items[p].valuestring = NULL /\ Kids(l) = Kids(h)
      BY <1>0, <2>2, <3>2, StringStays
    <3> QED BY <2>1, <3>3, <3>4 DEF ParseStays
  <2> QED BY <2>3, <2>4
<1> QED BY <1>1, <1>2

LEMMA ParsedFacts ==
    \A h, v : Parsed(h, v).h = h /\ Parsed(h, v).rest = v
BY DEF Parsed

(* An empty list, or the members of one.                                   *)
ListParsed(members, h, item, v, type, close) ==
    LET a == Put(h, item, "type", type) IN
    IF Starts(Tail(v), {close}) THEN Parsed(a, Tail(Tail(v)))
    ELSE members[[h |-> a, item |-> item, child |-> NULL, v |-> Tail(v), close |-> close]]

LEMMA ListRight ==
    ASSUME NEW members, MembersRight(members),
           NEW h, NEW R, NEW X, NEW B, NEW item, ValueStart(h, R, X, B, item),
           NEW v \in Seq(Tokens), NEW S, Starts(v, S), NEW t \in ItemTypes,
           NEW close \in Closing, NEW r, r = ListParsed(members, h, item, v, t, close)
    PROVE  ParseStays(r, h, R, X, B, {item})
<1> DEFINE a == Put(h, item, "type", t)
<1>0. Building(h, R, X, B) /\ item \in Used(h.items) \ B /\ Kids(h)[item] = <<>> BY DEF ValueStart
<1>1. Stays(a, h, R, X, B, {item}) /\ Kids(a) = Kids(h)
  <2>1. a = Put(h, item, "type", t) OBVIOUS
  <2> HIDE DEF a
  <2>2. Building(a, R, X, B) /\ Points(a, h, item, "type", t) /\ Keeps(a, h, B) /\ Kids(a) = Kids(h)
    BY <1>0, <2>1, TypedBuilding
  <2>3. Used(a.items) = Used(h.items) BY <2>2 DEF Points
  <2> QED BY <1>0, <2>2, <2>3, StaysSame
<1>2. Tail(v) \in Seq(Tokens) BY TailTokens
<1>3. \/ Starts(Tail(v), {close}) /\ r = Parsed(a, Tail(Tail(v)))
      \/ r = members[[h |-> a, item |-> item, child |-> NULL, v |-> Tail(v), close |-> close]]
  BY DEF ListParsed
<1> HIDE DEF a
<1>4. CASE Starts(Tail(v), {close}) /\ r = Parsed(a, Tail(Tail(v)))
  <2>1. Tail(Tail(v)) \in Seq(Tokens) BY <1>2, <1>4, TailTokens
  <2>2. r.h = a /\ r.rest = Tail(Tail(v)) BY <1>4, ParsedFacts
  <2> QED BY <1>1, <2>1, <2>2 DEF ParseStays
<1>5. CASE r = members[[h |-> a, item |-> item, child |-> NULL, v |-> Tail(v), close |-> close]]
  <2>1. MembersStart(a, R, X, B, item, NULL)
    <3>1. Building(a, R, X, B) /\ item \in Used(a.items) \ B BY <1>0, <1>1 DEF Stays
    <3> QED BY <1>0, <1>1, <3>1 DEF MembersStart
  <2>2. ParseStays(r, a, R, X, B, {item}) BY <1>2, <1>5, <2>1 DEF MembersRight
  <2>3. Stays(r.h, h, R, X, B, {item} \cup {item}) BY <1>1, <2>2, StaysStays DEF ParseStays
  <2> QED BY <2>2, <2>3 DEF ParseStays
<1> QED BY <1>3, <1>4, <1>5

LEMMA ValueRight ==
    ASSUME NEW members, MembersRight(members),
           NEW h, NEW R, NEW X, NEW B, NEW item, ValueStart(h, R, X, B, item),
           NEW v \in Seq(Tokens), NEW r, r = parse_value(members, h, item, v)
    PROVE  ParseStays(r, h, R, X, B, {item})
<1>0. Building(h, R, X, B) /\ item \in Used(h.items) \ B BY DEF ValueStart
<1>1. /\ "cJSON_NULL" \in ItemTypes /\ "cJSON_Number" \in ItemTypes
      /\ "cJSON_Array" \in ItemTypes /\ "cJSON_Object" \in ItemTypes
      /\ "]" \in Closing /\ "}" \in Closing
  BY DEF ItemTypes, Closing
<1>2. ASSUME NEW S, NEW t \in ItemTypes, Starts(v, S), r = Parsed(Put(h, item, "type", t), Tail(v))
      PROVE  ParseStays(r, h, R, X, B, {item})
  <2>1. Tail(v) \in Seq(Tokens) BY <1>2, TailTokens
  <2>2. r.h = Put(h, item, "type", t) /\ r.rest = Tail(v) BY <1>2, ParsedFacts
  <2>3. Stays(Put(h, item, "type", t), h, R, X, B, {item}) BY <1>0, TypedStays
  <2> QED BY <2>1, <2>2, <2>3 DEF ParseStays
<1>3. ASSUME NEW S, NEW t \in ItemTypes, NEW close \in Closing,
             Starts(v, S), r = ListParsed(members, h, item, v, t, close)
      PROVE  ParseStays(r, h, R, X, B, {item})
  BY <1>3, ListRight
<1>4. CASE Starts(v, {"null"}) /\ r = Parsed(Put(h, item, "type", "cJSON_NULL"), Tail(v))
  BY <1>1, <1>2, <1>4
<1>5. CASE r = parse_string(h, item, v) BY <1>5, TextRight
<1>6. CASE Starts(v, {Number}) /\ r = Parsed(Put(h, item, "type", "cJSON_Number"), Tail(v))
  BY <1>1, <1>2, <1>6
<1>7. CASE Starts(v, {"["}) /\ r = ListParsed(members, h, item, v, "cJSON_Array", "]")
  BY <1>1, <1>3, <1>7
<1>8. CASE Starts(v, {"{"}) /\ r = ListParsed(members, h, item, v, "cJSON_Object", "}")
  BY <1>1, <1>3, <1>8
<1>9. CASE r = Malformed(h, v) BY <1>0, <1>9, MalformedStays
<1>10. r = CASE Starts(v, {"null"}) -> Parsed(Put(h, item, "type", "cJSON_NULL"), Tail(v))
             [] Starts(v, Names) -> parse_string(h, item, v)
             [] Starts(v, {Number}) -> Parsed(Put(h, item, "type", "cJSON_Number"), Tail(v))
             [] Starts(v, {"["}) -> ListParsed(members, h, item, v, "cJSON_Array", "]")
             [] Starts(v, {"{"}) -> ListParsed(members, h, item, v, "cJSON_Object", "}")
             [] OTHER -> Malformed(h, v)
  BY DEF parse_value, ListParsed
<1> QED BY <1>4, <1>5, <1>6, <1>7, <1>8, <1>9, <1>10

(* What follows a member that was parsed.                                  *)
LEMMA MoreRight ==
    ASSUME NEW members, MembersRight(members),
           NEW l, NEW R, NEW X, NEW B, NEW item, NEW new, MembersStart(l, R, X, B, item, new),
           new # NULL, item # new, NEW r, ParseStays(r, l, R, X, B, {new}), NEW close \in Closing,
           NEW z, z = parse_more(members, r, item, new, close)
    PROVE  ParseStays(z, l, R, X, B, {item, new})
<1>0. /\ Building(l, R, X, B) /\ item \in Used(l.items) \ B
      /\ new = IF Kids(l)[item] = <<>> THEN NULL ELSE Last(Kids(l)[item])
  BY DEF MembersStart
<1>1. /\ Building(r.h, R, X, B) /\ Used(l.items) \subseteq Used(r.h.items)
      /\ \A q \in Used(l.items) \ {new} : Kids(r.h)[q] = Kids(l)[q]
      /\ r.rest \in Seq(Tokens) /\ Stays(r.h, l, R, X, B, {new})
  BY DEF ParseStays, Stays
<1>2. MembersStart(r.h, R, X, B, item, new) BY <1>0, <1>1 DEF MembersStart
<1>3. ASSUME NEW w, ParseStays(w, r.h, R, X, B, {item}) PROVE ParseStays(w, l, R, X, B, {item, new})
  <2>1. Stays(w.h, l, R, X, B, {new} \cup {item}) BY <1>1, <1>3, StaysStays DEF ParseStays
  <2>2. {new} \cup {item} = {item, new} OBVIOUS
  <2> QED BY <1>3, <2>1, <2>2 DEF ParseStays
<1>4. \/ z = r
      \/ Starts(r.rest, {","})
         /\ z = members[[h |-> r.h, item |-> item, child |-> new, v |-> Tail(r.rest), close |-> close]]
      \/ Starts(r.rest, {close}) /\ z = Parsed(r.h, Tail(r.rest))
      \/ z = Malformed(r.h, r.rest)
  BY DEF parse_more
<1>5. ParseStays(r, r.h, R, X, B, {item})
  BY <1>1 DEF ParseStays, Stays, Keeps
<1>6. CASE z = r BY <1>3, <1>5, <1>6
<1>7. CASE /\ Starts(r.rest, {","})
           /\ z = members[[h |-> r.h, item |-> item, child |-> new, v |-> Tail(r.rest), close |-> close]]
  <2>1. Tail(r.rest) \in Seq(Tokens) BY <1>1, <1>7, TailTokens
  <2>2. ParseStays(z, r.h, R, X, B, {item}) BY <1>2, <1>7, <2>1 DEF MembersRight
  <2> QED BY <1>3, <2>2
<1>8. CASE Starts(r.rest, {close}) /\ z = Parsed(r.h, Tail(r.rest))
  <2>1. Tail(r.rest) \in Seq(Tokens) BY <1>1, <1>8, TailTokens
  <2>2. z.h = r.h /\ z.rest = Tail(r.rest) BY <1>8, ParsedFacts
  <2>3. ParseStays(z, r.h, R, X, B, {item}) BY <1>5, <2>1, <2>2 DEF ParseStays
  <2> QED BY <1>3, <2>3
<1>9. CASE z = Malformed(r.h, r.rest)
  <2>1. ParseStays(z, r.h, R, X, B, {item}) BY <1>1, <1>9, MalformedStays
  <2> QED BY <1>3, <2>1
<1> QED BY <1>4, <1>6, <1>7, <1>8, <1>9

(* A member of an object: its name, which was parsed as its value, and then *)
(* its value.                                                              *)
LEMMA NamedRight ==
    ASSUME NEW members, MembersRight(members),
           NEW l, NEW R, NEW X, NEW B, NEW item, NEW new, MembersStart(l, R, X, B, item, new),
           new # NULL, item # new, ValueStart(l, R, X, B, new), l.items[new].string = NULL,
           NEW v \in Seq(Tokens), NEW key, key = parse_string(l, new, v),
           NEW z, z = parse_named(members, key, item, new)
    PROVE  ParseStays(z, l, R, X, B, {item, new})
<1> DEFINE m == Put(Put(key.h, new, "string", key.h.items[new].valuestring), new, "valuestring", NULL)
           r == parse_value(members, m, new, Tail(key.rest))
           N == {item, new}
<1>1. /\ ParseStays(key, l, R, X, B, N)
      /\ key.ok => Stays(m, l, R, X, B, N) /\ m.items[new].valuestring = NULL /\ Kids(m) = Kids(l)
  BY TextRight
<1>2. \/ ~key.ok /\ z = key
      \/ key.ok /\ z = Malformed(m, key.rest)
      \/ key.ok /\ Starts(key.rest, {":"}) /\ z = parse_more(members, r, item, new, "}")
  BY DEF parse_named
<1>3. key.rest \in Seq(Tokens) BY <1>1 DEF ParseStays
<1>4. CASE ~key.ok /\ z = key BY <1>1, <1>4
<1> HIDE DEF m, N
<1>5. ASSUME key.ok, NEW w, ParseStays(w, m, R, X, B, N) PROVE ParseStays(w, l, R, X, B, N)
  <2>1. Stays(w.h, l, R, X, B, N \cup N) BY <1>1, <1>5, StaysStays DEF ParseStays
  <2>2. N \cup N = N OBVIOUS
  <2> QED BY <1>5, <2>1, <2>2 DEF ParseStays
<1>6. CASE key.ok /\ z = Malformed(m, key.rest)
  <2>1. Building(m, R, X, B) BY <1>1, <1>6 DEF Stays
  <2>2. ParseStays(z, m, R, X, B, N) BY <1>3, <1>6, <2>1, MalformedStays
  <2> QED BY <1>5, <1>6, <2>2 DEF N
<1>7. CASE key.ok /\ Starts(key.rest, {":"}) /\ z = parse_more(members, r, item, new, "}")
  <2>1. Tail(key.rest) \in Seq(Tokens) BY <1>3, <1>7, TailTokens
  <2>2. Building(m, R, X, B) /\ Used(l.items) \subseteq Used(m.items) BY <1>1, <1>7 DEF Stays
  <2>3. ValueStart(m, R, X, B, new) BY <1>1, <1>7, <2>2 DEF ValueStart
  <2>4. MembersStart(m, R, X, B, item, new) BY <1>1, <1>7, <2>2 DEF MembersStart
  <2>5. ParseStays(r, m, R, X, B, {new}) BY <2>1, <2>3, ValueRight
  <2> HIDE DEF r
  <2>6. "}" \in Closing BY DEF Closing
  <2>7. ParseStays(z, m, R, X, B, N) BY <1>7, <2>4, <2>5, <2>6, MoreRight DEF N
  <2> QED BY <1>5, <1>7, <2>7 DEF N
<1> QED BY <1>2, <1>4, <1>6, <1>7 DEF N

(* A new item becomes the last child of the item.                          *)
NewMember(l, h, R, X, B, item, a) ==
    /\ Stays(l, h, R, X, B, {item}) /\ a \notin Used(h.items)
    /\ MembersStart(l, R, X, B, item, a)
    /\ ValueStart(l, R, X, B, a) /\ l.items[a].string = NULL

LEMMA NewMemberFacts ==
    ASSUME NEW h, NEW R, NEW X, NEW B, NEW item, NEW child, MembersStart(h, R, X, B, item, child),
           NEW n, n = cJSON_New_Item(h), n.p # NULL,
           NEW l, l = IF child = NULL THEN Put(n.h, item, "child", n.p)
                                      ELSE suffix_object(n.h, child, n.p)
    PROVE  NewMember(l, h, R, X, B, item, n.p) /\ n.p # item
<1> DEFINE U == Used(h.items)
           g == n.h
           a == n.p
           Q == R \cup {a}
           D == {a}
<1>0. /\ Building(h, R, X, B) /\ h \in Heaps /\ Linked(h, R) /\ R \subseteq U /\ item \in U \ B
      /\ child = IF Kids(h)[item] = <<>> THEN NULL ELSE Last(Kids(h)[item])
  BY DEF MembersStart, Building, Shape, Linked, LinkedAs
<1>1. Extends(g, h, R, X, B, a) /\ g.items[a] = Blank BY <1>0, NewExtends
<1> HIDE DEF g, a
<1>2. /\ B \subseteq U /\ a \in Items /\ a \notin U /\ Used(g.items) = U \cup {a}
      /\ Building(g, Q, X, B) /\ Keeps(g, h, U)
      /\ Kids(g) = [p \in Used(g.items) |-> IF p = a THEN <<>> ELSE Kids(h)[p]]
  BY <1>1 DEF Extends
<1>3. g \in Heaps /\ Linked(g, Q) BY <1>2 DEF Building, Shape
<1>4. Kids(g)[a] = <<>> /\ \A q \in U : Kids(g)[q] = Kids(h)[q]
  <2> DEFINE K == Kids(h)
  <2>1. Kids(g) = [p \in Used(g.items) |-> IF p = a THEN <<>> ELSE K[p]] BY <1>2
  <2> HIDE DEF K
  <2>2. Kids(g)[a] = <<>> /\ \A q \in U : Kids(g)[q] = K[q] BY <1>2, <2>1
  <2> QED BY <2>2 DEF K
<1>5. l = Behind(g, item, a)
  <2>1. Kids(h)[item] = <<>> <=> h.items[item].child = NULL BY <1>0, KidsList
  <2>2. child = NULL <=> Kids(h)[item] = <<>>
    <3>1. Kids(h)[item] \in Seq(U) BY <1>0, KidsList
    <3>2. NULL \notin U BY <1>0, UsedFacts
    <3> DEFINE s == Kids(h)[item]
    <3>3. s # <<>> => Last(s) \in U
      <4> HIDE DEF s
      <4>1. s \in Seq(U) BY <3>1 DEF s
      <4> QED BY <4>1 DEF Last
    <3> QED BY <1>0, <3>2, <3>3
  <2>3. Kids(g)[item] = Kids(h)[item] /\ g.items[item] = h.items[item] BY <1>0, <1>2, <1>4 DEF Keeps
  <2> QED BY <1>0, <2>1, <2>2, <2>3 DEF Behind, g, a
<1>6. Closed(g, Kids(g), D)
  <2>1. Children(Kids(g), a) = {}
    <3> DEFINE L == Kids(g)
    <3>1. L[a] = <<>> BY <1>4
    <3> HIDE DEF L
    <3>2. Children(L, a) = {} BY <3>1 DEF Children
    <3> QED BY <3>2 DEF L
  <2> QED BY <2>1 DEF Closed
<1>7. item \in Used(g.items) \ B /\ a \in Q \ B /\ a \in D /\ item \notin D /\ a # item
  BY <1>0, <1>2
<1>8. /\ Building(l, Q \ {a}, X, B) /\ Keeps(l, g, B) /\ SameButLinks(l, g)
      /\ Kids(l) = [Kids(g) EXCEPT ![item] = Append(Kids(g)[item], a)]
  <2> HIDE DEF D, Q
  <2>1. AppendsApart(l, g, Q \ {a}, X, B, item, a)
    BY <1>2, <1>5, <1>6, <1>7, AppendedBuilding
  <2> QED BY <2>1 DEF AppendsApart
<1>9. Q \ {a} = R BY <1>0, <1>2
<1>10. /\ Used(l.items) = Used(g.items)
       /\ l.items[a].string = NULL /\ l.items[a].valuestring = NULL
  BY <1>1, <1>2, <1>8 DEF SameButLinks, Blank
<1>11. /\ Kids(l)[item] = Append(Kids(g)[item], a) /\ Kids(l)[a] = <<>>
       /\ \A q \in U \ {item} : Kids(l)[q] = Kids(h)[q]
  <2> DEFINE K == Kids(g)
             x == Append(K[item], a)
  <2>1. Kids(l) = [K EXCEPT ![item] = x] BY <1>8
  <2>2. DOMAIN K = Used(g.items) BY DEF Kids
  <2> HIDE DEF K, x
  <2>3. Kids(l)[item] = x /\ Kids(l)[a] = K[a] /\ \A q \in U \ {item} : Kids(l)[q] = K[q]
    BY <1>2, <1>7, <2>1, <2>2
  <2> QED BY <1>4, <2>3 DEF K, x
<1>12. Kids(l)[item] # <<>> /\ Last(Kids(l)[item]) = a
  <2> DEFINE s == Kids(g)[item]
  <2>1. s \in Seq(Used(g.items)) BY <1>3, <1>7, KidsList
  <2>2. a \in Used(g.items) BY <1>2
  <2> HIDE DEF s
  <2>3. Append(s, a) # <<>> /\ Len(Append(s, a)) = Len(s) + 1 /\ Append(s, a)[Len(s) + 1] = a
    BY <2>1, <2>2
  <2>4. Last(Append(s, a)) = a BY <2>3 DEF Last
  <2> QED BY <1>11, <2>3, <2>4 DEF s
<1>13. Building(l, R, X, B) BY <1>8, <1>9
<1>14. Keeps(l, h, B) BY <1>2, <1>8 DEF Keeps
<1>15. Stays(l, h, R, X, B, {item}) BY <1>2, <1>10, <1>11, <1>13, <1>14 DEF Stays
<1>16. MembersStart(l, R, X, B, item, a) BY <1>7, <1>10, <1>12, <1>13 DEF MembersStart
<1>17. ValueStart(l, R, X, B, a) BY <1>2, <1>10, <1>11, <1>13 DEF ValueStart
<1> QED BY <1>2, <1>7, <1>10, <1>15, <1>16, <1>17 DEF NewMember, a

LEMMA MembersStep ==
    ASSUME NEW members, MembersRight(members),
           NEW h, NEW R, NEW X, NEW B, NEW item, NEW child, MembersStart(h, R, X, B, item, child),
           NEW v \in Seq(Tokens), NEW close \in Closing,
           NEW z, z = parse_members(members, h, item, child, v, close)
    PROVE  ParseStays(z, h, R, X, B, {item})
<1> DEFINE n == cJSON_New_Item(h)
           a == n.p
           l == IF child = NULL THEN Put(n.h, item, "child", a) ELSE suffix_object(n.h, child, a)
           r == parse_value(members, l, a, v)
<1>0. Building(h, R, X, B) /\ h \in Heaps BY DEF MembersStart, Building, Shape
<1>1. \/ a = NULL /\ z = NoMemory(n.h, v)
      \/ a # NULL /\ z = parse_more(members, r, item, a, close)
      \/ a # NULL /\ z = parse_named(members, parse_string(l, a, v), item, a)
  BY DEF parse_members
<1>2. CASE a = NULL /\ z = NoMemory(n.h, v)
  <2>1. n.h = h
    <3> DEFINE m == n
    <3> HIDE DEF m
    <3>1. m = cJSON_New_Item(h) /\ m.p = NULL BY <1>2 DEF m
    <3>2. NULL \notin Items BY CJsonAssumption
    <3>3. m.h = h BY <1>0, <3>1, <3>2, NewItemFacts
    <3> QED BY <3>3 DEF m
  <2>2. z = NoMemory(h, v) BY <1>2, <2>1
  <2> QED BY <1>0, <2>2, MalformedStays
<1>3. ASSUME a # NULL, z = parse_more(members, r, item, a, close)
                       \/ z = parse_named(members, parse_string(l, a, v), item, a)
      PROVE  ParseStays(z, h, R, X, B, {item})
  <2>1. NewMember(l, h, R, X, B, item, a) /\ a # item BY <1>3, NewMemberFacts
  <2> HIDE DEF l, a
  <2>2. /\ Stays(l, h, R, X, B, {item}) /\ a \notin Used(h.items)
        /\ MembersStart(l, R, X, B, item, a) /\ ValueStart(l, R, X, B, a) /\ l.items[a].string = NULL
    BY <2>1 DEF NewMember
  <2>3. ParseStays(z, l, R, X, B, {item, a})
    <3>1. CASE z = parse_more(members, r, item, a, close)
      <4>1. ParseStays(r, l, R, X, B, {a}) BY <2>2, ValueRight
      <4> HIDE DEF r
      <4> QED BY <1>3, <2>1, <2>2, <3>1, <4>1, MoreRight
    <3>2. CASE z = parse_named(members, parse_string(l, a, v), item, a)
      BY <1>3, <2>1, <2>2, <3>2, NamedRight
    <3> QED BY <1>3, <3>1, <3>2
  <2>4. Stays(z.h, h, R, X, B, {item} \cup {item, a}) /\ z.rest \in Seq(Tokens)
    BY <2>2, <2>3, StaysStays DEF ParseStays
  <2>5. Stays(z.h, h, R, X, B, {item}) BY <2>2, <2>4 DEF Stays
  <2> QED BY <2>4, <2>5 DEF ParseStays
<1> QED BY <1>1, <1>2, <1>3

LEMMA MembersRecur ==
    \A n \in Nat : Members[n] =
        [a \in [h : Heaps, item : Items, child : Pointers, v : Seq(Tokens), close : {"]", "}"}] |->
           IF n = 0 THEN NoMemory(a.h, a.v)
           ELSE parse_members(Members[n - 1], a.h, a.item, a.child, a.v, a.close)]
<1> DEFINE Recur(f) == f = [n \in Nat |->
        [a \in [h : Heaps, item : Items, child : Pointers, v : Seq(Tokens), close : {"]", "}"}] |->
           IF n = 0 THEN NoMemory(a.h, a.v)
           ELSE parse_members(f[n - 1], a.h, a.item, a.child, a.v, a.close)]]
<1>1. Members = CHOOSE f : Recur(f) BY DEF Members
<1>2. PICK f : Recurs("members", 0, f) BY RecursionExists DEF Recursions
<1>3. Recur(f) BY <1>2 DEF Recurs, Turn
<1>4. Recur(Members)
  <2> HIDE DEF Recur
  <2> QED BY <1>1, <1>3
<1> QED BY <1>4

LEMMA MembersAreRight ==
    \A n \in Nat : MembersRight(Members[n])
<1> DEFINE S == {n \in Nat : ~MembersRight(Members[n])}
<1>1. SUFFICES ASSUME S # {} PROVE FALSE
  OBVIOUS
<1>2. PICK n \in S : \A m \in S : n <= m
  <2>1. S \in SUBSET Nat OBVIOUS
  <2> HIDE DEF S
  <2> QED BY <1>1, <2>1, LeastNatural
<1>3. n \in Nat /\ ~MembersRight(Members[n]) BY <1>2
<1>4. n # 0 => MembersRight(Members[n - 1])
  <2>1. n # 0 => n - 1 \in Nat /\ ~(n <= n - 1) BY <1>3
  <2>2. n # 0 => n - 1 \notin S
    <3> HIDE DEF S
    <3> QED BY <1>2, <2>1
  <2> QED BY <2>1, <2>2
<1> HIDE DEF S
<1>5. ASSUME NEW h, NEW R, NEW X, NEW B, NEW item, NEW child, NEW v, NEW close,
             MembersStart(h, R, X, B, item, child), v \in Seq(Tokens), close \in Closing,
             NEW r, r = Members[n][[h |-> h, item |-> item, child |-> child, v |-> v, close |-> close]]
      PROVE  ParseStays(r, h, R, X, B, {item})
  <2> DEFINE a == [h |-> h, item |-> item, child |-> child, v |-> v, close |-> close]
  <2>1. /\ Building(h, R, X, B) /\ item \in Used(h.items)
        /\ child = IF Kids(h)[item] = <<>> THEN NULL ELSE Last(Kids(h)[item])
        /\ h \in Heaps /\ Linked(h, R)
    BY <1>5 DEF MembersStart, Building, Shape
  <2>2. child \in Pointers
    <3> DEFINE s == Kids(h)[item]
    <3>1. s \in Seq(Used(h.items)) BY <2>1, KidsList
    <3> HIDE DEF s
    <3>2. s # <<>> => Last(s) \in Used(h.items) BY <3>1 DEF Last
    <3>3. Used(h.items) \subseteq Items BY <2>1, UsedFacts
    <3> QED BY <2>1, <3>2, <3>3 DEF s, Pointers
  <2>3. a \in [h : Heaps, item : Items, child : Pointers, v : Seq(Tokens), close : Closing]
    <3>1. Used(h.items) \subseteq Items BY <2>1, UsedFacts
    <3> QED BY <1>5, <2>1, <2>2, <3>1
  <2>4. r = IF n = 0 THEN NoMemory(h, v)
            ELSE parse_members(Members[n - 1], h, item, child, v, close)
    <3>1. a.h = h /\ a.item = item /\ a.child = child /\ a.v = v /\ a.close = close OBVIOUS
    <3>2. r = Members[n][a] BY <1>5
    <3> HIDE DEF a
    <3>3. Members[n][a] = IF n = 0 THEN NoMemory(a.h, a.v)
                          ELSE parse_members(Members[n - 1], a.h, a.item, a.child, a.v, a.close)
      <4>1. Members[n] =
              [b \in [h : Heaps, item : Items, child : Pointers, v : Seq(Tokens), close : Closing] |->
                 IF n = 0 THEN NoMemory(b.h, b.v)
                 ELSE parse_members(Members[n - 1], b.h, b.item, b.child, b.v, b.close)]
        BY <1>3, MembersRecur DEF Closing
      <4> QED BY <2>3, <4>1
    <3> QED BY <3>1, <3>2, <3>3
  <2>5. CASE n = 0
    <3>1. r = NoMemory(h, v) BY <2>4, <2>5
    <3> QED BY <1>5, <2>1, <3>1, MalformedStays
  <2>6. CASE n # 0
    <3>1. r = parse_members(Members[n - 1], h, item, child, v, close) BY <2>4, <2>6
    <3> QED BY <1>4, <1>5, <2>6, <3>1, MembersStep
  <2> QED BY <2>5, <2>6
<1>6. MembersRight(Members[n])
  <2> DEFINE a(h, item, child, v, close) ==
               [h |-> h, item |-> item, child |-> child, v |-> v, close |-> close]
  <2>1. ASSUME NEW h, NEW R, NEW X, NEW B, NEW item, NEW child, NEW v, NEW close,
               MembersStart(h, R, X, B, item, child), v \in Seq(Tokens), close \in Closing
        PROVE  ParseStays(Members[n][a(h, item, child, v, close)], h, R, X, B, {item})
    BY <1>5, <2>1
  <2> QED BY ZenonT(60), <2>1 DEF MembersRight
<1> QED BY <1>3, <1>6

(* cJSON_ParseWithOpts, wherever the text ends, is malformed or finds      *)
(* memory full: the items that were there are as they were, and what was   *)
(* parsed is a tree of its own, or all that was made for it was freed.     *)
THEOREM ParseRight ==
    ASSUME NEW h, NEW R, NEW X, Shape(h, R, X), NEW value \in Seq(Tokens), NEW strict
    PROVE  ItemCopied(cJSON_ParseWithOpts(h, value, strict), h, R, X)
<1> DEFINE U == Used(h.items)
           h0 == [h EXCEPT !.ep = FALSE]
           c == cJSON_New_Item(h0)
           f == Members[Len(value)]
           r == parse_value(f, c.h, c.p, value)
           z == cJSON_ParseWithOpts(h, value, strict)
<1> SUFFICES ItemCopied(z, h, R, X)
  OBVIOUS
<1>0. h \in Heaps BY DEF Shape
<1>1. h0 \in Heaps /\ h0.items = h.items /\ h0.texts = h.texts BY <1>0 DEF Heaps
<1>2. MembersRight(f)
  <2>1. Len(value) \in Nat OBVIOUS
  <2> QED BY <2>1, MembersAreRight
<1>3. \/ c.p = NULL /\ z = c
      \/ c.p # NULL /\ z = parse_end(r, c.p, strict)
  BY DEF cJSON_ParseWithOpts
<1> HIDE DEF h0, f, z
<1>4. Building(h, R, X, U) BY WholeApart
<1>5. Building(h0, R, X, U) /\ Kids(h0) = Kids(h) /\ Keeps(h0, h, U) BY <1>1, <1>4, SameBuilding
<1>6. CASE c.p = NULL /\ z = c
  <2>1. c.h = h0
    <3> DEFINE m == c
    <3> HIDE DEF m
    <3>1. m = cJSON_New_Item(h0) /\ m.p = NULL BY <1>6 DEF m
    <3>2. NULL \notin Items BY CJsonAssumption
    <3>3. m.h = h0 BY <1>1, <3>1, <3>2, NewItemFacts
    <3> QED BY <3>3 DEF m
  <2>2. z.h = h0 /\ z.p = NULL BY <1>6, <2>1
  <2> QED BY <1>5, <2>2 DEF ItemCopied
<1>7. CASE c.p # NULL /\ z = parse_end(r, c.p, strict)
  <2> DEFINE a == c.p
             Q == R \cup {a}
  <2>1. Extends(c.h, h0, R, X, U, a) /\ c.h.items[a] = Blank BY <1>5, <1>7, NewExtends
  <2>2. /\ a \in Items /\ a \notin U /\ Used(c.h.items) = U \cup {a}
        /\ Building(c.h, Q, X, U) /\ Keeps(c.h, h0, U)
        /\ Kids(c.h) = [p \in Used(c.h.items) |-> IF p = a THEN <<>> ELSE Kids(h0)[p]]
    BY <1>1, <2>1 DEF Extends
  <2>3. ValueStart(c.h, Q, X, U, a)
    <3>1. Kids(c.h)[a] = <<>> BY <2>2
    <3>2. c.h.items[a].valuestring = NULL BY <2>1 DEF Blank
    <3> QED BY <2>2, <3>1, <3>2 DEF ValueStart
  <2>4. ParseStays(r, c.h, Q, X, U, {a})
    <3> HIDE DEF a, Q
    <3> QED BY <1>2, <2>3, ValueRight DEF a
  <2> HIDE DEF c, r, a
  <2>5. Building(r.h, Q, X, U) /\ Keeps(r.h, c.h, U) BY <2>4 DEF ParseStays, Stays
  <2>6. Keeps(r.h, h, U) BY <1>5, <2>2, <2>5 DEF Keeps
  <2> DEFINE g == cJSON_Delete(r.h, a)
  <2>7. Building(g, R, X, U) /\ Keeps(g, h, U)
    <3>1. a \in Q \ U BY <2>2
    <3>2. Building(g, Q \ {a}, X, U) /\ Keeps(g, r.h, U)
      <4> HIDE DEF Q
      <4> QED BY <2>5, <3>1, DeletedBuilding
    <3>3. Q \ {a} = R
      <4>1. R \subseteq U BY DEF Shape, Linked, LinkedAs
      <4> QED BY <2>2, <4>1
    <3>4. Keeps(g, h, U) BY <2>6, <3>2 DEF Keeps
    <3> QED BY <3>2, <3>3, <3>4
  <2> HIDE DEF g
  <2>8. \/ z.h = g /\ z.p = NULL
        \/ z.h = [g EXCEPT !.ep = TRUE] /\ z.p = NULL
        \/ z.h = r.h /\ z.p = a
    BY <1>7 DEF parse_end, g, a
  <2>9. CASE z.h = g /\ z.p = NULL
    BY <2>7, <2>9 DEF ItemCopied
  <2>10. CASE z.h = [g EXCEPT !.ep = TRUE] /\ z.p = NULL
    <3> DEFINE k == [g EXCEPT !.ep = TRUE]
    <3>1. g \in Heaps BY <2>7 DEF Building, Shape
    <3>2. k \in Heaps /\ k.items = g.items /\ k.texts = g.texts BY <3>1 DEF Heaps
    <3> HIDE DEF k
    <3>3. Building(k, R, X, U) /\ Kids(k) = Kids(g) /\ Keeps(k, g, U) BY <2>7, <3>2, SameBuilding
    <3>4. Keeps(k, h, U) BY <2>7, <3>3 DEF Keeps
    <3> QED BY <2>10, <3>3, <3>4 DEF ItemCopied, k
  <2>11. CASE z.h = r.h /\ z.p = a
    BY <2>2, <2>5, <2>6, <2>11 DEF ItemCopied
  <2> QED BY <2>8, <2>9, <2>10, <2>11
<1> QED BY <1>3, <1>6, <1>7

-----------------------------------------------------------------------------
(* The caller's calls. What c owns after it was taken out of p is what it  *)
(* owned before, and p is not in it. D shows that p is not below what came *)
(* in for it.                                                              *)
SameBut(g, h, p) ==
    /\ Used(g.items) = Used(h.items) /\ Owners(g) = Owners(h)
    /\ \A q \in Used(h.items) \ {p} : Children(Kids(g), q) = Children(Kids(h), q)

LEMMA OwnsUnique ==
    ASSUME NEW h, NEW c, NEW G, NEW F, Owns(h, c, G), Owns(h, c, F)
    PROVE  G = F
BY DEF Owns

LEMMA RestClosed ==
    ASSUME NEW h \in Heaps, NEW R, Linked(h, R), NEW c \in R, NEW G, Owns(h, c, G)
    PROVE  /\ R \ {c} \subseteq Used(h.items) \ G
           /\ Closed(h, Kids(h), Used(h.items) \ G)
<1>1. \A x \in G : x = c \/ \E q \in G \cap Owners(h) : x \in Children(Kids(h), q)
  BY OwnedFacts
<1>2. /\ R \subseteq Used(h.items)
      /\ \A q \in Owners(h) : Children(Kids(h), q) \cap R = {}
      /\ \A q, o \in Owners(h) : q # o => Children(Kids(h), q) \cap Children(Kids(h), o) = {}
  BY DEF Linked, LinkedAs
<1>3. \A q \in Owners(h) : q \in Used(h.items) /\ Children(Kids(h), q) \subseteq Used(h.items)
  BY KidsList DEF Owners
<1>4. R \ {c} \subseteq Used(h.items) \ G
  BY <1>1, <1>2
<1>5. Closed(h, Kids(h), Used(h.items) \ G)
  <2> SUFFICES ASSUME NEW a \in (Used(h.items) \ G) \cap Owners(h), NEW x \in Children(Kids(h), a), x \in G
               PROVE  FALSE
    BY <1>3 DEF Closed
  <2>1. x # c BY <1>2
  <2>2. PICK q \in G \cap Owners(h) : x \in Children(Kids(h), q) BY <1>1, <2>1
  <2>3. q # a OBVIOUS
  <2> QED BY <1>2, <2>2, <2>3
<1> QED BY <1>4, <1>5

LEMMA StillOwns ==
    ASSUME NEW h \in Heaps, NEW R, Linked(h, R), NEW g \in Heaps, NEW Q, Linked(g, Q),
           NEW p \in Owners(h), SameBut(g, h, p), NEW c \in Q, c \notin R,
           NEW D, Closed(h, Kids(h), D), p \notin D, R \subseteq Q \cup D,
           NEW G, Owns(g, c, G)
    PROVE  Owns(h, c, G) /\ p \notin G
<1> DEFINE S == Used(g.items) \ G
<1>1. Q \ {c} \subseteq S /\ Closed(g, Kids(g), S) BY RestClosed
<1>2. /\ Used(g.items) = Used(h.items) /\ Owners(g) = Owners(h)
      /\ \A q \in Used(h.items) \ {p} : Children(Kids(g), q) = Children(Kids(h), q)
  BY DEF SameBut
<1>3. \A q \in Owners(h) : q \in Used(h.items) /\ Children(Kids(h), q) \subseteq Used(h.items)
  BY KidsList DEF Owners
<1>4. p \notin G
  <2> SUFFICES ASSUME p \in G PROVE FALSE
    OBVIOUS
  <2> DEFINE Z == (S \cup D) \cap Used(h.items)
  <2>1. R \subseteq Z
    <3>1. R \subseteq Used(h.items) BY DEF Linked, LinkedAs
    <3> QED BY <1>1, <3>1
  <2>2. Closed(h, Kids(h), Z)
    <3> SUFFICES ASSUME NEW a \in Z \cap Owners(h) PROVE Children(Kids(h), a) \subseteq Z
      BY DEF Closed
    <3>1. CASE a \in D BY <1>3, <3>1 DEF Closed
    <3>2. CASE a \in S
      <4>1. a # p BY <3>2
      <4>2. Children(Kids(g), a) \subseteq S BY <1>1, <1>2, <3>2 DEF Closed
      <4> QED BY <1>2, <1>3, <4>1, <4>2
    <3> QED BY <3>1, <3>2
  <2>3. Z = Used(h.items)
    <3>1. Z \in SUBSET Used(h.items) OBVIOUS
    <3> HIDE DEF Z
    <3> QED BY <2>1, <2>2, <3>1 DEF Linked, LinkedAs
  <2> QED BY <1>3, <2>3
<1>5. Closed(h, Kids(h), G)
  <2>1. G \subseteq Used(g.items) /\ Closed(g, Kids(g), G) BY DEF Owns
  <2> QED BY <1>2, <1>4, <2>1 DEF Closed
<1>6. ASSUME NEW F, c \in F, Closed(h, Kids(h), F) PROVE G \subseteq F
  <2>1. c \in G /\ G \subseteq Used(g.items) BY DEF Owns
  <2>2. Closed(g, Kids(g), F \cap G)
    <3> SUFFICES ASSUME NEW a \in (F \cap G) \cap Owners(g)
                 PROVE  Children(Kids(g), a) \subseteq F \cap G
      BY DEF Closed
    <3>1. a # p /\ a \in Used(h.items) /\ a \in Owners(h) BY <1>2, <1>4, <2>1
    <3>2. Children(Kids(h), a) \subseteq F BY <1>6, <3>1 DEF Closed
    <3>3. Children(Kids(h), a) \subseteq G BY <1>5, <3>1 DEF Closed
    <3> QED BY <1>2, <3>1, <3>2, <3>3
  <2>3. c \in F \cap G BY <1>6, <2>1
  <2>4. G \subseteq F \cap G BY <2>2, <2>3 DEF Owns
  <2> QED BY <2>4
<1>7. c \in G /\ G \subseteq Used(h.items) BY <1>2 DEF Owns
<1> QED BY <1>4, <1>5, <1>6, <1>7 DEF Owns

(* The strings of h but for those in X, with t instead of old, are those of *)
(* g but for Y.                                                            *)
Passes(g, h, X, Y, old, t) ==
    /\ t \notin (Used(h.texts) \ X) \ {old} /\ Y \subseteq Used(g.texts)
    /\ Used(g.texts) \ Y = ((Used(h.texts) \ X) \ {old}) \cup ({t} \ {NULL})

LEMMA PassedHeld ==
    ASSUME NEW h \in Heaps, NEW X, Held(h, X), NEW g, NEW p \in Used(h.items), NEW t, NEW Y,
           Points(g, h, p, "string", t), Passes(g, h, X, Y, h.items[p].string, t)
    PROVE  Held(g, Y)
<1> DEFINE f == "string"
           old == h.items[p][f]
<1>1. /\ t \notin (Used(h.texts) \ X) \ {old} /\ Y \subseteq Used(g.texts)
      /\ Used(g.texts) \ Y = ((Used(h.texts) \ X) \ {old}) \cup ({t} \ {NULL})
  BY DEF Passes
<1>2. f \in {"string", "valuestring"} /\ f # "valuestring" /\ Points(g, h, p, f, t)
      /\ old = h.items[p][f]
  OBVIOUS
<1> HIDE DEF f, old
<1> QED BY <1>1, <1>2, PointedHeld

(* An item gets a name; d is the heap in which the memory for it was found, *)
(* where the old name is free or left over.                                *)
NameGone(d, h, item, X, Y) ==
    /\ d \in Heaps /\ d.items = h.items /\ Y \subseteq Used(d.texts)
    /\ Used(d.texts) \ Y = (Used(h.texts) \ X) \ {h.items[item].string}
Unnamed(d, h, item) == d = [h EXCEPT !.texts = Drop(@, {h.items[item].string})]

Renames(g, h, item, R, Y) ==
    /\ Shape(g, R, Y) /\ Kids(g) = Kids(h) /\ Owners(g) = Owners(h)
    /\ \E t : Points(g, h, item, "string", t)

LEMMA Renamed ==
    ASSUME NEW h, NEW R, NEW X, Shape(h, R, X), NEW item \in Used(h.items), NEW key \in Keys,
           NEW d, NEW Y, NameGone(d, h, item, X, Y), NEW g, g = Named(d, item, key)
    PROVE  Renames(g, h, item, R, Y)
<1> DEFINE s == cJSON_strdup(d, key)
           t == s.p
           old == h.items[item].string
<1>0. h \in Heaps /\ Linked(h, R) /\ Held(h, X) BY DEF Shape
<1>a. /\ d \in Heaps /\ d.items = h.items /\ Y \subseteq Used(d.texts)
      /\ Used(d.texts) \ Y = (Used(h.texts) \ X) \ {h.items[item].string}
  BY DEF NameGone
<1>1. g = Put(s.h, item, "string", t) BY DEF Named
<1>2. /\ s.h \in Heaps /\ s.h.items = d.items
      /\ t \notin Used(d.texts) /\ t \in Texts \cup {NULL}
      /\ Used(s.h.texts) = Used(d.texts) \cup ({t} \ {NULL})
  <2>1. key \in Names BY DEF Names
  <2> HIDE DEF s
  <2> DEFINE z == s
  <2>2. z = cJSON_strdup(d, key) BY DEF s
  <2> HIDE DEF z
  <2>3. /\ z.h \in Heaps /\ z.h.items = d.items
        /\ z.p \notin Used(d.texts) /\ z.p \in Texts \cup {NULL}
        /\ Used(z.h.texts) = Used(d.texts) \cup ({z.p} \ {NULL})
    BY <1>a, <2>1, <2>2, StrdupFacts
  <2> QED BY <2>3 DEF z
<1> HIDE DEF s, t
<1>3. Points(g, s.h, item, "string", t) /\ g.texts = s.h.texts
  <2>1. item \in Used(s.h.items) BY <1>a, <1>2
  <2>2. "string" \in {"string", "valuestring"} OBVIOUS
  <2> QED BY <1>1, <1>2, <2>1, <2>2, PutPoints
<1>4. Points(g, h, item, "string", t) BY <1>a, <1>2, <1>3 DEF Points
<1>5. g \in Heaps /\ Linked(g, R) /\ Kids(g) = Kids(h) /\ Owners(g) = Owners(h)
  BY <1>0, <1>4, PointedLinks
<1>6. Held(g, Y)
  <2>1. NULL \notin Used(d.texts) BY <1>a, UsedFacts
  <2>2. /\ t \notin (Used(h.texts) \ X) \ {old} /\ Y \subseteq Used(g.texts)
        /\ Used(g.texts) \ Y = ((Used(h.texts) \ X) \ {old}) \cup ({t} \ {NULL})
    BY <1>a, <1>2, <1>3, <2>1
  <2>3. Passes(g, h, X, Y, old, t) BY <2>2 DEF Passes
  <2> QED BY <1>0, <1>4, <2>3, PassedHeld
<1> QED BY <1>4, <1>5, <1>6 DEF Shape, Renames

(* The name that is put in its place is freed before, or left over.        *)
LEMMA NameFreed ==
    ASSUME NEW h, NEW R, NEW X, Shape(h, R, X), NEW item \in Used(h.items),
           NEW d, Unnamed(d, h, item)
    PROVE  NameGone(d, h, item, X, X)
<1> DEFINE old == h.items[item].string
<1>0. h \in Heaps /\ Held(h, X) BY DEF Shape
<1>1. d = [h EXCEPT !.texts = Drop(h.texts, {old})] BY <1>0 DEF Heaps, Unnamed
<1>2. DOMAIN h.texts = Texts /\ h.texts \in [Texts -> Names \cup {NULL}] BY <1>0 DEF Heaps
<1>3. d.texts = Drop(h.texts, {old}) /\ d.items = h.items BY <1>0, <1>1 DEF Heaps
<1>4. Drop(h.texts, {old}) = [a \in Texts |-> IF a \in {old} THEN NULL ELSE h.texts[a]]
  BY <1>2 DEF Drop
<1>5. d \in Heaps
  <2>1. Drop(h.texts, {old}) \in [Texts -> Names \cup {NULL}] BY <1>2, <1>4
  <2> QED BY <1>0, <1>1, <2>1 DEF Heaps
<1>6. Used(d.texts) = Used(h.texts) \ {old} BY <1>2, <1>3, <1>4 DEF Used
<1>7. old \notin X
  <2>1. <<item, "string">> \in Slots(h) /\ At(h, <<item, "string">>) = old BY SlotFacts
  <2>2. old # NULL => old \in Used(h.texts) \ X BY <1>0, <2>1 DEF Held
  <2>3. X \subseteq Used(h.texts) /\ NULL \notin Used(h.texts) BY <1>0, UsedFacts DEF Held
  <2> QED BY <2>2, <2>3
<1>8. X \subseteq Used(h.texts) BY <1>0 DEF Held
<1> QED BY <1>3, <1>5, <1>6, <1>7, <1>8 DEF NameGone

LEMMA NameLeft ==
    ASSUME NEW h, NEW R, NEW X, Shape(h, R, X), NEW item \in Used(h.items),
           NEW Y, Y = X \cup ({h.items[item].string} \ {NULL})
    PROVE  NameGone(h, h, item, X, Y)
<1> DEFINE old == h.items[item].string
<1>0. h \in Heaps /\ Held(h, X) BY DEF Shape
<1>1. <<item, "string">> \in Slots(h) /\ At(h, <<item, "string">>) = old BY SlotFacts
<1>2. old # NULL => old \in Used(h.texts) \ X BY <1>0, <1>1 DEF Held
<1>3. X \subseteq Used(h.texts) /\ NULL \notin Used(h.texts) BY <1>0, UsedFacts DEF Held
<1> QED BY <1>0, <1>2, <1>3 DEF NameGone

-----------------------------------------------------------------------------
(* The steps of JsonForest, from the children K and the roots R to L and Q. *)
Changes(K, L) == {c \in DOMAIN K \cap DOMAIN L : L[c] # K[c]}

Comes(K, R, L, Q) ==
    \/ DOMAIN K \subseteq DOMAIN L /\ \E r \in DOMAIN L \ DOMAIN K : Q = R \cup {r}
    \/ DOMAIN L \subseteq DOMAIN K /\ \E r \in R : r \notin DOMAIN L /\ Q = R \ {r}

Attaches(K, R, L, Q, c) ==
    DOMAIN L = DOMAIN K /\ \E i \in R : L[c] = Append(K[c], i) /\ Q = R \ {i}
AttachesReference(K, R, L, Q, c) ==
    /\ Q = R
    /\ \E new \in DOMAIN L \ DOMAIN K, of \in DOMAIN K :
         DOMAIN L = DOMAIN K \cup {new} /\ L[c] = Append(K[c], new) /\ L[new] = K[of]
TakesOut(K, R, L, Q, c, j) ==
    \/ DOMAIN L = DOMAIN K /\ L[c] = RemoveAt(K[c], j) /\ Q = R \cup {K[c][j]}
    \/ DOMAIN L \subseteq DOMAIN K \ {K[c][j]} /\ L[c] = RemoveAt(K[c], j) /\ Q = R
    \/ /\ DOMAIN L \subseteq DOMAIN K \ {K[c][j]}
       /\ \E i \in R : L[c] = [K[c] EXCEPT ![j] = i] /\ Q = R \ {i}

ForestStep(K, R, L, Q) ==
    \/ Changes(K, L) = {} /\ Comes(K, R, L, Q)
    \/ \E c : /\ Changes(K, L) = {c}
              /\ \/ Attaches(K, R, L, Q, c) \/ AttachesReference(K, R, L, Q, c)
                 \/ \E j \in DOMAIN K[c] : TakesOut(K, R, L, Q, c, j)

(* What a call comes to.                                                   *)
Outcome(g, Q, Y, h, R) ==
    /\ Shape(g, Q, Y)
    /\ \/ g.items = h.items /\ Q = R
       \/ ForestStep(Kids(h), R, Kids(g), Q)

LEMMA NoChange ==
    ASSUME NEW K, NEW L, \A q \in DOMAIN K \cap DOMAIN L : L[q] = K[q]
    PROVE  Changes(K, L) = {}
BY DEF Changes

LEMMA OneChange ==
    ASSUME NEW K, NEW L, NEW p \in DOMAIN K \cap DOMAIN L, L[p] # K[p],
           \A q \in DOMAIN K \cap DOMAIN L : q # p => L[q] = K[q]
    PROVE  Changes(K, L) = {p}
BY DEF Changes

LEMMA ItemsFunction ==
    ASSUME NEW h \in Heaps, NEW g \in Heaps, Used(g.items) = Used(h.items),
           \A q \in Used(h.items) : g.items[q] = h.items[q]
    PROVE  g.items = h.items
<1>1. h.items \in [Items -> Item \cup {NULL}] /\ g.items \in [Items -> Item \cup {NULL}] BY DEF Heaps
<1>2. \A q \in Items : g.items[q] = h.items[q]
  <2> TAKE q \in Items
  <2>1. q \in Used(h.items) <=> h.items[q] # NULL BY <1>1 DEF Used
  <2>2. q \in Used(g.items) <=> g.items[q] # NULL BY <1>1 DEF Used
  <2> QED BY <2>1, <2>2
<1> QED BY <1>1, <1>2

(* A tree that was made.                                                   *)
LEMMA BuiltOutcome ==
    ASSUME NEW h, NEW R, NEW X, Shape(h, R, X), NEW r, ItemCopied(r, h, R, X)
    PROVE  Outcome(r.h, R \cup ({r.p} \ {NULL}), X, h, R)
<1> DEFINE U == Used(h.items)
           g == r.h
<1>0. h \in Heaps /\ Linked(h, R) /\ R \subseteq U BY DEF Shape, Linked, LinkedAs
<1>1. Keeps(g, h, U) BY DEF ItemCopied
<1> HIDE DEF g
<1>2. CASE r.p = NULL /\ Building(g, R, X, U)
  <2>1. Used(g.items) = U BY <1>0, <1>2, NothingLeft
  <2>2. g \in Heaps /\ Shape(g, R, X) BY <1>2 DEF Building, Shape
  <2>3. g.items = h.items BY <1>0, <1>1, <2>1, <2>2, ItemsFunction DEF Keeps
  <2>4. R \cup ({r.p} \ {NULL}) = R BY <1>2
  <2> QED BY <2>2, <2>3, <2>4 DEF Outcome, g
<1>3. CASE r.p \in Items \ U /\ Building(g, R \cup {r.p}, X, U)
  <2> DEFINE a == r.p
             Q == R \cup {a}
             K == Kids(h)
             L == Kids(g)
  <2>1. /\ g \in Heaps /\ Shape(g, Q, X) /\ U \subseteq Used(g.items) /\ a \in Used(g.items)
    BY <1>3 DEF Building, Shape, Apart, Linked, LinkedAs
  <2>2. \A q \in U : L[q] = K[q]
    <3>1. Building(h, R, X, U) BY WholeApart
    <3> QED BY <1>1, <2>1, <3>1, KeepsKids
  <2>3. DOMAIN K = U /\ DOMAIN L = Used(g.items) BY DEF Kids
  <2> HIDE DEF K, L
  <2>4. Changes(K, L) = {} BY <2>2, <2>3, NoChange
  <2>5. Comes(K, R, L, Q) BY <1>3, <2>1, <2>3 DEF Comes
  <2>6. Q = R \cup ({r.p} \ {NULL})
    <3>1. r.p # NULL BY <1>3, CJsonAssumption
    <3> QED BY <3>1
  <2> HIDE DEF Q
  <2>7. ForestStep(K, R, L, Q) BY <2>4, <2>5 DEF ForestStep
  <2> QED BY <2>1, <2>6, <2>7 DEF Outcome, g, K, L
<1> QED BY <1>2, <1>3 DEF ItemCopied, g

(* A tree that is freed; no reference that stays uses a part of it.        *)
MayGo(h, G) ==
    \A r \in Borrowers(h) \ G : /\ h.items[r].child \notin G
                                /\ h.items[r].valuestring \notin Values(h, Owners(h) \cap G) \ {NULL}

Freed(g, h, Q, X, G) ==
    /\ Shape(g, Q, X) /\ Used(g.items) = Used(h.items) \ G
    /\ Kids(g) = [p \in Used(g.items) |-> Kids(h)[p]]

LEMMA FreedShape ==
    ASSUME NEW h, NEW R, NEW X, Shape(h, R, X), NEW c \in R, NEW G, Owns(h, c, G), MayGo(h, G),
           NEW g, g = cJSON_Delete(h, c)
    PROVE  Freed(g, h, R \ {c}, X, G)
<1>0. h \in Heaps /\ Linked(h, R) /\ Held(h, X) BY DEF Shape
<1>1. Deletes(g, h, G)
  <2>1. PICK F : Owns(h, c, F) /\ Deletes(g, h, F) BY <1>0, DeleteFacts
  <2>2. F = G BY <2>1, OwnsUnique
  <2> QED BY <2>1, <2>2
<1>2. G \in SUBSET Used(h.items) BY DEF Owns
<1>3. Leaves(g, h, R \ {c}, G)
  <2>1. \A r \in Used(h.items) \ (Owners(h) \cup G) : h.items[r].child \notin G
    BY DEF MayGo, Borrowers
  <2>2. c \in R OBVIOUS
  <2> QED BY <1>0, <1>1, <2>1, <2>2, DeletedLinks
<1>4. Held(g, X)
  <2>1. Values(h, Borrowers(h) \ G) \cap Values(h, Owners(h) \cap G) \subseteq {NULL}
    BY DEF MayGo, Values
  <2> QED BY <1>0, <1>1, <1>2, <2>1, DeletedHeld
<1>5. g \in Heaps /\ Used(g.items) = Used(h.items) \ G BY <1>1 DEF Deletes
<1>6. Linked(g, R \ {c}) /\ Kids(g) = [p \in Used(g.items) |-> Kids(h)[p]] BY <1>3 DEF Leaves
<1> QED BY <1>4, <1>5, <1>6 DEF Shape, Freed

LEMMA DeleteOutcome ==
    ASSUME NEW h, NEW R, NEW X, Shape(h, R, X), NEW c \in R, NEW G, Owns(h, c, G), MayGo(h, G)
    PROVE  Outcome(cJSON_Delete(h, c), R \ {c}, X, h, R)
<1> DEFINE g == cJSON_Delete(h, c)
           K == Kids(h)
           L == Kids(g)
<1>1. /\ Shape(g, R \ {c}, X) /\ Used(g.items) = Used(h.items) \ G
      /\ L = [p \in Used(g.items) |-> K[p]]
  <2>1. Freed(g, h, R \ {c}, X, G) BY FreedShape
  <2> QED BY <2>1 DEF Freed
<1>2. DOMAIN K = Used(h.items) /\ DOMAIN L = Used(g.items) BY DEF Kids
<1>3. c \in G BY DEF Owns
<1> HIDE DEF g, K, L
<1>4. \A q \in Used(g.items) : L[q] = K[q] BY <1>1
<1>5. Changes(K, L) = {} BY <1>2, <1>4, NoChange
<1>6. Comes(K, R, L, R \ {c}) BY <1>1, <1>2, <1>3 DEF Comes
<1>7. ForestStep(K, R, L, R \ {c}) BY <1>5, <1>6 DEF ForestStep
<1> QED BY <1>1, <1>7 DEF Outcome, g, K, L

(* An item that is added at the end of a list.                             *)
LEMMA AppendFacts ==
    ASSUME NEW S, NEW s \in Seq(S), NEW x
    PROVE  Append(s, x) # s
<1>1. Len(Append(s, x)) = Len(s) + 1 /\ Len(s) \in Nat OBVIOUS
<1> QED BY <1>1

Longer(g, k, Q, X, p, item) ==
    /\ Shape(g, Q, X) /\ p \in Used(k.items)
    /\ Kids(g) = [Kids(k) EXCEPT ![p] = Append(Kids(k)[p], item)]
    /\ Kids(k)[p] \in Seq(Used(k.items))

LEMMA AppendedShape ==
    ASSUME NEW k, NEW R, NEW X, Shape(k, R, X), NEW p, Unshared(k, p), NEW item \in R,
           NEW D, Closed(k, Kids(k), D), item \in D, p \notin D,
           NEW g, g = cJSON_AddItemToArray(k, p, item)
    PROVE  Longer(g, k, R \ {item}, X, p, item)
<1>0. k \in Heaps /\ Linked(k, R) /\ Held(k, X) /\ R \subseteq Used(k.items)
  BY DEF Shape, Linked, LinkedAs
<1>1. p \in Used(k.items) BY DEF Unshared, Owners
<1>2. item # NULL BY <1>0, UsedFacts
<1>3. Kids(k)[p] = ChildrenOf(k, p) /\ Kids(k)[p] \in Seq(Used(k.items)) BY <1>0, <1>1, KidsList
<1>4. g = Behind(k, p, item) BY <1>2, <1>3 DEF cJSON_AddItemToArray, Behind
<1>5. Appends(g, k, R \ {item}, p, item)
  <2>1. item \in R OBVIOUS
  <2> QED BY <1>0, <1>4, <2>1, Appended
<1>6. /\ g \in Heaps /\ Linked(g, R \ {item}) /\ SameButLinks(g, k)
      /\ Kids(g) = [Kids(k) EXCEPT ![p] = Append(Kids(k)[p], item)]
  BY <1>5 DEF Appends
<1>7. Held(g, X) BY <1>0, <1>6, SameHeld DEF SameButLinks
<1> QED BY <1>1, <1>3, <1>6, <1>7 DEF Shape, Longer

LEMMA AttachOutcome ==
    ASSUME NEW h, NEW R, NEW X, NEW k, Shape(k, R, X), Kids(k) = Kids(h),
           NEW p, Unshared(k, p), NEW item \in R, NEW D, Closed(k, Kids(k), D), item \in D, p \notin D
    PROVE  Outcome(cJSON_AddItemToArray(k, p, item), R \ {item}, X, h, R)
<1> DEFINE g == cJSON_AddItemToArray(k, p, item)
           K == Kids(h)
           L == Kids(g)
           s == Append(K[p], item)
<1>1. /\ Shape(g, R \ {item}, X) /\ L = [K EXCEPT ![p] = s]
      /\ K[p] \in Seq(Used(k.items)) /\ p \in Used(k.items)
  <2>1. Longer(g, k, R \ {item}, X, p, item)
    <3> HIDE DEF g
    <3>1. g = cJSON_AddItemToArray(k, p, item) BY DEF g
    <3> QED BY <3>1, AppendedShape
  <2> QED BY <2>1 DEF Longer
<1>2. s # K[p] BY <1>1, AppendFacts
<1>3. DOMAIN K = Used(k.items)
  <2>1. DOMAIN Kids(k) = Used(k.items) BY DEF Kids
  <2> QED BY <2>1
<1>4. s = Append(K[p], item) OBVIOUS
<1> HIDE DEF g, K, L, s
<1>5. DOMAIN L = DOMAIN K /\ L[p] = s /\ \A q \in DOMAIN K : q # p => L[q] = K[q] BY <1>1, <1>3
<1>6. Changes(K, L) = {p}
  <2>1. p \in DOMAIN K \cap DOMAIN L /\ L[p] # K[p] BY <1>1, <1>2, <1>3, <1>5
  <2> QED BY <1>5, <2>1, OneChange
<1>7. Attaches(K, R, L, R \ {item}, p) BY <1>4, <1>5 DEF Attaches
<1>8. ForestStep(K, R, L, R \ {item}) BY <1>6, <1>7 DEF ForestStep
<1> QED BY <1>1, <1>8 DEF Outcome, g, K, L

(* A reference, before it is named and put into its list.                  *)
Refers(g, h, item, a) ==
    /\ g \in Heaps /\ g.texts = h.texts /\ a \in Items \ Used(h.items)
    /\ Used(g.items) = Used(h.items) \cup {a}
    /\ \A q \in Used(h.items) : g.items[q] = h.items[q]
    /\ g.items[a].next = NULL /\ g.items[a].prev = NULL /\ g.items[a].string = NULL
    /\ g.items[a].child = h.items[item].child /\ g.items[a].ref
    /\ g.items[a].valuestring = h.items[item].valuestring

LEMMA ReferenceFacts ==
    ASSUME NEW h \in Heaps, NEW item \in Used(h.items), NEW r, r = create_reference(h, item)
    PROVE  (r.p = NULL /\ r.h = h) \/ (r.p # NULL /\ Refers(r.h, h, item, r.p))
<1> DEFINE n == cJSON_New_Item(h)
           x == [h.items[item] EXCEPT !.string = NULL, !.ref = TRUE, !.next = NULL, !.prev = NULL]
<1>1. \/ n.p = NULL /\ n.h = h
      \/ /\ n.p \in Items \ Used(h.items) /\ n.p # NULL
         /\ n.h \in Heaps /\ n.h.texts = h.texts
         /\ Used(n.h.items) = Used(h.items) \cup {n.p}
         /\ n.h.items[n.p] = Blank
         /\ \A q \in Used(h.items) : n.h.items[q] = h.items[q]
  <2> DEFINE m == n
  <2>1. m = cJSON_New_Item(h) OBVIOUS
  <2> HIDE DEF m
  <2>2. \/ m.p = NULL /\ m.h = h
        \/ /\ m.p \in Items \ Used(h.items) /\ m.p # NULL
           /\ m.h \in Heaps /\ m.h.texts = h.texts
           /\ Used(m.h.items) = Used(h.items) \cup {m.p}
           /\ m.h.items[m.p] = Blank
           /\ \A q \in Used(h.items) : m.h.items[q] = h.items[q]
    BY <2>1, NewItemFacts
  <2> QED BY <2>2 DEF m
<1>2. n = [h |-> n.h, p |-> n.p] BY DEF cJSON_New_Item
<1>3. r = IF n.p = NULL THEN n ELSE [n EXCEPT !.h.items[n.p] = x] BY DEF create_reference
<1>4. h.items[item] \in Item BY UsedFacts
<1>5. /\ x \in Item /\ x.next = NULL /\ x.prev = NULL /\ x.string = NULL /\ x.ref
      /\ x.child = h.items[item].child /\ x.valuestring = h.items[item].valuestring
  BY <1>4 DEF Item, Pointers
<1> HIDE DEF x, n
<1>6. CASE n.p = NULL BY <1>1, <1>3, <1>6, UsedFacts
<1>7. CASE n.p # NULL
  <2> DEFINE g == [n.h EXCEPT !.items = [n.h.items EXCEPT ![n.p] = x]]
  <2>0. n.h \in Heaps /\ n.p \in Items BY <1>1, <1>7
  <2>1. r.h = g /\ r.p = n.p BY <1>2, <1>3, <1>7, <2>0 DEF Heaps
  <2>2. g.items = [n.h.items EXCEPT ![n.p] = x] /\ g.texts = n.h.texts BY <2>0 DEF Heaps
  <2>3. [n.h.items EXCEPT ![n.p] = x] \in [Items -> Item \cup {NULL}] BY <1>5, <2>0 DEF Heaps
  <2>4. g \in Heaps BY <2>0, <2>3 DEF Heaps
  <2>5. \A q \in Items : g.items[q] = IF q = n.p THEN x ELSE n.h.items[q]
    BY <2>0, <2>2 DEF Heaps
  <2>6. x # NULL BY <1>5, CJsonAssumption
  <2> HIDE DEF g
  <2>7. Used(g.items) = Used(n.h.items)
    <3>1. DOMAIN g.items = Items /\ DOMAIN n.h.items = Items BY <2>0, <2>4 DEF Heaps
    <3>2. n.p \in Used(n.h.items) BY <1>1, <1>7
    <3> QED BY <2>5, <2>6, <3>1, <3>2 DEF Used
  <2>8. /\ Used(g.items) = Used(h.items) \cup {n.p} /\ n.p \in Items \ Used(h.items)
        /\ g.items[n.p] = x /\ g.texts = h.texts
    BY <1>1, <1>7, <2>0, <2>2, <2>5, <2>7
  <2>9. \A q \in Used(h.items) : g.items[q] = h.items[q]
    <3>1. Used(h.items) \subseteq Items BY UsedFacts
    <3> QED BY <1>1, <1>7, <2>5, <2>8, <3>1
  <2>10. Refers(g, h, item, n.p) BY <1>5, <2>4, <2>8, <2>9 DEF Refers
  <2> QED BY <1>7, <2>1, <2>10
<1> QED BY <1>6, <1>7

Referred(g, h, Q, X, item, a) ==
    /\ Shape(g, Q, X) /\ Owners(g) = Owners(h)
    /\ Kids(g) = [q \in Used(g.items) |-> IF q = a THEN Kids(h)[item] ELSE Kids(h)[q]]

LEMMA ReferredShape ==
    ASSUME NEW h, NEW R, NEW X, Shape(h, R, X), NEW item \in Used(h.items), NEW g, NEW a,
           Refers(g, h, item, a)
    PROVE  Referred(g, h, R \cup {a}, X, item, a)
<1>0. h \in Heaps /\ Linked(h, R) /\ Held(h, X) BY DEF Shape
<1>1. /\ g \in Heaps /\ g.texts = h.texts /\ a \in Items \ Used(h.items)
      /\ Used(g.items) = Used(h.items) \cup {a}
      /\ \A q \in Used(h.items) : g.items[q] = h.items[q]
      /\ g.items[a].next = NULL /\ g.items[a].prev = NULL /\ g.items[a].string = NULL
      /\ g.items[a].child = h.items[item].child /\ g.items[a].ref
      /\ g.items[a].valuestring = h.items[item].valuestring
  BY DEF Refers
<1> DEFINE s == Kids(h)[item]
<1>2. s = Kids(h)[item] OBVIOUS
<1> HIDE DEF s
<1>3. Linked(g, R \cup {a}) /\ Kids(g) = [q \in Used(g.items) |-> IF q = a THEN s ELSE Kids(h)[q]]
  <2>1. Brings(g, h, a, s) BY <1>1, <1>2 DEF Brings
  <2> QED BY <1>0, <1>1, <2>1, AddedLinks
<1>4. Held(g, X)
  <2>1. g.items[a].valuestring \in Values(h, Used(h.items)) BY <1>1 DEF Values
  <2> QED BY <1>0, <1>1, <2>1, AddedHeld
<1>5. Owners(g) = Owners(h) BY <1>1 DEF Owners
<1> QED BY <1>1, <1>3, <1>4, <1>5 DEF Shape, Referred, s

(* The list it goes into is not the one that it shares.                    *)
LEMMA ReferredUnshared ==
    ASSUME NEW h, NEW R, NEW X, Shape(h, R, X), NEW item \in Used(h.items), NEW g, NEW a,
           Refers(g, h, item, a), NEW p, Unshared(h, p), p # item
    PROVE  Unshared(g, p)
<1>0. h \in Heaps /\ Linked(h, R) BY DEF Shape
<1>1. p \in Owners(h) /\ p \in Used(h.items) BY DEF Unshared, Owners
<1>2. /\ Used(g.items) = Used(h.items) \cup {a}
      /\ \A q \in Used(h.items) : g.items[q] = h.items[q]
      /\ g.items[a].child = h.items[item].child /\ g.items[a].ref /\ a \notin Used(h.items)
  BY DEF Refers
<1>3. Owners(g) = Owners(h) BY <1>2 DEF Owners
<1>4. h.items[p].child # NULL => h.items[item].child # h.items[p].child
  <2> SUFFICES ASSUME h.items[p].child # NULL, h.items[item].child = h.items[p].child PROVE FALSE
    OBVIOUS
  <2>1. h.items[p].child \in Children(Kids(h), p) BY <1>0, <1>1, ChildThere
  <2>2. h.items[item].child \in Children(Kids(h), item) BY <1>0, ChildThere
  <2>3. Children(Kids(h), item) \cap (Children(Kids(h), p) \cup R) = {} BY <1>0, OtherLists
  <2> QED BY <2>1, <2>2, <2>3
<1>5. \A q \in Used(h.items) \ Owners(h) : h.items[p].child # NULL => h.items[q].child # h.items[p].child
  BY DEF Unshared
<1> QED BY <1>1, <1>2, <1>3, <1>4, <1>5 DEF Unshared

LEMMA ReferenceOutcome ==
    ASSUME NEW h, NEW R, NEW X, Shape(h, R, X), NEW item \in Used(h.items), NEW g, NEW a,
           Refers(g, h, item, a), NEW k, Shape(k, R \cup {a}, X), Kids(k) = Kids(g),
           NEW p \in Used(h.items), Unshared(k, p), Owners(k) = Owners(g)
    PROVE  Outcome(cJSON_AddItemToArray(k, p, a), R, X, h, R)
<1> DEFINE f == cJSON_AddItemToArray(k, p, a)
           Q == R \cup {a}
           D == {a}
           K == Kids(h)
           N == Kids(k)
           L == Kids(f)
           s == Append(N[p], a)
<1>1. a \notin Used(h.items) /\ Used(g.items) = Used(h.items) \cup {a} /\ R \subseteq Used(h.items)
      /\ g.items[a].ref
  BY DEF Refers, Shape, Linked, LinkedAs
<1>2. N = [q \in Used(g.items) |-> IF q = a THEN K[item] ELSE K[q]]
  <2>1. Referred(g, h, R \cup {a}, X, item, a) BY ReferredShape
  <2> QED BY <2>1 DEF Referred
<1>3. Closed(k, N, D)
  <2>1. a \notin Owners(k) BY <1>1 DEF Owners
  <2> QED BY <2>1 DEF Closed
<1>4. a \in Q /\ a \in D /\ p \notin D /\ Q \ {a} = R BY <1>1
<1>5. /\ Shape(f, Q \ {a}, X) /\ L = [N EXCEPT ![p] = s] /\ N[p] \in Seq(Used(k.items))
  <2>1. Longer(f, k, Q \ {a}, X, p, a)
    <3> HIDE DEF Q, D, f
    <3>1. Shape(k, Q, X) /\ f = cJSON_AddItemToArray(k, p, a) BY DEF Q, f
    <3> QED BY <1>3, <1>4, <3>1, AppendedShape
  <2> QED BY <2>1 DEF Longer
<1>6. s # N[p] BY <1>5, AppendFacts
<1>7. DOMAIN K = Used(h.items) BY DEF Kids
<1>8. s = Append(N[p], a) OBVIOUS
<1> HIDE DEF f, K, L, N, s
<1>9. DOMAIN N = Used(g.items) /\ N[p] = K[p] /\ N[a] = K[item] /\ \A q \in Used(h.items) : N[q] = K[q]
  BY <1>1, <1>2
<1>10. DOMAIN L = Used(g.items) /\ L[p] = s /\ \A q \in Used(g.items) : q # p => L[q] = N[q]
  BY <1>1, <1>5, <1>9
<1>11. Changes(K, L) = {p}
  <2>1. p \in DOMAIN K \cap DOMAIN L /\ L[p] # K[p] BY <1>1, <1>6, <1>7, <1>9, <1>10
  <2>2. \A q \in DOMAIN K \cap DOMAIN L : q # p => L[q] = K[q] BY <1>1, <1>7, <1>9, <1>10
  <2> QED BY <2>1, <2>2, OneChange
<1>12. AttachesReference(K, R, L, R, p)
  <2>1. a \in DOMAIN L \ DOMAIN K /\ item \in DOMAIN K /\ DOMAIN L = DOMAIN K \cup {a}
    BY <1>1, <1>7, <1>10
  <2>2. L[p] = Append(K[p], a) /\ L[a] = K[item] BY <1>1, <1>8, <1>9, <1>10
  <2> QED BY <2>1, <2>2 DEF AttachesReference
<1>13. ForestStep(K, R, L, R) BY <1>11, <1>12 DEF ForestStep
<1>14. Shape(f, R, X) BY <1>4, <1>5
<1> QED BY <1>13, <1>14 DEF Outcome, f, K, L

(* A list that changed by one of its items, c, which is a root now.        *)
Relisted(g, h, Q, X, p, c, s) ==
    /\ Shape(g, Q \cup {c}, X) /\ c \notin Q /\ c \in Used(h.items)
    /\ Used(g.items) = Used(h.items) /\ Owners(g) = Owners(h) /\ Borrowers(g) = Borrowers(h)
    /\ Kids(g) = [Kids(h) EXCEPT ![p] = s] /\ p \in Owners(h)
    /\ \A q \in Used(h.items) : /\ g.items[q].valuestring = h.items[q].valuestring
                                /\ q # p => g.items[q].child = h.items[q].child

LEMMA DetachedShape ==
    ASSUME NEW h, NEW R, NEW X, Shape(h, R, X), NEW p, Unshared(h, p),
           NEW j \in 1 .. Len(Kids(h)[p]), NEW c, c = Kids(h)[p][j],
           NEW g, g = cJSON_DetachItemFromArray(h, p, c)
    PROVE  Relisted(g, h, R, X, p, c, RemoveAt(Kids(h)[p], j)) /\ c \notin R
<1>0. h \in Heaps /\ Linked(h, R) /\ Held(h, X) BY DEF Shape
<1>1. p \in Owners(h) /\ p \in Used(h.items) BY DEF Unshared, Owners
<1>2. Detaches(g, h, R, p, j, c) BY <1>0, DetachedLinks
<1>3. Detached(g, h, p, j, c, h.items[c].prev, h.items[c].next) BY <1>0, <1>1, DetachFacts
<1>4. /\ g \in Heaps /\ Linked(g, R \cup {c}) /\ SameButLinks(g, h)
      /\ Kids(g) = [Kids(h) EXCEPT ![p] = RemoveAt(Kids(h)[p], j)]
      /\ Owners(g) = Owners(h) /\ c \in Used(h.items) /\ c \notin R
  BY <1>2 DEF Detaches
<1>5. /\ Used(g.items) = Used(h.items) /\ g.texts = h.texts
      /\ \A q \in Used(h.items) : /\ g.items[q].ref = h.items[q].ref
                                  /\ g.items[q].string = h.items[q].string
                                  /\ g.items[q].valuestring = h.items[q].valuestring
  BY <1>4 DEF SameButLinks
<1>6. Held(g, X) BY <1>0, <1>4, <1>5, SameHeld
<1>7. \A q \in Used(h.items) : q # p => g.items[q].child = h.items[q].child BY <1>3 DEF Detached
<1>8. Borrowers(g) = Borrowers(h) BY <1>4, <1>5 DEF Borrowers
<1>9. Shape(g, R \cup {c}, X) BY <1>4, <1>6 DEF Shape
<1> QED BY <1>1, <1>4, <1>5, <1>7, <1>8, <1>9 DEF Relisted

Swapped(s, h, p, j, new) == s = [Kids(h)[p] EXCEPT ![j] = new]

LEMMA ExchangedShape ==
    ASSUME NEW h, NEW R, NEW X, Shape(h, R, X), NEW p, Unshared(h, p),
           NEW j \in 1 .. Len(Kids(h)[p]), NEW c, c = Kids(h)[p][j], NEW new \in R,
           NEW D, Closed(h, Kids(h), D), new \in D, p \notin D,
           NEW s, Swapped(s, h, p, j, new), NEW g, g = Exchange(h, p, c, new)
    PROVE  Relisted(g, h, R \ {new}, X, p, c, s) /\ c \notin R
<1>0. h \in Heaps /\ Linked(h, R) /\ Held(h, X) BY DEF Shape
<1>1. p \in Owners(h) /\ p \in Used(h.items) BY DEF Unshared, Owners
<1>a. new \in R OBVIOUS
<1>2. Exchanges(g, h, R, p, j, c, new) BY <1>0, <1>a, ExchangedLinks
<1>3. Exchanged(g, h, p, j, c, new, h.items[c].prev, h.items[c].next)
  BY <1>0, <1>1, <1>a, ExchangeFacts
<1>4. /\ g \in Heaps /\ Linked(g, (R \ {new}) \cup {c}) /\ SameButLinks(g, h)
      /\ Kids(g) = [Kids(h) EXCEPT ![p] = [@ EXCEPT ![j] = new]]
      /\ Owners(g) = Owners(h) /\ c \in Used(h.items) /\ c \notin R
  BY <1>2 DEF Exchanges
<1>5. /\ Used(g.items) = Used(h.items) /\ g.texts = h.texts
      /\ \A q \in Used(h.items) : /\ g.items[q].ref = h.items[q].ref
                                  /\ g.items[q].string = h.items[q].string
                                  /\ g.items[q].valuestring = h.items[q].valuestring
  BY <1>4 DEF SameButLinks
<1>6. Held(g, X) BY <1>0, <1>4, <1>5, SameHeld
<1>7. \A q \in Used(h.items) : q # p => g.items[q].child = h.items[q].child BY <1>3 DEF Exchanged
<1>8. Borrowers(g) = Borrowers(h) BY <1>4, <1>5 DEF Borrowers
<1>9. Shape(g, (R \ {new}) \cup {c}, X) BY <1>4, <1>6 DEF Shape
<1>10. Kids(g) = [Kids(h) EXCEPT ![p] = s] BY <1>4 DEF Swapped
<1> QED BY <1>1, <1>4, <1>5, <1>7, <1>8, <1>9, <1>10 DEF Relisted

(* The item is freed then; what it owns is what it owned in the list.      *)
Relieved(f, h, Q, X, p, c, s, G) ==
    /\ Shape(f, Q, X) /\ Used(f.items) = Used(h.items) \ G /\ p \notin G /\ c \in G
    /\ \A q \in Used(f.items) : Kids(f)[q] = IF q = p THEN s ELSE Kids(h)[q]

LEMMA RelistedFreed ==
    ASSUME NEW h, NEW R, NEW X, Shape(h, R, X), NEW p, NEW c, c \notin R, NEW s, NEW g, NEW Q,
           Relisted(g, h, Q, X, p, c, s), NEW G, Owns(h, c, G), MayGo(h, G),
           NEW D, Closed(h, Kids(h), D), p \notin D, R \subseteq Q \cup D,
           NEW f, f = cJSON_Delete(g, c)
    PROVE  Relieved(f, h, Q, X, p, c, s, G)
<1> DEFINE W == Q \cup {c}
<1>0. h \in Heaps /\ Linked(h, R) BY DEF Shape
<1>1. /\ Shape(g, W, X) /\ c \notin Q /\ c \in Used(h.items)
      /\ Used(g.items) = Used(h.items) /\ Owners(g) = Owners(h) /\ Borrowers(g) = Borrowers(h)
      /\ Kids(g) = [Kids(h) EXCEPT ![p] = s] /\ p \in Owners(h)
      /\ \A q \in Used(h.items) : /\ g.items[q].valuestring = h.items[q].valuestring
                                  /\ q # p => g.items[q].child = h.items[q].child
  BY DEF Relisted
<1>2. c \in W /\ W \ {c} = Q /\ R \subseteq W \cup D BY <1>1
<1> HIDE DEF W
<1>3. g \in Heaps /\ Linked(g, W) BY <1>1 DEF Shape
<1>4. /\ p \in Used(h.items)
      /\ \A q \in Used(h.items) : Kids(g)[q] = IF q = p THEN s ELSE Kids(h)[q]
  <2> DEFINE K == Kids(h)
  <2>1. DOMAIN K = Used(h.items) BY DEF Kids
  <2>2. p \in Used(h.items) BY <1>1 DEF Owners
  <2> HIDE DEF K
  <2>3. Kids(g) = [K EXCEPT ![p] = s] BY <1>1 DEF K
  <2>4. \A q \in Used(h.items) : Kids(g)[q] = IF q = p THEN s ELSE K[q] BY <2>1, <2>3
  <2> QED BY <2>2, <2>4 DEF K
<1>5. SameBut(g, h, p)
  <2>1. \A q \in Used(h.items) \ {p} : Kids(g)[q] = Kids(h)[q] BY <1>4
  <2>2. \A q \in Used(h.items) \ {p} : Children(Kids(g), q) = Children(Kids(h), q)
    <3> DEFINE K == Kids(h)
               L == Kids(g)
    <3>1. \A q \in Used(h.items) \ {p} : L[q] = K[q] BY <2>1
    <3> HIDE DEF K, L
    <3>2. \A q \in Used(h.items) \ {p} : Children(L, q) = Children(K, q) BY <3>1 DEF Children
    <3> QED BY <3>2 DEF K, L
  <2> QED BY <1>1, <2>2 DEF SameBut
<1>6. PICK F : Owns(g, c, F) BY <1>2, <1>3, DeleteFacts
<1>7. Owns(h, c, F) /\ p \notin F
  BY <1>0, <1>1, <1>2, <1>3, <1>5, <1>6, StillOwns
<1>8. F = G BY <1>7, OwnsUnique
<1>9. MayGo(g, G)
  <2>1. Borrowers(h) \subseteq Used(h.items) /\ p \notin Borrowers(h) /\ Owners(h) \subseteq Used(h.items)
    BY <1>1 DEF Borrowers, Owners
  <2>2. Values(g, Owners(g) \cap G) = Values(h, Owners(h) \cap G) BY <1>1, <2>1 DEF Values
  <2> QED BY <1>1, <2>1, <2>2 DEF MayGo
<1>10. /\ Shape(f, W \ {c}, X) /\ Used(f.items) = Used(g.items) \ G
       /\ Kids(f) = [q \in Used(f.items) |-> Kids(g)[q]]
  <2>1. Freed(f, g, W \ {c}, X, G) BY <1>1, <1>2, <1>6, <1>8, <1>9, FreedShape
  <2> QED BY <2>1 DEF Freed
<1>11. \A q \in Used(f.items) : Kids(f)[q] = Kids(g)[q]
  <2> DEFINE L == Kids(g)
  <2>1. Kids(f) = [q \in Used(f.items) |-> L[q]] BY <1>10
  <2> HIDE DEF L
  <2>2. \A q \in Used(f.items) : Kids(f)[q] = L[q] BY <2>1
  <2> QED BY <2>2 DEF L
<1>12. \A q \in Used(f.items) : Kids(f)[q] = IF q = p THEN s ELSE Kids(h)[q]
  BY <1>1, <1>4, <1>10, <1>11
<1>13. c \in G BY DEF Owns
<1> QED BY <1>1, <1>2, <1>7, <1>8, <1>10, <1>12, <1>13 DEF Relieved

LEMMA RemovedDiffers ==
    ASSUME NEW S, NEW s \in Seq(S), NEW j \in 1 .. Len(s)
    PROVE  RemoveAt(s, j) # s
<1>1. Len(RemoveAt(s, j)) = Len(s) - 1 /\ Len(s) \in Nat BY RemoveAtFacts
<1> QED BY <1>1

LEMMA DetachOutcome ==
    ASSUME NEW h, NEW R, NEW X, Shape(h, R, X), NEW p, Unshared(h, p),
           NEW j \in 1 .. Len(Kids(h)[p]), NEW c, c = Kids(h)[p][j],
           NEW g, g = cJSON_DetachItemFromArray(h, p, c)
    PROVE  Outcome(g, R \cup {c}, X, h, R)
<1> DEFINE K == Kids(h)
           L == Kids(g)
           s == RemoveAt(K[p], j)
<1>0. h \in Heaps /\ Linked(h, R) /\ p \in Used(h.items) BY DEF Shape, Unshared, Owners
<1>1. Relisted(g, h, R, X, p, c, RemoveAt(Kids(h)[p], j)) BY DetachedShape
<1>2. Shape(g, R \cup {c}, X) /\ L = [K EXCEPT ![p] = s] BY <1>1 DEF Relisted
<1>3. K[p] \in Seq(Used(h.items)) BY <1>0, KidsList
<1>4. s # K[p] BY <1>3, RemovedDiffers
<1>5. DOMAIN K = Used(h.items) /\ c = K[p][j] /\ j \in 1 .. Len(K[p]) /\ s = RemoveAt(K[p], j) BY DEF Kids
<1> HIDE DEF K, L, s
<1>6. DOMAIN L = DOMAIN K /\ L[p] = s /\ \A q \in DOMAIN K : q # p => L[q] = K[q] BY <1>0, <1>2, <1>5
<1>7. Changes(K, L) = {p}
  <2>1. p \in DOMAIN K \cap DOMAIN L /\ L[p] # K[p] BY <1>0, <1>4, <1>5, <1>6
  <2> QED BY <1>6, <2>1, OneChange
<1>8. j \in DOMAIN K[p] BY <1>3, <1>5
<1>9. TakesOut(K, R, L, R \cup {c}, p, j) BY <1>5, <1>6 DEF TakesOut
<1>10. ForestStep(K, R, L, R \cup {c}) BY <1>7, <1>8, <1>9 DEF ForestStep
<1> QED BY <1>2, <1>10 DEF Outcome, K, L

LEMMA DiscardOutcome ==
    ASSUME NEW h, NEW R, NEW X, Shape(h, R, X), NEW p, Unshared(h, p),
           NEW j \in 1 .. Len(Kids(h)[p]), NEW c, c = Kids(h)[p][j],
           NEW G, Owns(h, c, G), MayGo(h, G),
           NEW f, f = cJSON_Delete(cJSON_DetachItemFromArray(h, p, c), c)
    PROVE  Outcome(f, R, X, h, R)
<1> DEFINE K == Kids(h)
           L == Kids(f)
           s == RemoveAt(K[p], j)
           g == cJSON_DetachItemFromArray(h, p, c)
<1>0. h \in Heaps /\ Linked(h, R) /\ p \in Used(h.items) BY DEF Shape, Unshared, Owners
<1>1. Relisted(g, h, R, X, p, c, s) /\ c \notin R
  <2>1. Relisted(g, h, R, X, p, c, RemoveAt(Kids(h)[p], j)) /\ c \notin R
    <3> HIDE DEF g
    <3>1. g = cJSON_DetachItemFromArray(h, p, c) BY DEF g
    <3> QED BY <3>1, DetachedShape
  <2> QED BY <2>1
<1>2. K[p] \in Seq(Used(h.items)) BY <1>0, KidsList
<1>3. s # K[p] BY <1>2, RemovedDiffers
<1>4. DOMAIN K = Used(h.items) /\ c = K[p][j] /\ j \in 1 .. Len(K[p]) /\ s = RemoveAt(K[p], j)
      /\ DOMAIN L = Used(f.items)
  BY DEF Kids
<1> HIDE DEF L, s
<1>5. /\ Shape(f, R, X) /\ Used(f.items) = Used(h.items) \ G /\ p \notin G /\ c \in G
      /\ \A q \in Used(f.items) : L[q] = IF q = p THEN s ELSE K[q]
  <2> DEFINE D == {}
  <2>1. Closed(h, Kids(h), D) /\ p \notin D /\ R \subseteq R \cup D BY DEF Closed
  <2>2. f = cJSON_Delete(g, c) OBVIOUS
  <2> HIDE DEF D, g
  <2>3. Relieved(f, h, R, X, p, c, s, G) BY <1>1, <2>1, <2>2, RelistedFreed
  <2> QED BY <2>3 DEF L, Relieved
<1> HIDE DEF K
<1>6. Changes(K, L) = {p}
  <2>1. p \in DOMAIN K \cap DOMAIN L /\ L[p] # K[p] BY <1>0, <1>3, <1>4, <1>5
  <2>2. \A q \in DOMAIN K \cap DOMAIN L : q # p => L[q] = K[q] BY <1>4, <1>5
  <2> QED BY <2>1, <2>2, OneChange
<1>7. j \in DOMAIN K[p] BY <1>2, <1>4 DEF K
<1>8. TakesOut(K, R, L, R, p, j)
  <2>1. DOMAIN L \subseteq DOMAIN K \ {K[p][j]} BY <1>4, <1>5
  <2>2. L[p] = RemoveAt(K[p], j) BY <1>0, <1>4, <1>5
  <2> QED BY <2>1, <2>2 DEF TakesOut
<1>9. ForestStep(K, R, L, R) BY <1>6, <1>7, <1>8 DEF ForestStep
<1> QED BY <1>5, <1>9 DEF Outcome, K, L

(* The item new takes the place of c, and c is freed.                      *)
LEMMA ReplaceOutcome ==
    ASSUME NEW h, NEW R, NEW X, NEW k, Shape(k, R, X), Kids(k) = Kids(h), NEW p, Unshared(k, p),
           NEW j \in 1 .. Len(Kids(k)[p]), NEW c, c = Kids(k)[p][j], NEW new \in R,
           NEW D, Closed(k, Kids(k), D), new \in D, p \notin D,
           NEW G, Owns(k, c, G), MayGo(k, G),
           NEW f, f = cJSON_ReplaceItemInArray(k, p, c, new)
    PROVE  Outcome(f, R \ {new}, X, h, R)
<1> DEFINE K == Kids(k)
           L == Kids(f)
           s == [K[p] EXCEPT ![j] = new]
           g == Exchange(k, p, c, new)
           Q == R \ {new}
<1>0. k \in Heaps /\ Linked(k, R) /\ p \in Used(k.items) BY DEF Shape, Unshared, Owners
<1>1. Relisted(g, k, Q, X, p, c, s) /\ c \notin R
  <2>1. g = Exchange(k, p, c, new) /\ Swapped(s, k, p, j, new) /\ new \in R
    BY DEF Swapped
  <2> HIDE DEF g, s, K
  <2>2. Relisted(g, k, R \ {new}, X, p, c, s) /\ c \notin R
    <3>1. new \in R BY <2>1
    <3> QED BY <2>1, <3>1, ExchangedShape
  <2> QED BY <2>2
<1>2. K[p] \in Seq(Used(k.items)) BY <1>0, KidsList
<1>3. DOMAIN K = Used(k.items) /\ c = K[p][j] /\ j \in 1 .. Len(K[p]) /\ s = [K[p] EXCEPT ![j] = new]
      /\ DOMAIN L = Used(f.items) /\ R \subseteq Q \cup D /\ K = Kids(h)
  BY DEF Kids
<1>4. s # K[p] /\ j \in DOMAIN K[p]
  <2> DEFINE t == K[p]
  <2>1. t \in Seq(Used(k.items)) /\ c = t[j] /\ j \in 1 .. Len(t) BY <1>2
  <2> HIDE DEF t
  <2>2. j \in DOMAIN t BY <2>1
  <2>3. [t EXCEPT ![j] = new][j] = new BY <2>2
  <2>4. new # c BY <1>1
  <2>5. [t EXCEPT ![j] = new] # t BY <2>1, <2>3, <2>4
  <2> QED BY <2>2, <2>5 DEF t
<1> HIDE DEF L, s, Q
<1>5. /\ Shape(f, Q, X) /\ Used(f.items) = Used(k.items) \ G /\ p \notin G /\ c \in G
      /\ \A q \in Used(f.items) : L[q] = IF q = p THEN s ELSE K[q]
  <2>1. f = cJSON_Delete(g, c) BY ReplaceIs
  <2> HIDE DEF g
  <2>2. Relieved(f, k, Q, X, p, c, s, G) BY <1>1, <1>3, <2>1, RelistedFreed
  <2> QED BY <2>2 DEF L, Relieved
<1> HIDE DEF K
<1>6. Changes(K, L) = {p}
  <2>1. p \in DOMAIN K \cap DOMAIN L /\ L[p] # K[p] BY <1>0, <1>3, <1>4, <1>5
  <2>2. \A q \in DOMAIN K \cap DOMAIN L : q # p => L[q] = K[q] BY <1>3, <1>5
  <2> QED BY <2>1, <2>2, OneChange
<1>7. TakesOut(K, R, L, Q, p, j)
  <2>1. DOMAIN L \subseteq DOMAIN K \ {K[p][j]} BY <1>3, <1>5
  <2>2. L[p] = [K[p] EXCEPT ![j] = new] BY <1>0, <1>3, <1>5
  <2> QED BY <2>1, <2>2 DEF TakesOut, Q
<1>8. ForestStep(K, R, L, Q) BY <1>4, <1>6, <1>7 DEF ForestStep
<1> QED BY <1>3, <1>5, <1>8 DEF Outcome, L, Q

-----------------------------------------------------------------------------
(* The heap a call starts from.                                            *)
LEMMA HeapIs ==
    /\ H.items = items /\ H.texts = texts
    /\ References = Borrowers(H) /\ Kids(H) = [p \in Used(items) |-> ChildrenOf(H, p)]
    /\ Owners(H) = Used(items) \ References
<1>1. H.items = items /\ H.texts = texts BY DEF H, Heap
<1>2. References = Borrowers(H) BY <1>1 DEF References, Borrowers, Owners
<1> QED BY <1>1, <1>2 DEF Kids, Owners, References

(* The items that one leads to, by way of references too, or owns.         *)
LEMMA ReachHere ==
    ASSUME NEW R, NEW X, Shape(H, R, X), NEW p \in Used(items)
    PROVE  Closed(H, Kids(H), Reach(p)) /\ p \in Reach(p)
<1> DEFINE U == Used(items)
           K == Kids(H)
           edges == [a \in U |-> ToSet(ChildrenOf(H, a))]
           S == Reach(p)
<1>0. H \in Heaps /\ Linked(H, R) /\ H.items = items BY HeapIs DEF Shape
<1>1. \A a \in U : edges[a] = Children(K, a) /\ Children(K, a) \subseteq U
  <2> SUFFICES ASSUME NEW a \in U PROVE edges[a] = Children(K, a) /\ Children(K, a) \subseteq U
    OBVIOUS
  <2>1. K[a] = ChildrenOf(H, a) /\ K[a] \in Seq(U) /\ Children(K, a) \subseteq U
    BY <1>0, KidsList
  <2>2. edges[a] = ToSet(K[a]) BY <2>1
  <2> HIDE DEF K, edges
  <2>3. ToSet(K[a]) = {K[a][j] : j \in 1 .. Len(K[a])} BY <2>1 DEF ToSet
  <2> QED BY <2>1, <2>2, <2>3 DEF Children
<1>2. DOMAIN edges = U /\ S = Reachable(edges, p) BY DEF Reach
<1> HIDE DEF edges, S, K
<1>3. S \subseteq U /\ p \in S /\ \A x \in S : edges[x] \subseteq S
  <2>1. \A x \in DOMAIN edges : edges[x] \subseteq DOMAIN edges BY <1>1, <1>2
  <2>2. p \in DOMAIN edges BY <1>2
  <2>3. /\ S \subseteq DOMAIN edges /\ p \in S
        /\ \A x \in S : edges[x] \subseteq S
    BY <1>2, <2>1, <2>2, ReachableFacts
  <2> QED BY <1>2, <2>3
<1>4. Closed(H, K, S) BY <1>1, <1>3 DEF Closed
<1> QED BY <1>3, <1>4 DEF S, K

LEMMA OwnedHere ==
    ASSUME NEW R, NEW X, Shape(H, R, X), NEW c \in Used(items)
    PROVE  Owns(H, c, Owned(c))
<1> DEFINE U == Used(items)
           K == Kids(H)
           edges == [a \in U |-> IF items[a].ref THEN {} ELSE ToSet(ChildrenOf(H, a))]
           G == Owned(c)
<1>0. H \in Heaps /\ Linked(H, R) /\ H.items = items BY HeapIs DEF Shape
<1>1. \A a \in U : /\ edges[a] = IF items[a].ref THEN {} ELSE Children(K, a)
                   /\ Children(K, a) \subseteq U
  <2> SUFFICES ASSUME NEW a \in U
               PROVE  /\ edges[a] = IF items[a].ref THEN {} ELSE Children(K, a)
                      /\ Children(K, a) \subseteq U
    OBVIOUS
  <2>1. K[a] = ChildrenOf(H, a) /\ K[a] \in Seq(U) /\ Children(K, a) \subseteq U
    BY <1>0, KidsList
  <2>2. edges[a] = IF items[a].ref THEN {} ELSE ToSet(K[a]) BY <2>1
  <2> HIDE DEF K, edges
  <2>3. ToSet(K[a]) = {K[a][j] : j \in 1 .. Len(K[a])} BY <2>1 DEF ToSet
  <2> QED BY <2>1, <2>2, <2>3 DEF Children
<1>2. DOMAIN edges = U /\ G = Reachable(edges, c) BY DEF Owned
<1>3. \A a \in U : a \in Owners(H) <=> ~items[a].ref BY <1>0 DEF Owners
<1>4. Owners(H) \subseteq U BY <1>0 DEF Owners
<1> HIDE DEF edges, G, K
<1>5. /\ G \subseteq U /\ c \in G /\ \A x \in G : edges[x] \subseteq G
      /\ \A S \in SUBSET U : c \in S /\ (\A x \in S : edges[x] \subseteq S) => G \subseteq S
  <2>1. \A x \in DOMAIN edges : edges[x] \subseteq DOMAIN edges
    <3> SUFFICES ASSUME NEW x \in U PROVE edges[x] \subseteq U BY <1>2
    <3> QED BY <1>1
  <2>2. c \in DOMAIN edges BY <1>2
  <2>3. /\ G \subseteq DOMAIN edges /\ c \in G
        /\ \A x \in G : edges[x] \subseteq G
        /\ \A S \in SUBSET DOMAIN edges :
             c \in S /\ (\A x \in S : edges[x] \subseteq S) => G \subseteq S
    BY <1>2, <2>1, <2>2, ReachableFacts
  <2> QED BY <1>2, <2>3
<1>6. Closed(H, K, G) BY <1>1, <1>3, <1>4, <1>5 DEF Closed
<1>7. ASSUME NEW S, c \in S, Closed(H, K, S) PROVE G \subseteq S
  <2> DEFINE V == S \cap U
  <2>1. \A x \in V : edges[x] \subseteq V
    <3> SUFFICES ASSUME NEW x \in V PROVE edges[x] \subseteq V OBVIOUS
    <3>1. CASE items[x].ref BY <1>1, <3>1
    <3>2. CASE ~items[x].ref
      <4>1. x \in S \cap Owners(H) BY <1>3, <3>2
      <4>2. Children(K, x) \subseteq S BY <1>7, <4>1 DEF Closed
      <4> QED BY <1>1, <3>2, <4>2
    <3> QED BY <3>1, <3>2
  <2>2. V \in SUBSET U /\ c \in V BY <1>7
  <2> HIDE DEF V
  <2>3. G \subseteq V BY <1>5, <2>1, <2>2
  <2> QED BY <2>3 DEF V
<1>8. G \subseteq Used(H.items) BY <1>0, <1>5
<1> QED BY <1>5, <1>6, <1>7, <1>8 DEF Owns, G, K

LEMMA MayFreeHere ==
    ASSUME NEW S, S \subseteq Used(items), MayFree(S)
    PROVE  MayGo(H, S)
<1>0. /\ H.items = items /\ References = Borrowers(H) /\ Owners(H) = Used(items) \ References
      /\ \A a \in Owners(H) : ~items[a].ref
  BY HeapIs DEF References
<1>1. Values(H, Owners(H) \cap S) \ {NULL} \subseteq Strings(S)
  <2> SUFFICES ASSUME NEW q \in Owners(H) \cap S, items[q].valuestring # NULL
               PROVE  items[q].valuestring \in Strings(S)
    BY <1>0 DEF Values
  <2> DEFINE own(a) == {items[a].string} \cup (IF items[a].ref THEN {} ELSE {items[a].valuestring})
  <2>1. items[q].valuestring \in own(q) /\ q \in S BY <1>0
  <2>2. Strings(S) = (UNION {own(a) : a \in S}) \ {NULL} BY DEF Strings
  <2>3. own(q) \in {own(a) : a \in S} BY <2>1
  <2>4. items[q].valuestring # NULL OBVIOUS
  <2> QED BY <2>1, <2>2, <2>3, <2>4, Zenon
<1>2. \A r \in References \ S : items[r].child \notin S /\ items[r].valuestring \notin Strings(S)
  BY DEF MayFree
<1> QED BY <1>0, <1>1, <1>2 DEF MayGo

LEMMA ContainerHere ==
    ASSUME NEW p \in Arrays \cup Objects
    PROVE  Unshared(H, p) /\ p \in Used(items)
<1>0. H.items = items /\ References = Borrowers(H) /\ Owners(H) = Used(items) \ References
  BY HeapIs
<1>1. /\ p \in Used(items) \ References
      /\ \A r \in References : items[p].child # NULL => items[r].child # items[p].child
  BY DEF Arrays, Objects, Containers
<1>2. Borrowers(H) = Used(H.items) \ Owners(H) BY DEF Borrowers
<1> QED BY <1>0, <1>1, <1>2 DEF Unshared

(* What is selected is one of the children.                                *)
LEMMA SelectedHere ==
    ASSUME NEW R, NEW X, Shape(H, R, X), NEW p \in Arrays \cup Objects, NEW key,
           NEW c \in Selectable(p, key)
    PROVE  c \in Used(items) /\ \E j \in 1 .. Len(Kids(H)[p]) : c = Kids(H)[p][j]
<1> DEFINE s == ChildrenOf(H, p)
<1>0. H \in Heaps /\ Linked(H, R) /\ H.items = items BY HeapIs DEF Shape
<1>1. p \in Used(items) BY ContainerHere
<1>2. s = Kids(H)[p] /\ s \in Seq(Used(items)) BY <1>0, <1>1, KidsList
<1>3. \E j \in 1 .. Len(s) : c = s[j]
  <2>1. CASE p \in Arrays
    <3>1. c \in ToSet(s) BY <2>1 DEF Selectable
    <3> HIDE DEF s
    <3> QED BY <1>2, <3>1 DEF ToSet
  <2>2. CASE p \notin Arrays
    <3> DEFINE named == {j \in DOMAIN s : KeyOf(H, s[j]) = key}
    <3>1. c = cJSON_GetObjectItem(H, p, key) /\ c # NULL BY <2>2 DEF Selectable
    <3>2. c = IF named = {} THEN NULL ELSE s[Min(named)] BY <3>1 DEF cJSON_GetObjectItem
    <3>3. named \in SUBSET Nat /\ named # {} /\ named \subseteq 1 .. Len(s)
      <4>1. named # {} BY <3>1, <3>2
      <4> HIDE DEF s
      <4> QED BY <1>2, <4>1
    <3>4. c = s[Min(named)] BY <3>2, <3>3
    <3> HIDE DEF named
    <3>5. Min(named) \in named BY <3>3, MinNatural
    <3> QED BY <3>3, <3>4, <3>5
  <2> QED BY <2>1, <2>2
<1> HIDE DEF s
<1>4. c \in Used(items) BY <1>2, <1>3
<1> QED BY <1>2, <1>3, <1>4

(* An item that got a name is where it was.                                *)
LEMMA RenamedSame ==
    ASSUME NEW h, NEW k, NEW item, NEW t, Points(k, h, item, "string", t),
           Kids(k) = Kids(h), Owners(k) = Owners(h)
    PROVE  /\ \A p : Unshared(h, p) => Unshared(k, p)
           /\ \A D : Closed(h, Kids(h), D) => Closed(k, Kids(k), D)
           /\ \A c, G : Owns(h, c, G) => Owns(k, c, G)
           /\ \A G : MayGo(h, G) => MayGo(k, G)
<1>1. /\ Used(k.items) = Used(h.items)
      /\ \A q \in Used(h.items) : /\ k.items[q].child = h.items[q].child
                                  /\ k.items[q].valuestring = h.items[q].valuestring
  BY DEF Points
<1>2. Borrowers(k) = Borrowers(h) /\ Borrowers(h) \subseteq Used(h.items) /\ Owners(h) \subseteq Used(h.items)
  BY <1>1 DEF Borrowers, Owners
<1>3. \A p : Unshared(h, p) => Unshared(k, p) BY <1>1, <1>2 DEF Unshared
<1>4. \A D : Closed(h, Kids(h), D) => Closed(k, Kids(k), D) BY DEF Closed
<1>5. \A c, G : Owns(h, c, G) => Owns(k, c, G)
  <2>1. \A D : Closed(k, Kids(k), D) => Closed(h, Kids(h), D) BY DEF Closed
  <2> QED BY <1>1, <1>4, <2>1 DEF Owns
<1>6. \A G : MayGo(h, G) => MayGo(k, G)
  <2> SUFFICES ASSUME NEW G, MayGo(h, G) PROVE MayGo(k, G) OBVIOUS
  <2>1. Values(k, Owners(k) \cap G) = Values(h, Owners(h) \cap G) BY <1>1, <1>2 DEF Values
  <2>2. \A r \in Borrowers(h) \ G :
          /\ h.items[r].child \notin G
          /\ h.items[r].valuestring \notin Values(h, Owners(h) \cap G) \ {NULL}
    BY DEF MayGo
  <2> QED BY <1>1, <1>2, <2>1, <2>2 DEF MayGo
<1> QED BY <1>3, <1>4, <1>5, <1>6

(* Items the caller creates.                                               *)
LEMMA CreatedCopied ==
    ASSUME NEW h, NEW R, NEW X, Shape(h, R, X), NEW type \in ItemTypes,
           NEW r, r = CreateItem(h, type)
    PROVE  ItemCopied(r, h, R, X)
<1>1. Building(h, R, X, Used(h.items)) BY WholeApart
<1>2. (r.p = NULL /\ r.h = h) \/ (r.p # NULL /\ Extends(r.h, h, R, X, Used(h.items), r.p))
  BY <1>1, CreateFacts
<1>3. CASE r.p = NULL /\ r.h = h
  <2>1. Keeps(r.h, h, Used(h.items)) BY <1>3 DEF Keeps
  <2> QED BY <1>1, <1>3, <2>1 DEF ItemCopied
<1>4. CASE r.p # NULL /\ Extends(r.h, h, R, X, Used(h.items), r.p)
  <2>1. /\ r.p \in Items \ Used(h.items) /\ Keeps(r.h, h, Used(h.items))
        /\ Building(r.h, R \cup {r.p}, X, Used(h.items))
    BY <1>4 DEF Extends
  <2> QED BY <2>1 DEF ItemCopied
<1> QED BY <1>2, <1>3, <1>4

(* An array of two strings.                                                *)
LEMMA ArrayCopied ==
    ASSUME NEW h, NEW R, NEW X, Shape(h, R, X),
           NEW a, a = CreateItem(h, "cJSON_Array"), a.p # NULL,
           NEW n1, n1 = CreateItem(a.h, "cJSON_String"), n1.p # NULL,
           NEW n2, n2 = CreateItem(n1.h, "cJSON_String"), n2.p # NULL,
           NEW f, f = suffix_object(Put(n2.h, a.p, "child", n1.p), n1.p, n2.p)
    PROVE  Keeps(f, h, Used(h.items)) /\ a.p \in Items \ Used(h.items)
           /\ Building(f, R \cup {a.p}, X, Used(h.items))
<1> DEFINE B == Used(h.items)
           R1 == R \cup {a.p}
           R2 == R1 \cup {n1.p}
           R3 == R2 \cup {n2.p}
           k == Put(n2.h, a.p, "child", n1.p)
<1>0. "cJSON_Array" \in ItemTypes /\ "cJSON_String" \in ItemTypes BY DEF ItemTypes
<1>1. Building(h, R, X, B) BY WholeApart
<1> HIDE DEF B
<1>2. Extends(a.h, h, R, X, B, a.p) BY <1>0, <1>1, CreateFacts
<1>3. Building(a.h, R1, X, B) BY <1>2 DEF Extends
<1> HIDE DEF R1
<1>4. Extends(n1.h, a.h, R1, X, B, n1.p) BY <1>0, <1>3, CreateFacts
<1>5. Building(n1.h, R2, X, B) BY <1>4 DEF Extends
<1> HIDE DEF R2
<1>6. Extends(n2.h, n1.h, R2, X, B, n2.p) BY <1>0, <1>5, CreateFacts
<1>7. Building(n2.h, R3, X, B) BY <1>6 DEF Extends
<1>8. /\ a.p \in Items /\ a.p \notin Used(h.items) /\ a.p \in Used(a.h.items)
      /\ n1.p \in Items /\ n1.p \notin Used(a.h.items) /\ n1.p \in Used(n1.h.items)
      /\ n2.p \in Items /\ n2.p \notin Used(n1.h.items) /\ n2.p \in Used(n2.h.items)
      /\ Used(h.items) \subseteq Used(a.h.items) /\ Used(a.h.items) \subseteq Used(n1.h.items)
      /\ Used(n1.h.items) \subseteq Used(n2.h.items) /\ B \subseteq Used(h.items)
  BY <1>2, <1>4, <1>6 DEF Extends
<1>9. /\ Kids(a.h) = [p \in Used(a.h.items) |-> IF p = a.p THEN <<>> ELSE Kids(h)[p]]
      /\ Kids(n1.h) = [p \in Used(n1.h.items) |-> IF p = n1.p THEN <<>> ELSE Kids(a.h)[p]]
      /\ Kids(n2.h) = [p \in Used(n2.h.items) |-> IF p = n2.p THEN <<>> ELSE Kids(n1.h)[p]]
  BY <1>2, <1>4, <1>6 DEF Extends
<1>10. /\ Kids(n2.h)[a.p] = <<>> /\ Kids(n2.h)[n1.p] = <<>> /\ Kids(n2.h)[n2.p] = <<>>
  BY <1>8, <1>9
<1>11. n2.h \in Heaps /\ Linked(n2.h, R3) BY <1>7 DEF Building, Shape
<1>12. n2.h.items[a.p].child = NULL BY <1>8, <1>10, <1>11, KidsList
<1>13. AppendsApart(k, n2.h, R3 \ {n1.p}, X, B, a.p, n1.p)
  <2> DEFINE D == {n1.p}
  <2>1. Children(Kids(n2.h), n1.p) = {} BY <1>10 DEF Children
  <2>2. Closed(n2.h, Kids(n2.h), D) BY <2>1 DEF Closed
  <2>3. n1.p \in R3 \ B /\ a.p \in Used(n2.h.items) \ B /\ n1.p \in D /\ a.p \notin D
    BY <1>8 DEF R2
  <2>4. k = Behind(n2.h, a.p, n1.p) BY <1>12 DEF Behind
  <2> HIDE DEF D, k, R3
  <2> QED BY <1>7, <2>2, <2>3, <2>4, AppendedBuilding
<1> HIDE DEF k, R3
<1>14. /\ Building(k, R3 \ {n1.p}, X, B) /\ Keeps(k, n2.h, B) /\ SameButLinks(k, n2.h)
       /\ Kids(k) = [Kids(n2.h) EXCEPT ![a.p] = Append(Kids(n2.h)[a.p], n1.p)]
  BY <1>13 DEF AppendsApart
<1>15. Used(k.items) = Used(n2.h.items) BY <1>14 DEF SameButLinks
<1>16. Kids(k)[a.p] = <<n1.p>> /\ Kids(k)[n2.p] = <<>>
  <2>1. DOMAIN Kids(n2.h) = Used(n2.h.items) BY DEF Kids
  <2>2. a.p \in Used(n2.h.items) /\ a.p # n2.p BY <1>8
  <2>3. Append(<<>>, n1.p) = <<n1.p>> OBVIOUS
  <2>4. Kids(k)[a.p] = Append(Kids(n2.h)[a.p], n1.p) BY <1>14, <2>1, <2>2
  <2>5. Kids(k)[n2.p] = Kids(n2.h)[n2.p] BY <1>14, <1>8, <2>1, <2>2
  <2> QED BY <1>10, <2>3, <2>4, <2>5
<1>17. k \in Heaps /\ Linked(k, R3 \ {n1.p}) BY <1>14 DEF Building, Shape
<1>18. k.items[a.p].child # NULL
  <2>1. Kids(k)[a.p] # <<>> BY <1>16
  <2>2. a.p \in Used(k.items) BY <1>8, <1>15
  <2> QED BY <1>17, <2>1, <2>2, KidsList
<1>19. AppendsApart(f, k, (R3 \ {n1.p}) \ {n2.p}, X, B, a.p, n2.p)
  <2> DEFINE D == {n2.p}
             Q == R3 \ {n1.p}
  <2>1. Children(Kids(k), n2.p) = {} BY <1>16 DEF Children
  <2>2. Closed(k, Kids(k), D) BY <2>1 DEF Closed
  <2>3. n2.p \in Q \ B /\ a.p \in Used(k.items) \ B /\ n2.p \in D /\ a.p \notin D
    BY <1>8, <1>15 DEF R3
  <2>4. f = Behind(k, a.p, n2.p)
    <3>1. Last(<<n1.p>>) = n1.p BY DEF Last
    <3>2. f = suffix_object(k, n1.p, n2.p) BY DEF k
    <3> QED BY <1>16, <1>18, <3>1, <3>2 DEF Behind
  <2>5. Building(k, Q, X, B) BY <1>14
  <2> HIDE DEF D, Q
  <2>6. AppendsApart(f, k, Q \ {n2.p}, X, B, a.p, n2.p) BY <2>2, <2>3, <2>4, <2>5, AppendedBuilding
  <2> QED BY <2>6 DEF Q
<1>20. Building(f, (R3 \ {n1.p}) \ {n2.p}, X, B) /\ Keeps(f, k, B) BY <1>19 DEF AppendsApart
<1>21. (R3 \ {n1.p}) \ {n2.p} = R1
  <2>1. R1 \subseteq Used(a.h.items) BY <1>3 DEF Building, Shape, Linked, LinkedAs
  <2> QED BY <1>8, <2>1 DEF R3, R2
<1>22. Keeps(f, h, B)
  <2>1. Keeps(a.h, h, Used(h.items)) /\ Keeps(n1.h, a.h, Used(a.h.items)) /\ Keeps(n2.h, n1.h, Used(n1.h.items))
    BY <1>2, <1>4, <1>6 DEF Extends
  <2>2. \A b \in B : b \in Used(h.items) /\ b \in Used(a.h.items) /\ b \in Used(n1.h.items) BY <1>8
  <2>3. \A b \in B : a.h.items[b] = h.items[b] /\ n1.h.items[b] = a.h.items[b] /\ n2.h.items[b] = n1.h.items[b]
    BY <2>1, <2>2 DEF Keeps
  <2>4. \A b \in B : k.items[b] = n2.h.items[b] /\ f.items[b] = k.items[b] BY <1>14, <1>20 DEF Keeps
  <2> QED BY <2>3, <2>4 DEF Keeps
<1> QED BY <1>8, <1>20, <1>21, <1>22 DEF B, R1

-----------------------------------------------------------------------------
(* The invariant: the items are trees with the roots the caller holds, and *)
(* every string in use is in one slot, but for those whose only pointer    *)
(* was overwritten.                                                        *)
IInv == Shape(H, roots, overwritten)

(* What a step of the forest is, seen from the linked items.               *)
Advances ==
    \/ items' = items /\ roots' = roots
    \/ ForestStep(Kids(H), roots, Kids(H'), roots')

LEMMA Committed ==
    ASSUME NEW g, NEW Q, NEW Y, Outcome(g, Q, Y, H, roots), Commit(g), roots' = Q, overwritten' = Y
    PROVE  IInv' /\ Advances
<1> DEFINE h == H'
<1>1. Shape(g, Q, Y) /\ g \in Heaps BY DEF Outcome, Shape
<1>2. h.items = g.items /\ h.texts = g.texts /\ h \in Heaps
  <2>1. items' = g.items /\ texts' = g.texts BY DEF Commit
  <2>2. h = [items |-> items', texts |-> texts', room |-> 0, ep |-> FALSE] BY DEF H, Heap
  <2> HIDE DEF h
  <2>3. g.items \in [Items -> Item \cup {NULL}] /\ g.texts \in [Texts -> Names \cup {NULL}]
    BY <1>1 DEF Heaps
  <2>4. [items |-> g.items, texts |-> g.texts, room |-> 0, ep |-> FALSE] \in Heaps BY <2>3 DEF Heaps
  <2> QED BY <2>1, <2>2, <2>4
<1>3. Shape(h, Q, Y) /\ Kids(h) = Kids(g)
  <2> HIDE DEF h
  <2> QED BY <1>1, <1>2, SameShape
<1>4. IInv' BY <1>3 DEF IInv
<1>5. Advances
  <2>1. CASE g.items = H.items /\ Q = roots
    <3>1. items' = items BY <2>1, HeapIs DEF Commit
    <3> QED BY <2>1, <3>1 DEF Advances
  <2>2. CASE ForestStep(Kids(H), roots, Kids(g), Q)
    <3>1. Kids(H') = Kids(g) BY <1>3
    <3> QED BY <2>2, <3>1 DEF Advances
  <2> QED BY <2>1, <2>2 DEF Outcome
<1> QED BY <1>4, <1>5

LEMMA EmptyShape ==
    ASSUME NEW h, h = [items |-> [a \in Items |-> NULL], texts |-> [a \in Texts |-> NULL],
                       room |-> 0, ep |-> FALSE]
    PROVE  Shape(h, {}, {})
<1> DEFINE K == Kids(h)
<1>1. h.items = [a \in Items |-> NULL] /\ h.texts = [a \in Texts |-> NULL] OBVIOUS
<1>2. h \in Heaps BY <1>1 DEF Heaps
<1>3. Used(h.items) = {} /\ Used(h.texts) = {} BY <1>1 DEF Used
<1>4. Owners(h) = {} /\ Borrowers(h) = {} /\ Slots(h) = {} BY <1>3 DEF Owners, Borrowers, Slots
<1>5. K = [p \in Used(h.items) |-> K[p]] BY DEF Kids
<1> HIDE DEF K
<1>6. LinkedAs(h, {}, K) BY <1>1, <1>3, <1>4, <1>5 DEF LinkedAs
<1>7. Held(h, {}) BY <1>1, <1>3, <1>4 DEF Held, Values
<1> QED BY <1>1, <1>2, <1>6, <1>7 DEF Shape, Linked, K

LEMMA InitInv ==
    ASSUME Init
    PROVE  IInv
<1>1. H = [items |-> [a \in Items |-> NULL], texts |-> [a \in Texts |-> NULL], room |-> 0, ep |-> FALSE]
  BY DEF Init, H, Heap
<1> QED BY <1>1, EmptyShape DEF IInv, Init

LEMMA EmptyInv ==
    ASSUME items' = [a \in Items |-> NULL], texts' = [a \in Texts |-> NULL],
           roots' = {}, overwritten' = {}
    PROVE  IInv'
<1>1. H' = [items |-> [a \in Items |-> NULL], texts |-> [a \in Texts |-> NULL], room |-> 0, ep |-> FALSE]
  BY DEF H, Heap
<1> QED BY <1>1, EmptyShape DEF IInv

LEMMA Stuttered ==
    ASSUME IInv, UNCHANGED vars
    PROVE  IInv' /\ Advances
BY DEF IInv, vars, H, Heap, Advances

(* A call that makes a tree.                                               *)
LEMMA Made ==
    ASSUME IInv, NEW r, ItemCopied(r, H, roots, overwritten), Returns(r), UNCHANGED overwritten
    PROVE  IInv' /\ Advances
<1>1. Outcome(r.h, roots \cup ({r.p} \ {NULL}), overwritten, H, roots)
  BY BuiltOutcome DEF IInv
<1>2. Commit(r.h) /\ roots' = roots \cup ({r.p} \ {NULL}) BY DEF Returns
<1> QED BY <1>1, <1>2, Committed

(* Every call of the caller's keeps the invariant and is a step of the     *)
(* forest, or leaves the items as they are.                                *)
LEMMA CreateStep ==
    ASSUME IInv, Create
    PROVE  IInv' /\ Advances
<1>1. PICK type \in Types : Returns(CreateItem(H, type)) BY DEF Create
<1>2. type \in ItemTypes BY CJsonAssumption
<1> DEFINE r == CreateItem(H, type)
<1>3. ItemCopied(r, H, roots, overwritten)
  <2> DEFINE z == r
  <2>1. z = CreateItem(H, type) OBVIOUS
  <2> HIDE DEF z
  <2>2. ItemCopied(z, H, roots, overwritten) BY <1>2, <2>1, CreatedCopied DEF IInv
  <2> QED BY <2>2 DEF z
<1>4. Returns(r) /\ UNCHANGED overwritten BY <1>1 DEF Create
<1> HIDE DEF r
<1> QED BY <1>3, <1>4, Made

LEMMA DuplicateStep ==
    ASSUME IInv, Duplicate
    PROVE  IInv' /\ Advances
<1>1. PICK item \in Used(items), recurse \in BOOLEAN : Returns(cJSON_Duplicate(H, item, recurse))
  BY DEF Duplicate
<1>2. item \in Used(H.items) BY HeapIs
<1>3. ItemCopied(cJSON_Duplicate(H, item, recurse), H, roots, overwritten)
  BY <1>2, DuplicateRight DEF IInv
<1> DEFINE r == cJSON_Duplicate(H, item, recurse)
<1>4. ItemCopied(r, H, roots, overwritten) /\ Returns(r) /\ UNCHANGED overwritten
  BY <1>1, <1>3 DEF Duplicate
<1> HIDE DEF r
<1> QED BY <1>4, Made

LEMMA ParseStep ==
    ASSUME IInv, Parse
    PROVE  IInv' /\ Advances
<1>1. PICK text \in Documents, strict \in BOOLEAN : Returns(cJSON_ParseWithOpts(H, text, strict))
  BY DEF Parse
<1>2. text \in Seq(Tokens) BY CJsonAssumption
<1>3. ItemCopied(cJSON_ParseWithOpts(H, text, strict), H, roots, overwritten)
  BY <1>2, ParseRight DEF IInv
<1> DEFINE r == cJSON_ParseWithOpts(H, text, strict)
<1>4. ItemCopied(r, H, roots, overwritten) /\ Returns(r) /\ UNCHANGED overwritten
  BY <1>1, <1>3 DEF Parse
<1> HIDE DEF r
<1> QED BY <1>4, Made

LEMMA CreateStringArrayStep ==
    ASSUME IInv, CreateStringArray
    PROVE  IInv' /\ (Advances \/ crashed')
<1> DEFINE a == CreateItem(H, "cJSON_Array")
           n1 == CreateItem(a.h, "cJSON_String")
           n2 == CreateItem(n1.h, "cJSON_String")
           f == suffix_object(Put(n2.h, a.p, "child", n1.p), n1.p, n2.p)
<1>0. "cJSON_Array" \in ItemTypes BY DEF ItemTypes
<1>1. ItemCopied(a, H, roots, overwritten)
  <2> HIDE DEF a
  <2>1. a = CreateItem(H, "cJSON_Array") BY DEF a
  <2> QED BY <1>0, <2>1, CreatedCopied DEF IInv
<1>2. CASE a.p # NULL /\ NULL \in {n1.p, n2.p}
  <2>1. /\ items' = [b \in Items |-> NULL] /\ texts' = [b \in Texts |-> NULL]
        /\ roots' = {} /\ overwritten' = {} /\ crashed'
    BY <1>2 DEF CreateStringArray
  <2>2. IInv' BY <2>1, EmptyInv
  <2> QED BY <2>1, <2>2
<1>3. CASE a.p = NULL
  <2>1. Returns([h |-> a.h, p |-> a.p]) /\ UNCHANGED overwritten BY <1>3 DEF CreateStringArray
  <2> DEFINE r == [h |-> a.h, p |-> a.p]
  <2>2. r.h = a.h /\ r.p = a.p OBVIOUS
  <2>3. Returns(r) BY <2>1
  <2> HIDE DEF r, a
  <2>4. ItemCopied(r, H, roots, overwritten) BY <1>1, <2>2 DEF ItemCopied
  <2> QED BY <2>1, <2>3, <2>4, Made
<1>4. CASE a.p # NULL /\ NULL \notin {n1.p, n2.p}
  <2> DEFINE r == [h |-> f, p |-> a.p]
  <2>1. Returns(r) /\ UNCHANGED overwritten BY <1>4 DEF CreateStringArray
  <2>2. r.h = f /\ r.p = a.p OBVIOUS
  <2>3. Keeps(f, H, Used(H.items)) /\ a.p \in Items \ Used(H.items)
        /\ Building(f, roots \cup {a.p}, overwritten, Used(H.items))
    <3>1. a = CreateItem(H, "cJSON_Array") /\ a.p # NULL BY <1>4
    <3>2. n1 = CreateItem(a.h, "cJSON_String") /\ n1.p # NULL BY <1>4
    <3>3. n2 = CreateItem(n1.h, "cJSON_String") /\ n2.p # NULL BY <1>4
    <3>4. f = suffix_object(Put(n2.h, a.p, "child", n1.p), n1.p, n2.p) OBVIOUS
    <3> HIDE DEF a, n1, n2, f
    <3> QED BY <3>1, <3>2, <3>3, <3>4, ArrayCopied DEF IInv
  <2> HIDE DEF r, a, f
  <2>4. ItemCopied(r, H, roots, overwritten) BY <2>2, <2>3 DEF ItemCopied
  <2> QED BY <2>1, <2>4, Made
<1> QED BY <1>2, <1>3, <1>4

LEMMA DeleteStep ==
    ASSUME IInv, Delete
    PROVE  IInv' /\ Advances
<1>1. PICK r \in roots : MayFree(Owned(r)) /\ Commit(cJSON_Delete(H, r)) /\ roots' = roots \ {r}
  BY DEF Delete
<1>2. overwritten' = overwritten BY DEF Delete
<1>3. r \in Used(items) BY HeapIs DEF IInv, Shape, Linked, LinkedAs
<1>4. Owns(H, r, Owned(r)) BY <1>3, OwnedHere DEF IInv
<1>5. MayGo(H, Owned(r))
  <2>1. Owned(r) \subseteq Used(items) BY <1>4, HeapIs DEF Owns
  <2> QED BY <1>1, <2>1, MayFreeHere
<1>6. Outcome(cJSON_Delete(H, r), roots \ {r}, overwritten, H, roots)
  BY <1>1, <1>4, <1>5, DeleteOutcome DEF IInv
<1> QED BY <1>1, <1>2, <1>6, Committed

LEMMA DetachStep ==
    ASSUME IInv, DetachItem
    PROVE  IInv' /\ Advances
<1>1. PICK p \in Arrays \cup Objects, key \in Keys : \E c \in Selectable(p, key) :
        /\ Returns([h |-> cJSON_DetachItemFromArray(H, p, c), p |-> c])
        /\ UNCHANGED overwritten
  BY DEF DetachItem
<1>2. PICK c \in Selectable(p, key) : /\ Returns([h |-> cJSON_DetachItemFromArray(H, p, c), p |-> c])
                                      /\ UNCHANGED overwritten
  BY <1>1
<1>3. Unshared(H, p) BY ContainerHere
<1>4. c \in Used(items) /\ \E j \in 1 .. Len(Kids(H)[p]) : c = Kids(H)[p][j]
  BY SelectedHere DEF IInv
<1>5. PICK j \in 1 .. Len(Kids(H)[p]) : c = Kids(H)[p][j] BY <1>4
<1> DEFINE g == cJSON_DetachItemFromArray(H, p, c)
<1>6. Outcome(g, roots \cup {c}, overwritten, H, roots)
  <2>1. g = cJSON_DetachItemFromArray(H, p, c) OBVIOUS
  <2> HIDE DEF g
  <2> QED BY <1>3, <1>5, <2>1, DetachOutcome DEF IInv
<1>7. Commit(g) /\ roots' = roots \cup ({c} \ {NULL}) BY <1>2 DEF Returns
<1>8. c # NULL
  <2>1. H \in Heaps /\ H.items = items BY HeapIs DEF IInv, Shape
  <2> QED BY <1>4, <2>1, UsedFacts
<1>9. roots' = roots \cup {c} /\ overwritten' = overwritten BY <1>2, <1>7, <1>8
<1> HIDE DEF g
<1> QED BY <1>6, <1>7, <1>9, Committed

LEMMA DiscardStep ==
    ASSUME IInv, DeleteItem
    PROVE  IInv' /\ Advances
<1>1. PICK p \in Arrays \cup Objects, key \in Keys : \E c \in Selectable(p, key) :
        /\ MayFree(Owned(c))
        /\ Commit(cJSON_Delete(cJSON_DetachItemFromArray(H, p, c), c))
        /\ UNCHANGED <<roots, overwritten>>
  BY DEF DeleteItem
<1>2. PICK c \in Selectable(p, key) :
        /\ MayFree(Owned(c))
        /\ Commit(cJSON_Delete(cJSON_DetachItemFromArray(H, p, c), c))
        /\ UNCHANGED <<roots, overwritten>>
  BY <1>1
<1>3. Unshared(H, p) BY ContainerHere
<1>4. c \in Used(items) /\ \E j \in 1 .. Len(Kids(H)[p]) : c = Kids(H)[p][j]
  BY SelectedHere DEF IInv
<1>5. PICK j \in 1 .. Len(Kids(H)[p]) : c = Kids(H)[p][j] BY <1>4
<1>6. Owns(H, c, Owned(c)) BY <1>4, OwnedHere DEF IInv
<1>7. MayGo(H, Owned(c))
  <2>1. Owned(c) \subseteq Used(items) BY <1>6, HeapIs DEF Owns
  <2> QED BY <1>2, <2>1, MayFreeHere
<1> DEFINE f == cJSON_Delete(cJSON_DetachItemFromArray(H, p, c), c)
<1>8. Outcome(f, roots, overwritten, H, roots)
  <2>1. f = cJSON_Delete(cJSON_DetachItemFromArray(H, p, c), c) OBVIOUS
  <2> HIDE DEF f
  <2> QED BY <1>3, <1>5, <1>6, <1>7, <2>1, DiscardOutcome DEF IInv
<1>9. Commit(f) /\ roots' = roots /\ overwritten' = overwritten BY <1>2
<1> HIDE DEF f
<1> QED BY <1>8, <1>9, Committed

(* An item of the caller's goes to the end of a list it is not above.      *)
LEMMA NamedAttached ==
    ASSUME IInv, NEW item \in roots, NEW p, Unshared(H, p), NEW key \in Keys,
           NEW D, Closed(H, Kids(H), D), item \in D, p \notin D
    PROVE  Outcome(cJSON_AddItemToObject(H, p, key, item), roots \ {item}, overwritten, H, roots)
<1> DEFINE h == H
           R == roots
           X == overwritten
           d == [h EXCEPT !.texts = Drop(@, {h.items[item].string})]
           k == Named(d, item, key)
<1>0. Shape(h, R, X) /\ item \in R BY DEF IInv
<1>1. item \in Used(h.items) /\ item # NULL /\ h \in Heaps
  <2>1. h \in Heaps /\ R \subseteq Used(h.items) BY <1>0 DEF Shape, Linked, LinkedAs
  <2> HIDE DEF h, R
  <2> QED BY <1>0, <2>1, UsedFacts
<1>2. cJSON_AddItemToObject(h, p, key, item) = cJSON_AddItemToArray(k, p, item)
  BY <1>1 DEF cJSON_AddItemToObject
<1>3. Unshared(h, p) /\ Closed(h, Kids(h), D) OBVIOUS
<1>4. Unnamed(d, h, item) /\ k = Named(d, item, key) BY DEF Unnamed
<1> HIDE DEF h, R, X, d, k
<1>5. NameGone(d, h, item, X, X) BY <1>0, <1>1, <1>4, NameFreed
<1>a. Renames(k, h, item, R, X) BY <1>0, <1>1, <1>4, <1>5, Renamed
<1>6. /\ Shape(k, R, X) /\ Kids(k) = Kids(h) /\ Owners(k) = Owners(h)
      /\ \E t : Points(k, h, item, "string", t)
  BY <1>a DEF Renames
<1>7. Unshared(k, p) /\ Closed(k, Kids(k), D) BY <1>3, <1>6, RenamedSame
<1>8. Outcome(cJSON_AddItemToArray(k, p, item), R \ {item}, X, h, R)
  BY <1>0, <1>6, <1>7, AttachOutcome
<1> QED BY <1>2, <1>8 DEF h, R, X

LEMMA AddItemStep ==
    ASSUME IInv, AddItem
    PROVE  IInv' /\ Advances
<1>1. PICK item \in roots, p \in Arrays \cup Objects, key \in Keys :
        /\ p \notin Reach(item)
        /\ Commit(IF p \in Arrays THEN cJSON_AddItemToArray(H, p, item)
                  ELSE cJSON_AddItemToObject(H, p, key, item))
        /\ roots' = roots \ {item} /\ overwritten' = overwritten
  BY DEF AddItem
<1>2. Unshared(H, p) BY ContainerHere
<1>3. item \in Used(items) BY HeapIs DEF IInv, Shape, Linked, LinkedAs
<1>4. Closed(H, Kids(H), Reach(item)) /\ item \in Reach(item) BY <1>3, ReachHere DEF IInv
<1> DEFINE g == IF p \in Arrays THEN cJSON_AddItemToArray(H, p, item)
                ELSE cJSON_AddItemToObject(H, p, key, item)
<1>5. Outcome(g, roots \ {item}, overwritten, H, roots)
  <2>1. Outcome(cJSON_AddItemToArray(H, p, item), roots \ {item}, overwritten, H, roots)
    BY <1>1, <1>2, <1>4, AttachOutcome DEF IInv
  <2>2. Outcome(cJSON_AddItemToObject(H, p, key, item), roots \ {item}, overwritten, H, roots)
    BY <1>1, <1>2, <1>4, NamedAttached
  <2> QED BY <2>1, <2>2
<1>6. Commit(g) /\ roots' = roots \ {item} /\ overwritten' = overwritten BY <1>1
<1> HIDE DEF g
<1> QED BY <1>5, <1>6, Committed

(* A reference to an item goes to the end of a list.                       *)
LEMMA NamedReference ==
    ASSUME IInv, NEW item \in Used(items), NEW p, Unshared(H, p), p # item, NEW key \in Keys,
           NEW g, NEW a, a # NULL, Refers(g, H, item, a)
    PROVE  /\ Outcome(cJSON_AddItemToArray(g, p, a), roots, overwritten, H, roots)
           /\ Outcome(cJSON_AddItemToObject(g, p, key, a), roots, overwritten, H, roots)
<1> DEFINE h == H
           R == roots
           X == overwritten
           Q == R \cup {a}
           d == [g EXCEPT !.texts = Drop(@, {g.items[a].string})]
           k == Named(d, a, key)
<1>0. /\ Shape(h, R, X) /\ item \in Used(h.items) /\ Unshared(h, p) /\ Refers(g, h, item, a)
      /\ p \in Used(h.items) /\ Q = R \cup {a}
  BY HeapIs DEF IInv, Unshared, Owners
<1>2. cJSON_AddItemToObject(g, p, key, a) = cJSON_AddItemToArray(k, p, a)
  BY DEF cJSON_AddItemToObject
<1>4. Unnamed(d, g, a) /\ k = Named(d, a, key) BY DEF Unnamed
<1> HIDE DEF h, R, X, d, k, Q
<1>5. Referred(g, h, R \cup {a}, X, item, a) BY <1>0, ReferredShape
<1>6. Shape(g, Q, X) BY <1>0, <1>5 DEF Referred
<1>7. Unshared(g, p) BY <1>0, ReferredUnshared
<1>8. Outcome(cJSON_AddItemToArray(g, p, a), R, X, h, R)
  <2>1. Shape(g, R \cup {a}, X) BY <1>0, <1>6
  <2> QED BY <1>0, <1>7, <2>1, ReferenceOutcome
<1>9. a \in Used(g.items) /\ a \in Items BY <1>0 DEF Refers
<1>10. NameGone(d, g, a, X, X) BY <1>4, <1>6, <1>9, NameFreed
<1>b. Renames(k, g, a, Q, X) BY <1>4, <1>6, <1>9, <1>10, Renamed
<1>11. /\ Shape(k, Q, X) /\ Kids(k) = Kids(g) /\ Owners(k) = Owners(g)
       /\ \E t : Points(k, g, a, "string", t)
  BY <1>b DEF Renames
<1>12. Unshared(k, p) BY <1>7, <1>11, RenamedSame
<1>13. Outcome(cJSON_AddItemToArray(k, p, a), R, X, h, R)
  <2>1. Shape(k, R \cup {a}, X) BY <1>0, <1>11
  <2> QED BY <1>0, <1>11, <1>12, <2>1, ReferenceOutcome
<1> QED BY <1>2, <1>8, <1>13 DEF h, R, X

LEMMA AddItemReferenceStep ==
    ASSUME IInv, AddItemReference
    PROVE  IInv' /\ Advances
<1>1. PICK item \in Used(items), p \in Arrays \cup Objects, key \in Keys :
        LET r == create_reference(H, item) IN
        /\ p \notin Reach(item)
        /\ Commit(IF p \in Arrays THEN cJSON_AddItemToArray(r.h, p, r.p)
                  ELSE cJSON_AddItemToObject(r.h, p, key, r.p))
        /\ roots' = roots /\ overwritten' = overwritten
  BY DEF AddItemReference
<1> DEFINE r == create_reference(H, item)
           g == IF p \in Arrays THEN cJSON_AddItemToArray(r.h, p, r.p)
                ELSE cJSON_AddItemToObject(r.h, p, key, r.p)
<1>2. Commit(g) /\ roots' = roots /\ overwritten' = overwritten BY <1>1
<1>3. Unshared(H, p) BY ContainerHere
<1>4. p # item
  <2>1. item \in Reach(item) BY ReachHere DEF IInv
  <2> QED BY <1>1, <2>1
<1>5. (r.p = NULL /\ r.h = H) \/ (r.p # NULL /\ Refers(r.h, H, item, r.p))
  <2> DEFINE z == r
  <2>1. z = create_reference(H, item) OBVIOUS
  <2> HIDE DEF z
  <2>2. H \in Heaps /\ item \in Used(H.items) BY HeapIs DEF IInv, Shape
  <2>3. (z.p = NULL /\ z.h = H) \/ (z.p # NULL /\ Refers(z.h, H, item, z.p))
    BY <2>1, <2>2, ReferenceFacts
  <2> QED BY <2>3 DEF z
<1> HIDE DEF r
<1>6. Outcome(g, roots, overwritten, H, roots)
  <2>1. CASE r.p = NULL /\ r.h = H
    <3>1. g = H BY <2>1 DEF cJSON_AddItemToArray, cJSON_AddItemToObject
    <3> QED BY <3>1 DEF Outcome, IInv
  <2>2. CASE r.p # NULL /\ Refers(r.h, H, item, r.p)
    <3>1. /\ Outcome(cJSON_AddItemToArray(r.h, p, r.p), roots, overwritten, H, roots)
          /\ Outcome(cJSON_AddItemToObject(r.h, p, key, r.p), roots, overwritten, H, roots)
      BY <1>3, <1>4, <2>2, NamedReference
    <3> QED BY <3>1
  <2> QED BY <1>5, <2>1, <2>2
<1> HIDE DEF g
<1> QED BY <1>2, <1>6, Committed

LEMMA ReplaceStep ==
    ASSUME IInv, ReplaceItem
    PROVE  IInv' /\ Advances
<1>1. PICK p \in Arrays \cup Objects, new \in roots, key \in Keys :
      \E c \in Selectable(p, key) :
        LET old == items[new].string
            h == IF p \in Arrays THEN H ELSE Named(H, new, key)
        IN /\ p \notin Reach(new) /\ MayFree(Owned(c))
           /\ Commit(cJSON_ReplaceItemInArray(h, p, c, new))
           /\ roots' = roots \ {new}
           /\ overwritten' = IF p \in Arrays THEN overwritten ELSE overwritten \cup ({old} \ {NULL})
  BY DEF ReplaceItem
<1>2. PICK c \in Selectable(p, key) :
        LET old == items[new].string
            h == IF p \in Arrays THEN H ELSE Named(H, new, key)
        IN /\ p \notin Reach(new) /\ MayFree(Owned(c))
           /\ Commit(cJSON_ReplaceItemInArray(h, p, c, new))
           /\ roots' = roots \ {new}
           /\ overwritten' = IF p \in Arrays THEN overwritten ELSE overwritten \cup ({old} \ {NULL})
  BY <1>1
<1> DEFINE h == H
           G == Owned(c)
           D == Reach(new)
           k == IF p \in Arrays THEN H ELSE Named(H, new, key)
           Y == IF p \in Arrays THEN overwritten
                ELSE overwritten \cup ({items[new].string} \ {NULL})
           f == cJSON_ReplaceItemInArray(k, p, c, new)
<1>3. Commit(f) /\ roots' = roots \ {new} /\ overwritten' = Y BY <1>2
<1>4. Shape(h, roots, overwritten) /\ Unshared(h, p) BY ContainerHere DEF IInv
<1>5. new \in Used(items) /\ new \in Used(h.items) BY HeapIs DEF IInv, Shape, Linked, LinkedAs
<1>6. c \in Used(items) /\ \E j \in 1 .. Len(Kids(H)[p]) : c = Kids(H)[p][j]
  BY SelectedHere DEF IInv
<1>7. PICK j \in 1 .. Len(Kids(h)[p]) : c = Kids(h)[p][j] BY <1>6
<1>8. Owns(h, c, G) BY <1>6, OwnedHere DEF IInv
<1>9. MayGo(h, G)
  <2>1. G \subseteq Used(items) BY <1>8, HeapIs DEF Owns
  <2> QED BY <1>2, <2>1, MayFreeHere
<1>10. Closed(h, Kids(h), D) /\ new \in D /\ p \notin D
  BY <1>2, <1>5, ReachHere DEF IInv
<1>11. Renames(k, h, new, roots, Y) \/ (k = h /\ Y = overwritten)
  <2>1. CASE p \in Arrays BY <2>1
  <2>2. CASE p \notin Arrays
    <3>1. h.items[new].string = items[new].string BY HeapIs
    <3>2. k = Named(h, new, key) /\ Y = overwritten \cup ({h.items[new].string} \ {NULL})
      BY <2>2, <3>1
    <3> HIDE DEF h, k, Y
    <3>3. NameGone(h, h, new, overwritten, Y) BY <1>4, <1>5, <3>2, NameLeft
    <3>4. Renames(k, h, new, roots, Y) BY <1>4, <1>5, <3>2, <3>3, Renamed
    <3> QED BY <3>4
  <2> QED BY <2>1, <2>2
<1>12. f = cJSON_ReplaceItemInArray(k, p, c, new) /\ new \in roots OBVIOUS
<1> HIDE DEF h, G, D, k, Y, f
<1>13. /\ Shape(k, roots, Y) /\ Kids(k) = Kids(h)
       /\ Unshared(k, p) /\ Closed(k, Kids(k), D) /\ Owns(k, c, G) /\ MayGo(k, G)
  <2>1. CASE k = h /\ Y = overwritten BY <1>4, <1>8, <1>9, <1>10, <2>1
  <2>2. CASE Renames(k, h, new, roots, Y)
    <3>1. /\ Shape(k, roots, Y) /\ Kids(k) = Kids(h) /\ Owners(k) = Owners(h)
          /\ \E t : Points(k, h, new, "string", t)
      BY <2>2 DEF Renames
    <3>2. PICK t : Points(k, h, new, "string", t) BY <3>1
    <3>3. /\ \A q : Unshared(h, q) => Unshared(k, q)
          /\ \A S : Closed(h, Kids(h), S) => Closed(k, Kids(k), S)
          /\ \A q, S : Owns(h, q, S) => Owns(k, q, S)
          /\ \A S : MayGo(h, S) => MayGo(k, S)
      BY <3>1, <3>2, RenamedSame
    <3> QED BY <1>4, <1>8, <1>9, <1>10, <3>1, <3>3
  <2> QED BY <1>11, <2>1, <2>2
<1>14. j \in 1 .. Len(Kids(k)[p]) /\ c = Kids(k)[p][j] BY <1>7, <1>13
<1>15. Outcome(f, roots \ {new}, Y, h, roots)
  BY <1>10, <1>12, <1>13, <1>14, ReplaceOutcome
<1> QED BY <1>3, <1>15, Committed DEF h

(* The steps of the caller.                                                *)
LEMMA NextStep ==
    ASSUME IInv, [Next]_vars
    PROVE  IInv' /\ (Advances \/ crashed')
<1>1. CASE Create BY <1>1, CreateStep
<1>2. CASE CreateStringArray BY <1>2, CreateStringArrayStep
<1>3. CASE Duplicate BY <1>3, DuplicateStep
<1>4. CASE Parse BY <1>4, ParseStep
<1>5. CASE AddItem BY <1>5, AddItemStep
<1>6. CASE AddItemReference BY <1>6, AddItemReferenceStep
<1>7. CASE DetachItem BY <1>7, DetachStep
<1>8. CASE DeleteItem BY <1>8, DiscardStep
<1>9. CASE ReplaceItem BY <1>9, ReplaceStep
<1>10. CASE Delete BY <1>10, DeleteStep
<1>11. CASE UNCHANGED vars BY <1>11, Stuttered
<1> QED BY <1>1, <1>2, <1>3, <1>4, <1>5, <1>6, <1>7, <1>8, <1>9, <1>10, <1>11 DEF Next

(* No sequence of calls, and no malloc that fails in one, leaves an item   *)
(* that is no part of one tree, or a string that no item or two hold.      *)
THEOREM JsonInvariant == Spec => []IInv
<1>1. Init => IInv BY InitInv
<1>2. IInv /\ [Next]_vars => IInv' BY NextStep
<1> QED BY <1>1, <1>2, PTL DEF Spec

-----------------------------------------------------------------------------
(* What the invariant says of the items and the strings, one by one.       *)
LEMMA InvWellLinked ==
    ASSUME IInv
    PROVE  WellLinked
<1> DEFINE K == Kids(H)
<1>0. H \in Heaps /\ Linked(H, roots) /\ H.items = items BY HeapIs DEF IInv, Shape
<1>1. \A r \in roots : items[r].next = NULL /\ items[r].prev = NULL BY <1>0 DEF Linked, LinkedAs
<1>2. ASSUME NEW p \in Used(items), NEW s, s = ChildrenOf(H, p), NEW j \in DOMAIN s
      PROVE  items[s[j]].prev = IF j = 1 THEN NULL ELSE s[j - 1]
  <2>1. ListIs(H, H.items[p].child, K[p]) /\ s = K[p] BY <1>0, <1>2, KidsList
  <2> HIDE DEF K
  <2>2. ListIs(H, H.items[p].child, s) BY <2>1
  <2>3. DOMAIN s = 1 .. Len(s) BY <2>2 DEF ListIs
  <2>4. H.items[s[j]].prev = IF j = 1 THEN NULL ELSE s[j - 1] BY <2>2, <2>3, <1>2 DEF ListIs
  <2> QED BY <1>0, <2>4
<1> QED BY <1>1, <1>2 DEF WellLinked

LEMMA InvOwned ==
    ASSUME IInv
    PROVE  UNION {Owned(r) : r \in roots} = Used(items)
<1> DEFINE S == UNION {Owned(r) : r \in roots}
           K == Kids(H)
<1>0. /\ H.items = items /\ roots \subseteq Used(items)
      /\ \A V \in SUBSET Used(items) : roots \subseteq V /\ Closed(H, K, V) => V = Used(items)
  BY HeapIs DEF IInv, Shape, Linked, LinkedAs
<1>1. \A r \in roots : /\ Owned(r) \subseteq Used(items) /\ r \in Owned(r)
                       /\ Closed(H, K, Owned(r))
  <2> SUFFICES ASSUME NEW r \in roots
               PROVE  /\ Owned(r) \subseteq Used(items) /\ r \in Owned(r)
                      /\ Closed(H, K, Owned(r))
    OBVIOUS
  <2>1. Owns(H, r, Owned(r)) BY <1>0, OwnedHere DEF IInv
  <2> QED BY <1>0, <2>1 DEF Owns
<1> HIDE DEF K
<1>2. S \subseteq Used(items) /\ roots \subseteq S BY <1>1
<1>3. Closed(H, K, S)
  <2> SUFFICES ASSUME NEW a \in S \cap Owners(H) PROVE Children(K, a) \subseteq S
    BY DEF Closed
  <2>1. PICK r \in roots : a \in Owned(r) OBVIOUS
  <2>2. Children(K, a) \subseteq Owned(r) BY <1>1, <2>1 DEF Closed
  <2> QED BY <2>2
<1> QED BY <1>0, <1>2, <1>3

OwnLists(kids) == kids = [p \in Used(items) \ References |-> ChildrenOf(H, p)]
PlacesOf(O, kids, c) ==
    O = UNION {{p} \X {j \in DOMAIN kids[p] : kids[p][j] = c} : p \in DOMAIN kids}

LEMMA InvOwners ==
    ASSUME IInv, NEW kids, OwnLists(kids), NEW c \in Used(items), NEW O, PlacesOf(O, kids, c)
    PROVE  Cardinality(O) = IF c \in roots THEN 0 ELSE 1
<1> DEFINE K == Kids(H)
<1>0. /\ H \in Heaps /\ Linked(H, roots) /\ H.items = items
      /\ Owners(H) = Used(items) \ References
  BY HeapIs DEF IInv, Shape
<1>1. \A p \in Owners(H) : /\ kids[p] = K[p] /\ DOMAIN K[p] = 1 .. Len(K[p])
                           /\ \A i, j \in 1 .. Len(K[p]) : K[p][i] = K[p][j] => i = j
  <2> SUFFICES ASSUME NEW p \in Owners(H)
               PROVE  /\ kids[p] = K[p] /\ DOMAIN K[p] = 1 .. Len(K[p])
                      /\ \A i, j \in 1 .. Len(K[p]) : K[p][i] = K[p][j] => i = j
    OBVIOUS
  <2>1. p \in Used(H.items) BY <1>0
  <2>2. /\ ListIs(H, H.items[p].child, K[p]) /\ K[p] = ChildrenOf(H, p)
        /\ K[p] \in Seq(Used(H.items))
    BY <1>0, <2>1, KidsList
  <2>3. kids[p] = K[p] BY <1>0, <2>2 DEF OwnLists
  <2> HIDE DEF K
  <2>4. DOMAIN K[p] = 1 .. Len(K[p]) BY <2>2
  <2> QED BY <2>2, <2>3, <2>4 DEF ListIs
<1>2. DOMAIN kids = Owners(H) BY <1>0 DEF OwnLists
<1>3. /\ \A p, q \in Owners(H) : p # q => Children(K, p) \cap Children(K, q) = {}
      /\ \A p \in Owners(H) : Children(K, p) \cap roots = {}
  BY <1>0 DEF Linked, LinkedAs
<1>4. \A o : o \in O <=> \E p \in Owners(H) : \E j \in 1 .. Len(K[p]) : o = <<p, j>> /\ K[p][j] = c
  <2> HIDE DEF K
  <2>1. \A o : o \in O <=> \E p \in DOMAIN kids : \E j \in DOMAIN kids[p] : o = <<p, j>> /\ kids[p][j] = c
    <3> DEFINE k == kids
    <3>1. O = UNION {{p} \X {j \in DOMAIN k[p] : k[p][j] = c} : p \in DOMAIN k} BY DEF PlacesOf
    <3> HIDE DEF k
    <3>2. \A o, p : o \in {p} \X {j \in DOMAIN k[p] : k[p][j] = c}
                    <=> \E j \in DOMAIN k[p] : o = <<p, j>> /\ k[p][j] = c
      OBVIOUS
    <3>3. \A o : o \in O <=> \E p \in DOMAIN k : o \in {p} \X {j \in DOMAIN k[p] : k[p][j] = c}
      BY <3>1
    <3>4. \A o : o \in O <=> \E p \in DOMAIN k : \E j \in DOMAIN k[p] : o = <<p, j>> /\ k[p][j] = c
      BY <3>2, <3>3
    <3> QED BY <3>4 DEF k
  <2>2. \A p \in Owners(H) : kids[p] = K[p] /\ DOMAIN kids[p] = 1 .. Len(K[p]) BY <1>1
  <2> QED BY <1>2, <2>1, <2>2
<1>5. \A p \in Owners(H) : \A j \in 1 .. Len(K[p]) : K[p][j] \in Children(K, p) BY DEF Children
<1>6. CASE c \in roots
  <2> HIDE DEF K
  <2>1. O = {} BY <1>3, <1>4, <1>5, <1>6
  <2> QED BY <1>6, <2>1, FS_EmptySet
<1>7. CASE c \notin roots
  <2>1. PICK q \in Owners(H) : c \in Children(K, q)
    <3>1. c \in Used(H.items) BY <1>0
    <3> QED BY <1>0, <1>7, <3>1, EveryOwner
  <2>2. PICK i \in 1 .. Len(K[q]) : K[q][i] = c BY <2>1 DEF Children
  <2> HIDE DEF K
  <2>3. <<q, i>> \in O BY <1>4, <2>2
  <2>4. ASSUME NEW o \in O PROVE o = <<q, i>>
    <3>1. PICK p \in Owners(H) : \E j \in 1 .. Len(K[p]) : o = <<p, j>> /\ K[p][j] = c BY <1>4
    <3>2. PICK j \in 1 .. Len(K[p]) : o = <<p, j>> /\ K[p][j] = c BY <3>1
    <3>3. p = q
      <4>1. c \in Children(K, p) BY <1>5, <3>2
      <4> QED BY <1>3, <2>1, <4>1
    <3>4. j = i BY <1>1, <2>2, <3>2, <3>3
    <3> QED BY <3>2, <3>3, <3>4
  <2>5. O = {<<q, i>>} BY <2>3, <2>4
  <2> QED BY <1>7, <2>5, FS_Singleton
<1> QED BY <1>6, <1>7

LEMMA InvStrings ==
    ASSUME IInv
    PROVE  Strings(Used(items)) \cup overwritten = Used(texts)
<1> DEFINE own(a) == {items[a].string} \cup (IF items[a].ref THEN {} ELSE {items[a].valuestring})
           M == {At(H, s) : s \in Slots(H)} \ {NULL}
<1>0. /\ H.items = items /\ H.texts = texts /\ overwritten \subseteq Used(texts)
      /\ Used(texts) \ overwritten = M
  BY HeapIs DEF IInv, Shape, Held
<1>1. Strings(Used(items)) = (UNION {own(a) : a \in Used(items)}) \ {NULL} BY DEF Strings
<1>2. \A a \in Used(items) : a \in Owners(H) <=> ~items[a].ref BY <1>0 DEF Owners
<1>3. Owners(H) \subseteq Used(items) BY <1>0 DEF Owners
<1>4. /\ \A q \in Used(items) : <<q, "string">> \in Slots(H) /\ At(H, <<q, "string">>) = items[q].string
      /\ \A q \in Owners(H) : /\ <<q, "valuestring">> \in Slots(H)
                              /\ At(H, <<q, "valuestring">>) = items[q].valuestring
      /\ \A s \in Slots(H) : \/ \E q \in Used(items) : s = <<q, "string">>
                             \/ \E q \in Owners(H) : s = <<q, "valuestring">>
  BY <1>0, SlotFacts
<1>5. \A x : (\E a \in Used(items) : x \in own(a)) <=> (\E s \in Slots(H) : x = At(H, s))
  <2> SUFFICES ASSUME NEW x
               PROVE  (\E a \in Used(items) : x \in own(a)) <=> (\E s \in Slots(H) : x = At(H, s))
    OBVIOUS
  <2>1. ASSUME NEW a \in Used(items), x \in own(a) PROVE \E s \in Slots(H) : x = At(H, s)
    <3>1. CASE x = items[a].string BY <1>4, <3>1
    <3>2. CASE x # items[a].string
      <4>1. a \in Owners(H) /\ x = items[a].valuestring BY <1>2, <2>1, <3>2
      <4> QED BY <1>4, <4>1
    <3> QED BY <3>1, <3>2
  <2>2. ASSUME NEW s \in Slots(H), x = At(H, s) PROVE \E a \in Used(items) : x \in own(a)
    <3>1. CASE \E q \in Used(items) : s = <<q, "string">> BY <1>4, <2>2, <3>1
    <3>2. CASE \E q \in Owners(H) : s = <<q, "valuestring">> BY <1>2, <1>3, <1>4, <2>2, <3>2
    <3> QED BY <1>4, <3>1, <3>2
  <2> QED BY <2>1, <2>2
<1>6. Strings(Used(items)) = M
  <2>1. \A x : x \in Strings(Used(items)) <=> x # NULL /\ \E a \in Used(items) : x \in own(a)
    BY <1>1
  <2>2. \A x : x \in M <=> x # NULL /\ \E s \in Slots(H) : x = At(H, s) OBVIOUS
  <2> HIDE DEF own, M
  <2> QED BY <1>5, <2>1, <2>2
<1> HIDE DEF M
<1> QED BY <1>0, <1>6

LEMMA InvHolders ==
    ASSUME IInv, NEW slots,
           slots = (Used(items) \X {"string"}) \cup ((Used(items) \ References) \X {"valuestring"}),
           NEW t \in Used(texts), NEW O, O = {s \in slots : items[s[1]][s[2]] = t}
    PROVE  Cardinality(O) = IF t \in overwritten THEN 0 ELSE 1
<1>0. /\ H.items = items /\ H.texts = texts /\ Owners(H) = Used(items) \ References
      /\ H \in Heaps /\ overwritten \subseteq Used(texts)
      /\ \A s, z \in Slots(H) : At(H, s) = At(H, z) /\ At(H, s) # NULL => s = z
      /\ Used(texts) \ overwritten = {At(H, s) : s \in Slots(H)} \ {NULL}
  BY HeapIs DEF IInv, Shape, Held
<1>1. slots = Slots(H) BY <1>0 DEF Slots
<1>2. O = {s \in Slots(H) : At(H, s) = t} BY <1>0, <1>1 DEF At
<1>3. t # NULL BY <1>0, UsedFacts
<1>4. CASE t \in overwritten
  <2>1. O = {} BY <1>0, <1>2, <1>3, <1>4
  <2> QED BY <1>4, <2>1, FS_EmptySet
<1>5. CASE t \notin overwritten
  <2>1. PICK s \in Slots(H) : At(H, s) = t BY <1>0, <1>5
  <2>2. O = {s} BY <1>0, <1>2, <1>3, <2>1
  <2> QED BY <1>5, <2>2, FS_Singleton
<1> QED BY <1>4, <1>5

LEMMA InvWellFormed ==
    ASSUME IInv
    PROVE  WellFormed
<1>1. OwnedOnce
  <2> DEFINE kids == [p \in Used(items) \ References |-> ChildrenOf(H, p)]
             owners(c) == UNION {{p} \X {j \in DOMAIN kids[p] : kids[p][j] = c} : p \in DOMAIN kids}
             slots == (Used(items) \X {"string"}) \cup ((Used(items) \ References) \X {"valuestring"})
             holders(t) == {s \in slots : items[s[1]][s[2]] = t}
  <2>1. \A c \in Used(items) : Cardinality(owners(c)) = IF c \in roots THEN 0 ELSE 1
    <3> SUFFICES ASSUME NEW c \in Used(items)
                 PROVE  Cardinality(owners(c)) = IF c \in roots THEN 0 ELSE 1
      OBVIOUS
    <3> DEFINE O == owners(c)
               k == kids
    <3>1. OwnLists(k) /\ PlacesOf(O, k, c) BY DEF OwnLists, PlacesOf
    <3> HIDE DEF O, k
    <3>2. Cardinality(O) = IF c \in roots THEN 0 ELSE 1 BY <3>1, InvOwners
    <3> QED BY <3>2 DEF O
  <2>2. \A t \in Used(texts) : Cardinality(holders(t)) = IF t \in overwritten THEN 0 ELSE 1
    <3> SUFFICES ASSUME NEW t \in Used(texts)
                 PROVE  Cardinality(holders(t)) = IF t \in overwritten THEN 0 ELSE 1
      OBVIOUS
    <3> DEFINE O == holders(t)
               z == slots
    <3>1. z = (Used(items) \X {"string"}) \cup ((Used(items) \ References) \X {"valuestring"})
          /\ O = {s \in z : items[s[1]][s[2]] = t}
      OBVIOUS
    <3> HIDE DEF O, z
    <3>2. Cardinality(O) = IF t \in overwritten THEN 0 ELSE 1 BY <3>1, InvHolders
    <3> QED BY <3>2 DEF O
  <2> QED BY <2>1, <2>2, InvOwned, InvStrings DEF OwnedOnce
<1> QED BY <1>1, InvWellLinked DEF WellFormed

(* After every call the lists of cJSON can be walked both ways, what the   *)
(* caller holds is in none of them, and every item and string has one      *)
(* owner: cJSON_Delete frees it once, and nothing leaks but the names that *)
(* cJSON_ReplaceItemInObject overwrites.                                   *)
THEOREM JsonWellFormed == Spec => []WellFormed
BY JsonInvariant, InvWellFormed, PTL

-----------------------------------------------------------------------------
LEMMA InvDuplicate == IInv => DuplicateIsIdentical
<1> SUFFICES ASSUME IInv, NEW p \in Used(items), NEW room \in {0, Cardinality(Spare)},
                    NEW h, h = Heap(room), NEW d, d = cJSON_Duplicate(h, p, TRUE), d.p # NULL
             PROVE  /\ Tree(d.h, d.p) = Tree(h, p)
                    /\ Text(d.h, d.h.items[d.p].string) = Text(h, items[p].string)
                    /\ \A c \in Used(d.h.items) \ Used(items) :
                         /\ ~d.h.items[c].ref
                         /\ d.h.items[c].child \notin Used(items)
                         /\ d.h.items[c].valuestring \notin Used(texts)
  BY DEF DuplicateIsIdentical, Duplicated
<1> DEFINE U == Used(h.items)
<1>1. Shape(H, roots, overwritten) /\ H \in Heaps BY DEF IInv, Shape
<1>2. h.items = items /\ h.texts = texts /\ h \in Heaps
  <2>1. room \in Nat BY CJsonAssumption, FS_CardinalityType
  <2>2. h = [items |-> items, texts |-> texts, room |-> room, ep |-> FALSE] BY DEF Heap
  <2>3. items \in [Items -> Item \cup {NULL}] /\ texts \in [Texts -> Names \cup {NULL}]
    BY <1>1 DEF H, Heap, Heaps
  <2> QED BY <2>1, <2>2, <2>3 DEF Heaps
<1>3. Shape(h, roots, overwritten)
  <2>1. H.items = items /\ H.texts = texts BY DEF H, Heap
  <2> QED BY <1>1, <1>2, <2>1, SameShape
<1>4. Held(h, overwritten) BY <1>3 DEF Shape
<1>5. p \in U BY <1>2
<1>6. Grows(d.h, h, {}) /\ Twins(d.h, d.p, p) BY <1>3, <1>5, DuplicateAlike
<1>7. /\ d.p \in Items \ U /\ Keeps(d.h, h, U)
      /\ Building(d.h, roots \cup {d.p}, overwritten, U)
  <2>1. ItemCopied(d, h, roots, overwritten) BY <1>3, <1>5, DuplicateRight
  <2> QED BY <2>1 DEF ItemCopied
<1>8. Tree(d.h, d.p) = Tree(h, p)
  <2> DEFINE N == Cardinality(Items)
             g == d.h
             a == d.p
  <2>1. N \in Nat BY CJsonAssumption, FS_CardinalityType
  <2>2. Alike(g, a, p) BY <1>6 DEF Twins
  <2>3. \A n \in Nat, b \in U : Down(g)[n][b] = Down(h)[n][b]
    <3>1. h \in Heaps /\ Linked(h, roots) BY <1>3 DEF Shape
    <3>2. \A b \in U : Children(Kids(h), b) \subseteq U BY <3>1, KidsList
    <3>3. U \in SUBSET U /\ U \cap {} = {} OBVIOUS
    <3>4. Grows(g, h, {}) BY <1>6
    <3> HIDE DEF g
    <3> QED BY <1>4, <3>1, <3>2, <3>3, <3>4, AlikeStay
  <2> HIDE DEF N, g, a, U
  <2>4. Tree(g, a) = Down(g)[N][a] BY DownIs DEF N
  <2>5. Tree(h, p) = Down(h)[N][p] BY DownIs DEF N
  <2>6. Down(g)[N][a] = Down(g)[N][p] BY <2>1, <2>2 DEF Alike
  <2>7. Down(g)[N][p] = Down(h)[N][p] BY <1>5, <2>1, <2>3
  <2> QED BY <2>4, <2>5, <2>6, <2>7 DEF g, a
<1>9. Text(d.h, d.h.items[d.p].string) = Text(h, items[p].string)
  <2>1. Text(d.h, d.h.items[d.p].string) = Text(d.h, d.h.items[p].string) BY <1>6 DEF Twins
  <2>2. Text(d.h, d.h.items[p].string) = Text(h, h.items[p].string)
    BY <1>2, <1>4, <1>5, <1>6, TextsStay
  <2> QED BY <1>2, <2>1, <2>2
<1>10. ASSUME NEW c \in Used(d.h.items) \ Used(items)
       PROVE  /\ ~d.h.items[c].ref
              /\ d.h.items[c].child \notin Used(items)
              /\ d.h.items[c].valuestring \notin Used(texts)
  <2> DEFINE g == d.h
  <2>1. Apart(g, U) /\ g \in Heaps /\ Linked(g, roots \cup {d.p}) /\ Held(g, overwritten)
    BY <1>7 DEF Building, Shape
  <2> HIDE DEF g
  <2>2. c \in Used(g.items) \ U BY <1>2, <1>10 DEF g
  <2>3. ~g.items[c].ref /\ Children(Kids(g), c) \cap U = {} BY <2>1, <2>2 DEF Apart
  <2>4. g.items[c].child \notin U
    <3>1. NULL \notin U BY <1>2, UsedFacts
    <3> QED BY <2>1, <2>2, <2>3, <3>1, ChildThere
  <2>5. ASSUME g.items[c].valuestring \in Used(h.texts) PROVE FALSE
    <3> DEFINE t == g.items[c].valuestring
               s == <<c, "valuestring">>
    <3>1. c \in Owners(g) BY <2>2, <2>3 DEF Owners
    <3>2. s \in Slots(g) /\ At(g, s) = t BY <3>1, SlotFacts
    <3>3. t # NULL BY <1>2, <2>5, UsedFacts
    <3>4. t \notin overwritten BY <2>1, <3>2, <3>3 DEF Held
    <3>5. PICK u \in Slots(h) : At(h, u) = t BY <1>4, <2>5, <3>4 DEF Held
    <3>6. u \in Slots(g) /\ At(g, u) = t /\ u # s
      <4>1. \A q \in U : q \in Used(g.items) /\ g.items[q] = h.items[q]
        BY <1>7, <2>1 DEF Apart, Keeps, g
      <4>2. PICK q \in U : u = <<q, "string">> \/ (u = <<q, "valuestring">> /\ q \in Owners(h))
        BY <3>5, SlotFacts DEF Owners
      <4>3. q # c /\ q \in Used(g.items) BY <2>2, <4>1
      <4>4. CASE u = <<q, "string">> BY <3>5, <4>1, <4>3, <4>4, SlotFacts
      <4>5. CASE u = <<q, "valuestring">> /\ q \in Owners(h)
        <5>1. q \in Owners(g) BY <4>1, <4>3, <4>5 DEF Owners
        <5> QED BY <3>5, <4>1, <4>3, <4>5, <5>1, SlotFacts
      <4> QED BY <4>2, <4>4, <4>5
    <3> QED BY <2>1, <3>2, <3>3, <3>6 DEF Held
  <2> QED BY <1>2, <2>3, <2>4, <2>5 DEF g
<1> QED BY <1>8, <1>9, <1>10

(* Every duplicate, with whatever memory, stands for the value of the item *)
(* that it was made from and shares neither items nor values with what was *)
(* there before, references or not.                                        *)
THEOREM JsonDuplicates == Spec => []DuplicateIsIdentical
<1>1. IInv => DuplicateIsIdentical BY InvDuplicate
<1> QED BY <1>1, JsonInvariant, PTL

(* The steps of the forest.                                                *)
LEMMA ForestInit ==
    ASSUME Init
    PROVE  Forest!Init
<1>1. Used(items) = {} /\ roots = {} BY DEF Init, Used
<1>2. [p \in Used(items) |-> ChildrenOf(H, p)] = << >> BY <1>1
<1> QED BY <1>1, <1>2 DEF Forest!Init

LEMMA ForestNext ==
    ASSUME ForestStep(Kids(H), roots, Kids(H'), roots')
    PROVE  Forest!Next
<1> DEFINE K == [p \in Used(items) |-> ChildrenOf(H, p)]
           L == [p \in Used(items') |-> ChildrenOf(H', p)]
           R == roots
           Q == roots'
           changed == {c \in DOMAIN K \cap DOMAIN L : L[c] # K[c]}
<1>1. Kids(H) = K BY HeapIs
<1>2. Kids(H') = L
  <2>1. H'.items = items' BY DEF H, Heap
  <2> QED BY <2>1 DEF Kids
<1>3. ForestStep(K, R, L, Q) BY <1>1, <1>2
<1>4. \/ changed = {} /\ Comes(K, R, L, Q)
      \/ \E c : /\ changed = {c}
                /\ \/ Attaches(K, R, L, Q, c) \/ AttachesReference(K, R, L, Q, c)
                   \/ \E j \in DOMAIN K[c] : TakesOut(K, R, L, Q, c, j)
  BY <1>3 DEF ForestStep, Changes
<1>5. Forest!Changed = changed BY DEF Forest!Changed
<1>6. Comes(K, R, L, Q) => Forest!Build \/ Forest!Destroy
  BY DEF Comes, Forest!Build, Forest!Destroy
<1>7. \A c : Attaches(K, R, L, Q, c) => Forest!Attach(c) BY DEF Attaches, Forest!Attach
<1>8. \A c : AttachesReference(K, R, L, Q, c) => Forest!AttachReference(c)
  BY DEF AttachesReference, Forest!AttachReference
<1>9. \A c, j : TakesOut(K, R, L, Q, c, j)
                => Forest!Detach(c, j) \/ Forest!Discard(c, j) \/ Forest!Exchange(c, j)
  <2>1. \A s, j : Forest!RemoveAt(s, j) = RemoveAt(s, j) BY DEF RemoveAt, Forest!RemoveAt
  <2>2. \A c, j : DOMAIN L = DOMAIN K /\ L[c] = RemoveAt(K[c], j) /\ Q = R \cup {K[c][j]}
                  => Forest!Detach(c, j)
    BY <2>1 DEF Forest!Detach
  <2>3. \A c, j : DOMAIN L \subseteq DOMAIN K \ {K[c][j]} /\ L[c] = RemoveAt(K[c], j) /\ Q = R
                  => Forest!Discard(c, j)
    BY <2>1 DEF Forest!Discard
  <2>4. \A c, j : /\ DOMAIN L \subseteq DOMAIN K \ {K[c][j]}
                  /\ \E i \in R : L[c] = [K[c] EXCEPT ![j] = i] /\ Q = R \ {i}
                  => Forest!Exchange(c, j)
    BY DEF Forest!Exchange
  <2> HIDE DEF K, L, R, Q
  <2> QED BY <2>2, <2>3, <2>4 DEF TakesOut
<1>10. Forest!Next <=>
         \/ changed = {} /\ (Forest!Build \/ Forest!Destroy)
         \/ \E c \in changed :
              /\ changed = {c}
              /\ \/ Forest!Attach(c) \/ Forest!AttachReference(c)
                 \/ \E j \in DOMAIN K[c] :
                      Forest!Detach(c, j) \/ Forest!Discard(c, j) \/ Forest!Exchange(c, j)
  BY <1>5 DEF Forest!Next
<1> HIDE DEF K, L, R, Q, changed
<1>11. CASE changed = {} /\ Comes(K, R, L, Q) BY <1>6, <1>10, <1>11
<1>12. CASE \E c : /\ changed = {c}
                   /\ \/ Attaches(K, R, L, Q, c) \/ AttachesReference(K, R, L, Q, c)
                      \/ \E j \in DOMAIN K[c] : TakesOut(K, R, L, Q, c, j)
  <2>1. PICK c : /\ changed = {c}
                 /\ \/ Attaches(K, R, L, Q, c) \/ AttachesReference(K, R, L, Q, c)
                    \/ \E j \in DOMAIN K[c] : TakesOut(K, R, L, Q, c, j)
    BY <1>12
  <2>2. c \in changed BY <2>1
  <2> QED BY <1>7, <1>8, <1>9, <1>10, <2>1, <2>2
<1> QED BY <1>4, <1>11, <1>12

(* The calls on linked items are those of JsonForest on sequences of       *)
(* children: each adds, takes out or exchanges one child of one container, *)
(* makes or frees a tree, or changes no list, unless the program crashes.  *)
THEOREM JsonImplementsForest == Spec => ImplementsForest
<1>1. Init => Forest!Init BY ForestInit
<1>2. IInv /\ [Next]_vars => [Forest!Next \/ crashed']_<<items, roots>>
  <2> SUFFICES ASSUME IInv, [Next]_vars PROVE [Forest!Next \/ crashed']_<<items, roots>>
    OBVIOUS
  <2>1. Advances \/ crashed' BY NextStep
  <2> QED BY <2>1, ForestNext DEF Advances
<1>3. Spec => []IInv BY JsonInvariant
<1> QED BY <1>1, <1>2, <1>3, PTL DEF Spec, ImplementsForest

-----------------------------------------------------------------------------
(* The queue of two stacks.                                                *)

LEMMA TurnedOverType ==
    ASSUME NEW s \in Seq(T)
    PROVE  /\ TurnedOver(s) \in Seq(T)
           /\ Len(TurnedOver(s)) = Len(s)
           /\ \A k \in 1 .. Len(s) : TurnedOver(s)[k] = s[Len(s) - k + 1]
    BY DEF TurnedOver

LEMMA TurnedOverTwice ==
    ASSUME NEW s \in Seq(T)
    PROVE  TurnedOver(TurnedOver(s)) = s
<1> DEFINE r == TurnedOver(s)
<1>1. r \in Seq(T) /\ Len(r) = Len(s)
      /\ \A k \in 1 .. Len(s) : r[k] = s[Len(s) - k + 1]
    BY TurnedOverType
<1>2. TurnedOver(r) \in Seq(T) /\ Len(TurnedOver(r)) = Len(s)
      /\ \A k \in 1 .. Len(s) : TurnedOver(r)[k] = r[Len(s) - k + 1]
    BY <1>1, TurnedOverType
<1>3. \A k \in 1 .. Len(s) : TurnedOver(r)[k] = s[k]
    BY <1>1, <1>2
<1> QED BY <1>2, <1>3

LEMMA TurnedOverEmpty ==
    TurnedOver(<<>>) = <<>>
    BY DEF TurnedOver

(* Moving does not change the queue, and leaves its first element on top   *)
(* of the one stack, or its last on top of the other.                      *)
LEMMA MoveToFirst ==
    ASSUME NEW f \in Seq(T), NEW s \in Seq(T), Len(f) + Len(s) > 0,
           NEW m, m = move(s, f)
    PROVE  /\ m.src \in Seq(T) /\ m.dst \in Seq(T)
           /\ Len(m.src) + Len(m.dst) = Len(f) + Len(s)
           /\ m.dst # <<>>
           /\ TurnedOver(m.dst) \o m.src = TurnedOver(f) \o s
<1>1. CASE f = <<>>
  <2>1. m.src = <<>> /\ m.dst = TurnedOver(s)
      BY <1>1 DEF move
  <2>2. TurnedOver(m.dst) = s /\ TurnedOver(f) = <<>>
      BY <1>1, <2>1, TurnedOverTwice, TurnedOverEmpty
  <2>3. s \o <<>> = s /\ <<>> \o s = s
      BY ConcatEmptySeq
  <2>4. TurnedOver(m.dst) \o m.src = TurnedOver(f) \o s
      BY <2>1, <2>2, <2>3
  <2>5. m.src \in Seq(T) /\ Len(m.src) = 0 /\ Len(f) = 0
      BY <1>1, <2>1, EmptySeq
  <2>6. m.dst \in Seq(T) /\ Len(m.dst) = Len(s) /\ Len(s) \in Nat
      BY <2>1, TurnedOverType, LenProperties
  <2>7. m.dst # <<>>
      BY <2>5, <2>6, EmptySeq
  <2> QED BY <2>4, <2>5, <2>6, <2>7
<1>2. CASE f # <<>>
    BY <1>2 DEF move
<1> QED BY <1>1, <1>2

LEMMA MoveToSecond ==
    ASSUME NEW f \in Seq(T), NEW s \in Seq(T), Len(f) + Len(s) > 0,
           NEW m, m = move(f, s)
    PROVE  /\ m.src \in Seq(T) /\ m.dst \in Seq(T)
           /\ Len(m.src) + Len(m.dst) = Len(f) + Len(s)
           /\ m.dst # <<>>
           /\ TurnedOver(m.src) \o m.dst = TurnedOver(f) \o s
<1>1. CASE s = <<>>
  <2>1. m.src = <<>> /\ m.dst = TurnedOver(f)
      BY <1>1 DEF move
  <2>2. TurnedOver(m.src) = <<>>
      BY <2>1, TurnedOverEmpty
  <2>3. <<>> \o m.dst = m.dst /\ m.dst \o <<>> = m.dst
      BY <2>1, TurnedOverType, ConcatEmptySeq
  <2>4. TurnedOver(m.src) \o m.dst = TurnedOver(f) \o s
      BY <1>1, <2>1, <2>2, <2>3
  <2>5. m.src \in Seq(T) /\ Len(m.src) = 0 /\ Len(s) = 0
      BY <1>1, <2>1, EmptySeq
  <2>6. m.dst \in Seq(T) /\ Len(m.dst) = Len(f) /\ Len(f) \in Nat
      BY <2>1, TurnedOverType, LenProperties
  <2>7. m.dst # <<>>
      BY <2>5, <2>6, EmptySeq
  <2> QED BY <2>4, <2>5, <2>6, <2>7
<1>2. CASE s # <<>>
    BY <1>2 DEF move
<1> QED BY <1>1, <1>2

(* What the calls read off the queue that the stacks stand for.            *)
LEMMA QueueEnds ==
    ASSUME NEW f \in Seq(T), NEW s \in Seq(T), NEW w, w = TurnedOver(f) \o s
    PROVE  /\ Len(w) = Len(f) + Len(s)
           /\ f # <<>> => /\ w[1] = Top(f)
                          /\ Popped(f) \in Seq(T)
                          /\ Len(Popped(f)) = Len(f) - 1
                          /\ TurnedOver(Popped(f)) \o s = Tail(w)
<1> DEFINE r == TurnedOver(f)
<1>1. r \in Seq(T) /\ Len(r) = Len(f)
      /\ \A k \in 1 .. Len(f) : r[k] = f[Len(f) - k + 1]
    BY TurnedOverType
<1>2. /\ w \in Seq(T)
      /\ Len(w) = Len(f) + Len(s)
      /\ \A k \in 1 .. Len(f) + Len(s) :
            w[k] = IF k <= Len(f) THEN r[k] ELSE s[k - Len(f)]
  <2> HIDE DEF r
  <2>1. w = r \o s
      BY DEF r
  <2>2. /\ r \o s \in Seq(T)
        /\ Len(r \o s) = Len(r) + Len(s)
        /\ \A k \in 1 .. Len(r) + Len(s) :
              (r \o s)[k] = IF k <= Len(r) THEN r[k] ELSE s[k - Len(r)]
    <3>1. r \in Seq(T) BY <1>1
    <3> QED BY <3>1, ConcatProperties
  <2> QED BY <1>1, <2>1, <2>2
<1>4. ASSUME f # <<>>
      PROVE  /\ w[1] = Top(f)
             /\ Popped(f) \in Seq(T)
             /\ Len(Popped(f)) = Len(f) - 1
             /\ TurnedOver(Popped(f)) \o s = Tail(w)
  <2> DEFINE p == Popped(f)
             v == TurnedOver(p)
  <2>0. Len(f) \in Nat \ {0} /\ Len(s) \in Nat
      BY <1>4, EmptySeq, LenProperties
  <2>1. p \in Seq(T) /\ Len(p) = Len(f) - 1
        /\ \A k \in 1 .. Len(f) - 1 : p[k] = f[k]
    <3> DEFINE n == Len(f) - 1
    <3>0. n \in Nat
        BY <2>0
    <3>1. \A k \in 1 .. n : f[k] \in T
        BY <2>0, ElementOfSeq
    <3>2. p = SubSeq(f, 1, n)
        BY DEF Popped
    <3> HIDE DEF n, p
    <3>3. /\ p \in Seq(T)
          /\ Len(p) = IF 1 <= n THEN n - 1 + 1 ELSE 0
          /\ \A k \in 1 .. n - 1 + 1 : p[k] = f[1 + k - 1]
        BY <3>0, <3>1, <3>2, SubSeqProperties
    <3>4. Len(p) = n
        BY <3>0, <3>3
    <3>5. \A k \in 1 .. n : p[k] = f[k]
      <4> TAKE k \in 1 .. n
      <4>1. k \in 1 .. n - 1 + 1 /\ 1 + k - 1 = k
          BY <3>0
      <4> QED BY <3>3, <4>1
    <3> QED BY <3>3, <3>4, <3>5 DEF n
  <2>2. w[1] = Top(f)
      BY <1>1, <1>2, <2>0 DEF Top
  <2>3. v \in Seq(T) /\ Len(v) = Len(f) - 1
        /\ \A k \in 1 .. Len(f) - 1 : v[k] = f[Len(f) - k]
    <3>1. v \in Seq(T) /\ Len(v) = Len(p)
          /\ \A k \in 1 .. Len(p) : v[k] = p[Len(p) - k + 1]
        BY <2>1, TurnedOverType
    <3> HIDE DEF v, p
    <3>2. \A k \in 1 .. Len(f) - 1 : v[k] = f[Len(f) - k]
      <4> TAKE k \in 1 .. Len(f) - 1
      <4>1. v[k] = p[Len(p) - k + 1]
          BY <2>1, <3>1
      <4>2. Len(p) - k + 1 = Len(f) - k /\ Len(f) - k \in 1 .. Len(f) - 1
          BY <2>0, <2>1
      <4> QED BY <2>1, <4>1, <4>2
    <3> QED BY <2>1, <3>1, <3>2
  <2>4. /\ v \o s \in Seq(T)
        /\ Len(v \o s) = Len(f) - 1 + Len(s)
        /\ \A k \in 1 .. Len(f) - 1 + Len(s) :
              (v \o s)[k] = IF k <= Len(f) - 1 THEN v[k] ELSE s[k - (Len(f) - 1)]
    <3> HIDE DEF v
    <3>1. /\ v \o s \in Seq(T)
          /\ Len(v \o s) = Len(v) + Len(s)
          /\ \A k \in 1 .. Len(v) + Len(s) :
                (v \o s)[k] = IF k <= Len(v) THEN v[k] ELSE s[k - Len(v)]
        BY <2>3, ConcatProperties
    <3> QED BY <2>3, <3>1
  <2>5. /\ Tail(w) \in Seq(T)
        /\ Len(Tail(w)) = Len(f) + Len(s) - 1
        /\ \A k \in 1 .. Len(f) + Len(s) - 1 : Tail(w)[k] = w[k + 1]
    <3>1. w # <<>>
        BY <1>2, <2>0, EmptySeq
    <3> QED BY <1>2, <3>1, HeadTailProperties
  <2>6. \A k \in 1 .. Len(f) - 1 + Len(s) : (v \o s)[k] = Tail(w)[k]
    <3> HIDE DEF v, p, r
    <3> TAKE k \in 1 .. Len(f) - 1 + Len(s)
    <3>1. k + 1 \in 1 .. Len(f) + Len(s) /\ Tail(w)[k] = w[k + 1]
        BY <2>0, <2>5
    <3>2. CASE k <= Len(f) - 1
      <4>1. (v \o s)[k] = v[k] /\ v[k] = f[Len(f) - k]
          BY <2>0, <2>3, <2>4, <3>2
      <4>2. w[k + 1] = r[k + 1]
          BY <1>2, <2>0, <3>1, <3>2
      <4>3. r[k + 1] = f[Len(f) - (k + 1) + 1]
          BY <1>1, <2>0, <3>2
      <4>4. Len(f) - (k + 1) + 1 = Len(f) - k
          BY <2>0
      <4> QED BY <3>1, <4>1, <4>2, <4>3, <4>4
    <3>3. CASE ~ (k <= Len(f) - 1)
      <4>1. (v \o s)[k] = s[k - (Len(f) - 1)]
          BY <2>4, <3>3
      <4>2. w[k + 1] = s[(k + 1) - Len(f)]
          BY <1>2, <2>0, <3>1, <3>3
      <4>3. k - (Len(f) - 1) = (k + 1) - Len(f)
          BY <2>0
      <4> QED BY <3>1, <4>1, <4>2, <4>3
    <3> QED BY <3>2, <3>3
  <2>7. v \o s = Tail(w)
    <3> HIDE DEF v, p
    <3> QED BY <2>0, <2>4, <2>5, <2>6, SeqEqual
  <2> QED BY <2>1, <2>2, <2>7
<1> QED BY <1>2, <1>4

LEMMA QueueLast ==
    ASSUME NEW f \in Seq(T), NEW s \in Seq(T), s # <<>>
    PROVE  (TurnedOver(f) \o s)[Len(f) + Len(s)] = Top(s)
<1>1. /\ TurnedOver(f) \in Seq(T) /\ Len(TurnedOver(f)) = Len(f)
      /\ Len(f) \in Nat /\ Len(s) \in Nat \ {0}
    BY TurnedOverType, EmptySeq, LenProperties
<1>2. PICK r : r = TurnedOver(f)
    OBVIOUS
<1>3. \A k \in 1 .. Len(r) + Len(s) :
          (r \o s)[k] = IF k <= Len(r) THEN r[k] ELSE s[k - Len(r)]
    BY <1>1, <1>2, ConcatProperties
<1>4. (r \o s)[Len(f) + Len(s)] = s[Len(f) + Len(s) - Len(f)]
    BY <1>1, <1>2, <1>3
<1>5. Len(f) + Len(s) - Len(f) = Len(s)
    BY <1>1
<1> QED BY <1>2, <1>4, <1>5 DEF Top

(* The two stacks after a move, as PICK takes them.                        *)
LEMMA MovedToFirst ==
    ASSUME QueueTypeOK, size > 0
    PROVE  \E src \in Seq(T), dst \in Seq(T) :
              /\ move(second_stack, first_stack) = [src |-> src, dst |-> dst]
              /\ Len(src) + Len(dst) = size
              /\ dst # <<>>
              /\ TurnedOver(dst) \o src = Queue
<1> DEFINE m == move(second_stack, first_stack)
<1>1. m = [src |-> m.src, dst |-> m.dst]
    BY DEF move
<1>2. /\ m.src \in Seq(T) /\ m.dst \in Seq(T)
      /\ Len(m.src) + Len(m.dst) = size
      /\ m.dst # <<>>
      /\ TurnedOver(m.dst) \o m.src = Queue
    BY MoveToFirst DEF QueueTypeOK, size, Queue
<1> HIDE DEF m
<1>3. \E src \in Seq(T), dst \in Seq(T) :
          /\ m = [src |-> src, dst |-> dst]
          /\ Len(src) + Len(dst) = size
          /\ dst # <<>>
          /\ TurnedOver(dst) \o src = Queue
    BY <1>1, <1>2
<1> QED BY <1>3 DEF m

LEMMA MovedToSecond ==
    ASSUME QueueTypeOK, size > 0
    PROVE  \E src \in Seq(T), dst \in Seq(T) :
              /\ move(first_stack, second_stack) = [src |-> src, dst |-> dst]
              /\ Len(src) + Len(dst) = size
              /\ dst # <<>>
              /\ TurnedOver(src) \o dst = Queue
<1> DEFINE m == move(first_stack, second_stack)
<1>1. m = [src |-> m.src, dst |-> m.dst]
    BY DEF move
<1>2. /\ m.src \in Seq(T) /\ m.dst \in Seq(T)
      /\ Len(m.src) + Len(m.dst) = size
      /\ m.dst # <<>>
      /\ TurnedOver(m.src) \o m.dst = Queue
    BY MoveToSecond DEF QueueTypeOK, size, Queue
<1> HIDE DEF m
<1>3. \E src \in Seq(T), dst \in Seq(T) :
          /\ m = [src |-> src, dst |-> dst]
          /\ Len(src) + Len(dst) = size
          /\ dst # <<>>
          /\ TurnedOver(src) \o dst = Queue
    BY <1>1, <1>2
<1> QED BY <1>3 DEF m

-----------------------------------------------------------------------------
(* The stacks hold values and never more than MaxSize of them.             *)
LEMMA TypeStep == QueueTypeOK /\ [QueueNext]_queueVars => QueueTypeOK'
<1> SUFFICES ASSUME QueueTypeOK, [QueueNext]_queueVars PROVE QueueTypeOK'
    OBVIOUS
<1> USE QueueAssumption DEF QueueTypeOK, size
<1>1. CASE \E v \in T : push(v)
    BY <1>1 DEF push
<1>2. CASE pop
  <2>1. PICK src \in Seq(T), dst \in Seq(T) :
            /\ move(second_stack, first_stack) = [src |-> src, dst |-> dst]
            /\ Len(src) + Len(dst) = size /\ dst # <<>>
      BY <1>2, MovedToFirst DEF pop
  <2>2. second_stack' = src /\ first_stack' = Popped(dst)
      BY <1>2, <2>1 DEF pop
  <2>3. Popped(dst) \in Seq(T) /\ Len(Popped(dst)) = Len(dst) - 1
      BY <2>1, QueueEnds
  <2> QED BY <2>1, <2>2, <2>3
<1>3. CASE front
  <2>1. PICK src \in Seq(T), dst \in Seq(T) :
            /\ move(second_stack, first_stack) = [src |-> src, dst |-> dst]
            /\ Len(src) + Len(dst) = size
      BY <1>3, MovedToFirst DEF front
  <2>2. second_stack' = src /\ first_stack' = dst
      BY <1>3, <2>1 DEF front
  <2> QED BY <2>1, <2>2
<1>4. CASE back
  <2>1. PICK src \in Seq(T), dst \in Seq(T) :
            /\ move(first_stack, second_stack) = [src |-> src, dst |-> dst]
            /\ Len(src) + Len(dst) = size
      BY <1>4, MovedToSecond DEF back
  <2>2. first_stack' = src /\ second_stack' = dst
      BY <1>4, <2>1 DEF back
  <2> QED BY <2>1, <2>2
<1>5. CASE empty \/ Size \/ UNCHANGED queueVars
    BY <1>5 DEF empty, Size, queueVars
<1> QED BY <1>1, <1>2, <1>3, <1>4, <1>5 DEF QueueNext

(* MyQueue: type correctness.                                              *)
THEOREM QueueTypeCorrect == QueueSpec => []QueueTypeOK
<1>1. QueueInit => QueueTypeOK
    BY QueueAssumption DEF QueueInit, QueueTypeOK, size
<1> QED BY <1>1, TypeStep, PTL DEF QueueSpec

-----------------------------------------------------------------------------
(* Every call does to the queue what the call of FifoQueue does.           *)
LEMMA QueueStep ==
    QueueTypeOK /\ [QueueNext]_queueVars => [Fifo!Next]_<<Queue, ret>>
<1> SUFFICES ASSUME QueueTypeOK, [QueueNext]_queueVars
             PROVE  [Fifo!Next]_<<Queue, ret>>
    OBVIOUS
<1> USE DEF QueueTypeOK, size, Queue
<1>0. /\ Len(Queue) = size
      /\ Queue \in Seq(T)
    BY QueueEnds, TurnedOverType
<1>1. CASE \E v \in T : push(v)
  <2>1. PICK v \in T : push(v)
      BY <1>1
  <2>2. Queue' = Append(Queue, v)
      BY <2>1, TurnedOverType DEF push
  <2> QED BY <2>1, <2>2 DEF push, Fifo!Next, Fifo!Push, Void, Fifo!Void
<1>2. CASE pop
  <2>1. PICK src \in Seq(T), dst \in Seq(T) :
            /\ move(second_stack, first_stack) = [src |-> src, dst |-> dst]
            /\ dst # <<>> /\ TurnedOver(dst) \o src = Queue
      BY <1>2, MovedToFirst DEF pop
  <2>2. second_stack' = src /\ first_stack' = Popped(dst)
      BY <1>2, <2>1 DEF pop
  <2>3. TurnedOver(Popped(dst)) \o src = Tail(TurnedOver(dst) \o src)
      BY <2>1, QueueEnds
  <2>4. Queue' = Tail(Queue)
      BY <2>1, <2>2, <2>3
  <2>5. Queue # <<>>
      BY <1>0, <1>2 DEF pop
  <2> QED BY <1>2, <2>4, <2>5 DEF pop, Fifo!Next, Fifo!Pop, Void, Fifo!Void
<1>3. CASE front
  <2>1. PICK src \in Seq(T), dst \in Seq(T) :
            /\ move(second_stack, first_stack) = [src |-> src, dst |-> dst]
            /\ dst # <<>> /\ TurnedOver(dst) \o src = Queue
      BY <1>3, MovedToFirst DEF front
  <2>2. second_stack' = src /\ first_stack' = dst /\ ret' = <<"front", Top(dst)>>
      BY <1>3, <2>1 DEF front
  <2>3. (TurnedOver(dst) \o src)[1] = Top(dst)
      BY <2>1, QueueEnds
  <2>4. Queue' = Queue /\ Queue[1] = Top(dst)
      BY <2>1, <2>2, <2>3
  <2>5. Queue # <<>>
      BY <1>0, <1>3 DEF front
  <2> QED BY <2>2, <2>4, <2>5 DEF Fifo!Next, Fifo!Front
<1>4. CASE back
  <2>1. PICK src \in Seq(T), dst \in Seq(T) :
            /\ move(first_stack, second_stack) = [src |-> src, dst |-> dst]
            /\ Len(src) + Len(dst) = size
            /\ dst # <<>> /\ TurnedOver(src) \o dst = Queue
      BY <1>4, MovedToSecond DEF back
  <2>2. first_stack' = src /\ second_stack' = dst /\ ret' = <<"back", Top(dst)>>
      BY <1>4, <2>1 DEF back
  <2>3. Queue[Len(Queue)] = Top(dst)
    <3>1. (TurnedOver(src) \o dst)[Len(src) + Len(dst)] = Top(dst)
        BY <2>1, QueueLast
    <3> QED BY <1>0, <2>1, <3>1
  <2>4. Queue' = Queue
      BY <2>1, <2>2
  <2>5. Queue # <<>>
      BY <1>0, <1>4 DEF back
  <2> QED BY <2>2, <2>3, <2>4, <2>5 DEF Fifo!Next, Fifo!Back
<1>5. CASE empty
  <2>1. (size = 0) = (Queue = <<>>)
      BY <1>0
  <2> QED BY <1>5, <2>1 DEF empty, Fifo!Next, Fifo!Empty
<1>6. CASE Size
    BY <1>0, <1>6 DEF Size, Fifo!Next, Fifo!Size
<1>7. CASE UNCHANGED queueVars
    BY <1>7 DEF queueVars
<1> QED BY <1>1, <1>2, <1>3, <1>4, <1>5, <1>6, <1>7 DEF QueueNext

(* MyQueue implements FifoQueue: move is invisible to the callers of push, *)
(* pop, front, back, empty and size.                                       *)
THEOREM QueueIsFifo == QueueSpec => ImplementsFifoQueue
<1>1. QueueInit => Fifo!Init
    BY TurnedOverEmpty DEF QueueInit, Queue, Fifo!Init, Void, Fifo!Void
<1> QED BY <1>1, QueueStep, QueueTypeCorrect, PTL
        DEF QueueSpec, ImplementsFifoQueue, Fifo!Spec

-----------------------------------------------------------------------------
(* Base64, for every string.                                               *)

Byte == 0 .. 255

LEMMA LetterFacts ==
    ASSUME NEW v \in 0 .. 63
    PROVE  /\ Letter(v) \in Nat /\ Letter(v) # Pad
           /\ b64_lookup(Letter(v)) = v
<1>1. \A u \in 0 .. 63 :
        /\ u < 26 => Letter(u) = u + 65
        /\ u >= 26 /\ u < 52 => Letter(u) = u + 71
        /\ u >= 52 /\ u < 62 => Letter(u) = u - 4
        /\ u = 62 => Letter(u) = 43
        /\ u = 63 => Letter(u) = 47
  BY DEF Letter
<1>2. \A u \in 0 .. 63 :
        \/ u < 26
        \/ u >= 26 /\ u < 52
        \/ u >= 52 /\ u < 62
        \/ u = 62 \/ u = 63
  OBVIOUS
<1>3. Letter(v) \in Nat /\ Letter(v) # Pad
  BY <1>1, <1>2 DEF Pad
<1>4. \A u \in 0 .. 63 : Letter(u) = Letter(v) => u = v
  BY <1>1, <1>2
<1>5. (CHOOSE u \in 0 .. 63 : Letter(u) = Letter(v)) = v
  BY <1>4
<1> QED BY <1>3, <1>5 DEF b64_lookup

(* What two neighbouring letters give back.                                *)
LEMMA BitsFacts ==
    ASSUME NEW a, a[1] \in Byte, a[2] \in Byte, a[3] \in Byte
    PROVE  LET v == a3_to_a4(a) IN
           /\ \A k \in 1 .. 4 : v[k] \in 0 .. 63
           /\ (v[1] * 4 + ((v[2] % 64) \div 16)) % 256 = a[1]
           /\ ((v[2] % 16) * 16 + ((v[3] % 64) \div 4)) % 256 = a[2]
           /\ ((v[3] % 4) * 64 + v[4]) % 256 = a[3]
<1> DEFINE v == a3_to_a4(a)
           x == a[1]
           y == a[2]
           z == a[3]
           xh == x \div 4
           xl == x % 4
           yh == y \div 16
           yl == y % 16
           zh == z \div 64
           zl == z % 64
<1>0. x \in Byte /\ y \in Byte /\ z \in Byte OBVIOUS
<1>1. /\ v[1] = xh /\ v[2] = xl * 16 + yh
      /\ v[3] = yl * 4 + zh /\ v[4] = zl
  BY DEF a3_to_a4
<1>2. /\ xh \in 0 .. 63 /\ xl \in 0 .. 3 /\ x = 4 * xh + xl
      /\ yh \in 0 .. 15 /\ yl \in 0 .. 15 /\ y = 16 * yh + yl
      /\ zh \in 0 .. 3 /\ zl \in 0 .. 63 /\ z = 64 * zh + zl
  BY DEF Byte
<1> HIDE DEF v, x, y, z, xh, xl, yh, yl, zh, zl
<1>3. v[1] \in 0 .. 63 /\ v[2] \in 0 .. 63 /\ v[3] \in 0 .. 63 /\ v[4] \in 0 .. 63
  BY <1>1, <1>2
<1>4. \A k \in 1 .. 4 : k = 1 \/ k = 2 \/ k = 3 \/ k = 4 OBVIOUS
<1>5. (v[1] * 4 + ((v[2] % 64) \div 16)) % 256 = x
  <2>1. (v[2] % 64) \div 16 = xl BY <1>1, <1>2
  <2>2. v[1] * 4 + xl = x BY <1>1, <1>2
  <2> QED BY <1>0, <2>1, <2>2 DEF Byte
<1>6. ((v[2] % 16) * 16 + ((v[3] % 64) \div 4)) % 256 = y
  <2>1. v[2] % 16 = yh BY <1>1, <1>2
  <2>2. (v[3] % 64) \div 4 = yl BY <1>1, <1>2
  <2>3. yh * 16 + yl = y BY <1>2
  <2> QED BY <1>0, <2>1, <2>2, <2>3 DEF Byte
<1>7. ((v[3] % 4) * 64 + v[4]) % 256 = z
  <2>1. v[3] % 4 = zh BY <1>1, <1>2
  <2>2. zh * 64 + v[4] = z BY <1>1, <1>2
  <2> QED BY <1>0, <2>1, <2>2 DEF Byte
<1> QED BY <1>3, <1>4, <1>5, <1>6, <1>7 DEF v, x, y, z

(* Letters j and j + 1 of a group are enough for its byte j.               *)
LEMMA ByteBack ==
    ASSUME NEW a, a[1] \in Byte, a[2] \in Byte, a[3] \in Byte,
           NEW b, NEW j \in 1 .. 3,
           b[j] = EncodedGroup(a)[j], b[j + 1] = EncodedGroup(a)[j + 1]
    PROVE  DecodedGroup(b)[j] = a[j]
<1> DEFINE v == a3_to_a4(a)
           u == [k \in 1 .. 4 |-> b64_lookup(b[k])]
<1>1. /\ \A k \in 1 .. 4 : v[k] \in 0 .. 63
      /\ (v[1] * 4 + ((v[2] % 64) \div 16)) % 256 = a[1]
      /\ ((v[2] % 16) * 16 + ((v[3] % 64) \div 4)) % 256 = a[2]
      /\ ((v[3] % 4) * 64 + v[4]) % 256 = a[3]
  BY BitsFacts
<1> HIDE DEF v
<1>2. \A k \in 1 .. 4 : EncodedGroup(a)[k] = Letter(v[k])
  BY DEF EncodedGroup, v
<1>3. j \in 1 .. 4 /\ j + 1 \in 1 .. 4 OBVIOUS
<1>4. u[j] = v[j] /\ u[j + 1] = v[j + 1]
  <2>1. u[j] = b64_lookup(b[j]) /\ u[j + 1] = b64_lookup(b[j + 1]) BY <1>3
  <2> HIDE DEF u
  <2> QED BY <2>1, <1>1, <1>2, <1>3, LetterFacts
<1>5. /\ DecodedGroup(b)[1] = (u[1] * 4 + ((u[2] % 64) \div 16)) % 256
      /\ DecodedGroup(b)[2] = ((u[2] % 16) * 16 + ((u[3] % 64) \div 4)) % 256
      /\ DecodedGroup(b)[3] = ((u[3] % 4) * 64 + u[4]) % 256
  <2>1. DecodedGroup(b) = a4_to_a3(u) BY DEF DecodedGroup
  <2> HIDE DEF u
  <2> QED BY <2>1 DEF a4_to_a3
<1> HIDE DEF u
<1>6. CASE j = 1 BY <1>6, <1>1, <1>4, <1>5
<1>7. CASE j = 2 BY <1>7, <1>1, <1>4, <1>5
<1>8. CASE j = 3 BY <1>8, <1>1, <1>4, <1>5
<1> QED BY <1>6, <1>7, <1>8

GroupCount(n) == (n + 2) \div 3
PaddingOf(n) == (3 - (n % 3)) % 3
LetterCount(n) == 4 * GroupCount(n) - PaddingOf(n)

(* n = 3 q + r bytes take q groups, and one more if r is not zero.         *)
LEMMA Counts ==
    ASSUME NEW q \in Nat, NEW r \in 0 .. 2
    PROVE  LET n == 3 * q + r IN
           /\ GroupCount(n) = IF r = 0 THEN q ELSE q + 1
           /\ PaddingOf(n) = IF r = 0 THEN 0 ELSE 3 - r
           /\ LetterCount(n) = IF r = 0 THEN 4 * q ELSE 4 * q + r + 1
<1> DEFINE n == 3 * q + r
<1>1. n % 3 = r BY SMT
<1>2. (n + 2) \div 3 = IF r = 0 THEN q ELSE q + 1 BY SMT
<1>3. (3 - (n % 3)) % 3 = IF r = 0 THEN 0 ELSE 3 - r
  <2>1. CASE r = 0 BY <2>1, <1>1
  <2>2. CASE r = 1 BY <2>2, <1>1
  <2>3. CASE r = 2 BY <2>3, <1>1
  <2> QED BY <2>1, <2>2, <2>3
<1>4. GroupCount(n) = IF r = 0 THEN q ELSE q + 1 BY <1>2 DEF GroupCount
<1>5. PaddingOf(n) = IF r = 0 THEN 0 ELSE 3 - r BY <1>3 DEF PaddingOf
<1>6. CASE r = 0 BY <1>6, <1>4, <1>5 DEF LetterCount
<1>7. CASE r # 0
  <2>1. LetterCount(n) = 4 * (q + 1) - (3 - r) BY <1>7, <1>4, <1>5 DEF LetterCount
  <2>2. 4 * (q + 1) - (3 - r) = 4 * q + r + 1 OBVIOUS
  <2> QED BY <2>1, <2>2, <1>4, <1>5, <1>7
<1> QED BY <1>6, <1>7

LEMMA Sizes ==
    ASSUME NEW n \in Nat, n > 0
    PROVE  LET m == PaddingOf(n)
               l == LetterCount(n)
           IN
           /\ GroupCount(n) \in Nat /\ m \in 0 .. 2 /\ l \in Nat /\ l > 0
           /\ l + m = 4 * GroupCount(n)
           /\ 4 * GroupCount(n) = EncodedLength(n)
           /\ (l + 3) \div 4 = GroupCount(n)
           /\ (l \div 4) * 3 + (IF l % 4 = 0 THEN 0 ELSE (l % 4) - 1) = n
           /\ ((6 * (l + m)) \div 8) - m = n
           /\ (6 * l) \div 8 = n
<1>1. PICK q \in Nat, r \in 0 .. 2 : n = 3 * q + r
  <2>1. n \div 3 \in Nat /\ n % 3 \in 0 .. 2 /\ n = 3 * (n \div 3) + (n % 3) OBVIOUS
  <2> QED BY <2>1
<1> DEFINE G == GroupCount(n)
           m == PaddingOf(n)
           l == LetterCount(n)
<1>2. /\ G = IF r = 0 THEN q ELSE q + 1
      /\ m = IF r = 0 THEN 0 ELSE 3 - r
      /\ l = IF r = 0 THEN 4 * q ELSE 4 * q + r + 1
  BY <1>1, Counts
<1> HIDE DEF G, m, l
<1>3. G \in Nat /\ m \in 0 .. 2 /\ l \in Nat /\ l > 0 /\ l + m = 4 * G
  BY <1>1, <1>2
<1>4. 4 * G = EncodedLength(n)
  <2>1. (n + 2 - ((n + 2) % 3)) \div 3 = G
    <3>1. CASE r = 0 BY <3>1, <1>1, <1>2
    <3>2. CASE r = 1 BY <3>2, <1>1, <1>2
    <3>3. CASE r = 2 BY <3>3, <1>1, <1>2
    <3> QED BY <3>1, <3>2, <3>3
  <2> QED BY <2>1, <1>3 DEF EncodedLength
<1>5. CASE r = 0
  <2>1. l = 4 * q /\ m = 0 /\ G = q /\ n = 3 * q BY <1>5, <1>1, <1>2
  <2>2. l % 4 = 0 /\ l \div 4 = q /\ (l + 3) \div 4 = q BY <2>1
  <2>3. (6 * l) \div 8 = 3 * q BY <2>1
  <2> QED BY <2>1, <2>2, <2>3, <1>3, <1>4 DEF G, m, l
<1>6. CASE r = 1
  <2>1. l = 4 * q + 2 /\ m = 2 /\ G = q + 1 /\ n = 3 * q + 1 BY <1>6, <1>1, <1>2
  <2>2. l % 4 = 2 /\ l \div 4 = q /\ (l + 3) \div 4 = q + 1 BY <2>1
  <2>3. (6 * l) \div 8 = 3 * q + 1 /\ (6 * (l + m)) \div 8 = 3 * q + 3 BY <2>1
  <2> QED BY <2>1, <2>2, <2>3, <1>3, <1>4 DEF G, m, l
<1>7. CASE r = 2
  <2>1. l = 4 * q + 3 /\ m = 1 /\ G = q + 1 /\ n = 3 * q + 2 BY <1>7, <1>1, <1>2
  <2>2. l % 4 = 3 /\ l \div 4 = q /\ (l + 3) \div 4 = q + 1 BY <2>1
  <2>3. (6 * l) \div 8 = 3 * q + 2 /\ (6 * (l + m)) \div 8 = 3 * q + 3 BY <2>1
  <2> QED BY <2>1, <2>2, <2>3, <1>3, <1>4 DEF G, m, l
<1> QED BY <1>5, <1>6, <1>7

(* Byte k is byte j of group g, and both letters it needs are there.       *)
LEMMA Places ==
    ASSUME NEW n \in Nat, NEW k \in 1 .. n
    PROVE  LET g == ((k - 1) \div 3) + 1
               j == ((k - 1) % 3) + 1
               i == 4 * (g - 1) + j
           IN
           /\ g \in 1 .. GroupCount(n) /\ j \in 1 .. 3 /\ k = 3 * (g - 1) + j
           /\ i \in 1 .. LetterCount(n) /\ i + 1 \in 1 .. LetterCount(n)
           /\ ((i - 1) \div 4) + 1 = g /\ ((i - 1) % 4) + 1 = j
           /\ (i \div 4) + 1 = g /\ (i % 4) + 1 = j + 1
<1>1. PICK q \in Nat, r \in 0 .. 2 : n = 3 * q + r
  <2>1. n \div 3 \in Nat /\ n % 3 \in 0 .. 2 /\ n = 3 * (n \div 3) + (n % 3) OBVIOUS
  <2> QED BY <2>1
<1>2. /\ GroupCount(n) = IF r = 0 THEN q ELSE q + 1
      /\ LetterCount(n) = IF r = 0 THEN 4 * q ELSE 4 * q + r + 1
  BY <1>1, Counts
<1> DEFINE g == ((k - 1) \div 3) + 1
           j == ((k - 1) % 3) + 1
           i == 4 * (g - 1) + j
<1>3. PICK p \in Nat, o \in 0 .. 2 : k - 1 = 3 * p + o
  <2>1. (k - 1) \div 3 \in Nat /\ (k - 1) % 3 \in 0 .. 2
        /\ k - 1 = 3 * ((k - 1) \div 3) + ((k - 1) % 3)
    OBVIOUS
  <2> QED BY <2>1
<1>4. (k - 1) \div 3 = p /\ (k - 1) % 3 = o BY <1>3
<1>5. g = p + 1 /\ j = o + 1 BY <1>4
<1>6. i = 4 * p + o + 1 BY <1>5
<1> HIDE DEF g, j, i
<1>7. p <= q /\ (r = 0 => p < q) /\ (p = q => o < r) BY <1>1, <1>3
<1>8. g \in 1 .. GroupCount(n) /\ j \in 1 .. 3 /\ k = 3 * (g - 1) + j
  BY <1>2, <1>3, <1>5, <1>7
<1>9. i \in 1 .. LetterCount(n) /\ i + 1 \in 1 .. LetterCount(n)
  BY <1>1, <1>2, <1>3, <1>6, <1>7
<1>10. /\ (i - 1) \div 4 = p /\ (i - 1) % 4 = o
       /\ i \div 4 = p /\ i % 4 = o + 1
  BY <1>6
<1>11. /\ ((i - 1) \div 4) + 1 = g /\ ((i - 1) % 4) + 1 = j
       /\ (i \div 4) + 1 = g /\ (i % 4) + 1 = j + 1
  BY <1>5, <1>10
<1> QED BY <1>8, <1>9, <1>11 DEF g, j, i

(* A string of l letters and nothing but '=' after them.                   *)
PaddedAfter(s, l) ==
    /\ \A k \in 1 .. l : s[k] # Pad
    /\ \A k \in l + 1 .. Len(s) : s[k] = Pad

LEMMA NumEqIs ==
    ASSUME NEW s \in Seq(Nat), NEW l \in 1 .. Len(s), PaddedAfter(s, l)
    PROVE  NumEq(s) = Len(s) - l
<1>1. Len(s) \in Nat BY LenProperties
<1>2. ASSUME NEW k \in 0 .. Len(s)
      PROVE  k \in Paddings(s) <=> k <= Len(s) - l
  <2>1. ASSUME k \in Paddings(s), k > Len(s) - l PROVE FALSE
    <3>1. l \in Len(s) - k + 1 .. Len(s) BY <2>1, <1>1
    <3>2. s[l] = Pad BY <2>1, <3>1 DEF Paddings
    <3> QED BY <3>2 DEF PaddedAfter
  <2>2. ASSUME k <= Len(s) - l, NEW j \in Len(s) - k + 1 .. Len(s) PROVE s[j] = Pad
    <3>1. j \in l + 1 .. Len(s) BY <2>2, <1>1
    <3> QED BY <3>1 DEF PaddedAfter
  <2>3. k <= Len(s) - l => k \in Paddings(s) BY <2>2 DEF Paddings
  <2>4. k \in Nat /\ Len(s) - l \in Nat BY <1>1
  <2> QED BY <2>1, <2>3, <2>4
<1>3. Len(s) - l \in 0 .. Len(s) BY <1>1
<1>4. Len(s) - l \in Paddings(s) /\ \A k \in Paddings(s) : k \in 0 .. Len(s) /\ k <= Len(s) - l
  <2>1. \A k \in Paddings(s) : k \in 0 .. Len(s) BY DEF Paddings
  <2>2. Len(s) - l <= Len(s) - l BY <1>1
  <2> QED BY <2>1, <2>2, <1>2, <1>3
<1>5. ASSUME NEW k \in Paddings(s), \A j \in Paddings(s) : j <= k
      PROVE  k = Len(s) - l
  <2>1. k <= Len(s) - l /\ Len(s) - l <= k /\ k \in 0 .. Len(s) BY <1>4, <1>5
  <2> QED BY <2>1, <1>1
<1> QED BY <1>4, <1>5 DEF NumEq

LEMMA LettersAre ==
    ASSUME NEW s \in Seq(Nat), NEW l \in 1 .. Len(s), PaddedAfter(s, l)
    PROVE  Letters(s) = SubSeq(s, 1, l)
<1> DEFINE P(k) == /\ \A j \in 1 .. k : s[j] # Pad
                   /\ k < Len(s) => s[k + 1] = Pad
<1>1. Len(s) \in Nat BY LenProperties
<1>2. l \in 0 .. Len(s) /\ P(l)
  <2>1. l < Len(s) => l + 1 \in l + 1 .. Len(s) BY <1>1
  <2> QED BY <2>1, <1>1 DEF PaddedAfter
<1>3. ASSUME NEW k \in 0 .. Len(s), P(k) PROVE k = l
  <2>1. CASE k < l
    <3>1. k < Len(s) /\ k + 1 \in 1 .. l BY <2>1, <1>1
    <3> QED BY <3>1, <1>3 DEF PaddedAfter
  <2>2. CASE k > l
    <3>1. l + 1 \in l + 1 .. Len(s) /\ l + 1 \in 1 .. k BY <2>2, <1>1
    <3> QED BY <3>1, <1>3 DEF PaddedAfter
  <2> QED BY <2>1, <2>2, <1>1
<1> HIDE DEF P
<1>4. (CHOOSE k \in 0 .. Len(s) : P(k)) = l BY <1>2, <1>3
<1> QED BY <1>4 DEF Letters, P

LEMMA GroupsOfThree ==
    ASSUME NEW s \in Seq(Byte)
    PROVE  /\ Len(Groups(s, 3)) = GroupCount(Len(s))
           /\ \A g \in 1 .. GroupCount(Len(s)), j \in 1 .. 3 :
                /\ Groups(s, 3)[g][j] \in Byte
                /\ 3 * (g - 1) + j <= Len(s) => Groups(s, 3)[g][j] = s[3 * (g - 1) + j]
<1> DEFINE n == Len(s)
           e(g) == [k \in 1 .. 3 |-> IF (g - 1) * 3 + k <= n THEN s[(g - 1) * 3 + k] ELSE 0]
           G == [g \in 1 .. GroupCount(n) |-> e(g)]
<1>1. n \in Nat /\ GroupCount(n) \in Nat BY LenProperties DEF GroupCount
<1>2. Groups(s, 3) = G
  <2>1. (n + 3 - 1) \div 3 = GroupCount(n)
    <3>1. n + 3 - 1 = n + 2 BY <1>1
    <3> QED BY <3>1 DEF GroupCount
  <2> QED BY <2>1 DEF Groups
<1>3. ASSUME NEW g \in 1 .. GroupCount(n), NEW j \in 1 .. 3
      PROVE  /\ G[g][j] \in Byte
             /\ 3 * (g - 1) + j <= n => G[g][j] = s[3 * (g - 1) + j]
  <2>1. (g - 1) * 3 + j = 3 * (g - 1) + j /\ 3 * (g - 1) + j \in Nat
        /\ 3 * (g - 1) + j >= 1
    BY <1>1
  <2>2. G[g][j] = IF 3 * (g - 1) + j <= n THEN s[3 * (g - 1) + j] ELSE 0
    BY <2>1
  <2>3. 3 * (g - 1) + j <= n => 3 * (g - 1) + j \in 1 .. n BY <2>1, <1>1
  <2>4. 0 \in Byte BY DEF Byte
  <2> HIDE DEF G
  <2> QED BY <2>2, <2>3, <2>4, ElementOfSeq
<1>4. Len(G) = GroupCount(n)
  <2> HIDE DEF e
  <2> QED BY <1>1
<1> HIDE DEF G
<1> QED BY <1>2, <1>3, <1>4

LEMMA GroupsOfFour ==
    ASSUME NEW s \in Seq(Nat), NEW c \in Nat, (Len(s) + 3) \div 4 = c
    PROVE  \A g \in 1 .. c, j \in 1 .. 4 :
              4 * (g - 1) + j <= Len(s) => Groups(s, 4)[g][j] = s[4 * (g - 1) + j]
<1> DEFINE n == Len(s)
           e(g) == [k \in 1 .. 4 |-> IF (g - 1) * 4 + k <= n THEN s[(g - 1) * 4 + k] ELSE 0]
           G == [g \in 1 .. c |-> e(g)]
<1>1. n \in Nat BY LenProperties
<1>2. Groups(s, 4) = G
  <2>1. (n + 4 - 1) \div 4 = c
    <3>1. n + 4 - 1 = n + 3 BY <1>1
    <3> QED BY <3>1
  <2> QED BY <2>1 DEF Groups
<1>3. ASSUME NEW g \in 1 .. c, NEW j \in 1 .. 4
      PROVE  4 * (g - 1) + j <= n => G[g][j] = s[4 * (g - 1) + j]
  <2>1. (g - 1) * 4 + j = 4 * (g - 1) + j BY <1>1
  <2> QED BY <2>1
<1> HIDE DEF G
<1> QED BY <1>2, <1>3

(* Letter i of what is encoded.                                            *)
Encoded(in, i) == EncodedGroup(Groups(in, 3)[((i - 1) \div 4) + 1])[((i - 1) % 4) + 1]

LEMMA EncodeFacts ==
    ASSUME NEW in \in Seq(Byte), in # <<>>
    PROVE  LET l == LetterCount(Len(in))
               out == Encode(in).out
           IN
           /\ Encode(in).ok /\ out \in Seq(Nat)
           /\ Len(out) = l + PaddingOf(Len(in))
           /\ \A i \in 1 .. l : out[i] = Encoded(in, i)
           /\ PaddedAfter(out, l)
<1> DEFINE n == Len(in)
           l == LetterCount(n)
           m == PaddingOf(n)
           c == GroupCount(n)
           G == Groups(in, 3)
           e(i) == IF i > 4 * c - m THEN Pad ELSE Encoded(in, i)
           o == [i \in 1 .. 4 * c |-> e(i)]
<1>1. n \in Nat /\ n > 0 BY LenProperties, EmptySeq
<1>2. /\ c \in Nat /\ m \in 0 .. 2 /\ l \in Nat /\ l > 0 /\ l + m = 4 * c
      /\ 4 * c = EncodedLength(n)
  BY <1>1, Sizes
<1>3. /\ Len(G) = c
      /\ \A g \in 1 .. c, j \in 1 .. 3 : G[g][j] \in Byte
  BY GroupsOfThree
<1>4. Encode(in).ok /\ Encode(in).out = o
  <2>1. 4 * Len(G) = EncodedLength(n) BY <1>2, <1>3
  <2>2. Encode(in).ok = (4 * Len(G) = EncodedLength(n)) BY DEF Encode
  <2>3. Encode(in).out = o BY <1>3 DEF Encode, Encoded, PaddingOf
  <2> QED BY <2>1, <2>2, <2>3
<1> HIDE DEF c, m, l, G
<1>5. ASSUME NEW i \in 1 .. 4 * c PROVE Encoded(in, i) \in Nat /\ Encoded(in, i) # Pad
  <2> DEFINE g == ((i - 1) \div 4) + 1
             k == ((i - 1) % 4) + 1
  <2>1. g \in 1 .. c /\ k \in 1 .. 4 BY <1>2
  <2>2. G[g][1] \in Byte /\ G[g][2] \in Byte /\ G[g][3] \in Byte BY <2>1, <1>3
  <2> HIDE DEF g, k
  <2>3. a3_to_a4(G[g])[k] \in 0 .. 63 BY <2>1, <2>2, BitsFacts
  <2>4. EncodedGroup(G[g])[k] = Letter(a3_to_a4(G[g])[k]) BY <2>1 DEF EncodedGroup
  <2>5. Encoded(in, i) = EncodedGroup(G[g])[k] BY DEF Encoded, g, k, G
  <2> QED BY <2>3, <2>4, <2>5, LetterFacts
<1>6. 4 * c \in Nat /\ 4 * c - m = l BY <1>2
<1>7. Pad \in Nat BY DEF Pad
<1>8. \A i \in 1 .. 4 * c : e(i) \in Nat BY <1>5, <1>7
<1>9. /\ \A i \in 1 .. l : i \in 1 .. 4 * c /\ e(i) = Encoded(in, i)
      /\ \A i \in l + 1 .. 4 * c : i \in 1 .. 4 * c /\ e(i) = Pad
  BY <1>2, <1>6
<1> HIDE DEF e
<1>10. /\ o \in Seq(Nat) /\ Len(o) = 4 * c
       /\ \A i \in 1 .. 4 * c : o[i] = e(i)
  <2>1. o \in Seq(Nat) BY <1>6, <1>8, IsASeq
  <2>2. DOMAIN o = 1 .. 4 * c OBVIOUS
  <2>3. \A i \in 1 .. 4 * c : o[i] = e(i) OBVIOUS
  <2> HIDE DEF o
  <2> QED BY <2>1, <2>2, <2>3, <1>6, LenProperties
<1> HIDE DEF o
<1>11. PaddedAfter(o, l) BY <1>5, <1>9, <1>10 DEF PaddedAfter
<1> QED BY <1>2, <1>4, <1>9, <1>10, <1>11 DEF l, m

(* The letters are decoded to the bytes that they were made of.            *)
LEMMA DecodeFacts ==
    ASSUME NEW in \in Seq(Byte), in # <<>>,
           NEW s \in Seq(Nat), LetterCount(Len(in)) \in 1 .. Len(s),
           \A i \in 1 .. LetterCount(Len(in)) : s[i] = Encoded(in, i),
           PaddedAfter(s, LetterCount(Len(in))),
           DecodedLength(s) = Len(in)
    PROVE  Decode(s).ok /\ Decode(s).out = in
<1> DEFINE n == Len(in)
           l == LetterCount(n)
           c == GroupCount(n)
           G == Groups(in, 3)
           ls == Letters(s)
           B == Groups(ls, 4)
           d(k) == DecodedGroup(B[((k - 1) \div 3) + 1])[((k - 1) % 3) + 1]
           o == [k \in 1 .. n |-> d(k)]
<1>1. n \in Nat /\ n > 0 /\ Len(s) \in Nat /\ \A k \in 1 .. n : in[k] \in Byte
  BY LenProperties, EmptySeq, ElementOfSeq
<1>2. /\ c \in Nat /\ l \in Nat /\ l > 0 /\ (l + 3) \div 4 = c
      /\ (l \div 4) * 3 + (IF l % 4 = 0 THEN 0 ELSE (l % 4) - 1) = n
  BY <1>1, Sizes
<1>3. ls \in Seq(Nat) /\ Len(ls) = l /\ \A i \in 1 .. l : ls[i] = Encoded(in, i)
  <2>1. ls = SubSeq(s, 1, l) BY LettersAre
  <2>2. \A i \in 1 .. l : s[i] \in Nat BY <1>1, ElementOfSeq
  <2> DEFINE t == SubSeq(s, 1, l)
  <2>3. t \in Seq(Nat) /\ Len(t) = l /\ \A i \in 1 .. l : t[i] = s[i]
    <3> HIDE DEF l
    <3> QED BY <2>2, <1>2, SubSeqProperties
  <2> HIDE DEF ls, t
  <2> QED BY <2>1, <2>3 DEF t
<1>4. Decode(s).ok /\ Decode(s).out = o
  <2> DEFINE dec_len == (Len(ls) \div 4) * 3
                        + (IF Len(ls) % 4 = 0 THEN 0 ELSE (Len(ls) % 4) - 1)
  <2>1. dec_len = n BY <1>2, <1>3
  <2>2. /\ Decode(s).ok = (dec_len = DecodedLength(s))
        /\ Decode(s).out = [k \in 1 .. dec_len |-> d(k)]
    BY DEF Decode
  <2> HIDE DEF d, ls, dec_len
  <2> QED BY <2>1, <2>2
<1>5. \A g \in 1 .. c, j \in 1 .. 3 :
        /\ G[g][j] \in Byte
        /\ 3 * (g - 1) + j <= n => G[g][j] = in[3 * (g - 1) + j]
  BY GroupsOfThree
<1>6. \A g \in 1 .. c, j \in 1 .. 4 :
        4 * (g - 1) + j <= l => B[g][j] = ls[4 * (g - 1) + j]
  <2> HIDE DEF ls, l, c
  <2> QED BY <1>2, <1>3, GroupsOfFour
<1> HIDE DEF l, c, ls, B, G
<1>7. ASSUME NEW k \in 1 .. n PROVE d(k) = in[k]
  <2> DEFINE g == ((k - 1) \div 3) + 1
             j == ((k - 1) % 3) + 1
             i == 4 * (g - 1) + j
  <2>1. /\ g \in 1 .. c /\ j \in 1 .. 3 /\ k = 3 * (g - 1) + j
        /\ i \in 1 .. l /\ i + 1 \in 1 .. l
        /\ ((i - 1) \div 4) + 1 = g /\ ((i - 1) % 4) + 1 = j
        /\ (i \div 4) + 1 = g /\ (i % 4) + 1 = j + 1
    BY <1>1, Places DEF c, l
  <2>2. i + 1 = 4 * (g - 1) + (j + 1) /\ (i + 1) - 1 = i BY <2>1
  <2>3. d(k) = DecodedGroup(B[g])[j] OBVIOUS
  <2>4. i = 4 * (g - 1) + j OBVIOUS
  <2> HIDE DEF g, j, i, d
  <2>5. ls[i] = EncodedGroup(G[g])[j] /\ ls[i + 1] = EncodedGroup(G[g])[j + 1]
    <3>1. Encoded(in, i) = EncodedGroup(G[g])[j] BY <2>1 DEF Encoded, G
    <3>2. Encoded(in, i + 1) = EncodedGroup(G[g])[j + 1] BY <2>1, <2>2 DEF Encoded, G
    <3> QED BY <3>1, <3>2, <2>1, <1>3
  <2>6. B[g][j] = ls[i] /\ B[g][j + 1] = ls[i + 1]
    <3>1. j \in 1 .. 4 /\ j + 1 \in 1 .. 4 /\ i <= l /\ i + 1 <= l BY <2>1
    <3> QED BY <3>1, <2>1, <2>2, <2>4, <1>6
  <2>7. G[g][1] \in Byte /\ G[g][2] \in Byte /\ G[g][3] \in Byte BY <2>1, <1>5
  <2>8. DecodedGroup(B[g])[j] = G[g][j]
    <3> DEFINE a == G[g]
               b == B[g]
    <3>1. a[1] \in Byte /\ a[2] \in Byte /\ a[3] \in Byte BY <2>7
    <3>2. b[j] = EncodedGroup(a)[j] /\ b[j + 1] = EncodedGroup(a)[j + 1]
      BY <2>5, <2>6
    <3>3. j \in 1 .. 3 BY <2>1
    <3> HIDE DEF a, b
    <3>4. DecodedGroup(b)[j] = a[j] BY <3>1, <3>2, <3>3, ByteBack
    <3> QED BY <3>4 DEF a, b
  <2>9. G[g][j] = in[k]
    <3>1. k <= n BY <1>1
    <3>2. 3 * (g - 1) + j <= n => G[g][j] = in[3 * (g - 1) + j] BY <2>1, <1>5
    <3> QED BY <3>1, <3>2, <2>1
  <2> QED BY <2>3, <2>8, <2>9
<1>8. o = in
  <2> HIDE DEF d
  <2>1. \A k \in 1 .. n : o[k] = in[k] BY <1>7
  <2>2. o \in Seq(Byte)
    <3>1. \A k \in 1 .. n : d(k) \in Byte BY <1>1, <1>7
    <3> QED BY <3>1, <1>1, IsASeq
  <2>3. Len(o) = n
    <3>1. DOMAIN o = 1 .. n OBVIOUS
    <3> HIDE DEF o
    <3> QED BY <3>1, <2>2, <1>1, LenProperties
  <2> HIDE DEF o
  <2> QED BY <2>1, <2>2, <2>3, SeqEqual
<1> QED BY <1>4, <1>8

(* Every string that is not empty is decoded to what it was, with its      *)
(* padding or without, and each call finds the length that it announced.   *)
THEOREM EveryStringRoundTrips ==
    ASSUME NEW in \in Seq(Byte), in # <<>>
    PROVE  RoundTrips(in)
<1> DEFINE n == Len(in)
           l == LetterCount(n)
           m == PaddingOf(n)
           out == Encode(in).out
           bare == StripPadding(out)
<1>1. n \in Nat /\ n > 0 BY LenProperties, EmptySeq
<1>2. /\ m \in 0 .. 2 /\ l \in Nat /\ l > 0
      /\ ((6 * (l + m)) \div 8) - m = n /\ (6 * l) \div 8 = n
  BY <1>1, Sizes
<1>3. /\ Encode(in).ok /\ out \in Seq(Nat) /\ Len(out) = l + m
      /\ \A i \in 1 .. l : out[i] = Encoded(in, i)
      /\ PaddedAfter(out, l)
  BY EncodeFacts
<1> HIDE DEF out, l, m
<1>4. l \in 1 .. Len(out) /\ Len(out) - l = m BY <1>2, <1>3
<1>5. NumEq(out) = m BY <1>3, <1>4, NumEqIs
<1>6. DecodedLength(out) = n BY <1>2, <1>3, <1>5 DEF DecodedLength
<1>7. Decode(out).ok /\ Decode(out).out = in
  BY <1>3, <1>4, <1>6, DecodeFacts DEF l
<1>8. /\ bare \in Seq(Nat) /\ Len(bare) = l
      /\ \A i \in 1 .. l : bare[i] = out[i]
  <2>1. bare = SubSeq(out, 1, l)
    <3>1. Len(out) - m = l BY <1>2, <1>3
    <3> QED BY <3>1, <1>5 DEF StripPadding
  <2>2. \A i \in 1 .. l : out[i] \in Nat BY <1>3, <1>4, ElementOfSeq
  <2> DEFINE t == SubSeq(out, 1, l)
  <2>3. t \in Seq(Nat) /\ Len(t) = l /\ \A i \in 1 .. l : t[i] = out[i]
    <3>1. /\ t \in Seq(Nat) /\ Len(t) = IF 1 <= l THEN l - 1 + 1 ELSE 0
          /\ \A i \in 1 .. l - 1 + 1 : t[i] = out[1 + i - 1]
      <4>1. 1 \in Int /\ l \in Int BY <1>2
      <4> QED BY <2>2, <4>1, SubSeqProperties
    <3>2. 1 <= l /\ l - 1 + 1 = l BY <1>2
    <3>3. \A i \in 1 .. l : t[i] = out[i]
      <4> TAKE i \in 1 .. l
      <4>1. 1 + i - 1 = i /\ i \in 1 .. l - 1 + 1 BY <3>2
      <4> HIDE DEF t
      <4> QED BY <3>1, <4>1
    <3> QED BY <3>1, <3>2, <3>3
  <2> HIDE DEF bare, t
  <2> QED BY <2>1, <2>3 DEF t
<1> HIDE DEF bare
<1>9. PaddedAfter(bare, l)
  <2>1. \A i \in 1 .. l : bare[i] # Pad BY <1>3, <1>8 DEF PaddedAfter
  <2>2. l + 1 .. Len(bare) = {} BY <1>2, <1>8
  <2> QED BY <2>1, <2>2 DEF PaddedAfter
<1>10. l \in 1 .. Len(bare) BY <1>2, <1>8
<1>11. NumEq(bare) = 0 BY <1>2, <1>8, <1>9, <1>10, NumEqIs
<1>12. DecodedLength(bare) = n BY <1>2, <1>8, <1>11 DEF DecodedLength
<1>13. Decode(bare).ok /\ Decode(bare).out = in
  <2>1. \A i \in 1 .. l : bare[i] = Encoded(in, i) BY <1>3, <1>8
  <2> QED BY <2>1, <1>8, <1>9, <1>10, <1>12, DecodeFacts DEF l
<1> QED BY <1>3, <1>7, <1>13 DEF RoundTrips, out, bare

(* Whatever a queue of bytes holds, in whatever way its stacks share it,   *)
(* survives being encoded and decoded.                                     *)
THEOREM QueuedBytesRoundTrip ==
    ASSUME T \subseteq Byte
    PROVE  QueueSpec => []Base64RoundTrip
<1>1. QueueTypeOK => Base64RoundTrip
  <2> SUFFICES ASSUME QueueTypeOK, Queue # <<>> PROVE RoundTrips(Queue)
    BY DEF Base64RoundTrip
  <2>1. first_stack \in Seq(T) /\ second_stack \in Seq(T) BY DEF QueueTypeOK
  <2>2. TurnedOver(first_stack) \in Seq(T) BY <2>1, TurnedOverType
  <2>3. Queue \in Seq(T)
    <3> DEFINE s == TurnedOver(first_stack)
    <3> HIDE DEF s
    <3>1. s \o second_stack \in Seq(T) BY <2>1, <2>2, ConcatProperties DEF s
    <3> QED BY <3>1 DEF Queue, s
  <2>4. Queue \in Seq(Byte)
    <3>1. Len(Queue) \in Nat /\ Queue = [k \in 1 .. Len(Queue) |-> Queue[k]]
      BY <2>3, LenProperties
    <3>2. \A k \in 1 .. Len(Queue) : Queue[k] \in Byte BY <2>3, ElementOfSeq
    <3> DEFINE q == Queue
    <3> HIDE DEF q
    <3> QED BY <3>1, <3>2, IsASeq DEF q
  <2> QED BY <2>4, EveryStringRoundTrips
<1> QED BY <1>1, QueueTypeCorrect, PTL
================================================================================
